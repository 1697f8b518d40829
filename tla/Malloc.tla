--------------------------------- MODULE Malloc ---------------------------------
(***************************************************************************)
(* The production allocator (05-production/src/malloc.c) under threads     *)
(* that allocate, resize and free blocks.                                  *)
(*                                                                         *)
(* Three spin locks protect the list of mappings, the slabs and the arena. *)
(* A call is a sequence of critical sections with nothing shared between   *)
(* them: pc is the section a thread is at, inside says that it has taken   *)
(* the section's lock; the section is one step, which releases the lock.   *)
(* A pointer is the area it is in and where: the header of the block, the  *)
(* number of the mapping, or the number of the slot, counting over slabs.  *)
(***************************************************************************)
EXTENDS Arena, Sequences, SequencesExt

CONSTANTS
  Threads,
  MmapThreshold,   \* MMAP_THRESHOLD
  SmallThreshold,  \* SMALL_THRESHOLD
  SlotSizes,       \* slab_sizes: words of a slot, by class
  SlotsPerSlab,    \* slots of a slab
  MaxSlabs, MaxMaps, \* slabs and mappings the system grants
  SizeLimit,       \* size_t wraps around here
  Programs         \* the programs that use the allocator, within bounds

\* A program has threads that ask for sizes (words), of calloc for arrays (pairs of
\* nmemb and size), in at most maxCalls calls; warm says that a call returned
\* before the threads were started.
Program(threads, sizes, arrays, warm, maxCalls) ==
  [threads |-> threads, sizes |-> sizes, arrays |-> arrays, warm |-> warm,
   maxCalls |-> maxCalls]

ASSUME MallocAssumption ==
  /\ {MmapThreshold, SmallThreshold, SlotsPerSlab, MaxSlabs, MaxMaps, SizeLimit} \subseteq Nat \ {0}
  /\ SlotSizes \in Seq(Nat) /\ Len(SlotSizes) > 0
  /\ \A c \in DOMAIN SlotSizes : 2 * c <= SlotSizes[c]
  /\ \A b \in Programs :
       /\ b.threads \subseteq Threads /\ b.sizes \subseteq 1 .. SizeLimit - 2
       /\ b.arrays \subseteq (1 .. SizeLimit - 2) \X (1 .. SizeLimit - 2)
       /\ b.warm \in BOOLEAN /\ b.maxCalls \in Nat

VARIABLES
  program, \* the program that runs; it never changes
  arena,
  slabs,   \* the slabs in the order of their creation: class, bitmap, n_used
  maps,    \* mmap_list from its head: number and user_size of each mapping
  lock,    \* the locks that are taken
  initialized,  \* locks_initialized
  thread,  \* what each thread is at
  live,    \* the blocks in the program's hands and the words it asked for
  calls,   \* calls made (for the bound)
  wiped    \* trimming zeroed a header or a link

vars == <<program, arena, slabs, maps, lock, initialized, thread, live, calls, wiped>>

Locks == {"arena", "slab", "mmap"}

LockOf == [mmap_alloc |-> "mmap", slab_alloc |-> "slab", arena_alloc |-> "arena",
           mmap_free  |-> "mmap", slab_free  |-> "slab", arena_free  |-> "arena",
           mmap_find  |-> "mmap", slab_find  |-> "slab", arena_resize |-> "arena"]

\* ensure_locks initializes the locks in this order.
InitOrder == <<"arena", "slab", "mmap">>

Nowhere == [area |-> "none", at |-> 0]
InArena(h) == [area |-> "arena", at |-> h]
InSlab(i, slot) == [area |-> "slab", at |-> i * SlotsPerSlab + slot]
InMap(k) == [area |-> "mmap", at |-> k]

\* What the caller keeps in its blocks: any word; this one reads as a header too.
UserWord == 7

Idle == [pc |-> "idle", inside |-> FALSE, then |-> "idle", ptr |-> Nowhere,
         size |-> 0, asked |-> 0, had |-> 0, keep |-> 0, new |-> Nowhere]

Init ==
  /\ program \in Programs
  /\ arena = Unmapped /\ slabs = << >> /\ maps = << >>
  /\ lock = {} /\ initialized = program.warm
  /\ thread = [t \in Threads |-> Idle]
  /\ live = [p \in {} |-> 0]
  /\ calls = 0
  /\ wiped = FALSE

--------------------------------------------------------------------------------
\* Calls.  A thread passes only blocks that are in the program's hands.

SlabClass(size) == IF size > SmallThreshold THEN 0 ELSE (size + 1) \div 2

\* The section of mira_malloc that serves a size.
Serves(size) ==
  CASE Needed(size) >= MmapThreshold -> "mmap_alloc"
    [] Needed(size) < MmapThreshold /\ SlabClass(size) \in DOMAIN SlotSizes -> "slab_alloc"
    [] OTHER -> "arena_alloc"

\* Thread t makes a call, with th for its arguments; ensure_locks comes first.
Call(t, section, th) ==
  /\ thread[t].pc = "idle" /\ calls < program.maxCalls /\ ~wiped
  /\ calls' = calls + 1
  /\ thread' = [thread EXCEPT ![t] =
                  [th EXCEPT !.pc = IF initialized THEN section ELSE "init1", !.then = section]]
  /\ UNCHANGED <<program, arena, slabs, maps, lock, initialized, wiped>>

\* Block p leaves the program's hands, or comes into them with size words asked for.
Take(p) == live' = [q \in DOMAIN live \ {p} |-> live[q]]
Give(p, size) == live' = [q \in DOMAIN live \cup {p} |-> IF q = p THEN size ELSE live[q]]

CallMalloc(t, size) ==
  /\ Call(t, Serves(size), [Idle EXCEPT !.size = size, !.asked = size])
  /\ UNCHANGED live

\* A slip to rule out: the product is not checked.
CallCallocUnchecked(t, nmemb, size) ==
  /\ Call(t, Serves((nmemb * size) % SizeLimit),
          [Idle EXCEPT !.size = (nmemb * size) % SizeLimit, !.asked = nmemb * size])
  /\ UNCHANGED live

\* mira_calloc refuses a product that wraps around.
CallCalloc(t, nmemb, size) ==
  LET total == (nmemb * size) % SizeLimit IN
  /\ total \div nmemb = size
  /\ Call(t, Serves(total), [Idle EXCEPT !.size = total, !.asked = nmemb * size])
  /\ UNCHANGED live

CallFree(t, p) ==
  /\ Call(t, "mmap_free", [Idle EXCEPT !.ptr = p])
  /\ Take(p)

CallRealloc(t, p, size) ==
  /\ Call(t, "mmap_find", [Idle EXCEPT !.ptr = p, !.size = size, !.asked = size,
                                       !.had = Min({live[p], size})])
  /\ Take(p)

\* ensure_locks: nothing keeps two threads from doing this together.
InitLock(t, i) ==
  /\ thread[t].pc = <<"init1", "init2", "init3">>[i]
  /\ lock' = lock \ {InitOrder[i]}
  /\ thread' = [thread EXCEPT ![t].pc = <<"init2", "init3", "init4">>[i]]
  /\ UNCHANGED <<program, arena, slabs, maps, initialized, live, calls, wiped>>

InitDone(t) ==
  /\ thread[t].pc = "init4"
  /\ initialized' = TRUE
  /\ thread' = [thread EXCEPT ![t].pc = thread[t].then]
  /\ UNCHANGED <<program, arena, slabs, maps, lock, live, calls, wiped>>

--------------------------------------------------------------------------------
\* Critical sections.

Enter(t) ==
  LET th == thread[t] IN
  /\ th.pc \in DOMAIN LockOf /\ ~th.inside
  /\ LockOf[th.pc] \notin lock
  /\ lock' = lock \cup {LockOf[th.pc]}
  /\ thread' = [thread EXCEPT ![t].inside = TRUE]
  /\ UNCHANGED <<program, arena, slabs, maps, initialized, live, calls, wiped>>

At(t, section) == thread[t].pc = section /\ thread[t].inside /\ ~wiped

\* A slip to rule out: leaving a section releases every lock.
LeaveAll(t) == lock' = {}

Leave(t) == lock' = lock \ {LockOf[thread[t].pc]}

\* The caller gets p and fills the words of it that do not hold its data yet.
Filled(a, p, had, size) ==
  IF p.area # "arena" THEN a
  ELSE [a EXCEPT !.mem = [x \in Addresses |->
          IF x \in p.at + 1 + had .. p.at + size THEN UserWord ELSE @[x]]]

\* A slip to rule out: the last word is not copied.
CopiedShort(a, p, q, words) ==
  IF q.area # "arena" THEN a
  ELSE [a EXCEPT !.mem = [x \in Addresses |->
          IF x \in q.at + 1 .. q.at + words - 1
          THEN IF p.area = "arena" THEN @[p.at + x - q.at] ELSE UserWord
          ELSE @[x]]]

\* memcpy of words from block p to block q of arena a.
Copied(a, p, q, words) ==
  IF q.area # "arena" THEN a
  ELSE [a EXCEPT !.mem = [x \in Addresses |->
          IF x \in q.at + 1 .. q.at + words
          THEN IF p.area = "arena" THEN @[p.at + x - q.at] ELSE UserWord
          ELSE @[x]]]

\* The call of t returns block p, NULL when p is Nowhere; a is the arena then.
Return(t, p, a) ==
  LET th == thread[t] IN
  /\ thread' = [thread EXCEPT ![t] = Idle]
  /\ IF p = Nowhere THEN UNCHANGED live /\ arena' = a
     ELSE /\ Give(p, th.asked)
          /\ arena' = Filled(a, p, th.had, th.asked)

\* mira_realloc got NULL from mira_malloc: the program still has its block.
ReallocFails(t, a) ==
  /\ thread' = [thread EXCEPT ![t] = Idle]
  /\ Give(thread[t].ptr, thread[t].had)
  /\ arena' = a

\* A slip to rule out: mira_realloc does not free the old block.
AllocatedOnly(t, p, a) ==
  IF thread[t].ptr # Nowhere /\ p = Nowhere THEN ReallocFails(t, a)
  ELSE Return(t, p, Copied(a, thread[t].ptr, p, Min({thread[t].keep, thread[t].size})))

\* mira_malloc in thread t comes to p; in mira_realloc the old contents are
\* copied and the old block is freed.
Allocated(t, p, a) ==
  LET th == thread[t] IN
  CASE th.ptr = Nowhere -> Return(t, p, a)
    [] th.ptr # Nowhere /\ p = Nowhere -> ReallocFails(t, a)
    [] th.ptr # Nowhere /\ p # Nowhere ->
         /\ arena' = Copied(a, th.ptr, p, Min({th.keep, th.size}))
         /\ thread' = [thread EXCEPT ![t].pc = "mmap_free", ![t].inside = FALSE, ![t].new = p]
         /\ UNCHANGED live

AllocatedIn(t, r) ==
  Allocated(t, IF r.block = NULL THEN Nowhere ELSE InArena(r.block), r.arena)

\* mira_free in thread t is over; a is the arena then.
Freed(t, a) == Return(t, thread[t].new, a)

\* Thread t goes on to a section; keep is what it knows of the old block.
Proceed(t, section, keep) ==
  /\ thread' = [thread EXCEPT ![t].pc = section, ![t].inside = FALSE, ![t].keep = keep]
  /\ UNCHANGED <<arena, live>>

MmapAlloc(t) ==
  LET k == Min((1 .. MaxMaps + 1) \ {maps[i].at : i \in DOMAIN maps}) IN
  /\ At(t, "mmap_alloc") /\ Leave(t)
  /\ IF k > MaxMaps
     THEN Allocated(t, Nowhere, arena) /\ UNCHANGED maps
     ELSE /\ Allocated(t, InMap(k), arena)
          /\ maps' = <<[at |-> k, size |-> thread[t].size]>> \o maps
  /\ UNCHANGED <<program, slabs, initialized, calls, wiped>>

\* slab_alloc: the newest slab of the class that has a free slot, and its first
\* free slot; else a new slab; else the arena serves the call.
SlabAlloc(t) ==
  LET cls  == SlabClass(thread[t].size)
      room == {i \in DOMAIN slabs : slabs[i].cls = cls /\ slabs[i].used < SlotsPerSlab}
      i    == Max(room)
      slot == Min((0 .. SlotsPerSlab - 1) \ slabs[i].bits)
  IN
  /\ At(t, "slab_alloc") /\ Leave(t)
  /\ CASE room # {} ->
            /\ slabs' = [slabs EXCEPT ![i].bits = @ \cup {slot}, ![i].used = @ + 1]
            /\ Allocated(t, InSlab(i, slot), arena)
       [] room = {} /\ Len(slabs) < MaxSlabs ->
            /\ slabs' = Append(slabs, [cls |-> cls, bits |-> {0}, used |-> 1])
            /\ Allocated(t, InSlab(Len(slabs) + 1, 0), arena)
       [] OTHER ->
            Proceed(t, "arena_alloc", thread[t].keep) /\ UNCHANGED slabs
  /\ UNCHANGED <<program, maps, initialized, calls, wiped>>

ArenaAlloc(t, growth) ==
  /\ At(t, "arena_alloc") /\ Leave(t)
  /\ AllocatedIn(t, ArenaMalloc(arena, thread[t].size, growth))
  /\ UNCHANGED <<program, slabs, maps, initialized, calls, wiped>>

FindMap(p) == {i \in DOMAIN maps : p = InMap(maps[i].at)}

MmapFree(t) ==
  LET p == thread[t].ptr IN
  /\ At(t, "mmap_free") /\ Leave(t)
  /\ IF FindMap(p) = {}
     THEN Proceed(t, "slab_free", thread[t].keep) /\ UNCHANGED maps
     ELSE Freed(t, arena) /\ maps' = RemoveAt(maps, CHOOSE i \in FindMap(p) : TRUE)
  /\ UNCHANGED <<program, slabs, initialized, calls, wiped>>

SlabOf(p) == p.at \div SlotsPerSlab
SlotOf(p) == p.at % SlotsPerSlab

\* A slip to rule out: slab_free decrements n_used as mira_free did.
SlabFreeTwice(t) ==
  LET p == thread[t].ptr IN
  /\ At(t, "slab_free") /\ Leave(t)
  /\ IF p.area # "slab"
     THEN Proceed(t, "arena_free", thread[t].keep) /\ UNCHANGED slabs
     ELSE /\ Freed(t, arena)
          /\ slabs' = [slabs EXCEPT ![SlabOf(p)].bits = @ \ {SlotOf(p)},
                                    ![SlabOf(p)].used = @ - 2]
  /\ UNCHANGED <<program, maps, initialized, calls, wiped>>

SlabFree(t) ==
  LET p == thread[t].ptr IN
  /\ At(t, "slab_free") /\ Leave(t)
  /\ IF p.area # "slab"
     THEN Proceed(t, "arena_free", thread[t].keep) /\ UNCHANGED slabs
     ELSE /\ Freed(t, arena)
          /\ slabs' = IF SlotOf(p) \notin slabs[SlabOf(p)].bits THEN slabs
                      ELSE [slabs EXCEPT ![SlabOf(p)].bits = @ \ {SlotOf(p)},
                                         ![SlabOf(p)].used = @ - 1]
  /\ UNCHANGED <<program, maps, initialized, calls, wiped>>

\* Where trimming zeroed the header of a free block, or its link.
HeaderLost(before, after) ==
  \E b \in Blocks(before) : Free(before, b) /\
    (after.mem[b] # before.mem[b] \/ after.mem[b + 1] # before.mem[b + 1])

ReleaseBlock(t) ==
  LET h == thread[t].ptr.at IN
  /\ At(t, "arena_free") /\ Leave(t)
  /\ Freed(t, ArenaFree(arena, h))
  /\ wiped' = (~Free(arena, h) /\ HeaderLost(Coalesce(arena, h), ArenaFree(arena, h)))
  /\ UNCHANGED <<program, slabs, maps, initialized, calls>>

\* mira_realloc looks the block up and keeps it when it is large enough.
MmapFind(t) ==
  LET th == thread[t]
      size == maps[CHOOSE i \in FindMap(th.ptr) : TRUE].size
  IN
  /\ At(t, "mmap_find") /\ Leave(t)
  /\ CASE FindMap(th.ptr) = {} -> Proceed(t, "slab_find", 0)
       [] FindMap(th.ptr) # {} /\ th.size <= size -> Return(t, th.ptr, arena)
       [] OTHER -> Proceed(t, Serves(th.size), size)
  /\ UNCHANGED <<program, slabs, maps, initialized, calls, wiped>>

SlabFind(t) ==
  LET th == thread[t]
      size == SlotSizes[slabs[SlabOf(th.ptr)].cls]
  IN
  /\ At(t, "slab_find") /\ Leave(t)
  /\ CASE th.ptr.area # "slab" -> Proceed(t, "arena_resize", 0)
       [] th.ptr.area = "slab" /\ th.size <= size -> Return(t, th.ptr, arena)
       [] OTHER -> Proceed(t, Serves(th.size), size)
  /\ UNCHANGED <<program, slabs, maps, initialized, calls, wiped>>

Resized(t, r) ==
  IF r.done THEN Return(t, thread[t].ptr, r.arena)
  ELSE Proceed(t, Serves(thread[t].size), Size(arena, thread[t].ptr.at) - 1)

ResizeBlock(t) ==
  /\ At(t, "arena_resize") /\ Leave(t)
  /\ Resized(t, ArenaResize(arena, thread[t].ptr.at, Needed(thread[t].size)))
  /\ UNCHANGED <<program, slabs, maps, initialized, calls, wiped>>

Section(t) ==
  \/ Enter(t)
  \/ MmapAlloc(t) \/ SlabAlloc(t) \/ (\E g \in Growths : ArenaAlloc(t, g))
  \/ MmapFree(t) \/ SlabFree(t) \/ ReleaseBlock(t)
  \/ MmapFind(t) \/ SlabFind(t) \/ ResizeBlock(t)

\* All the calls allowed were made.
Stopped ==
  /\ wiped \/ (calls = program.maxCalls /\ \A t \in Threads : thread[t].pc = "idle")
  /\ UNCHANGED vars

Next ==
  \/ \E t \in program.threads :
       \/ \E size \in program.sizes : CallMalloc(t, size)
       \/ \E a \in program.arrays : CallCalloc(t, a[1], a[2])
       \/ \E p \in DOMAIN live : CallFree(t, p)
       \/ \E p \in DOMAIN live, size \in program.sizes : CallRealloc(t, p, size)
       \/ \E i \in 1 .. 3 : InitLock(t, i)
       \/ InitDone(t)
       \/ Section(t)
  \/ Stopped

Spec == Init /\ [][Next]_vars

--------------------------------------------------------------------------------
\* Properties.

Pointers == [area : {"none", "arena", "slab", "mmap"}, at : Nat]

\* Shape of the state.
TypeOK ==
  /\ arena.mem \in [Addresses -> Nat]
  /\ arena.start \in {NULL, Base} /\ arena.end \in Addresses \cup {NULL}
  /\ arena.bucket \in [1 .. NumClasses -> Addresses \cup {NULL}]
  /\ arena.used <= arena.cap /\ arena.cap \in 0 .. MaxCap
  /\ \A i \in DOMAIN slabs : slabs[i].cls \in DOMAIN SlotSizes
  /\ \A i \in DOMAIN maps : maps[i].at \in 1 .. MaxMaps
  /\ lock \subseteq Locks /\ initialized \in BOOLEAN /\ wiped \in BOOLEAN
  /\ \A t \in Threads : thread[t].ptr \in Pointers /\ thread[t].new \in Pointers
  /\ DOMAIN live \subseteq Pointers
  /\ calls \in 0 .. program.maxCalls

\* Headers, footers and prev_free bits (set_header and its callers) agree, as
\* mira_heap_check has it: the sizes lead from heap_start to heap_end inside the
\* mapping, a block's prev_free bit says whether the one before is free, no two
\* free blocks touch (coalesce), and every free block has its footer; but for the
\* footer of the last block when trimming took it with the pages before the
\* epilogue, which it should not (TrimKeepsTags).
HeapOK ==
  arena.start # NULL /\ ~wiped =>
    LET blk == Walk(arena)
        next == [n \in 1 .. MaxCap \div MinBlock + 1 |-> <<blk[n - 1], blk[n]>>]
    IN
    /\ IsEpilogue(arena, arena.end) /\ arena.end \in {blk[n] : n \in DOMAIN blk}
    /\ arena.end < Base + arena.cap
    /\ \A n \in DOMAIN next :
         LET p == next[n][1] h == next[n][2] IN
         IsEpilogue(arena, p) \/
           /\ Size(arena, p) >= MinBlock
           /\ Free(arena, p) => ~Free(arena, h)
           /\ Free(arena, p) => Preceding(arena, h) = p \/ FooterTrimmed(arena, p)
           /\ IsEpilogue(arena, h) \/ PrevFree(arena, h) = 1 - AllocOf(arena.mem[p])

\* Every free block is on the list of its size's class and on no other, and a list
\* holds nothing else (bucket_insert and bucket_remove by all their callers).
ListsOK ==
  ~wiped => LET freeBlocks == {h \in Blocks(arena) : Free(arena, h)} IN
            \A cls \in 1 .. NumClasses :
              Listed(arena, cls) = {h \in freeBlocks : ClassOf[Size(arena, h)] = cls}

\* The blocks the program has or that a call in progress works on.
Held == DOMAIN live \cup
        ((UNION {{thread[t].ptr, thread[t].new} : t \in Threads}) \ {Nowhere})

\* A block is in one hand.
OneHand ==
  /\ \A t \in Threads :
       /\ thread[t].ptr # Nowhere => thread[t].ptr \notin DOMAIN live /\ thread[t].ptr # thread[t].new
       /\ thread[t].new # Nowhere => thread[t].new \notin DOMAIN live
  /\ \A t, u \in Threads : t # u =>
       /\ thread[t].ptr # Nowhere => thread[t].ptr # thread[u].ptr /\ thread[t].ptr # thread[u].new
       /\ thread[t].new # Nowhere => thread[t].new # thread[u].ptr /\ thread[t].new # thread[u].new

\* An allocated block of the arena is in somebody's hands and, but for the
\* prologue, every block in somebody's hands is allocated: no block is lost; it is
\* in one hand, so that no two callers are given the same one.
BlocksHeld ==
  ~wiped =>
    /\ {h \in Blocks(arena) : ~Free(arena, h)} \ {arena.start}
         = {p.at : p \in {q \in Held : q.area = "arena"}}
    /\ OneHand

\* mira_malloc_usable_size is never less than what the caller asked for, in the
\* arena, in a slab or in a mapping of its own.
UsableSize(p) ==
  CASE p.area = "mmap" -> maps[CHOOSE i \in FindMap(p) : TRUE].size
    [] p.area = "slab" -> SlotSizes[slabs[SlabOf(p)].cls]
    [] p.area = "arena" -> ArenaUsable(arena, p.at)

LargeEnough ==
  ~wiped => \A p \in DOMAIN live : UsableSize(p) >= live[p]

\* The allocator never writes into a block that is in the program's hands, and
\* what mira_realloc returns begins with the contents of the old block.
ContentsKept ==
  ~wiped => \A p \in DOMAIN live : p.area = "arena" =>
              \A i \in 1 .. live[p] : arena.mem[p.at + i] = UserWord

\* The bitmap of a slab marks the slots in somebody's hands, and n_used counts them.
SlabsOK ==
  /\ {InSlab(i, s) : i \in DOMAIN slabs, s \in 0 .. SlotsPerSlab - 1} \cap Held
       = UNION {{InSlab(i, s) : s \in slabs[i].bits} : i \in DOMAIN slabs}
  /\ \A i \in DOMAIN slabs : slabs[i].used = Cardinality(slabs[i].bits)

\* At most one thread is in the sections of a lock.
MutualExclusion ==
  \A t, u \in Threads :
    t # u /\ thread[t].inside /\ thread[u].inside
      => LockOf[thread[t].pc] # LockOf[thread[u].pc]

\* "Find page-aligned region inside the block, excluding header/footer" (malloc.c 442):
\* trimming gives back neither, so that every free block has both.
TrimKeepsTags ==
  /\ ~wiped
  /\ \A h \in Blocks(arena) : Free(arena, h) => Preceding(arena, Following(arena, h)) = h

================================================================================

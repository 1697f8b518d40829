------------------------------ MODULE Heap_proofs ------------------------------
(***************************************************************************)
(* The production allocator as a whole, for any number of threads and any  *)
(* calls.  First its locks and its slabs, with any number of slabs and of  *)
(* slots in a slab:                                                        *)
(*   - each of the three locks admits one thread, provided a call returned *)
(*     before the threads were started, or there is only one thread        *)
(*     (ensure_locks initializes the locks without any protection of its   *)
(*     own);                                                               *)
(*   - a slot of a slab is marked in the bitmap exactly when somebody has  *)
(*     it, one at a time, and n_used counts the marks.                     *)
(* Then every block, and with each of them its claim, the words it has     *)
(* room for and the words that hold the caller's data, for any sizes of    *)
(* the arena: a block of the arena is in somebody's hands exactly when its *)
(* header says so, everybody's blocks are large enough and keep their      *)
(* words, and the heap and its free lists are in order, as long as         *)
(* trimming has not zeroed a header or a link.  A critical section changes *)
(* the memory first (Arena_proofs says how) and then the hands.            *)
(***************************************************************************)
EXTENDS Malloc, Arena_proofs, SequenceTheorems

\* The programs that keep ensure_locks out of the threads' way.
Orderly == \A b \in Programs : b.warm \/ \A t, u \in b.threads : t = u

InitSteps == {"init1", "init2", "init3", "init4"}

--------------------------------------------------------------------------------
\* The inductive invariant.

Fields == {"pc", "inside"}

\* Only the program's threads are in sections.
Members ==
  /\ program \in Programs
  /\ thread = [t \in Threads |-> thread[t]]
  /\ \A t \in Threads : Fields \subseteq DOMAIN thread[t] /\ thread[t].inside \in BOOLEAN
  /\ \A t \in Threads : thread[t].inside => t \in program.threads

\* When a call returned before, no thread initializes locks, and a thread that is in a
\* section has taken its lock.
LocksTaken ==
  program.warm =>
    /\ initialized
    /\ \A t \in Threads : thread[t].pc \notin InitSteps
    /\ \A t \in Threads : thread[t].inside =>
         thread[t].pc \in DOMAIN LockOf /\ LockOf[thread[t].pc] \in lock

LInv == Members /\ LocksTaken /\ MutualExclusion

--------------------------------------------------------------------------------
\* What the calls do to the threads and the locks.

\* No size is served by a step of ensure_locks.
LEMMA ServesSection ==
  ASSUME NEW size
  PROVE  Serves(size) \notin InitSteps
BY DEF Serves, InitSteps

\* A call of mira_malloc, mira_calloc, mira_free or mira_realloc.
LEMMA CallEffect ==
  ASSUME NEW t \in Threads, NEW section, section \notin InitSteps, NEW th,
         Fields \subseteq DOMAIN th, th.inside = FALSE,
         Call(t, section, th)
  PROVE  /\ UNCHANGED <<program, lock, initialized>>
         /\ \E r : /\ thread' = [thread EXCEPT ![t] = r]
                   /\ Fields \subseteq DOMAIN r /\ r.inside = FALSE
                   /\ initialized => r.pc \notin InitSteps
<1> DEFINE r == [th EXCEPT !.pc = IF initialized THEN section ELSE "init1", !.then = section]
<1>1. thread' = [thread EXCEPT ![t] = r] /\ UNCHANGED <<program, lock, initialized>>
  BY DEF Call
<1>2. Fields \subseteq DOMAIN r /\ r.inside = FALSE
  BY DEF Fields
<1>3. initialized => r.pc \notin InitSteps
  OBVIOUS
<1> QED
  BY <1>1, <1>2, <1>3

\* Where a section leaves its thread: whatever it does besides, the thread is outside.
Outside(t) == \E r : /\ thread' = [thread EXCEPT ![t] = r]
                     /\ Fields \subseteq DOMAIN r
                     /\ r.inside = FALSE /\ r.pc \notin InitSteps

\* A call that returns leaves its thread outside.
LEMMA ReturnEffect ==
  ASSUME NEW t \in Threads, NEW p, NEW a, Return(t, p, a)
  PROVE  Outside(t)
<1>1. thread' = [thread EXCEPT ![t] = Idle]
  BY DEF Return
<1>2. Fields \subseteq DOMAIN Idle /\ Idle.inside = FALSE /\ Idle.pc \notin InitSteps
  BY DEF Idle, InitSteps, Fields
<1> QED
  BY <1>1, <1>2 DEF Outside

\* mira_malloc's result, inside mira_realloc or not, leaves the thread outside.
LEMMA AllocatedEffect ==
  ASSUME NEW t \in Threads, NEW p, NEW a, Allocated(t, p, a),
         Fields \subseteq DOMAIN thread[t]
  PROVE  Outside(t)
<1>1. CASE Return(t, p, a)
  BY <1>1, ReturnEffect
<1>2. CASE ReallocFails(t, a)
  <2>1. thread' = [thread EXCEPT ![t] = Idle]
    BY <1>2 DEF ReallocFails
  <2>2. Fields \subseteq DOMAIN Idle /\ Idle.inside = FALSE /\ Idle.pc \notin InitSteps
    BY DEF Idle, InitSteps, Fields
  <2> QED
    BY <2>1, <2>2 DEF Outside
<1>3. CASE thread' = [thread EXCEPT ![t].pc = "mmap_free", ![t].inside = FALSE, ![t].new = p]
  <2> DEFINE r == [thread[t] EXCEPT !.pc = "mmap_free", !.inside = FALSE, !.new = p]
  <2>1. thread' = [thread EXCEPT ![t] = r]
    BY <1>3
  <2>2. Fields \subseteq DOMAIN r /\ r.inside = FALSE /\ r.pc = "mmap_free"
    BY DEF Fields
  <2> QED
    BY <2>1, <2>2 DEF Outside, InitSteps
<1> QED
  BY <1>1, <1>2, <1>3 DEF Allocated

\* Going on to another section leaves the thread outside: it takes no lock yet.
LEMMA ProceedEffect ==
  ASSUME NEW t \in Threads, NEW section, section \notin InitSteps, NEW keep,
         Proceed(t, section, keep), Fields \subseteq DOMAIN thread[t]
  PROVE  Outside(t)
<1> DEFINE r == [thread[t] EXCEPT !.pc = section, !.inside = FALSE, !.keep = keep]
<1>1. thread' = [thread EXCEPT ![t] = r]
  BY DEF Proceed
<1>2. Fields \subseteq DOMAIN r /\ r.inside = FALSE /\ r.pc = section
  BY DEF Fields
<1> QED
  BY <1>1, <1>2 DEF Outside

\* Every critical section ends outside, its lock released.
LEMMA SectionEffect ==
  ASSUME NEW t \in Threads, Section(t), ~Enter(t), Fields \subseteq DOMAIN thread[t]
  PROVE  /\ thread[t].inside /\ Leave(t) /\ Outside(t)
         /\ UNCHANGED <<program, initialized>>
<1>1. CASE MmapAlloc(t)
  <2>1. \E p : Allocated(t, p, arena)
    BY <1>1 DEF MmapAlloc
  <2> QED
    BY <1>1, <2>1, AllocatedEffect DEF MmapAlloc, At
<1>2. CASE SlabAlloc(t)
  <2>1. (\E p : Allocated(t, p, arena)) \/ Proceed(t, "arena_alloc", thread[t].keep)
    BY <1>2 DEF SlabAlloc
  <2>2. "arena_alloc" \notin InitSteps
    BY DEF InitSteps
  <2> QED
    BY <1>2, <2>1, <2>2, AllocatedEffect, ProceedEffect DEF SlabAlloc, At
<1>3. CASE \E g \in Growths : ArenaAlloc(t, g)
  <2>1. \E p, a : Allocated(t, p, a)
    BY <1>3 DEF ArenaAlloc, AllocatedIn
  <2> QED
    BY <1>3, <2>1, AllocatedEffect DEF ArenaAlloc, At
<1>4. CASE MmapFree(t)
  <2>1. (\E p, a : Return(t, p, a)) \/ Proceed(t, "slab_free", thread[t].keep)
    BY <1>4 DEF MmapFree, Freed
  <2>2. "slab_free" \notin InitSteps
    BY DEF InitSteps
  <2> QED
    BY <1>4, <2>1, <2>2, ReturnEffect, ProceedEffect DEF MmapFree, At
<1>5. CASE SlabFree(t)
  <2>1. (\E p, a : Return(t, p, a)) \/ Proceed(t, "arena_free", thread[t].keep)
    BY <1>5 DEF SlabFree, Freed
  <2>2. "arena_free" \notin InitSteps
    BY DEF InitSteps
  <2> QED
    BY <1>5, <2>1, <2>2, ReturnEffect, ProceedEffect DEF SlabFree, At
<1>6. CASE ReleaseBlock(t)
  <2>1. \E p, a : Return(t, p, a)
    BY <1>6 DEF ReleaseBlock, Freed
  <2> QED
    BY <1>6, <2>1, ReturnEffect DEF ReleaseBlock, At
<1>7. CASE MmapFind(t)
  <2>1. \/ \E p, a : Return(t, p, a)
        \/ \E keep : Proceed(t, "slab_find", keep) \/ Proceed(t, Serves(thread[t].size), keep)
    BY <1>7 DEF MmapFind
  <2>2. "slab_find" \notin InitSteps
    BY DEF InitSteps
  <2> QED
    BY <1>7, <2>1, <2>2, ServesSection, ReturnEffect, ProceedEffect DEF MmapFind, At
<1>8. CASE SlabFind(t)
  <2>1. \/ \E p, a : Return(t, p, a)
        \/ \E keep : Proceed(t, "arena_resize", keep) \/ Proceed(t, Serves(thread[t].size), keep)
    BY <1>8 DEF SlabFind
  <2>2. "arena_resize" \notin InitSteps
    BY DEF InitSteps
  <2> QED
    BY <1>8, <2>1, <2>2, ServesSection, ReturnEffect, ProceedEffect DEF SlabFind, At
<1>9. CASE ResizeBlock(t)
  <2>1. \/ \E p, a : Return(t, p, a)
        \/ \E keep : Proceed(t, Serves(thread[t].size), keep)
    BY <1>9 DEF ResizeBlock, Resized
  <2> QED
    BY <1>9, <2>1, ServesSection, ReturnEffect, ProceedEffect DEF ResizeBlock, At
<1> QED
  BY <1>1, <1>2, <1>3, <1>4, <1>5, <1>6, <1>7, <1>8, <1>9 DEF Section

--------------------------------------------------------------------------------
\* The invariant is kept.

\* The first step of a call keeps the invariant: its thread is in no section.
LEMMA CallKeeps ==
  ASSUME LInv, NEW t \in program.threads, t \in Threads,
         UNCHANGED <<program, lock, initialized>>,
         NEW r, thread' = [thread EXCEPT ![t] = r],
         Fields \subseteq DOMAIN r, r.inside = FALSE,
         initialized => r.pc \notin InitSteps
  PROVE  LInv'
<1>1. thread'[t] = r /\ \A u \in Threads \ {t} : thread'[u] = thread[u]
  BY DEF LInv, Members
<1>2. Members'
  BY <1>1 DEF LInv, Members
<1>3. LocksTaken'
  BY <1>1 DEF LInv, LocksTaken
<1>4. MutualExclusion'
  BY <1>1 DEF LInv, MutualExclusion
<1> QED
  BY <1>2, <1>3, <1>4 DEF LInv

\* A thread enters only when nobody holds its lock, so nobody is in its sections.
LEMMA EnterKeeps ==
  ASSUME LInv, Orderly, NEW t \in program.threads, t \in Threads, Enter(t)
  PROVE  LInv'
<1> DEFINE r == [thread[t] EXCEPT !.inside = TRUE]
<1>1. /\ thread' = [thread EXCEPT ![t] = r] /\ UNCHANGED <<program, initialized>>
      /\ thread[t].pc \in DOMAIN LockOf /\ LockOf[thread[t].pc] \notin lock
      /\ lock' = lock \cup {LockOf[thread[t].pc]}
  BY DEF Enter
<1>2. Fields \subseteq DOMAIN r /\ r.inside = TRUE /\ r.pc = thread[t].pc
  BY DEF LInv, Members, Fields
<1> HIDE DEF r
<1>3. thread'[t] = r /\ \A u \in Threads \ {t} : thread'[u] = thread[u]
  BY <1>1 DEF LInv, Members
<1>4. Members'
  BY <1>1, <1>2, <1>3 DEF LInv, Members
<1>5. LocksTaken'
  BY <1>1, <1>2, <1>3 DEF LInv, LocksTaken
<1>6. CASE program.warm
  <2>1. \A u \in Threads \ {t} : thread[u].inside => LockOf[thread[u].pc] # LockOf[thread[t].pc]
    BY <1>1, <1>6 DEF LInv, LocksTaken
  <2>2. MutualExclusion'
    BY <1>2, <1>3, <2>1 DEF LInv, MutualExclusion
  <2> QED
    BY <1>4, <1>5, <2>2 DEF LInv
<1>7. CASE ~program.warm
  <2>1. \A u, v \in program'.threads : u = v
    BY <1>1, <1>7 DEF LInv, Members, Orderly
  <2>2. MutualExclusion'
    BY <2>1, <1>4 DEF Members, MutualExclusion
  <2> QED
    BY <1>4, <1>5, <2>2 DEF LInv
<1> QED
  BY <1>6, <1>7

\* A section releases its own lock: whoever is in another section holds another one.
LEMMA LeaveKeeps ==
  ASSUME LInv, NEW t \in program.threads, t \in Threads,
         thread[t].inside, Leave(t), Outside(t), UNCHANGED <<program, initialized>>
  PROVE  LInv'
<1>1. PICK r : /\ thread' = [thread EXCEPT ![t] = r]
               /\ Fields \subseteq DOMAIN r
               /\ r.inside = FALSE /\ r.pc \notin InitSteps
  BY DEF Outside
<1>2. thread'[t] = r /\ \A u \in Threads \ {t} : thread'[u] = thread[u]
  BY <1>1 DEF LInv, Members
<1>3. Members'
  BY <1>1, <1>2 DEF LInv, Members
<1>4. MutualExclusion'
  BY <1>1, <1>2 DEF LInv, MutualExclusion
<1>5. \A u \in Threads \ {t} : thread[u].inside => LockOf[thread[u].pc] # LockOf[thread[t].pc]
  BY DEF LInv, MutualExclusion
<1>6. LocksTaken'
  BY <1>1, <1>2, <1>5 DEF LInv, LocksTaken, Leave
<1> QED
  BY <1>3, <1>4, <1>6 DEF LInv

\* ensure_locks: only the lone thread of a cold program gets here.
LEMMA InitKeeps ==
  ASSUME LInv, Orderly, NEW t \in program.threads, t \in Threads,
         thread[t].pc \in InitSteps, UNCHANGED program,
         NEW pc, thread' = [thread EXCEPT ![t].pc = pc]
  PROVE  LInv'
<1> DEFINE r == [thread[t] EXCEPT !.pc = pc]
<1>1. thread' = [thread EXCEPT ![t] = r]
  OBVIOUS
<1>2. Fields \subseteq DOMAIN r /\ r.inside = thread[t].inside
  BY DEF LInv, Members, Fields
<1> HIDE DEF r
<1>3. thread'[t] = r /\ \A u \in Threads \ {t} : thread'[u] = thread[u]
  BY <1>1 DEF LInv, Members
<1>4. Members'
  BY <1>1, <1>2, <1>3 DEF LInv, Members
<1>5. ~program.warm
  BY DEF LInv, LocksTaken
<1>6. \A u, v \in program'.threads : u = v
  BY <1>5 DEF LInv, Members, Orderly
<1>7. MutualExclusion'
  BY <1>6, <1>4 DEF Members, MutualExclusion
<1> QED
  BY <1>4, <1>5, <1>7 DEF LInv, LocksTaken

\* Before the first call no thread is in a section.
LEMMA InitInv ==
  ASSUME Init
  PROVE  LInv
<1>1. Fields \subseteq DOMAIN Idle /\ Idle.inside = FALSE /\ Idle.pc \notin InitSteps
  BY DEF Idle, Fields, InitSteps
<1>2. /\ program \in Programs /\ initialized = program.warm
      /\ thread = [t \in Threads |-> Idle]
  BY DEF Init
<1>3. Members
  BY <1>1, <1>2 DEF Members
<1>4. LocksTaken
  BY <1>1, <1>2 DEF LocksTaken
<1>5. MutualExclusion
  BY <1>1, <1>2 DEF MutualExclusion
<1> QED
  BY <1>3, <1>4, <1>5 DEF LInv

\* The calls of a thread, whatever their arguments.
Calls(t) ==
  \/ \E size \in program.sizes : CallMalloc(t, size)
  \/ \E a \in program.arrays : CallCalloc(t, a[1], a[2])
  \/ \E p \in DOMAIN live : CallFree(t, p)
  \/ \E p \in DOMAIN live, size \in program.sizes : CallRealloc(t, p, size)

\* Each of the four calls keeps the invariant.
LEMMA CallsKeep ==
  ASSUME LInv, NEW t \in program.threads, t \in Threads, Calls(t)
  PROVE  LInv'
<1>1. /\ UNCHANGED <<program, lock, initialized>>
      /\ \E r : /\ thread' = [thread EXCEPT ![t] = r]
                /\ Fields \subseteq DOMAIN r /\ r.inside = FALSE
                /\ initialized => r.pc \notin InitSteps
  <2>1. PICK section, th : /\ Call(t, section, th) /\ section \notin InitSteps
                           /\ Fields \subseteq DOMAIN th /\ th.inside = FALSE
    <3>1. CASE \E size \in program.sizes : CallMalloc(t, size)
      <4>1. PICK size : CallMalloc(t, size)
        BY <3>1
      <4> DEFINE th == [Idle EXCEPT !.size = size, !.asked = size]
      <4>2. Call(t, Serves(size), th)
        BY <4>1 DEF CallMalloc
      <4>3. Fields \subseteq DOMAIN th /\ th.inside = FALSE
        BY DEF Idle, Fields
      <4> QED
        BY <4>2, <4>3, ServesSection
    <3>2. CASE \E a \in program.arrays : CallCalloc(t, a[1], a[2])
      <4>1. PICK n, size : CallCalloc(t, n, size)
        BY <3>2
      <4> DEFINE total == (n * size) % SizeLimit
                 th == [Idle EXCEPT !.size = total, !.asked = n * size]
      <4>2. Call(t, Serves(total), th)
        BY <4>1 DEF CallCalloc
      <4>3. Fields \subseteq DOMAIN th /\ th.inside = FALSE
        BY DEF Idle, Fields
      <4> QED
        BY <4>2, <4>3, ServesSection
    <3>3. CASE \E p \in DOMAIN live : CallFree(t, p)
      <4>1. PICK p : CallFree(t, p)
        BY <3>3
      <4> DEFINE th == [Idle EXCEPT !.ptr = p]
      <4>2. Call(t, "mmap_free", th)
        BY <4>1 DEF CallFree
      <4>3. Fields \subseteq DOMAIN th /\ th.inside = FALSE
        BY DEF Idle, Fields
      <4> QED
        BY <4>2, <4>3 DEF InitSteps
    <3>4. CASE \E p \in DOMAIN live, size \in program.sizes : CallRealloc(t, p, size)
      <4>1. PICK p, size : CallRealloc(t, p, size)
        BY <3>4
      <4> DEFINE th == [Idle EXCEPT !.ptr = p, !.size = size, !.asked = size,
                                    !.had = Min({live[p], size})]
      <4>2. Call(t, "mmap_find", th)
        BY <4>1 DEF CallRealloc
      <4>3. Fields \subseteq DOMAIN th /\ th.inside = FALSE
        BY DEF Idle, Fields
      <4> HIDE DEF th
      <4> QED
        BY <4>2, <4>3 DEF InitSteps
    <3> QED
      BY <3>1, <3>2, <3>3, <3>4 DEF Calls
  <2> QED
    BY <2>1, CallEffect
<1> QED
  BY <1>1, CallKeeps

\* Every step keeps the invariant.
LEMMA NextKeeps ==
  ASSUME LInv, Orderly, [Next]_vars
  PROVE  LInv'
<1>1. program.threads \subseteq Threads
  BY MallocAssumption DEF LInv, Members
<1>2. CASE UNCHANGED vars
  BY <1>2 DEF vars, LInv, Members, LocksTaken, MutualExclusion
<1>3. ASSUME NEW t \in program.threads, Calls(t)
      PROVE  LInv'
  BY <1>1, <1>3, CallsKeep
<1>4. ASSUME NEW t \in program.threads, NEW i \in 1 .. 3, InitLock(t, i)
      PROVE  LInv'
  <2>1. thread[t].pc \in InitSteps /\ UNCHANGED program
    BY <1>4 DEF InitLock, InitSteps
  <2>2. \E pc : thread' = [thread EXCEPT ![t].pc = pc]
    BY <1>4 DEF InitLock
  <2> QED
    BY <1>1, <2>1, <2>2, InitKeeps
<1>5. ASSUME NEW t \in program.threads, InitDone(t)
      PROVE  LInv'
  <2>1. thread[t].pc \in InitSteps /\ UNCHANGED program
    BY <1>5 DEF InitDone, InitSteps
  <2>2. \E pc : thread' = [thread EXCEPT ![t].pc = pc]
    BY <1>5 DEF InitDone
  <2> QED
    BY <1>1, <2>1, <2>2, InitKeeps
<1>6. ASSUME NEW t \in program.threads, Section(t)
      PROVE  LInv'
  <2>1. CASE Enter(t)
    BY <1>1, <2>1, EnterKeeps
  <2>2. CASE ~Enter(t)
    <3>1. t \in Threads /\ Fields \subseteq DOMAIN thread[t]
      BY <1>1 DEF LInv, Members
    <3>2. /\ thread[t].inside /\ Leave(t) /\ Outside(t)
          /\ UNCHANGED <<program, initialized>>
      BY <1>6, <2>2, <3>1, SectionEffect
    <3> QED
      BY <3>1, <3>2, LeaveKeeps
  <2> QED
    BY <2>1, <2>2
<1>7. CASE Stopped
  BY <1>2, <1>7 DEF Stopped
<1> QED
  BY <1>2, <1>3, <1>4, <1>5, <1>6, <1>7 DEF Next, Calls

--------------------------------------------------------------------------------
\* The theorems.

\* Locks, sections and the initialization of the locks stay in step (mira_malloc,
\* mira_free, mira_realloc and ensure_locks in orderly programs).
THEOREM LockInvariance ==
  ASSUME Orderly
  PROVE  Spec => []LInv
<1>1. Init => LInv
  BY InitInv
<1>2. LInv /\ [Next]_vars => LInv'
  BY NextKeeps
<1> QED
  BY <1>1, <1>2, PTL DEF Spec

\* Two threads are never in the sections of one lock, however many threads there
\* are and whatever they call, when a call returned before they were started.
THEOREM LocksExclude ==
  ASSUME Orderly
  PROVE  Spec => []MutualExclusion
<1>1. LInv => MutualExclusion
  BY DEF LInv
<1> QED
  BY <1>1, LockInvariance, PTL

--------------------------------------------------------------------------------
\* Slots and the hands they are in.

\* The section a call is at, or comes to when the locks are initialized.
Stage(th) == IF th.pc \in InitSteps THEN th.then ELSE th.pc

Searching == {"mmap_find", "slab_find", "arena_resize"}
Taking    == {"mmap_alloc", "slab_alloc", "arena_alloc"}
Giving    == {"mmap_free", "slab_free", "arena_free"}

OnSlab(p) == p.area = "slab"

\* What a call knows at each stage: it has no block before it begins, a new one only
\* once it has come to freeing the old one, and slab_free has let no slot through
\* to arena_free; slab_alloc has a size that some slab serves.
CallOK(th) ==
  /\ DOMAIN th = DOMAIN Idle
  /\ Stage(th) \in {"idle"} \cup Searching \cup Taking \cup Giving
  /\ Stage(th) = "idle" => th.ptr = Nowhere
  /\ Stage(th) \notin Giving => th.new = Nowhere
  /\ Stage(th) \in {"arena_free", "arena_resize"} => ~OnSlab(th.ptr)
  /\ Stage(th) = "slab_alloc" => SlabClass(th.size) \in DOMAIN SlotSizes

\* A slot is in one hand.
Apart ==
  /\ \A t \in Threads :
       /\ OnSlab(thread[t].ptr) => thread[t].ptr \notin DOMAIN live /\ thread[t].ptr # thread[t].new
       /\ OnSlab(thread[t].new) => thread[t].new \notin DOMAIN live
  /\ \A t, u \in Threads : t # u =>
       /\ OnSlab(thread[t].ptr) => thread[t].ptr # thread[u].ptr /\ thread[t].ptr # thread[u].new
       /\ OnSlab(thread[t].new) => thread[t].new # thread[u].ptr /\ thread[t].new # thread[u].new

Slots == 0 .. SlotsPerSlab - 1

Slab == [cls : DOMAIN SlotSizes, bits : SUBSET Slots, used : Nat]

SlabType == slabs \in Seq(Slab)

UsedCounts == \A i \in DOMAIN slabs : slabs[i].used = Cardinality(slabs[i].bits)

Marked == UNION {{InSlab(i, s) : s \in slabs[i].bits} : i \in DOMAIN slabs}

SlotsHeld == {q \in Held : OnSlab(q)} = Marked

--------------------------------------------------------------------------------
\* The arithmetic of slots, and the choices of slab_alloc.

\* A number has one quotient and one remainder.
LEMMA Quotient ==
  ASSUME NEW n \in Nat \ {0}, NEW i \in Nat, NEW j \in Nat,
         NEW r \in 0 .. n - 1, NEW s \in 0 .. n - 1, i * n + r = j * n + s
  PROVE  i = j /\ r = s
<1>1. ASSUME NEW a \in Nat, NEW b \in Nat, NEW x \in 0 .. n - 1, NEW y \in 0 .. n - 1,
             a < b
      PROVE  a * n + x < b * n + y
  <2>1. PICK d \in Nat : b = a + 1 + d
    <3>1. b - (a + 1) \in Nat /\ b = a + 1 + (b - (a + 1))
      BY <1>1
    <3> QED
      BY <3>1
  <2>2. b * n = a * n + n + d * n
    BY <2>1
  <2>3. d * n >= 0 /\ d * n \in Int /\ a * n \in Int
    OBVIOUS
  <2> QED
    BY <2>2, <2>3
<1>2. ~ i < j
  BY <1>1
<1>3. ~ j < i
  BY <1>1
<1>4. i = j
  BY <1>2, <1>3
<1> QED
  BY <1>4

\* Two slots are never the same place, and a place says which slot it is.
LEMMA SlotPlaces ==
  ASSUME NEW i \in Nat, NEW s \in Slots
  PROVE  /\ OnSlab(InSlab(i, s)) /\ InSlab(i, s) # Nowhere
         /\ SlabOf(InSlab(i, s)) = i /\ SlotOf(InSlab(i, s)) = s
         /\ \A j \in Nat, r \in Slots : InSlab(j, r) = InSlab(i, s) => j = i /\ r = s
<1>1. SlotsPerSlab \in Nat \ {0}
  BY MallocAssumption
<1>2. OnSlab(InSlab(i, s)) /\ InSlab(i, s) # Nowhere
  BY DEF OnSlab, InSlab, Nowhere
<1> DEFINE p == i * SlotsPerSlab + s
<1>3. p \in Nat /\ InSlab(i, s).at = p
  BY <1>1 DEF Slots, InSlab
<1>4. /\ p \div SlotsPerSlab \in Nat /\ p % SlotsPerSlab \in Slots
      /\ p = SlotsPerSlab * (p \div SlotsPerSlab) + (p % SlotsPerSlab)
  <2> HIDE DEF p
  <2>1. p \in Int /\ SlotsPerSlab \in Int /\ SlotsPerSlab > 0
    BY <1>1, <1>3
  <2>2. p % SlotsPerSlab \in 0 .. SlotsPerSlab - 1
    BY <2>1
  <2>3. p \div SlotsPerSlab \in Int /\ p = SlotsPerSlab * (p \div SlotsPerSlab) + (p % SlotsPerSlab)
    BY <2>1
  <2>4. p \div SlotsPerSlab >= 0
    BY <1>3, <2>1
  <2> QED
    BY <2>2, <2>3, <2>4 DEF Slots
<1>5. p \div SlotsPerSlab = i /\ p % SlotsPerSlab = s
  BY <1>1, <1>4, Quotient DEF Slots
<1>6. ASSUME NEW j \in Nat, NEW r \in Slots, InSlab(j, r) = InSlab(i, s)
      PROVE  j = i /\ r = s
  <2>1. j * SlotsPerSlab + r = i * SlotsPerSlab + s
    BY <1>6 DEF InSlab
  <2> QED
    BY <1>1, <2>1, Quotient DEF Slots
<1> QED
  BY <1>2, <1>3, <1>5, <1>6 DEF SlabOf, SlotOf

\* Min finds a smallest number.
LEMMA MinFound ==
  ASSUME NEW S \in SUBSET Nat, S # {}
  PROVE  Min(S) \in S
<1>1. \E x \in S : \A y \in S : x =< y
  BY SmallestNumber
<1> QED
  BY <1>1 DEF Min

\* Max finds a largest number, of those up to n.
LEMMA MaxFound ==
  ASSUME NEW n \in Nat, NEW S \in SUBSET (1 .. n), S # {}
  PROVE  Max(S) \in S
<1> DEFINE T == {k \in Nat : n - k \in S}
<1>1. T # {}
  <2>1. PICK x \in S : TRUE
    OBVIOUS
  <2>2. n - x \in Nat /\ n - (n - x) = x
    OBVIOUS
  <2> QED
    BY <2>1, <2>2
<1>2. PICK m \in T : \A k \in T : m <= k
  <2> HIDE DEF T
  <2>1. T \in SUBSET Nat
    BY DEF T
  <2> QED
    BY <1>1, <2>1, SmallestNumber
<1>3. ASSUME NEW y \in S PROVE n - m >= y
  <2>1. y \in Int /\ n - y \in Nat /\ n - (n - y) = y
    OBVIOUS
  <2>2. m \in Nat /\ m <= n - y
    BY <1>2, <2>1
  <2> QED
    BY <2>1, <2>2
<1>4. \E x \in S : \A y \in S : x >= y
  BY <1>2, <1>3
<1> QED
  BY <1>4 DEF Max

\* A slab that is not full has a free slot.
LEMMA SlotFree ==
  ASSUME NEW bits \in SUBSET Slots, Cardinality(bits) < SlotsPerSlab
  PROVE  /\ Min(Slots \ bits) \in Slots \ bits
         /\ IsFiniteSet(bits)
<1>1. SlotsPerSlab \in Nat \ {0}
  BY MallocAssumption
<1>2. IsFiniteSet(Slots) /\ Cardinality(Slots) = SlotsPerSlab
  <2>1. IsFiniteSet(0 .. SlotsPerSlab - 1)
    BY <1>1, FS_Interval
  <2>2. Cardinality(0 .. SlotsPerSlab - 1)
          = IF 0 > SlotsPerSlab - 1 THEN 0 ELSE (SlotsPerSlab - 1) - 0 + 1
    BY <1>1, FS_Interval
  <2> QED
    BY <1>1, <2>1, <2>2 DEF Slots
<1>3. bits # Slots
  BY <1>1, <1>2
<1>4. IsFiniteSet(bits)
  BY <1>2, FS_Subset
<1>5. Slots \ bits \in SUBSET Nat
  BY <1>1 DEF Slots
<1>6. Slots \ bits # {}
  BY <1>3
<1> QED
  BY <1>4, <1>5, <1>6, MinFound

--------------------------------------------------------------------------------
\* What a step does to the slots in one thread's hands and the program's.

\* The slots that thread t or the program has.
Hand(t) == {q \in DOMAIN live \cup {thread[t].ptr, thread[t].new} : OnSlab(q)}

SlabHeld == {q \in Held : OnSlab(q)}

\* The slots in anybody's hands, one by one.
LEMMA SlabHeldIs ==
  ASSUME NEW q
  PROVE  q \in SlabHeld <=> OnSlab(q) /\ (q \in DOMAIN live \/ \E u \in Threads : q \in {thread[u].ptr, thread[u].new})
BY DEF SlabHeld, Held, OnSlab, Nowhere

\* Thread t goes on with r, and then it and the program have the slots S, each once.
HandStep(t, S) ==
  \E r : /\ thread' = [thread EXCEPT ![t] = r]
         /\ CallOK(r)
         /\ {q \in DOMAIN live' \cup {r.ptr, r.new} : OnSlab(q)} = S
         /\ OnSlab(r.ptr) => r.ptr \notin DOMAIN live' /\ r.ptr # r.new
         /\ OnSlab(r.new) => r.new \notin DOMAIN live'

\* The calls in progress, each in order, and the slots they have.
Calling ==
  /\ program \in Programs
  /\ thread = [t \in Threads |-> thread[t]]
  /\ \A t \in Threads : CallOK(thread[t])
  /\ Apart

\* The other threads have none of these slots, so no slot comes into two hands.
LEMMA HandsKeep ==
  ASSUME Calling, program' = program, NEW t \in Threads, NEW S, HandStep(t, S),
         \A q \in S \ Hand(t) : q \notin SlabHeld
  PROVE  Calling' /\ SlabHeld' = (SlabHeld \ Hand(t)) \cup S
<1>1. PICK r : /\ thread' = [thread EXCEPT ![t] = r]
               /\ CallOK(r)
               /\ {q \in DOMAIN live' \cup {r.ptr, r.new} : OnSlab(q)} = S
               /\ OnSlab(r.ptr) => r.ptr \notin DOMAIN live' /\ r.ptr # r.new
               /\ OnSlab(r.new) => r.new \notin DOMAIN live'
  BY DEF HandStep
<1>2. thread'[t] = r /\ \A u \in Threads \ {t} : thread'[u] = thread[u]
  BY <1>1 DEF Calling
<1>3. \A u \in Threads \ {t} : \A q \in {thread[u].ptr, thread[u].new} :
         OnSlab(q) => q \in SlabHeld /\ q \notin Hand(t) /\ q \notin S
  <2> SUFFICES ASSUME NEW u \in Threads \ {t}, NEW q \in {thread[u].ptr, thread[u].new}, OnSlab(q)
               PROVE  q \in SlabHeld /\ q \notin Hand(t) /\ q \notin S
    OBVIOUS
  <2>1. q \in SlabHeld
    BY SlabHeldIs
  <2>2. q \notin Hand(t)
    BY DEF Hand, Calling, Apart
  <2> QED
    BY <2>1, <2>2
<1>4. \A q : OnSlab(q) => (q \in S <=> q \in DOMAIN live' \cup {r.ptr, r.new})
  BY <1>1
<1>5. \A q : OnSlab(q) => (q \in Hand(t) <=> q \in DOMAIN live \cup {thread[t].ptr, thread[t].new})
  BY DEF Hand
<1>6. Apart'
  <2>1. ASSUME NEW u \in Threads
        PROVE  /\ OnSlab(thread'[u].ptr) => thread'[u].ptr \notin DOMAIN live' /\ thread'[u].ptr # thread'[u].new
               /\ OnSlab(thread'[u].new) => thread'[u].new \notin DOMAIN live'
    <3>1. CASE u = t
      BY <1>1, <1>2, <3>1
    <3>2. CASE u # t
      BY <1>2, <1>3, <1>4, <3>2 DEF Calling, Apart
    <3> QED
      BY <3>1, <3>2
  <2>2. ASSUME NEW u \in Threads, NEW v \in Threads, u # v
        PROVE  /\ OnSlab(thread'[u].ptr) => thread'[u].ptr # thread'[v].ptr /\ thread'[u].ptr # thread'[v].new
               /\ OnSlab(thread'[u].new) => thread'[u].new # thread'[v].ptr /\ thread'[u].new # thread'[v].new
    <3>1. CASE u = t
      BY <1>2, <1>3, <1>4, <2>2, <3>1
    <3>2. CASE v = t
      BY <1>2, <1>3, <1>4, <2>2, <3>2
    <3>3. CASE u # t /\ v # t
      BY <1>2, <2>2, <3>3 DEF Calling, Apart
    <3> QED
      BY <3>1, <3>2, <3>3
  <2> QED
    BY <2>1, <2>2 DEF Apart
<1>7. Calling'
  BY <1>1, <1>2, <1>6 DEF Calling
<1>8. ASSUME NEW q PROVE q \in SlabHeld' <=> q \in (SlabHeld \ Hand(t)) \cup S
  <2>1. q \in SlabHeld' <=> OnSlab(q) /\ (q \in DOMAIN live' \/ \E u \in Threads : q \in {thread'[u].ptr, thread'[u].new})
    BY DEF SlabHeld, Held, OnSlab, Nowhere
  <2>2. q \in SlabHeld' <=> OnSlab(q) /\ (q \in S \/ \E u \in Threads \ {t} : q \in {thread[u].ptr, thread[u].new})
    BY <1>2, <1>4, <2>1
  <2>3. q \in SlabHeld <=> OnSlab(q) /\ (q \in Hand(t) \/ \E u \in Threads \ {t} : q \in {thread[u].ptr, thread[u].new})
    BY <1>5, SlabHeldIs
  <2>4. q \in S => OnSlab(q)
    BY <1>1
  <2> QED
    BY <1>3, <2>2, <2>3, <2>4
<1> QED
  BY <1>7, <1>8

\* A call at rest has no block.
LEMMA IdleOK ==
  CallOK(Idle) /\ ~OnSlab(Idle.ptr) /\ ~OnSlab(Idle.new) /\ ~OnSlab(Nowhere)
BY DEF CallOK, Idle, Stage, InitSteps, Searching, Taking, Giving, OnSlab, Nowhere

\* A block the program gets is added to what it has.
LEMMA Given ==
  ASSUME NEW p, NEW size, Give(p, size)
  PROVE  DOMAIN live' = DOMAIN live \cup {p}
BY DEF Give

\* A call that returns block p: it is over, and the program has p too.
LEMMA ReturnHands ==
  ASSUME NEW t \in Threads, NEW p, NEW a, Return(t, p, a)
  PROVE  HandStep(t, {q \in DOMAIN live \cup {p} : OnSlab(q)})
<1>1. thread' = [thread EXCEPT ![t] = Idle]
  BY DEF Return
<1>2. CASE p = Nowhere
  BY <1>1, <1>2, IdleOK DEF Return, HandStep
<1>3. CASE p # Nowhere
  <2>1. DOMAIN live' = DOMAIN live \cup {p}
    BY <1>3, Given DEF Return
  <2> QED
    BY <1>1, <2>1, IdleOK DEF HandStep
<1> QED
  BY <1>2, <1>3

\* mira_malloc's result p is added to what the thread and the program have.
LEMMA AllocatedHands ==
  ASSUME Calling, NEW t \in Threads, NEW p, NEW a, Allocated(t, p, a),
         Stage(thread[t]) \in Taking, p \notin SlabHeld
  PROVE  HandStep(t, Hand(t) \cup {q \in {p} : OnSlab(q)})
<1>1. CallOK(thread[t]) /\ thread[t].new = Nowhere /\ ~OnSlab(Nowhere)
  BY IdleOK DEF Calling, CallOK, Taking, Giving
<1>2. CASE thread[t].ptr = Nowhere
  <2>1. Return(t, p, a)
    BY <1>2 DEF Allocated
  <2>2. {q \in DOMAIN live \cup {p} : OnSlab(q)} = Hand(t) \cup {q \in {p} : OnSlab(q)}
    BY <1>1, <1>2 DEF Hand
  <2> QED
    BY <2>1, <2>2, ReturnHands
<1>3. CASE thread[t].ptr # Nowhere /\ p = Nowhere
  <2>1. thread' = [thread EXCEPT ![t] = Idle] /\ DOMAIN live' = DOMAIN live \cup {thread[t].ptr}
    BY <1>3, Given DEF Allocated, ReallocFails
  <2>2. {q \in DOMAIN live \cup {thread[t].ptr} \cup {Idle.ptr, Idle.new} : OnSlab(q)}
          = Hand(t) \cup {q \in {p} : OnSlab(q)}
    BY <1>1, <1>3, IdleOK DEF Hand
  <2> QED
    BY <2>1, <2>2, IdleOK DEF HandStep
<1>4. CASE thread[t].ptr # Nowhere /\ p # Nowhere
  <2> DEFINE r == [thread[t] EXCEPT !.pc = "mmap_free", !.inside = FALSE, !.new = p]
  <2>1. thread' = [thread EXCEPT ![t] = r] /\ live' = live
    BY <1>4 DEF Allocated
  <2>2. DOMAIN r = DOMAIN Idle /\ r.pc = "mmap_free" /\ r.ptr = thread[t].ptr /\ r.new = p
    BY <1>1 DEF CallOK, Idle
  <2> HIDE DEF r
  <2>3. CallOK(r)
    BY <2>2 DEF CallOK, Stage, InitSteps, Giving
  <2>4. {q \in DOMAIN live \cup {r.ptr, r.new} : OnSlab(q)} = Hand(t) \cup {q \in {p} : OnSlab(q)}
    BY <1>1, <2>2 DEF Hand
  <2>5. OnSlab(r.ptr) => r.ptr \notin DOMAIN live /\ r.ptr # r.new
    BY <2>2, SlabHeldIs DEF Calling, Apart
  <2>6. OnSlab(r.new) => r.new \notin DOMAIN live
    BY <2>2, SlabHeldIs
  <2> QED
    BY <2>1, <2>3, <2>4, <2>5, <2>6 DEF HandStep
<1> QED
  BY <1>2, <1>3, <1>4

\* When the old block is freed the call is over: the thread gives it up.
LEMMA FreedHands ==
  ASSUME Calling, NEW t \in Threads, NEW a, Freed(t, a)
  PROVE  HandStep(t, Hand(t) \ {thread[t].ptr})
<1>1. Return(t, thread[t].new, a)
  BY DEF Freed
<1>2. {q \in DOMAIN live \cup {thread[t].new} : OnSlab(q)} = Hand(t) \ {thread[t].ptr}
  BY DEF Hand, Calling, Apart
<1> QED
  BY <1>1, <1>2, ReturnHands

\* mira_realloc returns the block it was given.
LEMMA ReturnSameHands ==
  ASSUME Calling, NEW t \in Threads, NEW a, Return(t, thread[t].ptr, a),
         Stage(thread[t]) \in Searching
  PROVE  HandStep(t, Hand(t))
<1>1. thread[t].new = Nowhere /\ ~OnSlab(Nowhere)
  BY IdleOK DEF Calling, CallOK, Searching, Giving
<1>2. {q \in DOMAIN live \cup {thread[t].ptr} : OnSlab(q)} = Hand(t)
  BY <1>1 DEF Hand
<1> QED
  BY <1>2, ReturnHands

\* Going on to another section changes no hands.
LEMMA ProceedHands ==
  ASSUME Calling, NEW t \in Threads, NEW section, NEW keep, Proceed(t, section, keep),
         section \in Searching \cup Taking \cup Giving,
         section \notin Giving => thread[t].new = Nowhere,
         section \in {"arena_free", "arena_resize"} => ~OnSlab(thread[t].ptr),
         section = "slab_alloc" => SlabClass(thread[t].size) \in DOMAIN SlotSizes
  PROVE  HandStep(t, Hand(t))
<1> DEFINE r == [thread[t] EXCEPT !.pc = section, !.inside = FALSE, !.keep = keep]
<1>1. thread' = [thread EXCEPT ![t] = r] /\ live' = live
  BY DEF Proceed
<1>2. DOMAIN thread[t] = DOMAIN Idle
  BY DEF Calling, CallOK
<1>3. /\ DOMAIN r = DOMAIN Idle /\ r.pc = section /\ r.ptr = thread[t].ptr
      /\ r.new = thread[t].new /\ r.size = thread[t].size
  BY <1>2 DEF Idle
<1> HIDE DEF r
<1>4. Stage(r) = section
  BY <1>3 DEF Stage, InitSteps, Searching, Taking, Giving
<1>5. CallOK(r)
  BY <1>3, <1>4 DEF CallOK, Searching, Taking, Giving
<1>6. {q \in DOMAIN live \cup {r.ptr, r.new} : OnSlab(q)} = Hand(t)
  BY <1>3 DEF Hand
<1>7. /\ OnSlab(r.ptr) => r.ptr \notin DOMAIN live /\ r.ptr # r.new
      /\ OnSlab(r.new) => r.new \notin DOMAIN live
  BY <1>3 DEF Calling, Apart
<1> QED
  BY <1>1, <1>5, <1>6, <1>7 DEF HandStep

\* Initializing the locks and entering a section change no hands.
LEMMA StageHands ==
  ASSUME Calling, NEW t \in Threads, NEW r, thread' = [thread EXCEPT ![t] = r],
         DOMAIN r = DOMAIN Idle, Stage(r) = Stage(thread[t]),
         r.ptr = thread[t].ptr, r.new = thread[t].new, r.size = thread[t].size,
         live' = live
  PROVE  HandStep(t, Hand(t))
<1>1. CallOK(r)
  BY DEF CallOK, Calling
<1>2. {q \in DOMAIN live \cup {r.ptr, r.new} : OnSlab(q)} = Hand(t)
  BY DEF Hand
<1>3. /\ OnSlab(r.ptr) => r.ptr \notin DOMAIN live /\ r.ptr # r.new
      /\ OnSlab(r.new) => r.new \notin DOMAIN live
  BY DEF Calling, Apart
<1> QED
  BY <1>1, <1>2, <1>3 DEF HandStep

--------------------------------------------------------------------------------
\* Slabs and hands together.

\* The calls are in order, and the bitmaps mark the slots in their hands.
SInv == Calling /\ SlabType /\ UsedCounts /\ SlotsHeld

\* The slabs are numbered from 1, and each is a slab.
LEMMA SlabsAre ==
  ASSUME SlabType
  PROVE  /\ Len(slabs) \in Nat /\ DOMAIN slabs = 1 .. Len(slabs)
         /\ \A i \in DOMAIN slabs : i \in Nat /\ slabs[i] \in Slab
BY DEF SlabType

\* The slots of a slab are finitely many.
LEMMA SlotsFinite ==
  IsFiniteSet(Slots)
<1>1. 0 \in Int /\ SlotsPerSlab - 1 \in Int
  BY MallocAssumption
<1> QED
  BY <1>1, FS_Interval DEF Slots

\* One slab for another.
LEMMA SlabReplaced ==
  ASSUME SlabType, NEW i \in DOMAIN slabs, NEW slab \in Slab,
         slabs' = [slabs EXCEPT ![i] = slab]
  PROVE  SlabType'
BY DEF SlabType

\* A marked slot, by its slab and its place in the bitmap.
LEMMA MarkedIs ==
  ASSUME NEW q
  PROVE  q \in Marked <=> \E i \in DOMAIN slabs : \E s \in slabs[i].bits : q = InSlab(i, s)
BY DEF Marked

\* What a thread has is in somebody's hands.
LEMMA HandHeld ==
  ASSUME NEW t \in Threads
  PROVE  Hand(t) \subseteq SlabHeld
BY SlabHeldIs DEF Hand

\* A step that changes neither slabs nor the hands keeps the invariant.
LEMMA SlabsUntouched ==
  ASSUME SInv, program' = program, NEW t \in Threads, HandStep(t, Hand(t)), slabs' = slabs
  PROVE  SInv'
<1>1. Calling' /\ SlabHeld' = (SlabHeld \ Hand(t)) \cup Hand(t)
  BY HandsKeep DEF SInv
<1>2. SlabHeld' = SlabHeld
  BY <1>1, HandHeld
<1>3. SlabType' /\ UsedCounts' /\ Marked' = Marked
  BY DEF SInv, SlabType, UsedCounts, Marked
<1> QED
  BY <1>1, <1>2, <1>3 DEF SInv, SlotsHeld, SlabHeld

\* A free slot is taken: it is marked, counted and in one hand.
LEMMA SlotTaken ==
  ASSUME SInv, program' = program, NEW t \in Threads, NEW i \in DOMAIN slabs,
         NEW s \in Slots, s \notin slabs[i].bits,
         slabs' = [slabs EXCEPT ![i].bits = @ \cup {s}, ![i].used = @ + 1],
         HandStep(t, Hand(t) \cup {InSlab(i, s)})
  PROVE  SInv'
<1>1. /\ i \in 1 .. Len(slabs) /\ DOMAIN slabs = 1 .. Len(slabs) /\ i \in Nat
      /\ \A j \in DOMAIN slabs : j \in Nat /\ slabs[j] \in Slab
      /\ slabs[i] \in Slab
  BY SlabsAre DEF SInv
<1>2. InSlab(i, s) \notin Marked
  <2> SUFFICES ASSUME NEW j \in DOMAIN slabs, NEW r \in slabs[j].bits, InSlab(i, s) = InSlab(j, r)
               PROVE  FALSE
    BY MarkedIs
  <2>1. j \in Nat /\ r \in Slots
    BY <1>1 DEF Slab
  <2>2. j = i /\ r = s
    BY <1>1, <2>1, SlotPlaces
  <2> QED
    BY <2>2
<1>3. Calling' /\ SlabHeld' = (SlabHeld \ Hand(t)) \cup (Hand(t) \cup {InSlab(i, s)})
  <2>1. \A q \in (Hand(t) \cup {InSlab(i, s)}) \ Hand(t) : q \notin SlabHeld
    BY <1>2 DEF SInv, SlotsHeld, SlabHeld
  <2> QED
    BY <2>1, HandsKeep DEF SInv
<1> DEFINE slab == [slabs[i] EXCEPT !.bits = @ \cup {s}, !.used = @ + 1]
<1>4. /\ slab \in Slab
      /\ slab.bits = slabs[i].bits \cup {s} /\ slab.used = slabs[i].used + 1
  BY <1>1 DEF Slab
<1>5. slabs' = [slabs EXCEPT ![i] = slab]
  OBVIOUS
<1> HIDE DEF slab
<1>6. /\ DOMAIN slabs' = DOMAIN slabs /\ slabs'[i] = slab
      /\ \A j \in DOMAIN slabs \ {i} : slabs'[j] = slabs[j]
  BY <1>1, <1>5
<1>7. SlabType'
  BY <1>4, <1>5, SlabReplaced DEF SInv
<1>8. UsedCounts'
  <2>1. IsFiniteSet(slabs[i].bits)
    BY <1>1, SlotsFinite, FS_Subset DEF Slab
  <2>2. Cardinality(slabs[i].bits \cup {s}) = Cardinality(slabs[i].bits) + 1
    BY <2>1, FS_AddElement
  <2>3. slab.used = Cardinality(slab.bits)
    BY <1>4, <2>2 DEF SInv, UsedCounts
  <2> QED
    BY <1>6, <2>3 DEF SInv, UsedCounts
<1>9. Marked' = Marked \cup {InSlab(i, s)}
  <2>1. ASSUME NEW q PROVE q \in Marked' <=> q \in Marked \cup {InSlab(i, s)}
    <3>1. q \in Marked' <=> \E j \in DOMAIN slabs : \E r \in slabs'[j].bits : q = InSlab(j, r)
      BY <1>6 DEF Marked
    <3>2. q \in Marked <=> \E j \in DOMAIN slabs : \E r \in slabs[j].bits : q = InSlab(j, r)
      BY MarkedIs
    <3> HIDE DEF slab
    <3> QED
      BY <1>4, <1>6, <3>1, <3>2
  <2> QED
    BY <2>1
<1>10. SlabHeld' = SlabHeld \cup {InSlab(i, s)}
  BY <1>3, HandHeld
<1> QED
  BY <1>3, <1>7, <1>8, <1>9, <1>10 DEF SInv, SlotsHeld, SlabHeld

\* A new slab serves its first slot.
LEMMA SlabAdded ==
  ASSUME SInv, program' = program, NEW t \in Threads, NEW cls \in DOMAIN SlotSizes,
         slabs' = Append(slabs, [cls |-> cls, bits |-> {0}, used |-> 1]),
         HandStep(t, Hand(t) \cup {InSlab(Len(slabs) + 1, 0)})
  PROVE  SInv'
<1> DEFINE i == Len(slabs) + 1
           slab == [cls |-> cls, bits |-> {0}, used |-> 1]
<1>1. /\ slabs \in Seq(Slab) /\ Len(slabs) \in Nat /\ DOMAIN slabs = 1 .. Len(slabs)
      /\ i \in Nat /\ i \notin DOMAIN slabs
      /\ \A j \in DOMAIN slabs : j \in Nat /\ slabs[j] \in Slab
  BY SlabsAre DEF SInv, SlabType
<1>2. 0 \in Slots
  BY MallocAssumption DEF Slots
<1>3. slab \in Slab /\ slab.bits = {0} /\ slab.used = 1
  BY <1>2 DEF Slab
<1> HIDE DEF slab
<1>4. slabs' = Append(slabs, slab)
  BY DEF slab
<1>5. /\ slabs' \in Seq(Slab) /\ DOMAIN slabs' = DOMAIN slabs \cup {i} /\ slabs'[i] = slab
      /\ \A j \in DOMAIN slabs : slabs'[j] = slabs[j]
  BY <1>1, <1>3, <1>4
<1>6. InSlab(i, 0) \notin Marked
  <2> SUFFICES ASSUME NEW j \in DOMAIN slabs, NEW r \in slabs[j].bits, InSlab(i, 0) = InSlab(j, r)
               PROVE  FALSE
    BY MarkedIs
  <2>1. j \in Nat /\ r \in Slots
    BY <1>1 DEF Slab
  <2> QED
    BY <1>1, <1>2, <2>1, SlotPlaces
<1>7. Calling' /\ SlabHeld' = (SlabHeld \ Hand(t)) \cup (Hand(t) \cup {InSlab(i, 0)})
  <2>1. \A q \in (Hand(t) \cup {InSlab(i, 0)}) \ Hand(t) : q \notin SlabHeld
    BY <1>6 DEF SInv, SlotsHeld, SlabHeld
  <2> QED
    BY <2>1, HandsKeep DEF SInv
<1>8. SlabType'
  BY <1>5 DEF SlabType
<1>9. UsedCounts'
  <2>1. Cardinality({0}) = 1
    BY FS_Singleton
  <2> QED
    BY <1>3, <1>5, <2>1 DEF SInv, UsedCounts
<1>10. Marked' = Marked \cup {InSlab(i, 0)}
  <2>1. ASSUME NEW q PROVE q \in Marked' <=> q \in Marked \cup {InSlab(i, 0)}
    <3>1. q \in Marked' <=> \E j \in DOMAIN slabs \cup {i} : \E r \in slabs'[j].bits : q = InSlab(j, r)
      BY <1>5 DEF Marked
    <3>2. q \in Marked <=> \E j \in DOMAIN slabs : \E r \in slabs[j].bits : q = InSlab(j, r)
      BY MarkedIs
    <3> HIDE DEF i
    <3> QED
      BY <1>1, <1>3, <1>5, <3>1, <3>2
  <2> QED
    BY <2>1
<1>11. SlabHeld' = SlabHeld \cup {InSlab(i, 0)}
  BY <1>7, HandHeld
<1> QED
  BY <1>7, <1>8, <1>9, <1>10, <1>11 DEF SInv, SlotsHeld, SlabHeld

\* A slot is given back: its mark goes, and it is in nobody's hands.
LEMMA SlotGiven ==
  ASSUME SInv, program' = program, NEW t \in Threads, NEW i \in DOMAIN slabs,
         NEW s \in slabs[i].bits, InSlab(i, s) \in Hand(t),
         slabs' = [slabs EXCEPT ![i].bits = @ \ {s}, ![i].used = @ - 1],
         HandStep(t, Hand(t) \ {InSlab(i, s)})
  PROVE  SInv'
<1>1. /\ i \in 1 .. Len(slabs) /\ DOMAIN slabs = 1 .. Len(slabs) /\ i \in Nat /\ s \in Slots
      /\ \A j \in DOMAIN slabs : j \in Nat /\ slabs[j] \in Slab
      /\ slabs[i] \in Slab
  BY SlabsAre DEF SInv, Slab
<1>2. Calling' /\ SlabHeld' = (SlabHeld \ Hand(t)) \cup (Hand(t) \ {InSlab(i, s)})
  BY HandsKeep DEF SInv
<1>3. IsFiniteSet(slabs[i].bits)
  BY <1>1, SlotsFinite, FS_Subset DEF Slab
<1>4. /\ Cardinality(slabs[i].bits) \in Nat
      /\ Cardinality(slabs[i].bits \ {s}) = Cardinality(slabs[i].bits) - 1
      /\ Cardinality(slabs[i].bits \ {s}) \in Nat
  <2>1. IsFiniteSet(slabs[i].bits \ {s})
    BY <1>3, FS_RemoveElement
  <2> QED
    BY <1>3, <2>1, FS_RemoveElement, FS_CardinalityType
<1>5. slabs[i].used = Cardinality(slabs[i].bits)
  BY DEF SInv, UsedCounts
<1> DEFINE slab == [slabs[i] EXCEPT !.bits = @ \ {s}, !.used = @ - 1]
<1>6. /\ slab \in Slab
      /\ slab.bits = slabs[i].bits \ {s} /\ slab.used = slabs[i].used - 1
  <2>1. slabs[i] \in Slab
    BY <1>1
  <2>2. slabs[i].used - 1 \in Nat
    BY <1>4, <1>5
  <2> QED
    BY <2>1, <2>2 DEF Slab
<1>7. slabs' = [slabs EXCEPT ![i] = slab]
  OBVIOUS
<1> HIDE DEF slab
<1>8. /\ DOMAIN slabs' = DOMAIN slabs /\ slabs'[i] = slab
      /\ \A j \in DOMAIN slabs \ {i} : slabs'[j] = slabs[j]
  BY <1>1, <1>7
<1>9. SlabType'
  BY <1>6, <1>7, SlabReplaced DEF SInv
<1>10. UsedCounts'
  BY <1>4, <1>5, <1>6, <1>8 DEF SInv, UsedCounts
<1>11. Marked' = Marked \ {InSlab(i, s)}
  <2>1. ASSUME NEW q PROVE q \in Marked' <=> q \in Marked \ {InSlab(i, s)}
    <3>1. q \in Marked' <=> \E j \in DOMAIN slabs : \E r \in slabs'[j].bits : q = InSlab(j, r)
      BY <1>8 DEF Marked
    <3>2. q \in Marked <=> \E j \in DOMAIN slabs : \E r \in slabs[j].bits : q = InSlab(j, r)
      BY MarkedIs
    <3>3. \A j \in DOMAIN slabs : \A r \in slabs[j].bits :
             InSlab(j, r) = InSlab(i, s) => j = i /\ r = s
      <4> SUFFICES ASSUME NEW j \in DOMAIN slabs, NEW r \in slabs[j].bits,
                          InSlab(j, r) = InSlab(i, s)
                   PROVE  j = i /\ r = s
        OBVIOUS
      <4>1. j \in Nat /\ r \in Slots
        BY <1>1 DEF Slab
      <4> QED
        BY <1>1, <4>1, SlotPlaces
    <3> QED
      BY <1>6, <1>8, <3>1, <3>2, <3>3
  <2> QED
    BY <2>1
<1>12. SlabHeld' = SlabHeld \ {InSlab(i, s)}
  BY <1>2, HandHeld
<1> QED
  BY <1>2, <1>9, <1>10, <1>11, <1>12 DEF SInv, SlotsHeld, SlabHeld

--------------------------------------------------------------------------------
\* The steps.

\* The section that serves a size is one of mira_malloc's, and slab_alloc only
\* gets sizes that some slab serves.
LEMMA ServesTaking ==
  ASSUME NEW size
  PROVE  /\ Serves(size) \in Taking
         /\ Serves(size) = "slab_alloc" => SlabClass(size) \in DOMAIN SlotSizes
BY DEF Serves, Taking

\* What is not a slot is in no slab's hands.
LEMMA OtherAreas ==
  /\ \A k : ~OnSlab(InMap(k)) /\ ~OnSlab(InArena(k))
  /\ ~OnSlab(Nowhere)
BY DEF OnSlab, InMap, InArena, Nowhere

\* A block from elsewhere changes no slot's hands.
LEMMA AllocatedElsewhere ==
  ASSUME Calling, NEW t \in Threads, NEW p, NEW a, Allocated(t, p, a),
         Stage(thread[t]) \in Taking, ~OnSlab(p)
  PROVE  HandStep(t, Hand(t))
<1>1. p \notin SlabHeld
  BY DEF SlabHeld
<1>2. {q \in {p} : OnSlab(q)} = {}
  OBVIOUS
<1>3. HandStep(t, Hand(t) \cup {q \in {p} : OnSlab(q)})
  BY <1>1, AllocatedHands
<1>4. Hand(t) \cup {q \in {p} : OnSlab(q)} = Hand(t)
  BY <1>2
<1> QED
  BY <1>3, <1>4

\* The section a thread is in is its stage.
LEMMA AtStage ==
  ASSUME NEW t, NEW section \in Searching \cup Taking \cup Giving, At(t, section)
  PROVE  Stage(thread[t]) = section /\ thread[t].pc = section
BY DEF At, Stage, InitSteps, Searching, Taking, Giving

\* mmap_alloc and the arena part of mira_malloc give no slots.
LEMMA ElsewhereKeeps ==
  ASSUME SInv, NEW t \in Threads, MmapAlloc(t) \/ \E g \in Growths : ArenaAlloc(t, g)
  PROVE  SInv'
<1>1. /\ Stage(thread[t]) \in Taking /\ program' = program /\ slabs' = slabs
      /\ \E p, a : Allocated(t, p, a) /\ ~OnSlab(p)
  <2>1. CASE MmapAlloc(t)
    <3>1. At(t, "mmap_alloc")
      BY <2>1 DEF MmapAlloc
    <3>2. Stage(thread[t]) \in Taking
      BY <3>1, AtStage DEF Taking
    <3>3. \E p, a : Allocated(t, p, a) /\ ~OnSlab(p)
      BY <2>1, OtherAreas DEF MmapAlloc
    <3> QED
      BY <2>1, <3>2, <3>3 DEF MmapAlloc
  <2>2. CASE \E g \in Growths : ArenaAlloc(t, g)
    <3>1. At(t, "arena_alloc")
      BY <2>2 DEF ArenaAlloc
    <3>2. Stage(thread[t]) \in Taking
      BY <3>1, AtStage DEF Taking
    <3>3. \E p, a : Allocated(t, p, a) /\ ~OnSlab(p)
      <4>1. PICK r : AllocatedIn(t, r)
        BY <2>2 DEF ArenaAlloc
      <4>2. CASE r.block = NULL
        BY <4>1, <4>2, OtherAreas DEF AllocatedIn
      <4>3. CASE r.block # NULL
        BY <4>1, <4>3, OtherAreas DEF AllocatedIn
      <4> QED
        BY <4>2, <4>3
    <3> QED
      BY <2>2, <3>2, <3>3 DEF ArenaAlloc
  <2> QED
    BY <2>1, <2>2
<1>2. HandStep(t, Hand(t))
  BY <1>1, AllocatedElsewhere DEF SInv
<1> QED
  BY <1>1, <1>2, SlabsUntouched

\* slab_alloc: a free slot of a slab, the first one of a new slab, or the arena.
LEMMA SlabAllocKeeps ==
  ASSUME SInv, NEW t \in Threads, SlabAlloc(t)
  PROVE  SInv'
<1> DEFINE cls  == SlabClass(thread[t].size)
           room == {i \in DOMAIN slabs : slabs[i].cls = cls /\ slabs[i].used < SlotsPerSlab}
           i    == Max(room)
           slot == Min((0 .. SlotsPerSlab - 1) \ slabs[i].bits)
<1>1. /\ At(t, "slab_alloc") /\ program' = program
      /\ \/ /\ room # {}
            /\ slabs' = [slabs EXCEPT ![i].bits = @ \cup {slot}, ![i].used = @ + 1]
            /\ Allocated(t, InSlab(i, slot), arena)
         \/ /\ slabs' = Append(slabs, [cls |-> cls, bits |-> {0}, used |-> 1])
            /\ Allocated(t, InSlab(Len(slabs) + 1, 0), arena)
         \/ Proceed(t, "arena_alloc", thread[t].keep) /\ slabs' = slabs
  BY DEF SlabAlloc
<1>2. Stage(thread[t]) = "slab_alloc" /\ "slab_alloc" \in Taking
  BY <1>1, AtStage DEF Taking
<1>3. /\ Calling /\ cls \in DOMAIN SlotSizes /\ thread[t].new = Nowhere
  BY <1>2 DEF SInv, Calling, CallOK, Giving
<1>4. /\ Len(slabs) \in Nat /\ DOMAIN slabs = 1 .. Len(slabs)
      /\ \A j \in DOMAIN slabs : j \in Nat /\ slabs[j] \in Slab
  BY SlabsAre DEF SInv
<1>5. \A q : q \in SlabHeld <=> q \in Marked
  BY DEF SInv, SlotsHeld, SlabHeld
<1>6. CASE /\ room # {}
           /\ slabs' = [slabs EXCEPT ![i].bits = @ \cup {slot}, ![i].used = @ + 1]
           /\ Allocated(t, InSlab(i, slot), arena)
  <2>1. i \in room
    <3>1. room \in SUBSET (1 .. Len(slabs))
      BY <1>4
    <3> HIDE DEF room
    <3> QED
      BY <1>4, <1>6, <3>1, MaxFound
  <2>2. i \in DOMAIN slabs /\ slabs[i].used < SlotsPerSlab
    BY <2>1
  <2> HIDE DEF i, room, cls
  <2>3. slot \in Slots /\ slot \notin slabs[i].bits
    <3>1. slabs[i].bits \in SUBSET Slots /\ Cardinality(slabs[i].bits) < SlotsPerSlab
      BY <1>4, <2>2 DEF SInv, UsedCounts, Slab
    <3>2. Min(Slots \ slabs[i].bits) \in Slots \ slabs[i].bits
      BY <3>1, SlotFree
    <3> QED
      BY <3>2 DEF Slots
  <2> HIDE DEF slot
  <2>4. OnSlab(InSlab(i, slot)) /\ InSlab(i, slot) \notin Marked
    <3>1. OnSlab(InSlab(i, slot))
      BY <1>4, <2>2, <2>3, SlotPlaces
    <3> SUFFICES ASSUME NEW j \in DOMAIN slabs, NEW r \in slabs[j].bits, InSlab(i, slot) = InSlab(j, r)
                 PROVE  FALSE
      BY <3>1, MarkedIs
    <3>2. j \in Nat /\ i \in Nat /\ r \in Slots
      BY <1>4, <2>2 DEF Slab
    <3>3. j = i /\ r = slot
      BY <2>3, <3>2, SlotPlaces
    <3> QED
      BY <2>3, <3>3
  <2>5. HandStep(t, Hand(t) \cup {q \in {InSlab(i, slot)} : OnSlab(q)})
    BY <1>2, <1>3, <1>5, <1>6, <2>4, AllocatedHands
  <2>6. {q \in {InSlab(i, slot)} : OnSlab(q)} = {InSlab(i, slot)}
    BY <2>4
  <2>7. HandStep(t, Hand(t) \cup {InSlab(i, slot)})
    BY <2>5, <2>6
  <2> QED
    BY <1>1, <1>6, <2>2, <2>3, <2>7, SlotTaken
<1>7. CASE /\ slabs' = Append(slabs, [cls |-> cls, bits |-> {0}, used |-> 1])
           /\ Allocated(t, InSlab(Len(slabs) + 1, 0), arena)
  <2> DEFINE p == InSlab(Len(slabs) + 1, 0)
  <2>1. Len(slabs) + 1 \in Nat /\ 0 \in Slots
    BY <1>4, MallocAssumption DEF Slots
  <2>2. OnSlab(p) /\ p \notin Marked
    <3>1. OnSlab(p)
      BY <2>1, SlotPlaces
    <3> SUFFICES ASSUME NEW j \in DOMAIN slabs, NEW r \in slabs[j].bits, p = InSlab(j, r)
                 PROVE  FALSE
      BY <3>1, MarkedIs
    <3>2. j \in Nat /\ r \in Slots
      BY <1>4 DEF Slab
    <3>3. j = Len(slabs) + 1
      BY <2>1, <3>2, SlotPlaces
    <3> QED
      BY <1>4, <3>3
  <2> HIDE DEF p
  <2>3. HandStep(t, Hand(t) \cup {q \in {p} : OnSlab(q)})
    BY <1>2, <1>3, <1>5, <1>7, <2>2, AllocatedHands DEF p
  <2>4. {q \in {p} : OnSlab(q)} = {p}
    BY <2>2
  <2>5. HandStep(t, Hand(t) \cup {p})
    BY <2>3, <2>4
  <2> QED
    BY <1>1, <1>3, <1>7, <2>5, SlabAdded DEF p
<1>8. CASE Proceed(t, "arena_alloc", thread[t].keep) /\ slabs' = slabs
  <2>1. HandStep(t, Hand(t))
    BY <1>3, <1>8, ProceedHands DEF Taking, Giving
  <2> QED
    BY <1>1, <1>8, <2>1, SlabsUntouched
<1> QED
  BY <1>1, <1>6, <1>7, <1>8

\* mmap_free: the block has a mapping of its own, or the slabs are asked next.
LEMMA MmapFreeKeeps ==
  ASSUME SInv, NEW t \in Threads, MmapFree(t)
  PROVE  SInv'
<1>1. Calling /\ program' = program /\ slabs' = slabs
  BY DEF MmapFree, SInv
<1>2. CASE FindMap(thread[t].ptr) = {}
  <2>1. Proceed(t, "slab_free", thread[t].keep)
    BY <1>2 DEF MmapFree
  <2>2. HandStep(t, Hand(t))
    BY <1>1, <2>1, ProceedHands DEF Giving
  <2> QED
    BY <1>1, <2>2, SlabsUntouched
<1>3. CASE FindMap(thread[t].ptr) # {}
  <2>1. Freed(t, arena)
    BY <1>3 DEF MmapFree
  <2>2. ~OnSlab(thread[t].ptr)
    BY <1>3, OtherAreas DEF FindMap
  <2>3. Hand(t) \ {thread[t].ptr} = Hand(t)
    BY <2>2 DEF Hand
  <2>4. HandStep(t, Hand(t))
    BY <1>1, <2>1, <2>3, FreedHands
  <2> QED
    BY <1>1, <2>4, SlabsUntouched
<1> QED
  BY <1>2, <1>3

\* slab_free gives the slot back, or the block is in the arena.
LEMMA SlabFreeKeeps ==
  ASSUME SInv, NEW t \in Threads, SlabFree(t)
  PROVE  SInv'
<1>1. Calling /\ program' = program
  BY DEF SlabFree, SInv
<1>2. CASE thread[t].ptr.area # "slab"
  <2>1. Proceed(t, "arena_free", thread[t].keep) /\ slabs' = slabs
    BY <1>2 DEF SlabFree
  <2>2. HandStep(t, Hand(t))
    BY <1>1, <1>2, <2>1, ProceedHands DEF Giving, OnSlab
  <2> QED
    BY <1>1, <2>1, <2>2, SlabsUntouched
<1>3. CASE thread[t].ptr.area = "slab"
  <2> DEFINE p == thread[t].ptr
  <2>1. /\ Freed(t, arena)
        /\ slabs' = IF SlotOf(p) \notin slabs[SlabOf(p)].bits THEN slabs
                    ELSE [slabs EXCEPT ![SlabOf(p)].bits = @ \ {SlotOf(p)},
                                       ![SlabOf(p)].used = @ - 1]
    BY <1>3 DEF SlabFree
  <2>2. p \in Hand(t) /\ p \in Marked
    <3>1. p \in Hand(t)
      BY <1>3 DEF Hand, OnSlab
    <3>2. p \in SlabHeld
      BY <3>1, HandHeld
    <3> QED
      BY <3>1, <3>2 DEF SInv, SlotsHeld, SlabHeld
  <2>3. PICK i \in DOMAIN slabs : \E s \in slabs[i].bits : p = InSlab(i, s)
    BY <2>2, MarkedIs
  <2>4. PICK s \in slabs[i].bits : p = InSlab(i, s)
    BY <2>3
  <2>5. i \in Nat /\ s \in Slots
    BY SlabsAre DEF SInv, Slab
  <2>6. SlabOf(p) = i /\ SlotOf(p) = s
    BY <2>4, <2>5, SlotPlaces
  <2>7. slabs' = [slabs EXCEPT ![i].bits = @ \ {s}, ![i].used = @ - 1]
    BY <2>1, <2>6
  <2>8. HandStep(t, Hand(t) \ {InSlab(i, s)})
    BY <1>1, <2>1, <2>4, FreedHands
  <2> QED
    BY <1>1, <2>2, <2>4, <2>7, <2>8, SlotGiven
<1> QED
  BY <1>2, <1>3

\* arena_free gets blocks of the arena only.
LEMMA ReleaseKeeps ==
  ASSUME SInv, NEW t \in Threads, ReleaseBlock(t)
  PROVE  SInv'
<1>1. /\ Calling /\ program' = program /\ slabs' = slabs /\ At(t, "arena_free")
      /\ Freed(t, ArenaFree(arena, thread[t].ptr.at))
  BY DEF ReleaseBlock, SInv
<1>2. Stage(thread[t]) = "arena_free"
  BY <1>1, AtStage DEF Giving
<1>3. ~OnSlab(thread[t].ptr)
  BY <1>1, <1>2 DEF Calling, CallOK
<1>4. Hand(t) \ {thread[t].ptr} = Hand(t)
  BY <1>3 DEF Hand
<1>5. HandStep(t, Hand(t))
  BY <1>1, <1>4, FreedHands
<1> QED
  BY <1>1, <1>5, SlabsUntouched

\* mira_realloc's searches: the block is returned, or another section comes.
LEMMA SearchKeeps ==
  ASSUME SInv, NEW t \in Threads, MmapFind(t) \/ SlabFind(t) \/ ResizeBlock(t)
  PROVE  SInv'
<1>1. Calling /\ program' = program /\ slabs' = slabs
  BY DEF MmapFind, SlabFind, ResizeBlock, SInv
<1>2. Stage(thread[t]) \in Searching
  <2>1. \E section \in Searching : At(t, section)
    BY DEF MmapFind, SlabFind, ResizeBlock, Searching
  <2> QED
    BY <2>1, AtStage
<1>3. thread[t].new = Nowhere
  BY <1>1, <1>2 DEF Calling, CallOK, Searching, Giving
<1>4. \/ \E a : Return(t, thread[t].ptr, a)
      \/ \E section, keep :
           /\ Proceed(t, section, keep)
           /\ \/ section \in {"slab_find", Serves(thread[t].size)}
              \/ section = "arena_resize" /\ ~OnSlab(thread[t].ptr)
  <2>1. CASE MmapFind(t)
    BY <2>1 DEF MmapFind
  <2>2. CASE SlabFind(t)
    BY <2>2 DEF SlabFind, OnSlab
  <2>3. CASE ResizeBlock(t)
    BY <2>3 DEF ResizeBlock, Resized
  <2> QED
    BY <2>1, <2>2, <2>3
<1>5. CASE \E a : Return(t, thread[t].ptr, a)
  <2>1. HandStep(t, Hand(t))
    BY <1>1, <1>2, <1>5, ReturnSameHands
  <2> QED
    BY <1>1, <2>1, SlabsUntouched
<1>6. ASSUME NEW section, NEW keep, Proceed(t, section, keep),
             \/ section \in {"slab_find", Serves(thread[t].size)}
             \/ section = "arena_resize" /\ ~OnSlab(thread[t].ptr)
      PROVE  SInv'
  <2>1. /\ section \in Searching \cup Taking
        /\ section = "arena_resize" => ~OnSlab(thread[t].ptr)
        /\ section # "arena_free"
        /\ section = "slab_alloc" => SlabClass(thread[t].size) \in DOMAIN SlotSizes
    BY <1>6, ServesTaking DEF Searching, Taking
  <2>2. HandStep(t, Hand(t))
    BY <1>1, <1>3, <1>6, <2>1, ProceedHands
  <2> QED
    BY <1>1, <2>2, SlabsUntouched
<1> QED
  BY <1>4, <1>5, <1>6

\* The four calls: the thread takes a block from the program, or has none.
LEMMA CallsKeepSlabs ==
  ASSUME SInv, NEW t \in program.threads, t \in Threads, Calls(t)
  PROVE  SInv'
<1>1. \E section, th :
        /\ Call(t, section, th)
        /\ section \in Searching \cup Taking \cup {"mmap_free"} /\ section # "arena_resize"
        /\ DOMAIN th = DOMAIN Idle /\ th.new = Nowhere
        /\ section = "slab_alloc" => SlabClass(th.size) \in DOMAIN SlotSizes
        /\ \/ th.ptr = Nowhere /\ live' = live
           \/ th.ptr \in DOMAIN live /\ Take(th.ptr)
  <2>1. CASE \E size \in program.sizes : CallMalloc(t, size)
    <3>1. PICK size \in program.sizes : CallMalloc(t, size)
      BY <2>1
    <3> DEFINE th == [Idle EXCEPT !.size = size, !.asked = size]
    <3>2. Call(t, Serves(size), th) /\ live' = live
      BY <3>1 DEF CallMalloc
    <3>3. DOMAIN th = DOMAIN Idle /\ th.new = Nowhere /\ th.ptr = Nowhere /\ th.size = size
      BY DEF Idle
    <3> HIDE DEF th
    <3> QED
      BY <3>2, <3>3, ServesTaking DEF Searching, Taking
  <2>2. CASE \E a \in program.arrays : CallCalloc(t, a[1], a[2])
    <3>1. PICK n, size : CallCalloc(t, n, size)
      BY <2>2
    <3> DEFINE total == (n * size) % SizeLimit
               th == [Idle EXCEPT !.size = total, !.asked = n * size]
    <3>2. Call(t, Serves(total), th) /\ live' = live
      BY <3>1 DEF CallCalloc
    <3>3. DOMAIN th = DOMAIN Idle /\ th.new = Nowhere /\ th.ptr = Nowhere /\ th.size = total
      BY DEF Idle
    <3> HIDE DEF th, total
    <3> QED
      BY <3>2, <3>3, ServesTaking DEF Searching, Taking
  <2>3. CASE \E p \in DOMAIN live : CallFree(t, p)
    <3>1. PICK p \in DOMAIN live : CallFree(t, p)
      BY <2>3
    <3> DEFINE th == [Idle EXCEPT !.ptr = p]
    <3>2. Call(t, "mmap_free", th) /\ Take(p)
      BY <3>1 DEF CallFree
    <3>3. DOMAIN th = DOMAIN Idle /\ th.new = Nowhere /\ th.ptr = p
      BY DEF Idle
    <3> HIDE DEF th
    <3> QED
      BY <3>2, <3>3
  <2>4. CASE \E p \in DOMAIN live, size \in program.sizes : CallRealloc(t, p, size)
    <3>1. PICK p \in DOMAIN live, size \in program.sizes : CallRealloc(t, p, size)
      BY <2>4
    <3> DEFINE th == [Idle EXCEPT !.ptr = p, !.size = size, !.asked = size,
                                  !.had = Min({live[p], size})]
    <3>2. Call(t, "mmap_find", th) /\ Take(p)
      BY <3>1 DEF CallRealloc
    <3>3. DOMAIN th = DOMAIN Idle /\ th.new = Nowhere /\ th.ptr = p
      BY DEF Idle
    <3> HIDE DEF th
    <3> QED
      BY <3>2, <3>3 DEF Searching
  <2> QED
    BY <2>1, <2>2, <2>3, <2>4 DEF Calls
<1>2. PICK section, th :
        /\ Call(t, section, th)
        /\ section \in Searching \cup Taking \cup {"mmap_free"} /\ section # "arena_resize"
        /\ DOMAIN th = DOMAIN Idle /\ th.new = Nowhere
        /\ section = "slab_alloc" => SlabClass(th.size) \in DOMAIN SlotSizes
        /\ \/ th.ptr = Nowhere /\ live' = live
           \/ th.ptr \in DOMAIN live /\ Take(th.ptr)
  BY <1>1
<1> DEFINE r == [th EXCEPT !.pc = IF initialized THEN section ELSE "init1", !.then = section]
<1>3. thread' = [thread EXCEPT ![t] = r] /\ program' = program /\ slabs' = slabs /\ thread[t].pc = "idle"
  BY <1>2 DEF Call
<1>4. /\ DOMAIN r = DOMAIN Idle /\ r.ptr = th.ptr /\ r.new = Nowhere /\ r.size = th.size
      /\ r.then = section /\ r.pc \in {section, "init1"}
  BY <1>2 DEF Idle
<1> HIDE DEF r
<1>5. Stage(r) = section
  BY <1>2, <1>4 DEF Stage, InitSteps, Searching, Taking
<1>6. CallOK(r)
  BY <1>2, <1>4, <1>5 DEF CallOK, Searching, Taking, Giving
<1>7. thread[t].ptr = Nowhere /\ thread[t].new = Nowhere /\ ~OnSlab(Nowhere)
  <2>1. Stage(thread[t]) = "idle" /\ CallOK(thread[t])
    BY <1>3 DEF Stage, InitSteps, SInv, Calling
  <2> QED
    BY <2>1, OtherAreas DEF CallOK, Giving
<1>8. HandStep(t, Hand(t))
  <2>1. CASE th.ptr = Nowhere /\ live' = live
    <3>1. {q \in DOMAIN live' \cup {r.ptr, r.new} : OnSlab(q)} = Hand(t)
      BY <1>4, <1>7, <2>1 DEF Hand
    <3> QED
      BY <1>3, <1>4, <1>6, <1>7, <2>1, <3>1 DEF HandStep
  <2>2. CASE th.ptr \in DOMAIN live /\ Take(th.ptr)
    <3>1. DOMAIN live' = DOMAIN live \ {th.ptr}
      BY <2>2 DEF Take
    <3>2. {q \in DOMAIN live' \cup {r.ptr, r.new} : OnSlab(q)} = Hand(t)
      BY <1>4, <1>7, <2>2, <3>1 DEF Hand
    <3>3. OnSlab(r.ptr) => r.ptr \notin DOMAIN live' /\ r.ptr # r.new
      BY <1>4, <1>7, <3>1
    <3> QED
      BY <1>3, <1>4, <1>6, <1>7, <3>2, <3>3 DEF HandStep
  <2> QED
    BY <1>2, <2>1, <2>2
<1> QED
  BY <1>3, <1>8, SlabsUntouched

\* Initializing the locks and entering a section touch no slab.
LEMMA LockStepsKeepSlabs ==
  ASSUME SInv, NEW t \in Threads,
         (\E i \in 1 .. 3 : InitLock(t, i)) \/ InitDone(t) \/ Enter(t)
  PROVE  SInv'
<1>1. DOMAIN thread[t] = DOMAIN Idle /\ CallOK(thread[t])
  BY DEF SInv, Calling, CallOK
<1>2. /\ program' = program /\ slabs' = slabs /\ live' = live
      /\ \E r : /\ thread' = [thread EXCEPT ![t] = r]
                /\ DOMAIN r = DOMAIN Idle /\ Stage(r) = Stage(thread[t])
                /\ r.ptr = thread[t].ptr /\ r.new = thread[t].new /\ r.size = thread[t].size
  <2>1. program' = program /\ slabs' = slabs /\ live' = live
    BY DEF InitLock, InitDone, Enter
  <2>2. ASSUME NEW i \in 1 .. 3, InitLock(t, i)
        PROVE  \E r : /\ thread' = [thread EXCEPT ![t] = r]
                      /\ DOMAIN r = DOMAIN Idle /\ Stage(r) = Stage(thread[t])
                      /\ r.ptr = thread[t].ptr /\ r.new = thread[t].new /\ r.size = thread[t].size
    <3> DEFINE pc == <<"init2", "init3", "init4">>[i]
               r  == [thread[t] EXCEPT !.pc = pc]
    <3>1. thread' = [thread EXCEPT ![t] = r] /\ thread[t].pc \in InitSteps /\ pc \in InitSteps
      BY <2>2 DEF InitLock, InitSteps
    <3> HIDE DEF pc
    <3>2. /\ DOMAIN r = DOMAIN Idle /\ r.pc = pc /\ r.then = thread[t].then
          /\ r.ptr = thread[t].ptr /\ r.new = thread[t].new /\ r.size = thread[t].size
      BY <1>1 DEF Idle
    <3> HIDE DEF r
    <3> QED
      BY <3>1, <3>2 DEF Stage
  <2>3. CASE InitDone(t)
    <3> DEFINE r == [thread[t] EXCEPT !.pc = thread[t].then]
    <3>1. thread' = [thread EXCEPT ![t] = r] /\ thread[t].pc = "init4"
      BY <2>3 DEF InitDone
    <3>2. /\ DOMAIN r = DOMAIN Idle /\ r.pc = thread[t].then
          /\ r.ptr = thread[t].ptr /\ r.new = thread[t].new /\ r.size = thread[t].size
      BY <1>1 DEF Idle
    <3> HIDE DEF r
    <3>3. Stage(thread[t]) = thread[t].then
      BY <3>1 DEF Stage, InitSteps
    <3>4. thread[t].then \notin InitSteps
      BY <1>1, <3>3 DEF CallOK, InitSteps, Searching, Taking, Giving
    <3> QED
      BY <2>1, <3>1, <3>2, <3>3, <3>4 DEF Stage
  <2>4. CASE Enter(t)
    <3> DEFINE r == [thread[t] EXCEPT !.inside = TRUE]
    <3>1. thread' = [thread EXCEPT ![t] = r]
      BY <2>4 DEF Enter
    <3>2. /\ DOMAIN r = DOMAIN Idle /\ r.pc = thread[t].pc /\ r.then = thread[t].then
          /\ r.ptr = thread[t].ptr /\ r.new = thread[t].new /\ r.size = thread[t].size
      BY <1>1 DEF Idle
    <3> HIDE DEF r
    <3> QED
      BY <2>1, <3>1, <3>2 DEF Stage
  <2> QED
    BY <2>1, <2>2, <2>3, <2>4
<1>3. HandStep(t, Hand(t))
  BY <1>2, StageHands DEF SInv
<1> QED
  BY <1>2, <1>3, SlabsUntouched

\* Before the first call there are no slabs and nobody has anything.
LEMMA InitSlabs ==
  ASSUME Init
  PROVE  SInv
<1>1. /\ program \in Programs /\ thread = [t \in Threads |-> Idle]
      /\ slabs = << >> /\ DOMAIN live = {}
  BY DEF Init
<1>2. Calling
  BY <1>1, IdleOK DEF Calling, Apart
<1>3. SlabType /\ UsedCounts /\ Marked = {}
  BY <1>1 DEF SlabType, UsedCounts, Marked
<1>4. SlabHeld = {}
  BY <1>1, IdleOK, SlabHeldIs
<1> QED
  BY <1>2, <1>3, <1>4 DEF SInv, SlotsHeld, SlabHeld

\* Every step keeps the invariant.
LEMMA NextKeepsSlabs ==
  ASSUME SInv, [Next]_vars
  PROVE  SInv'
<1>1. program.threads \subseteq Threads
  BY MallocAssumption DEF SInv, Calling
<1>2. CASE UNCHANGED vars
  BY <1>2 DEF vars, SInv, Calling, Apart, SlabType, UsedCounts, SlotsHeld, Held, Marked
<1>3. ASSUME NEW t \in program.threads, Calls(t)
      PROVE  SInv'
  BY <1>1, <1>3, CallsKeepSlabs
<1>4. ASSUME NEW t \in program.threads, (\E i \in 1 .. 3 : InitLock(t, i)) \/ InitDone(t)
      PROVE  SInv'
  BY <1>1, <1>4, LockStepsKeepSlabs
<1>5. ASSUME NEW t \in program.threads, Section(t)
      PROVE  SInv'
  BY <1>1, <1>5, LockStepsKeepSlabs, ElsewhereKeeps, SlabAllocKeeps, MmapFreeKeeps,
     SlabFreeKeeps, ReleaseKeeps, SearchKeeps DEF Section
<1>6. CASE Stopped
  BY <1>2, <1>6 DEF Stopped
<1> QED
  BY <1>2, <1>3, <1>4, <1>5, <1>6 DEF Next, Calls

\* A slot of a slab is marked exactly when somebody has it, nobody else has it, and
\* n_used counts the marks, in every program, orderly or not (slab_alloc, slab_free
\* and mira_realloc's moves between slabs, arena and mappings).
THEOREM SlotsInOneHand == Spec => []SInv
<1>1. Init => SInv
  BY InitSlabs
<1>2. SInv /\ [Next]_vars => SInv'
  BY NextKeepsSlabs
<1> QED
  BY <1>1, <1>2, PTL DEF Spec

\* The bitmaps and the counters of the slabs are right in every state.
THEOREM SlabsAlwaysOK == Spec => []SlabsOK
<1>1. SInv => SlabsOK
  <2> SUFFICES ASSUME SInv PROVE SlabsOK
    OBVIOUS
  <2> DEFINE all == {InSlab(i, s) : i \in DOMAIN slabs, s \in 0 .. SlotsPerSlab - 1}
  <2>1. \A q \in all : OnSlab(q)
    BY DEF OnSlab, InSlab
  <2>2. Marked \subseteq all
    <3>1. \A i \in DOMAIN slabs : slabs[i].bits \in SUBSET (0 .. SlotsPerSlab - 1)
      BY SlabsAre DEF SInv, Slab, Slots
    <3> QED
      BY <3>1, MarkedIs
  <2>3. {q \in Held : OnSlab(q)} = Marked
    BY DEF SInv, SlotsHeld
  <2>4. all \cap Held = Marked
    <3> HIDE DEF all
    <3> QED
      BY <2>1, <2>2, <2>3
  <2> QED
    BY <2>4 DEF SlabsOK, SInv, UsedCounts, Marked
<1> QED
  BY <1>1, SlotsInOneHand, PTL

--------------------------------------------------------------------------------
\* The invariant.

\* Where blocks are.
Places == [area : {"arena", "slab", "mmap"}, at : Nat]

\* Block p has room for n words.
Fits(a, sl, ms, p, n) ==
  /\ p.area = "arena" => Size(a, p.at) \in Nat /\ n < Size(a, p.at)
  /\ p.area = "slab" => SlabOf(p) \in DOMAIN sl /\ n <= SlotSizes[sl[SlabOf(p)].cls]
  /\ p.area = "mmap" => \E i \in DOMAIN ms : p = InMap(ms[i].at) /\ n <= ms[i].size

\* The first k words of block p are the caller's data.
Data(a, p, k) == p.area = "arena" => \A i \in 1 .. k : a.mem[p.at + i] = UserWord

Claim(a, sl, ms, p, n, k) ==
  /\ n \in Nat /\ k \in Nat /\ k <= n
  /\ Fits(a, sl, ms, p, n) /\ Data(a, p, k)

\* What a call in progress claims: mira_realloc's old block holds the data to keep, the
\* new one has room for what was asked for, and memcpy will stay inside the old one.
CallClaims(a, sl, ms, th) ==
  /\ th.ptr # Nowhere => Claim(a, sl, ms, th.ptr, th.had, th.had)
  /\ th.new # Nowhere => Claim(a, sl, ms, th.new, th.asked, th.had)
  /\ Stage(th) \in Taking /\ th.ptr.area = "arena" => th.keep < Size(a, th.ptr.at)

LiveClaims(a, sl, ms, lv) == \A p \in DOMAIN lv : Claim(a, sl, ms, p, lv[p], lv[p])

\* The blocks of the arena are the ones in the hands H, and no mapping is listed twice.
Memory(a, ms, H) ==
  /\ \E B : Good(a, B) /\ \A h : h \in Callers(a, B) <=> InArena(h) \in H
  /\ \A i, j \in DOMAIN ms : ms[i].at = ms[j].at => i = j

Mapping == [at : 1 .. MaxMaps, size : Nat]

\* What a call knows at each stage of the block it was given.
Knows(th) ==
  /\ {th.ptr, th.new} \subseteq Places \cup {Nowhere}
  /\ th.size \in Nat /\ th.asked = th.size /\ th.had \in Nat /\ th.had <= th.size /\ th.keep \in Nat
  /\ Stage(th) \in Searching \cup Giving => th.ptr # Nowhere
  /\ Stage(th) \in {"slab_find", "slab_free"} => th.ptr.area # "mmap"
  /\ Stage(th) \in {"arena_resize", "arena_free"} => th.ptr.area = "arena"
  /\ Stage(th) \in Taking /\ th.ptr # Nowhere => th.had <= th.keep
  /\ th.ptr = Nowhere => th.had = 0

ArenaBounds(a) == a \in Arenas /\ a.used <= a.cap /\ a.cap <= MaxCap

\* What the program's threads have are places, and each call knows its own.
Known ==
  /\ DOMAIN live \subseteq Places
  /\ \A t \in Threads : Knows(thread[t])

Counters ==
  /\ maps \in Seq(Mapping)
  /\ lock \subseteq Locks /\ initialized \in BOOLEAN /\ wiped \in BOOLEAN
  /\ calls \in 0 .. program.maxCalls

\* What holds even after trimming went wrong.
Shape == ArenaBounds(arena) /\ Known /\ Counters

Blocked ==
  /\ OneHand /\ Memory(arena, maps, Held)
  /\ LiveClaims(arena, slabs, maps, live)
  /\ \A t \in Threads : CallClaims(arena, slabs, maps, thread[t])

HInv == SInv /\ Shape /\ (~wiped => Blocked)

--------------------------------------------------------------------------------
\* Pointers and claims.

\* A pointer says which area it is in.
LEMMA PlacesApart ==
  /\ Nowhere.area = "none" /\ Nowhere \notin Places /\ Idle.ptr = Nowhere /\ Idle.new = Nowhere
  /\ \A k \in Nat : InArena(k) \in Places /\ InMap(k) \in Places
  /\ \A k : /\ InArena(k).area = "arena" /\ InArena(k).at = k /\ InArena(k) # Nowhere
            /\ InMap(k).area = "mmap" /\ InMap(k).at = k /\ InMap(k) # Nowhere
  /\ \A p \in Places : /\ p.area \in {"arena", "slab", "mmap"} /\ p.at \in Nat
                       /\ p.area = "arena" => p = InArena(p.at)
                       /\ p.area = "mmap" => p = InMap(p.at)
  /\ Places \cup {Nowhere} \subseteq Pointers
BY DEF Nowhere, Places, Pointers, InArena, InMap, Idle

\* What a block keeps when the memory changes around it.
Keeps(a, sl, ms, a2, sl2, ms2, q) ==
  /\ q.area = "arena" => /\ Size(a2, q.at) = Size(a, q.at)
                         /\ \A i \in 1 .. Size(a, q.at) - 1 : a2.mem[q.at + i] = a.mem[q.at + i]
  /\ q.area = "slab" /\ SlabOf(q) \in DOMAIN sl =>
       SlabOf(q) \in DOMAIN sl2 /\ sl2[SlabOf(q)].cls = sl[SlabOf(q)].cls
  /\ q.area = "mmap" => \A i \in DOMAIN ms : q = InMap(ms[i].at) =>
                          \E j \in DOMAIN ms2 : ms2[j] = ms[i]

\* A claim outlives what keeps the block.
LEMMA ClaimKept ==
  ASSUME NEW a, NEW sl, NEW ms, NEW a2, NEW sl2, NEW ms2, NEW p, NEW n, NEW k,
         Claim(a, sl, ms, p, n, k), Keeps(a, sl, ms, a2, sl2, ms2, p)
  PROVE  Claim(a2, sl2, ms2, p, n, k)
<1>1. n \in Nat /\ k \in Nat /\ k <= n
  BY DEF Claim
<1>2. CASE p.area = "arena"
  <2>1. Size(a, p.at) \in Nat /\ n < Size(a, p.at) /\ Size(a2, p.at) = Size(a, p.at)
    BY <1>2 DEF Claim, Fits, Keeps
  <2>2. ASSUME NEW i \in 1 .. k PROVE a2.mem[p.at + i] = UserWord
    <3>1. i \in 1 .. Size(a, p.at) - 1
      BY <1>1, <2>1
    <3> QED
      BY <1>2, <3>1 DEF Claim, Data, Keeps
  <2> QED
    BY <1>1, <1>2, <2>1, <2>2 DEF Claim, Fits, Data
<1>3. CASE p.area = "slab"
  BY <1>1, <1>3 DEF Claim, Fits, Data, Keeps
<1>4. CASE p.area = "mmap"
  <2>1. PICK i \in DOMAIN ms : p = InMap(ms[i].at) /\ n <= ms[i].size
    BY <1>4 DEF Claim, Fits
  <2>2. PICK j \in DOMAIN ms2 : ms2[j] = ms[i]
    BY <1>4, <2>1 DEF Keeps
  <2> QED
    BY <1>1, <1>4, <2>1, <2>2 DEF Claim, Fits, Data
<1>5. CASE p.area \notin {"arena", "slab", "mmap"}
  BY <1>1, <1>5 DEF Claim, Fits, Data
<1> QED
  BY <1>2, <1>3, <1>4, <1>5

\* Nothing changes.
LEMMA KeepsSame ==
  ASSUME NEW a, NEW sl, NEW ms, NEW q
  PROVE  Keeps(a, sl, ms, a, sl, ms, q)
BY DEF Keeps

\* One change after another.
LEMMA KeepsTwice ==
  ASSUME NEW a, NEW sl, NEW ms, NEW a2, NEW sl2, NEW ms2, NEW a3, NEW q,
         Keeps(a, sl, ms, a2, sl2, ms2, q), Keeps(a2, sl2, ms2, a3, sl2, ms2, q)
  PROVE  Keeps(a, sl, ms, a3, sl2, ms2, q)
BY DEF Keeps

\* What the other callers of the arena keep, as a block in a hand.
LEMMA IntactKeeps ==
  ASSUME NEW a, NEW a2, NEW X, Intact(a, a2, X), NEW sl, NEW ms, NEW q, q.area = "arena" => q.at \in X
  PROVE  Keeps(a, sl, ms, a2, sl, ms, q)
BY DEF Intact, Keeps

\* A heap has its bounds.
LEMMA GoodBounds ==
  ASSUME NEW a, NEW B, Good(a, B)
  PROVE  ArenaBounds(a)
<1>1. CASE a = Unmapped
  BY <1>1, NothingMapped, NoAddress DEF Good, ArenaBounds
<1>2. CASE Sound(a, B) /\ InBounds(a)
  BY <1>2 DEF Good, ArenaBounds, InBounds
<1> QED
  BY <1>1, <1>2 DEF Good

\* A block of the arena that is in a hand is a caller's.
LEMMA HeldCaller ==
  ASSUME NEW a, NEW ms, NEW H, Memory(a, ms, H), NEW p \in Places, p \in H, p.area = "arena"
  PROVE  \E B : /\ Good(a, B) /\ \A h : h \in Callers(a, B) <=> InArena(h) \in H
                /\ p.at \in Callers(a, B)
BY PlacesApart DEF Memory

--------------------------------------------------------------------------------
\* What callers write.

\* Words written inside a block that is in a hand are that caller's business only.
LEMMA WroteBlock ==
  ASSUME NEW a, NEW ms, NEW H, Memory(a, ms, H), NEW p \in Places, p \in H, p.area = "arena",
         NEW m \in [Addresses -> Nat],
         \A x \in Addresses : (x <= p.at \/ Following(a, p.at) <= x) => m[x] = a.mem[x]
  PROVE  LET z == WithMem(a, m) IN
         /\ Memory(z, ms, H) /\ z.mem = m /\ Size(z, p.at) = Size(a, p.at)
         /\ \A sl : \A q \in Places : q \in H /\ q # p => Keeps(a, sl, ms, z, sl, ms, q)
<1> DEFINE z == WithMem(a, m)
           h == p.at
<1>1. PICK B : Good(a, B) /\ (\A g : g \in Callers(a, B) <=> InArena(g) \in H) /\ h \in Callers(a, B)
  BY HeldCaller
<1>2. \A x \in Addresses : (x <= h \/ Following(a, h) <= x) => m[x] = a.mem[x]
  OBVIOUS
<1> HIDE DEF h, z
<1>3. /\ Good(z, B) /\ Callers(z, B) = Callers(a, B) /\ z.mem = m
      /\ Size(z, h) = Size(a, h) /\ Intact(a, z, Callers(a, B) \ {h})
  BY <1>1, <1>2, BlockWritten DEF z
<1>4. Memory(z, ms, H)
  BY <1>1, <1>3 DEF Memory
<1>5. ASSUME NEW sl, NEW q \in Places, q \in H, q # p
      PROVE  Keeps(a, sl, ms, z, sl, ms, q)
  <2>1. q.area = "arena" => q.at \in Callers(a, B) \ {h}
    BY <1>1, <1>5, PlacesApart DEF h
  <2> DEFINE X == Callers(a, B) \ {h}
  <2> HIDE DEF X
  <2>2. Intact(a, z, X) /\ (q.area = "arena" => q.at \in X)
    BY <1>3, <2>1 DEF X
  <2> QED
    BY <2>2, IntactKeeps
<1> QED
  BY <1>3, <1>4, <1>5 DEF z, h

\* The caller fills its block, from word k + 1 on.
LEMMA FilledBlock ==
  ASSUME NEW a, NEW sl, NEW ms, NEW H, Memory(a, ms, H), NEW p \in Places, p \in H,
         NEW n, NEW k, Claim(a, sl, ms, p, n, k)
  PROVE  LET z == Filled(a, p, k, n) IN
         /\ Memory(z, ms, H) /\ Claim(z, sl, ms, p, n, n)
         /\ \A q \in Places : q \in H /\ q # p => Keeps(a, sl, ms, z, sl, ms, q)
<1> DEFINE z == Filled(a, p, k, n)
           h == p.at
           m == [x \in Addresses |-> IF x \in h + 1 + k .. h + n THEN UserWord ELSE a.mem[x]]
<1>1. n \in Nat /\ k \in Nat /\ k <= n /\ Fits(a, sl, ms, p, n) /\ Data(a, p, k)
  BY DEF Claim
<1>2. CASE p.area # "arena"
  <2>1. z = a
    BY <1>2 DEF Filled
  <2>2. \A q : Keeps(a, sl, ms, a, sl, ms, q)
    BY KeepsSame
  <2>3. Claim(a, sl, ms, p, n, n)
    BY <1>1, <1>2 DEF Claim, Data
  <2> HIDE DEF z
  <2>4. Memory(z, ms, H) /\ Claim(z, sl, ms, p, n, n) /\ \A q : Keeps(a, sl, ms, z, sl, ms, q)
    BY <2>1, <2>2, <2>3
  <2> QED
    BY <2>4 DEF z
<1>3. CASE p.area = "arena"
  <2>1. PICK B : Good(a, B) /\ h \in Callers(a, B)
    BY <1>3, HeldCaller
  <2>2. /\ a \in Arenas /\ h \in Nat /\ Size(a, h) \in Nat /\ Following(a, h) = h + Size(a, h)
        /\ n < Size(a, h) /\ \A i \in 1 .. Size(a, h) - 1 : h + i \in Addresses
    BY <1>1, <1>3, <2>1, CallersAre, CallersWords DEF Fits
  <2> HIDE DEF h
  <2>3. m \in [Addresses -> Nat]
    BY <2>2 DEF Arenas, UserWord
  <2>4. \A x \in Addresses : (x <= h \/ Following(a, h) <= x) => m[x] = a.mem[x]
    <3> SUFFICES ASSUME NEW x \in Addresses, x <= h \/ Following(a, h) <= x PROVE m[x] = a.mem[x]
      OBVIOUS
    <3>1. x \in Int
      BY NoAddress
    <3>2. x \notin h + 1 + k .. h + n
      BY <1>1, <2>2, <3>1
    <3> QED
      BY <3>2
  <2>5. \A i \in 1 .. n : m[h + i] = UserWord
    <3> SUFFICES ASSUME NEW i \in 1 .. n PROVE m[h + i] = UserWord
      OBVIOUS
    <3>1. i \in 1 .. Size(a, h) - 1
      BY <1>1, <2>2
    <3>2. h + i \in Addresses
      BY <2>2, <3>1
    <3>3. CASE i <= k
      <4>1. a.mem[h + i] = UserWord
        BY <1>1, <1>3, <3>3 DEF Data, h
      <4> QED
        BY <3>2, <4>1
    <3>4. CASE ~(i <= k)
      <4>1. h + i \in h + 1 + k .. h + n
        BY <1>1, <2>2, <3>4
      <4> QED
        BY <3>2, <4>1
    <3> QED
      BY <3>3, <3>4
  <2>6. z = WithMem(a, m)
    BY <1>3, <2>2 DEF Filled, WithMem, h
  <2> HIDE DEF m, z
  <2>7. /\ Memory(z, ms, H) /\ z.mem = m /\ Size(z, p.at) = Size(a, p.at)
        /\ \A q \in Places : q \in H /\ q # p => Keeps(a, sl, ms, z, sl, ms, q)
    <3>1. \A x \in Addresses : (x <= p.at \/ Following(a, p.at) <= x) => m[x] = a.mem[x]
      BY <2>4 DEF h
    <3>2. /\ Memory(WithMem(a, m), ms, H) /\ WithMem(a, m).mem = m
          /\ Size(WithMem(a, m), p.at) = Size(a, p.at)
          /\ \A s : \A q \in Places : q \in H /\ q # p => Keeps(a, s, ms, WithMem(a, m), s, ms, q)
      BY <1>3, <2>3, <3>1, WroteBlock
    <3> QED
      BY <2>6, <3>2
  <2>8. Claim(z, sl, ms, p, n, n)
    BY <1>1, <1>3, <2>5, <2>7 DEF Claim, Fits, Data, h
  <2> QED
    BY <2>7, <2>8 DEF z
<1> QED
  BY <1>2, <1>3

\* memcpy from block p to block q: q begins with p's data then.
LEMMA CopiedBlock ==
  ASSUME NEW a, NEW sl, NEW ms, NEW H, Memory(a, ms, H),
         NEW p \in Places, p \in H, NEW q \in Places, q \in H, p # q,
         NEW n \in Nat, Fits(a, sl, ms, q, n), NEW k, Claim(a, sl, ms, p, k, k),
         NEW words \in Nat, k <= words, words <= n, p.area = "arena" => words < Size(a, p.at)
  PROVE  LET z == Copied(a, p, q, words) IN
         /\ Memory(z, ms, H) /\ Claim(z, sl, ms, q, n, k)
         /\ \A r \in Places : r \in H /\ r # q => Keeps(a, sl, ms, z, sl, ms, r)
<1> DEFINE z == Copied(a, p, q, words)
           g == p.at
           h == q.at
           m == [x \in Addresses |->
                   IF x \in h + 1 .. h + words
                   THEN IF p.area = "arena" THEN a.mem[g + x - h] ELSE UserWord
                   ELSE a.mem[x]]
<1>1. k \in Nat /\ Data(a, p, k) /\ Fits(a, sl, ms, p, k)
  BY DEF Claim
<1>2. CASE q.area # "arena"
  <2>1. z = a
    BY <1>2 DEF Copied
  <2>2. \A r : Keeps(a, sl, ms, a, sl, ms, r)
    BY KeepsSame
  <2>3. Claim(a, sl, ms, q, n, k)
    BY <1>1, <1>2 DEF Claim, Data
  <2> HIDE DEF z
  <2>4. Memory(z, ms, H) /\ Claim(z, sl, ms, q, n, k) /\ \A r : Keeps(a, sl, ms, z, sl, ms, r)
    BY <2>1, <2>2, <2>3
  <2> QED
    BY <2>4 DEF z
<1>3. CASE q.area = "arena"
  <2>1. PICK B : Good(a, B) /\ h \in Callers(a, B) /\ \A b : b \in Callers(a, B) <=> InArena(b) \in H
    BY <1>3, HeldCaller
  <2>2. /\ a \in Arenas /\ h \in Nat /\ Size(a, h) \in Nat /\ Following(a, h) = h + Size(a, h)
        /\ n < Size(a, h) /\ \A i \in 1 .. Size(a, h) - 1 : h + i \in Addresses
    BY <1>3, <2>1, CallersAre, CallersWords DEF Fits
  <2>3. p.area = "arena" =>
          /\ g \in Nat /\ Size(a, g) \in Nat /\ words < Size(a, g)
          /\ \A i \in 1 .. Size(a, g) - 1 : g + i \in Addresses
    <3> SUFFICES ASSUME p.area = "arena"
                 PROVE  /\ g \in Nat /\ Size(a, g) \in Nat /\ words < Size(a, g)
                        /\ \A i \in 1 .. Size(a, g) - 1 : g + i \in Addresses
      OBVIOUS
    <3>1. g \in Callers(a, B)
      BY <2>1, PlacesApart
    <3> QED
      BY <2>1, <3>1, CallersAre, CallersWords
  <2>4. z = WithMem(a, m)
    BY <1>3, <2>2 DEF Copied, WithMem
  <2> HIDE DEF g, h, z
  <2>5. \A x \in Addresses : p.area = "arena" /\ x \in h + 1 .. h + words => a.mem[g + x - h] \in Nat
    <3> SUFFICES ASSUME NEW x \in Addresses, p.area = "arena", x \in h + 1 .. h + words
                 PROVE  a.mem[g + x - h] \in Nat
      OBVIOUS
    <3>1. x - h \in 1 .. Size(a, g) - 1 /\ g + x - h = g + (x - h)
      BY <2>2, <2>3
    <3>2. g + (x - h) \in Addresses
      BY <2>3, <3>1
    <3> QED
      BY <2>2, <3>1, <3>2 DEF Arenas
  <2>6. m \in [Addresses -> Nat]
    BY <2>2, <2>5 DEF Arenas, UserWord
  <2>7. \A x \in Addresses : (x <= h \/ Following(a, h) <= x) => m[x] = a.mem[x]
    <3> SUFFICES ASSUME NEW x \in Addresses, x <= h \/ Following(a, h) <= x PROVE m[x] = a.mem[x]
      OBVIOUS
    <3>1. x \in Int
      BY NoAddress
    <3>2. x \notin h + 1 .. h + words
      BY <2>2, <3>1
    <3> QED
      BY <3>2
  <2>8. \A i \in 1 .. k : m[h + i] = UserWord
    <3> SUFFICES ASSUME NEW i \in 1 .. k PROVE m[h + i] = UserWord
      OBVIOUS
    <3>1. i \in 1 .. Size(a, h) - 1 /\ h + i \in h + 1 .. h + words /\ i \in Int
      BY <1>1, <2>2
    <3>2. h + i \in Addresses
      BY <2>2, <3>1
    <3>3. m[h + i] = IF p.area = "arena" THEN a.mem[g + (h + i) - h] ELSE UserWord
      BY <3>1, <3>2
    <3>4. p.area = "arena" => a.mem[g + i] = UserWord
      BY <1>1 DEF Data, g
    <3>5. p.area = "arena" => g + (h + i) - h = g + i
      BY <2>2, <2>3, <3>1
    <3> HIDE DEF m
    <3> QED
      BY <3>3, <3>4, <3>5
  <2> HIDE DEF m
  <2>9. /\ Memory(z, ms, H) /\ z.mem = m /\ Size(z, q.at) = Size(a, q.at)
        /\ \A r \in Places : r \in H /\ r # q => Keeps(a, sl, ms, z, sl, ms, r)
    <3>1. \A x \in Addresses : (x <= q.at \/ Following(a, q.at) <= x) => m[x] = a.mem[x]
      BY <2>7 DEF h
    <3>2. /\ Memory(WithMem(a, m), ms, H) /\ WithMem(a, m).mem = m
          /\ Size(WithMem(a, m), q.at) = Size(a, q.at)
          /\ \A s : \A r \in Places : r \in H /\ r # q => Keeps(a, s, ms, WithMem(a, m), s, ms, r)
      BY <1>3, <2>6, <3>1, WroteBlock
    <3> QED
      BY <2>4, <3>2
  <2>10. Claim(z, sl, ms, q, n, k)
    <3>1. k <= n
      BY <1>1
    <3> QED
      BY <1>1, <1>3, <2>8, <2>9, <3>1 DEF Claim, Fits, Data, h
  <2> QED
    BY <2>9, <2>10 DEF z
<1> QED
  BY <1>2, <1>3

--------------------------------------------------------------------------------
\* Hands.

\* What the other threads have.
Others(t) == (UNION {{thread[u].ptr, thread[u].new} : u \in Threads \ {t}}) \ {Nowhere}

\* What thread t and the program have, when thread t is at r and the program has L.
Own(L, r) == (L \cup {r.ptr, r.new}) \ {Nowhere}

\* A pointer that another thread has.
LEMMA OthersAre ==
  ASSUME NEW t, NEW q
  PROVE  q \in Others(t) <=> q # Nowhere /\ \E u \in Threads \ {t} : q \in {thread[u].ptr, thread[u].new}
BY DEF Others

\* The heap in the hands H has its bounds.
LEMMA MemoryBounds ==
  ASSUME NEW a, NEW ms, NEW H, Memory(a, ms, H)
  PROVE  ArenaBounds(a)
BY GoodBounds DEF Memory

\* What is held is held by thread t and the program or by the others, not by both.
LEMMA HeldApart ==
  ASSUME HInv, ~wiped, NEW t \in Threads
  PROVE  /\ Held = Others(t) \cup Own(DOMAIN live, thread[t])
         /\ Others(t) \cap Own(DOMAIN live, thread[t]) = {}
         /\ Held \subseteq Places /\ Nowhere \notin DOMAIN live
<1>1. DOMAIN live \subseteq Places /\ \A u \in Threads : {thread[u].ptr, thread[u].new} \subseteq Places \cup {Nowhere}
  BY DEF HInv, Shape, Known, Knows
<1>2. Nowhere \notin DOMAIN live
  BY <1>1, PlacesApart
<1>3. ASSUME NEW q PROVE q \in Held <=> q \in Others(t) \/ q \in Own(DOMAIN live, thread[t])
  BY <1>2 DEF Held, Others, Own
<1>4. ASSUME NEW q \in Others(t) PROVE q \notin Own(DOMAIN live, thread[t])
  <2>1. PICK u \in Threads \ {t} : q \in {thread[u].ptr, thread[u].new} /\ q # Nowhere
    BY OthersAre
  <2> QED
    BY <2>1 DEF Own, HInv, Blocked, OneHand
<1>5. Held \subseteq Places
  BY <1>1 DEF Held
<1> QED
  BY <1>2, <1>3, <1>4, <1>5

\* Thread t and the program go on with other blocks, the other threads with their own.
LEMMA HandsSettle ==
  ASSUME HInv, ~wiped, NEW t \in Threads, NEW r, thread' = [thread EXCEPT ![t] = r],
         r.ptr # Nowhere => r.ptr \notin DOMAIN live' /\ r.ptr # r.new,
         r.new # Nowhere => r.new \notin DOMAIN live',
         DOMAIN live' \subseteq Places, Knows(r),
         Others(t) \cap Own(DOMAIN live', r) = {},
         Memory(arena', maps', Others(t) \cup Own(DOMAIN live', r)),
         LiveClaims(arena', slabs', maps', live'), CallClaims(arena', slabs', maps', r),
         \A q \in Others(t) : Keeps(arena, slabs, maps, arena', slabs', maps', q)
  PROVE  Blocked' /\ Known' /\ ArenaBounds(arena')
<1>1. thread'[t] = r /\ \A u \in Threads \ {t} : thread'[u] = thread[u]
  BY DEF HInv, SInv, Calling
<1>2. Known'
  BY <1>1 DEF HInv, Shape, Known
<1>3. Nowhere \notin DOMAIN live'
  BY PlacesApart
<1>4. Held' = Others(t) \cup Own(DOMAIN live', r)
  <2>1. ASSUME NEW q PROVE q \in Held' <=> q \in Others(t) \/ q \in Own(DOMAIN live', r)
    <3>1. q \in Held' <=> q \in DOMAIN live' \/ (q # Nowhere /\ \E u \in Threads : q \in {thread'[u].ptr, thread'[u].new})
      BY DEF Held
    <3>2. q \in Own(DOMAIN live', r) <=> q # Nowhere /\ (q \in DOMAIN live' \/ q \in {r.ptr, r.new})
      BY DEF Own
    <3> QED
      BY <1>1, <1>3, <3>1, <3>2, OthersAre
  <2> QED
    BY <2>1
<1>5. OneHand'
  <2>1. \A u \in Threads \ {t} : \A q \in {thread[u].ptr, thread[u].new} :
          q # Nowhere => q \notin DOMAIN live' /\ q # r.ptr /\ q # r.new
    <3> SUFFICES ASSUME NEW u \in Threads \ {t}, NEW q \in {thread[u].ptr, thread[u].new}, q # Nowhere
                 PROVE  q \notin DOMAIN live' /\ q # r.ptr /\ q # r.new
      OBVIOUS
    <3>1. q \in Others(t)
      BY OthersAre
    <3> QED
      BY <3>1 DEF Own
  <2>2. \A u \in Threads \ {t} :
          thread[u].ptr # Nowhere => thread[u].ptr # thread[u].new
    BY DEF HInv, Blocked, OneHand
  <2>3. \A u, v \in Threads \ {t} : u # v =>
          /\ thread[u].ptr # Nowhere => thread[u].ptr # thread[v].ptr /\ thread[u].ptr # thread[v].new
          /\ thread[u].new # Nowhere => thread[u].new # thread[v].ptr /\ thread[u].new # thread[v].new
    BY DEF HInv, Blocked, OneHand
  <2>4. ASSUME NEW u \in Threads
        PROVE  /\ thread'[u].ptr # Nowhere => thread'[u].ptr \notin DOMAIN live' /\ thread'[u].ptr # thread'[u].new
               /\ thread'[u].new # Nowhere => thread'[u].new \notin DOMAIN live'
    BY <1>1, <2>1, <2>2
  <2>5. ASSUME NEW u \in Threads, NEW v \in Threads, u # v
        PROVE  /\ thread'[u].ptr # Nowhere => thread'[u].ptr # thread'[v].ptr /\ thread'[u].ptr # thread'[v].new
               /\ thread'[u].new # Nowhere => thread'[u].new # thread'[v].ptr /\ thread'[u].new # thread'[v].new
    <3>1. CASE u = t
      BY <1>1, <2>1, <2>5, <3>1
    <3>2. CASE v = t
      BY <1>1, <2>1, <2>5, <3>2
    <3>3. CASE u # t /\ v # t
      BY <1>1, <2>3, <2>5, <3>3
    <3> QED
      BY <3>1, <3>2, <3>3
  <2> QED
    BY <2>4, <2>5 DEF OneHand
<1>6. ASSUME NEW u \in Threads \ {t} PROVE CallClaims(arena', slabs', maps', thread[u])
  <2> DEFINE th == thread[u]
  <2>1. CallClaims(arena, slabs, maps, th)
    BY DEF HInv, Blocked
  <2>2. \A q \in {th.ptr, th.new} : q # Nowhere => Keeps(arena, slabs, maps, arena', slabs', maps', q)
    BY OthersAre
  <2> HIDE DEF th
  <2>3. th.ptr # Nowhere => Claim(arena', slabs', maps', th.ptr, th.had, th.had)
    BY <2>1, <2>2, ClaimKept DEF CallClaims
  <2>4. th.new # Nowhere => Claim(arena', slabs', maps', th.new, th.asked, th.had)
    BY <2>1, <2>2, ClaimKept DEF CallClaims
  <2>5. Stage(th) \in Taking /\ th.ptr.area = "arena" => th.keep < Size(arena', th.ptr.at)
    <3>1. th.ptr.area = "arena" => th.ptr # Nowhere
      BY PlacesApart
    <3> QED
      BY <2>1, <2>2, <3>1 DEF CallClaims, Keeps
  <2>6. CallClaims(arena', slabs', maps', th)
    BY <2>3, <2>4, <2>5 DEF CallClaims
  <2> QED
    BY <2>6 DEF th
<1>7. \A u \in Threads : CallClaims(arena', slabs', maps', thread'[u])
  BY <1>1, <1>6
<1>8. Blocked'
  BY <1>4, <1>5, <1>7 DEF Blocked
<1>9. ArenaBounds(arena')
  BY MemoryBounds
<1> QED
  BY <1>2, <1>8, <1>9

\* A call at rest knows nothing and claims nothing.
LEMMA IdleKnows ==
  /\ Knows(Idle) /\ \A a, sl, ms : CallClaims(a, sl, ms, Idle)
  /\ Idle.ptr = Nowhere /\ Idle.new = Nowhere
BY DEF Knows, CallClaims, Idle, Nowhere, Stage, InitSteps, Searching, Taking, Giving

\* A call is over; the program gets block p with n words, or nothing.
LEMMA EndSettles ==
  ASSUME HInv, ~wiped, NEW t \in Threads, NEW p, NEW n,
         thread' = [thread EXCEPT ![t] = Idle],
         \/ p = Nowhere /\ live' = live
         \/ /\ p \in Places /\ p \notin DOMAIN live /\ p \notin Others(t)
            /\ Give(p, n) /\ Claim(arena', slabs', maps', p, n, n),
         Memory(arena', maps', Others(t) \cup (DOMAIN live \cup ({p} \ {Nowhere}))),
         \A q \in Others(t) \cup DOMAIN live : Keeps(arena, slabs, maps, arena', slabs', maps', q)
  PROVE  Blocked' /\ Known' /\ ArenaBounds(arena')
<1> DEFINE L == DOMAIN live \cup ({p} \ {Nowhere})
<1>1. DOMAIN live \subseteq Places /\ Nowhere \notin Places
      /\ Nowhere \notin DOMAIN live /\ Others(t) \cap DOMAIN live = {}
  <2>1. Others(t) \cap Own(DOMAIN live, thread[t]) = {} /\ Nowhere \notin DOMAIN live
    BY HeldApart
  <2> QED
    BY <2>1, PlacesApart DEF HInv, Shape, Known, Own
<1>2. ASSUME NEW q \in DOMAIN live PROVE Claim(arena', slabs', maps', q, live[q], live[q])
  <2>1. Claim(arena, slabs, maps, q, live[q], live[q])
    BY DEF HInv, Blocked, LiveClaims
  <2>2. Keeps(arena, slabs, maps, arena', slabs', maps', q)
    OBVIOUS
  <2> QED
    BY <2>1, <2>2, ClaimKept
<1>3. DOMAIN live' = L /\ L \subseteq Places /\ LiveClaims(arena', slabs', maps', live')
  <2>1. CASE p = Nowhere /\ live' = live
    BY <1>1, <1>2, <2>1 DEF LiveClaims
  <2>2. CASE /\ p \in Places /\ p \notin DOMAIN live
             /\ Give(p, n) /\ Claim(arena', slabs', maps', p, n, n)
    <3>1. DOMAIN live' = DOMAIN live \cup {p} /\ live'[p] = n /\ \A q \in DOMAIN live : live'[q] = live[q]
      BY <2>2 DEF Give
    <3>2. L = DOMAIN live \cup {p}
      BY <1>1, <2>2
    <3> QED
      BY <1>1, <1>2, <2>2, <3>1, <3>2 DEF LiveClaims
  <2> QED
    BY <1>1, <2>1, <2>2
<1>4. Own(DOMAIN live', Idle) = L
  BY <1>1, <1>3, IdleKnows DEF Own
<1>5. Others(t) \cap L = {}
  BY <1>1
<1> HIDE DEF L
<1>6. Memory(arena', maps', Others(t) \cup Own(DOMAIN live', Idle))
  BY <1>4 DEF L
<1>7. Others(t) \cap Own(DOMAIN live', Idle) = {}
  BY <1>4, <1>5
<1>8. DOMAIN live' \subseteq Places
  BY <1>3
<1>9. \A q \in Others(t) : Keeps(arena, slabs, maps, arena', slabs', maps', q)
  OBVIOUS
<1>10. /\ Idle.ptr # Nowhere => Idle.ptr \notin DOMAIN live' /\ Idle.ptr # Idle.new
       /\ Idle.new # Nowhere => Idle.new \notin DOMAIN live'
       /\ Knows(Idle) /\ CallClaims(arena', slabs', maps', Idle)
  BY IdleKnows
<1> HIDE DEF Idle
<1> QED
  BY <1>3, <1>6, <1>7, <1>8, <1>9, <1>10, HandsSettle

\* A call returns block p: the program fills it, up to the words it asked for.
LEMMA ReturnSettles ==
  ASSUME HInv, ~wiped, NEW t \in Threads, NEW p, NEW a, Return(t, p, a),
         \/ p = Nowhere
         \/ /\ p \in Places /\ p \notin DOMAIN live /\ p \notin Others(t)
            /\ Claim(a, slabs', maps', p, thread[t].asked, thread[t].had),
         Memory(a, maps', Others(t) \cup (DOMAIN live \cup ({p} \ {Nowhere}))),
         \A q \in Others(t) \cup DOMAIN live : Keeps(arena, slabs, maps, a, slabs', maps', q)
  PROVE  Blocked' /\ Known' /\ ArenaBounds(arena')
<1> DEFINE H == Others(t) \cup (DOMAIN live \cup ({p} \ {Nowhere}))
           n == thread[t].asked
<1>1. thread' = [thread EXCEPT ![t] = Idle]
  BY DEF Return
<1>2. CASE p = Nowhere
  <2>1. live' = live /\ arena' = a
    BY <1>2 DEF Return
  <2> QED
    BY <1>1, <1>2, <2>1, EndSettles
<1>3. CASE p # Nowhere
  <2>1. /\ p \in Places /\ p \notin DOMAIN live /\ p \notin Others(t)
        /\ Claim(a, slabs', maps', p, n, thread[t].had)
        /\ Give(p, n) /\ arena' = Filled(a, p, thread[t].had, n)
    BY <1>3 DEF Return
  <2> HIDE DEF H, n
  <2>2. p \in H
    BY <1>3 DEF H
  <2>3. Memory(a, maps', H)
    BY DEF H
  <2>4. /\ Memory(arena', maps', H) /\ Claim(arena', slabs', maps', p, n, n)
        /\ \A q \in Places : q \in H /\ q # p => Keeps(a, slabs', maps', arena', slabs', maps', q)
    BY <2>1, <2>2, <2>3, FilledBlock
  <2>5. ASSUME NEW q \in Others(t) \cup DOMAIN live
        PROVE  Keeps(arena, slabs, maps, arena', slabs', maps', q)
    <3>1. q \in H /\ q # p /\ Keeps(arena, slabs, maps, a, slabs', maps', q)
      BY <2>1 DEF H
    <3>2. q \in Places
      <4>1. Held = Others(t) \cup Own(DOMAIN live, thread[t]) /\ Held \subseteq Places
            /\ DOMAIN live \subseteq Places
        BY HeldApart DEF HInv, Shape, Known
      <4> QED
        BY <4>1
    <3>3. Keeps(a, slabs', maps', arena', slabs', maps', q)
      BY <2>4, <3>1, <3>2
    <3> QED
      BY <3>1, <3>3, KeepsTwice
  <2>6. Memory(arena', maps', Others(t) \cup (DOMAIN live \cup ({p} \ {Nowhere})))
    BY <2>4 DEF H
  <2>7. \/ p = Nowhere /\ live' = live
        \/ /\ p \in Places /\ p \notin DOMAIN live /\ p \notin Others(t)
           /\ Give(p, n) /\ Claim(arena', slabs', maps', p, n, n)
    BY <2>1, <2>4
  <2>8. \A q \in Others(t) \cup DOMAIN live : Keeps(arena, slabs, maps, arena', slabs', maps', q)
    BY <2>5
  <2> QED
    BY <1>1, <2>6, <2>7, <2>8, EndSettles
<1> QED
  BY <1>2, <1>3

--------------------------------------------------------------------------------
\* Blocks that come and go.

\* The smaller of two numbers.
LEMMA SmallerOf ==
  ASSUME NEW x \in Nat, NEW y \in Nat
  PROVE  Min({x, y}) \in {x, y} /\ Min({x, y}) <= x /\ Min({x, y}) <= y
<1>1. {x, y} \in SUBSET Nat /\ {x, y} # {}
  OBVIOUS
<1>2. \E m \in {x, y} : \A z \in {x, y} : m =< z
  BY <1>1, SmallestNumber
<1> QED
  BY <1>2 DEF Min

\* What a thread has when it works on its own.
LEMMA HandIs ==
  ASSUME HInv, ~wiped, NEW t \in Threads
  PROVE  LET th == thread[t] IN
         /\ \A q : q \in Held <=> \/ q \in Others(t) \/ q \in DOMAIN live
                                  \/ q # Nowhere /\ q \in {th.ptr, th.new}
         /\ th.ptr # Nowhere => /\ th.ptr \in Places /\ th.ptr \notin DOMAIN live
                                /\ th.ptr \notin Others(t) /\ th.ptr # th.new
                                /\ th.ptr \in Held
         /\ th.new # Nowhere => /\ th.new \in Places /\ th.new \notin DOMAIN live
                                /\ th.new \notin Others(t) /\ th.new \in Held
         /\ \A q \in Others(t) \cup DOMAIN live : q \in Held /\ q \in Places /\ q # Nowhere
         /\ Others(t) \cap DOMAIN live = {}
         /\ Knows(th) /\ CallClaims(arena, slabs, maps, th) /\ CallOK(th)
         /\ Memory(arena, maps, Held) /\ LiveClaims(arena, slabs, maps, live)
<1> DEFINE th == thread[t]
<1>1. /\ Held = Others(t) \cup Own(DOMAIN live, th) /\ Others(t) \cap Own(DOMAIN live, th) = {}
      /\ Held \subseteq Places /\ Nowhere \notin DOMAIN live
  BY HeldApart
<1>2. /\ Knows(th) /\ CallClaims(arena, slabs, maps, th) /\ CallOK(th)
      /\ Memory(arena, maps, Held) /\ LiveClaims(arena, slabs, maps, live)
  BY DEF HInv, Blocked, Shape, Known, SInv, Calling
<1>3. /\ th.ptr # Nowhere => th.ptr \notin DOMAIN live /\ th.ptr # th.new
      /\ th.new # Nowhere => th.new \notin DOMAIN live
  BY DEF HInv, Blocked, OneHand
<1> HIDE DEF th
<1>4. \A q : q \in Own(DOMAIN live, th) <=> q \in DOMAIN live \/ (q # Nowhere /\ q \in {th.ptr, th.new})
  BY <1>1 DEF Own
<1>5. Nowhere \notin Others(t)
  BY DEF Others
<1>6. \A q \in Others(t) \cup DOMAIN live : q \in Held /\ q \in Places /\ q # Nowhere
  BY <1>1, <1>4, <1>5
<1>7. th.ptr # Nowhere => th.ptr \in Held /\ th.ptr \in Places /\ th.ptr \notin Others(t)
  BY <1>1, <1>4
<1>8. th.new # Nowhere => th.new \in Held /\ th.new \in Places /\ th.new \notin Others(t)
  BY <1>1, <1>4
<1>9. \A q : q \in Held <=> \/ q \in Others(t) \/ q \in DOMAIN live
                            \/ q # Nowhere /\ q \in {th.ptr, th.new}
  BY <1>1, <1>4
<1>10. Others(t) \cap DOMAIN live = {}
  BY <1>1, <1>4
<1> QED
  BY <1>2, <1>3, <1>6, <1>7, <1>8, <1>9, <1>10 DEF th

\* mira_malloc comes to block p, or to nothing.
LEMMA AllocatedSettles ==
  ASSUME HInv, ~wiped, NEW t \in Threads, NEW p, NEW a, Allocated(t, p, a),
         Stage(thread[t]) \in Taking,
         \/ p = Nowhere
         \/ p \in Places /\ p \notin Held /\ Fits(a, slabs', maps', p, thread[t].size),
         Memory(a, maps', Held \cup ({p} \ {Nowhere})),
         \A q \in Held : Keeps(arena, slabs, maps, a, slabs', maps', q)
  PROVE  Blocked' /\ Known' /\ ArenaBounds(arena')
<1> DEFINE th == thread[t]
           E  == Others(t) \cup (DOMAIN live \cup ({p} \ {Nowhere}))
<1>1. /\ \A q : q \in Held <=> \/ q \in Others(t) \/ q \in DOMAIN live
                               \/ q # Nowhere /\ q \in {th.ptr, th.new}
      /\ th.ptr # Nowhere => /\ th.ptr \in Places /\ th.ptr \notin DOMAIN live
                             /\ th.ptr \notin Others(t) /\ th.ptr \in Held
      /\ \A q \in Others(t) \cup DOMAIN live : q \in Held /\ q \in Places /\ q # Nowhere
      /\ Others(t) \cap DOMAIN live = {}
      /\ Knows(th) /\ CallClaims(arena, slabs, maps, th) /\ CallOK(th)
      /\ LiveClaims(arena, slabs, maps, live)
  BY HandIs
<1>2. /\ th.new = Nowhere /\ th.size \in Nat /\ th.asked = th.size /\ th.had \in Nat
      /\ th.had <= th.size /\ th.keep \in Nat
      /\ th.ptr # Nowhere => th.had <= th.keep
      /\ th.ptr = Nowhere => th.had = 0
      /\ DOMAIN th = DOMAIN Idle
  BY <1>1 DEF Knows, CallOK, Taking, Giving
<1>3. \A q \in Others(t) \cup DOMAIN live : Keeps(arena, slabs, maps, a, slabs', maps', q)
  BY <1>1
<1>4. th.ptr # Nowhere => Claim(a, slabs', maps', th.ptr, th.had, th.had)
  BY <1>1, ClaimKept DEF CallClaims
<1> HIDE DEF E
<1>5. CASE th.ptr = Nowhere
  <2>1. Return(t, p, a)
    BY <1>5 DEF Allocated
  <2>2. Held \cup ({p} \ {Nowhere}) = E
    BY <1>1, <1>2, <1>5 DEF E
  <2>3. Memory(a, maps', E)
    BY <2>2
  <2>4. \/ p = Nowhere
        \/ /\ p \in Places /\ p \notin DOMAIN live /\ p \notin Others(t)
           /\ Claim(a, slabs', maps', p, th.asked, th.had)
    <3>1. p # Nowhere => p \in Places /\ p \notin DOMAIN live /\ p \notin Others(t) /\ Fits(a, slabs', maps', p, th.asked)
      BY <1>1, <1>2
    <3>2. Data(a, p, th.had)
      BY <1>2, <1>5 DEF Data
    <3> QED
      BY <1>2, <3>1, <3>2 DEF Claim
  <2> QED
    BY <1>3, <2>1, <2>3, <2>4, ReturnSettles DEF E
<1>6. CASE th.ptr # Nowhere /\ p = Nowhere
  <2>1. /\ thread' = [thread EXCEPT ![t] = Idle]
        /\ Give(th.ptr, th.had) /\ arena' = a
    BY <1>6 DEF Allocated, ReallocFails
  <2>2. Held \cup ({p} \ {Nowhere}) = Others(t) \cup (DOMAIN live \cup ({th.ptr} \ {Nowhere}))
    BY <1>1, <1>2, <1>6
  <2>3. Memory(arena', maps', Others(t) \cup (DOMAIN live \cup ({th.ptr} \ {Nowhere})))
    BY <2>1, <2>2
  <2>4. /\ th.ptr \in Places /\ th.ptr \notin DOMAIN live /\ th.ptr \notin Others(t)
        /\ Give(th.ptr, th.had) /\ Claim(arena', slabs', maps', th.ptr, th.had, th.had)
    BY <1>1, <1>4, <1>6, <2>1
  <2>5. \A q \in Others(t) \cup DOMAIN live : Keeps(arena, slabs, maps, arena', slabs', maps', q)
    BY <1>3, <2>1
  <2> QED
    BY <2>1, <2>3, <2>4, <2>5, EndSettles
<1>7. CASE th.ptr # Nowhere /\ p # Nowhere
  <2> DEFINE words == Min({th.keep, th.size})
             r == [th EXCEPT !.pc = "mmap_free", !.inside = FALSE, !.new = p]
             H == Held \cup {p}
  <2>1. arena' = Copied(a, th.ptr, p, words) /\ thread' = [thread EXCEPT ![t] = r] /\ live' = live
    BY <1>7 DEF Allocated
  <2>2. /\ r.pc = "mmap_free" /\ r.ptr = th.ptr /\ r.new = p /\ r.size = th.size
        /\ r.asked = th.asked /\ r.had = th.had /\ r.keep = th.keep
    BY <1>2 DEF Idle
  <2> HIDE DEF r
  <2>3. /\ p \in Places /\ p \notin Held /\ Fits(a, slabs', maps', p, th.size)
        /\ Memory(a, maps', H) /\ th.ptr \in H /\ p \in H /\ th.ptr # p
    <3>1. H = Held \cup ({p} \ {Nowhere})
      BY <1>7
    <3> HIDE DEF H
    <3>2. p \in Places /\ p \notin Held /\ Fits(a, slabs', maps', p, th.size)
      BY <1>7
    <3>3. Memory(a, maps', H)
      BY <3>1
    <3> QED
      BY <1>1, <1>7, <3>2, <3>3 DEF H
  <2>4. words \in Nat /\ th.had <= words /\ words <= th.size /\ words <= th.keep
    <3>1. Min({th.keep, th.size}) \in {th.keep, th.size} /\ words <= th.keep /\ words <= th.size
      BY <1>2, SmallerOf
    <3> QED
      BY <1>2, <1>7, <3>1
  <2>5. th.ptr.area = "arena" => words < Size(a, th.ptr.at)
    <3> SUFFICES ASSUME th.ptr.area = "arena" PROVE words < Size(a, th.ptr.at)
      OBVIOUS
    <3>1. th.keep < Size(arena, th.ptr.at)
      BY <1>1 DEF CallClaims
    <3>2. Size(a, th.ptr.at) = Size(arena, th.ptr.at) /\ Size(a, th.ptr.at) \in Nat
      <4>1. Keeps(arena, slabs, maps, a, slabs', maps', th.ptr)
        BY <1>1, <1>7
      <4> QED
        BY <1>4, <1>7, <4>1 DEF Keeps, Claim, Fits
    <3> HIDE DEF words
    <3> QED
      BY <1>2, <2>4, <3>1, <3>2
  <2> HIDE DEF words, H
  <2>6. /\ Memory(arena', maps', H) /\ Claim(arena', slabs', maps', p, th.size, th.had)
        /\ \A q \in Places : q \in H /\ q # p => Keeps(a, slabs', maps', arena', slabs', maps', q)
    <3> DEFINE k == th.had
               n == th.size
    <3>1. Claim(a, slabs', maps', th.ptr, k, k) /\ n \in Nat /\ k <= words /\ words <= n
          /\ th.ptr \in Places /\ Fits(a, slabs', maps', p, n)
      BY <1>1, <1>2, <1>4, <1>7, <2>3, <2>4
    <3> HIDE DEF k, n
    <3>2. LET z == Copied(a, th.ptr, p, words) IN
          /\ Memory(z, maps', H) /\ Claim(z, slabs', maps', p, n, k)
          /\ \A q \in Places : q \in H /\ q # p => Keeps(a, slabs', maps', z, slabs', maps', q)
      BY <2>3, <2>4, <2>5, <3>1, CopiedBlock
    <3> QED
      BY <2>1, <3>2 DEF k, n
  <2>7. ASSUME NEW q \in Held, q \in Places
        PROVE  Keeps(arena, slabs, maps, arena', slabs', maps', q)
    <3>1. q \in H /\ q # p
      BY <2>3 DEF H
    <3>2. Keeps(arena, slabs, maps, a, slabs', maps', q) /\ Keeps(a, slabs', maps', arena', slabs', maps', q)
      BY <2>6, <2>7, <3>1
    <3> QED
      BY <3>2, KeepsTwice
  <2>8. LiveClaims(arena', slabs', maps', live')
    <3> SUFFICES ASSUME NEW q \in DOMAIN live PROVE Claim(arena', slabs', maps', q, live[q], live[q])
      BY <2>1 DEF LiveClaims
    <3>1. Keeps(arena, slabs, maps, arena', slabs', maps', q) /\ Claim(arena, slabs, maps, q, live[q], live[q])
      BY <1>1, <2>7 DEF LiveClaims
    <3> QED
      BY <3>1, ClaimKept
  <2>9. CallClaims(arena', slabs', maps', r)
    <3>1. Claim(arena', slabs', maps', th.ptr, th.had, th.had)
      <4>1. Keeps(a, slabs', maps', arena', slabs', maps', th.ptr)
        BY <1>1, <1>7, <2>3, <2>6
      <4> QED
        BY <1>4, <1>7, <4>1, ClaimKept
    <3>2. Stage(r) = "mmap_free"
      BY <2>2 DEF Stage, InitSteps
    <3> QED
      BY <1>2, <2>2, <2>6, <3>1, <3>2 DEF CallClaims, Taking
  <2>10. Knows(r)
    <3>1. Stage(r) = "mmap_free"
      BY <2>2 DEF Stage, InitSteps
    <3> QED
      BY <1>1, <1>2, <1>7, <2>2, <2>3, <3>1 DEF Knows, Searching, Taking, Giving
  <2>11. /\ r.ptr # Nowhere => r.ptr \notin DOMAIN live' /\ r.ptr # r.new
         /\ r.new # Nowhere => r.new \notin DOMAIN live'
         /\ DOMAIN live' \subseteq Places
    BY <1>1, <1>7, <2>1, <2>2, <2>3
  <2>12. /\ Others(t) \cap Own(DOMAIN live', r) = {}
         /\ Memory(arena', maps', Others(t) \cup Own(DOMAIN live', r))
    <3>1. Own(DOMAIN live', r) = DOMAIN live \cup {th.ptr, p}
      BY <1>1, <1>7, <2>1, <2>2 DEF Own
    <3>2. Others(t) \cup Own(DOMAIN live', r) = H
      BY <1>1, <1>2, <1>7, <3>1 DEF H
    <3>3. \A q \in Others(t) : q \notin DOMAIN live /\ q # th.ptr /\ q # p
      BY <1>1, <1>7, <2>3
    <3> QED
      BY <2>6, <3>1, <3>2, <3>3
  <2>13. \A q \in Others(t) : Keeps(arena, slabs, maps, arena', slabs', maps', q)
    BY <1>1, <2>7
  <2> HIDE DEF th
  <2> QED
    BY <2>1, <2>8, <2>9, <2>10, <2>11, <2>12, <2>13, HandsSettle
<1> QED
  BY <1>5, <1>6, <1>7

\* The thread goes on with the same blocks, and the memory stays as it is.
LEMMA StaySettles ==
  ASSUME HInv, ~wiped, NEW t \in Threads, NEW r, thread' = [thread EXCEPT ![t] = r],
         r.ptr = thread[t].ptr, r.new = thread[t].new,
         r.asked = thread[t].asked, r.had = thread[t].had, Knows(r),
         Stage(r) \in Taking /\ r.ptr.area = "arena" => r.keep < Size(arena, r.ptr.at),
         UNCHANGED <<live, arena, slabs, maps>>
  PROVE  Blocked' /\ Known' /\ ArenaBounds(arena')
<1> DEFINE th == thread[t]
<1>1. /\ th.ptr # Nowhere => th.ptr \notin DOMAIN live /\ th.ptr # th.new
      /\ th.new # Nowhere => th.new \notin DOMAIN live
      /\ CallClaims(arena, slabs, maps, th) /\ LiveClaims(arena, slabs, maps, live)
      /\ Memory(arena, maps, Held) /\ DOMAIN live \subseteq Places
  BY HandIs DEF HInv, Shape, Known
<1>2. Held = Others(t) \cup Own(DOMAIN live, th) /\ Others(t) \cap Own(DOMAIN live, th) = {}
  BY HeldApart
<1> HIDE DEF th
<1>3. Own(DOMAIN live', r) = Own(DOMAIN live, th)
  BY DEF Own, th
<1>4. CallClaims(arena', slabs', maps', r)
  BY <1>1 DEF CallClaims, th
<1>5. \A q \in Others(t) : Keeps(arena, slabs, maps, arena', slabs', maps', q)
  BY KeepsSame
<1>6. LiveClaims(arena', slabs', maps', live') /\ DOMAIN live' \subseteq Places
  BY <1>1
<1>7. /\ r.ptr # Nowhere => r.ptr \notin DOMAIN live' /\ r.ptr # r.new
      /\ r.new # Nowhere => r.new \notin DOMAIN live'
  BY <1>1 DEF th
<1>8. /\ Others(t) \cap Own(DOMAIN live', r) = {}
      /\ Memory(arena', maps', Others(t) \cup Own(DOMAIN live', r))
  BY <1>1, <1>2, <1>3
<1> QED
  BY <1>4, <1>5, <1>6, <1>7, <1>8, HandsSettle

\* A call goes on to another section.
LEMMA ProceedSettles ==
  ASSUME HInv, ~wiped, NEW t \in Threads, NEW section, NEW keep \in Nat, Proceed(t, section, keep),
         section \in Searching \cup Taking \cup Giving,
         section \in Searching \cup Giving => thread[t].ptr # Nowhere,
         section \in {"slab_find", "slab_free"} => thread[t].ptr.area # "mmap",
         section \in {"arena_resize", "arena_free"} => thread[t].ptr.area = "arena",
         section \in Taking /\ thread[t].ptr # Nowhere => thread[t].had <= keep,
         section \in Taking /\ thread[t].ptr.area = "arena" => keep < Size(arena, thread[t].ptr.at),
         UNCHANGED <<slabs, maps>>
  PROVE  Blocked' /\ Known' /\ ArenaBounds(arena')
<1> DEFINE th == thread[t]
           r  == [th EXCEPT !.pc = section, !.inside = FALSE, !.keep = keep]
<1>1. Knows(th) /\ CallOK(th)
  BY HandIs
<1>2. thread' = [thread EXCEPT ![t] = r] /\ UNCHANGED <<live, arena, slabs, maps>>
  BY DEF Proceed
<1>3. /\ r.pc = section /\ r.ptr = th.ptr /\ r.new = th.new /\ r.size = th.size
      /\ r.asked = th.asked /\ r.had = th.had /\ r.keep = keep
  BY <1>1 DEF CallOK, Idle
<1> HIDE DEF r
<1>4. Stage(r) = section
  BY <1>3 DEF Stage, InitSteps, Searching, Taking, Giving
<1>5. Knows(r)
  BY <1>1, <1>3, <1>4 DEF Knows
<1>6. Stage(r) \in Taking /\ r.ptr.area = "arena" => r.keep < Size(arena, r.ptr.at)
  BY <1>3, <1>4
<1> QED
  BY <1>2, <1>3, <1>5, <1>6, StaySettles

\* Entering a section and initializing the locks: the thread stays where it was.
LEMMA LockStepIs ==
  ASSUME HInv, NEW t \in Threads, (\E i \in 1 .. 3 : InitLock(t, i)) \/ InitDone(t) \/ Enter(t)
  PROVE  /\ UNCHANGED <<program, arena, slabs, maps, live, calls, wiped>>
         /\ \E r : /\ thread' = [thread EXCEPT ![t] = r] /\ Stage(r) = Stage(thread[t])
                   /\ r.ptr = thread[t].ptr /\ r.new = thread[t].new /\ r.size = thread[t].size
                   /\ r.asked = thread[t].asked /\ r.had = thread[t].had /\ r.keep = thread[t].keep
<1>1. DOMAIN thread[t] = DOMAIN Idle /\ CallOK(thread[t])
  BY DEF HInv, SInv, Calling, CallOK
<1>2. UNCHANGED <<program, arena, slabs, maps, live, calls, wiped>>
  BY DEF InitLock, InitDone, Enter
<1>3. ASSUME NEW i \in 1 .. 3, InitLock(t, i)
      PROVE  \E r : /\ thread' = [thread EXCEPT ![t] = r] /\ Stage(r) = Stage(thread[t])
                    /\ r.ptr = thread[t].ptr /\ r.new = thread[t].new /\ r.size = thread[t].size
                    /\ r.asked = thread[t].asked /\ r.had = thread[t].had /\ r.keep = thread[t].keep
  <2> DEFINE pc == <<"init2", "init3", "init4">>[i]
             r  == [thread[t] EXCEPT !.pc = pc]
  <2>1. thread' = [thread EXCEPT ![t] = r] /\ thread[t].pc \in InitSteps /\ pc \in InitSteps
    BY <1>3 DEF InitLock, InitSteps
  <2> HIDE DEF pc
  <2>2. /\ r.pc = pc /\ r.then = thread[t].then
        /\ r.ptr = thread[t].ptr /\ r.new = thread[t].new /\ r.size = thread[t].size
        /\ r.asked = thread[t].asked /\ r.had = thread[t].had /\ r.keep = thread[t].keep
    BY <1>1 DEF Idle
  <2> HIDE DEF r
  <2> QED
    BY <2>1, <2>2 DEF Stage
<1>4. CASE InitDone(t)
  <2> DEFINE r == [thread[t] EXCEPT !.pc = thread[t].then]
  <2>1. thread' = [thread EXCEPT ![t] = r] /\ thread[t].pc = "init4"
    BY <1>4 DEF InitDone
  <2>2. /\ r.pc = thread[t].then
        /\ r.ptr = thread[t].ptr /\ r.new = thread[t].new /\ r.size = thread[t].size
        /\ r.asked = thread[t].asked /\ r.had = thread[t].had /\ r.keep = thread[t].keep
    BY <1>1 DEF Idle
  <2> HIDE DEF r
  <2>3. Stage(thread[t]) = thread[t].then
    BY <2>1 DEF Stage, InitSteps
  <2>4. thread[t].then \notin InitSteps
    BY <1>1, <2>3 DEF CallOK, InitSteps, Searching, Taking, Giving
  <2> QED
    BY <1>2, <2>1, <2>2, <2>3, <2>4 DEF Stage
<1>5. CASE Enter(t)
  <2> DEFINE r == [thread[t] EXCEPT !.inside = TRUE]
  <2>1. thread' = [thread EXCEPT ![t] = r]
    BY <1>5 DEF Enter
  <2>2. /\ r.pc = thread[t].pc /\ r.then = thread[t].then
        /\ r.ptr = thread[t].ptr /\ r.new = thread[t].new /\ r.size = thread[t].size
        /\ r.asked = thread[t].asked /\ r.had = thread[t].had /\ r.keep = thread[t].keep
    BY <1>1 DEF Idle
  <2> HIDE DEF r
  <2> QED
    BY <1>2, <2>1, <2>2 DEF Stage
<1> QED
  BY <1>2, <1>3, <1>4, <1>5

\* They settle nothing new, wiped or not.
LEMMA LockStepsSettle ==
  ASSUME HInv, NEW t \in Threads, (\E i \in 1 .. 3 : InitLock(t, i)) \/ InitDone(t) \/ Enter(t)
  PROVE  /\ Known' /\ ArenaBounds(arena') /\ (~wiped' => Blocked')
<1>1. UNCHANGED <<program, arena, slabs, maps, live, calls, wiped>>
  BY LockStepIs
<1>2. PICK r : /\ thread' = [thread EXCEPT ![t] = r] /\ Stage(r) = Stage(thread[t])
               /\ r.ptr = thread[t].ptr /\ r.new = thread[t].new /\ r.size = thread[t].size
               /\ r.asked = thread[t].asked /\ r.had = thread[t].had /\ r.keep = thread[t].keep
  BY LockStepIs
<1>3. Known /\ ArenaBounds(arena) /\ thread = [u \in Threads |-> thread[u]]
  BY DEF HInv, Shape, SInv, Calling
<1>4. Knows(r)
  BY <1>2, <1>3 DEF Knows, Known
<1>5. Known' /\ ArenaBounds(arena')
  <2>1. \A u \in Threads : thread'[u] = IF u = t THEN r ELSE thread[u]
    BY <1>2, <1>3
  <2> QED
    BY <1>1, <1>3, <1>4, <2>1 DEF Known
<1>6. CASE ~wiped
  <2>1. Stage(r) \in Taking /\ r.ptr.area = "arena" => r.keep < Size(arena, r.ptr.at)
    <3>1. CallClaims(arena, slabs, maps, thread[t])
      BY <1>6, HandIs
    <3> QED
      BY <1>2, <3>1 DEF CallClaims
  <2>2. UNCHANGED <<live, arena, slabs, maps>>
    BY <1>1
  <2>3. Blocked'
    BY <1>2, <1>4, <1>6, <2>1, <2>2, StaySettles
  <2> QED
    BY <1>5, <2>3
<1> QED
  BY <1>1, <1>5, <1>6

\* The mappings, by their places in the list.
LEMMA MapsAre ==
  ASSUME HInv
  PROVE  /\ maps \in Seq(Mapping) /\ Len(maps) \in Nat /\ DOMAIN maps = 1 .. Len(maps)
         /\ \A i \in DOMAIN maps : /\ maps[i] \in Mapping /\ maps[i].size \in Nat
                                  /\ maps[i].at \in 1 .. MaxMaps /\ maps[i].at \in Nat
<1>1. maps \in Seq(Mapping)
  BY DEF HInv, Shape, Counters
<1>2. \A i \in DOMAIN maps : maps[i] \in Mapping
  BY <1>1
<1>3. MaxMaps \in Nat
  BY MallocAssumption
<1> QED
  BY <1>1, <1>2, <1>3 DEF Mapping

\* A call begins, with a block of the program's or with none.
LEMMA CallSettles ==
  ASSUME HInv, NEW t \in Threads, NEW section, NEW th, Call(t, section, th),
         DOMAIN th = DOMAIN Idle, th.new = Nowhere, th.size \in Nat, th.asked = th.size,
         th.had \in Nat, th.had <= th.size, th.keep = 0,
         \/ /\ section \in Taking /\ th.ptr = Nowhere /\ th.had = 0 /\ live' = live
         \/ /\ section \in {"mmap_free", "mmap_find"} /\ th.ptr \in DOMAIN live /\ Take(th.ptr)
            /\ th.had <= live[th.ptr]
  PROVE  Blocked' /\ Known' /\ ArenaBounds(arena') /\ ~wiped /\ ~wiped'
<1> DEFINE r == [th EXCEPT !.pc = IF initialized THEN section ELSE "init1", !.then = section]
<1>1. /\ thread' = [thread EXCEPT ![t] = r] /\ thread[t].pc = "idle" /\ ~wiped
      /\ UNCHANGED <<program, arena, slabs, maps, initialized, lock, wiped>>
  BY DEF Call
<1>2. /\ r.ptr = th.ptr /\ r.new = Nowhere /\ r.size = th.size /\ r.asked = th.asked
      /\ r.had = th.had /\ r.keep = 0 /\ r.then = section /\ r.pc \in {section, "init1"}
  BY DEF Idle
<1> HIDE DEF r
<1>3. Stage(r) = section
  BY <1>2 DEF Stage, InitSteps, Taking
<1>4. thread[t].ptr = Nowhere /\ thread[t].new = Nowhere
  <2>1. Stage(thread[t]) = "idle" /\ CallOK(thread[t])
    BY <1>1 DEF Stage, InitSteps, HInv, SInv, Calling
  <2> QED
    BY <2>1 DEF CallOK, Giving
<1>5. /\ \A q : q \in Held <=> q \in Others(t) \/ q \in DOMAIN live
      /\ \A q \in Others(t) \cup DOMAIN live : q \in Held /\ q \in Places /\ q # Nowhere
      /\ Others(t) \cap DOMAIN live = {}
      /\ Memory(arena, maps, Held) /\ LiveClaims(arena, slabs, maps, live)
  BY <1>1, <1>4, HandIs
<1>6. Knows(r)
  BY <1>2, <1>3, <1>5 DEF Knows, Searching, Taking, Giving
<1>7. \A q \in Others(t) : Keeps(arena, slabs, maps, arena', slabs', maps', q)
  BY <1>1, KeepsSame
<1>8. CASE section \in Taking /\ th.ptr = Nowhere /\ live' = live
  <2>1. Own(DOMAIN live', r) = DOMAIN live
    BY <1>2, <1>5, <1>8 DEF Own
  <2>2. /\ r.ptr # Nowhere => r.ptr \notin DOMAIN live' /\ r.ptr # r.new
        /\ r.new # Nowhere => r.new \notin DOMAIN live'
        /\ DOMAIN live' \subseteq Places
    BY <1>2, <1>5, <1>8
  <2>3. CallClaims(arena', slabs', maps', r)
    BY <1>2, <1>8, PlacesApart DEF CallClaims
  <2>4. LiveClaims(arena', slabs', maps', live')
    BY <1>1, <1>5, <1>8
  <2>5. /\ Others(t) \cap Own(DOMAIN live', r) = {}
        /\ Memory(arena', maps', Others(t) \cup Own(DOMAIN live', r))
    <3>1. Others(t) \cup DOMAIN live = Held
      BY <1>5
    <3> QED
      BY <1>1, <1>5, <2>1, <3>1
  <2> QED
    BY <1>1, <1>6, <1>7, <2>2, <2>3, <2>4, <2>5, HandsSettle
<1>9. CASE /\ section \in {"mmap_free", "mmap_find"} /\ th.ptr \in DOMAIN live /\ Take(th.ptr)
           /\ th.had <= live[th.ptr]
  <2>1. DOMAIN live' = DOMAIN live \ {th.ptr} /\ \A q \in DOMAIN live' : live'[q] = live[q]
    BY <1>9 DEF Take
  <2>2. Own(DOMAIN live', r) = DOMAIN live
    BY <1>2, <1>5, <1>9, <2>1 DEF Own
  <2>3. /\ r.ptr # Nowhere => r.ptr \notin DOMAIN live' /\ r.ptr # r.new
        /\ r.new # Nowhere => r.new \notin DOMAIN live'
        /\ DOMAIN live' \subseteq Places
    BY <1>2, <1>5, <1>9, <2>1
  <2>4. LiveClaims(arena', slabs', maps', live')
    BY <1>1, <1>5, <2>1 DEF LiveClaims
  <2>5. CallClaims(arena', slabs', maps', r)
    <3> DEFINE p == th.ptr
               n == live[p]
               k == th.had
    <3>1. Claim(arena, slabs, maps, p, n, n) /\ k \in Nat /\ k <= n
      BY <1>5, <1>9 DEF LiveClaims
    <3> HIDE DEF p, n, k
    <3>2. Claim(arena, slabs, maps, p, k, k)
      <4>1. Data(arena, p, k)
        BY <3>1 DEF Claim, Data
      <4>2. Fits(arena, slabs, maps, p, k)
        <5>1. n \in Nat /\ Fits(arena, slabs, maps, p, n)
          BY <3>1 DEF Claim
        <5>2. p.area = "arena" => Size(arena, p.at) \in Nat /\ k < Size(arena, p.at)
          BY <3>1, <5>1 DEF Fits
        <5>3. p.area = "slab" => SlabOf(p) \in DOMAIN slabs /\ k <= SlotSizes[slabs[SlabOf(p)].cls]
          <6> SUFFICES ASSUME p.area = "slab" PROVE SlabOf(p) \in DOMAIN slabs /\ k <= SlotSizes[slabs[SlabOf(p)].cls]
            OBVIOUS
          <6>1. SlabOf(p) \in DOMAIN slabs /\ n <= SlotSizes[slabs[SlabOf(p)].cls]
            BY <5>1 DEF Fits
          <6>2. SlotSizes[slabs[SlabOf(p)].cls] \in Nat
            BY <6>1, MallocAssumption, SlabsAre DEF HInv, SInv, Slab
          <6> QED
            BY <3>1, <5>1, <6>1, <6>2
        <5>4. p.area = "mmap" => \E i \in DOMAIN maps : p = InMap(maps[i].at) /\ k <= maps[i].size
          <6> SUFFICES ASSUME p.area = "mmap"
                       PROVE  \E i \in DOMAIN maps : p = InMap(maps[i].at) /\ k <= maps[i].size
            OBVIOUS
          <6>1. PICK i \in DOMAIN maps : p = InMap(maps[i].at) /\ n <= maps[i].size
            BY <5>1 DEF Fits
          <6>2. maps[i].size \in Nat
            BY <6>1, MapsAre
          <6> QED
            BY <3>1, <5>1, <6>1, <6>2
        <5> QED
          BY <5>2, <5>3, <5>4 DEF Fits
      <4> QED
        BY <3>1, <4>1, <4>2 DEF Claim
    <3> QED
      BY <1>1, <1>2, <1>3, <1>9, <3>2 DEF CallClaims, Taking, p, k
  <2>6. /\ Others(t) \cap Own(DOMAIN live', r) = {}
        /\ Memory(arena', maps', Others(t) \cup Own(DOMAIN live', r))
    <3>1. Others(t) \cup DOMAIN live = Held
      BY <1>5
    <3> QED
      BY <1>1, <1>5, <2>2, <3>1
  <2> QED
    BY <1>1, <1>6, <1>7, <2>3, <2>4, <2>5, <2>6, HandsSettle
<1> QED
  BY <1>8, <1>9

\* A remainder is not more than the number, and a quotient times the divisor neither.
LEMMA Divided ==
  ASSUME NEW n \in Nat, NEW m \in Nat \ {0}
  PROVE  n % m \in Nat /\ n % m <= n /\ m * (n \div m) <= n
<1> DEFINE q == n \div m
           r == n % m
<1>1. q \in Int /\ r \in 0 .. m - 1 /\ n = m * q + r
  OBVIOUS
<1>2. q >= 0
  OBVIOUS
<1> HIDE DEF q, r
<1>3. m * q >= 0 /\ m * q \in Int
  BY <1>1, <1>2
<1> QED
  BY <1>1, <1>3 DEF q, r

\* A call of the program: its arguments are in range, and mira_calloc's product fits.
LEMMA CallsSettle ==
  ASSUME HInv, NEW t \in program.threads, t \in Threads, Calls(t)
  PROVE  Blocked' /\ Known' /\ ArenaBounds(arena') /\ ~wiped /\ ~wiped'
<1>1. /\ program.sizes \subseteq Nat \ {0}
      /\ \A a \in program.arrays : a[1] \in Nat \ {0} /\ a[2] \in Nat \ {0}
      /\ SizeLimit \in Nat \ {0}
  BY MallocAssumption DEF HInv, SInv, Calling
<1>2. \A size : Serves(size) \in Taking
  BY ServesTaking
<1>3. CASE \E size \in program.sizes : CallMalloc(t, size)
  <2>1. PICK size \in program.sizes : CallMalloc(t, size)
    BY <1>3
  <2> DEFINE th == [Idle EXCEPT !.size = size, !.asked = size]
  <2>2. Call(t, Serves(size), th) /\ live' = live
    BY <2>1 DEF CallMalloc
  <2>3. /\ DOMAIN th = DOMAIN Idle /\ th.new = Nowhere /\ th.ptr = Nowhere /\ th.size = size
        /\ th.asked = size /\ th.had = 0 /\ th.keep = 0
    BY DEF Idle
  <2> HIDE DEF th
  <2>4. size \in Nat /\ 0 <= size
    BY <1>1
  <2> QED
    BY <1>2, <2>2, <2>3, <2>4, CallSettles
<1>4. CASE \E a \in program.arrays : CallCalloc(t, a[1], a[2])
  <2>1. PICK a \in program.arrays : CallCalloc(t, a[1], a[2])
    BY <1>4
  <2> DEFINE nmemb == a[1]
             size == a[2]
             product == nmemb * size
             total == product % SizeLimit
             th == [Idle EXCEPT !.size = total, !.asked = product]
  <2>2. Call(t, Serves(total), th) /\ live' = live /\ total \div nmemb = size
    BY <2>1 DEF CallCalloc
  <2>3. /\ DOMAIN th = DOMAIN Idle /\ th.new = Nowhere /\ th.ptr = Nowhere /\ th.size = total
        /\ th.asked = product /\ th.had = 0 /\ th.keep = 0
    BY DEF Idle
  <2>4. nmemb \in Nat \ {0} /\ size \in Nat /\ product \in Nat
    BY <1>1, <2>1
  <2> HIDE DEF th, total
  <2>5. total \in Nat /\ total <= product
    BY <1>1, <2>4, Divided DEF total
  <2>6. product <= total
    <3>1. nmemb * (total \div nmemb) <= total
      BY <2>4, <2>5, Divided
    <3> QED
      BY <2>2, <3>1
  <2> HIDE DEF product, nmemb, size
  <2>7. total = product /\ 0 <= total
    BY <2>4, <2>5, <2>6
  <2> QED
    BY <1>2, <2>2, <2>3, <2>5, <2>7, CallSettles
<1>5. CASE \E p \in DOMAIN live : CallFree(t, p)
  <2>1. PICK p \in DOMAIN live : CallFree(t, p)
    BY <1>5
  <2> DEFINE th == [Idle EXCEPT !.ptr = p]
  <2>2. Call(t, "mmap_free", th) /\ Take(p)
    BY <2>1 DEF CallFree
  <2>3. /\ DOMAIN th = DOMAIN Idle /\ th.new = Nowhere /\ th.ptr = p /\ th.size = 0
        /\ th.asked = 0 /\ th.had = 0 /\ th.keep = 0
    BY DEF Idle
  <2> HIDE DEF th
  <2>4. 0 <= live[p]
    <3>1. ~wiped
      BY <2>2 DEF Call
    <3>2. Claim(arena, slabs, maps, p, live[p], live[p])
      BY <3>1 DEF HInv, Blocked, LiveClaims
    <3> QED
      BY <3>2 DEF Claim
  <2> QED
    BY <2>2, <2>3, <2>4, CallSettles
<1>6. CASE \E p \in DOMAIN live, size \in program.sizes : CallRealloc(t, p, size)
  <2>1. PICK p \in DOMAIN live, size \in program.sizes : CallRealloc(t, p, size)
    BY <1>6
  <2> DEFINE had == Min({live[p], size})
             th == [Idle EXCEPT !.ptr = p, !.size = size, !.asked = size, !.had = had]
  <2>2. Call(t, "mmap_find", th) /\ Take(p)
    BY <2>1 DEF CallRealloc
  <2> HIDE DEF had
  <2>3. /\ DOMAIN th = DOMAIN Idle /\ th.new = Nowhere /\ th.ptr = p /\ th.size = size
        /\ th.asked = size /\ th.had = had /\ th.keep = 0
    BY DEF Idle
  <2> HIDE DEF th
  <2>4. size \in Nat /\ live[p] \in Nat
    <3>1. ~wiped
      BY <2>2 DEF Call
    <3>2. Claim(arena, slabs, maps, p, live[p], live[p])
      BY <3>1 DEF HInv, Blocked, LiveClaims
    <3> QED
      BY <1>1, <3>2 DEF Claim
  <2>5. had \in Nat /\ had <= size /\ had <= live[p]
    BY <2>4, SmallerOf DEF had
  <2> QED
    BY <2>2, <2>3, <2>4, <2>5, CallSettles
<1> QED
  BY <1>3, <1>4, <1>5, <1>6 DEF Calls

--------------------------------------------------------------------------------
\* Memory and hands.

\* What is in a hand fits where it is.
LEMMA HeldClaim ==
  ASSUME HInv, ~wiped, NEW q \in Held
  PROVE  \E n, k : Claim(arena, slabs, maps, q, n, k)
<1>1. CASE q \in DOMAIN live
  BY <1>1 DEF HInv, Blocked, LiveClaims
<1>2. CASE q \notin DOMAIN live
  <2>1. PICK u \in Threads : q \in {thread[u].ptr, thread[u].new} /\ q # Nowhere
    BY <1>2 DEF Held
  <2>2. CallClaims(arena, slabs, maps, thread[u])
    BY DEF HInv, Blocked
  <2> QED
    BY <2>1, <2>2 DEF CallClaims
<1> QED
  BY <1>1, <1>2

\* No mapping is listed twice.
Distinct(ms) == \A i, j \in DOMAIN ms : ms[i].at = ms[j].at => i = j

\* Blocks elsewhere come and go without the arena.
LEMMA HandsElsewhere ==
  ASSUME NEW a, NEW ms, NEW H, Memory(a, ms, H), NEW ms2, Distinct(ms2),
         NEW H2, \A h : InArena(h) \in H2 <=> InArena(h) \in H
  PROVE  Memory(a, ms2, H2)
BY DEF Memory, Distinct

\* A change of the arena, from its blocks to the hands they are in.
LEMMA ChangesHands ==
  ASSUME NEW a, NEW B, Good(a, B), NEW H, \A h : h \in Callers(a, B) <=> InArena(h) \in H,
         NEW ms, Distinct(ms), NEW a2, NEW B2, NEW gone, NEW come, Changes(a, a2, B, B2, gone, come),
         NEW H2, \A h : InArena(h) \in H2 <=> (InArena(h) \in H /\ h \notin gone) \/ h \in come
  PROVE  /\ Memory(a2, ms, H2)
         /\ \A sl : \A q \in Places : q \in H /\ (q.area = "arena" => q.at \notin gone)
                                        => Keeps(a, sl, ms, a2, sl, ms, q)
<1>1. Good(a2, B2) /\ \A h : h \in Callers(a2, B2) <=> InArena(h) \in H2
  BY DEF Changes
<1>2. Memory(a2, ms, H2)
  BY <1>1 DEF Memory, Distinct
<1> DEFINE X == Callers(a, B) \ gone
<1>3. Intact(a, a2, X)
  BY DEF Changes
<1>4. ASSUME NEW sl, NEW q \in Places, q \in H, q.area = "arena" => q.at \notin gone
      PROVE  Keeps(a, sl, ms, a2, sl, ms, q)
  <2>1. q.area = "arena" => q.at \in X
    BY <1>4, PlacesApart
  <2> HIDE DEF X
  <2> QED
    BY <1>3, <2>1, IntactKeeps
<1> QED
  BY <1>2, <1>4

\* Slabs that are still there, of the same classes.
SlabsKept(sl, sl2) == \A i \in DOMAIN sl : i \in DOMAIN sl2 /\ sl2[i].cls = sl[i].cls

\* Then every slot is as large as it was.
LEMMA KeepsSlabs ==
  ASSUME NEW a, NEW sl, NEW sl2, NEW ms, SlabsKept(sl, sl2), NEW q
  PROVE  Keeps(a, sl, ms, a, sl2, ms, q)
BY DEF SlabsKept, Keeps

\* One more mapping at the head of the list.
LEMMA Prepended ==
  ASSUME NEW M, NEW s \in Seq(M), NEW m \in M
  PROVE  LET r == <<m>> \o s IN
         /\ r \in Seq(M) /\ DOMAIN r = 1 .. Len(s) + 1 /\ r[1] = m
         /\ \A j \in 1 .. Len(s) : r[j + 1] = s[j]
<1> DEFINE r == <<m>> \o s
<1>1. <<m>> \in Seq(M) /\ Len(<<m>>) = 1 /\ Len(s) \in Nat /\ <<m>>[1] = m
  OBVIOUS
<1>2. /\ r \in Seq(M) /\ Len(r) = 1 + Len(s)
      /\ \A j \in 1 .. 1 + Len(s) : r[j] = IF j <= 1 THEN <<m>>[j] ELSE s[j - 1]
  BY <1>1, ConcatProperties
<1> HIDE DEF r
<1>3. r[1] = m
  <2>1. 1 \in 1 .. 1 + Len(s) /\ 1 <= 1
    BY <1>1
  <2> QED
    BY <1>1, <1>2, <2>1
<1>4. ASSUME NEW j \in 1 .. Len(s) PROVE r[j + 1] = s[j]
  <2>1. j + 1 \in 1 .. 1 + Len(s) /\ ~(j + 1 <= 1) /\ j + 1 - 1 = j
    BY <1>1
  <2> QED
    BY <1>2, <2>1
<1>5. DOMAIN r = 1 .. Len(s) + 1
  BY <1>1, <1>2
<1> QED
  BY <1>2, <1>3, <1>4, <1>5 DEF r

\* One mapping less.
LEMMA Removed ==
  ASSUME NEW M, NEW s \in Seq(M), NEW i \in DOMAIN s
  PROVE  LET r == RemoveAt(s, i) IN
         /\ r \in Seq(M) /\ Len(r) = Len(s) - 1
         /\ \A j \in 1 .. Len(s) - 1 : r[j] = IF j < i THEN s[j] ELSE s[j + 1]
<1> DEFINE x == SubSeq(s, 1, i - 1)
           y == SubSeq(s, i + 1, Len(s))
<1>1. i \in 1 .. Len(s) /\ Len(s) \in Nat
  OBVIOUS
<1>2. x \in Seq(M) /\ Len(x) = i - 1 /\ \A j \in 1 .. i - 1 : x[j] = s[j]
  BY <1>1
<1>3. y \in Seq(M) /\ Len(y) = Len(s) - i /\ \A j \in 1 .. Len(s) - i : y[j] = s[i + j]
  BY <1>1
<1>4. RemoveAt(s, i) = x \o y
  BY DEF RemoveAt
<1> HIDE DEF x, y
<1>5. /\ x \o y \in Seq(M) /\ Len(x \o y) = Len(s) - 1
      /\ \A j \in 1 .. Len(s) - 1 : (x \o y)[j] = IF j < i THEN x[j] ELSE y[j - (i - 1)]
  <2>1. /\ x \o y \in Seq(M) /\ Len(x \o y) = Len(x) + Len(y)
        /\ \A j \in 1 .. Len(x) + Len(y) : (x \o y)[j] = IF j <= Len(x) THEN x[j] ELSE y[j - Len(x)]
    BY <1>2, <1>3, ConcatProperties
  <2>2. Len(x) = i - 1 /\ Len(y) = Len(s) - i /\ i \in 1 .. Len(s) /\ Len(s) \in Nat
    BY <1>1, <1>2, <1>3
  <2> DEFINE z == x \o y
  <2> HIDE DEF z
  <2>3. \A j \in 1 .. Len(s) - 1 : z[j] = IF j <= i - 1 THEN x[j] ELSE y[j - (i - 1)]
    <3> SUFFICES ASSUME NEW j \in 1 .. Len(s) - 1
                 PROVE  z[j] = IF j <= i - 1 THEN x[j] ELSE y[j - (i - 1)]
      OBVIOUS
    <3>1. j \in 1 .. Len(x) + Len(y)
      BY <2>2
    <3>2. z[j] = IF j <= Len(x) THEN x[j] ELSE y[j - Len(x)]
      BY <2>1, <3>1 DEF z
    <3> QED
      BY <2>2, <3>2
  <2>4. \A j \in 1 .. Len(s) - 1 : (j <= i - 1 <=> j < i)
    BY <2>2
  <2>5. Len(z) = Len(s) - 1 /\ z \in Seq(M)
    BY <2>1, <2>2 DEF z
  <2> QED
    BY <2>3, <2>4, <2>5 DEF z
<1>6. ASSUME NEW j \in 1 .. Len(s) - 1, ~(j < i) PROVE y[j - (i - 1)] = s[j + 1]
  <2>1. j - (i - 1) \in 1 .. Len(s) - i /\ i + (j - (i - 1)) = j + 1
    BY <1>1, <1>6
  <2> QED
    BY <1>3, <2>1
<1> QED
  BY <1>1, <1>2, <1>4, <1>5, <1>6

--------------------------------------------------------------------------------
\* The sections.

\* A section works on its thread's blocks, before anything is wiped.
LEMMA AtIs ==
  ASSUME NEW t, NEW section \in Searching \cup Taking \cup Giving, At(t, section)
  PROVE  Stage(thread[t]) = section /\ ~wiped
BY AtStage DEF At

\* mmap_alloc: a mapping that nobody has.
LEMMA MmapAllocSettles ==
  ASSUME HInv, NEW t \in Threads, MmapAlloc(t)
  PROVE  Blocked' /\ Known' /\ ArenaBounds(arena') /\ maps' \in Seq(Mapping)
<1> DEFINE taken == {maps[i].at : i \in DOMAIN maps}
           k == Min((1 .. MaxMaps + 1) \ taken)
           m == [at |-> k, size |-> thread[t].size]
<1>1. /\ At(t, "mmap_alloc") /\ slabs' = slabs
      /\ \/ k > MaxMaps /\ Allocated(t, Nowhere, arena) /\ maps' = maps
         \/ ~(k > MaxMaps) /\ Allocated(t, InMap(k), arena) /\ maps' = <<m>> \o maps
  BY DEF MmapAlloc
<1>2. Stage(thread[t]) \in Taking /\ ~wiped
  BY <1>1, AtIs DEF Taking
<1>3. /\ maps \in Seq(Mapping) /\ Len(maps) \in Nat /\ DOMAIN maps = 1 .. Len(maps)
      /\ \A i \in DOMAIN maps : maps[i] \in Mapping /\ maps[i].at \in 1 .. MaxMaps
  BY MapsAre
<1>4. k \in 1 .. MaxMaps + 1 /\ k \notin taken
  <2>1. MaxMaps \in Nat
    BY MallocAssumption
  <2>2. MaxMaps + 1 \in (1 .. MaxMaps + 1) \ taken
    BY <1>3, <2>1
  <2> DEFINE S == (1 .. MaxMaps + 1) \ taken
  <2> HIDE DEF taken
  <2>3. S \in SUBSET Nat /\ S # {}
    BY <2>1, <2>2
  <2>4. Min(S) \in S
    BY <2>3, LeastFound
  <2> QED
    BY <2>4
<1>5. \A i \in DOMAIN maps : maps[i].at # k
  BY <1>4
<1>6. thread[t].size \in Nat /\ MaxMaps \in Nat /\ Memory(arena, maps, Held)
  BY <1>2, HandIs, MallocAssumption DEF Knows
<1> HIDE DEF k, taken
<1>7. CASE k > MaxMaps /\ Allocated(t, Nowhere, arena) /\ maps' = maps
  <2>1. Held \cup ({Nowhere} \ {Nowhere}) = Held
    OBVIOUS
  <2>2. Memory(arena, maps', Held \cup ({Nowhere} \ {Nowhere}))
    BY <1>6, <1>7, <2>1
  <2>3. \A q \in Held : Keeps(arena, slabs, maps, arena, slabs', maps', q)
    BY <1>1, <1>7, KeepsSame
  <2>4. Blocked' /\ Known' /\ ArenaBounds(arena')
    BY <1>2, <1>7, <2>2, <2>3, AllocatedSettles
  <2> QED
    BY <1>3, <1>7, <2>4
<1>8. CASE ~(k > MaxMaps) /\ Allocated(t, InMap(k), arena) /\ maps' = <<m>> \o maps
  <2> DEFINE p == InMap(k)
  <2>1. m \in Mapping /\ m.at = k /\ m.size = thread[t].size /\ k \in Nat
    BY <1>4, <1>6, <1>8 DEF Mapping
  <2> HIDE DEF m
  <2>2. /\ maps' \in Seq(Mapping) /\ DOMAIN maps' = 1 .. Len(maps) + 1 /\ maps'[1] = m
        /\ \A j \in 1 .. Len(maps) : maps'[j + 1] = maps[j]
    BY <1>3, <1>8, <2>1, Prepended
  <2>3. p \in Places /\ p # Nowhere /\ p.area = "mmap"
    BY <2>1, PlacesApart
  <2>4. p \notin Held
    <3> SUFFICES ASSUME p \in Held PROVE FALSE
      OBVIOUS
    <3>1. PICK n, l : Claim(arena, slabs, maps, p, n, l)
      BY <1>2, HeldClaim
    <3>2. PICK i \in DOMAIN maps : p = InMap(maps[i].at)
      BY <2>3, <3>1 DEF Claim, Fits
    <3>3. maps[i].at = k
      BY <3>2, PlacesApart
    <3> QED
      BY <1>5, <3>3
  <2>5. Fits(arena, slabs', maps', p, thread[t].size)
    <3>1. 1 \in DOMAIN maps'
      BY <1>3, <2>2
    <3>2. p = InMap(maps'[1].at) /\ thread[t].size <= maps'[1].size
      BY <1>6, <2>1, <2>2
    <3> QED
      BY <2>3, <3>1, <3>2 DEF Fits
  <2>6. Distinct(maps')
    <3> SUFFICES ASSUME NEW i \in DOMAIN maps', NEW j \in DOMAIN maps', maps'[i].at = maps'[j].at
                 PROVE  i = j
      BY DEF Distinct
    <3>1. \A x \in DOMAIN maps' : x # 1 =>
            x - 1 \in DOMAIN maps /\ maps'[x] = maps[x - 1] /\ x \in Int
      <4> SUFFICES ASSUME NEW x \in DOMAIN maps', x # 1
                   PROVE  x - 1 \in DOMAIN maps /\ maps'[x] = maps[x - 1] /\ x \in Int
        OBVIOUS
      <4>1. x - 1 \in 1 .. Len(maps) /\ x - 1 + 1 = x /\ x \in Int
        BY <1>3, <2>2
      <4> QED
        BY <1>3, <2>2, <4>1
    <3>2. \A x, y \in DOMAIN maps : maps[x].at = maps[y].at => x = y
      BY <1>6 DEF Memory
    <3>3. CASE i = 1 \/ j = 1
      BY <1>5, <2>1, <2>2, <3>1, <3>3
    <3>4. CASE i # 1 /\ j # 1
      <4>1. i - 1 = j - 1
        BY <3>1, <3>2, <3>4
      <4> QED
        BY <3>1, <3>4, <4>1
    <3> QED
      BY <3>3, <3>4
  <2> DEFINE H == Held \cup ({p} \ {Nowhere})
  <2>7. \A h : InArena(h) \in H <=> InArena(h) \in Held
    BY <2>3, PlacesApart
  <2> HIDE DEF H
  <2>8. Memory(arena, maps', H)
    BY <1>6, <2>6, <2>7, HandsElsewhere
  <2>9. ASSUME NEW q \in Held PROVE Keeps(arena, slabs, maps, arena, slabs', maps', q)
    <3>1. ASSUME NEW i \in DOMAIN maps PROVE \E j \in DOMAIN maps' : maps'[j] = maps[i]
      <4>1. i + 1 \in DOMAIN maps' /\ i \in 1 .. Len(maps)
        BY <1>3, <2>2
      <4> QED
        BY <2>2, <4>1
    <3> QED
      BY <1>1, <3>1 DEF Keeps
  <2>10. Blocked' /\ Known' /\ ArenaBounds(arena')
    <3>1. /\ Allocated(t, p, arena) /\ p \in Places /\ p \notin Held
          /\ Fits(arena, slabs', maps', p, thread[t].size)
          /\ Memory(arena, maps', Held \cup ({p} \ {Nowhere}))
      BY <1>8, <2>3, <2>4, <2>5, <2>8 DEF H
    <3> HIDE DEF p
    <3> QED
      BY <1>2, <2>9, <3>1, AllocatedSettles
  <2> QED
    BY <2>2, <2>10
<1> QED
  BY <1>1, <1>7, <1>8

\* A class of slots is large enough for the sizes it serves (SLAB_CLASS and slab_sizes).
LEMMA ClassServes ==
  ASSUME NEW size \in Nat, SlabClass(size) \in DOMAIN SlotSizes
  PROVE  size <= SlotSizes[SlabClass(size)]
<1>1. SlotSizes \in Seq(Nat) /\ DOMAIN SlotSizes = 1 .. Len(SlotSizes) /\ Len(SlotSizes) \in Nat
      /\ \A c \in DOMAIN SlotSizes : 2 * c <= SlotSizes[c]
  BY MallocAssumption
<1>2. SlabClass(size) = (size + 1) \div 2
  BY <1>1 DEF SlabClass
<1> DEFINE c == (size + 1) \div 2
<1>3. size <= 2 * c /\ c \in Int
  OBVIOUS
<1>4. c \in DOMAIN SlotSizes
  BY <1>2
<1> HIDE DEF c
<1>5. SlotSizes[c] \in Nat /\ 2 * c <= SlotSizes[c]
  BY <1>1, <1>4
<1>6. size <= SlotSizes[c]
  BY <1>3, <1>5
<1> QED
  BY <1>2, <1>6 DEF c

\* slab_alloc found a slot: it fits, nobody has it, and the other slots are as they were.
LEMMA SlotSettles ==
  ASSUME HInv, ~wiped, NEW t \in Threads, Stage(thread[t]) = "slab_alloc",
         NEW i \in Nat, NEW s \in Slots, InSlab(i, s) \notin Marked,
         Allocated(t, InSlab(i, s), arena), maps' = maps, SlabsKept(slabs, slabs'),
         i \in DOMAIN slabs' /\ slabs'[i].cls = SlabClass(thread[t].size)
  PROVE  Blocked' /\ Known' /\ ArenaBounds(arena')
<1> DEFINE p == InSlab(i, s)
           size == thread[t].size
           H == Held \cup ({p} \ {Nowhere})
<1>1. size \in Nat /\ Memory(arena, maps, Held) /\ SlabClass(size) \in DOMAIN SlotSizes
  BY HandIs DEF Knows, CallOK
<1>2. OnSlab(p) /\ SlabOf(p) = i /\ p \in Places
  <2>1. OnSlab(p) /\ SlabOf(p) = i
    BY SlotPlaces
  <2>2. i * SlotsPerSlab + s \in Nat
    BY MallocAssumption DEF Slots
  <2> QED
    BY <2>1, <2>2 DEF Places, InSlab
<1>3. p \notin Held
  BY <1>2 DEF HInv, SInv, SlotsHeld
<1>4. Fits(arena, slabs', maps', p, size)
  <2>1. size <= SlotSizes[SlabClass(size)]
    BY <1>1, ClassServes
  <2>2. p.area = "slab" /\ p.area # "arena" /\ p.area # "mmap"
    BY <1>2 DEF OnSlab
  <2> HIDE DEF p, size
  <2> QED
    BY <1>2, <2>1, <2>2 DEF Fits, size
<1>5. \A h : InArena(h) \in H <=> InArena(h) \in Held
  <2>1. \A h : InArena(h) # p
    BY <1>2, OtherAreas
  <2> QED
    BY <2>1
<1> HIDE DEF H
<1>6. Memory(arena, maps', H)
  <2>1. Distinct(maps')
    BY <1>1 DEF Memory, Distinct
  <2> QED
    BY <1>1, <1>5, <2>1, HandsElsewhere
<1>7. \A q \in Held : Keeps(arena, slabs, maps, arena, slabs', maps', q)
  BY KeepsSlabs
<1>8. /\ Allocated(t, p, arena) /\ Memory(arena, maps', Held \cup ({p} \ {Nowhere}))
      /\ Stage(thread[t]) \in Taking
  BY <1>6 DEF H, Taking
<1> HIDE DEF p
<1> QED
  BY <1>2, <1>3, <1>4, <1>7, <1>8, AllocatedSettles

\* slab_alloc: the newest slab with a free slot, a new slab, or the arena is next.
LEMMA SlabAllocSettles ==
  ASSUME HInv, NEW t \in Threads, SlabAlloc(t)
  PROVE  Blocked' /\ Known' /\ ArenaBounds(arena')
<1> DEFINE cls  == SlabClass(thread[t].size)
           room == {i \in DOMAIN slabs : slabs[i].cls = cls /\ slabs[i].used < SlotsPerSlab}
           i    == Max(room)
           slot == Min((0 .. SlotsPerSlab - 1) \ slabs[i].bits)
<1>1. /\ At(t, "slab_alloc") /\ maps' = maps
      /\ \/ /\ room # {}
            /\ slabs' = [slabs EXCEPT ![i].bits = @ \cup {slot}, ![i].used = @ + 1]
            /\ Allocated(t, InSlab(i, slot), arena)
         \/ /\ slabs' = Append(slabs, [cls |-> cls, bits |-> {0}, used |-> 1])
            /\ Allocated(t, InSlab(Len(slabs) + 1, 0), arena)
         \/ Proceed(t, "arena_alloc", thread[t].keep) /\ slabs' = slabs
  BY DEF SlabAlloc
<1>2. Stage(thread[t]) = "slab_alloc" /\ ~wiped
  BY <1>1, AtIs DEF Taking
<1>3. /\ Len(slabs) \in Nat /\ DOMAIN slabs = 1 .. Len(slabs)
      /\ \A j \in DOMAIN slabs : j \in Nat /\ slabs[j] \in Slab
      /\ slabs \in Seq(Slab)
  BY SlabsAre DEF HInv, SInv, SlabType
<1>4. CASE /\ room # {}
           /\ slabs' = [slabs EXCEPT ![i].bits = @ \cup {slot}, ![i].used = @ + 1]
           /\ Allocated(t, InSlab(i, slot), arena)
  <2>1. i \in room
    <3>1. room \in SUBSET (1 .. Len(slabs))
      BY <1>3
    <3> HIDE DEF room
    <3> QED
      BY <1>3, <1>4, <3>1, MaxFound
  <2>2. i \in DOMAIN slabs /\ slabs[i].used < SlotsPerSlab /\ slabs[i].cls = cls
    BY <2>1
  <2> HIDE DEF i, room, cls
  <2>3. slot \in Slots /\ slot \notin slabs[i].bits
    <3>1. slabs[i].bits \in SUBSET Slots /\ Cardinality(slabs[i].bits) < SlotsPerSlab
      BY <1>3, <2>2 DEF HInv, SInv, UsedCounts, Slab
    <3>2. Min(Slots \ slabs[i].bits) \in Slots \ slabs[i].bits
      BY <3>1, SlotFree
    <3> QED
      BY <3>2 DEF Slots
  <2> HIDE DEF slot
  <2>4. i \in Nat /\ InSlab(i, slot) \notin Marked
    <3>1. i \in Nat
      BY <1>3, <2>2
    <3> SUFFICES ASSUME NEW j \in DOMAIN slabs, NEW r \in slabs[j].bits, InSlab(i, slot) = InSlab(j, r)
                 PROVE  FALSE
      BY <3>1, MarkedIs
    <3>2. j \in Nat /\ r \in Slots
      BY <1>3 DEF Slab
    <3>3. j = i /\ r = slot
      BY <2>3, <3>1, <3>2, SlotPlaces
    <3> QED
      BY <2>3, <3>3
  <2> DEFINE slab == [slabs[i] EXCEPT !.bits = @ \cup {slot}, !.used = @ + 1]
  <2>5. slabs' = [slabs EXCEPT ![i] = slab] /\ slab.cls = slabs[i].cls
    BY <1>3, <1>4, <2>2 DEF Slab
  <2> HIDE DEF slab
  <2>6. /\ SlabsKept(slabs, slabs') /\ i \in DOMAIN slabs' /\ slabs'[i].cls = cls
    BY <1>3, <2>2, <2>5 DEF SlabsKept
  <2>7. Allocated(t, InSlab(i, slot), arena) /\ slabs'[i].cls = SlabClass(thread[t].size)
    BY <1>4, <2>6 DEF cls
  <2> QED
    BY <1>1, <1>2, <2>3, <2>4, <2>6, <2>7, SlotSettles
<1>5. CASE /\ slabs' = Append(slabs, [cls |-> cls, bits |-> {0}, used |-> 1])
           /\ Allocated(t, InSlab(Len(slabs) + 1, 0), arena)
  <2> DEFINE n == Len(slabs) + 1
             slab == [cls |-> cls, bits |-> {0}, used |-> 1]
  <2>1. n \in Nat /\ 0 \in Slots
    BY <1>3, MallocAssumption DEF Slots
  <2>2. InSlab(n, 0) \notin Marked
    <3> SUFFICES ASSUME NEW j \in DOMAIN slabs, NEW r \in slabs[j].bits, InSlab(n, 0) = InSlab(j, r)
                 PROVE  FALSE
      BY MarkedIs
    <3>1. j \in Nat /\ r \in Slots
      BY <1>3 DEF Slab
    <3>2. j = n
      BY <2>1, <3>1, SlotPlaces
    <3> QED
      BY <1>3, <3>2
  <2>3. slab.cls = cls /\ slabs' = Append(slabs, slab)
    BY <1>5
  <2>4. slab \in Slab
    <3>1. cls \in DOMAIN SlotSizes
      BY <1>2 DEF HInv, SInv, Calling, CallOK
    <3> QED
      BY <2>1, <3>1 DEF Slab
  <2> HIDE DEF slab
  <2>5. SlabsKept(slabs, slabs') /\ n \in DOMAIN slabs' /\ slabs'[n].cls = cls
    <3>1. /\ DOMAIN slabs' = 1 .. n /\ slabs'[n] = slab
          /\ \A j \in DOMAIN slabs : slabs'[j] = slabs[j]
      BY <1>3, <2>3, <2>4
    <3> QED
      BY <1>3, <2>1, <2>3, <3>1 DEF SlabsKept
  <2>6. Allocated(t, InSlab(n, 0), arena) /\ slabs'[n].cls = SlabClass(thread[t].size)
    BY <1>5, <2>5
  <2> HIDE DEF n, cls
  <2> QED
    BY <1>1, <1>2, <2>1, <2>2, <2>5, <2>6, SlotSettles
<1>6. CASE Proceed(t, "arena_alloc", thread[t].keep) /\ slabs' = slabs
  <2>1. Knows(thread[t]) /\ CallClaims(arena, slabs, maps, thread[t])
    BY <1>2, HandIs
  <2>2. /\ thread[t].keep \in Nat
        /\ thread[t].ptr # Nowhere => thread[t].had <= thread[t].keep
        /\ thread[t].ptr.area = "arena" => thread[t].keep < Size(arena, thread[t].ptr.at)
    BY <1>2, <2>1 DEF Knows, CallClaims, Taking
  <2>3. "arena_alloc" \in Taking /\ "arena_alloc" \notin Searching \cup Giving
    BY DEF Taking, Searching, Giving
  <2> QED
    BY <1>1, <1>2, <1>6, <2>2, <2>3, ProceedSettles
<1> QED
  BY <1>1, <1>4, <1>5, <1>6

\* The arena part of mira_malloc.
LEMMA ArenaAllocSettles ==
  ASSUME HInv, NEW t \in Threads, NEW growth, ArenaAlloc(t, growth)
  PROVE  Blocked' /\ Known' /\ ArenaBounds(arena')
<1> DEFINE size == thread[t].size
           r == ArenaMalloc(arena, size, growth)
           p == IF r.block = NULL THEN Nowhere ELSE InArena(r.block)
<1>1. /\ At(t, "arena_alloc") /\ slabs' = slabs /\ maps' = maps
      /\ Allocated(t, p, r.arena)
  BY DEF ArenaAlloc, AllocatedIn
<1>2. Stage(thread[t]) \in Taking /\ ~wiped
  BY <1>1, AtIs DEF Taking
<1>3. size \in Nat /\ Memory(arena, maps, Held) /\ Distinct(maps) /\ Held \subseteq Places
  BY <1>2, HandIs, HeldApart DEF Knows, Memory, Distinct
<1>4. PICK B : Good(arena, B) /\ \A h : h \in Callers(arena, B) <=> InArena(h) \in Held
  BY <1>3 DEF Memory
<1> HIDE DEF size
<1>5. PICK B2 :
         \/ r.block = NULL /\ Changes(arena, r.arena, B, B2, {}, {})
         \/ /\ r.block \in Nat /\ r.block # NULL /\ r.block \notin Callers(arena, B)
            /\ size + 1 <= Size(r.arena, r.block)
            /\ Changes(arena, r.arena, B, B2, {}, {r.block})
  <2>1. \E b :
         \/ r.block = NULL /\ Changes(arena, r.arena, B, b, {}, {})
         \/ /\ r.block \in Nat /\ r.block # NULL /\ r.block \notin Callers(arena, B)
            /\ size + 1 <= Size(r.arena, r.block)
            /\ Changes(arena, r.arena, B, b, {}, {r.block})
    BY <1>3, <1>4, BlockAllocated
  <2> QED
    BY <2>1
<1> HIDE DEF r
<1>6. CASE r.block = NULL /\ Changes(arena, r.arena, B, B2, {}, {})
  <2>1. p = Nowhere /\ Held \cup ({p} \ {Nowhere}) = Held
    BY <1>6
  <2>2. /\ Memory(r.arena, maps, Held)
        /\ \A sl : \A q \in Places : q \in Held /\ (q.area = "arena" => q.at \notin {})
             => Keeps(arena, sl, maps, r.arena, sl, maps, q)
    <3>1. \A h : InArena(h) \in Held <=> (InArena(h) \in Held /\ h \notin {}) \/ h \in {}
      OBVIOUS
    <3> QED
      BY <1>3, <1>4, <1>6, <3>1, ChangesHands
  <2> HIDE DEF p
  <2>3. \A q \in Held : Keeps(arena, slabs, maps, r.arena, slabs', maps', q)
    BY <1>1, <1>3, <2>2
  <2>4. Memory(r.arena, maps', Held \cup ({p} \ {Nowhere}))
    BY <1>1, <2>1, <2>2
  <2> QED
    BY <1>1, <1>2, <2>1, <2>3, <2>4, AllocatedSettles
<1>7. CASE /\ r.block \in Nat /\ r.block # NULL /\ r.block \notin Callers(arena, B)
           /\ size + 1 <= Size(r.arena, r.block)
           /\ Changes(arena, r.arena, B, B2, {}, {r.block})
  <2> DEFINE g == r.block
             H == Held \cup {p}
  <2>1. p = InArena(g) /\ p \in Places /\ p # Nowhere /\ p.area = "arena" /\ p.at = g
        /\ Held \cup ({p} \ {Nowhere}) = H
    BY <1>7, PlacesApart
  <2>2. p \notin Held
    BY <1>4, <1>7, <2>1
  <2>3. \A h : InArena(h) \in H <=> (InArena(h) \in Held /\ h \notin {}) \/ h \in {g}
    <3>1. \A h : InArena(h) = p <=> h = g
      BY <2>1, PlacesApart
    <3> QED
      BY <3>1
  <2> HIDE DEF p, H
  <2>4. /\ Memory(r.arena, maps, H)
        /\ \A sl : \A q \in Places : q \in Held /\ (q.area = "arena" => q.at \notin {})
             => Keeps(arena, sl, maps, r.arena, sl, maps, q)
    <3> DEFINE none == {}
               new  == {g}
               z    == r.arena
    <3>1. Changes(arena, z, B, B2, none, new)
      BY <1>7
    <3>2. \A h : InArena(h) \in H <=> (InArena(h) \in Held /\ h \notin none) \/ h \in new
      BY <2>3
    <3> HIDE DEF none, new, z, Distinct
    <3>3. /\ Memory(z, maps, H)
          /\ \A sl : \A q \in Places : q \in Held /\ (q.area = "arena" => q.at \notin none)
               => Keeps(arena, sl, maps, z, sl, maps, q)
      BY <1>3, <1>4, <3>1, <3>2, ChangesHands
    <3> QED
      BY <3>3 DEF none, z
  <2>5. \A q \in Held : Keeps(arena, slabs, maps, r.arena, slabs', maps', q)
    BY <1>1, <1>3, <2>4
  <2>6. Fits(r.arena, slabs', maps', p, size)
    <3>1. Good(r.arena, B2) /\ g \in Callers(r.arena, B2)
      BY <1>7 DEF Changes
    <3>2. Size(r.arena, g) \in Nat
      BY <3>1, CallersWords
    <3>3. size < Size(r.arena, g)
      BY <1>3, <1>7, <3>2
    <3> QED
      BY <2>1, <3>2, <3>3 DEF Fits
  <2>7. Memory(r.arena, maps', Held \cup ({p} \ {Nowhere}))
    BY <1>1, <2>1, <2>4
  <2>8. Fits(r.arena, slabs', maps', p, thread[t].size) /\ Allocated(t, p, r.arena)
    BY <1>1, <2>6 DEF size
  <2> QED
    BY <1>2, <2>1, <2>2, <2>5, <2>7, <2>8, AllocatedSettles
<1> QED
  BY <1>5, <1>6, <1>7

\* mira_free is over: the block is nobody's, and the call returns the new one if there is one.
LEMMA FreedSettles ==
  ASSUME HInv, ~wiped, NEW t \in Threads, NEW a, Freed(t, a), thread[t].ptr # Nowhere,
         Memory(a, maps', Held \ {thread[t].ptr}),
         \A q \in Held \ {thread[t].ptr} : Keeps(arena, slabs, maps, a, slabs', maps', q)
  PROVE  Blocked' /\ Known' /\ ArenaBounds(arena')
<1> DEFINE p == thread[t].ptr
           z == thread[t].new
<1>1. /\ \A q : q \in Held <=> q \in Others(t) \/ q \in DOMAIN live \/ (q # Nowhere /\ q \in {p, z})
      /\ p \notin DOMAIN live /\ p \notin Others(t) /\ p # z
      /\ z # Nowhere => z \in Places /\ z \notin DOMAIN live /\ z \notin Others(t) /\ z \in Held
      /\ \A q \in Others(t) \cup DOMAIN live : q \in Held /\ q # Nowhere
      /\ CallClaims(arena, slabs, maps, thread[t])
  BY HandIs
<1>2. Return(t, z, a)
  BY DEF Freed
<1>3. z # Nowhere => Claim(a, slabs', maps', z, thread[t].asked, thread[t].had)
  BY <1>1, ClaimKept DEF CallClaims
<1> HIDE DEF p, z
<1>4. Held \ {p} = Others(t) \cup (DOMAIN live \cup ({z} \ {Nowhere}))
  BY <1>1 DEF p
<1>5. Memory(a, maps', Others(t) \cup (DOMAIN live \cup ({z} \ {Nowhere})))
  BY <1>4 DEF p
<1>6. \A q \in Others(t) \cup DOMAIN live : Keeps(arena, slabs, maps, a, slabs', maps', q)
  BY <1>1 DEF p
<1>7. \/ z = Nowhere
      \/ /\ z \in Places /\ z \notin DOMAIN live /\ z \notin Others(t)
         /\ Claim(a, slabs', maps', z, thread[t].asked, thread[t].had)
  BY <1>1, <1>3
<1> QED
  BY <1>2, <1>5, <1>6, <1>7, ReturnSettles

\* A block that is not found in the list of mappings has none.
LEMMA NotMapped ==
  ASSUME HInv, ~wiped, NEW t \in Threads, FindMap(thread[t].ptr) = {}
  PROVE  thread[t].ptr.area # "mmap"
<1> DEFINE p == thread[t].ptr
<1> SUFFICES ASSUME p.area = "mmap" PROVE FALSE
  OBVIOUS
<1>1. p # Nowhere
  BY PlacesApart
<1>2. p \in Held
  BY <1>1, HandIs
<1>3. PICK n, k : Claim(arena, slabs, maps, p, n, k)
  BY <1>2, HeldClaim
<1>4. \E i \in DOMAIN maps : p = InMap(maps[i].at)
  BY <1>3 DEF Claim, Fits
<1> QED
  BY <1>4 DEF FindMap

\* mmap_free: the mapping goes, or the slabs are asked next.
LEMMA MmapFreeSettles ==
  ASSUME HInv, NEW t \in Threads, MmapFree(t)
  PROVE  Blocked' /\ Known' /\ ArenaBounds(arena') /\ maps' \in Seq(Mapping)
<1> DEFINE p == thread[t].ptr
           i == CHOOSE x \in FindMap(p) : TRUE
<1>1. /\ At(t, "mmap_free") /\ slabs' = slabs
      /\ \/ FindMap(p) = {} /\ Proceed(t, "slab_free", thread[t].keep) /\ maps' = maps
         \/ FindMap(p) # {} /\ Freed(t, arena) /\ maps' = RemoveAt(maps, i)
  BY DEF MmapFree
<1>2. Stage(thread[t]) = "mmap_free" /\ ~wiped
  BY <1>1, AtIs DEF Giving
<1>3. /\ maps \in Seq(Mapping) /\ Len(maps) \in Nat /\ DOMAIN maps = 1 .. Len(maps)
  BY MapsAre
<1>4. /\ Knows(thread[t]) /\ Memory(arena, maps, Held) /\ Held \subseteq Places
  BY <1>2, HandIs, HeldApart
<1>5. p # Nowhere /\ thread[t].keep \in Nat
  BY <1>2, <1>4 DEF Knows, Giving
<1>6. CASE FindMap(p) = {} /\ Proceed(t, "slab_free", thread[t].keep) /\ maps' = maps
  <2>1. p.area # "mmap"
    BY <1>2, <1>6, NotMapped
  <2>2. "slab_free" \in Giving /\ "slab_free" \notin Taking
    BY DEF Giving, Taking
  <2>3. Blocked' /\ Known' /\ ArenaBounds(arena')
    BY <1>1, <1>2, <1>5, <1>6, <2>1, <2>2, ProceedSettles
  <2> QED
    BY <1>3, <1>6, <2>3
<1>7. CASE FindMap(p) # {} /\ Freed(t, arena) /\ maps' = RemoveAt(maps, i)
  <2>1. i \in DOMAIN maps /\ p = InMap(maps[i].at)
    <3>1. i \in FindMap(p)
      BY <1>7
    <3> QED
      BY <3>1 DEF FindMap
  <2> HIDE DEF i, p
  <2>2. /\ maps' \in Seq(Mapping) /\ Len(maps') = Len(maps) - 1
        /\ \A j \in 1 .. Len(maps) - 1 : maps'[j] = IF j < i THEN maps[j] ELSE maps[j + 1]
    BY <1>3, <1>7, <2>1, Removed
  <2>3. DOMAIN maps' = 1 .. Len(maps) - 1 /\ i \in 1 .. Len(maps) /\ i \in Int
    BY <1>3, <2>1, <2>2
  <2>4. \A x, y \in DOMAIN maps : maps[x].at = maps[y].at => x = y
    BY <1>4 DEF Memory
  <2>5. Distinct(maps')
    <3> SUFFICES ASSUME NEW x \in DOMAIN maps', NEW y \in DOMAIN maps', maps'[x].at = maps'[y].at
                 PROVE  x = y
      BY DEF Distinct
    <3> DEFINE old(j) == IF j < i THEN j ELSE j + 1
    <3>1. old(x) \in DOMAIN maps /\ old(y) \in DOMAIN maps /\ (old(x) = old(y) => x = y)
      BY <1>3, <2>3
    <3>2. maps'[x] = maps[old(x)] /\ maps'[y] = maps[old(y)]
      BY <2>2, <2>3
    <3> HIDE DEF old
    <3> QED
      BY <2>4, <3>1, <3>2
  <2>6. ASSUME NEW q \in Held \ {p} PROVE Keeps(arena, slabs, maps, arena, slabs', maps', q)
    <3>1. ASSUME NEW x \in DOMAIN maps, q = InMap(maps[x].at)
          PROVE  \E j \in DOMAIN maps' : maps'[j] = maps[x]
      <4>1. x # i
        BY <2>1, <2>6, <3>1
      <4>2. CASE x < i
        <5>1. x \in 1 .. Len(maps) - 1
          BY <1>3, <2>3, <4>2
        <5> QED
          BY <2>2, <2>3, <4>2, <5>1
      <4>3. CASE ~(x < i)
        <5>1. x - 1 \in 1 .. Len(maps) - 1 /\ ~(x - 1 < i) /\ x - 1 + 1 = x
          BY <1>3, <2>3, <4>1, <4>3
        <5> QED
          BY <2>2, <2>3, <5>1
      <4> QED
        BY <4>2, <4>3
    <3> QED
      BY <1>1, <3>1 DEF Keeps
  <2>7. Memory(arena, maps', Held \ {p})
    <3>1. \A h : InArena(h) # p
      BY <2>1, PlacesApart
    <3> DEFINE H == Held \ {p}
    <3>2. \A h : InArena(h) \in H <=> InArena(h) \in Held
      BY <3>1
    <3> HIDE DEF H
    <3>3. Memory(arena, maps', H)
      BY <1>4, <2>5, <3>2, HandsElsewhere
    <3> QED
      BY <3>3 DEF H
  <2>8. Blocked' /\ Known' /\ ArenaBounds(arena')
    BY <1>2, <1>5, <1>7, <2>6, <2>7, FreedSettles DEF p
  <2> QED
    BY <2>2, <2>8
<1> QED
  BY <1>1, <1>6, <1>7

\* slab_free: the slot goes, or the block is in the arena.
LEMMA SlabFreeSettles ==
  ASSUME HInv, NEW t \in Threads, SlabFree(t)
  PROVE  Blocked' /\ Known' /\ ArenaBounds(arena')
<1> DEFINE p == thread[t].ptr
<1>1. /\ At(t, "slab_free") /\ maps' = maps
      /\ \/ p.area # "slab" /\ Proceed(t, "arena_free", thread[t].keep) /\ slabs' = slabs
         \/ /\ p.area = "slab" /\ Freed(t, arena)
            /\ slabs' = IF SlotOf(p) \notin slabs[SlabOf(p)].bits THEN slabs
                        ELSE [slabs EXCEPT ![SlabOf(p)].bits = @ \ {SlotOf(p)},
                                           ![SlabOf(p)].used = @ - 1]
  BY DEF SlabFree
<1>2. Stage(thread[t]) = "slab_free" /\ ~wiped
  BY <1>1, AtIs DEF Giving
<1>3. /\ Knows(thread[t]) /\ Memory(arena, maps, Held) /\ Distinct(maps)
  BY <1>2, HandIs DEF Memory, Distinct
<1>4. p # Nowhere /\ thread[t].keep \in Nat /\ p.area # "mmap" /\ p \in Places
  BY <1>2, <1>3 DEF Knows, Giving
<1>5. CASE p.area # "slab" /\ Proceed(t, "arena_free", thread[t].keep) /\ slabs' = slabs
  <2>1. p.area = "arena"
    BY <1>4, <1>5, PlacesApart
  <2>2. "arena_free" \in Giving /\ "arena_free" \notin Taking
    BY DEF Giving, Taking
  <2> QED
    BY <1>1, <1>2, <1>4, <1>5, <2>1, <2>2, ProceedSettles
<1>6. CASE /\ p.area = "slab" /\ Freed(t, arena)
           /\ slabs' = IF SlotOf(p) \notin slabs[SlabOf(p)].bits THEN slabs
                       ELSE [slabs EXCEPT ![SlabOf(p)].bits = @ \ {SlotOf(p)},
                                          ![SlabOf(p)].used = @ - 1]
  <2>1. SlabsKept(slabs, slabs')
    <3>1. CASE slabs' = slabs
      BY <3>1 DEF SlabsKept
    <3>2. CASE slabs' = [slabs EXCEPT ![SlabOf(p)].bits = @ \ {SlotOf(p)},
                                      ![SlabOf(p)].used = @ - 1]
      <4> DEFINE j == SlabOf(p)
                 slab == [slabs[j] EXCEPT !.bits = @ \ {SlotOf(p)}, !.used = @ - 1]
      <4>1. slabs' = [slabs EXCEPT ![j] = slab] /\ \A i \in DOMAIN slabs : slabs[i] \in Slab
        BY <3>2, SlabsAre DEF HInv, SInv
      <4>2. j \in DOMAIN slabs => slab.cls = slabs[j].cls
        BY <4>1 DEF Slab
      <4> HIDE DEF slab, j
      <4> QED
        BY <4>1, <4>2 DEF SlabsKept
    <3> QED
      BY <1>6, <3>1, <3>2
  <2>2. \A q \in Held \ {p} : Keeps(arena, slabs, maps, arena, slabs', maps', q)
    BY <1>1, <2>1, KeepsSlabs
  <2>3. Memory(arena, maps', Held \ {p})
    <3> DEFINE H == Held \ {p}
    <3>1. \A h : InArena(h) # p
      BY <1>6, PlacesApart
    <3>2. \A h : InArena(h) \in H <=> InArena(h) \in Held
      BY <3>1
    <3> HIDE DEF H
    <3>3. Memory(arena, maps', H)
      BY <1>1, <1>3, <3>2, HandsElsewhere
    <3> QED
      BY <3>3 DEF H
  <2> QED
    BY <1>2, <1>4, <1>6, <2>2, <2>3, FreedSettles
<1> QED
  BY <1>1, <1>5, <1>6

\* Filling a block keeps the arena in its bounds, whatever else was lost.
LEMMA FilledBounds ==
  ASSUME NEW a \in Arenas, ArenaBounds(a), NEW p, NEW had, NEW size
  PROVE  ArenaBounds(Filled(a, p, had, size))
<1> DEFINE m == [x \in Addresses |->
                   IF x \in p.at + 1 + had .. p.at + size THEN UserWord ELSE a.mem[x]]
<1>1. m \in [Addresses -> Nat]
  BY DEF Arenas, UserWord
<1>2. CASE p.area # "arena"
  BY <1>2 DEF Filled
<1>3. CASE p.area = "arena"
  <2>1. Filled(a, p, had, size) = [a EXCEPT !.mem = m]
    BY <1>3 DEF Filled
  <2> HIDE DEF m
  <2>2. LET z == [a EXCEPT !.mem = m] IN
        z \in Arenas /\ z.used = a.used /\ z.cap = a.cap
    BY <1>1 DEF Arenas
  <2> QED
    BY <2>1, <2>2 DEF ArenaBounds
<1> QED
  BY <1>2, <1>3

\* The arena part of mira_free.
LEMMA ReleaseSettles ==
  ASSUME HInv, NEW t \in Threads, ReleaseBlock(t)
  PROVE  Known' /\ ArenaBounds(arena') /\ wiped' \in BOOLEAN /\ (~wiped' => Blocked')
<1> DEFINE p == thread[t].ptr
           h == p.at
           c == Coalesce(arena, h)
           z == ArenaFree(arena, h)
<1>1. /\ At(t, "arena_free") /\ slabs' = slabs /\ maps' = maps /\ Freed(t, z)
      /\ wiped' = (~Free(arena, h) /\ HeaderLost(c, z))
  BY DEF ReleaseBlock
<1>2. Stage(thread[t]) = "arena_free" /\ ~wiped
  BY <1>1, AtIs DEF Giving
<1>3. /\ Knows(thread[t]) /\ Memory(arena, maps, Held) /\ Distinct(maps) /\ Held \subseteq Places
  BY <1>2, HandIs, HeldApart DEF Memory, Distinct
<1>4. p # Nowhere /\ p.area = "arena" /\ p \in Places /\ p = InArena(h) /\ p \in Held
  BY <1>2, <1>3, HandIs, PlacesApart DEF Knows, Giving
<1>5. PICK B : Good(arena, B) /\ \A b : b \in Callers(arena, B) <=> InArena(b) \in Held
  BY <1>3 DEF Memory
<1>6. h \in Callers(arena, B)
  BY <1>4, <1>5
<1> HIDE DEF h
<1>7. /\ z \in Arenas /\ SameBounds(arena, z) /\ ~Free(arena, h)
      /\ (\A b \in Blocks(c) : Free(c, b) => z.mem[b] = c.mem[b] /\ z.mem[b + 1] = c.mem[b + 1])
           => \E B2 : Changes(arena, z, B, B2, {h}, {})
  BY <1>5, <1>6, BlockReleased
<1> HIDE DEF c, z
<1>8. wiped' \in BOOLEAN
  BY <1>1 DEF HeaderLost
<1>9. ArenaBounds(arena')
  <2>1. ArenaBounds(arena)
    BY DEF HInv, Shape
  <2>2. ArenaBounds(z)
    BY <1>7, <2>1 DEF ArenaBounds, SameBounds
  <2>3. arena' = z \/ \E q, k, n : arena' = Filled(z, q, k, n)
    BY <1>1 DEF Freed, Return
  <2> QED
    BY <1>7, <2>2, <2>3, FilledBounds
<1>10. Known'
  <2>1. thread' = [thread EXCEPT ![t] = Idle]
    BY <1>1 DEF Freed, Return
  <2>2. DOMAIN live' \subseteq Places
    <3>1. DOMAIN live \subseteq Places /\ thread[t].new \in Places \cup {Nowhere}
      BY <1>3 DEF HInv, Shape, Known, Knows
    <3>2. live' = live \/ (thread[t].new # Nowhere /\ DOMAIN live' = DOMAIN live \cup {thread[t].new})
      BY <1>1, Given DEF Freed, Return
    <3> QED
      BY <3>1, <3>2
  <2>3. \A u \in Threads : thread'[u] = IF u = t THEN Idle ELSE thread[u]
    BY <2>1 DEF HInv, SInv, Calling
  <2> QED
    BY <2>2, <2>3, IdleKnows DEF HInv, Shape, Known
<1>11. ASSUME ~wiped' PROVE Blocked'
  <2>1. ~HeaderLost(c, z)
    BY <1>1, <1>7, <1>11
  <2>2. \A b \in Blocks(c) : Free(c, b) => z.mem[b] = c.mem[b] /\ z.mem[b + 1] = c.mem[b + 1]
    BY <2>1 DEF HeaderLost
  <2> DEFINE gone == {h}
             none == {}
             H == Held \ {p}
  <2>3. PICK B2 : Changes(arena, z, B, B2, gone, none)
    BY <1>7, <2>2
  <2>4. \A b : InArena(b) \in H <=> (InArena(b) \in Held /\ b \notin gone) \/ b \in none
    <3>1. \A b : InArena(b) = p <=> b = h
      BY <1>4, PlacesApart
    <3> QED
      BY <3>1
  <2> HIDE DEF gone, none, H, Distinct
  <2>5. /\ Memory(z, maps, H)
        /\ \A sl : \A q \in Places : q \in Held /\ (q.area = "arena" => q.at \notin gone)
             => Keeps(arena, sl, maps, z, sl, maps, q)
    BY <1>3, <1>5, <2>3, <2>4, ChangesHands
  <2>6. \A q \in Held \ {p} : Keeps(arena, slabs, maps, z, slabs', maps', q)
    <3> SUFFICES ASSUME NEW q \in Held \ {p} PROVE Keeps(arena, slabs, maps, z, slabs', maps', q)
      OBVIOUS
    <3>1. q.area = "arena" => q.at \notin gone
      BY <1>3, <1>4, PlacesApart DEF gone
    <3> QED
      BY <1>1, <1>3, <2>5, <3>1
  <2>7. Memory(z, maps', Held \ {p})
    BY <1>1, <2>5 DEF H
  <2> QED
    BY <1>1, <1>2, <1>4, <2>6, <2>7, FreedSettles
<1> QED
  BY <1>8, <1>9, <1>10, <1>11

\* mira_realloc returns the block it was given, which is large enough as it is.
LEMMA SameSettles ==
  ASSUME HInv, ~wiped, NEW t \in Threads, NEW a, Return(t, thread[t].ptr, a),
         Stage(thread[t]) \in Searching, UNCHANGED <<slabs, maps>>,
         Memory(a, maps, Held), Fits(a, slabs, maps, thread[t].ptr, thread[t].size),
         Data(a, thread[t].ptr, thread[t].had),
         \A q \in Held \ {thread[t].ptr} : Keeps(arena, slabs, maps, a, slabs, maps, q)
  PROVE  Blocked' /\ Known' /\ ArenaBounds(arena')
<1> DEFINE p == thread[t].ptr
<1>1. /\ \A q : q \in Held <=> \/ q \in Others(t) \/ q \in DOMAIN live
                               \/ q # Nowhere /\ q \in {p, thread[t].new}
      /\ p # Nowhere => /\ p \in Places /\ p \notin DOMAIN live
                        /\ p \notin Others(t) /\ p \in Held
      /\ \A q \in Others(t) \cup DOMAIN live : q \in Held /\ q # Nowhere
      /\ Knows(thread[t]) /\ CallOK(thread[t])
  BY HandIs
<1>2. /\ p # Nowhere /\ thread[t].new = Nowhere
      /\ thread[t].size \in Nat /\ thread[t].asked = thread[t].size
      /\ thread[t].had \in Nat /\ thread[t].had <= thread[t].size
  BY <1>1 DEF Knows, CallOK, Searching, Giving
<1>3. Claim(a, slabs', maps', p, thread[t].asked, thread[t].had)
  BY <1>2 DEF Claim
<1> HIDE DEF p
<1>4. Held = Others(t) \cup (DOMAIN live \cup ({p} \ {Nowhere}))
  BY <1>1, <1>2
<1>5. Memory(a, maps', Others(t) \cup (DOMAIN live \cup ({p} \ {Nowhere})))
  BY <1>4
<1>6. \A q \in Others(t) \cup DOMAIN live : Keeps(arena, slabs, maps, a, slabs', maps', q)
  BY <1>1, <1>2 DEF p
<1>7. Return(t, p, a) /\ p \in Places /\ p \notin DOMAIN live /\ p \notin Others(t)
  BY <1>1, <1>2 DEF p
<1> QED
  BY <1>3, <1>5, <1>6, <1>7, ReturnSettles

\* mira_realloc looks for the block among the mappings.
LEMMA MmapFindSettles ==
  ASSUME HInv, NEW t \in Threads, MmapFind(t)
  PROVE  Blocked' /\ Known' /\ ArenaBounds(arena')
<1> DEFINE th == thread[t]
           i == CHOOSE x \in FindMap(th.ptr) : TRUE
           size == maps[i].size
<1>1. /\ At(t, "mmap_find") /\ UNCHANGED <<slabs, maps>>
      /\ \/ FindMap(th.ptr) = {} /\ Proceed(t, "slab_find", 0)
         \/ FindMap(th.ptr) # {} /\ th.size <= size /\ Return(t, th.ptr, arena)
         \/ FindMap(th.ptr) # {} /\ Proceed(t, Serves(th.size), size)
  BY DEF MmapFind
<1>2. Stage(th) = "mmap_find" /\ ~wiped /\ Stage(th) \in Searching
  BY <1>1, AtIs DEF Searching
<1>3. /\ Knows(th) /\ CallClaims(arena, slabs, maps, th) /\ Memory(arena, maps, Held)
  BY <1>2, HandIs
<1>4. th.ptr # Nowhere
  BY <1>2, <1>3 DEF Knows
<1>5. CASE FindMap(th.ptr) = {} /\ Proceed(t, "slab_find", 0)
  <2>1. th.ptr.area # "mmap"
    BY <1>2, <1>5, NotMapped
  <2>2. "slab_find" \in Searching /\ "slab_find" \notin Taking
    BY DEF Searching, Taking
  <2> QED
    BY <1>1, <1>2, <1>4, <1>5, <2>1, <2>2, ProceedSettles
<1>6. FindMap(th.ptr) # {} =>
        /\ i \in DOMAIN maps /\ th.ptr = InMap(maps[i].at) /\ th.ptr.area = "mmap"
        /\ size \in Nat /\ th.had <= size
  <2> SUFFICES ASSUME FindMap(th.ptr) # {}
               PROVE  /\ i \in DOMAIN maps /\ th.ptr = InMap(maps[i].at) /\ th.ptr.area = "mmap"
                      /\ size \in Nat /\ th.had <= size
    OBVIOUS
  <2>1. i \in DOMAIN maps /\ th.ptr = InMap(maps[i].at)
    <3>1. i \in FindMap(th.ptr)
      OBVIOUS
    <3> QED
      BY <3>1 DEF FindMap
  <2> HIDE DEF i, th
  <2>2. th.ptr.area = "mmap" /\ th.ptr.at = maps[i].at
    BY <2>1, PlacesApart
  <2>3. Claim(arena, slabs, maps, th.ptr, th.had, th.had)
    BY <1>3, <1>4 DEF CallClaims
  <2>4. PICK j \in DOMAIN maps : th.ptr = InMap(maps[j].at) /\ th.had <= maps[j].size
    BY <2>2, <2>3 DEF Claim, Fits
  <2>5. maps[j].at = maps[i].at
    BY <2>2, <2>4, PlacesApart
  <2>6. j = i
    BY <1>3, <2>1, <2>4, <2>5 DEF Memory
  <2> QED
    BY <2>1, <2>2, <2>4, <2>6, MapsAre
<1> HIDE DEF i
<1>7. CASE FindMap(th.ptr) # {} /\ th.size <= size /\ Return(t, th.ptr, arena)
  <2>1. Fits(arena, slabs, maps, th.ptr, th.size) /\ Data(arena, th.ptr, th.had)
    BY <1>6, <1>7 DEF Fits, Data
  <2>2. \A q \in Held \ {th.ptr} : Keeps(arena, slabs, maps, arena, slabs, maps, q)
    BY KeepsSame
  <2> QED
    BY <1>1, <1>2, <1>3, <1>7, <2>1, <2>2, SameSettles
<1>8. CASE FindMap(th.ptr) # {} /\ Proceed(t, Serves(th.size), size)
  <2> DEFINE section == Serves(th.size)
  <2>1. section \in Taking
    BY ServesTaking
  <2> HIDE DEF section
  <2>2. section \notin Searching \cup Giving /\ section \notin {"slab_find", "slab_free"}
        /\ section \notin {"arena_resize", "arena_free"}
    BY <2>1 DEF Taking, Searching, Giving
  <2>3. /\ Proceed(t, section, size) /\ size \in Nat /\ th.had <= size
        /\ th.ptr.area # "arena"
    BY <1>6, <1>8 DEF section
  <2> HIDE DEF size
  <2> QED
    BY <1>1, <1>2, <2>1, <2>2, <2>3, ProceedSettles
<1> QED
  BY <1>1, <1>5, <1>7, <1>8

\* ... then among the slabs.
LEMMA SlabFindSettles ==
  ASSUME HInv, NEW t \in Threads, SlabFind(t)
  PROVE  Blocked' /\ Known' /\ ArenaBounds(arena')
<1> DEFINE th == thread[t]
           size == SlotSizes[slabs[SlabOf(th.ptr)].cls]
<1>1. /\ At(t, "slab_find") /\ UNCHANGED <<slabs, maps>>
      /\ \/ th.ptr.area # "slab" /\ Proceed(t, "arena_resize", 0)
         \/ th.ptr.area = "slab" /\ th.size <= size /\ Return(t, th.ptr, arena)
         \/ th.ptr.area = "slab" /\ Proceed(t, Serves(th.size), size)
  BY DEF SlabFind
<1>2. Stage(th) = "slab_find" /\ ~wiped /\ Stage(th) \in Searching
  BY <1>1, AtIs DEF Searching
<1>3. /\ Knows(th) /\ CallClaims(arena, slabs, maps, th) /\ Memory(arena, maps, Held)
  BY <1>2, HandIs
<1>4. th.ptr # Nowhere /\ th.ptr \in Places /\ th.ptr.area # "mmap"
  BY <1>2, <1>3 DEF Knows
<1>5. CASE th.ptr.area # "slab" /\ Proceed(t, "arena_resize", 0)
  <2>1. th.ptr.area = "arena"
    BY <1>4, <1>5, PlacesApart
  <2>2. "arena_resize" \in Searching /\ "arena_resize" \notin Taking
    BY DEF Searching, Taking
  <2> QED
    BY <1>1, <1>2, <1>4, <1>5, <2>1, <2>2, ProceedSettles
<1>6. th.ptr.area = "slab" => SlabOf(th.ptr) \in DOMAIN slabs /\ size \in Nat /\ th.had <= size
  <2> SUFFICES ASSUME th.ptr.area = "slab"
               PROVE  SlabOf(th.ptr) \in DOMAIN slabs /\ size \in Nat /\ th.had <= size
    OBVIOUS
  <2>1. Claim(arena, slabs, maps, th.ptr, th.had, th.had)
    BY <1>3, <1>4 DEF CallClaims
  <2>2. SlabOf(th.ptr) \in DOMAIN slabs /\ th.had <= size
    BY <2>1 DEF Claim, Fits
  <2>3. size \in Nat
    BY <2>2, MallocAssumption, SlabsAre DEF HInv, SInv, Slab
  <2> QED
    BY <2>2, <2>3
<1>7. CASE th.ptr.area = "slab" /\ th.size <= size /\ Return(t, th.ptr, arena)
  <2>1. Fits(arena, slabs, maps, th.ptr, th.size) /\ Data(arena, th.ptr, th.had)
    BY <1>6, <1>7 DEF Fits, Data
  <2>2. \A q \in Held \ {th.ptr} : Keeps(arena, slabs, maps, arena, slabs, maps, q)
    BY KeepsSame
  <2> QED
    BY <1>1, <1>2, <1>3, <1>7, <2>1, <2>2, SameSettles
<1>8. CASE th.ptr.area = "slab" /\ Proceed(t, Serves(th.size), size)
  <2> DEFINE section == Serves(th.size)
  <2>1. section \in Taking
    BY ServesTaking
  <2> HIDE DEF section
  <2>2. section \notin Searching \cup Giving /\ section \notin {"slab_find", "slab_free"}
        /\ section \notin {"arena_resize", "arena_free"}
    BY <2>1 DEF Taking, Searching, Giving
  <2>3. /\ Proceed(t, section, size) /\ size \in Nat /\ th.had <= size
        /\ th.ptr.area # "arena"
    BY <1>6, <1>8 DEF section
  <2> HIDE DEF size
  <2> QED
    BY <1>1, <1>2, <2>1, <2>2, <2>3, ProceedSettles
<1> QED
  BY <1>1, <1>5, <1>7, <1>8

\* ... then it is in the arena, and resized there when there is room.
LEMMA ResizeSettles ==
  ASSUME HInv, NEW t \in Threads, ResizeBlock(t)
  PROVE  Blocked' /\ Known' /\ ArenaBounds(arena')
<1> DEFINE th == thread[t]
           p == th.ptr
           h == p.at
           r == ArenaResize(arena, h, Needed(th.size))
<1>1. /\ At(t, "arena_resize") /\ UNCHANGED <<slabs, maps>>
      /\ IF r.done THEN Return(t, p, r.arena)
         ELSE Proceed(t, Serves(th.size), Size(arena, h) - 1)
  BY DEF ResizeBlock, Resized
<1>2. Stage(th) = "arena_resize" /\ ~wiped /\ Stage(th) \in Searching
  BY <1>1, AtIs DEF Searching
<1>3. /\ Knows(th) /\ CallClaims(arena, slabs, maps, th) /\ Memory(arena, maps, Held)
      /\ Distinct(maps) /\ Held \subseteq Places
  BY <1>2, HandIs, HeldApart DEF Memory, Distinct
<1>4. /\ p # Nowhere /\ p.area = "arena" /\ p \in Places /\ p = InArena(h) /\ p \in Held
      /\ th.size \in Nat /\ th.had \in Nat /\ th.had <= th.size
  BY <1>2, <1>3, HandIs, PlacesApart DEF Knows
<1>5. PICK B : Good(arena, B) /\ \A b : b \in Callers(arena, B) <=> InArena(b) \in Held
  BY <1>3 DEF Memory
<1>6. h \in Callers(arena, B)
  BY <1>4, <1>5
<1>7. Claim(arena, slabs, maps, p, th.had, th.had)
  BY <1>3, <1>4 DEF CallClaims
<1>8. Size(arena, h) \in Nat /\ th.had < Size(arena, h) /\ \A i \in 1 .. th.had : arena.mem[h + i] = UserWord
  BY <1>4, <1>7 DEF Claim, Fits, Data
<1> HIDE DEF h
<1>9. /\ r.done \in BOOLEAN
      /\ r.done =>
           \E B2 : /\ Good(r.arena, B2) /\ Callers(r.arena, B2) = Callers(arena, B)
                   /\ Intact(arena, r.arena, Callers(arena, B) \ {h})
                   /\ th.size + 1 <= Size(r.arena, h)
                   /\ \A i \in 1 .. th.size : i < Size(arena, h) => r.arena.mem[h + i] = arena.mem[h + i]
  BY <1>4, <1>5, <1>6, BlockKept
<1> HIDE DEF r
<1>10. CASE r.done
  <2> DEFINE z == r.arena
  <2>1. PICK B2 : /\ Good(z, B2) /\ Callers(z, B2) = Callers(arena, B)
                  /\ Intact(arena, z, Callers(arena, B) \ {h})
                  /\ th.size + 1 <= Size(z, h)
                  /\ \A i \in 1 .. th.size : i < Size(arena, h) => z.mem[h + i] = arena.mem[h + i]
    BY <1>9, <1>10
  <2>2. Return(t, p, z)
    BY <1>1, <1>10
  <2> HIDE DEF z
  <2>3. Memory(z, maps, Held)
    BY <1>3, <1>5, <2>1 DEF Memory
  <2>4. Fits(z, slabs, maps, p, th.size)
    <3>1. Size(z, h) \in Nat
      BY <1>6, <2>1, CallersWords
    <3>2. th.size < Size(z, h)
      BY <1>4, <2>1, <3>1
    <3> QED
      BY <1>4, <3>1, <3>2 DEF Fits, h
  <2>5. Data(z, p, th.had)
    <3> SUFFICES ASSUME NEW i \in 1 .. th.had PROVE z.mem[h + i] = UserWord
      BY <1>4 DEF Data, h
    <3>1. i \in 1 .. th.size /\ i < Size(arena, h)
      BY <1>4, <1>8
    <3> QED
      BY <1>8, <2>1, <3>1
  <2>6. \A q \in Held \ {p} : Keeps(arena, slabs, maps, z, slabs, maps, q)
    <3> SUFFICES ASSUME NEW q \in Held \ {p} PROVE Keeps(arena, slabs, maps, z, slabs, maps, q)
      OBVIOUS
    <3> DEFINE X == Callers(arena, B) \ {h}
    <3>1. q.area = "arena" => q.at \in X
      BY <1>3, <1>4, <1>5, PlacesApart
    <3>2. Intact(arena, z, X)
      BY <2>1
    <3> HIDE DEF X
    <3> QED
      BY <3>1, <3>2, IntactKeeps
  <2>7. Return(t, thread[t].ptr, z) /\ Fits(z, slabs, maps, thread[t].ptr, thread[t].size)
        /\ Data(z, thread[t].ptr, thread[t].had)
    BY <2>2, <2>4, <2>5
  <2> QED
    BY <1>1, <1>2, <2>3, <2>6, <2>7, SameSettles
<1>11. CASE ~r.done
  <2> DEFINE section == Serves(th.size)
             keep == Size(arena, h) - 1
  <2>1. section \in Taking
    BY ServesTaking
  <2> HIDE DEF section
  <2>2. section \notin Searching \cup Giving /\ section \notin {"slab_find", "slab_free"}
        /\ section \notin {"arena_resize", "arena_free"}
    BY <2>1 DEF Taking, Searching, Giving
  <2>3. /\ Proceed(t, section, keep) /\ keep \in Nat /\ th.had <= keep /\ keep < Size(arena, p.at)
    BY <1>1, <1>4, <1>8, <1>11 DEF section, h
  <2> HIDE DEF keep
  <2> QED
    BY <1>1, <1>2, <2>1, <2>2, <2>3, ProceedSettles
<1> QED
  BY <1>9, <1>10, <1>11

--------------------------------------------------------------------------------
\* The invariant is kept.

\* Before the first call nothing is mapped and nobody has anything.
LEMMA InitHeap ==
  ASSUME Init
  PROVE  HInv
<1>1. /\ program \in Programs /\ thread = [t \in Threads |-> Idle] /\ arena = Unmapped
      /\ slabs = << >> /\ maps = << >> /\ lock = {} /\ initialized = program.warm
      /\ DOMAIN live = {} /\ calls = 0 /\ wiped = FALSE
  BY DEF Init
<1>2. SInv
  BY InitSlabs
<1>3. Shape
  <2>1. ArenaBounds(arena)
    BY <1>1, NothingMapped, GoodBounds
  <2>2. Known
    BY <1>1, IdleKnows DEF Known
  <2>3. Counters
    <3>1. program.warm \in BOOLEAN /\ program.maxCalls \in Nat
      BY <1>1, MallocAssumption
    <3>2. 0 \in 0 .. program.maxCalls
      BY <3>1
    <3>3. maps \in Seq(Mapping)
      BY <1>1
    <3>4. lock \subseteq Locks
      BY <1>1
    <3>5. initialized \in BOOLEAN /\ wiped \in BOOLEAN /\ calls \in 0 .. program.maxCalls
      BY <1>1, <3>1, <3>2
    <3> QED
      BY <3>3, <3>4, <3>5 DEF Counters
  <2> QED
    BY <2>1, <2>2, <2>3 DEF Shape
<1>4. Blocked
  <2>1. \A t \in Threads : thread[t].ptr = Nowhere /\ thread[t].new = Nowhere
    BY <1>1, IdleKnows
  <2>2. Held = {}
    BY <1>1, <2>1 DEF Held
  <2>3. Memory(arena, maps, Held)
    BY <1>1, <2>2, NothingMapped DEF Memory
  <2>4. LiveClaims(arena, slabs, maps, live) /\ \A t \in Threads : CallClaims(arena, slabs, maps, thread[t])
    BY <1>1, IdleKnows DEF LiveClaims
  <2> QED
    BY <2>1, <2>3, <2>4 DEF Blocked, OneHand
<1> QED
  BY <1>2, <1>3, <1>4 DEF HInv

\* What only counts and locks is in its bounds.
LEMMA CountersKeep ==
  ASSUME HInv, NEW t \in program.threads, t \in Threads,
         \/ Calls(t) \/ (\E i \in 1 .. 3 : InitLock(t, i)) \/ InitDone(t) \/ Section(t)
  PROVE  /\ lock' \subseteq Locks /\ initialized' \in BOOLEAN /\ wiped' \in BOOLEAN
         /\ calls' \in 0 .. program'.maxCalls
<1>1. /\ lock \subseteq Locks /\ initialized \in BOOLEAN /\ wiped \in BOOLEAN
      /\ calls \in 0 .. program.maxCalls /\ program.maxCalls \in Nat
  BY MallocAssumption DEF HInv, Shape, Counters, SInv, Calling
<1>2. CASE Calls(t)
  <2>1. PICK section, th : Call(t, section, th)
    BY <1>2 DEF Calls, CallMalloc, CallCalloc, CallFree, CallRealloc
  <2>2. /\ calls < program.maxCalls /\ calls' = calls + 1
        /\ UNCHANGED <<program, lock, initialized, wiped>>
    BY <2>1 DEF Call
  <2>3. calls' \in 0 .. program.maxCalls
    BY <1>1, <2>2
  <2> QED
    BY <1>1, <2>2, <2>3
<1>3. CASE (\E i \in 1 .. 3 : InitLock(t, i)) \/ InitDone(t)
  BY <1>1, <1>3 DEF InitLock, InitDone
<1>4. CASE Enter(t)
  <2>1. \A s \in DOMAIN LockOf : LockOf[s] \in Locks
    BY DEF LockOf, Locks
  <2> QED
    BY <1>1, <1>4, <2>1 DEF Enter
<1>5. CASE Section(t) /\ ~Enter(t)
  <2>1. UNCHANGED <<program, initialized, calls>> /\ Leave(t)
    BY <1>5 DEF Section, MmapAlloc, SlabAlloc, ArenaAlloc, MmapFree, SlabFree, ReleaseBlock,
                MmapFind, SlabFind, ResizeBlock
  <2>2. wiped' \in BOOLEAN
    <3>1. CASE ReleaseBlock(t)
      BY <3>1, ReleaseSettles
    <3>2. CASE ~ReleaseBlock(t)
      BY <1>1, <1>5, <3>2 DEF Section, MmapAlloc, SlabAlloc, ArenaAlloc, MmapFree, SlabFree,
                              MmapFind, SlabFind, ResizeBlock
    <3> QED
      BY <3>1, <3>2
  <2> QED
    BY <1>1, <2>1, <2>2 DEF Leave
<1> QED
  BY <1>2, <1>3, <1>4, <1>5

\* Every section settles.
LEMMA SectionSettles ==
  ASSUME HInv, NEW t \in Threads, Section(t)
  PROVE  /\ Known' /\ ArenaBounds(arena') /\ (~wiped' => Blocked') /\ maps' \in Seq(Mapping)
<1>1. maps \in Seq(Mapping)
  BY MapsAre
<1>2. CASE Enter(t)
  <2>1. /\ Known' /\ ArenaBounds(arena') /\ (~wiped' => Blocked')
    BY <1>2, LockStepsSettle
  <2>2. maps' = maps
    BY <1>2 DEF Enter
  <2> QED
    BY <1>1, <2>1, <2>2
<1>3. CASE MmapAlloc(t) \/ MmapFree(t)
  BY <1>3, MmapAllocSettles, MmapFreeSettles
<1>4. CASE ReleaseBlock(t)
  <2>1. maps' = maps
    BY <1>4 DEF ReleaseBlock
  <2> QED
    BY <1>1, <1>4, <2>1, ReleaseSettles
<1>5. CASE SlabAlloc(t) \/ (\E g \in Growths : ArenaAlloc(t, g)) \/ SlabFree(t)
           \/ MmapFind(t) \/ SlabFind(t) \/ ResizeBlock(t)
  <2>1. maps' = maps
    BY <1>5 DEF SlabAlloc, ArenaAlloc, SlabFree, MmapFind, SlabFind, ResizeBlock
  <2>2. Blocked' /\ Known' /\ ArenaBounds(arena')
    BY <1>5, SlabAllocSettles, ArenaAllocSettles, SlabFreeSettles, MmapFindSettles,
       SlabFindSettles, ResizeSettles
  <2> QED
    BY <1>1, <2>1, <2>2
<1> QED
  BY <1>2, <1>3, <1>4, <1>5 DEF Section

\* Every step keeps the invariant.
LEMMA NextKeepsHeap ==
  ASSUME HInv, [Next]_vars
  PROVE  HInv'
<1>1. program.threads \subseteq Threads
  BY MallocAssumption DEF HInv, SInv, Calling
<1>2. SInv'
  BY NextKeepsSlabs DEF HInv
<1>3. CASE UNCHANGED vars
  <2>1. Shape' /\ (~wiped' => Blocked')
    BY <1>3 DEF vars, HInv, Shape, Known, Counters, Blocked, OneHand, Held
  <2> QED
    BY <1>2, <2>1 DEF HInv
<1>4. ASSUME NEW t \in program.threads,
             Calls(t) \/ (\E i \in 1 .. 3 : InitLock(t, i)) \/ InitDone(t) \/ Section(t)
      PROVE  HInv'
  <2>1. t \in Threads
    BY <1>1
  <2>2. /\ lock' \subseteq Locks /\ initialized' \in BOOLEAN /\ wiped' \in BOOLEAN
        /\ calls' \in 0 .. program'.maxCalls
    BY <1>4, <2>1, CountersKeep
  <2>3. Known' /\ ArenaBounds(arena') /\ (~wiped' => Blocked') /\ maps' \in Seq(Mapping)
    <3>1. CASE Calls(t)
      <4>1. maps' = maps
        BY <3>1 DEF Calls, CallMalloc, CallCalloc, CallFree, CallRealloc, Call
      <4>2. Blocked' /\ Known' /\ ArenaBounds(arena')
        BY <2>1, <3>1, CallsSettle
      <4> QED
        BY <4>1, <4>2, MapsAre
    <3>2. CASE (\E i \in 1 .. 3 : InitLock(t, i)) \/ InitDone(t)
      <4>1. maps' = maps
        BY <3>2 DEF InitLock, InitDone
      <4>2. Known' /\ ArenaBounds(arena') /\ (~wiped' => Blocked')
        BY <2>1, <3>2, LockStepsSettle
      <4> QED
        BY <4>1, <4>2, MapsAre
    <3>3. CASE Section(t)
      BY <2>1, <3>3, SectionSettles
    <3> QED
      BY <1>4, <3>1, <3>2, <3>3
  <2>4. Shape'
    BY <2>2, <2>3 DEF Shape, Counters
  <2> QED
    BY <1>2, <2>3, <2>4 DEF HInv
<1>5. CASE Stopped
  <2>1. UNCHANGED vars
    BY <1>5 DEF Stopped
  <2> QED
    BY <1>3, <2>1
<1> QED
  BY <1>3, <1>4, <1>5 DEF Next, Calls

--------------------------------------------------------------------------------
\* The theorems.

\* The arena, the slabs, the mappings and everybody's hands stay in step, for any threads,
\* programs and sizes: mira_malloc, mira_calloc, mira_free and mira_realloc, section by
\* section, with every growth of the arena, as long as trimming wiped nothing.
THEOREM HeapInvariance == Spec => []HInv
<1>1. Init => HInv
  BY InitHeap
<1>2. HInv /\ [Next]_vars => HInv'
  BY NextKeepsHeap
<1> QED
  BY <1>1, <1>2, PTL DEF Spec

--------------------------------------------------------------------------------
\* What follows of it.

\* What anybody holds is a place.
LEMMA HeldPlaces ==
  ASSUME HInv
  PROVE  Held \subseteq Places
<1>1. DOMAIN live \subseteq Places /\ \A u \in Threads : {thread[u].ptr, thread[u].new} \subseteq Places \cup {Nowhere}
  BY DEF HInv, Shape, Known, Knows
<1> QED
  BY <1>1 DEF Held

\* What the walk finds of a heap is in order.
LEMMA WalkOK ==
  ASSUME NEW a \in Arenas, NEW B, Heap(a, B), NEW p \in B \cup {a.end}, NEW h,
         p \in B => h = Following(a, p)
  PROVE  IsEpilogue(a, p) \/
           /\ Size(a, p) >= MinBlock
           /\ Free(a, p) => ~Free(a, h)
           /\ Free(a, p) => Preceding(a, h) = p \/ FooterTrimmed(a, p)
           /\ IsEpilogue(a, h) \/ PrevFree(a, h) = 1 - AllocOf(a.mem[p])
<1>1. CASE p = a.end
  BY <1>1, FollowingIs
<1>2. CASE p \in B
  <2>1. /\ p \in Nat /\ Size(a, p) \in Nat /\ Size(a, p) >= MinBlock /\ h = p + Size(a, p)
        /\ h \in B \cup {a.end}
    BY <1>2, HeapNumbers DEF Heap, MinBlock
  <2>2. Agree(a, p)
    BY <1>2 DEF Heap
  <2>3. Free(a, p) => ~Free(a, h)
    BY <1>2, <2>2 DEF Agree
  <2>4. ASSUME Free(a, p) PROVE Preceding(a, h) = p \/ FooterTrimmed(a, p)
    <3>1. SizeOf(a.mem[h - 1]) = Size(a, p) \/ FooterTrimmed(a, p)
      BY <1>2, <2>2, <2>4 DEF Agree
    <3> QED
      BY <2>1, <3>1 DEF Preceding
  <2>5. IsEpilogue(a, h) \/ PrevFree(a, h) = 1 - AllocOf(a.mem[p])
    <3>1. h = a.end => IsEpilogue(a, h)
      BY FollowingIs
    <3>2. h # a.end => PrevFree(a, h) = 1 - AllocOf(a.mem[p])
      BY <1>2, <2>2 DEF Agree
    <3> QED
      BY <3>1, <3>2
  <2> QED
    BY <2>1, <2>3, <2>4, <2>5
<1> QED
  BY <1>1, <1>2

\* The steps of a walk, as HeapOK takes them.
LEMMA WalkPairs ==
  ASSUME NEW a \in Arenas, NEW B, Heap(a, B), NEW n \in 1 .. Steps + 1
  PROVE  /\ Walk(a)[n - 1] \in B \cup {a.end}
         /\ Walk(a)[n - 1] \in B => Walk(a)[n] = Following(a, Walk(a)[n - 1])
<1> DEFINE w == Walk(a)
<1>1. Steps \in Nat
  BY StepsEnough
<1>2. n - 1 \in 0 .. Steps /\ n - 1 \in 0 .. Steps + 1 /\ (n - 1) + 1 = n
  BY <1>1
<1>3. /\ w \in [0 .. Steps + 1 -> B \cup {a.end}]
      /\ \A m \in 0 .. Steps : w[m] \in B => w[m + 1] = Following(a, w[m])
  BY WalkOn
<1> HIDE DEF w
<1>4. w[n - 1] \in B \cup {a.end} /\ (w[n - 1] \in B => w[n] = Following(a, w[n - 1]))
  BY <1>2, <1>3
<1> QED
  BY <1>4 DEF w

\* Headers, footers and prev_free bits agree in every state until trimming zeroed a header
\* or a link, but for the footer of the last block when trimming took it
\* (set_header and its callers in mira_malloc, mira_free and mira_realloc).
THEOREM HeapAlwaysOK == Spec => []HeapOK
<1>1. HInv => HeapOK
  <2> SUFFICES ASSUME HInv, arena.start # NULL, ~wiped
               PROVE  LET blk == Walk(arena)
                          next == [n \in 1 .. MaxCap \div MinBlock + 1 |-> <<blk[n - 1], blk[n]>>]
                      IN
                      /\ IsEpilogue(arena, arena.end) /\ arena.end \in {blk[n] : n \in DOMAIN blk}
                      /\ arena.end < Base + arena.cap
                      /\ \A n \in DOMAIN next :
                           LET p == next[n][1] h == next[n][2] IN
                           IsEpilogue(arena, p) \/
                             /\ Size(arena, p) >= MinBlock
                             /\ Free(arena, p) => ~Free(arena, h)
                             /\ Free(arena, p) => Preceding(arena, h) = p \/ FooterTrimmed(arena, p)
                             /\ IsEpilogue(arena, h) \/ PrevFree(arena, h) = 1 - AllocOf(arena.mem[p])
    BY DEF HeapOK
  <2> DEFINE blk  == Walk(arena)
             next == [n \in 1 .. MaxCap \div MinBlock + 1 |-> <<blk[n - 1], blk[n]>>]
  <2>1. PICK B : Good(arena, B)
    BY DEF HInv, Blocked, Memory
  <2>2. arena \in Arenas /\ Sound(arena, B) /\ InBounds(arena)
    BY <2>1, NothingMapped DEF Good
  <2>3. Heap(arena, B)
    BY <2>2 DEF Sound
  <2>4. IsEpilogue(arena, arena.end)
    BY <2>2, <2>3, FollowingIs
  <2>5. arena.end \in {blk[n] : n \in DOMAIN blk}
    <3>1. /\ blk \in [0 .. Steps + 1 -> B \cup {arena.end}]
          /\ \A b \in B \cup {arena.end} : \E n \in 0 .. Steps + 1 : blk[n] = b
      BY <2>2, <2>3, WalkOn
    <3> HIDE DEF blk
    <3> QED
      BY <3>1
  <2>6. arena.end < Base + arena.cap
    <3>1. arena.end \in Nat /\ Base \in Nat /\ arena.used \in Nat /\ arena.cap \in Nat
      BY <2>2, <2>3, HeapNumbers, NoAddress DEF Arenas, Heap
    <3> QED
      BY <2>2, <3>1 DEF InBounds
  <2>7. ASSUME NEW n \in DOMAIN next
        PROVE  LET p == next[n][1] h == next[n][2] IN
               IsEpilogue(arena, p) \/
                 /\ Size(arena, p) >= MinBlock
                 /\ Free(arena, p) => ~Free(arena, h)
                 /\ Free(arena, p) => Preceding(arena, h) = p \/ FooterTrimmed(arena, p)
                 /\ IsEpilogue(arena, h) \/ PrevFree(arena, h) = 1 - AllocOf(arena.mem[p])
    <3>1. n \in 1 .. Steps + 1 /\ next[n][1] = blk[n - 1] /\ next[n][2] = blk[n]
      BY DEF Steps
    <3>2. blk[n - 1] \in B \cup {arena.end} /\ (blk[n - 1] \in B => blk[n] = Following(arena, blk[n - 1]))
      BY <2>2, <2>3, <3>1, WalkPairs
    <3> HIDE DEF blk, next
    <3> DEFINE p == next[n][1]
               h == next[n][2]
    <3>3. p \in B \cup {arena.end} /\ (p \in B => h = Following(arena, p))
      BY <3>1, <3>2
    <3> HIDE DEF p, h
    <3>4. IsEpilogue(arena, p) \/
            /\ Size(arena, p) >= MinBlock
            /\ Free(arena, p) => ~Free(arena, h)
            /\ Free(arena, p) => Preceding(arena, h) = p \/ FooterTrimmed(arena, p)
            /\ IsEpilogue(arena, h) \/ PrevFree(arena, h) = 1 - AllocOf(arena.mem[p])
      BY <2>2, <2>3, <3>3, WalkOK
    <3> QED
      BY <3>4 DEF p, h
  <2> QED
    BY <2>4, <2>5, <2>6, <2>7
<1> QED
  BY <1>1, HeapInvariance, PTL

\* Every free block is on the list of its size's class and on no other, and a list holds
\* nothing else, until trimming went wrong (bucket_insert and bucket_remove).
THEOREM ListsAlwaysOK == Spec => []ListsOK
<1>1. HInv => ListsOK
  <2> SUFFICES ASSUME HInv, ~wiped, NEW cls \in 1 .. NumClasses
               PROVE  Listed(arena, cls) = {h \in {b \in Blocks(arena) : Free(arena, b)} :
                                              ClassOf[Size(arena, h)] = cls}
    BY DEF ListsOK
  <2>1. PICK B : Good(arena, B)
    BY DEF HInv, Blocked, Memory
  <2>2. CASE arena = Unmapped
    BY <2>2, NothingMapped
  <2>3. CASE Sound(arena, B)
    <3>1. arena \in Arenas /\ Heap(arena, B) /\ Tiled(arena, B) /\ Listing(arena, FreeBlocks(arena, B))
      BY <2>1, <2>3 DEF Good, Sound, Heap
    <3>2. Blocks(arena) = B
      BY <3>1, BlocksFound
    <3>3. FreeBlocks(arena, B) \in SUBSET B
      BY DEF FreeBlocks
    <3>4. Listed(arena, cls) = OfClass(arena, cls, FreeBlocks(arena, B))
      BY <3>1, <3>3, ListedIs
    <3> QED
      BY <3>2, <3>4 DEF OfClass, FreeBlocks
  <2> QED
    BY <2>1, <2>2, <2>3 DEF Good
<1> QED
  BY <1>1, HeapInvariance, PTL

\* An allocated block of the arena is in somebody's hands, every block in somebody's hands is
\* allocated, and it is in one hand, until trimming went wrong: mira_malloc gives no block
\* away twice and mira_free and mira_realloc lose none, whatever the threads do between the
\* sections.
THEOREM BlocksAlwaysHeld == Spec => []BlocksHeld
<1>1. HInv => BlocksHeld
  <2> SUFFICES ASSUME HInv, ~wiped
               PROVE  /\ {h \in Blocks(arena) : ~Free(arena, h)} \ {arena.start}
                           = {p.at : p \in {q \in Held : q.area = "arena"}}
                      /\ OneHand
    BY DEF BlocksHeld
  <2>1. PICK B : Good(arena, B) /\ \A h : h \in Callers(arena, B) <=> InArena(h) \in Held
    BY DEF HInv, Blocked, Memory
  <2>2. {h \in Blocks(arena) : ~Free(arena, h)} \ {arena.start} = Callers(arena, B)
    <3>1. CASE arena = Unmapped /\ B = {}
      BY <3>1, NothingMapped
    <3>2. CASE Sound(arena, B)
      <4>1. Blocks(arena) = B
        BY <2>1, <3>2, BlocksFound DEF Good, Sound
      <4> QED
        BY <4>1 DEF Callers, UsedBlocks
    <3> QED
      BY <2>1, <3>1, <3>2 DEF Good
  <2>3. ASSUME NEW p \in Held PROVE p \in Places
    BY HeldPlaces
  <2>4. \A h : h \in Callers(arena, B) <=> h \in {p.at : p \in {q \in Held : q.area = "arena"}}
    BY <2>1, <2>3, PlacesApart
  <2>5. OneHand
    BY DEF HInv, Blocked
  <2> QED
    BY <2>2, <2>4, <2>5
<1> QED
  BY <1>1, HeapInvariance, PTL

\* What mira_malloc_usable_size says of a block is what the block has room for.
LEMMA UsableIs ==
  ASSUME HInv, NEW p \in Places, NEW n \in Nat, ~wiped, Fits(arena, slabs, maps, p, n),
         p.area = "arena" => ~Free(arena, p.at)
  PROVE  UsableSize(p) >= n
<1>1. CASE p.area = "arena"
  <2>1. Size(arena, p.at) \in Nat /\ n < Size(arena, p.at)
    BY <1>1 DEF Fits
  <2>2. UsableSize(p) = Size(arena, p.at) - 1
    BY <1>1 DEF UsableSize, ArenaUsable
  <2> QED
    BY <2>1, <2>2
<1>2. CASE p.area = "slab"
  <2>1. SlabOf(p) \in DOMAIN slabs /\ n <= SlotSizes[slabs[SlabOf(p)].cls]
    BY <1>2 DEF Fits
  <2>2. SlotSizes[slabs[SlabOf(p)].cls] \in Nat
    <3>1. slabs[SlabOf(p)].cls \in DOMAIN SlotSizes
      BY <2>1, SlabsAre DEF HInv, SInv, Slab
    <3> QED
      BY <3>1, MallocAssumption
  <2>3. UsableSize(p) = SlotSizes[slabs[SlabOf(p)].cls]
    BY <1>2 DEF UsableSize
  <2> QED
    BY <2>1, <2>2, <2>3
<1>3. CASE p.area = "mmap"
  <2> DEFINE i == CHOOSE x \in FindMap(p) : TRUE
  <2>1. PICK j \in DOMAIN maps : p = InMap(maps[j].at) /\ n <= maps[j].size
    BY <1>3 DEF Fits
  <2>2. i \in DOMAIN maps /\ p = InMap(maps[i].at)
    <3>1. j \in FindMap(p)
      BY <2>1 DEF FindMap
    <3>2. i \in FindMap(p)
      BY <3>1
    <3> QED
      BY <3>2 DEF FindMap
  <2>3. UsableSize(p) = maps[i].size
    BY <1>3 DEF UsableSize
  <2> HIDE DEF i
  <2>4. maps[j].at = maps[i].at
    <3>1. InMap(maps[j].at).at = maps[j].at /\ InMap(maps[i].at).at = maps[i].at
      BY PlacesApart
    <3> QED
      BY <2>1, <2>2, <3>1
  <2>5. j = i
    BY <2>1, <2>2, <2>4 DEF HInv, Blocked, Memory
  <2>6. maps[i].size \in Nat
    BY <2>2, MapsAre
  <2> QED
    BY <2>1, <2>3, <2>5, <2>6
<1> QED
  BY <1>1, <1>2, <1>3, PlacesApart

\* A caller has at least the words it asked for, wherever its block is, until trimming
\* went wrong (mira_malloc, mira_calloc, mira_realloc and mira_malloc_usable_size).
THEOREM AlwaysLargeEnough == Spec => []LargeEnough
<1>1. HInv => LargeEnough
  <2> SUFFICES ASSUME HInv, ~wiped, NEW p \in DOMAIN live
               PROVE  UsableSize(p) >= live[p]
    BY DEF LargeEnough
  <2>1. p \in Held /\ p \in Places
    BY HeldPlaces DEF Held
  <2>2. live[p] \in Nat /\ Fits(arena, slabs, maps, p, live[p])
    BY DEF HInv, Blocked, LiveClaims, Claim
  <2>3. Memory(arena, maps, Held)
    BY DEF HInv, Blocked
  <2>4. p.area = "arena" => ~Free(arena, p.at)
    BY <2>1, <2>3, HeldCaller, CallersAre
  <2> QED
    BY <2>1, <2>2, <2>4, UsableIs
<1> QED
  BY <1>1, HeapInvariance, PTL

\* The allocator never writes into a block that is in the program's hands, and mira_realloc
\* gives back the old contents, until trimming went wrong.
THEOREM ContentsAlwaysKept == Spec => []ContentsKept
<1>1. HInv => ContentsKept
  BY DEF HInv, Blocked, LiveClaims, Claim, Data, ContentsKept
<1> QED
  BY <1>1, HeapInvariance, PTL

\* The allocator's records keep their shape, after trimming went wrong too.
THEOREM TypesAlwaysOK == Spec => []TypeOK
<1>1. HInv => TypeOK
  <2> SUFFICES ASSUME HInv PROVE TypeOK
    OBVIOUS
  <2>1. /\ arena.mem \in [Addresses -> Nat]
        /\ arena.start \in {NULL, Base} /\ arena.end \in Addresses \cup {NULL}
        /\ arena.bucket \in [1 .. NumClasses -> Addresses \cup {NULL}]
        /\ arena.used <= arena.cap /\ arena.cap \in 0 .. MaxCap
    <3>1. arena \in Arenas /\ arena.used <= arena.cap /\ arena.cap <= MaxCap
      BY DEF HInv, Shape, ArenaBounds
    <3>2. arena.cap \in Nat /\ MaxCap \in Nat
      BY <3>1, NoAddress DEF Arenas
    <3> QED
      BY <3>1, <3>2 DEF Arenas
  <2>2. \A i \in DOMAIN slabs : slabs[i].cls \in DOMAIN SlotSizes
    BY SlabsAre DEF HInv, SInv, Slab
  <2>3. \A i \in DOMAIN maps : maps[i].at \in 1 .. MaxMaps
    BY MapsAre DEF Mapping
  <2>4. DOMAIN live \subseteq Pointers
    BY PlacesApart DEF HInv, Shape, Known
  <2>5. \A t \in Threads : thread[t].ptr \in Pointers /\ thread[t].new \in Pointers
    BY PlacesApart DEF HInv, Shape, Known, Knows
  <2>6. /\ lock \subseteq Locks /\ initialized \in BOOLEAN /\ wiped \in BOOLEAN
        /\ calls \in 0 .. program.maxCalls
    BY DEF HInv, Shape, Counters
  <2> QED
    BY <2>1, <2>2, <2>3, <2>4, <2>5, <2>6 DEF TypeOK
<1> QED
  BY <1>1, HeapInvariance, PTL

================================================================================

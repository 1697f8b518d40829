--------------------------------- MODULE Arena ---------------------------------
(***************************************************************************)
(* The arena of the production allocator (05-production/src/malloc.c): a   *)
(* heap of blocks with boundary tags and prev_free bits, and segregated    *)
(* free lists threaded through the free blocks.  The unit of size and      *)
(* address is the 8-byte word.  An arena is a record                       *)
(*   mem     the words, by address;                                        *)
(*   start, end   heap_start and heap_end (0 before the first allocation)  *)
(*   bucket  the head of each free list                                    *)
(*   cap, used    heap_capacity and heap_used                              *)
(* and each function of the allocator is an operator from arena to arena.  *)
(* A word is what the code keeps in it: a header or a footer is the size   *)
(* in bytes with two flag bits, a link is an address, 0 is NULL.           *)
(***************************************************************************)
EXTENDS Integers, FiniteSetsExt

CONSTANTS
  Base,           \* where the arena is mapped: the start of a page
  InitCap,        \* words of the first mapping (ARENA_INIT_SIZE)
  MaxCap,         \* words the arena may grow to: the system refuses more
  GrowSize,       \* ARENA_GROW_SIZE
  PageWords,      \* words of a page
  TrimThreshold,  \* TRIM_THRESHOLD
  TrimChunk,      \* MADVISE_CHUNK
  Growths         \* the answers of mremap: "in_place", "refused"

ASSUME ArenaAssumption ==
  /\ {Base, InitCap, MaxCap, GrowSize, PageWords, TrimThreshold, TrimChunk} \subseteq Nat \ {0}
  /\ Base % PageWords = 0 /\ 4 <= InitCap /\ InitCap <= MaxCap
  /\ Growths \subseteq {"in_place", "refused"}

Addresses == Base .. (Base + MaxCap - 1)

NULL == 0

MinBlock == 3

Classes == <<2, 3, 4, 5, 6, 7, 8, 10, 12, 14, 16, 20, 24, 28, 32, 40, 48, 56,
             64, 128, 256>>
NumClasses == 22

\* The list a block of a size belongs to; the last one takes what is larger.
ClassOf == [size \in Nat |->
              Min({i \in DOMAIN Classes : size <= Classes[i]} \cup {NumClasses})]

--------------------------------------------------------------------------------
\* Words.

Tag(size, alloc, prevFree) == 8 * size + 2 * prevFree + alloc

SizeOf(w)     == w \div 8
AllocOf(w)    == w % 2
PrevFreeOf(w) == (w \div 2) % 2

Size(a, h)     == SizeOf(a.mem[h])
Free(a, h)     == AllocOf(a.mem[h]) = 0
PrevFree(a, h) == PrevFreeOf(a.mem[h])
Following(a, h) == h + Size(a, h)
IsEpilogue(a, h) == Size(a, h) = 0
Preceding(a, h) == h - SizeOf(a.mem[h - 1])

SetHeader(a, h, size, alloc, prevFree) ==
  [a EXCEPT !.mem[h] = Tag(size, alloc, prevFree)]

SetFreeBlock(a, h, size, prevFree) ==
  [a EXCEPT !.mem = [@ EXCEPT ![h] = Tag(size, 0, prevFree),
                              ![h + size - 1] = Tag(size, 0, 0)]]

SetAllocBlock(a, h, size, prevFree) == SetHeader(a, h, size, 1, prevFree)

\* The header of the block (or the epilogue) that follows h, with prevFree.
TellFollowing(a, h, prevFree) ==
  LET n == Following(a, h) IN SetHeader(a, n, Size(a, n), AllocOf(a.mem[n]), prevFree)

\* The same, leaving the epilogue alone.
TellFollowingBlock(a, h, prevFree) ==
  IF IsEpilogue(a, Following(a, h)) THEN a ELSE TellFollowing(a, h, prevFree)

\* The blocks of the heap in the order of their addresses, as positions: the
\* epilogue (and whatever is not in the heap) repeats.
Walk(a) ==
  LET after == [h \in Addresses |->
                  IF Following(a, h) \in Addresses THEN Following(a, h) ELSE h]
      blk[n \in 0 .. MaxCap \div MinBlock + 1] == IF n = 0 THEN a.start ELSE after[blk[n - 1]]
  IN  blk

Blocks(a) ==
  IF a.start = NULL THEN {}
  ELSE LET blk == Walk(a) IN {h \in {blk[n] : n \in DOMAIN blk} : ~IsEpilogue(a, h)}

--------------------------------------------------------------------------------
\* Free lists.

\* The list that starts at h, as positions; NULL repeats.
List(a, h) ==
  LET after == [b \in Addresses \cup {NULL} |-> IF b = NULL THEN NULL ELSE a.mem[b + 1]]
      at[n \in 0 .. MaxCap \div MinBlock] == IF n = 0 THEN h ELSE after[at[n - 1]]
  IN  at

Listed(a, cls) ==
  IF a.bucket[cls] = NULL THEN {}
  ELSE LET at == List(a, a.bucket[cls]) IN {at[n] : n \in DOMAIN at} \ {NULL}

BucketInsert(a, h) ==
  LET cls == ClassOf[Size(a, h)] IN
  [a EXCEPT !.mem[h + 1] = a.bucket[cls], !.bucket[cls] = h]

BucketRemove(a, h) ==
  LET cls  == ClassOf[Size(a, h)]
      next == a.mem[h + 1]
      before == {p \in Listed(a, cls) : a.mem[p + 1] = h}
  IN  CASE a.bucket[cls] = h ->
             [a EXCEPT !.bucket[cls] = next, !.mem[h + 1] = NULL]
        [] a.bucket[cls] # h /\ before # {} ->
             [a EXCEPT !.mem[(CHOOSE p \in before : TRUE) + 1] = next]
        [] OTHER -> [a EXCEPT !.mem[h + 1] = NULL]

\* The first block that fits in the list of the size's class, else in the next
\* class that has one.
BucketFind(a, size) ==
  LET fits(cls) == {h \in Listed(a, cls) : Size(a, h) >= size}
      classes   == {cls \in ClassOf[size] .. NumClasses : fits(cls) # {}}
  IN  IF classes = {} THEN NULL
      ELSE LET at == List(a, a.bucket[Min(classes)])
           IN  at[Min({n \in DOMAIN at : at[n] \in fits(Min(classes))})]

--------------------------------------------------------------------------------
\* Operations.

SplitBlock(a, h, needed) ==
  LET remainder == Size(a, h) - needed
      rest      == h + needed
  IN  IF remainder < MinBlock THEN a
      ELSE TellFollowing(
             SetAllocBlock(BucketInsert(SetFreeBlock(a, rest, remainder, 0), rest),
                           h, needed, PrevFree(a, h)),
             rest, 1)

NextFree(a, h) ==
  LET next == Following(a, h) IN ~IsEpilogue(a, next) /\ Free(a, next)

\* A slip to rule out: the block taken in stays on its list.
WithoutNextListed(a, h) == a

\* The block after h leaves its list, when it is free.
WithoutNext(a, h) == IF NextFree(a, h) THEN BucketRemove(a, Following(a, h)) ELSE a

SizeWithNext(a, h) ==
  Size(a, h) + (IF NextFree(a, h) THEN Size(a, Following(a, h)) ELSE 0)

\* A free block of size words at h, its follower told, on its list.
PutFree(a, h, size, prevFree) ==
  BucketInsert(TellFollowing(SetFreeBlock(a, h, size, prevFree), h, 1), h)

\* Block h, which is on no list, takes its free neighbours in.
Coalesce(a, h) ==
  LET prev == Preceding(a, h) IN
  IF PrevFree(a, h) = 1
  THEN PutFree(WithoutNext(BucketRemove(a, prev), h), prev,
               Size(a, prev) + SizeWithNext(a, h), PrevFree(a, prev))
  ELSE PutFree(WithoutNext(a, h), h, SizeWithNext(a, h), 0)

\* A free block of size words at h, and the epilogue after it.
PutTop(a, h, size, prevFree) ==
  BucketInsert([SetHeader(SetFreeBlock(a, h, size, prevFree), h + size, 0, 1, 1)
                  EXCEPT !.end = h + size], h)

\* size more words at the top of a heap whose last block is last.
AddTop(a, last, size) ==
  IF Free(a, last)
  THEN [arena |-> PutTop(BucketRemove(a, last), last, Size(a, last) + size + 1, PrevFree(a, last)),
        block |-> last]
  ELSE [arena |-> PutTop(a, a.end, size, 0), block |-> a.end]

\* A slip to rule out: the capacity is compared with what was used before.
ExtendHeapLate(a, size, growth) ==
  AddTop([a EXCEPT !.cap = IF a.used > a.cap THEN a.cap + GrowSize ELSE @,
                   !.used = @ + size + 1], Max(Blocks(a)), size)

\* A free block of at least size words at the top of the heap, or NULL.
ExtendHeap(a, size, growth) ==
  LET needed  == size + 1
      full    == a.used + needed > a.cap
      newCap  == a.cap + Max({GrowSize, needed})
      refused == full /\ (growth = "refused" \/ newCap > MaxCap)
      mapped  == [a EXCEPT !.cap = IF full THEN newCap ELSE @]
  IN  CASE refused -> [arena |-> a, block |-> NULL]
        [] ~refused /\ \E b \in Blocks(a) : Size(a, b) < MinBlock ->
             [arena |-> mapped, block |-> NULL]
        [] OTHER -> AddTop([mapped EXCEPT !.used = @ + needed], Max(Blocks(a)), size)

\* The words of the pages inside a large free block at the top of the heap.
GivenBack(a, last) ==
  LET pageStart == ((last + PageWords - 1) \div PageWords) * PageWords
      pageEnd   == ((last + Size(a, last)) \div PageWords) * PageWords
  IN  IF Free(a, last) /\ Size(a, last) >= TrimThreshold /\ pageEnd - pageStart >= TrimChunk
      THEN pageStart .. pageEnd - 1 ELSE {}

\* They are given back to the system: they read as zeros from then on.
Trim(a, last) ==
  [a EXCEPT !.mem = [x \in Addresses |-> IF x \in GivenBack(a, last) THEN 0 ELSE @[x]]]

\* The last block ends at the end of a page, and trimming took its footer with it.
FooterTrimmed(a, b) ==
  LET footer == Following(a, b) - 1 IN
  Following(a, b) = a.end /\ footer \in GivenBack(a, b) /\ a.mem[footer] = 0

TrimArena(a) == Trim(a, Max(Blocks(a)))

\* The arena before its first allocation, and its first mapping.
Unmapped ==
  [mem |-> [x \in Addresses |-> 0], start |-> NULL, end |-> NULL,
   bucket |-> [c \in 1 .. NumClasses |-> NULL], cap |-> 0, used |-> 0]

Mapped ==
  [Unmapped EXCEPT
     !.mem = [@ EXCEPT ![Base] = Tag(MinBlock, 1, 0), ![Base + 2] = Tag(MinBlock, 1, 0),
                       ![Base + 3] = Tag(0, 1, 0)],
     !.start = Base, !.end = Base + MinBlock, !.cap = InitCap, !.used = MinBlock + 1]

Needed(size) == Max({size + 1, MinBlock})

\* A block for needed words, still on its list.
FindBlock(a, needed, growth) ==
  LET h == BucketFind(a, needed) IN
  IF h # NULL THEN [arena |-> a, block |-> h] ELSE ExtendHeap(a, needed, growth)

\* A slip to rule out: the block after an allocated one is not told.
MarkAllocatedUntold(a, h) == SetAllocBlock(a, h, Size(a, h), PrevFree(a, h))

MarkAllocated(a, h) ==
  TellFollowingBlock(SetAllocBlock(a, h, Size(a, h), PrevFree(a, h)), h, 0)

Occupy(r, needed) ==
  IF r.block = NULL THEN r
  ELSE [r EXCEPT !.arena = MarkAllocated(SplitBlock(BucketRemove(@, r.block), r.block, needed),
                                         r.block)]

\* The arena part of mira_malloc: the block's header, or NULL.
ArenaMalloc(a, size, growth) ==
  Occupy(FindBlock(IF a.start = NULL THEN Mapped ELSE a, Needed(size), growth), Needed(size))

\* The arena part of mira_free.
ArenaFree(a, h) == IF Free(a, h) THEN a ELSE TrimArena(Coalesce(a, h))

\* The words of block h beyond needed, and of the free block after it when there is
\* one, become a free block.
CutTail(a, h, needed) ==
  LET rest == h + needed IN
  BucketInsert(SetFreeBlock(WithoutNext(a, h), rest, SizeWithNext(a, h) - needed, 0), rest)

Shrink(a, h, needed) ==
  IF Size(a, h) - needed < MinBlock THEN a
  ELSE SetAllocBlock(TellFollowing(CutTail(a, h, needed), h + needed, 1),
                     h, needed, PrevFree(a, h))

Grow(a, h, needed) ==
  TellFollowingBlock(
    IF SizeWithNext(a, h) - needed >= MinBlock
    THEN SetAllocBlock(CutTail(a, h, needed), h, needed, PrevFree(a, h))
    ELSE SetAllocBlock(WithoutNext(a, h), h, SizeWithNext(a, h), PrevFree(a, h)),
    h, 0)

\* The arena part of mira_realloc: the block h shrinks, or grows into the free
\* block after it; otherwise nothing is changed and done is FALSE.
ArenaResize(a, h, needed) ==
  CASE Size(a, h) >= needed -> [arena |-> Shrink(a, h, needed), done |-> TRUE]
    [] Size(a, h) < needed /\ SizeWithNext(a, h) >= needed ->
         [arena |-> Grow(a, h, needed), done |-> TRUE]
    [] OTHER -> [arena |-> a, done |-> FALSE]

ArenaUsable(a, h) == IF Free(a, h) THEN 0 ELSE Size(a, h) - 1

================================================================================

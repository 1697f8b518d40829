------------------------------ MODULE Arena_proofs ------------------------------
(***************************************************************************)
(* The operations of the arena keep the heap a heap, for every size of the *)
(* arena and of the blocks.  The heap is said as a set of blocks that fill *)
(* the words from heap_start to heap_end and whose headers agree with each *)
(* other (Heap); a free list as a set of blocks with links that lead       *)
(* through all of them (Chain).  Every operation refills a run of words    *)
(* with one or two blocks (Retiled) and takes blocks from the free lists   *)
(* or puts them there (Unlinked, Linked).  What the walks of the code      *)
(* find, by following the sizes or the links, is what these sets say       *)
(* (BlocksFound, ListFound).                                               *)
(***************************************************************************)
EXTENDS Arena, Induction, TLAPS

--------------------------------------------------------------------------------
\* The invariant.

Arenas == [mem : [Addresses -> Nat], start : {NULL, Base}, end : Addresses \cup {NULL},
           bucket : [1 .. NumClasses -> Addresses \cup {NULL}], cap : Nat, used : Nat]

\* The blocks B fill the words from heap_start to heap_end.
Tiled(a, B) ==
  /\ B \in SUBSET Addresses /\ a.start \in B /\ a.end \in Addresses
  /\ \A b \in B : /\ a.start <= b /\ b < a.end
                  /\ MinBlock <= Size(a, b) /\ Following(a, b) \in B \cup {a.end}
  /\ \A b, c \in B : b < c => Following(a, b) <= c

\* A block and the header after it agree, and a free block has its footer; after the last
\* block is the epilogue, and trimming may have taken its footer.
Agree(a, b) ==
  LET n == Following(a, b) IN
  /\ Free(a, b) => ~Free(a, n)
  /\ n # a.end => PrevFree(a, n) = 1 - AllocOf(a.mem[b])
  /\ Free(a, b) => SizeOf(a.mem[n - 1]) = Size(a, b) \/ FooterTrimmed(a, b)

Heap(a, B) ==
  /\ Tiled(a, B)
  /\ \A b \in B : Agree(a, b)
  /\ ~Free(a, a.start) /\ IsEpilogue(a, a.end) /\ ~Free(a, a.end)

\* The links lead from f through the blocks of S, each once; rank counts them on the way.
Linking(mem, f, S, rank) ==
  /\ rank \in [S -> Nat]
  /\ f \in S \cup {NULL}
  /\ \A b \in S : /\ mem[b + 1] \in S \cup {NULL}
                  /\ mem[b + 1] \in S => rank[b] < rank[mem[b + 1]] /\ mem[b + 1] # f
                  /\ b # f => \E p \in S : mem[p + 1] = b
  /\ \A b, c \in S : mem[b + 1] = mem[c + 1] /\ mem[b + 1] # NULL => b = c

Chain(mem, f, S) == \E rank : Linking(mem, f, S, rank)

\* The blocks of S whose size is of a class.
OfClass(a, cls, S) == {b \in S : ClassOf[Size(a, b)] = cls}

\* The free lists have the blocks of S, each on the list of its class.
Listing(a, S) ==
  \A cls \in 1 .. NumClasses : Chain(a.mem, a.bucket[cls], OfClass(a, cls, S))

FreeBlocks(a, B) == {b \in B : Free(a, b)}

\* The heap in order.
Sound(a, B) == Heap(a, B) /\ Listing(a, FreeBlocks(a, B))

--------------------------------------------------------------------------------
\* Words.

\* NULL is no address.
LEMMA NoAddress ==
  /\ Addresses \in SUBSET (Nat \ {0}) /\ NULL = 0 /\ NULL \notin Addresses
  /\ Base \in Nat /\ MaxCap \in Nat /\ Base > 0 /\ MaxCap >= 4
  /\ \A x : x \in Addresses <=> x \in Int /\ Base <= x /\ x <= Base + MaxCap - 1
BY ArenaAssumption DEF Addresses, NULL

\* A header gives back what was put into it.
LEMMA TagParts ==
  ASSUME NEW size \in Nat, NEW alloc \in 0 .. 1, NEW pf \in 0 .. 1
  PROVE  /\ Tag(size, alloc, pf) \in Nat
         /\ SizeOf(Tag(size, alloc, pf)) = size
         /\ AllocOf(Tag(size, alloc, pf)) = alloc
         /\ PrevFreeOf(Tag(size, alloc, pf)) = pf
BY DEF Tag, SizeOf, AllocOf, PrevFreeOf

\* A word has a size and two bits, whatever it is.
LEMMA WordParts ==
  ASSUME NEW w \in Nat
  PROVE  SizeOf(w) \in Nat /\ AllocOf(w) \in 0 .. 1 /\ PrevFreeOf(w) \in 0 .. 1
BY DEF SizeOf, AllocOf, PrevFreeOf

\* What the code reads at an address.
LEMMA Reads ==
  ASSUME NEW a \in Arenas, NEW h \in Addresses
  PROVE  /\ h \in Nat /\ a.mem[h] \in Nat
         /\ Size(a, h) \in Nat /\ AllocOf(a.mem[h]) \in 0 .. 1 /\ PrevFree(a, h) \in 0 .. 1
         /\ Following(a, h) = h + Size(a, h) /\ Following(a, h) \in Nat
         /\ IsEpilogue(a, h) <=> Size(a, h) = 0
         /\ Free(a, h) <=> AllocOf(a.mem[h]) = 0
<1>1. a.mem[h] \in Nat /\ h \in Nat
  BY NoAddress DEF Arenas
<1> QED
  BY <1>1, WordParts DEF Size, PrevFree, Following, IsEpilogue, Free

\* Two arenas with the same word there read the same.
LEMMA SameWord ==
  ASSUME NEW a, NEW a2, NEW h, a2.mem[h] = a.mem[h]
  PROVE  /\ Size(a2, h) = Size(a, h) /\ PrevFree(a2, h) = PrevFree(a, h)
         /\ AllocOf(a2.mem[h]) = AllocOf(a.mem[h]) /\ Following(a2, h) = Following(a, h)
         /\ Free(a2, h) <=> Free(a, h)
BY DEF Size, PrevFree, Following, Free

\* A footer that was trimmed stays so where the block and the word stay.
LEMMA SameTrimmed ==
  ASSUME NEW a, NEW a2, NEW b, Size(a2, b) = Size(a, b), Following(a2, b) = Following(a, b),
         Free(a2, b) <=> Free(a, b), Following(a, b) = a.end => Following(a, b) = a2.end,
         a2.mem[Following(a, b) - 1] = a.mem[Following(a, b) - 1], FooterTrimmed(a, b)
  PROVE  FooterTrimmed(a2, b)
<1>1. GivenBack(a2, b) = GivenBack(a, b)
  BY DEF GivenBack
<1> QED
  BY <1>1 DEF FooterTrimmed

\* What is read where a header was written.
LEMMA TagRead ==
  ASSUME NEW a, NEW h, NEW size \in Nat, NEW alloc \in 0 .. 1, NEW pf \in 0 .. 1,
         a.mem[h] = Tag(size, alloc, pf)
  PROVE  /\ Size(a, h) = size /\ AllocOf(a.mem[h]) = alloc /\ PrevFree(a, h) = pf
         /\ Following(a, h) = h + size /\ (Free(a, h) <=> alloc = 0)
         /\ (IsEpilogue(a, h) <=> size = 0)
BY TagParts DEF Size, PrevFree, Following, Free, IsEpilogue

--------------------------------------------------------------------------------
\* Blocks in a row.

\* Blocks and the ends of the heap are numbers and lie apart.
LEMMA HeapNumbers ==
  ASSUME NEW a \in Arenas, NEW B, Tiled(a, B)
  PROVE  /\ a.start = Base /\ a.start \in Nat /\ a.end \in Nat /\ a.end \notin B /\ a.end \in Addresses
         /\ \A b \in B : /\ b \in Nat /\ b \in Addresses /\ Size(a, b) \in Nat /\ Size(a, b) >= 3
                         /\ Following(a, b) = b + Size(a, b) /\ Following(a, b) <= a.end
                         /\ Following(a, b) \in B \cup {a.end}
                         /\ a.start <= b /\ b < a.end
         /\ \A b, c \in B : b < c => b + Size(a, b) <= c
<1>1. B \in SUBSET Addresses /\ a.end \in Addresses /\ a.start = Base /\ Base \in Nat
  BY NoAddress DEF Tiled, Arenas
<1>2. \A h \in Addresses : h \in Nat /\ Size(a, h) \in Nat /\ Following(a, h) = h + Size(a, h)
  BY Reads
<1>3. a.end \in Nat /\ a.end \notin B
  BY <1>1, NoAddress DEF Tiled
<1>4. \A b \in B : Size(a, b) >= 3 /\ Following(a, b) <= a.end
  BY <1>1, <1>2, <1>3 DEF Tiled, MinBlock
<1> QED
  BY <1>1, <1>2, <1>3, <1>4 DEF Tiled

\* Every block but the first, and the end, follows a block.
LEMMA Before ==
  ASSUME NEW a \in Arenas, NEW B, Tiled(a, B), NEW h \in B \cup {a.end}, h # a.start
  PROVE  \E b \in B : Following(a, b) = h
<1> DEFINE Dist == {h - b : b \in {b \in B : b < h}}
<1>0. h \in Nat /\ a.start \in B /\ h <= a.end
  <2>1. CASE h = a.end
    BY <2>1, HeapNumbers DEF Tiled
  <2>2. CASE h \in B
    BY <2>2, HeapNumbers DEF Tiled
  <2> QED
    BY <2>1, <2>2
<1>1. Dist \in SUBSET Nat /\ Dist # {}
  <2>1. \A b \in B : b < h => h - b \in Nat
    BY <1>0, HeapNumbers
  <2>2. a.start \in B /\ a.start < h
    BY <1>0, HeapNumbers
  <2> QED
    BY <2>1, <2>2
<1>2. PICK d \in Dist : \A x \in Dist : d <= x
  <2> HIDE DEF Dist
  <2> QED
    BY <1>1, SmallestNumber
<1>3. PICK b \in B : b < h /\ d = h - b
  OBVIOUS
<1>4. /\ b \in Nat /\ Size(a, b) \in Nat /\ Size(a, b) >= 3
      /\ Following(a, b) = b + Size(a, b) /\ Following(a, b) \in B \cup {a.end}
  BY HeapNumbers
<1>5. ~ Following(a, b) < h
  <2> SUFFICES ASSUME Following(a, b) < h PROVE FALSE
    OBVIOUS
  <2>1. Following(a, b) \in B
    BY <1>0, <1>4, HeapNumbers
  <2>2. h - Following(a, b) \in Dist
    BY <2>1
  <2>3. h - b <= h - Following(a, b)
    BY <1>2, <1>3, <2>2
  <2> QED
    BY <1>0, <1>4, <2>3
<1>6. Following(a, b) <= h
  <2>1. CASE h = a.end
    BY <2>1, HeapNumbers
  <2>2. CASE h \in B
    BY <1>3, <1>4, <2>2, HeapNumbers
  <2> QED
    BY <2>1, <2>2
<1> QED
  BY <1>0, <1>4, <1>5, <1>6

\* The word before the one that follows a block, and its links, are inside the block.
LEMMA Inside ==
  ASSUME NEW a \in Arenas, NEW B, Tiled(a, B), NEW b \in B, NEW i \in 1 .. Size(a, b) - 1
  PROVE  /\ b + i \in Addresses /\ b + i # a.end /\ b + i \notin B
         /\ \A c \in B : c # b => (b + i < c \/ Following(a, c) <= b + i)
<1>1. /\ b \in Nat /\ b \in Addresses /\ Size(a, b) \in Nat /\ b + Size(a, b) <= a.end
      /\ a.end \in Addresses /\ b + i < a.end
  BY HeapNumbers
<1>2. b + i \in Addresses
  BY <1>1, NoAddress
<1>3. ASSUME NEW c \in B
      PROVE  c # b + i /\ (c # b => (b + i < c \/ Following(a, c) <= b + i))
  <2>1. c \in Nat /\ Following(a, c) = c + Size(a, c) /\ Size(a, c) \in Nat /\ Size(a, c) >= 3
    BY HeapNumbers
  <2>2. b < c => b + Size(a, b) <= c
    BY HeapNumbers
  <2>3. c < b => c + Size(a, c) <= b
    BY HeapNumbers
  <2> QED
    BY <1>1, <2>1, <2>2, <2>3
<1> QED
  BY <1>1, <1>2, <1>3

--------------------------------------------------------------------------------
\* A run of words filled with other blocks.

\* The blocks N fill the words from lo to hi and agree with what follows them.
Filling(a, N, lo, hi) ==
  /\ N \in SUBSET Addresses /\ lo \in N
  /\ \A n \in N : /\ lo <= n /\ n < hi
                  /\ MinBlock <= Size(a, n) /\ Following(a, n) \in N \cup {hi}
  /\ \A n, k \in N : n < k => Following(a, n) <= k
  /\ \A n \in N : Agree(a, n)

Refilled(B, N, lo, hi) == {b \in B : b < lo} \cup N \cup {b \in B : hi <= b}

\* From a to a2 nothing changes but the words from lo to hi, which N fills in a2; hi
\* is a block, which keeps its size and its state, or the end of the heap, which may
\* have moved up.
Refill(a, a2, B, N, lo, hi) ==
  /\ a2.start = a.start /\ lo \in B \cup {a.end} /\ lo # a.start
  /\ hi \in B \cup {a.end, a2.end} /\ lo < hi
  /\ a2.end = a.end \/ (hi = a2.end /\ a.end < hi)
  /\ a2.end \in Addresses /\ IsEpilogue(a2, a2.end) /\ ~Free(a2, a2.end)
  /\ \A x \in Addresses : x < lo \/ hi < x => a2.mem[x] = a.mem[x]
  /\ hi \in B => Size(a2, hi) = Size(a, hi) /\ AllocOf(a2.mem[hi]) = AllocOf(a.mem[hi])
  /\ Filling(a2, N, lo, hi)
  /\ \A b \in B : Following(a, b) = lo => Agree(a2, b)

\* The blocks below lo and from hi on are as they were.
LEMMA Around ==
  ASSUME NEW a \in Arenas, NEW a2 \in Arenas, NEW B, NEW N, NEW lo, NEW hi,
         Tiled(a, B), Refill(a, a2, B, N, lo, hi)
  PROVE  /\ lo \in Nat /\ hi \in Nat /\ lo < hi /\ a.start < lo
         /\ hi \in B \cup {a2.end} /\ hi <= a2.end /\ a2.end \in Nat
         /\ \A b \in B : b < lo => /\ a2.mem[b] = a.mem[b] /\ Following(a, b) <= lo
                                   /\ Following(a, b) < lo => Following(a, b) \in B
         /\ \A b \in B : hi <= b => a2.end = a.end
         /\ \A b \in B : b < lo \/ hi <= b =>
              /\ Size(a2, b) = Size(a, b) /\ AllocOf(a2.mem[b]) = AllocOf(a.mem[b])
              /\ Following(a2, b) = Following(a, b) /\ (Free(a2, b) <=> Free(a, b))
<1>1. /\ a.end \in Nat /\ a2.end \in Nat /\ \A b \in B : b \in Nat /\ b < a.end
      /\ \A b \in B : Following(a, b) \in Nat /\ Following(a, b) <= a.end /\ b \in Addresses
  BY HeapNumbers, NoAddress DEF Refill
<1>2. lo \in Nat /\ hi \in Nat /\ lo < hi
  BY <1>1 DEF Refill
<1>3. a.start < lo
  <2>1. CASE lo = a.end
    BY <1>1, <2>1 DEF Tiled
  <2>2. CASE lo \in B
    BY <1>1, <2>2, HeapNumbers DEF Refill
  <2> QED
    BY <2>1, <2>2 DEF Refill
<1>4. hi \in B \cup {a2.end} /\ hi <= a2.end
  <2>1. CASE hi \in B
    BY <1>1, <1>2, <2>1 DEF Refill
  <2>2. CASE hi \notin B
    BY <1>1, <1>2, <2>2 DEF Refill
  <2> QED
    BY <2>1, <2>2
<1>5. ASSUME NEW b \in B, hi <= b PROVE a2.end = a.end
  BY <1>1, <1>2, <1>5 DEF Refill
<1>6. ASSUME NEW b \in B, b < lo
      PROVE  /\ a2.mem[b] = a.mem[b] /\ Following(a, b) <= lo
             /\ Following(a, b) < lo => Following(a, b) \in B
  <2>1. a2.mem[b] = a.mem[b]
    BY <1>1, <1>6 DEF Refill
  <2>2. CASE lo = a.end
    BY <1>1, <2>1, <2>2 DEF Tiled
  <2>3. CASE lo \in B
    <3>1. Following(a, b) <= lo /\ lo < a.end
      BY <1>1, <1>6, <2>3 DEF Tiled
    <3> QED
      BY <1>1, <1>2, <2>1, <3>1 DEF Tiled
  <2> QED
    BY <2>2, <2>3 DEF Refill
<1>7. ASSUME NEW b \in B, b < lo \/ hi <= b
      PROVE  /\ Size(a2, b) = Size(a, b) /\ AllocOf(a2.mem[b]) = AllocOf(a.mem[b])
             /\ Following(a2, b) = Following(a, b) /\ (Free(a2, b) <=> Free(a, b))
  <2>1. CASE b = hi
    BY <2>1 DEF Refill, Following, Free
  <2>2. CASE b # hi
    <3>1. a2.mem[b] = a.mem[b]
      BY <1>1, <1>2, <1>7, <2>2 DEF Refill
    <3> QED
      BY <3>1, SameWord
  <2> QED
    BY <2>1, <2>2
<1> QED
  BY <1>1, <1>2, <1>3, <1>4, <1>5, <1>6, <1>7

\* The refilled heap is a row of blocks.
LEMMA RefilledTiled ==
  ASSUME NEW a \in Arenas, NEW a2 \in Arenas, NEW B, NEW N, NEW lo, NEW hi,
         Tiled(a, B), Refill(a, a2, B, N, lo, hi)
  PROVE  Tiled(a2, Refilled(B, N, lo, hi))
<1> DEFINE B2 == Refilled(B, N, lo, hi)
<1>1. /\ lo \in Nat /\ hi \in Nat /\ lo < hi /\ a.start < lo
      /\ hi \in B \cup {a2.end} /\ hi <= a2.end /\ a2.end \in Nat
      /\ \A b \in B : b < lo => Following(a, b) <= lo /\ (Following(a, b) < lo => Following(a, b) \in B)
      /\ \A b \in B : hi <= b => a2.end = a.end
      /\ \A b \in B : b < lo \/ hi <= b => Size(a2, b) = Size(a, b) /\ Following(a2, b) = Following(a, b)
  BY Around
<1>2. /\ a.start \in Nat /\ a.start \in B /\ a.end \in Nat
      /\ \A b \in B : /\ b \in Nat /\ b \in Addresses /\ Size(a, b) \in Nat /\ Size(a, b) >= 3
                      /\ Following(a, b) = b + Size(a, b) /\ a.start <= b /\ b < a.end
                      /\ Following(a, b) \in B \cup {a.end}
      /\ \A b, c \in B : b < c => b + Size(a, b) <= c
  BY HeapNumbers DEF Tiled
<1>3. /\ N \in SUBSET Addresses /\ lo \in N
      /\ \A n \in N : /\ n \in Nat /\ lo <= n /\ n < hi
                      /\ MinBlock <= Size(a2, n) /\ Following(a2, n) \in N \cup {hi}
                      /\ Following(a2, n) \in Nat
      /\ \A n, k \in N : n < k => Following(a2, n) <= k
  BY NoAddress, Reads DEF Refill, Filling
<1>4. B2 \in SUBSET Addresses /\ a2.start \in B2 /\ a2.end \in Addresses
  BY <1>1, <1>2, <1>3 DEF Refill, Refilled
<1>5. ASSUME NEW b \in B2
      PROVE  /\ a2.start <= b /\ b < a2.end
             /\ MinBlock <= Size(a2, b) /\ Following(a2, b) \in B2 \cup {a2.end}
  <2>0. a2.start = a.start
    BY DEF Refill
  <2>1. CASE b \in B /\ b < lo
    <3>1. Following(a2, b) = Following(a, b) /\ Size(a2, b) = Size(a, b)
      BY <1>1, <2>1
    <3>2. Following(a2, b) \in B2
      <4>1. CASE Following(a, b) < lo
        BY <1>1, <2>1, <3>1, <4>1 DEF Refilled
      <4>2. CASE Following(a, b) = lo
        BY <1>3, <3>1, <4>2 DEF Refilled
      <4> QED
        BY <1>1, <1>2, <2>1, <4>1, <4>2
    <3> QED
      BY <1>1, <1>2, <2>0, <2>1, <3>1, <3>2 DEF MinBlock
  <2>2. CASE b \in N
    <3>1. Following(a2, b) \in B2 \cup {a2.end}
      BY <1>1, <1>3, <2>2 DEF Refilled
    <3> QED
      BY <1>1, <1>2, <1>3, <2>0, <2>2, <3>1
  <2>3. CASE b \in B /\ hi <= b
    <3>1. Following(a2, b) = Following(a, b) /\ Size(a2, b) = Size(a, b) /\ a2.end = a.end
      BY <1>1, <2>3
    <3>2. hi <= Following(a, b)
      BY <1>1, <1>2, <2>3
    <3> QED
      BY <1>1, <1>2, <2>0, <2>3, <3>1, <3>2 DEF MinBlock, Refilled
  <2> QED
    BY <2>1, <2>2, <2>3 DEF Refilled
<1>6. ASSUME NEW b \in B2, NEW c \in B2, b < c
      PROVE  Following(a2, b) <= c
  <2>0. \A n \in N : Following(a2, n) <= hi
    <3> SUFFICES ASSUME NEW n \in N PROVE Following(a2, n) <= hi
      OBVIOUS
    <3>1. CASE Following(a2, n) \in N
      BY <1>1, <1>3, <3>1
    <3>2. CASE Following(a2, n) = hi
      BY <1>1, <3>2
    <3> QED
      BY <1>3, <3>1, <3>2
  <2>1. CASE b \in B /\ b < lo
    <3>1. Following(a2, b) = b + Size(a, b) /\ Following(a2, b) <= lo /\ Following(a2, b) \in Nat
      BY <1>1, <1>2, <2>1
    <3>2. CASE c \in B /\ c < lo
      BY <1>2, <1>6, <2>1, <3>1, <3>2
    <3>3. CASE c \in N
      BY <1>1, <1>3, <3>1, <3>3
    <3>4. CASE c \in B /\ hi <= c
      BY <1>1, <1>2, <3>1, <3>4
    <3> QED
      BY <3>2, <3>3, <3>4 DEF Refilled
  <2>2. CASE b \in N
    <3>1. CASE c \in B /\ c < lo
      BY <1>1, <1>2, <1>3, <1>6, <2>2, <3>1
    <3>2. CASE c \in N
      BY <1>3, <1>6, <2>2, <3>2
    <3>3. CASE c \in B /\ hi <= c
      <4>1. c \in Nat /\ hi \in Nat /\ Following(a2, b) \in Nat /\ Following(a2, b) <= hi
        BY <1>1, <1>2, <1>3, <2>0, <2>2, <3>3
      <4> QED
        BY <3>3, <4>1
    <3> QED
      BY <3>1, <3>2, <3>3 DEF Refilled
  <2>3. CASE b \in B /\ hi <= b
    <3>1. Following(a2, b) = b + Size(a, b)
      BY <1>1, <1>2, <2>3
    <3>2. c \in B
      BY <1>1, <1>2, <1>3, <1>6, <2>3 DEF Refilled
    <3> QED
      BY <1>2, <1>6, <2>3, <3>1, <3>2
  <2> QED
    BY <2>1, <2>2, <2>3 DEF Refilled
<1> QED
  BY <1>4, <1>5, <1>6 DEF Tiled

\* The refilled heap is a heap.
LEMMA Retiled ==
  ASSUME NEW a \in Arenas, NEW a2 \in Arenas, NEW B, NEW N, NEW lo, NEW hi,
         Heap(a, B), Refill(a, a2, B, N, lo, hi)
  PROVE  Heap(a2, Refilled(B, N, lo, hi))
<1>1. /\ lo \in Nat /\ hi \in Nat /\ lo < hi /\ a.start < lo /\ a2.end \in Nat /\ hi <= a2.end
      /\ \A b \in B : b < lo => /\ a2.mem[b] = a.mem[b] /\ Following(a, b) <= lo
                                /\ Following(a, b) < lo => Following(a, b) \in B
      /\ \A b \in B : hi <= b => a2.end = a.end
      /\ \A b \in B : b < lo \/ hi <= b =>
           /\ Size(a2, b) = Size(a, b) /\ AllocOf(a2.mem[b]) = AllocOf(a.mem[b])
           /\ Following(a2, b) = Following(a, b) /\ (Free(a2, b) <=> Free(a, b))
  BY Around DEF Heap
<1>2. /\ a.start \in B /\ a.end \in Nat /\ a.end \in Addresses
      /\ \A b \in B : /\ b \in Nat /\ b \in Addresses /\ Size(a, b) \in Nat /\ Size(a, b) >= 3
                      /\ Following(a, b) = b + Size(a, b) /\ b < a.end
                      /\ Following(a, b) \in B \cup {a.end}
  BY HeapNumbers DEF Heap, Tiled
<1>3. ASSUME NEW b \in Refilled(B, N, lo, hi) PROVE Agree(a2, b)
  <2> DEFINE n == Following(a, b)
  <2>1. CASE b \in N
    BY <2>1 DEF Refill, Filling
  <2>2. CASE b \in B /\ b < lo /\ n = lo
    BY <2>2 DEF Refill
  <2>3. ASSUME b \in B, (b < lo /\ n # lo) \/ hi <= b
        PROVE  Agree(a2, b)
    <3>1. /\ Size(a2, b) = Size(a, b) /\ AllocOf(a2.mem[b]) = AllocOf(a.mem[b])
          /\ Following(a2, b) = n /\ (Free(a2, b) <=> Free(a, b))
      BY <1>1, <2>3
    <3>2. n \in Nat /\ n \in Addresses /\ n - 1 \in Addresses /\ n - 1 = b + (Size(a, b) - 1)
      <4>1. Size(a, b) - 1 \in 1 .. Size(a, b) - 1
        BY <1>2, <2>3
      <4>2. b + (Size(a, b) - 1) \in Addresses
        BY <2>3, <4>1, Inside DEF Heap
      <4> QED
        BY <1>2, <2>3, <4>2
    <3>3. a2.mem[n] = a.mem[n] /\ a2.mem[n - 1] = a.mem[n - 1]
      <4>1. n < lo \/ (hi < n /\ hi < n - 1)
        BY <1>1, <1>2, <2>3, <3>2
      <4>2. (n < lo \/ hi < n) /\ (n - 1 < lo \/ hi < n - 1)
        BY <1>1, <3>2, <4>1
      <4> QED
        BY <3>2, <4>2 DEF Refill
    <3>4. n # a2.end => n # a.end
      <4>1. CASE hi <= b
        BY <1>1, <2>3, <4>1
      <4>2. CASE b < lo /\ n # lo
        <5>1. n \in B
          BY <1>1, <1>2, <2>3, <4>2
        <5> QED
          BY <1>2, <5>1
      <4> QED
        BY <2>3, <4>1, <4>2
    <3>5. Agree(a, b)
      BY <2>3 DEF Heap
    <3> QED
      <4>1. FooterTrimmed(a, b) => FooterTrimmed(a2, b)
        BY <3>1, <3>3, <3>4, SameTrimmed
      <4> QED
        BY <3>1, <3>3, <3>4, <3>5, <4>1, SameWord DEF Agree
  <2> QED
    BY <1>1, <2>1, <2>2, <2>3 DEF Refilled
<1>4. ~Free(a2, a2.start) /\ IsEpilogue(a2, a2.end) /\ ~Free(a2, a2.end)
  BY <1>1, <1>2 DEF Refill, Heap
<1> QED
  BY <1>3, <1>4, RefilledTiled DEF Heap

--------------------------------------------------------------------------------
\* What the walks of the code find.

Steps == MaxCap \div MinBlock

\* The steps are numbers, and they suffice for blocks of three words side by side.
LEMMA StepsEnough ==
  /\ Steps \in Nat
  /\ \A n \in Nat : 3 * n < MaxCap => n <= Steps
BY NoAddress DEF Steps, MinBlock

\* The walk over the blocks, step by step.
LEMMA WalkSteps ==
  ASSUME NEW a \in Arenas, a.start \in Addresses
  PROVE  /\ Walk(a) \in [0 .. Steps + 1 -> Addresses] /\ Walk(a)[0] = a.start
         /\ \A n \in 0 .. Steps : Walk(a)[n + 1] = IF Following(a, Walk(a)[n]) \in Addresses
                                                   THEN Following(a, Walk(a)[n]) ELSE Walk(a)[n]
<1> DEFINE after == [h \in Addresses |->
                       IF Following(a, h) \in Addresses THEN Following(a, h) ELSE h]
           w == Walk(a)
<1>1. w = CHOOSE g : Leads(after, a.start, Steps + 1, g)
  BY DEF Walk, Steps, Leads
<1>2. Closed(after, Addresses) /\ Steps + 1 \in Nat
  BY StepsEnough DEF Closed
<1>3. \A h \in Addresses : after[h] = IF Following(a, h) \in Addresses THEN Following(a, h) ELSE h
  OBVIOUS
<1> HIDE DEF after, w
<1>4. Leads(after, a.start, Steps + 1, w)
  BY <1>1, <1>2, Iterated
<1>5. /\ w \in [0 .. Steps + 1 -> Addresses] /\ w[0] = a.start
      /\ \A n \in Nat : n + 1 <= Steps + 1 => w[n + 1] = after[w[n]]
  BY <1>2, <1>4, IteratedStays
<1>6. \A n \in 0 .. Steps : w[n] \in Addresses /\ w[n + 1] = after[w[n]]
  BY <1>5, StepsEnough
<1> QED
  BY <1>3, <1>5, <1>6 DEF w

\* The walk stays on the blocks and ends at heap_end; it comes to every one.
LEMMA WalkOn ==
  ASSUME NEW a \in Arenas, NEW B, Heap(a, B)
  PROVE  /\ Walk(a) \in [0 .. Steps + 1 -> B \cup {a.end}] /\ Walk(a)[0] = a.start
         /\ \A n \in 0 .. Steps : /\ Walk(a)[n] \in B => Walk(a)[n + 1] = Following(a, Walk(a)[n])
                                  /\ Walk(a)[n] = a.end => Walk(a)[n + 1] = a.end
         /\ \A b \in B \cup {a.end} : \E n \in 0 .. Steps + 1 : Walk(a)[n] = b
<1> DEFINE w == Walk(a)
<1>1. /\ a.start = Base /\ a.start \in B /\ a.end \in Nat /\ a.end \in Addresses /\ a.end \notin B
      /\ \A b \in B : /\ b \in Nat /\ b \in Addresses /\ Size(a, b) \in Nat /\ Size(a, b) >= 3
                      /\ Following(a, b) = b + Size(a, b)
                      /\ Following(a, b) \in B \cup {a.end} /\ Following(a, b) \in Addresses
                      /\ a.start <= b /\ b < a.end
  BY HeapNumbers DEF Heap, Tiled
<1>2. Following(a, a.end) = a.end
  <2>1. Size(a, a.end) = 0 /\ Following(a, a.end) = a.end + 0
    BY <1>1, Reads DEF Heap
  <2> QED
    BY <1>1, <2>1
<1>3. /\ w \in [0 .. Steps + 1 -> Addresses] /\ w[0] = a.start /\ Steps \in Nat
      /\ \A n \in 0 .. Steps : w[n + 1] = IF Following(a, w[n]) \in Addresses
                                          THEN Following(a, w[n]) ELSE w[n]
  BY <1>1, WalkSteps, StepsEnough
<1> HIDE DEF w
<1>4. \A n \in 0 .. Steps : /\ w[n] \in B => w[n + 1] = Following(a, w[n])
                            /\ w[n] = a.end => w[n + 1] = a.end
  BY <1>1, <1>2, <1>3
<1> DEFINE Off == {n \in 0 .. Steps + 1 : ~(w[n] = a.end \/ (w[n] \in B /\ w[n] >= a.start + 3 * n))}
<1>5. Off = {}
  <2> SUFFICES ASSUME Off # {} PROVE FALSE
    OBVIOUS
  <2>1. Off \in SUBSET Nat
    BY <1>3
  <2>2. PICK m \in Off : \A k \in Off : m <= k
    <3> HIDE DEF Off
    <3> QED
      BY <2>1, SmallestNumber
  <2>3. m \in 0 .. Steps + 1 /\ m # 0
    BY <1>1, <1>3
  <2>4. m - 1 \in 0 .. Steps + 1 /\ m - 1 \in 0 .. Steps /\ m - 1 \notin Off
    <3>1. m - 1 \in 0 .. Steps + 1 /\ m - 1 \in 0 .. Steps /\ ~ m <= m - 1
      BY <1>3, <2>3
    <3> HIDE DEF Off
    <3> QED
      BY <2>2, <3>1
  <2> DEFINE k == m - 1
  <2>5. k \in Nat /\ m = k + 1 /\ k \in 0 .. Steps
    BY <2>3, <2>4
  <2>6. w[k] = a.end \/ (w[k] \in B /\ w[k] >= a.start + 3 * k)
    BY <2>4
  <2> HIDE DEF k
  <2>7. CASE w[k] = a.end
    BY <1>4, <2>5, <2>7
  <2>8. CASE w[k] \in B /\ w[k] >= a.start + 3 * k
    <3>1. w[m] = Following(a, w[k]) /\ w[m] \in B \cup {a.end}
      BY <1>1, <1>4, <2>5, <2>8
    <3>2. w[m] >= a.start + 3 * m
      BY <1>1, <2>5, <2>8, <3>1
    <3> QED
      BY <3>1, <3>2
  <2> QED
    BY <2>6, <2>7, <2>8
<1>6. \A n \in 0 .. Steps + 1 : w[n] = a.end \/ (w[n] \in B /\ w[n] >= a.start + 3 * n)
  BY <1>5
<1> DEFINE Met == {w[n] : n \in 0 .. Steps + 1}
           Missed == {b \in B : b \notin Met}
<1>7. ASSUME NEW b \in B, b \in Met PROVE Following(a, b) \in Met
  <2>1. PICK n \in 0 .. Steps + 1 : w[n] = b
    BY <1>7
  <2>2. b < Base + MaxCap /\ b >= a.start + 3 * n /\ b \in Nat
    BY <1>1, <1>6, <2>1, NoAddress
  <2>3. n <= Steps
    <3>1. n \in Nat /\ 3 * n < MaxCap
      BY <1>1, <1>3, <2>2, NoAddress
    <3> QED
      BY <3>1, StepsEnough
  <2>4. n \in 0 .. Steps /\ n + 1 \in 0 .. Steps + 1
    BY <1>3, <2>3
  <2> QED
    BY <1>4, <2>1, <2>4
<1>8. a.start \in Met
  BY <1>3
<1>9. Missed = {}
  <2> SUFFICES ASSUME Missed # {} PROVE FALSE
    OBVIOUS
  <2>1. PICK b \in Missed : \A c \in Missed : b <= c
    <3>1. Missed \in SUBSET Nat
      BY <1>1
    <3> HIDE DEF Missed
    <3> QED
      BY <3>1, SmallestNumber
  <2>2. b \in B /\ b \notin Met /\ b # a.start
    BY <1>8
  <2>3. PICK c \in B : Following(a, c) = b
    BY <2>2, Before DEF Heap
  <2>4. c < b
    BY <1>1, <2>3
  <2>5. c \notin Missed
    <3>1. c \in Nat /\ b \in Nat /\ ~ b <= c
      BY <1>1, <2>2, <2>4
    <3> HIDE DEF Missed
    <3> QED
      BY <2>1, <3>1
  <2>6. c \in Met
    BY <2>5
  <2> HIDE DEF Met
  <2> QED
    BY <1>7, <2>2, <2>3, <2>6
<1>10. a.end \in Met
  <2>1. PICK b \in B : Following(a, b) = a.end
    BY <1>1, Before DEF Heap
  <2>2. b \in Met
    BY <1>9
  <2> HIDE DEF Met
  <2> QED
    BY <1>7, <2>1, <2>2
<1>11. \A b \in B \cup {a.end} : \E n \in 0 .. Steps + 1 : w[n] = b
  BY <1>9, <1>10
<1>12. w \in [0 .. Steps + 1 -> B \cup {a.end}]
  BY <1>3, <1>6
<1> QED
  BY <1>3, <1>4, <1>11, <1>12 DEF w

\* The walk of the code finds the blocks.
LEMMA BlocksFound ==
  ASSUME NEW a \in Arenas, NEW B, Heap(a, B)
  PROVE  Blocks(a) = B
<1> DEFINE w == Walk(a)
<1>1. /\ w \in [0 .. Steps + 1 -> B \cup {a.end}]
      /\ \A b \in B \cup {a.end} : \E n \in 0 .. Steps + 1 : w[n] = b
  BY WalkOn
<1>2. a.start # NULL
  BY HeapNumbers, NoAddress DEF Heap
<1>3. Blocks(a) = {h \in {w[n] : n \in DOMAIN w} : ~IsEpilogue(a, h)}
  BY <1>2 DEF Blocks
<1> HIDE DEF w
<1>4. \A b \in B : ~IsEpilogue(a, b)
  <2> SUFFICES ASSUME NEW b \in B PROVE ~IsEpilogue(a, b)
    OBVIOUS
  <2>1. Size(a, b) \in Nat /\ Size(a, b) >= 3
    BY HeapNumbers DEF Heap
  <2> QED
    BY <2>1 DEF IsEpilogue
<1>5. IsEpilogue(a, a.end)
  BY DEF Heap
<1> QED
  BY <1>1, <1>3, <1>4, <1>5

\* at follows the links from f and stays in T.
Follows(a, f, T, at) ==
  /\ at \in [0 .. Steps -> T] /\ at[0] = f
  /\ \A n \in 0 .. Steps : n + 1 <= Steps =>
       at[n + 1] = IF at[n] = NULL THEN NULL ELSE a.mem[at[n] + 1]

\* The walk over a free list, step by step.
LEMMA ListSteps ==
  ASSUME NEW a \in Arenas, NEW S \in SUBSET Addresses, NEW f \in S \cup {NULL},
         \A b \in S : a.mem[b + 1] \in S \cup {NULL}
  PROVE  Follows(a, f, S \cup {NULL}, List(a, f))
<1> DEFINE after == [b \in Addresses \cup {NULL} |-> IF b = NULL THEN NULL ELSE a.mem[b + 1]]
           at == List(a, f)
<1>1. at = CHOOSE g : Leads(after, f, Steps, g)
  BY DEF List, Steps, Leads
<1>2. Closed(after, S \cup {NULL}) /\ Steps \in Nat
  BY StepsEnough DEF Closed
<1>3. \A b \in S \cup {NULL} : after[b] = IF b = NULL THEN NULL ELSE a.mem[b + 1]
  OBVIOUS
<1> HIDE DEF after, at
<1>4. Leads(after, f, Steps, at)
  BY <1>1, <1>2, Iterated
<1>5. /\ at \in [0 .. Steps -> S \cup {NULL}] /\ at[0] = f
      /\ \A n \in Nat : n + 1 <= Steps => at[n + 1] = after[at[n]]
  BY <1>2, <1>4, IteratedStays
<1>6. \A n \in 0 .. Steps : n \in Nat /\ at[n] \in S \cup {NULL}
  BY <1>5
<1>7. Follows(a, f, S \cup {NULL}, at)
  BY <1>3, <1>5, <1>6 DEF Follows
<1> QED
  BY <1>7 DEF at

\* A list in order comes to NULL, after every one of its blocks.
LEMMA ListFound ==
  ASSUME NEW a \in Arenas, NEW B, Tiled(a, B), NEW S \in SUBSET B, NEW f, Chain(a.mem, f, S)
  PROVE  /\ List(a, f) \in [0 .. Steps -> S \cup {NULL}]
         /\ {List(a, f)[n] : n \in DOMAIN List(a, f)} \ {NULL} = S
         /\ f = NULL => S = {}
<1> DEFINE at == List(a, f)
<1>0. PICK rank : Linking(a.mem, f, S, rank)
  BY DEF Chain
<1>1. /\ S \in SUBSET Addresses /\ f \in S \cup {NULL} /\ NULL \notin S
      /\ \A b \in S : /\ a.mem[b + 1] \in S \cup {NULL}
                      /\ a.mem[b + 1] \in S => rank[b] < rank[a.mem[b + 1]]
                      /\ b # f => \E p \in S : a.mem[p + 1] = b
      /\ \A b \in S : rank[b] \in Nat
  BY <1>0, NoAddress DEF Linking, Tiled
<1>2. /\ at \in [0 .. Steps -> S \cup {NULL}] /\ at[0] = f /\ Steps \in Nat
      /\ \A n \in 0 .. Steps : n + 1 <= Steps =>
           at[n + 1] = IF at[n] = NULL THEN NULL ELSE a.mem[at[n] + 1]
  <2>1. /\ S \in SUBSET Addresses /\ f \in S \cup {NULL}
        /\ \A b \in S : a.mem[b + 1] \in S \cup {NULL}
    BY <1>1
  <2>2. Follows(a, f, S \cup {NULL}, at)
    BY <2>1, ListSteps
  <2> HIDE DEF at
  <2> QED
    BY <2>2, StepsEnough DEF Follows
<1> HIDE DEF at
<1>3. ASSUME NEW n \in 0 .. Steps
      PROVE  \A m \in 0 .. Steps : n < m /\ at[m] # NULL => at[n] # NULL /\ rank[at[n]] < rank[at[m]]
  <2> DEFINE Bad == {m \in 0 .. Steps : n < m /\ at[m] # NULL
                                        /\ ~(at[n] # NULL /\ rank[at[n]] < rank[at[m]])}
  <2> SUFFICES ASSUME Bad # {} PROVE FALSE
    OBVIOUS
  <2>1. PICK m \in Bad : \A k \in Bad : m <= k
    <3>1. Bad \in SUBSET Nat
      OBVIOUS
    <3> HIDE DEF Bad
    <3> QED
      BY <3>1, SmallestNumber
  <2> DEFINE k == m - 1
  <2>2. /\ m \in 0 .. Steps /\ n < m /\ at[m] # NULL
        /\ k \in 0 .. Steps /\ k + 1 <= Steps /\ m = k + 1 /\ n <= k
    BY <1>2
  <2>3. k \notin Bad
    <3>1. ~ m <= k
      BY <2>2
    <3> HIDE DEF Bad
    <3> QED
      BY <2>1, <3>1
  <2> HIDE DEF k
  <2>4. at[k] # NULL /\ at[m] = a.mem[at[k] + 1] /\ at[k] \in S /\ at[m] \in S
    BY <1>2, <2>2
  <2>5. rank[at[k]] < rank[at[m]] /\ rank[at[k]] \in Nat /\ rank[at[m]] \in Nat
    BY <1>1, <2>4
  <2>6. CASE n = k
    BY <2>4, <2>5, <2>6
  <2>7. CASE n # k
    <3>1. at[n] # NULL /\ rank[at[n]] < rank[at[k]]
      BY <2>2, <2>3, <2>4, <2>7
    <3>2. rank[at[n]] \in Nat
      BY <1>1, <1>2, <3>1
    <3> QED
      BY <2>5, <3>1, <3>2
  <2> QED
    BY <2>6, <2>7
<1>4. \E n \in 0 .. Steps : at[n] = NULL
  <2> SUFFICES ASSUME \A n \in 0 .. Steps : at[n] # NULL PROVE FALSE
    OBVIOUS
  <2> DEFINE place == [n \in 0 .. Steps |-> (at[n] - Base) \div 3]
  <2>1. \A n \in 0 .. Steps : /\ at[n] \in S /\ at[n] \in B /\ at[n] \in Nat
                              /\ Base <= at[n] /\ at[n] + 3 <= a.end
    <3>1. \A n \in 0 .. Steps : at[n] \in S
      BY <1>2
    <3>2. \A b \in B : b \in Nat /\ Base <= b /\ b + 3 <= a.end
      <4> SUFFICES ASSUME NEW b \in B PROVE b \in Nat /\ Base <= b /\ b + 3 <= a.end
        OBVIOUS
      <4>1. /\ b \in Nat /\ a.start = Base /\ a.start <= b /\ Size(a, b) \in Nat /\ Size(a, b) >= 3
            /\ Following(a, b) = b + Size(a, b) /\ Following(a, b) <= a.end /\ a.end \in Nat
        BY HeapNumbers
      <4> QED
        BY <4>1
    <3> QED
      BY <3>1, <3>2
  <2>2. a.end \in Nat /\ a.end <= Base + MaxCap - 1 /\ Base \in Nat /\ MaxCap \in Nat
    BY HeapNumbers, NoAddress
  <2>3. \A n \in 0 .. Steps : (at[n] - Base) \div 3 \in 0 .. Steps - 1
    <3> SUFFICES ASSUME NEW n \in 0 .. Steps PROVE (at[n] - Base) \div 3 \in 0 .. Steps - 1
      OBVIOUS
    <3>1. at[n] - Base \in Nat /\ at[n] - Base + 4 <= MaxCap
      BY <2>1, <2>2
    <3> QED
      BY <2>2, <3>1 DEF Steps, MinBlock
  <2>4. place \in [0 .. Steps -> 0 .. Steps - 1]
    BY <2>3
  <2>5. /\ IsFiniteSet(0 .. Steps) /\ IsFiniteSet(0 .. Steps - 1)
        /\ Cardinality(0 .. Steps - 1) < Cardinality(0 .. Steps)
    <3>1. Steps \in Int /\ Steps - 1 \in Int /\ 0 \in Int /\ Steps \in Nat
      BY <1>2
    <3>2. IsFiniteSet(0 .. Steps) /\ Cardinality(0 .. Steps) = IF 0 > Steps THEN 0 ELSE Steps - 0 + 1
      BY <3>1, FS_Interval
    <3>3. /\ IsFiniteSet(0 .. Steps - 1)
          /\ Cardinality(0 .. Steps - 1) = IF 0 > Steps - 1 THEN 0 ELSE (Steps - 1) - 0 + 1
      BY <3>1, FS_Interval
    <3> QED
      BY <3>1, <3>2, <3>3
  <2>6. PICK x, y \in 0 .. Steps : x # y /\ place[x] = place[y]
    <3> HIDE DEF place
    <3> QED
      BY <2>4, <2>5, FS_PigeonHole
  <2>7. ASSUME NEW n \in 0 .. Steps, NEW m \in 0 .. Steps, n < m, place[n] = place[m]
        PROVE  FALSE
    <3>1. rank[at[n]] < rank[at[m]] /\ rank[at[n]] \in Nat
      BY <1>1, <1>3, <2>1, <2>7
    <3>2. at[n] # at[m]
      BY <3>1
    <3>3. at[n] + 3 <= at[m] \/ at[m] + 3 <= at[n]
      <4>1. \A b, c \in B : b < c => b + 3 <= c
        <5> SUFFICES ASSUME NEW b \in B, NEW c \in B, b < c PROVE b + 3 <= c
          OBVIOUS
        <5>1. b \in Nat /\ c \in Nat /\ Size(a, b) \in Nat /\ Size(a, b) >= 3 /\ b + Size(a, b) <= c
          BY HeapNumbers
        <5> QED
          BY <5>1
      <4> QED
        BY <2>1, <3>2, <4>1
    <3>4. (at[n] - Base) \div 3 = (at[m] - Base) \div 3
      BY <2>7
    <3>5. at[n] - Base \in Nat /\ at[m] - Base \in Nat
      BY <2>1, <2>2
    <3> QED
      BY <2>1, <2>2, <3>3, <3>4, <3>5
  <2> QED
    BY <2>6, <2>7
<1> DEFINE Met == {at[n] : n \in 0 .. Steps} \ {NULL}
           Missed == {b \in S : b \notin Met}
<1>5. ASSUME NEW p \in S, p \in Met, a.mem[p + 1] \in S PROVE a.mem[p + 1] \in Met
  <2>1. PICK n \in 0 .. Steps : at[n] = p
    BY <1>5
  <2>2. PICK last \in 0 .. Steps : at[last] = NULL
    BY <1>4
  <2>3. n < last
    <3>1. ~(last < n)
      BY <1>1, <1>3, <2>1, <2>2
    <3>2. last # n
      BY <1>1, <2>1, <2>2
    <3> QED
      BY <1>2, <3>1, <3>2
  <2>4. n + 1 \in 0 .. Steps /\ n + 1 <= Steps
    BY <1>2, <2>3
  <2>5. at[n + 1] = a.mem[p + 1]
    BY <1>1, <1>2, <2>1, <2>4
  <2> QED
    BY <1>1, <1>5, <2>4, <2>5
<1>6. Missed = {}
  <2> SUFFICES ASSUME Missed # {} PROVE FALSE
    OBVIOUS
  <2> DEFINE Ranks == {rank[b] : b \in Missed}
  <2>1. PICK r \in Ranks : \A k \in Ranks : r <= k
    <3>1. Ranks \in SUBSET Nat /\ Ranks # {}
      BY <1>1
    <3> HIDE DEF Ranks
    <3> QED
      BY <3>1, SmallestNumber
  <2>2. PICK b \in Missed : r = rank[b]
    BY <2>1
  <2>3. b \in S /\ b \notin Met
    OBVIOUS
  <2>4. b # f
    <3>1. 0 \in 0 .. Steps
      BY <1>2
    <3> QED
      BY <1>1, <1>2, <2>3, <3>1
  <2>5. PICK p \in S : a.mem[p + 1] = b
    BY <1>1, <2>3, <2>4
  <2>6. rank[p] < rank[b] /\ rank[p] \in Nat /\ rank[b] \in Nat
    BY <1>1, <2>3, <2>5
  <2>7. p \notin Met
    <3> HIDE DEF Met
    <3> QED
      BY <1>5, <2>3, <2>5
  <2>8. rank[p] \in Ranks
    BY <2>7
  <2> HIDE DEF Ranks
  <2> QED
    BY <2>1, <2>2, <2>6, <2>8
<1>7. Met = S
  <2>1. \A b \in Met : b \in S
    BY <1>2
  <2> QED
    BY <1>6, <2>1
<1>8. f = NULL => S = {}
  <2> SUFFICES ASSUME f = NULL PROVE Met = {}
    BY <1>7
  <2>1. \A n \in 0 .. Steps : n = 0 \/ 0 < n
    BY <1>2
  <2>2. 0 \in 0 .. Steps
    BY <1>2
  <2> QED
    BY <1>2, <1>3, <2>1, <2>2
<1>9. DOMAIN at = 0 .. Steps
  BY <1>2
<1> QED
  BY <1>2, <1>7, <1>8, <1>9 DEF at

\* The walk of the code finds the blocks of each free list.
LEMMA ListedIs ==
  ASSUME NEW a \in Arenas, NEW B, Tiled(a, B), NEW S \in SUBSET B, Listing(a, S),
         NEW cls \in 1 .. NumClasses
  PROVE  Listed(a, cls) = OfClass(a, cls, S)
<1> DEFINE T == OfClass(a, cls, S)
           f == a.bucket[cls]
<1>1. Chain(a.mem, f, T) /\ T \in SUBSET B
  BY DEF Listing, OfClass
<1> HIDE DEF T, f
<1>2. {List(a, f)[n] : n \in DOMAIN List(a, f)} \ {NULL} = T /\ (f = NULL => T = {})
  BY <1>1, ListFound
<1>3. Listed(a, cls) = IF f = NULL THEN {} ELSE {List(a, f)[n] : n \in DOMAIN List(a, f)} \ {NULL}
  BY DEF Listed, f
<1> QED
  BY <1>2, <1>3 DEF T

--------------------------------------------------------------------------------
\* Changes of a free list.

\* A list whose links are not touched is as it was.
LEMMA ChainFrame ==
  ASSUME NEW mem, NEW mem2, NEW f, NEW S, Chain(mem, f, S), \A b \in S : mem2[b + 1] = mem[b + 1]
  PROVE  Chain(mem2, f, S)
<1>1. PICK rank : Linking(mem, f, S, rank)
  BY DEF Chain
<1>2. Linking(mem2, f, S, rank)
  BY <1>1 DEF Linking
<1> QED
  BY <1>2 DEF Chain

\* A block put before a list.
LEMMA ChainInsert ==
  ASSUME NEW mem, NEW mem2, NEW f, NEW S, Chain(mem, f, S), NEW h, h \notin S, h # NULL,
         NULL \notin S, mem2[h + 1] = f, \A b \in S : mem2[b + 1] = mem[b + 1]
  PROVE  Chain(mem2, h, S \cup {h})
<1>1. PICK rank : Linking(mem, f, S, rank)
  BY DEF Chain
<1> DEFINE T == S \cup {h}
           rank2 == [b \in T |-> IF b = h THEN 0 ELSE rank[b] + 1]
<1>2. rank \in [S -> Nat] /\ f \in S \cup {NULL}
  BY <1>1 DEF Linking
<1>3. /\ rank2 \in [T -> Nat] /\ rank2[h] = 0
      /\ \A b \in S : rank2[b] = rank[b] + 1 /\ rank[b] \in Nat
  BY <1>2
<1> HIDE DEF rank2
<1>4. ASSUME NEW b \in T
      PROVE  /\ mem2[b + 1] \in T \cup {NULL}
             /\ mem2[b + 1] \in T => rank2[b] < rank2[mem2[b + 1]] /\ mem2[b + 1] # h
             /\ b # h => \E p \in T : mem2[p + 1] = b
  <2>1. CASE b = h
    BY <1>2, <1>3, <2>1
  <2>2. CASE b \in S
    <3>1. /\ mem[b + 1] \in S \cup {NULL}
          /\ mem[b + 1] \in S => rank[b] < rank[mem[b + 1]]
          /\ b # f => \E p \in S : mem[p + 1] = b
      BY <1>1, <2>2 DEF Linking
    <3>2. mem2[b + 1] = mem[b + 1]
      BY <2>2
    <3>3. mem2[b + 1] \in T => mem[b + 1] \in S
      BY <3>1, <3>2
    <3>4. mem2[b + 1] \in T => rank2[b] < rank2[mem2[b + 1]]
      BY <1>3, <2>2, <3>1, <3>2, <3>3
    <3>5. b # h => \E p \in T : mem2[p + 1] = b
      BY <3>1
    <3> QED
      BY <3>1, <3>2, <3>3, <3>4, <3>5
  <2> QED
    BY <2>1, <2>2
<1>5. ASSUME NEW b \in T, NEW c \in T, mem2[b + 1] = mem2[c + 1], mem2[b + 1] # NULL
      PROVE  b = c
  <2>1. \A e \in S : mem[e + 1] # f \/ f = NULL
    BY <1>1 DEF Linking
  <2> QED
    BY <1>1, <1>5, <2>1 DEF Linking
<1>6. Linking(mem2, h, T, rank2)
  BY <1>3, <1>4, <1>5 DEF Linking
<1> QED
  BY <1>6 DEF Chain

\* The first block of a list taken off.
LEMMA ChainBehead ==
  ASSUME NEW mem, NEW mem2, NEW S, NEW h \in S, Chain(mem, h, S), NULL \notin S,
         \A b \in S \ {h} : mem2[b + 1] = mem[b + 1]
  PROVE  Chain(mem2, mem[h + 1], S \ {h})
<1>1. PICK rank : Linking(mem, h, S, rank)
  BY DEF Chain
<1> DEFINE T == S \ {h}
           rank2 == [b \in T |-> rank[b]]
<1>2. /\ rank2 \in [T -> Nat] /\ \A b \in T : rank2[b] = rank[b]
      /\ \A b \in S : rank[b] \in Nat
  BY <1>1 DEF Linking
<1> HIDE DEF rank2
<1>3. /\ \A b \in S : /\ mem[b + 1] \in S \cup {NULL}
                      /\ mem[b + 1] \in S => rank[b] < rank[mem[b + 1]] /\ mem[b + 1] # h
                      /\ b # h => \E p \in S : mem[p + 1] = b
      /\ \A b, c \in S : mem[b + 1] = mem[c + 1] /\ mem[b + 1] # NULL => b = c
  BY <1>1 DEF Linking
<1>4. ASSUME NEW b \in T
      PROVE  /\ mem2[b + 1] \in T \cup {NULL}
             /\ mem2[b + 1] \in T => rank2[b] < rank2[mem2[b + 1]] /\ mem2[b + 1] # mem[h + 1]
             /\ b # mem[h + 1] => \E p \in T : mem2[p + 1] = b
  BY <1>2, <1>3
<1>5. \A b, c \in T : mem2[b + 1] = mem2[c + 1] /\ mem2[b + 1] # NULL => b = c
  BY <1>3
<1>6. mem[h + 1] \in T \cup {NULL}
  BY <1>3
<1>7. Linking(mem2, mem[h + 1], T, rank2)
  BY <1>2, <1>4, <1>5, <1>6 DEF Linking
<1> QED
  BY <1>7 DEF Chain

\* A later block of a list taken off: the block before it gets its link.
LEMMA ChainRemove ==
  ASSUME NEW mem, NEW mem2, NEW f, NEW S, NEW h \in S, NEW p \in S, Chain(mem, f, S), NULL \notin S,
         f # h, mem[p + 1] = h, mem2[p + 1] = mem[h + 1],
         \A b \in S \ {h, p} : mem2[b + 1] = mem[b + 1]
  PROVE  Chain(mem2, f, S \ {h})
<1>1. PICK rank : Linking(mem, f, S, rank)
  BY DEF Chain
<1> DEFINE T == S \ {h}
           rank2 == [b \in T |-> rank[b]]
<1>2. /\ rank2 \in [T -> Nat] /\ \A b \in T : rank2[b] = rank[b]
      /\ \A b \in S : rank[b] \in Nat
  BY <1>1 DEF Linking
<1> HIDE DEF rank2
<1>3. /\ f \in S \cup {NULL}
      /\ \A b \in S : /\ mem[b + 1] \in S \cup {NULL}
                      /\ mem[b + 1] \in S => rank[b] < rank[mem[b + 1]] /\ mem[b + 1] # f
                      /\ b # f => \E q \in S : mem[q + 1] = b
      /\ \A b, c \in S : mem[b + 1] = mem[c + 1] /\ mem[b + 1] # NULL => b = c
  BY <1>1 DEF Linking
<1>4. p # h /\ rank[p] < rank[h] /\ mem[h + 1] # h
  BY <1>2, <1>3
<1>5. ASSUME NEW b \in T
      PROVE  /\ mem2[b + 1] \in T \cup {NULL}
             /\ mem2[b + 1] \in T => rank2[b] < rank2[mem2[b + 1]] /\ mem2[b + 1] # f
             /\ b # f => \E q \in T : mem2[q + 1] = b
  <2>1. CASE b = p
    <3>1. mem2[b + 1] = mem[h + 1] /\ mem[h + 1] \in T \cup {NULL}
      BY <1>3, <1>4, <2>1
    <3>2. mem2[b + 1] \in T => rank2[b] < rank2[mem2[b + 1]] /\ mem2[b + 1] # f
      <4> SUFFICES ASSUME mem2[b + 1] \in T PROVE rank2[b] < rank2[mem2[b + 1]] /\ mem2[b + 1] # f
        OBVIOUS
      <4>1. rank[h] < rank[mem[h + 1]] /\ mem[h + 1] \in S /\ mem[h + 1] # f
        BY <1>3, <3>1
      <4> QED
        BY <1>2, <1>4, <2>1, <3>1, <4>1
    <3>3. b # f => \E q \in T : mem2[q + 1] = b
      BY <1>2, <1>3, <1>4, <2>1
    <3> QED
      BY <3>1, <3>2, <3>3
  <2>2. CASE b # p
    <3>1. mem2[b + 1] = mem[b + 1]
      BY <2>2
    <3>2. mem[b + 1] # h
      BY <1>3, <2>2, NoAddress
    <3>3. b # f => \E q \in T : mem2[q + 1] = b
      <4> SUFFICES ASSUME b # f PROVE \E q \in T : mem2[q + 1] = b
        OBVIOUS
      <4>1. PICK q \in S : mem[q + 1] = b
        BY <1>3
      <4>2. q # p
        BY <4>1
      <4>3. CASE q = h
        BY <1>4, <4>1, <4>3
      <4>4. CASE q # h
        BY <4>1, <4>2, <4>4
      <4> QED
        BY <4>3, <4>4
    <3> QED
      BY <1>2, <1>3, <3>1, <3>2, <3>3
  <2> QED
    BY <2>1, <2>2
<1>6. \A b, c \in T : mem2[b + 1] = mem2[c + 1] /\ mem2[b + 1] # NULL => b = c
  BY <1>3, <1>4
<1>7. f \in T \cup {NULL}
  BY <1>3
<1>8. Linking(mem2, f, T, rank2)
  BY <1>2, <1>5, <1>6, <1>7 DEF Linking
<1> QED
  BY <1>8 DEF Chain

--------------------------------------------------------------------------------
\* bucket_insert, bucket_remove and bucket_find.

\* Min finds a smallest number.
LEMMA LeastFound ==
  ASSUME NEW S \in SUBSET Nat, S # {}
  PROVE  Min(S) \in S /\ \A y \in S : Min(S) <= y
<1>1. \E x \in S : \A y \in S : x =< y
  BY SmallestNumber
<1> QED
  BY <1>1 DEF Min

\* Every size has a class.
LEMMA ClassFound ==
  ASSUME NEW size \in Nat
  PROVE  ClassOf[size] \in 1 .. NumClasses
<1> DEFINE S == {i \in DOMAIN Classes : size <= Classes[i]} \cup {NumClasses}
<1>1. S \in SUBSET (1 .. NumClasses) /\ S # {}
  <2>1. DOMAIN Classes = 1 .. 21
    BY DEF Classes
  <2> QED
    BY <2>1 DEF NumClasses
<1>2. Min(S) \in S
  <2> HIDE DEF S
  <2>1. S \in SUBSET Nat
    BY <1>1
  <2> QED
    BY <1>1, <2>1, LeastFound
<1>3. ClassOf[size] = Min(S)
  BY DEF ClassOf
<1> QED
  BY <1>1, <1>2, <1>3

\* What else an arena keeps when its words and its lists change.
SameBounds(a, a2) == a2.start = a.start /\ a2.end = a.end /\ a2.cap = a.cap /\ a2.used = a.used

\* Nothing but links of the blocks S changes from a to a2.
Relinked(a, a2, S) ==
  /\ SameBounds(a, a2)
  /\ \A x \in Addresses : a2.mem[x] # a.mem[x] => \E b \in S : x = b + 1

\* A link is no header and no footer.
LEMMA LinkWords ==
  ASSUME NEW a \in Arenas, NEW B, Tiled(a, B), NEW b \in B
  PROVE  /\ b + 1 \in Addresses /\ b \in Nat
         /\ \A c \in B \cup {a.end} : c # b + 1
         /\ \A c \in B : Following(a, c) - 1 # b + 1
         /\ \A c \in B : c + 1 = b + 1 => c = b
<1>1. /\ b \in Nat /\ Size(a, b) \in Nat /\ Size(a, b) >= 3 /\ Following(a, b) = b + Size(a, b)
      /\ \A c \in B : c \in Nat /\ Following(a, c) \in Nat
  BY HeapNumbers
<1>2. 1 \in 1 .. Size(a, b) - 1
  BY <1>1
<1>3. /\ b + 1 \in Addresses /\ b + 1 # a.end /\ b + 1 \notin B
      /\ \A c \in B : c # b => (b + 1 < c \/ Following(a, c) <= b + 1)
  BY <1>2, Inside
<1>4. ASSUME NEW c \in B, Following(a, c) - 1 = b + 1 PROVE FALSE
  <2>1. c \in Nat /\ Size(a, c) \in Nat /\ Size(a, c) >= 3 /\ Following(a, c) = c + Size(a, c)
    BY HeapNumbers
  <2> QED
    BY <1>1, <1>3, <1>4, <2>1
<1> QED
  BY <1>1, <1>3, <1>4

\* Changing links leaves the heap as it is.
LEMMA RelinkedHeap ==
  ASSUME NEW a \in Arenas, NEW a2 \in Arenas, NEW B, Heap(a, B), NEW S \in SUBSET B,
         Relinked(a, a2, S)
  PROVE  /\ Heap(a2, B)
         /\ \A b \in B \cup {a.end} : a2.mem[b] = a.mem[b]
         /\ \A b \in B : Size(a2, b) = Size(a, b)
<1>1. /\ B \in SUBSET Addresses /\ a.end \in Addresses
      /\ \A b \in B : Following(a, b) \in B \cup {a.end}
  BY DEF Heap, Tiled
<1>2. \A b \in S : /\ \A c \in B \cup {a.end} : c # b + 1
                   /\ \A c \in B : Following(a, c) - 1 # b + 1
  BY LinkWords DEF Heap
<1>3. \A b \in B \cup {a.end} : a2.mem[b] = a.mem[b]
  BY <1>1, <1>2 DEF Relinked
<1>4. \A b \in B : Following(a, b) - 1 \in Addresses
  <2> SUFFICES ASSUME NEW b \in B PROVE Following(a, b) - 1 \in Addresses
    OBVIOUS
  <2>1. /\ b \in Nat /\ Size(a, b) \in Nat /\ Size(a, b) >= 3 /\ Following(a, b) = b + Size(a, b)
        /\ Size(a, b) - 1 \in 1 .. Size(a, b) - 1
    BY HeapNumbers DEF Heap
  <2>2. b + (Size(a, b) - 1) \in Addresses
    BY <2>1, Inside DEF Heap
  <2> QED
    BY <2>1, <2>2
<1>5. \A b \in B : a2.mem[Following(a, b) - 1] = a.mem[Following(a, b) - 1]
  BY <1>2, <1>4 DEF Relinked
<1>6. \A b \in B \cup {a.end} :
        /\ Size(a2, b) = Size(a, b) /\ PrevFree(a2, b) = PrevFree(a, b)
        /\ AllocOf(a2.mem[b]) = AllocOf(a.mem[b]) /\ Following(a2, b) = Following(a, b)
        /\ Free(a2, b) <=> Free(a, b)
  BY <1>3, SameWord
<1>7. a2.start = a.start /\ a2.end = a.end
  BY DEF Relinked, SameBounds
<1>8. Tiled(a2, B)
  BY <1>1, <1>6, <1>7 DEF Heap, Tiled
<1>9. ASSUME NEW b \in B PROVE Agree(a2, b)
  <2>1. FooterTrimmed(a, b) => FooterTrimmed(a2, b)
    BY <1>5, <1>6, <1>7, SameTrimmed
  <2> QED
    BY <1>1, <1>5, <1>6, <1>7, <2>1 DEF Heap, Agree
<1>10. ~Free(a2, a2.start) /\ IsEpilogue(a2, a2.end) /\ ~Free(a2, a2.end)
  BY <1>6, <1>7 DEF Heap, Tiled, IsEpilogue
<1> QED
  BY <1>3, <1>6, <1>8, <1>9, <1>10 DEF Heap

SameSizes(a, a2, B) == \A b \in B : Size(a2, b) = Size(a, b)

\* From the blocks S to S2 on the lists only the list of cls changes.
OnlyList(a, a2, S, S2, cls) ==
  /\ Chain(a2.mem, a2.bucket[cls], OfClass(a, cls, S2))
  /\ \A c \in 1 .. NumClasses \ {cls} :
       /\ a2.bucket[c] = a.bucket[c] /\ OfClass(a, c, S2) = OfClass(a, c, S)
       /\ \A b \in OfClass(a, c, S) : a2.mem[b + 1] = a.mem[b + 1]

\* One list changes, the others do not.
LEMMA OneList ==
  ASSUME NEW a, NEW a2, NEW B, NEW S \in SUBSET B, NEW S2 \in SUBSET B, Listing(a, S),
         SameSizes(a, a2, B), NEW cls, OnlyList(a, a2, S, S2, cls)
  PROVE  Listing(a2, S2)
<1>1. \A c : OfClass(a2, c, S2) = OfClass(a, c, S2)
  BY DEF OfClass, SameSizes
<1>2. ASSUME NEW c \in 1 .. NumClasses PROVE Chain(a2.mem, a2.bucket[c], OfClass(a2, c, S2))
  <2>1. CASE c = cls
    BY <1>1, <2>1 DEF OnlyList
  <2>2. CASE c # cls
    <3> DEFINE f == a.bucket[c]
               T == OfClass(a, c, S)
    <3>1. Chain(a.mem, f, T)
      BY DEF Listing
    <3>2. a2.bucket[c] = f /\ OfClass(a2, c, S2) = T /\ \A b \in T : a2.mem[b + 1] = a.mem[b + 1]
      BY <1>1, <2>2 DEF OnlyList
    <3> HIDE DEF f, T
    <3>3. Chain(a2.mem, f, T)
      BY <3>1, <3>2, ChainFrame
    <3> QED
      BY <3>2, <3>3
  <2> QED
    BY <2>1, <2>2
<1> QED
  BY <1>2 DEF Listing

WithWords(a, m, heads) == [a EXCEPT !.mem = m, !.bucket = heads]

\* Other words and other lists in an arena.
LEMMA Rewritten ==
  ASSUME NEW a \in Arenas, NEW m \in [Addresses -> Nat],
         NEW heads \in [1 .. NumClasses -> Addresses \cup {NULL}]
  PROVE  /\ WithWords(a, m, heads) \in Arenas /\ SameBounds(a, WithWords(a, m, heads))
         /\ WithWords(a, m, heads).mem = m /\ WithWords(a, m, heads).bucket = heads
BY DEF Arenas, SameBounds, WithWords

\* bucket_insert: the block is the new head of the list of its class.
LEMMA Linked ==
  ASSUME NEW a \in Arenas, NEW B, Heap(a, B), NEW S \in SUBSET B, Listing(a, S),
         NEW h \in B, h \notin S
  PROVE  /\ BucketInsert(a, h) \in Arenas /\ Heap(BucketInsert(a, h), B)
         /\ Listing(BucketInsert(a, h), S \cup {h}) /\ Relinked(a, BucketInsert(a, h), {h})
<1> DEFINE cls == ClassOf[Size(a, h)]
           m == [a.mem EXCEPT ![h + 1] = a.bucket[cls]]
           heads == [a.bucket EXCEPT ![cls] = h]
           a2 == BucketInsert(a, h)
<1>1. /\ h \in Addresses /\ h + 1 \in Addresses /\ h \in Nat /\ Size(a, h) \in Nat
      /\ S \in SUBSET Addresses /\ NULL \notin Addresses /\ NULL = 0
      /\ \A b \in B : b \in Nat /\ (b + 1 = h + 1 => b = h)
  BY LinkWords, HeapNumbers, NoAddress DEF Heap, Tiled
<1>2. cls \in 1 .. NumClasses
  BY <1>1, ClassFound
<1>3. /\ a.mem \in [Addresses -> Nat] /\ a.bucket \in [1 .. NumClasses -> Addresses \cup {NULL}]
      /\ a.bucket[cls] \in Addresses \cup {NULL}
  BY <1>2 DEF Arenas
<1>4. a.bucket[cls] \in Nat
  BY <1>3, NoAddress
<1>5. m \in [Addresses -> Nat] /\ heads \in [1 .. NumClasses -> Addresses \cup {NULL}]
  BY <1>1, <1>3, <1>4
<1>6. a2 = WithWords(a, m, heads)
  BY DEF BucketInsert, WithWords
<1>7. a2 \in Arenas /\ SameBounds(a, a2) /\ a2.mem = m /\ a2.bucket = heads
  <2> HIDE DEF a2, m, heads
  <2> QED
    BY <1>5, <1>6, Rewritten
<1>8. /\ a2.mem[h + 1] = a.bucket[cls]
      /\ \A x \in Addresses : x # h + 1 => a2.mem[x] = a.mem[x]
      /\ a2.bucket[cls] = h /\ \A c \in 1 .. NumClasses \ {cls} : a2.bucket[c] = a.bucket[c]
  BY <1>1, <1>2, <1>3, <1>7
<1> HIDE DEF a2, m, heads
<1>9. Relinked(a, a2, {h})
  BY <1>7, <1>8 DEF Relinked
<1>10. Heap(a2, B) /\ \A b \in B : Size(a2, b) = Size(a, b)
  BY <1>7, <1>9, RelinkedHeap
<1>11. \A b \in S : b + 1 \in Addresses /\ a2.mem[b + 1] = a.mem[b + 1]
  <2>1. \A b \in B : b + 1 \in Addresses
    BY LinkWords DEF Heap
  <2> QED
    BY <1>1, <1>8, <2>1
<1>12. Listing(a2, S \cup {h})
  <2> DEFINE T == OfClass(a, cls, S)
             f == a.bucket[cls]
  <2>1. Chain(a.mem, f, T)
    BY <1>2 DEF Listing
  <2>2. /\ h \notin T /\ h # NULL /\ NULL \notin T /\ \A b \in T : a2.mem[b + 1] = a.mem[b + 1]
        /\ a2.mem[h + 1] = f
    BY <1>1, <1>8, <1>11 DEF OfClass
  <2>3. OfClass(a, cls, S \cup {h}) = T \cup {h}
    BY DEF OfClass
  <2> HIDE DEF T, f
  <2>4. Chain(a2.mem, h, T \cup {h})
    BY <2>1, <2>2, ChainInsert
  <2>5. \A c \in 1 .. NumClasses \ {cls} :
          /\ a2.bucket[c] = a.bucket[c] /\ OfClass(a, c, S \cup {h}) = OfClass(a, c, S)
          /\ \A b \in OfClass(a, c, S) : a2.mem[b + 1] = a.mem[b + 1]
    BY <1>8, <1>11 DEF OfClass
  <2>6. S \cup {h} \in SUBSET B
    OBVIOUS
  <2>7. Chain(a2.mem, a2.bucket[cls], OfClass(a, cls, S \cup {h}))
    BY <1>8, <2>3, <2>4
  <2> HIDE DEF cls
  <2>8. OnlyList(a, a2, S, S \cup {h}, cls) /\ SameSizes(a, a2, B)
    BY <1>10, <2>5, <2>7 DEF OnlyList, SameSizes
  <2> QED
    BY <2>6, <2>8, OneList
<1> QED
  BY <1>7, <1>9, <1>10, <1>12 DEF a2

\* bucket_remove: a block that is on its list leaves it.
LEMMA Unlinked ==
  ASSUME NEW a \in Arenas, NEW B, Heap(a, B), NEW S \in SUBSET B, Listing(a, S), NEW h \in S
  PROVE  /\ BucketRemove(a, h) \in Arenas /\ Heap(BucketRemove(a, h), B)
         /\ Listing(BucketRemove(a, h), S \ {h}) /\ Relinked(a, BucketRemove(a, h), S)
<1> DEFINE cls == ClassOf[Size(a, h)]
           next == a.mem[h + 1]
           T == OfClass(a, cls, S)
           f == a.bucket[cls]
           before == {p \in Listed(a, cls) : a.mem[p + 1] = h}
           a2 == BucketRemove(a, h)
<1>1. /\ h \in Addresses /\ h + 1 \in Addresses /\ h \in Nat /\ Size(a, h) \in Nat
      /\ S \in SUBSET Addresses /\ NULL \notin Addresses /\ NULL = 0
      /\ \A b \in B : b \in Nat /\ b + 1 \in Addresses
      /\ \A b, c \in B : b + 1 = c + 1 => b = c
  BY LinkWords, HeapNumbers, NoAddress DEF Heap, Tiled
<1>2. cls \in 1 .. NumClasses
  BY <1>1, ClassFound
<1>3. /\ a.mem \in [Addresses -> Nat] /\ a.bucket \in [1 .. NumClasses -> Addresses \cup {NULL}]
  BY DEF Arenas
<1>4. /\ h \in T /\ T \in SUBSET S /\ NULL \notin T /\ Chain(a.mem, f, T) /\ Listed(a, cls) = T
      /\ OfClass(a, cls, S \ {h}) = T \ {h}
      /\ \A c \in 1 .. NumClasses \ {cls} : OfClass(a, c, S \ {h}) = OfClass(a, c, S)
  <2>1. h \in T /\ T \in SUBSET S /\ NULL \notin T
    BY <1>1 DEF OfClass
  <2>2. Chain(a.mem, f, T)
    BY <1>2 DEF Listing
  <2>3. Listed(a, cls) = T
    BY <1>2, ListedIs DEF Heap
  <2>4. OfClass(a, cls, S \ {h}) = T \ {h}
    BY DEF OfClass
  <2>5. \A c \in 1 .. NumClasses \ {cls} : OfClass(a, c, S \ {h}) = OfClass(a, c, S)
    BY DEF OfClass
  <2> QED
    BY <2>1, <2>2, <2>3, <2>4, <2>5
<1>5. next \in T \cup {NULL} /\ (h # f => \E p \in T : a.mem[p + 1] = h)
  BY <1>4 DEF Chain, Linking
<1>6. \E p \in T, to \in T \cup {NULL} :
        /\ a2 \in Arenas /\ SameBounds(a, a2)
        /\ a2.mem[p + 1] = to /\ \A x \in Addresses : x # p + 1 => a2.mem[x] = a.mem[x]
        /\ \A c \in 1 .. NumClasses \ {cls} : a2.bucket[c] = a.bucket[c]
        /\ Chain(a2.mem, a2.bucket[cls], T \ {h})
  <2>1. CASE f = h
    <3> DEFINE m == [a.mem EXCEPT ![h + 1] = NULL]
               heads == [a.bucket EXCEPT ![cls] = next]
    <3>1. a2 = WithWords(a, m, heads)
      BY <2>1 DEF BucketRemove, WithWords
    <3>2. m \in [Addresses -> Nat] /\ heads \in [1 .. NumClasses -> Addresses \cup {NULL}]
      BY <1>1, <1>2, <1>3, <1>4, <1>5
    <3>3. a2 \in Arenas /\ SameBounds(a, a2) /\ a2.mem = m /\ a2.bucket = heads
      <4> HIDE DEF a2, m, heads
      <4> QED
        BY <3>1, <3>2, Rewritten
    <3>4. /\ a2.mem[h + 1] = NULL /\ \A x \in Addresses : x # h + 1 => a2.mem[x] = a.mem[x]
          /\ a2.bucket[cls] = next
          /\ \A c \in 1 .. NumClasses \ {cls} : a2.bucket[c] = a.bucket[c]
      BY <1>1, <1>2, <1>3, <3>3
    <3> HIDE DEF a2, m, heads
    <3>5. \A b \in T \ {h} : a2.mem[b + 1] = a.mem[b + 1]
      BY <1>1, <1>4, <3>4
    <3>6. Chain(a2.mem, next, T \ {h})
      <4> HIDE DEF T, f
      <4> QED
        BY <1>4, <2>1, <3>5, ChainBehead
    <3> QED
      BY <1>4, <3>3, <3>4, <3>6
  <2>2. CASE f # h
    <3>1. before # {} /\ before \in SUBSET T
      BY <1>4, <1>5, <2>2
    <3> DEFINE p == CHOOSE p \in before : TRUE
               m == [a.mem EXCEPT ![p + 1] = next]
    <3>2. p \in T /\ a.mem[p + 1] = h
      BY <3>1
    <3>3. a2 = [a EXCEPT !.mem[p + 1] = next]
      BY <2>2, <3>1 DEF BucketRemove
    <3> HIDE DEF p
    <3>4. p + 1 \in Addresses /\ next \in Nat
      BY <1>1, <1>3, <1>4, <3>2
    <3>5. m \in [Addresses -> Nat] /\ m[p + 1] = next
          /\ \A x \in Addresses : x # p + 1 => m[x] = a.mem[x]
      BY <1>3, <3>4
    <3>6. a2 \in Arenas /\ SameBounds(a, a2) /\ a2.mem = m /\ a2.bucket = a.bucket
      BY <3>3, <3>5 DEF Arenas, SameBounds
    <3> HIDE DEF a2, m
    <3>7. \A b \in T \ {h, p} : a2.mem[b + 1] = a.mem[b + 1]
      <4>1. \A b \in T \ {h, p} : b \in B /\ p \in B /\ b + 1 \in Addresses /\ b + 1 # p + 1
        BY <1>1, <1>4, <3>2
      <4> QED
        BY <3>5, <3>6, <4>1
    <3>8. a2.mem[p + 1] = next
      BY <3>5, <3>6
    <3>9. Chain(a2.mem, f, T \ {h})
      <4> HIDE DEF T, f
      <4> QED
        BY <1>4, <2>2, <3>2, <3>7, <3>8, ChainRemove
    <3> QED
      BY <1>5, <3>2, <3>5, <3>6, <3>8, <3>9
  <2> QED
    BY <2>1, <2>2
<1> HIDE DEF a2
<1>7. PICK p \in T, to \in T \cup {NULL} :
        /\ a2 \in Arenas /\ SameBounds(a, a2)
        /\ a2.mem[p + 1] = to /\ \A x \in Addresses : x # p + 1 => a2.mem[x] = a.mem[x]
        /\ \A c \in 1 .. NumClasses \ {cls} : a2.bucket[c] = a.bucket[c]
        /\ Chain(a2.mem, a2.bucket[cls], T \ {h})
  BY <1>6
<1>8. Relinked(a, a2, S)
  BY <1>4, <1>7 DEF Relinked
<1>9. Heap(a2, B) /\ \A b \in B : Size(a2, b) = Size(a, b)
  BY <1>7, <1>8, RelinkedHeap
<1>10. \A c \in 1 .. NumClasses \ {cls} : \A b \in OfClass(a, c, S) : a2.mem[b + 1] = a.mem[b + 1]
  <2> SUFFICES ASSUME NEW c \in 1 .. NumClasses \ {cls}, NEW b \in OfClass(a, c, S)
               PROVE  a2.mem[b + 1] = a.mem[b + 1]
    OBVIOUS
  <2>1. b \in S /\ b # p
    BY DEF OfClass
  <2> QED
    BY <1>1, <1>4, <1>7, <2>1
<1>11. Listing(a2, S \ {h})
  <2>1. S \ {h} \in SUBSET B
    OBVIOUS
  <2>2. Chain(a2.mem, a2.bucket[cls], OfClass(a, cls, S \ {h}))
    BY <1>4, <1>7
  <2> HIDE DEF cls, T
  <2>3. OnlyList(a, a2, S, S \ {h}, cls) /\ SameSizes(a, a2, B)
    BY <1>4, <1>7, <1>9, <1>10, <2>2 DEF OnlyList, SameSizes
  <2> QED
    BY <2>1, <2>3, OneList
<1> QED
  BY <1>7, <1>8, <1>9, <1>11 DEF a2

--------------------------------------------------------------------------------
\* The writers of headers and footers.

\* Nothing but the words X changes from a to a2.
OnlyWords(a, a2, X) ==
  /\ a2 \in Arenas /\ SameBounds(a, a2) /\ a2.bucket = a.bucket
  /\ \A x \in Addresses : x \notin X => a2.mem[x] = a.mem[x]

WithMem(a, m) == [a EXCEPT !.mem = m]

\* Other words in an arena.
LEMMA MemWritten ==
  ASSUME NEW a \in Arenas, NEW m \in [Addresses -> Nat], NEW X,
         \A x \in Addresses : x \notin X => m[x] = a.mem[x]
  PROVE  OnlyWords(a, WithMem(a, m), X) /\ WithMem(a, m).mem = m
BY DEF Arenas, SameBounds, WithMem, OnlyWords

\* set_header
LEMMA HeaderSet ==
  ASSUME NEW a \in Arenas, NEW h \in Addresses, NEW size \in Nat, NEW alloc \in 0 .. 1,
         NEW pf \in 0 .. 1
  PROVE  /\ OnlyWords(a, SetHeader(a, h, size, alloc, pf), {h})
         /\ SetHeader(a, h, size, alloc, pf).mem[h] = Tag(size, alloc, pf)
<1> DEFINE w == Tag(size, alloc, pf)
           m == [a.mem EXCEPT ![h] = w]
<1>1. w \in Nat /\ a.mem \in [Addresses -> Nat]
  BY TagParts DEF Arenas
<1>2. SetHeader(a, h, size, alloc, pf) = WithMem(a, m)
  BY DEF SetHeader, WithMem
<1> HIDE DEF w
<1>3. m \in [Addresses -> Nat] /\ m[h] = w /\ \A x \in Addresses : x \notin {h} => m[x] = a.mem[x]
  BY <1>1
<1> HIDE DEF m
<1> QED
  BY <1>2, <1>3, MemWritten DEF w

\* The header and the footer of a free block.
LEMMA FreeBlockSet ==
  ASSUME NEW a \in Arenas, NEW h \in Addresses, NEW size \in Nat, size >= 3, NEW pf \in 0 .. 1,
         h + size - 1 \in Addresses
  PROVE  /\ OnlyWords(a, SetFreeBlock(a, h, size, pf), {h, h + size - 1})
         /\ SetFreeBlock(a, h, size, pf).mem[h] = Tag(size, 0, pf)
         /\ SetFreeBlock(a, h, size, pf).mem[h + size - 1] = Tag(size, 0, 0)
<1> DEFINE w == Tag(size, 0, pf)
           v == Tag(size, 0, 0)
           f == h + size - 1
           m == [a.mem EXCEPT ![h] = w, ![f] = v]
<1>1. w \in Nat /\ v \in Nat /\ a.mem \in [Addresses -> Nat] /\ f \in Addresses /\ f # h
  <2>1. w \in Nat /\ v \in Nat
    BY TagParts
  <2>2. h \in Nat /\ f \in Addresses /\ f # h
    BY NoAddress
  <2> QED
    BY <2>1, <2>2 DEF Arenas
<1>2. SetFreeBlock(a, h, size, pf) = WithMem(a, m)
  BY DEF SetFreeBlock, WithMem
<1> HIDE DEF w, v, f
<1>3. /\ m \in [Addresses -> Nat] /\ m[h] = w /\ m[f] = v
      /\ \A x \in Addresses : x \notin {h, f} => m[x] = a.mem[x]
  BY <1>1
<1> HIDE DEF m
<1> QED
  BY <1>2, <1>3, MemWritten DEF w, v, f

\* The prev_free bit of the header that follows; its size and its state stay.
LEMMA FollowingTold ==
  ASSUME NEW a \in Arenas, NEW h, Following(a, h) \in Addresses, NEW pf \in 0 .. 1
  PROVE  LET a2 == TellFollowing(a, h, pf)
             n  == Following(a, h)
         IN  /\ OnlyWords(a, a2, {n})
             /\ Size(a2, n) = Size(a, n) /\ AllocOf(a2.mem[n]) = AllocOf(a.mem[n])
             /\ PrevFree(a2, n) = pf
<1> DEFINE n == Following(a, h)
           a2 == TellFollowing(a, h, pf)
<1>1. n \in Addresses /\ Size(a, n) \in Nat /\ AllocOf(a.mem[n]) \in 0 .. 1
  BY Reads
<1>2. a2 = SetHeader(a, n, Size(a, n), AllocOf(a.mem[n]), pf)
  BY DEF TellFollowing
<1> HIDE DEF n, a2
<1>3. OnlyWords(a, a2, {n}) /\ a2.mem[n] = Tag(Size(a, n), AllocOf(a.mem[n]), pf)
  BY <1>1, <1>2, HeaderSet
<1>4. Size(a2, n) = Size(a, n) /\ AllocOf(a2.mem[n]) = AllocOf(a.mem[n]) /\ PrevFree(a2, n) = pf
  <2> DEFINE size == Size(a, n)
             alloc == AllocOf(a.mem[n])
  <2>1. size \in Nat /\ alloc \in 0 .. 1 /\ a2.mem[n] = Tag(size, alloc, pf)
    BY <1>1, <1>3
  <2> HIDE DEF size, alloc
  <2>2. Size(a2, n) = size /\ AllocOf(a2.mem[n]) = alloc /\ PrevFree(a2, n) = pf
    BY <2>1, TagRead
  <2> QED
    BY <2>2 DEF size, alloc
<1> QED
  BY <1>3, <1>4 DEF n, a2

--------------------------------------------------------------------------------
\* Blocks that an operation leaves alone.

UsedBlocks(a, B) == {b \in B : ~Free(a, b)}

\* The blocks X are in a2 as they are in a, with all they contain.
Intact(a, a2, X) ==
  \A b \in X : /\ Size(a2, b) = Size(a, b) /\ (Free(a2, b) <=> Free(a, b))
               /\ \A i \in 1 .. Size(a, b) - 1 : a2.mem[b + i] = a.mem[b + i]

\* From a to a2 and from there to a3.
LEMMA IntactTwice ==
  ASSUME NEW a, NEW a2, NEW a3, NEW X, Intact(a, a2, X), Intact(a2, a3, X)
  PROVE  Intact(a, a3, X)
BY DEF Intact

\* Links are written into free blocks only.
LEMMA RelinkedIntact ==
  ASSUME NEW a \in Arenas, NEW a2 \in Arenas, NEW B, Heap(a, B), NEW S \in SUBSET B,
         Relinked(a, a2, S), NEW X \in SUBSET B, X \cap S = {}
  PROVE  Intact(a, a2, X)
<1> SUFFICES ASSUME NEW b \in X
             PROVE  /\ Size(a2, b) = Size(a, b) /\ (Free(a2, b) <=> Free(a, b))
                    /\ \A i \in 1 .. Size(a, b) - 1 : a2.mem[b + i] = a.mem[b + i]
  BY DEF Intact
<1>1. a2.mem[b] = a.mem[b]
  BY RelinkedHeap
<1>2. Size(a2, b) = Size(a, b) /\ (Free(a2, b) <=> Free(a, b))
  BY <1>1, SameWord
<1>3. ASSUME NEW i \in 1 .. Size(a, b) - 1 PROVE a2.mem[b + i] = a.mem[b + i]
  <2>1. b + i \in Addresses /\ \A c \in B : c # b => (b + i < c \/ Following(a, c) <= b + i)
    BY Inside DEF Heap
  <2>2. ASSUME NEW c \in S PROVE b + i # c + 1
    <3>1. c # b /\ c \in B /\ b \in B
      OBVIOUS
    <3>2. /\ c \in Nat /\ Size(a, c) \in Nat /\ Size(a, c) >= 3 /\ Following(a, c) = c + Size(a, c)
          /\ b \in Nat /\ Size(a, b) \in Nat
      BY <3>1, HeapNumbers DEF Heap
    <3> QED
      BY <2>1, <3>1, <3>2
  <2> QED
    BY <2>1, <2>2 DEF Relinked
<1> QED
  BY <1>2, <1>3

\* The blocks beside the words from lo to hi.
Beside(B, lo, hi) == {b \in B : b < lo \/ hi <= b}

\* A refill leaves the blocks beside it alone, and the lists of such blocks.
LEMMA RefillIntact ==
  ASSUME NEW a \in Arenas, NEW a2 \in Arenas, NEW B, NEW N, NEW lo, NEW hi,
         Heap(a, B), Refill(a, a2, B, N, lo, hi)
  PROVE  /\ Intact(a, a2, Beside(B, lo, hi))
         /\ \A S \in SUBSET Beside(B, lo, hi) :
              Listing(a, S) /\ a2.bucket = a.bucket => Listing(a2, S)
<1> DEFINE X == Beside(B, lo, hi)
<1>1. /\ lo \in Nat /\ hi \in Nat
      /\ \A b \in B : b < lo => Following(a, b) <= lo
      /\ \A b \in X : Size(a2, b) = Size(a, b) /\ (Free(a2, b) <=> Free(a, b))
  BY Around DEF Beside, Heap
<1>2. ASSUME NEW b \in X, NEW i \in 1 .. Size(a, b) - 1
      PROVE  a2.mem[b + i] = a.mem[b + i]
  <2>1. b \in B /\ (b < lo \/ hi <= b)
    BY DEF Beside
  <2>2. b \in Nat /\ Size(a, b) \in Nat /\ Following(a, b) = b + Size(a, b)
    BY <2>1, HeapNumbers DEF Heap
  <2>3. b + i \in Addresses
    BY <2>1, Inside DEF Heap
  <2>4. b + i < lo \/ hi < b + i
    BY <1>1, <2>1, <2>2
  <2> QED
    BY <2>3, <2>4 DEF Refill
<1>3. Intact(a, a2, X)
  BY <1>1, <1>2 DEF Intact
<1>4. ASSUME NEW S \in SUBSET X, Listing(a, S), a2.bucket = a.bucket
      PROVE  Listing(a2, S)
  <2>1. \A b \in S : Size(a2, b) = Size(a, b) /\ a2.mem[b + 1] = a.mem[b + 1]
    <3> SUFFICES ASSUME NEW b \in S PROVE Size(a2, b) = Size(a, b) /\ a2.mem[b + 1] = a.mem[b + 1]
      OBVIOUS
    <3>1. b \in B /\ b \in X
      BY DEF Beside
    <3>2. 1 \in 1 .. Size(a, b) - 1
      BY <3>1, HeapNumbers DEF Heap
    <3> QED
      BY <1>1, <1>2, <3>1, <3>2
  <2>2. ASSUME NEW c \in 1 .. NumClasses PROVE Chain(a2.mem, a2.bucket[c], OfClass(a2, c, S))
    <3> DEFINE T == OfClass(a, c, S)
               f == a.bucket[c]
    <3>1. Chain(a.mem, f, T)
      BY <1>4 DEF Listing
    <3>2. OfClass(a2, c, S) = T /\ a2.bucket[c] = f /\ \A b \in T : a2.mem[b + 1] = a.mem[b + 1]
      BY <1>4, <2>1 DEF OfClass
    <3> HIDE DEF T, f
    <3> QED
      BY <3>1, <3>2, ChainFrame
  <2> QED
    BY <2>2 DEF Listing
<1> QED
  BY <1>3, <1>4

\* The blocks of a refilled heap, used and free.
LEMMA RefilledBlocks ==
  ASSUME NEW a \in Arenas, NEW a2 \in Arenas, NEW B, NEW N, NEW lo, NEW hi,
         Heap(a, B), Refill(a, a2, B, N, lo, hi)
  PROVE  /\ UsedBlocks(a2, Refilled(B, N, lo, hi))
              = (UsedBlocks(a, B) \cap Beside(B, lo, hi)) \cup UsedBlocks(a2, N)
         /\ FreeBlocks(a2, Refilled(B, N, lo, hi))
              = (FreeBlocks(a, B) \cap Beside(B, lo, hi)) \cup FreeBlocks(a2, N)
<1>1. \A b \in B : b < lo \/ hi <= b => (Free(a2, b) <=> Free(a, b))
  BY Around DEF Heap
<1> QED
  BY <1>1 DEF UsedBlocks, FreeBlocks, Refilled, Beside

--------------------------------------------------------------------------------
\* Free blocks: coalesce.

\* The block that follows is a block or the end of the heap: its header can be read.
LEMMA FollowingIs ==
  ASSUME NEW a \in Arenas, NEW B, Heap(a, B), NEW h \in B \cup {a.end}
  PROVE  /\ h \in Addresses /\ h \in Nat /\ h <= a.end
         /\ Size(a, h) \in Nat /\ AllocOf(a.mem[h]) \in 0 .. 1
         /\ (IsEpilogue(a, h) <=> h = a.end) /\ (h = a.end => ~Free(a, h) /\ Size(a, h) = 0)
<1>1. CASE h = a.end
  <2>1. a.end \in Addresses /\ a.end \in Nat
    BY HeapNumbers DEF Heap
  <2> QED
    BY <1>1, <2>1, Reads DEF Heap
<1>2. CASE h \in B
  <2>1. h \in Addresses /\ h \in Nat /\ h < a.end /\ Size(a, h) \in Nat /\ Size(a, h) >= 3
        /\ a.end \in Nat
    BY <1>2, HeapNumbers DEF Heap
  <2> QED
    BY <2>1, Reads
<1> QED
  BY <1>1, <1>2

\* A free block of size words is put from lo on, where a block begins, to where another
\* one begins; the one before lo and the one after are not free.
LEMMA Refreed ==
  ASSUME NEW a \in Arenas, NEW B, Heap(a, B), NEW lo \in B, lo # a.start,
         NEW size \in Nat, size >= 3, lo + size \in B \cup {a.end}, ~Free(a, lo + size),
         \A b \in B : Following(a, b) = lo => ~Free(a, b),
         Listing(a, FreeBlocks(a, B) \cap Beside(B, lo, lo + size))
  PROVE  LET a2 == PutFree(a, lo, size, 0)
             B2 == Refilled(B, {lo}, lo, lo + size)
             X  == UsedBlocks(a, B) \cap Beside(B, lo, lo + size)
         IN  /\ a2 \in Arenas /\ SameBounds(a, a2) /\ Sound(a2, B2)
             /\ UsedBlocks(a2, B2) = X /\ Intact(a, a2, X)
<1> DEFINE hi == lo + size
           w1 == SetFreeBlock(a, lo, size, 0)
           w2 == TellFollowing(w1, lo, 1)
           a2 == BucketInsert(w2, lo)
           B2 == Refilled(B, {lo}, lo, hi)
           X  == UsedBlocks(a, B) \cap Beside(B, lo, hi)
           S  == FreeBlocks(a, B) \cap Beside(B, lo, hi)
<1>1. /\ lo \in Nat /\ lo \in Addresses /\ hi \in Nat /\ hi \in Addresses /\ lo < hi /\ hi <= a.end
      /\ hi - 1 \in Addresses /\ hi - 1 # lo /\ hi - 1 # hi /\ lo # hi /\ lo < hi - 1
      /\ a.end \in Addresses /\ hi - 1 = lo + size - 1
  <2>1. lo \in Nat /\ lo \in Addresses /\ hi \in Nat /\ hi \in Addresses /\ hi <= a.end
    BY FollowingIs
  <2>2. hi - 1 \in Addresses
    BY <2>1, NoAddress
  <2> QED
    BY <2>1, <2>2 DEF Heap, Tiled
<1> HIDE DEF hi
<1>2. /\ OnlyWords(a, w1, {lo, hi - 1}) /\ w1.mem[lo] = Tag(size, 0, 0)
      /\ w1.mem[hi - 1] = Tag(size, 0, 0)
  BY <1>1, FreeBlockSet
<1> HIDE DEF w1
<1>3. Following(w1, lo) = hi /\ w1 \in Arenas /\ w1.mem[hi] = a.mem[hi]
  BY <1>1, <1>2, TagRead DEF hi, OnlyWords
<1>4. /\ OnlyWords(w1, w2, {hi}) /\ Size(w2, hi) = Size(w1, hi)
      /\ AllocOf(w2.mem[hi]) = AllocOf(w1.mem[hi]) /\ PrevFree(w2, hi) = 1
  BY <1>1, <1>3, FollowingTold
<1> HIDE DEF w2
<1>5. /\ w2 \in Arenas /\ SameBounds(a, w2) /\ w2.bucket = a.bucket
      /\ w2.mem[lo] = Tag(size, 0, 0) /\ w2.mem[hi - 1] = Tag(size, 0, 0)
      /\ Size(w2, hi) = Size(a, hi) /\ AllocOf(w2.mem[hi]) = AllocOf(a.mem[hi])
      /\ \A x \in Addresses : x \notin {lo, hi - 1, hi} => w2.mem[x] = a.mem[x]
  BY <1>1, <1>2, <1>3, <1>4, SameWord DEF OnlyWords, SameBounds
<1>6. /\ Size(w2, lo) = size /\ Following(w2, lo) = hi /\ Free(w2, lo) /\ AllocOf(w2.mem[lo]) = 0
      /\ PrevFree(w2, lo) = 0 /\ ~Free(w2, hi) /\ SizeOf(w2.mem[hi - 1]) = size
  BY <1>5, TagRead, TagParts DEF hi, Free
<1>7. Filling(w2, {lo}, lo, hi)
  <2>1. Agree(w2, lo)
    BY <1>4, <1>6 DEF Agree
  <2> QED
    BY <1>1, <1>6, <2>1 DEF Filling, MinBlock
<1>8. ASSUME NEW b \in B, Following(a, b) = lo PROVE Agree(w2, b)
  <2>1. ~Free(a, b) /\ b \in Addresses /\ AllocOf(a.mem[b]) \in 0 .. 1
    BY <1>8, FollowingIs
  <2>2. b # lo /\ b # hi - 1 /\ b # hi
    <3>1. b \in Nat /\ Following(a, b) = b + Size(a, b) /\ Size(a, b) \in Nat /\ Size(a, b) >= 3
      BY HeapNumbers DEF Heap
    <3> QED
      BY <1>1, <1>8, <3>1
  <2>3. w2.mem[b] = a.mem[b]
    BY <1>5, <2>1, <2>2
  <2>4. Following(w2, b) = lo /\ ~Free(w2, b) /\ AllocOf(w2.mem[b]) = 1
    BY <1>8, <2>1, <2>3, SameWord DEF Free
  <2> QED
    BY <1>6, <2>4 DEF Agree
<1>9. Refill(a, w2, B, {lo}, lo, hi)
  <2>1. /\ w2.start = a.start /\ w2.end = a.end /\ hi \in B \cup {a.end}
    BY <1>5 DEF SameBounds, hi
  <2>2. IsEpilogue(w2, a.end) /\ ~Free(w2, a.end)
    <3>1. CASE a.end = hi
      BY <1>5, <1>6, <3>1 DEF Heap, IsEpilogue
    <3>2. CASE a.end # hi
      <4>1. a.end \notin {lo, hi - 1, hi}
        BY <1>1, <3>2, HeapNumbers DEF Heap
      <4>2. w2.mem[a.end] = a.mem[a.end]
        BY <1>1, <1>5, <4>1
      <4> QED
        BY <4>2, SameWord DEF Heap, IsEpilogue
    <3> QED
      BY <3>1, <3>2
  <2>3. \A x \in Addresses : x < lo \/ hi < x => w2.mem[x] = a.mem[x]
    BY <1>1, <1>5, NoAddress
  <2>4. hi \in B => Size(w2, hi) = Size(a, hi) /\ AllocOf(w2.mem[hi]) = AllocOf(a.mem[hi])
    BY <1>5
  <2>5. \A b \in B : Following(a, b) = lo => Agree(w2, b)
    BY <1>8
  <2>6. w2.end \in Addresses /\ IsEpilogue(w2, w2.end) /\ ~Free(w2, w2.end)
    BY <1>1, <2>1, <2>2
  <2>7. lo \in B \cup {a.end} /\ lo # a.start /\ lo < hi
    BY <1>1
  <2>8. hi \in B \cup {a.end, w2.end}
    BY <2>1
  <2> HIDE DEF B2, X, S, a2
  <2> QED
    BY <1>7, <2>1, <2>3, <2>4, <2>5, <2>6, <2>7, <2>8, Zenon DEF Refill
<1>10. Heap(w2, B2)
  BY <1>5, <1>9, Retiled
<1>11. Intact(a, w2, Beside(B, lo, hi)) /\ Listing(w2, S)
  <2>1. Listing(a, S) /\ S \in SUBSET Beside(B, lo, hi)
    BY DEF hi
  <2> QED
    BY <1>5, <1>9, <2>1, RefillIntact
<1>12. UsedBlocks(w2, B2) = X /\ FreeBlocks(w2, B2) = S \cup {lo}
  <2>1. UsedBlocks(w2, {lo}) = {} /\ FreeBlocks(w2, {lo}) = {lo}
    BY <1>6 DEF UsedBlocks, FreeBlocks
  <2>2. UsedBlocks(w2, B2) = X \cup UsedBlocks(w2, {lo})
    BY <1>5, <1>9, RefilledBlocks
  <2>3. FreeBlocks(w2, B2) = S \cup FreeBlocks(w2, {lo})
    BY <1>5, <1>9, RefilledBlocks
  <2> QED
    BY <2>1, <2>2, <2>3
<1>13. S \in SUBSET B2 /\ lo \in B2 /\ lo \notin S /\ X \in SUBSET B2 /\ X \in SUBSET Beside(B, lo, hi)
  BY <1>1, HeapNumbers DEF Refilled, Beside, Heap
<1>14. a2 \in Arenas /\ Heap(a2, B2) /\ Listing(a2, S \cup {lo}) /\ Relinked(w2, a2, {lo})
  <2>1. w2 \in Arenas /\ Heap(w2, B2) /\ Listing(w2, S) /\ S \in SUBSET B2 /\ lo \in B2 /\ lo \notin S
    BY <1>5, <1>10, <1>11, <1>13
  <2> HIDE DEF B2, S
  <2> QED
    BY <2>1, Linked
<1> HIDE DEF a2
<1>15. UsedBlocks(a2, B2) = X /\ FreeBlocks(a2, B2) = S \cup {lo}
  <2>1. \A b \in B2 : a2.mem[b] = w2.mem[b]
    BY <1>5, <1>10, <1>13, <1>14, RelinkedHeap
  <2>2. \A b \in B2 : Free(a2, b) <=> Free(w2, b)
    BY <2>1, SameWord
  <2> QED
    BY <1>12, <2>2 DEF UsedBlocks, FreeBlocks
<1>16. Intact(a, a2, X)
  <2>1. Intact(a, w2, X)
    BY <1>11, <1>13 DEF Intact
  <2>2. X \cap {lo} = {}
    BY <1>1, HeapNumbers DEF Beside, Heap
  <2>3. Intact(w2, a2, X)
    BY <1>5, <1>10, <1>13, <1>14, <2>2, RelinkedIntact
  <2> QED
    BY <2>1, <2>3, IntactTwice
<1>17. SameBounds(a, a2)
  BY <1>5, <1>14 DEF Relinked, SameBounds
<1> QED
  BY <1>14, <1>15, <1>16, <1>17 DEF Sound, PutFree, hi, w1, w2, a2

\* The block before h, when its bit says that it is free: the footer leads to it.
LEMMA PrecedingIs ==
  ASSUME NEW a \in Arenas, NEW B, Heap(a, B), NEW h \in B, h # a.start
  PROVE  /\ PrevFree(a, h) # 1 => \A b \in B : Following(a, b) = h => ~Free(a, b)
         /\ PrevFree(a, h) = 1 =>
              LET p == Preceding(a, h) IN
              /\ p \in B /\ Free(a, p) /\ Following(a, p) = h /\ p # a.start /\ PrevFree(a, p) = 0
              /\ \A b \in B : Following(a, b) = p => ~Free(a, b)
<1>1. \A b \in B : b \in Addresses /\ b \in Nat /\ AllocOf(a.mem[b]) \in 0 .. 1 /\ Size(a, b) \in Nat
                   /\ Following(a, b) = b + Size(a, b)
  BY FollowingIs, HeapNumbers DEF Heap
<1>2. h # a.end
  BY HeapNumbers DEF Heap
<1>3. ASSUME NEW b \in B, Following(a, b) = h
      PROVE  /\ PrevFree(a, h) = 1 - AllocOf(a.mem[b])
             /\ Free(a, b) => SizeOf(a.mem[h - 1]) = Size(a, b)
  BY <1>2, <1>3 DEF Heap, Agree, FooterTrimmed
<1>4. ASSUME PrevFree(a, h) # 1, NEW b \in B, Following(a, b) = h PROVE ~Free(a, b)
  BY <1>1, <1>3, <1>4 DEF Free
<1>5. ASSUME PrevFree(a, h) = 1
      PROVE  LET p == Preceding(a, h) IN
             /\ p \in B /\ Free(a, p) /\ Following(a, p) = h /\ p # a.start /\ PrevFree(a, p) = 0
             /\ \A b \in B : Following(a, b) = p => ~Free(a, b)
  <2>1. PICK q \in B : Following(a, q) = h
    BY Before DEF Heap
  <2>2. Free(a, q) /\ SizeOf(a.mem[h - 1]) = Size(a, q)
    BY <1>1, <1>3, <1>5, <2>1 DEF Free
  <2>3. Preceding(a, h) = q
    BY <1>1, <2>1, <2>2 DEF Preceding
  <2>4. q # a.start
    BY <2>2 DEF Heap
  <2>5. ASSUME NEW b \in B, Following(a, b) = q PROVE ~Free(a, b)
    BY <2>2, <2>5 DEF Heap, Agree
  <2>6. PICK r \in B : Following(a, r) = q
    BY <2>4, Before DEF Heap
  <2>7. ~Free(a, r) /\ q # a.end
    BY <2>5, <2>6, HeapNumbers DEF Heap
  <2>8. PrevFree(a, q) = 0
    BY <1>1, <2>6, <2>7 DEF Heap, Agree, Free
  <2> QED
    BY <2>1, <2>2, <2>3, <2>4, <2>5, <2>8
<1> QED
  BY <1>4, <1>5

\* The words of a block and of the free block after it.
LEMMA JoinNext ==
  ASSUME NEW a \in Arenas, NEW B, Heap(a, B), NEW h \in B
  PROVE  LET hi == h + SizeWithNext(a, h) IN
         /\ SizeWithNext(a, h) \in Nat /\ SizeWithNext(a, h) >= Size(a, h) /\ Size(a, h) >= 3
         /\ hi \in B \cup {a.end} /\ hi \in Nat /\ ~Free(a, hi)
         /\ NextFree(a, h) => Following(a, h) \in B /\ Free(a, Following(a, h)) /\ h < Following(a, h)
                              /\ Following(a, h) < hi
         /\ ~NextFree(a, h) => hi = Following(a, h)
         /\ \A b \in B : h < b /\ b < hi => NextFree(a, h) /\ b = Following(a, h)
<1> DEFINE n == Following(a, h)
<1>1. \A b \in B : b \in Addresses /\ b \in Nat /\ Size(a, b) \in Nat /\ Size(a, b) >= 3
                   /\ Following(a, b) = b + Size(a, b) /\ Following(a, b) \in B \cup {a.end}
  BY HeapNumbers DEF Heap
<1>2. \A b, c \in B : b < c => Following(a, b) <= c
  BY DEF Heap, Tiled
<1>3. n \in B \cup {a.end} /\ n = h + Size(a, h) /\ (IsEpilogue(a, n) <=> n = a.end)
      /\ (n = a.end => ~Free(a, n)) /\ n \in Nat
  BY <1>1, FollowingIs
<1>4. CASE NextFree(a, h)
  <2>1. n \in B /\ Free(a, n) /\ n # a.end
    BY <1>3, <1>4 DEF NextFree
  <2>2. SizeWithNext(a, h) = Size(a, h) + Size(a, n)
    BY <1>4 DEF SizeWithNext
  <2>3. h + SizeWithNext(a, h) = Following(a, n) /\ SizeWithNext(a, h) \in Nat
        /\ SizeWithNext(a, h) >= Size(a, h) /\ h < n /\ n < Following(a, n)
    BY <1>1, <1>3, <2>1, <2>2
  <2>4. ~Free(a, Following(a, n))
    BY <2>1 DEF Heap, Agree
  <2>5. ASSUME NEW b \in B, h < b, b < Following(a, n) PROVE b = n
    BY <1>1, <1>2, <1>3, <2>1, <2>5
  <2> HIDE DEF n
  <2> QED
    BY <1>1, <1>4, <2>1, <2>3, <2>4, <2>5 DEF n
<1>5. CASE ~NextFree(a, h)
  <2>1. SizeWithNext(a, h) = Size(a, h)
    BY <1>1, <1>5 DEF SizeWithNext
  <2>2. ~Free(a, n)
    BY <1>3, <1>5 DEF NextFree
  <2>3. \A b \in B : ~(h < b /\ b < n)
    BY <1>1, <1>2, <1>3
  <2> QED
    BY <1>1, <1>3, <1>5, <2>1, <2>2, <2>3
<1> QED
  BY <1>4, <1>5

\* The free block after h leaves its list: the lists have blocks beside h and it only.
LEMMA NextUnlinked ==
  ASSUME NEW a \in Arenas, NEW B, Heap(a, B), NEW S \in SUBSET B, Listing(a, S), NEW h \in B,
         h \notin S, NextFree(a, h) => Following(a, h) \in S
  PROVE  LET a2 == WithoutNext(a, h) IN
         /\ a2 \in Arenas /\ Heap(a2, B) /\ Relinked(a, a2, S)
         /\ Listing(a2, S \cap Beside(B, h, h + SizeWithNext(a, h)))
<1> DEFINE hi == h + SizeWithNext(a, h)
           n  == Following(a, h)
<1>1. /\ hi \in Nat
      /\ NextFree(a, h) => h < n /\ n < hi
      /\ \A b \in B : h < b /\ b < hi => NextFree(a, h) /\ b = n
      /\ h < hi
  BY JoinNext, HeapNumbers DEF Heap
<1>2. h \in Nat /\ \A b \in B : b \in Nat
  BY HeapNumbers DEF Heap
<1>3. CASE NextFree(a, h)
  <2>1. S \cap Beside(B, h, hi) = S \ {n}
    <3> HIDE DEF hi, n
    <3>1. \A b \in S : b \in B /\ b \in Nat /\ b # h
      BY <1>2
    <3>2. \A b \in S : (b < h \/ hi <= b) <=> b # n
      BY <1>1, <1>2, <1>3, <3>1
    <3> QED
      BY <3>1, <3>2 DEF Beside
  <2>2. n \in S
    BY <1>3
  <2>3. WithoutNext(a, h) = BucketRemove(a, n)
    BY <1>3 DEF WithoutNext
  <2> HIDE DEF hi, n
  <2>4. BucketRemove(a, n) \in Arenas /\ Heap(BucketRemove(a, n), B)
        /\ Listing(BucketRemove(a, n), S \ {n}) /\ Relinked(a, BucketRemove(a, n), S)
    BY <2>2, Unlinked
  <2> QED
    BY <2>1, <2>3, <2>4 DEF hi
<1>4. CASE ~NextFree(a, h)
  <2>1. S \cap Beside(B, h, hi) = S
    <3> HIDE DEF hi, n
    <3>1. \A b \in S : b \in B /\ b \in Nat /\ b # h
      BY <1>2
    <3>2. \A b \in S : b < h \/ hi <= b
      BY <1>1, <1>2, <1>4, <3>1
    <3> QED
      BY <3>1, <3>2 DEF Beside
  <2>2. WithoutNext(a, h) = a
    BY <1>4 DEF WithoutNext
  <2>3. Relinked(a, a, S)
    BY DEF Relinked, SameBounds
  <2> QED
    BY <2>1, <2>2, <2>3
<1> QED
  BY <1>3, <1>4

\* From the blocks B of a to the blocks B2 of a2: the used blocks gone are used no
\* more, come are; the other used blocks are as they were.
Moves(a, a2, B, B2, gone, come) ==
  /\ a2 \in Arenas /\ Sound(a2, B2)
  /\ UsedBlocks(a2, B2) = (UsedBlocks(a, B) \ gone) \cup come
  /\ Intact(a, a2, UsedBlocks(a, B) \ gone)

\* Links are written: the used and the free blocks are the same.
LEMMA RelinkedBlocks ==
  ASSUME NEW a \in Arenas, NEW a2 \in Arenas, NEW B, Heap(a, B), NEW S \in SUBSET B,
         Relinked(a, a2, S)
  PROVE  /\ UsedBlocks(a2, B) = UsedBlocks(a, B) /\ FreeBlocks(a2, B) = FreeBlocks(a, B)
         /\ \A b \in B \cup {a.end} : /\ Free(a2, b) <=> Free(a, b)
                                      /\ Size(a2, b) = Size(a, b) /\ PrevFree(a2, b) = PrevFree(a, b)
                                      /\ AllocOf(a2.mem[b]) = AllocOf(a.mem[b])
                                      /\ Following(a2, b) = Following(a, b)
<1>1. \A b \in B \cup {a.end} : a2.mem[b] = a.mem[b]
  BY RelinkedHeap
<1>2. \A b \in B \cup {a.end} : /\ Free(a2, b) <=> Free(a, b)
                                /\ Size(a2, b) = Size(a, b) /\ PrevFree(a2, b) = PrevFree(a, b)
                                /\ AllocOf(a2.mem[b]) = AllocOf(a.mem[b])
                                /\ Following(a2, b) = Following(a, b)
  BY <1>1, SameWord
<1> QED
  BY <1>2 DEF UsedBlocks, FreeBlocks

\* Two changes of links.
LEMMA RelinkedTwice ==
  ASSUME NEW a, NEW a2, NEW a3, NEW S, Relinked(a, a2, S), Relinked(a2, a3, S)
  PROVE  Relinked(a, a3, S)
BY DEF Relinked, SameBounds

\* Block h, which is used, and the free block after it become a free block from lo on.
LEMMA Joined ==
  ASSUME NEW a \in Arenas, NEW B, Heap(a, B), NEW h \in UsedBlocks(a, B), NEW lo \in B, lo # a.start,
         lo <= h, \A b \in B : lo <= b /\ b < h => Free(a, b),
         \A b \in B : Following(a, b) = lo => ~Free(a, b),
         NEW a1 \in Arenas, NEW S \in SUBSET B, S \in SUBSET FreeBlocks(a, B), Relinked(a, a1, S),
         Listing(a1, FreeBlocks(a, B) \cap Beside(B, lo, h + SizeWithNext(a, h))),
         NEW size, lo + size = h + SizeWithNext(a, h), size \in Nat
  PROVE  LET a2 == PutFree(a1, lo, size, 0)
             B2 == Refilled(B, {lo}, lo, lo + size)
         IN  Moves(a, a2, B, B2, {h}, {}) /\ SameBounds(a, a2)
<1> DEFINE hi == h + SizeWithNext(a, h)
           F  == FreeBlocks(a, B) \cap Beside(B, lo, hi)
           X  == UsedBlocks(a, B) \cap Beside(B, lo, hi)
           B2 == Refilled(B, {lo}, lo, hi)
           a2 == PutFree(a1, lo, size, 0)
<1>1. /\ h \in B /\ h \in Nat /\ lo \in Nat /\ hi \in Nat /\ hi \in B \cup {a.end} /\ ~Free(a, hi)
      /\ h + 3 <= hi /\ \A b \in B : b \in Nat
      /\ \A b \in B : h < b /\ b < hi => Free(a, b)
  <2>1. h \in B /\ h \in Nat /\ lo \in Nat /\ \A b \in B : b \in Nat
    BY HeapNumbers DEF Heap, UsedBlocks
  <2>2. /\ SizeWithNext(a, h) \in Nat /\ SizeWithNext(a, h) >= Size(a, h) /\ Size(a, h) >= 3
        /\ hi \in B \cup {a.end} /\ ~Free(a, hi) /\ Size(a, h) \in Nat
        /\ NextFree(a, h) => Free(a, Following(a, h))
        /\ \A b \in B : h < b /\ b < hi => NextFree(a, h) /\ b = Following(a, h)
    BY <2>1, JoinNext, FollowingIs
  <2> HIDE DEF hi
  <2>3. \A b \in B : h < b /\ b < hi => Free(a, b)
    BY <2>2
  <2> QED
    BY <2>1, <2>2, <2>3 DEF hi
<1>2. X = UsedBlocks(a, B) \ {h}
  <2> HIDE DEF hi
  <2>1. \A b \in UsedBlocks(a, B) : b \in B /\ b \in Nat /\ ~Free(a, b)
    BY <1>1 DEF UsedBlocks
  <2>2. \A b \in UsedBlocks(a, B) : (b < lo \/ hi <= b) <=> b # h
    BY <1>1, <2>1
  <2> QED
    BY <2>1, <2>2 DEF Beside
<1>3. /\ Heap(a1, B) /\ a1.start = a.start /\ a1.end = a.end
      /\ UsedBlocks(a1, B) = UsedBlocks(a, B) /\ FreeBlocks(a1, B) = FreeBlocks(a, B)
      /\ \A b \in B \cup {a.end} : /\ Free(a1, b) <=> Free(a, b)
                                   /\ Following(a1, b) = Following(a, b)
  BY RelinkedHeap, RelinkedBlocks DEF Relinked, SameBounds
<1>4. /\ lo + size = hi /\ size >= 3 /\ size \in Nat
      /\ lo + size \in B \cup {a1.end} /\ ~Free(a1, lo + size) /\ lo # a1.start
      /\ \A b \in B : Following(a1, b) = lo => ~Free(a1, b)
      /\ Listing(a1, FreeBlocks(a1, B) \cap Beside(B, lo, lo + size))
  <2>1. lo + size = hi /\ Listing(a1, F)
    OBVIOUS
  <2> HIDE DEF hi
  <2>2. size >= 3
    BY <1>1, <2>1
  <2> QED
    BY <1>1, <1>3, <2>1, <2>2
<1> HIDE DEF hi
<1>5. /\ a2 \in Arenas /\ SameBounds(a1, a2) /\ Sound(a2, B2)
      /\ UsedBlocks(a2, B2) = X /\ Intact(a1, a2, X)
  <2> HIDE DEF a2, B2, X
  <2>1. LET Y == UsedBlocks(a1, B) \cap Beside(B, lo, lo + size)
            C == Refilled(B, {lo}, lo, lo + size)
        IN  /\ a2 \in Arenas /\ SameBounds(a1, a2) /\ Sound(a2, C)
            /\ UsedBlocks(a2, C) = Y /\ Intact(a1, a2, Y)
    BY <1>3, <1>4, Refreed DEF a2
  <2> QED
    BY <1>3, <1>4, <2>1 DEF B2, X
<1> HIDE DEF a2, B2
<1>6. Intact(a, a1, X)
  <2>1. X \in SUBSET B /\ X \cap S = {}
    BY DEF UsedBlocks, FreeBlocks
  <2> QED
    BY <2>1, RelinkedIntact
<1>7. Intact(a, a2, X)
  BY <1>5, <1>6, IntactTwice
<1>8. SameBounds(a, a2)
  BY <1>5 DEF Relinked, SameBounds
<1> HIDE DEF X
<1>9. Moves(a, a2, B, B2, {h}, {})
  BY <1>2, <1>5, <1>7 DEF Moves
<1> QED
  BY <1>4, <1>8, <1>9 DEF a2, B2

\* coalesce: the block goes, its words are free.
LEMMA Coalesced ==
  ASSUME NEW a \in Arenas, NEW B, Sound(a, B), NEW h \in UsedBlocks(a, B), h # a.start
  PROVE  \E B2 : Moves(a, Coalesce(a, h), B, B2, {h}, {}) /\ SameBounds(a, Coalesce(a, h))
<1> DEFINE F  == FreeBlocks(a, B)
           hi == h + SizeWithNext(a, h)
<1>1. /\ Heap(a, B) /\ Listing(a, F) /\ h \in B /\ ~Free(a, h) /\ h \notin F /\ F \in SUBSET B
      /\ NextFree(a, h) => Following(a, h) \in F
  <2>1. Heap(a, B) /\ Listing(a, F) /\ h \in B /\ ~Free(a, h)
    BY DEF Sound, UsedBlocks
  <2>2. NextFree(a, h) => Following(a, h) \in B /\ Free(a, Following(a, h))
    BY <2>1, JoinNext
  <2> QED
    BY <2>1, <2>2 DEF FreeBlocks
<1>2. SizeWithNext(a, h) \in Nat /\ hi \in Nat /\ \A b \in B : b \in Nat /\ Size(a, b) \in Nat
  BY <1>1, JoinNext, HeapNumbers DEF Heap
<1>3. CASE PrevFree(a, h) = 1
  <2> DEFINE p  == Preceding(a, h)
             a0 == BucketRemove(a, p)
             a1 == WithoutNext(a0, h)
             T  == F \ {p}
             size == Size(a, p) + SizeWithNext(a, h)
  <2>1. /\ p \in B /\ Free(a, p) /\ Following(a, p) = h /\ p # a.start /\ PrevFree(a, p) = 0
        /\ \A b \in B : Following(a, b) = p => ~Free(a, b)
    BY <1>1, <1>3, PrecedingIs
  <2>2. Coalesce(a, h) = PutFree(a1, p, size, 0)
    BY <1>3, <2>1 DEF Coalesce
  <2> HIDE DEF p
  <2>3. h = p + Size(a, p) /\ p <= h /\ p < h /\ p + size = hi /\ size \in Nat
        /\ \A b \in B : p <= b /\ b < h => b = p
    <3>1. h = p + Size(a, p) /\ Size(a, p) >= 3 /\ \A b \in B : p < b => p + Size(a, p) <= b
      BY <1>1, <2>1, HeapNumbers DEF Heap
    <3> QED
      BY <1>2, <1>1, <2>1, <3>1
  <2> HIDE DEF hi
  <2>4. p \in F
    BY <2>1 DEF FreeBlocks
  <2>5. a0 \in Arenas /\ Heap(a0, B) /\ Listing(a0, T) /\ Relinked(a, a0, F)
    BY <1>1, <2>4, Unlinked
  <2> HIDE DEF a0
  <2>6. SizeWithNext(a0, h) = SizeWithNext(a, h) /\ (NextFree(a0, h) <=> NextFree(a, h))
        /\ Following(a0, h) = Following(a, h)
    <3>1. Following(a, h) \in B \cup {a.end} /\ h \in B \cup {a.end}
      BY <1>1, HeapNumbers DEF Heap
    <3>2. \A b \in {h, Following(a, h)} : /\ Free(a0, b) <=> Free(a, b)
                                          /\ Size(a0, b) = Size(a, b)
                                          /\ Following(a0, b) = Following(a, b)
      BY <1>1, <2>5, <3>1, RelinkedBlocks
    <3> QED
      BY <3>2 DEF SizeWithNext, NextFree, IsEpilogue
  <2>7. NextFree(a0, h) => Following(a0, h) \in T
    <3>1. NextFree(a, h) => h < Following(a, h)
      BY <1>1, JoinNext
    <3> QED
      BY <1>1, <1>2, <2>1, <2>3, <2>6, <3>1
  <2>8. /\ a1 \in Arenas /\ Heap(a1, B) /\ Relinked(a0, a1, T)
        /\ Listing(a1, T \cap Beside(B, h, h + SizeWithNext(a0, h)))
    <3>1. T \in SUBSET B /\ h \notin T
      BY <1>1
    <3> HIDE DEF T, a1
    <3> QED
      BY <1>1, <2>5, <2>7, <3>1, NextUnlinked DEF a1
  <2>9. T \cap Beside(B, h, hi) = F \cap Beside(B, p, hi)
    <3>1. \A b \in F : b \in B /\ b \in Nat /\ b # h
      BY <1>1, <1>2
    <3>2. \A b \in F : (b # p /\ (b < h \/ hi <= b)) <=> (b < p \/ hi <= b)
      <4>1. p < hi /\ h < hi
        <5>1. SizeWithNext(a, h) >= 3
          BY <1>1, JoinNext, HeapNumbers DEF Heap
        <5> QED
          BY <1>1, <1>2, <2>1, <2>3, <5>1 DEF hi
      <4> QED
        BY <1>1, <1>2, <2>1, <2>3, <3>1, <4>1
    <3> HIDE DEF F
    <3> QED
      BY <3>1, <3>2 DEF Beside
  <2>10. Relinked(a, a1, F)
    <3>1. Relinked(a0, a1, F)
      BY <2>8 DEF Relinked
    <3> QED
      BY <2>5, <3>1, RelinkedTwice
  <2> HIDE DEF a1
  <2>11. Listing(a1, F \cap Beside(B, p, h + SizeWithNext(a, h)))
    BY <2>6, <2>8, <2>9 DEF hi
  <2>12. \A b \in B : p <= b /\ b < h => Free(a, b)
    BY <2>1, <2>3
  <2>13. p + size = h + SizeWithNext(a, h)
    BY <2>3 DEF hi
  <2> HIDE DEF size
  <2>14. LET C == Refilled(B, {p}, p, p + size)
         IN  Moves(a, PutFree(a1, p, size, 0), B, C, {h}, {}) /\ SameBounds(a, PutFree(a1, p, size, 0))
    <3>1. F \in SUBSET B /\ F \in SUBSET FreeBlocks(a, B) /\ Heap(a, B)
          /\ Listing(a1, FreeBlocks(a, B) \cap Beside(B, p, h + SizeWithNext(a, h)))
      BY <1>1, <2>11
    <3>2. p \in B /\ p # a.start /\ p <= h /\ size \in Nat /\ a1 \in Arenas /\ Relinked(a, a1, F)
          /\ \A b \in B : Following(a, b) = p => ~Free(a, b)
      BY <2>1, <2>3, <2>8, <2>10
    <3> HIDE DEF F
    <3> QED
      BY <2>12, <2>13, <3>1, <3>2, Joined
  <2> QED
    BY <2>2, <2>14
<1>4. CASE PrevFree(a, h) # 1
  <2> DEFINE a1 == WithoutNext(a, h)
  <2>1. Coalesce(a, h) = PutFree(a1, h, SizeWithNext(a, h), 0)
    BY <1>4 DEF Coalesce
  <2>2. \A b \in B : Following(a, b) = h => ~Free(a, b)
    BY <1>1, <1>4, PrecedingIs
  <2>3. a1 \in Arenas /\ Relinked(a, a1, F) /\ Listing(a1, F \cap Beside(B, h, h + SizeWithNext(a, h)))
    <3> HIDE DEF F
    <3> QED
      BY <1>1, NextUnlinked
  <2>4. h <= h /\ \A b \in B : h <= b /\ b < h => Free(a, b)
    BY <1>1, <1>2
  <2>5. LET size == SizeWithNext(a, h)
            C == Refilled(B, {h}, h, h + size)
        IN  Moves(a, PutFree(a1, h, size, 0), B, C, {h}, {}) /\ SameBounds(a, PutFree(a1, h, size, 0))
    <3>1. F \in SUBSET B /\ F \in SUBSET FreeBlocks(a, B) /\ Heap(a, B)
          /\ Listing(a1, FreeBlocks(a, B) \cap Beside(B, h, h + SizeWithNext(a, h)))
      BY <1>1, <2>3
    <3> HIDE DEF F, a1
    <3> QED
      BY <1>1, <1>2, <2>2, <2>3, <2>4, <3>1, Joined
  <2> QED
    BY <2>1, <2>5
<1> QED
  BY <1>3, <1>4

--------------------------------------------------------------------------------
\* Used blocks: a block takes the first words of a run, a free block the others.

\* bucket_insert writes a link and the head of a list: the headers can be written before
\* or after it.
LEMMA InsertThenHeader ==
  ASSUME NEW a \in Arenas, NEW r \in Addresses, r + 1 \in Addresses, NEW x \in Addresses, x # r + 1,
         NEW size \in Nat, NEW alloc \in 0 .. 1, NEW pf \in 0 .. 1, x = r => size = Size(a, r)
  PROVE  SetHeader(BucketInsert(a, r), x, size, alloc, pf)
           = BucketInsert(SetHeader(a, x, size, alloc, pf), r)
<1> DEFINE w == Tag(size, alloc, pf)
           cls == ClassOf[Size(a, r)]
           b == SetHeader(a, x, size, alloc, pf)
<1>1. Size(b, r) = Size(a, r)
  <2>1. OnlyWords(a, b, {x}) /\ b.mem[x] = w
    BY HeaderSet
  <2> HIDE DEF b
  <2>2. CASE x = r
    BY <2>1, <2>2, TagRead
  <2>3. CASE x # r
    BY <2>1, <2>3, SameWord DEF OnlyWords
  <2> QED
    BY <2>2, <2>3
<1>2. cls \in 1 .. NumClasses
  BY ClassFound, Reads
<1>3. BucketInsert(b, r) = [b EXCEPT !.mem[r + 1] = b.bucket[cls], !.bucket[cls] = r]
  BY <1>1 DEF BucketInsert
<1>4. BucketInsert(a, r) = [a EXCEPT !.mem[r + 1] = a.bucket[cls], !.bucket[cls] = r]
  BY DEF BucketInsert
<1> HIDE DEF cls
<1>5. [[a EXCEPT !.mem[r + 1] = a.bucket[cls], !.bucket[cls] = r] EXCEPT !.mem[x] = w]
        = [[a EXCEPT !.mem[x] = w] EXCEPT !.mem[r + 1] = a.bucket[cls], !.bucket[cls] = r]
  <2> HIDE DEF w
  <2>1. a = [mem |-> a.mem, start |-> a.start, end |-> a.end, bucket |-> a.bucket,
             cap |-> a.cap, used |-> a.used]
    BY DEF Arenas
  <2>2. a.mem \in [Addresses -> Nat]
    BY DEF Arenas
  <2>3. [[a.mem EXCEPT ![r + 1] = a.bucket[cls]] EXCEPT ![x] = w]
          = [[a.mem EXCEPT ![x] = w] EXCEPT ![r + 1] = a.bucket[cls]]
    BY <2>2
  <2> QED
    BY <2>1, <2>3
<1>6. b = [a EXCEPT !.mem[x] = w] /\ b.bucket = a.bucket
  <2>1. OnlyWords(a, b, {x})
    BY HeaderSet
  <2> QED
    BY <2>1 DEF SetHeader, OnlyWords
<1> QED
  BY <1>3, <1>4, <1>5, <1>6 DEF SetHeader

\* The header that follows is told before or after it.
LEMMA InsertThenTell ==
  ASSUME NEW a \in Arenas, NEW r \in Addresses, r + 1 \in Addresses, NEW h \in Addresses, h # r + 1,
         Following(a, h) \in Addresses, Following(a, h) # r + 1, NEW pf \in 0 .. 1
  PROVE  /\ TellFollowing(BucketInsert(a, r), h, pf) = BucketInsert(TellFollowing(a, h, pf), r)
         /\ TellFollowingBlock(BucketInsert(a, r), h, pf) = BucketInsert(TellFollowingBlock(a, h, pf), r)
<1> DEFINE b == BucketInsert(a, r)
           n == Following(a, h)
<1>1. \A x \in Addresses : x # r + 1 => b.mem[x] = a.mem[x]
  <2>1. a.mem \in [Addresses -> Nat]
    BY DEF Arenas
  <2>2. b.mem = [a.mem EXCEPT ![r + 1] = a.bucket[ClassOf[Size(a, r)]]]
    BY DEF BucketInsert, Arenas
  <2> HIDE DEF b
  <2> QED
    BY <2>1, <2>2
<1> HIDE DEF b
<1>2. /\ Following(b, h) = n /\ Size(b, n) = Size(a, n) /\ AllocOf(b.mem[n]) = AllocOf(a.mem[n])
  BY <1>1, SameWord
<1> HIDE DEF n
<1>3. n \in Addresses /\ Size(a, n) \in Nat /\ AllocOf(a.mem[n]) \in 0 .. 1 /\ n # r + 1
  BY Reads DEF n
<1>4. SetHeader(b, n, Size(a, n), AllocOf(a.mem[n]), pf)
        = BucketInsert(SetHeader(a, n, Size(a, n), AllocOf(a.mem[n]), pf), r)
  BY <1>3, InsertThenHeader DEF b
<1>5. TellFollowing(b, h, pf) = BucketInsert(TellFollowing(a, h, pf), r)
  BY <1>2, <1>4 DEF TellFollowing, n
<1>6. IsEpilogue(b, n) <=> IsEpilogue(a, n)
  BY <1>2 DEF IsEpilogue
<1> QED
  BY <1>2, <1>5, <1>6 DEF TellFollowingBlock, b, n

\* The block before h agrees with it still when h is used now.
LEMMA UsedAgrees ==
  ASSUME NEW a \in Arenas, NEW B, Heap(a, B), NEW h \in B, h # a.start, NEW a2 \in Arenas,
         a2.end = a.end, PrevFree(a2, h) = PrevFree(a, h), ~Free(a2, h),
         \A x \in Addresses : x < h => a2.mem[x] = a.mem[x]
  PROVE  \A b \in B : Following(a, b) = h => Agree(a2, b)
<1> SUFFICES ASSUME NEW b \in B, Following(a, b) = h PROVE Agree(a2, b)
  OBVIOUS
<1>1. /\ b \in Addresses /\ b \in Nat /\ h \in Nat /\ h = b + Size(a, b) /\ Size(a, b) \in Nat
      /\ Size(a, b) >= 3 /\ h # a.end
  BY HeapNumbers DEF Heap
<1>2. h - 1 \in Addresses
  BY <1>1, HeapNumbers, NoAddress DEF Heap
<1>3. a2.mem[b] = a.mem[b] /\ a2.mem[h - 1] = a.mem[h - 1]
  BY <1>1, <1>2
<1>4. Following(a2, b) = h /\ (Free(a2, b) <=> Free(a, b)) /\ AllocOf(a2.mem[b]) = AllocOf(a.mem[b])
      /\ Size(a2, b) = Size(a, b)
  BY <1>3, SameWord
<1>5. Agree(a, b)
  BY DEF Heap
<1> QED
  BY <1>1, <1>3, <1>4, <1>5 DEF Agree, FooterTrimmed

\* What the header at h says.
Header(a, h, size, alloc, pf) ==
  Size(a, h) = size /\ AllocOf(a.mem[h]) = alloc /\ PrevFree(a, h) = pf

\* From a to y block h takes all the words up to hi.
Whole(a, y, h, hi) ==
  /\ OnlyWords(a, y, {h, hi}) /\ Header(y, h, hi - h, 1, PrevFree(a, h))
  /\ Size(y, hi) = Size(a, hi) /\ AllocOf(y.mem[hi]) = AllocOf(a.mem[hi])
  /\ hi # a.end => PrevFree(y, hi) = 0

\* From a to y block h takes the first words, and the others are a free block.
Cut(a, y, h, needed, hi) ==
  /\ OnlyWords(a, y, {h, h + needed, hi - 1, hi})
  /\ Header(y, h, needed, 1, PrevFree(a, h))
  /\ Header(y, h + needed, hi - (h + needed), 0, 0)
  /\ SizeOf(y.mem[hi - 1]) = hi - (h + needed)
  /\ Size(y, hi) = Size(a, hi) /\ AllocOf(y.mem[hi]) = AllocOf(a.mem[hi])
  /\ hi # a.end => PrevFree(y, hi) = 1

\* The words of a run, and where the run ends.
LEMMA RunIs ==
  ASSUME NEW a \in Arenas, NEW B, Heap(a, B), NEW h \in B, NEW hi \in B \cup {a.end}, h < hi
  PROVE  /\ h \in Nat /\ hi \in Nat /\ h \in Addresses /\ hi \in Addresses /\ hi <= a.end
         /\ a.end \in Addresses /\ a.end \in Nat /\ h + 3 <= hi
         /\ \A x \in Int : h <= x /\ x <= hi => x \in Addresses
<1>1. /\ h \in Nat /\ hi \in Nat /\ h \in Addresses /\ hi \in Addresses /\ hi <= a.end
      /\ a.end \in Addresses /\ a.end \in Nat
  BY FollowingIs
<1>2. h + 3 <= hi
  <2>1. Size(a, h) \in Nat /\ Size(a, h) >= 3 /\ h + Size(a, h) <= a.end
        /\ \A b \in B : h < b => h + Size(a, h) <= b
    BY HeapNumbers DEF Heap
  <2>2. h + Size(a, h) <= hi
    BY <2>1
  <2> QED
    BY <1>1, <2>1, <2>2
<1>3. \A x \in Int : h <= x /\ x <= hi => x \in Addresses
  BY <1>1, NoAddress
<1> QED
  BY <1>1, <1>2, <1>3

\* The end of the heap stays the epilogue when its size and its state are kept.
LEMMA EndKept ==
  ASSUME NEW a \in Arenas, NEW B, Heap(a, B), NEW a2 \in Arenas, NEW X, OnlyWords(a, a2, X),
         NEW hi, \A x \in X : x # hi => x < a.end,
         hi = a.end => Size(a2, hi) = Size(a, hi) /\ AllocOf(a2.mem[hi]) = AllocOf(a.mem[hi])
  PROVE  /\ a2.start = a.start /\ a2.end = a.end /\ a2.end \in Addresses
         /\ IsEpilogue(a2, a2.end) /\ ~Free(a2, a2.end)
<1>1. a2.start = a.start /\ a2.end = a.end /\ a.end \in Addresses /\ a.end \in Nat
  BY HeapNumbers DEF Heap, OnlyWords, SameBounds
<1>2. IsEpilogue(a, a.end) /\ ~Free(a, a.end)
  BY DEF Heap
<1>3. CASE hi = a.end
  BY <1>1, <1>2, <1>3 DEF IsEpilogue, Free
<1>4. CASE hi # a.end
  <2>1. a.end \notin X
    BY <1>1, <1>4
  <2>2. a2.mem[a.end] = a.mem[a.end]
    BY <1>1, <2>1 DEF OnlyWords
  <2> QED
    BY <1>1, <1>2, <2>2, SameWord DEF IsEpilogue
<1> QED
  BY <1>3, <1>4

\* Block h with all the words up to hi refills them.
LEMMA WholeRefill ==
  ASSUME NEW a \in Arenas, NEW B, Heap(a, B), NEW h \in B, h # a.start, NEW hi \in B \cup {a.end},
         h < hi, NEW y, Whole(a, y, h, hi)
  PROVE  /\ y \in Arenas /\ Refill(a, y, B, {h}, h, hi)
         /\ Size(y, h) = hi - h /\ ~Free(y, h)
<1>1. /\ h \in Nat /\ hi \in Nat /\ h \in Addresses /\ hi \in Addresses /\ hi <= a.end
      /\ a.end \in Addresses /\ a.end \in Nat /\ h + 3 <= hi
  BY RunIs
<1>2. /\ y \in Arenas /\ OnlyWords(a, y, {h, hi}) /\ Header(y, h, hi - h, 1, PrevFree(a, h))
      /\ Size(y, hi) = Size(a, hi) /\ AllocOf(y.mem[hi]) = AllocOf(a.mem[hi])
      /\ hi # a.end => PrevFree(y, hi) = 0
  BY DEF Whole, OnlyWords
<1>3. PrevFree(a, h) \in 0 .. 1 /\ hi - h \in Nat
  BY <1>1, Reads
<1>4. /\ Size(y, h) = hi - h /\ AllocOf(y.mem[h]) = 1 /\ PrevFree(y, h) = PrevFree(a, h)
      /\ Following(y, h) = h + (hi - h) /\ ~Free(y, h)
  BY <1>2 DEF Header, Following, Free
<1>5. Following(y, h) = hi
  BY <1>1, <1>4
<1>6. y.start = a.start /\ y.end = a.end /\ y.end \in Addresses /\ IsEpilogue(y, y.end) /\ ~Free(y, y.end)
  <2>1. \A x \in {h, hi} : x # hi => x < a.end
    BY <1>1
  <2> QED
    BY <1>2, <2>1, EndKept
<1>7. \A x \in Addresses : x < h \/ hi < x => y.mem[x] = a.mem[x]
  BY <1>1, <1>2, NoAddress DEF OnlyWords
<1>8. \A b \in B : Following(a, b) = h => Agree(y, b)
  <2>1. \A x \in Addresses : x < h => y.mem[x] = a.mem[x]
    BY <1>7
  <2> QED
    BY <1>2, <1>4, <1>6, <2>1, UsedAgrees
<1>9. Filling(y, {h}, h, hi)
  <2>1. Agree(y, h)
    BY <1>2, <1>4, <1>5, <1>6 DEF Agree
  <2> QED
    BY <1>1, <1>4, <1>5, <2>1 DEF Filling, MinBlock
<1>10. hi \in B \cup {a.end, y.end} /\ h < hi
  BY <1>1
<1> QED
  BY <1>2, <1>4, <1>6, <1>7, <1>8, <1>9, <1>10 DEF Refill

\* Block h with the first words and a free block with the others refill the run.
LEMMA CutRefill ==
  ASSUME NEW a \in Arenas, NEW B, Heap(a, B), NEW h \in B, h # a.start, NEW hi \in B \cup {a.end},
         ~Free(a, hi), NEW needed \in Nat, needed >= 3, h + needed + 3 <= hi,
         NEW y, Cut(a, y, h, needed, hi)
  PROVE  LET rest == h + needed IN
         /\ y \in Arenas /\ Refill(a, y, B, {h, rest}, h, hi)
         /\ Size(y, h) = needed /\ ~Free(y, h) /\ Free(y, rest)
         /\ rest \in Addresses /\ rest + 1 \in Addresses /\ h < rest /\ rest < hi
<1> DEFINE rest == h + needed
<1>0. h < hi
  <2>1. h \in Nat /\ hi \in Nat
    BY FollowingIs
  <2> QED
    BY <2>1
<1>1. /\ h \in Nat /\ hi \in Nat /\ h \in Addresses /\ hi \in Addresses /\ hi <= a.end
      /\ a.end \in Addresses /\ a.end \in Nat
      /\ rest \in Nat /\ h + 3 <= rest /\ rest + 3 <= hi
      /\ rest \in Addresses /\ rest + 1 \in Addresses /\ hi - 1 \in Addresses /\ h < rest
  <2>1. /\ h \in Nat /\ hi \in Nat /\ h \in Addresses /\ hi \in Addresses /\ hi <= a.end
        /\ a.end \in Addresses /\ a.end \in Nat
        /\ \A x \in Int : h <= x /\ x <= hi => x \in Addresses
    BY <1>0, RunIs
  <2> QED
    BY <2>1
<1>2. /\ y \in Arenas /\ OnlyWords(a, y, {h, rest, hi - 1, hi})
      /\ Header(y, h, needed, 1, PrevFree(a, h))
      /\ Header(y, rest, hi - rest, 0, 0) /\ SizeOf(y.mem[hi - 1]) = hi - rest
      /\ Size(y, hi) = Size(a, hi) /\ AllocOf(y.mem[hi]) = AllocOf(a.mem[hi])
      /\ hi # a.end => PrevFree(y, hi) = 1
  BY DEF Cut, OnlyWords
<1> HIDE DEF rest
<1>3. PrevFree(a, h) \in 0 .. 1 /\ hi - rest \in Nat
  BY <1>1, Reads
<1>4. /\ Size(y, h) = needed /\ AllocOf(y.mem[h]) = 1 /\ PrevFree(y, h) = PrevFree(a, h)
      /\ Following(y, h) = rest /\ ~Free(y, h)
  BY <1>2 DEF Header, Following, Free, rest
<1>5. /\ Size(y, rest) = hi - rest /\ AllocOf(y.mem[rest]) = 0 /\ PrevFree(y, rest) = 0
      /\ Following(y, rest) = hi /\ Free(y, rest)
  <2>1. Following(y, rest) = rest + (hi - rest)
    BY <1>2 DEF Header, Following
  <2> QED
    BY <1>1, <1>2, <2>1 DEF Header, Free
<1>6. y.start = a.start /\ y.end = a.end /\ y.end \in Addresses /\ IsEpilogue(y, y.end) /\ ~Free(y, y.end)
  <2>1. \A x \in {h, rest, hi - 1, hi} : x # hi => x < a.end
    BY <1>1
  <2> QED
    BY <1>2, <2>1, EndKept
<1>7. \A x \in Addresses : x < h \/ hi < x => y.mem[x] = a.mem[x]
  <2> SUFFICES ASSUME NEW x \in Addresses, x < h \/ hi < x PROVE y.mem[x] = a.mem[x]
    OBVIOUS
  <2>1. x \in Nat
    BY NoAddress
  <2>2. x \notin {h, rest, hi - 1, hi}
    BY <1>1, <2>1
  <2> QED
    BY <1>2, <2>2 DEF OnlyWords
<1>8. \A b \in B : Following(a, b) = h => Agree(y, b)
  <2>1. \A x \in Addresses : x < h => y.mem[x] = a.mem[x]
    BY <1>7
  <2> QED
    BY <1>2, <1>4, <1>6, <2>1, UsedAgrees
<1>9. Filling(y, {h, rest}, h, hi)
  <2>1. Agree(y, h)
    <3>1. rest # y.end
      BY <1>1, <1>6
    <3> QED
      BY <1>2, <1>4, <1>5, <1>6, <3>1 DEF Agree
  <2>2. ~Free(y, hi)
    BY <1>2 DEF Free
  <2>3. Agree(y, rest)
    BY <1>2, <1>5, <1>6, <2>2 DEF Agree
  <2>4. \A n \in {h, rest} : /\ h <= n /\ n < hi
                             /\ MinBlock <= Size(y, n) /\ Following(y, n) \in {h, rest} \cup {hi}
    BY <1>1, <1>4, <1>5 DEF MinBlock
  <2>5. \A n, k \in {h, rest} : n < k => Following(y, n) <= k
    BY <1>1, <1>4, <1>5
  <2> QED
    BY <1>1, <2>1, <2>3, <2>4, <2>5 DEF Filling
<1>10. hi \in B \cup {a.end, y.end} /\ h < hi
  BY <1>0
<1>11. Refill(a, y, B, {h, rest}, h, hi)
  BY <1>2, <1>6, <1>7, <1>8, <1>9, <1>10 DEF Refill
<1>12. rest < hi
  BY <1>1
<1> QED
  BY <1>1, <1>2, <1>4, <1>5, <1>11, <1>12 DEF rest

\* What a block that was resized or taken keeps, and what else is kept.
Settled(a, z, B, B2, X, h, needed) ==
  /\ z \in Arenas /\ SameBounds(a, z) /\ Sound(z, B2)
  /\ UsedBlocks(z, B2) = X \cup {h} /\ Intact(a, z, X)
  /\ Size(z, h) = needed
  /\ \A i \in 1 .. needed - 1 : z.mem[h + i] = a.mem[h + i]

\* The block that takes a run is in order there.
LEMMA WholeSettled ==
  ASSUME NEW a \in Arenas, NEW B, Heap(a, B), NEW h \in B, h # a.start, NEW hi \in B \cup {a.end},
         h < hi, Listing(a, FreeBlocks(a, B) \cap Beside(B, h, hi)),
         NEW y, Whole(a, y, h, hi)
  PROVE  Settled(a, y, B, Refilled(B, {h}, h, hi), UsedBlocks(a, B) \cap Beside(B, h, hi), h, hi - h)
<1> DEFINE B2 == Refilled(B, {h}, h, hi)
           X  == UsedBlocks(a, B) \cap Beside(B, h, hi)
           F  == FreeBlocks(a, B) \cap Beside(B, h, hi)
<1>1. y \in Arenas /\ Refill(a, y, B, {h}, h, hi) /\ Size(y, h) = hi - h /\ ~Free(y, h)
  BY WholeRefill
<1>2. SameBounds(a, y) /\ y.bucket = a.bucket /\ OnlyWords(a, y, {h, hi})
  BY DEF Whole, OnlyWords
<1>3. Heap(y, B2)
  BY <1>1, Retiled
<1>4. Intact(a, y, Beside(B, h, hi)) /\ Listing(y, F)
  BY <1>1, <1>2, RefillIntact
<1>5. UsedBlocks(y, {h}) = {h} /\ FreeBlocks(y, {h}) = {}
  BY <1>1 DEF UsedBlocks, FreeBlocks
<1>6. UsedBlocks(y, B2) = X \cup {h}
  <2>1. UsedBlocks(y, B2) = X \cup UsedBlocks(y, {h})
    BY <1>1, RefilledBlocks
  <2> QED
    BY <1>5, <2>1
<1>7. FreeBlocks(y, B2) = F
  <2>1. FreeBlocks(y, B2) = F \cup FreeBlocks(y, {h})
    BY <1>1, RefilledBlocks
  <2> QED
    BY <1>5, <2>1
<1>8. Intact(a, y, X)
  BY <1>4 DEF Intact
<1>9. \A i \in 1 .. hi - h - 1 : y.mem[h + i] = a.mem[h + i]
  <2>1. h \in Nat /\ hi \in Nat /\ \A x \in Int : h <= x /\ x <= hi => x \in Addresses
    BY RunIs
  <2> QED
    BY <1>2, <2>1 DEF OnlyWords
<1> HIDE DEF B2, X, F
<1>10. Settled(a, y, B, B2, X, h, hi - h)
  BY <1>1, <1>2, <1>3, <1>4, <1>6, <1>7, <1>8, <1>9 DEF Settled, Sound
<1> QED
  BY <1>10 DEF B2, X

\* The block that takes the first words of a run is in order there, and so is the free
\* block that has the others, once it is on its list.
LEMMA CutSettled ==
  ASSUME NEW a \in Arenas, NEW B, Heap(a, B), NEW h \in B, h # a.start, NEW hi \in B \cup {a.end},
         ~Free(a, hi), NEW needed \in Nat, needed >= 3, h + needed + 3 <= hi,
         Listing(a, FreeBlocks(a, B) \cap Beside(B, h, hi)),
         NEW y, Cut(a, y, h, needed, hi)
  PROVE  LET rest == h + needed IN
         Settled(a, BucketInsert(y, rest), B, Refilled(B, {h, rest}, h, hi),
                 UsedBlocks(a, B) \cap Beside(B, h, hi), h, needed)
<1> DEFINE rest == h + needed
           z  == BucketInsert(y, rest)
           B2 == Refilled(B, {h, rest}, h, hi)
           X  == UsedBlocks(a, B) \cap Beside(B, h, hi)
           F  == FreeBlocks(a, B) \cap Beside(B, h, hi)
<1>1. /\ y \in Arenas /\ Refill(a, y, B, {h, rest}, h, hi)
      /\ Size(y, h) = needed /\ ~Free(y, h) /\ Free(y, rest)
      /\ rest \in Addresses /\ rest + 1 \in Addresses /\ h < rest /\ rest < hi
  BY CutRefill
<1>2. SameBounds(a, y) /\ y.bucket = a.bucket /\ OnlyWords(a, y, {h, rest, hi - 1, hi})
  BY DEF Cut, OnlyWords
<1>3. rest = h + needed /\ h \in Nat /\ hi \in Nat /\ rest \in Nat
      /\ \A x \in Int : h <= x /\ x <= hi => x \in Addresses
  <2>1. h \in Nat /\ hi \in Nat
    BY FollowingIs
  <2>2. h < hi
    BY <2>1
  <2> QED
    BY <2>1, <2>2, RunIs
<1> HIDE DEF rest
<1>4. Heap(y, B2)
  BY <1>1, Retiled
<1>5. Intact(a, y, Beside(B, h, hi)) /\ Listing(y, F)
  BY <1>1, <1>2, RefillIntact
<1>6. UsedBlocks(y, {h, rest}) = {h} /\ FreeBlocks(y, {h, rest}) = {rest}
  BY <1>1 DEF UsedBlocks, FreeBlocks
<1>7. UsedBlocks(y, B2) = X \cup {h} /\ FreeBlocks(y, B2) = F \cup {rest}
  <2>1. UsedBlocks(y, B2) = X \cup UsedBlocks(y, {h, rest})
    BY <1>1, RefilledBlocks
  <2>2. FreeBlocks(y, B2) = F \cup FreeBlocks(y, {h, rest})
    BY <1>1, RefilledBlocks
  <2> QED
    BY <1>6, <2>1, <2>2
<1>8. /\ F \in SUBSET B2 /\ rest \in B2 /\ rest \notin F /\ h \in B2 /\ X \in SUBSET B2
      /\ X \in SUBSET Beside(B, h, hi) /\ rest \notin X
  <2>1. rest \notin Beside(B, h, hi)
    BY <1>1, <1>3 DEF Beside
  <2> QED
    BY <2>1 DEF Refilled, Beside
<1>9. z \in Arenas /\ Heap(z, B2) /\ Listing(z, F \cup {rest}) /\ Relinked(y, z, {rest})
  <2> HIDE DEF B2, F, X
  <2> QED
    BY <1>1, <1>4, <1>5, <1>8, Linked
<1> HIDE DEF z
<1>10. /\ UsedBlocks(z, B2) = X \cup {h} /\ FreeBlocks(z, B2) = F \cup {rest}
       /\ Size(z, h) = Size(y, h)
  <2>1. {rest} \in SUBSET B2
    BY <1>8
  <2> HIDE DEF B2, F, X
  <2>2. UsedBlocks(z, B2) = UsedBlocks(y, B2) /\ FreeBlocks(z, B2) = FreeBlocks(y, B2)
        /\ \A b \in B2 \cup {y.end} : Size(z, b) = Size(y, b)
    BY <1>1, <1>4, <1>9, <2>1, RelinkedBlocks
  <2> QED
    BY <1>7, <1>8, <2>2
<1>11. Intact(a, z, X)
  <2>1. Intact(a, y, X)
    BY <1>5, <1>8 DEF Intact
  <2>2. X \cap {rest} = {} /\ {rest} \in SUBSET B2
    BY <1>8
  <2> HIDE DEF B2, F, X
  <2>3. Intact(y, z, X)
    BY <1>1, <1>4, <1>8, <1>9, <2>2, RelinkedIntact
  <2> QED
    BY <2>1, <2>3, IntactTwice
<1>12. \A i \in 1 .. needed - 1 : z.mem[h + i] = a.mem[h + i]
  <2> SUFFICES ASSUME NEW i \in 1 .. needed - 1 PROVE z.mem[h + i] = a.mem[h + i]
    OBVIOUS
  <2>1. h + i \in Addresses /\ h + i < rest /\ h < h + i
    BY <1>1, <1>3
  <2>2. h + i \notin {h, rest, hi - 1, hi} /\ h + i # rest + 1
    BY <1>1, <1>3, <2>1
  <2>3. y.mem[h + i] = a.mem[h + i]
    BY <1>2, <2>1, <2>2 DEF OnlyWords
  <2>4. z.mem[h + i] = y.mem[h + i]
    BY <1>9, <2>1, <2>2 DEF Relinked
  <2> QED
    BY <2>3, <2>4
<1>13. SameBounds(a, z)
  BY <1>2, <1>9 DEF Relinked, SameBounds
<1> HIDE DEF B2, X, F
<1>14. Settled(a, z, B, B2, X, h, needed)
  BY <1>1, <1>9, <1>10, <1>11, <1>12, <1>13 DEF Settled, Sound
<1> QED
  BY <1>14 DEF B2, X, z, rest

\* Two writes, one after the other.
LEMMA OnlyTwice ==
  ASSUME NEW a, NEW a2, NEW a3, NEW X, NEW Y, OnlyWords(a, a2, X), OnlyWords(a2, a3, Y)
  PROVE  OnlyWords(a, a3, X \cup Y)
BY DEF OnlyWords, SameBounds

\* set_header, as it is read again.
LEMMA HeaderReads ==
  ASSUME NEW a \in Arenas, NEW h \in Addresses, NEW size \in Nat, NEW alloc \in 0 .. 1,
         NEW pf \in 0 .. 1
  PROVE  LET a2 == SetHeader(a, h, size, alloc, pf) IN
         /\ a2 \in Arenas /\ OnlyWords(a, a2, {h}) /\ Header(a2, h, size, alloc, pf)
<1> DEFINE a2 == SetHeader(a, h, size, alloc, pf)
<1>1. OnlyWords(a, a2, {h}) /\ a2.mem[h] = Tag(size, alloc, pf)
  BY HeaderSet
<1> HIDE DEF a2
<1>2. Header(a2, h, size, alloc, pf)
  BY <1>1, TagRead DEF Header
<1> QED
  BY <1>1, <1>2 DEF OnlyWords, a2

\* The block is marked and the one after it is told, unless that is the epilogue: from a
\* to the result the block takes the whole run.
LEMMA MarkedWhole ==
  ASSUME NEW a \in Arenas, NEW B, Heap(a, B), NEW h \in B, NEW hi \in B \cup {a.end}, h < hi
  PROVE  Whole(a, TellFollowingBlock(SetAllocBlock(a, h, hi - h, PrevFree(a, h)), h, 0), h, hi)
<1> DEFINE u == SetAllocBlock(a, h, hi - h, PrevFree(a, h))
           y == TellFollowingBlock(u, h, 0)
<1>1. h \in Addresses /\ hi \in Addresses /\ hi - h \in Nat /\ PrevFree(a, h) \in 0 .. 1
      /\ h \in Nat /\ hi \in Nat /\ h # hi
  <2>1. h \in Addresses /\ hi \in Addresses /\ h \in Nat /\ hi \in Nat
    BY RunIs
  <2> QED
    BY <2>1, Reads
<1>2. u \in Arenas /\ OnlyWords(a, u, {h}) /\ Header(u, h, hi - h, 1, PrevFree(a, h))
  BY <1>1, HeaderReads DEF SetAllocBlock
<1> HIDE DEF u
<1>3. Following(u, h) = hi /\ u.mem[hi] = a.mem[hi]
  BY <1>1, <1>2 DEF Header, Following, OnlyWords
<1>4. Size(u, hi) = Size(a, hi) /\ AllocOf(u.mem[hi]) = AllocOf(a.mem[hi])
  BY <1>3, SameWord
<1>5. IsEpilogue(u, hi) <=> hi = a.end
  BY <1>4, FollowingIs DEF IsEpilogue
<1>6. CASE hi = a.end
  <2>1. y = u
    BY <1>3, <1>5, <1>6 DEF TellFollowingBlock
  <2>2. OnlyWords(a, u, {h, hi})
    BY <1>2 DEF OnlyWords
  <2> QED
    BY <1>2, <1>4, <1>6, <2>1, <2>2 DEF Whole, u
<1>7. CASE hi # a.end
  <2>1. y = TellFollowing(u, h, 0)
    BY <1>3, <1>5, <1>7 DEF TellFollowingBlock
  <2>2. /\ OnlyWords(u, y, {hi}) /\ Size(y, hi) = Size(u, hi)
        /\ AllocOf(y.mem[hi]) = AllocOf(u.mem[hi]) /\ PrevFree(y, hi) = 0
    BY <1>1, <1>2, <1>3, <2>1, FollowingTold
  <2> HIDE DEF y
  <2>3. OnlyWords(a, y, {h, hi})
    <3>1. OnlyWords(a, y, {h} \cup {hi})
      BY <1>2, <2>2, OnlyTwice
    <3> QED
      BY <3>1 DEF OnlyWords
  <2>4. Header(y, h, hi - h, 1, PrevFree(a, h))
    <3>1. y.mem[h] = u.mem[h]
      BY <1>1, <2>2 DEF OnlyWords
    <3> QED
      BY <1>2, <3>1, SameWord DEF Header
  <2> QED
    BY <1>4, <2>2, <2>3, <2>4 DEF Whole, y, u
<1> QED
  BY <1>6, <1>7

\* A header that a write elsewhere leaves.
LEMMA HeaderStays ==
  ASSUME NEW a, NEW a2, NEW X, OnlyWords(a, a2, X), NEW h \in Addresses, h \notin X,
         NEW size, NEW alloc, NEW pf, Header(a, h, size, alloc, pf)
  PROVE  Header(a2, h, size, alloc, pf)
<1>1. a2.mem[h] = a.mem[h]
  BY DEF OnlyWords
<1> QED
  BY <1>1, SameWord DEF Header

\* Telling what follows, as it is read again.
LEMMA Told ==
  ASSUME NEW a \in Arenas, NEW h, NEW n \in Addresses, Following(a, h) = n, NEW pf \in 0 .. 1,
         NEW a2, a2 = TellFollowing(a, h, pf)
  PROVE  /\ a2 \in Arenas /\ OnlyWords(a, a2, {n})
         /\ Header(a2, n, Size(a, n), AllocOf(a.mem[n]), pf)
<1>1. Following(a, h) \in Addresses
  OBVIOUS
<1> QED
  BY <1>1, FollowingTold DEF OnlyWords, Header

\* What bucket_insert leaves.
LEMMA InsertKeeps ==
  ASSUME NEW a \in Arenas, NEW r \in Addresses, r + 1 \in Addresses
  PROVE  /\ BucketInsert(a, r) \in Arenas
         /\ \A x \in Addresses : x # r + 1 =>
              /\ BucketInsert(a, r).mem[x] = a.mem[x]
              /\ Size(BucketInsert(a, r), x) = Size(a, x)
              /\ PrevFree(BucketInsert(a, r), x) = PrevFree(a, x)
<1> DEFINE b == BucketInsert(a, r)
           cls == ClassOf[Size(a, r)]
           m == [a.mem EXCEPT ![r + 1] = a.bucket[cls]]
           heads == [a.bucket EXCEPT ![cls] = r]
<1>1. cls \in 1 .. NumClasses
  BY ClassFound, Reads
<1>2. m \in [Addresses -> Nat] /\ heads \in [1 .. NumClasses -> Addresses \cup {NULL}]
  <2>1. a.mem \in [Addresses -> Nat] /\ a.bucket \in [1 .. NumClasses -> Addresses \cup {NULL}]
    BY DEF Arenas
  <2> HIDE DEF cls
  <2>2. a.bucket[cls] \in Addresses \cup {NULL}
    BY <1>1, <2>1
  <2>3. a.bucket[cls] \in Nat
    BY <2>2, NoAddress
  <2> QED
    BY <1>1, <2>1, <2>3
<1>3. b = WithWords(a, m, heads)
  BY DEF BucketInsert, WithWords, Arenas
<1> HIDE DEF cls
<1>4. \A x \in Addresses : x # r + 1 => m[x] = a.mem[x]
  BY DEF Arenas
<1> HIDE DEF m, heads, b
<1>5. b \in Arenas /\ b.mem = m
  BY <1>2, <1>3, Rewritten
<1>6. \A x \in Addresses : x # r + 1 => b.mem[x] = a.mem[x]
  BY <1>4, <1>5
<1> QED
  BY <1>5, <1>6, SameWord DEF b

\* split_block and the marking of the block: the block takes the first words of its run.
LEMMA SplitCut ==
  ASSUME NEW a \in Arenas, NEW B, Heap(a, B), NEW h \in B, NEW hi \in B \cup {a.end},
         Following(a, h) = hi, NEW needed \in Nat, needed >= 3, h + needed + 3 <= hi
  PROVE  \E y : /\ Cut(a, y, h, needed, hi)
                /\ MarkAllocated(SplitBlock(a, h, needed), h) = BucketInsert(y, h + needed)
<1> DEFINE rest == h + needed
           R  == Size(a, h) - needed
           pf == PrevFree(a, h)
           w  == SetFreeBlock(a, rest, R, 0)
           u2 == SetAllocBlock(w, h, needed, pf)
           u3 == TellFollowing(u2, rest, 1)
           u4 == SetAllocBlock(u3, h, needed, pf)
           u5 == TellFollowing(u4, h, 0)
<1>1. /\ h \in Nat /\ hi \in Nat /\ h \in Addresses /\ hi \in Addresses
      /\ rest \in Nat /\ rest \in Addresses /\ rest + 1 \in Addresses /\ hi - 1 \in Addresses
      /\ h + 3 <= rest /\ rest + 3 <= hi /\ hi <= a.end /\ a.end \in Nat
      /\ pf \in 0 .. 1 /\ R = hi - rest /\ R \in Nat /\ R >= 3 /\ ~(R < MinBlock) /\ rest + R - 1 = hi - 1
      /\ Size(a, h) \in Nat
  <2>1. h \in Nat /\ hi \in Nat /\ h \in Addresses /\ hi \in Addresses /\ hi <= a.end /\ a.end \in Nat
        /\ Size(a, h) \in Nat /\ hi = h + Size(a, h)
    BY FollowingIs, Reads
  <2>2. \A x \in Int : h <= x /\ x <= hi => x \in Addresses
    <3>1. h < hi
      BY <2>1
    <3> QED
      BY <3>1, RunIs
  <2> QED
    BY <2>1, <2>2, Reads DEF MinBlock
<1>2. SplitBlock(a, h, needed)
        = TellFollowing(SetAllocBlock(BucketInsert(w, rest), h, needed, pf), rest, 1)
  BY <1>1 DEF SplitBlock
<1> HIDE DEF rest, R, pf
<1>3. /\ w \in Arenas /\ OnlyWords(a, w, {rest, hi - 1}) /\ Header(w, rest, hi - rest, 0, 0)
      /\ SizeOf(w.mem[hi - 1]) = hi - rest
  <2>1. /\ OnlyWords(a, w, {rest, rest + R - 1}) /\ w.mem[rest] = Tag(R, 0, 0)
        /\ w.mem[rest + R - 1] = Tag(R, 0, 0)
    BY <1>1, FreeBlockSet
  <2> HIDE DEF w
  <2>2. R \in Nat /\ 0 \in 0 .. 1 /\ w.mem[hi - 1] = Tag(R, 0, 0)
    BY <1>1, <2>1
  <2>3. Header(w, rest, R, 0, 0)
    <3>1. R \in Nat /\ 0 \in 0 .. 1 /\ w.mem[rest] = Tag(R, 0, 0)
      BY <2>1, <2>2
    <3>2. Size(w, rest) = R /\ AllocOf(w.mem[rest]) = 0 /\ PrevFree(w, rest) = 0
      BY <3>1, TagRead
    <3> QED
      BY <3>2 DEF Header
  <2>4. SizeOf(w.mem[hi - 1]) = R
    BY <2>2, TagParts
  <2> QED
    BY <1>1, <2>1, <2>3, <2>4 DEF OnlyWords
<1> HIDE DEF w
<1>4. u2 \in Arenas /\ OnlyWords(w, u2, {h}) /\ Header(u2, h, needed, 1, pf)
  <2>1. h \in Addresses /\ pf \in 0 .. 1 /\ 1 \in 0 .. 1
    BY <1>1
  <2> QED
    BY <1>3, <2>1, HeaderReads DEF SetAllocBlock
<1>5. SetAllocBlock(BucketInsert(w, rest), h, needed, pf) = BucketInsert(u2, rest)
  <2>1. h # rest + 1 /\ h # rest
    BY <1>1
  <2> QED
    BY <1>1, <1>3, <2>1, InsertThenHeader DEF SetAllocBlock
<1> HIDE DEF u2
<1>6. Header(u2, rest, hi - rest, 0, 0) /\ Following(u2, rest) = hi
  <2>1. Header(u2, rest, hi - rest, 0, 0)
    BY <1>1, <1>3, <1>4, HeaderStays
  <2> QED
    BY <1>1, <2>1 DEF Header, Following
<1>7. u3 \in Arenas /\ OnlyWords(u2, u3, {hi}) /\ Header(u3, hi, Size(u2, hi), AllocOf(u2.mem[hi]), 1)
  <2>1. hi \in Addresses /\ 1 \in 0 .. 1
    BY <1>1
  <2> QED
    BY <1>4, <1>6, <2>1, Told
<1>8. TellFollowing(BucketInsert(u2, rest), rest, 1) = BucketInsert(u3, rest)
  <2>1. rest # rest + 1 /\ hi # rest + 1 /\ Following(u2, rest) \in Addresses
    BY <1>1, <1>6
  <2> QED
    BY <1>1, <1>4, <1>6, <2>1, InsertThenTell
<1> HIDE DEF u3
<1>9. SplitBlock(a, h, needed) = BucketInsert(u3, rest)
  BY <1>2, <1>5, <1>8
<1>10. Header(u3, h, needed, 1, pf)
  BY <1>1, <1>4, <1>7, HeaderStays
<1>11. u4 \in Arenas /\ OnlyWords(u3, u4, {h}) /\ Header(u4, h, needed, 1, pf)
  BY <1>1, <1>7, HeaderReads DEF SetAllocBlock
<1>12. /\ Size(BucketInsert(u3, rest), h) = needed /\ PrevFree(BucketInsert(u3, rest), h) = pf
       /\ SetAllocBlock(BucketInsert(u3, rest), h, needed, pf) = BucketInsert(u4, rest)
  <2>1. h # rest + 1 /\ h # rest
    BY <1>1
  <2>2. Size(BucketInsert(u3, rest), h) = Size(u3, h) /\ PrevFree(BucketInsert(u3, rest), h) = PrevFree(u3, h)
    BY <1>1, <1>7, <2>1, InsertKeeps
  <2> QED
    BY <1>1, <1>7, <1>10, <2>1, <2>2, InsertThenHeader DEF SetAllocBlock, Header
<1> HIDE DEF u4
<1>13. Following(u4, h) = rest
  BY <1>11 DEF Header, Following, rest
<1>14. Header(u4, rest, hi - rest, 0, 0)
  <2>1. Header(u3, rest, hi - rest, 0, 0)
    BY <1>1, <1>6, <1>7, HeaderStays
  <2> QED
    BY <1>1, <1>11, <2>1, HeaderStays
<1>15. TellFollowingBlock(u4, h, 0) = u5
  <2>1. ~IsEpilogue(u4, rest)
    BY <1>1, <1>14 DEF IsEpilogue, Header
  <2> QED
    BY <1>13, <2>1 DEF TellFollowingBlock
<1>16. TellFollowingBlock(BucketInsert(u4, rest), h, 0) = BucketInsert(u5, rest)
  <2>1. h # rest + 1 /\ Following(u4, h) \in Addresses /\ Following(u4, h) # rest + 1
    BY <1>1, <1>13
  <2>2. TellFollowingBlock(BucketInsert(u4, rest), h, 0)
          = BucketInsert(TellFollowingBlock(u4, h, 0), rest)
    BY <1>1, <1>11, <2>1, InsertThenTell
  <2> HIDE DEF u5
  <2> QED
    BY <1>15, <2>2
<1>17. u5 \in Arenas /\ OnlyWords(u4, u5, {rest}) /\ Header(u5, rest, Size(u4, rest), AllocOf(u4.mem[rest]), 0)
  <2>1. rest \in Addresses /\ 0 \in 0 .. 1
    BY <1>1
  <2> QED
    BY <1>11, <1>13, <2>1, Told
<1> HIDE DEF u5
<1>18. MarkAllocated(SplitBlock(a, h, needed), h) = BucketInsert(u5, rest)
  <2>1. MarkAllocated(BucketInsert(u3, rest), h)
          = TellFollowingBlock(SetAllocBlock(BucketInsert(u3, rest), h, needed, pf), h, 0)
    BY <1>12 DEF MarkAllocated
  <2> QED
    BY <1>9, <1>12, <1>16, <2>1
<1>19. Cut(a, u5, h, needed, hi)
  <2>1. OnlyWords(a, u5, {h, rest, hi - 1, hi})
    <3>1. OnlyWords(a, u2, {rest, hi - 1} \cup {h})
      BY <1>3, <1>4, OnlyTwice
    <3>2. OnlyWords(a, u3, ({rest, hi - 1} \cup {h}) \cup {hi})
      BY <1>7, <3>1, OnlyTwice
    <3>3. OnlyWords(a, u4, (({rest, hi - 1} \cup {h}) \cup {hi}) \cup {h})
      BY <1>11, <3>2, OnlyTwice
    <3>4. OnlyWords(a, u5, ((({rest, hi - 1} \cup {h}) \cup {hi}) \cup {h}) \cup {rest})
      BY <1>17, <3>3, OnlyTwice
    <3> QED
      BY <3>4 DEF OnlyWords
  <2>2. Header(u5, h, needed, 1, pf)
    BY <1>1, <1>11, <1>17, HeaderStays
  <2>3. Header(u5, rest, hi - rest, 0, 0)
    BY <1>14, <1>17 DEF Header
  <2>4. Header(u5, hi, Size(a, hi), AllocOf(a.mem[hi]), 1)
    <3>1. Size(u2, hi) = Size(a, hi) /\ AllocOf(u2.mem[hi]) = AllocOf(a.mem[hi])
      <4>1. hi \notin {rest, hi - 1} /\ hi \notin {h}
        BY <1>1
      <4>2. u2.mem[hi] = a.mem[hi]
        BY <1>1, <1>3, <1>4, <4>1 DEF OnlyWords
      <4> QED
        BY <4>2, SameWord
    <3>2. hi \notin {h} /\ hi \notin {rest}
      BY <1>1
    <3>3. Header(u4, hi, Size(a, hi), AllocOf(a.mem[hi]), 1)
      BY <1>1, <1>7, <1>11, <3>1, <3>2, HeaderStays
    <3> QED
      BY <1>1, <1>17, <3>2, <3>3, HeaderStays
  <2>5. SizeOf(u5.mem[hi - 1]) = hi - rest
    <3>1. hi - 1 \notin {h} /\ hi - 1 \notin {hi} /\ hi - 1 \notin {rest}
      BY <1>1
    <3>2. u5.mem[hi - 1] = w.mem[hi - 1]
      BY <1>1, <1>4, <1>7, <1>11, <1>17, <3>1 DEF OnlyWords
    <3> QED
      BY <1>3, <3>2
  <2> QED
    BY <2>1, <2>2, <2>3, <2>4, <2>5 DEF Cut, Header, rest, pf
<1> QED
  BY <1>18, <1>19 DEF rest

\* The blocks beside a block: all the others.
LEMMA BesideOne ==
  ASSUME NEW a \in Arenas, NEW B, Heap(a, B), NEW h \in B
  PROVE  Beside(B, h, Following(a, h)) = B \ {h}
<1>1. /\ h \in Nat /\ Size(a, h) \in Nat /\ Size(a, h) >= 3 /\ Following(a, h) = h + Size(a, h)
      /\ \A b \in B : b \in Nat /\ (h < b => h + Size(a, h) <= b)
  BY HeapNumbers DEF Heap
<1>2. \A b \in B : (b < h \/ Following(a, h) <= b) <=> b # h
  BY <1>1
<1> QED
  BY <1>2 DEF Beside

\* A free block is taken: it leaves its list, what is too much of it is split off.
LEMMA Occupied ==
  ASSUME NEW a \in Arenas, NEW B, Sound(a, B), NEW h \in FreeBlocks(a, B),
         NEW needed \in Nat, needed >= 3, needed <= Size(a, h)
  PROVE  LET z == MarkAllocated(SplitBlock(BucketRemove(a, h), h, needed), h) IN
         /\ \E B2 : Moves(a, z, B, B2, {}, {h})
         /\ SameBounds(a, z) /\ needed <= Size(z, h) /\ h # a.start
<1> DEFINE F  == FreeBlocks(a, B)
           X  == UsedBlocks(a, B)
           a1 == BucketRemove(a, h)
           hi == Following(a, h)
           z  == MarkAllocated(SplitBlock(a1, h, needed), h)
<1>1. Heap(a, B) /\ Listing(a, F) /\ h \in F /\ F \in SUBSET B /\ h \in B /\ Free(a, h) /\ X \cap F = {}
  BY DEF Sound, FreeBlocks, UsedBlocks
<1>2. /\ hi \in B \cup {a.end} /\ hi = h + Size(a, h) /\ Size(a, h) \in Nat /\ Size(a, h) >= 3
      /\ h \in Nat /\ h # a.start
      /\ ~Free(a, hi)
  <2>1. Agree(a, h) /\ ~Free(a, a.start)
    BY <1>1 DEF Heap
  <2> QED
    BY <1>1, <2>1, HeapNumbers DEF Heap, Agree
<1>3. a1 \in Arenas /\ Heap(a1, B) /\ Listing(a1, F \ {h}) /\ Relinked(a, a1, F)
  BY <1>1, Unlinked
<1> HIDE DEF a1
<1>4. /\ a1.start = a.start /\ a1.end = a.end
      /\ UsedBlocks(a1, B) = X /\ FreeBlocks(a1, B) = F
      /\ Size(a1, h) = Size(a, h) /\ PrevFree(a1, h) = PrevFree(a, h) /\ ~Free(a1, hi)
      /\ Following(a1, h) = hi
  <2>1. h \in B \cup {a.end} /\ hi \in B \cup {a.end}
    BY <1>1, <1>2
  <2> HIDE DEF F, X, hi
  <2> QED
    BY <1>1, <1>2, <1>3, <2>1, RelinkedBlocks DEF Relinked, SameBounds, F, X, hi
<1>5. /\ FreeBlocks(a1, B) \cap Beside(B, h, hi) = F \ {h}
      /\ UsedBlocks(a1, B) \cap Beside(B, h, hi) = X
  <2>1. Beside(B, h, hi) = B \ {h}
    BY <1>1, BesideOne
  <2> QED
    BY <1>1, <1>4, <2>1 DEF FreeBlocks, UsedBlocks
<1> HIDE DEF hi
<1>6. \E B2, n : Settled(a1, z, B, B2, X, h, n) /\ needed <= n
  <2>1. CASE Size(a, h) - needed < MinBlock
    <3>1. SplitBlock(a1, h, needed) = a1
      BY <1>4, <2>1 DEF SplitBlock
    <3>2. z = TellFollowingBlock(SetAllocBlock(a1, h, hi - h, PrevFree(a1, h)), h, 0)
      BY <1>2, <1>4, <3>1 DEF MarkAllocated
    <3> HIDE DEF z
    <3>3. h < hi /\ hi \in B \cup {a1.end} /\ h # a1.start
      BY <1>2, <1>4
    <3>4. Whole(a1, z, h, hi)
      BY <1>1, <1>3, <3>2, <3>3, MarkedWhole
    <3>5. Listing(a1, FreeBlocks(a1, B) \cap Beside(B, h, hi))
      BY <1>3, <1>5
    <3>6. Settled(a1, z, B, Refilled(B, {h}, h, hi), UsedBlocks(a1, B) \cap Beside(B, h, hi), h, hi - h)
      BY <1>1, <1>3, <3>3, <3>4, <3>5, WholeSettled
    <3>7. needed <= hi - h
      BY <1>2
    <3>8. Settled(a1, z, B, Refilled(B, {h}, h, hi), X, h, hi - h)
      BY <1>5, <3>6
    <3> QED
      BY <3>7, <3>8
  <2>2. CASE ~(Size(a, h) - needed < MinBlock)
    <3>1. h + needed + 3 <= hi /\ hi \in B \cup {a1.end} /\ h # a1.start
      BY <1>2, <1>4, <2>2 DEF MinBlock
    <3>2. PICK y : Cut(a1, y, h, needed, hi) /\ z = BucketInsert(y, h + needed)
      BY <1>1, <1>3, <1>4, <3>1, SplitCut
    <3> HIDE DEF z
    <3>3. Listing(a1, FreeBlocks(a1, B) \cap Beside(B, h, hi))
      BY <1>3, <1>5
    <3>4. Settled(a1, BucketInsert(y, h + needed), B, Refilled(B, {h, h + needed}, h, hi),
                  UsedBlocks(a1, B) \cap Beside(B, h, hi), h, needed)
      BY <1>1, <1>3, <1>4, <3>1, <3>2, <3>3, CutSettled
    <3> QED
      BY <1>5, <3>2, <3>4
  <2> QED
    BY <2>1, <2>2
<1>7. PICK B2, n : Settled(a1, z, B, B2, X, h, n) /\ needed <= n
  BY <1>6
<1> HIDE DEF z
<1>8. Intact(a, z, X)
  <2>1. Intact(a, a1, X)
    <3>1. X \in SUBSET B
      BY DEF UsedBlocks
    <3> QED
      BY <1>1, <1>3, <3>1, RelinkedIntact
  <2> QED
    BY <1>7, <2>1, IntactTwice DEF Settled
<1>9. Moves(a, z, B, B2, {}, {h})
  <2>1. X \ {} = X
    OBVIOUS
  <2> QED
    BY <1>7, <1>8, <2>1 DEF Moves, Settled
<1>10. SameBounds(a, z) /\ needed <= Size(z, h)
  BY <1>3, <1>7 DEF Settled, Relinked, SameBounds
<1> QED
  BY <1>2, <1>9, <1>10 DEF z, a1

\* The words of a run that is cut at rest.
LEMMA CutWords ==
  ASSUME NEW a \in Arenas, NEW B, Heap(a, B), NEW h \in B, NEW hi \in B \cup {a.end},
         NEW needed \in Nat, needed >= 3, h + needed + 3 <= hi
  PROVE  LET rest == h + needed
             w == SetFreeBlock(a, rest, hi - rest, 0)
         IN /\ h \in Nat /\ hi \in Nat /\ h \in Addresses /\ hi \in Addresses
            /\ rest \in Nat /\ rest \in Addresses /\ rest + 1 \in Addresses /\ hi - 1 \in Addresses
            /\ h + 3 <= rest /\ rest + 3 <= hi /\ hi <= a.end /\ a.end \in Nat
            /\ PrevFree(a, h) \in 0 .. 1 /\ hi - rest \in Nat
            /\ w \in Arenas /\ OnlyWords(a, w, {rest, hi - 1}) /\ Header(w, rest, hi - rest, 0, 0)
            /\ SizeOf(w.mem[hi - 1]) = hi - rest
<1> DEFINE rest == h + needed
           w == SetFreeBlock(a, rest, hi - rest, 0)
<1>1. /\ h \in Nat /\ hi \in Nat /\ h \in Addresses /\ hi \in Addresses
      /\ rest \in Nat /\ rest \in Addresses /\ rest + 1 \in Addresses /\ hi - 1 \in Addresses
      /\ h + 3 <= rest /\ rest + 3 <= hi /\ hi <= a.end /\ a.end \in Nat
      /\ PrevFree(a, h) \in 0 .. 1 /\ hi - rest \in Nat /\ hi - rest >= 3
      /\ rest + (hi - rest) - 1 = hi - 1
  <2>1. h \in Nat /\ hi \in Nat /\ h \in Addresses /\ hi \in Addresses /\ hi <= a.end /\ a.end \in Nat
    BY FollowingIs
  <2>2. \A x \in Int : h <= x /\ x <= hi => x \in Addresses
    <3>1. h < hi
      BY <2>1
    <3> QED
      BY <3>1, RunIs
  <2> QED
    BY <2>1, <2>2, Reads
<1> HIDE DEF rest
<1>2. /\ OnlyWords(a, w, {rest, rest + (hi - rest) - 1}) /\ w.mem[rest] = Tag(hi - rest, 0, 0)
      /\ w.mem[rest + (hi - rest) - 1] = Tag(hi - rest, 0, 0)
  BY <1>1, FreeBlockSet
<1> HIDE DEF w
<1>3. hi - rest \in Nat /\ 0 \in 0 .. 1 /\ w.mem[hi - 1] = Tag(hi - rest, 0, 0)
      /\ OnlyWords(a, w, {rest, hi - 1})
  <2>1. hi - rest \in Nat /\ rest + (hi - rest) - 1 = hi - 1
    BY <1>1
  <2>2. 0 \in 0 .. 1
    OBVIOUS
  <2>3. w.mem[hi - 1] = Tag(hi - rest, 0, 0) /\ OnlyWords(a, w, {rest, hi - 1})
    BY <1>2, <2>1
  <2> QED
    BY <2>1, <2>2, <2>3
<1>4. Header(w, rest, hi - rest, 0, 0)
  <2> DEFINE R == hi - rest
  <2>1. R \in Nat /\ 0 \in 0 .. 1 /\ w.mem[rest] = Tag(R, 0, 0)
    BY <1>2, <1>3
  <2> HIDE DEF R
  <2>2. Header(w, rest, R, 0, 0)
    BY <2>1, TagRead DEF Header
  <2> QED
    BY <2>2 DEF R
<1>5. SizeOf(w.mem[hi - 1]) = hi - rest
  BY <1>3, TagParts
<1> QED
  BY <1>1, <1>3, <1>4, <1>5 DEF rest, w, OnlyWords

\* mira_realloc of a smaller size: the header is written last.
LEMMA ShrinkCut ==
  ASSUME NEW a \in Arenas, NEW B, Heap(a, B), NEW h \in B, NEW hi \in B \cup {a.end},
         NEW needed \in Nat, needed >= 3, h + needed + 3 <= hi
  PROVE  LET rest == h + needed
             w == SetFreeBlock(a, rest, hi - rest, 0)
         IN  \E y : /\ Cut(a, y, h, needed, hi)
                    /\ SetAllocBlock(TellFollowing(BucketInsert(w, rest), rest, 1),
                                     h, needed, PrevFree(a, h)) = BucketInsert(y, rest)
<1> DEFINE rest == h + needed
           pf == PrevFree(a, h)
           w  == SetFreeBlock(a, rest, hi - rest, 0)
           u1 == TellFollowing(w, rest, 1)
           u2 == SetAllocBlock(u1, h, needed, pf)
<1>1. /\ h \in Nat /\ hi \in Nat /\ h \in Addresses /\ hi \in Addresses
      /\ rest \in Nat /\ rest \in Addresses /\ rest + 1 \in Addresses /\ hi - 1 \in Addresses
      /\ h + 3 <= rest /\ rest + 3 <= hi /\ pf \in 0 .. 1
      /\ w \in Arenas /\ OnlyWords(a, w, {rest, hi - 1}) /\ Header(w, rest, hi - rest, 0, 0)
      /\ SizeOf(w.mem[hi - 1]) = hi - rest
  <2> HIDE DEF w
  <2> QED
    BY CutWords DEF w
<1> HIDE DEF w, rest, pf
<1>2. Following(w, rest) = hi
  BY <1>1 DEF Header, Following
<1>3. u1 \in Arenas /\ OnlyWords(w, u1, {hi}) /\ Header(u1, hi, Size(w, hi), AllocOf(w.mem[hi]), 1)
  <2>1. hi \in Addresses /\ 1 \in 0 .. 1 /\ w \in Arenas
    BY <1>1
  <2> QED
    BY <1>2, <2>1, Told
<1>4. TellFollowing(BucketInsert(w, rest), rest, 1) = BucketInsert(u1, rest)
  <2>1. rest # rest + 1 /\ hi # rest + 1 /\ Following(w, rest) \in Addresses /\ 1 \in 0 .. 1
    BY <1>1, <1>2
  <2> QED
    BY <1>1, <1>2, <2>1, InsertThenTell
<1> HIDE DEF u1
<1>5. u2 \in Arenas /\ OnlyWords(u1, u2, {h}) /\ Header(u2, h, needed, 1, pf)
  <2>1. h \in Addresses /\ pf \in 0 .. 1 /\ 1 \in 0 .. 1
    BY <1>1
  <2> QED
    BY <1>3, <2>1, HeaderReads DEF SetAllocBlock
<1>6. SetAllocBlock(BucketInsert(u1, rest), h, needed, pf) = BucketInsert(u2, rest)
  <2>1. h # rest + 1 /\ h # rest /\ 1 \in 0 .. 1
    BY <1>1
  <2> QED
    BY <1>1, <1>3, <2>1, InsertThenHeader DEF SetAllocBlock
<1> HIDE DEF u2
<1>7. Cut(a, u2, h, needed, hi)
  <2>1. OnlyWords(a, u2, {h, rest, hi - 1, hi})
    <3>1. OnlyWords(a, u1, {rest, hi - 1} \cup {hi})
      BY <1>1, <1>3, OnlyTwice
    <3>2. OnlyWords(a, u2, ({rest, hi - 1} \cup {hi}) \cup {h})
      BY <1>5, <3>1, OnlyTwice
    <3> QED
      BY <3>2 DEF OnlyWords
  <2>2. rest \notin {hi} /\ rest \notin {h} /\ hi \notin {h} /\ hi - 1 \notin {h} /\ hi - 1 \notin {hi}
        /\ hi \notin {rest, hi - 1}
    BY <1>1
  <2>3. Header(u2, rest, hi - rest, 0, 0)
    <3>1. Header(u1, rest, hi - rest, 0, 0)
      BY <1>1, <1>3, <2>2, HeaderStays
    <3> QED
      BY <1>1, <1>5, <2>2, <3>1, HeaderStays
  <2>4. Header(u2, hi, Size(a, hi), AllocOf(a.mem[hi]), 1)
    <3>1. w.mem[hi] = a.mem[hi]
      BY <1>1, <2>2 DEF OnlyWords
    <3>2. Size(w, hi) = Size(a, hi) /\ AllocOf(w.mem[hi]) = AllocOf(a.mem[hi])
      BY <3>1, SameWord
    <3>3. Header(u1, hi, Size(a, hi), AllocOf(a.mem[hi]), 1)
      BY <1>3, <3>2
    <3> QED
      BY <1>1, <1>5, <2>2, <3>3, HeaderStays
  <2>5. SizeOf(u2.mem[hi - 1]) = hi - rest
    <3>1. u2.mem[hi - 1] = w.mem[hi - 1]
      BY <1>1, <1>3, <1>5, <2>2 DEF OnlyWords
    <3> QED
      BY <1>1, <3>1
  <2> QED
    BY <1>5, <2>1, <2>3, <2>4, <2>5 DEF Cut, Header, rest, pf
<1> QED
  BY <1>4, <1>6, <1>7 DEF rest, pf, w

\* mira_realloc of a larger size: the block after the free one knows already that a free
\* block is before it.
LEMMA GrowCut ==
  ASSUME NEW a \in Arenas, NEW B, Heap(a, B), NEW h \in B, NEW hi \in B \cup {a.end},
         NEW needed \in Nat, needed >= 3, h + needed + 3 <= hi, hi # a.end => PrevFree(a, hi) = 1
  PROVE  LET rest == h + needed
             w == SetFreeBlock(a, rest, hi - rest, 0)
         IN  \E y : /\ Cut(a, y, h, needed, hi)
                    /\ TellFollowingBlock(SetAllocBlock(BucketInsert(w, rest), h, needed, PrevFree(a, h)), h, 0)
                         = BucketInsert(y, rest)
<1> DEFINE rest == h + needed
           pf == PrevFree(a, h)
           w  == SetFreeBlock(a, rest, hi - rest, 0)
           u1 == SetAllocBlock(w, h, needed, pf)
           u2 == TellFollowing(u1, h, 0)
<1>1. /\ h \in Nat /\ hi \in Nat /\ h \in Addresses /\ hi \in Addresses
      /\ rest \in Nat /\ rest \in Addresses /\ rest + 1 \in Addresses /\ hi - 1 \in Addresses
      /\ h + 3 <= rest /\ rest + 3 <= hi /\ pf \in 0 .. 1
      /\ w \in Arenas /\ OnlyWords(a, w, {rest, hi - 1}) /\ Header(w, rest, hi - rest, 0, 0)
      /\ SizeOf(w.mem[hi - 1]) = hi - rest
  <2> HIDE DEF w
  <2> QED
    BY CutWords DEF w
<1> HIDE DEF w, pf
<1>2. u1 \in Arenas /\ OnlyWords(w, u1, {h}) /\ Header(u1, h, needed, 1, pf)
  <2>1. h \in Addresses /\ pf \in 0 .. 1 /\ 1 \in 0 .. 1 /\ w \in Arenas
    BY <1>1
  <2> QED
    BY <2>1, HeaderReads DEF SetAllocBlock
<1>3. SetAllocBlock(BucketInsert(w, rest), h, needed, pf) = BucketInsert(u1, rest)
  <2>1. h # rest + 1 /\ h # rest /\ 1 \in 0 .. 1
    BY <1>1
  <2> HIDE DEF rest
  <2> QED
    BY <1>1, <2>1, InsertThenHeader DEF SetAllocBlock
<1> HIDE DEF u1
<1>4. Following(u1, h) = rest
  BY <1>2 DEF Header, Following
<1> HIDE DEF rest
<1>5. Header(u1, rest, hi - rest, 0, 0)
  <2>1. rest \notin {h}
    BY <1>1
  <2> QED
    BY <1>1, <1>2, <2>1, HeaderStays
<1>6. TellFollowingBlock(u1, h, 0) = u2
  <2>1. ~IsEpilogue(u1, rest)
    BY <1>1, <1>5 DEF IsEpilogue, Header
  <2> QED
    BY <1>4, <2>1 DEF TellFollowingBlock
<1>7. TellFollowingBlock(BucketInsert(u1, rest), h, 0) = BucketInsert(u2, rest)
  <2>1. h # rest + 1 /\ Following(u1, h) \in Addresses /\ Following(u1, h) # rest + 1 /\ 0 \in 0 .. 1
    BY <1>1, <1>4
  <2>2. TellFollowingBlock(BucketInsert(u1, rest), h, 0) = BucketInsert(TellFollowingBlock(u1, h, 0), rest)
    BY <1>1, <1>2, <2>1, InsertThenTell
  <2> HIDE DEF u2
  <2> QED
    BY <1>6, <2>2
<1>8. u2 \in Arenas /\ OnlyWords(u1, u2, {rest})
      /\ Header(u2, rest, Size(u1, rest), AllocOf(u1.mem[rest]), 0)
  <2>1. rest \in Addresses /\ 0 \in 0 .. 1
    BY <1>1
  <2> QED
    BY <1>2, <1>4, <2>1, Told
<1> HIDE DEF u2
<1>9. Cut(a, u2, h, needed, hi)
  <2>1. OnlyWords(a, u2, {h, rest, hi - 1, hi})
    <3>1. OnlyWords(a, u1, {rest, hi - 1} \cup {h})
      BY <1>1, <1>2, OnlyTwice
    <3>2. OnlyWords(a, u2, ({rest, hi - 1} \cup {h}) \cup {rest})
      BY <1>8, <3>1, OnlyTwice
    <3> QED
      BY <3>2 DEF OnlyWords
  <2>2. hi \notin {h} /\ hi \notin {rest} /\ h \notin {rest} /\ hi - 1 \notin {h} /\ hi - 1 \notin {rest}
        /\ hi \notin {rest, hi - 1}
    BY <1>1
  <2>3. Header(u2, rest, hi - rest, 0, 0)
    BY <1>5, <1>8 DEF Header
  <2>4. Header(u2, h, needed, 1, pf)
    BY <1>1, <1>2, <1>8, <2>2, HeaderStays
  <2>5. u2.mem[hi] = a.mem[hi] /\ u2.mem[hi - 1] = w.mem[hi - 1]
    BY <1>1, <1>2, <1>8, <2>2 DEF OnlyWords
  <2>6. /\ Size(u2, hi) = Size(a, hi) /\ AllocOf(u2.mem[hi]) = AllocOf(a.mem[hi])
        /\ hi # a.end => PrevFree(u2, hi) = 1
    BY <2>5, SameWord
  <2> QED
    BY <1>1, <2>1, <2>3, <2>4, <2>5, <2>6 DEF Cut, rest, pf
<1> QED
  BY <1>3, <1>7, <1>9 DEF rest, pf, w

\* Block h has a new size; what its caller keeps in it stays, as far as it fits.
Resizes(a, z, B, B2, h, needed) ==
  /\ z \in Arenas /\ SameBounds(a, z) /\ Sound(z, B2)
  /\ UsedBlocks(z, B2) = UsedBlocks(a, B) /\ Intact(a, z, UsedBlocks(a, B) \ {h})
  /\ needed <= Size(z, h)
  /\ \A i \in 1 .. needed - 1 : i < Size(a, h) => z.mem[h + i] = a.mem[h + i]

\* What was settled after the next block left its list.
LEMMA ResizeSettled ==
  ASSUME NEW a \in Arenas, NEW B, Heap(a, B), NEW h \in UsedBlocks(a, B),
         NEW a1 \in Arenas, NEW S \in SUBSET FreeBlocks(a, B), Relinked(a, a1, S),
         NEW X, X = UsedBlocks(a, B) \ {h},
         NEW z, NEW B2, NEW n \in Nat, Settled(a1, z, B, B2, X, h, n), NEW needed \in Nat, needed <= n
  PROVE  Resizes(a, z, B, B2, h, needed)
<1>1. S \in SUBSET B /\ X \in SUBSET B /\ X \cap S = {} /\ {h} \in SUBSET B /\ {h} \cap S = {}
  BY DEF UsedBlocks, FreeBlocks
<1>2. Intact(a, a1, X) /\ Intact(a, a1, {h})
  BY <1>1, RelinkedIntact
<1>3. Intact(a, z, X)
  BY <1>2, IntactTwice DEF Settled
<1>4. UsedBlocks(z, B2) = UsedBlocks(a, B)
  BY DEF Settled
<1>5. ASSUME NEW i \in 1 .. needed - 1, i < Size(a, h) PROVE z.mem[h + i] = a.mem[h + i]
  <2>1. i \in 1 .. n - 1
    OBVIOUS
  <2>2. Size(a, h) \in Nat
    BY <1>1, HeapNumbers DEF Heap
  <2>3. i \in 1 .. Size(a, h) - 1
    BY <1>5, <2>2
  <2>4. a1.mem[h + i] = a.mem[h + i]
    BY <1>2, <2>3 DEF Intact
  <2> QED
    BY <2>1, <2>4 DEF Settled
<1>6. SameBounds(a, z)
  BY DEF Settled, Relinked, SameBounds
<1> QED
  BY <1>3, <1>4, <1>5, <1>6 DEF Settled, Resizes

\* A block in use that gets a new size in place.
LEMMA BlockResized ==
  ASSUME NEW a \in Arenas, NEW B, Sound(a, B), NEW h \in UsedBlocks(a, B), h # a.start,
         NEW needed \in Nat, needed >= 3
  PROVE  LET r == ArenaResize(a, h, needed) IN
         /\ r.done \in BOOLEAN
         /\ r.done => \E B2 : Resizes(a, r.arena, B, B2, h, needed)
         /\ ~r.done => r.arena = a
<1> DEFINE F  == FreeBlocks(a, B)
           X  == UsedBlocks(a, B) \ {h}
           s  == SizeWithNext(a, h)
           hi == h + s
           a1 == WithoutNext(a, h)
           r  == ArenaResize(a, h, needed)
           rest == h + needed
           w  == SetFreeBlock(a1, rest, hi - rest, 0)
           pf == PrevFree(a, h)
<1>1. /\ Heap(a, B) /\ Listing(a, F) /\ h \in B /\ ~Free(a, h) /\ h \notin F /\ F \in SUBSET B
  BY DEF Sound, UsedBlocks, FreeBlocks
<1>2. /\ s \in Nat /\ s >= Size(a, h) /\ Size(a, h) >= 3 /\ Size(a, h) \in Nat
      /\ hi \in B \cup {a.end} /\ hi \in Nat /\ ~Free(a, hi) /\ h \in Nat
      /\ \A b \in B : h < b /\ b < hi => Free(a, b)
      /\ NextFree(a, h) => Following(a, h) \in F
      /\ ~NextFree(a, h) => s = Size(a, h)
      /\ NextFree(a, h) /\ hi # a.end => PrevFree(a, hi) = 1
  <2>1. /\ h \in Nat /\ Size(a, h) \in Nat /\ Size(a, h) >= 3
    BY <1>1, HeapNumbers DEF Heap
  <2>2. /\ s \in Nat /\ s >= Size(a, h)
        /\ hi \in B \cup {a.end} /\ hi \in Nat /\ ~Free(a, hi)
        /\ NextFree(a, h) => Following(a, h) \in B /\ Free(a, Following(a, h))
        /\ ~NextFree(a, h) => hi = Following(a, h)
        /\ \A b \in B : h < b /\ b < hi => NextFree(a, h) /\ b = Following(a, h)
    BY <1>1, JoinNext
  <2>3. ~NextFree(a, h) => s = Size(a, h)
    BY <2>1 DEF SizeWithNext
  <2>4. ASSUME NextFree(a, h), hi # a.end PROVE PrevFree(a, hi) = 1
    <3> DEFINE n == Following(a, h)
    <3>1. n \in B /\ Free(a, n)
      BY <2>2, <2>4
    <3>2. Following(a, n) = hi
      <4>1. s = Size(a, h) + Size(a, n)
        BY <2>4 DEF SizeWithNext
      <4>2. n = h + Size(a, h) /\ Following(a, n) = n + Size(a, n) /\ Size(a, n) \in Nat
        BY <1>1, <3>1, HeapNumbers DEF Heap
      <4> HIDE DEF n, s
      <4> QED
        BY <2>1, <4>1, <4>2
    <3>3. Agree(a, n)
      BY <1>1, <3>1 DEF Heap
    <3> HIDE DEF n, hi
    <3> QED
      BY <2>4, <3>1, <3>2, <3>3 DEF Agree, Free
  <2>5. \A b \in B : h < b /\ b < hi => Free(a, b)
    <3> HIDE DEF hi
    <3> QED
      BY <2>2
  <2>6. NextFree(a, h) => Following(a, h) \in F
    BY <2>2 DEF FreeBlocks
  <2> HIDE DEF s, hi
  <2> QED
    BY <2>1, <2>2, <2>3, <2>4, <2>5, <2>6
<1> HIDE DEF s
<1>3. /\ a1 \in Arenas /\ Heap(a1, B) /\ Relinked(a, a1, F) /\ Listing(a1, F \cap Beside(B, h, hi))
  <2>1. /\ a1 \in Arenas /\ Heap(a1, B) /\ Relinked(a, a1, F)
        /\ Listing(a1, F \cap Beside(B, h, h + SizeWithNext(a, h)))
    <3> HIDE DEF F, a1
    <3> QED
      BY <1>1, <1>2, NextUnlinked DEF a1
  <2> QED
    BY <2>1 DEF s
<1>4. hi = h + s
  OBVIOUS
<1> HIDE DEF hi, a1
<1>5. /\ a1.start = a.start /\ a1.end = a.end
      /\ UsedBlocks(a1, B) = UsedBlocks(a, B) /\ FreeBlocks(a1, B) = F
      /\ PrevFree(a1, h) = pf /\ ~Free(a1, hi)
      /\ PrevFree(a1, hi) = PrevFree(a, hi)
  <2>1. h \in B \cup {a.end} /\ hi \in B \cup {a.end}
    BY <1>1, <1>2
  <2> HIDE DEF F
  <2> QED
    BY <1>1, <1>2, <1>3, <2>1, RelinkedBlocks DEF Relinked, SameBounds, F
<1>6. /\ Listing(a1, FreeBlocks(a1, B) \cap Beside(B, h, hi))
      /\ UsedBlocks(a1, B) \cap Beside(B, h, hi) = X
  <2>1. \A b \in UsedBlocks(a, B) : b \in B /\ b \in Nat /\ ~Free(a, b)
    BY <1>1, HeapNumbers DEF UsedBlocks, Heap
  <2>2. h < hi
    BY <1>2, <1>4
  <2>3. \A b \in UsedBlocks(a, B) : (b < h \/ hi <= b) <=> b # h
    BY <1>2, <2>1, <2>2
  <2>4. UsedBlocks(a, B) \cap Beside(B, h, hi) = X
    BY <2>1, <2>3 DEF Beside
  <2> QED
    BY <1>3, <1>5, <2>4
<1>7. h # a1.start /\ hi \in B \cup {a1.end} /\ h < hi
  BY <1>2, <1>4, <1>5
<1> HIDE DEF X, F
<1>8. ASSUME Size(a, h) >= needed, Size(a, h) - needed < MinBlock
      PROVE  r.done = TRUE /\ \E B2 : Resizes(a, r.arena, B, B2, h, needed)
  <2>0. ~(Size(a, h) < needed)
    BY <1>2, <1>8
  <2>1. r = [arena |-> a, done |-> TRUE]
    BY <1>8, <2>0 DEF ArenaResize, Shrink
  <2>2. Resizes(a, a, B, B, h, needed)
    BY <1>8 DEF Resizes, SameBounds, Intact
  <2> QED
    BY <2>1, <2>2
<1>9. ASSUME Size(a, h) >= needed, ~(Size(a, h) - needed < MinBlock)
      PROVE  r.done = TRUE /\ \E B2 : Resizes(a, r.arena, B, B2, h, needed)
  <2>1. h + needed + 3 <= hi /\ s - needed = hi - rest /\ ~(Size(a, h) < needed)
    BY <1>2, <1>4, <1>9 DEF MinBlock
  <2>2. r.done = TRUE /\ r.arena = SetAllocBlock(TellFollowing(BucketInsert(w, rest), rest, 1), h, needed, pf)
    BY <1>9, <2>1 DEF ArenaResize, Shrink, CutTail, s, a1
  <2>3. PICK y : Cut(a1, y, h, needed, hi) /\ r.arena = BucketInsert(y, rest)
    <3>1. \E y : /\ Cut(a1, y, h, needed, hi)
                 /\ SetAllocBlock(TellFollowing(BucketInsert(w, rest), rest, 1), h, needed, PrevFree(a1, h))
                      = BucketInsert(y, rest)
      BY <1>1, <1>3, <1>7, <2>1, ShrinkCut
    <3> HIDE DEF w, rest, r, pf
    <3> QED
      BY <1>5, <2>2, <3>1
  <2> HIDE DEF r, w, pf
  <2>4. Settled(a1, BucketInsert(y, h + needed), B, Refilled(B, {h, h + needed}, h, hi),
                UsedBlocks(a1, B) \cap Beside(B, h, hi), h, needed)
    BY <1>1, <1>3, <1>5, <1>6, <1>7, <2>1, <2>3, CutSettled
  <2>5. Settled(a1, r.arena, B, Refilled(B, {h, h + needed}, h, hi), X, h, needed)
    BY <1>6, <2>3, <2>4
  <2> HIDE DEF rest
  <2>6. Resizes(a, r.arena, B, Refilled(B, {h, h + needed}, h, hi), h, needed)
    <3>1. X = UsedBlocks(a, B) \ {h} /\ F \in SUBSET FreeBlocks(a, B) /\ needed <= needed
      BY DEF X, F
    <3> QED
      BY <1>1, <1>3, <2>5, <3>1, ResizeSettled
  <2> QED
    BY <2>2, <2>6
<1>10. ASSUME Size(a, h) < needed, s >= needed, s - needed >= MinBlock
       PROVE  r.done = TRUE /\ \E B2 : Resizes(a, r.arena, B, B2, h, needed)
  <2>1. h + needed + 3 <= hi /\ s - needed = hi - rest /\ ~(Size(a, h) >= needed)
    BY <1>2, <1>4, <1>10 DEF MinBlock
  <2>2. r.done = TRUE
        /\ r.arena = TellFollowingBlock(SetAllocBlock(BucketInsert(w, rest), h, needed, pf), h, 0)
    BY <1>10, <2>1 DEF ArenaResize, Grow, CutTail, s, a1
  <2>3. PICK y : Cut(a1, y, h, needed, hi) /\ r.arena = BucketInsert(y, rest)
    <3>1. hi # a1.end => PrevFree(a1, hi) = 1
      BY <1>2, <1>5, <1>10
    <3>2. \E y : /\ Cut(a1, y, h, needed, hi)
                 /\ TellFollowingBlock(SetAllocBlock(BucketInsert(w, rest), h, needed, PrevFree(a1, h)), h, 0)
                      = BucketInsert(y, rest)
      BY <1>1, <1>3, <1>7, <2>1, <3>1, GrowCut
    <3> HIDE DEF w, rest, r, pf
    <3> QED
      BY <1>5, <2>2, <3>2
  <2> HIDE DEF r, w, pf
  <2>4. Settled(a1, BucketInsert(y, h + needed), B, Refilled(B, {h, h + needed}, h, hi),
                UsedBlocks(a1, B) \cap Beside(B, h, hi), h, needed)
    BY <1>1, <1>3, <1>5, <1>6, <1>7, <2>1, <2>3, CutSettled
  <2>5. Settled(a1, r.arena, B, Refilled(B, {h, h + needed}, h, hi), X, h, needed)
    BY <1>6, <2>3, <2>4
  <2> HIDE DEF rest
  <2>6. Resizes(a, r.arena, B, Refilled(B, {h, h + needed}, h, hi), h, needed)
    <3>1. X = UsedBlocks(a, B) \ {h} /\ F \in SUBSET FreeBlocks(a, B) /\ needed <= needed
      BY DEF X, F
    <3> QED
      BY <1>1, <1>3, <2>5, <3>1, ResizeSettled
  <2> QED
    BY <2>2, <2>6
<1>11. ASSUME Size(a, h) < needed, s >= needed, ~(s - needed >= MinBlock)
       PROVE  r.done = TRUE /\ \E B2 : Resizes(a, r.arena, B, B2, h, needed)
  <2>1. s = hi - h /\ ~(Size(a, h) >= needed) /\ needed <= hi - h /\ hi - h \in Nat
    BY <1>2, <1>4, <1>11
  <2>2. r.done = TRUE /\ r.arena = TellFollowingBlock(SetAllocBlock(a1, h, s, pf), h, 0)
    BY <1>11, <2>1 DEF ArenaResize, Grow, s, a1
  <2> HIDE DEF r, w, pf, rest
  <2>3. Whole(a1, r.arena, h, hi)
    <3>1. r.arena = TellFollowingBlock(SetAllocBlock(a1, h, hi - h, PrevFree(a1, h)), h, 0)
      BY <1>5, <2>1, <2>2
    <3> QED
      BY <1>1, <1>3, <1>7, <3>1, MarkedWhole
  <2>4. Settled(a1, r.arena, B, Refilled(B, {h}, h, hi), UsedBlocks(a1, B) \cap Beside(B, h, hi), h, hi - h)
    BY <1>1, <1>3, <1>6, <1>7, <2>3, WholeSettled
  <2>5. Settled(a1, r.arena, B, Refilled(B, {h}, h, hi), X, h, hi - h)
    BY <1>6, <2>4
  <2>6. Resizes(a, r.arena, B, Refilled(B, {h}, h, hi), h, needed)
    <3>1. X = UsedBlocks(a, B) \ {h} /\ F \in SUBSET FreeBlocks(a, B)
      BY DEF X, F
    <3> QED
      BY <1>1, <1>3, <2>1, <2>5, <3>1, ResizeSettled
  <2> QED
    BY <2>2, <2>6
<1>12. ASSUME Size(a, h) < needed, ~(s >= needed)
       PROVE  r.done = FALSE /\ r.arena = a
  <2>1. ~(Size(a, h) >= needed)
    BY <1>2, <1>12
  <2> QED
    BY <1>12, <2>1 DEF ArenaResize, s
<1> HIDE DEF r
<1>13. \/ r.done = TRUE /\ \E B2 : Resizes(a, r.arena, B, B2, h, needed)
       \/ r.done = FALSE /\ r.arena = a
  <2>1. Size(a, h) >= needed \/ Size(a, h) < needed
    BY <1>2
  <2> QED
    BY <2>1, <1>8, <1>9, <1>10, <1>11, <1>12
<1>14. r.done \in BOOLEAN /\ (r.done => \E B2 : Resizes(a, r.arena, B, B2, h, needed))
       /\ (~r.done => r.arena = a)
  BY <1>13
<1> QED
  BY <1>14 DEF r

--------------------------------------------------------------------------------
\* Where a block comes from.

\* bucket_find finds a free block that is large enough, if any block.
LEMMA FoundFits ==
  ASSUME NEW a \in Arenas, NEW B, Sound(a, B), NEW size \in Nat, BucketFind(a, size) # NULL
  PROVE  BucketFind(a, size) \in FreeBlocks(a, B) /\ size <= Size(a, BucketFind(a, size))
<1> DEFINE F == FreeBlocks(a, B)
           fits(cls) == {h \in Listed(a, cls) : Size(a, h) >= size}
           classes == {cls \in ClassOf[size] .. NumClasses : fits(cls) # {}}
           c  == Min(classes)
           at == List(a, a.bucket[c])
           places == {n \in DOMAIN at : at[n] \in fits(c)}
<1>1. Heap(a, B) /\ Tiled(a, B) /\ Listing(a, F) /\ F \in SUBSET B
  BY DEF Sound, Heap, FreeBlocks
<1>2. classes # {} /\ BucketFind(a, size) = at[Min(places)]
  BY DEF BucketFind
<1>3. classes \in SUBSET Nat /\ classes \in SUBSET (1 .. NumClasses)
  <2>1. ClassOf[size] \in 1 .. NumClasses
    BY ClassFound
  <2>2. NumClasses \in Nat
    BY DEF NumClasses
  <2> HIDE DEF fits
  <2> QED
    BY <2>1, <2>2
<1>4. c \in classes
  <2> HIDE DEF classes
  <2> QED
    BY <1>2, <1>3, LeastFound
<1>5. c \in 1 .. NumClasses /\ fits(c) # {}
  BY <1>3, <1>4
<1> HIDE DEF c, classes
<1>6. Listed(a, c) = OfClass(a, c, F)
  <2> HIDE DEF F
  <2> QED
    BY <1>1, <1>5, ListedIs
<1>7. /\ at \in [0 .. Steps -> OfClass(a, c, F) \cup {NULL}]
      /\ {at[n] : n \in DOMAIN at} \ {NULL} = OfClass(a, c, F)
  <2>1. Chain(a.mem, a.bucket[c], OfClass(a, c, F)) /\ OfClass(a, c, F) \in SUBSET B
    BY <1>1, <1>5 DEF Listing, OfClass
  <2> DEFINE T == OfClass(a, c, F)
             f == a.bucket[c]
  <2>2. Chain(a.mem, f, T) /\ T \in SUBSET B
    BY <2>1
  <2> HIDE DEF T, f
  <2>3. /\ List(a, f) \in [0 .. Steps -> T \cup {NULL}]
        /\ {List(a, f)[n] : n \in DOMAIN List(a, f)} \ {NULL} = T
    BY <1>1, <2>2, ListFound
  <2> QED
    BY <2>3 DEF T, f
<1> HIDE DEF at
<1>8. places # {}
  <2>1. PICK h \in fits(c) : TRUE
    BY <1>5
  <2>2. h \in OfClass(a, c, F)
    BY <1>6, <2>1
  <2>3. PICK n \in DOMAIN at : at[n] = h
    BY <1>7, <2>2
  <2> QED
    BY <2>1, <2>3
<1>9. places \in SUBSET Nat
  <2>1. DOMAIN at = 0 .. Steps /\ Steps \in Nat
    BY <1>7, StepsEnough
  <2> HIDE DEF fits
  <2> QED
    BY <2>1
<1>10. Min(places) \in places
  <2> HIDE DEF places
  <2> QED
    BY <1>8, <1>9, LeastFound
<1>11. at[Min(places)] \in fits(c)
  BY <1>10
<1> HIDE DEF places
<1>12. at[Min(places)] \in F /\ Size(a, at[Min(places)]) >= size
  BY <1>6, <1>11 DEF OfClass
<1>13. size <= Size(a, at[Min(places)])
  <2>1. Size(a, at[Min(places)]) \in Nat
    BY <1>1, <1>12, HeapNumbers
  <2> QED
    BY <1>12, <2>1
<1> QED
  BY <1>2, <1>12, <1>13

\* The last block of a heap: the walk's largest address.
LEMMA LastBlock ==
  ASSUME NEW a \in Arenas, NEW B, Heap(a, B)
  PROVE  LET b == Max(Blocks(a)) IN
         b \in B /\ Following(a, b) = a.end /\ \A c \in B : c <= b
<1>1. Blocks(a) = B
  BY BlocksFound
<1>2. PICK b \in B : Following(a, b) = a.end
  <2>1. a.end # a.start /\ a.end \in B \cup {a.end}
    BY HeapNumbers DEF Heap, Tiled
  <2> QED
    BY <2>1, Before DEF Heap
<1>3. /\ \A c \in B : c \in Nat /\ c < a.end /\ a.end \in Nat /\ Size(a, c) \in Nat
      /\ \A c, d \in B : c < d => Following(a, c) <= d
  BY HeapNumbers DEF Heap, Tiled
<1>4. \A c \in B : c <= b
  BY <1>2, <1>3
<1>5. Max(B) = b
  <2>1. \E x \in B : \A y \in B : x >= y
    BY <1>3, <1>4
  <2>2. Max(B) \in B /\ \A y \in B : Max(B) >= y
    BY <2>1 DEF Max
  <2>3. Max(B) >= b /\ Max(B) <= b /\ Max(B) \in Nat
    BY <1>3, <1>4, <2>2
  <2> HIDE DEF Max
  <2> QED
    BY <1>3, <2>3
<1> QED
  BY <1>1, <1>2, <1>4, <1>5

\* The heap with another end.
Ended(a, hi) == [a EXCEPT !.end = hi]

\* Only the end is another.
LEMMA EndMoved ==
  ASSUME NEW a \in Arenas, NEW hi \in Addresses
  PROVE  LET w == Ended(a, hi) IN
         /\ w \in Arenas /\ w.mem = a.mem /\ w.bucket = a.bucket
         /\ w.start = a.start /\ w.end = hi /\ w.cap = a.cap /\ w.used = a.used
BY DEF Arenas, Ended

\* A free block from lo on and the epilogue after it: the heap ends higher.
LEMMA Topped ==
  ASSUME NEW a \in Arenas, NEW B, Heap(a, B), NEW lo \in B \cup {a.end}, lo # a.start,
         lo \in B => Free(a, lo) /\ Following(a, lo) = a.end,
         \A b \in B : Following(a, b) = lo => ~Free(a, b),
         NEW size \in Nat, size >= 3, lo + size \in Addresses, a.end < lo + size,
         Listing(a, FreeBlocks(a, B) \cap Beside(B, lo, lo + size))
  PROVE  LET z  == PutTop(a, lo, size, 0)
             B2 == Refilled(B, {lo}, lo, lo + size)
         IN  /\ Moves(a, z, B, B2, {}, {}) /\ lo \in FreeBlocks(z, B2) /\ Size(z, lo) = size
             /\ z.start = a.start /\ z.end = lo + size /\ z.cap = a.cap /\ z.used = a.used
<1> DEFINE hi == lo + size
           w0 == SetFreeBlock(a, lo, size, 0)
           w1 == SetHeader(w0, hi, 0, 1, 1)
           w  == Ended(w1, hi)
           z  == BucketInsert(w, lo)
           B2 == Refilled(B, {lo}, lo, hi)
           X  == UsedBlocks(a, B)
           F  == FreeBlocks(a, B) \cap Beside(B, lo, hi)
<1>1. /\ lo \in Nat /\ lo \in Addresses /\ hi \in Nat /\ hi \in Addresses /\ lo + 3 <= hi
      /\ hi - 1 \in Addresses /\ a.end \in Nat /\ a.end \in Addresses /\ lo <= a.end
      /\ hi - 1 = lo + size - 1 /\ lo + 1 \in Addresses /\ \A b \in B : b \in Nat /\ b < a.end
  <2>1. lo \in Nat /\ lo \in Addresses /\ hi \in Nat /\ hi \in Addresses /\ lo <= a.end
        /\ a.end \in Nat /\ a.end \in Addresses /\ \A b \in B : b \in Nat /\ b < a.end
    BY FollowingIs, HeapNumbers DEF Heap
  <2>2. hi - 1 \in Addresses /\ lo + 1 \in Addresses
    BY <2>1, NoAddress
  <2> QED
    BY <2>1, <2>2
<1>2. hi = lo + size
  OBVIOUS
<1> HIDE DEF hi
<1>3. /\ OnlyWords(a, w0, {lo, hi - 1}) /\ w0.mem[lo] = Tag(size, 0, 0)
      /\ w0.mem[hi - 1] = Tag(size, 0, 0) /\ w0 \in Arenas
  <2>1. lo + size - 1 \in Addresses /\ 0 \in 0 .. 1
    BY <1>1
  <2>2. /\ OnlyWords(a, w0, {lo, lo + size - 1}) /\ w0.mem[lo] = Tag(size, 0, 0)
        /\ w0.mem[lo + size - 1] = Tag(size, 0, 0)
    BY <1>1, <2>1, FreeBlockSet
  <2> QED
    BY <1>1, <2>2 DEF OnlyWords
<1> HIDE DEF w0
<1>4. w1 \in Arenas /\ OnlyWords(w0, w1, {hi}) /\ Header(w1, hi, 0, 1, 1)
  <2>1. hi \in Addresses /\ 1 \in 0 .. 1 /\ 0 \in Nat
    BY <1>1
  <2> QED
    BY <1>3, <2>1, HeaderReads
<1> HIDE DEF w1
<1>5. /\ w \in Arenas /\ w.mem = w1.mem /\ w.bucket = a.bucket
      /\ w.start = a.start /\ w.end = hi /\ w.cap = a.cap /\ w.used = a.used
  <2>1. w1.bucket = a.bucket /\ w1.start = a.start /\ w1.cap = a.cap /\ w1.used = a.used
    BY <1>3, <1>4 DEF OnlyWords, SameBounds
  <2> QED
    BY <1>1, <1>4, <2>1, EndMoved
<1> HIDE DEF w
<1>6. /\ \A x \in Addresses : x \notin {lo, hi - 1, hi} => w.mem[x] = a.mem[x]
      /\ w.mem[lo] = Tag(size, 0, 0) /\ w.mem[hi - 1] = Tag(size, 0, 0) /\ Header(w, hi, 0, 1, 1)
  <2>1. lo \notin {hi} /\ hi - 1 \notin {hi}
    BY <1>1
  <2>2. Header(w, hi, 0, 1, 1)
    BY <1>4, <1>5 DEF Header, Size, PrevFree
  <2> QED
    BY <1>1, <1>3, <1>4, <1>5, <2>1, <2>2 DEF OnlyWords
<1>7. /\ Size(w, lo) = size /\ Following(w, lo) = hi /\ Free(w, lo) /\ AllocOf(w.mem[lo]) = 0
      /\ PrevFree(w, lo) = 0 /\ ~Free(w, hi) /\ IsEpilogue(w, hi) /\ SizeOf(w.mem[hi - 1]) = size
  <2>1. SizeOf(w.mem[hi - 1]) = size
    BY <1>6, TagParts
  <2> QED
    BY <1>6, <2>1, TagRead DEF hi, Free, Header, IsEpilogue
<1>8. Filling(w, {lo}, lo, hi)
  <2>1. Agree(w, lo)
    BY <1>5, <1>7 DEF Agree
  <2>2. lo < hi /\ lo <= lo
    BY <1>1
  <2> QED
    BY <1>1, <1>7, <2>1, <2>2 DEF Filling, MinBlock
<1>9. ASSUME NEW b \in B, Following(a, b) = lo PROVE Agree(w, b)
  <2>1. ~Free(a, b) /\ b \in Addresses /\ AllocOf(a.mem[b]) \in 0 .. 1
    BY <1>9, FollowingIs
  <2>2. b \notin {lo, hi - 1, hi}
    <3>1. b \in Nat /\ Following(a, b) = b + Size(a, b) /\ Size(a, b) \in Nat /\ Size(a, b) >= 3
      BY HeapNumbers DEF Heap
    <3> QED
      BY <1>1, <1>9, <3>1
  <2>3. w.mem[b] = a.mem[b]
    BY <1>6, <2>1, <2>2
  <2>4. Following(w, b) = lo /\ ~Free(w, b) /\ AllocOf(w.mem[b]) = 1
    BY <1>9, <2>1, <2>3, SameWord DEF Free
  <2> QED
    BY <1>7, <2>4 DEF Agree
<1>10. Refill(a, w, B, {lo}, lo, hi)
  <2>1. w.start = a.start /\ w.end = hi /\ hi \in B \cup {a.end, w.end} /\ a.end < hi
    BY <1>5, <1>2
  <2>2. \A x \in Addresses : x < lo \/ hi < x => w.mem[x] = a.mem[x]
    BY <1>1, <1>6, NoAddress
  <2>3. hi \notin B
    BY <1>1, <2>1
  <2>4. \A b \in B : Following(a, b) = lo => Agree(w, b)
    BY <1>9
  <2>5. w.end \in Addresses /\ IsEpilogue(w, w.end) /\ ~Free(w, w.end)
    BY <1>1, <1>7, <2>1
  <2>6. lo \in B \cup {a.end} /\ lo # a.start /\ lo < hi
    BY <1>1
  <2> QED
    BY <1>8, <2>1, <2>2, <2>3, <2>4, <2>5, <2>6 DEF Refill
<1>11. Heap(w, B2)
  BY <1>5, <1>10, Retiled
<1>12. Intact(a, w, Beside(B, lo, hi)) /\ Listing(w, F)
  <2>1. Listing(a, F) /\ F \in SUBSET Beside(B, lo, hi)
    BY DEF hi
  <2> QED
    BY <1>5, <1>10, <2>1, RefillIntact
<1>13. X \cap Beside(B, lo, hi) = X
  <2>1. \A b \in X : b \in B /\ ~Free(a, b)
    BY DEF UsedBlocks
  <2>2. ASSUME NEW b \in X PROVE b < lo
    <3>1. b # lo
      BY <2>1
    <3>2. CASE lo = a.end
      BY <1>1, <2>1, <3>2
    <3>3. CASE lo \in B
      <4>1. lo < b => Following(a, lo) <= b
        BY <2>1, <3>3 DEF Heap, Tiled
      <4>2. Following(a, lo) = a.end
        BY <3>3
      <4>3. b \in Nat /\ b < a.end
        BY <1>1, <2>1
      <4> QED
        BY <1>1, <3>1, <4>1, <4>2, <4>3
    <3> QED
      BY <3>2, <3>3
  <2> QED
    BY <2>1, <2>2 DEF Beside
<1>14. UsedBlocks(w, B2) = X /\ FreeBlocks(w, B2) = F \cup {lo}
  <2>1. UsedBlocks(w, {lo}) = {} /\ FreeBlocks(w, {lo}) = {lo}
    BY <1>7 DEF UsedBlocks, FreeBlocks
  <2>2. UsedBlocks(w, B2) = (X \cap Beside(B, lo, hi)) \cup UsedBlocks(w, {lo})
    BY <1>5, <1>10, RefilledBlocks
  <2>3. FreeBlocks(w, B2) = F \cup FreeBlocks(w, {lo})
    BY <1>5, <1>10, RefilledBlocks
  <2> QED
    BY <1>13, <2>1, <2>2, <2>3
<1>15. /\ F \in SUBSET B2 /\ lo \in B2 /\ lo \notin F /\ X \in SUBSET B2
       /\ X \in SUBSET Beside(B, lo, hi) /\ lo \notin X
  <2>1. lo \notin Beside(B, lo, hi)
    BY <1>1 DEF Beside
  <2>2. X \in SUBSET Beside(B, lo, hi)
    BY <1>13
  <2> QED
    BY <2>1, <2>2 DEF Refilled, Beside
<1> HIDE DEF B2, F, X, z
<1>16. z \in Arenas /\ Heap(z, B2) /\ Listing(z, F \cup {lo}) /\ Relinked(w, z, {lo})
  BY <1>5, <1>11, <1>12, <1>15, Linked DEF z
<1>17. UsedBlocks(z, B2) = X /\ FreeBlocks(z, B2) = F \cup {lo} /\ Size(z, lo) = size
  <2>1. {lo} \in SUBSET B2
    BY <1>15
  <2>2. /\ UsedBlocks(z, B2) = UsedBlocks(w, B2) /\ FreeBlocks(z, B2) = FreeBlocks(w, B2)
        /\ \A b \in B2 \cup {w.end} : Size(z, b) = Size(w, b)
    BY <1>5, <1>11, <1>16, <2>1, RelinkedBlocks
  <2> QED
    BY <1>7, <1>14, <1>15, <2>2
<1>18. Intact(a, z, X)
  <2>1. Intact(a, w, X)
    BY <1>12, <1>15 DEF Intact
  <2>2. X \cap {lo} = {} /\ {lo} \in SUBSET B2
    BY <1>15
  <2>3. Intact(w, z, X)
    BY <1>5, <1>11, <1>15, <1>16, <2>2, RelinkedIntact
  <2> QED
    BY <2>1, <2>3, IntactTwice
<1>19. Moves(a, z, B, B2, {}, {})
  <2>1. X = (UsedBlocks(a, B) \ {}) \cup {} /\ X = UsedBlocks(a, B) \ {}
    BY DEF X
  <2> QED
    BY <1>16, <1>17, <1>18, <2>1 DEF Moves, Sound
<1>20. z.start = a.start /\ z.end = hi /\ z.cap = a.cap /\ z.used = a.used
  BY <1>5, <1>16 DEF Relinked, SameBounds
<1>21. z = PutTop(a, lo, size, 0)
  BY DEF z, w, w1, w0, hi, PutTop, Ended
<1>22. lo \in FreeBlocks(z, B2)
  BY <1>17
<1> QED
  BY <1>17, <1>19, <1>20, <1>21, <1>22 DEF B2, hi

\* The words in use are inside the mapping.
InBounds(a) ==
  /\ a.end - Base + 1 <= a.used /\ a.used <= a.cap
  /\ a.cap <= MaxCap

\* Other counts of the words.
Counted(a, cap, used) == [a EXCEPT !.cap = cap, !.used = used]

\* The counts are not the heap.
LEMMA CountedHeap ==
  ASSUME NEW a \in Arenas, NEW B, NEW cap \in Nat, NEW used \in Nat
  PROVE  LET a2 == Counted(a, cap, used) IN
         /\ a2 \in Arenas /\ a2.cap = cap /\ a2.used = used
         /\ a2.start = a.start /\ a2.end = a.end /\ a2.mem = a.mem /\ a2.bucket = a.bucket
         /\ Heap(a, B) => Heap(a2, B)
         /\ UsedBlocks(a2, B) = UsedBlocks(a, B) /\ FreeBlocks(a2, B) = FreeBlocks(a, B)
         /\ \A S : Listing(a, S) => Listing(a2, S)
         /\ Intact(a, a2, B)
<1> DEFINE a2 == Counted(a, cap, used)
<1>1. /\ a2 \in Arenas /\ a2.cap = cap /\ a2.used = used
      /\ a2.start = a.start /\ a2.end = a.end /\ a2.mem = a.mem /\ a2.bucket = a.bucket
  BY DEF Arenas, Counted
<1> HIDE DEF a2
<1>2. \A h : /\ Size(a2, h) = Size(a, h) /\ PrevFree(a2, h) = PrevFree(a, h)
             /\ Following(a2, h) = Following(a, h) /\ (Free(a2, h) <=> Free(a, h))
             /\ (IsEpilogue(a2, h) <=> IsEpilogue(a, h))
  BY <1>1 DEF Size, PrevFree, Following, Free, IsEpilogue
<1>3. Heap(a, B) => Heap(a2, B)
  <2>1. Tiled(a, B) => Tiled(a2, B)
    BY <1>1, <1>2 DEF Tiled
  <2>2. \A b \in B : Agree(a, b) => Agree(a2, b)
    <3> SUFFICES ASSUME NEW b \in B, Agree(a, b) PROVE Agree(a2, b)
      OBVIOUS
    <3>1. FooterTrimmed(a, b) => FooterTrimmed(a2, b)
      BY <1>1, <1>2, SameTrimmed
    <3> QED
      BY <1>1, <1>2, <3>1 DEF Agree
  <2> QED
    BY <1>1, <1>2, <2>1, <2>2 DEF Heap
<1>4. UsedBlocks(a2, B) = UsedBlocks(a, B) /\ FreeBlocks(a2, B) = FreeBlocks(a, B)
  BY <1>2 DEF UsedBlocks, FreeBlocks
<1>5. ASSUME NEW S, Listing(a, S) PROVE Listing(a2, S)
  <2>1. \A c : OfClass(a2, c, S) = OfClass(a, c, S)
    BY <1>2 DEF OfClass
  <2> QED
    BY <1>1, <1>5, <2>1 DEF Listing
<1>6. Intact(a, a2, B)
  BY <1>1, <1>2 DEF Intact
<1> QED
  BY <1>1, <1>3, <1>4, <1>5, <1>6 DEF a2

\* More words at the top: they are a free block, with the last block when that is free.
LEMMA TopAdded ==
  ASSUME NEW a \in Arenas, NEW B, Sound(a, B), NEW last \in B, Following(a, last) = a.end,
         NEW size \in Nat, size >= 3, a.end + size + 1 \in Addresses
  PROVE  LET r == AddTop(a, last, size) IN
         \E B2 : /\ Moves(a, r.arena, B, B2, {}, {}) /\ r.block \in FreeBlocks(r.arena, B2)
                 /\ size <= Size(r.arena, r.block)
                 /\ r.arena.start = a.start /\ r.arena.end <= a.end + size + 1
                 /\ r.arena.cap = a.cap /\ r.arena.used = a.used
<1> DEFINE F == FreeBlocks(a, B)
           X == UsedBlocks(a, B)
           r == AddTop(a, last, size)
<1>1. /\ Heap(a, B) /\ Listing(a, F) /\ F \in SUBSET B /\ X \in SUBSET B /\ X \cap F = {}
      /\ \A b \in B : b \in Nat /\ b < a.end /\ Size(a, b) \in Nat /\ Size(a, b) >= 3
                      /\ Following(a, b) = b + Size(a, b)
      /\ a.end \in Nat /\ last + Size(a, last) = a.end /\ a.end # a.start
  <2>1. Heap(a, B) /\ Listing(a, F) /\ F \in SUBSET B /\ X \in SUBSET B /\ X \cap F = {}
    BY DEF Sound, FreeBlocks, UsedBlocks
  <2>2. /\ \A b \in B : b \in Nat /\ b < a.end /\ Size(a, b) \in Nat /\ Size(a, b) >= 3
                      /\ Following(a, b) = b + Size(a, b)
        /\ a.end \in Nat /\ a.start \in B /\ a.end \notin B
    BY <2>1, HeapNumbers DEF Heap, Tiled
  <2> QED
    BY <2>1, <2>2
<1>2. CASE Free(a, last)
  <2> DEFINE a1 == BucketRemove(a, last)
             n  == Size(a, last) + size + 1
             B2 == Refilled(B, {last}, last, last + n)
             z  == PutTop(a1, last, n, 0)
  <2>1. last \in F /\ last # a.start
    BY <1>1, <1>2 DEF FreeBlocks, Heap
  <2>2. a1 \in Arenas /\ Heap(a1, B) /\ Listing(a1, F \ {last}) /\ Relinked(a, a1, F)
    BY <1>1, <2>1, Unlinked
  <2>3. PrevFree(a, last) = 0 /\ \A b \in B : Following(a, b) = last => ~Free(a, b)
    <3>1. \A b \in B : Following(a, b) = last => ~Free(a, b)
      BY <1>1, <1>2 DEF Heap, Agree
    <3>2. PICK q \in B : Following(a, q) = last
      BY <1>1, <2>1, Before DEF Heap
    <3>3. ~Free(a, q) /\ last # a.end /\ AllocOf(a.mem[q]) \in 0 .. 1
      BY <1>1, <3>1, <3>2, FollowingIs
    <3>4. PrevFree(a, last) = 1 - AllocOf(a.mem[q])
      BY <1>1, <3>2, <3>3 DEF Heap, Agree
    <3> QED
      BY <3>1, <3>3, <3>4 DEF Free
  <2>4. r.arena = z /\ r.block = last
    BY <1>2, <2>3 DEF AddTop
  <2> HIDE DEF a1, r
  <2>5. /\ n \in Nat /\ n >= 3 /\ last + n = a.end + size + 1 /\ a.end < last + n /\ size <= n
    BY <1>1
  <2> HIDE DEF n
  <2>6. /\ a1.start = a.start /\ a1.end = a.end /\ a1.cap = a.cap /\ a1.used = a.used
        /\ UsedBlocks(a1, B) = X /\ FreeBlocks(a1, B) = F
        /\ Free(a1, last) /\ Following(a1, last) = a1.end
        /\ \A b \in B : Following(a1, b) = last => ~Free(a1, b)
    <3>1. /\ a1.start = a.start /\ a1.end = a.end /\ a1.cap = a.cap /\ a1.used = a.used
      BY <2>2 DEF Relinked, SameBounds
    <3> HIDE DEF F, X
    <3>2. /\ UsedBlocks(a1, B) = X /\ FreeBlocks(a1, B) = F
          /\ \A b \in B : (Free(a1, b) <=> Free(a, b)) /\ Following(a1, b) = Following(a, b)
      BY <1>1, <2>2, RelinkedBlocks DEF F, X
    <3> QED
      BY <1>2, <2>3, <3>1, <3>2
  <2>7. FreeBlocks(a1, B) \cap Beside(B, last, last + n) = F \ {last}
    <3>1. \A b \in B : (b < last \/ last + n <= b) <=> b # last
      <4>1. \A b \in B : last < b => Following(a, last) <= b
        BY <1>1 DEF Heap, Tiled
      <4> QED
        BY <1>1, <2>5, <4>1
    <3>2. Beside(B, last, last + n) = B \ {last}
      BY <3>1 DEF Beside
    <3> QED
      BY <1>1, <2>6, <3>2
  <2>8. /\ Moves(a1, z, B, B2, {}, {}) /\ last \in FreeBlocks(z, B2) /\ Size(z, last) = n
        /\ z.start = a1.start /\ z.end = last + n /\ z.cap = a1.cap /\ z.used = a1.used
    <3>1. /\ last \in B \cup {a1.end} /\ last # a1.start /\ last + n \in Addresses /\ a1.end < last + n
          /\ Listing(a1, FreeBlocks(a1, B) \cap Beside(B, last, last + n))
      BY <2>1, <2>2, <2>5, <2>6, <2>7
    <3> HIDE DEF z, B2
    <3> QED
      BY <2>2, <2>5, <2>6, <3>1, Topped DEF z, B2
  <2> HIDE DEF z, B2
  <2>9. Moves(a, z, B, B2, {}, {})
    <3>1. Intact(a, a1, X)
      BY <1>1, <2>2, RelinkedIntact
    <3>2. Intact(a1, z, X)
      BY <2>6, <2>8 DEF Moves
    <3>3. Intact(a, z, X)
      BY <3>1, <3>2, IntactTwice
    <3> QED
      BY <2>6, <2>8, <3>3 DEF Moves
  <2>10. z.end <= a.end + size + 1
    BY <1>1, <2>5, <2>8
  <2>11. size <= Size(z, last)
    BY <2>5, <2>8
  <2> QED
    BY <2>4, <2>6, <2>8, <2>9, <2>10, <2>11 DEF r
<1>3. CASE ~Free(a, last)
  <2> DEFINE e  == a.end
             B2 == Refilled(B, {e}, e, e + size)
             z  == PutTop(a, e, size, 0)
  <2>1. r.arena = z /\ r.block = e
    BY <1>3 DEF AddTop
  <2>2. e + size \in Addresses /\ e \notin B /\ a.end < e + size
    <3>1. e \in Addresses /\ e \notin B
      BY <1>1, HeapNumbers DEF Heap
    <3> QED
      BY <1>1, <3>1, NoAddress
  <2>3. \A b \in B : Following(a, b) = e => ~Free(a, b)
    <3> SUFFICES ASSUME NEW b \in B, Following(a, b) = e PROVE b = last
      BY <1>3
    <3>1. b < last => Following(a, b) <= last
      BY <1>1 DEF Heap, Tiled
    <3>2. last < b => Following(a, last) <= b
      BY <1>1 DEF Heap, Tiled
    <3> QED
      BY <1>1, <3>1, <3>2
  <2>4. FreeBlocks(a, B) \cap Beside(B, e, e + size) = F
    BY <1>1 DEF Beside
  <2>5. /\ Moves(a, z, B, B2, {}, {}) /\ e \in FreeBlocks(z, B2) /\ Size(z, e) = size
        /\ z.start = a.start /\ z.end = e + size /\ z.cap = a.cap /\ z.used = a.used
    <3>1. /\ e \in B \cup {a.end} /\ e # a.start
          /\ Listing(a, FreeBlocks(a, B) \cap Beside(B, e, e + size))
      BY <1>1, <2>4
    <3>2. Heap(a, B) /\ (e \in B => Free(a, e) /\ Following(a, e) = a.end)
      BY <1>1, <2>2
    <3> HIDE DEF z, B2, r, F, e
    <3> QED
      BY <2>2, <2>3, <3>1, <3>2, Topped DEF z, B2
  <2> HIDE DEF z, B2
  <2>6. z.end <= a.end + size + 1 /\ size <= Size(z, e)
    BY <1>1, <2>5
  <2> HIDE DEF r
  <2> QED
    BY <2>1, <2>5, <2>6 DEF r
<1> QED
  BY <1>2, <1>3

\* The larger of two numbers.
LEMMA LargerOf ==
  ASSUME NEW x \in Nat, NEW y \in Nat
  PROVE  Max({x, y}) \in {x, y} /\ x <= Max({x, y}) /\ y <= Max({x, y})
<1>1. \E m \in {x, y} : \A k \in {x, y} : m >= k
  <2>1. x >= y \/ y >= x
    OBVIOUS
  <2>2. x >= x /\ y >= y
    OBVIOUS
  <2> QED
    BY <2>1, <2>2
<1>2. Max({x, y}) \in {x, y} /\ \A k \in {x, y} : Max({x, y}) >= k
  BY <1>1 DEF Max
<1>3. Max({x, y}) \in Nat
  BY <1>2
<1> QED
  BY <1>2, <1>3

\* extend_heap: a free block that is large enough, or the arena as it was.
LEMMA Extended ==
  ASSUME NEW a \in Arenas, NEW B, Sound(a, B), InBounds(a), NEW size \in Nat, size >= 3, NEW growth
  PROVE  LET r == ExtendHeap(a, size, growth) IN
         \/ r.block = NULL /\ r.arena = a
         \/ \E B2 : /\ Moves(a, r.arena, B, B2, {}, {}) /\ r.block \in FreeBlocks(r.arena, B2)
                    /\ size <= Size(r.arena, r.block)
                    /\ r.arena.start = a.start /\ InBounds(r.arena)
<1> DEFINE needed == size + 1
           full   == a.used + needed > a.cap
           newCap == a.cap + Max({GrowSize, needed})
           refused == full /\ (growth = "refused" \/ newCap > MaxCap)
           cap2   == IF full THEN newCap ELSE a.cap
           last   == Max(Blocks(a))
           a1     == Counted(a, cap2, a.used + needed)
           r      == ExtendHeap(a, size, growth)
<1>1. /\ Heap(a, B) /\ last \in B /\ Following(a, last) = a.end /\ Blocks(a) = B
      /\ \A b \in B : ~(Size(a, b) < MinBlock)
  <2>1. Heap(a, B)
    BY DEF Sound
  <2>2. \A b \in B : Size(a, b) \in Nat /\ Size(a, b) >= 3
    BY <2>1, HeapNumbers DEF Heap
  <2> QED
    BY <2>1, <2>2, BlocksFound, LastBlock DEF MinBlock
<1>2. CASE refused
  <2>1. r.block = NULL /\ r.arena = a
    BY <1>2 DEF ExtendHeap
  <2> QED
    BY <2>1
<1>3. CASE ~refused
  <2>1. r = AddTop([[a EXCEPT !.cap = IF full THEN newCap ELSE @] EXCEPT !.used = @ + needed], last, size)
    BY <1>1, <1>3 DEF ExtendHeap
  <2>2. [[a EXCEPT !.cap = IF full THEN newCap ELSE @] EXCEPT !.used = @ + needed] = a1
    <3>1. a = [mem |-> a.mem, start |-> a.start, end |-> a.end, bucket |-> a.bucket,
               cap |-> a.cap, used |-> a.used]
      BY DEF Arenas
    <3> HIDE DEF full, newCap, needed
    <3> QED
      BY <3>1 DEF Counted
  <2>3. r = AddTop(a1, last, size)
    BY <2>1, <2>2
  <2>4. /\ a.cap \in Nat /\ a.used \in Nat /\ needed \in Nat /\ GrowSize \in Nat /\ Base \in Nat
        /\ MaxCap \in Nat /\ a.end \in Nat
    <3>1. GrowSize \in Nat
      BY ArenaAssumption
    <3>2. a.end \in Nat
      BY <1>1, HeapNumbers DEF Heap
    <3> QED
      BY <3>1, <3>2, NoAddress DEF Arenas
  <2>5. Max({GrowSize, needed}) \in Nat /\ needed <= Max({GrowSize, needed})
    BY <2>4, LargerOf
  <2>6. cap2 \in Nat /\ a.used + needed <= cap2 /\ cap2 <= MaxCap
    <3> DEFINE m == Max({GrowSize, needed})
    <3>1. m \in Nat /\ needed <= m /\ (full => a.cap + m <= MaxCap)
      BY <1>3, <2>4, <2>5
    <3> HIDE DEF m
    <3>2. full => cap2 = a.cap + m
      BY DEF m
    <3>3. ~full => cap2 = a.cap
      OBVIOUS
    <3> QED
      BY <2>4, <3>1, <3>2, <3>3 DEF InBounds
  <2> HIDE DEF cap2, a1, r, last, newCap
  <2>7. /\ a1 \in Arenas /\ a1.cap = cap2 /\ a1.used = a.used + needed
        /\ a1.start = a.start /\ a1.end = a.end /\ a1.mem = a.mem
        /\ Heap(a1, B) /\ UsedBlocks(a1, B) = UsedBlocks(a, B) /\ FreeBlocks(a1, B) = FreeBlocks(a, B)
        /\ Listing(a1, FreeBlocks(a, B)) /\ Intact(a, a1, B)
    <3> DEFINE u == a.used + needed
               F == FreeBlocks(a, B)
    <3>1. Heap(a, B) /\ Listing(a, F) /\ u \in Nat /\ cap2 \in Nat
      BY <2>4, <2>6 DEF Sound
    <3>2. a1 = Counted(a, cap2, u)
      BY DEF a1
    <3> HIDE DEF needed, u, F
    <3>3. /\ a1 \in Arenas /\ a1.cap = cap2 /\ a1.used = u
          /\ a1.start = a.start /\ a1.end = a.end /\ a1.mem = a.mem
          /\ Heap(a1, B) /\ UsedBlocks(a1, B) = UsedBlocks(a, B) /\ FreeBlocks(a1, B) = FreeBlocks(a, B)
          /\ Listing(a1, F) /\ Intact(a, a1, B)
      BY <3>1, <3>2, CountedHeap
    <3> QED
      BY <3>3 DEF u, F
  <2>8. Sound(a1, B) /\ Following(a1, last) = a1.end
    BY <1>1, <2>7 DEF Sound, Following, Size
  <2>9. a1.end + size + 1 \in Addresses
    <3>1. a.end + size + 1 <= Base + MaxCap - 1 /\ Base <= a.end
      <4>1. a.end - Base + 1 <= a.used
        BY DEF InBounds
      <4>2. a.end \in Addresses
        BY <1>1, HeapNumbers DEF Heap
      <4> QED
        BY <2>4, <2>6, <4>1, <4>2, NoAddress
    <3> QED
      BY <2>4, <2>7, <3>1, NoAddress
  <2>10. PICK B2 : /\ Moves(a1, r.arena, B, B2, {}, {}) /\ r.block \in FreeBlocks(r.arena, B2)
                   /\ size <= Size(r.arena, r.block)
                   /\ r.arena.start = a1.start /\ r.arena.end <= a1.end + size + 1
                   /\ r.arena.cap = a1.cap /\ r.arena.used = a1.used
    BY <1>1, <2>3, <2>7, <2>8, <2>9, TopAdded
  <2>11. Moves(a, r.arena, B, B2, {}, {})
    <3>1. Intact(a, a1, UsedBlocks(a, B))
      BY <2>7 DEF Intact, UsedBlocks
    <3>2. Intact(a1, r.arena, UsedBlocks(a, B))
      BY <2>7, <2>10 DEF Moves
    <3>3. Intact(a, r.arena, UsedBlocks(a, B))
      BY <3>1, <3>2, IntactTwice
    <3> QED
      BY <2>7, <2>10, <3>3 DEF Moves
  <2>12. InBounds(r.arena)
    <3>1. r.arena.end \in Nat
      <4>1. r.arena \in Arenas /\ Tiled(r.arena, B2)
        BY <2>10 DEF Moves, Sound, Heap
      <4> QED
        BY <4>1, HeapNumbers
    <3>2. a.end - Base + 1 <= a.used
      BY DEF InBounds
    <3>3. r.arena.end - Base + 1 <= a.used + needed
      BY <2>4, <2>7, <2>10, <3>1, <3>2
    <3> QED
      BY <2>6, <2>7, <2>10, <3>3 DEF InBounds
  <2> QED
    BY <2>7, <2>10, <2>11, <2>12 DEF r
<1> QED
  BY <1>2, <1>3

--------------------------------------------------------------------------------
\* Words that the structure does not read.

\* Words change that are no header, no link of a free block and no footer but one that
\* is trimmed.
LEMMA Reworded ==
  ASSUME NEW a \in Arenas, NEW B, Sound(a, B), NEW a2, NEW X, OnlyWords(a, a2, X),
         \A b \in B \cup {a.end} : b \notin X,
         \A b \in FreeBlocks(a, B) : b + 1 \notin X,
         \A b \in FreeBlocks(a, B) : Following(a, b) - 1 \in X => FooterTrimmed(a2, b)
  PROVE  /\ Sound(a2, B)
         /\ UsedBlocks(a2, B) = UsedBlocks(a, B) /\ FreeBlocks(a2, B) = FreeBlocks(a, B)
         /\ \A b \in B : Size(a2, b) = Size(a, b) /\ (Free(a2, b) <=> Free(a, b))
<1>1. /\ B \in SUBSET Addresses /\ a.end \in Addresses /\ a2 \in Arenas /\ a.start \in B
      /\ \A b \in B : Following(a, b) \in B \cup {a.end}
  BY DEF Sound, Heap, Tiled, OnlyWords
<1>2. \A b \in B \cup {a.end} : a2.mem[b] = a.mem[b]
  BY <1>1 DEF OnlyWords
<1>3. \A b \in B \cup {a.end} :
        /\ Size(a2, b) = Size(a, b) /\ PrevFree(a2, b) = PrevFree(a, b)
        /\ AllocOf(a2.mem[b]) = AllocOf(a.mem[b]) /\ Following(a2, b) = Following(a, b)
        /\ Free(a2, b) <=> Free(a, b)
  BY <1>2, SameWord
<1>4. \A b \in B : Following(a, b) - 1 \in Addresses /\ b + 1 \in Addresses
  <2> SUFFICES ASSUME NEW b \in B PROVE Following(a, b) - 1 \in Addresses /\ b + 1 \in Addresses
    OBVIOUS
  <2>1. /\ b \in Nat /\ Size(a, b) \in Nat /\ Size(a, b) >= 3 /\ Following(a, b) = b + Size(a, b)
        /\ Size(a, b) - 1 \in 1 .. Size(a, b) - 1 /\ 1 \in 1 .. Size(a, b) - 1
    BY HeapNumbers DEF Sound, Heap
  <2>2. b + (Size(a, b) - 1) \in Addresses /\ b + 1 \in Addresses
    BY <2>1, Inside DEF Sound, Heap
  <2> QED
    BY <2>1, <2>2
<1>5. a2.start = a.start /\ a2.end = a.end /\ a2.bucket = a.bucket
  BY DEF OnlyWords, SameBounds
<1>6. Tiled(a2, B)
  BY <1>1, <1>3, <1>5 DEF Sound, Heap, Tiled
<1>7. ASSUME NEW b \in B PROVE Agree(a2, b)
  <2> DEFINE foot == Following(a, b) - 1
  <2>1. Free(a, b) => a2.mem[foot] = a.mem[foot] \/ FooterTrimmed(a2, b)
    BY <1>4 DEF OnlyWords, FreeBlocks
  <2>2. a2.mem[foot] = a.mem[foot] /\ FooterTrimmed(a, b) => FooterTrimmed(a2, b)
    BY <1>3, <1>5, SameTrimmed
  <2>3. Agree(a, b)
    BY DEF Sound, Heap
  <2>4. Free(a, b) => SizeOf(a2.mem[foot]) = Size(a2, b) \/ FooterTrimmed(a2, b)
    BY <1>3, <2>1, <2>2, <2>3 DEF Agree
  <2> QED
    BY <1>1, <1>3, <1>5, <2>3, <2>4 DEF Agree
<1>8. Heap(a2, B)
  <2>1. ~Free(a2, a2.start) /\ IsEpilogue(a2, a2.end) /\ ~Free(a2, a2.end)
    BY <1>1, <1>3, <1>5 DEF Sound, Heap, IsEpilogue
  <2> QED
    BY <1>6, <1>7, <2>1 DEF Heap
<1>9. FreeBlocks(a2, B) = FreeBlocks(a, B) /\ UsedBlocks(a2, B) = UsedBlocks(a, B)
  BY <1>3 DEF FreeBlocks, UsedBlocks
<1> DEFINE F == FreeBlocks(a, B)
<1>10. Listing(a2, F)
  <2> SUFFICES ASSUME NEW cls \in 1 .. NumClasses
               PROVE  Chain(a2.mem, a2.bucket[cls], OfClass(a2, cls, F))
    BY DEF Listing
  <2>1. OfClass(a2, cls, F) = OfClass(a, cls, F)
    BY <1>3 DEF OfClass, FreeBlocks
  <2>2. Chain(a.mem, a.bucket[cls], OfClass(a, cls, F))
    BY DEF Sound, Listing
  <2>3. \A b \in F : a2.mem[b + 1] = a.mem[b + 1]
    BY <1>4 DEF OnlyWords, FreeBlocks
  <2>4. \A b \in OfClass(a, cls, F) : a2.mem[b + 1] = a.mem[b + 1]
    BY <2>3 DEF OfClass
  <2> HIDE DEF F
  <2> QED
    BY <1>5, <2>1, <2>2, <2>4, ChainFrame
<1> QED
  BY <1>3, <1>8, <1>9, <1>10 DEF Sound

\* The caller writes into its own block.
LEMMA OwnWords ==
  ASSUME NEW a \in Arenas, NEW B, Sound(a, B), NEW h \in UsedBlocks(a, B), NEW a2, NEW X,
         OnlyWords(a, a2, X), \A x \in X : x \in Int /\ h < x /\ x < Following(a, h)
  PROVE  /\ Sound(a2, B) /\ UsedBlocks(a2, B) = UsedBlocks(a, B)
         /\ \A b \in B : Size(a2, b) = Size(a, b) /\ (Free(a2, b) <=> Free(a, b))
         /\ Intact(a, a2, UsedBlocks(a, B) \ {h})
<1>1. /\ h \in B /\ h \in Nat /\ Following(a, h) \in Nat /\ ~Free(a, h)
      /\ Following(a, h) <= a.end /\ a.end \in Nat
      /\ \A b \in B : /\ b \in Nat /\ Size(a, b) \in Nat /\ Size(a, b) >= 3
                      /\ Following(a, b) = b + Size(a, b)
      /\ \A b, c \in B : b < c => b + Size(a, b) <= c
  BY HeapNumbers DEF Sound, Heap, UsedBlocks
<1>2. \A b \in B \cup {a.end} : b \notin X
  BY <1>1
<1>3. \A b \in B : b # h => \A i \in 0 .. Size(a, b) - 1 : b + i \notin X
  <2> SUFFICES ASSUME NEW b \in B, b # h, NEW i \in 0 .. Size(a, b) - 1 PROVE b + i \notin X
    OBVIOUS
  <2>1. b < h \/ h < b
    BY <1>1
  <2>2. b < h => b + Size(a, b) <= h
    BY <1>1
  <2>3. h < b => Following(a, h) <= b
    BY <1>1
  <2>4. b + i \in Int /\ b <= b + i /\ b + i < b + Size(a, b)
    BY <1>1
  <2>5. b < h => b + i < h
    BY <1>1, <2>2, <2>4
  <2>6. h < b => Following(a, h) <= b + i
    BY <1>1, <2>3, <2>4
  <2> QED
    BY <1>1, <2>1, <2>5, <2>6
<1>4. \A b \in FreeBlocks(a, B) : b + 1 \notin X /\ Following(a, b) - 1 \notin X
  <2> SUFFICES ASSUME NEW b \in FreeBlocks(a, B) PROVE b + 1 \notin X /\ Following(a, b) - 1 \notin X
    OBVIOUS
  <2>1. b \in B /\ b # h
    BY <1>1 DEF FreeBlocks
  <2>2. /\ 1 \in 0 .. Size(a, b) - 1 /\ Size(a, b) - 1 \in 0 .. Size(a, b) - 1
        /\ Following(a, b) - 1 = b + (Size(a, b) - 1)
    BY <1>1, <2>1
  <2> QED
    BY <1>3, <2>1, <2>2
<1>5. /\ Sound(a2, B) /\ UsedBlocks(a2, B) = UsedBlocks(a, B)
      /\ \A b \in B : Size(a2, b) = Size(a, b) /\ (Free(a2, b) <=> Free(a, b))
  BY <1>2, <1>4, Reworded
<1>6. ASSUME NEW b \in UsedBlocks(a, B) \ {h}, NEW i \in 1 .. Size(a, b) - 1
      PROVE  a2.mem[b + i] = a.mem[b + i]
  <2>1. b \in B /\ b # h
    BY DEF UsedBlocks
  <2>2. b + i \in Addresses
    BY <2>1, Inside DEF Sound, Heap
  <2>3. i \in 0 .. Size(a, b) - 1
    BY <1>1, <2>1
  <2>4. b + i \notin X
    BY <1>3, <2>1, <2>3
  <2> QED
    BY <2>2, <2>4 DEF OnlyWords
<1>7. UsedBlocks(a, B) \ {h} \subseteq B
  BY DEF UsedBlocks
<1> QED
  BY <1>5, <1>6, <1>7 DEF Intact

--------------------------------------------------------------------------------
\* The operations of the arena.

\* A heap, or no heap yet; no block of the caller's is the prologue.
Good(a, B) ==
  /\ a \in Arenas
  /\ \/ a = Unmapped /\ B = {}
     \/ Sound(a, B) /\ InBounds(a)

Callers(a, B) == UsedBlocks(a, B) \ {a.start}

\* From a to a2 the blocks gone are given up, the blocks come are new, and the others
\* keep their sizes and their words.
Changes(a, a2, B, B2, gone, come) ==
  /\ Good(a2, B2)
  /\ Callers(a2, B2) = (Callers(a, B) \ gone) \cup come
  /\ Intact(a, a2, Callers(a, B) \ gone)

\* Before the first allocation there is nothing.
LEMMA NothingMapped ==
  /\ Unmapped \in Arenas /\ Good(Unmapped, {}) /\ Callers(Unmapped, {}) = {}
  /\ Unmapped.start = NULL /\ Unmapped.used = 0 /\ Unmapped.cap = 0
  /\ Blocks(Unmapped) = {} /\ \A cls \in 1 .. NumClasses : Listed(Unmapped, cls) = {}
<1>1. /\ Unmapped.start = NULL /\ Unmapped.used = 0 /\ Unmapped.cap = 0
      /\ \A cls \in 1 .. NumClasses : Unmapped.bucket[cls] = NULL
  BY DEF Unmapped
<1>2. Unmapped \in Arenas
  BY DEF Unmapped, Arenas, NULL
<1>3. Blocks(Unmapped) = {} /\ \A cls \in 1 .. NumClasses : Listed(Unmapped, cls) = {}
  BY <1>1 DEF Blocks, Listed
<1> QED
  BY <1>1, <1>2, <1>3 DEF Good, Callers, UsedBlocks

\* The first mapping holds the prologue and the epilogue.
LEMMA FirstMapping ==
  /\ Mapped \in Arenas /\ Sound(Mapped, {Base}) /\ InBounds(Mapped)
  /\ Mapped.start = Base /\ UsedBlocks(Mapped, {Base}) = {Base}
<1> DEFINE m == [x \in Addresses |-> 0]
           w == Tag(3, 1, 0)
           e == Tag(0, 1, 0)
           mem == [m EXCEPT ![Base] = w, ![Base + 2] = w, ![Base + 3] = e]
           z == Mapped
<1>1. /\ Base \in Addresses /\ Base + 2 \in Addresses /\ Base + 3 \in Addresses
      /\ Base \in Nat /\ Base > 0 /\ Addresses \subseteq Nat
  BY NoAddress
<1>2. z = [mem |-> mem, start |-> Base, end |-> Base + 3,
           bucket |-> [c \in 1 .. NumClasses |-> NULL], cap |-> InitCap, used |-> 4]
  <2> DEFINE buckets == [c \in 1 .. NumClasses |-> NULL]
             u == [mem |-> m, start |-> NULL, end |-> NULL, bucket |-> buckets, cap |-> 0, used |-> 0]
  <2>1. Unmapped = u
    BY DEF Unmapped
  <2>2. w = Tag(MinBlock, 1, 0) /\ e = Tag(0, 1, 0) /\ Base + MinBlock = Base + 3 /\ MinBlock + 1 = 4
    BY DEF MinBlock
  <2> HIDE DEF w, e, m, buckets, u
  <2>3. u = [mem |-> m, start |-> NULL, end |-> NULL, bucket |-> buckets, cap |-> 0, used |-> 0]
    BY DEF u
  <2>4. u.mem = m
    BY <2>3
  <2>5. z = [u EXCEPT !.mem = mem, !.start = Base, !.end = Base + 3, !.cap = InitCap, !.used = 4]
    BY <2>1, <2>2, <2>4 DEF Mapped
  <2> HIDE DEF mem, z
  <2> QED
    BY <2>3, <2>5 DEF buckets
<1>3. 1 \in 0 .. 1 /\ 0 \in 0 .. 1 /\ 3 \in Nat /\ 0 \in Nat
  OBVIOUS
<1>4. w \in Nat /\ e \in Nat
  BY <1>3, TagParts
<1> HIDE DEF w, e, z
<1>5. /\ mem \in [Addresses -> Nat] /\ mem[Base] = w /\ mem[Base + 3] = e
  <2>1. m \in [Addresses -> Nat]
    OBVIOUS
  <2> HIDE DEF m
  <2> QED
    BY <1>1, <1>4, <2>1
<1> HIDE DEF mem
<1>6. /\ z.mem = mem /\ z.start = Base /\ z.end = Base + 3 /\ z.cap = InitCap /\ z.used = 4
      /\ z.bucket = [c \in 1 .. NumClasses |-> NULL]
  BY <1>2
<1>7. InitCap \in Nat /\ 4 <= InitCap /\ InitCap <= MaxCap /\ MaxCap \in Nat
  BY ArenaAssumption, NoAddress
<1>8. z \in Arenas
  BY <1>1, <1>2, <1>5, <1>7 DEF Arenas
<1>9. Size(z, Base) = 3 /\ Following(z, Base) = Base + 3 /\ ~Free(z, Base)
  <2>1. z.mem[Base] = Tag(3, 1, 0)
    BY <1>5, <1>6 DEF w
  <2> QED
    BY <1>3, <2>1, TagRead
<1>10. IsEpilogue(z, Base + 3) /\ ~Free(z, Base + 3)
  <2>1. z.mem[Base + 3] = Tag(0, 1, 0)
    BY <1>5, <1>6 DEF e
  <2> QED
    BY <1>3, <2>1, TagRead
<1>11. Tiled(z, {Base})
  BY <1>1, <1>6, <1>9 DEF Tiled, MinBlock
<1>12. Agree(z, Base)
  BY <1>6, <1>9 DEF Agree
<1>13. Heap(z, {Base})
  BY <1>6, <1>9, <1>10, <1>11, <1>12 DEF Heap
<1>14. FreeBlocks(z, {Base}) = {} /\ UsedBlocks(z, {Base}) = {Base}
  BY <1>9 DEF FreeBlocks, UsedBlocks
<1>15. Listing(z, {})
  <2> SUFFICES ASSUME NEW cls \in 1 .. NumClasses PROVE Chain(z.mem, z.bucket[cls], OfClass(z, cls, {}))
    BY DEF Listing
  <2>1. z.bucket[cls] = NULL /\ OfClass(z, cls, {}) = {}
    BY <1>6 DEF OfClass
  <2>2. [b \in {} |-> 0] \in [{} -> Nat]
    OBVIOUS
  <2>3. Linking(z.mem, NULL, {}, [b \in {} |-> 0])
    BY <2>2 DEF Linking
  <2> QED
    BY <2>1, <2>3 DEF Chain
<1>16. InBounds(z)
  BY <1>1, <1>6, <1>7 DEF InBounds
<1> QED
  BY <1>6, <1>8, <1>13, <1>14, <1>15, <1>16 DEF Sound, z

\* The words that a request of size words takes.
LEMMA NeededIs ==
  ASSUME NEW size \in Nat
  PROVE  Needed(size) \in Nat /\ Needed(size) >= 3 /\ size + 1 <= Needed(size)
<1>1. size + 1 \in Nat /\ 3 \in Nat
  OBVIOUS
<1>2. Max({size + 1, 3}) \in {size + 1, 3} /\ size + 1 <= Max({size + 1, 3}) /\ 3 <= Max({size + 1, 3})
  BY <1>1, LargerOf
<1>3. Needed(size) = Max({size + 1, 3})
  BY DEF Needed, MinBlock
<1> QED
  BY <1>1, <1>2, <1>3

\* Blocks that the caller has are blocks of a heap.
LEMMA CallersAre ==
  ASSUME NEW a, NEW B, Good(a, B), NEW h \in Callers(a, B)
  PROVE  /\ a \in Arenas /\ Sound(a, B) /\ InBounds(a)
         /\ h \in B /\ h \in UsedBlocks(a, B) /\ ~Free(a, h) /\ h # a.start
         /\ h \in Addresses /\ h # NULL /\ h \in Nat /\ a.start = Base
<1>1. B # {}
  BY DEF Callers, UsedBlocks
<1>2. a \in Arenas /\ Sound(a, B) /\ InBounds(a)
  BY <1>1 DEF Good
<1>3. h \in B /\ h \in UsedBlocks(a, B) /\ ~Free(a, h) /\ h # a.start
  BY DEF Callers, UsedBlocks
<1>4. h \in Addresses /\ h \in Nat /\ a.start = Base
  BY <1>2, <1>3, HeapNumbers DEF Sound, Heap
<1>5. h # NULL
  BY <1>4, NoAddress
<1> QED
  BY <1>2, <1>3, <1>4, <1>5

\* A move of blocks, as the callers see it.
LEMMA MovesChange ==
  ASSUME NEW a, NEW a2, NEW B, NEW B2, NEW gone, NEW come, Moves(a, a2, B, B2, gone, come),
         InBounds(a2), a2.start = a.start, a.start \notin come
  PROVE  Changes(a, a2, B, B2, gone, come)
<1>1. Callers(a2, B2) = (Callers(a, B) \ gone) \cup come
  BY DEF Moves, Callers
<1>2. Intact(a, a2, Callers(a, B) \ gone)
  BY DEF Moves, Callers, Intact
<1> QED
  BY <1>1, <1>2 DEF Changes, Good, Moves

\* find_block: a free block that is large enough, found or made.
LEMMA BlockFound ==
  ASSUME NEW a \in Arenas, NEW B, Sound(a, B), InBounds(a), NEW needed \in Nat, needed >= 3,
         NEW growth
  PROVE  LET f == FindBlock(a, needed, growth) IN
         \/ f.block = NULL /\ f.arena = a
         \/ \E B2 : /\ Moves(a, f.arena, B, B2, {}, {}) /\ f.block \in FreeBlocks(f.arena, B2)
                    /\ needed <= Size(f.arena, f.block)
                    /\ f.arena.start = a.start /\ InBounds(f.arena)
<1> DEFINE h == BucketFind(a, needed)
           f == FindBlock(a, needed, growth)
           e == ExtendHeap(a, needed, growth)
<1>1. CASE h # NULL
  <2>1. f.arena = a /\ f.block = h
    BY <1>1 DEF FindBlock
  <2>2. h \in FreeBlocks(a, B) /\ needed <= Size(a, h)
    BY <1>1, FoundFits
  <2>3. Moves(a, a, B, B, {}, {})
    BY DEF Moves, Intact
  <2> HIDE DEF f, h
  <2>4. f.block \in FreeBlocks(f.arena, B) /\ needed <= Size(f.arena, f.block)
        /\ Moves(a, f.arena, B, B, {}, {}) /\ f.arena.start = a.start /\ InBounds(f.arena)
    BY <2>1, <2>2, <2>3
  <2> QED
    BY <2>4 DEF f
<1>2. CASE h = NULL
  <2>1. f = e
    BY <1>2 DEF FindBlock
  <2>2. \/ e.block = NULL /\ e.arena = a
        \/ \E B2 : /\ Moves(a, e.arena, B, B2, {}, {}) /\ e.block \in FreeBlocks(e.arena, B2)
                   /\ needed <= Size(e.arena, e.block)
                   /\ e.arena.start = a.start /\ InBounds(e.arena)
    BY Extended
  <2> HIDE DEF e, h
  <2> QED
    BY <2>1, <2>2
<1> QED
  BY <1>1, <1>2

\* What find_block came to is taken.
LEMMA FoundTaken ==
  ASSUME NEW a \in Arenas, NEW B, Sound(a, B), InBounds(a), NEW needed \in Nat, needed >= 3,
         NEW growth
  PROVE  LET r == Occupy(FindBlock(a, needed, growth), needed) IN
         \/ r.block = NULL /\ r.arena = a
         \/ /\ r.block \in Nat /\ r.block # NULL /\ r.block \notin Callers(a, B)
            /\ needed <= Size(r.arena, r.block)
            /\ \E B2 : Changes(a, r.arena, B, B2, {}, {r.block})
<1> DEFINE f == FindBlock(a, needed, growth)
           r == Occupy(f, needed)
           h == f.block
           z == MarkAllocated(SplitBlock(BucketRemove(f.arena, h), h, needed), h)
<1>1. \/ f.block = NULL /\ f.arena = a
      \/ \E B2 : /\ Moves(a, f.arena, B, B2, {}, {}) /\ f.block \in FreeBlocks(f.arena, B2)
                 /\ needed <= Size(f.arena, f.block)
                 /\ f.arena.start = a.start /\ InBounds(f.arena)
  BY BlockFound
<1>2. f = [arena |-> f.arena, block |-> h]
  BY DEF FindBlock, ExtendHeap, AddTop
<1> HIDE DEF f
<1>3. CASE f.block = NULL /\ f.arena = a
  BY <1>3 DEF Occupy, f
<1>4. ASSUME NEW B1, Moves(a, f.arena, B, B1, {}, {}), h \in FreeBlocks(f.arena, B1),
             needed <= Size(f.arena, h), f.arena.start = a.start, InBounds(f.arena)
      PROVE  /\ r.block \in Nat /\ r.block # NULL /\ r.block \notin Callers(a, B)
             /\ needed <= Size(r.arena, r.block)
             /\ \E B2 : Changes(a, r.arena, B, B2, {}, {r.block})
  <2>1. f.arena \in Arenas /\ Sound(f.arena, B1) /\ UsedBlocks(f.arena, B1) = UsedBlocks(a, B)
        /\ Intact(a, f.arena, UsedBlocks(a, B))
    BY <1>4 DEF Moves
  <2>2. h \in B1 /\ h \in Addresses /\ h \in Nat /\ h # NULL /\ Free(f.arena, h)
    <3>1. h \in B1 /\ Free(f.arena, h)
      BY <1>4 DEF FreeBlocks
    <3>2. h \in Addresses /\ h \in Nat
      BY <2>1, <3>1, HeapNumbers DEF Sound, Heap
    <3> QED
      BY <3>1, <3>2, NoAddress
  <2>3. r.block = h /\ r.arena = z
    <3> DEFINE c == f.arena
    <3>1. f = [arena |-> c, block |-> h] /\ f.block = h /\ f.arena = c
      BY <1>2
    <3> HIDE DEF c, h
    <3> QED
      BY <2>2, <3>1 DEF Occupy
  <2> HIDE DEF r, z, h
  <2>4. /\ \E B2 : Moves(f.arena, z, B1, B2, {}, {h})
        /\ SameBounds(f.arena, z) /\ needed <= Size(z, h) /\ h # f.arena.start
    BY <1>4, <2>1, Occupied DEF z
  <2>5. PICK B2 : Moves(f.arena, z, B1, B2, {}, {h})
    BY <2>4
  <2>6. Moves(a, z, B, B2, {}, {h})
    <3>1. Intact(f.arena, z, UsedBlocks(a, B))
      BY <2>1, <2>5 DEF Moves
    <3>2. Intact(a, z, UsedBlocks(a, B))
      BY <2>1, <3>1, IntactTwice
    <3> QED
      BY <2>1, <2>5, <3>2 DEF Moves
  <2>7. InBounds(z)
    BY <1>4, <2>4 DEF InBounds, SameBounds
  <2>8. z.start = a.start /\ a.start \notin {h}
    BY <1>4, <2>4 DEF SameBounds
  <2>9. Changes(a, z, B, B2, {}, {h})
    BY <2>6, <2>7, <2>8, MovesChange
  <2>10. h \notin Callers(a, B)
    BY <2>1, <2>2 DEF Callers, UsedBlocks
  <2> QED
    BY <2>2, <2>3, <2>4, <2>9, <2>10
<1> QED
  BY <1>1, <1>3, <1>4 DEF f, r

\* The arena part of mira_malloc: a new block that is large enough, of which nobody had
\* a word, or none; the other callers keep theirs.
LEMMA BlockAllocated ==
  ASSUME NEW a, NEW B, Good(a, B), NEW size \in Nat, NEW growth
  PROVE  LET r == ArenaMalloc(a, size, growth) IN
         \E B2 :
           \/ r.block = NULL /\ Changes(a, r.arena, B, B2, {}, {})
           \/ /\ r.block \in Nat /\ r.block # NULL /\ r.block \notin Callers(a, B)
              /\ size + 1 <= Size(r.arena, r.block)
              /\ Changes(a, r.arena, B, B2, {}, {r.block})
<1> DEFINE needed == Needed(size)
           r == ArenaMalloc(a, size, growth)
           a0 == IF a.start = NULL THEN Mapped ELSE a
<1>1. PICK B0 : /\ a0 \in Arenas /\ Sound(a0, B0) /\ InBounds(a0)
                /\ Callers(a0, B0) = Callers(a, B) /\ Intact(a, a0, Callers(a, B))
  <2>1. CASE a = Unmapped /\ B = {}
    <3>1. Callers(a, B) = {} /\ a0 = Mapped
      BY <2>1, NothingMapped
    <3>2. Callers(Mapped, {Base}) = {}
      BY FirstMapping DEF Callers
    <3>3. Intact(a, a0, {})
      BY DEF Intact
    <3> QED
      BY <3>1, <3>2, <3>3, FirstMapping
  <2>2. CASE Sound(a, B) /\ InBounds(a)
    <3>1. a \in Arenas
      BY DEF Good
    <3>2. a.start # NULL
      BY <2>2, <3>1, HeapNumbers, NoAddress DEF Sound, Heap
    <3>3. Intact(a, a, Callers(a, B))
      BY DEF Intact
    <3> QED
      BY <2>2, <3>1, <3>2, <3>3
  <2> QED
    BY <2>1, <2>2 DEF Good
<1>2. needed \in Nat /\ needed >= 3 /\ size + 1 <= needed
  BY NeededIs
<1>3. r = Occupy(FindBlock(a0, needed, growth), needed)
  BY DEF ArenaMalloc
<1> HIDE DEF r, a0, needed
<1>4. \/ r.block = NULL /\ r.arena = a0
      \/ /\ r.block \in Nat /\ r.block # NULL /\ r.block \notin Callers(a0, B0)
         /\ needed <= Size(r.arena, r.block)
         /\ \E B2 : Changes(a0, r.arena, B0, B2, {}, {r.block})
  BY <1>1, <1>2, <1>3, FoundTaken
<1>5. CASE r.block = NULL /\ r.arena = a0
  <2>1. Changes(a, a0, B, B0, {}, {})
    BY <1>1 DEF Changes, Good
  <2> QED
    BY <1>5, <2>1 DEF r
<1>6. ASSUME r.block \in Nat, r.block # NULL, r.block \notin Callers(a0, B0),
             needed <= Size(r.arena, r.block), NEW B2, Changes(a0, r.arena, B0, B2, {}, {r.block})
      PROVE  /\ r.block \in Nat /\ r.block # NULL /\ r.block \notin Callers(a, B)
             /\ size + 1 <= Size(r.arena, r.block)
             /\ Changes(a, r.arena, B, B2, {}, {r.block})
  <2>1. Callers(r.arena, B2) = (Callers(a, B) \ {}) \cup {r.block} /\ Good(r.arena, B2)
    BY <1>1, <1>6 DEF Changes
  <2>2. Intact(a0, r.arena, Callers(a, B))
    BY <1>1, <1>6 DEF Changes
  <2>3. Intact(a, r.arena, Callers(a, B) \ {})
    BY <1>1, <2>2, IntactTwice
  <2>4. Changes(a, r.arena, B, B2, {}, {r.block})
    BY <2>1, <2>3 DEF Changes
  <2>5. r.arena \in Arenas /\ r.block \in Callers(r.arena, B2)
    BY <2>1 DEF Good
  <2>6. Size(r.arena, r.block) \in Nat
    BY <2>1, <2>5, CallersAre, Reads
  <2> QED
    BY <1>1, <1>2, <1>6, <2>4, <2>6
<1> QED
  BY <1>4, <1>5, <1>6 DEF r

\* Rounding down to a page.
LEMMA PageFloor ==
  ASSUME NEW n \in Nat
  PROVE  LET f == (n \div PageWords) * PageWords IN
         f \in Nat /\ f <= n /\ n < f + PageWords
<1> DEFINE q == n \div PageWords
           r == n % PageWords
<1>1. PageWords \in Nat /\ PageWords > 0
  BY ArenaAssumption
<1>2. r \in 0 .. PageWords - 1
  BY <1>1
<1>3. q \in Nat /\ n = PageWords * q + r
  BY <1>1
<1> HIDE DEF q, r
<1>4. q * PageWords \in Nat /\ n = q * PageWords + r
  BY <1>1, <1>3
<1>5. q * PageWords <= n /\ n < q * PageWords + PageWords
  <2> DEFINE f == q * PageWords
  <2>1. f \in Nat /\ n = f + r
    BY <1>4
  <2> HIDE DEF f
  <2>2. f <= n /\ n < f + PageWords
    BY <1>1, <1>2, <2>1
  <2> QED
    BY <2>2 DEF f
<1> QED
  BY <1>4, <1>5 DEF q

\* trim_arena: whole pages of the last block, which is free, read as zeros; the heap is
\* as before if no header and no link of a free block is lost.
LEMMA Trimmed ==
  ASSUME NEW a \in Arenas, NEW B, Sound(a, B), InBounds(a)
  PROVE  LET z == TrimArena(a) IN
         /\ z \in Arenas /\ SameBounds(a, z)
         /\ (\A b \in Blocks(a) : Free(a, b) => z.mem[b] = a.mem[b] /\ z.mem[b + 1] = a.mem[b + 1])
              => Moves(a, z, B, B, {}, {})
<1> DEFINE last == Max(Blocks(a))
           lo == ((last + PageWords - 1) \div PageWords) * PageWords
           hi == ((last + Size(a, last)) \div PageWords) * PageWords
           m  == [x \in Addresses |-> IF x \in lo .. hi - 1 THEN 0 ELSE a.mem[x]]
           z  == TrimArena(a)
           X  == {x \in Addresses : z.mem[x] # a.mem[x]}
<1>1. /\ Heap(a, B) /\ Blocks(a) = B /\ last \in B /\ Following(a, last) = a.end
      /\ \A b \in B : b <= last
  <2>1. Heap(a, B)
    BY DEF Sound
  <2>2. Blocks(a) = B /\ last \in B /\ Following(a, last) = a.end
    BY <2>1, BlocksFound, LastBlock
  <2>3. ASSUME NEW b \in B PROVE b <= last
    <3>1. /\ b \in Nat /\ last \in Nat /\ Following(a, b) <= a.end /\ a.end \in Nat
          /\ last < b => Following(a, last) <= b
          /\ b < a.end
      BY <2>1, <2>2, HeapNumbers DEF Heap, Tiled
    <3> QED
      BY <2>2, <3>1
  <2> QED
    BY <2>1, <2>2, <2>3
<1> HIDE DEF last
<1>2. /\ last \in Nat /\ last \in Addresses /\ Size(a, last) \in Nat /\ a.end = last + Size(a, last)
      /\ a.end \in Nat
      /\ \A b \in B : /\ b \in Nat /\ b \in Addresses /\ Following(a, b) \in Nat
                      /\ Following(a, b) \in B \cup {a.end} /\ b < a.end
  BY <1>1, HeapNumbers DEF Heap, Following
<1>3. PageWords \in Nat /\ PageWords > 0
  BY ArenaAssumption
<1>4. lo \in Nat /\ last <= lo /\ hi \in Nat /\ hi <= a.end
  <2>1. last + PageWords - 1 \in Nat /\ last + Size(a, last) \in Nat
    BY <1>2, <1>3
  <2>2. lo \in Nat /\ lo <= last + PageWords - 1 /\ last + PageWords - 1 < lo + PageWords
    BY <2>1, PageFloor
  <2>3. hi \in Nat /\ hi <= last + Size(a, last)
    BY <2>1, PageFloor
  <2> HIDE DEF lo, hi
  <2> QED
    BY <1>2, <1>3, <2>2, <2>3
<1>5. z = a \/ (Free(a, last) /\ z = WithMem(a, m) /\ GivenBack(a, last) = lo .. hi - 1)
  <2>1. z = Trim(a, last)
    BY DEF TrimArena, last
  <2>2. a = [mem |-> a.mem, start |-> a.start, end |-> a.end, bucket |-> a.bucket,
             cap |-> a.cap, used |-> a.used]
    BY DEF Arenas
  <2>3. z = WithMem(a, [x \in Addresses |-> IF x \in GivenBack(a, last) THEN 0 ELSE a.mem[x]])
    BY <2>1, <2>2 DEF Trim, WithMem
  <2>4. GivenBack(a, last) = {} \/ (Free(a, last) /\ GivenBack(a, last) = lo .. hi - 1)
    BY DEF GivenBack
  <2> HIDE DEF z, lo, hi
  <2>5. CASE GivenBack(a, last) = {}
    <3>1. [x \in Addresses |-> IF x \in GivenBack(a, last) THEN 0 ELSE a.mem[x]] = a.mem
      BY <2>5 DEF Arenas
    <3> QED
      BY <2>2, <2>3, <3>1 DEF WithMem
  <2>6. CASE Free(a, last) /\ GivenBack(a, last) = lo .. hi - 1
    BY <2>3, <2>6
  <2> QED
    BY <2>4, <2>5, <2>6
<1> HIDE DEF lo, hi
<1>6. m \in [Addresses -> Nat] /\ \A x \in Addresses : x \notin lo .. hi - 1 => m[x] = a.mem[x]
  BY DEF Arenas
<1> HIDE DEF m, z
<1>7. OnlyWords(a, z, X) /\ \A x \in X : x \in Nat /\ last <= x /\ x < a.end /\ Free(a, last)
  <2>1. CASE z = a
    BY <2>1 DEF OnlyWords, SameBounds
  <2>2. CASE Free(a, last) /\ z = WithMem(a, m)
    <3>1. \A x \in Addresses : x \notin lo .. hi - 1 => m[x] = a.mem[x]
      BY <1>6
    <3>2. OnlyWords(a, z, lo .. hi - 1) /\ z.mem = m
      BY <1>6, <2>2, <3>1, MemWritten
    <3>3. OnlyWords(a, z, X)
      BY <3>2 DEF OnlyWords
    <3>4. ASSUME NEW x \in X PROVE x \in Nat /\ last <= x /\ x < a.end
      <4>1. x \in lo .. hi - 1
        BY <1>6, <3>2
      <4> QED
        BY <1>2, <1>4, <4>1
    <3> QED
      BY <2>2, <3>3, <3>4
  <2> QED
    BY <1>5, <2>1, <2>2
<1>8. z \in Arenas /\ SameBounds(a, z)
  BY <1>7 DEF OnlyWords
<1>9. ASSUME \A b \in Blocks(a) : Free(a, b) => z.mem[b] = a.mem[b] /\ z.mem[b + 1] = a.mem[b + 1]
      PROVE  Moves(a, z, B, B, {}, {})
  <2>1. \A b \in FreeBlocks(a, B) : b \notin X /\ b + 1 \notin X
    BY <1>1, <1>9 DEF FreeBlocks
  <2>2. \A b \in B \cup {a.end} : b \notin X
    <3> SUFFICES ASSUME NEW b \in B \cup {a.end}, b \in X PROVE FALSE
      OBVIOUS
    <3>1. last <= b /\ b < a.end /\ Free(a, last)
      BY <1>7
    <3>2. b = last
      BY <1>1, <1>2, <3>1
    <3> QED
      BY <1>1, <2>1, <3>1, <3>2 DEF FreeBlocks
  <2>3. ASSUME NEW b \in FreeBlocks(a, B), Following(a, b) - 1 \in X PROVE FooterTrimmed(z, b)
    <3> DEFINE foot == Following(a, b) - 1
    <3>1. b \in B /\ Following(a, b) = a.end
      <4>1. b \in B /\ (Following(a, b) # a.end => Following(a, b) \in B /\ Following(a, b) <= last)
        BY <1>1, <1>2 DEF FreeBlocks
      <4>2. last <= foot
        BY <1>7, <2>3
      <4> QED
        BY <1>2, <4>1, <4>2
    <3>2. b = last
      <4>1. b < last => Following(a, b) <= last
        BY <1>1, <3>1 DEF Heap, Tiled
      <4> QED
        BY <1>1, <1>2, <3>1, <4>1
    <3>3. /\ foot \in Addresses /\ z.mem[foot] # a.mem[foot] /\ z.mem[last] = a.mem[last]
      BY <1>2, <2>1, <2>3, <3>2
    <3>4. z = WithMem(a, m) /\ GivenBack(a, last) = lo .. hi - 1
      BY <1>5, <3>3
    <3>5. z.mem = m
      BY <3>4 DEF WithMem
    <3>6. foot \in lo .. hi - 1
      BY <1>6, <3>3, <3>5
    <3>7. z.mem[foot] = 0
      BY <3>3, <3>5, <3>6 DEF m
    <3>8. /\ Size(z, last) = Size(a, last) /\ Following(z, last) = Following(a, last)
          /\ Free(z, last) <=> Free(a, last)
      BY <3>3, SameWord
    <3>9. GivenBack(z, last) = GivenBack(a, last)
      BY <3>8 DEF GivenBack
    <3>10. z.end = a.end
      BY <1>8 DEF SameBounds
    <3> QED
      BY <3>1, <3>2, <3>4, <3>6, <3>7, <3>8, <3>9, <3>10 DEF FooterTrimmed
  <2>4. /\ Sound(z, B) /\ UsedBlocks(z, B) = UsedBlocks(a, B)
        /\ \A b \in B : Size(z, b) = Size(a, b) /\ (Free(z, b) <=> Free(a, b))
    BY <1>7, <2>1, <2>2, <2>3, Reworded
  <2>5. ASSUME NEW b \in UsedBlocks(a, B), NEW i \in 1 .. Size(a, b) - 1
        PROVE  z.mem[b + i] = a.mem[b + i]
    <3>1. b \in B /\ ~Free(a, b)
      BY DEF UsedBlocks
    <3>2. b + i \in Addresses
      BY <1>1, <3>1, Inside DEF Heap
    <3>3. b + i \notin X
      <4> SUFFICES ASSUME b + i \in X PROVE FALSE
        OBVIOUS
      <4>1. Free(a, last) /\ last <= b + i
        BY <1>7
      <4>2. b # last /\ b <= last
        BY <1>1, <3>1, <4>1
      <4>3. b + Size(a, b) <= last /\ Size(a, b) \in Nat
        BY <1>1, <1>2, <3>1, <4>2, HeapNumbers DEF Heap
      <4> HIDE DEF X
      <4>4. i \in Int /\ i <= Size(a, b) - 1 /\ b \in Nat /\ last \in Nat
        <5>1. b \in Nat /\ last \in Nat
          BY <1>2, <3>1
        <5>2. Size(a, b) \in Nat
          BY <4>3
        <5> QED
          BY <5>1, <5>2
      <4> QED
        BY <4>1, <4>3, <4>4
    <3> QED
      BY <3>2, <3>3
  <2>6. Intact(a, z, UsedBlocks(a, B))
    BY <2>4, <2>5 DEF Intact, UsedBlocks
  <2> QED
    BY <1>8, <2>4, <2>6 DEF Moves
<1> QED
  BY <1>8, <1>9 DEF z

\* The arena part of mira_free: the block is given up, the other callers keep theirs, if
\* trimming loses no header and no link.
LEMMA BlockReleased ==
  ASSUME NEW a, NEW B, Good(a, B), NEW h \in Callers(a, B)
  PROVE  LET c == Coalesce(a, h)
             z == ArenaFree(a, h)
         IN  /\ z \in Arenas /\ SameBounds(a, z) /\ ~Free(a, h)
             /\ (\A b \in Blocks(c) : Free(c, b) => z.mem[b] = c.mem[b] /\ z.mem[b + 1] = c.mem[b + 1])
                  => \E B2 : Changes(a, z, B, B2, {h}, {})
<1> DEFINE c == Coalesce(a, h)
           z == ArenaFree(a, h)
<1>1. a \in Arenas /\ Sound(a, B) /\ InBounds(a) /\ h \in UsedBlocks(a, B) /\ ~Free(a, h) /\ h # a.start
  BY CallersAre
<1>2. PICK B1 : Moves(a, c, B, B1, {h}, {}) /\ SameBounds(a, c)
  BY <1>1, Coalesced
<1>3. z = TrimArena(c)
  BY <1>1 DEF ArenaFree
<1> HIDE DEF c, z
<1>4. c \in Arenas /\ Sound(c, B1) /\ InBounds(c)
  BY <1>1, <1>2 DEF Moves, InBounds, SameBounds
<1>5. /\ z \in Arenas /\ SameBounds(c, z)
      /\ (\A b \in Blocks(c) : Free(c, b) => z.mem[b] = c.mem[b] /\ z.mem[b + 1] = c.mem[b + 1])
           => Moves(c, z, B1, B1, {}, {})
  BY <1>3, <1>4, Trimmed
<1>6. SameBounds(a, z)
  BY <1>2, <1>5 DEF SameBounds
<1>7. ASSUME Moves(c, z, B1, B1, {}, {}) PROVE Changes(a, z, B, B1, {h}, {})
  <2>1. Intact(a, c, UsedBlocks(a, B) \ {h}) /\ UsedBlocks(c, B1) = UsedBlocks(a, B) \ {h}
    BY <1>2 DEF Moves
  <2>2. Intact(c, z, UsedBlocks(a, B) \ {h})
    BY <1>7, <2>1 DEF Moves
  <2>3. Intact(a, z, UsedBlocks(a, B) \ {h})
    BY <2>1, <2>2, IntactTwice
  <2>4. Moves(a, z, B, B1, {h}, {})
    BY <1>7, <2>1, <2>3 DEF Moves
  <2>5. InBounds(z) /\ z.start = a.start
    BY <1>1, <1>6 DEF InBounds, SameBounds
  <2> QED
    BY <2>4, <2>5, MovesChange
<1> QED
  BY <1>1, <1>5, <1>6, <1>7 DEF c, z

\* The arena part of mira_realloc: block h stays where it is with the words that its new
\* size leaves it, and the other callers keep theirs; or nothing changes.
LEMMA BlockKept ==
  ASSUME NEW a, NEW B, Good(a, B), NEW h \in Callers(a, B), NEW size \in Nat
  PROVE  LET r == ArenaResize(a, h, Needed(size)) IN
         /\ r.done \in BOOLEAN
         /\ ~r.done => r.arena = a
         /\ r.done =>
              \E B2 : /\ Good(r.arena, B2) /\ Callers(r.arena, B2) = Callers(a, B)
                      /\ Intact(a, r.arena, Callers(a, B) \ {h})
                      /\ size + 1 <= Size(r.arena, h)
                      /\ \A i \in 1 .. size : i < Size(a, h) => r.arena.mem[h + i] = a.mem[h + i]
<1> DEFINE needed == Needed(size)
           r == ArenaResize(a, h, needed)
<1>1. /\ a \in Arenas /\ Sound(a, B) /\ InBounds(a) /\ h \in UsedBlocks(a, B) /\ h # a.start
      /\ h \in Callers(a, B)
  BY CallersAre
<1>2. needed \in Nat /\ needed >= 3 /\ size + 1 <= needed
  BY NeededIs
<1> HIDE DEF needed
<1>3. /\ r.done \in BOOLEAN
      /\ r.done => \E B2 : Resizes(a, r.arena, B, B2, h, needed)
      /\ ~r.done => r.arena = a
  BY <1>1, <1>2, BlockResized
<1> HIDE DEF r
<1>4. ASSUME NEW B2, Resizes(a, r.arena, B, B2, h, needed)
      PROVE  /\ Good(r.arena, B2) /\ Callers(r.arena, B2) = Callers(a, B)
             /\ Intact(a, r.arena, Callers(a, B) \ {h})
             /\ size + 1 <= Size(r.arena, h)
             /\ \A i \in 1 .. size : i < Size(a, h) => r.arena.mem[h + i] = a.mem[h + i]
  <2>1. /\ r.arena \in Arenas /\ SameBounds(a, r.arena) /\ Sound(r.arena, B2)
        /\ UsedBlocks(r.arena, B2) = UsedBlocks(a, B) /\ Intact(a, r.arena, UsedBlocks(a, B) \ {h})
        /\ needed <= Size(r.arena, h)
        /\ \A i \in 1 .. needed - 1 : i < Size(a, h) => r.arena.mem[h + i] = a.mem[h + i]
    BY <1>4 DEF Resizes
  <2>2. Good(r.arena, B2)
    BY <1>1, <2>1 DEF Good, InBounds, SameBounds
  <2>3. Callers(r.arena, B2) = Callers(a, B)
    BY <2>1 DEF Callers, SameBounds
  <2>4. Intact(a, r.arena, Callers(a, B) \ {h})
    BY <2>1 DEF Callers, Intact
  <2>5. Size(r.arena, h) \in Nat
    BY <1>1, <2>2, <2>3, CallersAre, Reads
  <2>6. \A i \in 1 .. size : i \in 1 .. needed - 1
    BY <1>2
  <2> QED
    BY <1>2, <2>1, <2>2, <2>3, <2>4, <2>5, <2>6
<1> QED
  BY <1>3, <1>4 DEF r, needed

\* The caller of block h writes into it: the heap does not notice, nor do the others.
LEMMA BlockWritten ==
  ASSUME NEW a, NEW B, Good(a, B), NEW h \in Callers(a, B), NEW m \in [Addresses -> Nat],
         \A x \in Addresses : (x <= h \/ Following(a, h) <= x) => m[x] = a.mem[x]
  PROVE  LET z == WithMem(a, m) IN
         /\ Good(z, B) /\ Callers(z, B) = Callers(a, B) /\ z.mem = m
         /\ Size(z, h) = Size(a, h) /\ Intact(a, z, Callers(a, B) \ {h})
<1> DEFINE z == WithMem(a, m)
           X == {x \in Addresses : ~(x <= h \/ Following(a, h) <= x)}
<1>1. a \in Arenas /\ Sound(a, B) /\ InBounds(a) /\ h \in UsedBlocks(a, B) /\ h \in B /\ h \in Nat
  BY CallersAre
<1>2. OnlyWords(a, z, X) /\ z.mem = m
  <2>1. \A x \in Addresses : x \notin X => m[x] = a.mem[x]
    OBVIOUS
  <2> HIDE DEF X, z
  <2> QED
    BY <1>1, <2>1, MemWritten DEF z
<1>3. \A x \in X : x \in Int /\ h < x /\ x < Following(a, h)
  <2>1. Following(a, h) \in Nat /\ Addresses \subseteq Int
    BY <1>1, HeapNumbers, NoAddress DEF Sound, Heap
  <2> QED
    BY <1>1, <2>1
<1> HIDE DEF X, z
<1>4. /\ Sound(z, B) /\ UsedBlocks(z, B) = UsedBlocks(a, B)
      /\ \A b \in B : Size(z, b) = Size(a, b) /\ (Free(z, b) <=> Free(a, b))
      /\ Intact(a, z, UsedBlocks(a, B) \ {h})
  BY <1>1, <1>2, <1>3, OwnWords
<1>5. z \in Arenas /\ SameBounds(a, z)
  BY <1>2 DEF OnlyWords
<1>6. Good(z, B) /\ Callers(z, B) = Callers(a, B)
  BY <1>1, <1>4, <1>5 DEF Good, InBounds, Callers, SameBounds
<1>7. Intact(a, z, Callers(a, B) \ {h})
  BY <1>4 DEF Callers, Intact
<1> QED
  BY <1>1, <1>2, <1>4, <1>6, <1>7 DEF z

\* A block has its words inside the mapping.
LEMMA CallersWords ==
  ASSUME NEW a, NEW B, Good(a, B), NEW h \in Callers(a, B)
  PROVE  /\ Size(a, h) \in Nat /\ Size(a, h) >= 3 /\ Following(a, h) = h + Size(a, h)
         /\ \A i \in 1 .. Size(a, h) - 1 : h + i \in Addresses
<1>1. a \in Arenas /\ Sound(a, B) /\ h \in B
  BY CallersAre
<1> QED
  BY <1>1, HeapNumbers, Inside DEF Sound, Heap
================================================================================

------------------------------ MODULE Pager_proofs ------------------------------
(***************************************************************************)
(* For every size of the file, every content of the client's pages and any *)
(* number of crashes: the free list never holds a page a client holds,     *)
(* until a handle is dropped with the header out of date, and has all the  *)
(* others unless one of them could not be written; and pages that were     *)
(* handed out stay readable even then.                                     *)
(***************************************************************************)
EXTENDS Pager, Induction

--------------------------------------------------------------------------------
\* The inductive invariant.

\* Page counts never run ahead of the file, and the client's pages lie inside.
FileOK ==
  /\ hdr.count <= size
  /\ \A p \in owned : p < size
  /\ phase = "open" => /\ 2 <= count /\ count <= size
                       /\ \A p \in owned : p < count
  /\ size = 0 => owned = {}

\* A chain of pages nobody holds hangs from the handle, or, between two
\* handles, from the header.
ChainOK ==
  ~lost =>
    /\ 1 \notin owned
    /\ phase = "open" =>
         \E S \in SUBSET ((2 .. count - 1) \ owned) : ListIn(disk, free, S)
    /\ phase = "closed" /\ size # 0 =>
         /\ hdr.magic
         /\ \E S \in SUBSET ((2 .. size - 1) \ owned) : ListIn(disk, hdr.free, S)

IInv == TypeOK /\ FileOK /\ ChainOK

--------------------------------------------------------------------------------
\* Lemmas about the list.

\* Only the words of the pages in S matter.
LEMMA ListFrame ==
  ASSUME NEW d, NEW e, NEW f, NEW S, ListIn(d, f, S),
         \A p \in S : e[p].word = d[p].word
  PROVE  ListIn(e, f, S)
BY DEF ListIn

\* Taking the head off a list leaves a list.
LEMMA ListTail ==
  ASSUME NEW d, NEW f, NEW S, ListIn(d, f, S), f # 0, 0 \notin S
  PROVE  /\ f \in S
         /\ ListIn(d, d[f].word, S \ {f})
BY DEF ListIn

\* A page that is not in the list can be put in front of it.
LEMMA ListPush ==
  ASSUME NEW d, NEW e, NEW f, NEW S, NEW p, ListIn(d, f, S),
         p \notin S, p # 0, 0 \notin S,
         e[p].word = f,
         \A q \in S : e[q].word = d[q].word
  PROVE  ListIn(e, p, S \cup {p})
BY DEF ListIn

--------------------------------------------------------------------------------
\* What the calls do, variable by variable.

\* Nothing is allocated: the free list cannot be read or the disk is full.
AllocateFails ==
  /\ owned' = owned
  /\ size' \in size .. MaxPages
  /\ UNCHANGED <<hdr, disk, count, free>>

\* The head of the free list is taken.
AllocateReuses ==
  /\ free # 0 /\ free < count
  /\ owned' = owned \cup {free}
  /\ free' = disk[free].word
  /\ disk' = [disk EXCEPT ![1] = FreePage(disk[free].word)]
  /\ UNCHANGED <<hdr, size, count>>

\* The file grows by one page.
AllocateExtends ==
  /\ free = 0 /\ count < MaxPages
  /\ owned' = owned \cup {count}
  /\ size' = Larger(size, count + 1)
  /\ count' = count + 1
  /\ hdr' = [hdr EXCEPT !.count = count + 1]
  /\ disk' = [disk EXCEPT ![count] = FreePage(0)]
  /\ UNCHANGED free

\* pager_allocate, from a well-formed file, fails, takes the head of the free list
\* or makes the file longer by one page.
LEMMA AllocateEffect ==
  ASSUME TypeOK, FileOK, NEW room, Allocate(room)
  PROVE  /\ UNCHANGED <<phase, lost, crashes>>
         /\ short' \in BOOLEAN
         /\ phase = "open"
         /\ AllocateFails \/ AllocateReuses \/ AllocateExtends
<1> USE PageStoreAssumption
<1>0. /\ UNCHANGED <<phase, lost, crashes>>
      /\ phase = "open"
      /\ count \in 2 .. MaxPages /\ size \in count .. MaxPages
  BY DEF Allocate, FileOK, TypeOK
<1>6. short' \in BOOLEAN
  BY Zenon DEF Allocate
<1> SUFFICES AllocateFails \/ AllocateReuses \/ AllocateExtends
  BY <1>0, <1>6
<1>1. CASE free # 0 /\ ~(free < count)
  BY <1>0, <1>1 DEF Allocate, PagerAllocate, PagerReadable, Become, store, AllocateFails
<1>2. CASE free # 0 /\ free < count
  BY <1>0, <1>2 DEF Allocate, PagerAllocate, PagerReadable, Become, store, AllocateReuses
<1>3. CASE free = 0 /\ (room = "no_extent" \/ count >= MaxPages)
  BY <1>0, <1>3 DEF Allocate, PagerAllocate, PagerReadable, Become, store, AllocateFails
<1>4. CASE free = 0 /\ ~(room = "no_extent" \/ count >= MaxPages) /\ room = "no_block"
  BY <1>0, <1>4
  DEF Allocate, PagerAllocate, PagerReadable, Become, store, AllocateFails, Larger
<1>5. CASE free = 0 /\ ~(room = "no_extent" \/ count >= MaxPages) /\ room # "no_block"
  <2> DEFINE t == [store EXCEPT !.size = Larger(size, count + 1), !.count = count + 1,
                                !.disk[count] = FreePage(0), !.hdr.count = count + 1]
  <2>1. PagerAllocate(store, room) = [store |-> t, page |-> count]
    BY <1>0, <1>5 DEF PagerAllocate, PagerReadable, store
  <2>2. Become(t) /\ owned' = owned \cup {count}
    BY <1>0, <2>1 DEF Allocate
  <2>3. /\ t.hdr = [hdr EXCEPT !.count = count + 1]
        /\ t.size = Larger(size, count + 1)
        /\ t.count = count + 1
        /\ t.free = free
        /\ t.disk = [disk EXCEPT ![count] = FreePage(0)]
    BY DEF store
  <2> HIDE DEF t
  <2> QED
    BY <1>0, <1>5, <2>2, <2>3 DEF AllocateExtends, Become
<1> QED
  BY <1>1, <1>2, <1>3, <1>4, <1>5

\* A client's write changes one page it holds and nothing else.
LEMMA WriteEffect ==
  ASSUME NEW p, NEW w, Write(p, w)
  PROVE  /\ phase = "open" /\ p \in owned
         /\ disk' = [disk EXCEPT ![p] = ClientPage(w)]
         /\ UNCHANGED <<hdr, size, count, free, phase, owned, lost, short, crashes>>
BY DEF Write, PagerWritePage, Become, store

\* pager_free links the page in front of the list, in memory and on page 1.
LEMMA FreeEffect ==
  ASSUME NEW p, Free(p), p # 0
  PROVE  /\ phase = "open" /\ p \in owned
         /\ disk' = [disk EXCEPT ![p] = FreePage(free), ![1] = FreePage(p)]
         /\ free' = p
         /\ owned' = owned \ {p}
         /\ UNCHANGED <<hdr, size, count, phase, lost, short, crashes>>
BY DEF Free, PagerFree, Become, store

\* pager_write_header copies the handle's fields to page 0 and nothing else.
LEMMA WriteHeaderEffect ==
  ASSUME NEW p, WriteHeader(p)
  PROVE  /\ phase = "open" /\ p \in owned
         /\ hdr' = [magic |-> TRUE, order |-> 2, count |-> count,
                    root |-> p, free |-> free]
         /\ UNCHANGED <<size, disk, count, free, phase, owned, lost, short, crashes>>
BY DEF WriteHeader, PagerWriteHeader, Become, store

\* Without its handle the pager loses the free list head and the page count; the
\* file stays.
LEMMA DropHandleEffect ==
  ASSUME DropHandle
  PROVE  /\ phase' = "closed" /\ count' = 0 /\ free' = 0
         /\ lost' = (lost \/ ~hdr.magic \/ hdr.free # free)
         /\ UNCHANGED <<hdr, size, disk, owned, short>>
BY DEF DropHandle, HandleLost, Become, store

\* A new file gets its two pages; an old one has a header with the magic number.
OpensNew ==
  /\ size = 0
  /\ size' = 2 /\ hdr' = ZeroHeader /\ count' = 2 /\ free' = 0
  /\ disk' = [disk EXCEPT ![1] = FreePage(0)]

OpensOld ==
  /\ size # 0 /\ hdr.magic
  /\ count' = Larger(hdr.count, size)
  /\ free' = hdr.free
  /\ UNCHANGED <<hdr, size, disk>>

\* pager_open makes a new file of two pages or reads the header of an old one.
LEMMA OpenEffect ==
  ASSUME TypeOK, Open
  PROVE  /\ phase = "closed" /\ phase' = "open"
         /\ UNCHANGED <<owned, lost, short, crashes>>
         /\ OpensNew \/ OpensOld
<1>0. /\ phase = "closed" /\ phase' = "open"
      /\ UNCHANGED <<owned, lost, short, crashes>>
      /\ PagerCanOpen(store) /\ Become(PagerOpen(store))
  BY DEF Open
<1>1. CASE size = 0
  BY <1>0, <1>1 DEF PagerOpen, Become, store, OpensNew
<1>2. CASE size # 0
  <2>1. size >= 2
    BY <1>2, PageStoreAssumption DEF TypeOK
  <2>2. hdr.magic
    <3>1. ~(store.size < 2) /\ store.hdr = hdr
      BY <2>1 DEF store, TypeOK
    <3> QED
      BY <1>0, <3>1, Zenon DEF PagerCanOpen
  <2>3. PagerOpen(store) = [store EXCEPT !.count = Larger(hdr.count, size), !.free = hdr.free]
    BY <2>1 DEF PagerOpen, PagerReadHeader, store
  <2> QED
    BY <1>0, <1>2, <2>2, <2>3 DEF Become, store, OpensOld
<1> QED
  BY <1>0, <1>1, <1>2

--------------------------------------------------------------------------------
\* Each part of the invariant is preserved by every step.

HeaderType == [magic : BOOLEAN, order : Nat, count : 0 .. MaxPages,
               root : Nat, free : Nat]

\* Opening keeps the shape of the state: a header that was read is well-formed.
LEMMA TypeOpen ==
  ASSUME IInv, Open
  PROVE  TypeOK'
<1> USE PageStoreAssumption
<1>1. /\ phase' = "open"
      /\ UNCHANGED <<owned, lost, short, crashes>>
      /\ OpensNew \/ OpensOld
  BY OpenEffect DEF IInv
<1>2. hdr \in HeaderType /\ size \in {0} \cup 2 .. MaxPages /\ hdr.count <= size
  BY DEF IInv, TypeOK, FileOK, HeaderType
<1>3. hdr' \in HeaderType
  <2>1. ZeroHeader \in HeaderType
    BY DEF ZeroHeader, HeaderType
  <2> QED
    BY <1>1, <1>2, <2>1 DEF OpensNew, OpensOld
<1>4. size' \in {0} \cup 2 .. MaxPages /\ count' \in 0 .. MaxPages
  BY <1>1, <1>2 DEF OpensNew, OpensOld, Larger, HeaderType
<1>5. free' \in Nat
  BY <1>1, <1>2 DEF OpensNew, OpensOld, HeaderType
<1>6. disk' \in [PageNums -> Content]
  <2>1. disk \in [PageNums -> Content]
    BY DEF IInv, TypeOK
  <2>2. FreePage(0) \in Content /\ 1 \in PageNums
    BY DEF FreePage, Content, PageNums
  <2> QED
    BY <1>1, <2>1, <2>2 DEF OpensNew, OpensOld
<1> QED
  BY <1>1, <1>3, <1>4, <1>5, <1>6 DEF IInv, TypeOK, HeaderType

\* Allocating keeps the shape of the state, within the bound on the file.
LEMMA TypeAllocate ==
  ASSUME IInv, NEW room, Allocate(room)
  PROVE  TypeOK'
<1> USE PageStoreAssumption
<1>1. /\ UNCHANGED <<phase, lost, crashes>>
      /\ short' \in BOOLEAN
      /\ phase = "open"
      /\ AllocateFails \/ AllocateReuses \/ AllocateExtends
  BY AllocateEffect DEF IInv
<1>2. CASE AllocateFails
  <2>1. size \in 2 .. MaxPages
    BY <1>1 DEF IInv, TypeOK, FileOK
  <2> QED
    BY <1>1, <1>2, <2>1 DEF IInv, TypeOK, AllocateFails
<1>3. CASE AllocateReuses
  <2>1. free \in PageNums /\ disk[free].word \in Nat
    BY <1>3 DEF IInv, TypeOK, AllocateReuses, PageNums, Content
  <2>2. disk' \in [PageNums -> Content]
    BY <1>3, <2>1 DEF IInv, TypeOK, AllocateReuses, FreePage, PageNums, Content
  <2> QED
    BY <1>1, <1>3, <2>1, <2>2 DEF IInv, TypeOK, AllocateReuses
<1>4. CASE AllocateExtends
  <2>1. count \in 2 .. MaxPages - 1 /\ size \in count .. MaxPages
    BY <1>1, <1>4 DEF IInv, TypeOK, FileOK, AllocateExtends
  <2>2. hdr' \in HeaderType
    BY <1>4, <2>1 DEF IInv, TypeOK, AllocateExtends, HeaderType
  <2>3. disk' \in [PageNums -> Content]
    BY <1>4, <2>1 DEF IInv, TypeOK, AllocateExtends, FreePage, PageNums, Content
  <2>4. size' \in 2 .. MaxPages /\ count' \in 0 .. MaxPages /\ owned' \subseteq PageNums
    BY <1>4, <2>1 DEF IInv, TypeOK, AllocateExtends, Larger, PageNums
  <2> QED
    BY <1>1, <1>4, <2>2, <2>3, <2>4 DEF IInv, TypeOK, AllocateExtends, HeaderType
<1> QED
  BY <1>1, <1>2, <1>3, <1>4

\* Losing the handle, by closing or in a crash, keeps the shape of the state.
LEMMA TypeDropHandle ==
  ASSUME IInv, DropHandle, crashes' \in 0 .. MaxCrashes
  PROVE  TypeOK'
<1>1. /\ phase' = "closed" /\ count' = 0 /\ free' = 0
      /\ lost' = (lost \/ ~hdr.magic \/ hdr.free # free)
      /\ UNCHANGED <<hdr, size, disk, owned, short>>
  BY DropHandleEffect
<1>2. lost' \in BOOLEAN
  BY <1>1
<1> QED
  BY <1>1, <1>2, PageStoreAssumption DEF IInv, TypeOK

\* Every call, and a crash, keeps the shape of the state.
LEMMA TypeStep ==
  ASSUME IInv, [Next]_vars
  PROVE  TypeOK'
<1>1. CASE Open
  BY <1>1, TypeOpen
<1>2. ASSUME NEW room \in Rooms, Allocate(room) PROVE TypeOK'
  BY <1>2, TypeAllocate
<1>3. ASSUME NEW p \in owned, NEW w \in Words, Write(p, w) PROVE TypeOK'
  <2>1. /\ disk' = [disk EXCEPT ![p] = ClientPage(w)]
        /\ UNCHANGED <<hdr, size, count, free, phase, owned, lost, short, crashes>>
    BY <1>3, WriteEffect
  <2> QED
    BY <2>1, PagerAssumption DEF IInv, TypeOK, ClientPage, Content
<1>4. ASSUME NEW p \in owned, Free(p) PROVE TypeOK'
  <2>1. p \in PageNums /\ p # 0 /\ p \in Nat
    BY PageStoreAssumption DEF IInv, TypeOK, PageNums
  <2>2. /\ disk' = [disk EXCEPT ![p] = FreePage(free), ![1] = FreePage(p)]
        /\ free' = p
        /\ owned' = owned \ {p}
        /\ UNCHANGED <<hdr, size, count, phase, lost, short, crashes>>
    BY <1>4, <2>1, FreeEffect
  <2>3. disk' \in [PageNums -> Content]
    BY <2>1, <2>2 DEF IInv, TypeOK, FreePage, Content
  <2> QED
    BY <2>1, <2>2, <2>3 DEF IInv, TypeOK
<1>5. ASSUME NEW p \in owned, WriteHeader(p) PROVE TypeOK'
  <2>1. /\ hdr' = [magic |-> TRUE, order |-> 2, count |-> count,
                   root |-> p, free |-> free]
        /\ UNCHANGED <<size, disk, count, free, phase, owned, lost, short, crashes>>
    BY <1>5, WriteHeaderEffect
  <2>2. p \in Nat
    BY PageStoreAssumption DEF IInv, TypeOK, PageNums
  <2> QED
    BY <2>1, <2>2 DEF IInv, TypeOK
<1>6. CASE Close
  BY <1>6, TypeDropHandle DEF IInv, TypeOK, Close
<1>7. CASE Crash
  <2>1. crashes' \in 0 .. MaxCrashes
    BY <1>7, PagerAssumption DEF IInv, TypeOK, Crash
  <2> QED
    BY <1>7, <2>1, TypeDropHandle DEF Crash
<1>8. CASE UNCHANGED vars
  BY <1>8 DEF IInv, TypeOK, vars
<1> QED
  BY <1>1, <1>2, <1>3, <1>4, <1>5, <1>6, <1>7, <1>8 DEF Next

\* Every step keeps handle and file consistent: the page count is the file's, and
\* what the client holds lies within it.
LEMMA FileStep ==
  ASSUME IInv, [Next]_vars
  PROVE  FileOK'
<1> USE PageStoreAssumption
<1>0. TypeOK /\ FileOK
  BY DEF IInv
<1>1. CASE Open
  <2>1. /\ phase' = "open"
        /\ UNCHANGED owned
        /\ OpensNew \/ OpensOld
    BY <1>0, <1>1, OpenEffect
  <2> QED
    BY <1>0, <2>1 DEF TypeOK, FileOK, OpensNew, OpensOld, ZeroHeader, Larger, PageNums
<1>2. ASSUME NEW room \in Rooms, Allocate(room) PROVE FileOK'
  <2>0. /\ UNCHANGED phase
        /\ phase = "open"
        /\ AllocateFails \/ AllocateReuses \/ AllocateExtends
    BY <1>0, <1>2, AllocateEffect
  <2>1. CASE AllocateFails
    BY <1>0, <2>0, <2>1 DEF TypeOK, FileOK, AllocateFails, PageNums
  <2>2. CASE AllocateReuses
    BY <1>0, <2>0, <2>2 DEF TypeOK, FileOK, AllocateReuses, PageNums
  <2>3. CASE AllocateExtends
    BY <1>0, <2>0, <2>3 DEF TypeOK, FileOK, AllocateExtends, PageNums, Larger
  <2> QED
    BY <2>0, <2>1, <2>2, <2>3
<1>3. ASSUME NEW p \in owned, NEW w \in Words, Write(p, w) PROVE FileOK'
  <2>1. UNCHANGED <<hdr, size, count, phase, owned>>
    BY <1>3, WriteEffect
  <2> QED
    BY <1>0, <2>1 DEF FileOK
<1>4. ASSUME NEW p \in owned, Free(p) PROVE FileOK'
  <2>1. p # 0
    BY <1>0 DEF TypeOK, PageNums
  <2>2. owned' = owned \ {p} /\ UNCHANGED <<hdr, size, count, phase>>
    BY <1>4, <2>1, FreeEffect
  <2> QED
    BY <1>0, <2>2 DEF FileOK
<1>5. ASSUME NEW p \in owned, WriteHeader(p) PROVE FileOK'
  <2>1. phase = "open" /\ hdr'.count = count /\ UNCHANGED <<size, count, phase, owned>>
    BY <1>5, WriteHeaderEffect
  <2> QED
    BY <1>0, <2>1 DEF FileOK
<1>6. CASE DropHandle
  <2>1. phase' = "closed" /\ UNCHANGED <<hdr, size, owned>>
    BY <1>6, DropHandleEffect
  <2> QED
    BY <1>0, <2>1 DEF FileOK
<1>7. CASE UNCHANGED vars
  BY <1>0, <1>7 DEF FileOK, vars
<1> QED
  BY <1>1, <1>2, <1>3, <1>4, <1>5, <1>6, <1>7 DEF Next, Close, Crash

\* Reading the header of a file whose header is up to date finds the list.
LEMMA ChainOpen ==
  ASSUME IInv, Open
  PROVE  ChainOK'
<1>0. TypeOK /\ FileOK /\ ChainOK
  BY DEF IInv
<1>1. /\ phase = "closed" /\ phase' = "open"
      /\ UNCHANGED <<owned, lost>>
      /\ OpensNew \/ OpensOld
  BY <1>0, OpenEffect
<1>2. CASE OpensNew
  <2>1. owned = {} /\ free' = 0
    BY <1>0, <1>2 DEF FileOK, OpensNew
  <2>2. ListIn(disk', free', {})
    BY <2>1 DEF ListIn
  <2> QED
    BY <1>1, <2>1, <2>2 DEF ChainOK
<1>3. CASE OpensOld
  <2>1. count' = size
    BY <1>0, <1>3, PageStoreAssumption DEF OpensOld, Larger, TypeOK, FileOK
  <2> QED
    BY <1>0, <1>1, <1>3, <2>1 DEF ChainOK, OpensOld
<1> QED
  BY <1>1, <1>2, <1>3

\* Taking the head, or a new page, leaves a list of pages no client holds.
LEMMA ChainAllocate ==
  ASSUME IInv, NEW room, Allocate(room)
  PROVE  ChainOK'
<1>0. TypeOK /\ FileOK /\ ChainOK
  BY DEF IInv
<1>1. /\ UNCHANGED <<phase, lost>>
      /\ phase = "open"
      /\ AllocateFails \/ AllocateReuses \/ AllocateExtends
  BY <1>0, AllocateEffect
<1>2. SUFFICES ASSUME ~lost
               PROVE  /\ 1 \notin owned'
                      /\ \E S \in SUBSET ((2 .. count' - 1) \ owned') : ListIn(disk', free', S)
  BY <1>1 DEF ChainOK
<1>3. PICK S \in SUBSET ((2 .. count - 1) \ owned) : ListIn(disk, free, S)
  BY <1>0, <1>1, <1>2 DEF ChainOK
<1>4. 1 \notin owned
  BY <1>0, <1>2 DEF ChainOK
<1>5. count \in Nat /\ 0 \notin S /\ 1 \notin S
  BY <1>0, <1>3 DEF TypeOK
<1>6. CASE AllocateFails
  BY <1>3, <1>4, <1>6 DEF AllocateFails
<1>7. CASE AllocateReuses
  <2>1. free \in S /\ ListIn(disk, disk[free].word, S \ {free})
    BY <1>3, <1>5, <1>7, ListTail DEF AllocateReuses
  <2>2. \A p \in S \ {free} : disk'[p].word = disk[p].word
    BY <1>0, <1>3, <1>5, <1>7 DEF AllocateReuses, TypeOK
  <2>3. ListIn(disk', free', S \ {free})
    BY <1>7, <2>1, <2>2, ListFrame DEF AllocateReuses
  <2> QED
    BY <1>3, <1>4, <1>5, <1>7, <2>1, <2>3 DEF AllocateReuses
<1>8. CASE AllocateExtends
  <2>1. \A p \in S : disk'[p].word = disk[p].word
    BY <1>0, <1>3, <1>8 DEF AllocateExtends, TypeOK
  <2>2. ListIn(disk', free', S)
    BY <1>3, <1>8, <2>1, ListFrame DEF AllocateExtends
  <2>3. count # 1 /\ count' = count + 1 /\ owned' = owned \cup {count}
    BY <1>0, <1>1, <1>8 DEF AllocateExtends, FileOK
  <2>4. S \in SUBSET ((2 .. count' - 1) \ owned')
    BY <1>3, <1>5, <2>3
  <2> QED
    BY <1>4, <2>2, <2>3, <2>4
<1> QED
  BY <1>1, <1>6, <1>7, <1>8

\* Freeing a page the client holds leaves a list of pages no client holds.
LEMMA ChainFree ==
  ASSUME IInv, NEW p \in owned, Free(p)
  PROVE  ChainOK'
<1>0. TypeOK /\ FileOK /\ ChainOK
  BY DEF IInv
<1>1. p \in PageNums /\ p # 0 /\ p < count
  BY <1>0, PageStoreAssumption DEF TypeOK, FileOK, PageNums, Free
<1>2. /\ phase = "open"
      /\ disk' = [disk EXCEPT ![p] = FreePage(free), ![1] = FreePage(p)]
      /\ free' = p
      /\ owned' = owned \ {p}
      /\ UNCHANGED <<count, phase, lost>>
  BY <1>1, FreeEffect
<1>3. SUFFICES ASSUME ~lost
               PROVE  /\ 1 \notin owned'
                      /\ \E S \in SUBSET ((2 .. count' - 1) \ owned') : ListIn(disk', free', S)
  BY <1>2 DEF ChainOK
<1>4. PICK S \in SUBSET ((2 .. count - 1) \ owned) : ListIn(disk, free, S)
  BY <1>0, <1>2, <1>3 DEF ChainOK
<1>5. 1 \notin owned /\ p # 1
  BY <1>0, <1>3 DEF ChainOK
<1>6. count \in Nat /\ 0 \notin S /\ 1 \notin S /\ p \notin S
  <2>1. count \in Nat
    BY <1>0 DEF TypeOK
  <2>2. \A q \in S : q \in 2 .. count - 1 /\ q \notin owned
    BY <1>4
  <2>3. p \notin S
    BY <2>2
  <2>4. 0 \notin S /\ 1 \notin S
    BY <2>1, <2>2
  <2> QED
    BY <2>1, <2>3, <2>4
<1>7. disk'[p].word = free /\ \A q \in S : disk'[q].word = disk[q].word
  <2>1. disk'[p] = FreePage(free)
    BY <1>0, <1>1, <1>2, <1>5 DEF TypeOK
  <2>2. \A q \in S : disk'[q] = disk[q]
    <3>1. \A q \in PageNums : q # p /\ q # 1 => disk'[q] = disk[q]
      BY <1>0, <1>2 DEF TypeOK
    <3>2. \A q \in S : q \in PageNums
      BY <1>0, <1>4, PageStoreAssumption DEF TypeOK, PageNums
    <3> QED
      BY <1>6, <3>1, <3>2
  <2> QED
    BY <2>1, <2>2 DEF FreePage
<1>8. ListIn(disk', p, S \cup {p})
  BY <1>1, <1>4, <1>6, <1>7, ListPush
<1>9. S \cup {p} \in SUBSET ((2 .. count' - 1) \ owned')
  BY <1>1, <1>2, <1>4, <1>5, <1>6 DEF PageNums
<1> QED
  BY <1>2, <1>5, <1>8, <1>9

\* The list survives the handle when the header had its head.
LEMMA ChainDropHandle ==
  ASSUME IInv, DropHandle, phase = "open"
  PROVE  ChainOK'
<1>0. TypeOK /\ FileOK /\ ChainOK
  BY DEF IInv
<1>1. /\ phase' = "closed"
      /\ lost' = (lost \/ ~hdr.magic \/ hdr.free # free)
      /\ UNCHANGED <<hdr, size, disk, owned, short>>
  BY DropHandleEffect
<1>2. SUFFICES ASSUME ~lost'
               PROVE  /\ 1 \notin owned
                      /\ hdr.magic
                      /\ \E S \in SUBSET ((2 .. size - 1) \ owned) : ListIn(disk, hdr.free, S)
  BY <1>1 DEF ChainOK
<1>3. ~lost /\ hdr.magic /\ hdr.free = free
  BY <1>1, <1>2
<1>4. PICK S \in SUBSET ((2 .. count - 1) \ owned) : ListIn(disk, free, S)
  BY <1>0, <1>3 DEF ChainOK
<1>5. S \in SUBSET ((2 .. size - 1) \ owned)
  BY <1>0, <1>4 DEF TypeOK, FileOK
<1> QED
  BY <1>0, <1>3, <1>4, <1>5 DEF ChainOK

\* Every step leaves a list of pages no client holds.
LEMMA ChainStep ==
  ASSUME IInv, [Next]_vars
  PROVE  ChainOK'
<1>0. TypeOK /\ ChainOK
  BY DEF IInv
<1>1. CASE Open
  BY <1>1, ChainOpen
<1>2. ASSUME NEW room \in Rooms, Allocate(room) PROVE ChainOK'
  BY <1>2, ChainAllocate
<1>3. ASSUME NEW p \in owned, NEW w \in Words, Write(p, w) PROVE ChainOK'
  <2>1. /\ phase = "open"
        /\ disk' = [disk EXCEPT ![p] = ClientPage(w)]
        /\ UNCHANGED <<hdr, size, count, free, phase, owned, lost>>
    BY <1>3, WriteEffect
  <2>2. ASSUME NEW S \in SUBSET ((2 .. count - 1) \ owned), ListIn(disk, free, S)
        PROVE  ListIn(disk', free, S)
    <3>1. \A q \in S : disk'[q].word = disk[q].word
      BY <1>0, <2>1 DEF TypeOK
    <3> QED
      BY <2>2, <3>1, ListFrame
  <2> QED
    BY <1>0, <2>1, <2>2 DEF ChainOK
<1>4. ASSUME NEW p \in owned, Free(p) PROVE ChainOK'
  BY <1>4, ChainFree
<1>5. ASSUME NEW p \in owned, WriteHeader(p) PROVE ChainOK'
  <2>1. phase = "open" /\ UNCHANGED <<size, disk, count, free, phase, owned, lost>>
    BY <1>5, WriteHeaderEffect
  <2> QED
    BY <1>0, <2>1 DEF ChainOK
<1>6. CASE Close \/ Crash
  BY <1>6, ChainDropHandle DEF Close, Crash
<1>7. CASE UNCHANGED vars
  BY <1>0, <1>7 DEF ChainOK, vars
<1> QED
  BY <1>1, <1>2, <1>3, <1>4, <1>5, <1>6, <1>7 DEF Next

--------------------------------------------------------------------------------
\* The theorems.

\* The invariant holds in every state the pager reaches, whatever the client
\* does and however often the process dies.
THEOREM Invariance == Spec => []IInv
<1>1. Init => IInv
  <2>1. Init => TypeOK
    <3>1. SUFFICES ASSUME Init PROVE TypeOK
      OBVIOUS
    <3>2. ZeroHeader \in HeaderType
      BY PageStoreAssumption DEF ZeroHeader, HeaderType
    <3>3. disk \in [PageNums -> Content]
      BY <3>1 DEF Init, NoFile, FreePage, Content
    <3>4. /\ size \in {0} \cup 2 .. MaxPages /\ count \in 0 .. MaxPages
          /\ free \in Nat /\ crashes \in 0 .. MaxCrashes
      BY <3>1, PageStoreAssumption, PagerAssumption DEF Init, NoFile
    <3>5. hdr = ZeroHeader /\ owned = {} /\ phase = "closed" /\ lost = FALSE /\ short = FALSE
      BY <3>1 DEF Init, NoFile
    <3> QED
      BY <3>2, <3>3, <3>4, <3>5 DEF TypeOK, HeaderType
  <2> QED
    BY <2>1 DEF Init, IInv, FileOK, ChainOK, NoFile, ZeroHeader
<1>2. IInv /\ [Next]_vars => IInv'
  BY TypeStep, FileStep, ChainStep DEF IInv
<1> QED
  BY <1>1, <1>2, PTL DEF Spec

\* Type correctness (the state of Pager and of the file).
THEOREM TypeCorrect == Spec => []TypeOK
<1>1. IInv => TypeOK
  BY DEF IInv
<1> QED
  BY <1>1, Invariance, PTL

\* The free list is a chain of pages no client holds, as long as no handle was
\* dropped with the header out of date.
THEOREM FreeListSafe == Spec => []FreeListOK
<1>1. IInv => FreeListOK
  BY DEF IInv, ChainOK, FreeListOK
<1> QED
  BY <1>1, Invariance, PTL

\* pager_allocate never hands out a page that is still in use.
THEOREM AllocationSafe == Spec => []NoDoubleAllocation
<1>1. IInv => NoDoubleAllocation
  <2>1. SUFFICES ASSUME IInv, phase = "open", ~lost
                 PROVE  (IF free # 0 THEN free ELSE count) \notin owned \cup {0, 1}
    BY DEF NoDoubleAllocation
  <2>2. PICK S \in SUBSET ((2 .. count - 1) \ owned) : ListIn(disk, free, S)
    BY <2>1 DEF IInv, ChainOK
  <2>3. CASE free # 0
    BY <2>2, <2>3 DEF ListIn
  <2>4. CASE free = 0
    BY <2>1, <2>4, PageStoreAssumption DEF IInv, TypeOK, FileOK, PageNums
  <2> QED
    BY <2>3, <2>4
<1> QED
  BY <1>1, Invariance, PTL

\* What was handed out can be read through every later handle, stale header or
\* not.
THEOREM ReadableAfterCrash == Spec => []OwnedReadable
<1>1. IInv => OwnedReadable
  BY DEF IInv, FileOK, OwnedReadable, PagerReadable, store
<1> QED
  BY <1>1, Invariance, PTL

\* Only the client's own writes change a page the client holds.
THEOREM ClientPagesIntact == Spec => PagesIntact
<1> DEFINE Intact == ~lost => \A p \in owned \cap owned' :
             disk'[p] # disk[p] => disk'[p].kind = "data" /\ UNCHANGED <<hdr, count, free>>
<1>1. ASSUME IInv, [Next]_vars PROVE Intact
  <2>1. SUFFICES ASSUME ~lost, NEW p \in owned, p \in owned', disk'[p] # disk[p]
                 PROVE  disk'[p].kind = "data" /\ UNCHANGED <<hdr, count, free>>
    OBVIOUS
  <2>2. /\ TypeOK /\ FileOK
        /\ p \in PageNums /\ p # 1 /\ p # 0
    BY <1>1, <2>1, PageStoreAssumption DEF IInv, TypeOK, ChainOK, PageNums
  <2>3. CASE Open
    <3>1. OpensNew \/ OpensOld
      BY <2>2, <2>3, OpenEffect
    <3> QED
      BY <2>1, <2>2, <3>1 DEF TypeOK, FileOK, OpensNew, OpensOld
  <2>4. ASSUME NEW room \in Rooms, Allocate(room) PROVE FALSE
    <3>1. phase = "open" /\ (AllocateFails \/ AllocateReuses \/ AllocateExtends)
      BY <2>2, <2>4, AllocateEffect
    <3>2. p < count
      BY <2>2, <3>1 DEF FileOK
    <3>3. p # count
      BY <2>2, <3>2 DEF TypeOK, PageNums
    <3> QED
      BY <2>1, <2>2, <3>1, <3>3 DEF TypeOK, AllocateFails, AllocateReuses, AllocateExtends
  <2>5. ASSUME NEW q \in owned, NEW w \in Words, Write(q, w)
        PROVE  disk'[p].kind = "data" /\ UNCHANGED <<hdr, count, free>>
    <3>1. /\ disk' = [disk EXCEPT ![q] = ClientPage(w)]
          /\ UNCHANGED <<hdr, count, free>>
      BY <2>5, WriteEffect
    <3>2. p = q /\ disk'[p] = ClientPage(w)
      BY <2>1, <2>2, <3>1 DEF TypeOK
    <3> QED
      BY <3>1, <3>2 DEF ClientPage
  <2>6. ASSUME NEW q \in owned, Free(q) PROVE FALSE
    <3>1. q # 0
      BY <2>2, PageStoreAssumption DEF TypeOK, PageNums
    <3>2. /\ disk' = [disk EXCEPT ![q] = FreePage(free), ![1] = FreePage(q)]
          /\ owned' = owned \ {q}
      BY <2>6, <3>1, FreeEffect
    <3> QED
      BY <2>1, <2>2, <3>2 DEF TypeOK
  <2>7. ASSUME NEW q \in owned, WriteHeader(q) PROVE FALSE
    BY <2>1, <2>7, WriteHeaderEffect
  <2>8. CASE Close \/ Crash
    BY <2>1, <2>8, DropHandleEffect DEF Close, Crash
  <2>9. CASE UNCHANGED vars
    BY <2>1, <2>9 DEF vars
  <2> QED
    BY <1>1, <2>3, <2>4, <2>5, <2>6, <2>7, <2>8, <2>9 DEF Next
<1> QED
  BY <1>1, Invariance, PTL DEF Spec, PagesIntact

--------------------------------------------------------------------------------
(* The list has all pages that no client holds.                            *)

\* As long as every page that the file got could be written, its length is the page count.
SizeOK == phase = "open" /\ ~short => size = count

\* And then the list has all pages that no client holds.
WalkOK ==
  ~lost /\ ~short =>
    /\ phase = "open" => Walked(disk, free, (2 .. count - 1) \ owned)
    /\ phase = "closed" /\ size # 0 => Walked(disk, hdr.free, (2 .. size - 1) \ owned)

WInv == IInv /\ SizeOK /\ WalkOK

\* So the pages met when the list is followed are those of the list.
LEMMA WalkedPages ==
  ASSUME NEW S \in SUBSET DataPages, Walked(disk, free, S)
  PROVE  FreePages(store, free) = S
<1> DEFINE walk == CHOOSE w : Walks(disk, free, MaxPages, DataPages, w)
<1>1. FreePages(store, free) = {walk[n] : n \in 0 .. MaxPages} \ {0}
  BY DEF FreePages, store, Walks
<1>2. MaxPages \in Nat /\ DataPages \subseteq 1 .. MaxPages
  BY PageStoreAssumption DEF DataPages
<1>3. \E w : Walks(disk, free, MaxPages, DataPages, w)
  BY <1>2, WalkedMeets
<1>4. Walks(disk, free, MaxPages, DataPages, walk)
  BY <1>3
<1> HIDE DEF walk
<1>5. DataPages \in SUBSET (1 .. MaxPages)
  BY <1>2
<1>6. \A w : Walks(disk, free, MaxPages, DataPages, w) => {w[n] : n \in 0 .. MaxPages} \ {0} = S
  BY <1>2, <1>5, WalkedMeets
<1> QED
  BY <1>1, <1>4, <1>6

--------------------------------------------------------------------------------
(* Every step keeps the list complete.                                     *)

\* A page that could not be written leaves the file longer than the page count.
LEMMA AllocateShort ==
  ASSUME NEW room, Allocate(room)
  PROVE  short' <=> short \/ size' > count'
BY Zenon DEF Allocate, Become

\* The length of the file stays the page count otherwise.
LEMMA SizeStep ==
  ASSUME IInv, IInv', SizeOK, [Next]_vars
  PROVE  SizeOK'
<1>0. TypeOK /\ FileOK /\ FileOK' /\ TypeOK'
  BY DEF IInv
<1>1. CASE Open
  <2>1. OpensNew \/ OpensOld
    BY <1>0, <1>1, OpenEffect
  <2> QED
    BY <1>0, <2>1 DEF SizeOK, OpensNew, OpensOld, Larger, TypeOK, FileOK
<1>2. CASE \E room \in Rooms : Allocate(room)
  <2>1. short' <=> short \/ size' > count'
    BY <1>2, AllocateShort
  <2> QED
    BY <1>0, <2>1, PageStoreAssumption DEF SizeOK, TypeOK, FileOK
<1>3. CASE \E p \in owned, w \in Words : Write(p, w)
  <2>1. UNCHANGED <<phase, short, size, count>>
    BY <1>3, WriteEffect
  <2> QED
    BY <2>1 DEF SizeOK
<1>4. CASE \E p \in owned : Free(p)
  <2>1. UNCHANGED <<phase, short, size, count>>
    BY <1>4, FreeEffect, PageStoreAssumption DEF IInv, TypeOK, PageNums
  <2> QED
    BY <2>1 DEF SizeOK
<1>5. CASE \E p \in owned : WriteHeader(p)
  <2>1. UNCHANGED <<phase, short, size, count>>
    BY <1>5, WriteHeaderEffect
  <2> QED
    BY <2>1 DEF SizeOK
<1>6. CASE Close \/ Crash
  BY <1>6, DropHandleEffect DEF Close, Crash, SizeOK
<1>7. CASE UNCHANGED vars
  BY <1>7 DEF vars, SizeOK
<1> QED
  BY <1>1, <1>2, <1>3, <1>4, <1>5, <1>6, <1>7 DEF Next

\* The header that is read has the head of the list.
LEMMA WalkOpen ==
  ASSUME WInv, IInv', Open
  PROVE  WalkOK'
<1>0. TypeOK /\ FileOK
  BY DEF WInv, IInv
<1>1. /\ phase = "closed" /\ phase' = "open" /\ UNCHANGED <<owned, lost, short>>
      /\ OpensNew \/ OpensOld
  BY <1>0, OpenEffect
<1> SUFFICES ASSUME ~lost, ~short
             PROVE  Walked(disk', free', (2 .. count' - 1) \ owned')
  BY <1>1 DEF WalkOK
<1>2. CASE OpensNew
  <2>1. (2 .. count' - 1) \ owned' = {} /\ free' = 0
    BY <1>2 DEF OpensNew
  <2> QED
    BY <2>1, WalkedEmpty
<1>3. CASE OpensOld
  <2>1. count' = size /\ free' = hdr.free /\ disk' = disk /\ size # 0
    BY <1>0, <1>3, PageStoreAssumption DEF OpensOld, Larger, TypeOK, FileOK
  <2> QED
    BY <1>1, <2>1 DEF WInv, WalkOK
<1> QED
  BY <1>1, <1>2, <1>3

\* What is allocated leaves the list, or was never in it.
LEMMA WalkAllocate ==
  ASSUME WInv, IInv', NEW room, Allocate(room)
  PROVE  WalkOK'
<1>0. TypeOK /\ FileOK
  BY DEF WInv, IInv
<1>1. /\ phase = "open" /\ UNCHANGED <<phase, lost>>
      /\ AllocateFails \/ AllocateReuses \/ AllocateExtends
  BY <1>0, AllocateEffect
<1> SUFFICES ASSUME ~lost, ~short'
             PROVE  Walked(disk', free', (2 .. count' - 1) \ owned')
  BY <1>1 DEF WalkOK
<1> DEFINE S == (2 .. count - 1) \ owned
<1>2. Walked(disk, free, S)
  BY <1>1, AllocateShort DEF WInv, WalkOK
<1>3. count \in 2 .. MaxPages /\ owned \subseteq PageNums /\ MaxPages \in Nat
  BY <1>0, <1>1, PageStoreAssumption DEF TypeOK, FileOK
<1>4. CASE AllocateFails
  BY <1>2, <1>4 DEF AllocateFails
<1>5. CASE AllocateReuses
  <2>1. free # 0 /\ free' = disk[free].word /\ count' = count /\ owned' = owned \cup {free}
    BY <1>5 DEF AllocateReuses
  <2>2. Walked(disk, free', S \ {free})
    BY <1>2, <2>1, WalkedTail
  <2>3. \A p \in S \ {free} : disk'[p].word = disk[p].word
    BY <1>0, <1>3, <1>5 DEF AllocateReuses, TypeOK, PageNums
  <2>4. Walked(disk', free', S \ {free})
    BY <2>2, <2>3, WalkedFrame
  <2>5. (2 .. count' - 1) \ owned' = S \ {free}
    BY <2>1
  <2> QED
    BY <2>4, <2>5
<1>6. CASE AllocateExtends
  <2>1. count' = count + 1 /\ owned' = owned \cup {count} /\ free' = free
    BY <1>6 DEF AllocateExtends
  <2>2. \A p \in S : disk'[p].word = disk[p].word
    BY <1>0, <1>3, <1>6 DEF AllocateExtends, TypeOK, PageNums
  <2>3. Walked(disk', free', S)
    BY <1>2, <2>1, <2>2, WalkedFrame
  <2>4. (2 .. count' - 1) \ owned' = S
    BY <1>3, <2>1
  <2> QED
    BY <2>3, <2>4
<1> QED
  BY <1>1, <1>4, <1>5, <1>6

\* What is freed is put in front.
LEMMA WalkFree ==
  ASSUME WInv, IInv', NEW p \in owned, Free(p)
  PROVE  WalkOK'
<1>0. TypeOK /\ FileOK /\ ChainOK
  BY DEF WInv, IInv
<1>1. p \in PageNums /\ p # 0 /\ p < count /\ p \in Nat
  BY <1>0, PageStoreAssumption DEF TypeOK, FileOK, PageNums, Free
<1>2. /\ phase = "open"
      /\ disk' = [disk EXCEPT ![p] = FreePage(free), ![1] = FreePage(p)]
      /\ free' = p
      /\ owned' = owned \ {p}
      /\ UNCHANGED <<count, phase, lost, short>>
  BY <1>1, FreeEffect
<1> SUFFICES ASSUME ~lost, ~short
             PROVE  Walked(disk', free', (2 .. count' - 1) \ owned')
  BY <1>2 DEF WalkOK
<1> DEFINE S == (2 .. count - 1) \ owned
<1>3. Walked(disk, free, S) /\ p # 1 /\ p \notin S
  BY <1>0, <1>2 DEF WInv, WalkOK, ChainOK
<1>4. count \in 2 .. MaxPages /\ MaxPages \in Nat
  BY <1>0, <1>2, PageStoreAssumption DEF TypeOK, FileOK
<1>5. \A q \in PageNums : q # p /\ q # 1 => disk'[q] = disk[q]
  BY <1>0, <1>2 DEF TypeOK
<1>6. disk'[p] = FreePage(free)
  BY <1>0, <1>1, <1>2, <1>3 DEF TypeOK
<1>7. \A q \in S : q \in PageNums /\ q # 1 /\ q # p
  BY <1>3, <1>4 DEF PageNums
<1>8. disk'[p].word = free /\ \A q \in S : disk'[q].word = disk[q].word
  BY <1>5, <1>6, <1>7 DEF FreePage
<1>9. Walked(disk', p, S \cup {p})
  BY <1>1, <1>3, <1>8, WalkedPush
<1>10. (2 .. count' - 1) \ owned' = S \cup {p}
  BY <1>1, <1>2, <1>3, <1>4 DEF PageNums
<1> QED
  BY <1>2, <1>9, <1>10

\* What the client writes is not in the list.
LEMMA WalkWrite ==
  ASSUME WInv, IInv', NEW p \in owned, NEW w \in Words, Write(p, w)
  PROVE  WalkOK'
<1>0. TypeOK /\ FileOK
  BY DEF WInv, IInv
<1>1. /\ phase = "open" /\ disk' = [disk EXCEPT ![p] = ClientPage(w)]
      /\ UNCHANGED <<hdr, size, count, free, phase, owned, lost, short>>
  BY WriteEffect
<1> DEFINE S == (2 .. count - 1) \ owned
<1>2. \A q \in S : disk'[q].word = disk[q].word
  BY <1>0, <1>1 DEF TypeOK
<1>3. Walked(disk, free, S) => Walked(disk', free, S)
  BY <1>2, WalkedFrame
<1> QED
  BY <1>1, <1>3 DEF WInv, WalkOK

\* Every step.
LEMMA WalkStep ==
  ASSUME WInv, IInv', [Next]_vars
  PROVE  WalkOK'
<1>1. CASE Open
  BY <1>1, WalkOpen
<1>2. CASE \E room \in Rooms : Allocate(room)
  BY <1>2, WalkAllocate
<1>3. CASE \E p \in owned, w \in Words : Write(p, w)
  BY <1>3, WalkWrite
<1>4. CASE \E p \in owned : Free(p)
  BY <1>4, WalkFree
<1>5. CASE \E p \in owned : WriteHeader(p)
  <2>1. phase = "open" /\ UNCHANGED <<disk, count, free, phase, owned, lost, short>>
    BY <1>5, WriteHeaderEffect
  <2> QED
    BY <2>1 DEF WInv, WalkOK
<1>6. CASE Close \/ Crash
  <2>1. /\ phase = "open" /\ phase' = "closed"
        /\ lost' = (lost \/ ~hdr.magic \/ hdr.free # free)
        /\ UNCHANGED <<hdr, size, disk, owned, short>>
    BY <1>6, DropHandleEffect DEF Close, Crash
  <2> SUFFICES ASSUME ~lost', ~short'
               PROVE  Walked(disk, hdr.free, (2 .. size - 1) \ owned)
    BY <2>1 DEF WalkOK
  <2>2. ~lost /\ ~short /\ hdr.free = free
    BY <2>1
  <2> QED
    BY <2>1, <2>2 DEF WInv, WalkOK, SizeOK
<1>7. CASE UNCHANGED vars
  BY <1>7 DEF vars, WInv, WalkOK
<1> QED
  BY <1>1, <1>2, <1>3, <1>4, <1>5, <1>6, <1>7 DEF Next

\* No page drops out of circulation: as long as no handle was dropped with the header out of
\* date and every page the file got could be written, the pages that the list gives are all
\* those that no client holds.
THEOREM NothingLeaks == Spec => []NoLeak
<1>1. Init => SizeOK /\ WalkOK
  BY DEF Init, SizeOK, WalkOK, NoFile
<1>2. IInv /\ IInv' /\ SizeOK /\ WalkOK /\ [Next]_vars => SizeOK' /\ WalkOK'
  BY SizeStep, WalkStep DEF WInv
<1>3. IInv /\ WalkOK => NoLeak
  <2> SUFFICES ASSUME IInv, WalkOK, phase = "open", ~lost, ~short
               PROVE  FreePages(store, free) = (2 .. count - 1) \ owned
    BY DEF NoLeak
  <2>1. (2 .. count - 1) \ owned \in SUBSET DataPages
    BY PageStoreAssumption DEF IInv, TypeOK, DataPages
  <2> QED
    BY <2>1, WalkedPages DEF WalkOK
<1> QED
  BY <1>1, <1>2, <1>3, Invariance, PTL DEF Spec
================================================================================

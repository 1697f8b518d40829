------------------------------- MODULE PageStore -------------------------------
(***************************************************************************)
(* The page file of the B-tree engine (02-database/src/pager.c) as state   *)
(* and as functions on that state.  A pager call is a function from a      *)
(* store to a store (and the page it returns), so that a handler of        *)
(* btree.c that makes several calls is still one action.                   *)
(*                                                                         *)
(* A store s has two halves.  hdr (page 0), size (the length of the file   *)
(* in pages) and disk (pages 1, 2, ...) are in the file and outlive the    *)
(* process; count and free are the fields page_count and free_list of the  *)
(* Pager handle and die with it.                                           *)
(***************************************************************************)
EXTENDS Integers

CONSTANTS
  MaxPages,   \* pages the file system has room for: extending beyond fails
  Rooms       \* the answers the file system may give when the file grows

ASSUME PageStoreAssumption ==
  /\ MaxPages \in Nat /\ MaxPages >= 3
  /\ Rooms \subseteq {"ok", "no_extent", "no_block"}

VARIABLES hdr, size, disk, count, free

storeVars == <<hdr, size, disk, count, free>>

store == [hdr |-> hdr, size |-> size, disk |-> disk,
          count |-> count, free |-> free]

\* The variables take the values of the store s.
Become(s) ==
  /\ hdr' = s.hdr
  /\ size' = s.size
  /\ disk' = s.disk
  /\ count' = s.count
  /\ free' = s.free

PageNums  == 1 .. (MaxPages - 1)
DataPages == 2 .. (MaxPages - 1)

\* Every page has its first 32-bit word: that is what pager_allocate takes
\* for the next free page, whatever the page really holds.
FreePage(next) == [kind |-> "free", word |-> next]

ZeroHeader == [magic |-> FALSE, order |-> 0, count |-> 0, root |-> 0, free |-> 0]

Larger(a, b) == IF a >= b THEN a ELSE b

--------------------------------------------------------------------------------

\* A file system without the file.
NoFile == [hdr  |-> ZeroHeader, size |-> 0,
           disk |-> [p \in PageNums |-> FreePage(0)],
           count |-> 0, free |-> 0]

\* A slip to rule out: the page count of the header is not restored.
PagerReadHeaderNoCount(s) == [s EXCEPT !.free = s.hdr.free]

PagerReadHeader(s) ==
  [s EXCEPT !.count = Larger(s.hdr.count, s.size), !.free = s.hdr.free]

\* pager_open succeeds on a new file, and on an old one with the magic number.
PagerCanOpen(s) == s.size < 2 \/ s.hdr.magic

\* A slip to rule out: the new file is made one page long.
PagerOpenShort(s) ==
  IF s.size >= 2 THEN PagerReadHeader(s)
  ELSE [s EXCEPT !.size = 1, !.hdr = ZeroHeader, !.disk[1] = FreePage(0),
                 !.count = 2, !.free = 0]

PagerOpen(s) ==
  IF s.size >= 2 THEN PagerReadHeader(s)
  ELSE [s EXCEPT !.size = 2, !.hdr = ZeroHeader, !.disk[1] = FreePage(0),
                 !.count = 2, !.free = 0]

\* What is left of a store when its handle is gone: the file.
HandleLost(s) == [s EXCEPT !.count = 0, !.free = 0]

PagerReadable(s, p) == p < s.count

PagerWritePage(s, p, content) == [s EXCEPT !.disk[p] = content]

\* Slips to rule out: the head stays on the list; the file grows over its last page.
PagerAllocateKeepsHead(s, room) ==
  IF s.free # 0 THEN [store |-> s, page |-> s.free]
  ELSE IF s.count >= MaxPages THEN [store |-> s, page |-> 0]
  ELSE [store |-> [s EXCEPT !.size = s.count + 1, !.count = s.count + 1,
                            !.disk[s.count] = FreePage(0)], page |-> s.count]

PagerAllocateOverwrites(s, room) ==
  IF s.count >= MaxPages THEN [store |-> s, page |-> 0]
  ELSE [store |-> [s EXCEPT !.size = s.count + 1, !.count = s.count + 1,
                            !.disk[s.count - 1] = FreePage(0)], page |-> s.count]

\* pager_allocate: the head of the free list, else one more page of the file.
\* Page 0 is the error.  room is the file system's answer: "no_extent" when
\* ftruncate fails, "no_block" when it succeeds and writing the zeros fails.
PagerAllocate(s, room) ==
  LET next == s.disk[s.free].word
      grown == Larger(s.size, s.count + 1)
  IN  CASE s.free # 0 /\ ~PagerReadable(s, s.free) ->
             [store |-> s, page |-> 0]
        [] s.free # 0 /\ PagerReadable(s, s.free) ->
             [store |-> [s EXCEPT !.free = next, !.disk[1] = FreePage(next)],
              page  |-> s.free]
        [] s.free = 0 /\ (room = "no_extent" \/ s.count >= MaxPages) ->
             [store |-> s, page |-> 0]
        [] s.free = 0 /\ room = "no_block" /\ s.count < MaxPages ->
             [store |-> [s EXCEPT !.size = grown], page |-> 0]
        [] OTHER ->
             [store |-> [s EXCEPT !.size = grown, !.count = s.count + 1,
                                  !.disk[s.count] = FreePage(0),
                                  !.hdr.count = s.count + 1],
              page  |-> s.count]

\* Slips to rule out: the freed page is not linked to the old list; it is put on
\* the list without being rewritten.
PagerFreeUnlinked(s, p) ==
  [s EXCEPT !.free = p, !.disk = [@ EXCEPT ![p] = FreePage(0), ![1] = FreePage(p)]]

PagerFreeUnwritten(s, p) == [s EXCEPT !.free = p, !.disk[1] = FreePage(p)]

PagerFree(s, p) ==
  IF p = 0 THEN s
  ELSE [s EXCEPT !.free = p,
                 !.disk = [@ EXCEPT ![p] = FreePage(s.free), ![1] = FreePage(p)]]

PagerWriteHeader(s, order, root) ==
  [s EXCEPT !.hdr = [magic |-> TRUE, order |-> order, count |-> s.count,
                     root |-> root, free |-> s.free]]

--------------------------------------------------------------------------------

\* The pages met when the list is followed from its head f, as the successive
\* calls of pager_allocate would.
FreePages(s, f) ==
  LET walk[n \in 0 .. MaxPages] ==
        IF n = 0 THEN f
        ELSE LET p == walk[n - 1] IN IF p \in DataPages THEN s.disk[p].word ELSE 0
  IN  {walk[n] : n \in 0 .. MaxPages} \ {0}

================================================================================

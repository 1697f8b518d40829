--------------------------------- MODULE Pager ---------------------------------
(***************************************************************************)
(* The pager (02-database/src/pager.c) under any client that frees only    *)
(* pages it was given, with process crashes between calls.                 *)
(*                                                                         *)
(* owned is the set of pages the client was handed and has not returned;   *)
(* its references to them are in the file, so they outlive a crash.  lost  *)
(* says that a handle was dropped while the header page did not hold its   *)
(* free list, short that the file was extended by a page that could not be *)
(* written.                                                                *)
(***************************************************************************)
EXTENDS PageStore

CONSTANTS
  Words,        \* first words the client's pages may have
  MaxCrashes    \* bound on process crashes

ASSUME PagerAssumption == Words \subseteq Nat /\ MaxCrashes \in Nat

VARIABLES phase, owned, lost, short, crashes

vars == <<hdr, size, disk, count, free, phase, owned, lost, short, crashes>>

ClientPage(w) == [kind |-> "data", word |-> w]

Init ==
  /\ hdr = NoFile.hdr /\ size = NoFile.size /\ disk = NoFile.disk
  /\ count = NoFile.count /\ free = NoFile.free
  /\ phase = "closed"
  /\ owned = {}
  /\ lost = FALSE /\ short = FALSE
  /\ crashes = 0

Open ==
  /\ phase = "closed"
  /\ PagerCanOpen(store)
  /\ Become(PagerOpen(store))
  /\ phase' = "open"
  /\ UNCHANGED <<owned, lost, short, crashes>>

Allocate(room) ==
  LET r == PagerAllocate(store, room) IN
  /\ phase = "open"
  /\ Become(r.store)
  /\ owned' = IF r.page = 0 THEN owned ELSE owned \cup {r.page}
  /\ short' = (short \/ r.store.size > r.store.count)
  /\ UNCHANGED <<phase, lost, crashes>>

Write(p, w) ==
  /\ phase = "open"
  /\ p \in owned
  /\ Become(PagerWritePage(store, p, ClientPage(w)))
  /\ UNCHANGED <<phase, owned, lost, short, crashes>>

Free(p) ==
  /\ phase = "open"
  /\ p \in owned
  /\ Become(PagerFree(store, p))
  /\ owned' = owned \ {p}
  /\ UNCHANGED <<phase, lost, short, crashes>>

\* The root page in the header is the client's affair: any page it owns.
WriteHeader(root) ==
  /\ phase = "open"
  /\ root \in owned
  /\ Become(PagerWriteHeader(store, 2, root))
  /\ UNCHANGED <<phase, owned, lost, short, crashes>>

DropHandle ==
  /\ Become(HandleLost(store))
  /\ phase' = "closed"
  /\ lost' = (lost \/ ~hdr.magic \/ hdr.free # free)
  /\ UNCHANGED <<owned, short>>

\* pager_close flushes the pages; it does not write the header.
Close ==
  /\ phase = "open"
  /\ DropHandle
  /\ UNCHANGED crashes

Crash ==
  /\ phase = "open"
  /\ crashes < MaxCrashes
  /\ DropHandle
  /\ crashes' = crashes + 1

Next ==
  \/ Open
  \/ \E room \in Rooms : Allocate(room)
  \/ \E p \in owned, w \in Words : Write(p, w)
  \/ \E p \in owned : Free(p)
  \/ \E p \in owned : WriteHeader(p)
  \/ Close
  \/ Crash

Spec == Init /\ [][Next]_vars

--------------------------------------------------------------------------------
\* Properties.

Content == [kind : {"free", "data"}, word : Nat]

\* Shape of the state.  A free-list link may be any first word once a stale
\* header has put a client's page on the list.
TypeOK ==
  /\ hdr \in [magic : BOOLEAN, order : Nat, count : 0 .. MaxPages,
              root : Nat, free : Nat]
  /\ size \in {0} \cup 2 .. MaxPages
  /\ disk \in [PageNums -> Content]
  /\ count \in 0 .. MaxPages
  /\ free \in Nat
  /\ phase \in {"closed", "open"}
  /\ owned \subseteq PageNums
  /\ lost \in BOOLEAN /\ short \in BOOLEAN
  /\ crashes \in 0 .. MaxCrashes

\* S is a set of pages of d closed under the links of a list with head f, in which
\* nothing points at the head and no two pages point at the same one: the list
\* is a chain inside S that ends in 0.
ListIn(d, f, S) ==
  /\ f \in S \cup {0}
  /\ \A p \in S : d[p].word \in (S \ {f}) \cup {0}
  /\ \A p, q \in S : d[p].word = d[q].word /\ d[p].word # 0 => p = q

\* As long as no handle was dropped with the header out of date, the free list
\* (pager_allocate, pager_free) is a chain of pages that no client holds.
FreeListOK ==
  phase = "open" /\ ~lost =>
    \E S \in SUBSET ((2 .. count - 1) \ owned) : ListIn(disk, free, S)

\* The page pager_allocate will hand out next is not page 0 or 1 and is not
\* held by a client: no page is ever allocated twice.
NoDoubleAllocation ==
  phase = "open" /\ ~lost =>
    (IF free # 0 THEN free ELSE count) \notin owned \cup {0, 1}

\* No page drops out of circulation: whatever the client does not hold can be
\* allocated again (pager_free puts it on the list, reopening finds it there).
\* (A page whose writing failed does drop out when the file is reopened.)
NoLeak ==
  phase = "open" /\ ~lost /\ ~short =>
    FreePages(store, free) = (2 .. count - 1) \ owned

\* A page that was handed out can be read through every later handle, whether
\* or not a crash left the header behind: pager_read_header takes the length
\* of the file when it is ahead of the page count in the header.
OwnedReadable ==
  phase = "open" => \A p \in owned : PagerReadable(store, p)

\* Allocating and freeing other pages, closing, crashing and reopening never
\* change what the client wrote in a page it holds.
PagesIntact ==
  [][ ~lost => \A p \in owned \cap owned' :
        disk'[p] # disk[p] => disk'[p].kind = "data" /\ UNCHANGED <<hdr, count, free>>
    ]_vars

================================================================================

--------------------------------- MODULE Cursor ---------------------------------
(***************************************************************************)
(* A cursor (02-database/src/cursor.c) on a tree that goes on being        *)
(* modified.  The cursor copies keys and small values when it is created   *)
(* and remembers only the first overflow page of a large one.              *)
(***************************************************************************)
EXTENDS BTreeProperties

VARIABLES
  open,      \* there is a cursor
  entries,   \* its copy of the cells, in order
  position,  \* entries already yielded
  yield,     \* the answer of the last cursor_next
  yielded,   \* the keys it gave, in the order it gave them
  pairs,     \* the map when the cursor was created
  present,   \* the keys in the nodes of the tree then
  removed,   \* keys whose deletion began after that
  doubled    \* between two calls, a key was in the tree twice

cursorVars == <<open, entries, position, yield, yielded, pairs, present, removed, doubled>>

\* A key is in the tree twice: see UniqueKeys.
Repeats ==
  Quiet /\ LET e == Entries(store, root) IN
           \E i, j \in DOMAIN e : i # j /\ e[i].key = e[j].key

NoYield == [status |-> "none"]

\* The keys in the nodes of the tree, wherever they are.
StoredKeys == UNION {{c.key : c \in ToSet(disk[p].cells)} : p \in Tree}

CursorInit ==
  /\ Init
  /\ open = FALSE /\ entries = << >> /\ position = 0
  /\ yield = NoYield /\ yielded = << >>
  /\ pairs = << >> /\ present = {} /\ removed = {} /\ doubled = FALSE

\* btree_cursor
CursorOpen ==
  /\ pc = "idle" /\ ~open /\ "cursor" \in program.calls
  /\ open' = TRUE
  /\ entries' = Entries(store, root)
  /\ position' = 0
  /\ yield' = NoYield /\ yielded' = << >>
  /\ pairs' = Contents /\ present' = StoredKeys /\ removed' = {}
  /\ UNCHANGED <<vars, doubled>>

\* A slip to rule out: the position moves on before the value is read.
CursorNextAhead ==
  /\ pc = "idle" /\ open
  /\ position < Len(entries)
  /\ yield' = [status |-> "OK", key |-> entries[position + 1].key,
               value |-> CellRead(store, entries[Min({position + 2, Len(entries)})]).value]
  /\ position' = position + 1
  /\ yielded' = Append(yielded, yield'.key)
  /\ UNCHANGED <<vars, open, entries, pairs, present, removed, doubled>>

\* A slip to rule out: done is set one entry too early.
CursorNextEarly ==
  LET entry == entries[position + 1]
      read  == CellRead(store, entry)
  IN
  /\ pc = "idle" /\ open
  /\ IF position < Len(entries) - 1
     THEN /\ read.status = "OK"
          /\ yield' = [status |-> "OK", key |-> entry.key, value |-> read.value]
          /\ position' = position + 1
          /\ yielded' = Append(yielded, entry.key)
     ELSE yield' = [status |-> "NOTFOUND"] /\ UNCHANGED <<position, yielded>>
  /\ UNCHANGED <<vars, open, entries, pairs, present, removed, doubled>>

\* cursor_next: a large value is read now, from the page remembered at creation;
\* when that fails the position stays.
CursorNext ==
  LET entry == entries[position + 1]
      read  == CellRead(store, entry)
  IN
  /\ pc = "idle" /\ open
  /\ \/ /\ position = Len(entries)
        /\ yield' = [status |-> "NOTFOUND"]
        /\ UNCHANGED <<position, yielded>>
     \/ /\ position < Len(entries) /\ read.status = "OK"
        /\ yield' = [status |-> "OK", key |-> entry.key, value |-> read.value]
        /\ position' = position + 1
        /\ yielded' = Append(yielded, entry.key)
     \/ /\ position < Len(entries) /\ read.status # "OK"
        /\ yield' = [status |-> "ERR"]
        /\ UNCHANGED <<position, yielded>>
  /\ UNCHANGED <<vars, open, entries, pairs, present, removed, doubled>>

CursorClose ==
  /\ pc = "idle" /\ open
  /\ open' = FALSE
  /\ entries' = << >> /\ position' = 0
  /\ yield' = NoYield /\ yielded' = << >>
  /\ pairs' = << >> /\ present' = {} /\ removed' = {}
  /\ UNCHANGED <<vars, doubled>>

\* The program closes its cursor before the tree, and may do everything else
\* with the tree while it has one.
TreeStep ==
  /\ Next
  /\ open => pc' # "closed"
  /\ removed' = IF open /\ pc' = "delete" THEN removed \cup {call'.key} ELSE removed
  /\ doubled' = (doubled \/ Repeats')
  /\ yield' = NoYield
  /\ UNCHANGED <<open, entries, position, yielded, pairs, present>>

CursorNextState == TreeStep \/ CursorOpen \/ CursorNext \/ CursorClose

CursorSpec == CursorInit /\ [][CursorNextState]_<<vars, cursorVars>>

--------------------------------------------------------------------------------

\* The tree was one that the engine promises to keep.
Trusted == ~lost /\ ~dangling /\ ~doubled

\* A key that has been in the store since the cursor was created is yielded with
\* its value, whatever splits, merges and recycled pages came in between.
YieldsKeptPairs ==
  Trusted /\ yield.status = "OK" /\ yield.key \notin removed =>
    yield.value = pairs[yield.key]

\* A cursor gives the keys of the tree at its creation in ascending order, each
\* once and none skipped, and says that it is at its end (NOTFOUND) when it gave
\* them all, whatever the program does with the tree meanwhile.
YieldsInOrder ==
  Trusted /\ open =>
    LET given == ToSet(yielded) IN
    /\ \A i, j \in DOMAIN yielded : i < j => yielded[i] < yielded[j]
    /\ given \subseteq present
    /\ \A k \in present, g \in given : k < g => k \in given
    /\ yield.status = "NOTFOUND" => given = present

================================================================================

---------------------------- MODULE BTreeProperties ----------------------------
(***************************************************************************)
(* What makes the B-tree engine correct: the invariants of its tree and of *)
(* its pages between calls, the preconditions of its recursions, and the   *)
(* map it implements.                                                      *)
(***************************************************************************)
EXTENDS BTree

Tree == TreePages(store, root)

\* Between two calls on a file whose past is sound: the handle was never
\* dropped with the header out of date, and no deletion has moved a cell that
\* has overflow pages.
Quiet == pc = "idle" /\ ~lost /\ ~dangling

\* A program that always opens its file with the order it was created with: the
\* engine takes the order of the caller and never compares it with the header's.
OneOrder == \A b \in Programs : \E t \in Nat : b.orders = {t}

--------------------------------------------------------------------------------

\* Shape of the state: every page reached is a node, and the frame of a call is
\* there exactly while it runs.
TypeOK ==
  /\ hdr.root \in 0 .. MaxPages - 1 /\ hdr.free \in 0 .. MaxPages - 1
  /\ free \in 0 .. MaxPages - 1
  /\ size \in 0 .. MaxPages /\ count \in 0 .. size
  /\ pc \in {"closed", "idle", "insert", "overflow", "delete", "unchain", "return"}
  /\ pc # "closed" => order \in program.orders /\ root \in DataPages /\ disk[root].kind = "node"
  /\ pc \in {"closed", "idle"} <=> call = NoCall
  /\ call # NoCall => at = 0 \/ disk[at].kind = "node"
  /\ ret.status \in {"none", "OK", "EXISTS", "NOTFOUND", "ERR"}

\* btree_split_child, merge_children and the two borrows keep the tree a search
\* tree: read in order, no key is above the next.  (Equal keys: UniqueKeys.)
KeyOrder ==
  Quiet => LET e == Entries(store, root) IN
           \A i \in 1 .. Len(e) - 1 : e[i].key <= e[i + 1].key

\* All leaves are equally deep: a split adds a level, and a merge takes one away,
\* only at the root.
Balanced ==
  Quiet =>
    LET levels == Levels(store, root) IN
    /\ \A n \in 0 .. MaxHeight : \A p, q \in levels[n] : disk[p].leaf = disk[q].leaf
    /\ levels[MaxHeight] = {}

\* Every node but the root keeps t - 1 to 2t - 1 keys, an internal node one child
\* more than keys.
Occupancy ==
  Quiet =>
    \A p \in Tree :
      /\ Len(disk[p].cells) <= MaxKeys
      /\ p # root => Len(disk[p].cells) >= MinKeys
      /\ ~disk[p].leaf => /\ Len(disk[p].kids) = Len(disk[p].cells) + 1
                          /\ disk[p].cells # << >>

\* What the recursions rely on when they enter a node: insertion one with room
\* for a key, deletion one with a key to spare (unless it is the root).
DescentReady ==
  ~lost /\ ~dangling =>
    /\ pc = "insert" => ~Full(disk[at])
    /\ pc = "delete" /\ at # root => Len(disk[at].cells) > MinKeys

--------------------------------------------------------------------------------
\* Pages.

\* The pages of a cell's overflow chain.
ChainPages(cell) ==
  LET page[n \in 0 .. MaxPages] ==
        IF n = 0 THEN cell.first
        ELSE LET q == page[n - 1] IN IF q \in DataPages THEN disk[q].word ELSE 0
  IN  {page[n] : n \in 0 .. MaxPages} \ {0}

OverflowCells == {c \in ToSet(Entries(store, root)) : IsOverflow(c)}

\* No page serves two purposes: tree nodes, the chains of different cells and the
\* free list are disjoint, and no node has two parents.
PagesDisjoint ==
  Quiet =>
    LET tree   == Tree
        values == OverflowCells
        listed == FreePages(store, free)
    IN
    /\ listed \cap tree = {}
    /\ \A c \in values :
         /\ ChainPages(c) \cap (tree \cup listed) = {}
         /\ \A d \in values : c # d => ChainPages(c) \cap ChainPages(d) = {}
    /\ \A p, q \in tree :
         \A i \in DOMAIN disk[p].kids, j \in DOMAIN disk[q].kids :
           disk[p].kids[i] = disk[q].kids[j] => p = q /\ i = j

\* Every page of the file is in the tree, in the chain of a value or on the free
\* list: no call leaks a page, unless the file could not be extended.
PagesAccounted ==
  Quiet /\ ~refused =>
    Tree \cup (UNION {ChainPages(c) : c \in OverflowCells}) \cup FreePages(store, free)
      = 2 .. count - 1

--------------------------------------------------------------------------------
\* The map.

\* The cell being removed no longer counts once its chain is being freed.
Contents ==
  LET r     == IF pc = "closed" THEN hdr.root ELSE root
      cells == IF r = 0 THEN {} ELSE ToSet(Entries(store, r))
      keys  == {c.key : c \in cells} \ (IF pc = "unchain" THEN {target} ELSE {})
      value(c) == IF IsOverflow(c)
                  THEN OverflowRead([store EXCEPT !.count = size], c.first).value
                  ELSE Bytes(c.val)
  IN  [k \in keys |-> value(CHOOSE c \in cells : c.key = k)]

\* A deletion has taken effect once the cell is gone from the node: the recursion
\* then looks for the key of its replacement.
Applied ==
  CASE pc = "return"  -> result = "OK"
    [] pc = "unchain" -> TRUE
    [] pc = "delete"  -> target # call.key
    [] OTHER          -> FALSE

KV == INSTANCE KVStore WITH
        Values <- {Bytes(v) : v \in Vals},
        dict   <- Contents,
        call   <- IF call.op = "insert" THEN [call EXCEPT !.value = Bytes(@)] ELSE call,
        done   <- Applied,
        ret    <- ret

\* The engine implements the map of btree.h, through splits, merges, overflow
\* pages, full disks, closing and reopening: every insertion and deletion takes
\* effect at once, a call that fails has none, and a search returns the value of
\* the key.
ImplementsMap == KV!Spec

\* Every call returns.
CallsReturn == pc \notin {"closed", "idle"} ~> pc = "idle"

--------------------------------------------------------------------------------
\* What documents and tests say, and the code does not do.

\* test_btree.c:115: inserting a key that is there returns BTREE_EXISTS; so no
\* key is in the tree twice.
UniqueKeys ==
  Quiet => LET e == Entries(store, root) IN
           \A i \in 1 .. Len(e) - 1 : e[i].key < e[i + 1].key

\* test_btree.c:426 asserts that the value found for a key is, byte for byte, one
\* that was inserted, overflow pages and all.
ValuesReadable ==
  pc = "idle" => \A c \in OverflowCells :
                   LET read == OverflowRead(store, c.first) IN
                   read.status = "OK" /\ \E v \in Vals : read.value = Bytes(v)

================================================================================

--------------------------------- MODULE BTree ---------------------------------
(***************************************************************************)
(* The B-tree engine (02-database/src/btree.c) on its page file.           *)
(*                                                                         *)
(* One call of the API is a sequence of steps: insertion and deletion are  *)
(* tail-recursive down the tree, and each level is one action with all the *)
(* page writes it makes; overflow pages are written and freed one page per *)
(* action.  pc says what the call does next, at is the page of the node it *)
(* has reached, target the key the recursion looks for (in a deletion it   *)
(* becomes the key of the cell that replaced the deleted one).             *)
(*                                                                         *)
(* The engine is single-threaded: nothing runs between two steps.  A       *)
(* process crash is modelled between calls; the engine has no log and      *)
(* promises nothing about a crash inside one.                              *)
(***************************************************************************)
EXTENDS PageStore, Sequences, SequencesExt, FiniteSets

CONSTANTS
  Keys,        \* keys, compared as numbers
  Vals,        \* values
  Chunks,      \* Chunks[v]: overflow pages v takes, 0 when it fits in the cell
  NoVal,       \* what a cell holds in place of a value kept in overflow pages
  MaxHeight,   \* bound on the height of the tree: half of the pages, an inner node has two children
  Programs     \* the programs that use the engine: what they may do, within bounds

\* A program opens the file with one of orders, inserts the keys of warmup first
\* and then makes at most maxCalls insertions and deletions of its keys and vals
\* (0: no bound); with fresh it inserts only keys that are not in the store.
\* rooms are the answers of the file system it runs on.
Program(orders, rooms, calls, keys, vals, fresh, warmup, maxCalls) ==
  [orders |-> orders, rooms |-> rooms, calls |-> calls, keys |-> keys,
   vals |-> vals, fresh |-> fresh, warmup |-> warmup, maxCalls |-> maxCalls]

ASSUME BTreeAssumption ==
  /\ Keys \subseteq Nat \ {0} /\ MaxHeight \in Nat /\ 2 * MaxHeight >= MaxPages
  /\ Chunks \in [Vals -> Nat] /\ NoVal \notin Vals
  /\ \A b \in Programs :
       /\ b.orders \subseteq Nat \ {0, 1} /\ b.orders # {} /\ b.rooms \subseteq Rooms
       /\ b.calls \subseteq {"insert", "delete", "search", "close", "crash", "cursor"}
       /\ b.keys \subseteq Keys /\ b.vals \subseteq Vals /\ b.fresh \in BOOLEAN
       /\ b.warmup \in Seq(b.keys) /\ b.maxCalls \in Nat

VARIABLES
  program,          \* the program that runs; it never changes
  order, root,      \* fields of the BTREE handle
  pc, call, at, target, chain, result, \* the call in progress
  ret,              \* the answer of the last call
  calls,            \* insertions and deletions so far (for the bounds)
  lost,             \* a handle was dropped with the header out of date
  dangling,         \* a deletion copied or overwrote a cell with an overflow chain
  refused           \* a call failed because the file could not be extended

handle == <<order, root>>
frame  == <<call, at, target, chain, result>>
ghosts == <<program, lost, dangling, refused>>
vars   == <<storeVars, handle, pc, frame, ret, calls, ghosts>>

--------------------------------------------------------------------------------
\* Pages of the tree.

\* The first word of a serialized node: flag, key count (big-endian), padding.
Node(leaf, cells, kids) ==
  [kind |-> "node", word |-> (IF leaf THEN 1 ELSE 0) + 65536 * Len(cells),
   leaf |-> leaf, cells |-> cells, kids |-> kids]

OverflowPage(next, data) == [kind |-> "overflow", word |-> next, data |-> data]

Cell(k, v, first) == [key |-> k, val |-> v, first |-> first]

IsOverflow(cell) == cell.val = NoVal

MaxKeys == 2 * order - 1
MinKeys == order - 1

Full(node) == Len(node.cells) = MaxKeys

\* Positions of k in a node, and how many of its keys are below k.
IndexesOf(node, k) == {i \in DOMAIN node.cells : node.cells[i].key = k}
Below(node, k)     == Cardinality({i \in DOMAIN node.cells : node.cells[i].key < k})

WriteNode(s, p, node) == PagerWritePage(s, p, node)

\* The bytes of a value, one piece per overflow page.
Bytes(v) == [i \in 1 .. Larger(1, Chunks[v]) |-> <<v, i>>]

\* overflow_read: the pieces found along the chain, or an error when it leaves
\* the file.  A page that was freed reads as an empty piece (its length field
\* is zero) and its free-list link as the next page; MaxPages is any page that
\* is not in the file.
OverflowRead(s, p) ==
  LET next  == [q \in 0 .. MaxPages |->
                  IF q \in 1 .. s.count - 1 THEN Min({s.disk[q].word, MaxPages}) ELSE q]
      piece == [q \in 0 .. MaxPages |->
                  IF q \in 1 .. s.count - 1 /\ s.disk[q].kind = "overflow"
                  THEN <<s.disk[q].data>> ELSE << >>]
      page[n \in 0 .. MaxPages] == IF n = 0 THEN p ELSE next[page[n - 1]]
  IN  IF page[MaxPages] = 0
      THEN [status |-> "OK",
            value  |-> FlattenSeq([n \in 1 .. MaxPages |-> piece[page[n - 1]]])]
      ELSE [status |-> "ERR"]

CellRead(s, cell) ==
  IF IsOverflow(cell) THEN OverflowRead(s, cell.first)
  ELSE [status |-> "OK", value |-> Bytes(cell.val)]

--------------------------------------------------------------------------------
\* Restructuring.  Positions count from 1: kids[i] is left of cells[i].

\* Part of a node's children; a leaf has none.
KidsFrom(node, m, n) == IF node.leaf THEN << >> ELSE SubSeq(node.kids, m, n)

\* Slips to rule out: the new node is a leaf whatever the split one is; its cells
\* are taken one too far.
SplitChildWith(right(_), s, p, i, room) ==
  LET parent == s.disk[p]
      child  == s.disk[parent.kids[i]]
      r      == PagerAllocate(s, room)
      left   == Node(child.leaf, SubSeq(child.cells, 1, order - 1), KidsFrom(child, 1, order))
      split  == Node(FALSE, InsertAt(parent.cells, i, child.cells[order]),
                     InsertAt(parent.kids, i + 1, r.page))
  IN  IF r.page = 0 THEN [ok |-> FALSE, store |-> r.store]
      ELSE [ok |-> TRUE,
            store |-> WriteNode(WriteNode(WriteNode(r.store,
                        parent.kids[i], left), r.page, right(child)), p, split)]

SplitChildLeaf(s, p, i, room) ==
  SplitChildWith(LAMBDA child : Node(TRUE, SubSeq(child.cells, order + 1, MaxKeys), << >>),
                 s, p, i, room)

SplitChildSkips(s, p, i, room) ==
  SplitChildWith(LAMBDA child : Node(child.leaf, SubSeq(child.cells, order + 2, MaxKeys),
                                     KidsFrom(child, order + 1, 2 * order)),
                 s, p, i, room)

\* btree_split_child: kids[i] of the node at page p is split around its median.
SplitChild(s, p, i, room) ==
  LET parent == s.disk[p]
      child  == s.disk[parent.kids[i]]
      r      == PagerAllocate(s, room)
      left   == Node(child.leaf, SubSeq(child.cells, 1, order - 1),
                     KidsFrom(child, 1, order))
      right  == Node(child.leaf, SubSeq(child.cells, order + 1, MaxKeys),
                     KidsFrom(child, order + 1, 2 * order))
      split  == Node(FALSE, InsertAt(parent.cells, i, child.cells[order]),
                     InsertAt(parent.kids, i + 1, r.page))
  IN  IF r.page = 0 THEN [ok |-> FALSE, store |-> r.store]
      ELSE [ok |-> TRUE,
            store |-> WriteNode(WriteNode(WriteNode(r.store,
                        parent.kids[i], left), r.page, right), p, split)]

\* Slips to rule out: the right page is not freed; the left one is.
MergeChildrenFreeing(s, p, i, freed) ==
  LET node   == s.disk[p]
      left   == s.disk[node.kids[i]]
      right  == s.disk[node.kids[i + 1]]
      merged == Node(left.leaf, left.cells \o <<node.cells[i]>> \o right.cells,
                     left.kids \o right.kids)
      parent == Node(FALSE, RemoveAt(node.cells, i), RemoveAt(node.kids, i + 1))
  IN  WriteNode(WriteNode(PagerFree(s, freed), node.kids[i], merged), p, parent)

MergeChildrenLeaks(s, p, i) == MergeChildrenFreeing(s, p, i, 0)

MergeChildrenFreesLeft(s, p, i) == MergeChildrenFreeing(s, p, i, s.disk[p].kids[i])

\* merge_children: kids[i], cells[i] and kids[i + 1] become one node; the page of
\* the right one is freed.
MergeChildren(s, p, i) ==
  LET node   == s.disk[p]
      left   == s.disk[node.kids[i]]
      right  == s.disk[node.kids[i + 1]]
      merged == Node(left.leaf, left.cells \o <<node.cells[i]>> \o right.cells,
                     left.kids \o right.kids)
      parent == Node(FALSE, RemoveAt(node.cells, i), RemoveAt(node.kids, i + 1))
  IN  WriteNode(WriteNode(PagerFree(s, node.kids[i + 1]), node.kids[i], merged),
                p, parent)

BorrowFromLeft(s, p, i) ==
  LET parent == s.disk[p]
      child  == s.disk[parent.kids[i]]
      left   == s.disk[parent.kids[i - 1]]
      fuller == Node(child.leaf, <<parent.cells[i - 1]>> \o child.cells,
                     KidsFrom(left, Len(left.kids), Len(left.kids)) \o child.kids)
      leaner == Node(left.leaf, Front(left.cells),
                     KidsFrom(left, 1, Len(left.kids) - 1))
  IN  WriteNode(WriteNode(WriteNode(s, parent.kids[i], fuller),
                parent.kids[i - 1], leaner),
                p, Node(FALSE, ReplaceAt(parent.cells, i - 1, Last(left.cells)), parent.kids))

\* A slip to rule out: the last child of the right sibling is moved, not the first.
BorrowFromRightLast(s, p, i) ==
  LET parent == s.disk[p]
      child  == s.disk[parent.kids[i]]
      right  == s.disk[parent.kids[i + 1]]
      fuller == Node(child.leaf, Append(child.cells, parent.cells[i]),
                     child.kids \o KidsFrom(right, Len(right.kids), Len(right.kids)))
      leaner == Node(right.leaf, Tail(right.cells), KidsFrom(right, 1, Len(right.kids) - 1))
  IN  WriteNode(WriteNode(WriteNode(s, parent.kids[i], fuller),
                parent.kids[i + 1], leaner),
                p, Node(FALSE, ReplaceAt(parent.cells, i, Head(right.cells)), parent.kids))

BorrowFromRight(s, p, i) ==
  LET parent == s.disk[p]
      child  == s.disk[parent.kids[i]]
      right  == s.disk[parent.kids[i + 1]]
      fuller == Node(child.leaf, Append(child.cells, parent.cells[i]),
                     child.kids \o KidsFrom(right, 1, 1))
      leaner == Node(right.leaf, Tail(right.cells), KidsFrom(right, 2, Len(right.kids)))
  IN  WriteNode(WriteNode(WriteNode(s, parent.kids[i], fuller),
                parent.kids[i + 1], leaner),
                p, Node(FALSE, ReplaceAt(parent.cells, i, Head(right.cells)), parent.kids))

\* Slips to rule out: a child with the minimum is left alone; a sibling with the
\* minimum gives a key away.
EnsureMinKeysLax(s, p, i) ==
  IF Len(s.disk[s.disk[p].kids[i]].cells) >= MinKeys THEN s
  ELSE MergeChildren(s, p, Larger(1, i - 1))

EnsureMinKeysGreedy(s, p, i) ==
  IF Len(s.disk[s.disk[p].kids[i]].cells) >= order THEN s
  ELSE IF i > 1 THEN BorrowFromLeft(s, p, i) ELSE BorrowFromRight(s, p, i)

\* ensure_min_keys: kids[i] of the node at p has at least order keys afterwards,
\* or has been merged with a neighbour.
EnsureMinKeys(s, p, i) ==
  LET node == s.disk[p]
      keysOf(j) == Len(s.disk[node.kids[j]].cells)
      hasLeft   == i > 1
      hasRight  == i < Len(node.kids)
  IN  CASE keysOf(i) >= order -> s
        [] keysOf(i) < order /\ hasLeft /\ keysOf(i - 1) > MinKeys ->
             BorrowFromLeft(s, p, i)
        [] keysOf(i) < order /\ ~(hasLeft /\ keysOf(i - 1) > MinKeys)
             /\ hasRight /\ keysOf(i + 1) > MinKeys ->
             BorrowFromRight(s, p, i)
        [] OTHER -> MergeChildren(s, p, IF hasLeft THEN i - 1 ELSE i)

\* get_predecessor and get_successor: the last cell of the rightmost leaf below
\* p, and the first of the leftmost one.
Predecessor(s, p) ==
  LET down[n \in 0 .. MaxHeight] ==
        IF n = 0 THEN s.disk[p]
        ELSE LET node == down[n - 1] IN IF node.leaf THEN node ELSE s.disk[Last(node.kids)]
  IN  Last(down[MaxHeight].cells)

Successor(s, p) ==
  LET down[n \in 0 .. MaxHeight] ==
        IF n = 0 THEN s.disk[p]
        ELSE LET node == down[n - 1] IN IF node.leaf THEN node ELSE s.disk[Head(node.kids)]
  IN  Head(down[MaxHeight].cells)

--------------------------------------------------------------------------------
\* Reading the tree with root r.

\* btree_search: binary search in each node on the way down.
Search(s, r, k) ==
  LET down[n \in 0 .. MaxHeight] ==
        IF n = 0 THEN s.disk[r]
        ELSE LET node == down[n - 1] IN
             IF node.leaf \/ IndexesOf(node, k) # {} THEN node
             ELSE s.disk[node.kids[Below(node, k) + 1]]
      last == down[MaxHeight]
  IN  IF IndexesOf(last, k) = {} THEN [status |-> "NOTFOUND"]
      ELSE CellRead(s, last.cells[CHOOSE i \in IndexesOf(last, k) : TRUE])

\* A slip to rule out: the cells of a node before its subtrees.
EntriesPreorder(s, r) ==
  LET visit[h \in 0 .. MaxHeight] == [p \in DataPages |->
        IF s.disk[p].leaf \/ h = 0 THEN s.disk[p].cells
        ELSE s.disk[p].cells \o
             FlattenSeq([i \in DOMAIN s.disk[p].kids |-> visit[h - 1][s.disk[p].kids[i]]])]
  IN  visit[MaxHeight][r]

\* collect_entries (and count_nodes): the cells in order, each internal cell
\* between the subtrees beside it.
Entries(s, r) ==
  LET visit[h \in 0 .. MaxHeight] ==
        IF h = 0 THEN [p \in DataPages |-> s.disk[p].cells]
        ELSE [p \in DataPages |->
               LET upTo[i \in 0 .. Len(s.disk[p].cells)] ==
                     IF i = 0 THEN visit[h - 1][s.disk[p].kids[1]]
                     ELSE upTo[i - 1] \o <<s.disk[p].cells[i]>> \o visit[h - 1][s.disk[p].kids[i + 1]]
               IN  IF s.disk[p].leaf THEN s.disk[p].cells ELSE upTo[Len(s.disk[p].cells)]]
  IN  visit[MaxHeight][r]

TreeKeys(s, r) == {c.key : c \in ToSet(Entries(s, r))}

\* The pages n levels below the root.
Levels(s, r) ==
  LET levels[n \in 0 .. MaxHeight] ==
        IF n = 0 THEN {r} ELSE UNION {ToSet(s.disk[p].kids) : p \in levels[n - 1]}
  IN  levels

TreePages(s, r) == LET levels == Levels(s, r) IN UNION {levels[n] : n \in 0 .. MaxHeight}

--------------------------------------------------------------------------------
\* The calls.

NoCall  == [op |-> "none"]
NoChain == [first |-> 0, prev |-> 0, left |-> 0]

Idle ==
  /\ call' = NoCall /\ at' = 0 /\ target' = 0 /\ chain' = NoChain /\ result' = "none"

Init ==
  /\ hdr = NoFile.hdr /\ size = NoFile.size /\ disk = NoFile.disk
  /\ count = NoFile.count /\ free = NoFile.free
  /\ program \in Programs
  /\ order = 0 /\ root = 0
  /\ pc = "closed"
  /\ call = NoCall /\ at = 0 /\ target = 0 /\ chain = NoChain /\ result = "none"
  /\ ret = [status |-> "none"]
  /\ calls = 0
  /\ lost = FALSE /\ dangling = FALSE /\ refused = FALSE

\* btree_open: an old file names its root; a new one gets an empty leaf and its
\* first header.  The order is the caller's, whatever the header says.
Open(t, room) ==
  LET s == PagerOpen(store)
      r == PagerAllocate(s, room)
  IN
  /\ pc = "closed" /\ PagerCanOpen(store)
  /\ order' = t
  /\ \/ /\ s.hdr.magic
        /\ Become(s)
        /\ root' = s.hdr.root
     \/ /\ ~s.hdr.magic
        /\ r.page # 0
        /\ Become(PagerWriteHeader(WriteNode(r.store, r.page, Node(TRUE, << >>, << >>)),
                                   t, r.page))
        /\ root' = r.page
  /\ pc' = "idle"
  /\ UNCHANGED <<frame, ret, calls, ghosts>>

\* No room for the root of a new file: btree_open returns NULL and leaves a file
\* without a header behind.
OpenFails(room) ==
  LET r == PagerAllocate(PagerOpen(store), room) IN
  /\ pc = "closed" /\ PagerCanOpen(store)
  /\ ~PagerOpen(store).hdr.magic /\ r.page = 0
  /\ Become(HandleLost(r.store))
  /\ refused' = TRUE
  /\ UNCHANGED <<handle, pc, frame, ret, calls, program, lost, dangling>>

DropHandle(s) ==
  /\ Become(HandleLost(s))
  /\ lost' = (lost \/ s.hdr.root # root \/ s.hdr.free # free)
  /\ order' = 0 /\ root' = 0
  /\ pc' = "closed"
  /\ UNCHANGED <<program, frame, ret, calls, dangling, refused>>

Close ==
  /\ pc = "idle" /\ "close" \in program.calls
  /\ DropHandle(PagerWriteHeader(store, order, root))

Crash ==
  /\ pc = "idle" /\ "crash" \in program.calls
  /\ DropHandle(store)

\* The bounds on what the program calls.
Warming == calls < Len(program.warmup)

CanModify ==
  /\ pc = "idle"
  /\ ~lost /\ ~dangling
  /\ program.maxCalls = 0 \/ calls < Len(program.warmup) + program.maxCalls

CountCall == calls' = IF program.maxCalls = 0 /\ ~Warming THEN calls ELSE calls + 1

Answer(status) ==
  /\ pc' = "return"
  /\ result' = status

\* The only errors of insertion and deletion here: no room for a page.
NoteRefusal == refused' = (refused \/ result' = "ERR")

\* btree_insert: a full root gets a new root above it and is split.
Insert(k, v, room, room2) ==
  LET r     == PagerAllocate(store, room)
      above == WriteNode(r.store, r.page, Node(FALSE, << >>, <<root>>))
      split == SplitChild(above, r.page, 1, room2)
  IN
  /\ CanModify /\ "insert" \in program.calls
  /\ Warming => k = program.warmup[calls + 1]
  /\ program.fresh => k \notin TreeKeys(store, root)
  /\ call' = [op |-> "insert", key |-> k, value |-> v]
  /\ target' = k
  /\ CountCall
  /\ \/ /\ ~Full(disk[root])
        /\ pc' = "insert" /\ at' = root
        /\ UNCHANGED <<storeVars, root, result>>
     \/ /\ Full(disk[root]) /\ r.page = 0
        /\ Become(r.store)
        /\ Answer("ERR")
        /\ UNCHANGED <<root, at>>
     \/ /\ Full(disk[root]) /\ r.page # 0 /\ ~split.ok
        /\ Become(split.store)
        /\ Answer("ERR")
        /\ UNCHANGED <<root, at>>
     \/ /\ Full(disk[root]) /\ r.page # 0 /\ split.ok
        /\ Become(split.store)
        /\ root' = r.page
        /\ pc' = "insert" /\ at' = r.page
        /\ UNCHANGED result
  /\ NoteRefusal
  /\ UNCHANGED <<order, chain, ret, program, lost, dangling>>

\* btree_insert_nonfull, the key is in the node.
InsertExists ==
  /\ pc = "insert"
  /\ IndexesOf(disk[at], target) # {}
  /\ Answer("EXISTS")
  /\ UNCHANGED <<storeVars, handle, call, at, target, chain, ret, calls, ghosts>>

\* btree_insert_nonfull in an internal node: split the child on the way when it
\* is full, and go down.
InsertDescend(room) ==
  LET node  == disk[at]
      i     == Below(node, target) + 1
      split == SplitChild(store, at, i, room)
      grown == split.store.disk[at]
  IN
  /\ pc = "insert" /\ ~node.leaf
  /\ IndexesOf(node, target) = {}
  /\ \/ /\ ~Full(disk[node.kids[i]])
        /\ at' = node.kids[i]
        /\ UNCHANGED <<storeVars, pc, result>>
     \/ /\ Full(disk[node.kids[i]]) /\ split.ok
        /\ Become(split.store)
        /\ at' = IF target > grown.cells[i].key THEN grown.kids[i + 1] ELSE grown.kids[i]
        /\ UNCHANGED <<pc, result>>
     \/ /\ Full(disk[node.kids[i]]) /\ ~split.ok
        /\ Become(split.store)
        /\ Answer("ERR")
        /\ UNCHANGED at
  /\ NoteRefusal
  /\ UNCHANGED <<handle, call, target, chain, ret, calls, program, lost, dangling>>

\* The new cell goes into the leaf.
AddCell(s, cell) ==
  LET leaf == s.disk[at]
  IN  WriteNode(s, at, Node(TRUE, InsertAt(leaf.cells, Below(leaf, target) + 1, cell), << >>))

\* btree_insert_nonfull in a leaf: a small value goes into the cell, a large one
\* is first written to overflow pages.
InsertLeaf ==
  /\ pc = "insert" /\ disk[at].leaf
  /\ IndexesOf(disk[at], target) = {}
  /\ \/ /\ Chunks[call.value] = 0
        /\ Become(AddCell(store, Cell(target, call.value, 0)))
        /\ Answer("OK")
        /\ UNCHANGED chain
     \/ /\ Chunks[call.value] > 0
        /\ pc' = "overflow"
        /\ chain' = [NoChain EXCEPT !.left = Chunks[call.value]]
        /\ UNCHANGED <<storeVars, result>>
  /\ UNCHANGED <<handle, call, at, target, ret, calls, ghosts>>

\* One turn of the loop of overflow_write, and the cell once it is through.
OverflowWrite(room) ==
  LET r      == PagerAllocate(store, room)
      piece  == <<call.value, Chunks[call.value] - chain.left + 1>>
      linked == IF chain.prev = 0 THEN r.store
                ELSE WriteNode(r.store, chain.prev,
                               [r.store.disk[chain.prev] EXCEPT !.word = r.page])
  IN
  /\ pc = "overflow"
  /\ \/ /\ chain.left > 0 /\ r.page # 0
        /\ Become(WriteNode(linked, r.page, OverflowPage(0, piece)))
        /\ chain' = [first |-> IF chain.prev = 0 THEN r.page ELSE chain.first,
                     prev |-> r.page, left |-> chain.left - 1]
        /\ UNCHANGED <<pc, result>>
     \/ /\ chain.left > 0 /\ r.page = 0
        /\ Become(r.store)
        /\ Answer("ERR")
        /\ UNCHANGED chain
     \/ /\ chain.left = 0
        /\ Become(AddCell(store, Cell(target, NoVal, chain.first)))
        /\ Answer("OK")
        /\ UNCHANGED chain
  /\ NoteRefusal
  /\ UNCHANGED <<handle, call, at, target, ret, calls, program, lost, dangling>>

Delete(k) ==
  /\ CanModify /\ "delete" \in program.calls /\ ~Warming
  /\ call' = [op |-> "delete", key |-> k]
  /\ target' = k
  /\ pc' = "delete" /\ at' = root
  /\ CountCall
  /\ UNCHANGED <<storeVars, handle, chain, result, ret, ghosts>>

\* Taking cell i out of the leaf.
RemoveCell(s, i) == WriteNode(s, at, Node(TRUE, RemoveAt(s.disk[at].cells, i), << >>))

\* btree_delete_recursive in a leaf.
DeleteLeaf ==
  LET leaf == disk[at] IN
  /\ pc = "delete" /\ leaf.leaf
  /\ \/ /\ IndexesOf(leaf, target) = {}
        /\ Answer("NOTFOUND")
        /\ UNCHANGED <<storeVars, chain>>
     \/ \E i \in IndexesOf(leaf, target) :
          \/ /\ ~IsOverflow(leaf.cells[i])
             /\ Become(RemoveCell(store, i))
             /\ Answer("OK")
             /\ UNCHANGED chain
          \/ /\ IsOverflow(leaf.cells[i])
             /\ pc' = "unchain"
             /\ chain' = [NoChain EXCEPT !.first = leaf.cells[i].first, !.prev = i]
             /\ UNCHANGED <<storeVars, result>>
  /\ UNCHANGED <<handle, call, at, target, ret, calls, ghosts>>

\* A slip to rule out: the link to the next page is read after the page was freed.
OverflowFreeStaleLink ==
  /\ pc = "unchain"
  /\ \/ /\ chain.first # 0 /\ PagerReadable(store, chain.first)
        /\ Become(PagerFree(store, chain.first))
        /\ chain' = [chain EXCEPT !.first = free]
        /\ UNCHANGED <<pc, result>>
     \/ /\ chain.first = 0 \/ ~PagerReadable(store, chain.first)
        /\ Become(RemoveCell(store, chain.prev))
        /\ Answer("OK")
        /\ UNCHANGED chain
  /\ UNCHANGED <<handle, call, at, target, ret, calls, ghosts>>

\* One turn of the loop of overflow_free, and the removal once it is through.
\* chain.prev keeps the position of the cell.
OverflowFree ==
  /\ pc = "unchain"
  /\ \/ /\ chain.first # 0 /\ PagerReadable(store, chain.first)
        /\ Become(PagerFree(store, chain.first))
        /\ chain' = [chain EXCEPT !.first = disk[chain.first].word]
        /\ UNCHANGED <<pc, result>>
     \/ /\ chain.first = 0 \/ ~PagerReadable(store, chain.first)
        /\ Become(RemoveCell(store, chain.prev))
        /\ Answer("OK")
        /\ UNCHANGED chain
  /\ UNCHANGED <<handle, call, at, target, ret, calls, ghosts>>

\* btree_delete_recursive, the key is in an internal node: a neighbour in key
\* order replaces it and is deleted below, or the two children are merged.
DeleteInternal ==
  LET node == disk[at]
      keysOf(j) == Len(disk[node.kids[j]].cells)
      replaced(i, cell) ==
        /\ Become(WriteNode(store, at, Node(FALSE, ReplaceAt(node.cells, i, cell), node.kids)))
        /\ target' = cell.key
        /\ dangling' = (dangling \/ IsOverflow(cell) \/ IsOverflow(node.cells[i]))
        /\ UNCHANGED root
  IN
  /\ pc = "delete" /\ ~node.leaf
  /\ \E i \in IndexesOf(node, target) :
       \/ /\ keysOf(i) > MinKeys
          /\ replaced(i, Predecessor(store, node.kids[i]))
          /\ at' = node.kids[i]
       \/ /\ keysOf(i) <= MinKeys /\ keysOf(i + 1) > MinKeys
          /\ replaced(i, Successor(store, node.kids[i + 1]))
          /\ at' = node.kids[i + 1]
       \/ /\ keysOf(i) <= MinKeys /\ keysOf(i + 1) <= MinKeys
          /\ LET s == MergeChildren(store, at, i)
                 merged == s.disk[at] IN
             IF merged.cells = << >>
             THEN /\ root' = merged.kids[1]
                  /\ Become(PagerFree(s, at))
                  /\ at' = merged.kids[1]
             ELSE /\ Become(s)
                  /\ at' = merged.kids[i]
                  /\ UNCHANGED root
          /\ UNCHANGED <<target, dangling>>
  /\ UNCHANGED <<program, order, pc, call, chain, result, ret, calls, lost, refused>>

\* btree_delete_recursive, the key is further down: make sure the child has a
\* key to spare, and go down; an empty root gives way to its only child.
DeleteDescend ==
  LET node == disk[at]
      s    == EnsureMinKeys(store, at, Below(node, target) + 1)
      new  == s.disk[at]
  IN
  /\ pc = "delete" /\ ~node.leaf
  /\ IndexesOf(node, target) = {}
  /\ \/ /\ new.cells = << >> /\ at = root
        /\ root' = new.kids[1]
        /\ Become(PagerFree(s, at))
        /\ at' = new.kids[1]
     \/ /\ ~(new.cells = << >> /\ at = root)
        /\ Become(s)
        /\ at' = new.kids[Below(new, target) + 1]
        /\ UNCHANGED root
  /\ UNCHANGED <<order, pc, call, target, chain, result, ret, calls, ghosts>>

\* The call returns; btree_delete writes the header first.
Return ==
  /\ pc = "return"
  /\ Become(IF call.op = "delete" THEN PagerWriteHeader(store, order, root) ELSE store)
  /\ ret' = [status |-> result]
  /\ pc' = "idle"
  /\ Idle
  /\ UNCHANGED <<handle, calls, ghosts>>

Lookup(k) ==
  /\ pc = "idle" /\ "search" \in program.calls
  /\ ret' = Search(store, root, k)
  /\ UNCHANGED <<storeVars, handle, pc, frame, calls, ghosts>>

Step ==
  \/ InsertExists \/ InsertLeaf
  \/ \E room \in program.rooms : InsertDescend(room) \/ OverflowWrite(room)
  \/ DeleteLeaf \/ OverflowFree \/ DeleteInternal \/ DeleteDescend
  \/ Return

Next ==
  \/ \E t \in program.orders, room \in program.rooms : Open(t, room)
  \/ \E room \in program.rooms : OpenFails(room)
  \/ \E k \in program.keys, v \in program.vals, room, room2 \in program.rooms :
       Insert(k, v, room, room2)
  \/ \E k \in program.keys : Delete(k) \/ Lookup(k)
  \/ Step
  \/ Close
  \/ Crash

Spec == Init /\ [][Next]_vars

\* The engine runs the call it is in to its end.
FairSpec == Spec /\ WF_vars(Step)

================================================================================

----------------------------- MODULE BTree_proofs ------------------------------
(***************************************************************************)
(* The B-tree engine keeps its tree and its pages, for any number of       *)
(* pages, any keys and values, and any programs that open a file with one  *)
(* order.  The invariant follows a call through its phases: the pages of   *)
(* the file are the tree, the chains of its values, the free list, and the *)
(* chain that the call is writing or freeing.                              *)
(* A cursor beside the engine has the keys in order.                       *)
(***************************************************************************)
EXTENDS BTree_lemmas, Cursor

--------------------------------------------------------------------------------
\* Opening, closing and losing a handle.

\* Two stores with the same file and the same handle.
Alike(s, s2) ==
  /\ IsStore(s2) /\ s2.hdr = s.hdr /\ s2.size = s.size /\ s2.disk = s.disk
  /\ s2.count = s.count /\ s2.free = s.free

\* The variables of the store are its fields.
LEMMA StoreFields ==
  /\ store.hdr = hdr /\ store.size = size /\ store.disk = disk /\ store.count = count /\ store.free = free
  /\ DOMAIN store = {"hdr", "size", "disk", "count", "free"}
BY DEF store

\* After Become(s) the variables hold what s holds.
LEMMA Became ==
  ASSUME NEW s, IsStore(s), Become(s)
  PROVE  Alike(s, store')
<1>1. hdr' = s.hdr /\ size' = s.size /\ disk' = s.disk /\ count' = s.count /\ free' = s.free
  BY DEF Become
<1>2. /\ store'.hdr = hdr' /\ store'.size = size' /\ store'.disk = disk'
      /\ store'.count = count' /\ store'.free = free'
      /\ DOMAIN store' = {"hdr", "size", "disk", "count", "free"}
  BY DEF store
<1>3. IsStore(store')
  BY <1>1, <1>2 DEF IsStore
<1> QED
  BY <1>1, <1>2, <1>3 DEF Alike

\* A step that leaves the variables of the store alone.
LEMMA StaysAlike ==
  ASSUME UNCHANGED storeVars
  PROVE  store' = store /\ hdr' = hdr /\ size' = size /\ disk' = disk /\ count' = count /\ free' = free
BY DEF storeVars, store

\* The header is read: pager_open and every later call start from what it says.
Read(s, s2) ==
  /\ IsStore(s2) /\ s2.hdr = s.hdr /\ s2.size = s.size /\ s2.disk = s.disk
  /\ s2.count = Larger(s.hdr.count, s.size) /\ s2.free = s.hdr.free

\* pager_read_header.
LEMMA HeaderRead ==
  ASSUME NEW s, IsStore(s)
  PROVE  Read(s, PagerReadHeader(s))
<1> DEFINE s2 == PagerReadHeader(s)
<1>1. /\ s2.hdr = s.hdr /\ s2.size = s.size /\ s2.disk = s.disk
      /\ s2.count = Larger(s.hdr.count, s.size) /\ s2.free = s.hdr.free
      /\ DOMAIN s2 = DOMAIN s
  BY DEF PagerReadHeader, IsStore
<1> QED
  BY <1>1 DEF Read, IsStore

\* The header is written: it holds the root r, and the count and the free list of the handle.
Headed(s, s2, o, r) ==
  /\ IsStore(s2) /\ s2.size = s.size /\ s2.disk = s.disk /\ s2.count = s.count /\ s2.free = s.free
  /\ s2.hdr.magic = TRUE /\ s2.hdr.count = s.count /\ s2.hdr.root = r /\ s2.hdr.free = s.free

\* pager_write_header.
LEMMA HeaderWritten ==
  ASSUME NEW s, IsStore(s), NEW o, NEW r
  PROVE  Headed(s, PagerWriteHeader(s, o, r), o, r)
<1> DEFINE s2 == PagerWriteHeader(s, o, r)
<1>1. /\ s2.size = s.size /\ s2.disk = s.disk /\ s2.count = s.count /\ s2.free = s.free
      /\ s2.hdr = [magic |-> TRUE, order |-> o, count |-> s.count, root |-> r, free |-> s.free]
      /\ DOMAIN s2 = DOMAIN s
  BY DEF PagerWriteHeader, IsStore
<1> HIDE DEF s2
<1>2. /\ DOMAIN s2.hdr = {"magic", "order", "count", "root", "free"}
      /\ s2.hdr.magic = TRUE /\ s2.hdr.count = s.count /\ s2.hdr.root = r /\ s2.hdr.free = s.free
  BY <1>1
<1>3. IsStore(s2)
  BY <1>1, <1>2 DEF IsStore
<1>4. Headed(s, s2, o, r)
  BY <1>1, <1>2, <1>3 DEF Headed
<1> QED
  BY <1>4 DEF s2

\* What is left when the handle is gone: the file.
LeftOver(s, s2) ==
  /\ IsStore(s2) /\ s2.hdr = s.hdr /\ s2.size = s.size /\ s2.disk = s.disk
  /\ s2.count = 0 /\ s2.free = 0

\* The process ends.
LEMMA HandleGone ==
  ASSUME NEW s, IsStore(s)
  PROVE  LeftOver(s, HandleLost(s))
<1> DEFINE s2 == HandleLost(s)
<1>1. /\ s2.hdr = s.hdr /\ s2.size = s.size /\ s2.disk = s.disk
      /\ s2.count = 0 /\ s2.free = 0 /\ DOMAIN s2 = DOMAIN s
  BY DEF HandleLost, IsStore
<1> QED
  BY <1>1 DEF LeftOver, IsStore

\* A file whose tree with root r, of order t, has the pages T and whose other pages are Y.
\* With rf some page may have been lost when the file could not be extended.
Kept(s, r, t, T, Y, rf) ==
  /\ Sound(s.disk, r, T, Y) /\ Sizes(s.disk, r, T, t) /\ Filed(s, T, Y)
  /\ rf \/ Whole(s, T, Y)
  /\ s.hdr.magic = TRUE /\ s.hdr.root \in DataPages /\ s.hdr.free \in 0 .. MaxPages - 1

\* The free list, the chains of the values in the tree, and the chain E that begins at x and
\* that no cell of the tree names, are all that is in Y.
Begun(s, x, E, T, Y) == \E H : Heads(s.disk, T, H) /\ Chained(s.disk, s.free, x, E, H, Y)

\* The chain that is being freed has come to x; its cell still names y.
Taken(s, x, y, T, Y) ==
  \E H, E : y \in H /\ Heads(s.disk, T, H) /\ Chained(s.disk, s.free, x, E, H \ {y}, Y)

\* No chain is in the making.
Clean(s, T, Y) == Begun(s, 0, {}, T, Y)

\* Stores that agree on their pages are kept alike.
LEMMA AlikeKept ==
  ASSUME NEW s, NEW s2, NEW r, NEW t, NEW T, NEW Y, NEW rf, Kept(s, r, t, T, Y, rf), Alike(s, s2)
  PROVE  Kept(s2, r, t, T, Y, rf)
<1>1. Filed(s2, T, Y)
  BY DEF Kept, Alike, Filed
<1>2. rf \/ Whole(s2, T, Y)
  BY DEF Kept, Alike, Whole
<1> QED
  BY <1>1, <1>2 DEF Kept, Alike

\* They have the same chains.
LEMMA AlikeBegun ==
  ASSUME NEW s, NEW s2, NEW x, NEW E, NEW T, NEW Y, Begun(s, x, E, T, Y), Alike(s, s2)
  PROVE  Begun(s2, x, E, T, Y)
BY DEF Begun, Alike

\* They have the same chain being freed.
LEMMA AlikeTaken ==
  ASSUME NEW s, NEW s2, NEW x, NEW y, NEW T, NEW Y, Taken(s, x, y, T, Y), Alike(s, s2)
  PROVE  Taken(s2, x, y, T, Y)
BY DEF Taken, Alike

\* Writing the header disturbs nothing.
LEMMA HeadedKept ==
  ASSUME NEW s, NEW s2, NEW o, NEW r, NEW r2, NEW t, NEW T, NEW Y, NEW rf, Kept(s, r, t, T, Y, rf),
         Headed(s, s2, o, r2), r2 \in T
  PROVE  Kept(s2, r, t, T, Y, rf)
<1>1. Filed(s2, T, Y)
  BY DEF Kept, Headed, Filed
<1>2. rf \/ Whole(s2, T, Y)
  BY DEF Kept, Headed, Whole
<1>3. s2.hdr.root \in DataPages /\ s2.hdr.free \in 0 .. MaxPages - 1
  <2>1. T \subseteq DataPages /\ s.free \in DataPages \cup {0}
    BY FiledPages DEF Kept
  <2>2. DataPages \cup {0} \subseteq 0 .. MaxPages - 1
    BY PageStoreAssumption DEF DataPages
  <2> QED
    BY <2>1, <2>2 DEF Headed
<1> QED
  BY <1>1, <1>2, <1>3 DEF Kept, Headed

\* Writing the header leaves the chains alone.
LEMMA HeadedBegun ==
  ASSUME NEW s, NEW s2, NEW o, NEW r, NEW x, NEW E, NEW T, NEW Y, Begun(s, x, E, T, Y), Headed(s, s2, o, r)
  PROVE  Begun(s2, x, E, T, Y)
BY DEF Begun, Headed

\* A file that is opened with the header its last handle would have written: nothing is lost.
LEMMA ReadKept ==
  ASSUME NEW s, NEW s2, NEW s3, NEW r, NEW t, NEW T, NEW Y, NEW rf, Kept(s, r, t, T, Y, rf), s.hdr.free = s.free,
         s3.hdr = s.hdr, s3.size = s.size, s3.disk = s.disk, Read(s3, s2)
  PROVE  /\ Kept(s2, r, t, T, Y, rf) /\ s2.free = s.free /\ s2.disk = s.disk /\ s2.hdr = s.hdr
<1>1. s.hdr.count \in Nat /\ s.size \in Nat /\ s.count \in Nat /\ s.hdr.count <= s.count /\ s.count <= s.size
  BY DEF Kept, Filed
<1>2. Larger(s.hdr.count, s.size) = s.size
  BY <1>1 DEF Larger
<1>3. /\ s2.hdr = s.hdr /\ s2.size = s.size /\ s2.disk = s.disk /\ s2.count = s.size /\ s2.free = s.free
      /\ IsStore(s2)
  BY <1>2 DEF Read
<1>4. Filed(s2, T, Y)
  <2>1. T \cup Y \subseteq 2 .. s2.count - 1
    <3>1. T \cup Y \subseteq 2 .. s.count - 1
      BY DEF Kept, Filed
    <3>2. 2 .. s.count - 1 \subseteq 2 .. s.size - 1
      BY <1>1
    <3> QED
      BY <1>3, <3>1, <3>2
  <2> QED
    BY <1>1, <1>3, <2>1 DEF Kept, Filed
<1>5. rf \/ Whole(s2, T, Y)
  BY <1>3 DEF Kept, Whole
<1> QED
  BY <1>3, <1>4, <1>5 DEF Kept

\* The root is in the tree.
LEMMA KeptRoot ==
  ASSUME NEW s, NEW r, NEW t, NEW T, NEW Y, NEW rf, Kept(s, r, t, T, Y, rf)
  PROVE  /\ r \in T /\ T \subseteq DataPages /\ Y \subseteq DataPages /\ Nodes(s.disk, T) /\ IsStore(s)
         /\ \A p \in T : s.disk[p].kind = "node" /\ s.disk[p].leaf \in BOOLEAN
         /\ \A p \in T : Len(s.disk[p].cells) \in Nat /\ Len(s.disk[p].kids) \in Nat
         /\ s.free \in DataPages \cup {0} /\ 0 \notin T
<1>1. Nodes(s.disk, T) /\ Slots(s.disk, r, T) /\ Filed(s, T, Y)
  BY DEF Kept, Sound
<1>2. r \in T
  BY <1>1 DEF Slots, SlotsBy
<1>3. T \subseteq DataPages /\ Y \subseteq DataPages /\ s.free \in DataPages \cup {0}
  BY <1>1, FiledPages
<1>4. \A p \in T : Len(s.disk[p].cells) \in Nat /\ Len(s.disk[p].kids) \in Nat
  BY <1>1, NodeLens
<1>5. 0 \notin T
  BY <1>3, NotZero
<1> QED
  BY <1>1, <1>2, <1>3, <1>4, <1>5 DEF Nodes, NodeIn, Filed

\* The program opens the file with one order.
Degree(t) == t \in Nat /\ t >= 2 /\ program \in Programs /\ program.orders = {t}

\* No file, or one whose first node could not be written.
Blank ==
  /\ pc = "closed" /\ lost = FALSE /\ call = NoCall /\ at = 0
  /\ hdr = ZeroHeader /\ size \in 0 .. MaxPages /\ count = 0 /\ free = 0
  /\ PageNums \subseteq DOMAIN disk

\* A file whose header was out of date when its handle went: its root is a node.
Astray(t) ==
  /\ lost = TRUE /\ call = NoCall /\ at = 0 /\ IsStore(store)
  /\ hdr.magic = TRUE /\ hdr.root \in DataPages /\ disk[hdr.root].kind = "node"
  /\ size \in 2 .. MaxPages /\ hdr.count \in 0 .. size /\ hdr.free \in 0 .. MaxPages - 1
  /\ \/ pc = "closed" /\ count = 0 /\ free = 0
     \/ pc = "idle" /\ order = t /\ root = hdr.root /\ count = size /\ free \in 0 .. MaxPages - 1

\* A store that holds the tree, and every page of it, as far as ghosts allow.
Sane(s, r, t, T, Y, rf, dg) == Kept(s, r, t, T, Y, rf) /\ (dg \/ Clean(s, T, Y))

\* The file is closed, and its header up to date.
Resting(t, T, Y) ==
  /\ pc = "closed" /\ lost = FALSE /\ call = NoCall /\ at = 0
  /\ count = 0 /\ free = 0 /\ IsStore(store)
  /\ Sane(PagerReadHeader(store), hdr.root, t, T, Y, refused, dangling)

\* Between two calls.
Idling(t, T, Y) ==
  /\ pc = "idle" /\ lost = FALSE /\ call = NoCall /\ at = 0 /\ order = t
  /\ Sane(store, root, t, T, Y, refused, dangling) /\ hdr.root \in T

\* The node p has room for one more cell, and k belongs below it.
Room(d, T, t, p, k) ==
  p \in T /\ Len(d[p].cells) # 2 * t - 1 /\ \E R : OrderedBy(d, T, R) /\ k \in R[p]

\* An insertion on its way down.
Inserting(t, T, Y) ==
  /\ pc = "insert" /\ lost = FALSE /\ ~dangling /\ order = t
  /\ call.op = "insert" /\ call.value \in Vals /\ target \in Keys
  /\ Kept(store, root, t, T, Y, refused) /\ Clean(store, T, Y) /\ hdr.root \in T
  /\ Room(disk, T, t, at, target)

\* The chain that is being written: not begun, or ending in its last page.
Linked(d, c, E) ==
  \/ c.first = 0 /\ c.prev = 0 /\ c.left > 0
  \/ c.first # 0 /\ c.prev \in E /\ d[c.prev].word = 0 /\ "word" \in DOMAIN d[c.prev]

\* An insertion that writes overflow pages.
Writing(t, T, Y, E) ==
  /\ pc = "overflow" /\ lost = FALSE /\ ~dangling /\ order = t
  /\ call.op = "insert" /\ call.value \in Vals /\ target \in Keys
  /\ Kept(store, root, t, T, Y, refused) /\ Begun(store, chain.first, E, T, Y) /\ hdr.root \in T
  /\ Room(disk, T, t, at, target) /\ disk[at].leaf = TRUE
  /\ Linked(disk, chain, E) /\ chain.left \in Nat

\* The node p, unless it is the root, has a cell to spare.
Spare(d, r, T, t, p) == p \in T /\ (p # r => Len(d[p].cells) > t - 1)

\* A deletion on its way down.
Deleting(t, T, Y) ==
  /\ pc = "delete" /\ lost = FALSE /\ order = t /\ call.op = "delete" /\ target \in Nat
  /\ Sane(store, root, t, T, Y, refused, dangling)
  /\ Spare(disk, root, T, t, at)

\* A deletion that frees overflow pages.
Freeing(t, T, Y) ==
  /\ pc = "unchain" /\ lost = FALSE /\ order = t /\ call.op = "delete"
  /\ Kept(store, root, t, T, Y, refused)
  /\ Spare(disk, root, T, t, at) /\ disk[at].leaf = TRUE
  /\ "first" \in DOMAIN chain /\ "prev" \in DOMAIN chain
  /\ chain.prev \in 1 .. Len(disk[at].cells) /\ IsOverflow(disk[at].cells[chain.prev])
  /\ chain.first \in Y \cup {0}
  /\ dangling \/ Taken(store, chain.first, disk[at].cells[chain.prev].first, T, Y)

\* A call about to return.
Returning(t, T, Y) ==
  /\ pc = "return" /\ lost = FALSE /\ order = t
  /\ (call.op = "insert" /\ hdr.root \in T) \/ call.op = "delete"
  /\ result \in {"OK", "EXISTS", "NOTFOUND", "ERR"}
  /\ at \in T \cup {0}
  /\ Sane(store, root, t, T, Y, refused, dangling)

\* Where the engine is.
Phase(t) ==
  \/ Blank
  \/ Astray(t)
  \/ \E T, Y : Resting(t, T, Y)
  \/ \E T, Y : Idling(t, T, Y)
  \/ \E T, Y : Inserting(t, T, Y)
  \/ \E T, Y, E : Writing(t, T, Y, E)
  \/ \E T, Y : Deleting(t, T, Y)
  \/ \E T, Y : Freeing(t, T, Y)
  \/ \E T, Y : Returning(t, T, Y)

\* The inductive invariant.
IInv(t) ==
  /\ Degree(t) /\ Phase(t)
  /\ ret.status \in {"none", "OK", "EXISTS", "NOTFOUND", "ERR"}

\* A call that runs is one.
LEMMA Calling ==
  /\ call.op = "insert" => call # NoCall
  /\ call.op = "delete" => call # NoCall
BY DEF NoCall

\* The engine starts without a file.
LEMMA Starts ==
  ASSUME NEW t, Degree(t), Init
  PROVE  IInv(t)
<1>1. Blank
  <2>1. hdr = ZeroHeader /\ size = 0 /\ count = 0 /\ free = 0 /\ DOMAIN disk = PageNums
    BY DEF Init, NoFile
  <2> QED
    BY <2>1, PageStoreAssumption DEF Init, Blank
<1>2. ret.status = "none"
  BY DEF Init
<1> QED
  BY <1>1, <1>2 DEF IInv, Phase

\* An empty leaf is a tree.
LEMMA EmptySound ==
  ASSUME NEW d, NEW z \in DataPages, d[z] = Node(TRUE, << >>, << >>), NEW t \in Nat, t >= 2
  PROVE  /\ Sound(d, z, {z}, {}) /\ Sizes(d, z, {z}, t) /\ Heads(d, {z}, {})
<1>1. Holds(d, z, TRUE, << >>, << >>)
  BY AtNode
<1>2. d[z].kind = "node" /\ d[z].leaf = TRUE /\ d[z].cells = << >> /\ d[z].kids = << >>
  BY <1>1 DEF Holds
<1>3. << >> \in Seq(CellSet) /\ << >> \in Seq({z}) /\ Len(<< >>) = 0
  OBVIOUS
<1>4. Nodes(d, {z})
  BY <1>2, <1>3 DEF Nodes, NodeIn
<1>5. 1 .. Len(d[z].kids) = {} /\ 1 .. Len(d[z].cells) = {} /\ Len(d[z].cells) = 0
  <2>1. Len(d[z].kids) = 0 /\ Len(d[z].cells) = 0
    BY <1>2, <1>3
  <2>2. 1 .. 0 = {}
    OBVIOUS
  <2> QED
    BY <2>1, <2>2
<1>6. HeightsBy(d, {z}, [q \in {z} |-> 0])
  BY <1>2, <1>5 DEF HeightsBy, Height, Members
<1>7. Slots(d, z, {z})
  <2>1. z # 0
    BY PageStoreAssumption DEF DataPages
  <2>2. SlotsBy(d, z, {z}, [q \in {z} |-> 0])
    BY <1>5, <2>1 DEF SlotsBy, Lists, Members, Distinct
  <2> QED
    BY <2>2 DEF Slots
<1>8. OrderedBy(d, {z}, [q \in {z} |-> {}])
  BY <1>5 DEF OrderedBy, OrderedNode, Members, Sorted, Between
<1>9. Firsts(d[z].cells) = {} /\ OneEach(d[z].cells)
  BY <1>5 DEF Firsts, OneEach
<1>10. HeadsBy(d, {z}, {}, [x \in {} |-> z])
  BY <1>9 DEF HeadsBy, HeadsOf
<1>11. Sound(d, z, {z}, {})
  BY <1>4, <1>6, <1>7, <1>8, <1>9 DEF Sound, Orderly, HeadsIn
<1>12. Sizes(d, z, {z}, t)
  <2>1. 0 <= 2 * t - 1
    OBVIOUS
  <2>2. Len(d[z].cells) <= 2 * t - 1
    BY <1>5, <2>1
  <2> QED
    BY <1>2, <2>2 DEF Sizes
<1> QED
  BY <1>10, <1>11, <1>12 DEF Heads

\* A file of two pages and nothing in it.
Created(s) == IsStore(s) /\ s.hdr = ZeroHeader /\ s.size = 2 /\ s.count = 2 /\ s.free = 0

\* pager_open makes the file.
LEMMA FileCreated ==
  ASSUME Blank, PagerCanOpen(store)
  PROVE  Created(PagerOpen(store))
<1>1. /\ hdr = ZeroHeader /\ size \in Nat /\ PageNums \subseteq DOMAIN disk
      /\ store.hdr = hdr /\ store.size = size /\ store.disk = disk
      /\ DOMAIN store = {"hdr", "size", "disk", "count", "free"}
  BY StoreFields DEF Blank
<1>2. ~(size >= 2)
  <2>1. hdr.magic = FALSE
    BY <1>1 DEF ZeroHeader
  <2> QED
    BY <1>1, <2>1 DEF PagerCanOpen
<1> DEFINE s == PagerOpen(store)
<1>3. s = [store EXCEPT !.size = 2, !.hdr = ZeroHeader, !.disk[1] = FreePage(0), !.count = 2, !.free = 0]
  BY <1>1, <1>2 DEF PagerOpen
<1>4. /\ s.hdr = ZeroHeader /\ s.size = 2 /\ s.count = 2 /\ s.free = 0
      /\ s.disk = [disk EXCEPT ![1] = FreePage(0)] /\ DOMAIN s = DOMAIN store
  BY <1>1, <1>3
<1>5. DOMAIN s.disk = DOMAIN disk /\ {"magic", "order", "count", "root", "free"} \subseteq DOMAIN s.hdr
  BY <1>4 DEF ZeroHeader
<1> QED
  BY <1>1, <1>4, <1>5 DEF Created, IsStore

\* Nothing is in a new file.
LEMMA CreatedFiled ==
  ASSUME NEW s, Created(s)
  PROVE  Filed(s, {}, {}) /\ Whole(s, {}, {}) /\ Chained(s.disk, s.free, 0, {}, {}, {})
<1>1. IsStore(s) /\ s.hdr = ZeroHeader /\ s.size = 2 /\ s.count = 2 /\ s.free = 0
  BY DEF Created
<1>2. s.hdr.count = 0
  BY <1>1 DEF ZeroHeader
<1>3. 2 <= MaxPages
  BY PageStoreAssumption
<1>4. Filed(s, {}, {})
  BY <1>1, <1>2, <1>3 DEF Filed
<1>5. Whole(s, {}, {})
  <2>1. 2 .. s.count - 1 = {}
    BY <1>1
  <2> QED
    BY <1>1, <2>1 DEF Whole
<1>6. ChainedBy(s.disk, s.free, 0, {}, {}, {}, {}, [h \in {} |-> {}])
  <2>1. Walked(s.disk, 0, {})
    BY WalkedEmpty
  <2> QED
    BY <1>1, <2>1 DEF ChainedBy
<1> QED
  BY <1>4, <1>5, <1>6 DEF Chained

\* A file whose tree is the leaf z.
Planted(s, z, t) ==
  /\ Sane(s, z, t, {z}, {}, FALSE, FALSE) /\ IsStore(s)
  /\ s.hdr.root = z /\ s.hdr.free = s.free

\* The first node of a new file.
LEMMA FirstNode ==
  ASSUME NEW s, Created(s), NEW room, NEW t \in Nat, t >= 2, NEW r, r = PagerAllocate(s, room), r.page # 0,
         NEW s2, s2 = PagerWriteHeader(WriteNode(r.store, r.page, Node(TRUE, << >>, << >>)), t, r.page)
  PROVE  Planted(s2, r.page, t)
<1> DEFINE z == r.page
           w == WriteNode(r.store, r.page, Node(TRUE, << >>, << >>))
<1>1. Filed(s, {}, {}) /\ Whole(s, {}, {}) /\ Chained(s.disk, s.free, 0, {}, {}, {})
  BY CreatedFiled
<1>2. Serves(s, r, 0, {}, {}, {}, {})
  BY <1>1, AllocationServes
<1>3. PICK Y2 : Took(s, r.store, r.page, 0, {}, {}, {}, {}, Y2)
  BY <1>2 DEF Serves
<1>4. /\ z \in DataPages /\ Y2 = {} /\ Filed(r.store, {z}, {}) /\ Whole(r.store, {z}, {})
      /\ Chained(r.store.disk, r.store.free, 0, {}, {}, {})
  <2>1. Y2 = {} /\ {} \cup {z} = {z}
    BY <1>3 DEF Took
  <2> QED
    BY <1>1, <1>3, <2>1 DEF Took
<1>5. TreeWrote(r.store, w, {z}, {}, z, Node(TRUE, << >>, << >>))
  BY <1>4, TreeWrites
<1>6. /\ Filed(w, {z}, {}) /\ Whole(w, {z}, {}) /\ w.free = r.store.free
      /\ w.disk[z] = Node(TRUE, << >>, << >>)
  BY <1>4, <1>5 DEF TreeWrote
<1>7. Chained(w.disk, w.free, 0, {}, {}, {})
  BY <1>4, <1>6, ChainedFrame
<1>8. Headed(w, s2, t, z)
  <2>1. IsStore(w)
    BY <1>6 DEF Filed
  <2> QED
    BY <2>1, HeaderWritten
<1>9. /\ IsStore(s2) /\ s2.size = w.size /\ s2.disk = w.disk /\ s2.count = w.count /\ s2.free = w.free
      /\ s2.hdr.magic = TRUE /\ s2.hdr.count = w.count /\ s2.hdr.root = z /\ s2.hdr.free = w.free
  BY <1>8 DEF Headed
<1> HIDE DEF w
<1>10. Filed(s2, {z}, {})
  <2>1. /\ w.count \in Nat /\ w.size \in Nat /\ 2 <= w.count /\ w.count <= w.size /\ w.size <= MaxPages
        /\ {z} \cup {} \subseteq 2 .. w.count - 1 /\ w.free \in {} \cup {0}
    BY <1>6 DEF Filed
  <2>2. /\ s2.count \in Nat /\ s2.size \in Nat /\ 2 <= s2.count /\ s2.count <= s2.size /\ s2.size <= MaxPages
        /\ {z} \cup {} \subseteq 2 .. s2.count - 1 /\ s2.free \in {} \cup {0}
    BY <1>9, <2>1
  <2>3. s2.hdr.count \in Nat /\ s2.hdr.count <= s2.count
    <3>1. w.count <= w.count
      BY <2>1
    <3> QED
      BY <1>9, <2>1, <3>1, Zenon
  <2> QED
    BY <1>9, <2>2, <2>3 DEF Filed
<1>11. Whole(s2, {z}, {})
  BY <1>6, <1>9 DEF Whole
<1>12. Sound(s2.disk, z, {z}, {}) /\ Sizes(s2.disk, z, {z}, t) /\ Heads(s2.disk, {z}, {})
  BY <1>4, <1>6, <1>9, EmptySound
<1>13. s2.hdr.free \in 0 .. MaxPages - 1
  <2>1. w.free = 0
    BY <1>6 DEF Filed
  <2>2. 0 \in 0 .. MaxPages - 1
    BY PageStoreAssumption
  <2> QED
    BY <1>9, <2>1, <2>2
<1>14. Kept(s2, z, t, {z}, {}, FALSE)
  BY <1>4, <1>9, <1>10, <1>11, <1>12, <1>13 DEF Kept
<1>15. Clean(s2, {z}, {})
  BY <1>7, <1>9, <1>12 DEF Clean, Begun
<1> QED
  BY <1>9, <1>14, <1>15 DEF Sane, Planted

\* A file of pages in use is at least two pages long: pager_open reads its header.
LEMMA OldFile ==
  ASSUME size \in Nat, size >= 2
  PROVE  PagerOpen(store) = PagerReadHeader(store)
BY StoreFields DEF PagerOpen

\* A store is still sane when more is excused.
LEMMA SaneWithin ==
  ASSUME NEW s, NEW r, NEW t, NEW T, NEW Y, NEW rf, NEW dg, NEW rf2, NEW dg2, Sane(s, r, t, T, Y, rf, dg),
         rf => rf2, dg => dg2
  PROVE  Sane(s, r, t, T, Y, rf2, dg2)
BY DEF Sane, Kept

\* Stores that agree on their pages are sane alike.
LEMMA AlikeSane ==
  ASSUME NEW s, NEW s2, NEW r, NEW t, NEW T, NEW Y, NEW rf, NEW dg, Sane(s, r, t, T, Y, rf, dg), Alike(s, s2)
  PROVE  Sane(s2, r, t, T, Y, rf, dg)
BY AlikeKept, AlikeBegun DEF Sane, Clean

\* btree_open of a file without a header.
LEMMA OpenBlank ==
  ASSUME NEW t, Degree(t), Blank, NEW o \in program.orders, NEW room, Open(o, room)
  PROVE  \E T, Y : Idling(t, T, Y)'
<1> DEFINE s == PagerOpen(store)
           r == PagerAllocate(s, room)
           s2 == PagerWriteHeader(WriteNode(r.store, r.page, Node(TRUE, << >>, << >>)), o, r.page)
<1>1. o = t /\ t \in Nat /\ t >= 2
  BY DEF Degree
<1>2. PagerCanOpen(store)
  BY DEF Open
<1>3. Created(s)
  BY <1>2, FileCreated
<1>4. ~s.hdr.magic
  BY <1>3 DEF Created, ZeroHeader
<1>5. /\ order' = o /\ r.page # 0 /\ Become(s2) /\ root' = r.page /\ pc' = "idle"
      /\ call' = call /\ at' = at /\ lost' = lost /\ refused' = refused /\ dangling' = dangling
  BY <1>4 DEF Open, frame, ghosts
<1>6. r = PagerAllocate(s, room) /\ s2 = PagerWriteHeader(WriteNode(r.store, r.page, Node(TRUE, << >>, << >>)), o, r.page)
  OBVIOUS
<1> HIDE DEF s, r, s2
<1>7. PICK z : z = r.page
  OBVIOUS
<1>8. Planted(s2, z, t)
  <2>1. o \in Nat /\ o >= 2
    BY <1>1
  <2>2. Planted(s2, r.page, o)
    BY <2>1, <1>3, <1>5, <1>6, FirstNode
  <2> QED
    BY <2>2, <1>1, <1>7
<1>9. Alike(s2, store')
  BY <1>5, <1>8, Became DEF Planted
<1>10. Sane(store', root', t, {z}, {}, refused', dangling')
  <2>1. Sane(s2, z, t, {z}, {}, refused', dangling')
    BY <1>8, SaneWithin DEF Planted
  <2> QED
    BY <1>5, <1>7, <1>9, <2>1, AlikeSane
<1>11. hdr'.root \in {z}
  BY <1>5, <1>8 DEF Become, Planted
<1>12. Idling(t, {z}, {})'
  <2>1. lost' = FALSE /\ call' = NoCall /\ at' = 0 /\ order' = t
    BY <1>1, <1>5 DEF Blank
  <2> QED
    BY <1>5, <1>10, <1>11, <2>1 DEF Idling
<1> QED
  BY <1>12

\* btree_open of a file in order.
LEMMA OpenResting ==
  ASSUME NEW t, Degree(t), NEW T, NEW Y, Resting(t, T, Y), NEW o \in program.orders, NEW room, Open(o, room)
  PROVE  Idling(t, T, Y)'
<1> DEFINE s == PagerReadHeader(store)
<1>1. Read(store, s) /\ store.hdr = hdr /\ store.size = size
  BY StoreFields, HeaderRead DEF Resting
<1>2. Sane(s, hdr.root, t, T, Y, refused, dangling)
  BY DEF Resting
<1>3. s.hdr = hdr /\ s.size = size /\ IsStore(s)
  BY <1>1 DEF Read
<1>4. hdr.magic = TRUE /\ size \in Nat /\ size >= 2 /\ hdr.root \in T
  <2>1. Kept(s, hdr.root, t, T, Y, refused)
    BY <1>2 DEF Sane
  <2>2. s.hdr.magic = TRUE /\ s.size \in Nat /\ s.count \in Nat /\ 2 <= s.count /\ s.count <= s.size
    BY <2>1 DEF Kept, Filed
  <2>3. hdr.root \in T
    BY <2>1, KeptRoot
  <2> QED
    BY <1>3, <2>2, <2>3
<1>5. PagerOpen(store) = s
  BY <1>4, OldFile
<1> HIDE DEF s
<1>6. /\ order' = o /\ Become(s) /\ root' = hdr.root /\ pc' = "idle"
      /\ call' = call /\ at' = at /\ lost' = lost /\ refused' = refused /\ dangling' = dangling
  BY <1>3, <1>4, <1>5 DEF Open, frame, ghosts
<1>7. Alike(s, store')
  BY <1>3, <1>6, Became
<1>8. Sane(store', root', t, T, Y, refused', dangling')
  BY <1>2, <1>6, <1>7, AlikeSane
<1>9. hdr' = hdr /\ o = t
  BY <1>3, <1>6 DEF Become, Degree
<1> QED
  BY <1>4, <1>6, <1>8, <1>9 DEF Idling, Resting

\* btree_open of a file with a header out of date.
LEMMA OpenAstray ==
  ASSUME NEW t, Degree(t), Astray(t), NEW o \in program.orders, NEW room, Open(o, room)
  PROVE  Astray(t)'
<1> DEFINE s == PagerReadHeader(store)
<1>1. Read(store, s) /\ store.hdr = hdr /\ store.size = size /\ store.disk = disk
  BY StoreFields, HeaderRead DEF Astray
<1>2. /\ size \in Nat /\ size >= 2 /\ hdr.magic = TRUE /\ size <= MaxPages /\ hdr.count \in Nat /\ hdr.count <= size
      /\ MaxPages \in Nat
  BY PageStoreAssumption DEF Astray
<1>3. PagerOpen(store) = s
  BY <1>2, OldFile
<1>4. Larger(hdr.count, size) = size
  BY <1>2 DEF Larger
<1>5. s.hdr = hdr /\ s.size = size /\ s.disk = disk /\ s.count = size /\ s.free = hdr.free /\ IsStore(s)
  BY <1>1, <1>4 DEF Read
<1> HIDE DEF s
<1>6. /\ order' = o /\ Become(s) /\ root' = hdr.root /\ pc' = "idle"
      /\ call' = call /\ at' = at /\ lost' = lost
  BY <1>2, <1>3, <1>5 DEF Open, frame, ghosts
<1>7. Alike(s, store')
  BY <1>5, <1>6, Became
<1>8. hdr' = hdr /\ size' = size /\ disk' = disk /\ count' = size /\ free' = hdr.free /\ o = t
  BY <1>5, <1>6 DEF Become, Degree
<1>9. IsStore(store')
  BY <1>7 DEF Alike
<1> QED
  BY <1>6, <1>8, <1>9 DEF Astray

\* btree_open of a new file that cannot be extended.
LEMMA OpenFailsBlank ==
  ASSUME Blank, NEW room, OpenFails(room)
  PROVE  Blank'
<1> DEFINE s == PagerOpen(store)
           r == PagerAllocate(s, room)
<1>1. /\ PagerCanOpen(store) /\ r.page = 0 /\ Become(HandleLost(r.store))
      /\ pc' = pc /\ lost' = lost /\ call' = call /\ at' = at
  BY DEF OpenFails, frame
<1>2. Created(s)
  BY <1>1, FileCreated
<1>3. Filed(s, {}, {}) /\ Chained(s.disk, s.free, 0, {}, {}, {})
  BY <1>2, CreatedFiled
<1>4. Serves(s, r, 0, {}, {}, {}, {})
  BY <1>3, AllocationServes
<1>5. Filed(r.store, {}, {}) /\ r.store.hdr = s.hdr
  BY <1>1, <1>4 DEF Serves, Refused
<1>6. IsStore(r.store) /\ r.store.size \in Nat /\ r.store.size <= MaxPages /\ r.store.hdr = ZeroHeader
  BY <1>2, <1>5 DEF Filed, Created
<1> HIDE DEF s, r
<1>7. LeftOver(r.store, HandleLost(r.store))
  BY <1>6, HandleGone
<1>8. /\ hdr' = ZeroHeader /\ size' = r.store.size /\ disk' = r.store.disk /\ count' = 0 /\ free' = 0
  BY <1>1, <1>6, <1>7 DEF LeftOver, Become
<1>9. PageNums \subseteq DOMAIN disk'
  BY <1>6, <1>8 DEF IsStore
<1>10. size' \in 0 .. MaxPages
  BY <1>6, <1>8, PageStoreAssumption
<1> QED
  BY <1>1, <1>8, <1>9, <1>10 DEF Blank

\* It is only a new file that fails to open.
LEMMA OpenFailsNew ==
  ASSUME NEW t, NEW room, OpenFails(room), Astray(t) \/ \E T, Y : Resting(t, T, Y)
  PROVE  FALSE
<1>1. ~PagerOpen(store).hdr.magic
  BY DEF OpenFails
<1>2. size \in Nat /\ size >= 2 /\ hdr.magic = TRUE /\ IsStore(store)
  <2>1. CASE Astray(t)
    BY <2>1 DEF Astray
  <2>2. ASSUME NEW T, NEW Y, Resting(t, T, Y) PROVE size \in Nat /\ size >= 2 /\ hdr.magic = TRUE /\ IsStore(store)
    <3>1. Read(store, PagerReadHeader(store)) /\ store.hdr = hdr /\ store.size = size
      BY <2>2, StoreFields, HeaderRead DEF Resting
    <3>2. Filed(PagerReadHeader(store), T, Y) /\ PagerReadHeader(store).hdr.magic = TRUE
      BY <2>2 DEF Resting, Sane, Kept
    <3> QED
      BY <2>2, <3>1, <3>2 DEF Read, Filed, Resting
  <2> QED
    BY <2>1, <2>2
<1>3. Read(store, PagerReadHeader(store)) /\ store.hdr = hdr
  BY <1>2, StoreFields, HeaderRead
<1> QED
  BY <1>1, <1>2, <1>3, OldFile DEF Read

\* btree_close writes the header first.
LEMMA CloseIdling ==
  ASSUME NEW t, NEW T, NEW Y, Idling(t, T, Y), Close
  PROVE  Resting(t, T, Y)'
<1> DEFINE s == PagerWriteHeader(store, order, root)
<1>1. Sane(store, root, t, T, Y, refused, dangling) /\ Kept(store, root, t, T, Y, refused)
  BY DEF Idling, Sane
<1>2. IsStore(store) /\ root \in T
  BY <1>1, KeptRoot
<1>3. Headed(store, s, order, root)
  BY <1>2, HeaderWritten
<1>4. /\ Become(HandleLost(s)) /\ lost' = (lost \/ s.hdr.root # root \/ s.hdr.free # free) /\ pc' = "closed"
      /\ call' = call /\ at' = at /\ refused' = refused /\ dangling' = dangling
  BY DEF Close, DropHandle, frame
<1> HIDE DEF s
<1>5. IsStore(s) /\ s.hdr.root = root /\ s.hdr.free = free /\ s.free = free
  BY <1>3, StoreFields DEF Headed
<1>6. lost' = FALSE
  BY <1>4, <1>5 DEF Idling
<1>7. LeftOver(s, HandleLost(s))
  BY <1>5, HandleGone
<1>8. Alike(HandleLost(s), store')
  BY <1>4, <1>7, Became DEF LeftOver
<1>9. /\ store'.hdr = s.hdr /\ store'.size = s.size /\ store'.disk = s.disk /\ IsStore(store')
      /\ count' = 0 /\ free' = 0 /\ hdr'.root = root
  BY <1>4, <1>5, <1>7, <1>8 DEF LeftOver, Alike, Become
<1>10. Read(store', PagerReadHeader(store'))
  BY <1>9, HeaderRead
<1>11. Kept(s, root, t, T, Y, refused) /\ (dangling \/ Clean(s, T, Y))
  BY <1>1, <1>2, <1>3, HeadedKept, HeadedBegun DEF Sane, Clean
<1>12. /\ Kept(PagerReadHeader(store'), root, t, T, Y, refused)
       /\ PagerReadHeader(store').free = s.free /\ PagerReadHeader(store').disk = s.disk
  BY <1>5, <1>9, <1>10, <1>11, ReadKept
<1>13. dangling \/ Clean(PagerReadHeader(store'), T, Y)
  BY <1>11, <1>12 DEF Clean, Begun
<1>14. Sane(PagerReadHeader(store'), hdr'.root, t, T, Y, refused', dangling')
  BY <1>4, <1>9, <1>12, <1>13 DEF Sane
<1> QED
  BY <1>4, <1>6, <1>9, <1>14 DEF Resting, Idling

\* btree_close of a file with a header that was out of date.
LEMMA CloseAstray ==
  ASSUME NEW t, Astray(t), Close
  PROVE  Astray(t)'
<1> DEFINE s == PagerWriteHeader(store, order, root)
<1>1. /\ pc = "idle" /\ IsStore(store) /\ size \in 2 .. MaxPages /\ count = size /\ root = hdr.root
      /\ free \in 0 .. MaxPages - 1 /\ lost = TRUE /\ root \in DataPages /\ disk[root].kind = "node"
  BY DEF Close, Astray
<1>2. Headed(store, s, order, root)
  BY <1>1, HeaderWritten
<1>3. /\ Become(HandleLost(s)) /\ lost' = (lost \/ s.hdr.root # root \/ s.hdr.free # free) /\ pc' = "closed"
      /\ call' = call /\ at' = at
  BY DEF Close, DropHandle, frame
<1> HIDE DEF s
<1>4. /\ IsStore(s) /\ s.hdr.root = root /\ s.hdr.free = free /\ s.hdr.magic = TRUE /\ s.hdr.count = count
      /\ s.size = size /\ s.disk = disk
  BY <1>2, StoreFields DEF Headed
<1>5. lost' = TRUE
  BY <1>1, <1>3
<1>6. LeftOver(s, HandleLost(s))
  BY <1>4, HandleGone
<1>7. Alike(HandleLost(s), store')
  BY <1>3, <1>6, Became DEF LeftOver
<1>8. /\ hdr' = s.hdr /\ size' = size /\ disk' = disk /\ IsStore(store') /\ count' = 0 /\ free' = 0
  BY <1>3, <1>4, <1>6, <1>7 DEF LeftOver, Alike, Become
<1>9. size \in 0 .. size
  BY <1>1, PageStoreAssumption
<1> QED
  BY <1>1, <1>3, <1>4, <1>5, <1>8, <1>9 DEF Astray

\* A crash leaves the header as it was: up to date or not.
LEMMA CrashIdling ==
  ASSUME NEW t, NEW T, NEW Y, Idling(t, T, Y), Crash
  PROVE  Resting(t, T, Y)' \/ Astray(t)'
<1>1. Sane(store, root, t, T, Y, refused, dangling) /\ Kept(store, root, t, T, Y, refused)
  BY DEF Idling, Sane
<1>2. IsStore(store)
  BY <1>1, KeptRoot
<1>3. /\ Become(HandleLost(store)) /\ lost' = (lost \/ hdr.root # root \/ hdr.free # free) /\ pc' = "closed"
      /\ call' = call /\ at' = at /\ refused' = refused /\ dangling' = dangling
  BY StoreFields DEF Crash, DropHandle, frame
<1>4. LeftOver(store, HandleLost(store))
  BY <1>2, HandleGone
<1>5. Alike(HandleLost(store), store')
  BY <1>3, <1>4, Became DEF LeftOver
<1>6. /\ store'.hdr = store.hdr /\ store'.size = store.size /\ store'.disk = store.disk /\ IsStore(store')
      /\ hdr' = hdr /\ size' = size /\ disk' = disk /\ count' = 0 /\ free' = 0
  BY <1>3, <1>4, <1>5, StoreFields DEF LeftOver, Alike, Become
<1>7. CASE hdr.root = root /\ hdr.free = free
  <2>1. lost' = FALSE
    BY <1>3, <1>7 DEF Idling
  <2>2. Read(store', PagerReadHeader(store'))
    BY <1>6, HeaderRead
  <2>3. store.hdr.free = store.free
    BY <1>7, StoreFields
  <2>4. /\ Kept(PagerReadHeader(store'), root, t, T, Y, refused)
        /\ PagerReadHeader(store').free = store.free /\ PagerReadHeader(store').disk = store.disk
    BY <1>1, <1>6, <2>2, <2>3, ReadKept
  <2>5. dangling \/ Clean(PagerReadHeader(store'), T, Y)
    BY <1>1, <2>4 DEF Clean, Begun, Sane
  <2>6. Sane(PagerReadHeader(store'), hdr'.root, t, T, Y, refused', dangling')
    BY <1>3, <1>6, <1>7, <2>4, <2>5 DEF Sane
  <2> QED
    BY <1>3, <1>6, <2>1, <2>6 DEF Resting, Idling
<1>8. CASE ~(hdr.root = root /\ hdr.free = free)
  <2>1. lost' = TRUE
    BY <1>3, <1>8
  <2>2. hdr.root \in DataPages /\ disk[hdr.root].kind = "node" /\ hdr.magic = TRUE /\ hdr.free \in 0 .. MaxPages - 1
    <3>1. hdr.root \in T
      BY DEF Idling
    <3>2. hdr.root \in DataPages /\ store.disk[hdr.root].kind = "node"
      BY <1>1, <3>1, KeptRoot
    <3> QED
      BY <1>1, <3>2, StoreFields DEF Kept
  <2>3. size \in 2 .. MaxPages /\ hdr.count \in 0 .. size
    <3>1. /\ count \in Nat /\ size \in Nat /\ 2 <= count /\ count <= size /\ size <= MaxPages
          /\ hdr.count \in Nat /\ hdr.count <= count
      BY <1>1, StoreFields DEF Kept, Filed
    <3> QED
      BY <3>1, PageStoreAssumption
  <2> QED
    BY <1>3, <1>6, <2>1, <2>2, <2>3 DEF Astray, Idling
<1> QED
  BY <1>7, <1>8

\* A crash leaves what is astray astray.
LEMMA CrashAstray ==
  ASSUME NEW t, Astray(t), Crash
  PROVE  Astray(t)'
<1>1. IsStore(store) /\ lost = TRUE
  BY DEF Astray
<1>2. /\ Become(HandleLost(store)) /\ lost' = (lost \/ hdr.root # root \/ hdr.free # free) /\ pc' = "closed"
      /\ call' = call /\ at' = at
  BY StoreFields DEF Crash, DropHandle, frame
<1>3. LeftOver(store, HandleLost(store))
  BY <1>1, HandleGone
<1>4. Alike(HandleLost(store), store')
  BY <1>2, <1>3, Became DEF LeftOver
<1>5. /\ IsStore(store') /\ hdr' = hdr /\ size' = size /\ disk' = disk /\ count' = 0 /\ free' = 0
  BY <1>2, <1>3, <1>4, StoreFields DEF LeftOver, Alike, Become
<1>6. lost' = TRUE
  BY <1>1, <1>2
<1> QED
  BY <1>2, <1>5, <1>6 DEF Astray

\* A search answers, whatever it finds.
LEMMA SearchAnswers ==
  ASSUME NEW s, NEW r, NEW k
  PROVE  Search(s, r, k).status \in {"OK", "ERR", "NOTFOUND"}
<1>1. \A p : OverflowRead(s, p).status \in {"OK", "ERR"}
  BY DEF OverflowRead
<1>2. \A c : CellRead(s, c).status \in {"OK", "ERR"}
  BY <1>1 DEF CellRead
<1> QED
  BY <1>2 DEF Search

\* btree_search changes nothing.
LEMMA LookupKeeps ==
  ASSUME NEW t, Phase(t), NEW k, Lookup(k)
  PROVE  Phase(t)' /\ ret'.status \in {"OK", "ERR", "NOTFOUND"}
<1>1. ret'.status \in {"OK", "ERR", "NOTFOUND"}
  BY SearchAnswers DEF Lookup
<1>2. pc = "idle" /\ UNCHANGED storeVars
  BY DEF Lookup
<1>3. /\ store' = store /\ hdr' = hdr /\ size' = size /\ disk' = disk /\ count' = count /\ free' = free
  BY <1>2, StaysAlike
<1>4. /\ order' = order /\ root' = root /\ pc' = pc /\ call' = call /\ at' = at
      /\ lost' = lost /\ dangling' = dangling /\ refused' = refused
  BY DEF Lookup, handle, frame, ghosts
<1>5. ASSUME Astray(t) PROVE Astray(t)'
  BY <1>3, <1>4, <1>5 DEF Astray
<1>6. ASSUME NEW T, NEW Y, Idling(t, T, Y) PROVE Idling(t, T, Y)'
  BY <1>3, <1>4, <1>6 DEF Idling
<1>7. Astray(t) \/ \E T, Y : Idling(t, T, Y)
  BY <1>2 DEF Phase, Blank, Resting, Inserting, Writing, Deleting, Freeing, Returning
<1> QED
  BY <1>1, <1>5, <1>6, <1>7 DEF Phase

\* The call returns: btree_delete writes the header first.
LEMMA ReturnReturning ==
  ASSUME NEW t, NEW T, NEW Y, Returning(t, T, Y), Return
  PROVE  Idling(t, T, Y)' /\ ret'.status \in {"OK", "EXISTS", "NOTFOUND", "ERR"}
<1>1. Sane(store, root, t, T, Y, refused, dangling) /\ Kept(store, root, t, T, Y, refused)
  BY DEF Returning, Sane
<1>2. IsStore(store) /\ root \in T
  BY <1>1, KeptRoot
<1>3. /\ pc' = "idle" /\ call' = NoCall /\ at' = 0 /\ ret' = [status |-> result]
      /\ order' = order /\ root' = root /\ lost' = lost /\ dangling' = dangling /\ refused' = refused
  BY DEF Return, Idle, handle, ghosts
<1>4. ret'.status \in {"OK", "EXISTS", "NOTFOUND", "ERR"}
  BY <1>3 DEF Returning
<1>5. Sane(store', root, t, T, Y, refused, dangling) /\ hdr'.root \in T
  <2>1. CASE call.op = "delete"
    <3> DEFINE s == PagerWriteHeader(store, order, root)
    <3>1. Headed(store, s, order, root)
      BY <1>2, HeaderWritten
    <3>2. Become(s)
      BY <2>1 DEF Return
    <3> HIDE DEF s
    <3>3. IsStore(s) /\ s.hdr.root = root
      BY <3>1 DEF Headed
    <3>4. Sane(s, root, t, T, Y, refused, dangling)
      BY <1>1, <1>2, <3>1, HeadedKept, HeadedBegun DEF Sane, Clean
    <3>5. Alike(s, store')
      BY <3>2, <3>3, Became
    <3>6. hdr'.root = root
      BY <3>2, <3>3 DEF Become
    <3> QED
      BY <1>2, <3>4, <3>5, <3>6, AlikeSane
  <2>2. CASE call.op # "delete"
    <3>1. hdr.root \in T
      BY <2>2 DEF Returning
    <3>2. Become(store)
      BY <2>2 DEF Return
    <3>3. Alike(store, store') /\ hdr' = hdr
      BY <1>2, <3>2, Became, StoreFields DEF Become
    <3> QED
      BY <1>1, <3>1, <3>3, AlikeSane
  <2> QED
    BY <2>1, <2>2
<1>6. Idling(t, T, Y)'
  BY <1>3, <1>5 DEF Idling, Returning
<1> QED
  BY <1>4, <1>6

\* btree_delete starts at the root.
LEMMA DeleteIdling ==
  ASSUME NEW t, Degree(t), NEW T, NEW Y, Idling(t, T, Y), NEW k \in program.keys, Delete(k)
  PROVE  Deleting(t, T, Y)'
<1>1. UNCHANGED storeVars
  BY DEF Delete
<1>2. store' = store /\ hdr' = hdr /\ disk' = disk
  BY <1>1, StaysAlike
<1>3. /\ call' = [op |-> "delete", key |-> k] /\ target' = k /\ pc' = "delete" /\ at' = root
      /\ order' = order /\ root' = root /\ lost' = lost /\ dangling' = dangling /\ refused' = refused
  BY DEF Delete, handle, ghosts
<1>4. k \in Nat
  BY BTreeAssumption DEF Degree
<1>5. root \in T
  BY KeptRoot DEF Idling, Sane
<1>6. Spare(disk', root', T, t, at')
  BY <1>3, <1>5 DEF Spare
<1> QED
  BY <1>2, <1>3, <1>4, <1>6 DEF Deleting, Idling

\* btree_insert of a key that is there.
LEMMA ExistsInserting ==
  ASSUME NEW t, NEW T, NEW Y, Inserting(t, T, Y), InsertExists
  PROVE  Returning(t, T, Y)'
<1>1. UNCHANGED storeVars
  BY DEF InsertExists
<1>2. store' = store /\ hdr' = hdr /\ disk' = disk
  BY <1>1, StaysAlike
<1>3. /\ pc' = "return" /\ result' = "EXISTS" /\ call' = call /\ at' = at
      /\ order' = order /\ root' = root /\ lost' = lost /\ dangling' = dangling /\ refused' = refused
  BY DEF InsertExists, Answer, handle, ghosts
<1>4. at \in T
  BY DEF Inserting, Room
<1> QED
  BY <1>2, <1>3, <1>4 DEF Returning, Inserting, Sane

--------------------------------------------------------------------------------
\* Insertion.

\* A page that cannot be had: the file may be longer, and nothing else has changed.
LEMMA RefusedKept ==
  ASSUME NEW s, NEW s2, NEW r, NEW t, NEW T, NEW Y, NEW rf, Kept(s, r, t, T, Y, rf), Refused(s, s2, T, Y)
  PROVE  Kept(s2, r, t, T, Y, TRUE) /\ s2.disk = s.disk /\ s2.hdr = s.hdr /\ IsStore(s2)
BY DEF Kept, Refused, Filed

\* A refused allocation leaves the chains alone.
LEMMA RefusedBegun ==
  ASSUME NEW s, NEW s2, NEW x, NEW E, NEW T, NEW Y, Begun(s, x, E, T, Y), Refused(s, s2, T, Y)
  PROVE  Begun(s2, x, E, T, Y)
BY DEF Begun, Refused

\* A store is still kept when a refusal excuses it.
LEMMA KeptWithin ==
  ASSUME NEW s, NEW r, NEW t, NEW T, NEW Y, NEW rf, NEW rf2, Kept(s, r, t, T, Y, rf), rf => rf2
  PROVE  Kept(s, r, t, T, Y, rf2)
BY DEF Kept

\* A root that is full gets a new root above it.
RootRaised(s, s2, r, t, H, T, Y, z, Y2) ==
  /\ z \in DataPages /\ z \notin T /\ z \notin Y2
  /\ Sound(s2.disk, z, T \cup {z}, Y2) /\ Near(s2.disk, z, T \cup {z}, t, z)
  /\ Filed(s2, T \cup {z}, Y2) /\ (Whole(s, T, Y) => Whole(s2, T \cup {z}, Y2))
  /\ Heads(s2.disk, T \cup {z}, H) /\ Chained(s2.disk, s2.free, 0, {}, H, Y2) /\ H \subseteq Y2
  /\ SameHeader(s, s2)
  /\ s2.disk[z].leaf = FALSE /\ Len(s2.disk[z].kids) = 1 /\ s2.disk[z].kids[1] = r /\ Len(s2.disk[z].cells) = 0
  /\ \A q \in T : s2.disk[q] = s.disk[q]

\* A full root gets a new root above it, on the page just taken.
LEMMA RaisedStore ==
  ASSUME NEW s, NEW r, NEW t \in Nat, t >= 2, NEW T, NEW Y, NEW H, NEW z, NEW s1, NEW Y2,
         Sound(s.disk, r, T, Y), Sizes(s.disk, r, T, t), r \in T, Len(s.disk[r].cells) = 2 * t - 1,
         Heads(s.disk, T, H), Took(s, s1, z, 0, {}, H, T, Y, Y2)
  PROVE  RootRaised(s, WriteNode(s1, z, Node(FALSE, << >>, <<r>>)), r, t, H, T, Y, z, Y2)
<1> DEFINE d == s.disk
           above == Node(FALSE, << >>, <<r>>)
           s2 == WriteNode(s1, z, above)
           U == T \cup {z}
<1>1. /\ z \in DataPages /\ z \notin T /\ z \notin Y2 /\ Filed(s1, U, Y2)
      /\ Whole(s, T, Y) => Whole(s1, U, Y2)
      /\ Chained(s1.disk, s1.free, 0, {}, H, Y2) /\ H \subseteq Y2
      /\ \A q \in T \cup Y2 : s1.disk[q] = d[q]
      /\ SameHeader(s, s1)
  BY DEF Took
<1>2. TreeWrote(s1, s2, U, Y2, z, above)
  <2>1. z \in U
    OBVIOUS
  <2> HIDE DEF above, U
  <2> QED
    BY <1>1, <2>1, TreeWrites
<1> SUFFICES RootRaised(s, s2, r, t, H, T, Y, z, Y2)
  OBVIOUS
<1> HIDE DEF s2
<1>3. /\ Filed(s2, U, Y2) /\ (Whole(s, T, Y) => Whole(s2, U, Y2))
      /\ s2.free = s1.free /\ s2.hdr = s1.hdr
      /\ s2.disk[z] = above /\ \A q \in T \cup Y2 : s2.disk[q] = d[q]
  BY <1>1, <1>2 DEF TreeWrote
<1>4. RaisedOf(d, s2.disk, T, r, z)
  BY <1>1, <1>3 DEF RaisedOf
<1> HIDE DEF above
<1>5. Sound(d, r, T, Y2)
  <2>1. HeadsIn(d, T, Y2)
    BY <1>1, HeadsAre
  <2> QED
    BY <2>1, SoundWithin
<1>6. RaiseKeeps(d, s2.disk, T, r, z, Y2)
  BY <1>4, <1>5, RaisedSound
<1>7. Sound(s2.disk, z, U, Y2) /\ Heads(s2.disk, U, H)
  BY <1>6 DEF RaiseKeeps
<1>8. Above(s2.disk, T, r, z)
  BY <1>4, RaisedFields
<1>9. s2.disk[z].leaf = FALSE /\ Len(s2.disk[z].kids) = 1 /\ s2.disk[z].kids[1] = r /\ Len(s2.disk[z].cells) = 0
  BY <1>8 DEF Above
<1>10. Near(s2.disk, z, U, t, z)
  <2> SUFFICES ASSUME NEW q \in U
               PROVE  /\ Len(s2.disk[q].cells) <= 2 * t - 1
                      /\ q # z => Len(s2.disk[q].cells) >= t - 1
                      /\ q # z /\ ~s2.disk[q].leaf => Len(s2.disk[q].cells) >= 1
    BY DEF Near
  <2>1. CASE q = z
    BY <1>9, <2>1
  <2>2. CASE q = r /\ q \in T
    BY <1>3, <2>2 DEF Sizes
  <2>3. CASE q \in T /\ q # r
    BY <1>3, <2>3 DEF Sizes
  <2> QED
    BY <2>1, <2>2, <2>3
<1>11. Chained(s2.disk, s2.free, 0, {}, H, Y2)
  <2>1. \A y \in Y2 : s2.disk[y].word = s1.disk[y].word
    BY <1>1, <1>3
  <2> QED
    BY <1>1, <1>3, <2>1, ChainedFrame
<1>12. SameHeader(s, s2)
  BY <1>1, <1>3 DEF SameHeader
<1> QED
  BY <1>1, <1>3, <1>7, <1>9, <1>10, <1>11, <1>12 DEF RootRaised

\* Anything belongs below the root.
LEMMA RootRoom ==
  ASSUME NEW d, NEW r, NEW t, NEW T, NEW Y, Sound(d, r, T, Y), NEW k \in Nat, Len(d[r].cells) # 2 * t - 1
  PROVE  Room(d, T, t, r, k)
<1>1. Nodes(d, T) /\ Slots(d, r, T) /\ \E R : OrderedBy(d, T, R)
  BY DEF Sound, Orderly
<1>2. PICK R : OrderedBy(d, T, R)
  BY <1>1
<1>3. \E R2 : OrderedBy(d, T, R2) /\ r \in T /\ k \in R2[r]
  BY <1>1, <1>2, RootWidened
<1> QED
  BY <1>3 DEF Room

\* btree_insert starts at a root with room.
LEMMA InsertAtRoot ==
  ASSUME NEW t, Degree(t), NEW T, NEW Y, Idling(t, T, Y), NEW k \in program.keys, NEW v \in program.vals,
         ~dangling, ~Full(disk[root]), UNCHANGED storeVars, UNCHANGED root, pc' = "insert", at' = root,
         call' = [op |-> "insert", key |-> k, value |-> v], target' = k,
         refused => refused', order' = order, lost' = lost, dangling' = dangling
  PROVE  Inserting(t, T, Y)'
<1>1. store' = store /\ hdr' = hdr /\ disk' = disk
  BY StaysAlike
<1>2. Kept(store, root, t, T, Y, refused) /\ Clean(store, T, Y) /\ hdr.root \in T /\ order = t /\ lost = FALSE
  BY DEF Idling, Sane
<1>3. k \in Keys /\ k \in Nat /\ v \in Vals
  BY BTreeAssumption DEF Degree
<1>4. Room(disk, T, t, root, k)
  <2>1. Sound(disk, root, T, Y)
    BY <1>2, StoreFields DEF Kept
  <2>2. Len(disk[root].cells) # 2 * t - 1
    BY <1>2 DEF Full, MaxKeys
  <2> QED
    BY <1>3, <2>1, <2>2, RootRoom
<1>5. Kept(store', root', t, T, Y, refused')
  BY <1>1, <1>2, KeptWithin
<1>6. call'.op = "insert" /\ call'.value = v
  OBVIOUS
<1> QED
  BY <1>1, <1>2, <1>3, <1>4, <1>5, <1>6 DEF Inserting

\* btree_insert has no page for a new root.
LEMMA InsertNoRoot ==
  ASSUME NEW t, NEW T, NEW Y, Idling(t, T, Y), NEW k, NEW v, NEW room,
         ~dangling, PagerAllocate(store, room).page = 0, Become(PagerAllocate(store, room).store),
         UNCHANGED root, pc' = "return", result' = "ERR", at' = at,
         call' = [op |-> "insert", key |-> k, value |-> v],
         refused', order' = order, lost' = lost, dangling' = dangling
  PROVE  Returning(t, T, Y)'
<1> DEFINE al == PagerAllocate(store, room)
<1>1. Kept(store, root, t, T, Y, refused) /\ Clean(store, T, Y) /\ hdr.root \in T /\ order = t /\ lost = FALSE /\ at = 0
  BY DEF Idling, Sane
<1>2. PICK H : Heads(store.disk, T, H) /\ Chained(store.disk, store.free, 0, {}, H, Y)
  BY <1>1 DEF Clean, Begun
<1>3. Serves(store, al, 0, {}, H, T, Y)
  BY <1>1, <1>2, AllocationServes DEF Kept
<1>4. Refused(store, al.store, T, Y)
  BY <1>3 DEF Serves
<1>5. Become(al.store)
  OBVIOUS
<1> HIDE DEF al
<1>6. Kept(al.store, root, t, T, Y, TRUE) /\ al.store.hdr = store.hdr /\ IsStore(al.store)
  BY <1>1, <1>4, RefusedKept
<1>7. Clean(al.store, T, Y)
  BY <1>1, <1>4, RefusedBegun DEF Clean
<1>8. Alike(al.store, store')
  BY <1>5, <1>6, Became
<1>9. Sane(store', root', t, T, Y, refused', dangling')
  <2>1. Sane(al.store, root, t, T, Y, TRUE, dangling)
    BY <1>6, <1>7 DEF Sane
  <2>2. Sane(al.store, root, t, T, Y, refused', dangling')
    BY <2>1, SaneWithin
  <2> QED
    BY <2>2, <1>8, AlikeSane
<1>10. hdr' = hdr
  BY <1>5, <1>6, StoreFields DEF Become
<1>11. call'.op = "insert"
  OBVIOUS
<1> QED
  BY <1>1, <1>9, <1>10, <1>11 DEF Returning

\* A store in which a node was split, seen as a store that holds the tree.
LEMMA SplitSane ==
  ASSUME NEW s, NEW s2, NEW r, NEW t, NEW H, NEW T, NEW Y, NEW p, NEW i, NEW a, NEW z, NEW Y2, NEW rf,
         SplitDone(s, s2, r, t, H, T, Y, p, i, a, z, Y2), rf \/ Whole(s, T, Y),
         s.hdr.magic = TRUE, s.hdr.root \in DataPages, s.hdr.free \in 0 .. MaxPages - 1
  PROVE  Kept(s2, r, t, T \cup {z}, Y2, rf) /\ Clean(s2, T \cup {z}, Y2) /\ IsStore(s2)
<1>1. /\ Sound(s2.disk, r, T \cup {z}, Y2) /\ Sizes(s2.disk, r, T \cup {z}, t)
      /\ Filed(s2, T \cup {z}, Y2) /\ (Whole(s, T, Y) => Whole(s2, T \cup {z}, Y2))
      /\ Heads(s2.disk, T \cup {z}, H) /\ Chained(s2.disk, s2.free, 0, {}, H, Y2)
      /\ SameHeader(s, s2)
  BY DEF SplitDone
<1>2. Kept(s2, r, t, T \cup {z}, Y2, rf)
  BY <1>1 DEF Kept, SameHeader
<1>3. IsStore(s2)
  BY <1>1 DEF Filed
<1> QED
  BY <1>1, <1>2, <1>3 DEF Clean, Begun

\* btree_insert splits a full root: the tree is one level higher.
LEMMA InsertRootSplit ==
  ASSUME NEW t, Degree(t), NEW T, NEW Y, Idling(t, T, Y), NEW k \in program.keys, NEW v \in program.vals,
         NEW room2, NEW z, NEW s1, NEW s2, NEW H, NEW Y2, NEW sp,
         ~dangling, RootRaised(store, s2, root, t, H, T, Y, z, Y2), Len(disk[root].cells) = 2 * t - 1,
         sp = SplitChild(s2, z, 1, room2), sp.ok, Become(sp.store),
         root' = z, pc' = "insert", at' = z,
         call' = [op |-> "insert", key |-> k, value |-> v], target' = k,
         refused => refused', order' = order, lost' = lost, dangling' = dangling
  PROVE  \E T2, Y3 : Inserting(t, T2, Y3)'
<1>1. Kept(store, root, t, T, Y, refused) /\ hdr.root \in T /\ order = t /\ lost = FALSE /\ t \in Nat /\ t >= 2
  BY DEF Idling, Sane, Degree
<1>2. /\ z \in DataPages /\ z \notin T
      /\ Sound(s2.disk, z, T \cup {z}, Y2) /\ Near(s2.disk, z, T \cup {z}, t, z)
      /\ Filed(s2, T \cup {z}, Y2) /\ (Whole(store, T, Y) => Whole(s2, T \cup {z}, Y2))
      /\ Heads(s2.disk, T \cup {z}, H) /\ Chained(s2.disk, s2.free, 0, {}, H, Y2)
      /\ SameHeader(store, s2)
      /\ s2.disk[z].leaf = FALSE /\ Len(s2.disk[z].kids) = 1 /\ s2.disk[z].kids[1] = root
      /\ Len(s2.disk[z].cells) = 0 /\ \A q \in T : s2.disk[q] = store.disk[q]
  BY DEF RootRaised
<1>3. root \in T /\ Len(s2.disk[root].cells) = 2 * t - 1
  BY <1>1, <1>2, KeptRoot, StoreFields, SMTT(60)
<1>4. SplitServes(s2, sp, z, t, H, T \cup {z}, Y2, z, 1, root)
  <2>1. z \in T \cup {z} /\ root \in T \cup {z}
    BY <1>3
  <2>2. 1 \in 1 .. Len(s2.disk[z].kids) /\ Len(s2.disk[z].cells) < 2 * t - 1
    BY <1>1, <1>2
  <2> QED
    BY <1>1, <1>2, <1>3, <2>1, <2>2, SplitStore
<1>5. PICK y, Y3 : SplitDone(s2, sp.store, z, t, H, T \cup {z}, Y2, z, 1, root, y, Y3)
  BY <1>4 DEF SplitServes
<1>6. refused \/ Whole(s2, T \cup {z}, Y2)
  BY <1>1, <1>2 DEF Kept
<1>7. /\ s2.hdr.magic = TRUE /\ s2.hdr.root \in DataPages /\ s2.hdr.free \in 0 .. MaxPages - 1
      /\ s2.hdr.root = hdr.root
  BY <1>1, <1>2, StoreFields DEF Kept, SameHeader
<1> DEFINE U == T \cup {z} \cup {y}
<1>8. Kept(sp.store, z, t, U, Y3, refused) /\ Clean(sp.store, U, Y3) /\ IsStore(sp.store)
  BY <1>5, <1>6, <1>7, SplitSane
<1>9. Alike(sp.store, store')
  BY <1>8, Became
<1>10. Kept(store', z, t, U, Y3, refused') /\ Clean(store', U, Y3)
  <2>1. Kept(sp.store, z, t, U, Y3, refused')
    BY <1>8, KeptWithin
  <2> QED
    BY <1>8, <1>9, <2>1, AlikeKept, AlikeBegun DEF Clean
<1>11. disk' = sp.store.disk /\ hdr'.root \in U
  <2>1. sp.store.hdr.root = s2.hdr.root
    BY <1>5 DEF SplitDone, SameHeader
  <2> QED
    BY <1>1, <1>7, <2>1 DEF Become
<1>12. k \in Keys /\ k \in Nat /\ v \in Vals
  BY BTreeAssumption DEF Degree
<1>13. Room(disk', U, t, z, k)
  <2>1. Len(sp.store.disk[z].cells) = 1
    BY <1>2, <1>5 DEF SplitDone
  <2>2. Len(sp.store.disk[z].cells) # 2 * t - 1
    <3>1. t \in Nat /\ t >= 2
      BY <1>1
    <3>2. 2 * t - 1 # 1
      BY <3>1
    <3> QED
      BY <2>1, <3>2
  <2>3. Sound(sp.store.disk, z, U, Y3)
    BY <1>8 DEF Kept
  <2> QED
    BY <1>11, <1>12, <2>2, <2>3, RootRoom
<1>14. call'.op = "insert" /\ call'.value = v
  OBVIOUS
<1>15. Inserting(t, U, Y3)'
  BY <1>1, <1>10, <1>11, <1>12, <1>13, <1>14 DEF Inserting
<1> QED
  BY <1>15

\* There is a page for the new root, and none for the other half of the old one: the new root
\* is lost.
LEMMA InsertNoHalf ==
  ASSUME NEW t, Degree(t), NEW T, NEW Y, Idling(t, T, Y), NEW k, NEW v,
         NEW room2, NEW z, NEW s2, NEW H, NEW Y2, NEW sp,
         ~dangling, RootRaised(store, s2, root, t, H, T, Y, z, Y2), Len(disk[root].cells) = 2 * t - 1,
         Heads(disk, T, H), sp = SplitChild(s2, z, 1, room2), ~sp.ok, Become(sp.store),
         UNCHANGED root, pc' = "return", result' = "ERR", at' = at,
         call' = [op |-> "insert", key |-> k, value |-> v],
         refused', order' = order, lost' = lost, dangling' = dangling
  PROVE  Returning(t, T, Y2)'
<1>1. /\ Kept(store, root, t, T, Y, refused) /\ hdr.root \in T /\ order = t /\ lost = FALSE /\ t \in Nat /\ t >= 2
      /\ at = 0
  BY DEF Idling, Sane, Degree
<1>2. /\ z \in DataPages /\ z \notin T /\ H \subseteq Y2
      /\ Sound(s2.disk, z, T \cup {z}, Y2) /\ Near(s2.disk, z, T \cup {z}, t, z)
      /\ Filed(s2, T \cup {z}, Y2)
      /\ Heads(s2.disk, T \cup {z}, H) /\ Chained(s2.disk, s2.free, 0, {}, H, Y2)
      /\ SameHeader(store, s2)
      /\ s2.disk[z].leaf = FALSE /\ Len(s2.disk[z].kids) = 1 /\ s2.disk[z].kids[1] = root
      /\ Len(s2.disk[z].cells) = 0 /\ \A q \in T : s2.disk[q] = store.disk[q]
  BY DEF RootRaised
<1>3. root \in T /\ Len(s2.disk[root].cells) = 2 * t - 1
  BY <1>1, <1>2, KeptRoot, StoreFields
<1>4. SplitServes(s2, sp, z, t, H, T \cup {z}, Y2, z, 1, root)
  <2>1. z \in T \cup {z} /\ root \in T \cup {z}
    BY <1>3
  <2>2. 1 \in 1 .. Len(s2.disk[z].kids) /\ Len(s2.disk[z].cells) < 2 * t - 1
    BY <1>1, <1>2
  <2> QED
    BY <1>1, <1>2, <1>3, <2>1, <2>2, SplitStore
<1>5. Refused(s2, sp.store, T \cup {z}, Y2)
  BY <1>4 DEF SplitServes
<1>6. /\ Filed(sp.store, T \cup {z}, Y2) /\ sp.store.disk = s2.disk /\ sp.store.free = s2.free
      /\ sp.store.hdr = s2.hdr
  BY <1>5 DEF Refused
<1>7. Filed(sp.store, T, Y2)
  BY <1>6 DEF Filed
<1>8. \A q \in T : sp.store.disk[q] = store.disk[q]
  BY <1>2, <1>6
<1>9. Sound(sp.store.disk, root, T, Y2) /\ Heads(sp.store.disk, T, H)
  <2>1. Sound(store.disk, root, T, Y) /\ Heads(store.disk, T, H)
    BY <1>1, StoreFields DEF Kept
  <2>2. HeadsIn(store.disk, T, Y2)
    BY <1>2, <2>1, HeadsAre
  <2>3. Sound(sp.store.disk, root, T, Y2)
    BY <1>8, <2>1, <2>2, SoundWithin
  <2>4. Heads(sp.store.disk, T, H)
    BY <1>8, <2>1, SameSound
  <2> QED
    BY <2>3, <2>4
<1>10. Sizes(sp.store.disk, root, T, t)
  BY <1>1, <1>8 DEF Kept, Sizes
<1>11. sp.store.hdr.magic = TRUE /\ sp.store.hdr.root = hdr.root /\ sp.store.hdr.free = hdr.free
  BY <1>1, <1>2, <1>6, StoreFields DEF Kept, SameHeader
<1>12. Kept(sp.store, root, t, T, Y2, TRUE)
  <2>1. hdr.root \in DataPages /\ hdr.free \in 0 .. MaxPages - 1
    BY <1>1, StoreFields DEF Kept
  <2> QED
    BY <1>7, <1>9, <1>10, <1>11, <2>1 DEF Kept
<1>13. Clean(sp.store, T, Y2)
  BY <1>2, <1>6, <1>9 DEF Clean, Begun
<1>14. IsStore(sp.store)
  BY <1>7 DEF Filed
<1>15. Alike(sp.store, store')
  BY <1>14, Became
<1>16. Sane(store', root', t, T, Y2, refused', dangling')
  <2>1. Sane(sp.store, root, t, T, Y2, TRUE, dangling)
    BY <1>12, <1>13 DEF Sane
  <2>2. Sane(sp.store, root, t, T, Y2, refused', dangling')
    BY <2>1, SaneWithin
  <2> QED
    BY <2>2, <1>15, AlikeSane
<1>17. hdr'.root \in T
  BY <1>1, <1>11 DEF Become
<1>18. call'.op = "insert"
  OBVIOUS
<1> QED
  BY <1>1, <1>16, <1>17, <1>18 DEF Returning

\* btree_insert.
LEMMA InsertIdling ==
  ASSUME NEW t, Degree(t), NEW T, NEW Y, Idling(t, T, Y), NEW k \in program.keys, NEW v \in program.vals,
         NEW room, NEW room2, Insert(k, v, room, room2)
  PROVE  (\E T2, Y2 : Inserting(t, T2, Y2)') \/ (\E T2, Y2 : Returning(t, T2, Y2)')
<1> DEFINE al == PagerAllocate(store, room)
           s2 == WriteNode(al.store, al.page, Node(FALSE, << >>, <<root>>))
           sp == SplitChild(s2, al.page, 1, room2)
<1>1. /\ ~dangling /\ call' = [op |-> "insert", key |-> k, value |-> v] /\ target' = k
      /\ order' = order /\ lost' = lost /\ dangling' = dangling
      /\ refused' = (refused \/ result' = "ERR")
  BY DEF Insert, CanModify, NoteRefusal
<1>2. \/ /\ ~Full(disk[root]) /\ pc' = "insert" /\ at' = root /\ UNCHANGED storeVars /\ UNCHANGED root
      \/ /\ Full(disk[root]) /\ al.page = 0 /\ Become(al.store) /\ Answer("ERR") /\ UNCHANGED root /\ at' = at
      \/ /\ Full(disk[root]) /\ al.page # 0 /\ ~sp.ok /\ Become(sp.store) /\ Answer("ERR")
         /\ UNCHANGED root /\ at' = at
      \/ /\ Full(disk[root]) /\ al.page # 0 /\ sp.ok /\ Become(sp.store)
         /\ root' = al.page /\ pc' = "insert" /\ at' = al.page
  BY DEF Insert
<1>3. CASE ~Full(disk[root]) /\ pc' = "insert" /\ at' = root /\ UNCHANGED storeVars /\ UNCHANGED root
  <2>1. refused => refused'
    BY <1>1
  <2>2. Inserting(t, T, Y)'
    BY <1>1, <1>3, <2>1, InsertAtRoot
  <2> QED
    BY <2>2
<1>4. CASE Full(disk[root]) /\ al.page = 0 /\ Become(al.store) /\ Answer("ERR") /\ UNCHANGED root /\ at' = at
  <2>1. refused' /\ pc' = "return" /\ result' = "ERR"
    BY <1>1, <1>4 DEF Answer
  <2>2. Returning(t, T, Y)'
    BY <1>1, <1>4, <2>1, InsertNoRoot
  <2> QED
    BY <2>2
<1>5. ASSUME Full(disk[root]), al.page # 0
      PROVE  \E z, H, Y2 : /\ z = al.page /\ RootRaised(store, s2, root, t, H, T, Y, z, Y2)
                           /\ Heads(disk, T, H) /\ Len(disk[root].cells) = 2 * t - 1
  <2>1. Kept(store, root, t, T, Y, refused) /\ Clean(store, T, Y) /\ order = t /\ t \in Nat /\ t >= 2
    BY <1>1 DEF Idling, Sane, Degree
  <2>2. PICK H : Heads(store.disk, T, H) /\ Chained(store.disk, store.free, 0, {}, H, Y)
    BY <2>1 DEF Clean, Begun
  <2>3. Sound(store.disk, root, T, Y) /\ Sizes(store.disk, root, T, t) /\ Filed(store, T, Y) /\ root \in T
    BY <2>1, KeptRoot DEF Kept
  <2>4. Serves(store, al, 0, {}, H, T, Y)
    BY <2>2, <2>3, AllocationServes
  <2>5. PICK Y2 : Took(store, al.store, al.page, 0, {}, H, T, Y, Y2)
    BY <1>5, <2>4 DEF Serves
  <2>6. Len(store.disk[root].cells) = 2 * t - 1
    BY <1>5, <2>1, StoreFields DEF Full, MaxKeys
  <2> HIDE DEF al
  <2>7. RootRaised(store, s2, root, t, H, T, Y, al.page, Y2)
    BY <2>1, <2>2, <2>3, <2>5, <2>6, RaisedStore
  <2> QED
    BY <2>2, <2>6, <2>7, StoreFields
<1> HIDE DEF al, s2
<1>6. CASE Full(disk[root]) /\ al.page # 0 /\ ~sp.ok /\ Become(sp.store) /\ Answer("ERR") /\ UNCHANGED root /\ at' = at
  <2>1. PICK z, H, Y2 : /\ z = al.page /\ RootRaised(store, s2, root, t, H, T, Y, z, Y2)
                        /\ Heads(disk, T, H) /\ Len(disk[root].cells) = 2 * t - 1
    BY <1>5, <1>6
  <2>2. refused' /\ pc' = "return" /\ result' = "ERR"
    BY <1>1, <1>6 DEF Answer
  <2>3. sp = SplitChild(s2, z, 1, room2)
    BY <2>1
  <2> HIDE DEF sp
  <2>4. Returning(t, T, Y2)'
    BY <1>1, <1>6, <2>1, <2>2, <2>3, InsertNoHalf
  <2> QED
    BY <2>4
<1>7. CASE Full(disk[root]) /\ al.page # 0 /\ sp.ok /\ Become(sp.store)
           /\ root' = al.page /\ pc' = "insert" /\ at' = al.page
  <2>1. PICK z, H, Y2 : /\ z = al.page /\ RootRaised(store, s2, root, t, H, T, Y, z, Y2)
                        /\ Heads(disk, T, H) /\ Len(disk[root].cells) = 2 * t - 1
    BY <1>5, <1>7
  <2>2. refused => refused'
    BY <1>1
  <2>3. sp = SplitChild(s2, z, 1, room2)
    BY <2>1
  <2> HIDE DEF sp
  <2>4. root' = z /\ at' = z
    BY <1>7, <2>1
  <2> QED
    BY <1>1, <1>7, <2>1, <2>2, <2>3, <2>4, InsertRootSplit
<1> QED
  BY <1>2, <1>3, <1>4, <1>6, <1>7

\* What is known of the call when it looks for the child to go down to.
Passing(t, T, Y, b) ==
  /\ t \in Nat /\ t >= 2 /\ order = t /\ at \in T /\ target \in Nat
  /\ Sound(disk, root, T, Y) /\ Near(disk, root, T, t, at) /\ Filed(store, T, Y)
  /\ disk[at].leaf = FALSE /\ Len(disk[at].cells) < 2 * t - 1
  /\ b = Below(disk[at], target) /\ b \in Nat /\ b + 1 \in 1 .. Len(disk[at].kids)
  /\ disk[at].kids[b + 1] \in T /\ Len(disk[disk[at].kids[b + 1]].cells) \in Nat
  /\ \E R : OrderedBy(disk, T, R) /\ target \in R[disk[at].kids[b + 1]]

\* An insertion finds the child whose range holds the key.
LEMMA InsertPasses ==
  ASSUME NEW t, Degree(t), NEW T, NEW Y, Inserting(t, T, Y), disk[at].leaf = FALSE
  PROVE  Passing(t, T, Y, Below(disk[at], target))
<1> DEFINE b == Below(disk[at], target)
<1>1. /\ Kept(store, root, t, T, Y, refused) /\ order = t /\ t \in Nat /\ t >= 2 /\ target \in Keys
      /\ Room(disk, T, t, at, target)
  BY DEF Inserting, Degree
<1>2. Sound(disk, root, T, Y) /\ Sizes(disk, root, T, t) /\ Filed(store, T, Y) /\ Nodes(disk, T)
  BY <1>1, StoreFields, KeptRoot DEF Kept
<1>3. target \in Nat
  BY <1>1, BTreeAssumption
<1>4. PICK R : OrderedBy(disk, T, R) /\ target \in R[at]
  BY <1>1 DEF Room
<1>5. at \in T /\ Len(disk[at].cells) # 2 * t - 1
  BY <1>1 DEF Room
<1>6. Len(disk[at].cells) \in Nat /\ Len(disk[at].cells) <= 2 * t - 1
  BY <1>2, <1>5, NodeLens DEF Sizes
<1>7. Len(disk[at].cells) < 2 * t - 1
  BY <1>1, <1>5, <1>6
<1>8. Near(disk, root, T, t, at)
  BY <1>2 DEF Near, Sizes
<1>9. Children(disk, root, T, at)
  BY <1>2, <1>5, KidsOf
<1>10. Sorted(disk[at].cells) /\ disk[at].cells \in Seq(CellSet)
  BY <1>2, <1>4, <1>5, NodeOrder
<1>11. Position(disk[at].cells, target, b)
  BY <1>3, <1>10, BelowIs
<1> HIDE DEF b
<1>12. b + 1 \in 1 .. Len(disk[at].kids) /\ \E R2 : OrderedBy(disk, T, R2) /\ target \in R2[disk[at].kids[b + 1]]
  BY <1>2, <1>4, <1>5, <1>9, <1>11, KidWidened
<1>13. b \in Nat
  BY <1>6, <1>11 DEF Position
<1>14. disk[at].kids[b + 1] \in T
  BY <1>9, <1>12 DEF Children
<1>15. Len(disk[disk[at].kids[b + 1]].cells) \in Nat
  BY <1>2, <1>14, NodeLens
<1>16. b = Below(disk[at], target)
  BY DEF b
<1>17. Passing(t, T, Y, b)
  BY <1>1, <1>2, <1>3, <1>5, <1>7, <1>8, <1>12, <1>13, <1>14, <1>15, <1>16 DEF Passing
<1> QED
  BY <1>16, <1>17

\* btree_insert_nonfull goes down to a child that has room.
LEMMA DescendRoom ==
  ASSUME NEW t, NEW T, NEW Y, Inserting(t, T, Y), NEW b, Passing(t, T, Y, b),
         Len(disk[disk[at].kids[b + 1]].cells) # 2 * t - 1, at' = disk[at].kids[b + 1],
         UNCHANGED storeVars, pc' = pc, call' = call, target' = target, order' = order, root' = root,
         lost' = lost, dangling' = dangling, refused => refused'
  PROVE  Inserting(t, T, Y)'
<1>1. store' = store /\ hdr' = hdr /\ disk' = disk
  BY StaysAlike
<1>2. Kept(store, root, t, T, Y, refused')
  BY KeptWithin DEF Inserting
<1>3. Room(disk, T, t, disk[at].kids[b + 1], target)
  BY DEF Room, Passing
<1>4. Room(disk', T, t, at', target')
  BY <1>1, <1>3
<1>5. Kept(store', root', t, T, Y, refused')
  BY <1>1, <1>2
<1> QED
  BY <1>1, <1>4, <1>5 DEF Inserting

\* btree_insert_nonfull splits a full child and goes down to the half the key belongs to.
LEMMA DescendSplit ==
  ASSUME NEW t, NEW T, NEW Y, Inserting(t, T, Y), NEW b, Passing(t, T, Y, b), NEW i, i = b + 1,
         NEW a, a = disk[at].kids[i], Len(disk[a].cells) = 2 * t - 1,
         NEW room, NEW sp, sp = SplitChild(store, at, i, room), sp.ok, Become(sp.store),
         at' = IF target > sp.store.disk[at].cells[i].key
               THEN sp.store.disk[at].kids[i + 1] ELSE sp.store.disk[at].kids[i],
         pc' = pc, call' = call, target' = target, order' = order, root' = root,
         lost' = lost, dangling' = dangling, refused => refused'
  PROVE  \E T2, Y2 : Inserting(t, T2, Y2)'
<1>1. /\ t \in Nat /\ t >= 2 /\ t = order /\ at \in T /\ target \in Nat
      /\ Sound(disk, root, T, Y) /\ Near(disk, root, T, t, at) /\ Filed(store, T, Y)
      /\ disk[at].leaf = FALSE /\ Len(disk[at].cells) < 2 * t - 1
      /\ i \in 1 .. Len(disk[at].kids) /\ a \in T
  BY DEF Passing
<1>2. PICK R : OrderedBy(disk, T, R) /\ target \in R[a]
  BY DEF Passing
<1>3. /\ Kept(store, root, t, T, Y, refused) /\ Clean(store, T, Y) /\ hdr.root \in T
      /\ pc = "insert" /\ lost = FALSE /\ ~dangling
      /\ call.op = "insert" /\ call.value \in Vals /\ target \in Keys
  BY DEF Inserting
<1>4. PICK H : Heads(store.disk, T, H) /\ Chained(store.disk, store.free, 0, {}, H, Y)
  BY <1>3 DEF Clean, Begun
<1>5. store.disk = disk
  BY StoreFields
<1>6. SplitServes(store, sp, root, t, H, T, Y, at, i, a)
  BY <1>1, <1>4, <1>5, SplitStore
<1>7. PICK z, Y2 : SplitDone(store, sp.store, root, t, H, T, Y, at, i, a, z, Y2)
  BY <1>6 DEF SplitServes
<1> DEFINE U == T \cup {z}
           m == sp.store.disk[at].cells[i].key
<1>8. refused \/ Whole(store, T, Y)
  BY <1>3 DEF Kept
<1>9. store.hdr.magic = TRUE /\ store.hdr.root \in DataPages /\ store.hdr.free \in 0 .. MaxPages - 1
  BY <1>3 DEF Kept
<1>10. Kept(sp.store, root, t, U, Y2, refused) /\ Clean(sp.store, U, Y2) /\ IsStore(sp.store)
  BY <1>7, <1>8, <1>9, SplitSane
<1>11. Alike(sp.store, store')
  BY <1>10, Became
<1>12. Kept(store', root, t, U, Y2, refused') /\ Clean(store', U, Y2)
  <2>1. Kept(sp.store, root, t, U, Y2, refused')
    BY <1>10, KeptWithin
  <2> QED
    BY <1>10, <1>11, <2>1, AlikeKept, AlikeBegun DEF Clean
<1>13. disk' = sp.store.disk /\ hdr'.root \in U
  <2>1. sp.store.hdr.root = store.hdr.root
    BY <1>7 DEF SplitDone, SameHeader
  <2> QED
    BY <1>3, <2>1, StoreFields DEF Become
<1>14. /\ m \in Nat /\ sp.store.disk[at].kids[i] = a /\ sp.store.disk[at].kids[i + 1] = z
       /\ Len(sp.store.disk[a].cells) = t - 1 /\ Len(sp.store.disk[z].cells) = t - 1
       /\ z \notin T /\ a \in T
  BY <1>7 DEF SplitDone
<1>15. OrderedBy(sp.store.disk, U, RangesParted(R, T, a, z, m))
  BY <1>2, <1>5, <1>7 DEF SplitDone
<1> DEFINE R2 == RangesParted(R, T, a, z, m)
<1>16. R2[a] = {k \in R[a] : k <= m} /\ R2[z] = {k \in R[a] : m <= k}
  BY <1>14 DEF RangesParted
<1> HIDE DEF m, R2
<1>17. target \in R2[at'] /\ at' \in {a, z}
  <2>1. CASE target > m
    <3>1. at' = z
      BY <1>14, <2>1 DEF m
    <3>2. m <= target
      BY <1>1, <1>14, <2>1
    <3> QED
      BY <1>2, <1>16, <3>1, <3>2
  <2>2. CASE ~(target > m)
    <3>1. at' = a
      BY <1>14, <2>2 DEF m
    <3>2. target <= m
      BY <1>1, <1>14, <2>2
    <3> QED
      BY <1>2, <1>16, <3>1, <3>2
  <2> QED
    BY <2>1, <2>2
<1>18. PICK y : y = at'
  OBVIOUS
<1>19. Room(disk', U, t, y, target)
  <2>1. y \in U
    BY <1>1, <1>17, <1>18
  <2>2. Len(sp.store.disk[y].cells) = t - 1
    BY <1>14, <1>17, <1>18
  <2>3. t - 1 # 2 * t - 1
    BY <1>1
  <2>4. OrderedBy(sp.store.disk, U, R2) /\ target \in R2[y]
    BY <1>15, <1>17, <1>18 DEF R2
  <2> QED
    BY <1>13, <2>1, <2>2, <2>3, <2>4 DEF Room
<1> HIDE DEF U
<1>20. Inserting(t, U, Y2)'
  BY <1>1, <1>3, <1>12, <1>13, <1>18, <1>19 DEF Inserting
<1> QED
  BY <1>20

\* There is no page for the second half of the child: the insertion fails on its way down.
LEMMA DescendRefused ==
  ASSUME NEW t, NEW T, NEW Y, Inserting(t, T, Y), NEW b, Passing(t, T, Y, b), NEW i, i = b + 1,
         NEW a, a = disk[at].kids[i], Len(disk[a].cells) = 2 * t - 1,
         NEW room, NEW sp, sp = SplitChild(store, at, i, room), ~sp.ok, Become(sp.store),
         pc' = "return", result' = "ERR", at' = at, call' = call, order' = order, root' = root,
         lost' = lost, dangling' = dangling, refused'
  PROVE  Returning(t, T, Y)'
<1>1. /\ t \in Nat /\ t >= 2 /\ t = order /\ at \in T
      /\ Sound(disk, root, T, Y) /\ Near(disk, root, T, t, at) /\ Filed(store, T, Y)
      /\ disk[at].leaf = FALSE /\ Len(disk[at].cells) < 2 * t - 1
      /\ i \in 1 .. Len(disk[at].kids) /\ a \in T
  BY DEF Passing
<1>3. /\ Kept(store, root, t, T, Y, refused) /\ Clean(store, T, Y) /\ hdr.root \in T
      /\ lost = FALSE /\ call.op = "insert"
  BY DEF Inserting
<1>4. PICK H : Heads(store.disk, T, H) /\ Chained(store.disk, store.free, 0, {}, H, Y)
  BY <1>3 DEF Clean, Begun
<1>5. store.disk = disk
  BY StoreFields
<1>6. SplitServes(store, sp, root, t, H, T, Y, at, i, a)
  BY <1>1, <1>4, <1>5, SplitStore
<1>7. Refused(store, sp.store, T, Y)
  BY <1>6 DEF SplitServes
<1>8. Kept(sp.store, root, t, T, Y, TRUE) /\ IsStore(sp.store) /\ sp.store.hdr = store.hdr
  BY <1>3, <1>7, RefusedKept
<1>9. Clean(sp.store, T, Y)
  BY <1>3, <1>7, RefusedBegun DEF Clean
<1>10. Alike(sp.store, store')
  BY <1>8, Became
<1>11. Sane(store', root, t, T, Y, refused', dangling')
  <2>1. Sane(sp.store, root, t, T, Y, TRUE, dangling)
    BY <1>8, <1>9 DEF Sane
  <2>2. Sane(sp.store, root, t, T, Y, refused', dangling')
    BY <2>1, SaneWithin
  <2> QED
    BY <2>2, <1>10, AlikeSane
<1>12. hdr'.root \in T
  BY <1>3, <1>8, StoreFields DEF Become
<1> QED
  BY <1>1, <1>3, <1>11, <1>12 DEF Returning

\* btree_insert_nonfull in an internal node.
LEMMA InsertDescends ==
  ASSUME NEW t, Degree(t), NEW T, NEW Y, Inserting(t, T, Y), NEW room, InsertDescend(room)
  PROVE  (\E T2, Y2 : Inserting(t, T2, Y2)') \/ (\E T2, Y2 : Returning(t, T2, Y2)')
<1> DEFINE b == Below(disk[at], target)
           i == b + 1
           sp == SplitChild(store, at, i, room)
<1>1. /\ ~disk[at].leaf
      /\ call' = call /\ target' = target /\ order' = order /\ root' = root
      /\ lost' = lost /\ dangling' = dangling
      /\ refused' = (refused \/ result' = "ERR")
  BY DEF InsertDescend, NoteRefusal, handle
<1>2. \/ /\ ~Full(disk[disk[at].kids[i]]) /\ at' = disk[at].kids[i] /\ UNCHANGED <<storeVars, pc, result>>
      \/ /\ Full(disk[disk[at].kids[i]]) /\ sp.ok /\ Become(sp.store)
         /\ at' = IF target > sp.store.disk[at].cells[i].key
                  THEN sp.store.disk[at].kids[i + 1] ELSE sp.store.disk[at].kids[i]
         /\ pc' = pc
      \/ /\ Full(disk[disk[at].kids[i]]) /\ ~sp.ok /\ Become(sp.store) /\ Answer("ERR") /\ at' = at
  BY DEF InsertDescend
<1>3. disk[at].leaf = FALSE
  BY <1>1, KeptRoot, StoreFields DEF Inserting, Room
<1>4. Passing(t, T, Y, b)
  BY <1>3, InsertPasses
<1>5. order = t /\ t \in Nat
  BY <1>4 DEF Passing
<1>6. refused => refused'
  BY <1>1
<1> HIDE DEF b, sp
<1>7. CASE ~Full(disk[disk[at].kids[i]]) /\ at' = disk[at].kids[i] /\ UNCHANGED <<storeVars, pc, result>>
  <2>1. Len(disk[disk[at].kids[b + 1]].cells) # 2 * t - 1
    BY <1>5, <1>7 DEF Full, MaxKeys
  <2>2. Inserting(t, T, Y)'
    BY <1>1, <1>4, <1>6, <1>7, <2>1, DescendRoom
  <2> QED
    BY <2>2
<1>8. CASE /\ Full(disk[disk[at].kids[i]]) /\ sp.ok /\ Become(sp.store)
           /\ at' = IF target > sp.store.disk[at].cells[i].key
                    THEN sp.store.disk[at].kids[i + 1] ELSE sp.store.disk[at].kids[i]
           /\ pc' = pc
  <2>1. Len(disk[disk[at].kids[i]].cells) = 2 * t - 1
    BY <1>5, <1>8 DEF Full, MaxKeys
  <2>2. sp = SplitChild(store, at, i, room)
    BY DEF sp
  <2> HIDE DEF i
  <2>3. i = b + 1
    BY DEF i
  <2> QED
    BY <1>1, <1>4, <1>6, <1>8, <2>1, <2>2, <2>3, DescendSplit
<1>9. CASE Full(disk[disk[at].kids[i]]) /\ ~sp.ok /\ Become(sp.store) /\ Answer("ERR") /\ at' = at
  <2>1. Len(disk[disk[at].kids[i]].cells) = 2 * t - 1
    BY <1>5, <1>9 DEF Full, MaxKeys
  <2>2. sp = SplitChild(store, at, i, room)
    BY DEF sp
  <2>3. pc' = "return" /\ result' = "ERR" /\ refused'
    BY <1>1, <1>9 DEF Answer
  <2> HIDE DEF i
  <2>4. i = b + 1
    BY DEF i
  <2>5. Returning(t, T, Y)'
    BY <1>1, <1>4, <1>9, <2>1, <2>2, <2>3, <2>4, DescendRefused
  <2> QED
    BY <2>5
<1> QED
  BY <1>2, <1>7, <1>8, <1>9

--------------------------------------------------------------------------------
\* Insertion: the leaf and the chain of a value.

\* A leaf in which the key has room, and the cell that goes there.
Placing(t, T, Y, H, rf, x) ==
  /\ t \in Nat /\ t >= 2 /\ target \in Keys
  /\ Kept(store, root, t, T, Y, rf) /\ Room(disk, T, t, at, target) /\ disk[at].leaf = TRUE
  /\ x \in CellSet /\ x.key = target
  /\ Own(x) \cap H = {} /\ Own(x) \subseteq Y
  /\ Heads(disk, T, H) /\ Chained(disk, free, 0, {}, H \cup Own(x), Y)

Placed(s, t, T, Y, rf) ==
  Kept(s, root, t, T, Y, rf) /\ Clean(s, T, Y) /\ IsStore(s) /\ s.hdr = hdr

\* The new cell keeps the tree and adds its chain to those of the file.
LEMMA AddStore ==
  ASSUME NEW t, NEW T, NEW Y, NEW H, NEW rf, NEW x, Placing(t, T, Y, H, rf, x)
  PROVE  Placed(AddCell(store, x), t, T, Y, rf)
<1> DEFINE b == Below(disk[at], target)
           c == InsertAt(disk[at].cells, b + 1, x)
           s2 == AddCell(store, x)
<1>1. /\ t \in Nat /\ t >= 2 /\ target \in Keys
      /\ Kept(store, root, t, T, Y, rf) /\ Room(disk, T, t, at, target) /\ disk[at].leaf = TRUE
      /\ x \in CellSet /\ x.key = target
      /\ Own(x) \cap H = {} /\ Own(x) \subseteq Y
      /\ Heads(disk, T, H) /\ Chained(disk, free, 0, {}, H \cup Own(x), Y)
  BY DEF Placing
<1>2. /\ Sound(disk, root, T, Y) /\ Sizes(disk, root, T, t) /\ Filed(store, T, Y) /\ Nodes(disk, T)
      /\ T \subseteq DataPages /\ Y \subseteq DataPages
  BY <1>1, StoreFields, KeptRoot DEF Kept
<1>3. at \in T /\ Len(disk[at].cells) # 2 * t - 1
  BY <1>1 DEF Room
<1>4. PICK R : OrderedBy(disk, T, R) /\ target \in R[at]
  BY <1>1 DEF Room
<1>5. target \in Nat
  BY <1>1, BTreeAssumption
<1>6. Sorted(disk[at].cells) /\ disk[at].cells \in Seq(CellSet)
  BY <1>2, <1>3, <1>4, NodeOrder
<1>7. Position(disk[at].cells, target, b)
  BY <1>5, <1>6, BelowIs
<1>8. Len(disk[at].cells) \in Nat /\ Len(disk[at].cells) <= 2 * t - 1
  BY <1>2, <1>3, NodeLens DEF Sizes
<1> HIDE DEF b
<1>9. b + 1 \in 1 .. Len(disk[at].cells) + 1
  BY <1>7, <1>8 DEF Position
<1>10. c \in Seq(CellSet) /\ Inserted(disk[at].cells, c, b + 1, x)
  BY <1>1, <1>6, <1>9, InsertAtIs
<1>11. disk[at].kids = << >>
  <2>1. disk[at].kids \in Seq(T) /\ Len(disk[at].kids) = 0
    BY <1>1, <1>2, <1>3 DEF Nodes, NodeIn
  <2> QED
    BY <2>1, EmptySeq
<1>12. s2 = WriteNode(store, at, Node(disk[at].leaf, c, disk[at].kids))
  BY <1>1, <1>11, StoreFields DEF AddCell, b
<1> HIDE DEF c, s2
<1> DEFINE node == Node(disk[at].leaf, c, disk[at].kids)
<1>13. TreeWrote(store, s2, T, Y, at, node)
  BY <1>2, <1>3, <1>12, TreeWrites
<1>14. /\ Filed(s2, T, Y) /\ (Whole(store, T, Y) => Whole(s2, T, Y))
       /\ s2.free = free /\ s2.hdr = hdr
       /\ s2.disk[at] = node /\ \A q \in (T \cup Y) \ {at} : s2.disk[q] = disk[q]
  BY <1>13, StoreFields DEF TreeWrote
<1>15. Recelled(disk, s2.disk, T, at, c)
  BY <1>1, <1>3, <1>10, <1>14 DEF Recelled
<1>16. Fits(disk, at, c, R)
  BY <1>1, <1>2, <1>3, <1>4, <1>7, <1>10, AddedFits
<1>17. OrderedBy(s2.disk, T, R)
  BY <1>4, <1>15, <1>16, RecelledOrdered
<1>18. Firsts(c) \subseteq Y
  <2>1. Firsts(c) = Firsts(disk[at].cells) \cup Own(x)
    BY <1>8, <1>10, InsertedHeads
  <2>2. Firsts(disk[at].cells) \subseteq Y
    BY <1>2, <1>3 DEF Sound, HeadsIn
  <2> QED
    BY <1>1, <2>1, <2>2
<1>19. Sound(s2.disk, root, T, Y)
  <2>1. Orderly(s2.disk, T)
    BY <1>17 DEF Orderly
  <2> QED
    BY <1>2, <1>15, <1>18, <2>1, RecelledSound
<1>20. Heads(s2.disk, T, H \cup Own(x))
  BY <1>1, <1>2, <1>10, <1>15, AddedHeads
<1>21. Chained(s2.disk, s2.free, 0, {}, H \cup Own(x), Y)
  <2>1. at \notin Y
    BY <1>2, <1>3 DEF Filed
  <2>2. \A y \in Y : s2.disk[y].word = disk[y].word
    BY <1>14, <2>1
  <2> QED
    BY <1>1, <1>14, <2>2, ChainedFrame
<1>22. Sizes(s2.disk, root, T, t)
  <2>1. s2.disk[at].cells = c /\ s2.disk[at].leaf = TRUE /\ \A q \in T \ {at} : s2.disk[q] = disk[q]
    BY <1>1, <1>15, RecelledFields
  <2>2. Len(c) = Len(disk[at].cells) + 1
    BY <1>10 DEF Inserted
  <2>3. Len(c) <= 2 * t - 1 /\ (at # root => Len(c) >= t - 1)
    <3>1. at # root => Len(disk[at].cells) >= t - 1
      BY <1>2, <1>3 DEF Sizes
    <3> QED
      BY <1>1, <1>3, <1>8, <2>2, <3>1
  <2>4. ASSUME NEW q \in T
        PROVE  /\ Len(s2.disk[q].cells) <= 2 * t - 1
               /\ q # root => Len(s2.disk[q].cells) >= t - 1
               /\ ~s2.disk[q].leaf => Len(s2.disk[q].cells) >= 1
    <3>1. CASE q = at
      BY <2>1, <2>3, <3>1
    <3>2. CASE q # at
      BY <1>2, <2>1, <3>2 DEF Sizes
    <3> QED
      BY <3>1, <3>2
  <2> QED
    BY <2>4 DEF Sizes
<1>23. /\ s2.hdr.magic = TRUE /\ s2.hdr.root \in DataPages /\ s2.hdr.free \in 0 .. MaxPages - 1
       /\ rf \/ Whole(s2, T, Y)
  BY <1>1, <1>14, StoreFields DEF Kept
<1>24. Kept(s2, root, t, T, Y, rf)
  BY <1>14, <1>19, <1>22, <1>23 DEF Kept
<1>25. Clean(s2, T, Y)
  BY <1>20, <1>21 DEF Clean, Begun
<1>26. IsStore(s2)
  BY <1>14 DEF Filed
<1>27. Placed(s2, t, T, Y, rf)
  BY <1>14, <1>24, <1>25, <1>26 DEF Placed
<1> QED
  BY <1>27 DEF s2

\* The fields of a new cell, and the chain it has.
LEMMA CellIs ==
  ASSUME NEW k \in Keys, NEW v \in Vals \cup {NoVal}, NEW f \in Nat
  PROVE  /\ Cell(k, v, f) \in CellSet /\ Cell(k, v, f).key = k
         /\ Own(Cell(k, v, f)) = IF v = NoVal THEN {f} ELSE {}
BY DEF Cell, CellSet, Own, IsOverflow

\* An insertion that has placed its cell returns.
LEMMA PlacedReturns ==
  ASSUME NEW t, NEW T, NEW Y, NEW s, Placed(s, t, T, Y, refused), Become(s), at \in T,
         pc' = "return", result' = "OK", lost = FALSE, order = t, hdr.root \in T, call.op = "insert",
         call' = call, at' = at, order' = order, root' = root,
         lost' = lost, dangling' = dangling, refused => refused'
  PROVE  Returning(t, T, Y)'
<1>1. Kept(s, root, t, T, Y, refused) /\ Clean(s, T, Y) /\ IsStore(s) /\ s.hdr = hdr
  BY DEF Placed
<1>2. Sane(s, root, t, T, Y, refused', dangling')
  BY <1>1, KeptWithin DEF Sane
<1>3. Alike(s, store')
  BY <1>1, Became
<1>4. Sane(store', root', t, T, Y, refused', dangling')
  BY <1>2, <1>3, AlikeSane
<1>5. hdr' = hdr
  BY <1>1 DEF Become
<1> QED
  BY <1>4, <1>5 DEF Returning

\* btree_insert_nonfull in a leaf.
LEMMA InsertsInLeaf ==
  ASSUME NEW t, Degree(t), NEW T, NEW Y, Inserting(t, T, Y), InsertLeaf
  PROVE  Returning(t, T, Y)' \/ Writing(t, T, Y, {})'
<1>1. /\ Kept(store, root, t, T, Y, refused) /\ Clean(store, T, Y) /\ order = t /\ target \in Keys
      /\ Room(disk, T, t, at, target) /\ lost = FALSE /\ ~dangling /\ call.op = "insert"
      /\ call.value \in Vals /\ hdr.root \in T /\ t \in Nat /\ t >= 2 /\ at \in T
  BY DEF Inserting, Degree, Room
<1>2. disk[at].leaf = TRUE
  <2>1. disk[at].leaf \in BOOLEAN
    BY <1>1, KeptRoot, StoreFields
  <2> QED
    BY <2>1 DEF InsertLeaf
<1>3. /\ call' = call /\ target' = target /\ order' = order /\ root' = root /\ at' = at
      /\ lost' = lost /\ dangling' = dangling /\ refused' = refused
  BY DEF InsertLeaf, handle, ghosts
<1> DEFINE x == Cell(target, call.value, 0)
<1>4. \/ Chunks[call.value] = 0 /\ Become(AddCell(store, x)) /\ Answer("OK")
      \/ /\ Chunks[call.value] > 0 /\ pc' = "overflow"
         /\ chain' = [NoChain EXCEPT !.left = Chunks[call.value]] /\ UNCHANGED storeVars
  BY DEF InsertLeaf
<1>5. CASE Become(AddCell(store, x)) /\ Answer("OK")
  <2>1. PICK H : Heads(store.disk, T, H) /\ Chained(store.disk, store.free, 0, {}, H, Y)
    BY <1>1 DEF Clean, Begun
  <2>2. call.value # NoVal
    BY <1>1, BTreeAssumption
  <2>3. x \in CellSet /\ x.key = target /\ Own(x) = {}
    BY <1>1, <2>2, CellIs
  <2> HIDE DEF x
  <2>4. H \cup Own(x) = H
    BY <2>3
  <2>5. Chained(disk, free, 0, {}, H \cup Own(x), Y)
    BY <2>1, <2>4, StoreFields
  <2>6. Placing(t, T, Y, H, refused, x)
    BY <1>1, <1>2, <2>1, <2>3, <2>5, StoreFields DEF Placing
  <2>7. Placed(AddCell(store, x), t, T, Y, refused)
    BY <2>6, AddStore
  <2>8. pc' = "return" /\ result' = "OK"
    BY <1>5 DEF Answer
  <2> QED
    BY <1>1, <1>3, <1>5, <2>7, <2>8, PlacedReturns
<1>6. CASE /\ Chunks[call.value] > 0 /\ pc' = "overflow"
           /\ chain' = [NoChain EXCEPT !.left = Chunks[call.value]] /\ UNCHANGED storeVars
  <2>1. store' = store /\ hdr' = hdr /\ disk' = disk
    BY <1>6, StaysAlike
  <2>2. chain'.first = 0 /\ chain'.prev = 0 /\ chain'.left = Chunks[call.value]
    BY <1>6 DEF NoChain
  <2>3. Chunks[call.value] \in Nat
    BY <1>1, BTreeAssumption
  <2>4. Linked(disk', chain', {})
    BY <1>6, <2>2 DEF Linked
  <2>5. Begun(store, 0, {}, T, Y)
    BY <1>1 DEF Clean
  <2>6. Writing(t, T, Y, {})'
    BY <1>1, <1>2, <1>3, <1>6, <2>1, <2>2, <2>3, <2>4, <2>5 DEF Writing
  <2> QED
    BY <2>6
<1> QED
  BY <1>4, <1>5, <1>6

\* The page z has been added at the end of the chain being written, and s became s2.
Lengthened(s, s2, z, x, E, H, T, Y, Y2) ==
  /\ z \in E /\ x # 0 /\ s2.disk[z].word = 0 /\ "word" \in DOMAIN s2.disk[z]
  /\ Filed(s2, T, Y2) /\ (Whole(s, T, Y) => Whole(s2, T, Y2))
  /\ Chained(s2.disk, s2.free, x, E, H, Y2)
  /\ \A q \in T : s2.disk[q] = s.disk[q]
  /\ SameHeader(s, s2)

\* What one page has after another is in the file: it belongs to the chains and no more to the tree.
LEMMA PageJoins ==
  ASSUME NEW s1, NEW s2, NEW z, NEW T, NEW Y, Filed(s1, T \cup {z}, Y), z \notin T, z \notin Y,
         IsStore(s2), s2.hdr = s1.hdr, s2.size = s1.size, s2.count = s1.count, s2.free = s1.free,
         s2.disk[z].word = 0, \A y \in Y : s2.disk[y].word \in Y \cup {0, z}
  PROVE  Filed(s2, T, Y \cup {z}) /\ (Whole(s1, T \cup {z}, Y) => Whole(s2, T, Y \cup {z}))
<1>1. /\ s1.count \in Nat /\ s1.size \in Nat
      /\ 2 <= s1.count /\ s1.count <= s1.size /\ s1.size <= MaxPages
      /\ s1.hdr.count \in Nat /\ s1.hdr.count <= s1.count
      /\ (T \cup {z}) \cup Y \subseteq 2 .. s1.count - 1 /\ (T \cup {z}) \cap Y = {}
      /\ s1.free \in Y \cup {0}
  BY DEF Filed
<1>2. (T \cup {z}) \cup Y = T \cup (Y \cup {z})
  OBVIOUS
<1>3. T \cap (Y \cup {z}) = {}
  BY <1>1
<1>4. \A y \in Y \cup {z} : s2.disk[y].word \in (Y \cup {z}) \cup {0}
  OBVIOUS
<1>5. Filed(s2, T, Y \cup {z})
  BY <1>1, <1>2, <1>3, <1>4 DEF Filed
<1>6. Whole(s1, T \cup {z}, Y) => Whole(s2, T, Y \cup {z})
  BY <1>2 DEF Whole
<1> QED
  BY <1>5, <1>6

\* The first page of a chain.
LEMMA FirstPage ==
  ASSUME NEW s, NEW s1, NEW z, NEW H, NEW T, NEW Y, NEW Y2, Took(s, s1, z, 0, {}, H, T, Y, Y2), NEW data
  PROVE  Lengthened(s, WriteNode(s1, z, OverflowPage(0, data)), z, z, {z}, H, T, Y, Y2 \cup {z})
<1> DEFINE s2 == WriteNode(s1, z, OverflowPage(0, data))
<1>1. /\ z \in DataPages /\ z \notin T /\ z \notin Y2
      /\ Filed(s1, T \cup {z}, Y2) /\ (Whole(s, T, Y) => Whole(s1, T \cup {z}, Y2))
      /\ Chained(s1.disk, s1.free, 0, {}, H, Y2)
      /\ \A q \in T \cup Y2 : s1.disk[q] = s.disk[q]
      /\ SameHeader(s, s1)
  BY DEF Took
<1>2. IsStore(s1) /\ Y2 \subseteq DataPages /\ T \cup Y2 \subseteq DataPages
  <2>1. T \cup {z} \subseteq DataPages /\ Y2 \subseteq DataPages
    BY <1>1, FiledPages
  <2>2. IsStore(s1)
    BY <1>1 DEF Filed
  <2> QED
    BY <2>1, <2>2
<1>3. z \in PageNums /\ DataPages \subseteq PageNums
  BY <1>1, PageStoreAssumption DEF DataPages, PageNums
<1>4. Wrote(s1, s2, z, OverflowPage(0, data))
  BY <1>2, <1>3, Written DEF WriteNode
<1> HIDE DEF s2
<1>5. /\ IsStore(s2) /\ s2.hdr = s1.hdr /\ s2.size = s1.size /\ s2.count = s1.count /\ s2.free = s1.free
      /\ s2.disk[z] = OverflowPage(0, data) /\ \A q \in PageNums \ {z} : s2.disk[q] = s1.disk[q]
  BY <1>4 DEF Wrote
<1>6. s2.disk[z].word = 0 /\ "word" \in DOMAIN s2.disk[z]
  BY <1>5 DEF OverflowPage
<1>7. \A q \in T \cup Y2 : s2.disk[q] = s1.disk[q]
  BY <1>1, <1>2, <1>3, <1>5
<1>8. \A y \in Y2 : s2.disk[y].word \in Y2 \cup {0, z}
  <2>1. \A y \in Y2 : s1.disk[y].word \in Y2 \cup {0}
    BY <1>1 DEF Filed
  <2> QED
    BY <1>7, <2>1
<1>9. Filed(s2, T, Y2 \cup {z}) /\ (Whole(s1, T \cup {z}, Y2) => Whole(s2, T, Y2 \cup {z}))
  BY <1>1, <1>5, <1>6, <1>8, PageJoins
<1>10. Chained(s2.disk, s2.free, z, {z}, H, Y2 \cup {z})
  <2>1. \A y \in Y2 : s2.disk[y].word = s1.disk[y].word
    BY <1>7
  <2> QED
    BY <1>1, <1>5, <1>6, <2>1, BegunChains
<1>11. z # 0
  BY <1>1 DEF DataPages
<1>12. SameHeader(s, s2) /\ \A q \in T : s2.disk[q] = s.disk[q]
  BY <1>1, <1>5, <1>7 DEF SameHeader
<1> SUFFICES Lengthened(s, s2, z, z, {z}, H, T, Y, Y2 \cup {z})
  BY DEF s2
<1> QED
  BY <1>1, <1>6, <1>9, <1>10, <1>11, <1>12 DEF Lengthened

\* The next page of a chain: the last one is linked to it.
LEMMA NextPage ==
  ASSUME NEW s, NEW s1, NEW z, NEW x, NEW E, NEW H, NEW T, NEW Y, NEW Y2, Took(s, s1, z, x, E, H, T, Y, Y2), NEW data,
         x # 0, NEW p \in E, s.disk[p].word = 0, "word" \in DOMAIN s.disk[p],
         NEW s2, s2 = WriteNode(WriteNode(s1, p, [s1.disk[p] EXCEPT !.word = z]), z, OverflowPage(0, data))
  PROVE  Lengthened(s, s2, z, x, E \cup {z}, H, T, Y, Y2 \cup {z})
<1> DEFINE w == [s1.disk[p] EXCEPT !.word = z]
           l == WriteNode(s1, p, w)
<1>1. /\ z \in DataPages /\ z \notin T /\ z \notin Y2 /\ E \subseteq Y2
      /\ Filed(s1, T \cup {z}, Y2) /\ (Whole(s, T, Y) => Whole(s1, T \cup {z}, Y2))
      /\ Chained(s1.disk, s1.free, x, E, H, Y2)
      /\ \A q \in T \cup Y2 : s1.disk[q] = s.disk[q]
      /\ SameHeader(s, s1)
  BY DEF Took
<1>2. IsStore(s1) /\ Y2 \subseteq DataPages /\ T \cup Y2 \subseteq DataPages
  <2>1. T \cup {z} \subseteq DataPages /\ Y2 \subseteq DataPages
    BY <1>1, FiledPages
  <2>2. IsStore(s1)
    BY <1>1 DEF Filed
  <2> QED
    BY <2>1, <2>2
<1>3. z \in PageNums /\ DataPages \subseteq PageNums /\ p \in PageNums /\ p \in Y2 /\ p # z /\ p \notin T
  <2>1. p \in Y2 /\ p # z
    BY <1>1
  <2>2. p \notin T
    BY <1>1, <2>1 DEF Filed
  <2>3. DataPages \subseteq PageNums
    BY PageStoreAssumption DEF DataPages, PageNums
  <2> QED
    BY <1>1, <1>2, <2>1, <2>2, <2>3
<1>4. s1.disk[p] = s.disk[p]
  BY <1>1, <1>3
<1>5. w.word = z
  BY <1>4
<1>6. Wrote(s1, l, p, w)
  BY <1>2, <1>3, Written DEF WriteNode
<1>7. s2 = WriteNode(l, z, OverflowPage(0, data))
  OBVIOUS
<1> HIDE DEF w, l
<1>8. /\ IsStore(l) /\ l.hdr = s1.hdr /\ l.size = s1.size /\ l.count = s1.count /\ l.free = s1.free
      /\ l.disk[p] = w /\ \A q \in PageNums \ {p} : l.disk[q] = s1.disk[q]
  BY <1>6 DEF Wrote
<1>9. Wrote(l, s2, z, OverflowPage(0, data))
  BY <1>3, <1>7, <1>8, Written DEF WriteNode
<1>10. /\ IsStore(s2) /\ s2.hdr = l.hdr /\ s2.size = l.size /\ s2.count = l.count /\ s2.free = l.free
       /\ s2.disk[z] = OverflowPage(0, data) /\ \A q \in PageNums \ {z} : s2.disk[q] = l.disk[q]
  BY <1>9 DEF Wrote
<1>11. s2.disk[z].word = 0 /\ "word" \in DOMAIN s2.disk[z]
  BY <1>10 DEF OverflowPage
<1>12. s2.disk[p].word = z
  BY <1>3, <1>5, <1>8, <1>10
<1>13. \A q \in (T \cup Y2) \ {p} : s2.disk[q] = s1.disk[q]
  BY <1>1, <1>2, <1>3, <1>8, <1>10
<1>14. \A y \in Y2 : s2.disk[y].word \in Y2 \cup {0, z}
  <2>1. \A y \in Y2 : s1.disk[y].word \in Y2 \cup {0}
    BY <1>1 DEF Filed
  <2> QED
    BY <1>12, <1>13, <2>1
<1>15. Filed(s2, T, Y2 \cup {z}) /\ (Whole(s1, T \cup {z}, Y2) => Whole(s2, T, Y2 \cup {z}))
  <2>1. s2.hdr = s1.hdr /\ s2.size = s1.size /\ s2.count = s1.count /\ s2.free = s1.free
    BY <1>8, <1>10
  <2> QED
    BY <1>1, <1>10, <1>11, <1>14, <2>1, PageJoins
<1>16. Chained(s2.disk, s2.free, x, E \cup {z}, H, Y2 \cup {z})
  <2>1. \A y \in Y2 \ {p} : s2.disk[y].word = s1.disk[y].word
    BY <1>13
  <2>2. s1.disk[p].word = 0 /\ s2.free = s1.free
    BY <1>4, <1>8, <1>10
  <2>3. Chained(s2.disk, s1.free, x, E \cup {z}, H, Y2 \cup {z})
    BY <1>1, <1>11, <1>12, <2>1, <2>2, ContinuedChains
  <2> QED
    BY <2>2, <2>3
<1>17. SameHeader(s, s2)
  BY <1>1, <1>8, <1>10 DEF SameHeader
<1>18. \A q \in T : s2.disk[q] = s.disk[q]
  BY <1>1, <1>3, <1>13
<1>19. z \in E \cup {z}
  OBVIOUS
<1> QED
  BY <1>1, <1>11, <1>15, <1>16, <1>17, <1>18, <1>19 DEF Lengthened

\* The tree is untouched when a page joins a chain.
LEMMA LengthenedKept ==
  ASSUME NEW s, NEW s2, NEW z, NEW x, NEW E, NEW H, NEW T, NEW Y, NEW Y2, NEW r, NEW t, NEW rf,
         Kept(s, r, t, T, Y, rf), Heads(s.disk, T, H), Lengthened(s, s2, z, x, E, H, T, Y, Y2)
  PROVE  Kept(s2, r, t, T, Y2, rf) /\ Begun(s2, x, E, T, Y2) /\ IsStore(s2)
<1>1. /\ Sound(s.disk, r, T, Y) /\ Sizes(s.disk, r, T, t) /\ Filed(s, T, Y)
      /\ rf \/ Whole(s, T, Y)
      /\ s.hdr.magic = TRUE /\ s.hdr.root \in DataPages /\ s.hdr.free \in 0 .. MaxPages - 1
  BY DEF Kept
<1>2. /\ Filed(s2, T, Y2) /\ (Whole(s, T, Y) => Whole(s2, T, Y2))
      /\ Chained(s2.disk, s2.free, x, E, H, Y2)
      /\ \A q \in T : s2.disk[q] = s.disk[q]
      /\ SameHeader(s, s2)
  BY DEF Lengthened
<1>3. H \subseteq Y2
  BY <1>2, ChainedInside DEF ChainedIn
<1>4. HeadsIn(s.disk, T, Y2)
  BY <1>3, HeadsAre
<1>5. Sound(s2.disk, r, T, Y2)
  BY <1>1, <1>2, <1>4, SoundWithin
<1>6. Sizes(s2.disk, r, T, t)
  BY <1>1, <1>2 DEF Sizes
<1>7. Heads(s2.disk, T, H)
  BY <1>1, <1>2, SameSound
<1>8. Kept(s2, r, t, T, Y2, rf)
  BY <1>1, <1>2, <1>5, <1>6 DEF Kept, SameHeader
<1>9. IsStore(s2)
  BY <1>2 DEF Filed
<1> QED
  BY <1>2, <1>7, <1>8, <1>9 DEF Begun

\* A key keeps its room while the tree is untouched.
LEMMA RoomStays ==
  ASSUME NEW d, NEW d2, NEW T, NEW t, NEW p, NEW k, Room(d, T, t, p, k), \A q \in T : d2[q] = d[q]
  PROVE  Room(d2, T, t, p, k) /\ d2[p] = d[p]
<1>1. PICK R : OrderedBy(d, T, R) /\ k \in R[p]
  BY DEF Room
<1>2. OrderedBy(d2, T, R)
  BY <1>1, SameOrdered
<1>3. p \in T /\ d2[p] = d[p]
  BY DEF Room
<1> QED
  BY <1>1, <1>2, <1>3 DEF Room

\* A chain that could not be finished is lost: its pages serve nothing any more.
LEMMA ChainDropped ==
  ASSUME NEW s, NEW r, NEW t, NEW x, NEW E, NEW T, NEW Y, Kept(s, r, t, T, Y, TRUE), Begun(s, x, E, T, Y)
  PROVE  Kept(s, r, t, T, Y \ E, TRUE) /\ Clean(s, T, Y \ E)
<1>1. /\ Sound(s.disk, r, T, Y) /\ Sizes(s.disk, r, T, t) /\ Filed(s, T, Y)
      /\ s.hdr.magic = TRUE /\ s.hdr.root \in DataPages /\ s.hdr.free \in 0 .. MaxPages - 1
  BY DEF Kept
<1>2. PICK H : Heads(s.disk, T, H) /\ Chained(s.disk, s.free, x, E, H, Y)
  BY DEF Begun
<1>3. Chained(s.disk, s.free, 0, {}, H, Y \ E)
  BY <1>2, DroppedChains
<1>4. /\ s.free \in (Y \ E) \cup {0} /\ H \subseteq Y \ E
      /\ \A y \in Y \ E : s.disk[y].word \in (Y \ E) \cup {0}
  BY <1>3, ChainedInside DEF ChainedIn
<1>5. Filed(s, T, Y \ E)
  <2>1. T \cup (Y \ E) \subseteq 2 .. s.count - 1 /\ T \cap (Y \ E) = {}
    BY <1>1 DEF Filed
  <2> QED
    BY <1>1, <1>4, <2>1 DEF Filed
<1>6. HeadsIn(s.disk, T, Y \ E)
  BY <1>2, <1>4, HeadsAre
<1>7. Sound(s.disk, r, T, Y \ E)
  BY <1>1, <1>6, SoundWithin
<1>8. Kept(s, r, t, T, Y \ E, TRUE)
  BY <1>1, <1>5, <1>7 DEF Kept
<1> QED
  BY <1>2, <1>3, <1>8 DEF Clean, Begun

\* What overflow_write leaves alone.
Frame(rf) ==
  /\ call' = call /\ at' = at /\ target' = target /\ order' = order /\ root' = root
  /\ lost' = lost /\ dangling' = dangling /\ refused' = rf

\* overflow_write gets a page: the chain is one page longer.
LEMMA WritesPage ==
  ASSUME NEW t, Degree(t), NEW T, NEW Y, NEW E, Writing(t, T, Y, E), NEW al, NEW room,
         al = PagerAllocate(store, room), chain.left > 0, al.page # 0, NEW data, NEW l,
         l = (IF chain.prev = 0 THEN al.store
              ELSE WriteNode(al.store, chain.prev, [al.store.disk[chain.prev] EXCEPT !.word = al.page])),
         Become(WriteNode(l, al.page, OverflowPage(0, data))),
         chain' = [first |-> IF chain.prev = 0 THEN al.page ELSE chain.first,
                   prev |-> al.page, left |-> chain.left - 1],
         pc' = pc, NEW rf, Frame(rf), refused => rf
  PROVE  \E Y2, E2 : Writing(t, T, Y2, E2)'
<1> DEFINE s2 == WriteNode(l, al.page, OverflowPage(0, data))
<1>1. /\ pc = "overflow" /\ lost = FALSE /\ ~dangling /\ order = t
      /\ call.op = "insert" /\ call.value \in Vals /\ target \in Keys
      /\ Kept(store, root, t, T, Y, refused) /\ Begun(store, chain.first, E, T, Y) /\ hdr.root \in T
      /\ Room(disk, T, t, at, target) /\ disk[at].leaf = TRUE
      /\ Linked(disk, chain, E) /\ chain.left \in Nat
  BY DEF Writing
<1>2. Filed(store, T, Y)
  BY <1>1 DEF Kept
<1>3. PICK H : Heads(store.disk, T, H) /\ Chained(store.disk, store.free, chain.first, E, H, Y)
  BY <1>1 DEF Begun
<1>4. Serves(store, al, chain.first, E, H, T, Y)
  BY <1>2, <1>3, AllocationServes
<1>5. PICK z : z = al.page
  OBVIOUS
<1>6. PICK Y2 : Took(store, al.store, z, chain.first, E, H, T, Y, Y2)
  BY <1>4, <1>5 DEF Serves
<1>7. E \subseteq Y /\ Y \subseteq DataPages /\ (chain.first = 0 <=> E = {})
  <2>1. E \subseteq Y /\ (chain.first = 0 <=> E = {})
    BY <1>3, ChainedInside DEF ChainedIn
  <2>2. Y \subseteq DataPages
    BY <1>2, FiledPages
  <2> QED
    BY <2>1, <2>2
<1>8. PICK x, F, Y3 : /\ x = chain'.first /\ Lengthened(store, s2, z, x, F, H, T, Y, Y3)
  <2>1. CASE chain.first = 0 /\ chain.prev = 0
    <3>1. E = {}
      BY <1>7, <2>1
    <3>2. Took(store, al.store, z, 0, {}, H, T, Y, Y2)
      BY <1>6, <2>1, <3>1
    <3>3. s2 = WriteNode(al.store, z, OverflowPage(0, data))
      BY <1>5, <2>1
    <3>4. Lengthened(store, s2, z, z, {z}, H, T, Y, Y2 \cup {z})
      BY <3>2, <3>3, FirstPage
    <3>5. chain'.first = z
      BY <1>5, <2>1
    <3> QED
      BY <3>4, <3>5
  <2>2. CASE chain.first # 0 /\ chain.prev \in E /\ disk[chain.prev].word = 0 /\ "word" \in DOMAIN disk[chain.prev]
    <3>1. chain.prev # 0
      BY <1>7, <2>2 DEF DataPages
    <3>2. s2 = WriteNode(WriteNode(al.store, chain.prev, [al.store.disk[chain.prev] EXCEPT !.word = z]), z,
                         OverflowPage(0, data))
      BY <1>5, <3>1
    <3>3. store.disk[chain.prev].word = 0 /\ "word" \in DOMAIN store.disk[chain.prev]
      BY <2>2, StoreFields
    <3> HIDE DEF s2
    <3>4. Lengthened(store, s2, z, chain.first, E \cup {z}, H, T, Y, Y2 \cup {z})
      BY <1>6, <2>2, <3>2, <3>3, NextPage
    <3>5. chain'.first = chain.first
      BY <3>1
    <3>6. PICK x : x = chain.first
      OBVIOUS
    <3> QED
      BY <3>4, <3>5, <3>6
  <2> QED
    BY <1>1, <2>1, <2>2 DEF Linked
<1> HIDE DEF s2
<1>9. Kept(s2, root, t, T, Y3, refused) /\ Begun(s2, x, F, T, Y3) /\ IsStore(s2)
  BY <1>1, <1>3, <1>8, LengthenedKept
<1>10. Become(s2)
  BY DEF s2
<1>11. Alike(s2, store')
  BY <1>9, <1>10, Became
<1>12. Kept(store', root, t, T, Y3, rf) /\ Begun(store', x, F, T, Y3)
  <2>1. Kept(s2, root, t, T, Y3, rf)
    BY <1>9, KeptWithin
  <2> QED
    BY <1>9, <1>11, <2>1, AlikeKept, AlikeBegun
<1>13. /\ z \in F /\ x # 0 /\ s2.disk[z].word = 0 /\ "word" \in DOMAIN s2.disk[z]
       /\ \A q \in T : s2.disk[q] = store.disk[q]
       /\ SameHeader(store, s2)
  BY <1>8 DEF Lengthened
<1>14. disk' = s2.disk /\ hdr'.root = hdr.root
  BY <1>10, <1>13, StoreFields DEF Become, SameHeader
<1>15. Room(disk', T, t, at, target) /\ disk'[at].leaf = TRUE
  <2>1. \A q \in T : s2.disk[q] = disk[q]
    BY <1>13, StoreFields
  <2>2. Room(s2.disk, T, t, at, target) /\ s2.disk[at] = disk[at]
    <3>1. Room(disk, T, t, at, target)
      BY <1>1
    <3>2. PICK d2 : d2 = s2.disk
      OBVIOUS
    <3>3. \A q \in T : d2[q] = disk[q]
      BY <2>1, <3>2
    <3>4. Room(d2, T, t, at, target) /\ d2[at] = disk[at]
      BY <3>1, <3>3, RoomStays
    <3> QED
      BY <3>2, <3>4
  <2> QED
    BY <1>1, <1>14, <2>2
<1>16. Linked(disk', chain', F)
  <2>1. chain'.first # 0
    BY <1>8, <1>13
  <2>2. chain'.prev = z
    BY <1>5
  <2> QED
    BY <1>13, <1>14, <2>1, <2>2 DEF Linked
<1>17. chain'.left \in Nat
  <2>1. chain'.left = chain.left - 1
    OBVIOUS
  <2> QED
    BY <1>1, <2>1
<1>18. Writing(t, T, Y3, F)'
  <2>1. Begun(store', chain'.first, F, T, Y3)
    BY <1>8, <1>12
  <2>2. /\ call' = call /\ at' = at /\ target' = target /\ order' = order /\ root' = root
        /\ lost' = lost /\ dangling' = dangling /\ refused' = rf
    BY DEF Frame
  <2>3. Kept(store', root', t, T, Y3, refused')
    BY <1>12, <2>2
  <2>4. Room(disk', T, t, at', target') /\ disk'[at'].leaf = TRUE
    BY <1>15, <2>2
  <2> QED
    BY <1>1, <1>14, <1>16, <1>17, <2>1, <2>2, <2>3, <2>4 DEF Writing
<1> QED
  BY <1>18

\* overflow_write gets no page: the insertion fails, and the pages written so far are lost.
LEMMA WritesRefused ==
  ASSUME NEW t, NEW T, NEW Y, NEW E, Writing(t, T, Y, E), NEW al, NEW room,
         al = PagerAllocate(store, room), al.page = 0, Become(al.store),
         pc' = "return", result' = "ERR", NEW rf, Frame(rf), rf = TRUE
  PROVE  Returning(t, T, Y \ E)'
<1>1. /\ lost = FALSE /\ order = t
      /\ call.op = "insert"
      /\ Kept(store, root, t, T, Y, refused) /\ Begun(store, chain.first, E, T, Y) /\ hdr.root \in T
      /\ at \in T
  BY DEF Writing, Room
<1>2. Filed(store, T, Y)
  BY <1>1 DEF Kept
<1>3. PICK H : Heads(store.disk, T, H) /\ Chained(store.disk, store.free, chain.first, E, H, Y)
  BY <1>1 DEF Begun
<1>4. Serves(store, al, chain.first, E, H, T, Y)
  BY <1>2, <1>3, AllocationServes
<1>5. Refused(store, al.store, T, Y)
  BY <1>4 DEF Serves
<1>6. Kept(al.store, root, t, T, Y, TRUE) /\ IsStore(al.store) /\ al.store.hdr = store.hdr
  BY <1>1, <1>5, RefusedKept
<1>7. Begun(al.store, chain.first, E, T, Y)
  BY <1>1, <1>5, RefusedBegun
<1>8. Kept(al.store, root, t, T, Y \ E, TRUE) /\ Clean(al.store, T, Y \ E)
  BY <1>6, <1>7, ChainDropped
<1>9. Alike(al.store, store')
  BY <1>6, Became
<1>10. /\ call' = call /\ at' = at /\ target' = target /\ order' = order /\ root' = root
       /\ lost' = lost /\ dangling' = dangling /\ refused' = TRUE
  BY DEF Frame
<1>11. Sane(store', root', t, T, Y \ E, refused', dangling')
  <2>1. Sane(al.store, root, t, T, Y \ E, refused', dangling')
    BY <1>8, <1>10 DEF Sane
  <2> QED
    BY <1>9, <1>10, <2>1, AlikeSane
<1>12. hdr'.root \in T
  BY <1>1, <1>6, StoreFields DEF Become
<1> QED
  BY <1>1, <1>10, <1>11, <1>12 DEF Returning

\* overflow_write is through: the cell that names the chain goes into the leaf.
LEMMA WritesCell ==
  ASSUME NEW t, Degree(t), NEW T, NEW Y, NEW E, Writing(t, T, Y, E), chain.left = 0,
         NEW x, x = Cell(target, NoVal, chain.first), Become(AddCell(store, x)),
         pc' = "return", result' = "OK", NEW rf, Frame(rf), refused => rf
  PROVE  Returning(t, T, Y)'
<1>1. /\ lost = FALSE /\ order = t /\ target \in Keys /\ t \in Nat /\ t >= 2
      /\ call.op = "insert" /\ disk[at].leaf = TRUE /\ Room(disk, T, t, at, target)
      /\ Kept(store, root, t, T, Y, refused) /\ Begun(store, chain.first, E, T, Y) /\ hdr.root \in T
      /\ at \in T /\ Linked(disk, chain, E)
  BY DEF Writing, Room, Degree
<1>2. chain.first # 0
  <2>1. ~(chain.left > 0)
    OBVIOUS
  <2> QED
    BY <1>1, <2>1 DEF Linked
<1>3. PICK H : Heads(store.disk, T, H) /\ Chained(store.disk, store.free, chain.first, E, H, Y)
  BY <1>1 DEF Begun
<1>4. Chained(store.disk, store.free, 0, {}, H \cup {chain.first}, Y)
  BY <1>2, <1>3, GivenChains
<1>5. chain.first \in E /\ E \subseteq Y /\ H \cap E = {}
  BY <1>2, <1>3, ChainedInside DEF ChainedIn
<1>6. chain.first \in Nat
  <2>1. Y \subseteq DataPages
    BY <1>1, KeptRoot
  <2> QED
    BY <1>5, <2>1, NotZero
<1>7. x \in CellSet /\ x.key = target /\ Own(x) = {chain.first}
  BY <1>1, <1>6, CellIs
<1>8. Own(x) \cap H = {} /\ Own(x) \subseteq Y
  BY <1>5, <1>7
<1>9. Chained(disk, free, 0, {}, H \cup Own(x), Y) /\ Heads(disk, T, H)
  BY <1>3, <1>4, <1>7, StoreFields
<1>10. Placing(t, T, Y, H, refused, x)
  BY <1>1, <1>7, <1>8, <1>9 DEF Placing
<1>11. Placed(AddCell(store, x), t, T, Y, refused)
  BY <1>10, AddStore
<1>12. /\ call' = call /\ at' = at /\ target' = target /\ order' = order /\ root' = root
       /\ lost' = lost /\ dangling' = dangling /\ (refused => refused')
  BY DEF Frame
<1>13. Returning(t, T, Y)'
  <2>1. PICK s : s = AddCell(store, x)
    OBVIOUS
  <2>2. Placed(s, t, T, Y, refused) /\ Become(s)
    BY <1>11, <2>1
  <2>3. /\ at \in T /\ lost = FALSE /\ order = t /\ hdr.root \in T /\ call.op = "insert"
        /\ call' = call /\ at' = at /\ order' = order /\ root' = root
        /\ lost' = lost /\ dangling' = dangling
    BY <1>1, <1>12
  <2>4. refused => refused'
    BY <1>12
  <2> QED
    BY <2>2, <2>3, <2>4, PlacedReturns
<1> QED
  BY <1>13

\* A turn of the loop of overflow_write, or its end.
LEMMA WritesOn ==
  ASSUME NEW t, Degree(t), NEW T, NEW Y, NEW E, Writing(t, T, Y, E), NEW room, OverflowWrite(room)
  PROVE  (\E Y2, E2 : Writing(t, T, Y2, E2)') \/ (\E Y2 : Returning(t, T, Y2)')
<1> DEFINE al == PagerAllocate(store, room)
           data == <<call.value, Chunks[call.value] - chain.left + 1>>
           l == IF chain.prev = 0 THEN al.store
                ELSE WriteNode(al.store, chain.prev, [al.store.disk[chain.prev] EXCEPT !.word = al.page])
           x == Cell(target, NoVal, chain.first)
           rf == (refused \/ result' = "ERR")
<1>1. Frame(rf)
  BY DEF OverflowWrite, NoteRefusal, Frame, handle
<1>2. refused => rf
  OBVIOUS
<1>3. \/ /\ chain.left > 0 /\ al.page # 0 /\ Become(WriteNode(l, al.page, OverflowPage(0, data)))
         /\ chain' = [first |-> IF chain.prev = 0 THEN al.page ELSE chain.first,
                      prev |-> al.page, left |-> chain.left - 1]
         /\ pc' = pc
      \/ chain.left > 0 /\ al.page = 0 /\ Become(al.store) /\ Answer("ERR")
      \/ chain.left = 0 /\ Become(AddCell(store, x)) /\ Answer("OK")
  BY DEF OverflowWrite
<1>4. CASE /\ chain.left > 0 /\ al.page # 0 /\ Become(WriteNode(l, al.page, OverflowPage(0, data)))
           /\ chain' = [first |-> IF chain.prev = 0 THEN al.page ELSE chain.first,
                        prev |-> al.page, left |-> chain.left - 1]
           /\ pc' = pc
  <2> HIDE DEF data, rf
  <2>1. \E Y2, E2 : Writing(t, T, Y2, E2)'
    BY <1>1, <1>2, <1>4, WritesPage
  <2> QED
    BY <2>1
<1>5. CASE al.page = 0 /\ Become(al.store) /\ Answer("ERR")
  <2>1. pc' = "return" /\ result' = "ERR" /\ rf = TRUE
    BY <1>5 DEF Answer
  <2> HIDE DEF rf
  <2>2. Returning(t, T, Y \ E)'
    BY <1>1, <1>5, <2>1, WritesRefused
  <2> QED
    BY <2>2
<1>6. CASE chain.left = 0 /\ Become(AddCell(store, x)) /\ Answer("OK")
  <2>1. pc' = "return" /\ result' = "OK"
    BY <1>6 DEF Answer
  <2> HIDE DEF rf, x
  <2>2. x = Cell(target, NoVal, chain.first)
    BY DEF x
  <2>3. Returning(t, T, Y)'
    BY <1>1, <1>2, <1>6, <2>1, <2>2, WritesCell
  <2> QED
    BY <2>3
<1> QED
  BY <1>3, <1>4, <1>5, <1>6

--------------------------------------------------------------------------------
\* Deletion: the leaf and the chain of a value.

\* Cell i has been taken out of the leaf.
Removed(s, t, T, Y, rf, x) ==
  /\ Kept(s, root, t, T, Y, rf) /\ IsStore(s) /\ s.hdr = hdr /\ s.free = free
  /\ \A y \in Y : s.disk[y].word = disk[y].word
  /\ \A H : Heads(disk, T, H) => Heads(s.disk, T, H \ Own(x)) /\ Own(x) \subseteq H

\* Taking a cell out of a leaf with a key to spare keeps the tree.
LEMMA RemoveStore ==
  ASSUME NEW t \in Nat, t >= 2, NEW T, NEW Y, NEW rf, Kept(store, root, t, T, Y, rf),
         Spare(disk, root, T, t, at), disk[at].leaf = TRUE, NEW i \in 1 .. Len(disk[at].cells)
  PROVE  Removed(RemoveCell(store, i), t, T, Y, rf, disk[at].cells[i])
<1> DEFINE c == RemoveAt(disk[at].cells, i)
           x == disk[at].cells[i]
           s2 == RemoveCell(store, i)
           node == Node(disk[at].leaf, c, disk[at].kids)
<1>1. /\ Sound(disk, root, T, Y) /\ Sizes(disk, root, T, t) /\ Filed(store, T, Y) /\ Nodes(disk, T)
  BY StoreFields, KeptRoot DEF Kept
<1>2. at \in T /\ (at # root => Len(disk[at].cells) > t - 1)
  BY DEF Spare
<1>3. PICK R : OrderedBy(disk, T, R)
  BY <1>1 DEF Sound, Orderly
<1>4. disk[at].cells \in Seq(CellSet)
  BY <1>1, <1>2, <1>3, NodeOrder
<1>5. c \in Seq(CellSet) /\ Inserted(c, disk[at].cells, i, x)
  BY <1>4, RemoveAtIs
<1>6. Len(disk[at].cells) \in Nat /\ Len(disk[at].cells) <= 2 * t - 1
  BY <1>1, <1>2, NodeLens DEF Sizes
<1>7. disk[at].kids = << >>
  <2>1. disk[at].kids \in Seq(T) /\ Len(disk[at].kids) = 0
    BY <1>1, <1>2 DEF Nodes, NodeIn
  <2> QED
    BY <2>1, EmptySeq
<1>8. s2 = WriteNode(store, at, node)
  BY <1>7, StoreFields DEF RemoveCell
<1>9. Len(c) \in Nat /\ Len(disk[at].cells) = Len(c) + 1
  <2>1. Len(c) \in Nat
    BY <1>5, LenProperties
  <2> QED
    BY <1>5, <2>1 DEF Inserted
<1> HIDE DEF c, x, s2, node
<1>10. TreeWrote(store, s2, T, Y, at, node)
  BY <1>1, <1>2, <1>8, TreeWrites
<1>11. /\ Filed(s2, T, Y) /\ (Whole(store, T, Y) => Whole(s2, T, Y))
       /\ s2.free = free /\ s2.hdr = hdr
       /\ s2.disk[at] = node /\ \A q \in (T \cup Y) \ {at} : s2.disk[q] = disk[q]
  BY <1>10, StoreFields DEF TreeWrote
<1>12. Recelled(disk, s2.disk, T, at, c)
  BY <1>2, <1>5, <1>11 DEF Recelled, node
<1>13. Fits(disk, at, c, R)
  BY <1>1, <1>2, <1>3, <1>5, <1>9, RemovedFits
<1>14. OrderedBy(s2.disk, T, R)
  BY <1>3, <1>12, <1>13, RecelledOrdered
<1>15. Firsts(c) \subseteq Y
  <2>1. Firsts(disk[at].cells) = Firsts(c) \cup Own(x)
    BY <1>5, <1>9, InsertedHeads
  <2>2. Firsts(disk[at].cells) \subseteq Y
    BY <1>1, <1>2 DEF Sound, HeadsIn
  <2> QED
    BY <2>1, <2>2
<1>16. Sound(s2.disk, root, T, Y)
  <2>1. Orderly(s2.disk, T)
    BY <1>14 DEF Orderly
  <2> QED
    BY <1>1, <1>12, <1>15, <2>1, RecelledSound
<1>17. ASSUME NEW H, Heads(disk, T, H)
       PROVE  Heads(s2.disk, T, H \ Own(x)) /\ Own(x) \subseteq H
  BY <1>1, <1>5, <1>12, <1>17, RemovedHeads
<1>18. \A y \in Y : s2.disk[y].word = disk[y].word
  <2>1. at \notin Y
    BY <1>1, <1>2 DEF Filed
  <2> QED
    BY <1>11, <2>1
<1>19. Sizes(s2.disk, root, T, t)
  <2>1. s2.disk[at].cells = c /\ s2.disk[at].leaf = TRUE /\ \A q \in T \ {at} : s2.disk[q] = disk[q]
    BY <1>12, RecelledFields
  <2>2. Len(c) <= 2 * t - 1 /\ (at # root => Len(c) >= t - 1)
    BY <1>2, <1>6, <1>9
  <2>3. ASSUME NEW q \in T
        PROVE  /\ Len(s2.disk[q].cells) <= 2 * t - 1
               /\ q # root => Len(s2.disk[q].cells) >= t - 1
               /\ ~s2.disk[q].leaf => Len(s2.disk[q].cells) >= 1
    <3>1. CASE q = at
      BY <2>1, <2>2, <3>1
    <3>2. CASE q # at
      BY <1>1, <2>1, <3>2 DEF Sizes
    <3> QED
      BY <3>1, <3>2
  <2> QED
    BY <2>3 DEF Sizes
<1>20. /\ s2.hdr.magic = TRUE /\ s2.hdr.root \in DataPages /\ s2.hdr.free \in 0 .. MaxPages - 1
       /\ rf \/ Whole(s2, T, Y)
  BY <1>11, StoreFields DEF Kept
<1>21. Kept(s2, root, t, T, Y, rf)
  BY <1>11, <1>16, <1>19, <1>20 DEF Kept
<1>22. IsStore(s2)
  BY <1>11 DEF Filed
<1>23. Removed(s2, t, T, Y, rf, x)
  BY <1>11, <1>17, <1>18, <1>21, <1>22 DEF Removed
<1> QED
  BY <1>23 DEF s2, x

\* A deletion returns with a tree that is sound.
LEMMA DeletionReturns ==
  ASSUME NEW t, NEW T, NEW Y, NEW s, Sane(s, root, t, T, Y, refused, dangling), IsStore(s), Become(s), at \in T,
         pc' = "return", result' \in {"OK", "NOTFOUND"}, lost = FALSE, order = t, call.op = "delete",
         call' = call, at' = at, order' = order, root' = root,
         lost' = lost, dangling' = dangling, refused' = refused
  PROVE  Returning(t, T, Y)'
<1>1. Alike(s, store')
  BY Became
<1>2. Sane(store', root, t, T, Y, refused, dangling)
  BY <1>1, AlikeSane
<1> QED
  BY <1>2 DEF Returning

\* btree_delete_recursive takes a cell without an overflow chain out of its leaf.
LEMMA LeafCellGone ==
  ASSUME NEW t, Degree(t), NEW T, NEW Y, Deleting(t, T, Y), disk[at].leaf = TRUE,
         NEW i \in 1 .. Len(disk[at].cells), ~IsOverflow(disk[at].cells[i])
  PROVE  Sane(RemoveCell(store, i), root, t, T, Y, refused, dangling) /\ IsStore(RemoveCell(store, i))
<1> DEFINE s2 == RemoveCell(store, i)
           x == disk[at].cells[i]
<1>1. /\ Kept(store, root, t, T, Y, refused) /\ (dangling \/ Clean(store, T, Y)) /\ Spare(disk, root, T, t, at)
      /\ t \in Nat /\ t >= 2
  BY DEF Deleting, Sane, Degree
<1>2. Removed(s2, t, T, Y, refused, x)
  BY <1>1, RemoveStore
<1>3. Own(x) = {}
  BY DEF Own
<1> HIDE DEF s2, x
<1>4. /\ Kept(s2, root, t, T, Y, refused) /\ IsStore(s2) /\ s2.free = free
      /\ \A y \in Y : s2.disk[y].word = disk[y].word
      /\ \A H : Heads(disk, T, H) => Heads(s2.disk, T, H \ Own(x))
  BY <1>2 DEF Removed
<1>5. ASSUME Clean(store, T, Y)
      PROVE  Clean(s2, T, Y)
  <2>1. PICK H : Heads(disk, T, H) /\ Chained(disk, free, 0, {}, H, Y)
    BY <1>5, StoreFields DEF Clean, Begun
  <2>2. H \ Own(x) = H
    BY <1>3
  <2>3. Heads(s2.disk, T, H)
    BY <1>4, <2>1, <2>2
  <2>4. Chained(s2.disk, s2.free, 0, {}, H, Y)
    BY <1>4, <2>1, ChainedFrame
  <2> QED
    BY <2>3, <2>4 DEF Clean, Begun
<1>6. Sane(s2, root, t, T, Y, refused, dangling)
  BY <1>1, <1>4, <1>5 DEF Sane
<1> QED
  BY <1>4, <1>6 DEF s2

\* The chain of a cell is one of those of the file.
LEMMA ChainTaken ==
  ASSUME NEW s, NEW T, NEW Y, Clean(s, T, Y), NEW p \in T, NEW i \in 1 .. Len(s.disk[p].cells),
         IsOverflow(s.disk[p].cells[i])
  PROVE  Taken(s, s.disk[p].cells[i].first, s.disk[p].cells[i].first, T, Y)
<1> DEFINE y == s.disk[p].cells[i].first
<1>1. PICK H : Heads(s.disk, T, H) /\ Chained(s.disk, s.free, 0, {}, H, Y)
  BY DEF Clean, Begun
<1>2. y \in Firsts(s.disk[p].cells)
  BY FirstsAre
<1>3. HeadsIn(s.disk, T, H)
  BY <1>1, HeadsAre
<1>4. y \in H
  BY <1>2, <1>3 DEF HeadsIn
<1> HIDE DEF y
<1>5. \E E : Chained(s.disk, s.free, y, E, H \ {y}, Y)
  BY <1>1, <1>4, TakenChains
<1>6. Taken(s, y, y, T, Y)
  BY <1>1, <1>4, <1>5 DEF Taken
<1> QED
  BY <1>6 DEF y

\* btree_delete_recursive in a leaf.
LEMMA DeletesInLeaf ==
  ASSUME NEW t, Degree(t), NEW T, NEW Y, Deleting(t, T, Y), DeleteLeaf
  PROVE  Returning(t, T, Y)' \/ Freeing(t, T, Y)'
<1>1. /\ Kept(store, root, t, T, Y, refused) /\ (dangling \/ Clean(store, T, Y)) /\ Spare(disk, root, T, t, at)
      /\ Sane(store, root, t, T, Y, refused, dangling)
      /\ t \in Nat /\ t >= 2 /\ lost = FALSE /\ order = t /\ call.op = "delete" /\ at \in T
  BY DEF Deleting, Sane, Degree, Spare
<1>2. IsStore(store) /\ disk[at].leaf \in BOOLEAN
  BY <1>1, KeptRoot, StoreFields
<1>3. disk[at].leaf = TRUE
  BY <1>2 DEF DeleteLeaf
<1>4. /\ call' = call /\ target' = target /\ order' = order /\ root' = root /\ at' = at
      /\ lost' = lost /\ dangling' = dangling /\ refused' = refused
  BY DEF DeleteLeaf, handle, ghosts
<1>5. \/ Answer("NOTFOUND") /\ UNCHANGED storeVars
      \/ \E i \in IndexesOf(disk[at], target) :
           \/ ~IsOverflow(disk[at].cells[i]) /\ Become(RemoveCell(store, i)) /\ Answer("OK")
           \/ /\ IsOverflow(disk[at].cells[i]) /\ pc' = "unchain"
              /\ chain' = [NoChain EXCEPT !.first = disk[at].cells[i].first, !.prev = i]
              /\ UNCHANGED storeVars
  BY DEF DeleteLeaf
<1>6. CASE Answer("NOTFOUND") /\ UNCHANGED storeVars
  <2>1. store' = store
    BY <1>6, StaysAlike
  <2>2. pc' = "return" /\ result' = "NOTFOUND"
    BY <1>6 DEF Answer
  <2>3. Returning(t, T, Y)'
    BY <1>1, <1>4, <2>1, <2>2 DEF Returning
  <2> QED
    BY <2>3
<1>7. ASSUME NEW i \in IndexesOf(disk[at], target),
             ~IsOverflow(disk[at].cells[i]), Become(RemoveCell(store, i)), Answer("OK")
      PROVE  Returning(t, T, Y)'
  <2>1. i \in 1 .. Len(disk[at].cells)
    <3>1. disk[at].cells \in Seq(CellSet)
      BY <1>1, KeptRoot, StoreFields DEF Nodes, NodeIn
    <3> QED
      BY <3>1 DEF IndexesOf
  <2>2. Sane(RemoveCell(store, i), root, t, T, Y, refused, dangling) /\ IsStore(RemoveCell(store, i))
    BY <1>3, <1>7, <2>1, LeafCellGone
  <2>3. pc' = "return" /\ result' \in {"OK", "NOTFOUND"}
    BY <1>7 DEF Answer
  <2> QED
    BY <1>1, <1>4, <1>7, <2>2, <2>3, DeletionReturns
<1>8. ASSUME NEW i \in IndexesOf(disk[at], target), IsOverflow(disk[at].cells[i]), pc' = "unchain",
             chain' = [NoChain EXCEPT !.first = disk[at].cells[i].first, !.prev = i], UNCHANGED storeVars
      PROVE  Freeing(t, T, Y)'
  <2>1. store' = store /\ hdr' = hdr /\ disk' = disk
    BY <1>8, StaysAlike
  <2>2. i \in 1 .. Len(disk[at].cells)
    <3>1. disk[at].cells \in Seq(CellSet)
      BY <1>1, KeptRoot, StoreFields DEF Nodes, NodeIn
    <3> QED
      BY <3>1 DEF IndexesOf
  <2>3. /\ chain'.first = disk[at].cells[i].first /\ chain'.prev = i
        /\ "first" \in DOMAIN chain' /\ "prev" \in DOMAIN chain'
    BY <1>8 DEF NoChain
  <2>4. chain'.first \in Y \cup {0}
    <3>1. disk[at].cells[i].first \in Firsts(disk[at].cells)
      BY <1>8, <2>2, FirstsAre
    <3>2. Firsts(disk[at].cells) \subseteq Y
      BY <1>1, StoreFields DEF Kept, Sound, HeadsIn
    <3> QED
      BY <2>3, <3>1, <3>2
  <2>5. dangling \/ Taken(store, disk[at].cells[i].first, disk[at].cells[i].first, T, Y)
    <3>1. ASSUME Clean(store, T, Y)
          PROVE  Taken(store, store.disk[at].cells[i].first, store.disk[at].cells[i].first, T, Y)
      <4>1. i \in 1 .. Len(store.disk[at].cells) /\ IsOverflow(store.disk[at].cells[i])
        BY <1>8, <2>2, StoreFields
      <4> QED
        BY <1>1, <3>1, <4>1, ChainTaken
    <3> QED
      BY <1>1, <3>1, StoreFields
  <2>6. disk'[at'].cells[chain'.prev] = disk[at].cells[i]
    BY <1>4, <2>1, <2>3
  <2>7. Spare(disk', root', T, t, at') /\ disk'[at'].leaf = TRUE
    BY <1>1, <1>3, <1>4, <2>1
  <2>8. chain'.prev \in 1 .. Len(disk'[at'].cells) /\ IsOverflow(disk'[at'].cells[chain'.prev])
    BY <1>4, <1>8, <2>1, <2>2, <2>3
  <2>9. dangling' \/ Taken(store', chain'.first, disk'[at'].cells[chain'.prev].first, T, Y)
    BY <1>4, <2>1, <2>3, <2>5, <2>6
  <2>10. Kept(store', root', t, T, Y, refused')
    BY <1>1, <1>4, <2>1
  <2> QED
    BY <1>1, <1>4, <1>8, <2>3, <2>4, <2>7, <2>8, <2>9, <2>10 DEF Freeing
<1> QED
  BY <1>5, <1>6, <1>7, <1>8

\* Freeing a page of a chain leaves the tree alone.
LEMMA FreedKept ==
  ASSUME NEW s, NEW s2, NEW r, NEW t, NEW T, NEW Y, NEW rf, NEW z, Kept(s, r, t, T, Y, rf), z \in Y,
         ChainFreed(s, s2, T, Y, z)
  PROVE  /\ Kept(s2, r, t, T, Y, rf) /\ IsStore(s2) /\ \A q \in T : s2.disk[q] = s.disk[q]
<1>1. /\ Sound(s.disk, r, T, Y) /\ Sizes(s.disk, r, T, t) /\ Filed(s, T, Y)
      /\ rf \/ Whole(s, T, Y)
      /\ s.hdr.magic = TRUE /\ s.hdr.root \in DataPages /\ s.hdr.free \in 0 .. MaxPages - 1
  BY DEF Kept
<1>2. /\ Filed(s2, T, Y) /\ (Whole(s, T, Y) => Whole(s2, T, Y)) /\ s2.hdr = s.hdr
      /\ \A q \in (T \cup Y) \ {z} : s2.disk[q] = s.disk[q]
  BY DEF ChainFreed
<1>3. \A q \in T : s2.disk[q] = s.disk[q]
  <2>1. z \notin T
    BY <1>1 DEF Filed
  <2> QED
    BY <1>2, <2>1
<1>4. Sound(s2.disk, r, T, Y)
  BY <1>1, <1>3, SameSound
<1>5. Sizes(s2.disk, r, T, t)
  BY <1>1, <1>3 DEF Sizes
<1>6. Kept(s2, r, t, T, Y, rf)
  BY <1>1, <1>2, <1>4, <1>5 DEF Kept
<1>7. IsStore(s2)
  BY <1>2 DEF Filed
<1> QED
  BY <1>3, <1>6, <1>7

\* What is left of the chain after its first page was freed.
LEMMA FreedTaken ==
  ASSUME NEW s, NEW s2, NEW T, NEW Y, NEW z, NEW y, Taken(s, z, y, T, Y), Filed(s, T, Y), z \in Y,
         ChainFreed(s, s2, T, Y, z), \A q \in T : s2.disk[q] = s.disk[q]
  PROVE  Taken(s2, s.disk[z].word, y, T, Y)
<1>1. PICK H, E : y \in H /\ Heads(s.disk, T, H) /\ Chained(s.disk, s.free, z, E, H \ {y}, Y)
  BY DEF Taken
<1>2. /\ s2.free = z /\ s2.disk[z].word = s.free
      /\ \A q \in (T \cup Y) \ {z} : s2.disk[q] = s.disk[q]
  BY DEF ChainFreed
<1>3. z # 0
  <2>1. Y \subseteq DataPages
    BY FiledPages
  <2> QED
    BY <2>1, NotZero
<1>4. \A q \in Y \ {z} : s2.disk[q].word = s.disk[q].word
  BY <1>2
<1>5. Chained(s2.disk, z, s.disk[z].word, E \ {z}, H \ {y}, Y)
  BY <1>1, <1>2, <1>3, <1>4, FreedChains
<1>6. Heads(s2.disk, T, H)
  BY <1>1 DEF Heads, HeadsBy
<1> QED
  BY <1>1, <1>2, <1>5, <1>6 DEF Taken

\* A turn of the loop of overflow_free.
LEMMA FreesPage ==
  ASSUME NEW t, NEW T, NEW Y, Freeing(t, T, Y), chain.first # 0, Become(PagerFree(store, chain.first)),
         chain' = [chain EXCEPT !.first = disk[chain.first].word],
         pc' = pc, call' = call, at' = at, order' = order, root' = root,
         lost' = lost, dangling' = dangling, refused' = refused
  PROVE  Freeing(t, T, Y)'
<1> DEFINE s2 == PagerFree(store, chain.first)
           y == disk[at].cells[chain.prev].first
<1>1. /\ pc = "unchain" /\ lost = FALSE /\ order = t /\ call.op = "delete"
      /\ Kept(store, root, t, T, Y, refused)
      /\ Spare(disk, root, T, t, at) /\ disk[at].leaf = TRUE
      /\ "first" \in DOMAIN chain /\ "prev" \in DOMAIN chain
      /\ chain.prev \in 1 .. Len(disk[at].cells) /\ IsOverflow(disk[at].cells[chain.prev])
      /\ chain.first \in Y \cup {0}
      /\ dangling \/ Taken(store, chain.first, y, T, Y)
  BY DEF Freeing
<1>2. PICK z : z = chain.first
  OBVIOUS
<1>3. z \in Y /\ Filed(store, T, Y)
  BY <1>1, <1>2 DEF Kept
<1>4. s2 = PagerFree(store, z)
  BY <1>2
<1>5. Become(s2)
  OBVIOUS
<1> HIDE DEF s2, y
<1>6. ChainFreed(store, s2, T, Y, z)
  BY <1>3, <1>4, ChainFrees
<1>7. Kept(s2, root, t, T, Y, refused) /\ IsStore(s2) /\ \A q \in T : s2.disk[q] = store.disk[q]
  <2>1. Kept(store, root, t, T, Y, refused) /\ z \in Y
    BY <1>1, <1>3
  <2> QED
    BY <1>6, <2>1, FreedKept
<1>8. Alike(s2, store') /\ disk' = s2.disk
  BY <1>5, <1>7, Became DEF Become
<1>9. Kept(store', root, t, T, Y, refused)
  BY <1>7, <1>8, AlikeKept
<1>10. at \in T /\ disk'[at] = disk[at]
  BY <1>1, <1>7, <1>8, StoreFields DEF Spare
<1>11. Spare(disk', root, T, t, at)
  BY <1>1, <1>10 DEF Spare
<1>12. chain'.first = store.disk[z].word /\ chain'.prev = chain.prev /\ "first" \in DOMAIN chain' /\ "prev" \in DOMAIN chain'
  BY <1>1, <1>2, StoreFields
<1>13. chain'.first \in Y \cup {0}
  BY <1>3, <1>12 DEF Filed
<1>14. dangling \/ Taken(store', chain'.first, y, T, Y)
  <2>1. ASSUME Taken(store, chain.first, y, T, Y)
        PROVE  Taken(store', store.disk[z].word, y, T, Y)
    <3>1. Taken(store, z, y, T, Y)
      BY <1>2, <2>1
    <3>2. Taken(s2, store.disk[z].word, y, T, Y)
      BY <1>3, <1>6, <1>7, <3>1, FreedTaken
    <3> QED
      BY <1>8, <3>2, AlikeTaken
  <2> QED
    BY <1>1, <1>12, <2>1
<1>15. y = disk'[at].cells[chain'.prev].first
  BY <1>10, <1>12 DEF y
<1> QED
  BY <1>1, <1>9, <1>10, <1>11, <1>12, <1>13, <1>14, <1>15 DEF Freeing

\* The chain is free: the cell goes.
LEMMA FreesCell ==
  ASSUME NEW t, Degree(t), NEW T, NEW Y, Freeing(t, T, Y), chain.first = 0 \/ ~PagerReadable(store, chain.first),
         Become(RemoveCell(store, chain.prev)), pc' = "return", result' = "OK",
         call' = call, at' = at, order' = order, root' = root,
         lost' = lost, dangling' = dangling, refused' = refused
  PROVE  Returning(t, T, Y)'
<1> DEFINE i == chain.prev
           x == disk[at].cells[i]
           s2 == RemoveCell(store, i)
<1>1. /\ lost = FALSE /\ order = t /\ call.op = "delete"
      /\ Kept(store, root, t, T, Y, refused)
      /\ Spare(disk, root, T, t, at) /\ disk[at].leaf = TRUE
      /\ i \in 1 .. Len(disk[at].cells) /\ IsOverflow(x)
      /\ chain.first \in Y \cup {0}
      /\ dangling \/ Taken(store, chain.first, x.first, T, Y)
      /\ t \in Nat /\ t >= 2 /\ at \in T
  BY DEF Freeing, Degree, Spare
<1>2. chain.first = 0
  <2>1. ASSUME chain.first \in Y
        PROVE  PagerReadable(store, chain.first)
    <3>1. Filed(store, T, Y)
      BY <1>1 DEF Kept
    <3>2. chain.first \in 2 .. store.count - 1 /\ store.count \in Nat
      BY <2>1, <3>1 DEF Filed
    <3>3. chain.first < store.count
      BY <3>2
    <3> QED
      BY <3>3 DEF PagerReadable
  <2> QED
    BY <1>1, <2>1
<1>3. Become(s2)
  OBVIOUS
<1>4. Removed(s2, t, T, Y, refused, x)
  BY <1>1, RemoveStore
<1>5. Own(x) = {x.first}
  BY <1>1 DEF Own
<1> HIDE DEF s2, x, i
<1>6. /\ Kept(s2, root, t, T, Y, refused) /\ IsStore(s2) /\ s2.free = free
      /\ \A y \in Y : s2.disk[y].word = disk[y].word
      /\ \A H : Heads(disk, T, H) => Heads(s2.disk, T, H \ Own(x))
  BY <1>4 DEF Removed
<1>7. ASSUME Taken(store, chain.first, x.first, T, Y)
      PROVE  Clean(s2, T, Y)
  <2>1. Taken(store, 0, x.first, T, Y)
    BY <1>2, <1>7
  <2>2. PICK H, E : Heads(disk, T, H) /\ Chained(disk, free, 0, E, H \ {x.first}, Y)
    BY <2>1, StoreFields DEF Taken
  <2>3. E = {}
    BY <2>2, ChainedInside DEF ChainedIn
  <2>4. Chained(disk, free, 0, {}, H \ {x.first}, Y)
    BY <2>2, <2>3
  <2>5. Heads(s2.disk, T, H \ {x.first})
    BY <1>5, <1>6, <2>2
  <2>6. Chained(s2.disk, s2.free, 0, {}, H \ {x.first}, Y)
    BY <1>6, <2>4, ChainedFrame
  <2> QED
    BY <2>5, <2>6 DEF Clean, Begun
<1>8. Sane(s2, root, t, T, Y, refused, dangling)
  BY <1>1, <1>6, <1>7 DEF Sane
<1>9. result' \in {"OK", "NOTFOUND"}
  OBVIOUS
<1> QED
  BY <1>1, <1>3, <1>6, <1>8, <1>9, DeletionReturns

\* overflow_free, and the removal once it is through.
LEMMA FreesOn ==
  ASSUME NEW t, Degree(t), NEW T, NEW Y, Freeing(t, T, Y), OverflowFree
  PROVE  Freeing(t, T, Y)' \/ Returning(t, T, Y)'
<1>1. /\ call' = call /\ at' = at /\ order' = order /\ root' = root
      /\ lost' = lost /\ dangling' = dangling /\ refused' = refused
  BY DEF OverflowFree, handle, ghosts
<1>2. \/ /\ chain.first # 0 /\ Become(PagerFree(store, chain.first))
         /\ chain' = [chain EXCEPT !.first = disk[chain.first].word] /\ pc' = pc
      \/ /\ chain.first = 0 \/ ~PagerReadable(store, chain.first)
         /\ Become(RemoveCell(store, chain.prev)) /\ Answer("OK")
  BY DEF OverflowFree
<1>3. CASE /\ chain.first # 0 /\ Become(PagerFree(store, chain.first))
           /\ chain' = [chain EXCEPT !.first = disk[chain.first].word] /\ pc' = pc
  <2>1. Freeing(t, T, Y)'
    BY <1>1, <1>3, FreesPage
  <2> QED
    BY <2>1
<1>4. CASE /\ chain.first = 0 \/ ~PagerReadable(store, chain.first)
           /\ Become(RemoveCell(store, chain.prev)) /\ Answer("OK")
  <2>1. pc' = "return" /\ result' = "OK"
    BY <1>4 DEF Answer
  <2>2. Returning(t, T, Y)'
    BY <1>1, <1>4, <2>1, FreesCell
  <2> QED
    BY <2>2
<1> QED
  BY <1>2, <1>3, <1>4

--------------------------------------------------------------------------------
\* Deletion: internal nodes and the descent.

\* A store reached from one that holds the tree.
LEMMA CarriedSane ==
  ASSUME NEW s, NEW s2, NEW r, NEW r2, NEW t, NEW T, NEW Y, NEW T2, NEW Y2, NEW rf, NEW dg,
         Sane(s, r, t, T, Y, rf, dg), Carries(s, s2, T, Y, T2, Y2),
         Sound(s2.disk, r2, T2, Y2), Sizes(s2.disk, r2, T2, t)
  PROVE  Sane(s2, r2, t, T2, Y2, rf, dg) /\ IsStore(s2)
<1>1. /\ rf \/ Whole(s, T, Y)
      /\ s.hdr.magic = TRUE /\ s.hdr.root \in DataPages /\ s.hdr.free \in 0 .. MaxPages - 1
      /\ dg \/ Clean(s, T, Y)
  BY DEF Sane, Kept
<1>2. /\ Filed(s2, T2, Y2) /\ (Whole(s, T, Y) => Whole(s2, T2, Y2)) /\ s2.hdr = s.hdr
      /\ \A H : Heads(s.disk, T, H) => Heads(s2.disk, T2, H)
      /\ \A D : Chained(s.disk, s.free, 0, {}, D, Y) => Chained(s2.disk, s2.free, 0, {}, D, Y2)
  BY DEF Carries
<1>3. Kept(s2, r2, t, T2, Y2, rf)
  BY <1>1, <1>2 DEF Kept
<1>4. ASSUME Clean(s, T, Y)
      PROVE  Clean(s2, T2, Y2)
  BY <1>2, <1>4 DEF Clean, Begun
<1>5. IsStore(s2)
  BY <1>2 DEF Filed
<1> QED
  BY <1>1, <1>3, <1>4, <1>5 DEF Sane

\* A deletion goes on below.
LEMMA GoesOn ==
  ASSUME NEW t, NEW T, NEW Y, NEW s, NEW r, NEW a, NEW dg, Sane(s, r, t, T, Y, refused, dg), IsStore(s), Become(s),
         Spare(s.disk, r, T, t, a), a = at', r = root', dg = dangling', target' \in Nat,
         pc = "delete", lost = FALSE, order = t, call.op = "delete",
         pc' = pc, call' = call, order' = order, lost' = lost, refused' = refused
  PROVE  Deleting(t, T, Y)'
<1>1. Alike(s, store')
  BY Became
<1>2. Sane(store', r, t, T, Y, refused, dg)
  BY <1>1, AlikeSane
<1>3. disk' = s.disk
  BY DEF Become
<1>4. Sane(store', root', t, T, Y, refused', dangling')
  BY <1>2
<1>5. Spare(disk', root', T, t, at')
  BY <1>3
<1> QED
  BY <1>4, <1>5 DEF Deleting

\* What is known of a deletion that meets an internal node.
Inside(t, T, Y) ==
  /\ t \in Nat /\ t >= 2 /\ order = t /\ lost = FALSE /\ call.op = "delete" /\ target \in Nat /\ pc = "delete"
  /\ Sane(store, root, t, T, Y, refused, dangling) /\ Spare(disk, root, T, t, at)
  /\ Sound(store.disk, root, T, Y) /\ Sizes(store.disk, root, T, t) /\ Filed(store, T, Y)
  /\ at \in T /\ store.disk[at].leaf = FALSE
  /\ store.disk[at].cells \in Seq(CellSet) /\ Len(store.disk[at].cells) \in Nat
  /\ at # root => Len(store.disk[at].cells) > t - 1

\* What a deletion finds at an internal node.
LEMMA InsideIs ==
  ASSUME NEW t, Degree(t), NEW T, NEW Y, Deleting(t, T, Y), ~disk[at].leaf
  PROVE  Inside(t, T, Y)
<1>1. /\ Kept(store, root, t, T, Y, refused) /\ Spare(disk, root, T, t, at)
      /\ Sane(store, root, t, T, Y, refused, dangling)
      /\ t \in Nat /\ t >= 2 /\ lost = FALSE /\ order = t /\ call.op = "delete" /\ target \in Nat /\ pc = "delete"
  BY DEF Deleting, Sane, Degree
<1>2. at \in T /\ (at # root => Len(store.disk[at].cells) > t - 1)
  BY <1>1, StoreFields DEF Spare
<1>3. Nodes(store.disk, T) /\ store.disk[at].leaf \in BOOLEAN
  BY <1>1, <1>2, KeptRoot
<1>4. store.disk[at].leaf = FALSE
  BY <1>3, StoreFields
<1>5. store.disk[at].cells \in Seq(CellSet)
  BY <1>2, <1>3 DEF Nodes, NodeIn
<1>6. Len(store.disk[at].cells) \in Nat
  BY <1>5, LenProperties
<1> QED
  BY <1>1, <1>2, <1>4, <1>5, <1>6 DEF Inside, Kept

\* A neighbour in key order takes the place of the deleted cell.
LEMMA NeighbourReplaces ==
  ASSUME NEW t, NEW T, NEW Y, Inside(t, T, Y), NEW i \in 1 .. Len(store.disk[at].cells), NEW c,
         c \in {Predecessor(store, store.disk[at].kids[i]), Successor(store, store.disk[at].kids[i + 1])},
         Become(WriteNode(store, at, Node(FALSE, ReplaceAt(store.disk[at].cells, i, c), store.disk[at].kids))),
         NEW n \in {i, i + 1}, at' = store.disk[at].kids[n], Len(store.disk[store.disk[at].kids[n]].cells) > t - 1,
         target' = c.key, dangling' = (dangling \/ IsOverflow(c) \/ IsOverflow(store.disk[at].cells[i])),
         root' = root, pc' = pc, call' = call, order' = order, lost' = lost, refused' = refused
  PROVE  Deleting(t, T, Y)'
<1> DEFINE d == store.disk
           node == Node(FALSE, ReplaceAt(d[at].cells, i, c), d[at].kids)
           s2 == WriteNode(store, at, node)
           dg == dangling \/ IsOverflow(c) \/ IsOverflow(d[at].cells[i])
<1>1. /\ t \in Nat /\ t >= 2 /\ order = t /\ lost = FALSE /\ call.op = "delete" /\ pc = "delete"
      /\ Sane(store, root, t, T, Y, refused, dangling)
      /\ Sound(d, root, T, Y) /\ Sizes(d, root, T, t) /\ Filed(store, T, Y)
      /\ at \in T /\ d[at].leaf = FALSE /\ i \in 1 .. Len(d[at].cells) /\ Len(d[at].cells) \in Nat
  BY DEF Inside
<1>2. Become(s2) /\ target' = c.key /\ dangling' = dg
  OBVIOUS
<1>3. NextTo(d, T, at, i, c) /\ \E q \in T : c \in Members(d[q].cells)
  <2>1. d = store.disk
    OBVIOUS
  <2> HIDE DEF d
  <2>2. NextTo(store.disk, T, at, i, c) /\ \E q \in T : c \in Members(store.disk[q].cells)
    <3>1. /\ Sound(store.disk, root, T, Y) /\ Sizes(store.disk, root, T, t) /\ t \in Nat /\ t >= 2
          /\ at \in T /\ store.disk[at].leaf = FALSE
      BY DEF Inside
    <3>2. PICK s : s = store
      OBVIOUS
    <3>3. /\ Sound(s.disk, root, T, Y) /\ Sizes(s.disk, root, T, t)
          /\ s.disk[at].leaf = FALSE /\ i \in 1 .. Len(s.disk[at].cells)
          /\ c \in {Predecessor(s, s.disk[at].kids[i]), Successor(s, s.disk[at].kids[i + 1])}
      BY <3>1, <3>2
    <3>4. NeighbourOf(s.disk, T, at, i, c)
      BY <3>1, <3>3, NeighbourFound
    <3> QED
      BY <3>2, <3>4 DEF NeighbourOf
  <2> QED
    BY <2>1, <2>2
<1> HIDE DEF node, s2
<1>4. TreeWrote(store, s2, T, Y, at, node)
  BY <1>1, TreeWrites DEF s2
<1>5. /\ Filed(s2, T, Y) /\ (Whole(store, T, Y) => Whole(s2, T, Y))
      /\ s2.free = store.free /\ s2.hdr = store.hdr
      /\ s2.disk[at] = node /\ \A q \in (T \cup Y) \ {at} : s2.disk[q] = d[q]
  BY <1>4 DEF TreeWrote
<1>6. /\ Sound(s2.disk, root, T, Y) /\ c \in CellSet
      /\ Len(s2.disk[at].cells) = Len(d[at].cells) /\ s2.disk[at].leaf = FALSE /\ s2.disk[at].kids = d[at].kids
      /\ ~IsOverflow(c) /\ ~IsOverflow(d[at].cells[i]) => \A H : Heads(d, T, H) => Heads(s2.disk, T, H)
  <2>1. s2.disk[at] = Node(FALSE, ReplaceAt(d[at].cells, i, c), d[at].kids)
    BY <1>5 DEF node
  <2>2. \A q \in T \ {at} : s2.disk[q] = d[q]
    BY <1>5
  <2> HIDE DEF d
  <2> QED
    BY <1>1, <1>3, <2>1, <2>2, NeighbourSound
<1>7. Sizes(s2.disk, root, T, t)
  BY <1>1, <1>5, <1>6 DEF Sizes
<1>8. Kept(s2, root, t, T, Y, refused)
  BY <1>1, <1>5, <1>6, <1>7 DEF Kept, Sane
<1>9. dg \/ Clean(s2, T, Y)
  <2>1. ASSUME Clean(store, T, Y), ~IsOverflow(c), ~IsOverflow(d[at].cells[i])
        PROVE  Clean(s2, T, Y)
    <3>1. PICK H : Heads(d, T, H) /\ Chained(d, store.free, 0, {}, H, Y)
      BY <2>1 DEF Clean, Begun
    <3>2. Heads(s2.disk, T, H)
      BY <1>6, <2>1, <3>1
    <3>3. \A y \in Y : s2.disk[y].word = d[y].word
      <4>1. at \notin Y
        BY <1>1 DEF Filed
      <4> QED
        BY <1>5, <4>1
    <3>4. Chained(s2.disk, s2.free, 0, {}, H, Y)
      BY <1>5, <3>1, <3>3, ChainedFrame
    <3> QED
      BY <3>2, <3>4 DEF Clean, Begun
  <2> QED
    BY <1>1, <2>1 DEF Sane
<1>10. PICK a, e : a = d[at].kids[n] /\ e = dg
  OBVIOUS
<1>11. Sane(s2, root, t, T, Y, refused, e)
  BY <1>8, <1>9, <1>10 DEF Sane
<1>12. IsStore(s2)
  BY <1>5 DEF Filed
<1>13. Spare(s2.disk, root, T, t, a)
  <2>1. Children(d, root, T, at)
    BY <1>1, KidsOf
  <2>2. n \in 1 .. Len(d[at].kids)
    BY <1>1, <2>1 DEF Children
  <2>3. a \in T \ {at, root}
    BY <1>10, <2>1, <2>2 DEF Children
  <2>4. s2.disk[a] = d[a]
    BY <1>5, <2>3
  <2> QED
    BY <1>10, <2>3, <2>4 DEF Spare
<1>14. target' \in Nat
  BY <1>2, <1>6, CellFields
<1>15. a = at' /\ e = dangling'
  BY <1>2, <1>10
<1> HIDE DEF d
<1> QED
  BY <1>1, <1>2, <1>11, <1>12, <1>13, <1>14, <1>15, GoesOn

\* The node the deletion has reached was made ready for the descent: s2 is the store.
Readied(s2, t, T, Y, T2, Y2) ==
  /\ Carries(store, s2, T, Y, T2, Y2)
  /\ Sound(s2.disk, root, T2, Y2) /\ Near(s2.disk, root, T2, t, at)
  /\ at \in T2 /\ s2.disk[at].leaf = FALSE
  /\ s2.disk[at].cells \in Seq(CellSet) /\ Len(s2.disk[at].cells) \in Nat
  /\ at # root => Len(s2.disk[at].cells) >= 1

\* What a deletion does not touch.
Deletes ==
  /\ pc' = pc /\ call' = call /\ order' = order /\ lost' = lost /\ refused' = refused
  /\ target' = target /\ dangling' = dangling

\* An empty root gives way to its only child.
LEMMA RootGone ==
  ASSUME NEW t, NEW T, NEW Y, Inside(t, T, Y), NEW s2, NEW T2, NEW Y2, Readied(s2, t, T, Y, T2, Y2),
         s2.disk[at].cells = << >>, at = root, root' = s2.disk[at].kids[1], at' = s2.disk[at].kids[1],
         Become(PagerFree(s2, at)), Deletes
  PROVE  \E U, V : Deleting(t, U, V)'
<1>1. /\ order = t /\ lost = FALSE /\ call.op = "delete" /\ pc = "delete" /\ target \in Nat
      /\ Sane(store, root, t, T, Y, refused, dangling)
  BY DEF Inside
<1>2. /\ Carries(store, s2, T, Y, T2, Y2) /\ Filed(s2, T2, Y2)
      /\ Sound(s2.disk, root, T2, Y2) /\ Near(s2.disk, root, T2, t, root)
      /\ s2.disk[root].leaf = FALSE /\ Len(s2.disk[root].cells) = 0
  BY DEF Readied, Carries
<1>3. LowerDone(s2, PagerFree(s2, root), root, s2.disk[root].kids[1], t, T2, Y2)
  BY <1>2, LowerStore
<1>4. PICK s3, r : s3 = PagerFree(s2, root) /\ r = s2.disk[root].kids[1]
  OBVIOUS
<1>5. /\ r \in T2 \ {root} /\ Sound(s3.disk, r, T2 \ {root}, Y2 \cup {root}) /\ Sizes(s3.disk, r, T2 \ {root}, t)
      /\ Carries(s2, s3, T2, Y2, T2 \ {root}, Y2 \cup {root})
  BY <1>3, <1>4 DEF LowerDone
<1>6. Carries(store, s3, T, Y, T2 \ {root}, Y2 \cup {root})
  BY <1>2, <1>5, CarriesOn
<1>7. Sane(s3, r, t, T2 \ {root}, Y2 \cup {root}, refused, dangling) /\ IsStore(s3)
  BY <1>1, <1>5, <1>6, CarriedSane
<1>8. Spare(s3.disk, r, T2 \ {root}, t, r)
  BY <1>5 DEF Spare
<1>9. Become(s3) /\ r = at' /\ r = root' /\ target' \in Nat /\ dangling = dangling'
      /\ pc' = pc /\ call' = call /\ order' = order /\ lost' = lost /\ refused' = refused
  BY <1>1, <1>4 DEF Deletes
<1>10. PICK U, V : U = T2 \ {root} /\ V = Y2 \cup {root}
  OBVIOUS
<1>11. Sane(s3, r, t, U, V, refused, dangling) /\ Spare(s3.disk, r, U, t, r)
  BY <1>7, <1>8, <1>10
<1>12. Deleting(t, U, V)'
  BY <1>1, <1>7, <1>9, <1>11, GoesOn
<1> QED
  BY <1>12

\* The deletion goes down from the node that was made ready.
LEMMA ReadyGoesOn ==
  ASSUME NEW t, NEW T, NEW Y, Inside(t, T, Y), NEW s2, NEW T2, NEW Y2, Readied(s2, t, T, Y, T2, Y2),
         ~(s2.disk[at].cells = << >> /\ at = root),
         Become(s2), NEW a, a = at', a \in T2, Len(s2.disk[a].cells) > t - 1, root' = root, Deletes
  PROVE  Deleting(t, T2, Y2)'
<1>1. /\ order = t /\ lost = FALSE /\ call.op = "delete" /\ pc = "delete" /\ target \in Nat
      /\ Sane(store, root, t, T, Y, refused, dangling)
  BY DEF Inside
<1>2. /\ Carries(store, s2, T, Y, T2, Y2) /\ Sound(s2.disk, root, T2, Y2) /\ Near(s2.disk, root, T2, t, at)
      /\ s2.disk[at].cells \in Seq(CellSet) /\ Len(s2.disk[at].cells) \in Nat
      /\ at # root => Len(s2.disk[at].cells) >= 1
  BY DEF Readied
<1>3. Len(s2.disk[at].cells) >= 1
  <2>1. s2.disk[at].cells # << >> => Len(s2.disk[at].cells) # 0
    BY <1>2, EmptySeq
  <2> QED
    BY <1>2, <2>1
<1>4. Sizes(s2.disk, root, T2, t)
  BY <1>2, <1>3 DEF Near, Sizes
<1>5. Sane(s2, root, t, T2, Y2, refused, dangling) /\ IsStore(s2)
  BY <1>1, <1>2, <1>4, CarriedSane
<1>6. PICK r : r = root
  OBVIOUS
<1>7. Sane(s2, r, t, T2, Y2, refused, dangling) /\ Spare(s2.disk, r, T2, t, a)
  BY <1>5, <1>6 DEF Spare
<1>8. /\ r = root' /\ target' \in Nat /\ dangling = dangling'
      /\ pc' = pc /\ call' = call /\ order' = order /\ lost' = lost /\ refused' = refused
  BY <1>1, <1>6 DEF Deletes
<1> QED
  BY <1>1, <1>5, <1>7, <1>8, GoesOn

MergedReady(s2, t, T, Y, i, a, z) ==
  /\ Readied(s2, t, T, Y, T \ {z}, Y \cup {z})
  /\ a \in T \ {z} /\ Len(s2.disk[a].cells) > t - 1 /\ s2.disk[at].kids[i] = a

\* The children beside the deleted cell were merged.
LEMMA MergeReadies ==
  ASSUME NEW t, NEW T, NEW Y, Inside(t, T, Y), NEW i \in 1 .. Len(store.disk[at].cells),
         NEW a, NEW z, a = store.disk[at].kids[i], z = store.disk[at].kids[i + 1],
         Len(store.disk[a].cells) <= t - 1, Len(store.disk[z].cells) <= t - 1,
         NEW s2, s2 = MergeChildren(store, at, i)
  PROVE  MergedReady(s2, t, T, Y, i, a, z)
<1>1. /\ t \in Nat /\ t >= 2
      /\ Sound(store.disk, root, T, Y) /\ Sizes(store.disk, root, T, t) /\ Filed(store, T, Y)
      /\ at \in T /\ store.disk[at].leaf = FALSE
      /\ at # root => Len(store.disk[at].cells) > t - 1
  BY DEF Inside
<1>2. PICK s, r, p : s = store /\ r = root /\ p = at
  OBVIOUS
<1>3. /\ Sound(s.disk, r, T, Y) /\ Sizes(s.disk, r, T, t) /\ Filed(s, T, Y)
      /\ p \in T /\ s.disk[p].leaf = FALSE /\ (p # r => Len(s.disk[p].cells) > t - 1)
      /\ i \in 1 .. Len(s.disk[p].cells) /\ a = s.disk[p].kids[i] /\ z = s.disk[p].kids[i + 1]
      /\ Len(s.disk[a].cells) <= t - 1 /\ Len(s.disk[z].cells) <= t - 1
      /\ s2 = MergeChildren(s, p, i)
  BY <1>1, <1>2
<1>4. Neighbours(s.disk, r, T, t, p, i, a, z)
  BY <1>1, <1>3, NeighboursAre
<1>5. Siblings(s.disk, T, p, i, a, z)
  BY <1>4 DEF Neighbours
<1>6. MergeDone(s, s2, T, Y, p, i, a, z)
  BY <1>3, <1>5, MergeStore
<1>7. MergeOf(s.disk, s2.disk, T, p, i, a, z) /\ Carries(s, s2, T, Y, T \ {z}, Y \cup {z})
  BY <1>6 DEF MergeDone
<1>8. MergeSizes(s.disk, s2.disk, r, T, t, p, i, a, z)
  BY <1>1, <1>3, <1>7, MergedSizes
<1>9. MergeKeeps(s.disk, s2.disk, r, T, Y, p, z)
  BY <1>3, <1>5, <1>7, MergedSound
<1>10. Sound(s2.disk, r, T \ {z}, Y \cup {z})
  <2>1. Sound(s2.disk, r, T \ {z}, Y)
    BY <1>9 DEF MergeKeeps
  <2>2. Y \subseteq Y \cup {z} /\ \A q \in T \ {z} : s2.disk[q] = s2.disk[q]
    OBVIOUS
  <2> QED
    BY <2>1, <2>2, SameSound
<1>11. s2.disk[p].cells \in Seq(CellSet) /\ Len(s2.disk[p].cells) \in Nat /\ p \in T \ {z}
  <2>1. p \in T \ {z}
    BY <1>8 DEF MergeSizes
  <2>2. Nodes(s2.disk, T \ {z})
    BY <1>10 DEF Sound
  <2>3. s2.disk[p].cells \in Seq(CellSet)
    BY <2>1, <2>2 DEF Nodes, NodeIn
  <2>4. Len(s2.disk[p].cells) \in Nat
    BY <2>3, LenProperties
  <2> QED
    BY <2>1, <2>3, <2>4
<1>12. /\ Len(s2.disk[a].cells) = 2 * t - 1 /\ a \in T \ {z} /\ s2.disk[p].kids[i] = a
       /\ Near(s2.disk, r, T \ {z}, t, p) /\ (p # r => Len(s2.disk[p].cells) >= 1)
  BY <1>8 DEF MergeSizes
<1>13. s2.disk[p].leaf = FALSE
  BY <1>9 DEF MergeKeeps
<1>14. Readied(s2, t, T, Y, T \ {z}, Y \cup {z})
  BY <1>2, <1>7, <1>10, <1>11, <1>12, <1>13 DEF Readied
<1>15. Len(s2.disk[a].cells) > t - 1
  BY <1>1, <1>12
<1> QED
  BY <1>2, <1>12, <1>14, <1>15 DEF MergedReady

\* What ensure_min_keys leaves behind.
LEMMA EnsureReadies ==
  ASSUME NEW t, NEW T, NEW Y, Inside(t, T, Y),
         NEW s2, s2 = EnsureMinKeys(store, at, Below(store.disk[at], target) + 1)
  PROVE  \E T2, Y2 : /\ Readied(s2, t, T, Y, T2, Y2)
                     /\ s2.disk[at].kids[Below(s2.disk[at], target) + 1] \in T2
                     /\ Len(s2.disk[s2.disk[at].kids[Below(s2.disk[at], target) + 1]].cells) > t - 1
<1>1. /\ t \in Nat /\ t >= 2 /\ order = t /\ target \in Nat
      /\ Sound(store.disk, root, T, Y) /\ Sizes(store.disk, root, T, t) /\ Filed(store, T, Y)
      /\ at \in T /\ store.disk[at].leaf = FALSE
      /\ at # root => Len(store.disk[at].cells) > t - 1
  BY DEF Inside
<1>2. PICK s, r, p, k : s = store /\ r = root /\ p = at /\ k = target
  OBVIOUS
<1>3. PICK b : b = Below(s.disk[p], k)
  OBVIOUS
<1>4. /\ Sound(s.disk, r, T, Y) /\ Sizes(s.disk, r, T, t) /\ Filed(s, T, Y)
      /\ p \in T /\ s.disk[p].leaf = FALSE /\ (p # r => Len(s.disk[p].cells) > t - 1)
      /\ s2 = EnsureMinKeys(s, p, b + 1) /\ k \in Nat
  BY <1>1, <1>2, <1>3
<1>5. Position(s.disk[p].cells, k, b)
  <2>1. PICK R : OrderedBy(s.disk, T, R)
    BY <1>4 DEF Sound, Orderly
  <2>2. Nodes(s.disk, T)
    BY <1>4 DEF Sound
  <2>3. s.disk[p].cells \in Seq(CellSet) /\ Sorted(s.disk[p].cells)
    BY <1>4, <2>1, <2>2, NodeOrder
  <2> QED
    BY <1>3, <1>4, <2>3, BelowIs
<1>6. Entering(s.disk, r, T, Y, t, p, k, b)
  BY <1>1, <1>4, <1>5 DEF Entering
<1>7. EnsureDone(s, s2, r, t, T, Y, p, k)
  BY <1>1, <1>4, <1>6, EnsureStore
<1>8. PICK T2, Y2 : /\ Y \subseteq Y2 /\ Ensured(s.disk, s2.disk, r, T, T2, Y, t, p, k)
                    /\ Carries(s, s2, T, Y, T2, Y2)
  BY <1>7 DEF EnsureDone
<1>9. /\ p \in T2 /\ Sound(s2.disk, r, T2, Y) /\ Near(s2.disk, r, T2, t, p)
      /\ p # r => Len(s2.disk[p].cells) >= 1
      /\ s2.disk[p].leaf = FALSE
  BY <1>8 DEF Ensured
<1>10. PICK b2 : /\ Position(s2.disk[p].cells, k, b2) /\ b2 + 1 \in 1 .. Len(s2.disk[p].kids)
                 /\ Len(s2.disk[s2.disk[p].kids[b2 + 1]].cells) > t - 1
  BY <1>8 DEF Ensured
<1>11. Sound(s2.disk, r, T2, Y2)
  <2>1. \A q \in T2 : s2.disk[q] = s2.disk[q]
    OBVIOUS
  <2> QED
    BY <1>8, <1>9, <2>1, SameSound
<1>12. Nodes(s2.disk, T2)
  BY <1>11 DEF Sound
<1>13. s2.disk[p].cells \in Seq(CellSet) /\ Sorted(s2.disk[p].cells)
  <2>1. PICK R : OrderedBy(s2.disk, T2, R)
    BY <1>11 DEF Sound, Orderly
  <2> QED
    BY <1>9, <1>12, <2>1, NodeOrder
<1>14. Len(s2.disk[p].cells) \in Nat
  BY <1>13, LenProperties
<1>15. b2 = Below(s2.disk[p], k)
  <2>1. Position(s2.disk[p].cells, k, Below(s2.disk[p], k))
    BY <1>4, <1>13, BelowIs
  <2> QED
    BY <1>10, <1>14, <2>1, OnePosition
<1>16. s2.disk[p].kids[b2 + 1] \in T2
  BY <1>9, <1>10, <1>12, NodeLens
<1>17. Readied(s2, t, T, Y, T2, Y2)
  BY <1>2, <1>8, <1>9, <1>11, <1>13, <1>14 DEF Readied
<1> QED
  BY <1>2, <1>10, <1>15, <1>16, <1>17

\* Going down from an internal node, with the children made ready.
LEMMA DescendsToDelete ==
  ASSUME NEW t, Degree(t), NEW T, NEW Y, Deleting(t, T, Y), DeleteDescend
  PROVE  \E U, V : Deleting(t, U, V)'
<1>1. Inside(t, T, Y)
  BY InsideIs DEF DeleteDescend
<1>2. store.disk = disk /\ order = t
  BY <1>1, StoreFields DEF Inside
<1>3. PICK s2 : s2 = EnsureMinKeys(store, at, Below(store.disk[at], target) + 1)
  OBVIOUS
<1>4. PICK T2, Y2 : /\ Readied(s2, t, T, Y, T2, Y2)
                    /\ s2.disk[at].kids[Below(s2.disk[at], target) + 1] \in T2
                    /\ Len(s2.disk[s2.disk[at].kids[Below(s2.disk[at], target) + 1]].cells) > t - 1
  BY <1>1, <1>3, EnsureReadies
<1>5. Deletes
  BY DEF DeleteDescend, Deletes, ghosts
<1>6. \/ /\ s2.disk[at].cells = << >> /\ at = root
         /\ root' = s2.disk[at].kids[1]
         /\ Become(PagerFree(s2, at))
         /\ at' = s2.disk[at].kids[1]
      \/ /\ ~(s2.disk[at].cells = << >> /\ at = root)
         /\ Become(s2)
         /\ at' = s2.disk[at].kids[Below(s2.disk[at], target) + 1]
         /\ UNCHANGED root
  BY <1>2, <1>3 DEF DeleteDescend
<1>7. CASE /\ s2.disk[at].cells = << >> /\ at = root
           /\ root' = s2.disk[at].kids[1]
           /\ Become(PagerFree(s2, at))
           /\ at' = s2.disk[at].kids[1]
  BY <1>1, <1>4, <1>5, <1>7, RootGone
<1>8. CASE /\ ~(s2.disk[at].cells = << >> /\ at = root)
           /\ Become(s2)
           /\ at' = s2.disk[at].kids[Below(s2.disk[at], target) + 1]
           /\ UNCHANGED root
  <2>1. PICK a : a = s2.disk[at].kids[Below(s2.disk[at], target) + 1]
    OBVIOUS
  <2>2. a = at' /\ a \in T2 /\ Len(s2.disk[a].cells) > t - 1 /\ root' = root
    BY <1>4, <1>8, <2>1
  <2>3. Deleting(t, T2, Y2)'
    BY <1>1, <1>4, <1>5, <1>8, <2>2, ReadyGoesOn
  <2> QED
    BY <2>3
<1> QED
  BY <1>6, <1>7, <1>8

\* What a deletion does at the cell i of an internal node.
Replaces(i, n, c) ==
  /\ Become(WriteNode(store, at, Node(FALSE, ReplaceAt(store.disk[at].cells, i, c), store.disk[at].kids)))
  /\ at' = store.disk[at].kids[n] /\ target' = c.key
  /\ dangling' = (dangling \/ IsOverflow(c) \/ IsOverflow(store.disk[at].cells[i]))
  /\ root' = root

Merges(s2, i) ==
  /\ \/ /\ s2.disk[at].cells = << >>
        /\ root' = s2.disk[at].kids[1] /\ Become(PagerFree(s2, at)) /\ at' = s2.disk[at].kids[1]
     \/ /\ s2.disk[at].cells # << >>
        /\ Become(s2) /\ at' = s2.disk[at].kids[i] /\ root' = root
  /\ target' = target /\ dangling' = dangling

\* The cases of a deletion in an internal node.
Choice(i, t) ==
  \/ /\ Len(store.disk[store.disk[at].kids[i]].cells) > t - 1
     /\ Replaces(i, i, Predecessor(store, store.disk[at].kids[i]))
  \/ /\ Len(store.disk[store.disk[at].kids[i + 1]].cells) > t - 1
     /\ Replaces(i, i + 1, Successor(store, store.disk[at].kids[i + 1]))
  \/ /\ Len(store.disk[store.disk[at].kids[i]].cells) <= t - 1
     /\ Len(store.disk[store.disk[at].kids[i + 1]].cells) <= t - 1
     /\ Merges(MergeChildren(store, at, i), i)

\* A deletion in an internal node takes one of them.
LEMMA DeleteInternalIs ==
  ASSUME DeleteInternal, NEW t \in Nat, order = t
  PROVE  \E i \in IndexesOf(store.disk[at], target) : Choice(i, t)
<1>1. store.disk = disk
  BY StoreFields
<1>2. MinKeys = t - 1
  BY DEF MinKeys
<1>3. PICK i \in IndexesOf(disk[at], target) :
        \/ /\ Len(disk[disk[at].kids[i]].cells) > MinKeys
           /\ /\ Become(WriteNode(store, at, Node(FALSE, ReplaceAt(disk[at].cells, i,
                          Predecessor(store, disk[at].kids[i])), disk[at].kids)))
              /\ target' = Predecessor(store, disk[at].kids[i]).key
              /\ dangling' = (dangling \/ IsOverflow(Predecessor(store, disk[at].kids[i]))
                                       \/ IsOverflow(disk[at].cells[i]))
              /\ UNCHANGED root
           /\ at' = disk[at].kids[i]
        \/ /\ Len(disk[disk[at].kids[i]].cells) <= MinKeys /\ Len(disk[disk[at].kids[i + 1]].cells) > MinKeys
           /\ /\ Become(WriteNode(store, at, Node(FALSE, ReplaceAt(disk[at].cells, i,
                          Successor(store, disk[at].kids[i + 1])), disk[at].kids)))
              /\ target' = Successor(store, disk[at].kids[i + 1]).key
              /\ dangling' = (dangling \/ IsOverflow(Successor(store, disk[at].kids[i + 1]))
                                       \/ IsOverflow(disk[at].cells[i]))
              /\ UNCHANGED root
           /\ at' = disk[at].kids[i + 1]
        \/ /\ Len(disk[disk[at].kids[i]].cells) <= MinKeys /\ Len(disk[disk[at].kids[i + 1]].cells) <= MinKeys
           /\ IF MergeChildren(store, at, i).disk[at].cells = << >>
              THEN /\ root' = MergeChildren(store, at, i).disk[at].kids[1]
                   /\ Become(PagerFree(MergeChildren(store, at, i), at))
                   /\ at' = MergeChildren(store, at, i).disk[at].kids[1]
              ELSE /\ Become(MergeChildren(store, at, i))
                   /\ at' = MergeChildren(store, at, i).disk[at].kids[i]
                   /\ UNCHANGED root
           /\ UNCHANGED <<target, dangling>>
  BY DEF DeleteInternal
<1>4. Choice(i, t)
  BY <1>1, <1>2, <1>3 DEF Choice, Replaces, Merges
<1> QED
  BY <1>1, <1>3, <1>4

\* The rest of the call is as it was.
LEMMA DeleteInternalRest ==
  ASSUME DeleteInternal
  PROVE  ~disk[at].leaf /\ pc' = pc /\ call' = call /\ order' = order /\ lost' = lost /\ refused' = refused
BY DEF DeleteInternal

\* A key of an internal node is replaced, or its two children are merged.
LEMMA DeletesInside ==
  ASSUME NEW t, Degree(t), NEW T, NEW Y, Deleting(t, T, Y), DeleteInternal
  PROVE  \E U, V : Deleting(t, U, V)'
<1>1. Inside(t, T, Y)
  BY InsideIs, DeleteInternalRest
<1>2. t \in Nat /\ order = t
  BY <1>1 DEF Inside
<1>3. PICK i \in IndexesOf(store.disk[at], target) : Choice(i, t)
  BY <1>2, DeleteInternalIs
<1>4. i \in 1 .. Len(store.disk[at].cells)
  <2>1. store.disk[at].cells \in Seq(CellSet)
    BY <1>1 DEF Inside
  <2>2. i \in DOMAIN store.disk[at].cells
    BY <1>3 DEF IndexesOf
  <2> QED
    BY <2>1, <2>2, LenProperties
<1>5. CASE /\ Len(store.disk[store.disk[at].kids[i]].cells) > t - 1
           /\ Replaces(i, i, Predecessor(store, store.disk[at].kids[i]))
  <2>1. PICK c : c = Predecessor(store, store.disk[at].kids[i])
    OBVIOUS
  <2>2. Replaces(i, i, c) /\ c \in {Predecessor(store, store.disk[at].kids[i]), Successor(store, store.disk[at].kids[i + 1])}
    BY <1>5, <2>1
  <2>3. i \in {i, i + 1} /\ Len(store.disk[store.disk[at].kids[i]].cells) > t - 1
    BY <1>5
  <2>4. Deleting(t, T, Y)'
    BY <1>1, <1>4, <2>2, <2>3, DeleteInternalRest, NeighbourReplaces DEF Replaces
  <2> QED
    BY <2>4
<1>6. CASE /\ Len(store.disk[store.disk[at].kids[i + 1]].cells) > t - 1
           /\ Replaces(i, i + 1, Successor(store, store.disk[at].kids[i + 1]))
  <2>1. PICK c : c = Successor(store, store.disk[at].kids[i + 1])
    OBVIOUS
  <2>2. Replaces(i, i + 1, c) /\ c \in {Predecessor(store, store.disk[at].kids[i]), Successor(store, store.disk[at].kids[i + 1])}
    BY <1>6, <2>1
  <2>3. i + 1 \in {i, i + 1} /\ Len(store.disk[store.disk[at].kids[i + 1]].cells) > t - 1
    BY <1>6
  <2>4. Deleting(t, T, Y)'
    BY <1>1, <1>4, <2>2, <2>3, DeleteInternalRest, NeighbourReplaces DEF Replaces
  <2> QED
    BY <2>4
<1>7. CASE /\ Len(store.disk[store.disk[at].kids[i]].cells) <= t - 1
           /\ Len(store.disk[store.disk[at].kids[i + 1]].cells) <= t - 1
           /\ Merges(MergeChildren(store, at, i), i)
  <2>1. PICK s2, a, z : /\ s2 = MergeChildren(store, at, i)
                        /\ a = store.disk[at].kids[i] /\ z = store.disk[at].kids[i + 1]
    OBVIOUS
  <2>2. /\ Readied(s2, t, T, Y, T \ {z}, Y \cup {z})
        /\ a \in T \ {z} /\ Len(s2.disk[a].cells) > t - 1 /\ s2.disk[at].kids[i] = a
    <3>1. Len(store.disk[a].cells) <= t - 1 /\ Len(store.disk[z].cells) <= t - 1
      BY <1>7, <2>1
    <3>2. MergedReady(s2, t, T, Y, i, a, z)
      BY <1>1, <1>4, <2>1, <3>1, MergeReadies
    <3> QED
      BY <3>2 DEF MergedReady
  <2>3. PICK T2, Y2 : T2 = T \ {z} /\ Y2 = Y \cup {z}
    OBVIOUS
  <2>4. Readied(s2, t, T, Y, T2, Y2) /\ a \in T2
    BY <2>2, <2>3
  <2>5. Merges(s2, i)
    BY <1>7, <2>1
  <2>6. Deletes
    BY <2>5, DeleteInternalRest DEF Merges, Deletes
  <2>7. CASE s2.disk[at].cells = << >>
    <3>1. Len(s2.disk[at].cells) = 0
      BY <2>7
    <3>2. at = root
      BY <2>4, <3>1 DEF Readied
    <3>3. root' = s2.disk[at].kids[1] /\ Become(PagerFree(s2, at)) /\ at' = s2.disk[at].kids[1]
      BY <2>5, <2>7 DEF Merges
    <3> QED
      BY <1>1, <2>4, <2>6, <2>7, <3>2, <3>3, RootGone
  <2>8. CASE s2.disk[at].cells # << >>
    <3>1. Become(s2) /\ a = at' /\ root' = root
      BY <2>2, <2>5, <2>8 DEF Merges
    <3>2. ~(s2.disk[at].cells = << >> /\ at = root)
      BY <2>8
    <3>3. Deleting(t, T2, Y2)'
      BY <1>1, <2>2, <2>4, <2>6, <3>1, <3>2, ReadyGoesOn
    <3> QED
      BY <3>3
  <2> QED
    BY <2>7, <2>8
<1> QED
  BY <1>3, <1>5, <1>6, <1>7 DEF Choice

--------------------------------------------------------------------------------
\* The invariant.

\* What a state in which pc has the given value can be.
At(t) ==
  /\ pc = "closed" => Blank \/ Astray(t) \/ \E T, Y : Resting(t, T, Y)
  /\ pc = "idle" => Astray(t) \/ \E T, Y : Idling(t, T, Y)
  /\ pc = "insert" => \E T, Y : Inserting(t, T, Y)
  /\ pc = "overflow" => \E T, Y, E : Writing(t, T, Y, E)
  /\ pc = "delete" => \E T, Y : Deleting(t, T, Y)
  /\ pc = "unchain" => \E T, Y : Freeing(t, T, Y)
  /\ pc = "return" => \E T, Y : Returning(t, T, Y)

\* pc tells the phases apart.
LEMMA PhaseAt ==
  ASSUME NEW t, Phase(t)
  PROVE  At(t)
<1>1. CASE Blank
  BY <1>1 DEF Blank, At
<1>2. CASE Astray(t)
  BY <1>2 DEF Astray, At
<1>3. ASSUME NEW T, NEW Y, Resting(t, T, Y) PROVE At(t)
  BY <1>3 DEF Resting, At
<1>4. ASSUME NEW T, NEW Y, Idling(t, T, Y) PROVE At(t)
  BY <1>4 DEF Idling, At
<1>5. ASSUME NEW T, NEW Y, Inserting(t, T, Y) PROVE At(t)
  BY <1>5 DEF Inserting, At
<1>6. ASSUME NEW T, NEW Y, NEW E, Writing(t, T, Y, E) PROVE At(t)
  BY <1>6 DEF Writing, At
<1>7. ASSUME NEW T, NEW Y, Deleting(t, T, Y) PROVE At(t)
  BY <1>7 DEF Deleting, At
<1>8. ASSUME NEW T, NEW Y, Freeing(t, T, Y) PROVE At(t)
  BY <1>8 DEF Freeing, At
<1>9. ASSUME NEW T, NEW Y, Returning(t, T, Y) PROVE At(t)
  BY <1>9 DEF Returning, At
<1> QED
  BY <1>1, <1>2, <1>3, <1>4, <1>5, <1>6, <1>7, <1>8, <1>9 DEF Phase

\* A step that leaves every variable as it is keeps the phase.
LEMMA PhaseStays ==
  ASSUME NEW t, Phase(t), UNCHANGED <<storeVars, handle, pc, frame, lost, dangling, refused>>
  PROVE  Phase(t)'
<1>1. /\ hdr' = hdr /\ size' = size /\ disk' = disk /\ count' = count /\ free' = free
      /\ store' = store /\ order' = order /\ root' = root /\ pc' = pc /\ call' = call /\ at' = at
      /\ target' = target /\ chain' = chain /\ result' = result
      /\ lost' = lost /\ dangling' = dangling /\ refused' = refused
  BY StaysAlike DEF handle, frame
<1>2. CASE Blank
  BY <1>1, <1>2 DEF Blank, Phase
<1>3. CASE Astray(t)
  BY <1>1, <1>3 DEF Astray, Phase
<1>4. ASSUME NEW T, NEW Y, Resting(t, T, Y) PROVE Phase(t)'
  BY <1>1, <1>4 DEF Resting, Phase
<1>5. ASSUME NEW T, NEW Y, Idling(t, T, Y) PROVE Phase(t)'
  BY <1>1, <1>5 DEF Idling, Phase
<1>6. ASSUME NEW T, NEW Y, Inserting(t, T, Y) PROVE Phase(t)'
  BY <1>1, <1>6 DEF Inserting, Phase
<1>7. ASSUME NEW T, NEW Y, NEW E, Writing(t, T, Y, E) PROVE Phase(t)'
  BY <1>1, <1>7 DEF Writing, Phase
<1>8. ASSUME NEW T, NEW Y, Deleting(t, T, Y) PROVE Phase(t)'
  BY <1>1, <1>8 DEF Deleting, Phase
<1>9. ASSUME NEW T, NEW Y, Freeing(t, T, Y) PROVE Phase(t)'
  BY <1>1, <1>9 DEF Freeing, Phase
<1>10. ASSUME NEW T, NEW Y, Returning(t, T, Y) PROVE Phase(t)'
  BY <1>1, <1>10 DEF Returning, Phase
<1> QED
  BY <1>2, <1>3, <1>4, <1>5, <1>6, <1>7, <1>8, <1>9, <1>10 DEF Phase

\* The program that runs never changes.
LEMMA ProgramStays ==
  ASSUME [Next]_vars
  PROVE  program' = program
BY DEF Next, vars, ghosts, Open, OpenFails, Insert, Delete, Lookup, Close, Crash, DropHandle, Step,
       InsertExists, InsertLeaf, InsertDescend, OverflowWrite, DeleteLeaf, OverflowFree, DeleteInternal,
       DeleteDescend, Return

\* Opening, with or without room for a first node, leads from phase to phase.
LEMMA OpensPhase ==
  ASSUME NEW t, Degree(t), Phase(t), NEW room,
         OpenFails(room) \/ \E o \in program.orders : Open(o, room)
  PROVE  Phase(t)' /\ ret' = ret
<1>1. pc = "closed" /\ ret' = ret
  BY DEF Open, OpenFails
<1>2. Blank \/ Astray(t) \/ \E T, Y : Resting(t, T, Y)
  BY <1>1, PhaseAt DEF At
<1>3. CASE OpenFails(room)
  <2>1. Blank
    BY <1>2, <1>3, OpenFailsNew
  <2>2. Blank'
    BY <1>3, <2>1, OpenFailsBlank
  <2> QED
    BY <1>1, <2>2 DEF Phase
<1>4. ASSUME NEW o \in program.orders, Open(o, room)
      PROVE  Phase(t)'
  <2>1. CASE Blank
    <3>1. \E T, Y : Idling(t, T, Y)'
      BY <1>4, <2>1, OpenBlank
    <3> QED
      BY <3>1 DEF Phase
  <2>2. CASE Astray(t)
    <3>1. Astray(t)'
      BY <1>4, <2>2, OpenAstray
    <3> QED
      BY <3>1 DEF Phase
  <2>3. ASSUME NEW T, NEW Y, Resting(t, T, Y) PROVE Phase(t)'
    <3>1. Idling(t, T, Y)'
      BY <1>4, <2>3, OpenResting
    <3> QED
      BY <3>1 DEF Phase
  <2> QED
    BY <1>2, <2>1, <2>2, <2>3
<1> QED
  BY <1>1, <1>3, <1>4

\* So does dropping the handle, with or without writing the header.
LEMMA DropsPhase ==
  ASSUME NEW t, Phase(t), Close \/ Crash
  PROVE  Phase(t)' /\ ret' = ret
<1>1. pc = "idle" /\ ret' = ret
  BY DEF Close, Crash, DropHandle
<1>2. Astray(t) \/ \E T, Y : Idling(t, T, Y)
  BY <1>1, PhaseAt DEF At
<1>3. CASE Astray(t)
  <2>1. Astray(t)'
    BY <1>3, CloseAstray, CrashAstray
  <2> QED
    BY <1>1, <2>1 DEF Phase
<1>4. ASSUME NEW T, NEW Y, Idling(t, T, Y) PROVE Phase(t)'
  <2>1. CASE Close
    <3>1. Resting(t, T, Y)'
      BY <1>4, <2>1, CloseIdling
    <3> QED
      BY <3>1 DEF Phase
  <2>2. CASE Crash
    <3>1. Resting(t, T, Y)' \/ Astray(t)'
      BY <1>4, <2>2, CrashIdling
    <3> QED
      BY <3>1 DEF Phase
  <2> QED
    BY <2>1, <2>2
<1> QED
  BY <1>1, <1>2, <1>3, <1>4

\* So does the start of an insertion or a deletion.
LEMMA CallsPhase ==
  ASSUME NEW t, Degree(t), Phase(t), NEW k \in program.keys,
         Delete(k) \/ \E v \in program.vals, room, room2 \in program.rooms : Insert(k, v, room, room2)
  PROVE  Phase(t)' /\ ret' = ret
<1>1. pc = "idle" /\ ~lost /\ ret' = ret
  BY DEF Delete, Insert, CanModify
<1>2. PICK T, Y : Idling(t, T, Y)
  BY <1>1, PhaseAt DEF At, Astray
<1>3. CASE Delete(k)
  <2>1. Deleting(t, T, Y)'
    BY <1>2, <1>3, DeleteIdling
  <2> QED
    BY <1>1, <2>1 DEF Phase
<1>4. ASSUME NEW v \in program.vals, NEW room \in program.rooms, NEW room2 \in program.rooms,
             Insert(k, v, room, room2)
      PROVE  Phase(t)'
  <2>1. (\E T2, Y2 : Inserting(t, T2, Y2)') \/ (\E T2, Y2 : Returning(t, T2, Y2)')
    BY <1>2, <1>4, InsertIdling
  <2> QED
    BY <2>1 DEF Phase
<1> QED
  BY <1>1, <1>3, <1>4

\* What a step of insertion and deletion does to the phase.
LEMMA InsertsPhase ==
  ASSUME NEW t, Degree(t), Phase(t),
         InsertExists \/ InsertLeaf \/ \E room \in program.rooms : InsertDescend(room)
  PROVE  Phase(t)'
<1>1. pc = "insert"
  BY DEF InsertExists, InsertLeaf, InsertDescend
<1>2. PICK T, Y : Inserting(t, T, Y)
  BY <1>1, PhaseAt DEF At
<1>3. CASE InsertExists
  <2>1. Returning(t, T, Y)'
    BY <1>2, <1>3, ExistsInserting
  <2> QED
    BY <2>1 DEF Phase
<1>4. CASE InsertLeaf
  <2>1. PICK E : E = {}
    OBVIOUS
  <2>2. Returning(t, T, Y)' \/ Writing(t, T, Y, E)'
    BY <1>2, <1>4, <2>1, InsertsInLeaf
  <2> QED
    BY <2>2 DEF Phase
<1>5. ASSUME NEW room, InsertDescend(room) PROVE Phase(t)'
  <2>1. (\E T2, Y2 : Inserting(t, T2, Y2)') \/ (\E T2, Y2 : Returning(t, T2, Y2)')
    BY <1>2, <1>5, InsertDescends
  <2> QED
    BY <2>1 DEF Phase
<1> QED
  BY <1>3, <1>4, <1>5

\* The writing of a value's overflow pages.
LEMMA WritesPhase ==
  ASSUME NEW t, Degree(t), Phase(t), NEW room, OverflowWrite(room)
  PROVE  Phase(t)'
<1>1. pc = "overflow"
  BY DEF OverflowWrite
<1>2. PICK T, Y, E : Writing(t, T, Y, E)
  BY <1>1, PhaseAt DEF At
<1>3. (\E Y2, E2 : Writing(t, T, Y2, E2)') \/ (\E Y2 : Returning(t, T, Y2)')
  BY <1>2, WritesOn
<1> QED
  BY <1>3 DEF Phase

\* The steps of a deletion.
LEMMA DeletesPhase ==
  ASSUME NEW t, Degree(t), Phase(t), DeleteLeaf \/ DeleteInternal \/ DeleteDescend
  PROVE  Phase(t)'
<1>1. pc = "delete"
  BY DEF DeleteLeaf, DeleteInternal, DeleteDescend
<1>2. PICK T, Y : Deleting(t, T, Y)
  BY <1>1, PhaseAt DEF At
<1>3. CASE DeleteLeaf
  <2>1. Returning(t, T, Y)' \/ Freeing(t, T, Y)'
    BY <1>2, <1>3, DeletesInLeaf
  <2> QED
    BY <2>1 DEF Phase
<1>4. CASE DeleteInternal
  <2>1. \E U, V : Deleting(t, U, V)'
    BY <1>2, <1>4, DeletesInside
  <2> QED
    BY <2>1 DEF Phase
<1>5. CASE DeleteDescend
  <2>1. \E U, V : Deleting(t, U, V)'
    BY <1>2, <1>5, DescendsToDelete
  <2> QED
    BY <2>1 DEF Phase
<1> QED
  BY <1>3, <1>4, <1>5

\* The freeing of a value's overflow pages.
LEMMA FreesPhase ==
  ASSUME NEW t, Degree(t), Phase(t), OverflowFree
  PROVE  Phase(t)'
<1>1. pc = "unchain"
  BY DEF OverflowFree
<1>2. PICK T, Y : Freeing(t, T, Y)
  BY <1>1, PhaseAt DEF At
<1>3. Freeing(t, T, Y)' \/ Returning(t, T, Y)'
  BY <1>2, FreesOn
<1> QED
  BY <1>3 DEF Phase

\* The return of a call.
LEMMA ReturnsPhase ==
  ASSUME NEW t, Phase(t), Return
  PROVE  Phase(t)' /\ ret'.status \in {"OK", "EXISTS", "NOTFOUND", "ERR"}
<1>1. pc = "return"
  BY DEF Return
<1>2. PICK T, Y : Returning(t, T, Y)
  BY <1>1, PhaseAt DEF At
<1>3. Idling(t, T, Y)' /\ ret'.status \in {"OK", "EXISTS", "NOTFOUND", "ERR"}
  BY <1>2, ReturnReturning
<1> QED
  BY <1>3 DEF Phase

\* Only a return and a search change the answer of the last call.
LEMMA AnswerStays ==
  ASSUME Step, ~Return
  PROVE  ret' = ret
BY DEF Step, InsertExists, InsertLeaf, InsertDescend, OverflowWrite, DeleteLeaf, OverflowFree, DeleteInternal, DeleteDescend

\* Every step of the engine keeps the invariant.
LEMMA IInvStep ==
  ASSUME NEW t, IInv(t), [Next]_vars
  PROVE  IInv(t)'
<1>1. Degree(t) /\ Phase(t) /\ ret.status \in {"none", "OK", "EXISTS", "NOTFOUND", "ERR"}
  BY DEF IInv
<1>2. Degree(t)'
  BY <1>1, ProgramStays DEF Degree
<1>3. ASSUME Phase(t)', ret' = ret \/ ret'.status \in {"OK", "EXISTS", "NOTFOUND", "ERR"}
      PROVE  IInv(t)'
  BY <1>1, <1>2, <1>3 DEF IInv
<1>4. ASSUME NEW o \in program.orders, NEW room, Open(o, room) PROVE IInv(t)'
  BY <1>1, <1>3, <1>4, OpensPhase
<1>5. ASSUME NEW room, OpenFails(room) PROVE IInv(t)'
  BY <1>1, <1>3, <1>5, OpensPhase
<1>6. ASSUME NEW k \in program.keys, NEW v \in program.vals, NEW room \in program.rooms, NEW room2 \in program.rooms,
             Insert(k, v, room, room2)
      PROVE  IInv(t)'
  BY <1>1, <1>3, <1>6, CallsPhase
<1>7. ASSUME NEW k \in program.keys, Delete(k) PROVE IInv(t)'
  BY <1>1, <1>3, <1>7, CallsPhase
<1>8. ASSUME NEW k \in program.keys, Lookup(k) PROVE IInv(t)'
  <2>1. Phase(t)' /\ ret'.status \in {"OK", "ERR", "NOTFOUND"}
    BY <1>1, <1>8, LookupKeeps
  <2> QED
    BY <1>3, <2>1
<1>9. CASE Step
  <2>1. CASE Return
    BY <1>1, <1>3, <2>1, ReturnsPhase
  <2>2. CASE ~Return
    <3>1. ret' = ret
      BY <1>9, <2>2, AnswerStays
    <3>2. Phase(t)'
      <4>1. CASE InsertExists \/ InsertLeaf \/ \E room \in program.rooms : InsertDescend(room)
        BY <1>1, <4>1, InsertsPhase
      <4>2. CASE \E room \in program.rooms : OverflowWrite(room)
        BY <1>1, <4>2, WritesPhase
      <4>3. CASE DeleteLeaf \/ DeleteInternal \/ DeleteDescend
        BY <1>1, <4>3, DeletesPhase
      <4>4. CASE OverflowFree
        BY <1>1, <4>4, FreesPhase
      <4> QED
        BY <1>9, <2>2, <4>1, <4>2, <4>3, <4>4 DEF Step
    <3> QED
      BY <1>3, <3>1, <3>2
  <2> QED
    BY <2>1, <2>2
<1>10. CASE Close \/ Crash
  BY <1>1, <1>3, <1>10, DropsPhase
<1>11. CASE UNCHANGED vars
  <2>1. UNCHANGED <<storeVars, handle, pc, frame, lost, dangling, refused>> /\ ret' = ret
    BY <1>11 DEF vars, ghosts
  <2>2. Phase(t)'
    BY <1>1, <2>1, PhaseStays
  <2> QED
    BY <1>3, <2>1, <2>2
<1> QED
  BY <1>4, <1>5, <1>6, <1>7, <1>8, <1>9, <1>10, <1>11 DEF Next

\* The invariant of a run.
Invariant == \E t : IInv(t)

\* Every reachable state satisfies the inductive invariant: the pages are a sound
\* tree, the chains of its values and the free list, in the phase of the call that
\* the program counter names, unless the header was lost or a chain left dangling.
THEOREM InvariantHolds ==
  ASSUME OneOrder
  PROVE  Spec => []Invariant
<1>1. Init => Invariant
  <2> SUFFICES ASSUME Init PROVE Invariant
    OBVIOUS
  <2>1. program \in Programs
    BY DEF Init
  <2>2. PICK t \in Nat : program.orders = {t}
    BY <2>1 DEF OneOrder
  <2>3. t >= 2
    <3>1. program.orders \subseteq Nat \ {0, 1}
      BY <2>1, BTreeAssumption
    <3>2. t \in Nat \ {0, 1}
      BY <2>2, <3>1
    <3> QED
      BY <3>2
  <2>4. IInv(t)
    BY <2>1, <2>2, <2>3, Starts DEF Degree
  <2> QED
    BY <2>4 DEF Invariant
<1>2. Invariant /\ [Next]_vars => Invariant'
  <2> SUFFICES ASSUME Invariant, [Next]_vars PROVE Invariant'
    OBVIOUS
  <2>1. PICK t : IInv(t)
    BY DEF Invariant
  <2>2. IInv(t)'
    BY <2>1, IInvStep
  <2> QED
    BY <2>2 DEF Invariant
<1> QED
  BY <1>1, <1>2, PTL DEF Spec

--------------------------------------------------------------------------------
\* Types and the preconditions of the recursions.

\* What a phase with a tree says of the types.
LEMMA KeptTypes ==
  ASSUME NEW t, NEW T, NEW Y, NEW rf, Kept(store, root, t, T, Y, rf)
  PROVE  /\ hdr.root \in 0 .. MaxPages - 1 /\ hdr.free \in 0 .. MaxPages - 1
         /\ free \in 0 .. MaxPages - 1 /\ size \in 0 .. MaxPages /\ count \in 0 .. size
         /\ root \in DataPages /\ disk[root].kind = "node"
         /\ \A p \in T : disk[p].kind = "node"
<1>1. /\ Filed(store, T, Y) /\ store.hdr.root \in DataPages /\ store.hdr.free \in 0 .. MaxPages - 1
      /\ store.free \in DataPages \cup {0} /\ root \in T /\ T \subseteq DataPages
      /\ \A p \in T : store.disk[p].kind = "node"
  BY KeptRoot DEF Kept
<1>2. /\ store.hdr = hdr /\ store.size = size /\ store.disk = disk /\ store.count = count /\ store.free = free
  BY StoreFields
<1>3. MaxPages \in Nat /\ MaxPages >= 1
  BY PageStoreAssumption
<1> QED
  BY <1>1, <1>2, <1>3 DEF Filed, DataPages

\* The invariant gives the shape of the state.
LEMMA InvariantTypes ==
  ASSUME Invariant
  PROVE  TypeOK
<1>1. PICK t : Degree(t) /\ Phase(t) /\ ret.status \in {"none", "OK", "EXISTS", "NOTFOUND", "ERR"}
  BY DEF Invariant, IInv
<1>2. t \in program.orders /\ MaxPages \in Nat /\ MaxPages >= 1
  BY <1>1, PageStoreAssumption DEF Degree
<1>3. CASE Blank
  <2>1. /\ hdr.root = 0 /\ hdr.free = 0 /\ size \in 0 .. MaxPages /\ count = 0 /\ free = 0
        /\ pc = "closed" /\ call = NoCall
    BY <1>3 DEF Blank, ZeroHeader
  <2> QED
    BY <1>1, <1>2, <2>1 DEF TypeOK
<1>4. CASE Astray(t)
  BY <1>1, <1>2, <1>4 DEF Astray, TypeOK, DataPages
<1>5. ASSUME NEW T, NEW Y, Resting(t, T, Y) PROVE TypeOK
  <2>1. PICK s : s = PagerReadHeader(store)
    OBVIOUS
  <2>2. pc = "closed" /\ call = NoCall /\ count = 0 /\ free = 0 /\ Kept(s, hdr.root, t, T, Y, refused)
    BY <1>5, <2>1 DEF Resting, Sane
  <2>3. s.hdr = hdr /\ s.size = size
    <3>1. Read(store, s)
      BY <1>5, <2>1, HeaderRead DEF Resting
    <3> QED
      BY <3>1, StoreFields DEF Read
  <2>4. hdr.root \in DataPages /\ hdr.free \in 0 .. MaxPages - 1 /\ size \in Nat /\ size <= MaxPages
    BY <2>2, <2>3 DEF Kept, Filed
  <2> QED
    BY <1>1, <1>2, <2>2, <2>4 DEF TypeOK, DataPages
<1>6. ASSUME NEW T, NEW Y, Kept(store, root, t, T, Y, refused), order = t, at \in T \cup {0},
             \/ pc = "idle" /\ call = NoCall
             \/ pc \in {"insert", "overflow", "delete", "unchain", "return"} /\ call.op \in {"insert", "delete"}
      PROVE  TypeOK
  <2>1. /\ hdr.root \in 0 .. MaxPages - 1 /\ hdr.free \in 0 .. MaxPages - 1
        /\ free \in 0 .. MaxPages - 1 /\ size \in 0 .. MaxPages /\ count \in 0 .. size
        /\ root \in DataPages /\ disk[root].kind = "node"
        /\ \A p \in T : disk[p].kind = "node"
    BY <1>6, KeptTypes
  <2>2. at = 0 \/ disk[at].kind = "node"
    BY <1>6, <2>1
  <2>3. pc \in {"closed", "idle"} <=> call = NoCall
    BY <1>6, Calling
  <2>4. pc \in {"closed", "idle", "insert", "overflow", "delete", "unchain", "return"}
    BY <1>6
  <2> QED
    BY <1>1, <1>2, <1>6, <2>1, <2>2, <2>3, <2>4 DEF TypeOK
<1>7. ASSUME NEW T, NEW Y, Idling(t, T, Y) PROVE TypeOK
  BY <1>6, <1>7 DEF Idling, Sane
<1>8. ASSUME NEW T, NEW Y, Inserting(t, T, Y) PROVE TypeOK
  BY <1>6, <1>8 DEF Inserting, Room
<1>9. ASSUME NEW T, NEW Y, NEW E, Writing(t, T, Y, E) PROVE TypeOK
  BY <1>6, <1>9 DEF Writing, Room
<1>10. ASSUME NEW T, NEW Y, Deleting(t, T, Y) PROVE TypeOK
  BY <1>6, <1>10 DEF Deleting, Sane, Spare
<1>11. ASSUME NEW T, NEW Y, Freeing(t, T, Y) PROVE TypeOK
  BY <1>6, <1>11 DEF Freeing, Spare
<1>12. ASSUME NEW T, NEW Y, Returning(t, T, Y) PROVE TypeOK
  BY <1>6, <1>12 DEF Returning, Sane
<1> QED
  BY <1>1, <1>3, <1>4, <1>5, <1>7, <1>8, <1>9, <1>10, <1>11, <1>12 DEF Phase

\* Every page the engine reaches holds a node, and its frame is there exactly
\* while a call runs, whatever the number of pages, the keys and the programs.
THEOREM BTreeTypes ==
  ASSUME OneOrder
  PROVE  Spec => []TypeOK
<1>1. Spec => []Invariant
  BY InvariantHolds
<1>2. Invariant => TypeOK
  BY InvariantTypes
<1> QED
  BY <1>1, <1>2, PTL

\* The invariant gives the preconditions of the recursions.
LEMMA InvariantReady ==
  ASSUME Invariant
  PROVE  DescentReady
<1> SUFFICES ASSUME ~lost, ~dangling
             PROVE  /\ pc = "insert" => ~Full(disk[at])
                    /\ pc = "delete" /\ at # root => Len(disk[at].cells) > MinKeys
  BY DEF DescentReady
<1>1. PICK t : Phase(t)
  BY DEF Invariant, IInv
<1>2. ASSUME pc = "insert" PROVE ~Full(disk[at])
  <2>1. PICK T, Y : Inserting(t, T, Y)
    BY <1>1, <1>2, PhaseAt DEF At
  <2> QED
    BY <2>1 DEF Inserting, Room, Full, MaxKeys
<1>3. ASSUME pc = "delete", at # root PROVE Len(disk[at].cells) > MinKeys
  <2>1. PICK T, Y : Deleting(t, T, Y)
    BY <1>1, <1>3, PhaseAt DEF At
  <2> QED
    BY <1>3, <2>1 DEF Deleting, Spare, MinKeys
<1> QED
  BY <1>2, <1>3

\* Insertion enters only nodes with room for a key and deletion only nodes with a
\* key to spare: the split and the merge on the way down are enough.
THEOREM EntersReady ==
  ASSUME OneOrder
  PROVE  Spec => []DescentReady
<1>1. Spec => []Invariant
  BY InvariantHolds
<1>2. Invariant => DescentReady
  BY InvariantReady
<1> QED
  BY <1>1, <1>2, PTL

--------------------------------------------------------------------------------
\* The levels: balance and occupancy.

\* Two functions that begin alike and go on alike are alike.
LEMMA GoesAlike ==
  ASSUME NEW N \in Nat, NEW w, NEW g, w[0] = g[0], \A n \in 1 .. N : w[n - 1] = g[n - 1] => w[n] = g[n]
  PROVE  \A n \in 0 .. N : w[n] = g[n]
<1> DEFINE W == {n \in 0 .. N : w[n] # g[n]}
<1>1. W = {}
  <2> SUFFICES ASSUME W # {} PROVE FALSE
    OBVIOUS
  <2>1. PICK m \in W : \A k \in W : m <= k
    <3>1. W \in SUBSET Nat
      OBVIOUS
    <3> HIDE DEF W
    <3> QED
      BY <3>1, SmallestNumber
  <2>2. m # 0 /\ m \in 1 .. N /\ m - 1 \in 0 .. N
    OBVIOUS
  <2>3. w[m - 1] = g[m - 1]
    <3>1. m - 1 \notin W
      <4>1. ~(m <= m - 1)
        BY <2>2
      <4> HIDE DEF W
      <4> QED
        BY <2>1, <4>1
    <3> QED
      BY <2>2, <3>1
  <2>4. w[m] = g[m]
    BY <2>2, <2>3
  <2> QED
    BY <2>4
<1> QED
  BY <1>1

\* The pages n levels below the root, by their heights.
LevelOf(T, h, r, n) == {p \in T : h[p] + n = h[r]}

\* The members of a sequence are its range.
LEMMA ToSetIs ==
  ASSUME NEW S, NEW s \in Seq(S)
  PROVE  ToSet(s) = Members(s)
BY LenProperties DEF ToSet, Members

\* The children of the nodes of a level are the next level.
LEMMA NextLevel ==
  ASSUME NEW d, NEW r, NEW T, NEW h, NEW P, Nodes(d, T), HeightsBy(d, T, h), SlotsBy(d, r, T, P),
         NEW n \in Nat, n >= 1
  PROVE  UNION {ToSet(d[p].kids) : p \in LevelOf(T, h, r, n - 1)} = LevelOf(T, h, r, n)
<1>1. h \in [T -> Nat] /\ r \in T
  BY DEF HeightsBy, SlotsBy
<1>2. \A p \in T : \A q \in Members(d[p].kids) : q \in T /\ h[q] + 1 = h[p]
  BY NodeLens DEF HeightsBy, Height
<1>3. \A p \in T : ToSet(d[p].kids) = Members(d[p].kids)
  BY ToSetIs DEF Nodes, NodeIn
<1>4. ASSUME NEW q \in LevelOf(T, h, r, n)
      PROVE  \E p \in LevelOf(T, h, r, n - 1) : q \in Members(d[p].kids)
  <2>1. q \in T /\ h[q] + n = h[r] /\ h[q] \in Nat /\ h[r] \in Nat
    BY <1>1 DEF LevelOf
  <2>2. q # r
    BY <2>1
  <2>3. P[q] # 0 /\ P[q] \in T
    BY <2>1, <2>2 DEF SlotsBy
  <2>4. PICK p : p = P[q]
    OBVIOUS
  <2>5. p \in T /\ q \in Members(d[p].kids)
    BY <2>1, <2>3, <2>4 DEF SlotsBy, Lists
  <2>6. h[q] + 1 = h[p] /\ h[p] \in Nat
    BY <1>1, <1>2, <2>5
  <2>7. h[p] + (n - 1) = h[r]
    BY <2>1, <2>6
  <2> QED
    BY <2>5, <2>7 DEF LevelOf
<1>5. ASSUME NEW p \in LevelOf(T, h, r, n - 1), NEW q \in Members(d[p].kids)
      PROVE  q \in LevelOf(T, h, r, n)
  <2>1. p \in T /\ h[p] + (n - 1) = h[r] /\ h[p] \in Nat /\ h[r] \in Nat
    BY <1>1 DEF LevelOf
  <2>2. q \in T /\ h[q] + 1 = h[p] /\ h[q] \in Nat
    BY <1>1, <1>2, <2>1
  <2> QED
    BY <2>1, <2>2 DEF LevelOf
<1>6. \A p \in LevelOf(T, h, r, n - 1) : p \in T
  BY DEF LevelOf
<1> QED
  BY <1>3, <1>4, <1>5, <1>6

\* The children of the pages of S.
Beneath(d, S) == UNION {ToSet(d[p].kids) : p \in S}

HasLevels(s, r, T, h) == \A n \in 0 .. MaxHeight : Levels(s, r)[n] = LevelOf(T, h, r, n)

\* The levels are those of the heights.
LEMMA LevelsAre ==
  ASSUME NEW s, NEW r, NEW T, NEW h, NEW P, Nodes(s.disk, T), HeightsBy(s.disk, T, h), SlotsBy(s.disk, r, T, P),
         MaxHeight \in Nat
  PROVE  HasLevels(s, r, T, h)
<1> DEFINE d     == s.disk
           Is(w) == w = [n \in 0 .. MaxHeight |->
                           IF n = 0 THEN {r} ELSE Beneath(d, w[n - 1])]
           g     == [n \in 0 .. MaxHeight |-> LevelOf(T, h, r, n)]
           lv    == CHOOSE x : Is(x)
<1>1. Levels(s, r) = lv
  BY DEF Levels, Beneath
<1>2. LevelOf(T, h, r, 0) = {r}
  <2>1. \A q \in T : h[q] \in Nat /\ (q # r => h[q] < h[r])
    BY RootHighest
  <2>2. r \in T
    BY DEF SlotsBy
  <2> QED
    BY <2>1, <2>2 DEF LevelOf
<1>3. \A n \in 1 .. MaxHeight : Beneath(d, g[n - 1]) = g[n]
  <2> SUFFICES ASSUME NEW n \in 1 .. MaxHeight
               PROVE  Beneath(d, g[n - 1]) = g[n]
    OBVIOUS
  <2>1. n \in Nat /\ n >= 1 /\ n - 1 \in 0 .. MaxHeight /\ n \in 0 .. MaxHeight
    OBVIOUS
  <2>2. g[n - 1] = LevelOf(T, h, r, n - 1) /\ g[n] = LevelOf(T, h, r, n)
    BY <2>1
  <2>3. Beneath(d, LevelOf(T, h, r, n - 1)) = LevelOf(T, h, r, n)
    BY <2>1, NextLevel DEF Beneath
  <2> QED
    BY <2>2, <2>3
<1>4. g[0] = {r} /\ DOMAIN g = 0 .. MaxHeight
  BY <1>2
<1>5. Is(g)
  <2>1. g = [n \in 0 .. MaxHeight |-> g[n]]
    OBVIOUS
  <2> HIDE DEF g
  <2>2. \A n \in 0 .. MaxHeight : g[n] = IF n = 0 THEN {r} ELSE Beneath(d, g[n - 1])
    BY <1>3, <1>4
  <2> QED
    BY <2>1, <2>2
<1>6. Is(lv)
  <2> HIDE DEF g, Is
  <2> QED
    BY <1>5
<1>7. \A n \in 0 .. MaxHeight : lv[n] = IF n = 0 THEN {r} ELSE Beneath(d, lv[n - 1])
  <2> HIDE DEF lv
  <2> QED
    BY <1>6
<1> HIDE DEF g, lv, d, Is
<1>8. lv[0] = g[0]
  BY <1>4, <1>7
<1>9. \A n \in 1 .. MaxHeight : lv[n - 1] = g[n - 1] => lv[n] = g[n]
  BY <1>3, <1>7
<1>10. \A n \in 0 .. MaxHeight : lv[n] = g[n]
  BY <1>8, <1>9, GoesAlike
<1>11. \A n \in 0 .. MaxHeight : g[n] = LevelOf(T, h, r, n)
  BY DEF g
<1> QED
  BY <1>1, <1>10, <1>11 DEF HasLevels

\* The engine between two calls, with nothing lost and nothing moved.
Settled(t, T, Y) ==
  /\ t \in Nat /\ t >= 2 /\ order = t
  /\ Kept(store, root, t, T, Y, refused) /\ Clean(store, T, Y)

\* Between two calls the store is settled.
LEMMA QuietSettled ==
  ASSUME Invariant, Quiet
  PROVE  \E t, T, Y : Settled(t, T, Y)
<1>1. PICK t : Degree(t) /\ Phase(t)
  BY DEF Invariant, IInv
<1>2. pc = "idle" /\ ~lost /\ ~dangling
  BY DEF Quiet
<1>3. PICK T, Y : Idling(t, T, Y)
  BY <1>1, <1>2, PhaseAt DEF At, Astray
<1>4. Settled(t, T, Y)
  BY <1>1, <1>2, <1>3 DEF Degree, Idling, Sane, Settled
<1> QED
  BY <1>4

\* Such a tree has heights, and its levels are those of the heights.
Levelled(T, h) ==
  /\ h \in [T -> Nat] /\ \A p \in T : disk[p].leaf <=> h[p] = 0
  /\ MaxHeight \in Nat /\ root \in T /\ h[root] < MaxHeight /\ \A p \in T : h[p] <= h[root]
  /\ \A n \in 0 .. MaxHeight : Levels(store, root)[n] = LevelOf(T, h, root, n)

\* The levels read from the root are those of the heights.
LEMMA SettledLevels ==
  ASSUME NEW t, NEW T, NEW Y, Settled(t, T, Y)
  PROVE  \E h : Levelled(T, h)
<1>1. Sound(store.disk, root, T, Y) /\ Sizes(store.disk, root, T, t) /\ store.disk = disk
  BY StoreFields DEF Settled, Kept
<1>2. PICK s, r : s = store /\ r = root
  OBVIOUS
<1>3. PICK h, P : Nodes(s.disk, T) /\ HeightsBy(s.disk, T, h) /\ SlotsBy(s.disk, r, T, P)
  BY <1>1, <1>2 DEF Sound, Slots
<1>4. \A q \in T : ~s.disk[q].leaf => Len(s.disk[q].cells) >= 1
  BY <1>1, <1>2 DEF Sizes
<1>5. MaxHeight \in Nat /\ h[r] < MaxHeight
  BY <1>3, <1>4, HeightBound
<1>6. \A n \in 0 .. MaxHeight : Levels(s, r)[n] = LevelOf(T, h, r, n)
  <2>1. HasLevels(s, r, T, h)
    BY <1>3, <1>5, LevelsAre
  <2> QED
    BY <2>1 DEF HasLevels
<1>7. \A q \in T : h[q] <= h[r]
  BY <1>3, RootHighest
<1>8. h \in [T -> Nat] /\ \A p \in T : s.disk[p].leaf <=> h[p] = 0
  BY <1>3 DEF HeightsBy, Height
<1>9. r \in T
  BY <1>3 DEF SlotsBy
<1>10. Levelled(T, h)
  BY <1>1, <1>2, <1>5, <1>6, <1>7, <1>8, <1>9 DEF Levelled
<1> QED
  BY <1>10

\* The pages of the tree are T.
LEMMA SettledTree ==
  ASSUME NEW t, NEW T, NEW Y, Settled(t, T, Y)
  PROVE  Tree = T
<1>1. PICK h : Levelled(T, h)
  BY SettledLevels
<1>2. Tree = UNION {Levels(store, root)[n] : n \in 0 .. MaxHeight}
  BY DEF Tree, TreePages
<1>3. \A p \in T : h[root] - h[p] \in 0 .. MaxHeight /\ h[p] + (h[root] - h[p]) = h[root]
  BY <1>1 DEF Levelled
<1>4. \A n \in 0 .. MaxHeight : Levels(store, root)[n] = LevelOf(T, h, root, n)
  BY <1>1 DEF Levelled
<1>5. ASSUME NEW p \in T PROVE p \in Tree
  <2>1. p \in LevelOf(T, h, root, h[root] - h[p])
    BY <1>3 DEF LevelOf
  <2> QED
    BY <1>2, <1>3, <1>4, <2>1
<1>6. ASSUME NEW p \in Tree PROVE p \in T
  <2>1. PICK n \in 0 .. MaxHeight : p \in LevelOf(T, h, root, n)
    BY <1>2, <1>4
  <2> QED
    BY <2>1 DEF LevelOf
<1> QED
  BY <1>5, <1>6

\* The invariant gives the balance of the tree.
LEMMA InvariantBalanced ==
  ASSUME Invariant
  PROVE  Balanced
<1> SUFFICES ASSUME Quiet
             PROVE  /\ \A n \in 0 .. MaxHeight : \A p, q \in Levels(store, root)[n] : disk[p].leaf = disk[q].leaf
                    /\ Levels(store, root)[MaxHeight] = {}
  BY DEF Balanced
<1>1. PICK t, T, Y : Settled(t, T, Y)
  BY QuietSettled
<1>2. PICK h : Levelled(T, h)
  BY <1>1, SettledLevels
<1>3. \A p \in T : disk[p].leaf \in BOOLEAN
  BY <1>1, KeptRoot, StoreFields DEF Settled
<1>4. ASSUME NEW n \in 0 .. MaxHeight, NEW p \in Levels(store, root)[n], NEW q \in Levels(store, root)[n]
      PROVE  disk[p].leaf = disk[q].leaf
  <2>1. p \in T /\ q \in T /\ h[p] + n = h[root] /\ h[q] + n = h[root]
    BY <1>2 DEF Levelled, LevelOf
  <2>2. h[p] \in Nat /\ h[q] \in Nat /\ root \in T /\ h[root] \in Nat
    BY <1>2, <2>1 DEF Levelled
  <2>3. h[p] = h[q]
    BY <2>1, <2>2
  <2>4. (disk[p].leaf <=> h[p] = 0) /\ (disk[q].leaf <=> h[q] = 0)
    BY <1>2, <2>1 DEF Levelled
  <2>5. disk[p].leaf \in BOOLEAN /\ disk[q].leaf \in BOOLEAN /\ (disk[p].leaf <=> disk[q].leaf)
    BY <1>3, <2>1, <2>3, <2>4
  <2> QED
    BY <2>5
<1>5. Levels(store, root)[MaxHeight] = {}
  <2>1. Levels(store, root)[MaxHeight] = LevelOf(T, h, root, MaxHeight)
    BY <1>2 DEF Levelled
  <2>2. \A p \in T : h[p] + MaxHeight # h[root]
    BY <1>2 DEF Levelled
  <2> QED
    BY <2>1, <2>2 DEF LevelOf
<1> QED
  BY <1>4, <1>5

\* All leaves are equally deep between two calls, whatever was inserted and
\* deleted, and the tree is lower than the bound on its height.
THEOREM StaysBalanced ==
  ASSUME OneOrder
  PROVE  Spec => []Balanced
<1>1. Spec => []Invariant
  BY InvariantHolds
<1>2. Invariant => Balanced
  BY InvariantBalanced
<1> QED
  BY <1>1, <1>2, PTL

\* The invariant gives the sizes of the nodes.
LEMMA InvariantOccupied ==
  ASSUME Invariant
  PROVE  Occupancy
<1> SUFFICES ASSUME Quiet, NEW p \in Tree
             PROVE  /\ Len(disk[p].cells) <= MaxKeys
                    /\ p # root => Len(disk[p].cells) >= MinKeys
                    /\ ~disk[p].leaf => /\ Len(disk[p].kids) = Len(disk[p].cells) + 1
                                        /\ disk[p].cells # << >>
  BY DEF Occupancy
<1>1. PICK t, T, Y : Settled(t, T, Y)
  BY QuietSettled
<1>2. p \in T
  BY <1>1, SettledTree
<1>3. Sound(disk, root, T, Y) /\ Sizes(disk, root, T, t) /\ order = t
  BY <1>1, StoreFields DEF Settled, Kept
<1>4. Len(disk[p].cells) <= MaxKeys /\ (p # root => Len(disk[p].cells) >= MinKeys)
  BY <1>2, <1>3 DEF Sizes, MaxKeys, MinKeys
<1>5. ASSUME ~disk[p].leaf PROVE Len(disk[p].kids) = Len(disk[p].cells) + 1 /\ disk[p].cells # << >>
  <2>1. Nodes(disk, T)
    BY <1>3 DEF Sound
  <2>2. Len(disk[p].kids) = Len(disk[p].cells) + 1
    BY <1>2, <1>5, <2>1, NodeLens
  <2>3. Len(disk[p].cells) >= 1
    BY <1>2, <1>3, <1>5 DEF Sizes
  <2>4. disk[p].cells # << >>
    <3>1. ASSUME disk[p].cells = << >> PROVE FALSE
      <4>1. Len(disk[p].cells) = 0
        BY <3>1
      <4> QED
        BY <2>3, <4>1
    <3> QED
      BY <3>1
  <2> QED
    BY <2>2, <2>4
<1> QED
  BY <1>4, <1>5

\* Every node but the root keeps t - 1 to 2t - 1 keys between two calls, and an
\* internal node one child more than keys.
THEOREM StaysOccupied ==
  ASSUME OneOrder
  PROVE  Spec => []Occupancy
<1>1. Spec => []Invariant
  BY InvariantHolds
<1>2. Invariant => Occupancy
  BY InvariantOccupied
<1> QED
  BY <1>1, <1>2, PTL

--------------------------------------------------------------------------------
\* Reading in order.

\* A sequence, a cell and a sequence, one after the other.
JoinsCells(e, u, x, v) ==
  /\ e \in Seq(CellSet) /\ Members(e) = Members(u) \cup {x} \cup Members(v)
  /\ Sorted(u) /\ Sorted(v) /\ (\A c \in Members(u) : c.key <= x.key) /\ (\A c \in Members(v) : x.key <= c.key)
       => Sorted(e)

\* Joining two sequences in order by a cell between them keeps the order.
LEMMA CellsJoin ==
  ASSUME NEW u \in Seq(CellSet), NEW v \in Seq(CellSet), NEW x \in CellSet
  PROVE  JoinsCells(u \o <<x>> \o v, u, x, v)
<1>1. PICK e : e = u \o <<x>> \o v
  OBVIOUS
<1>2. e \in Seq(CellSet) /\ Between2(e, u, x, v)
  BY <1>1, ConcatBetween
<1>3. /\ Len(e) = Len(u) + 1 + Len(v) /\ e[Len(u) + 1] = x
      /\ \A j \in 1 .. Len(u) : e[j] = u[j]
      /\ \A j \in 1 .. Len(v) : e[Len(u) + 1 + j] = v[j]
      /\ Len(u) \in Nat /\ Len(v) \in Nat
  BY <1>2, LenProperties DEF Between2
<1>4. PICK m, n : m = Len(u) /\ n = Len(v)
  OBVIOUS
<1>5. /\ m \in Nat /\ n \in Nat /\ Len(e) = m + 1 + n /\ e[m + 1] = x
      /\ \A j \in 1 .. m : e[j] = u[j]
      /\ \A j \in 1 .. n : e[m + 1 + j] = v[j]
  BY <1>3, <1>4
<1>6. ASSUME NEW j \in 1 .. Len(e)
      PROVE  \/ j \in 1 .. m /\ e[j] = u[j]
             \/ j = m + 1 /\ e[j] = x
             \/ j - (m + 1) \in 1 .. n /\ j > m + 1 /\ e[j] = v[j - (m + 1)]
  <2>1. CASE j <= m
    BY <1>5, <2>1
  <2>2. CASE j = m + 1
    BY <1>5, <2>2
  <2>3. CASE j > m + 1
    <3>1. j - (m + 1) \in 1 .. n /\ m + 1 + (j - (m + 1)) = j
      BY <1>5, <2>3
    <3> QED
      BY <1>5, <2>3, <3>1
  <2> QED
    BY <1>5, <2>1, <2>2, <2>3
<1>7. Members(e) = Members(u) \cup {x} \cup Members(v)
  <2>1. ASSUME NEW c \in Members(e) PROVE c \in Members(u) \cup {x} \cup Members(v)
    <3>1. PICK j \in 1 .. Len(e) : c = e[j]
      BY DEF Members
    <3> QED
      BY <1>4, <1>6, <3>1 DEF Members
  <2>2. ASSUME NEW c \in Members(u) PROVE c \in Members(e)
    <3>1. PICK j \in 1 .. m : c = u[j]
      BY <1>4 DEF Members
    <3>2. j \in 1 .. Len(e) /\ e[j] = c
      BY <1>5, <3>1
    <3> QED
      BY <3>2 DEF Members
  <2>3. ASSUME NEW c \in Members(v) PROVE c \in Members(e)
    <3>1. PICK j \in 1 .. n : c = v[j]
      BY <1>4 DEF Members
    <3>2. m + 1 + j \in 1 .. Len(e) /\ e[m + 1 + j] = c
      BY <1>5, <3>1
    <3> QED
      BY <3>2 DEF Members
  <2>4. x \in Members(e)
    <3>1. m + 1 \in 1 .. Len(e) /\ e[m + 1] = x
      BY <1>5
    <3> QED
      BY <3>1 DEF Members
  <2> QED
    BY <2>1, <2>2, <2>3, <2>4
<1>8. ASSUME Sorted(u), Sorted(v), \A c \in Members(u) : c.key <= x.key, \A c \in Members(v) : x.key <= c.key
      PROVE  Sorted(e)
  <2>1. /\ \A j \in 1 .. m : u[j].key <= x.key /\ u[j].key \in Nat
        /\ \A j \in 1 .. n : x.key <= v[j].key /\ v[j].key \in Nat
        /\ x.key \in Nat
    <3>1. \A j \in 1 .. m : u[j] \in Members(u) /\ u[j] \in CellSet
      BY <1>4 DEF Members
    <3>2. \A j \in 1 .. n : v[j] \in Members(v) /\ v[j] \in CellSet
      BY <1>4 DEF Members
    <3> QED
      BY <1>8, <3>1, <3>2, CellFields
  <2>2. ASSUME NEW i \in 1 .. Len(e), NEW j \in 1 .. Len(e), i < j
        PROVE  e[i].key <= e[j].key
    <3>1. CASE i \in 1 .. m /\ e[i] = u[i]
      <4>1. CASE j \in 1 .. m /\ e[j] = u[j]
        BY <1>4, <1>8, <2>2, <3>1, <4>1 DEF Sorted
      <4>2. CASE j = m + 1 /\ e[j] = x
        BY <2>1, <3>1, <4>2
      <4>3. CASE j - (m + 1) \in 1 .. n /\ j > m + 1 /\ e[j] = v[j - (m + 1)]
        <5>1. u[i].key <= x.key /\ x.key <= v[j - (m + 1)].key
              /\ u[i].key \in Nat /\ x.key \in Nat /\ v[j - (m + 1)].key \in Nat
          BY <2>1, <3>1, <4>3
        <5> QED
          BY <3>1, <4>3, <5>1
      <4> QED
        BY <1>6, <4>1, <4>2, <4>3
    <3>2. CASE i = m + 1 /\ e[i] = x
      <4>1. j > m + 1 /\ j \notin 1 .. m /\ j # m + 1
        BY <1>5, <2>2, <3>2
      <4>2. j - (m + 1) \in 1 .. n /\ e[j] = v[j - (m + 1)]
        BY <1>6, <4>1
      <4> QED
        BY <2>1, <3>2, <4>2
    <3>3. CASE i - (m + 1) \in 1 .. n /\ i > m + 1 /\ e[i] = v[i - (m + 1)]
      <4>1. j > m + 1 /\ j \notin 1 .. m /\ j # m + 1
        BY <1>5, <2>2, <3>3
      <4>2. j - (m + 1) \in 1 .. n /\ e[j] = v[j - (m + 1)]
        BY <1>6, <4>1
      <4>3. i - (m + 1) < j - (m + 1)
        BY <1>5, <2>2
      <4> QED
        BY <1>4, <1>8, <3>3, <4>2, <4>3 DEF Sorted
    <3> QED
      BY <1>6, <3>1, <3>2, <3>3
  <2> QED
    BY <2>2 DEF Sorted
<1>9. JoinsCells(e, u, x, v)
  BY <1>2, <1>7, <1>8 DEF JoinsCells
<1> QED
  BY <1>1, <1>9

\* A node's cells between the sequences v has for its children.
Weaves(c, k, v, u) ==
  u = [i \in 0 .. Len(c) |-> IF i = 0 THEN v[k[1]] ELSE u[i - 1] \o <<c[i]>> \o v[k[i + 1]]]

\* Some function does that.
LEMMA WeaveExists ==
  ASSUME NEW c, NEW k, NEW v, Len(c) \in Nat
  PROVE  \E u : Weaves(c, k, v, u)
<1> DEFINE Is(m, u) == u = [i \in 0 .. m |-> IF i = 0 THEN v[k[1]] ELSE u[i - 1] \o <<c[i]>> \o v[k[i + 1]]]
           P(m) == \E u : Is(m, u)
           W == {m \in Nat : ~P(m)}
<1>1. P(0)
  <2> DEFINE u == [i \in 0 .. 0 |-> v[k[1]]]
  <2>1. Is(0, u)
    OBVIOUS
  <2> QED
    BY <2>1
<1>2. ASSUME NEW m \in Nat, P(m) PROVE P(m + 1)
  <2>1. PICK u : Is(m, u)
    BY <1>2
  <2> DEFINE u2 == [i \in 0 .. m + 1 |-> IF i = m + 1 THEN u[m] \o <<c[m + 1]>> \o v[k[(m + 1) + 1]] ELSE u[i]]
  <2>2. ASSUME NEW i \in 0 .. m + 1
        PROVE  u2[i] = IF i = 0 THEN v[k[1]] ELSE u2[i - 1] \o <<c[i]>> \o v[k[i + 1]]
    <3>1. CASE i = m + 1
      <4>1. u2[i - 1] = u[m] /\ i # 0
        BY <3>1
      <4> QED
        BY <3>1, <4>1
    <3>2. CASE i # m + 1 /\ i = 0
      BY <2>1, <3>2
    <3>3. CASE i # m + 1 /\ i # 0
      <4>1. i \in 0 .. m /\ i - 1 \in 0 .. m + 1 /\ i - 1 # m + 1
        BY <3>3
      <4> QED
        BY <2>1, <3>3, <4>1
    <3> QED
      BY <3>1, <3>2, <3>3
  <2>3. u2 = [i \in 0 .. m + 1 |-> u2[i]]
    OBVIOUS
  <2>4. Is(m + 1, u2)
    <3> HIDE DEF u2
    <3> QED
      BY <2>2, <2>3
  <2> QED
    BY <2>4
<1> HIDE DEF P
<1>3. W = {}
  <2> SUFFICES ASSUME W # {} PROVE FALSE
    OBVIOUS
  <2>1. PICK m \in W : \A j \in W : m <= j
    BY SmallestNumber
  <2>2. m # 0
    BY <1>1
  <2>3. m - 1 \in Nat /\ P(m - 1)
    BY <2>1, <2>2
  <2>4. P((m - 1) + 1)
    BY <1>2, <2>3
  <2> QED
    BY <2>4
<1>4. P(Len(c))
  BY <1>3
<1> QED
  BY <1>4 DEF P, Weaves

\* What the sequences of the children are known to be.
Strands(c, k, v, R) ==
  /\ c \in Seq(CellSet) /\ Len(c) \in Nat /\ Len(k) = Len(c) + 1
  /\ Sorted(c) /\ Between(c, k, R)
  /\ \A j \in 1 .. Len(k) : v[k[j]] \in Seq(CellSet) /\ Sorted(v[k[j]])
  /\ \A j \in 1 .. Len(k) : \A x \in Members(v[k[j]]) : x.key \in R[k[j]]

\* The first i cells and the first i + 1 sequences.
Woven(c, k, v, e, i) ==
  /\ e \in Seq(CellSet) /\ Sorted(e)
  /\ \A x : x \in Members(e) <=> (\E j \in 1 .. i : x = c[j]) \/ \E j \in 1 .. i + 1 : x \in Members(v[k[j]])

\* One cell and one sequence more.
LEMMA WeaveStep ==
  ASSUME NEW c, NEW k, NEW v, NEW R, Strands(c, k, v, R), NEW i \in 1 .. Len(c), NEW e, Woven(c, k, v, e, i - 1)
  PROVE  Woven(c, k, v, e \o <<c[i]>> \o v[k[i + 1]], i)
<1>1. /\ Len(c) \in Nat /\ Len(k) = Len(c) + 1 /\ Sorted(c) /\ Between(c, k, R) /\ c \in Seq(CellSet)
      /\ \A j \in 1 .. Len(k) : v[k[j]] \in Seq(CellSet) /\ Sorted(v[k[j]])
      /\ \A j \in 1 .. Len(k) : \A x \in Members(v[k[j]]) : x.key \in R[k[j]]
  BY DEF Strands
<1>2. /\ e \in Seq(CellSet) /\ Sorted(e)
      /\ \A x : x \in Members(e) <=> (\E j \in 1 .. i - 1 : x = c[j]) \/ \E j \in 1 .. (i - 1) + 1 : x \in Members(v[k[j]])
  BY DEF Woven
<1>3. PICK x, w, f : x = c[i] /\ w = v[k[i + 1]] /\ f = e \o <<c[i]>> \o v[k[i + 1]]
  OBVIOUS
<1>4. i + 1 \in 1 .. Len(k) /\ i \in Nat /\ (i - 1) + 1 = i
  BY <1>1
<1>5. x \in CellSet
  <2>1. \A j \in 1 .. Len(c) : c[j] \in CellSet
    BY <1>1, LenProperties
  <2> QED
    BY <1>3, <2>1
<1>6. w \in Seq(CellSet) /\ Sorted(w)
  BY <1>1, <1>3, <1>4
<1>7. JoinsCells(f, e, x, w)
  BY <1>2, <1>3, <1>5, <1>6, CellsJoin
<1>8. \A y \in Members(w) : x.key <= y.key
  <2> SUFFICES ASSUME NEW y \in Members(w) PROVE x.key <= y.key
    OBVIOUS
  <2>1. y.key \in R[k[i + 1]]
    BY <1>1, <1>3, <1>4
  <2>2. i < i + 1 /\ i \in 1 .. Len(c)
    BY <1>4
  <2> QED
    BY <1>1, <1>3, <1>4, <2>1, <2>2 DEF Between
<1>9. \A y \in Members(e) : y.key <= x.key
  <2> SUFFICES ASSUME NEW y \in Members(e) PROVE y.key <= x.key
    OBVIOUS
  <2>1. CASE \E j \in 1 .. i - 1 : y = c[j]
    <3>1. PICK j \in 1 .. i - 1 : y = c[j]
      BY <2>1
    <3>2. j \in 1 .. Len(c) /\ j < i
      BY <1>4
    <3> QED
      BY <1>1, <1>3, <3>1, <3>2 DEF Sorted
  <2>2. CASE \E j \in 1 .. (i - 1) + 1 : y \in Members(v[k[j]])
    <3>1. PICK j \in 1 .. i : y \in Members(v[k[j]])
      BY <1>4, <2>2
    <3>2. j \in 1 .. Len(k) /\ j <= i
      BY <1>4
    <3>3. y.key \in R[k[j]]
      BY <1>1, <3>1, <3>2
    <3> QED
      BY <1>1, <1>3, <3>2, <3>3 DEF Between
  <2> QED
    BY <1>2, <2>1, <2>2
<1>10. f \in Seq(CellSet) /\ Sorted(f) /\ Members(f) = Members(e) \cup {x} \cup Members(w)
  BY <1>2, <1>6, <1>7, <1>8, <1>9 DEF JoinsCells
<1>11. ASSUME NEW y
       PROVE  y \in Members(f) <=> (\E j \in 1 .. i : y = c[j]) \/ \E j \in 1 .. i + 1 : y \in Members(v[k[j]])
  <2>1. (\E j \in 1 .. i : y = c[j]) <=> (\E j \in 1 .. i - 1 : y = c[j]) \/ y = x
    <3>1. \A j : j \in 1 .. i <=> j \in 1 .. i - 1 \/ j = i
      BY <1>4
    <3> QED
      BY <1>3, <3>1
  <2>2. (\E j \in 1 .. i + 1 : y \in Members(v[k[j]])) <=>
          (\E j \in 1 .. (i - 1) + 1 : y \in Members(v[k[j]])) \/ y \in Members(w)
    <3>1. \A j : j \in 1 .. i + 1 <=> j \in 1 .. (i - 1) + 1 \/ j = i + 1
      BY <1>4
    <3> QED
      BY <1>3, <3>1
  <2> QED
    BY <1>2, <1>10, <2>1, <2>2
<1>12. Woven(c, k, v, f, i)
  BY <1>10, <1>11 DEF Woven
<1> QED
  BY <1>3, <1>12

\* All of them.
LEMMA WeaveIs ==
  ASSUME NEW c, NEW k, NEW v, NEW R, Strands(c, k, v, R), NEW u, Weaves(c, k, v, u)
  PROVE  Woven(c, k, v, u[Len(c)], Len(c))
<1>1. Len(c) \in Nat /\ Len(k) = Len(c) + 1
  BY DEF Strands
<1>2. \A i \in 0 .. Len(c) : u[i] = IF i = 0 THEN v[k[1]] ELSE u[i - 1] \o <<c[i]>> \o v[k[i + 1]]
  BY DEF Weaves
<1>3. Woven(c, k, v, u[0], 0)
  <2>1. 0 \in 0 .. Len(c) /\ 1 \in 1 .. Len(k)
    BY <1>1
  <2>2. u[0] = v[k[1]]
    BY <1>2, <2>1
  <2>3. v[k[1]] \in Seq(CellSet) /\ Sorted(v[k[1]])
    BY <2>1 DEF Strands
  <2>4. \A j : (j \in 1 .. 0 + 1 <=> j = 1) /\ j \notin 1 .. 0
    OBVIOUS
  <2> QED
    BY <2>2, <2>3, <2>4 DEF Woven
<1>4. \A i \in 1 .. Len(c) : Woven(c, k, v, u[i - 1], i - 1) => Woven(c, k, v, u[i], i)
  <2> SUFFICES ASSUME NEW i \in 1 .. Len(c), Woven(c, k, v, u[i - 1], i - 1)
               PROVE  Woven(c, k, v, u[i], i)
    OBVIOUS
  <2>1. i \in 0 .. Len(c) /\ i # 0
    BY <1>1
  <2>2. u[i] = u[i - 1] \o <<c[i]>> \o v[k[i + 1]]
    BY <1>2, <2>1
  <2>3. Woven(c, k, v, u[i - 1] \o <<c[i]>> \o v[k[i + 1]], i)
    BY WeaveStep
  <2> QED
    BY <2>2, <2>3
<1> DEFINE W == {i \in 0 .. Len(c) : ~Woven(c, k, v, u[i], i)}
<1>5. W = {}
  <2> SUFFICES ASSUME W # {} PROVE FALSE
    OBVIOUS
  <2>1. PICK m \in W : \A j \in W : m <= j
    <3>1. W \in SUBSET Nat
      BY <1>1
    <3> HIDE DEF W
    <3> QED
      BY <3>1, SmallestNumber
  <2>2. m # 0 /\ m \in 1 .. Len(c) /\ m - 1 \in 0 .. Len(c)
    BY <1>1, <1>3
  <2>3. Woven(c, k, v, u[m - 1], m - 1)
    <3>1. m - 1 \notin W
      <4>1. ~(m <= m - 1)
        BY <2>2
      <4> HIDE DEF W
      <4> QED
        BY <2>1, <4>1
    <3> QED
      BY <2>2, <3>1
  <2> QED
    BY <1>4, <2>2, <2>3
<1>6. Len(c) \in 0 .. Len(c)
  BY <1>1
<1> QED
  BY <1>5, <1>6

\* The cells below a page, its children visited.
VisitNode(d, p, v) ==
  IF d[p].leaf THEN d[p].cells
  ELSE (CHOOSE u : Weaves(d[p].cells, d[p].kids, v, u))[Len(d[p].cells)]

VisitsTo(d, m, w) ==
  w = [n \in 0 .. m |-> IF n = 0 THEN [p \in DataPages |-> d[p].cells]
                        ELSE [p \in DataPages |-> VisitNode(d, p, w[n - 1])]]

\* The recursion of Entries.
LEMMA EntriesAre ==
  ASSUME NEW s, NEW r
  PROVE  Entries(s, r) = (CHOOSE w : VisitsTo(s.disk, MaxHeight, w))[MaxHeight][r]
BY DEF Entries, VisitsTo, VisitNode, Weaves

\* Some function satisfies it.
LEMMA VisitsExist ==
  ASSUME NEW d, NEW last \in Nat
  PROVE  \E w : VisitsTo(d, last, w)
<1> DEFINE P(m) == \E w : VisitsTo(d, m, w)
           W == {m \in Nat : ~P(m)}
           g(v) == [p \in DataPages |-> VisitNode(d, p, v)]
           g0 == [p \in DataPages |-> d[p].cells]
<1>0. \A m, w : VisitsTo(d, m, w) <=> w = [n \in 0 .. m |-> IF n = 0 THEN g0 ELSE g(w[n - 1])]
  BY DEF VisitsTo
<1> HIDE DEF g, g0
<1>1. P(0)
  <2> DEFINE u == [n \in 0 .. 0 |-> g0]
  <2>1. u = [n \in 0 .. 0 |-> IF n = 0 THEN g0 ELSE g(u[n - 1])]
    OBVIOUS
  <2>2. VisitsTo(d, 0, u)
    BY <1>0, <2>1
  <2> QED
    BY <2>2
<1>2. ASSUME NEW m \in Nat, P(m) PROVE P(m + 1)
  <2>1. PICK u : VisitsTo(d, m, u)
    BY <1>2
  <2>2. u = [n \in 0 .. m |-> IF n = 0 THEN g0 ELSE g(u[n - 1])]
    BY <1>0, <2>1
  <2> DEFINE u2 == [n \in 0 .. m + 1 |-> IF n = m + 1 THEN g(u[m]) ELSE u[n]]
  <2>3. ASSUME NEW n \in 0 .. m + 1
        PROVE  u2[n] = IF n = 0 THEN g0 ELSE g(u2[n - 1])
    <3>1. CASE n = m + 1
      <4>1. u2[n - 1] = u[m] /\ n # 0
        BY <3>1
      <4> QED
        BY <3>1, <4>1
    <3>2. CASE n # m + 1 /\ n = 0
      BY <2>2, <3>2
    <3>3. CASE n # m + 1 /\ n # 0
      <4>1. n \in 0 .. m /\ n - 1 \in 0 .. m + 1 /\ n - 1 # m + 1
        BY <3>3
      <4> QED
        BY <2>2, <3>3, <4>1
    <3> QED
      BY <3>1, <3>2, <3>3
  <2>4. u2 = [n \in 0 .. m + 1 |-> u2[n]]
    OBVIOUS
  <2>5. VisitsTo(d, m + 1, u2)
    <3>1. u2 = [n \in 0 .. m + 1 |-> IF n = 0 THEN g0 ELSE g(u2[n - 1])]
      <4> HIDE DEF u2
      <4> QED
        BY <2>3, <2>4
    <3> QED
      BY <1>0, <3>1
  <2> QED
    BY <2>5
<1> HIDE DEF P
<1>3. W = {}
  <2> SUFFICES ASSUME W # {} PROVE FALSE
    OBVIOUS
  <2>1. PICK m \in W : \A j \in W : m <= j
    BY SmallestNumber
  <2>2. m # 0
    BY <1>1
  <2>3. m - 1 \in Nat /\ P(m - 1)
    BY <2>1, <2>2
  <2>4. P((m - 1) + 1)
    BY <1>2, <2>3
  <2> QED
    BY <2>4
<1>4. P(last)
  BY <1>3
<1> QED
  BY <1>4 DEF P

\* What is found below a page.
CellsOf(d, T) == UNION {Members(d[q].cells) : q \in T}

Found(d, T, R, p, e) ==
  /\ e \in Seq(CellSet) /\ Sorted(e) /\ (\A c \in Members(e) : c.key \in R[p])
  /\ Members(e) \subseteq CellsOf(d, T) /\ Members(d[p].cells) \subseteq Members(e)

\* A node below whose children all is found.
LEMMA VisitFinds ==
  ASSUME NEW d, NEW T, NEW R, Nodes(d, T), OrderedBy(d, T, R), NEW p \in T, NEW v,
         \A q \in Members(d[p].kids) : Found(d, T, R, q, v[q])
  PROVE  /\ Found(d, T, R, p, VisitNode(d, p, v))
         /\ \A q \in Members(d[p].kids) : Members(v[q]) \subseteq Members(VisitNode(d, p, v))
<1>1. PICK c, k, e : c = d[p].cells /\ k = d[p].kids /\ e = VisitNode(d, p, v)
  OBVIOUS
<1>2. /\ Sorted(c) /\ Between(c, k, R) /\ c \in Seq(CellSet) /\ R[p] \subseteq Nat
      /\ \A i \in 1 .. Len(c) : c[i].key \in R[p]
      /\ \A q \in Members(k) : R[q] \subseteq R[p]
  BY <1>1, NodeOrder
<1>3. Members(c) \subseteq CellsOf(d, T)
  BY <1>1 DEF CellsOf
<1>4. /\ Len(k) \in Nat /\ Len(c) \in Nat /\ Members(k) \subseteq T
      /\ (d[p].leaf => Len(k) = 0) /\ (~d[p].leaf => Len(k) = Len(c) + 1)
  BY <1>1, NodeLens
<1>5. \A q \in Members(k) : /\ v[q] \in Seq(CellSet) /\ Sorted(v[q]) /\ \A x \in Members(v[q]) : x.key \in R[q]
                            /\ Members(v[q]) \subseteq CellsOf(d, T)
  BY <1>1 DEF Found
<1> SUFFICES /\ Found(d, T, R, p, e)
             /\ \A q \in Members(k) : Members(v[q]) \subseteq Members(e)
  BY <1>1
<1>6. CASE d[p].leaf
  <2>1. e = c
    BY <1>1, <1>6 DEF VisitNode
  <2>2. Members(k) = {}
    BY <1>4, <1>6 DEF Members
  <2>3. \A x \in Members(c) : x.key \in R[p]
    BY <1>2 DEF Members
  <2> QED
    BY <1>1, <1>2, <1>3, <2>1, <2>2, <2>3 DEF Found
<1>7. CASE ~d[p].leaf
  <2>1. PICK u : u = CHOOSE x : Weaves(c, k, v, x)
    OBVIOUS
  <2>2. Weaves(c, k, v, u)
    <3>1. \E w : Weaves(c, k, v, w)
      BY <1>4, WeaveExists
    <3> QED
      BY <2>1, <3>1
  <2>3. e = u[Len(c)]
    BY <1>1, <1>7, <2>1 DEF VisitNode
  <2>4. \A j \in 1 .. Len(k) : k[j] \in Members(k)
    BY DEF Members
  <2>5. Strands(c, k, v, R)
    BY <1>2, <1>4, <1>5, <1>7, <2>4 DEF Strands
  <2>6. Woven(c, k, v, e, Len(c))
    BY <2>2, <2>3, <2>5, WeaveIs
  <2>7. /\ e \in Seq(CellSet) /\ Sorted(e)
        /\ \A x : x \in Members(e) <=> (\E j \in 1 .. Len(c) : x = c[j]) \/ \E j \in 1 .. Len(k) : x \in Members(v[k[j]])
    BY <1>4, <1>7, <2>6 DEF Woven
  <2>8. \A x : (\E j \in 1 .. Len(c) : x = c[j]) <=> x \in Members(c)
    BY DEF Members
  <2>9. \A x : (\E j \in 1 .. Len(k) : x \in Members(v[k[j]])) <=> \E q \in Members(k) : x \in Members(v[q])
    BY DEF Members
  <2>10. \A x \in Members(e) : x.key \in R[p] /\ x \in CellsOf(d, T)
    <3> SUFFICES ASSUME NEW x \in Members(e) PROVE x.key \in R[p] /\ x \in CellsOf(d, T)
      OBVIOUS
    <3>1. CASE \E j \in 1 .. Len(c) : x = c[j]
      BY <1>2, <1>3, <2>8, <3>1
    <3>2. CASE \E j \in 1 .. Len(k) : x \in Members(v[k[j]])
      BY <1>2, <1>5, <2>9, <3>2
    <3> QED
      BY <2>7, <3>1, <3>2
  <2>11. Members(c) \subseteq Members(e) /\ \A q \in Members(k) : Members(v[q]) \subseteq Members(e)
    BY <2>7, <2>8, <2>9
  <2>12. Members(d[p].cells) \subseteq Members(e)
    BY <1>1, <2>11
  <2>13. Members(e) \subseteq CellsOf(d, T)
    BY <2>10
  <2> QED
    BY <2>7, <2>10, <2>11, <2>12, <2>13 DEF Found
<1> QED
  BY <1>6, <1>7

\* The step of the recursion.
LEMMA VisitIs ==
  ASSUME NEW d, NEW last \in Nat, NEW w, VisitsTo(d, last, w)
  PROVE  \A n \in 0 .. last : \A p \in DataPages :
           w[n][p] = IF n = 0 THEN d[p].cells ELSE VisitNode(d, p, w[n - 1])
<1> SUFFICES ASSUME NEW n \in 0 .. last, NEW p \in DataPages
             PROVE  w[n][p] = IF n = 0 THEN d[p].cells ELSE VisitNode(d, p, w[n - 1])
  OBVIOUS
<1>1. w[n] = IF n = 0 THEN [q \in DataPages |-> d[q].cells] ELSE [q \in DataPages |-> VisitNode(d, q, w[n - 1])]
  BY DEF VisitsTo
<1>2. CASE n = 0
  BY <1>1, <1>2
<1>3. CASE n # 0
  BY <1>1, <1>3
<1> QED
  BY <1>2, <1>3

\* A page that is not higher than the step is found with all below it.
LEMMA VisitLevels ==
  ASSUME NEW d, NEW T, NEW h, NEW R, Nodes(d, T), HeightsBy(d, T, h), OrderedBy(d, T, R),
         NEW last \in Nat, NEW w, VisitsTo(d, last, w)
  PROVE  \A n \in 0 .. last : \A p \in T : h[p] <= n => Found(d, T, R, p, w[n][p])
<1>1. \A n \in 0 .. last : \A p \in T : w[n][p] = IF n = 0 THEN d[p].cells ELSE VisitNode(d, p, w[n - 1])
  <2>1. T \subseteq DataPages
    BY DEF Nodes
  <2> QED
    BY <2>1, VisitIs
<1>2. /\ h \in [T -> Nat] /\ \A p \in T : d[p].leaf <=> h[p] = 0
      /\ \A p \in T : \A q \in Members(d[p].kids) : q \in T /\ h[q] + 1 = h[p]
  BY NodeLens DEF HeightsBy, Height
<1> DEFINE Good(n) == \A p \in T : h[p] <= n => Found(d, T, R, p, w[n][p])
           W == {n \in 0 .. last : ~Good(n)}
<1>3. 0 \in 0 .. last
  OBVIOUS
<1>4. Good(0)
  <2> SUFFICES ASSUME NEW p \in T, h[p] <= 0 PROVE Found(d, T, R, p, w[0][p])
    OBVIOUS
  <2>1. h[p] = 0 /\ d[p].leaf
    BY <1>2
  <2>2. w[0][p] = d[p].cells
    BY <1>1, <1>3
  <2>3. VisitNode(d, p, w) = d[p].cells
    BY <2>1 DEF VisitNode
  <2>4. Members(d[p].kids) = {}
    BY <2>1, NodeLens DEF Members
  <2>5. Found(d, T, R, p, VisitNode(d, p, w))
    BY <2>4, VisitFinds
  <2> QED
    BY <2>2, <2>3, <2>5
<1>5. ASSUME NEW n \in 1 .. last, Good(n - 1) PROVE Good(n)
  <2> SUFFICES ASSUME NEW p \in T, h[p] <= n PROVE Found(d, T, R, p, w[n][p])
    OBVIOUS
  <2>1. n \in 0 .. last /\ n # 0
    OBVIOUS
  <2>2. w[n][p] = VisitNode(d, p, w[n - 1])
    BY <1>1, <2>1
  <2>3. \A q \in Members(d[p].kids) : Found(d, T, R, q, w[n - 1][q])
    <3> SUFFICES ASSUME NEW q \in Members(d[p].kids) PROVE Found(d, T, R, q, w[n - 1][q])
      OBVIOUS
    <3>1. q \in T /\ h[q] + 1 = h[p] /\ h[q] \in Nat /\ h[p] \in Nat
      BY <1>2
    <3>2. h[q] <= n - 1
      BY <2>1, <3>1
    <3> QED
      BY <1>5, <3>1, <3>2
  <2>4. Found(d, T, R, p, VisitNode(d, p, w[n - 1]))
    BY <2>3, VisitFinds
  <2> QED
    BY <2>2, <2>4
<1> HIDE DEF Good
<1>6. W = {}
  <2> SUFFICES ASSUME W # {} PROVE FALSE
    OBVIOUS
  <2>1. PICK m \in W : \A j \in W : m <= j
    <3>1. W \in SUBSET Nat
      OBVIOUS
    <3> HIDE DEF W
    <3> QED
      BY <3>1, SmallestNumber
  <2>2. m # 0 /\ m \in 1 .. last /\ m - 1 \in 0 .. last
    BY <1>4
  <2>3. Good(m - 1)
    <3>1. m - 1 \notin W
      <4>1. ~(m <= m - 1)
        BY <2>2
      <4> HIDE DEF W
      <4> QED
        BY <2>1, <4>1
    <3> QED
      BY <2>2, <3>1
  <2> QED
    BY <1>5, <2>2, <2>3
<1> QED
  BY <1>6 DEF Good

\* What is found at a page is found at the root, as many levels higher.
LEMMA VisitRises ==
  ASSUME NEW d, NEW r, NEW T, NEW h, NEW P, NEW R, Nodes(d, T), HeightsBy(d, T, h), SlotsBy(d, r, T, P),
         OrderedBy(d, T, R), NEW last \in Nat, h[r] <= last, NEW w, VisitsTo(d, last, w)
  PROVE  \A k \in 0 .. h[r] : \A q \in T : h[q] + k = h[r] => Members(w[last - k][q]) \subseteq Members(w[last][r])
<1>1. \A n \in 0 .. last : \A p \in T : w[n][p] = IF n = 0 THEN d[p].cells ELSE VisitNode(d, p, w[n - 1])
  <2>1. T \subseteq DataPages
    BY DEF Nodes
  <2> QED
    BY <2>1, VisitIs
<1>2. /\ h \in [T -> Nat] /\ r \in T /\ h[r] \in Nat
      /\ \A p \in T : \A q \in Members(d[p].kids) : q \in T /\ h[q] + 1 = h[p]
  BY NodeLens DEF HeightsBy, Height, SlotsBy
<1>3. \A q \in T : h[q] \in Nat /\ (q # r => h[q] < h[r])
  BY RootHighest
<1>4. \A n \in 0 .. last : \A p \in T : h[p] <= n => Found(d, T, R, p, w[n][p])
  BY VisitLevels
<1> DEFINE Good(k) == \A q \in T : h[q] + k = h[r] => Members(w[last - k][q]) \subseteq Members(w[last][r])
           W == {k \in 0 .. h[r] : ~Good(k)}
<1>5. Good(0)
  <2> SUFFICES ASSUME NEW q \in T, h[q] + 0 = h[r] PROVE Members(w[last - 0][q]) \subseteq Members(w[last][r])
    OBVIOUS
  <2>1. q = r /\ last - 0 = last
    BY <1>3
  <2> QED
    BY <2>1
<1>6. ASSUME NEW k \in 1 .. h[r], Good(k - 1) PROVE Good(k)
  <2> SUFFICES ASSUME NEW q \in T, h[q] + k = h[r]
               PROVE  Members(w[last - k][q]) \subseteq Members(w[last][r])
    OBVIOUS
  <2>1. q # r /\ h[q] \in Nat
    BY <1>2, <1>3
  <2>2. P[q] # 0 /\ P[q] \in T
    BY <2>1 DEF SlotsBy
  <2>3. PICK p : p = P[q]
    OBVIOUS
  <2>4. p \in T /\ q \in Members(d[p].kids)
    BY <2>2, <2>3 DEF SlotsBy, Lists
  <2>5. h[q] + 1 = h[p] /\ h[p] \in Nat
    BY <1>2, <2>4
  <2>6. PICK n, n1 : n = last - k /\ n1 = last - (k - 1)
    OBVIOUS
  <2>7. /\ h[p] + (k - 1) = h[r] /\ n1 \in 0 .. last /\ n1 # 0 /\ n1 - 1 = n /\ n \in 0 .. last
        /\ h[p] <= n1 /\ h[p] - 1 <= n
    BY <1>2, <2>1, <2>5, <2>6
  <2>8. w[n1][p] = VisitNode(d, p, w[n])
    BY <1>1, <2>4, <2>7
  <2>9. \A x \in Members(d[p].kids) : Found(d, T, R, x, w[n][x])
    <3> SUFFICES ASSUME NEW x \in Members(d[p].kids) PROVE Found(d, T, R, x, w[n][x])
      OBVIOUS
    <3>1. x \in T /\ h[x] + 1 = h[p] /\ h[x] \in Nat
      BY <1>2, <1>3, <2>4
    <3>2. h[x] <= n
      BY <2>5, <2>7, <3>1
    <3> QED
      BY <1>4, <2>7, <3>1, <3>2
  <2>10. Members(w[n][q]) \subseteq Members(VisitNode(d, p, w[n]))
    BY <2>4, <2>9, VisitFinds
  <2>11. Members(w[n1][p]) \subseteq Members(w[last][r])
    BY <1>6, <2>4, <2>6, <2>7
  <2> QED
    BY <2>6, <2>8, <2>10, <2>11
<1> HIDE DEF Good
<1>7. W = {}
  <2> SUFFICES ASSUME W # {} PROVE FALSE
    OBVIOUS
  <2>1. PICK m \in W : \A j \in W : m <= j
    <3>1. W \in SUBSET Nat
      BY <1>2
    <3> HIDE DEF W
    <3> QED
      BY <3>1, SmallestNumber
  <2>2. m # 0 /\ m \in 1 .. h[r] /\ m - 1 \in 0 .. h[r]
    BY <1>2, <1>5
  <2>3. Good(m - 1)
    <3>1. m - 1 \notin W
      <4>1. ~(m <= m - 1)
        BY <2>2
      <4> HIDE DEF W
      <4> QED
        BY <2>1, <4>1
    <3> QED
      BY <2>2, <3>1
  <2> QED
    BY <1>6, <2>2, <2>3
<1> QED
  BY <1>7 DEF Good

\* Read in order, a sound tree gives all its cells, sorted by key.
Listed(s, r, T) ==
  /\ Entries(s, r) \in Seq(CellSet) /\ Sorted(Entries(s, r)) /\ Members(Entries(s, r)) = CellsOf(s.disk, T)

\* Reading a sound tree gives all its cells in order.
LEMMA EntriesListed ==
  ASSUME NEW s, NEW r, NEW T, NEW h, NEW P, NEW R, Nodes(s.disk, T), HeightsBy(s.disk, T, h),
         SlotsBy(s.disk, r, T, P), OrderedBy(s.disk, T, R), MaxHeight \in Nat, h[r] <= MaxHeight
  PROVE  Listed(s, r, T)
<1>1. PICK w : w = CHOOSE x : VisitsTo(s.disk, MaxHeight, x)
  OBVIOUS
<1>2. VisitsTo(s.disk, MaxHeight, w)
  <2>1. \E x : VisitsTo(s.disk, MaxHeight, x)
    BY VisitsExist
  <2> QED
    BY <1>1, <2>1
<1>3. Entries(s, r) = w[MaxHeight][r]
  BY <1>1, EntriesAre
<1>4. PICK e, d : e = w[MaxHeight][r] /\ d = s.disk
  OBVIOUS
<1>5. Nodes(d, T) /\ HeightsBy(d, T, h) /\ SlotsBy(d, r, T, P) /\ OrderedBy(d, T, R) /\ VisitsTo(d, MaxHeight, w)
  BY <1>2, <1>4
<1>6. \A n \in 0 .. MaxHeight : \A p \in T : h[p] <= n => Found(d, T, R, p, w[n][p])
  BY <1>5, VisitLevels
<1>7. r \in T /\ MaxHeight \in 0 .. MaxHeight
  BY <1>5 DEF SlotsBy
<1>8. Found(d, T, R, r, e)
  BY <1>4, <1>6, <1>7
<1>9. CellsOf(d, T) \subseteq Members(e)
  <2> SUFFICES ASSUME NEW q \in T, NEW c \in Members(d[q].cells) PROVE c \in Members(e)
    BY DEF CellsOf
  <2>1. h[q] \in Nat /\ h[r] \in Nat /\ h[q] <= h[r]
    BY <1>5, <1>7, RootHighest
  <2>2. PICK k : k = h[r] - h[q]
    OBVIOUS
  <2>3. k \in 0 .. h[r] /\ h[q] + k = h[r] /\ MaxHeight - k \in 0 .. MaxHeight /\ h[q] <= MaxHeight - k
    BY <2>1, <2>2
  <2>4. Members(w[MaxHeight - k][q]) \subseteq Members(e)
    BY <1>4, <1>5, <2>3, VisitRises
  <2>5. Found(d, T, R, q, w[MaxHeight - k][q])
    BY <1>6, <2>3
  <2> QED
    BY <2>4, <2>5 DEF Found
<1> QED
  BY <1>3, <1>4, <1>8, <1>9 DEF Listed, Found

--------------------------------------------------------------------------------
\* Order, and the purposes of the pages.

\* What is known of a settled tree when it is read.
LEMMA SettledListed ==
  ASSUME NEW t, NEW T, NEW Y, Settled(t, T, Y)
  PROVE  Listed(store, root, T)
<1>1. Sound(store.disk, root, T, Y) /\ Sizes(store.disk, root, T, t)
  BY DEF Settled, Kept
<1>2. PICK s, r : s = store /\ r = root
  OBVIOUS
<1>3. PICK h, P, R : /\ Nodes(s.disk, T) /\ HeightsBy(s.disk, T, h) /\ SlotsBy(s.disk, r, T, P)
                     /\ OrderedBy(s.disk, T, R)
  BY <1>1, <1>2 DEF Sound, Slots, Orderly
<1>4. \A q \in T : ~s.disk[q].leaf => Len(s.disk[q].cells) >= 1
  BY <1>1, <1>2 DEF Sizes
<1>5. MaxHeight \in Nat /\ h[r] < MaxHeight
  BY <1>3, <1>4, HeightBound
<1>6. h[r] <= MaxHeight
  <2>1. h \in [T -> Nat] /\ r \in T
    BY <1>3 DEF HeightsBy, SlotsBy
  <2> QED
    BY <1>5, <2>1
<1>7. Listed(s, r, T)
  BY <1>3, <1>5, <1>6, EntriesListed
<1> QED
  BY <1>2, <1>7

\* The invariant gives the order of the keys.
LEMMA InvariantOrdered ==
  ASSUME Invariant
  PROVE  KeyOrder
<1> SUFFICES ASSUME Quiet, NEW i \in 1 .. Len(Entries(store, root)) - 1
             PROVE  Entries(store, root)[i].key <= Entries(store, root)[i + 1].key
  BY DEF KeyOrder
<1>1. PICK t, T, Y : Settled(t, T, Y)
  BY QuietSettled
<1>2. PICK e : e = Entries(store, root)
  OBVIOUS
<1>3. e \in Seq(CellSet) /\ Sorted(e)
  BY <1>1, <1>2, SettledListed DEF Listed
<1>4. Len(e) \in Nat
  BY <1>3, LenProperties
<1>5. i \in 1 .. Len(e) /\ i + 1 \in 1 .. Len(e) /\ i < i + 1
  BY <1>2, <1>4
<1> QED
  BY <1>2, <1>3, <1>5 DEF Sorted

\* Read in order, the tree gives its keys in order between two calls, through
\* every split, merge and borrow.
THEOREM StaysOrdered ==
  ASSUME OneOrder
  PROVE  Spec => []KeyOrder
<1>1. Spec => []Invariant
  BY InvariantHolds
<1>2. Invariant => KeyOrder
  BY InvariantOrdered
<1> QED
  BY <1>1, <1>2, PTL

\* The cells that have a chain are those of the tree that have one.
LEMMA SettledCells ==
  ASSUME NEW t, NEW T, NEW Y, Settled(t, T, Y)
  PROVE  OverflowCells = {c \in CellsOf(disk, T) : IsOverflow(c)}
<1>1. Listed(store, root, T) /\ store.disk = disk
  BY SettledListed, StoreFields
<1>2. PICK e : e = Entries(store, root)
  OBVIOUS
<1>3. e \in Seq(CellSet) /\ Members(e) = CellsOf(disk, T)
  BY <1>1, <1>2 DEF Listed
<1>4. ToSet(e) = Members(e)
  BY <1>3, ToSetIs
<1> QED
  BY <1>2, <1>3, <1>4 DEF OverflowCells

\* A first word chain met by the walk of ChainPages and FreePages.
LEMMA ChainMet ==
  ASSUME NEW c, NEW S, S \subseteq DataPages, Walked(disk, c.first, S)
  PROVE  ChainPages(c) = S
<1> DEFINE walk == CHOOSE w : Walks(disk, c.first, MaxPages, DataPages, w)
<1>1. ChainPages(c) = {walk[n] : n \in 0 .. MaxPages} \ {0}
  BY DEF ChainPages, Walks
<1>2. /\ MaxPages \in Nat /\ DataPages \in SUBSET (1 .. MaxPages) /\ S \in SUBSET DataPages
      /\ Walked(disk, c.first, S)
  BY PageStoreAssumption DEF DataPages
<1>3. Walks(disk, c.first, MaxPages, DataPages, walk)
  <2>1. \E w : Walks(disk, c.first, MaxPages, DataPages, w)
    BY <1>2, WalkedMeets
  <2> QED
    BY <2>1
<1> HIDE DEF walk
<1>4. DataPages \in SUBSET (1 .. MaxPages)
  BY <1>2
<1>5. \A w : Walks(disk, c.first, MaxPages, DataPages, w) => {w[n] : n \in 0 .. MaxPages} \ {0} = S
  BY <1>2, <1>4, WalkedMeets
<1> QED
  BY <1>1, <1>3, <1>5

\* So is the free list.
LEMMA FreeMet ==
  ASSUME NEW S, S \subseteq DataPages, Walked(disk, free, S)
  PROVE  FreePages(store, free) = S
<1> DEFINE walk == CHOOSE w : Walks(disk, free, MaxPages, DataPages, w)
<1>1. FreePages(store, free) = {walk[n] : n \in 0 .. MaxPages} \ {0}
  BY DEF FreePages, store, Walks
<1>2. /\ MaxPages \in Nat /\ DataPages \in SUBSET (1 .. MaxPages) /\ S \in SUBSET DataPages
      /\ Walked(disk, free, S)
  BY PageStoreAssumption DEF DataPages
<1>3. Walks(disk, free, MaxPages, DataPages, walk)
  <2>1. \E w : Walks(disk, free, MaxPages, DataPages, w)
    BY <1>2, WalkedMeets
  <2> QED
    BY <2>1
<1> HIDE DEF walk
<1>4. DataPages \in SUBSET (1 .. MaxPages)
  BY <1>2
<1>5. \A w : Walks(disk, free, MaxPages, DataPages, w) => {w[n] : n \in 0 .. MaxPages} \ {0} = S
  BY <1>2, <1>4, WalkedMeets
<1> QED
  BY <1>1, <1>3, <1>5

\* The chains of H are those of the cells of the tree, each of one of them.
HeadsOfTree(d, T, H) ==
  /\ \A c \in CellsOf(d, T) : IsOverflow(c) => c.first \in H
  /\ \A x \in H : \E c \in CellsOf(d, T) : IsOverflow(c) /\ c.first = x
  /\ \A c, e \in CellsOf(d, T) : IsOverflow(c) /\ IsOverflow(e) /\ c.first = e.first => c = e

\* A cell of the tree is a cell of one of its nodes.
LEMMA CellOfNode ==
  ASSUME NEW d, NEW T, NEW c
  PROVE  c \in CellsOf(d, T) <=> \E p \in T : \E i \in 1 .. Len(d[p].cells) : d[p].cells[i] = c
BY DEF CellsOf, Members

\* The firsts of a node's cells.
LEMMA FirstOfNode ==
  ASSUME NEW cells, NEW S, HeadsOf(cells, S)
  PROVE  /\ \A i \in 1 .. Len(cells) : IsOverflow(cells[i]) => cells[i].first \in S
         /\ \A x \in S : \E i \in 1 .. Len(cells) : IsOverflow(cells[i]) /\ cells[i].first = x
         /\ \A i, j \in 1 .. Len(cells) :
              IsOverflow(cells[i]) /\ IsOverflow(cells[j]) /\ cells[i].first = cells[j].first => i = j
BY DEF HeadsOf, Firsts, OneEach

\* Two cells with a chain in common are one.
LEMMA HeadsMet ==
  ASSUME NEW d, NEW T, NEW H, Heads(d, T, H)
  PROVE  HeadsOfTree(d, T, H)
<1>1. PICK home : home \in [H -> T] /\ \A p \in T : HeadsOf(d[p].cells, {x \in H : home[x] = p})
  BY DEF Heads, HeadsBy
<1>2. ASSUME NEW p \in T, NEW i \in 1 .. Len(d[p].cells), IsOverflow(d[p].cells[i])
      PROVE  d[p].cells[i].first \in H /\ home[d[p].cells[i].first] = p
  <2>1. HeadsOf(d[p].cells, {x \in H : home[x] = p})
    BY <1>1
  <2>2. d[p].cells[i].first \in {x \in H : home[x] = p}
    BY <1>2, <2>1, FirstOfNode
  <2> QED
    BY <2>2
<1>3. ASSUME NEW c \in CellsOf(d, T), IsOverflow(c)
      PROVE  c.first \in H
  BY <1>2, <1>3, CellOfNode
<1>4. ASSUME NEW x \in H
      PROVE  \E c \in CellsOf(d, T) : IsOverflow(c) /\ c.first = x
  <2>1. home[x] \in T /\ x \in {y \in H : home[y] = home[x]}
    BY <1>1
  <2>2. HeadsOf(d[home[x]].cells, {y \in H : home[y] = home[x]})
    BY <1>1, <2>1
  <2>3. PICK i \in 1 .. Len(d[home[x]].cells) :
          IsOverflow(d[home[x]].cells[i]) /\ d[home[x]].cells[i].first = x
    BY <2>1, <2>2, FirstOfNode
  <2>4. d[home[x]].cells[i] \in CellsOf(d, T)
    BY <2>1, CellOfNode
  <2> QED
    BY <2>3, <2>4
<1>5. ASSUME NEW c \in CellsOf(d, T), NEW e \in CellsOf(d, T), IsOverflow(c), IsOverflow(e), c.first = e.first
      PROVE  c = e
  <2>1. PICK p \in T : \E i \in 1 .. Len(d[p].cells) : d[p].cells[i] = c
    BY <1>5, CellOfNode
  <2>2. PICK i \in 1 .. Len(d[p].cells) : d[p].cells[i] = c
    BY <2>1
  <2>3. PICK q \in T : \E j \in 1 .. Len(d[q].cells) : d[q].cells[j] = e
    BY <1>5, CellOfNode
  <2>4. PICK j \in 1 .. Len(d[q].cells) : d[q].cells[j] = e
    BY <2>3
  <2>5. home[c.first] = p
    BY <1>2, <1>5, <2>2
  <2>6. home[e.first] = q
    BY <1>2, <1>5, <2>4
  <2>7. p = q
    BY <1>5, <2>5, <2>6
  <2>8. HeadsOf(d[p].cells, {x \in H : home[x] = p})
    BY <1>1
  <2>9. i = j
    BY <1>5, <2>2, <2>4, <2>7, <2>8, FirstOfNode
  <2> QED
    BY <2>2, <2>4, <2>7, <2>9
<1> QED
  BY <1>3, <1>4, <1>5 DEF HeadsOfTree

\* The pages of a settled store: the free list is F, the chain of a cell C[its
\* first page].
Paged(T, Y, H, F, C) ==
  /\ Filed(store, T, Y) /\ Slots(disk, root, T) /\ HeadsOfTree(disk, T, H)
  /\ ChainedBy(disk, free, 0, {}, H, Y, F, C)
  /\ Tree = T /\ OverflowCells = {c \in CellsOf(disk, T) : IsOverflow(c)}
  /\ FreePages(store, free) = F
  /\ \A c \in OverflowCells : ChainPages(c) = C[c.first]
  /\ (~refused => Whole(store, T, Y))

\* Between two calls the pages are the tree, the chains and the free list.
LEMMA SettledPages ==
  ASSUME NEW t, NEW T, NEW Y, Settled(t, T, Y)
  PROVE  \E H, F, C : Paged(T, Y, H, F, C)
<1>1. /\ Sound(store.disk, root, T, Y) /\ Filed(store, T, Y) /\ (refused \/ Whole(store, T, Y))
      /\ Begun(store, 0, {}, T, Y)
  BY DEF Settled, Kept, Clean
<1>2. store.disk = disk /\ store.free = free
  BY StoreFields
<1>3. PICK H : Heads(disk, T, H) /\ Chained(disk, free, 0, {}, H, Y)
  BY <1>1, <1>2 DEF Begun
<1>4. PICK F, C : ChainedBy(disk, free, 0, {}, H, Y, F, C)
  BY <1>3 DEF Chained
<1>5. HeadsOfTree(disk, T, H)
  BY <1>3, HeadsMet
<1>6. Slots(disk, root, T)
  BY <1>1, <1>2 DEF Sound
<1>7. Tree = T
  BY SettledTree
<1>8. OverflowCells = {c \in CellsOf(disk, T) : IsOverflow(c)}
  BY SettledCells
<1>9. /\ Y \subseteq DataPages /\ F \subseteq Y /\ C \in [H -> SUBSET Y] /\ Walked(disk, free, F)
      /\ \A h \in H : Walked(disk, h, C[h])
  BY <1>4 DEF ChainedBy
<1>10. FreePages(store, free) = F
  <2>1. F \subseteq DataPages
    BY <1>9
  <2> QED
    BY <1>9, <2>1, FreeMet
<1>11. ASSUME NEW c \in OverflowCells
       PROVE  ChainPages(c) = C[c.first]
  <2>1. c.first \in H
    BY <1>5, <1>8, <1>11 DEF HeadsOfTree
  <2>2. C[c.first] \subseteq DataPages /\ Walked(disk, c.first, C[c.first])
    BY <1>9, <2>1
  <2> QED
    BY <2>2, ChainMet
<1>12. Paged(T, Y, H, F, C)
  BY <1>1, <1>4, <1>5, <1>6, <1>7, <1>8, <1>10, <1>11 DEF Paged
<1> QED
  BY <1>12

\* A page is the child of one node, at one place.
LEMMA OneParent ==
  ASSUME NEW d, NEW r, NEW T, Slots(d, r, T), NEW p \in T, NEW q \in T,
         NEW i \in 1 .. Len(d[p].kids), NEW j \in 1 .. Len(d[q].kids), d[p].kids[i] = d[q].kids[j]
  PROVE  p = q /\ i = j
<1>1. PICK P : SlotsBy(d, r, T, P)
  BY DEF Slots
<1>2. Lists(d[p].kids, {x \in T : P[x] = p}) /\ Lists(d[q].kids, {x \in T : P[x] = q})
  BY <1>1 DEF SlotsBy
<1>3. P[d[p].kids[i]] = p /\ P[d[q].kids[j]] = q
  BY <1>2 DEF Lists, Members
<1>4. p = q
  BY <1>3
<1>5. Distinct(d[p].kids)
  BY <1>2 DEF Lists
<1> QED
  BY <1>4, <1>5 DEF Distinct

\* The invariant keeps the purposes of the pages apart.
LEMMA InvariantDisjoint ==
  ASSUME Invariant
  PROVE  PagesDisjoint
<1> SUFFICES ASSUME Quiet
             PROVE  /\ FreePages(store, free) \cap Tree = {}
                    /\ \A c \in OverflowCells :
                         /\ ChainPages(c) \cap (Tree \cup FreePages(store, free)) = {}
                         /\ \A e \in OverflowCells : c # e => ChainPages(c) \cap ChainPages(e) = {}
                    /\ \A p, q \in Tree :
                         \A i \in DOMAIN disk[p].kids, j \in DOMAIN disk[q].kids :
                           disk[p].kids[i] = disk[q].kids[j] => p = q /\ i = j
  BY DEF PagesDisjoint
<1>1. PICK t, T, Y : Settled(t, T, Y)
  BY QuietSettled
<1>2. PICK H, F, C : Paged(T, Y, H, F, C)
  BY <1>1, SettledPages
<1>3. /\ Tree = T /\ FreePages(store, free) = F
      /\ \A c \in OverflowCells : ChainPages(c) = C[c.first]
      /\ OverflowCells = {c \in CellsOf(disk, T) : IsOverflow(c)}
  BY <1>2 DEF Paged
<1>4. HeadsOfTree(disk, T, H)
  BY <1>2 DEF Paged
<1>5. /\ F \subseteq Y /\ C \in [H -> SUBSET Y] /\ (\A h \in H : C[h] \cap F = {})
      /\ \A g, h \in H : g # h => C[g] \cap C[h] = {}
  BY <1>2 DEF Paged, ChainedBy
<1>6. T \cap Y = {}
  BY <1>2 DEF Paged, Filed
<1>7. FreePages(store, free) \cap Tree = {}
  BY <1>3, <1>5, <1>6
<1>8. ASSUME NEW c \in OverflowCells
      PROVE  c.first \in H /\ ChainPages(c) = C[c.first]
  BY <1>3, <1>4, <1>8 DEF HeadsOfTree
<1>9. ASSUME NEW c \in OverflowCells
      PROVE  ChainPages(c) \cap (Tree \cup FreePages(store, free)) = {}
  <2>1. C[c.first] \subseteq Y /\ C[c.first] \cap F = {} /\ ChainPages(c) = C[c.first]
    BY <1>5, <1>8, <1>9
  <2> QED
    BY <1>3, <1>6, <2>1
<1>10. ASSUME NEW c \in OverflowCells, NEW e \in OverflowCells, c # e
       PROVE  ChainPages(c) \cap ChainPages(e) = {}
  <2>1. /\ c.first \in H /\ ChainPages(c) = C[c.first]
        /\ e.first \in H /\ ChainPages(e) = C[e.first]
    BY <1>8, <1>10
  <2>2. c.first # e.first
    BY <1>3, <1>4, <1>10 DEF HeadsOfTree
  <2> QED
    BY <1>5, <2>1, <2>2
<1>11. ASSUME NEW p \in Tree, NEW q \in Tree, NEW i \in DOMAIN disk[p].kids, NEW j \in DOMAIN disk[q].kids,
              disk[p].kids[i] = disk[q].kids[j]
       PROVE  p = q /\ i = j
  <2>1. p \in T /\ q \in T /\ Slots(disk, root, T)
    BY <1>2, <1>3, <1>11 DEF Paged
  <2>2. Nodes(disk, T)
    <3>1. Nodes(store.disk, T) /\ store.disk = disk
      BY <1>1, StoreFields DEF Settled, Kept, Sound
    <3> QED
      BY <3>1
  <2>3. disk[p].kids \in Seq(T) /\ disk[q].kids \in Seq(T)
    BY <2>1, <2>2 DEF Nodes, NodeIn
  <2>4. i \in 1 .. Len(disk[p].kids) /\ j \in 1 .. Len(disk[q].kids)
    BY <1>11, <2>3
  <2> QED
    BY <1>11, <2>1, <2>4, OneParent
<1> QED
  BY <1>7, <1>9, <1>10, <1>11

\* Between two calls no page serves two purposes: a page freed, moved, merged or
\* given to a chain has left its former place.
THEOREM StaysDisjoint ==
  ASSUME OneOrder
  PROVE  Spec => []PagesDisjoint
<1>1. Spec => []Invariant
  BY InvariantHolds
<1>2. Invariant => PagesDisjoint
  BY InvariantDisjoint
<1> QED
  BY <1>1, <1>2, PTL

\* The invariant accounts for every page of the file.
LEMMA InvariantAccounted ==
  ASSUME Invariant
  PROVE  PagesAccounted
<1> SUFFICES ASSUME Quiet, ~refused
             PROVE  Tree \cup (UNION {ChainPages(c) : c \in OverflowCells}) \cup FreePages(store, free)
                      = 2 .. count - 1
  BY DEF PagesAccounted
<1>1. PICK t, T, Y : Settled(t, T, Y)
  BY QuietSettled
<1>2. PICK H, F, C : Paged(T, Y, H, F, C)
  BY <1>1, SettledPages
<1>3. /\ Tree = T /\ FreePages(store, free) = F
      /\ \A c \in OverflowCells : ChainPages(c) = C[c.first]
      /\ OverflowCells = {c \in CellsOf(disk, T) : IsOverflow(c)}
  BY <1>2 DEF Paged
<1>4. HeadsOfTree(disk, T, H)
  BY <1>2 DEF Paged
<1>5. /\ F \subseteq Y /\ C \in [H -> SUBSET Y]
      /\ \A y \in Y : y \in F \/ \E h \in H : y \in C[h]
  BY <1>2 DEF Paged, ChainedBy
<1>6. (UNION {ChainPages(c) : c \in OverflowCells}) \cup F = Y
  <2>1. ASSUME NEW c \in OverflowCells
        PROVE  ChainPages(c) \subseteq Y
    BY <1>3, <1>4, <1>5, <2>1 DEF HeadsOfTree
  <2>2. ASSUME NEW h \in H
        PROVE  \E c \in OverflowCells : ChainPages(c) = C[h]
    <3>1. PICK c \in CellsOf(disk, T) : IsOverflow(c) /\ c.first = h
      BY <1>4, <2>2 DEF HeadsOfTree
    <3>2. c \in OverflowCells
      BY <1>3, <3>1
    <3> QED
      BY <1>3, <3>1, <3>2
  <2>3. \A y : y \in UNION {ChainPages(c) : c \in OverflowCells}
                <=> \E c \in OverflowCells : y \in ChainPages(c)
    OBVIOUS
  <2>4. \A y \in Y : y \in F \/ \E c \in OverflowCells : y \in ChainPages(c)
    BY <1>5, <2>2
  <2>5. \A y : (\E c \in OverflowCells : y \in ChainPages(c)) => y \in Y
    BY <2>1
  <2>6. F \subseteq Y
    BY <1>5
  <2>7. PICK U : U = UNION {ChainPages(c) : c \in OverflowCells}
    OBVIOUS
  <2>8. U \subseteq Y /\ (\A y \in Y : y \in F \/ y \in U)
    BY <2>3, <2>4, <2>5, <2>7
  <2>9. U \cup F = Y
    BY <2>6, <2>8
  <2> QED
    BY <2>7, <2>9
<1>7. T \cup Y = 2 .. store.count - 1
  BY <1>2 DEF Paged, Whole
<1>8. store.count = count
  BY StoreFields
<1> QED
  BY <1>3, <1>6, <1>7, <1>8

\* No call leaks a page: between two calls every page of the file is in the
\* tree, in the chain of a value or free.
THEOREM StaysAccounted ==
  ASSUME OneOrder
  PROVE  Spec => []PagesAccounted
<1>1. Spec => []Invariant
  BY InvariantHolds
<1>2. Invariant => PagesAccounted
  BY InvariantAccounted
<1> QED
  BY <1>1, <1>2, PTL

--------------------------------------------------------------------------------
\* The cursor beside the engine.

\* The copy of a cursor has the keys of the tree at its creation, each once, in order.
Copied ==
  /\ entries \in Seq(CellSet)
  /\ {entries[i].key : i \in DOMAIN entries} = present
  /\ \A i, j \in DOMAIN entries : i < j => entries[i].key < entries[j].key

\* It gave the keys of its first entries.
Given ==
  /\ position \in 0 .. Len(entries) /\ yielded \in Seq(Nat) /\ Len(yielded) = position
  /\ \A i \in 1 .. position : yielded[i] = entries[i].key
  /\ yield.status = "NOTFOUND" => position = Len(entries)

\* What a cursor keeps: while no key was in the tree twice the next cursor will
\* find each once, and an open one has found it so and gives it so.
CursorInv ==
  /\ Repeats => doubled
  /\ Trusted /\ open => Copied /\ Given

\* A step of the engine, alone or beside a cursor, restores no trust in its tree.
LEMMA TrustLasts ==
  ASSUME Next
  PROVE  lost' \/ dangling' \/ (~lost /\ ~dangling)
<1>1. CASE \E t \in program.orders, room \in program.rooms : Open(t, room)
  BY <1>1 DEF Open, ghosts
<1>2. CASE \E room \in program.rooms : OpenFails(room)
  BY <1>2 DEF OpenFails
<1>3. CASE \E k \in program.keys, v \in program.vals, room, room2 \in program.rooms : Insert(k, v, room, room2)
  BY <1>3 DEF Insert
<1>4. CASE \E k \in program.keys : Delete(k) \/ Lookup(k)
  BY <1>4 DEF Delete, Lookup, ghosts
<1>5. CASE Step
  <2>1. CASE InsertExists \/ InsertLeaf \/ DeleteLeaf \/ OverflowFree
    BY <2>1 DEF InsertExists, InsertLeaf, DeleteLeaf, OverflowFree, ghosts
  <2>2. CASE \E room \in program.rooms : InsertDescend(room) \/ OverflowWrite(room)
    BY <2>2 DEF InsertDescend, OverflowWrite
  <2>3. CASE DeleteInternal
    BY <2>3 DEF DeleteInternal
  <2>4. CASE DeleteDescend \/ Return
    BY <2>4 DEF DeleteDescend, Return, ghosts
  <2> QED
    BY <1>5, <2>1, <2>2, <2>3, <2>4 DEF Step
<1>6. CASE Close \/ Crash
  <2>1. PICK s : DropHandle(s)
    BY <1>6 DEF Close, Crash
  <2> QED
    BY <2>1 DEF DropHandle
<1> QED
  BY <1>1, <1>2, <1>3, <1>4, <1>5, <1>6 DEF Next

\* Without a key twice the copy of the tree is strictly in order.
LEMMA CopyIsOrdered ==
  ASSUME Invariant, Quiet, ~Repeats, NEW e, e = Entries(store, root)
  PROVE  /\ \A i, j \in DOMAIN e : i < j => e[i].key < e[j].key
         /\ {e[i].key : i \in DOMAIN e} = StoredKeys /\ e \in Seq(CellSet)
<1>1. PICK t, T, Y : Settled(t, T, Y)
  BY QuietSettled
<1>2. e \in Seq(CellSet) /\ Sorted(e)
  BY <1>1, SettledListed DEF Listed
<1>3. Len(e) \in Nat /\ DOMAIN e = 1 .. Len(e) /\ \A i \in 1 .. Len(e) : e[i] \in CellSet
  BY <1>2, LenProperties, ElementOfSeq
<1>4. \A i \in 1 .. Len(e) : e[i].key \in Nat
  BY <1>3, BTreeAssumption DEF CellSet
<1>5. \A i, j \in DOMAIN e : i # j => e[i].key # e[j].key
  BY DEF Repeats
<1>6. ASSUME NEW i \in DOMAIN e, NEW j \in DOMAIN e, i < j
      PROVE  e[i].key < e[j].key
  <2>1. i \in 1 .. Len(e) /\ j \in 1 .. Len(e) /\ i # j
    BY <1>3, <1>6
  <2>2. e[i].key <= e[j].key
    BY <1>2, <1>6, <2>1 DEF Sorted
  <2>3. e[i].key # e[j].key
    BY <1>5, <2>1
  <2>4. e[i].key \in Nat /\ e[j].key \in Nat
    BY <1>4, <2>1
  <2> QED
    BY <2>2, <2>3, <2>4
<1>7. {e[i].key : i \in DOMAIN e} = StoredKeys
  <2>1. Members(e) = CellsOf(disk, T)
    BY <1>1, SettledListed DEF Listed, store
  <2>2. Tree = T
    BY <1>1, SettledTree
  <2>3. ASSUME NEW p \in T PROVE ToSet(disk[p].cells) = Members(disk[p].cells)
    <3>1. disk[p].cells \in Seq(CellSet)
      BY <1>1 DEF Settled, Kept, Sound, Nodes, NodeIn, store
    <3> QED
      BY <3>1, LenProperties DEF ToSet, Members
  <2>4. StoredKeys = {c.key : c \in CellsOf(disk, T)}
    BY <2>2, <2>3 DEF StoredKeys, CellsOf
  <2>5. {e[i].key : i \in DOMAIN e} = {c.key : c \in Members(e)}
    BY <1>3 DEF Members
  <2> QED
    BY <2>1, <2>4, <2>5
<1> QED
  BY <1>2, <1>6, <1>7

\* A new cursor on such a tree has the keys of the tree, in order, and gave none.
LEMMA OpensCopied ==
  ASSUME Invariant, CursorInv, CursorOpen, Trusted
  PROVE  Copied' /\ Given'
<1>1. Quiet /\ ~Repeats
  BY DEF CursorInv, CursorOpen, Trusted, Quiet
<1>2. PICK e : e = Entries(store, root)
  OBVIOUS
<1>3. /\ \A i, j \in DOMAIN e : i < j => e[i].key < e[j].key
      /\ {e[i].key : i \in DOMAIN e} = StoredKeys /\ e \in Seq(CellSet)
  BY <1>1, <1>2, CopyIsOrdered
<1>4. entries' = e /\ present' = StoredKeys /\ position' = 0 /\ yield' = NoYield /\ yielded' = << >>
  BY <1>2 DEF CursorOpen
<1>5. Copied'
  BY <1>3, <1>4 DEF Copied
<1>6. Given'
  <2>1. Len(e) \in Nat
    BY <1>3, LenProperties
  <2>2. << >> \in Seq(Nat) /\ Len(<< >>) = 0
    OBVIOUS
  <2> QED
    BY <1>4, <2>1, <2>2 DEF Given, NoYield
<1> QED
  BY <1>5, <1>6

\* The answers of a cursor are the keys of its entries, one after the other.
LEMMA NextGiven ==
  ASSUME Copied, Given, CursorNext
  PROVE  Copied' /\ Given'
<1>1. entries' = entries /\ present' = present
  BY DEF CursorNext
<1>2. Copied'
  BY <1>1 DEF Copied
<1>3. /\ position \in 0 .. Len(entries) /\ yielded \in Seq(Nat) /\ Len(yielded) = position
      /\ \A i \in 1 .. position : yielded[i] = entries[i].key
  BY DEF Given
<1>4. CASE position = Len(entries) /\ UNCHANGED <<position, yielded>>
  <2>1. Len(entries') = Len(entries) /\ \A i : entries'[i] = entries[i]
    BY <1>1
  <2>2. position' = position /\ yielded' = yielded
    BY <1>4
  <2>3. Len(yielded') = position' /\ yielded' \in Seq(Nat) /\ position' \in 0 .. Len(entries')
    BY <1>3, <2>1, <2>2
  <2>4. \A i \in 1 .. position' : yielded'[i] = entries'[i].key
    BY <1>3, <2>1, <2>2
  <2> QED
    BY <1>2, <1>4, <2>1, <2>2, <2>3, <2>4 DEF Given
<1>5. CASE yield'.status = "ERR" /\ UNCHANGED <<position, yielded>>
  <2>1. Len(entries') = Len(entries) /\ \A i : entries'[i] = entries[i]
    BY <1>1
  <2>2. position' = position /\ yielded' = yielded
    BY <1>5
  <2>3. Len(yielded') = position' /\ yielded' \in Seq(Nat) /\ position' \in 0 .. Len(entries')
    BY <1>3, <2>1, <2>2
  <2>4. \A i \in 1 .. position' : yielded'[i] = entries'[i].key
    BY <1>3, <2>1, <2>2
  <2> QED
    BY <1>2, <1>5, <2>3, <2>4 DEF Given
<1>6. CASE /\ position < Len(entries) /\ yield'.status = "OK" /\ position' = position + 1
           /\ yielded' = Append(yielded, entries[position + 1].key)
  <2>1. entries \in Seq(CellSet) /\ Len(entries) \in Nat /\ position \in Nat
    BY <1>3, LenProperties DEF Copied
  <2>2. position + 1 \in 1 .. Len(entries)
    BY <1>6, <2>1
  <2>3. entries[position + 1].key \in Nat
    <3>1. entries[position + 1] \in CellSet
      BY <2>1, <2>2, ElementOfSeq
    <3> QED
      BY <3>1, BTreeAssumption DEF CellSet
  <2> DEFINE k == entries[position + 1].key
  <2> HIDE DEF k
  <2>4. /\ yielded' \in Seq(Nat) /\ Len(yielded') = position + 1
        /\ \A i \in 1 .. position : yielded'[i] = yielded[i]
        /\ yielded'[position + 1] = k
    BY <1>3, <1>6, <2>3, AppendProperties DEF k
  <2>5. ASSUME NEW i \in 1 .. position + 1 PROVE yielded'[i] = entries[i].key
    <3>1. i \in 1 .. position \/ i = position + 1
      BY <2>1
    <3> QED
      BY <1>3, <2>4, <3>1 DEF k
  <2> QED
    <3>1. Len(entries') = Len(entries) /\ \A i : entries'[i] = entries[i]
      BY <1>1
    <3>2. Len(yielded') = position' /\ position' \in 0 .. Len(entries')
      BY <1>6, <2>1, <2>2, <2>4, <3>1
    <3>3. \A i \in 1 .. position' : yielded'[i] = entries'[i].key
      BY <1>6, <2>5, <3>1
    <3> QED
      BY <1>2, <1>6, <2>4, <3>2, <3>3 DEF Given
<1> QED
  BY <1>2, <1>4, <1>5, <1>6 DEF CursorNext

\* The engine beside a cursor is the engine.
LEMMA CursorRefines ==
  ASSUME CursorNextState
  PROVE  [Next]_vars
BY DEF CursorNextState, TreeStep, CursorOpen, CursorNext, CursorClose

\* A state in which the engine does nothing repeats no more keys than before.
LEMMA RepeatsStays ==
  ASSUME UNCHANGED vars
  PROVE  Repeats' = Repeats
<1>1. store' = store /\ root' = root /\ Quiet' = Quiet
  BY DEF vars, storeVars, handle, ghosts, store, Quiet
<1>2. Entries(store, root)' = Entries(store, root)
  BY <1>1
<1> QED
  BY <1>1, <1>2 DEF Repeats

\* Every step keeps what a cursor keeps.
LEMMA CursorInvStep ==
  ASSUME Invariant, CursorInv, [CursorNextState]_<<vars, cursorVars>>
  PROVE  CursorInv'
<1>1. CASE TreeStep
  <2>1. doubled' = (doubled \/ Repeats') /\ open' = open /\ entries' = entries /\ pairs' = pairs /\ Next
    BY <1>1 DEF TreeStep
  <2>2. (Repeats => doubled)'
    BY <2>1
  <2>3. ASSUME Trusted', open' PROVE Trusted /\ open
    BY <2>1, <2>3, TrustLasts DEF Trusted
  <2>4. Copied' = Copied
    BY <1>1 DEF Copied, TreeStep
  <2>5. Given => Given'
    BY <1>1 DEF Given, TreeStep, NoYield
  <2> QED
    BY <2>2, <2>3, <2>4, <2>5 DEF CursorInv
<1>2. CASE CursorOpen
  <2>1. UNCHANGED <<vars, doubled>>
    BY <1>2 DEF CursorOpen
  <2>2. Trusted' = Trusted
    BY <2>1 DEF Trusted, vars, ghosts
  <2>3. (Repeats => doubled)'
    BY <2>1, RepeatsStays DEF CursorInv
  <2> QED
    BY <1>2, <2>2, <2>3, OpensCopied DEF CursorInv
<1>3. CASE CursorNext \/ CursorClose \/ UNCHANGED <<vars, cursorVars>>
  <2>1. UNCHANGED <<vars, doubled>>
    BY <1>3 DEF CursorNext, CursorClose, cursorVars
  <2>2. Trusted' = Trusted
    BY <2>1 DEF Trusted, vars, ghosts
  <2>3. (Repeats => doubled)'
    BY <2>1, RepeatsStays DEF CursorInv
  <2>4. CASE CursorNext
    <3>1. open' = open
      BY <2>4 DEF CursorNext
    <3> QED
      BY <2>2, <2>3, <2>4, <3>1, NextGiven DEF CursorInv
  <2>5. CASE CursorClose
    BY <2>3, <2>5 DEF CursorInv, CursorClose
  <2>6. CASE UNCHANGED <<vars, cursorVars>>
    BY <2>2, <2>3, <2>6 DEF CursorInv, Copied, Given, cursorVars
  <2> QED
    BY <1>3, <2>4, <2>5, <2>6
<1> QED
  BY <1>1, <1>2, <1>3 DEF CursorNextState

\* What a cursor gave is in order, without a gap, and at the end everything.
LEMMA GivenInOrder ==
  ASSUME Copied, Given
  PROVE  LET given == ToSet(yielded) IN
         /\ \A i, j \in DOMAIN yielded : i < j => yielded[i] < yielded[j]
         /\ given \subseteq present
         /\ \A k \in present, g \in given : k < g => k \in given
         /\ yield.status = "NOTFOUND" => given = present
<1>1. /\ entries \in Seq(CellSet) /\ Len(entries) \in Nat /\ DOMAIN entries = 1 .. Len(entries)
      /\ {entries[i].key : i \in 1 .. Len(entries)} = present
      /\ \A i, j \in 1 .. Len(entries) : i < j => entries[i].key < entries[j].key
  BY LenProperties DEF Copied
<1>2. \A i \in 1 .. Len(entries) : entries[i].key \in Nat
  <2>1. \A i \in 1 .. Len(entries) : entries[i] \in CellSet
    BY <1>1, ElementOfSeq
  <2> QED
    BY <2>1, BTreeAssumption DEF CellSet
<1>3. /\ position \in 0 .. Len(entries) /\ DOMAIN yielded = 1 .. position
      /\ \A i \in 1 .. position : yielded[i] = entries[i].key /\ i \in 1 .. Len(entries)
  BY <1>1, LenProperties DEF Given
<1>4. ToSet(yielded) = {entries[i].key : i \in 1 .. position}
  BY <1>3 DEF ToSet
<1>5. \A i, j \in DOMAIN yielded : i < j => yielded[i] < yielded[j]
  BY <1>1, <1>3
<1>6. ToSet(yielded) \subseteq present
  BY <1>1, <1>3, <1>4
<1>7. ASSUME NEW k \in present, NEW g \in ToSet(yielded), k < g PROVE k \in ToSet(yielded)
  <2>1. PICK i \in 1 .. Len(entries) : k = entries[i].key
    BY <1>1
  <2>2. PICK j \in 1 .. position : g = entries[j].key
    BY <1>4
  <2>3. j \in 1 .. Len(entries) /\ entries[i].key \in Nat /\ entries[j].key \in Nat
    BY <1>2, <1>3
  <2>4. ~(j < i) /\ i # j
    BY <1>1, <1>7, <2>1, <2>2, <2>3
  <2>5. i \in 1 .. position
    BY <1>3, <2>4
  <2> QED
    BY <1>4, <2>1, <2>5
<1>8. ASSUME yield.status = "NOTFOUND" PROVE ToSet(yielded) = present
  <2>1. position = Len(entries)
    BY <1>8 DEF Given
  <2> QED
    BY <1>1, <1>4, <2>1
<1> QED
  BY <1>5, <1>6, <1>7, <1>8

\* A cursor gives the keys of the tree at its creation in ascending order, each once
\* and none skipped, and all of them before it says NOTFOUND (btree_cursor,
\* cursor_next), whatever the program does with the tree meanwhile.
THEOREM CursorInOrder ==
  ASSUME OneOrder
  PROVE  CursorSpec => []YieldsInOrder
<1>1. CursorInit => Init /\ CursorInv
  <2> SUFFICES ASSUME CursorInit PROVE Init /\ CursorInv
    OBVIOUS
  <2>1. pc = "closed" /\ open = FALSE
    BY DEF CursorInit, Init
  <2> QED
    BY <2>1 DEF CursorInit, CursorInv, Repeats, Quiet
<1>2. [CursorNextState]_<<vars, cursorVars>> => [Next]_vars
  BY CursorRefines
<1>3. Spec => []Invariant
  BY InvariantHolds
<1>4. Invariant /\ CursorInv /\ [CursorNextState]_<<vars, cursorVars>> => CursorInv'
  BY CursorInvStep
<1>5. CursorInv => YieldsInOrder
  BY GivenInOrder DEF CursorInv, YieldsInOrder
<1>6. CursorSpec => Spec
  BY <1>1, <1>2, PTL DEF CursorSpec, Spec
<1> QED
  BY <1>1, <1>3, <1>4, <1>5, <1>6, PTL DEF CursorSpec

================================================================================

----------------------------- MODULE BTree_lemmas ------------------------------
(***************************************************************************)
(* Lemmas about the operators of the B-tree engine: what splitting,        *)
(* merging, borrowing, allocating and freeing do to a tree of pages and to *)
(* the chains of pages beside it, whatever the pages, keys and values.     *)
(***************************************************************************)
EXTENDS BTreeProperties, Induction, SequenceTheorems

--------------------------------------------------------------------------------
\* The tree: a set T of pages of a disk d.

CellSet == [key : Keys, val : Vals \cup {NoVal}, first : Nat]

\* The pages of T hold nodes whose children are in T.
NodeIn(d, T, p) ==
  /\ d[p].kind = "node" /\ d[p].leaf \in BOOLEAN
  /\ d[p].cells \in Seq(CellSet) /\ d[p].kids \in Seq(T)
  /\ Len(d[p].kids) = IF d[p].leaf THEN 0 ELSE Len(d[p].cells) + 1
Nodes(d, T) == T \subseteq DataPages /\ \A p \in T : NodeIn(d, T, p)

Members(s)  == {s[i] : i \in 1 .. Len(s)}
Distinct(s) == \A i, j \in 1 .. Len(s) : s[i] = s[j] => i = j
Lists(s, S) == Members(s) = S /\ Distinct(s)

\* The leaves are at the same height, 0.
Height(d, h, p) ==
  /\ d[p].leaf <=> h[p] = 0
  /\ \A q \in Members(d[p].kids) : h[q] + 1 = h[p]
HeightsBy(d, T, h) == h \in [T -> Nat] /\ \A p \in T : Height(d, h, p)

\* Each page but the root r is a child of one node, its parent, and once.
SlotsBy(d, r, T, P) ==
  /\ r \in T /\ P \in [T -> T \cup {0}]
  /\ \A q \in T : P[q] = 0 <=> q = r
  /\ \A p \in T : Lists(d[p].kids, {q \in T : P[q] = p})
Slots(d, r, T) == \E P : SlotsBy(d, r, T, P)

\* R[p] are the keys allowed below page p: the keys of a node are in order, and those
\* below a child are between the keys beside it.
Sorted(cells) == \A i, j \in 1 .. Len(cells) : i < j => cells[i].key <= cells[j].key
Between(cells, kids, R) ==
  \A i \in 1 .. Len(kids), j \in 1 .. Len(cells) : \A k \in R[kids[i]] :
    /\ i <= j => k <= cells[j].key
    /\ j < i => cells[j].key <= k
OrderedNode(d, R, p) ==
  /\ \A i \in 1 .. Len(d[p].cells) : d[p].cells[i].key \in R[p]
  /\ \A q \in Members(d[p].kids) : R[q] \subseteq R[p]
  /\ Sorted(d[p].cells) /\ Between(d[p].cells, d[p].kids, R)
OrderedBy(d, T, R) == R \in [T -> SUBSET Nat] /\ \A p \in T : OrderedNode(d, R, p)

\* The cells with a value in overflow pages name the pages of S, each once.
Firsts(cells)  == {cells[i].first : i \in {j \in 1 .. Len(cells) : IsOverflow(cells[j])}}
OneEach(cells) == \A i, j \in 1 .. Len(cells) :
  IsOverflow(cells[i]) /\ IsOverflow(cells[j]) /\ cells[i].first = cells[j].first => i = j
HeadsOf(cells, S) == Firsts(cells) = S /\ OneEach(cells)
HeadsBy(d, T, H, home) ==
  home \in [H -> T] /\ \A p \in T : HeadsOf(d[p].cells, {x \in H : home[x] = p})
Heads(d, T, H) == \E home : HeadsBy(d, T, H, home)

\* Two siblings and their key, or one node.

\* s2 is s with x at position n.
Inserted(s, s2, n, x) ==
  /\ n \in 1 .. Len(s2) /\ Len(s2) = Len(s) + 1 /\ s2[n] = x
  /\ \A j \in 1 .. Len(s2) : \/ j < n /\ j \in 1 .. Len(s) /\ s2[j] = s[j]
                             \/ j = n
                             \/ j > n /\ j - 1 \in 1 .. Len(s) /\ s2[j] = s[j - 1]
  /\ \A j \in 1 .. Len(s) : \/ j < n /\ j \in 1 .. Len(s2) /\ s2[j] = s[j]
                            \/ j >= n /\ j + 1 \in 1 .. Len(s2) /\ s2[j + 1] = s[j]

\* u is the beginning of s, up to m at most, and v what comes after the first m.
Cut(s, u, v, m) ==
  /\ Len(u) <= m /\ Len(s) = m + Len(v)
  /\ \A j \in 1 .. Len(u) : j \in 1 .. Len(s) /\ u[j] = s[j]
  /\ \A j \in 1 .. Len(v) : m + j \in 1 .. Len(s) /\ v[j] = s[m + j]
  /\ \A j \in 1 .. Len(s) : \/ j \in 1 .. Len(u) /\ u[j] = s[j]
                            \/ j > Len(u) /\ j <= m
                            \/ j > m /\ j - m \in 1 .. Len(v) /\ v[j - m] = s[j]

\* Child n of page p, the node at page a, of disk d1 is in disk d2 the nodes at a and z,
\* with the cell that came after its first t between them.
Parted(d1, d2, T, p, n, a, z, t) ==
  /\ p \in T /\ a \in T /\ p # a /\ z \notin T
  /\ \A q \in T \ {p, a} : d2[q] = d1[q]
  /\ d1[p].leaf = FALSE /\ d2[p].leaf = FALSE
  /\ n \in 1 .. Len(d1[p].kids) /\ d1[p].kids[n] = a /\ d2[p].kids[n] = a
  /\ d2[a].leaf = d1[a].leaf /\ d2[z].leaf = d1[a].leaf
  /\ t \in Nat /\ t + 1 \in 1 .. Len(d1[a].cells) /\ Len(d2[a].cells) = t
  /\ d2[p].cells[n] = d1[a].cells[t + 1]
  /\ Inserted(d1[p].cells, d2[p].cells, n, d1[a].cells[t + 1])
  /\ Inserted(d1[p].kids, d2[p].kids, n + 1, z)
  /\ Cut(d1[a].cells, d2[a].cells, d2[z].cells, t + 1)
  /\ Cut(d1[a].kids, d2[a].kids, d2[z].kids, Len(d2[a].kids))

\* The members of a sequence with one inserted.
LEMMA InsertedMembers ==
  ASSUME NEW s, NEW s2, NEW n, NEW x, Inserted(s, s2, n, x), Len(s) \in Nat
  PROVE  /\ Members(s2) = Members(s) \cup {x}
         /\ Distinct(s2) <=> Distinct(s) /\ x \notin Members(s)
<1>0. n \in Nat /\ Len(s2) \in Nat
  BY DEF Inserted
<1>1. ASSUME NEW i \in 1 .. Len(s2) PROVE s2[i] \in Members(s) \cup {x}
  BY <1>0 DEF Inserted, Members
<1>2. ASSUME NEW i \in 1 .. Len(s) PROVE s[i] \in Members(s2)
  BY <1>0 DEF Inserted, Members
<1>3. x \in Members(s2)
  BY DEF Inserted, Members
<1>4. Members(s2) = Members(s) \cup {x}
  BY <1>1, <1>2, <1>3 DEF Members
<1>5. ASSUME Distinct(s), x \notin Members(s) PROVE Distinct(s2)
  <2>1. \A j \in 1 .. Len(s) : s[j] # x
    BY <1>5 DEF Members
  <2> SUFFICES ASSUME NEW i \in 1 .. Len(s2), NEW j \in 1 .. Len(s2), s2[i] = s2[j] PROVE i = j
    BY DEF Distinct
  <2>2. \/ i < n /\ i \in 1 .. Len(s) /\ s2[i] = s[i]
        \/ i = n /\ s2[i] = x
        \/ i > n /\ i - 1 \in 1 .. Len(s) /\ s2[i] = s[i - 1]
    BY DEF Inserted
  <2>3. \/ j < n /\ j \in 1 .. Len(s) /\ s2[j] = s[j]
        \/ j = n /\ s2[j] = x
        \/ j > n /\ j - 1 \in 1 .. Len(s) /\ s2[j] = s[j - 1]
    BY DEF Inserted
  <2>4. \A k, l \in 1 .. Len(s) : s[k] = s[l] => k = l
    BY <1>5 DEF Distinct
  <2> QED
    BY <1>0, <2>1, <2>2, <2>3, <2>4
<1>6. ASSUME Distinct(s2) PROVE Distinct(s) /\ x \notin Members(s)
  <2>0. \A k, l \in 1 .. Len(s2) : s2[k] = s2[l] => k = l
    BY <1>6 DEF Distinct
  <2>1. ASSUME NEW i \in 1 .. Len(s), NEW j \in 1 .. Len(s), s[i] = s[j] PROVE i = j
    <3>2. \/ i < n /\ i \in 1 .. Len(s2) /\ s2[i] = s[i]
          \/ i >= n /\ i + 1 \in 1 .. Len(s2) /\ s2[i + 1] = s[i]
      BY DEF Inserted
    <3>3. \/ j < n /\ j \in 1 .. Len(s2) /\ s2[j] = s[j]
          \/ j >= n /\ j + 1 \in 1 .. Len(s2) /\ s2[j + 1] = s[j]
      BY DEF Inserted
    <3> QED
      BY <1>0, <2>0, <2>1, <3>2, <3>3
  <2>2. ASSUME NEW i \in 1 .. Len(s), s[i] = x PROVE FALSE
    <3>2. \/ i < n /\ i \in 1 .. Len(s2) /\ s2[i] = s[i]
          \/ i >= n /\ i + 1 \in 1 .. Len(s2) /\ s2[i + 1] = s[i]
      BY DEF Inserted
    <3>3. n \in 1 .. Len(s2) /\ s2[n] = x
      BY DEF Inserted
    <3> QED
      BY <1>0, <2>0, <2>2, <3>2, <3>3
  <2> QED
    BY <2>1, <2>2 DEF Distinct, Members
<1> QED
  BY <1>4, <1>5, <1>6

\* The members of a sequence cut in two.
LEMMA CutMembers ==
  ASSUME NEW s, NEW u, NEW v, Len(s) \in Nat, Len(u) \in Nat, Len(v) \in Nat, Cut(s, u, v, Len(u))
  PROVE  /\ Members(s) = Members(u) \cup Members(v)
         /\ Distinct(s) <=> Distinct(u) /\ Distinct(v) /\ Members(u) \cap Members(v) = {}
<1> DEFINE m == Len(u)
<1>0. /\ Len(s) = m + Len(v) /\ m \in Nat
      /\ \A j \in 1 .. m : j \in 1 .. Len(s) /\ u[j] = s[j]
      /\ \A j \in 1 .. Len(v) : m + j \in 1 .. Len(s) /\ v[j] = s[m + j]
      /\ \A j \in 1 .. Len(s) : \/ j \in 1 .. m /\ u[j] = s[j]
                                \/ j > m /\ j - m \in 1 .. Len(v) /\ v[j - m] = s[j]
  BY DEF Cut
<1> HIDE DEF m
<1>1. \A i \in 1 .. Len(s) : s[i] \in Members(u) \cup Members(v)
  BY <1>0 DEF Members, m
<1>2. \A i \in 1 .. m : u[i] \in Members(s)
  BY <1>0 DEF Members
<1>3. \A i \in 1 .. Len(v) : v[i] \in Members(s)
  BY <1>0 DEF Members
<1>4. Members(s) = Members(u) \cup Members(v)
  BY <1>1, <1>2, <1>3 DEF Members, m
<1>5. ASSUME Distinct(u), Distinct(v), Members(u) \cap Members(v) = {} PROVE Distinct(s)
  <2>1. \A i \in 1 .. m : \A j \in 1 .. Len(v) : u[i] # v[j]
    BY <1>5 DEF Members, m
  <2> SUFFICES ASSUME NEW i \in 1 .. Len(s), NEW j \in 1 .. Len(s), s[i] = s[j] PROVE i = j
    BY DEF Distinct
  <2>2. /\ \A k, l \in 1 .. m : u[k] = u[l] => k = l
        /\ \A k, l \in 1 .. Len(v) : v[k] = v[l] => k = l
    BY <1>5 DEF Distinct, m
  <2>3. \/ i \in 1 .. m /\ u[i] = s[i]
        \/ i > m /\ i - m \in 1 .. Len(v) /\ v[i - m] = s[i]
    BY <1>0
  <2>4. \/ j \in 1 .. m /\ u[j] = s[j]
        \/ j > m /\ j - m \in 1 .. Len(v) /\ v[j - m] = s[j]
    BY <1>0
  <2>5. i \in Nat /\ j \in Nat /\ m \in Nat
    BY <1>0
  <2>6. CASE i - m \in 1 .. Len(v) /\ j - m \in 1 .. Len(v) /\ v[i - m] = s[i] /\ v[j - m] = s[j]
    <3>1. i - m = j - m
      BY <2>2, <2>6
    <3> QED
      BY <2>5, <3>1
  <2> QED
    BY <2>1, <2>2, <2>3, <2>4, <2>6
<1>6. ASSUME Distinct(s) PROVE Distinct(u) /\ Distinct(v) /\ Members(u) \cap Members(v) = {}
  <2>0. \A k, l \in 1 .. Len(s) : s[k] = s[l] => k = l
    BY <1>6 DEF Distinct
  <2>1. ASSUME NEW i \in 1 .. m, NEW j \in 1 .. m, u[i] = u[j] PROVE i = j
    BY <1>0, <2>0, <2>1
  <2>2. ASSUME NEW i \in 1 .. Len(v), NEW j \in 1 .. Len(v), v[i] = v[j] PROVE i = j
    <3>1. m + i \in 1 .. Len(s) /\ m + j \in 1 .. Len(s) /\ s[m + i] = s[m + j]
      BY <1>0, <2>2
    <3>2. m + i = m + j
      BY <2>0, <3>1
    <3> QED
      BY <1>0, <3>2
  <2>3. ASSUME NEW i \in 1 .. m, NEW j \in 1 .. Len(v), u[i] = v[j] PROVE FALSE
    <3>1. i \in 1 .. Len(s) /\ m + j \in 1 .. Len(s) /\ s[i] = s[m + j]
      BY <1>0, <2>3
    <3>2. i = m + j
      BY <2>0, <3>1
    <3> QED
      BY <1>0, <3>2
  <2> QED
    BY <2>1, <2>2, <2>3 DEF Distinct, Members, m
<1> QED
  BY <1>4, <1>5, <1>6

\* Lengths are numbers.
LEMMA NodeLens ==
  ASSUME NEW d, NEW T, Nodes(d, T)
  PROVE  \A q \in T : /\ Len(d[q].kids) \in Nat /\ Len(d[q].cells) \in Nat
                      /\ Members(d[q].kids) \subseteq T
                      /\ \A i \in 1 .. Len(d[q].kids) : d[q].kids[i] \in T
                      /\ \A i \in 1 .. Len(d[q].cells) : d[q].cells[i] \in CellSet
                      /\ d[q].leaf => Len(d[q].kids) = 0
                      /\ ~d[q].leaf => Len(d[q].kids) = Len(d[q].cells) + 1
<1>1. ASSUME NEW q \in T
      PROVE  /\ d[q].kids \in Seq(T) /\ d[q].cells \in Seq(CellSet)
             /\ Len(d[q].kids) = IF d[q].leaf THEN 0 ELSE Len(d[q].cells) + 1
  BY DEF Nodes, NodeIn
<1> QED
  BY <1>1 DEF Members

\* The children before and after.
PartedTree(d1, d2, T, p, a, z) ==
  /\ p \in T /\ a \in T /\ z \notin T /\ p # a /\ 0 \notin T \cup {z}
  /\ Members(d2[p].kids) = Members(d1[p].kids) \cup {z}
  /\ Members(d1[a].kids) = Members(d2[a].kids) \cup Members(d2[z].kids)
  /\ a \in Members(d1[p].kids) /\ a \in Members(d2[p].kids)
  /\ Distinct(d2[p].kids) <=> Distinct(d1[p].kids)
  /\ Distinct(d1[a].kids) <=> /\ Distinct(d2[a].kids) /\ Distinct(d2[z].kids)
                              /\ Members(d2[a].kids) \cap Members(d2[z].kids) = {}

\* The children are divided as PartedTree says.
LEMMA PartedKids ==
  ASSUME NEW d1, NEW d2, NEW T, NEW p, NEW n, NEW a, NEW z, NEW t,
         Parted(d1, d2, T, p, n, a, z, t), Nodes(d1, T), Nodes(d2, T \cup {z})
  PROVE  PartedTree(d1, d2, T, p, a, z)
<1>1. /\ Inserted(d1[p].kids, d2[p].kids, n + 1, z) /\ d1[p].kids[n] = a /\ n \in 1 .. Len(d1[p].kids)
      /\ Cut(d1[a].kids, d2[a].kids, d2[z].kids, Len(d2[a].kids))
      /\ Len(d1[p].kids) \in Nat /\ Len(d2[p].kids) \in Nat /\ Len(d1[a].kids) \in Nat
      /\ Len(d2[a].kids) \in Nat /\ Len(d2[z].kids) \in Nat
      /\ Members(d1[p].kids) \subseteq T /\ p \in T /\ a \in T /\ z \notin T /\ p # a
  BY NodeLens DEF Parted
<1>2. /\ Members(d2[p].kids) = Members(d1[p].kids) \cup {z}
      /\ Distinct(d2[p].kids) <=> Distinct(d1[p].kids) /\ z \notin Members(d1[p].kids)
  BY <1>1, InsertedMembers
<1>3. /\ Members(d1[a].kids) = Members(d2[a].kids) \cup Members(d2[z].kids)
      /\ Distinct(d1[a].kids) <=> /\ Distinct(d2[a].kids) /\ Distinct(d2[z].kids)
                                  /\ Members(d2[a].kids) \cap Members(d2[z].kids) = {}
  BY <1>1, CutMembers
<1>4. a \in Members(d1[p].kids)
  BY <1>1 DEF Members
<1>5. 0 \notin T \cup {z}
  BY DEF Nodes, DataPages
<1> QED
  BY <1>1, <1>2, <1>3, <1>4, <1>5 DEF PartedTree

\* Parting a node keeps the heights.
LEMMA PartedHeights ==
  ASSUME NEW d1, NEW d2, NEW T, NEW p, NEW n, NEW a, NEW z, NEW t,
         Parted(d1, d2, T, p, n, a, z, t), Nodes(d1, T), Nodes(d2, T \cup {z}),
         NEW h, HeightsBy(d1, T, h)
  PROVE  HeightsBy(d2, T \cup {z}, [q \in T \cup {z} |-> IF q = z THEN h[a] ELSE h[q]])
<1>0. PartedTree(d1, d2, T, p, a, z)
  BY PartedKids
<1> DEFINE g == [q \in T \cup {z} |-> IF q = z THEN h[a] ELSE h[q]]
<1>1. /\ p \in T /\ a \in T /\ z \notin T /\ p # a
      /\ Members(d2[p].kids) = Members(d1[p].kids) \cup {z}
      /\ Members(d1[a].kids) = Members(d2[a].kids) \cup Members(d2[z].kids)
      /\ a \in Members(d1[p].kids)
  BY <1>0 DEF PartedTree
<1>2. h \in [T -> Nat] /\ \A q \in T : Height(d1, h, q)
  BY DEF HeightsBy
<1>3. g \in [T \cup {z} -> Nat] /\ g[z] = h[a] /\ \A q \in T : g[q] = h[q]
  BY <1>1, <1>2
<1>4. \A q \in T : Members(d1[q].kids) \subseteq T
  BY NodeLens
<1> HIDE DEF g
<1>5. ASSUME NEW x \in T PROVE \A q \in Members(d1[x].kids) : g[q] + 1 = g[x]
  BY <1>2, <1>3, <1>4 DEF Height
<1>7. ASSUME NEW q \in T \cup {z} PROVE Height(d2, g, q)
  <2>1. CASE q \in T \ {p, a}
    <3>1. d2[q] = d1[q] /\ Height(d1, h, q)
      BY <1>2, <2>1 DEF Parted
    <3> QED
      BY <1>3, <1>5, <2>1, <3>1 DEF Height
  <2>2. CASE q = p
    <3>2. \A x \in Members(d2[p].kids) : g[x] + 1 = g[p]
      BY <1>1, <1>3, <1>5
    <3>3. d2[p].leaf <=> g[p] = 0
      BY <1>1, <1>2, <1>3 DEF Height, Parted
    <3> QED
      BY <2>2, <3>2, <3>3 DEF Height
  <2>3. CASE q = a
    <3>1. \A x \in Members(d2[a].kids) : g[x] + 1 = g[a]
      BY <1>1, <1>5
    <3>2. d2[a].leaf <=> g[a] = 0
      BY <1>1, <1>2, <1>3 DEF Height, Parted
    <3> QED
      BY <2>3, <3>1, <3>2 DEF Height
  <2>4. CASE q = z
    <3>1. \A x \in Members(d2[z].kids) : g[x] + 1 = g[z]
      BY <1>1, <1>3, <1>5
    <3>2. d2[z].leaf <=> g[z] = 0
      BY <1>1, <1>2, <1>3 DEF Height, Parted
    <3> QED
      BY <2>4, <3>1, <3>2 DEF Height
  <2> QED
    BY <2>1, <2>2, <2>3, <2>4
<1> QED
  BY <1>3, <1>7 DEF HeightsBy, g

\* Joining two siblings keeps the heights.
LEMMA JoinedHeights ==
  ASSUME NEW d1, NEW d2, NEW T, NEW p, NEW n, NEW a, NEW z, NEW t,
         Parted(d1, d2, T, p, n, a, z, t), Nodes(d1, T), Nodes(d2, T \cup {z}),
         NEW h, HeightsBy(d2, T \cup {z}, h)
  PROVE  HeightsBy(d1, T, [q \in T |-> h[q]])
<1>0. PartedTree(d1, d2, T, p, a, z)
  BY PartedKids
<1> DEFINE g == [q \in T |-> h[q]]
<1>1. /\ p \in T /\ a \in T /\ z \notin T /\ p # a
      /\ Members(d2[p].kids) = Members(d1[p].kids) \cup {z}
      /\ Members(d1[a].kids) = Members(d2[a].kids) \cup Members(d2[z].kids)
      /\ a \in Members(d2[p].kids)
  BY <1>0 DEF PartedTree
<1>2. h \in [T \cup {z} -> Nat] /\ \A q \in T \cup {z} : Height(d2, h, q)
  BY DEF HeightsBy
<1>3. g \in [T -> Nat] /\ \A q \in T : g[q] = h[q]
  BY <1>2
<1>4. \A q \in T : Members(d1[q].kids) \subseteq T
  BY NodeLens
<1> HIDE DEF g
<1>5. \A x \in T \cup {z} : \A q \in Members(d2[x].kids) : h[q] + 1 = h[x]
  BY <1>2 DEF Height
<1>6. h[z] = h[a]
  <2>2. h[a] + 1 = h[p] /\ h[z] + 1 = h[p] /\ h[a] \in Nat /\ h[z] \in Nat /\ h[p] \in Nat
    BY <1>1, <1>2, <1>5
  <2> QED
    BY <2>2
<1>7. ASSUME NEW q \in T PROVE Height(d1, g, q)
  <2>1. CASE q \in T \ {p, a}
    <3>1. d2[q] = d1[q] /\ Height(d2, h, q)
      BY <1>2, <2>1 DEF Parted
    <3> QED
      BY <1>3, <1>4, <2>1, <3>1 DEF Height
  <2>2. CASE q = p
    <3>2. \A x \in Members(d1[p].kids) : g[x] + 1 = g[p]
      BY <1>1, <1>3, <1>4, <1>5
    <3>3. d1[p].leaf <=> g[p] = 0
      BY <1>1, <1>2, <1>3 DEF Height, Parted
    <3> QED
      BY <2>2, <3>2, <3>3 DEF Height
  <2>3. CASE q = a
    <3>1. \A x \in Members(d1[a].kids) : h[x] + 1 = h[a]
      BY <1>1, <1>5, <1>6
    <3>2. \A x \in Members(d1[a].kids) : g[x] + 1 = g[a]
      BY <1>1, <1>3, <1>4, <3>1
    <3>3. d1[a].leaf <=> g[a] = 0
      BY <1>1, <1>2, <1>3 DEF Height, Parted
    <3> QED
      BY <2>3, <3>2, <3>3 DEF Height
  <2> QED
    BY <2>1, <2>2, <2>3
<1> QED
  BY <1>3, <1>7 DEF HeightsBy, g

\* Parting a node: its right children get a new parent.
LEMMA PartedSlots ==
  ASSUME NEW d1, NEW d2, NEW r, NEW T, NEW p, NEW n, NEW a, NEW z, NEW t,
         Parted(d1, d2, T, p, n, a, z, t), Nodes(d1, T), Nodes(d2, T \cup {z}), Slots(d1, r, T)
  PROVE  Slots(d2, r, T \cup {z})
<1>0. PartedTree(d1, d2, T, p, a, z)
  BY PartedKids
<1>1. PICK P : SlotsBy(d1, r, T, P)
  BY DEF Slots
<1> DEFINE K == Members(d2[z].kids)
           Q == [q \in T \cup {z} |-> IF q = z THEN p ELSE IF q \in K THEN z ELSE P[q]]
<1>2. /\ r \in T /\ P \in [T -> T \cup {0}]
      /\ \A q \in T : P[q] = 0 <=> q = r
      /\ \A x \in T : Members(d1[x].kids) = {q \in T : P[q] = x} /\ Distinct(d1[x].kids)
  BY <1>1 DEF SlotsBy, Lists
<1>3. /\ p \in T /\ a \in T /\ z \notin T /\ p # a /\ 0 \notin T \cup {z}
      /\ Members(d2[p].kids) = Members(d1[p].kids) \cup {z}
      /\ Members(d1[a].kids) = Members(d2[a].kids) \cup K
      /\ Distinct(d2[p].kids)
      /\ Distinct(d2[a].kids) /\ Distinct(d2[z].kids) /\ Members(d2[a].kids) \cap K = {}
  BY <1>0, <1>2 DEF PartedTree, K
<1>4. \A q \in K : q \in T /\ P[q] = a
  BY <1>2, <1>3
<1> HIDE DEF K
<1>5. /\ Q \in [T \cup {z} -> (T \cup {z}) \cup {0}]
      /\ Q[z] = p /\ \A q \in T : Q[q] = IF q \in K THEN z ELSE P[q]
  BY <1>2, <1>3
<1> HIDE DEF Q
<1>9. \A q \in T \cup {z} : Q[q] = 0 <=> q = r
  BY <1>2, <1>3, <1>4, <1>5
<1>10. ASSUME NEW x \in T \cup {z} PROVE Lists(d2[x].kids, {q \in T \cup {z} : Q[q] = x})
  <2>1. CASE x \in T \ {p, a}
    <3>1. d2[x] = d1[x] /\ Members(d1[x].kids) = {q \in T : P[q] = x} /\ Distinct(d1[x].kids)
      BY <1>2, <2>1 DEF Parted
    <3>2. {q \in T \cup {z} : Q[q] = x} = {q \in T : P[q] = x}
      BY <1>2, <1>3, <1>4, <1>5, <2>1
    <3> QED
      BY <3>1, <3>2 DEF Lists
  <2>2. CASE x = p
    <3>1. {q \in T \cup {z} : Q[q] = p} = {q \in T : P[q] = p} \cup {z}
      BY <1>2, <1>3, <1>4, <1>5
    <3> QED
      BY <1>2, <1>3, <2>2, <3>1 DEF Lists
  <2>3. CASE x = a
    <3>1. {q \in T \cup {z} : Q[q] = a} = {q \in T : P[q] = a} \ K
      BY <1>2, <1>3, <1>4, <1>5
    <3> QED
      BY <1>2, <1>3, <2>3, <3>1 DEF Lists
  <2>4. CASE x = z
    <3>1. {q \in T \cup {z} : Q[q] = z} = K
      BY <1>2, <1>3, <1>4, <1>5
    <3> QED
      BY <1>3, <2>4, <3>1 DEF Lists, K
  <2> QED
    BY <2>1, <2>2, <2>3, <2>4
<1>11. SlotsBy(d2, r, T \cup {z}, Q)
  BY <1>2, <1>5, <1>9, <1>10 DEF SlotsBy
<1> QED
  BY <1>11 DEF Slots

\* Joining two siblings: the children of the right one get the left one as their parent.
LEMMA JoinedSlots ==
  ASSUME NEW d1, NEW d2, NEW r, NEW T, NEW p, NEW n, NEW a, NEW z, NEW t,
         Parted(d1, d2, T, p, n, a, z, t), Nodes(d1, T), Nodes(d2, T \cup {z}), Slots(d2, r, T \cup {z})
  PROVE  Slots(d1, r, T)
<1>0. PartedTree(d1, d2, T, p, a, z)
  BY PartedKids
<1>1. PICK P : SlotsBy(d2, r, T \cup {z}, P)
  BY DEF Slots
<1> DEFINE Q == [q \in T |-> IF P[q] = z THEN a ELSE P[q]]
<1>2. /\ r \in T \cup {z} /\ P \in [T \cup {z} -> (T \cup {z}) \cup {0}]
      /\ \A q \in T \cup {z} : P[q] = 0 <=> q = r
      /\ \A x \in T \cup {z} : Members(d2[x].kids) = {q \in T \cup {z} : P[q] = x} /\ Distinct(d2[x].kids)
  BY <1>1 DEF SlotsBy, Lists
<1>3. /\ p \in T /\ a \in T /\ z \notin T /\ p # a /\ 0 \notin T \cup {z}
      /\ Members(d2[p].kids) = Members(d1[p].kids) \cup {z}
      /\ Members(d1[a].kids) = Members(d2[a].kids) \cup Members(d2[z].kids)
      /\ Distinct(d2[p].kids) <=> Distinct(d1[p].kids)
      /\ Distinct(d1[a].kids) <=> /\ Distinct(d2[a].kids) /\ Distinct(d2[z].kids)
                                  /\ Members(d2[a].kids) \cap Members(d2[z].kids) = {}
  BY <1>0 DEF PartedTree
<1>4. \A x \in T : Members(d1[x].kids) \subseteq T
  BY NodeLens
<1>6. P[z] = p
  BY <1>2, <1>3
<1>7. r \in T
  BY <1>2, <1>3, <1>6
<1>8. Q \in [T -> T \cup {0}] /\ \A q \in T : Q[q] = IF P[q] = z THEN a ELSE P[q]
  BY <1>2, <1>3
<1> HIDE DEF Q
<1>9. \A q \in T : Q[q] = 0 <=> q = r
  BY <1>2, <1>3, <1>8
<1>10. ASSUME NEW x \in T PROVE Lists(d1[x].kids, {q \in T : Q[q] = x})
  <2>1. CASE x \in T \ {p, a}
    <3>1. d2[x] = d1[x] /\ Members(d2[x].kids) = {q \in T \cup {z} : P[q] = x} /\ Distinct(d2[x].kids)
      BY <1>2, <2>1 DEF Parted
    <3>2. {q \in T \cup {z} : P[q] = x} = {q \in T : Q[q] = x}
      BY <1>2, <1>3, <1>6, <1>8, <2>1
    <3> QED
      BY <3>1, <3>2 DEF Lists
  <2>2. CASE x = p
    <3>1. {q \in T : Q[q] = p} = {q \in T \cup {z} : P[q] = p} \ {z}
      BY <1>2, <1>3, <1>8
    <3> QED
      BY <1>2, <1>3, <1>4, <2>2, <3>1 DEF Lists
  <2>3. CASE x = a
    <3>1. {q \in T : Q[q] = a} = {q \in T \cup {z} : P[q] = a} \cup {q \in T \cup {z} : P[q] = z}
      BY <1>2, <1>3, <1>6, <1>8
    <3> QED
      BY <1>2, <1>3, <2>3, <3>1 DEF Lists
  <2> QED
    BY <2>1, <2>2, <2>3
<1>11. SlotsBy(d1, r, T, Q)
  BY <1>2, <1>7, <1>8, <1>9, <1>10 DEF SlotsBy
<1> QED
  BY <1>11 DEF Slots

\* A cell comes between the cells of a node, and a child after the one that held it.
Spread(c1, c2, k1, k2, n, x, z, R, R2) ==
  /\ n \in Nat
  /\ Len(c1) \in Nat
  /\ Len(k1) = Len(c1) + 1
  /\ n \in 1 .. Len(k1)
  /\ Inserted(c1, c2, n, x)
  /\ Inserted(k1, k2, n + 1, z)
  /\ x.key \in Nat
  /\ \A i \in 1 .. Len(c1) : c1[i].key \in Nat
  /\ \A i \in 1 .. Len(k1) : R[k1[i]] \subseteq Nat
  /\ Sorted(c1)
  /\ Between(c1, k1, R)
  /\ x.key \in R[k1[n]]
  /\ \A i \in 1 .. Len(k1) : R2[k1[i]] \subseteq R[k1[i]]
  /\ \A k \in R2[k1[n]] : k <= x.key
  /\ \A k \in R2[z] : k \in R[k1[n]] /\ x.key <= k

\* A cell is put between the cells of a node, and a child after the one that held it: the
\* children stay between the cells beside them.
LEMMA SpreadOrder ==
  ASSUME NEW c1, NEW c2, NEW k1, NEW k2, NEW n, NEW x, NEW z, NEW R, NEW R2,
         Spread(c1, c2, k1, k2, n, x, z, R, R2)
  PROVE  Sorted(c2) /\ Between(c2, k2, R2)
<1>0. /\ n \in Nat
      /\ Len(c1) \in Nat
      /\ Len(k1) = Len(c1) + 1
      /\ n \in 1 .. Len(k1)
      /\ Inserted(c1, c2, n, x)
      /\ Inserted(k1, k2, n + 1, z)
      /\ x.key \in Nat
      /\ \A i \in 1 .. Len(c1) : c1[i].key \in Nat
      /\ \A i \in 1 .. Len(k1) : R[k1[i]] \subseteq Nat
      /\ Sorted(c1)
      /\ Between(c1, k1, R)
      /\ x.key \in R[k1[n]]
      /\ \A i \in 1 .. Len(k1) : R2[k1[i]] \subseteq R[k1[i]]
      /\ \A k \in R2[k1[n]] : k <= x.key
      /\ \A k \in R2[z] : k \in R[k1[n]] /\ x.key <= k
  BY DEF Spread
<1> USE <1>0
<1>1. /\ \A j \in 1 .. Len(c1) : j < n => c1[j].key <= x.key
      /\ \A j \in 1 .. Len(c1) : n <= j => x.key <= c1[j].key
  BY DEF Between
<1>2. ASSUME NEW j \in 1 .. Len(c2)
      PROVE  \/ j < n /\ j \in 1 .. Len(c1) /\ c2[j] = c1[j]
             \/ j = n /\ c2[j] = x
             \/ j > n /\ j - 1 \in 1 .. Len(c1) /\ c2[j] = c1[j - 1]
  BY DEF Inserted
<1>3. Len(c2) = Len(c1) + 1 /\ Len(k2) = Len(k1) + 1
  BY DEF Inserted
<1>4. Sorted(c2)
  <2> SUFFICES ASSUME NEW i \in 1 .. Len(c2), NEW j \in 1 .. Len(c2), i < j PROVE c2[i].key <= c2[j].key
    BY DEF Sorted
  <2>1. /\ \/ i < n /\ i \in 1 .. Len(c1) /\ c2[i] = c1[i]
           \/ i = n /\ c2[i] = x
           \/ i > n /\ i - 1 \in 1 .. Len(c1) /\ c2[i] = c1[i - 1]
        /\ \/ j < n /\ j \in 1 .. Len(c1) /\ c2[j] = c1[j]
           \/ j = n /\ c2[j] = x
           \/ j > n /\ j - 1 \in 1 .. Len(c1) /\ c2[j] = c1[j - 1]
    BY <1>2
  <2>2. \A k, l \in 1 .. Len(c1) : k < l => c1[k].key <= c1[l].key
    BY DEF Sorted
  <2>3. /\ i \in Nat /\ j \in Nat /\ i - 1 < j - 1
        /\ j > n => n <= j - 1 /\ (i < n => i < j - 1)
    BY <1>3
  <2>4. CASE i < n /\ i \in 1 .. Len(c1) /\ c2[i] = c1[i]
    BY <1>1, <2>1, <2>2, <2>3, <2>4
  <2>5. CASE i = n /\ c2[i] = x
    BY <1>1, <2>1, <2>3, <2>5
  <2>6. CASE i > n /\ i - 1 \in 1 .. Len(c1) /\ c2[i] = c1[i - 1]
    <3>1. j > n
      BY <2>3, <2>6
    <3>2. PICK g, m : g = i - 1 /\ m = j - 1
      OBVIOUS
    <3>3. /\ g \in 1 .. Len(c1) /\ c2[i] = c1[g] /\ m \in 1 .. Len(c1) /\ c2[j] = c1[m]
          /\ g < m
      BY <2>1, <2>3, <2>6, <3>1, <3>2
    <3> QED
      BY <2>2, <3>3
  <2> QED
    BY <2>1, <2>4, <2>5, <2>6
<1>5. Between(c2, k2, R2)
  <2> SUFFICES ASSUME NEW i \in 1 .. Len(k2), NEW j \in 1 .. Len(c2), NEW k \in R2[k2[i]]
               PROVE  (i <= j => k <= c2[j].key) /\ (j < i => c2[j].key <= k)
    BY DEF Between
  <2>1. /\ \/ i < n + 1 /\ i \in 1 .. Len(k1) /\ k2[i] = k1[i]
           \/ i = n + 1 /\ k2[i] = z
           \/ i > n + 1 /\ i - 1 \in 1 .. Len(k1) /\ k2[i] = k1[i - 1]
        /\ \/ j < n /\ j \in 1 .. Len(c1) /\ c2[j] = c1[j]
           \/ j = n /\ c2[j] = x
           \/ j > n /\ j - 1 \in 1 .. Len(c1) /\ c2[j] = c1[j - 1]
    <3>1. \/ i < n + 1 /\ i \in 1 .. Len(k1) /\ k2[i] = k1[i]
          \/ i = n + 1 /\ k2[i] = z
          \/ i > n + 1 /\ i - 1 \in 1 .. Len(k1) /\ k2[i] = k1[i - 1]
      BY DEF Inserted
    <3> QED
      BY <1>2, <3>1
  <2>2. \A l \in 1 .. Len(k1), o \in 1 .. Len(c1) : \A y \in R[k1[l]] :
          (l <= o => y <= c1[o].key) /\ (o < l => c1[o].key <= y)
    BY DEF Between
  <2>3. i \in Nat /\ j \in Nat
    BY <1>3
  <2>4. CASE i < n + 1 /\ i \in 1 .. Len(k1) /\ k2[i] = k1[i]
    <3>1. k \in R[k1[i]] /\ k \in Nat
      BY <2>4
    <3>2. CASE j = n /\ c2[j] = x
      <4>1. CASE i = n
        BY <2>4, <3>2, <4>1
      <4>2. CASE i < n
        <5>1. n - 1 \in 1 .. Len(c1) /\ i <= n - 1 /\ n - 1 < n
          BY <2>3, <2>4, <4>2, SMTT(30)
        <5>2. k <= c1[n - 1].key /\ c1[n - 1].key <= x.key
          BY <1>1, <2>2, <2>4, <3>1, <5>1
        <5> QED
          BY <2>3, <3>1, <3>2, <4>2, <5>1, <5>2, SMTT(60)
      <4> QED
        BY <2>3, <2>4, <4>1, <4>2
    <3>3. CASE j < n /\ j \in 1 .. Len(c1) /\ c2[j] = c1[j]
      BY <2>2, <2>4, <3>1, <3>3
    <3>4. CASE j > n /\ j - 1 \in 1 .. Len(c1) /\ c2[j] = c1[j - 1]
      <4>1. PICK m : m = j - 1
        OBVIOUS
      <4>2. m \in 1 .. Len(c1) /\ c2[j] = c1[m] /\ i <= m /\ ~(j < i)
        BY <2>3, <2>4, <3>4, <4>1
      <4>3. i \in 1 .. Len(k1) /\ k \in R[k1[i]]
        BY <2>4, <3>1
      <4>4. k <= c1[m].key
        BY <2>2, <4>2, <4>3
      <4> QED
        BY <4>2, <4>4
    <3> QED
      BY <2>1, <3>2, <3>3, <3>4
  <2>5. CASE i = n + 1 /\ k2[i] = z
    <3>1. k \in R[k1[n]] /\ k \in Nat /\ x.key <= k
      BY <2>5
    <3>3. CASE j < n /\ j \in 1 .. Len(c1) /\ c2[j] = c1[j]
      BY <2>2, <2>5, <3>1, <3>3
    <3>4. CASE j > n /\ j - 1 \in 1 .. Len(c1) /\ c2[j] = c1[j - 1]
      <4>1. PICK m : m = j - 1
        OBVIOUS
      <4>2. m \in 1 .. Len(c1) /\ c2[j] = c1[m] /\ n <= m /\ ~(j < i)
        BY <2>3, <2>5, <3>4, <4>1
      <4>3. n \in 1 .. Len(k1) /\ k \in R[k1[n]]
        BY <2>5, <3>1
      <4>4. k <= c1[m].key
        BY <2>2, <4>2, <4>3
      <4> QED
        BY <4>2, <4>4
    <3> QED
      BY <2>1, <2>3, <2>5, <3>1, <3>3, <3>4
  <2>6. CASE i > n + 1 /\ i - 1 \in 1 .. Len(k1) /\ k2[i] = k1[i - 1]
    <3>1. k \in R[k1[i - 1]] /\ k \in Nat
      BY <2>6
    <3>2. CASE j = n /\ c2[j] = x
      <4>1. n \in 1 .. Len(c1) /\ n < i - 1
        BY <2>3, <2>6
      <4>2. c1[n].key <= k /\ x.key <= c1[n].key
        <5>1. c1[n].key <= k
          BY <2>2, <2>6, <3>1, <4>1
        <5>2. n <= n
          OBVIOUS
        <5>3. x.key <= c1[n].key
          BY <1>1, <4>1, <5>2
        <5> QED
          BY <5>1, <5>3
      <4> QED
        BY <2>3, <2>6, <3>1, <3>2, <4>1, <4>2
    <3>3. CASE j < n /\ j \in 1 .. Len(c1) /\ c2[j] = c1[j]
      <4>1. j < i - 1 /\ ~(i <= j)
        BY <2>3, <2>6, <3>3
      <4> QED
        BY <2>2, <2>6, <3>1, <3>3, <4>1
    <3>4. CASE j > n /\ j - 1 \in 1 .. Len(c1) /\ c2[j] = c1[j - 1]
      <4>1. /\ i - 1 <= j - 1 => k <= c1[j - 1].key
            /\ j - 1 < i - 1 => c1[j - 1].key <= k
        BY <2>2, <2>6, <3>1, <3>4
      <4> QED
        BY <2>3, <3>4, <4>1
    <3> QED
      BY <2>1, <3>2, <3>3, <3>4
  <2> QED
    BY <2>1, <2>4, <2>5, <2>6
<1> QED
  BY <1>4, <1>5

\* A cell and the child after it leave a node: the child before takes the keys.
Narrowed(c1, c2, k1, k2, n, x, z, R, R2) ==
  /\ n \in Nat
  /\ Len(c1) \in Nat
  /\ Len(k1) = Len(c1) + 1
  /\ n \in 1 .. Len(k1)
  /\ Inserted(c1, c2, n, x)
  /\ Inserted(k1, k2, n + 1, z)
  /\ x.key \in Nat
  /\ Sorted(c2)
  /\ Between(c2, k2, R2)
  /\ \A i \in 1 .. Len(k1) : i # n => R[k1[i]] \subseteq R2[k1[i]]
  /\ \A k \in R[k1[n]] : k \in R2[k1[n]] \/ k \in R2[z] \/ k = x.key

\* A cell and the child after it are taken out of a node: the child before takes the keys.
LEMMA NarrowOrder ==
  ASSUME NEW c1, NEW c2, NEW k1, NEW k2, NEW n, NEW x, NEW z, NEW R, NEW R2,
         Narrowed(c1, c2, k1, k2, n, x, z, R, R2)
  PROVE  Sorted(c1) /\ Between(c1, k1, R)
<1>0. /\ n \in Nat
      /\ Len(c1) \in Nat
      /\ Len(k1) = Len(c1) + 1
      /\ n \in 1 .. Len(k1)
      /\ Inserted(c1, c2, n, x)
      /\ Inserted(k1, k2, n + 1, z)
      /\ x.key \in Nat
      /\ Sorted(c2)
      /\ Between(c2, k2, R2)
      /\ \A i \in 1 .. Len(k1) : i # n => R[k1[i]] \subseteq R2[k1[i]]
      /\ \A k \in R[k1[n]] : k \in R2[k1[n]] \/ k \in R2[z] \/ k = x.key
  BY DEF Narrowed
<1> USE <1>0
<1>2. ASSUME NEW j \in 1 .. Len(c1)
      PROVE  \/ j < n /\ j \in 1 .. Len(c2) /\ c2[j] = c1[j]
             \/ j >= n /\ j + 1 \in 1 .. Len(c2) /\ c2[j + 1] = c1[j]
  BY DEF Inserted
<1>3. /\ Len(c2) = Len(c1) + 1 /\ Len(k2) = Len(k1) + 1
      /\ n \in 1 .. Len(c2) /\ c2[n] = x /\ n + 1 \in 1 .. Len(k2) /\ k2[n + 1] = z
  BY DEF Inserted
<1>4. \A k, l \in 1 .. Len(c2) : k < l => c2[k].key <= c2[l].key
  BY DEF Sorted
<1>5. Sorted(c1)
  <2> SUFFICES ASSUME NEW i \in 1 .. Len(c1), NEW j \in 1 .. Len(c1), i < j PROVE c1[i].key <= c1[j].key
    BY DEF Sorted
  <2>1. /\ \/ i < n /\ i \in 1 .. Len(c2) /\ c2[i] = c1[i]
           \/ i >= n /\ i + 1 \in 1 .. Len(c2) /\ c2[i + 1] = c1[i]
        /\ \/ j < n /\ j \in 1 .. Len(c2) /\ c2[j] = c1[j]
           \/ j >= n /\ j + 1 \in 1 .. Len(c2) /\ c2[j + 1] = c1[j]
    BY <1>2
  <2>2. i < j + 1 /\ i + 1 < j + 1
    OBVIOUS
  <2> QED
    BY <1>4, <2>1, <2>2
<1>6. Between(c1, k1, R)
  <2> SUFFICES ASSUME NEW i \in 1 .. Len(k1), NEW j \in 1 .. Len(c1), NEW k \in R[k1[i]]
               PROVE  (i <= j => k <= c1[j].key) /\ (j < i => c1[j].key <= k)
    BY DEF Between
  <2>1. /\ \/ i < n + 1 /\ i \in 1 .. Len(k2) /\ k2[i] = k1[i]
           \/ i >= n + 1 /\ i + 1 \in 1 .. Len(k2) /\ k2[i + 1] = k1[i]
        /\ \/ j < n /\ j \in 1 .. Len(c2) /\ c2[j] = c1[j]
           \/ j >= n /\ j + 1 \in 1 .. Len(c2) /\ c2[j + 1] = c1[j]
    BY <1>2 DEF Inserted
  <2>2. \A l \in 1 .. Len(k2), o \in 1 .. Len(c2) : \A y \in R2[k2[l]] :
          (l <= o => y <= c2[o].key) /\ (o < l => c2[o].key <= y)
    BY DEF Between
  <2>3. CASE i < n
    <3>1. i \in 1 .. Len(k2) /\ k2[i] = k1[i] /\ k \in R2[k2[i]]
      BY <2>1, <2>3
    <3>2. CASE j < n /\ j \in 1 .. Len(c2) /\ c2[j] = c1[j]
      BY <2>2, <3>1, <3>2
    <3>3. CASE j >= n /\ j + 1 \in 1 .. Len(c2) /\ c2[j + 1] = c1[j]
      <4>1. i <= j + 1 /\ ~(j < i)
        BY <2>3, <3>3
      <4> QED
        BY <2>2, <3>1, <3>3, <4>1
    <3> QED
      BY <2>1, <3>2, <3>3
  <2>4. CASE i > n
    <3>1. i + 1 \in 1 .. Len(k2) /\ k2[i + 1] = k1[i] /\ k \in R2[k2[i + 1]]
      BY <2>1, <2>4
    <3>2. CASE j < n /\ j \in 1 .. Len(c2) /\ c2[j] = c1[j]
      <4>1. j < i + 1 /\ ~(i <= j)
        BY <2>4, <3>2
      <4> QED
        BY <2>2, <3>1, <3>2, <4>1
    <3>3. CASE j >= n /\ j + 1 \in 1 .. Len(c2) /\ c2[j + 1] = c1[j]
      <4>1. (i <= j <=> i + 1 <= j + 1) /\ (j < i <=> j + 1 < i + 1)
        OBVIOUS
      <4> QED
        BY <2>2, <3>1, <3>3, <4>1
    <3> QED
      BY <2>1, <3>2, <3>3
  <2>5. CASE i = n
    <3>1. i \in 1 .. Len(k2) /\ k2[i] = k1[i]
      BY <2>1, <2>5
    <3>2. CASE j < n /\ j \in 1 .. Len(c2) /\ c2[j] = c1[j]
      <4>1. j < n /\ j < n + 1 /\ ~(i <= j)
        BY <2>5, <3>2
      <4>2. c2[j].key <= x.key
        BY <1>3, <1>4, <3>2, <4>1
      <4>3. \A y \in R2[k1[n]] : c2[j].key <= y
        BY <2>2, <2>5, <3>1, <3>2, <4>1
      <4>4. \A y \in R2[z] : c2[j].key <= y
        BY <1>3, <2>2, <3>2, <4>1
      <4> QED
        BY <2>5, <3>2, <4>1, <4>2, <4>3, <4>4
    <3>3. CASE j >= n /\ j + 1 \in 1 .. Len(c2) /\ c2[j + 1] = c1[j]
      <4>1. n < j + 1 /\ n + 1 <= j + 1 /\ n <= j + 1 /\ ~(j < i)
        BY <2>5, <3>3
      <4>2. x.key <= c2[j + 1].key
        BY <1>3, <1>4, <3>3, <4>1
      <4>3. \A y \in R2[k1[n]] : y <= c2[j + 1].key
        BY <2>2, <2>5, <3>1, <3>3, <4>1
      <4>4. \A y \in R2[z] : y <= c2[j + 1].key
        BY <1>3, <2>2, <3>3, <4>1
      <4> QED
        BY <2>5, <3>3, <4>1, <4>2, <4>3, <4>4
    <3> QED
      BY <2>1, <3>2, <3>3
  <2> QED
    BY <2>3, <2>4, <2>5
<1> QED
  BY <1>5, <1>6

\* A node in order, cut at its cell t + 1.
CutNode(s, u, v, ks, ku, kv, t, R) ==
  /\ t \in Nat
  /\ Len(s) \in Nat
  /\ Len(u) = t
  /\ Len(v) \in Nat
  /\ Len(ks) \in Nat
  /\ Len(ku) \in Nat
  /\ Len(kv) \in Nat
  /\ Cut(s, u, v, t + 1)
  /\ Cut(ks, ku, kv, Len(ku))
  /\ Len(ks) # 0 => Len(ku) = t + 1
  /\ t + 1 \in 1 .. Len(s)
  /\ \A i \in 1 .. Len(s) : s[i].key \in Nat
  /\ Sorted(s)
  /\ Between(s, ks, R)

\* The two parts of a node, on either side of its cell x.
CutApart(u, v, ku, kv, x, R) ==
  /\ Sorted(u) /\ Between(u, ku, R) /\ Sorted(v) /\ Between(v, kv, R)
  /\ \A i \in 1 .. Len(u) : u[i].key <= x.key
  /\ \A i \in 1 .. Len(v) : x.key <= v[i].key
  /\ \A q \in Members(ku) : \A k \in R[q] : k <= x.key
  /\ \A q \in Members(kv) : \A k \in R[q] : x.key <= k

\* A node is cut at its cell t + 1: the order of the two parts.
LEMMA CutOrder ==
  ASSUME NEW s, NEW u, NEW v, NEW ks, NEW ku, NEW kv, NEW t, NEW R,
         CutNode(s, u, v, ks, ku, kv, t, R)
  PROVE  CutApart(u, v, ku, kv, s[t + 1], R)
<1>0. /\ t \in Nat
      /\ Len(s) \in Nat
      /\ Len(u) = t
      /\ Len(v) \in Nat
      /\ Len(ks) \in Nat
      /\ Len(ku) \in Nat
      /\ Len(kv) \in Nat
      /\ Cut(s, u, v, t + 1)
      /\ Cut(ks, ku, kv, Len(ku))
      /\ Len(ks) # 0 => Len(ku) = t + 1
      /\ t + 1 \in 1 .. Len(s)
      /\ \A i \in 1 .. Len(s) : s[i].key \in Nat
      /\ Sorted(s)
      /\ Between(s, ks, R)
  BY DEF CutNode
<1> USE <1>0
<1>1. /\ Len(s) = t + 1 + Len(v)
      /\ \A j \in 1 .. t : j \in 1 .. Len(s) /\ u[j] = s[j]
      /\ \A j \in 1 .. Len(v) : t + 1 + j \in 1 .. Len(s) /\ v[j] = s[t + 1 + j]
  BY DEF Cut
<1>2. \A k, l \in 1 .. Len(s) : k < l => s[k].key <= s[l].key
  BY DEF Sorted
<1>3. \A l \in 1 .. Len(ks), o \in 1 .. Len(s) : \A y \in R[ks[l]] :
        (l <= o => y <= s[o].key) /\ (o < l => s[o].key <= y)
  BY DEF Between
<1>4. /\ \A j \in 1 .. Len(ku) : j \in 1 .. Len(ks) /\ ku[j] = ks[j] /\ j <= t + 1
      /\ \A j \in 1 .. Len(kv) : t + 1 + j \in 1 .. Len(ks) /\ kv[j] = ks[t + 1 + j]
  <2>1. CASE Len(ks) = 0
    <3>1. Len(ku) = 0 /\ Len(kv) = 0
      BY <2>1 DEF Cut
    <3> QED
      BY <3>1
  <2>2. CASE Len(ks) # 0
    <3>1. Len(ku) = t + 1
      BY <2>2
    <3> QED
      BY <3>1 DEF Cut
  <2> QED
    BY <2>1, <2>2
<1>5. Sorted(u)
  BY <1>1, <1>2 DEF Sorted
<1>6. Sorted(v)
  <2> SUFFICES ASSUME NEW i \in 1 .. Len(v), NEW j \in 1 .. Len(v), i < j PROVE v[i].key <= v[j].key
    BY DEF Sorted
  <2>1. t + 1 + i < t + 1 + j
    OBVIOUS
  <2> QED
    BY <1>1, <1>2, <2>1
<1>7. Between(u, ku, R)
  <2> SUFFICES ASSUME NEW i \in 1 .. Len(ku), NEW j \in 1 .. Len(u), NEW k \in R[ku[i]]
               PROVE  (i <= j => k <= u[j].key) /\ (j < i => u[j].key <= k)
    BY DEF Between
  <2> QED
    BY <1>1, <1>3, <1>4
<1>8. Between(v, kv, R)
  <2> SUFFICES ASSUME NEW i \in 1 .. Len(kv), NEW j \in 1 .. Len(v), NEW k \in R[kv[i]]
               PROVE  (i <= j => k <= v[j].key) /\ (j < i => v[j].key <= k)
    BY DEF Between
  <2>1. (i <= j <=> t + 1 + i <= t + 1 + j) /\ (j < i <=> t + 1 + j < t + 1 + i)
    OBVIOUS
  <2>2. k \in R[ks[t + 1 + i]] /\ t + 1 + i \in 1 .. Len(ks) /\ t + 1 + j \in 1 .. Len(s)
        /\ v[j] = s[t + 1 + j]
    BY <1>1, <1>4
  <2> QED
    BY <1>3, <2>1, <2>2
<1>9. /\ \A i \in 1 .. Len(u) : u[i].key <= s[t + 1].key
      /\ \A i \in 1 .. Len(v) : s[t + 1].key <= v[i].key
  <2>1. \A i \in 1 .. Len(u) : i < t + 1
    OBVIOUS
  <2>2. \A i \in 1 .. Len(v) : t + 1 < t + 1 + i
    OBVIOUS
  <2> QED
    BY <1>1, <1>2, <2>1, <2>2
<1>10. ASSUME NEW i \in 1 .. Len(ku), NEW k \in R[ku[i]] PROVE k <= s[t + 1].key
  BY <1>3, <1>4
<1>11. ASSUME NEW i \in 1 .. Len(kv), NEW k \in R[kv[i]] PROVE s[t + 1].key <= k
  <2>1. t + 1 < t + 1 + i
    OBVIOUS
  <2> QED
    BY <1>3, <1>4, <2>1
<1> QED
  BY <1>5, <1>6, <1>7, <1>8, <1>9, <1>10, <1>11 DEF Members, CutApart

\* Two nodes in order with a cell between theirs.
JoinedNode(s, u, v, ks, ku, kv, t, R) ==
  /\ t \in Nat
  /\ Len(s) \in Nat
  /\ Len(u) = t
  /\ Len(v) \in Nat
  /\ Len(ks) \in Nat
  /\ Len(ku) \in Nat
  /\ Len(kv) \in Nat
  /\ Cut(s, u, v, t + 1)
  /\ Cut(ks, ku, kv, Len(ku))
  /\ Len(ks) # 0 => Len(ku) = t + 1
  /\ t + 1 \in 1 .. Len(s)
  /\ \A i \in 1 .. Len(s) : s[i].key \in Nat
  /\ \A q \in Members(ku) \cup Members(kv) : R[q] \subseteq Nat
  /\ Sorted(u)
  /\ Between(u, ku, R)
  /\ Sorted(v)
  /\ Between(v, kv, R)
  /\ \A i \in 1 .. Len(u) : u[i].key <= s[t + 1].key
  /\ \A i \in 1 .. Len(v) : s[t + 1].key <= v[i].key
  /\ \A q \in Members(ku) : \A k \in R[q] : k <= s[t + 1].key
  /\ \A q \in Members(kv) : \A k \in R[q] : s[t + 1].key <= k

\* Two nodes become one, with a cell between theirs.
LEMMA JoinOrder ==
  ASSUME NEW s, NEW u, NEW v, NEW ks, NEW ku, NEW kv, NEW t, NEW R,
         JoinedNode(s, u, v, ks, ku, kv, t, R)
  PROVE  Sorted(s) /\ Between(s, ks, R)
<1>0. /\ t \in Nat
      /\ Len(s) \in Nat
      /\ Len(u) = t
      /\ Len(v) \in Nat
      /\ Len(ks) \in Nat
      /\ Len(ku) \in Nat
      /\ Len(kv) \in Nat
      /\ Cut(s, u, v, t + 1)
      /\ Cut(ks, ku, kv, Len(ku))
      /\ Len(ks) # 0 => Len(ku) = t + 1
      /\ t + 1 \in 1 .. Len(s)
      /\ \A i \in 1 .. Len(s) : s[i].key \in Nat
      /\ \A q \in Members(ku) \cup Members(kv) : R[q] \subseteq Nat
      /\ Sorted(u)
      /\ Between(u, ku, R)
      /\ Sorted(v)
      /\ Between(v, kv, R)
      /\ \A i \in 1 .. Len(u) : u[i].key <= s[t + 1].key
      /\ \A i \in 1 .. Len(v) : s[t + 1].key <= v[i].key
      /\ \A q \in Members(ku) : \A k \in R[q] : k <= s[t + 1].key
      /\ \A q \in Members(kv) : \A k \in R[q] : s[t + 1].key <= k
  BY DEF JoinedNode
<1> USE <1>0
<1>1. Len(s) = t + 1 + Len(v)
  BY DEF Cut
<1>2. ASSUME NEW j \in 1 .. Len(s)
      PROVE  \/ j < t + 1 /\ j \in 1 .. Len(u) /\ u[j] = s[j]
             \/ j = t + 1
             \/ j > t + 1 /\ j - (t + 1) \in 1 .. Len(v) /\ v[j - (t + 1)] = s[j]
  BY DEF Cut
<1>3. Sorted(s)
  <2> SUFFICES ASSUME NEW i \in 1 .. Len(s), NEW j \in 1 .. Len(s), i < j PROVE s[i].key <= s[j].key
    BY DEF Sorted
  <2>1. /\ \/ i < t + 1 /\ i \in 1 .. Len(u) /\ u[i] = s[i]
           \/ i = t + 1
           \/ i > t + 1 /\ i - (t + 1) \in 1 .. Len(v) /\ v[i - (t + 1)] = s[i]
        /\ \/ j < t + 1 /\ j \in 1 .. Len(u) /\ u[j] = s[j]
           \/ j = t + 1
           \/ j > t + 1 /\ j - (t + 1) \in 1 .. Len(v) /\ v[j - (t + 1)] = s[j]
    BY <1>2
  <2>2. /\ \A k, l \in 1 .. Len(u) : k < l => u[k].key <= u[l].key
        /\ \A k, l \in 1 .. Len(v) : k < l => v[k].key <= v[l].key
    BY DEF Sorted
  <2>3. i - (t + 1) < j - (t + 1) /\ s[i].key \in Nat /\ s[j].key \in Nat /\ s[t + 1].key \in Nat
    OBVIOUS
  <2>4. CASE i < t + 1 /\ i \in 1 .. Len(u) /\ u[i] = s[i]
    <3>1. s[i].key <= s[t + 1].key
      BY <2>4
    <3>2. CASE j < t + 1 /\ j \in 1 .. Len(u) /\ u[j] = s[j]
      BY <2>2, <2>4, <3>2
    <3>3. CASE j = t + 1
      BY <3>1, <3>3
    <3>4. CASE j > t + 1 /\ j - (t + 1) \in 1 .. Len(v) /\ v[j - (t + 1)] = s[j]
      <4>1. s[t + 1].key <= s[j].key
        BY <3>4
      <4> QED
        BY <2>3, <3>1, <4>1, SMTT(30)
    <3> QED
      BY <2>1, <3>2, <3>3, <3>4
  <2>5. CASE i = t + 1
    <3>1. j > t + 1 /\ j - (t + 1) \in 1 .. Len(v) /\ v[j - (t + 1)] = s[j]
      BY <2>1, <2>5
    <3>2. s[t + 1].key <= s[j].key
      BY <3>1
    <3> QED
      BY <2>5, <3>2
  <2>6. CASE i > t + 1 /\ i - (t + 1) \in 1 .. Len(v) /\ v[i - (t + 1)] = s[i]
    <3>1. j > t + 1 /\ j - (t + 1) \in 1 .. Len(v) /\ v[j - (t + 1)] = s[j]
      BY <2>1, <2>6
    <3> QED
      BY <2>2, <2>3, <2>6, <3>1
  <2> QED
    BY <2>1, <2>4, <2>5, <2>6
<1>4. Between(s, ks, R)
  <2> SUFFICES ASSUME NEW i \in 1 .. Len(ks), NEW j \in 1 .. Len(s), NEW k \in R[ks[i]]
               PROVE  (i <= j => k <= s[j].key) /\ (j < i => s[j].key <= k)
    BY DEF Between
  <2>0. Len(ku) = t + 1
    OBVIOUS
  <2>1. /\ \/ i <= t + 1 /\ i \in 1 .. Len(ku) /\ ku[i] = ks[i]
           \/ i > t + 1 /\ i - (t + 1) \in 1 .. Len(kv) /\ kv[i - (t + 1)] = ks[i]
        /\ \/ j < t + 1 /\ j \in 1 .. Len(u) /\ u[j] = s[j]
           \/ j = t + 1
           \/ j > t + 1 /\ j - (t + 1) \in 1 .. Len(v) /\ v[j - (t + 1)] = s[j]
    <3>1. \/ i <= t + 1 /\ i \in 1 .. Len(ku) /\ ku[i] = ks[i]
          \/ i > t + 1 /\ i - (t + 1) \in 1 .. Len(kv) /\ kv[i - (t + 1)] = ks[i]
      BY <2>0 DEF Cut
    <3> QED
      BY <1>2, <3>1
  <2>2. /\ \A l \in 1 .. Len(ku), o \in 1 .. Len(u) : \A y \in R[ku[l]] :
             (l <= o => y <= u[o].key) /\ (o < l => u[o].key <= y)
        /\ \A l \in 1 .. Len(kv), o \in 1 .. Len(v) : \A y \in R[kv[l]] :
             (l <= o => y <= v[o].key) /\ (o < l => v[o].key <= y)
    BY DEF Between
  <2>3. CASE i <= t + 1 /\ i \in 1 .. Len(ku) /\ ku[i] = ks[i]
    <3>1. k \in R[ku[i]] /\ k \in Nat /\ k <= s[t + 1].key
      BY <2>3 DEF Members
    <3>2. CASE j < t + 1 /\ j \in 1 .. Len(u) /\ u[j] = s[j]
      BY <2>2, <2>3, <3>1, <3>2
    <3>3. CASE j = t + 1
      BY <2>3, <3>1, <3>3
    <3>4. CASE j > t + 1 /\ j - (t + 1) \in 1 .. Len(v) /\ v[j - (t + 1)] = s[j]
      <4>1. s[t + 1].key <= s[j].key /\ s[j].key \in Nat /\ s[t + 1].key \in Nat /\ ~(j < i)
        <5>1. s[t + 1].key <= v[j - (t + 1)].key
          BY <3>4
        <5>2. ~(j < i)
          BY <2>3, <3>4
        <5> QED
          BY <3>4, <5>1, <5>2
      <4> QED
        BY <3>1, <4>1
    <3> QED
      BY <2>1, <3>2, <3>3, <3>4
  <2>4. CASE i > t + 1 /\ i - (t + 1) \in 1 .. Len(kv) /\ kv[i - (t + 1)] = ks[i]
    <3>1. k \in R[kv[i - (t + 1)]] /\ k \in Nat /\ s[t + 1].key <= k
      BY <2>4 DEF Members
    <3>2. CASE j < t + 1 /\ j \in 1 .. Len(u) /\ u[j] = s[j]
      <4>1. s[j].key <= s[t + 1].key /\ s[j].key \in Nat /\ s[t + 1].key \in Nat /\ ~(i <= j)
        BY <2>4, <3>2
      <4> QED
        BY <3>1, <4>1
    <3>3. CASE j = t + 1
      BY <2>4, <3>1, <3>3
    <3>4. CASE j > t + 1 /\ j - (t + 1) \in 1 .. Len(v) /\ v[j - (t + 1)] = s[j]
      <4>1. (i <= j <=> i - (t + 1) <= j - (t + 1)) /\ (j < i <=> j - (t + 1) < i - (t + 1))
        OBVIOUS
      <4> QED
        BY <2>2, <2>4, <3>1, <3>4, <4>1
    <3> QED
      BY <2>1, <3>2, <3>3, <3>4
  <2> QED
    BY <2>1, <2>3, <2>4
<1> QED
  BY <1>3, <1>4

\* What a cell holds.
LEMMA CellFields ==
  ASSUME NEW c \in CellSet
  PROVE  c.key \in Nat /\ c.key \in Keys /\ c.first \in Nat
BY BTreeAssumption DEF CellSet

\* The sequences of two siblings and of their parent, in one step.
PartedSeqs(d1, d2, T, p, n, a, z, t) ==
  /\ p \in T /\ a \in T /\ z \notin T /\ p # a /\ t \in Nat /\ n \in Nat
  /\ Len(d1[p].cells) \in Nat /\ Len(d1[p].kids) = Len(d1[p].cells) + 1
  /\ Len(d2[p].cells) \in Nat
  /\ n \in 1 .. Len(d1[p].kids) /\ d1[p].kids[n] = a /\ n \in 1 .. Len(d2[p].cells)
  /\ n \in 1 .. Len(d2[p].kids) /\ d2[p].kids[n] = a
  /\ n + 1 \in 1 .. Len(d2[p].kids) /\ d2[p].kids[n + 1] = z
  /\ d2[p].cells[n] = d1[a].cells[t + 1]
  /\ Inserted(d1[p].cells, d2[p].cells, n, d1[a].cells[t + 1])
  /\ Inserted(d1[p].kids, d2[p].kids, n + 1, z)
  /\ Len(d1[a].cells) \in Nat /\ Len(d2[a].cells) = t /\ Len(d2[z].cells) \in Nat
  /\ Len(d1[a].kids) \in Nat /\ Len(d2[a].kids) \in Nat /\ Len(d2[z].kids) \in Nat
  /\ Len(d1[a].kids) # 0 => Len(d2[a].kids) = t + 1
  /\ t + 1 \in 1 .. Len(d1[a].cells)
  /\ Cut(d1[a].cells, d2[a].cells, d2[z].cells, t + 1)
  /\ Cut(d1[a].kids, d2[a].kids, d2[z].kids, Len(d2[a].kids))

\* Where the cells and the children of a parted node come from, index by index.
LEMMA PartedSeqsHold ==
  ASSUME NEW d1, NEW d2, NEW T, NEW p, NEW n, NEW a, NEW z, NEW t,
         Parted(d1, d2, T, p, n, a, z, t), Nodes(d1, T), Nodes(d2, T \cup {z})
  PROVE  PartedSeqs(d1, d2, T, p, n, a, z, t)
<1>1. /\ p \in T /\ a \in T /\ z \notin T /\ p # a /\ t \in Nat
      /\ d1[p].leaf = FALSE /\ d2[a].leaf = d1[a].leaf
      /\ n \in 1 .. Len(d1[p].kids) /\ d1[p].kids[n] = a /\ d2[p].kids[n] = a
      /\ d2[p].cells[n] = d1[a].cells[t + 1] /\ t + 1 \in 1 .. Len(d1[a].cells) /\ Len(d2[a].cells) = t
      /\ Inserted(d1[p].cells, d2[p].cells, n, d1[a].cells[t + 1])
      /\ Inserted(d1[p].kids, d2[p].kids, n + 1, z)
      /\ Cut(d1[a].cells, d2[a].cells, d2[z].cells, t + 1)
      /\ Cut(d1[a].kids, d2[a].kids, d2[z].kids, Len(d2[a].kids))
  BY DEF Parted
<1>2. /\ Len(d1[p].cells) \in Nat /\ Len(d1[p].kids) = Len(d1[p].cells) + 1
      /\ Len(d1[a].cells) \in Nat /\ Len(d1[a].kids) \in Nat /\ (d1[a].leaf => Len(d1[a].kids) = 0)
      /\ d1[a].leaf \in BOOLEAN
  BY <1>1, NodeLens DEF Nodes, NodeIn
<1>3. /\ Len(d2[a].kids) \in Nat /\ Len(d2[z].kids) \in Nat /\ Len(d2[z].cells) \in Nat
      /\ ~d2[a].leaf => Len(d2[a].kids) = Len(d2[a].cells) + 1
  <2>1. a \in T \cup {z} /\ z \in T \cup {z}
    BY <1>1
  <2> QED
    BY <2>1, NodeLens
<1>4. /\ n \in 1 .. Len(d2[p].cells) /\ Len(d2[p].cells) = Len(d1[p].cells) + 1
      /\ Len(d2[p].kids) = Len(d1[p].kids) + 1 /\ d2[p].kids[n + 1] = z
  BY <1>1 DEF Inserted
<1>5. n \in Nat /\ n \in 1 .. Len(d2[p].kids) /\ n + 1 \in 1 .. Len(d2[p].kids)
  <2>1. n \in 1 .. Len(d1[p].kids) /\ Len(d1[p].kids) \in Nat /\ Len(d2[p].kids) = Len(d1[p].kids) + 1
    BY <1>1, <1>2, <1>4
  <2> QED
    BY <2>1
<1> QED
  BY <1>1, <1>2, <1>3, <1>4, <1>5 DEF PartedSeqs

\* The keys of a node are numbers.
LEMMA NodeKeys ==
  ASSUME NEW d, NEW T, Nodes(d, T), NEW q \in T, NEW i \in 1 .. Len(d[q].cells)
  PROVE  d[q].cells[i].key \in Nat
BY NodeLens, CellFields

\* The keys allowed below the two parts, and below the whole.
RangesParted(R, T, a, z, m) ==
  [q \in T \cup {z} |-> IF q = a THEN {k \in R[a] : k <= m} ELSE IF q = z THEN {k \in R[a] : m <= k} ELSE R[q]]
RangesJoined(R, T, a, z, m) ==
  [q \in T |-> IF q = a THEN R[a] \cup {m} \cup R[z] ELSE R[q]]

\* Parting a node keeps the order.
LEMMA PartedOrdered ==
  ASSUME NEW d1, NEW d2, NEW T, NEW p, NEW n, NEW a, NEW z, NEW t,
         Parted(d1, d2, T, p, n, a, z, t), Nodes(d1, T), Nodes(d2, T \cup {z}),
         NEW R, OrderedBy(d1, T, R)
  PROVE  OrderedBy(d2, T \cup {z}, RangesParted(R, T, a, z, d1[a].cells[t + 1].key))
<1> DEFINE x == d1[a].cells[t + 1]
           S == RangesParted(R, T, a, z, x.key)
<1>1. PartedSeqs(d1, d2, T, p, n, a, z, t)
  BY PartedSeqsHold
<1>2. /\ p \in T /\ a \in T /\ z \notin T /\ p # a /\ t \in Nat /\ n \in Nat
      /\ t + 1 \in 1 .. Len(d1[a].cells) /\ d1[p].kids[n] = a
  BY <1>1 DEF PartedSeqs
<1>3. R \in [T -> SUBSET Nat] /\ \A q \in T : OrderedNode(d1, R, q)
  BY DEF OrderedBy
<1>4. x.key \in Nat /\ x.key \in R[a]
  BY <1>2, <1>3, NodeKeys DEF OrderedNode
<1>5. /\ S \in [T \cup {z} -> SUBSET Nat]
      /\ \A q \in T : q # a => S[q] = R[q]
      /\ S[a] = {k \in R[a] : k <= x.key} /\ S[z] = {k \in R[a] : x.key <= k}
  BY <1>2, <1>3 DEF RangesParted
<1> HIDE DEF S
<1>6. \A q \in T : S[q] \subseteq R[q]
  BY <1>2, <1>5
<1>7. \A q \in T : Members(d1[q].kids) \subseteq T
  BY NodeLens
<1>8. ASSUME NEW q \in T \ {p, a} PROVE OrderedNode(d2, S, q)
  <2>1. d2[q] = d1[q]
    BY DEF Parted
  <2>2. /\ \A i \in 1 .. Len(d1[q].cells) : d1[q].cells[i].key \in S[q]
        /\ \A y \in Members(d1[q].kids) : S[y] \subseteq S[q]
        /\ Sorted(d1[q].cells)
    BY <1>3, <1>5, <1>6, <1>7 DEF OrderedNode
  <2>3. Between(d1[q].cells, d1[q].kids, S)
    <3>1. Between(d1[q].cells, d1[q].kids, R)
      BY <1>3 DEF OrderedNode
    <3>2. \A i \in 1 .. Len(d1[q].kids) : S[d1[q].kids[i]] \subseteq R[d1[q].kids[i]]
      BY <1>6, NodeLens
    <3> QED
      BY <3>1, <3>2 DEF Between
  <2> QED
    BY <2>1, <2>2, <2>3 DEF OrderedNode
<1>9. OrderedNode(d2, S, p)
  <2> DEFINE c1 == d1[p].cells
             c2 == d2[p].cells
             k1 == d1[p].kids
             k2 == d2[p].kids
  <2>0. S[p] = R[p]
    BY <1>2, <1>5
  <2>1. /\ Len(c1) \in Nat /\ Len(k1) = Len(c1) + 1 /\ n \in 1 .. Len(k1)
        /\ Inserted(c1, c2, n, x) /\ Inserted(k1, k2, n + 1, z)
    BY <1>1 DEF PartedSeqs
  <2>2. /\ \A i \in 1 .. Len(c1) : c1[i].key \in Nat /\ c1[i].key \in R[p]
        /\ \A i \in 1 .. Len(k1) : k1[i] \in T
        /\ Sorted(c1) /\ Between(c1, k1, R)
        /\ \A y \in Members(k1) : R[y] \subseteq R[p]
    BY <1>2, <1>3, NodeKeys, NodeLens DEF OrderedNode
  <2>3. /\ \A i \in 1 .. Len(k1) : R[k1[i]] \subseteq Nat
        /\ \A i \in 1 .. Len(k1) : S[k1[i]] \subseteq R[k1[i]]
        /\ k1[n] = a
    BY <1>2, <1>3, <1>6, <2>2
  <2>4. R[a] \subseteq R[p] /\ S[z] \subseteq R[a]
    <3>1. a \in Members(k1)
      BY <2>1, <2>3 DEF Members
    <3> QED
      BY <1>5, <2>2, <3>1
  <2>5. /\ \A k \in S[k1[n]] : k <= x.key
        /\ \A k \in S[z] : k \in R[k1[n]] /\ x.key <= k
        /\ x.key \in R[k1[n]]
    BY <1>4, <1>5, <2>3
  <2> HIDE DEF c1, c2, k1, k2, x
  <2>6. Sorted(c2) /\ Between(c2, k2, S)
    <3>1. Spread(c1, c2, k1, k2, n, x, z, R, S)
      BY <1>2, <1>4, <2>1, <2>2, <2>3, <2>5 DEF Spread
    <3> QED
      BY <3>1, SpreadOrder
  <2>7. \A i \in 1 .. Len(c2) : c2[i].key \in R[p]
    <3>1. x.key \in R[p]
      BY <1>4, <2>4
    <3> QED
      BY <2>1, <2>2, <3>1 DEF Inserted
  <2>8. \A y \in Members(k2) : S[y] \subseteq R[p]
    <3>1. Members(k2) = Members(k1) \cup {z}
      BY <2>1, InsertedMembers
    <3>2. \A y \in Members(k1) : y \in T
      BY <2>2 DEF Members
    <3> QED
      BY <1>6, <2>2, <2>4, <3>1, <3>2
  <2> QED
    BY <2>0, <2>6, <2>7, <2>8 DEF OrderedNode, c2, k2
<1>10. /\ Sorted(d2[a].cells) /\ Between(d2[a].cells, d2[a].kids, R)
       /\ Sorted(d2[z].cells) /\ Between(d2[z].cells, d2[z].kids, R)
       /\ \A i \in 1 .. Len(d2[a].cells) : d2[a].cells[i].key <= x.key /\ d2[a].cells[i].key \in R[a]
       /\ \A i \in 1 .. Len(d2[z].cells) : x.key <= d2[z].cells[i].key /\ d2[z].cells[i].key \in R[a]
       /\ \A q \in Members(d2[a].kids) : q \in T /\ \A k \in R[q] : k \in R[a] /\ k <= x.key
       /\ \A q \in Members(d2[z].kids) : q \in T /\ \A k \in R[q] : k \in R[a] /\ x.key <= k
  <2> DEFINE s == d1[a].cells
             ks == d1[a].kids
  <2>1. /\ Len(s) \in Nat /\ Len(d2[a].cells) = t /\ Len(d2[z].cells) \in Nat
        /\ Len(ks) \in Nat /\ Len(d2[a].kids) \in Nat /\ Len(d2[z].kids) \in Nat
        /\ Len(ks) # 0 => Len(d2[a].kids) = t + 1
        /\ Cut(s, d2[a].cells, d2[z].cells, t + 1)
        /\ Cut(ks, d2[a].kids, d2[z].kids, Len(d2[a].kids))
    BY <1>1 DEF PartedSeqs
  <2>2. /\ \A i \in 1 .. Len(s) : s[i].key \in Nat /\ s[i].key \in R[a]
        /\ Sorted(s) /\ Between(s, ks, R)
        /\ \A y \in Members(ks) : R[y] \subseteq R[a] /\ y \in T
    BY <1>2, <1>3, NodeKeys, NodeLens DEF OrderedNode
  <2>3. Members(ks) = Members(d2[a].kids) \cup Members(d2[z].kids)
    BY <2>1, CutMembers
  <2>4. t + 1 \in 1 .. Len(s) /\ s[t + 1] = x
    BY <1>2
  <2>5. /\ \A i \in 1 .. Len(d2[a].cells) : d2[a].cells[i].key \in R[a]
        /\ \A i \in 1 .. Len(d2[z].cells) : d2[z].cells[i].key \in R[a]
    BY <2>1, <2>2 DEF Cut
  <2> HIDE DEF s, ks, x
  <2>6. /\ Sorted(d2[a].cells) /\ Between(d2[a].cells, d2[a].kids, R)
        /\ Sorted(d2[z].cells) /\ Between(d2[z].cells, d2[z].kids, R)
        /\ \A i \in 1 .. Len(d2[a].cells) : d2[a].cells[i].key <= s[t + 1].key
        /\ \A i \in 1 .. Len(d2[z].cells) : s[t + 1].key <= d2[z].cells[i].key
        /\ \A q \in Members(d2[a].kids) : \A k \in R[q] : k <= s[t + 1].key
        /\ \A q \in Members(d2[z].kids) : \A k \in R[q] : s[t + 1].key <= k
    <3>1. CutNode(s, d2[a].cells, d2[z].cells, ks, d2[a].kids, d2[z].kids, t, R)
      BY <1>2, <2>1, <2>2, <2>4 DEF CutNode
    <3>2. CutApart(d2[a].cells, d2[z].cells, d2[a].kids, d2[z].kids, s[t + 1], R)
      BY <3>1, CutOrder
    <3> QED
      BY <3>2 DEF CutApart
  <2> QED
    BY <2>2, <2>3, <2>4, <2>5, <2>6
<1>11. OrderedNode(d2, S, a)
  <2>1. /\ \A i \in 1 .. Len(d2[a].cells) : d2[a].cells[i].key \in S[a]
        /\ \A q \in Members(d2[a].kids) : S[q] \subseteq S[a]
    BY <1>5, <1>6, <1>10
  <2>2. \A i \in 1 .. Len(d2[a].kids) : S[d2[a].kids[i]] \subseteq R[d2[a].kids[i]]
    BY <1>6, <1>10 DEF Members
  <2>3. Between(d2[a].cells, d2[a].kids, S)
    BY <1>10, <2>2 DEF Between
  <2> QED
    BY <1>10, <2>1, <2>3 DEF OrderedNode
<1>12. OrderedNode(d2, S, z)
  <2>1. /\ \A i \in 1 .. Len(d2[z].cells) : d2[z].cells[i].key \in S[z]
        /\ \A q \in Members(d2[z].kids) : S[q] \subseteq S[z]
    BY <1>5, <1>6, <1>10
  <2>2. \A i \in 1 .. Len(d2[z].kids) : S[d2[z].kids[i]] \subseteq R[d2[z].kids[i]]
    BY <1>6, <1>10 DEF Members
  <2>3. Between(d2[z].cells, d2[z].kids, S)
    BY <1>10, <2>2 DEF Between
  <2> QED
    BY <1>10, <2>1, <2>3 DEF OrderedNode
<1>13. \A q \in T \cup {z} : OrderedNode(d2, S, q)
  BY <1>8, <1>9, <1>11, <1>12
<1> QED
  BY <1>5, <1>13 DEF OrderedBy, S

\* Joining two siblings keeps the order.
LEMMA JoinedOrdered ==
  ASSUME NEW d1, NEW d2, NEW T, NEW p, NEW n, NEW a, NEW z, NEW t, NEW r,
         Parted(d1, d2, T, p, n, a, z, t), Nodes(d1, T), Nodes(d2, T \cup {z}),
         Slots(d2, r, T \cup {z}),
         NEW R, OrderedBy(d2, T \cup {z}, R)
  PROVE  OrderedBy(d1, T, RangesJoined(R, T, a, z, d1[a].cells[t + 1].key))
<1> DEFINE x == d1[a].cells[t + 1]
           S == RangesJoined(R, T, a, z, x.key)
<1>1. PartedSeqs(d1, d2, T, p, n, a, z, t)
  BY PartedSeqsHold
<1>2. /\ p \in T /\ a \in T /\ z \notin T /\ p # a /\ t \in Nat /\ n \in Nat
      /\ t + 1 \in 1 .. Len(d1[a].cells) /\ d1[p].kids[n] = a /\ d2[p].kids[n] = a
      /\ n \in 1 .. Len(d2[p].cells) /\ d2[p].cells[n] = x
      /\ n \in 1 .. Len(d2[p].kids) /\ n + 1 \in 1 .. Len(d2[p].kids) /\ d2[p].kids[n + 1] = z
  BY <1>1 DEF PartedSeqs
<1>3. R \in [T \cup {z} -> SUBSET Nat] /\ \A q \in T \cup {z} : OrderedNode(d2, R, q)
  BY DEF OrderedBy
<1>4. x.key \in Nat /\ x.key \in R[p]
  BY <1>2, <1>3, NodeKeys DEF OrderedNode
<1>5. /\ R[a] \subseteq R[p] /\ R[z] \subseteq R[p]
      /\ \A k \in R[a] : k \in Nat /\ k <= x.key
      /\ \A k \in R[z] : k \in Nat /\ x.key <= k
  <2>1. a \in Members(d2[p].kids) /\ z \in Members(d2[p].kids)
    BY <1>2 DEF Members
  <2>2. Between(d2[p].cells, d2[p].kids, R) /\ \A q \in Members(d2[p].kids) : R[q] \subseteq R[p]
    BY <1>2, <1>3 DEF OrderedNode
  <2>3. n <= n /\ n < n + 1
    BY <1>2
  <2>4. \A k \in R[d2[p].kids[n]] : k <= d2[p].cells[n].key
    BY <1>2, <2>2, <2>3 DEF Between
  <2>5. \A k \in R[d2[p].kids[n + 1]] : d2[p].cells[n].key <= k
    BY <1>2, <2>2, <2>3 DEF Between
  <2> QED
    BY <1>2, <1>3, <2>1, <2>2, <2>4, <2>5
<1>6. /\ S \in [T -> SUBSET Nat] /\ S[a] = R[a] \cup {x.key} \cup R[z]
      /\ \A q \in T : q # a => S[q] = R[q]
  BY <1>2, <1>3, <1>4 DEF RangesJoined
<1> HIDE DEF S
<1>7. \A q \in T \cup {z} : a \in Members(d2[q].kids) => q = p
  <2>1. PICK P : SlotsBy(d2, r, T \cup {z}, P)
    BY DEF Slots
  <2>2. \A q \in T \cup {z} : Members(d2[q].kids) = {y \in T \cup {z} : P[y] = q}
    BY <2>1 DEF SlotsBy, Lists
  <2>3. a \in Members(d2[p].kids)
    BY <1>2 DEF Members
  <2> QED
    BY <1>2, <2>2, <2>3
<1>8. Distinct(d2[p].kids) /\ Distinct(d1[p].kids)
  <2>1. PICK P : SlotsBy(d2, r, T \cup {z}, P)
    BY DEF Slots
  <2>2. Distinct(d2[p].kids)
    BY <1>2, <2>1 DEF SlotsBy, Lists
  <2>3. PartedTree(d1, d2, T, p, a, z)
    BY PartedKids
  <2> QED
    BY <2>2, <2>3 DEF PartedTree
<1>9. \A q \in T : Members(d1[q].kids) \subseteq T
  BY NodeLens
<1>10. ASSUME NEW q \in T \ {p, a} PROVE OrderedNode(d1, S, q)
  <2>1. d2[q] = d1[q]
    BY DEF Parted
  <2>2. \A y \in Members(d1[q].kids) : S[y] = R[y]
    BY <1>6, <1>7, <1>9, <2>1
  <2>3. \A i \in 1 .. Len(d1[q].kids) : S[d1[q].kids[i]] = R[d1[q].kids[i]]
    BY <2>2 DEF Members
  <2>4. OrderedNode(d2, R, q)
    BY <1>3
  <2>5. Between(d1[q].cells, d1[q].kids, S)
    BY <2>1, <2>3, <2>4 DEF OrderedNode, Between
  <2>6. S[q] = R[q]
    BY <1>6
  <2> QED
    BY <2>1, <2>2, <2>4, <2>5, <2>6 DEF OrderedNode
<1>11. OrderedNode(d1, S, p)
  <2> DEFINE c1 == d1[p].cells
             c2 == d2[p].cells
             k1 == d1[p].kids
             k2 == d2[p].kids
  <2>1. /\ Len(c1) \in Nat /\ Len(k1) = Len(c1) + 1 /\ n \in 1 .. Len(k1)
        /\ Inserted(c1, c2, n, x) /\ Inserted(k1, k2, n + 1, z)
    BY <1>1 DEF PartedSeqs
  <2>2. /\ \A i \in 1 .. Len(c2) : c2[i].key \in R[p]
        /\ Sorted(c2) /\ Between(c2, k2, R)
        /\ \A y \in Members(k2) : R[y] \subseteq R[p]
    BY <1>2, <1>3 DEF OrderedNode
  <2>3. /\ \A i \in 1 .. Len(k1) : k1[i] \in T
        /\ \A i \in 1 .. Len(k1) : i # n => k1[i] # a
        /\ k1[n] = a
    BY <1>2, <1>8, <2>1, NodeLens DEF Distinct
  <2>4. /\ \A i \in 1 .. Len(k1) : i # n => S[k1[i]] \subseteq R[k1[i]]
        /\ \A k \in S[k1[n]] : k \in R[k1[n]] \/ k \in R[z] \/ k = x.key
    BY <1>6, <2>3
  <2> HIDE DEF c1, c2, k1, k2, x
  <2>6. Sorted(c1) /\ Between(c1, k1, S)
    <3>1. Narrowed(c1, c2, k1, k2, n, x, z, S, R)
      BY <1>2, <1>4, <2>1, <2>2, <2>4 DEF Narrowed
    <3> QED
      BY <3>1, NarrowOrder
  <2>7. \A i \in 1 .. Len(c1) : c1[i].key \in R[p]
    BY <2>1, <2>2 DEF Inserted
  <2>8. \A y \in Members(k1) : S[y] \subseteq R[p]
    <3>1. Members(k2) = Members(k1) \cup {z}
      BY <2>1, InsertedMembers
    <3>2. \A y \in Members(k1) : y \in T
      BY <2>3 DEF Members
    <3> QED
      BY <1>4, <1>5, <1>6, <2>2, <3>1, <3>2
  <2>9. S[p] = R[p]
    BY <1>2, <1>6
  <2> QED
    BY <2>6, <2>7, <2>8, <2>9 DEF OrderedNode, c1, k1
<1>12. OrderedNode(d1, S, a)
  <2> DEFINE s == d1[a].cells
             ks == d1[a].kids
             u == d2[a].cells
             v == d2[z].cells
             ku == d2[a].kids
             kv == d2[z].kids
  <2>1. /\ Len(s) \in Nat /\ Len(u) = t /\ Len(v) \in Nat
        /\ Len(ks) \in Nat /\ Len(ku) \in Nat /\ Len(kv) \in Nat
        /\ Len(ks) # 0 => Len(ku) = t + 1
        /\ Cut(s, u, v, t + 1)
        /\ Cut(ks, ku, kv, Len(ku))
    BY <1>1 DEF PartedSeqs
  <2>2. /\ \A i \in 1 .. Len(s) : s[i].key \in Nat
        /\ \A y \in Members(ks) : y \in T
    BY <1>2, <1>9, NodeKeys
  <2>3. /\ Sorted(u) /\ Between(u, ku, R) /\ Sorted(v) /\ Between(v, kv, R)
        /\ \A i \in 1 .. Len(u) : u[i].key \in R[a]
        /\ \A i \in 1 .. Len(v) : v[i].key \in R[z]
        /\ \A y \in Members(ku) : R[y] \subseteq R[a]
        /\ \A y \in Members(kv) : R[y] \subseteq R[z]
    BY <1>2, <1>3 DEF OrderedNode
  <2>4. Members(ks) = Members(ku) \cup Members(kv)
    BY <2>1, CutMembers
  <2>5. t + 1 \in 1 .. Len(s) /\ s[t + 1] = x
    BY <1>2
  <2>6. \A y \in Members(ks) : S[y] = R[y]
    BY <1>2, <1>6, <1>7, <2>2, <2>4
  <2>7. /\ \A y \in Members(ku) \cup Members(kv) : R[y] \subseteq Nat
        /\ \A i \in 1 .. Len(u) : u[i].key <= x.key
        /\ \A i \in 1 .. Len(v) : x.key <= v[i].key
        /\ \A q \in Members(ku) : \A k \in R[q] : k <= x.key
        /\ \A q \in Members(kv) : \A k \in R[q] : x.key <= k
    <3>1. /\ \A y \in Members(ku) : \A k \in R[y] : k \in R[a]
          /\ \A y \in Members(kv) : \A k \in R[y] : k \in R[z]
      BY <2>3
    <3>2. \A y \in Members(ku) \cup Members(kv) : R[y] \subseteq Nat
      BY <1>5, <3>1
    <3>3. \A i \in 1 .. Len(u) : u[i].key <= x.key
      BY <1>5, <2>3
    <3>4. \A i \in 1 .. Len(v) : x.key <= v[i].key
      BY <1>5, <2>3
    <3>5. \A q \in Members(ku) : \A k \in R[q] : k <= x.key
      BY <1>5, <3>1
    <3>6. \A q \in Members(kv) : \A k \in R[q] : x.key <= k
      BY <1>5, <3>1
    <3> QED
      BY <3>2, <3>3, <3>4, <3>5, <3>6
  <2> HIDE DEF s, ks, u, v, ku, kv, x
  <2>8. Sorted(s) /\ Between(s, ks, R)
    <3>1. JoinedNode(s, u, v, ks, ku, kv, t, R)
      BY <1>2, <2>1, <2>2, <2>3, <2>5, <2>7 DEF JoinedNode
    <3> QED
      BY <3>1, JoinOrder
  <2>9. Between(s, ks, S)
    <3>1. \A i \in 1 .. Len(ks) : S[ks[i]] = R[ks[i]]
      BY <2>6 DEF Members
    <3> QED
      BY <2>8, <3>1 DEF Between
  <2>10. \A i \in 1 .. Len(s) : s[i].key \in S[a]
    <3> SUFFICES ASSUME NEW i \in 1 .. Len(s) PROVE s[i].key \in S[a]
      OBVIOUS
    <3>1. \/ i \in 1 .. Len(u) /\ u[i] = s[i]
          \/ i > Len(u) /\ i <= t + 1
          \/ i > t + 1 /\ i - (t + 1) \in 1 .. Len(v) /\ v[i - (t + 1)] = s[i]
      BY <2>1 DEF Cut
    <3>2. i > Len(u) /\ i <= t + 1 => s[i] = x
      BY <1>2, <2>1, <2>5
    <3> QED
      BY <1>6, <2>3, <3>1, <3>2
  <2>11. \A y \in Members(ks) : S[y] \subseteq S[a]
    BY <1>6, <2>3, <2>4, <2>6
  <2> QED
    BY <2>8, <2>9, <2>10, <2>11 DEF OrderedNode, s, ks
<1>13. \A q \in T : OrderedNode(d1, S, q)
  BY <1>10, <1>11, <1>12
<1> QED
  BY <1>6, <1>13 DEF OrderedBy, S

\* The page a cell names, if it has one.
Own(c) == IF IsOverflow(c) THEN {c.first} ELSE {}

\* The pages that cells name.
LEMMA FirstsAre ==
  ASSUME NEW s
  PROVE  \A y : y \in Firsts(s) <=> \E i \in 1 .. Len(s) : IsOverflow(s[i]) /\ s[i].first = y
BY DEF Firsts

\* The pages named by cells with one inserted.
LEMMA InsertedHeads ==
  ASSUME NEW s, NEW s2, NEW n, NEW x, Inserted(s, s2, n, x), Len(s) \in Nat
  PROVE  /\ Firsts(s2) = Firsts(s) \cup Own(x)
         /\ OneEach(s2) <=> OneEach(s) /\ Own(x) \cap Firsts(s) = {}
<1>0. /\ n \in Nat /\ n \in 1 .. Len(s2) /\ Len(s2) \in Nat /\ s2[n] = x
      /\ \A j \in 1 .. Len(s2) : \/ j < n /\ j \in 1 .. Len(s) /\ s2[j] = s[j]
                                 \/ j = n
                                 \/ j > n /\ j - 1 \in 1 .. Len(s) /\ s2[j] = s[j - 1]
      /\ \A j \in 1 .. Len(s) : \/ j < n /\ j \in 1 .. Len(s2) /\ s2[j] = s[j]
                                \/ j >= n /\ j + 1 \in 1 .. Len(s2) /\ s2[j + 1] = s[j]
  BY DEF Inserted
<1>1. Firsts(s2) = Firsts(s) \cup Own(x)
  <2>1. ASSUME NEW i \in 1 .. Len(s2), IsOverflow(s2[i]) PROVE s2[i].first \in Firsts(s) \cup Own(x)
    BY <1>0, <2>1, FirstsAre DEF Own
  <2>2. ASSUME NEW i \in 1 .. Len(s), IsOverflow(s[i]) PROVE s[i].first \in Firsts(s2)
    BY <1>0, <2>2, FirstsAre
  <2>3. Own(x) \subseteq Firsts(s2)
    BY <1>0, FirstsAre DEF Own
  <2>4. \A y \in Firsts(s2) : y \in Firsts(s) \cup Own(x)
    BY <2>1, FirstsAre
  <2>5. \A y \in Firsts(s) : y \in Firsts(s2)
    BY <2>2, FirstsAre
  <2> QED
    BY <2>3, <2>4, <2>5
<1>2. ASSUME OneEach(s), Own(x) \cap Firsts(s) = {} PROVE OneEach(s2)
  <2>1. \A j \in 1 .. Len(s) : IsOverflow(s[j]) /\ IsOverflow(x) => s[j].first # x.first
    <3>1. \A j \in 1 .. Len(s) : IsOverflow(s[j]) => s[j].first \in Firsts(s)
      BY FirstsAre
    <3> QED
      BY <1>2, <3>1 DEF Own
  <2> SUFFICES ASSUME NEW i \in 1 .. Len(s2), NEW j \in 1 .. Len(s2), IsOverflow(s2[i]), IsOverflow(s2[j]),
                      s2[i].first = s2[j].first
               PROVE  i = j
    BY DEF OneEach
  <2>2. \A k, l \in 1 .. Len(s) : IsOverflow(s[k]) /\ IsOverflow(s[l]) /\ s[k].first = s[l].first => k = l
    BY <1>2 DEF OneEach
  <2>3. /\ \/ i < n /\ i \in 1 .. Len(s) /\ s2[i] = s[i]
           \/ i = n /\ s2[i] = x
           \/ i > n /\ i - 1 \in 1 .. Len(s) /\ s2[i] = s[i - 1]
        /\ \/ j < n /\ j \in 1 .. Len(s) /\ s2[j] = s[j]
           \/ j = n /\ s2[j] = x
           \/ j > n /\ j - 1 \in 1 .. Len(s) /\ s2[j] = s[j - 1]
    BY <1>0
  <2>4. i \in Nat /\ j \in Nat /\ (i - 1 = j - 1 => i = j)
    BY <1>0
  <2>5. CASE i < n /\ i \in 1 .. Len(s) /\ s2[i] = s[i]
    <3>1. CASE j < n /\ j \in 1 .. Len(s) /\ s2[j] = s[j]
      BY <2>2, <2>5, <3>1
    <3>2. CASE j = n /\ s2[j] = x
      BY <2>1, <2>5, <3>2
    <3>3. CASE j > n /\ j - 1 \in 1 .. Len(s) /\ s2[j] = s[j - 1]
      <4>1. i = j - 1
        BY <2>2, <2>5, <3>3
      <4> QED
        BY <1>0, <2>4, <2>5, <3>3, <4>1
    <3> QED
      BY <2>3, <3>1, <3>2, <3>3
  <2>6. CASE i = n /\ s2[i] = x
    BY <2>1, <2>3, <2>6
  <2>7. CASE i > n /\ i - 1 \in 1 .. Len(s) /\ s2[i] = s[i - 1]
    <3>1. CASE j < n /\ j \in 1 .. Len(s) /\ s2[j] = s[j]
      <4>1. j = i - 1
        BY <2>2, <2>7, <3>1
      <4> QED
        BY <1>0, <2>4, <2>7, <3>1, <4>1
    <3>2. CASE j = n /\ s2[j] = x
      BY <2>1, <2>7, <3>2
    <3>3. CASE j > n /\ j - 1 \in 1 .. Len(s) /\ s2[j] = s[j - 1]
      BY <2>2, <2>4, <2>7, <3>3
    <3> QED
      BY <2>3, <3>1, <3>2, <3>3
  <2> QED
    BY <2>3, <2>5, <2>6, <2>7
<1>3. ASSUME OneEach(s2) PROVE OneEach(s) /\ Own(x) \cap Firsts(s) = {}
  <2>2. \A k, l \in 1 .. Len(s2) : IsOverflow(s2[k]) /\ IsOverflow(s2[l]) /\ s2[k].first = s2[l].first => k = l
    BY <1>3 DEF OneEach
  <2>3. OneEach(s)
    <3> SUFFICES ASSUME NEW i \in 1 .. Len(s), NEW j \in 1 .. Len(s), IsOverflow(s[i]), IsOverflow(s[j]),
                        s[i].first = s[j].first
                 PROVE  i = j
      BY DEF OneEach
    <3>1. /\ \/ i < n /\ i \in 1 .. Len(s2) /\ s2[i] = s[i]
             \/ i >= n /\ i + 1 \in 1 .. Len(s2) /\ s2[i + 1] = s[i]
          /\ \/ j < n /\ j \in 1 .. Len(s2) /\ s2[j] = s[j]
             \/ j >= n /\ j + 1 \in 1 .. Len(s2) /\ s2[j + 1] = s[j]
      BY <1>0
    <3> QED
      BY <1>0, <2>2, <3>1
  <2>4. ASSUME NEW i \in 1 .. Len(s), IsOverflow(s[i]), IsOverflow(x), s[i].first = x.first PROVE FALSE
    <3>1. \/ i < n /\ i \in 1 .. Len(s2) /\ s2[i] = s[i]
          \/ i >= n /\ i + 1 \in 1 .. Len(s2) /\ s2[i + 1] = s[i]
      BY <1>0
    <3> QED
      <4>1. n \in 1 .. Len(s2) /\ IsOverflow(s2[n]) /\ s2[n].first = x.first
        BY <1>0, <2>4
      <4>2. CASE i < n /\ i \in 1 .. Len(s2) /\ s2[i] = s[i]
        BY <1>0, <2>2, <2>4, <4>1, <4>2
      <4>3. CASE i >= n /\ i + 1 \in 1 .. Len(s2) /\ s2[i + 1] = s[i]
        <5>1. i + 1 = n
          BY <2>2, <2>4, <4>1, <4>3
        <5> QED
          BY <1>0, <4>3, <5>1
      <4> QED
        BY <3>1, <4>2, <4>3
  <2> QED
    BY <2>3, <2>4, FirstsAre DEF Own
<1> QED
  BY <1>1, <1>2, <1>3

\* The pages named by cells cut in two, with one between.
CutFirsts(s, u, v, x) ==
  /\ Firsts(s) = Firsts(u) \cup Firsts(v) \cup Own(x)
  /\ OneEach(s) <=> /\ OneEach(u) /\ OneEach(v) /\ Firsts(u) \cap Firsts(v) = {}
                    /\ Own(x) \cap Firsts(u) = {} /\ Own(x) \cap Firsts(v) = {}

\* The pages named by cells cut in two are those of the parts and of the cell between.
LEMMA CutHeads ==
  ASSUME NEW s, NEW u, NEW v, NEW t \in Nat, Len(s) \in Nat, Len(u) = t, Len(v) \in Nat,
         t + 1 \in 1 .. Len(s), Cut(s, u, v, t + 1)
  PROVE  CutFirsts(s, u, v, s[t + 1])
<1> DEFINE m == t + 1
           x == s[m]
<1>0. /\ m \in Nat /\ m = t + 1 /\ m \in 1 .. Len(s) /\ x = s[m]
      /\ \A j \in 1 .. Len(u) : j \in 1 .. Len(s) /\ u[j] = s[j] /\ j < m
      /\ \A j \in 1 .. Len(v) : m + j \in 1 .. Len(s) /\ v[j] = s[m + j] /\ m + j # m
      /\ \A j \in 1 .. Len(s) : \/ j \in 1 .. Len(u) /\ u[j] = s[j]
                                \/ j = m
                                \/ j - m \in 1 .. Len(v) /\ v[j - m] = s[j]
  BY DEF Cut
<1> HIDE DEF m, x
<1>1. Firsts(s) = Firsts(u) \cup Firsts(v) \cup Own(x)
  <2>1. ASSUME NEW i \in 1 .. Len(s), IsOverflow(s[i]) PROVE s[i].first \in Firsts(u) \cup Firsts(v) \cup Own(x)
    BY <1>0, <2>1, FirstsAre DEF Own
  <2>2. ASSUME NEW i \in 1 .. Len(u), IsOverflow(u[i]) PROVE u[i].first \in Firsts(s)
    BY <1>0, <2>2, FirstsAre
  <2>3. ASSUME NEW i \in 1 .. Len(v), IsOverflow(v[i]) PROVE v[i].first \in Firsts(s)
    <3>1. m + i \in 1 .. Len(s) /\ v[i] = s[m + i]
      BY <1>0
    <3>2. IsOverflow(s[m + i]) /\ s[m + i].first = v[i].first
      BY <2>3, <3>1
    <3> QED
      BY <3>1, <3>2, FirstsAre
  <2>4. Own(x) \subseteq Firsts(s)
    BY <1>0, FirstsAre DEF Own
  <2>5. \A y \in Firsts(s) : y \in Firsts(u) \cup Firsts(v) \cup Own(x)
    BY <2>1, FirstsAre
  <2>6. (\A y \in Firsts(u) : y \in Firsts(s)) /\ (\A y \in Firsts(v) : y \in Firsts(s))
    BY <2>2, <2>3, FirstsAre
  <2> QED
    BY <2>4, <2>5, <2>6
<1>2. ASSUME OneEach(u), OneEach(v), Firsts(u) \cap Firsts(v) = {},
             Own(x) \cap Firsts(u) = {}, Own(x) \cap Firsts(v) = {}
      PROVE  OneEach(s)
  <2>1. /\ \A j \in 1 .. Len(u) : IsOverflow(u[j]) => u[j].first \in Firsts(u)
        /\ \A j \in 1 .. Len(v) : IsOverflow(v[j]) => v[j].first \in Firsts(v)
        /\ IsOverflow(x) => x.first \in Own(x)
    BY FirstsAre DEF Own
  <2> SUFFICES ASSUME NEW i \in 1 .. Len(s), NEW j \in 1 .. Len(s), IsOverflow(s[i]), IsOverflow(s[j]),
                      s[i].first = s[j].first
               PROVE  i = j
    BY DEF OneEach
  <2>2. /\ \A k, l \in 1 .. Len(u) : IsOverflow(u[k]) /\ IsOverflow(u[l]) /\ u[k].first = u[l].first => k = l
        /\ \A k, l \in 1 .. Len(v) : IsOverflow(v[k]) /\ IsOverflow(v[l]) /\ v[k].first = v[l].first => k = l
    BY <1>2 DEF OneEach
  <2>3. /\ \/ i \in 1 .. Len(u) /\ u[i] = s[i]
           \/ i = m /\ s[i] = x
           \/ i - m \in 1 .. Len(v) /\ v[i - m] = s[i]
        /\ \/ j \in 1 .. Len(u) /\ u[j] = s[j]
           \/ j = m /\ s[j] = x
           \/ j - m \in 1 .. Len(v) /\ v[j - m] = s[j]
    BY <1>0
  <2>4. i - m = j - m => i = j
    BY <1>0
  <2>5. CASE i \in 1 .. Len(u) /\ u[i] = s[i]
    <3>1. s[i].first \in Firsts(u)
      BY <2>1, <2>5
    <3> QED
      BY <1>2, <2>1, <2>2, <2>3, <2>5, <3>1
  <2>6. CASE i = m /\ s[i] = x
    <3>1. s[i].first \in Own(x)
      BY <2>1, <2>6
    <3> QED
      BY <1>2, <2>1, <2>3, <2>6, <3>1
  <2>7. CASE i - m \in 1 .. Len(v) /\ v[i - m] = s[i]
    <3>1. s[i].first \in Firsts(v)
      BY <2>1, <2>7
    <3> QED
      BY <1>2, <2>1, <2>2, <2>3, <2>4, <2>7, <3>1
  <2> QED
    BY <2>3, <2>5, <2>6, <2>7
<1>3. ASSUME OneEach(s)
      PROVE  /\ OneEach(u) /\ OneEach(v) /\ Firsts(u) \cap Firsts(v) = {}
             /\ Own(x) \cap Firsts(u) = {} /\ Own(x) \cap Firsts(v) = {}
  <2>1. \A k, l \in 1 .. Len(s) : IsOverflow(s[k]) /\ IsOverflow(s[l]) /\ s[k].first = s[l].first => k = l
    BY <1>3 DEF OneEach
  <2>2. OneEach(u)
    BY <1>0, <2>1 DEF OneEach
  <2>3. OneEach(v)
    <3> SUFFICES ASSUME NEW i \in 1 .. Len(v), NEW j \in 1 .. Len(v), IsOverflow(v[i]), IsOverflow(v[j]),
                        v[i].first = v[j].first
                 PROVE  i = j
      BY DEF OneEach
    <3>0. m + i \in 1 .. Len(s) /\ v[i] = s[m + i] /\ m + j \in 1 .. Len(s) /\ v[j] = s[m + j]
      BY <1>0
    <3>1. m + i = m + j
      BY <2>1, <3>0
    <3> QED
      BY <1>0, <3>1
  <2>4. ASSUME NEW y \in Firsts(u), y \in Firsts(v) PROVE FALSE
    <3>1. PICK i \in 1 .. Len(u) : IsOverflow(u[i]) /\ u[i].first = y
      BY FirstsAre
    <3>2. PICK j \in 1 .. Len(v) : IsOverflow(v[j]) /\ v[j].first = y
      BY <2>4, FirstsAre
    <3>3. i = m + j
      BY <1>0, <2>1, <3>1, <3>2
    <3> QED
      BY <1>0, <3>3
  <2>5. ASSUME NEW y \in Own(x), y \in Firsts(u) PROVE FALSE
    <3>1. PICK i \in 1 .. Len(u) : IsOverflow(u[i]) /\ u[i].first = y
      BY <2>5, FirstsAre
    <3>3. i = m
      BY <1>0, <2>1, <3>1 DEF Own
    <3> QED
      BY <1>0, <3>3
  <2>6. ASSUME NEW y \in Own(x), y \in Firsts(v) PROVE FALSE
    <3>2. PICK j \in 1 .. Len(v) : IsOverflow(v[j]) /\ v[j].first = y
      BY <2>6, FirstsAre
    <3>3. m = m + j
      BY <1>0, <2>1, <3>2 DEF Own
    <3> QED
      BY <1>0, <3>3
  <2> QED
    BY <2>2, <2>3, <2>4, <2>5, <2>6
<1>4. CutFirsts(s, u, v, x)
  BY <1>1, <1>2, <1>3 DEF CutFirsts
<1> QED
  BY <1>4 DEF x, m

\* The pages named by the cells of two siblings, of their parent and of the whole.
PartedFirsts(d1, d2, T, p, a, z, x) ==
  /\ p \in T /\ a \in T /\ z \notin T /\ p # a
  /\ Firsts(d2[p].cells) = Firsts(d1[p].cells) \cup Own(x)
  /\ OneEach(d2[p].cells) <=> OneEach(d1[p].cells) /\ Own(x) \cap Firsts(d1[p].cells) = {}
  /\ CutFirsts(d1[a].cells, d2[a].cells, d2[z].cells, x)

\* A parted node and its parts name the same pages.
LEMMA PartedFirstsHold ==
  ASSUME NEW d1, NEW d2, NEW T, NEW p, NEW n, NEW a, NEW z, NEW t,
         Parted(d1, d2, T, p, n, a, z, t), Nodes(d1, T), Nodes(d2, T \cup {z})
  PROVE  PartedFirsts(d1, d2, T, p, a, z, d1[a].cells[t + 1])
<1> DEFINE x == d1[a].cells[t + 1]
<1>1. PartedSeqs(d1, d2, T, p, n, a, z, t)
  BY PartedSeqsHold
<1>2. /\ Len(d1[p].cells) \in Nat /\ Inserted(d1[p].cells, d2[p].cells, n, x)
      /\ t \in Nat /\ Len(d1[a].cells) \in Nat /\ Len(d2[a].cells) = t /\ Len(d2[z].cells) \in Nat
      /\ t + 1 \in 1 .. Len(d1[a].cells)
      /\ Cut(d1[a].cells, d2[a].cells, d2[z].cells, t + 1)
      /\ p \in T /\ a \in T /\ z \notin T /\ p # a
  BY <1>1 DEF PartedSeqs
<1>3. CutFirsts(d1[a].cells, d2[a].cells, d2[z].cells, x)
  BY <1>2, CutHeads
<1> HIDE DEF x
<1>4. /\ Firsts(d2[p].cells) = Firsts(d1[p].cells) \cup Own(x)
      /\ OneEach(d2[p].cells) <=> OneEach(d1[p].cells) /\ Own(x) \cap Firsts(d1[p].cells) = {}
  BY <1>2, InsertedHeads
<1>5. PartedFirsts(d1, d2, T, p, a, z, x)
  BY <1>2, <1>3, <1>4 DEF PartedFirsts
<1> QED
  BY <1>5 DEF x

\* Parting a node: each overflow chain keeps its cell.
LEMMA PartedHeads ==
  ASSUME NEW d1, NEW d2, NEW T, NEW p, NEW n, NEW a, NEW z, NEW t, NEW H,
         Parted(d1, d2, T, p, n, a, z, t), Nodes(d1, T), Nodes(d2, T \cup {z}), Heads(d1, T, H)
  PROVE  Heads(d2, T \cup {z}, H)
<1> DEFINE x == d1[a].cells[t + 1]
<1>1. PICK home : HeadsBy(d1, T, H, home)
  BY DEF Heads
<1>2. PartedFirsts(d1, d2, T, p, a, z, x)
  BY PartedFirstsHold
<1> HIDE DEF x
<1> DEFINE A == Firsts(d2[a].cells)
           Z == Firsts(d2[z].cells)
           O == Own(x)
           g == [y \in H |-> IF home[y] # a THEN home[y] ELSE IF y \in A THEN a ELSE IF y \in Z THEN z ELSE p]
<1>3. /\ home \in [H -> T]
      /\ \A q \in T : Firsts(d1[q].cells) = {y \in H : home[y] = q} /\ OneEach(d1[q].cells)
  BY <1>1 DEF HeadsBy, HeadsOf
<1>4. /\ p \in T /\ a \in T /\ z \notin T /\ p # a
      /\ Firsts(d2[p].cells) = {y \in H : home[y] = p} \cup O
      /\ OneEach(d2[p].cells) <=> O \cap {y \in H : home[y] = p} = {}
      /\ A \cup Z \cup O = {y \in H : home[y] = a}
      /\ OneEach(d2[a].cells) /\ OneEach(d2[z].cells)
      /\ A \cap Z = {} /\ O \cap A = {} /\ O \cap Z = {}
  BY <1>2, <1>3 DEF PartedFirsts, CutFirsts
<1>5. OneEach(d2[p].cells)
  BY <1>4
<1> HIDE DEF A, Z, O
<1>6. /\ g \in [H -> T \cup {z}]
      /\ \A y \in H : g[y] = IF home[y] # a THEN home[y] ELSE IF y \in A THEN a ELSE IF y \in Z THEN z ELSE p
  BY <1>3, <1>4
<1> HIDE DEF g
<1>7. ASSUME NEW q \in T \cup {z} PROVE HeadsOf(d2[q].cells, {y \in H : g[y] = q})
  <2>1. CASE q \in T \ {p, a}
    <3>1. d2[q] = d1[q]
      BY <2>1 DEF Parted
    <3>2. {y \in H : g[y] = q} = {y \in H : home[y] = q}
      BY <1>4, <1>6, <2>1
    <3> QED
      BY <1>3, <2>1, <3>1, <3>2 DEF HeadsOf
  <2>2. CASE q = p
    <3>2. {y \in H : g[y] = p} = {y \in H : home[y] = p} \cup O
      BY <1>4, <1>6
    <3> QED
      BY <1>4, <1>5, <2>2, <3>2 DEF HeadsOf
  <2>3. CASE q = a
    <3>2. {y \in H : g[y] = a} = A
      BY <1>4, <1>6
    <3> QED
      BY <1>4, <2>3, <3>2 DEF HeadsOf, A
  <2>4. CASE q = z
    <3>2. {y \in H : g[y] = z} = Z
      BY <1>3, <1>4, <1>6
    <3> QED
      BY <1>4, <2>4, <3>2 DEF HeadsOf, Z
  <2> QED
    BY <2>1, <2>2, <2>3, <2>4
<1>8. HeadsBy(d2, T \cup {z}, H, g)
  BY <1>6, <1>7 DEF HeadsBy
<1> QED
  BY <1>8 DEF Heads

\* Joining two siblings: each overflow chain keeps its cell.
LEMMA JoinedHeads ==
  ASSUME NEW d1, NEW d2, NEW T, NEW p, NEW n, NEW a, NEW z, NEW t, NEW H,
         Parted(d1, d2, T, p, n, a, z, t), Nodes(d1, T), Nodes(d2, T \cup {z}), Heads(d2, T \cup {z}, H)
  PROVE  Heads(d1, T, H)
<1> DEFINE x == d1[a].cells[t + 1]
<1>1. PICK home : HeadsBy(d2, T \cup {z}, H, home)
  BY DEF Heads
<1>2. PartedFirsts(d1, d2, T, p, a, z, x)
  BY PartedFirstsHold
<1> HIDE DEF x
<1> DEFINE O == Own(x)
           g == [y \in H |-> IF home[y] = z \/ y \in O THEN a ELSE home[y]]
<1>3. /\ home \in [H -> T \cup {z}]
      /\ \A q \in T \cup {z} : Firsts(d2[q].cells) = {y \in H : home[y] = q} /\ OneEach(d2[q].cells)
  BY <1>1 DEF HeadsBy, HeadsOf
<1>4. /\ p \in T /\ a \in T /\ z \notin T /\ p # a
      /\ {y \in H : home[y] = p} = Firsts(d1[p].cells) \cup O
      /\ OneEach(d1[p].cells) /\ O \cap Firsts(d1[p].cells) = {}
      /\ Firsts(d1[a].cells) = {y \in H : home[y] = a} \cup {y \in H : home[y] = z} \cup O
  BY <1>2, <1>3 DEF PartedFirsts, CutFirsts
<1>5. OneEach(d1[a].cells)
  <2>1. /\ CutFirsts(d1[a].cells, d2[a].cells, d2[z].cells, x)
        /\ OneEach(d2[a].cells) /\ OneEach(d2[z].cells)
    BY <1>2, <1>3 DEF PartedFirsts
  <2>2. /\ Firsts(d2[a].cells) = {y \in H : home[y] = a} /\ Firsts(d2[z].cells) = {y \in H : home[y] = z}
        /\ O \subseteq {y \in H : home[y] = p}
    BY <1>3, <1>4
  <2>3. /\ Firsts(d2[a].cells) \cap Firsts(d2[z].cells) = {}
        /\ O \cap Firsts(d2[a].cells) = {} /\ O \cap Firsts(d2[z].cells) = {}
    BY <1>4, <2>2
  <2> QED
    BY <2>1, <2>3 DEF CutFirsts
<1> HIDE DEF O
<1>6. g \in [H -> T] /\ \A y \in H : g[y] = IF home[y] = z \/ y \in O THEN a ELSE home[y]
  BY <1>3, <1>4
<1> HIDE DEF g
<1>7. ASSUME NEW q \in T PROVE HeadsOf(d1[q].cells, {y \in H : g[y] = q})
  <2>1. CASE q \in T \ {p, a}
    <3>1. d2[q] = d1[q]
      BY <2>1 DEF Parted
    <3>2. {y \in H : g[y] = q} = {y \in H : home[y] = q}
      BY <1>4, <1>6, <2>1
    <3> QED
      BY <1>3, <2>1, <3>1, <3>2 DEF HeadsOf
  <2>2. CASE q = p
    <3>2. {y \in H : g[y] = p} = Firsts(d1[p].cells)
      BY <1>4, <1>6
    <3> QED
      BY <1>4, <2>2, <3>2 DEF HeadsOf
  <2>3. CASE q = a
    <3>2. {y \in H : g[y] = a} = Firsts(d1[a].cells)
      BY <1>4, <1>6
    <3> QED
      BY <1>5, <2>3, <3>2 DEF HeadsOf
  <2> QED
    BY <2>1, <2>2, <2>3
<1>8. HeadsBy(d1, T, H, g)
  BY <1>6, <1>7 DEF HeadsBy
<1> QED
  BY <1>8 DEF Heads

--------------------------------------------------------------------------------
\* Sequences: inserting, removing, cutting and joining.

\* The operators on sequences that the engine uses.
LEMMA SubSeqIs ==
  ASSUME NEW S, NEW s \in Seq(S), NEW i \in 1 .. Len(s) + 1, NEW j \in 0 .. Len(s), i <= j + 1
  PROVE  /\ SubSeq(s, i, j) \in Seq(S) /\ Len(SubSeq(s, i, j)) = j - i + 1
         /\ \A l \in 1 .. j - i + 1 : SubSeq(s, i, j)[l] = s[i + l - 1]
<1>1. SubSeq(s, i, j) = [l \in 1 .. j - i + 1 |-> s[i + l - 1]]
  OBVIOUS
<1>2. \A l \in 1 .. j - i + 1 : i + l - 1 \in 1 .. Len(s)
  OBVIOUS
<1>3. j - i + 1 \in Nat
  OBVIOUS
<1> QED
  BY <1>1, <1>2, <1>3

\* InsertAt, index by index.
LEMMA InsertAtIs ==
  ASSUME NEW S, NEW s \in Seq(S), NEW x \in S, NEW n \in 1 .. Len(s) + 1
  PROVE  InsertAt(s, n, x) \in Seq(S) /\ Inserted(s, InsertAt(s, n, x), n, x)
<1> DEFINE u == SubSeq(s, 1, n - 1)
           v == SubSeq(s, n, Len(s))
           w == InsertAt(s, n, x)
<1>1. /\ u \in Seq(S) /\ Len(u) = n - 1 /\ \A l \in 1 .. n - 1 : u[l] = s[l]
  <2>1. 1 \in 1 .. Len(s) + 1 /\ n - 1 \in 0 .. Len(s) /\ 1 <= (n - 1) + 1
    OBVIOUS
  <2>2. \A l \in 1 .. n - 1 : 1 + l - 1 = l
    OBVIOUS
  <2> QED
    BY <2>1, <2>2, SubSeqIs
<1>2. /\ v \in Seq(S) /\ Len(v) = Len(s) - n + 1 /\ \A l \in 1 .. Len(s) - n + 1 : v[l] = s[n + l - 1]
  <2>1. n \in 1 .. Len(s) + 1 /\ Len(s) \in 0 .. Len(s) /\ n <= Len(s) + 1
    OBVIOUS
  <2> QED
    BY <2>1, SubSeqIs
<1>3. w = u \o <<x>> \o v
  BY DEF InsertAt
<1> HIDE DEF u, v, w
<1>4. w \in Seq(S) /\ Len(w) = Len(s) + 1
  <2>1. w \in Seq(S) /\ Len(w) = Len(u) + 1 + Len(v)
    <3>1. \A a \in Seq(S), b \in Seq(S) : a \o <<x>> \o b \in Seq(S) /\ Len(a \o <<x>> \o b) = Len(a) + 1 + Len(b)
      OBVIOUS
    <3> QED
      BY <1>1, <1>2, <1>3, <3>1
  <2>2. (n - 1) + 1 + (Len(s) - n + 1) = Len(s) + 1
    OBVIOUS
  <2> QED
    BY <1>1, <1>2, <2>1, <2>2
<1>5. ASSUME NEW l \in 1 .. Len(s) + 1 PROVE w[l] = IF l < n THEN s[l] ELSE IF l = n THEN x ELSE s[l - 1]
  <2>1. CASE l < n
    BY <1>1, <1>2, <1>3, <2>1
  <2>2. CASE l = n
    BY <1>1, <1>2, <1>3, <2>2
  <2>3. CASE l > n
    <3>1. l - n \in 1 .. Len(s) - n + 1 /\ w[l] = v[l - n]
      BY <1>1, <1>2, <1>3, <2>3
    <3>2. v[l - n] = s[n + (l - n) - 1] /\ n + (l - n) - 1 = l - 1
      BY <1>2, <3>1
    <3> QED
      BY <2>3, <3>1, <3>2
  <2> QED
    BY <2>1, <2>2, <2>3
<1>6. Inserted(s, w, n, x)
  BY <1>4, <1>5 DEF Inserted
<1> QED
  BY <1>4, <1>6 DEF w

\* RemoveAt, index by index.
LEMMA RemoveAtIs ==
  ASSUME NEW S, NEW s \in Seq(S), NEW n \in 1 .. Len(s)
  PROVE  RemoveAt(s, n) \in Seq(S) /\ Inserted(RemoveAt(s, n), s, n, s[n])
<1> DEFINE u == SubSeq(s, 1, n - 1)
           v == SubSeq(s, n + 1, Len(s))
           w == RemoveAt(s, n)
<1>1. /\ u \in Seq(S) /\ Len(u) = n - 1 /\ \A l \in 1 .. n - 1 : u[l] = s[l]
  <2>1. 1 \in 1 .. Len(s) + 1 /\ n - 1 \in 0 .. Len(s) /\ 1 <= (n - 1) + 1
    OBVIOUS
  <2>2. \A l \in 1 .. n - 1 : 1 + l - 1 = l
    OBVIOUS
  <2> QED
    BY <2>1, <2>2, SubSeqIs
<1>2. /\ v \in Seq(S) /\ Len(v) = Len(s) - n /\ \A l \in 1 .. Len(s) - n : v[l] = s[n + l]
  <2>1. n + 1 \in 1 .. Len(s) + 1 /\ Len(s) \in 0 .. Len(s) /\ n + 1 <= Len(s) + 1
    OBVIOUS
  <2>2. /\ v \in Seq(S) /\ Len(v) = Len(s) - (n + 1) + 1
        /\ \A l \in 1 .. Len(s) - (n + 1) + 1 : v[l] = s[(n + 1) + l - 1]
    BY <2>1, SubSeqIs
  <2>3. Len(s) - (n + 1) + 1 = Len(s) - n /\ \A l \in 1 .. Len(s) - n : (n + 1) + l - 1 = n + l
    OBVIOUS
  <2> HIDE DEF v
  <2> QED
    BY <2>2, <2>3
<1>3. w = u \o v
  BY DEF RemoveAt
<1> HIDE DEF u, v, w
<1>4. w \in Seq(S) /\ Len(w) = Len(s) - 1
  <2>1. w \in Seq(S) /\ Len(w) = Len(u) + Len(v)
    <3>1. \A a \in Seq(S), b \in Seq(S) : a \o b \in Seq(S) /\ Len(a \o b) = Len(a) + Len(b)
      OBVIOUS
    <3> QED
      BY <1>1, <1>2, <1>3, <3>1
  <2>2. (n - 1) + (Len(s) - n) = Len(s) - 1
    OBVIOUS
  <2> QED
    BY <1>1, <1>2, <2>1, <2>2
<1>5. ASSUME NEW l \in 1 .. Len(s) - 1 PROVE w[l] = IF l < n THEN s[l] ELSE s[l + 1]
  <2>1. CASE l < n
    BY <1>1, <1>2, <1>3, <2>1
  <2>3. CASE l >= n
    <3>1. l - (n - 1) \in 1 .. Len(s) - n /\ w[l] = v[l - (n - 1)]
      BY <1>1, <1>2, <1>3, <2>3
    <3>2. v[l - (n - 1)] = s[n + (l - (n - 1))] /\ n + (l - (n - 1)) = l + 1
      BY <1>2, <3>1
    <3> QED
      BY <2>3, <3>1, <3>2
  <2> QED
    BY <2>1, <2>3
<1>6. Inserted(w, s, n, s[n])
  BY <1>4, <1>5 DEF Inserted
<1> QED
  BY <1>4, <1>6 DEF w

\* Another element at the same place.
LEMMA InsertedOther ==
  ASSUME NEW s, NEW s2, NEW n, NEW x, NEW y, Inserted(s, s2, n, x), NEW S, s2 \in Seq(S), y \in S
  PROVE  ReplaceAt(s2, n, y) \in Seq(S) /\ Inserted(s, ReplaceAt(s2, n, y), n, y)
<1>1. n \in 1 .. Len(s2)
  BY DEF Inserted
<1>2. ReplaceAt(s2, n, y) = [s2 EXCEPT ![n] = y]
  BY DEF ReplaceAt
<1>3. /\ ReplaceAt(s2, n, y) \in Seq(S) /\ Len(ReplaceAt(s2, n, y)) = Len(s2)
      /\ \A j \in 1 .. Len(s2) : ReplaceAt(s2, n, y)[j] = IF j = n THEN y ELSE s2[j]
  BY <1>1, <1>2
<1> DEFINE w == ReplaceAt(s2, n, y)
<1> HIDE DEF w
<1>4. Len(w) = Len(s2) /\ \A j \in 1 .. Len(s2) : w[j] = IF j = n THEN y ELSE s2[j]
  BY <1>3 DEF w
<1>5. /\ Len(s2) = Len(s) + 1
      /\ \A j \in 1 .. Len(s2) : \/ j < n /\ j \in 1 .. Len(s) /\ s2[j] = s[j]
                                 \/ j = n
                                 \/ j > n /\ j - 1 \in 1 .. Len(s) /\ s2[j] = s[j - 1]
      /\ \A j \in 1 .. Len(s) : \/ j < n /\ j \in 1 .. Len(s2) /\ s2[j] = s[j]
                                \/ j >= n /\ j + 1 \in 1 .. Len(s2) /\ s2[j + 1] = s[j]
  BY DEF Inserted
<1>6. Len(s2) \in Nat /\ n \in Nat
  BY <1>1
<1>7. Inserted(s, w, n, y)
  <2>1. \A j \in 1 .. Len(w) : \/ j < n /\ j \in 1 .. Len(s) /\ w[j] = s[j]
                               \/ j = n
                               \/ j > n /\ j - 1 \in 1 .. Len(s) /\ w[j] = s[j - 1]
    BY <1>4, <1>5, <1>6
  <2>2. \A j \in 1 .. Len(s) : \/ j < n /\ j \in 1 .. Len(w) /\ w[j] = s[j]
                               \/ j >= n /\ j + 1 \in 1 .. Len(w) /\ w[j + 1] = s[j]
    <3> TAKE j \in 1 .. Len(s)
    <3>1. CASE j < n /\ j \in 1 .. Len(s2) /\ s2[j] = s[j]
      BY <1>4, <1>5, <1>6, <3>1
    <3>2. CASE j >= n /\ j + 1 \in 1 .. Len(s2) /\ s2[j + 1] = s[j]
      <4>1. j + 1 # n
        BY <1>6, <3>2
      <4> QED
        BY <1>4, <1>5, <1>6, <3>2, <4>1
    <3> QED
      BY <1>5, <3>1, <3>2
  <2> QED
    BY <1>1, <1>4, <1>5, <2>1, <2>2 DEF Inserted
<1> QED
  BY <1>3, <1>7 DEF w

\* The beginning and the end of a sequence.
LEMMA SubSeqCut ==
  ASSUME NEW S, NEW s \in Seq(S), NEW l \in 0 .. Len(s), NEW m \in l .. Len(s)
  PROVE  /\ SubSeq(s, 1, l) \in Seq(S) /\ Len(SubSeq(s, 1, l)) = l
         /\ SubSeq(s, m + 1, Len(s)) \in Seq(S) /\ Len(SubSeq(s, m + 1, Len(s))) = Len(s) - m
         /\ Cut(s, SubSeq(s, 1, l), SubSeq(s, m + 1, Len(s)), m)
<1> DEFINE u == SubSeq(s, 1, l)
           v == SubSeq(s, m + 1, Len(s))
<1>1. u \in Seq(S) /\ Len(u) = l /\ \A j \in 1 .. l : u[j] = s[j]
  <2>1. 1 \in 1 .. Len(s) + 1 /\ l \in 0 .. Len(s) /\ 1 <= l + 1 /\ l - 1 + 1 = l
    OBVIOUS
  <2>2. \A j \in 1 .. l : 1 + j - 1 = j
    OBVIOUS
  <2> QED
    BY <2>1, <2>2, SubSeqIs
<1>2. /\ v \in Seq(S) /\ Len(v) = Len(s) - m /\ \A j \in 1 .. Len(s) - m : v[j] = s[m + j]
  <2>1. m + 1 \in 1 .. Len(s) + 1 /\ Len(s) \in 0 .. Len(s) /\ m + 1 <= Len(s) + 1
    OBVIOUS
  <2>2. /\ v \in Seq(S) /\ Len(v) = Len(s) - (m + 1) + 1
        /\ \A j \in 1 .. Len(s) - (m + 1) + 1 : v[j] = s[(m + 1) + j - 1]
    BY <2>1, SubSeqIs
  <2>3. Len(s) - (m + 1) + 1 = Len(s) - m /\ \A j \in 1 .. Len(s) - m : (m + 1) + j - 1 = m + j
    OBVIOUS
  <2> HIDE DEF v
  <2> QED
    BY <2>2, <2>3
<1> HIDE DEF u, v
<1>3. Cut(s, u, v, m)
  <2>1. \A j \in 1 .. Len(s) : \/ j \in 1 .. Len(u) /\ u[j] = s[j]
                               \/ j > Len(u) /\ j <= m
                               \/ j > m /\ j - m \in 1 .. Len(v) /\ v[j - m] = s[j]
    <3> TAKE j \in 1 .. Len(s)
    <3>1. CASE j > m
      <4>1. j - m \in 1 .. Len(s) - m /\ m + (j - m) = j
        BY <3>1
      <4> QED
        BY <1>2, <3>1, <4>1
    <3>2. CASE j <= m
      BY <1>1, <3>2
    <3> QED
      BY <3>1, <3>2
  <2> QED
    BY <1>1, <1>2, <2>1 DEF Cut
<1> QED
  BY <1>1, <1>2, <1>3 DEF u, v

\* Two sequences one after the other.
LEMMA ConcatCut ==
  ASSUME NEW S, NEW u \in Seq(S), NEW v \in Seq(S)
  PROVE  u \o v \in Seq(S) /\ Len(u \o v) = Len(u) + Len(v) /\ Cut(u \o v, u, v, Len(u))
<1> DEFINE w == u \o v
           m == Len(u)
<1>1. w \in Seq(S) /\ Len(w) = Len(u) + Len(v) /\ m \in Nat /\ Len(v) \in Nat /\ m = Len(u)
  OBVIOUS
<1>2. \A j \in 1 .. m : w[j] = u[j]
  OBVIOUS
<1>3. \A j \in 1 .. Len(v) : w[m + j] = v[j]
  OBVIOUS
<1> HIDE DEF w, m
<1>4. Cut(w, u, v, m)
  <2>1. \A j \in 1 .. Len(w) : \/ j \in 1 .. Len(u) /\ u[j] = w[j]
                               \/ j > Len(u) /\ j <= m
                               \/ j > m /\ j - m \in 1 .. Len(v) /\ v[j - m] = w[j]
    <3> TAKE j \in 1 .. Len(w)
    <3>1. CASE j > m
      <4>1. j - m \in 1 .. Len(v) /\ m + (j - m) = j
        BY <1>1, <3>1
      <4> QED
        BY <1>3, <3>1, <4>1
    <3>2. CASE j <= m
      BY <1>1, <1>2, <3>2
    <3> QED
      BY <1>1, <3>1, <3>2
  <2> QED
    BY <1>1, <1>2, <1>3, <2>1 DEF Cut
<1> QED
  BY <1>1, <1>4 DEF w, m

\* Two sequences with an element between.
Between2(w, u, x, v) ==
  /\ Len(w) = Len(u) + 1 + Len(v) /\ w[Len(u) + 1] = x
  /\ \A j \in 1 .. Len(u) : w[j] = u[j]
  /\ \A j \in 1 .. Len(v) : w[Len(u) + 1 + j] = v[j]

\* Two sequences joined by an element, index by index.
LEMMA ConcatBetween ==
  ASSUME NEW S, NEW u \in Seq(S), NEW v \in Seq(S), NEW x \in S
  PROVE  u \o <<x>> \o v \in Seq(S) /\ Between2(u \o <<x>> \o v, u, x, v)
<1> DEFINE w == u \o <<x>> \o v
<1>1. w \in Seq(S) /\ Len(w) = Len(u) + 1 + Len(v)
  OBVIOUS
<1>2. w[Len(u) + 1] = x
  OBVIOUS
<1>3. \A j \in 1 .. Len(u) : w[j] = u[j]
  OBVIOUS
<1>4. \A j \in 1 .. Len(v) : w[Len(u) + 1 + j] = v[j]
  OBVIOUS
<1> QED
  BY <1>1, <1>2, <1>3, <1>4 DEF Between2

\* Joining by an element is the converse of cutting.
LEMMA BetweenCut ==
  ASSUME NEW w, NEW u, NEW x, NEW v, Between2(w, u, x, v), Len(u) \in Nat, Len(v) \in Nat
  PROVE  Cut(w, u, v, Len(u) + 1)
<1> DEFINE m == Len(u) + 1
<1>1. /\ Len(w) = m + Len(v) /\ m \in Nat /\ m = Len(u) + 1
      /\ \A j \in 1 .. Len(u) : w[j] = u[j]
      /\ \A j \in 1 .. Len(v) : w[m + j] = v[j]
  BY DEF Between2
<1> HIDE DEF m
<1>2. Cut(w, u, v, m)
  <2>1. \A j \in 1 .. Len(w) : \/ j \in 1 .. Len(u) /\ u[j] = w[j]
                               \/ j > Len(u) /\ j <= m
                               \/ j > m /\ j - m \in 1 .. Len(v) /\ v[j - m] = w[j]
    <3> TAKE j \in 1 .. Len(w)
    <3>1. CASE j > m
      <4>1. j - m \in 1 .. Len(v) /\ m + (j - m) = j
        BY <1>1, <3>1
      <4> QED
        BY <1>1, <3>1, <4>1
    <3>2. CASE j <= m
      BY <1>1, <3>2
    <3> QED
      BY <1>1, <3>1, <3>2
  <2> QED
    BY <1>1, <2>1 DEF Cut
<1> QED
  BY <1>2 DEF m

--------------------------------------------------------------------------------
\* What the restructurings write.

\* What makes a cut, index by index.
LEMMA MakeCut ==
  ASSUME NEW w, NEW u, NEW v, NEW m \in Nat, Len(u) \in Nat, Len(u) <= m, Len(v) \in Nat, Len(w) = m + Len(v),
         \A j \in 1 .. Len(u) : u[j] = w[j],
         \A j \in 1 .. Len(v) : v[j] = w[m + j]
  PROVE  Cut(w, u, v, m)
<1>1. \A j \in 1 .. Len(w) : \/ j \in 1 .. Len(u) /\ u[j] = w[j]
                             \/ j > Len(u) /\ j <= m
                             \/ j > m /\ j - m \in 1 .. Len(v) /\ v[j - m] = w[j]
  <2> TAKE j \in 1 .. Len(w)
  <2>1. CASE j > m
    <3>1. j - m \in 1 .. Len(v) /\ m + (j - m) = j
      BY <2>1
    <3> QED
      BY <2>1, <3>1
  <2>2. CASE j <= m
    BY <2>2
  <2> QED
    BY <2>1, <2>2
<1> QED
  BY <1>1 DEF Cut

\* Two sequences one after the other, index by index.
Concat2(w, u, v) ==
  /\ Len(w) = Len(u) + Len(v)
  /\ \A j \in 1 .. Len(u) : w[j] = u[j]
  /\ \A j \in 1 .. Len(v) : w[Len(u) + j] = v[j]

\* Two sequences joined, index by index.
LEMMA ConcatIs ==
  ASSUME NEW S, NEW u \in Seq(S), NEW v \in Seq(S)
  PROVE  u \o v \in Seq(S) /\ Concat2(u \o v, u, v)
BY DEF Concat2

\* The last element of the left part goes to the right one.
ShiftedRight(S, w, u, x, v) ==
  /\ Front(u) \in Seq(S) /\ Len(Front(u)) = Len(u) - 1
  /\ <<x>> \o v \in Seq(S) /\ Len(<<x>> \o v) = Len(v) + 1
  /\ w[Len(u)] = Last(u) /\ Last(u) \in S
  /\ Cut(w, Front(u), <<x>> \o v, Len(u))

\* The last element of the left part moves to the right part.
LEMMA ShiftRight ==
  ASSUME NEW S, NEW u \in Seq(S), NEW v \in Seq(S), NEW x \in S, NEW w, Between2(w, u, x, v), Len(u) >= 1
  PROVE  ShiftedRight(S, w, u, x, v)
<1> DEFINE f == Front(u)
           g == <<x>> \o v
<1>1. /\ f \in Seq(S) /\ Len(f) = Len(u) - 1 /\ \A j \in 1 .. Len(u) - 1 : f[j] = u[j]
  <2>1. f = SubSeq(u, 1, Len(u) - 1)
    BY DEF Front
  <2>2. 1 \in 1 .. Len(u) + 1 /\ Len(u) - 1 \in 0 .. Len(u) /\ 1 <= (Len(u) - 1) + 1 /\ (Len(u) - 1) - 1 + 1 = Len(u) - 1
    OBVIOUS
  <2>3. \A j \in 1 .. Len(u) - 1 : 1 + j - 1 = j
    OBVIOUS
  <2> HIDE DEF f
  <2> QED
    BY <2>1, <2>2, <2>3, SubSeqIs
<1>2. g \in Seq(S) /\ Len(g) = Len(v) + 1 /\ g[1] = x /\ \A j \in 2 .. Len(v) + 1 : g[j] = v[j - 1]
  OBVIOUS
<1>3. Last(u) = u[Len(u)] /\ Last(u) \in S
  BY DEF Last
<1> HIDE DEF f, g
<1>40. Len(u) \in Nat /\ Len(v) \in Nat
  OBVIOUS
<1>4. /\ Len(w) = Len(u) + 1 + Len(v) /\ w[Len(u) + 1] = x
      /\ \A j \in 1 .. Len(u) : w[j] = u[j]
      /\ \A j \in 1 .. Len(v) : w[Len(u) + 1 + j] = v[j]
  BY Zenon DEF Between2
<1>5. \A j \in 1 .. Len(f) : f[j] = w[j]
  BY <1>1, <1>4, <1>40
<1>6. ASSUME NEW j \in 1 .. Len(g) PROVE g[j] = w[Len(u) + j]
  <2>1. CASE j = 1
    BY <1>2, <1>4, <1>40, <2>1
  <2>2. CASE j > 1
    <3>1. j \in 2 .. Len(v) + 1 /\ j - 1 \in 1 .. Len(v) /\ Len(u) + 1 + (j - 1) = Len(u) + j
      BY <1>2, <1>4, <1>40, <2>2
    <3> QED
      BY <1>2, <1>4, <1>40, <3>1
  <2> QED
    BY <1>2, <2>1, <2>2
<1>7. Len(f) \in Nat /\ Len(f) <= Len(u) /\ Len(g) \in Nat /\ Len(w) = Len(u) + Len(g)
  BY <1>1, <1>2, <1>4, <1>40
<1>8. Cut(w, f, g, Len(u))
  BY <1>40, <1>5, <1>6, <1>7, MakeCut
<1>9. w[Len(u)] = Last(u)
  BY <1>3, <1>4, <1>40
<1> QED
  BY <1>1, <1>2, <1>3, <1>8, <1>9 DEF f, g, ShiftedRight

\* The first element of the right part goes to the left one.
LEMMA ShiftLeft ==
  ASSUME NEW S, NEW u \in Seq(S), NEW v \in Seq(S), NEW x \in S, NEW w, Between2(w, u, x, v), Len(v) >= 1
  PROVE  /\ Append(u, x) \in Seq(S) /\ Len(Append(u, x)) = Len(u) + 1
         /\ Tail(v) \in Seq(S) /\ Len(Tail(v)) = Len(v) - 1
         /\ w[Len(u) + 2] = Head(v) /\ Head(v) \in S
         /\ Cut(w, Append(u, x), Tail(v), Len(u) + 2)
<1> DEFINE f == Append(u, x)
           g == Tail(v)
<1>1. f \in Seq(S) /\ Len(f) = Len(u) + 1 /\ f[Len(u) + 1] = x /\ \A j \in 1 .. Len(u) : f[j] = u[j]
  OBVIOUS
<1>2. v # << >>
  OBVIOUS
<1>3. g \in Seq(S) /\ Len(g) = Len(v) - 1 /\ \A j \in 1 .. Len(v) - 1 : g[j] = v[j + 1]
  BY <1>2
<1>4. Head(v) = v[1] /\ Head(v) \in S
  BY <1>2
<1>5. /\ Len(w) = Len(u) + 1 + Len(v) /\ w[Len(u) + 1] = x /\ Len(u) \in Nat /\ Len(v) \in Nat
      /\ \A j \in 1 .. Len(u) : w[j] = u[j]
      /\ \A j \in 1 .. Len(v) : w[Len(u) + 1 + j] = v[j]
  BY DEF Between2
<1> HIDE DEF f, g
<1>6. \A j \in 1 .. Len(f) : f[j] = w[j]
  BY <1>1, <1>5
<1>7. ASSUME NEW j \in 1 .. Len(g) PROVE g[j] = w[Len(u) + 2 + j]
  <2>1. j + 1 \in 1 .. Len(v) /\ j \in 1 .. Len(v) - 1 /\ Len(u) + 1 + (j + 1) = Len(u) + 2 + j
    BY <1>3, <1>5
  <2> QED
    BY <1>3, <1>5, <2>1
<1>8. Len(f) \in Nat /\ Len(f) <= Len(u) + 2 /\ Len(g) \in Nat /\ Len(w) = Len(u) + 2 + Len(g) /\ Len(u) + 2 \in Nat
  BY <1>1, <1>3, <1>5
<1>9. Cut(w, f, g, Len(u) + 2)
  BY <1>6, <1>7, <1>8, MakeCut
<1>10. w[Len(u) + 2] = Head(v)
  <2>1. 1 \in 1 .. Len(v) /\ Len(u) + 1 + 1 = Len(u) + 2
    BY <1>5
  <2> QED
    BY <1>4, <1>5, <2>1
<1> QED
  BY <1>1, <1>3, <1>4, <1>9, <1>10 DEF f, g

\* The same for the children.
LEMMA ShiftKidRight ==
  ASSUME NEW S, NEW u \in Seq(S), NEW v \in Seq(S), Len(u) >= 1
  PROVE  /\ SubSeq(u, 1, Len(u) - 1) \in Seq(S) /\ Len(SubSeq(u, 1, Len(u) - 1)) = Len(u) - 1
         /\ SubSeq(u, Len(u), Len(u)) \o v \in Seq(S) /\ Len(SubSeq(u, Len(u), Len(u)) \o v) = Len(v) + 1
         /\ Cut(u \o v, SubSeq(u, 1, Len(u) - 1), SubSeq(u, Len(u), Len(u)) \o v, Len(u) - 1)
<1> DEFINE f == SubSeq(u, 1, Len(u) - 1)
           e == SubSeq(u, Len(u), Len(u))
           g == e \o v
           w == u \o v
<1>1. /\ f \in Seq(S) /\ Len(f) = Len(u) - 1 /\ \A j \in 1 .. Len(u) - 1 : f[j] = u[j]
  <2>2. 1 \in 1 .. Len(u) + 1 /\ Len(u) - 1 \in 0 .. Len(u) /\ 1 <= (Len(u) - 1) + 1 /\ (Len(u) - 1) - 1 + 1 = Len(u) - 1
    OBVIOUS
  <2>3. \A j \in 1 .. Len(u) - 1 : 1 + j - 1 = j
    OBVIOUS
  <2> QED
    BY <2>2, <2>3, SubSeqIs
<1>2. e \in Seq(S) /\ Len(e) = 1 /\ e[1] = u[Len(u)]
  <2>1. /\ Len(u) \in 1 .. Len(u) + 1 /\ Len(u) \in 0 .. Len(u) /\ Len(u) <= Len(u) + 1 /\ Len(u) - Len(u) + 1 = 1
        /\ Len(u) + 1 - 1 = Len(u) /\ 1 \in 1 .. 1
    OBVIOUS
  <2> QED
    BY <2>1, SubSeqIs
<1>3. w \in Seq(S) /\ Len(w) = Len(u) + Len(v) /\ (\A j \in 1 .. Len(u) : w[j] = u[j])
      /\ (\A j \in 1 .. Len(v) : w[Len(u) + j] = v[j])
  OBVIOUS
<1> HIDE DEF f, e, w
<1>40. g \in Seq(S) /\ Len(g) = Len(e) + Len(v) /\ (\A j \in 1 .. Len(e) : g[j] = e[j])
       /\ (\A j \in 1 .. Len(v) : g[Len(e) + j] = v[j])
  <2>1. g \in Seq(S) /\ Concat2(g, e, v)
    BY <1>2, ConcatIs
  <2> HIDE DEF g
  <2> QED
    BY <2>1 DEF Concat2
<1> HIDE DEF g
<1>4. g \in Seq(S) /\ Len(g) = Len(v) + 1 /\ g[1] = u[Len(u)] /\ \A j \in 2 .. Len(v) + 1 : g[j] = v[j - 1]
  <2>1. Len(v) \in Nat /\ 1 \in 1 .. 1 /\ \A j \in 2 .. Len(v) + 1 : j - 1 \in 1 .. Len(v) /\ 1 + (j - 1) = j
    OBVIOUS
  <2>2. \A j \in 1 .. Len(v) : g[1 + j] = v[j]
    BY <1>2, <1>40
  <2>3. \A j \in 2 .. Len(v) + 1 : g[j] = v[j - 1]
    <3> TAKE j \in 2 .. Len(v) + 1
    <3>1. g[1 + (j - 1)] = v[j - 1]
      BY <2>1, <2>2
    <3> QED
      BY <2>1, <3>1
  <2> QED
    BY <1>2, <1>40, <2>1, <2>3
<1>5. \A j \in 1 .. Len(f) : f[j] = w[j]
  BY <1>1, <1>3
<1>6. ASSUME NEW j \in 1 .. Len(g) PROVE g[j] = w[Len(u) - 1 + j]
  <2>1. CASE j = 1
    <3>1. Len(u) - 1 + 1 = Len(u) /\ Len(u) \in 1 .. Len(u)
      OBVIOUS
    <3> QED
      BY <1>3, <1>4, <2>1, <3>1
  <2>2. CASE j > 1
    <3>1. j \in 2 .. Len(v) + 1 /\ j - 1 \in 1 .. Len(v) /\ Len(u) + (j - 1) = Len(u) - 1 + j
      BY <1>4, <2>2
    <3> QED
      BY <1>3, <1>4, <3>1
  <2> QED
    BY <1>4, <2>1, <2>2
<1>7. Len(f) \in Nat /\ Len(f) <= Len(u) - 1 /\ Len(g) \in Nat /\ Len(w) = Len(u) - 1 + Len(g) /\ Len(u) - 1 \in Nat
  BY <1>1, <1>3, <1>4
<1>8. Cut(w, f, g, Len(u) - 1)
  BY <1>5, <1>6, <1>7, MakeCut
<1> QED
  BY <1>1, <1>4, <1>8 DEF f, g, w, e

\* The first element of the right part moves to the left part.
LEMMA ShiftKidLeft ==
  ASSUME NEW S, NEW u \in Seq(S), NEW v \in Seq(S), Len(v) >= 1
  PROVE  /\ u \o SubSeq(v, 1, 1) \in Seq(S) /\ Len(u \o SubSeq(v, 1, 1)) = Len(u) + 1
         /\ SubSeq(v, 2, Len(v)) \in Seq(S) /\ Len(SubSeq(v, 2, Len(v))) = Len(v) - 1
         /\ Cut(u \o v, u \o SubSeq(v, 1, 1), SubSeq(v, 2, Len(v)), Len(u) + 1)
<1> DEFINE e == SubSeq(v, 1, 1)
           f == u \o e
           g == SubSeq(v, 2, Len(v))
           w == u \o v
<1>1. e \in Seq(S) /\ Len(e) = 1 /\ e[1] = v[1]
  <2>1. /\ 1 \in 1 .. Len(v) + 1 /\ 1 \in 0 .. Len(v) /\ 1 <= 1 + 1 /\ 1 - 1 + 1 = 1 /\ 1 + 1 - 1 = 1 /\ 1 \in 1 .. 1
    OBVIOUS
  <2> QED
    BY <2>1, SubSeqIs
<1>2. /\ g \in Seq(S) /\ Len(g) = Len(v) - 1 /\ \A j \in 1 .. Len(v) - 1 : g[j] = v[j + 1]
  <2>1. 2 \in 1 .. Len(v) + 1 /\ Len(v) \in 0 .. Len(v) /\ 2 <= Len(v) + 1 /\ Len(v) - 2 + 1 = Len(v) - 1
    OBVIOUS
  <2>2. \A j \in 1 .. Len(v) - 1 : 2 + j - 1 = j + 1
    OBVIOUS
  <2> QED
    BY <2>1, <2>2, SubSeqIs
<1>3. w \in Seq(S) /\ Len(w) = Len(u) + Len(v) /\ (\A j \in 1 .. Len(u) : w[j] = u[j])
      /\ (\A j \in 1 .. Len(v) : w[Len(u) + j] = v[j])
  OBVIOUS
<1> HIDE DEF e, g, w
<1>40. f \in Seq(S) /\ Len(f) = Len(u) + Len(e) /\ (\A j \in 1 .. Len(u) : f[j] = u[j])
       /\ (\A j \in 1 .. Len(e) : f[Len(u) + j] = e[j])
  <2>1. f \in Seq(S) /\ Concat2(f, u, e)
    BY <1>1, ConcatIs
  <2> HIDE DEF f
  <2> QED
    BY <2>1 DEF Concat2
<1> HIDE DEF f
<1>4. f \in Seq(S) /\ Len(f) = Len(u) + 1 /\ f[Len(u) + 1] = v[1] /\ \A j \in 1 .. Len(u) : f[j] = u[j]
  <2>1. 1 \in 1 .. 1
    OBVIOUS
  <2> QED
    BY <1>1, <1>40, <2>1
<1>5. ASSUME NEW j \in 1 .. Len(f) PROVE f[j] = w[j]
  <2>1. CASE j <= Len(u)
    BY <1>3, <1>4, <2>1
  <2>2. CASE j = Len(u) + 1
    <3>1. 1 \in 1 .. Len(v)
      OBVIOUS
    <3> QED
      BY <1>3, <1>4, <2>2, <3>1
  <2> QED
    BY <1>4, <2>1, <2>2
<1>6. ASSUME NEW j \in 1 .. Len(g) PROVE g[j] = w[Len(u) + 1 + j]
  <2>1. j \in 1 .. Len(v) - 1 /\ j + 1 \in 1 .. Len(v) /\ Len(u) + (j + 1) = Len(u) + 1 + j
    BY <1>2
  <2> QED
    BY <1>2, <1>3, <2>1
<1>7. Len(f) \in Nat /\ Len(f) <= Len(u) + 1 /\ Len(g) \in Nat /\ Len(w) = Len(u) + 1 + Len(g) /\ Len(u) + 1 \in Nat
  BY <1>2, <1>3, <1>4
<1>8. Cut(w, f, g, Len(u) + 1)
  BY <1>5, <1>6, <1>7, MakeCut
<1> QED
  BY <1>2, <1>4, <1>8 DEF f, g, w, e

\* The restructurings on the pages.

\* The fields of a node.
LEMMA NodeFields ==
  ASSUME NEW l, NEW c, NEW k
  PROVE  /\ Node(l, c, k).kind = "node" /\ Node(l, c, k).leaf = l
         /\ Node(l, c, k).cells = c /\ Node(l, c, k).kids = k
BY DEF Node

\* The parts of a page that was written with a node.
Holds(d, q, l, c, k) == d[q].kind = "node" /\ d[q].leaf = l /\ d[q].cells = c /\ d[q].kids = k

\* The fields of a page where a node was written.
LEMMA AtNode ==
  ASSUME NEW d, NEW q, NEW l, NEW c, NEW k, d[q] = Node(l, c, k)
  PROVE  Holds(d, q, l, c, k)
BY DEF Node, Holds

\* A page holds a node when its parts are those of one.
LEMMA IsNode ==
  ASSUME NEW d, NEW T, NEW q, NEW l \in BOOLEAN, NEW c \in Seq(CellSet), NEW k \in Seq(T),
         d[q] = Node(l, c, k), Len(k) = IF l THEN 0 ELSE Len(c) + 1
  PROVE  NodeIn(d, T, q)
BY NodeFields DEF NodeIn

\* A node keeps its parts when the set of pages grows, or loses a page that is not below it.
LEMMA NodeGrown ==
  ASSUME NEW d, NEW d2, NEW T, NEW T2, T \subseteq T2, NEW q, NodeIn(d, T, q), d2[q] = d[q]
  PROVE  NodeIn(d2, T2, q)
<1>1. Seq(T) \subseteq Seq(T2)
  OBVIOUS
<1> QED
  BY <1>1 DEF NodeIn

\* A sequence without z has its elements in T without z.
LEMMA SeqWithout ==
  ASSUME NEW T, NEW s \in Seq(T), NEW z, z \notin Members(s)
  PROVE  s \in Seq(T \ {z})
<1>1. Len(s) \in Nat /\ s \in [1 .. Len(s) -> T]
  OBVIOUS
<1>2. \A i \in 1 .. Len(s) : s[i] \in T \ {z}
  BY <1>1 DEF Members
<1>3. s \in [1 .. Len(s) -> T \ {z}]
  BY <1>1, <1>2
<1> QED
  BY <1>1, <1>3

\* A node without the child z is a node of the tree without z.
LEMMA NodeWithout ==
  ASSUME NEW d, NEW d2, NEW T, NEW q, NEW z, NodeIn(d, T, q), d2[q] = d[q], z \notin Members(d[q].kids)
  PROVE  NodeIn(d2, T \ {z}, q)
<1>1. d[q].kids \in Seq(T \ {z})
  BY SeqWithout DEF NodeIn
<1> QED
  BY <1>1 DEF NodeIn

\* Child i of page p, the full node at page a, is split around its median; z is the new page.
SplitOf(d, d2, T, p, i, a, z, t) ==
  /\ d2[a] = Node(d[a].leaf, SubSeq(d[a].cells, 1, t - 1), KidsFrom(d[a], 1, t))
  /\ d2[z] = Node(d[a].leaf, SubSeq(d[a].cells, t + 1, 2 * t - 1), KidsFrom(d[a], t + 1, 2 * t))
  /\ d2[p] = Node(FALSE, InsertAt(d[p].cells, i, d[a].cells[t]), InsertAt(d[p].kids, i + 1, z))
  /\ \A q \in T \ {p, a} : d2[q] = d[q]

\* What a split makes of the nodes.
SplitShape(d, d2, T, p, i, a, z, t) ==
  /\ Nodes(d2, T \cup {z}) /\ Parted(d, d2, T, p, i, a, z, t - 1)
  /\ Len(d2[a].cells) = t - 1 /\ Len(d2[z].cells) = t - 1
  /\ Len(d2[p].cells) = Len(d[p].cells) + 1

\* btree_split_child parts the child and gives it a sibling.
LEMMA SplitParts ==
  ASSUME NEW d, NEW d2, NEW T, NEW p \in T, NEW a \in T, NEW z \in DataPages, NEW i, NEW t \in Nat,
         Nodes(d, T), p # a, z \notin T, d[p].leaf = FALSE, i \in 1 .. Len(d[p].kids), d[p].kids[i] = a,
         t >= 1, Len(d[a].cells) = 2 * t - 1, SplitOf(d, d2, T, p, i, a, z, t)
  PROVE  SplitShape(d, d2, T, p, i, a, z, t)
<1> DEFINE U == T \cup {z}
           cs == d[a].cells
           ks == d[a].kids
           l  == d[a].leaf
           pc1 == d[p].cells
           pk == d[p].kids
<1>1. /\ cs \in Seq(CellSet) /\ ks \in Seq(T) /\ l \in BOOLEAN /\ (l => Len(ks) = 0) /\ (~l => Len(ks) = 2 * t)
      /\ pc1 \in Seq(CellSet) /\ pk \in Seq(T) /\ Len(pk) = Len(pc1) + 1
  <2>1. NodeIn(d, T, a) /\ NodeIn(d, T, p)
    BY DEF Nodes
  <2>2. cs \in Seq(CellSet) /\ ks \in Seq(T) /\ l \in BOOLEAN /\ pc1 \in Seq(CellSet) /\ pk \in Seq(T)
    BY <2>1 DEF NodeIn
  <2>3. Len(ks) = (IF l THEN 0 ELSE Len(cs) + 1) /\ Len(pk) = Len(pc1) + 1
    BY <2>1 DEF NodeIn
  <2>4. Len(cs) = 2 * t - 1 /\ (2 * t - 1) + 1 = 2 * t
    OBVIOUS
  <2> QED
    BY <2>2, <2>3, <2>4
<1>20. /\ Holds(d2, a, l, SubSeq(cs, 1, t - 1), KidsFrom(d[a], 1, t))
       /\ Holds(d2, z, l, SubSeq(cs, t + 1, 2 * t - 1), KidsFrom(d[a], t + 1, 2 * t))
       /\ Holds(d2, p, FALSE, InsertAt(pc1, i, cs[t]), InsertAt(pk, i + 1, z))
  <2>1. d2[a] = Node(l, SubSeq(cs, 1, t - 1), KidsFrom(d[a], 1, t))
    BY DEF SplitOf
  <2>2. d2[z] = Node(l, SubSeq(cs, t + 1, 2 * t - 1), KidsFrom(d[a], t + 1, 2 * t))
    BY DEF SplitOf
  <2>3. d2[p] = Node(FALSE, InsertAt(pc1, i, cs[t]), InsertAt(pk, i + 1, z))
    BY DEF SplitOf
  <2> QED
    BY <2>1, <2>2, <2>3, AtNode
<1>2. /\ d2[a].leaf = l /\ d2[a].cells = SubSeq(cs, 1, t - 1) /\ d2[a].kids = KidsFrom(d[a], 1, t)
      /\ d2[z].leaf = l /\ d2[z].cells = SubSeq(cs, t + 1, 2 * t - 1) /\ d2[z].kids = KidsFrom(d[a], t + 1, 2 * t)
      /\ d2[p].leaf = FALSE /\ d2[p].cells = InsertAt(pc1, i, cs[t]) /\ d2[p].kids = InsertAt(pk, i + 1, z)
  BY <1>20 DEF Holds
<1>3. cs[t] \in CellSet /\ t \in 1 .. Len(cs)
  BY <1>1
<1>4. /\ SubSeq(cs, 1, t - 1) \in Seq(CellSet) /\ Len(SubSeq(cs, 1, t - 1)) = t - 1
      /\ SubSeq(cs, t + 1, 2 * t - 1) \in Seq(CellSet) /\ Len(SubSeq(cs, t + 1, 2 * t - 1)) = t - 1
      /\ Cut(cs, SubSeq(cs, 1, t - 1), SubSeq(cs, t + 1, 2 * t - 1), t)
  <2>1. /\ t - 1 \in 0 .. Len(cs) /\ t \in (t - 1) .. Len(cs) /\ Len(cs) = 2 * t - 1
        /\ (2 * t - 1) - t = t - 1
    OBVIOUS
  <2> HIDE DEF cs
  <2>2. /\ SubSeq(cs, 1, t - 1) \in Seq(CellSet) /\ Len(SubSeq(cs, 1, t - 1)) = t - 1
        /\ SubSeq(cs, t + 1, Len(cs)) \in Seq(CellSet) /\ Len(SubSeq(cs, t + 1, Len(cs))) = Len(cs) - t
        /\ Cut(cs, SubSeq(cs, 1, t - 1), SubSeq(cs, t + 1, Len(cs)), t)
    BY <1>1, <2>1, SubSeqCut
  <2> QED
    BY <2>1, <2>2
<1>5. /\ d2[a].kids \in Seq(T) /\ Len(d2[a].kids) = IF l THEN 0 ELSE t
      /\ d2[z].kids \in Seq(T) /\ Len(d2[z].kids) = IF l THEN 0 ELSE t
      /\ Cut(ks, d2[a].kids, d2[z].kids, Len(d2[a].kids))
  <2>1. CASE l
    <3>1. d2[a].kids = << >> /\ d2[z].kids = << >>
      BY <1>2, <2>1 DEF KidsFrom
    <3>2. << >> \in Seq(T) /\ Len(<< >>) = 0
      OBVIOUS
    <3>3. Cut(ks, d2[a].kids, d2[z].kids, 0)
      BY <1>1, <2>1, <3>1, <3>2 DEF Cut
    <3> QED
      BY <2>1, <3>1, <3>2, <3>3
  <2>2. CASE ~l
    <3>1. d2[a].kids = SubSeq(ks, 1, t) /\ d2[z].kids = SubSeq(ks, t + 1, 2 * t)
      BY <1>2, <2>2 DEF KidsFrom
    <3>2. /\ t \in 0 .. Len(ks) /\ t \in t .. Len(ks) /\ Len(ks) = 2 * t /\ (2 * t) - t = t
      BY <1>1, <2>2
    <3> HIDE DEF ks
    <3>3. /\ SubSeq(ks, 1, t) \in Seq(T) /\ Len(SubSeq(ks, 1, t)) = t
          /\ SubSeq(ks, t + 1, 2 * t) \in Seq(T) /\ Len(SubSeq(ks, t + 1, 2 * t)) = t
          /\ Cut(ks, SubSeq(ks, 1, t), SubSeq(ks, t + 1, 2 * t), t)
      <4>1. /\ SubSeq(ks, 1, t) \in Seq(T) /\ Len(SubSeq(ks, 1, t)) = t
            /\ SubSeq(ks, t + 1, Len(ks)) \in Seq(T) /\ Len(SubSeq(ks, t + 1, Len(ks))) = Len(ks) - t
            /\ Cut(ks, SubSeq(ks, 1, t), SubSeq(ks, t + 1, Len(ks)), t)
        BY <1>1, <3>2, SubSeqCut
      <4> QED
        BY <3>2, <4>1
    <3> QED
      BY <2>2, <3>1, <3>3
  <2> QED
    BY <1>1, <2>1, <2>2
<1>6. /\ d2[p].cells \in Seq(CellSet) /\ Inserted(pc1, d2[p].cells, i, cs[t])
      /\ d2[p].kids \in Seq(U) /\ Inserted(pk, d2[p].kids, i + 1, z)
  <2>1. i \in 1 .. Len(pc1) + 1 /\ i + 1 \in 1 .. Len(pk) + 1
    BY <1>1
  <2>2. pk \in Seq(U) /\ z \in U
    BY <1>1
  <2> HIDE DEF pc1, pk, cs, U
  <2> QED
    BY <1>1, <1>2, <1>3, <2>1, <2>2, InsertAtIs
<1>7. /\ Len(d2[p].cells) = Len(pc1) + 1 /\ Len(d2[p].kids) = Len(pk) + 1
      /\ d2[p].cells[i] = cs[t] /\ d2[p].kids[i] = a
  <2>1. i \in 1 .. Len(pk) /\ i \in Nat /\ Len(pk) \in Nat /\ pk[i] = a
    BY <1>1
  <2> QED
    BY <1>6, <2>1 DEF Inserted
<1>8. Nodes(d2, U)
  <2>1. U \subseteq DataPages
    BY DEF Nodes
  <2>2. NodeIn(d2, U, a)
    <3>1. d2[a].kids \in Seq(U) /\ d2[a].kind = "node"
      BY <1>5, <1>20 DEF Holds
    <3>2. Len(d2[a].kids) = IF d2[a].leaf THEN 0 ELSE Len(d2[a].cells) + 1
      BY <1>2, <1>4, <1>5
    <3> QED
      BY <1>1, <1>2, <1>4, <3>1, <3>2 DEF NodeIn
  <2>3. NodeIn(d2, U, z)
    <3>1. d2[z].kids \in Seq(U) /\ d2[z].kind = "node"
      BY <1>5, <1>20 DEF Holds
    <3>2. Len(d2[z].kids) = IF d2[z].leaf THEN 0 ELSE Len(d2[z].cells) + 1
      BY <1>2, <1>4, <1>5
    <3> QED
      BY <1>1, <1>2, <1>4, <3>1, <3>2 DEF NodeIn
  <2>4. NodeIn(d2, U, p)
    <3>1. d2[p].kind = "node"
      BY <1>20 DEF Holds
    <3>2. Len(d2[p].kids) = Len(d2[p].cells) + 1
      BY <1>1, <1>7
    <3> QED
      BY <1>2, <1>6, <3>1, <3>2 DEF NodeIn
  <2>5. ASSUME NEW q \in T \ {p, a} PROVE NodeIn(d2, U, q)
    <3>1. d2[q] = d[q] /\ NodeIn(d, T, q) /\ T \subseteq U
      BY DEF SplitOf, Nodes
    <3> QED
      BY <3>1, NodeGrown
  <2> QED
    BY <2>1, <2>2, <2>3, <2>4, <2>5 DEF Nodes
<1>9. Parted(d, d2, T, p, i, a, z, t - 1)
  <2>1. t - 1 + 1 = t /\ t - 1 \in Nat
    OBVIOUS
  <2>2. \A q \in T \ {p, a} : d2[q] = d[q]
    BY DEF SplitOf
  <2> QED
    BY <1>2, <1>3, <1>4, <1>5, <1>6, <1>7, <2>1, <2>2 DEF Parted
<1> QED
  BY <1>2, <1>4, <1>7, <1>8, <1>9 DEF SplitShape

\* Page z is a child of page p only, and no child of p is listed twice.
OnlyChild(d, T, p, z) == Distinct(d[p].kids) /\ \A q \in T \ {p} : z \notin Members(d[q].kids)

\* Children i and i + 1 of page p, the nodes at pages a and z, become one node at a.
MergeOf(d, d2, T, p, i, a, z) ==
  /\ d2[a] = Node(d[a].leaf, d[a].cells \o <<d[p].cells[i]>> \o d[z].cells, d[a].kids \o d[z].kids)
  /\ d2[p] = Node(FALSE, RemoveAt(d[p].cells, i), RemoveAt(d[p].kids, i + 1))
  /\ \A q \in T \ {p, a, z} : d2[q] = d[q]

\* Children i and i + 1 of page p are the nodes at pages a and z.
Siblings(d, T, p, i, a, z) ==
  /\ p \in T /\ a \in T /\ z \in T /\ p # a /\ p # z /\ a # z
  /\ d[p].leaf = FALSE /\ d[a].leaf = d[z].leaf
  /\ i \in 1 .. Len(d[p].cells) /\ d[p].kids[i] = a /\ d[p].kids[i + 1] = z
  /\ OnlyChild(d, T, p, z)

\* The sequences of two siblings and of their parent.
SiblingSeqs(d, T, p, i, a, z) ==
  /\ d[p].cells \in Seq(CellSet) /\ d[p].kids \in Seq(T) /\ Len(d[p].kids) = Len(d[p].cells) + 1
  /\ d[a].cells \in Seq(CellSet) /\ d[a].kids \in Seq(T)
  /\ d[z].cells \in Seq(CellSet) /\ d[z].kids \in Seq(T)
  /\ d[a].leaf \in BOOLEAN
  /\ Len(d[a].kids) = IF d[a].leaf THEN 0 ELSE Len(d[a].cells) + 1
  /\ Len(d[z].kids) = IF d[a].leaf THEN 0 ELSE Len(d[z].cells) + 1
  /\ i \in 1 .. Len(d[p].cells) /\ i \in 1 .. Len(d[p].kids) /\ i + 1 \in 1 .. Len(d[p].kids)
  /\ d[p].cells[i] \in CellSet

\* The cells and the children of two siblings are sequences of the right lengths.
LEMMA SiblingSeqsHold ==
  ASSUME NEW d, NEW T, NEW p, NEW i, NEW a, NEW z, Nodes(d, T), Siblings(d, T, p, i, a, z)
  PROVE  SiblingSeqs(d, T, p, i, a, z)
<1>1. NodeIn(d, T, p) /\ NodeIn(d, T, a) /\ NodeIn(d, T, z) /\ d[p].leaf = FALSE /\ d[a].leaf = d[z].leaf
  BY DEF Nodes, Siblings
<1>2. i \in 1 .. Len(d[p].cells)
  BY DEF Siblings
<1>3. d[p].cells \in Seq(CellSet) /\ d[p].kids \in Seq(T) /\ Len(d[p].kids) = Len(d[p].cells) + 1
  BY <1>1 DEF NodeIn
<1>4. /\ d[a].cells \in Seq(CellSet) /\ d[a].kids \in Seq(T) /\ d[a].leaf \in BOOLEAN
      /\ Len(d[a].kids) = IF d[a].leaf THEN 0 ELSE Len(d[a].cells) + 1
  BY <1>1 DEF NodeIn
<1>5. /\ d[z].cells \in Seq(CellSet) /\ d[z].kids \in Seq(T)
      /\ Len(d[z].kids) = IF d[a].leaf THEN 0 ELSE Len(d[z].cells) + 1
  BY <1>1 DEF NodeIn
<1>6. i \in 1 .. Len(d[p].kids) /\ i + 1 \in 1 .. Len(d[p].kids) /\ d[p].cells[i] \in CellSet
  BY <1>2, <1>3
<1> QED
  BY <1>2, <1>3, <1>4, <1>5, <1>6 DEF SiblingSeqs

\* A sequence without the place where z is.
LEMMA RemovedMembers ==
  ASSUME NEW T, NEW s \in Seq(T), NEW n \in 1 .. Len(s), NEW z, s[n] = z, Distinct(s)
  PROVE  /\ RemoveAt(s, n) \in Seq(T \ {z}) /\ Len(RemoveAt(s, n)) = Len(s) - 1
         /\ Inserted(RemoveAt(s, n), s, n, z)
<1> DEFINE w == RemoveAt(s, n)
<1>1. w \in Seq(T) /\ Inserted(w, s, n, z)
  BY RemoveAtIs
<1> HIDE DEF w
<1>2. Len(w) \in Nat /\ Len(s) \in Nat
  BY <1>1
<1>3. z \notin Members(w)
  BY <1>1, <1>2, InsertedMembers
<1>4. w \in Seq(T \ {z})
  BY <1>1, <1>3, SeqWithout
<1>5. Len(w) = Len(s) - 1
  BY <1>1, <1>2 DEF Inserted
<1> QED
  BY <1>1, <1>4, <1>5 DEF w

\* What a merge makes of the nodes.
MergeShape(d, d2, T, p, i, a, z) ==
  /\ Nodes(d2, T \ {z}) /\ Parted(d2, d, T \ {z}, p, i, a, z, Len(d[a].cells))
  /\ Len(d2[a].cells) = Len(d[a].cells) + 1 + Len(d[z].cells)
  /\ Len(d2[p].cells) = Len(d[p].cells) - 1

\* merge_children is the converse of a parting.
LEMMA MergeParts ==
  ASSUME NEW d, NEW d2, NEW T, NEW p, NEW i, NEW a, NEW z,
         Nodes(d, T), Siblings(d, T, p, i, a, z), MergeOf(d, d2, T, p, i, a, z)
  PROVE  MergeShape(d, d2, T, p, i, a, z)
<1> DEFINE U == T \ {z}
           x == d[p].cells[i]
           ca == d[a].cells
           cz == d[z].cells
           ka == d[a].kids
           kz == d[z].kids
           cp == d[p].cells
           kp == d[p].kids
<1>0. /\ p \in T /\ a \in T /\ z \in T /\ p # a /\ p # z /\ a # z
      /\ d[p].leaf = FALSE /\ d[a].leaf = d[z].leaf
      /\ kp[i] = a /\ kp[i + 1] = z
      /\ Distinct(kp) /\ \A q \in T \ {p} : z \notin Members(d[q].kids)
  BY DEF Siblings, OnlyChild
<1>1. SiblingSeqs(d, T, p, i, a, z)
  BY SiblingSeqsHold
<1>2. /\ cp \in Seq(CellSet) /\ kp \in Seq(T) /\ Len(kp) = Len(cp) + 1
      /\ ca \in Seq(CellSet) /\ ka \in Seq(T) /\ cz \in Seq(CellSet) /\ kz \in Seq(T)
      /\ d[a].leaf \in BOOLEAN
      /\ Len(ka) = IF d[a].leaf THEN 0 ELSE Len(ca) + 1
      /\ Len(kz) = IF d[a].leaf THEN 0 ELSE Len(cz) + 1
      /\ i \in 1 .. Len(cp) /\ i \in 1 .. Len(kp) /\ i + 1 \in 1 .. Len(kp) /\ x \in CellSet
  BY <1>1 DEF SiblingSeqs
<1>3. /\ Holds(d2, a, d[a].leaf, ca \o <<x>> \o cz, ka \o kz)
      /\ Holds(d2, p, FALSE, RemoveAt(cp, i), RemoveAt(kp, i + 1))
  <2>1. d2[a] = Node(d[a].leaf, ca \o <<x>> \o cz, ka \o kz)
    BY DEF MergeOf
  <2>2. d2[p] = Node(FALSE, RemoveAt(cp, i), RemoveAt(kp, i + 1))
    BY DEF MergeOf
  <2> QED
    BY <2>1, <2>2, AtNode
<1>4. /\ d2[a].kind = "node" /\ d2[a].leaf = d[a].leaf /\ d2[a].cells = ca \o <<x>> \o cz /\ d2[a].kids = ka \o kz
      /\ d2[p].kind = "node" /\ d2[p].leaf = FALSE /\ d2[p].cells = RemoveAt(cp, i) /\ d2[p].kids = RemoveAt(kp, i + 1)
  BY <1>3 DEF Holds
<1> DEFINE w == d2[a].cells
           y == d2[a].kids
           ww == d2[p].cells
           yy == d2[p].kids
<1>40. U = T \ {z}
  OBVIOUS
<1>42. x = cp[i] /\ kp[i + 1] = z /\ Distinct(kp)
  BY <1>0
<1>41. w = ca \o <<x>> \o cz /\ y = ka \o kz /\ ww = RemoveAt(cp, i) /\ yy = RemoveAt(kp, i + 1)
  BY <1>4
<1> HIDE DEF U, x, ca, cz, ka, kz, cp, kp, w, y, ww, yy
<1>5. /\ w \in Seq(CellSet) /\ Between2(w, ca, x, cz)
  BY <1>2, <1>41, ConcatBetween
<1>6. /\ y \in Seq(T) /\ Concat2(y, ka, kz)
  BY <1>2, <1>41, ConcatIs
<1>7. Len(ca) \in Nat /\ Len(cz) \in Nat /\ Len(ka) \in Nat /\ Len(kz) \in Nat /\ Len(cp) \in Nat /\ Len(kp) \in Nat
  BY <1>2
<1>8. Cut(w, ca, cz, Len(ca) + 1)
  BY <1>5, <1>7, BetweenCut
<1>9. Cut(y, ka, kz, Len(ka))
  BY <1>2, <1>41, ConcatCut
<1>10. Len(w) = Len(ca) + 1 + Len(cz) /\ w[Len(ca) + 1] = x /\ Len(y) = Len(ka) + Len(kz)
  BY <1>5, <1>6 DEF Between2, Concat2
<1>11. /\ ww \in Seq(CellSet) /\ Inserted(ww, cp, i, x)
  BY <1>2, <1>41, <1>42, RemoveAtIs
<1>12. /\ yy \in Seq(U) /\ Len(yy) = Len(kp) - 1 /\ Inserted(yy, kp, i + 1, z)
  <2>1. /\ RemoveAt(kp, i + 1) \in Seq(T \ {z}) /\ Len(RemoveAt(kp, i + 1)) = Len(kp) - 1
        /\ Inserted(RemoveAt(kp, i + 1), kp, i + 1, z)
    BY <1>2, <1>42, RemovedMembers
  <2> QED
    BY <1>40, <1>41, <2>1
<1>13. Len(ww) = Len(cp) - 1
  BY <1>7, <1>11 DEF Inserted
<1>140. z \notin Members(ka) /\ z \notin Members(kz)
  BY <1>0 DEF ka, kz
<1>14. y \in Seq(U)
  <2>1. ka \in Seq(U) /\ kz \in Seq(U)
    BY <1>0, <1>2, <1>40, <1>140, SeqWithout
  <2> QED
    BY <1>41, <2>1, ConcatIs
<1>150. /\ Len(y) = IF d[a].leaf THEN 0 ELSE Len(w) + 1
        /\ Len(yy) = Len(ww) + 1
  <2>1. CASE d[a].leaf
    BY <1>2, <1>7, <1>10, <1>12, <1>13, <2>1
  <2>2. CASE ~d[a].leaf
    BY <1>2, <1>7, <1>10, <1>12, <1>13, <2>2
  <2> QED
    BY <2>1, <2>2
<1>15. Nodes(d2, U)
  <2>1. U \subseteq DataPages
    BY <1>40 DEF Nodes
  <2>2. NodeIn(d2, U, a)
    BY <1>2, <1>4, <1>5, <1>14, <1>150 DEF NodeIn, w, y
  <2>3. NodeIn(d2, U, p)
    BY <1>4, <1>11, <1>12, <1>150 DEF NodeIn, ww, yy, U
  <2>4. ASSUME NEW q \in U \ {p, a} PROVE NodeIn(d2, U, q)
    <3>1. d2[q] = d[q] /\ NodeIn(d, T, q) /\ z \notin Members(d[q].kids)
      BY <1>0, <1>40 DEF MergeOf, Nodes
    <3> QED
      BY <1>40, <3>1, NodeWithout
  <2> QED
    BY <2>1, <2>2, <2>3, <2>4 DEF Nodes
<1>16. Parted(d2, d, U, p, i, a, z, Len(ca))
  <2>1. yy[i] = a /\ i \in 1 .. Len(yy)
    <3>1. \A j \in 1 .. Len(kp) : \/ j < i + 1 /\ j \in 1 .. Len(yy) /\ kp[j] = yy[j]
                                  \/ j = i + 1
                                  \/ j > i + 1 /\ j - 1 \in 1 .. Len(yy) /\ kp[j] = yy[j - 1]
      BY <1>12 DEF Inserted
    <3>2. i \in Nat /\ i # i + 1 /\ ~(i > i + 1) /\ i \in 1 .. Len(kp) /\ kp[i] = a
      BY <1>0, <1>2 DEF kp
    <3> QED
      BY <3>1, <3>2
  <2>2. Len(ca) + 1 \in 1 .. Len(w)
    BY <1>7, <1>10
  <2>3. \A q \in U \ {p, a} : d[q] = d2[q]
    BY <1>40 DEF MergeOf
  <2>4. p \in U /\ a \in U /\ z \notin U
    BY <1>0, <1>40
  <2>5. d[p].kids[i] = a /\ Len(ca) = Len(d[a].cells)
    BY <1>0 DEF kp, ca
  <2>6. d[p].cells[i] = w[Len(ca) + 1]
    BY <1>10 DEF x
  <2>7. /\ Inserted(ww, cp, i, w[Len(ca) + 1]) /\ Inserted(yy, kp, i + 1, z)
        /\ Cut(w, ca, cz, Len(ca) + 1) /\ Cut(y, ka, kz, Len(ka))
    BY <1>8, <1>9, <1>10, <1>11, <1>12
  <2> QED
    BY <1>0, <1>4, <1>7, <2>1, <2>2, <2>3, <2>4, <2>5, <2>6, <2>7 DEF Parted, w, y, ww, yy, ca, cz, ka, kz, cp, kp
<1> QED
  BY <1>10, <1>13, <1>15, <1>16 DEF w, ww, ca, cz, cp, U, MergeShape

\* The cells and the children of two siblings, and of the node they would make.
JointCells(d, p, i, a, z) == d[a].cells \o <<d[p].cells[i]>> \o d[z].cells
JointKids(d, a, z)        == d[a].kids \o d[z].kids

\* The disk on which the siblings are one node.
Joint(d, T, p, i, a, z) ==
  [q \in T \ {z} |->
     IF q = a THEN Node(d[a].leaf, JointCells(d, p, i, a, z), JointKids(d, a, z))
     ELSE IF q = p THEN Node(FALSE, RemoveAt(d[p].cells, i), RemoveAt(d[p].kids, i + 1))
     ELSE d[q]]

\* The siblings take the same cells and children apart at another place, after the first t.
Regrouped(d, d2, T, p, i, a, z, t) ==
  /\ \A q \in T \ {p, a, z} : d2[q] = d[q]
  /\ t \in Nat /\ t + 1 \in 1 .. Len(JointCells(d, p, i, a, z))
  /\ d2[p] = Node(FALSE, ReplaceAt(d[p].cells, i, JointCells(d, p, i, a, z)[t + 1]), d[p].kids)
  /\ Holds(d2, a, d[a].leaf, d2[a].cells, d2[a].kids)
  /\ Holds(d2, z, d[a].leaf, d2[z].cells, d2[z].kids)
  /\ d2[a].cells \in Seq(CellSet) /\ d2[z].cells \in Seq(CellSet)
  /\ d2[a].kids \in Seq(T) /\ d2[z].kids \in Seq(T)
  /\ Len(d2[a].kids) = IF d[a].leaf THEN 0 ELSE Len(d2[a].cells) + 1
  /\ Len(d2[z].kids) = IF d[a].leaf THEN 0 ELSE Len(d2[z].cells) + 1
  /\ Len(d2[a].cells) = t
  /\ Cut(JointCells(d, p, i, a, z), d2[a].cells, d2[z].cells, t + 1)
  /\ Cut(JointKids(d, a, z), d2[a].kids, d2[z].kids, Len(d2[a].kids))

\* The siblings before and after, on the disk where they are one.
AroundJoint(d, d2, T, p, i, a, z, t) ==
  /\ Nodes(Joint(d, T, p, i, a, z), T \ {z})
  /\ Parted(Joint(d, T, p, i, a, z), d, T \ {z}, p, i, a, z, Len(d[a].cells))
  /\ Parted(Joint(d, T, p, i, a, z), d2, T \ {z}, p, i, a, z, t)
  /\ Nodes(d2, T) /\ Len(d2[p].cells) = Len(d[p].cells)

\* Siblings that share their cells otherwise are two partings of one node.
LEMMA RegroupedParts ==
  ASSUME NEW d, NEW d2, NEW T, NEW p, NEW i, NEW a, NEW z, NEW t,
         Nodes(d, T), Siblings(d, T, p, i, a, z), Regrouped(d, d2, T, p, i, a, z, t)
  PROVE  AroundJoint(d, d2, T, p, i, a, z, t)
<1> DEFINE dm == Joint(d, T, p, i, a, z)
           U == T \ {z}
           w == JointCells(d, p, i, a, z)
           y == JointKids(d, a, z)
<1>0. /\ p \in T /\ a \in T /\ z \in T /\ p # a /\ p # z /\ a # z
      /\ d[p].leaf = FALSE /\ d[a].leaf = d[z].leaf
      /\ d[p].kids[i] = a /\ d[p].kids[i + 1] = z
  BY DEF Siblings
<1>1. SiblingSeqs(d, T, p, i, a, z)
  BY SiblingSeqsHold
<1>2. /\ d[p].cells \in Seq(CellSet) /\ d[p].kids \in Seq(T) /\ Len(d[p].kids) = Len(d[p].cells) + 1
      /\ d[a].leaf \in BOOLEAN
      /\ i \in 1 .. Len(d[p].cells) /\ i \in 1 .. Len(d[p].kids) /\ i + 1 \in 1 .. Len(d[p].kids)
  BY <1>1 DEF SiblingSeqs
<1>3. /\ dm[a] = Node(d[a].leaf, w, y)
      /\ dm[p] = Node(FALSE, RemoveAt(d[p].cells, i), RemoveAt(d[p].kids, i + 1))
      /\ \A q \in U \ {p, a} : dm[q] = d[q]
  BY <1>0 DEF Joint
<1>4. MergeOf(d, dm, T, p, i, a, z)
  BY <1>3 DEF MergeOf, JointCells, JointKids
<1>5. /\ Nodes(dm, U) /\ Parted(dm, d, U, p, i, a, z, Len(d[a].cells))
  BY <1>4, MergeParts DEF MergeShape
<1>6. Holds(dm, a, d[a].leaf, w, y)
  BY <1>3, AtNode
<1> HIDE DEF dm, U, w, y
<1>7. dm[a].cells = w /\ dm[a].kids = y /\ dm[a].leaf = d[a].leaf
  BY <1>6 DEF Holds
<1>8. /\ dm[p].leaf = FALSE /\ a \in U /\ p \in U /\ z \notin U
      /\ i \in 1 .. Len(dm[p].kids) /\ dm[p].kids[i] = a
      /\ \E x : Inserted(dm[p].cells, d[p].cells, i, x)
      /\ Inserted(dm[p].kids, d[p].kids, i + 1, z)
  BY <1>5 DEF Parted
<1>9. /\ \A q \in T \ {p, a, z} : d2[q] = d[q]
      /\ t \in Nat /\ t + 1 \in 1 .. Len(w)
      /\ d2[p] = Node(FALSE, ReplaceAt(d[p].cells, i, w[t + 1]), d[p].kids)
      /\ Holds(d2, a, d[a].leaf, d2[a].cells, d2[a].kids)
      /\ Holds(d2, z, d[a].leaf, d2[z].cells, d2[z].kids)
      /\ d2[a].cells \in Seq(CellSet) /\ d2[z].cells \in Seq(CellSet)
      /\ d2[a].kids \in Seq(T) /\ d2[z].kids \in Seq(T)
      /\ Len(d2[a].kids) = IF d[a].leaf THEN 0 ELSE Len(d2[a].cells) + 1
      /\ Len(d2[z].kids) = IF d[a].leaf THEN 0 ELSE Len(d2[z].cells) + 1
      /\ Len(d2[a].cells) = t
      /\ Cut(w, d2[a].cells, d2[z].cells, t + 1)
      /\ Cut(y, d2[a].kids, d2[z].kids, Len(d2[a].kids))
  BY DEF Regrouped, w, y
<1>10. /\ Holds(d2, p, FALSE, ReplaceAt(d[p].cells, i, w[t + 1]), d[p].kids)
  BY <1>9, AtNode
<1>11. d2[p].kind = "node" /\ d2[p].leaf = FALSE /\ d2[p].cells = ReplaceAt(d[p].cells, i, w[t + 1]) /\ d2[p].kids = d[p].kids
  BY <1>10 DEF Holds
<1>12. /\ d2[a].kind = "node" /\ d2[a].leaf = d[a].leaf /\ d2[z].kind = "node" /\ d2[z].leaf = d[a].leaf
  BY <1>9 DEF Holds
<1>13. w[t + 1] \in CellSet
  <2>1. w \in Seq(CellSet)
    <3>1. NodeIn(dm, U, a)
      BY <1>5, <1>8 DEF Nodes
    <3> QED
      BY <1>7, <3>1 DEF NodeIn
  <2> QED
    BY <1>9, <2>1
<1>14. d2[p].cells \in Seq(CellSet) /\ Inserted(dm[p].cells, d2[p].cells, i, w[t + 1])
  <2>1. PICK x : Inserted(dm[p].cells, d[p].cells, i, x)
    BY <1>8
  <2> QED
    <3>1. d[p].cells \in Seq(CellSet)
      BY <1>2
    <3>2. /\ ReplaceAt(d[p].cells, i, w[t + 1]) \in Seq(CellSet)
          /\ Inserted(dm[p].cells, ReplaceAt(d[p].cells, i, w[t + 1]), i, w[t + 1])
      BY <1>13, <2>1, <3>1, InsertedOther
    <3> QED
      BY <1>11, <3>2
<1>15. Len(d2[p].cells) = Len(d[p].cells) /\ d2[p].cells[i] = w[t + 1]
  <2>1. PICK x : Inserted(dm[p].cells, d[p].cells, i, x)
    BY <1>8
  <2>2. Len(d2[p].cells) = Len(dm[p].cells) + 1 /\ Len(d[p].cells) = Len(dm[p].cells) + 1
    BY <1>14, <2>1 DEF Inserted
  <2>3. d2[p].cells[i] = w[t + 1]
    BY <1>14 DEF Inserted
  <2> QED
    BY <2>2, <2>3
<1>16. Nodes(d2, T)
  <2>1. T \subseteq DataPages /\ \A q \in T : NodeIn(d, T, q)
    BY DEF Nodes
  <2>2. NodeIn(d2, T, a)
    BY <1>2, <1>9, <1>12 DEF NodeIn
  <2>3. NodeIn(d2, T, z)
    BY <1>2, <1>9, <1>12 DEF NodeIn
  <2>4. NodeIn(d2, T, p)
    <3>1. Len(d2[p].kids) = Len(d2[p].cells) + 1
      BY <1>2, <1>11, <1>15
    <3> QED
      BY <1>2, <1>11, <1>14, <3>1 DEF NodeIn
  <2>5. ASSUME NEW q \in T \ {p, a, z} PROVE NodeIn(d2, T, q)
    <3>1. d2[q] = d[q] /\ NodeIn(d, T, q) /\ T \subseteq T
      BY <1>9, <2>1
    <3> QED
      BY <3>1, NodeGrown
  <2> QED
    BY <2>1, <2>2, <2>3, <2>4, <2>5 DEF Nodes
<1>17. Parted(dm, d2, U, p, i, a, z, t)
  <2>1. \A q \in U \ {p, a} : d2[q] = dm[q]
    BY <1>3, <1>9 DEF U
  <2>2. d2[p].kids[i] = a /\ Inserted(dm[p].kids, d2[p].kids, i + 1, z)
    BY <1>0, <1>8, <1>11
  <2> QED
    BY <1>0, <1>7, <1>8, <1>9, <1>11, <1>12, <1>14, <1>15, <2>1, <2>2 DEF Parted
<1> QED
  BY <1>5, <1>15, <1>16, <1>17 DEF dm, U, AroundJoint

\* The last cell and child of the node at a go over to the node at z.
RightOf(d, d2, T, p, i, a, z) ==
  /\ \A q \in T \ {p, a, z} : d2[q] = d[q]
  /\ d2[a] = Node(d[a].leaf, Front(d[a].cells), KidsFrom(d[a], 1, Len(d[a].kids) - 1))
  /\ d2[z] = Node(d[z].leaf, <<d[p].cells[i]>> \o d[z].cells,
                  KidsFrom(d[a], Len(d[a].kids), Len(d[a].kids)) \o d[z].kids)
  /\ d2[p] = Node(FALSE, ReplaceAt(d[p].cells, i, Last(d[a].cells)), d[p].kids)

\* The first cell and child of the node at z go over to the node at a.
LeftOf(d, d2, T, p, i, a, z) ==
  /\ \A q \in T \ {p, a, z} : d2[q] = d[q]
  /\ d2[a] = Node(d[a].leaf, Append(d[a].cells, d[p].cells[i]), d[a].kids \o KidsFrom(d[z], 1, 1))
  /\ d2[z] = Node(d[z].leaf, Tail(d[z].cells), KidsFrom(d[z], 2, Len(d[z].kids)))
  /\ d2[p] = Node(FALSE, ReplaceAt(d[p].cells, i, Head(d[z].cells)), d[p].kids)

\* A cell moves right: the cells and children of the siblings are cut elsewhere.
RightShape(d, d2, T, p, i, a, z) ==
  /\ Regrouped(d, d2, T, p, i, a, z, Len(d[a].cells) - 1)
  /\ Len(d2[a].cells) = Len(d[a].cells) - 1 /\ Len(d2[z].cells) = Len(d[z].cells) + 1

\* borrow_from_left cuts the same cells and children one place earlier.
LEMMA RightRegroups ==
  ASSUME NEW d, NEW d2, NEW T, NEW p, NEW i, NEW a, NEW z,
         Nodes(d, T), Siblings(d, T, p, i, a, z), RightOf(d, d2, T, p, i, a, z), Len(d[a].cells) >= 1
  PROVE  RightShape(d, d2, T, p, i, a, z)
<1> DEFINE x  == d[p].cells[i]
           ca == d[a].cells
           cz == d[z].cells
           ka == d[a].kids
           kz == d[z].kids
           l  == d[a].leaf
           t  == Len(ca) - 1
           w  == ca \o <<x>> \o cz
           y  == ka \o kz
           ea == KidsFrom(d[a], 1, Len(ka) - 1)
           ez == KidsFrom(d[a], Len(ka), Len(ka)) \o kz
<1>0. d[a].leaf = d[z].leaf
  BY DEF Siblings
<1>1. SiblingSeqs(d, T, p, i, a, z)
  BY SiblingSeqsHold
<1>2. /\ ca \in Seq(CellSet) /\ ka \in Seq(T) /\ cz \in Seq(CellSet) /\ kz \in Seq(T)
      /\ l \in BOOLEAN /\ x \in CellSet
      /\ Len(ka) = IF l THEN 0 ELSE Len(ca) + 1
      /\ Len(kz) = IF l THEN 0 ELSE Len(cz) + 1
  BY <1>1 DEF SiblingSeqs
<1>3. /\ d2[a] = Node(l, Front(ca), ea) /\ d2[z] = Node(l, <<x>> \o cz, ez)
      /\ d2[p] = Node(FALSE, ReplaceAt(d[p].cells, i, Last(ca)), d[p].kids)
      /\ \A q \in T \ {p, a, z} : d2[q] = d[q]
  BY <1>0 DEF RightOf
<1>4. /\ w = JointCells(d, p, i, a, z) /\ y = JointKids(d, a, z)
      /\ KidsFrom(d[a], 1, Len(ka) - 1) = (IF l THEN << >> ELSE SubSeq(ka, 1, Len(ka) - 1))
      /\ KidsFrom(d[a], Len(ka), Len(ka)) = (IF l THEN << >> ELSE SubSeq(ka, Len(ka), Len(ka)))
      /\ ea = KidsFrom(d[a], 1, Len(ka) - 1) /\ ez = KidsFrom(d[a], Len(ka), Len(ka)) \o kz
      /\ w = ca \o <<x>> \o cz /\ y = ka \o kz /\ t = Len(ca) - 1 /\ Len(ca) >= 1
  BY DEF JointCells, JointKids, KidsFrom
<1> HIDE DEF x, ca, cz, ka, kz, l, t, w, y, ea, ez
<1>5. Holds(d2, a, l, Front(ca), ea) /\ Holds(d2, z, l, <<x>> \o cz, ez)
  BY <1>3, AtNode
<1>6. d2[a].cells = Front(ca) /\ d2[a].kids = ea /\ d2[z].cells = <<x>> \o cz /\ d2[z].kids = ez
  BY <1>5 DEF Holds
<1>7. Between2(w, ca, x, cz)
  BY <1>2, <1>4, ConcatBetween
<1>8. /\ Front(ca) \in Seq(CellSet) /\ Len(Front(ca)) = Len(ca) - 1
      /\ <<x>> \o cz \in Seq(CellSet) /\ Len(<<x>> \o cz) = Len(cz) + 1
      /\ w[Len(ca)] = Last(ca)
      /\ Cut(w, Front(ca), <<x>> \o cz, Len(ca))
  <2>1. ca \in Seq(CellSet) /\ cz \in Seq(CellSet) /\ x \in CellSet /\ Len(ca) >= 1
    BY <1>2, <1>4
  <2> QED
    <3>1. ShiftedRight(CellSet, w, ca, x, cz)
      BY <1>7, <2>1, ShiftRight
    <3> QED
      BY <3>1 DEF ShiftedRight
<1>9. /\ Len(w) = Len(ca) + 1 + Len(cz) /\ Len(ca) \in Nat /\ Len(cz) \in Nat
  BY <1>2, <1>7 DEF Between2
<1>10. t \in Nat /\ t + 1 = Len(ca) /\ t + 1 \in 1 .. Len(w)
  BY <1>4, <1>9
<1>11. /\ ea \in Seq(T) /\ Len(ea) = (IF l THEN 0 ELSE t + 1)
       /\ ez \in Seq(T) /\ Len(ez) = (IF l THEN 0 ELSE Len(cz) + 2)
       /\ Cut(y, ea, ez, Len(ea))
  <2>1. CASE l
    <3>1. ea = << >> /\ Len(ka) = 0 /\ Len(kz) = 0
      BY <1>2, <1>4, <2>1
    <3>2. ka = << >> /\ kz = << >>
      BY <1>2, <3>1
    <3>3. ez = << >> /\ y = << >>
      BY <1>4, <2>1, <3>2
    <3>4. << >> \in Seq(T) /\ Len(<< >>) = 0
      OBVIOUS
    <3>5. Cut(y, ea, ez, 0)
      BY <3>1, <3>3, <3>4 DEF Cut
    <3> QED
      BY <2>1, <3>1, <3>3, <3>4, <3>5
  <2>2. CASE ~l
    <3>1. Len(ka) = Len(ca) + 1 /\ Len(kz) = Len(cz) + 1 /\ Len(ka) >= 1
      BY <1>2, <1>9, <2>2
    <3>2. ea = SubSeq(ka, 1, Len(ka) - 1) /\ ez = SubSeq(ka, Len(ka), Len(ka)) \o kz
      BY <1>4, <2>2
    <3>3. /\ SubSeq(ka, 1, Len(ka) - 1) \in Seq(T) /\ Len(SubSeq(ka, 1, Len(ka) - 1)) = Len(ka) - 1
          /\ SubSeq(ka, Len(ka), Len(ka)) \o kz \in Seq(T) /\ Len(SubSeq(ka, Len(ka), Len(ka)) \o kz) = Len(kz) + 1
          /\ Cut(ka \o kz, SubSeq(ka, 1, Len(ka) - 1), SubSeq(ka, Len(ka), Len(ka)) \o kz, Len(ka) - 1)
      BY <1>2, <3>1, ShiftKidRight
    <3>4. Len(ka) - 1 = t + 1 /\ Len(kz) + 1 = Len(cz) + 2
      BY <1>9, <1>10, <3>1
    <3> QED
      BY <1>4, <2>2, <3>2, <3>3, <3>4
  <2> QED
    BY <1>2, <2>1, <2>2
<1>12. /\ Len(d2[a].cells) = t /\ Len(d2[z].cells) = Len(cz) + 1
       /\ Len(d2[a].kids) = IF l THEN 0 ELSE Len(d2[a].cells) + 1
       /\ Len(d2[z].kids) = IF l THEN 0 ELSE Len(d2[z].cells) + 1
  <2>1. Len(d2[a].cells) = t /\ Len(d2[z].cells) = Len(cz) + 1
    BY <1>4, <1>6, <1>8
  <2>2. Len(cz) + 2 = (Len(cz) + 1) + 1
    BY <1>9
  <2> QED
    BY <1>6, <1>11, <2>1, <2>2
<1>13. Regrouped(d, d2, T, p, i, a, z, t)
  BY <1>3, <1>4, <1>5, <1>6, <1>8, <1>10, <1>11, <1>12 DEF Regrouped, l
<1> QED
  BY <1>4, <1>12, <1>13 DEF ca, cz, RightShape

\* A cell moves left.
LeftShape(d, d2, T, p, i, a, z) ==
  /\ Regrouped(d, d2, T, p, i, a, z, Len(d[a].cells) + 1)
  /\ Len(d2[a].cells) = Len(d[a].cells) + 1 /\ Len(d2[z].cells) = Len(d[z].cells) - 1

\* borrow_from_right cuts the same cells and children one place later.
LEMMA LeftRegroups ==
  ASSUME NEW d, NEW d2, NEW T, NEW p, NEW i, NEW a, NEW z,
         Nodes(d, T), Siblings(d, T, p, i, a, z), LeftOf(d, d2, T, p, i, a, z), Len(d[z].cells) >= 1
  PROVE  LeftShape(d, d2, T, p, i, a, z)
<1> DEFINE x  == d[p].cells[i]
           ca == d[a].cells
           cz == d[z].cells
           ka == d[a].kids
           kz == d[z].kids
           l  == d[a].leaf
           t  == Len(ca) + 1
           w  == ca \o <<x>> \o cz
           y  == ka \o kz
           ea == ka \o KidsFrom(d[z], 1, 1)
           ez == KidsFrom(d[z], 2, Len(kz))
<1>0. d[a].leaf = d[z].leaf
  BY DEF Siblings
<1>1. SiblingSeqs(d, T, p, i, a, z)
  BY SiblingSeqsHold
<1>2. /\ ca \in Seq(CellSet) /\ ka \in Seq(T) /\ cz \in Seq(CellSet) /\ kz \in Seq(T)
      /\ l \in BOOLEAN /\ x \in CellSet
      /\ Len(ka) = IF l THEN 0 ELSE Len(ca) + 1
      /\ Len(kz) = IF l THEN 0 ELSE Len(cz) + 1
  BY <1>1 DEF SiblingSeqs
<1>3. /\ d2[a] = Node(l, Append(ca, x), ea) /\ d2[z] = Node(l, Tail(cz), ez)
      /\ d2[p] = Node(FALSE, ReplaceAt(d[p].cells, i, Head(cz)), d[p].kids)
      /\ \A q \in T \ {p, a, z} : d2[q] = d[q]
  BY <1>0 DEF LeftOf
<1>4. /\ w = JointCells(d, p, i, a, z) /\ y = JointKids(d, a, z)
      /\ KidsFrom(d[z], 1, 1) = (IF l THEN << >> ELSE SubSeq(kz, 1, 1))
      /\ KidsFrom(d[z], 2, Len(kz)) = (IF l THEN << >> ELSE SubSeq(kz, 2, Len(kz)))
      /\ ea = ka \o KidsFrom(d[z], 1, 1) /\ ez = KidsFrom(d[z], 2, Len(kz))
      /\ w = ca \o <<x>> \o cz /\ y = ka \o kz /\ t = Len(ca) + 1 /\ Len(cz) >= 1
  BY <1>0 DEF JointCells, JointKids, KidsFrom
<1> HIDE DEF x, ca, cz, ka, kz, l, t, w, y, ea, ez
<1>5. Holds(d2, a, l, Append(ca, x), ea) /\ Holds(d2, z, l, Tail(cz), ez)
  BY <1>3, AtNode
<1>6. d2[a].cells = Append(ca, x) /\ d2[a].kids = ea /\ d2[z].cells = Tail(cz) /\ d2[z].kids = ez
  BY <1>5 DEF Holds
<1>7. Between2(w, ca, x, cz)
  BY <1>2, <1>4, ConcatBetween
<1>8. /\ Append(ca, x) \in Seq(CellSet) /\ Len(Append(ca, x)) = Len(ca) + 1
      /\ Tail(cz) \in Seq(CellSet) /\ Len(Tail(cz)) = Len(cz) - 1
      /\ w[Len(ca) + 2] = Head(cz)
      /\ Cut(w, Append(ca, x), Tail(cz), Len(ca) + 2)
  BY <1>2, <1>4, <1>7, ShiftLeft
<1>9. /\ Len(w) = Len(ca) + 1 + Len(cz) /\ Len(ca) \in Nat /\ Len(cz) \in Nat
  BY <1>2, <1>7 DEF Between2
<1>10. t \in Nat /\ t + 1 = Len(ca) + 2 /\ t + 1 \in 1 .. Len(w)
  BY <1>4, <1>9
<1>11. /\ ea \in Seq(T) /\ Len(ea) = (IF l THEN 0 ELSE t + 1)
       /\ ez \in Seq(T) /\ Len(ez) = (IF l THEN 0 ELSE Len(cz))
       /\ Cut(y, ea, ez, Len(ea))
  <2>1. CASE l
    <3>1. ez = << >> /\ Len(ka) = 0 /\ Len(kz) = 0
      BY <1>2, <1>4, <2>1
    <3>2. ka = << >> /\ kz = << >>
      BY <1>2, <3>1
    <3>3. ea = << >> /\ y = << >>
      BY <1>4, <2>1, <3>2
    <3>4. << >> \in Seq(T) /\ Len(<< >>) = 0
      OBVIOUS
    <3>5. Cut(y, ea, ez, 0)
      BY <3>1, <3>3, <3>4 DEF Cut
    <3> QED
      BY <2>1, <3>1, <3>3, <3>4, <3>5
  <2>2. CASE ~l
    <3>1. Len(ka) = Len(ca) + 1 /\ Len(kz) = Len(cz) + 1 /\ Len(kz) >= 1
      BY <1>2, <1>9, <2>2
    <3>2. ea = ka \o SubSeq(kz, 1, 1) /\ ez = SubSeq(kz, 2, Len(kz))
      BY <1>4, <2>2
    <3>3. /\ ka \o SubSeq(kz, 1, 1) \in Seq(T) /\ Len(ka \o SubSeq(kz, 1, 1)) = Len(ka) + 1
          /\ SubSeq(kz, 2, Len(kz)) \in Seq(T) /\ Len(SubSeq(kz, 2, Len(kz))) = Len(kz) - 1
          /\ Cut(ka \o kz, ka \o SubSeq(kz, 1, 1), SubSeq(kz, 2, Len(kz)), Len(ka) + 1)
      BY <1>2, <3>1, ShiftKidLeft
    <3>4. Len(ka) + 1 = t + 1 /\ Len(kz) - 1 = Len(cz)
      BY <1>4, <1>9, <1>10, <3>1
    <3> QED
      BY <1>4, <2>2, <3>2, <3>3, <3>4
  <2> QED
    BY <1>2, <2>1, <2>2
<1>12. /\ Len(d2[a].cells) = t /\ Len(d2[z].cells) = Len(cz) - 1
       /\ Len(d2[a].kids) = IF l THEN 0 ELSE Len(d2[a].cells) + 1
       /\ Len(d2[z].kids) = IF l THEN 0 ELSE Len(d2[z].cells) + 1
  <2>1. Len(d2[a].cells) = t /\ Len(d2[z].cells) = Len(cz) - 1
    BY <1>4, <1>6, <1>8
  <2>2. Len(cz) = (Len(cz) - 1) + 1
    BY <1>9
  <2> QED
    BY <1>6, <1>11, <2>1, <2>2
<1>13. Regrouped(d, d2, T, p, i, a, z, t)
  BY <1>3, <1>4, <1>5, <1>6, <1>8, <1>10, <1>11, <1>12 DEF Regrouped, l
<1> QED
  BY <1>4, <1>12, <1>13 DEF ca, cz, LeftShape

--------------------------------------------------------------------------------
\* What a split, a merge, a borrow and a change of cells keep of a sound tree.

\* The pages of T are a search tree with root r and leaves at one depth; its cells name pages of Y.
Orderly(d, T)    == \E R : OrderedBy(d, T, R)
HeadsIn(d, T, Y) == \A q \in T : Firsts(d[q].cells) \subseteq Y
Sound(d, r, T, Y) ==
  /\ Nodes(d, T)
  /\ \E h : HeightsBy(d, T, h)
  /\ Slots(d, r, T)
  /\ Orderly(d, T)
  /\ HeadsIn(d, T, Y)

\* The pages named before and after.
LEMMA PartedNamed ==
  ASSUME NEW d1, NEW d2, NEW T, NEW p, NEW n, NEW a, NEW z, NEW t, NEW Y,
         Parted(d1, d2, T, p, n, a, z, t), Nodes(d1, T), Nodes(d2, T \cup {z})
  PROVE  HeadsIn(d1, T, Y) <=> HeadsIn(d2, T \cup {z}, Y)
<1> DEFINE x == d1[a].cells[t + 1]
<1>1. PartedFirsts(d1, d2, T, p, a, z, x)
  BY PartedFirstsHold
<1>2. \A q \in T \ {p, a} : d2[q] = d1[q]
  BY DEF Parted
<1> HIDE DEF x
<1>3. /\ p \in T /\ a \in T /\ z \notin T /\ p # a
      /\ Firsts(d2[p].cells) = Firsts(d1[p].cells) \cup Own(x)
      /\ Firsts(d1[a].cells) = Firsts(d2[a].cells) \cup Firsts(d2[z].cells) \cup Own(x)
  BY <1>1 DEF PartedFirsts, CutFirsts
<1>4. ASSUME HeadsIn(d1, T, Y), NEW q \in T \cup {z} PROVE Firsts(d2[q].cells) \subseteq Y
  <2>1. \A y \in T : Firsts(d1[y].cells) \subseteq Y
    BY <1>4 DEF HeadsIn
  <2>2. CASE q \in T \ {p, a}
    BY <1>2, <2>1, <2>2
  <2>3. CASE q = p
    BY <1>3, <2>1, <2>3
  <2>4. CASE q = a
    BY <1>3, <2>1, <2>4
  <2>5. CASE q = z
    BY <1>3, <2>1, <2>5
  <2> QED
    BY <2>2, <2>3, <2>4, <2>5
<1>5. ASSUME HeadsIn(d2, T \cup {z}, Y), NEW q \in T PROVE Firsts(d1[q].cells) \subseteq Y
  <2>1. \A y \in T \cup {z} : Firsts(d2[y].cells) \subseteq Y
    BY <1>5 DEF HeadsIn
  <2>2. CASE q \in T \ {p, a}
    BY <1>2, <2>1, <2>2
  <2>3. CASE q = p
    BY <1>3, <2>1, <2>3
  <2>4. CASE q = a
    BY <1>3, <2>1, <2>4
  <2> QED
    BY <2>2, <2>3, <2>4
<1> QED
  BY <1>4, <1>5 DEF HeadsIn

\* Parting a node keeps the tree sound.
LEMMA PartedSound ==
  ASSUME NEW d1, NEW d2, NEW r, NEW T, NEW p, NEW n, NEW a, NEW z, NEW t, NEW Y,
         Parted(d1, d2, T, p, n, a, z, t), Nodes(d2, T \cup {z}), Sound(d1, r, T, Y)
  PROVE  Sound(d2, r, T \cup {z}, Y)
<1>1. Nodes(d1, T) /\ Slots(d1, r, T) /\ HeadsIn(d1, T, Y)
  BY DEF Sound
<1>2. PICK h : HeightsBy(d1, T, h)
  BY DEF Sound
<1>3. PICK R : OrderedBy(d1, T, R)
  BY DEF Sound, Orderly
<1>4. \E g : HeightsBy(d2, T \cup {z}, g)
  BY <1>1, <1>2, PartedHeights
<1>5. Slots(d2, r, T \cup {z})
  BY <1>1, PartedSlots
<1>6. Orderly(d2, T \cup {z})
  BY <1>1, <1>3, PartedOrdered DEF Orderly
<1>7. HeadsIn(d2, T \cup {z}, Y)
  BY <1>1, PartedNamed
<1> QED
  BY <1>4, <1>5, <1>6, <1>7 DEF Sound

\* Joining two siblings keeps the tree sound.
LEMMA JoinedSound ==
  ASSUME NEW d1, NEW d2, NEW r, NEW T, NEW p, NEW n, NEW a, NEW z, NEW t, NEW Y,
         Parted(d1, d2, T, p, n, a, z, t), Nodes(d1, T), Sound(d2, r, T \cup {z}, Y)
  PROVE  Sound(d1, r, T, Y)
<1>1. Nodes(d2, T \cup {z}) /\ Slots(d2, r, T \cup {z}) /\ HeadsIn(d2, T \cup {z}, Y)
  BY DEF Sound
<1>2. PICK h : HeightsBy(d2, T \cup {z}, h)
  BY DEF Sound
<1>3. PICK R : OrderedBy(d2, T \cup {z}, R)
  BY DEF Sound, Orderly
<1>4. \E g : HeightsBy(d1, T, g)
  BY <1>1, <1>2, JoinedHeights
<1>5. Slots(d1, r, T)
  BY <1>1, JoinedSlots
<1>6. Orderly(d1, T)
  BY <1>1, <1>3, JoinedOrdered DEF Orderly
<1>7. HeadsIn(d1, T, Y)
  BY <1>1, PartedNamed
<1> QED
  BY <1>4, <1>5, <1>6, <1>7 DEF Sound

\* The children of a node.
Children(d, r, T, p) ==
  /\ Len(d[p].kids) = Len(d[p].cells) + 1 /\ Len(d[p].cells) \in Nat
  /\ \A i \in 1 .. Len(d[p].kids) : /\ d[p].kids[i] \in T \ {p, r}
                                    /\ OnlyChild(d, T, p, d[p].kids[i])
  /\ \A i, j \in 1 .. Len(d[p].kids) : d[p].kids[i] = d[p].kids[j] => i = j
  /\ \A q, x \in Members(d[p].kids) : d[q].leaf = d[x].leaf

\* The children of an inner node are distinct, on one level, and have no other parent.
LEMMA KidsOf ==
  ASSUME NEW d, NEW r, NEW T, NEW Y, Sound(d, r, T, Y), NEW p \in T, d[p].leaf = FALSE
  PROVE  Children(d, r, T, p)
<1>0. Nodes(d, T)
  BY DEF Sound
<1>1. PICK h : HeightsBy(d, T, h)
  BY DEF Sound
<1>2. PICK P : SlotsBy(d, r, T, P)
  BY DEF Sound, Slots
<1>3. /\ Len(d[p].kids) = Len(d[p].cells) + 1 /\ Len(d[p].cells) \in Nat
      /\ \A i \in 1 .. Len(d[p].kids) : d[p].kids[i] \in T
  BY <1>0, NodeLens
<1>4. /\ h \in [T -> Nat]
      /\ \A x \in T : d[x].leaf <=> h[x] = 0
      /\ \A q \in Members(d[p].kids) : h[q] + 1 = h[p]
  BY <1>1 DEF HeightsBy, Height
<1>5. /\ \A q \in T : P[q] = 0 <=> q = r
      /\ \A x \in T : Members(d[x].kids) = {q \in T : P[q] = x} /\ Distinct(d[x].kids)
  BY <1>2 DEF SlotsBy, Lists
<1>6. \A q \in T : NodeIn(d, T, q)
  BY <1>0 DEF Nodes
<1>60. \A q \in T : d[q].leaf \in BOOLEAN
  BY <1>6 DEF NodeIn
<1>61. 0 \notin T
  BY <1>0 DEF Nodes, DataPages
<1>7. \A q, x \in Members(d[p].kids) : d[q].leaf = d[x].leaf
  <2> SUFFICES ASSUME NEW q \in Members(d[p].kids), NEW x \in Members(d[p].kids) PROVE d[q].leaf = d[x].leaf
    OBVIOUS
  <2>1. q \in T /\ x \in T
    BY <1>5
  <2>2. h[q] = h[x]
    <3>1. h[q] + 1 = h[x] + 1 /\ h[q] \in Nat /\ h[x] \in Nat
      BY <1>4, <2>1
    <3> QED
      BY <3>1
  <2> QED
    BY <1>4, <1>60, <2>1, <2>2
<1>8. ASSUME NEW i \in 1 .. Len(d[p].kids)
      PROVE  d[p].kids[i] \in T \ {p, r} /\ OnlyChild(d, T, p, d[p].kids[i])
  <2> DEFINE q == d[p].kids[i]
  <2>1. q \in Members(d[p].kids) /\ q \in T
    BY <1>3 DEF Members
  <2> HIDE DEF q
  <2>2. q # p
    <3>1. h[q] + 1 = h[p] /\ h[q] \in Nat
      BY <1>4, <2>1
    <3> QED
      BY <3>1
  <2>3. q # r
    <3>1. P[q] = p
      BY <1>5, <2>1
    <3> QED
      BY <1>5, <1>61, <2>1, <3>1
  <2>4. \A x \in T \ {p} : q \notin Members(d[x].kids)
    BY <1>5, <2>1
  <2>5. Distinct(d[p].kids)
    BY <1>5
  <2> QED
    BY <2>1, <2>2, <2>3, <2>4, <2>5 DEF q, OnlyChild
<1>9. \A i, j \in 1 .. Len(d[p].kids) : d[p].kids[i] = d[p].kids[j] => i = j
  BY <1>5 DEF Distinct
<1> QED
  BY <1>3, <1>7, <1>8, <1>9 DEF Children

\* The two children that a cell separates are siblings.
LEMMA SiblingsAre ==
  ASSUME NEW d, NEW r, NEW T, NEW Y, Sound(d, r, T, Y), NEW p \in T, d[p].leaf = FALSE,
         NEW i \in 1 .. Len(d[p].cells)
  PROVE  /\ Siblings(d, T, p, i, d[p].kids[i], d[p].kids[i + 1])
         /\ d[p].kids[i] \in T \ {p, r} /\ d[p].kids[i + 1] \in T \ {p, r}
         /\ d[p].kids[i] # d[p].kids[i + 1]
<1>1. /\ Len(d[p].kids) = Len(d[p].cells) + 1 /\ Len(d[p].cells) \in Nat
      /\ \A n \in 1 .. Len(d[p].kids) : /\ d[p].kids[n] \in T \ {p, r}
                                        /\ OnlyChild(d, T, p, d[p].kids[n])
      /\ \A n, m \in 1 .. Len(d[p].kids) : d[p].kids[n] = d[p].kids[m] => n = m
      /\ \A q, x \in Members(d[p].kids) : d[q].leaf = d[x].leaf
  <2>1. Children(d, r, T, p)
    BY KidsOf
  <2> QED
    BY <2>1 DEF Children
<1>2. i \in 1 .. Len(d[p].kids) /\ i + 1 \in 1 .. Len(d[p].kids) /\ i # i + 1
  BY <1>1
<1>3. d[p].kids[i] \in Members(d[p].kids) /\ d[p].kids[i + 1] \in Members(d[p].kids)
  BY <1>2 DEF Members
<1>4. /\ d[p].kids[i] \in T \ {p, r} /\ d[p].kids[i + 1] \in T \ {p, r} /\ d[p].kids[i] # d[p].kids[i + 1]
      /\ OnlyChild(d, T, p, d[p].kids[i + 1]) /\ d[d[p].kids[i]].leaf = d[d[p].kids[i + 1]].leaf
  BY <1>1, <1>2, <1>3
<1> QED
  BY <1>4 DEF Siblings

\* What a rotation keeps.
RegroupKeeps(d, d2, r, T, Y, p) ==
  /\ Sound(d2, r, T, Y) /\ Len(d2[p].cells) = Len(d[p].cells) /\ d2[p].kids = d[p].kids
  /\ d2[p].leaf = FALSE
  /\ \A H : Heads(d, T, H) => Heads(d2, T, H)

\* Two siblings that regroup, and two that merge, keep the tree sound.
LEMMA RegroupedSound ==
  ASSUME NEW d, NEW d2, NEW r, NEW T, NEW p, NEW i, NEW a, NEW z, NEW t, NEW Y,
         Sound(d, r, T, Y), Siblings(d, T, p, i, a, z), Regrouped(d, d2, T, p, i, a, z, t)
  PROVE  RegroupKeeps(d, d2, r, T, Y, p)
<1> DEFINE dm == Joint(d, T, p, i, a, z)
           U  == T \ {z}
           n  == Len(d[a].cells)
<1>0. U \cup {z} = T
  BY DEF Siblings
<1>1. Nodes(d, T)
  BY DEF Sound
<1>2. /\ Nodes(dm, U) /\ Parted(dm, d, U, p, i, a, z, n) /\ Parted(dm, d2, U, p, i, a, z, t)
      /\ Nodes(d2, T) /\ Len(d2[p].cells) = Len(d[p].cells)
  <2>1. AroundJoint(d, d2, T, p, i, a, z, t)
    BY <1>1, RegroupedParts
  <2> QED
    BY <2>1 DEF AroundJoint
<1>3. d2[p].kids = d[p].kids /\ d2[p].leaf = FALSE
  <2>1. PICK c : d2[p] = Node(FALSE, c, d[p].kids)
    BY DEF Regrouped
  <2>2. Holds(d2, p, FALSE, c, d[p].kids)
    BY <2>1, AtNode
  <2> QED
    BY <2>2 DEF Holds
<1> HIDE DEF dm, U, n
<1>4. Sound(dm, r, U, Y)
  BY <1>0, <1>2, JoinedSound
<1>5. Sound(d2, r, T, Y)
  <2>1. Sound(d2, r, U \cup {z}, Y)
    BY <1>0, <1>2, <1>4, PartedSound
  <2> QED
    BY <1>0, <2>1
<1>6. ASSUME NEW H, Heads(d, T, H) PROVE Heads(d2, T, H)
  <2>1. Nodes(d, U \cup {z}) /\ Nodes(d2, U \cup {z}) /\ Heads(d, U \cup {z}, H)
    BY <1>0, <1>1, <1>2, <1>6
  <2>2. Heads(dm, U, H)
    BY <1>2, <2>1, JoinedHeads
  <2>3. Heads(d2, U \cup {z}, H)
    BY <1>2, <2>1, <2>2, PartedHeads
  <2> QED
    BY <1>0, <2>3
<1> QED
  BY <1>2, <1>3, <1>5, <1>6 DEF RegroupKeeps

\* What a merge keeps.
MergeKeeps(d, d2, r, T, Y, p, z) ==
  /\ Sound(d2, r, T \ {z}, Y) /\ d2[p].leaf = FALSE
  /\ \A H : Heads(d, T, H) => Heads(d2, T \ {z}, H)

\* merge_children keeps the tree sound.
LEMMA MergedSound ==
  ASSUME NEW d, NEW d2, NEW r, NEW T, NEW p, NEW i, NEW a, NEW z, NEW Y,
         Sound(d, r, T, Y), Siblings(d, T, p, i, a, z), MergeOf(d, d2, T, p, i, a, z)
  PROVE  MergeKeeps(d, d2, r, T, Y, p, z)
<1> DEFINE U  == T \ {z}
           n  == Len(d[a].cells)
<1>0. U \cup {z} = T
  BY DEF Siblings
<1>1. Nodes(d, T)
  BY DEF Sound
<1>2. Nodes(d2, U) /\ Parted(d2, d, U, p, i, a, z, n)
  BY <1>1, MergeParts DEF MergeShape
<1> HIDE DEF U, n
<1>3. d2[p].leaf = FALSE
  BY <1>2 DEF Parted
<1>4. Sound(d2, r, U, Y)
  BY <1>0, <1>2, JoinedSound
<1>6. ASSUME NEW H, Heads(d, T, H) PROVE Heads(d2, U, H)
  <2>1. Nodes(d, U \cup {z}) /\ Heads(d, U \cup {z}, H)
    BY <1>0, <1>1, <1>6
  <2> QED
    BY <1>2, <2>1, JoinedHeads
<1> QED
  BY <1>3, <1>4, <1>6 DEF U, MergeKeeps

\* A disk on which the pages of T are the same.
LEMMA SameSound ==
  ASSUME NEW d, NEW d2, NEW r, NEW T, NEW Y, NEW Z, Sound(d, r, T, Y), Y \subseteq Z,
         \A q \in T : d2[q] = d[q]
  PROVE  Sound(d2, r, T, Z) /\ \A H : Heads(d, T, H) => Heads(d2, T, H)
<1>1. Nodes(d2, T)
  BY DEF Sound, Nodes, NodeIn
<1>2. \E h : HeightsBy(d2, T, h)
  BY DEF Sound, HeightsBy, Height
<1>3. Slots(d2, r, T)
  BY DEF Sound, Slots, SlotsBy
<1>4. Orderly(d2, T)
  BY DEF Sound, Orderly, OrderedBy, OrderedNode
<1>5. HeadsIn(d2, T, Z)
  BY DEF Sound, HeadsIn
<1>6. ASSUME NEW H, Heads(d, T, H) PROVE Heads(d2, T, H)
  BY <1>6 DEF Heads, HeadsBy
<1> QED
  BY <1>1, <1>2, <1>3, <1>4, <1>5, <1>6 DEF Sound

\* The order depends on the nodes of the tree alone.
LEMMA SameOrdered ==
  ASSUME NEW d, NEW d2, NEW T, NEW R, OrderedBy(d, T, R), \A q \in T : d2[q] = d[q]
  PROVE  OrderedBy(d2, T, R)
BY DEF OrderedBy, OrderedNode

\* The node at p gets other cells.

Recelled(d, d2, T, p, c) ==
  /\ p \in T /\ d2[p] = Node(d[p].leaf, c, d[p].kids)
  /\ \A q \in T \ {p} : d2[q] = d[q]
  /\ c \in Seq(CellSet)
  /\ ~d[p].leaf => Len(c) = Len(d[p].cells)

\* The fields of the nodes when one of them gets other cells.
LEMMA RecelledFields ==
  ASSUME NEW d, NEW d2, NEW T, NEW p, NEW c, Recelled(d, d2, T, p, c)
  PROVE  /\ d2[p].kind = "node" /\ d2[p].leaf = d[p].leaf /\ d2[p].cells = c /\ d2[p].kids = d[p].kids
         /\ p \in T /\ \A q \in T \ {p} : d2[q] = d[q]
         /\ \A q \in T : d2[q].leaf = d[q].leaf /\ d2[q].kids = d[q].kids
<1>1. Holds(d2, p, d[p].leaf, c, d[p].kids)
  BY AtNode DEF Recelled
<1>2. d2[p].kind = "node" /\ d2[p].leaf = d[p].leaf /\ d2[p].cells = c /\ d2[p].kids = d[p].kids
  BY <1>1 DEF Holds
<1>3. p \in T /\ \A q \in T \ {p} : d2[q] = d[q]
  BY DEF Recelled
<1> QED
  BY <1>2, <1>3

\* Other cells leave the shape of the tree alone.
LEMMA RecelledShape ==
  ASSUME NEW d, NEW d2, NEW r, NEW T, NEW p, NEW c, Recelled(d, d2, T, p, c), Nodes(d, T), Slots(d, r, T)
  PROVE  /\ Nodes(d2, T) /\ Slots(d2, r, T)
         /\ \A h : HeightsBy(d, T, h) => HeightsBy(d2, T, h)
<1>1. /\ d2[p].kind = "node" /\ d2[p].leaf = d[p].leaf /\ d2[p].cells = c /\ d2[p].kids = d[p].kids
      /\ p \in T /\ \A q \in T \ {p} : d2[q] = d[q]
  BY RecelledFields
<1>2. \A q \in T : d2[q].leaf = d[q].leaf /\ d2[q].kids = d[q].kids
  BY <1>1
<1>3. Nodes(d2, T)
  <2>1. T \subseteq DataPages /\ \A q \in T : NodeIn(d, T, q)
    BY DEF Nodes
  <2>2. ASSUME NEW q \in T PROVE NodeIn(d2, T, q)
    <3>1. CASE q = p
      <4>1. NodeIn(d, T, p)
        BY <1>1, <2>1
      <4>2. d[p].leaf \in BOOLEAN /\ d[p].kids \in Seq(T)
        BY <4>1 DEF NodeIn
      <4>3. Len(d[p].kids) = IF d[p].leaf THEN 0 ELSE Len(d[p].cells) + 1
        BY <4>1 DEF NodeIn
      <4>4. c \in Seq(CellSet) /\ (~d[p].leaf => Len(c) = Len(d[p].cells))
        BY DEF Recelled
      <4> QED
        BY <1>1, <3>1, <4>2, <4>3, <4>4 DEF NodeIn
    <3>2. CASE q # p
      <4>1. d2[q] = d[q] /\ NodeIn(d, T, q)
        BY <1>1, <2>1, <3>2
      <4> QED
        BY <4>1 DEF NodeIn
    <3> QED
      BY <3>1, <3>2
  <2> QED
    BY <2>1, <2>2 DEF Nodes
<1>4. Slots(d2, r, T)
  BY <1>2 DEF Slots, SlotsBy
<1>5. ASSUME NEW h, HeightsBy(d, T, h) PROVE HeightsBy(d2, T, h)
  BY <1>2, <1>5 DEF HeightsBy, Height
<1> QED
  BY <1>3, <1>4, <1>5

\* The cells are in order, and those the keys below the children allow.
Fits(d, p, c, R) ==
  /\ \A i \in 1 .. Len(c) : c[i].key \in R[p]
  /\ Sorted(c) /\ Between(c, d[p].kids, R)

\* Cells that fit keep the order.
LEMMA RecelledOrdered ==
  ASSUME NEW d, NEW d2, NEW T, NEW p, NEW c, NEW R, Recelled(d, d2, T, p, c), OrderedBy(d, T, R), Fits(d, p, c, R)
  PROVE  OrderedBy(d2, T, R)
<1>1. /\ d2[p].cells = c /\ d2[p].kids = d[p].kids /\ p \in T /\ \A q \in T \ {p} : d2[q] = d[q]
  BY RecelledFields
<1>2. R \in [T -> SUBSET Nat] /\ \A q \in T : OrderedNode(d, R, q)
  BY DEF OrderedBy
<1>3. ASSUME NEW q \in T PROVE OrderedNode(d2, R, q)
  <2>1. CASE q = p
    <3>1. OrderedNode(d, R, p)
      BY <1>1, <1>2
    <3>2. \A x \in Members(d[p].kids) : R[x] \subseteq R[p]
      BY <3>1 DEF OrderedNode
    <3> QED
      BY <1>1, <2>1, <3>2 DEF OrderedNode, Fits
  <2>2. CASE q # p
    <3>1. d2[q] = d[q] /\ OrderedNode(d, R, q)
      BY <1>1, <1>2, <2>2
    <3> QED
      BY <3>1 DEF OrderedNode
  <2> QED
    BY <2>1, <2>2
<1> QED
  BY <1>2, <1>3 DEF OrderedBy

\* Cells that keep the order keep the tree sound.
LEMMA RecelledSound ==
  ASSUME NEW d, NEW d2, NEW r, NEW T, NEW Y, NEW Z, NEW p, NEW c, Recelled(d, d2, T, p, c),
         Sound(d, r, T, Y), Y \subseteq Z, Firsts(c) \subseteq Z, Orderly(d2, T)
  PROVE  Sound(d2, r, T, Z)
<1>1. Nodes(d, T) /\ Slots(d, r, T) /\ HeadsIn(d, T, Y) /\ \E h : HeightsBy(d, T, h)
  BY DEF Sound
<1>2. /\ Nodes(d2, T) /\ Slots(d2, r, T)
      /\ \A h : HeightsBy(d, T, h) => HeightsBy(d2, T, h)
  BY <1>1, RecelledShape
<1>3. d2[p].cells = c /\ p \in T /\ \A q \in T \ {p} : d2[q] = d[q]
  BY RecelledFields
<1>4. HeadsIn(d2, T, Z)
  BY <1>1, <1>3 DEF HeadsIn
<1> QED
  BY <1>1, <1>2, <1>4 DEF Sound

\* A cell more, or less, and its overflow page.
LEMMA AddedHeads ==
  ASSUME NEW d, NEW d2, NEW T, NEW p, NEW c, NEW H, NEW n, NEW x, Recelled(d, d2, T, p, c), Nodes(d, T), Heads(d, T, H),
         Inserted(d[p].cells, c, n, x), Own(x) \cap H = {}
  PROVE  Heads(d2, T, H \cup Own(x))
<1>1. d2[p].cells = c /\ p \in T /\ \A q \in T \ {p} : d2[q] = d[q]
  BY RecelledFields
<1>2. PICK home : HeadsBy(d, T, H, home)
  BY DEF Heads
<1>3. home \in [H -> T] /\ \A q \in T : HeadsOf(d[q].cells, {y \in H : home[y] = q})
  BY <1>2 DEF HeadsBy
<1>4. Len(d[p].cells) \in Nat
  BY <1>1, NodeLens
<1>5. /\ Firsts(c) = Firsts(d[p].cells) \cup Own(x)
      /\ OneEach(c) <=> OneEach(d[p].cells) /\ Own(x) \cap Firsts(d[p].cells) = {}
  BY <1>4, InsertedHeads
<1> DEFINE G == H \cup Own(x)
           there == [y \in G |-> IF y \in H THEN home[y] ELSE p]
<1>6. there \in [G -> T] /\ \A y \in G : there[y] = IF y \in H THEN home[y] ELSE p
  BY <1>1, <1>3
<1>7. G = H \cup Own(x) /\ Own(x) \cap H = {}
  OBVIOUS
<1> HIDE DEF there, G
<1>8. ASSUME NEW q \in T PROVE HeadsOf(d2[q].cells, {y \in G : there[y] = q})
  <2>1. CASE q = p
    <3>1. HeadsOf(d[p].cells, {y \in H : home[y] = p})
      BY <1>1, <1>3
    <3>2. Firsts(d[p].cells) = {y \in H : home[y] = p} /\ OneEach(d[p].cells)
      BY <3>1 DEF HeadsOf
    <3>3. {y \in G : there[y] = p} = {y \in H : home[y] = p} \cup Own(x)
      BY <1>6, <1>7
    <3>4. Own(x) \cap Firsts(d[p].cells) = {}
      BY <1>7, <3>2
    <3> QED
      BY <1>1, <1>5, <2>1, <3>2, <3>3, <3>4 DEF HeadsOf
  <2>2. CASE q # p
    <3>1. d2[q] = d[q] /\ HeadsOf(d[q].cells, {y \in H : home[y] = q})
      BY <1>1, <1>3, <2>2
    <3>2. {y \in G : there[y] = q} = {y \in H : home[y] = q}
      BY <1>6, <1>7, <2>2
    <3> QED
      BY <3>1, <3>2
  <2> QED
    BY <2>1, <2>2
<1>9. HeadsBy(d2, T, G, there)
  BY <1>6, <1>8 DEF HeadsBy
<1> QED
  BY <1>9 DEF Heads, G

\* A removed cell's page is the only one no longer named.
LEMMA RemovedHeads ==
  ASSUME NEW d, NEW d2, NEW T, NEW p, NEW c, NEW H, NEW n, NEW x, Recelled(d, d2, T, p, c), Nodes(d, T), Heads(d, T, H),
         Inserted(c, d[p].cells, n, x)
  PROVE  Heads(d2, T, H \ Own(x)) /\ Own(x) \subseteq H
<1>1. d2[p].cells = c /\ p \in T /\ \A q \in T \ {p} : d2[q] = d[q]
  BY RecelledFields
<1>2. PICK home : HeadsBy(d, T, H, home)
  BY DEF Heads
<1>3. home \in [H -> T] /\ \A q \in T : HeadsOf(d[q].cells, {y \in H : home[y] = q})
  BY <1>2 DEF HeadsBy
<1>4. Len(c) \in Nat
  BY DEF Recelled
<1>5. /\ Firsts(d[p].cells) = Firsts(c) \cup Own(x)
      /\ OneEach(d[p].cells) <=> OneEach(c) /\ Own(x) \cap Firsts(c) = {}
  BY <1>4, InsertedHeads
<1> DEFINE G == H \ Own(x)
           there == [y \in G |-> home[y]]
<1>6. there \in [G -> T] /\ \A y \in G : there[y] = home[y]
  BY <1>1, <1>3
<1>7. G = H \ Own(x)
  OBVIOUS
<1> HIDE DEF there, G
<1>8. Firsts(d[p].cells) = {y \in H : home[y] = p} /\ OneEach(d[p].cells)
  <2>1. HeadsOf(d[p].cells, {y \in H : home[y] = p})
    BY <1>1, <1>3
  <2> QED
    BY <2>1 DEF HeadsOf
<1>9. ASSUME NEW q \in T PROVE HeadsOf(d2[q].cells, {y \in G : there[y] = q})
  <2>1. CASE q = p
    <3>3. {y \in G : there[y] = p} = {y \in H : home[y] = p} \ Own(x)
      BY <1>6, <1>7
    <3>4. Own(x) \cap Firsts(c) = {} /\ OneEach(c) /\ Firsts(c) = {y \in H : home[y] = p} \ Own(x)
      BY <1>5, <1>8
    <3> QED
      BY <1>1, <2>1, <3>3, <3>4 DEF HeadsOf
  <2>2. CASE q # p
    <3>1. d2[q] = d[q] /\ HeadsOf(d[q].cells, {y \in H : home[y] = q})
      BY <1>1, <1>3, <2>2
    <3>2. {y \in G : there[y] = q} = {y \in H : home[y] = q}
      <4>1. \A y \in Own(x) : home[y] = p
        BY <1>5, <1>8
      <4> QED
        BY <1>6, <1>7, <2>2, <4>1
    <3> QED
      BY <3>1, <3>2
  <2> QED
    BY <2>1, <2>2
<1>10. HeadsBy(d2, T, G, there)
  BY <1>6, <1>9 DEF HeadsBy
<1>11. Own(x) \subseteq H
  BY <1>5, <1>8
<1> QED
  BY <1>10, <1>11 DEF Heads, G

\* One cell replaced by another, neither with overflow pages.
LEMMA ReplacedHeads ==
  ASSUME NEW d, NEW d2, NEW T, NEW p, NEW c, NEW H, NEW s, NEW n, NEW x, NEW y,
         Recelled(d, d2, T, p, c), Heads(d, T, H), Len(s) \in Nat,
         Inserted(s, d[p].cells, n, x), Inserted(s, c, n, y), ~IsOverflow(x), ~IsOverflow(y)
  PROVE  Heads(d2, T, H)
<1>1. d2[p].cells = c /\ p \in T /\ \A q \in T \ {p} : d2[q] = d[q]
  BY RecelledFields
<1>2. PICK home : HeadsBy(d, T, H, home)
  BY DEF Heads
<1>3. home \in [H -> T] /\ \A q \in T : HeadsOf(d[q].cells, {v \in H : home[v] = q})
  BY <1>2 DEF HeadsBy
<1>4. Own(x) = {} /\ Own(y) = {}
  BY DEF Own
<1>5. /\ Firsts(d[p].cells) = Firsts(s) \cup Own(x)
      /\ OneEach(d[p].cells) <=> OneEach(s) /\ Own(x) \cap Firsts(s) = {}
  BY InsertedHeads
<1>6. /\ Firsts(c) = Firsts(s) \cup Own(y)
      /\ OneEach(c) <=> OneEach(s) /\ Own(y) \cap Firsts(s) = {}
  BY InsertedHeads
<1>7. Firsts(c) = Firsts(d[p].cells) /\ (OneEach(c) <=> OneEach(d[p].cells))
  BY <1>4, <1>5, <1>6
<1>8. ASSUME NEW q \in T PROVE HeadsOf(d2[q].cells, {v \in H : home[v] = q})
  <2>1. HeadsOf(d[q].cells, {v \in H : home[v] = q})
    BY <1>3
  <2>2. CASE q = p
    BY <1>1, <1>7, <2>1, <2>2 DEF HeadsOf
  <2>3. CASE q # p
    BY <1>1, <2>1, <2>3
  <2> QED
    BY <2>2, <2>3
<1> QED
  BY <1>3, <1>8 DEF Heads, HeadsBy

\* The keys below k are the first ones of a node.
Position(cells, k, b) ==
  /\ b \in 0 .. Len(cells)
  /\ \A i \in 1 .. Len(cells) : cells[i].key < k <=> i <= b

\* The scan of a node for a key, on cells in order, counts the keys below it.
LEMMA BelowIs ==
  ASSUME NEW node, node.cells \in Seq(CellSet), Sorted(node.cells), NEW k \in Nat
  PROVE  Position(node.cells, k, Below(node, k))
<1> DEFINE c == node.cells
           S == {i \in 1 .. Len(c) : c[i].key < k}
           M == {j \in 1 .. Len(c) + 1 : j = Len(c) + 1 \/ (j \in 1 .. Len(c) /\ k <= c[j].key)}
<1>1. Len(c) \in Nat /\ DOMAIN c = 1 .. Len(c) /\ \A i \in 1 .. Len(c) : c[i] \in CellSet
  OBVIOUS
<1>2. \A i \in 1 .. Len(c) : c[i].key \in Nat
  BY <1>1, CellFields
<1>3. \A i, j \in 1 .. Len(c) : i < j => c[i].key <= c[j].key
  BY DEF Sorted
<1>4. Below(node, k) = Cardinality(S)
  BY <1>1 DEF Below
<1> HIDE DEF c
<1>5. M \in SUBSET Nat /\ M # {}
  <2>1. Len(c) + 1 \in M
    BY <1>1
  <2> QED
    BY <1>1, <2>1
<1>6. PICK m \in M : \A j \in M : m <= j
  BY <1>5, SmallestNumber
<1>7. m \in 1 .. Len(c) + 1 /\ m - 1 \in 0 .. Len(c)
  BY <1>1, <1>6
<1>8. \A i \in 1 .. Len(c) : c[i].key < k <=> i <= m - 1
  <2> TAKE i \in 1 .. Len(c)
  <2>1. CASE i < m
    <3>1. i \notin M
      BY <1>6, <1>7, <2>1
    <3>2. i <= m - 1 /\ c[i].key \in Nat
      BY <1>2, <1>7, <2>1
    <3> QED
      BY <1>1, <3>1, <3>2
  <2>2. CASE i >= m
    <3>1. m \in 1 .. Len(c) /\ k <= c[m].key
      BY <1>1, <1>6, <1>7, <2>2
    <3>2. c[m].key <= c[i].key
      BY <1>2, <1>3, <2>2, <3>1
    <3>3. ~(i <= m - 1) /\ c[i].key \in Nat /\ c[m].key \in Nat
      BY <1>2, <1>7, <2>2, <3>1
    <3> QED
      BY <3>1, <3>2, <3>3
  <2> QED
    BY <1>7, <2>1, <2>2
<1>9. S = 1 .. m - 1
  BY <1>1, <1>7, <1>8
<1>10. Cardinality(S) = m - 1
  <2>1. m - 1 \in Nat /\ (1 > m - 1 \/ 1 <= m - 1)
    BY <1>7
  <2>2. Cardinality(1 .. m - 1) = IF 1 > m - 1 THEN 0 ELSE (m - 1) - 1 + 1
    BY <2>1, FS_Interval
  <2>3. (IF 1 > m - 1 THEN 0 ELSE (m - 1) - 1 + 1) = m - 1
    BY <1>7
  <2> QED
    BY <1>9, <2>2, <2>3
<1> QED
  BY <1>4, <1>7, <1>8, <1>10 DEF Position, c

\* The cells of a node and its key ranges.
LEMMA NodeOrder ==
  ASSUME NEW d, NEW T, NEW R, Nodes(d, T), OrderedBy(d, T, R), NEW p \in T
  PROVE  /\ Sorted(d[p].cells) /\ Between(d[p].cells, d[p].kids, R)
         /\ d[p].cells \in Seq(CellSet) /\ R[p] \subseteq Nat
         /\ \A i \in 1 .. Len(d[p].cells) : d[p].cells[i].key \in R[p]
         /\ \A q \in Members(d[p].kids) : R[q] \subseteq R[p]
<1>1. OrderedNode(d, R, p) /\ R \in [T -> SUBSET Nat] /\ NodeIn(d, T, p)
  BY DEF OrderedBy, Nodes
<1> QED
  BY <1>1 DEF OrderedNode, NodeIn

\* A key inserted in a leaf where it belongs.
LEMMA AddedFits ==
  ASSUME NEW d, NEW T, NEW R, NEW p \in T, NEW x \in CellSet, Nodes(d, T), OrderedBy(d, T, R),
         d[p].leaf = TRUE, x.key \in R[p],
         NEW b, Position(d[p].cells, x.key, b), NEW c, Inserted(d[p].cells, c, b + 1, x)
  PROVE  Fits(d, p, c, R)
<1> DEFINE s == d[p].cells
<1>1. /\ Sorted(s) /\ s \in Seq(CellSet) /\ \A i \in 1 .. Len(s) : s[i].key \in R[p]
  BY NodeOrder
<1>2. Len(d[p].kids) = 0
  BY NodeLens
<1>3. /\ Len(s) \in Nat /\ \A i \in 1 .. Len(s) : s[i].key \in Nat
  BY <1>1, CellFields
<1>4. x.key \in Nat
  BY CellFields
<1>5. \A i, j \in 1 .. Len(s) : i < j => s[i].key <= s[j].key
  BY <1>1 DEF Sorted
<1>6. b \in 0 .. Len(s) /\ \A i \in 1 .. Len(s) : s[i].key < x.key <=> i <= b
  BY DEF Position
<1> HIDE DEF s
<1>7. /\ b + 1 \in 1 .. Len(c) /\ Len(c) = Len(s) + 1 /\ c[b + 1] = x
      /\ \A j \in 1 .. Len(c) : \/ j < b + 1 /\ j \in 1 .. Len(s) /\ c[j] = s[j]
                                \/ j = b + 1
                                \/ j > b + 1 /\ j - 1 \in 1 .. Len(s) /\ c[j] = s[j - 1]
  BY DEF Inserted, s
<1>8. \A i \in 1 .. Len(c) : c[i].key \in R[p]
  BY <1>1, <1>7
<1>9. Sorted(c)
  <2> SUFFICES ASSUME NEW i \in 1 .. Len(c), NEW j \in 1 .. Len(c), i < j PROVE c[i].key <= c[j].key
    BY DEF Sorted
  <2>1. \/ i < b + 1 /\ i \in 1 .. Len(s) /\ c[i] = s[i]
        \/ i = b + 1
        \/ i > b + 1 /\ i - 1 \in 1 .. Len(s) /\ c[i] = s[i - 1]
    BY <1>7
  <2>2. \/ j < b + 1 /\ j \in 1 .. Len(s) /\ c[j] = s[j]
        \/ j = b + 1
        \/ j > b + 1 /\ j - 1 \in 1 .. Len(s) /\ c[j] = s[j - 1]
    BY <1>7
  <2>3. CASE i < b + 1 /\ i \in 1 .. Len(s) /\ c[i] = s[i]
    <3>1. s[i].key < x.key /\ s[i].key \in Nat
      BY <1>3, <1>6, <2>3
    <3>2. CASE j < b + 1 /\ j \in 1 .. Len(s) /\ c[j] = s[j]
      BY <1>5, <2>3, <3>2
    <3>3. CASE j = b + 1
      BY <1>4, <1>7, <2>3, <3>1, <3>3
    <3>4. CASE j > b + 1 /\ j - 1 \in 1 .. Len(s) /\ c[j] = s[j - 1]
      <4>1. i < j - 1
        BY <1>6, <2>3, <3>4
      <4> QED
        BY <1>5, <2>3, <3>4, <4>1
    <3> QED
      BY <2>2, <3>2, <3>3, <3>4
  <2>4. CASE i = b + 1
    <3>1. j > b + 1 /\ j - 1 \in 1 .. Len(s) /\ c[j] = s[j - 1]
      BY <1>6, <2>2, <2>4
    <3>2. ~(j - 1 <= b)
      BY <1>6, <3>1
    <3>3. ~(s[j - 1].key < x.key) /\ s[j - 1].key \in Nat
      BY <1>3, <1>6, <3>1, <3>2
    <3> QED
      BY <1>4, <1>7, <2>4, <3>1, <3>3
  <2>5. CASE i > b + 1 /\ i - 1 \in 1 .. Len(s) /\ c[i] = s[i - 1]
    <3>1. j > b + 1 /\ j - 1 \in 1 .. Len(s) /\ c[j] = s[j - 1]
      BY <1>6, <2>2, <2>5
    <3>2. i - 1 < j - 1
      OBVIOUS
    <3> QED
      BY <1>5, <2>5, <3>1, <3>2
  <2> QED
    BY <2>1, <2>3, <2>4, <2>5
<1>10. Between(c, d[p].kids, R)
  BY <1>2 DEF Between
<1> QED
  BY <1>8, <1>9, <1>10 DEF Fits

\* A leaf without one of its cells.
LEMMA RemovedFits ==
  ASSUME NEW d, NEW T, NEW R, NEW p \in T, Nodes(d, T), OrderedBy(d, T, R), d[p].leaf = TRUE,
         NEW c, NEW n, NEW x, Inserted(c, d[p].cells, n, x), Len(c) \in Nat
  PROVE  Fits(d, p, c, R)
<1> DEFINE s == d[p].cells
<1>1. /\ Sorted(s) /\ \A i \in 1 .. Len(s) : s[i].key \in R[p]
  BY NodeOrder
<1>2. Len(d[p].kids) = 0
  BY NodeLens
<1>5. \A i, j \in 1 .. Len(s) : i < j => s[i].key <= s[j].key
  BY <1>1 DEF Sorted
<1>50. Len(s) \in Nat
  BY NodeLens
<1> HIDE DEF s
<1>6. /\ n \in 1 .. Len(s)
      /\ \A j \in 1 .. Len(c) : \/ j < n /\ j \in 1 .. Len(s) /\ s[j] = c[j]
                                \/ j >= n /\ j + 1 \in 1 .. Len(s) /\ s[j + 1] = c[j]
  BY DEF Inserted, s
<1>7. n \in Nat
  BY <1>6
<1>8. \A i \in 1 .. Len(c) : c[i].key \in R[p]
  BY <1>1, <1>6
<1>9. Sorted(c)
  <2> SUFFICES ASSUME NEW i \in 1 .. Len(c), NEW j \in 1 .. Len(c), i < j PROVE c[i].key <= c[j].key
    BY DEF Sorted
  <2>1. \/ i < n /\ i \in 1 .. Len(s) /\ s[i] = c[i]
        \/ i >= n /\ i + 1 \in 1 .. Len(s) /\ s[i + 1] = c[i]
    BY <1>6
  <2>2. \/ j < n /\ j \in 1 .. Len(s) /\ s[j] = c[j]
        \/ j >= n /\ j + 1 \in 1 .. Len(s) /\ s[j + 1] = c[j]
    BY <1>6
  <2>3. i < j + 1 /\ i + 1 < j + 1
    OBVIOUS
  <2>4. ~(i >= n /\ j < n)
    BY <1>7
  <2> QED
    BY <1>5, <2>1, <2>2, <2>3, <2>4
<1>10. Between(c, d[p].kids, R)
  BY <1>2 DEF Between
<1> QED
  BY <1>8, <1>9, <1>10 DEF Fits

\* A cell of an inner node replaced by one whose key lies between its neighbours.
Replacing(cells, kids, R, i, x) ==
  /\ i \in 1 .. Len(cells)
  /\ \A j \in 1 .. Len(cells) : /\ j < i => cells[j].key <= x.key
                                /\ j > i => x.key <= cells[j].key
  /\ \A n \in 1 .. Len(kids) : \A k \in R[kids[n]] : /\ n <= i => k <= x.key
                                                     /\ n > i => x.key <= k

\* A cell between its neighbours fits in their node.
LEMMA ReplacedFits ==
  ASSUME NEW d, NEW T, NEW R, NEW p \in T, Nodes(d, T), OrderedBy(d, T, R),
         NEW x, x.key \in R[p], NEW i, Replacing(d[p].cells, d[p].kids, R, i, x)
  PROVE  Fits(d, p, ReplaceAt(d[p].cells, i, x), R)
<1> DEFINE s == d[p].cells
           c == ReplaceAt(s, i, x)
<1>1. /\ Sorted(s) /\ Between(s, d[p].kids, R) /\ s \in Seq(CellSet) /\ \A j \in 1 .. Len(s) : s[j].key \in R[p]
  BY NodeOrder
<1>2. \A m, j \in 1 .. Len(s) : m < j => s[m].key <= s[j].key
  BY <1>1 DEF Sorted
<1>20. \A m \in 1 .. Len(d[p].kids), j \in 1 .. Len(s) : \A k \in R[d[p].kids[m]] :
         (m <= j => k <= s[j].key) /\ (j < m => s[j].key <= k)
  BY <1>1 DEF Between
<1>3. /\ i \in 1 .. Len(s)
      /\ \A j \in 1 .. Len(s) : /\ j < i => s[j].key <= x.key
                                /\ j > i => x.key <= s[j].key
      /\ \A n \in 1 .. Len(d[p].kids) : \A k \in R[d[p].kids[n]] : /\ n <= i => k <= x.key
                                                                   /\ n > i => x.key <= k
  BY DEF Replacing
<1> HIDE DEF s
<1>4. c = [s EXCEPT ![i] = x]
  BY DEF ReplaceAt
<1>5. Len(c) = Len(s) /\ \A j \in 1 .. Len(s) : c[j] = IF j = i THEN x ELSE s[j]
  BY <1>1, <1>3, <1>4
<1> HIDE DEF c
<1>6. \A j \in 1 .. Len(c) : c[j].key \in R[p]
  BY <1>1, <1>5
<1>7. Sorted(c)
  <2> SUFFICES ASSUME NEW m \in 1 .. Len(c), NEW j \in 1 .. Len(c), m < j PROVE c[m].key <= c[j].key
    BY DEF Sorted
  <2>1. m \in 1 .. Len(s) /\ j \in 1 .. Len(s)
    BY <1>5
  <2>2. CASE m = i
    <3>1. c[m] = x /\ c[j] = s[j] /\ j > i
      BY <1>5, <2>1, <2>2
    <3> QED
      BY <1>3, <2>1, <3>1
  <2>3. CASE j = i
    <3>1. c[j] = x /\ c[m] = s[m] /\ m < i
      BY <1>5, <2>1, <2>3
    <3> QED
      BY <1>3, <2>1, <3>1
  <2>4. CASE m # i /\ j # i
    BY <1>2, <1>5, <2>1, <2>4
  <2> QED
    BY <2>2, <2>3, <2>4
<1>8. Between(c, d[p].kids, R)
  <2> SUFFICES ASSUME NEW m \in 1 .. Len(d[p].kids), NEW j \in 1 .. Len(c), NEW k \in R[d[p].kids[m]]
               PROVE (m <= j => k <= c[j].key) /\ (j < m => c[j].key <= k)
    BY DEF Between
  <2>1. j \in 1 .. Len(s)
    BY <1>5
  <2>2. CASE j = i
    <3>1. c[j] = x
      BY <1>5, <2>1, <2>2
    <3>2. (m <= j <=> m <= i) /\ (j < m <=> m > i)
      BY <2>2
    <3> QED
      BY <1>3, <3>1, <3>2
  <2>3. CASE j # i
    <3>1. c[j] = s[j]
      BY <1>5, <2>1, <2>3
    <3> QED
      BY <1>20, <2>1, <3>1
  <2> QED
    BY <2>2, <2>3
<1> QED
  BY <1>6, <1>7, <1>8 DEF Fits, c, s

\* A new root above the old one, without cells.
RaisedOf(d, d2, T, r, z) ==
  /\ z \in DataPages \ T /\ d2[z] = Node(FALSE, << >>, <<r>>)
  /\ \A q \in T : d2[q] = d[q]

RangesRaised(R, T, r, z) == [q \in T \cup {z} |-> IF q = z THEN R[r] ELSE R[q]]

Above(d2, T, r, z) ==
  /\ d2[z].kind = "node" /\ d2[z].leaf = FALSE /\ d2[z].cells = << >> /\ d2[z].kids = <<r>>
  /\ Members(d2[z].kids) = {r} /\ Distinct(d2[z].kids) /\ Len(d2[z].kids) = 1 /\ d2[z].kids[1] = r
  /\ Len(d2[z].cells) = 0
  /\ z \notin T /\ z \in DataPages

\* The fields of the new root.
LEMMA RaisedFields ==
  ASSUME NEW d, NEW d2, NEW T, NEW r \in T, NEW z, RaisedOf(d, d2, T, r, z)
  PROVE  Above(d2, T, r, z)
<1>1. Holds(d2, z, FALSE, << >>, <<r>>)
  BY AtNode DEF RaisedOf
<1>2. d2[z].kind = "node" /\ d2[z].leaf = FALSE /\ d2[z].cells = << >> /\ d2[z].kids = <<r>>
  BY <1>1 DEF Holds
<1>3. Len(<<r>>) = 1 /\ <<r>>[1] = r /\ Len(<< >>) = 0
  OBVIOUS
<1>4. Members(<<r>>) = {r}
  BY <1>3 DEF Members
<1>5. Distinct(<<r>>)
  BY <1>3 DEF Distinct
<1> QED
  BY <1>2, <1>3, <1>4, <1>5 DEF RaisedOf, Above

\* The new root has the range of the old one.
LEMMA RaisedOrdered ==
  ASSUME NEW d, NEW d2, NEW T, NEW r \in T, NEW z, RaisedOf(d, d2, T, r, z), Nodes(d, T),
         NEW R, OrderedBy(d, T, R)
  PROVE  OrderedBy(d2, T \cup {z}, RangesRaised(R, T, r, z))
<1> DEFINE S == RangesRaised(R, T, r, z)
<1>1. /\ d2[z].cells = << >> /\ d2[z].kids = <<r>> /\ Members(d2[z].kids) = {r} /\ Len(d2[z].cells) = 0
      /\ z \notin T
  <2>1. Above(d2, T, r, z)
    BY RaisedFields
  <2> QED
    BY <2>1 DEF Above
<1>2. R \in [T -> SUBSET Nat] /\ \A q \in T : OrderedNode(d, R, q)
  BY DEF OrderedBy
<1>3. S \in [T \cup {z} -> SUBSET Nat] /\ S[z] = R[r] /\ \A q \in T : S[q] = R[q]
  BY <1>1, <1>2 DEF RangesRaised
<1> HIDE DEF S
<1>4. ASSUME NEW q \in T PROVE OrderedNode(d2, S, q)
  <2>1. d2[q] = d[q]
    BY DEF RaisedOf
  <2>2. /\ \A i \in 1 .. Len(d[q].cells) : d[q].cells[i].key \in R[q]
        /\ \A x \in Members(d[q].kids) : R[x] \subseteq R[q]
        /\ Sorted(d[q].cells) /\ Between(d[q].cells, d[q].kids, R)
    BY <1>2 DEF OrderedNode
  <2>3. \A x \in Members(d[q].kids) : x \in T
    BY NodeLens
  <2>4. \A i \in 1 .. Len(d[q].kids) : d[q].kids[i] \in T
    BY NodeLens
  <2>5. \A x \in Members(d[q].kids) : S[x] \subseteq S[q]
    BY <1>3, <2>2, <2>3
  <2>6. \A i \in 1 .. Len(d[q].cells) : d[q].cells[i].key \in S[q]
    BY <1>3, <2>2
  <2>7. Between(d[q].cells, d[q].kids, S)
    <3>1. \A i \in 1 .. Len(d[q].kids) : S[d[q].kids[i]] = R[d[q].kids[i]]
      BY <1>3, <2>4
    <3>2. Between(d[q].cells, d[q].kids, R)
      BY <2>2
    <3> QED
      BY <3>1, <3>2 DEF Between
  <2> QED
    BY <2>1, <2>2, <2>5, <2>6, <2>7 DEF OrderedNode
<1>5. OrderedNode(d2, S, z)
  <2>1. \A x \in Members(d2[z].kids) : S[x] \subseteq S[z]
    BY <1>1, <1>3
  <2>2. Sorted(d2[z].cells) /\ Between(d2[z].cells, d2[z].kids, S)
    BY <1>1 DEF Sorted, Between
  <2>3. \A i \in 1 .. Len(d2[z].cells) : d2[z].cells[i].key \in S[z]
    BY <1>1
  <2> QED
    BY <2>1, <2>2, <2>3 DEF OrderedNode
<1>6. OrderedBy(d2, T \cup {z}, S)
  BY <1>3, <1>4, <1>5 DEF OrderedBy
<1> QED
  BY <1>6 DEF S

\* What a new root keeps.
RaiseKeeps(d, d2, T, r, z, Y) ==
  /\ Sound(d2, z, T \cup {z}, Y)
  /\ \A H : Heads(d, T, H) => Heads(d2, T \cup {z}, H)

\* A new root keeps the tree sound.
LEMMA RaisedSound ==
  ASSUME NEW d, NEW d2, NEW T, NEW r, NEW z, NEW Y, RaisedOf(d, d2, T, r, z), Sound(d, r, T, Y)
  PROVE  RaiseKeeps(d, d2, T, r, z, Y)
<1> DEFINE U == T \cup {z}
<1>0. Nodes(d, T) /\ r \in T
  BY DEF Sound, Slots, SlotsBy
<1>1. /\ d2[z].kind = "node" /\ d2[z].leaf = FALSE /\ d2[z].cells = << >> /\ d2[z].kids = <<r>>
      /\ Members(d2[z].kids) = {r} /\ Distinct(d2[z].kids) /\ Len(d2[z].kids) = 1
      /\ Len(d2[z].cells) = 0 /\ z \notin T /\ z \in DataPages
  <2>1. Above(d2, T, r, z)
    BY <1>0, RaisedFields
  <2> QED
    BY <2>1 DEF Above
<1>2. \A q \in T : d2[q] = d[q]
  BY DEF RaisedOf
<1>20. U = T \cup {z}
  OBVIOUS
<1> HIDE DEF U
<1>3. Nodes(d2, U)
  <2>1. T \subseteq DataPages /\ \A q \in T : NodeIn(d, T, q)
    BY <1>0 DEF Nodes
  <2>2. ASSUME NEW q \in T PROVE NodeIn(d2, U, q)
    BY <1>2, <1>20, <2>1, NodeGrown
  <2>3. NodeIn(d2, U, z)
    <3>1. << >> \in Seq(CellSet) /\ <<r>> \in Seq(U)
      BY <1>0, <1>20
    <3> QED
      <4>1. d2[z].cells \in Seq(CellSet) /\ d2[z].kids \in Seq(U)
        BY <1>1, <3>1
      <4>2. Len(d2[z].kids) = IF d2[z].leaf THEN 0 ELSE Len(d2[z].cells) + 1
        BY <1>1
      <4> QED
        BY <1>1, <4>1, <4>2 DEF NodeIn
  <2> QED
    BY <1>1, <1>20, <2>1, <2>2, <2>3 DEF Nodes
<1>4. \E g : HeightsBy(d2, U, g)
  <2>1. PICK h : HeightsBy(d, T, h)
    BY DEF Sound
  <2> DEFINE g == [q \in U |-> IF q = z THEN h[r] + 1 ELSE h[q]]
  <2>2. h \in [T -> Nat] /\ \A q \in T : Height(d, h, q)
    BY <2>1 DEF HeightsBy
  <2>3. g \in [U -> Nat] /\ g[z] = h[r] + 1 /\ \A q \in T : g[q] = h[q]
    BY <1>0, <1>1, <1>20, <2>2
  <2> HIDE DEF g
  <2>4. ASSUME NEW q \in T PROVE Height(d2, g, q)
    <3>1. Height(d, h, q) /\ d2[q] = d[q]
      BY <1>2, <2>2
    <3>2. Members(d[q].kids) \subseteq T
      BY <1>0, NodeLens
    <3> QED
      BY <2>3, <3>1, <3>2 DEF Height
  <2>5. Height(d2, g, z)
    <3>1. h[r] \in Nat /\ g[r] = h[r] /\ g[z] = h[r] + 1
      BY <1>0, <2>2, <2>3
    <3>2. g[z] # 0
      BY <3>1
    <3> QED
      BY <1>1, <3>1, <3>2 DEF Height
  <2> QED
    BY <1>20, <2>3, <2>4, <2>5 DEF HeightsBy
<1>5. Slots(d2, z, U)
  <2>1. PICK P : SlotsBy(d, r, T, P)
    BY DEF Sound, Slots
  <2> DEFINE Q == [q \in U |-> IF q = z THEN 0 ELSE IF q = r THEN z ELSE P[q]]
  <2>2. /\ P \in [T -> T \cup {0}]
        /\ \A q \in T : P[q] = 0 <=> q = r
        /\ \A x \in T : Members(d[x].kids) = {q \in T : P[q] = x} /\ Distinct(d[x].kids)
    BY <2>1 DEF SlotsBy, Lists
  <2>3. /\ Q \in [U -> U \cup {0}] /\ Q[z] = 0 /\ Q[r] = z
        /\ \A q \in T : q # r => Q[q] = P[q]
    BY <1>0, <1>1, <1>20, <2>2
  <2>4. 0 \notin U
    BY <1>3 DEF Nodes, DataPages
  <2> HIDE DEF Q
  <2>5. \A q \in U : Q[q] = 0 <=> q = z
    BY <1>0, <1>1, <1>20, <2>2, <2>3, <2>4
  <2>6. ASSUME NEW x \in T PROVE Lists(d2[x].kids, {q \in U : Q[q] = x})
    <3>1. {q \in U : Q[q] = x} = {q \in T : P[q] = x}
      BY <1>0, <1>1, <1>20, <2>2, <2>3, <2>4
    <3> QED
      BY <1>2, <2>2, <3>1 DEF Lists
  <2>7. Lists(d2[z].kids, {q \in U : Q[q] = z})
    <3>1. {q \in U : Q[q] = z} = {r}
      BY <1>0, <1>1, <1>20, <2>2, <2>3, <2>4
    <3> QED
      BY <1>1, <3>1 DEF Lists
  <2>8. SlotsBy(d2, z, U, Q)
    BY <1>20, <2>3, <2>5, <2>6, <2>7 DEF SlotsBy
  <2> QED
    BY <2>8 DEF Slots
<1>6. Orderly(d2, U)
  <2>1. PICK R : OrderedBy(d, T, R)
    BY DEF Sound, Orderly
  <2> QED
    BY <1>0, <1>20, <2>1, RaisedOrdered DEF Orderly
<1>60. Firsts(d2[z].cells) = {} /\ OneEach(d2[z].cells)
  BY <1>1 DEF Firsts, OneEach
<1>7. HeadsIn(d2, U, Y)
  BY <1>2, <1>20, <1>60 DEF Sound, HeadsIn
<1>8. ASSUME NEW H, Heads(d, T, H) PROVE Heads(d2, U, H)
  <2>1. PICK home : HeadsBy(d, T, H, home)
    BY <1>8 DEF Heads
  <2>2. home \in [H -> T] /\ \A q \in T : HeadsOf(d[q].cells, {x \in H : home[x] = q})
    BY <2>1 DEF HeadsBy
  <2>3. home \in [H -> U]
    BY <1>20, <2>2
  <2>4. {x \in H : home[x] = z} = {}
    BY <1>1, <2>2
  <2>5. HeadsOf(d2[z].cells, {x \in H : home[x] = z})
    BY <1>60, <2>4 DEF HeadsOf
  <2>6. \A q \in U : HeadsOf(d2[q].cells, {x \in H : home[x] = q})
    BY <1>2, <1>20, <2>2, <2>5
  <2> QED
    BY <2>3, <2>6 DEF Heads, HeadsBy
<1> QED
  BY <1>3, <1>4, <1>5, <1>6, <1>7, <1>8 DEF Sound, U, RaiseKeeps

\* What the removal of an empty root keeps.
LowerKeeps(d, T, r, Y) ==
  /\ d[r].kids[1] \in T \ {r} /\ Sound(d, d[r].kids[1], T \ {r}, Y)
  /\ \A H : Heads(d, T, H) => Heads(d, T \ {r}, H)

\* A root without cells gives way to its only child.
LEMMA LoweredSound ==
  ASSUME NEW d, NEW T, NEW r, NEW Y, Sound(d, r, T, Y), d[r].leaf = FALSE, Len(d[r].cells) = 0
  PROVE  LowerKeeps(d, T, r, Y)
<1> DEFINE U == T \ {r}
           x == d[r].kids[1]
<1>0. Nodes(d, T) /\ r \in T
  BY DEF Sound, Slots, SlotsBy
<1>1. PICK P : SlotsBy(d, r, T, P)
  BY DEF Sound, Slots
<1>2. /\ P \in [T -> T \cup {0}]
      /\ \A q \in T : P[q] = 0 <=> q = r
      /\ \A v \in T : Members(d[v].kids) = {q \in T : P[q] = v} /\ Distinct(d[v].kids)
  BY <1>1 DEF SlotsBy, Lists
<1>3. Len(d[r].kids) = 1
  <2>1. Len(d[r].kids) = Len(d[r].cells) + 1
    BY <1>0, NodeLens
  <2> QED
    BY <2>1
<1>4. Members(d[r].kids) = {x}
  BY <1>3 DEF Members
<1> HIDE DEF x
<1>5. 0 \notin T
  BY <1>0 DEF Nodes, DataPages
<1>6. x \in T /\ x # r /\ P[x] = r /\ \A q \in T : P[q] = r => q = x
  BY <1>0, <1>2, <1>4, <1>5
<1>60. \A q \in T : r \notin Members(d[q].kids)
  BY <1>0, <1>2, <1>5
<1>7. Nodes(d, U)
  <2>1. T \subseteq DataPages /\ \A q \in T : NodeIn(d, T, q)
    BY <1>0 DEF Nodes
  <2>2. ASSUME NEW q \in U PROVE NodeIn(d, U, q)
    BY <1>60, <2>1, NodeWithout
  <2> QED
    BY <2>1, <2>2 DEF Nodes
<1>70. U = T \ {r}
  OBVIOUS
<1> HIDE DEF U
<1>8. \E g : HeightsBy(d, U, g)
  <2>1. PICK h : HeightsBy(d, T, h)
    BY DEF Sound
  <2> DEFINE g == [q \in U |-> h[q]]
  <2>2. h \in [T -> Nat] /\ \A q \in T : Height(d, h, q)
    BY <2>1 DEF HeightsBy
  <2>3. g \in [U -> Nat] /\ \A q \in U : g[q] = h[q]
    BY <1>70, <2>2
  <2>4. \A q \in U : Members(d[q].kids) \subseteq U
    BY <1>7, NodeLens
  <2> HIDE DEF g
  <2>5. \A q \in U : Height(d, g, q)
    BY <1>70, <2>2, <2>3, <2>4 DEF Height
  <2> QED
    BY <2>3, <2>5 DEF HeightsBy
<1>9. Slots(d, x, U)
  <2> DEFINE Q == [q \in U |-> IF q = x THEN 0 ELSE P[q]]
  <2>1. Q \in [U -> U \cup {0}] /\ \A q \in U : Q[q] = IF q = x THEN 0 ELSE P[q]
    <3>1. ASSUME NEW q \in U, q # x PROVE P[q] \in U \cup {0}
      BY <1>2, <1>6, <1>70, <3>1
    <3> QED
      BY <3>1
  <2> HIDE DEF Q
  <2>2. \A q \in U : Q[q] = 0 <=> q = x
    BY <1>2, <1>70, <2>1
  <2>3. ASSUME NEW v \in U PROVE Lists(d[v].kids, {q \in U : Q[q] = v})
    <3>1. {q \in U : Q[q] = v} = {q \in T : P[q] = v}
      <4>1. v # r /\ v # 0 /\ v \in T
        BY <1>5, <1>70
      <4>2. P[r] # v
        BY <1>0, <1>2, <4>1
      <4>3. P[x] # v
        BY <1>6, <4>1
      <4> QED
        BY <1>70, <2>1, <4>1, <4>2, <4>3
    <3> QED
      BY <1>2, <1>70, <3>1 DEF Lists
  <2>4. SlotsBy(d, x, U, Q)
    BY <1>6, <1>70, <2>1, <2>2, <2>3 DEF SlotsBy
  <2> QED
    BY <2>4 DEF Slots
<1>10. Orderly(d, U)
  <2>1. PICK R : OrderedBy(d, T, R)
    BY DEF Sound, Orderly
  <2> DEFINE S == [q \in U |-> R[q]]
  <2>2. R \in [T -> SUBSET Nat] /\ \A q \in T : OrderedNode(d, R, q)
    BY <2>1 DEF OrderedBy
  <2>3. S \in [U -> SUBSET Nat] /\ \A q \in U : S[q] = R[q]
    BY <1>70, <2>2
  <2> HIDE DEF S
  <2>4. ASSUME NEW q \in U PROVE OrderedNode(d, S, q)
    <3>1. \A v \in Members(d[q].kids) : v \in U
      BY <1>7, NodeLens
    <3>2. \A i \in 1 .. Len(d[q].kids) : d[q].kids[i] \in U
      BY <1>7, NodeLens
    <3>3. /\ \A i \in 1 .. Len(d[q].cells) : d[q].cells[i].key \in R[q]
          /\ \A v \in Members(d[q].kids) : R[v] \subseteq R[q]
          /\ Sorted(d[q].cells) /\ Between(d[q].cells, d[q].kids, R)
      BY <1>70, <2>2 DEF OrderedNode
    <3>4. Between(d[q].cells, d[q].kids, S)
      <4>1. \A i \in 1 .. Len(d[q].kids) : S[d[q].kids[i]] = R[d[q].kids[i]]
        BY <2>3, <3>2
      <4>2. Between(d[q].cells, d[q].kids, R)
        BY <3>3
      <4> QED
        BY <4>1, <4>2 DEF Between
    <3>5. \A v \in Members(d[q].kids) : S[v] \subseteq S[q]
      BY <2>3, <3>1, <3>3
    <3>6. \A i \in 1 .. Len(d[q].cells) : d[q].cells[i].key \in S[q]
      BY <2>3, <3>3
    <3> QED
      BY <3>3, <3>4, <3>5, <3>6 DEF OrderedNode
  <2> QED
    BY <2>3, <2>4 DEF Orderly, OrderedBy
<1>11. HeadsIn(d, U, Y)
  BY <1>70 DEF Sound, HeadsIn
<1>12. ASSUME NEW H, Heads(d, T, H) PROVE Heads(d, U, H)
  <2>1. PICK home : HeadsBy(d, T, H, home)
    BY <1>12 DEF Heads
  <2>2. home \in [H -> T] /\ \A q \in T : HeadsOf(d[q].cells, {y \in H : home[y] = q})
    BY <2>1 DEF HeadsBy
  <2>3. Firsts(d[r].cells) = {}
    BY DEF Firsts
  <2>4. {y \in H : home[y] = r} = {}
    BY <1>0, <2>2, <2>3 DEF HeadsOf
  <2>5. home \in [H -> U]
    BY <1>70, <2>2, <2>4
  <2>6. \A q \in U : HeadsOf(d[q].cells, {y \in H : home[y] = q})
    BY <1>70, <2>2
  <2> QED
    BY <2>5, <2>6 DEF Heads, HeadsBy
<1> QED
  BY <1>6, <1>7, <1>8, <1>9, <1>10, <1>11, <1>12, <1>70 DEF Sound, U, x, LowerKeeps

--------------------------------------------------------------------------------
\* The paths to the neighbours of an internal key.

\* The last cells of the way down the last children from p is c: Q holds the pages of
\* that way.
RightPath(d, T, p, Q, c) ==
  /\ p \in Q /\ Q \subseteq T
  /\ \A q \in Q : /\ d[q].leaf => Len(d[q].cells) >= 1 /\ d[q].cells[Len(d[q].cells)] = c
                  /\ ~d[q].leaf => Len(d[q].kids) >= 1 /\ d[q].kids[Len(d[q].kids)] \in Q

\* The same for the first children and the first cell.
LeftPath(d, T, p, Q, c) ==
  /\ p \in Q /\ Q \subseteq T
  /\ \A q \in Q : /\ d[q].leaf => Len(d[q].cells) >= 1 /\ d[q].cells[1] = c
                  /\ ~d[q].leaf => Len(d[q].kids) >= 1 /\ d[q].kids[1] \in Q

\* Leaves have cells, the root apart.
Bushy(d, r, T) == \A q \in T \ {r} : d[q].leaf => Len(d[q].cells) >= 1

\* c is the last cell, or the first one, below the page p, and a cell of the tree.
LastBelow(d, r, T, p, c) ==
  /\ \E Q : RightPath(d, T, p, Q, c)
  /\ \E q \in T \ {r} : c \in Members(d[q].cells)
FirstBelow(d, r, T, p, c) ==
  /\ \E Q : LeftPath(d, T, p, Q, c)
  /\ \E q \in T \ {r} : c \in Members(d[q].cells)

\* f takes an inner node of the tree to one of its children, and a leaf to itself.
Downward(d, r, T, f) ==
  /\ \A x \in T \ {r} : d[x].leaf => f[d[x]] = d[x]
  /\ \A x \in T \ {r} : ~d[x].leaf => \E y \in Members(d[x].kids) : f[d[x]] = d[y]

\* Following children from p for more steps than its height ends in a leaf.
LEMMA DownEnds ==
  ASSUME NEW d, NEW r, NEW T, NEW h, NEW P, Nodes(d, T), HeightsBy(d, T, h), SlotsBy(d, r, T, P),
         NEW p \in T \ {r}, NEW last \in Nat, h[p] < last, NEW f, Downward(d, r, T, f),
         NEW g, Leads(f, d[p], last, g)
  PROVE  /\ g[0] = d[p]
         /\ \A n \in 0 .. last : \E x \in T \ {r} : g[n] = d[x]
         /\ \A n \in 0 .. last : (g[n].leaf => g[n] = g[last]) /\ (~g[n].leaf => n # last)
<1>1. \A n \in 0 .. last : g[n] = IF n = 0 THEN d[p] ELSE f[g[n - 1]]
  BY DEF Leads
<1>2. \A x \in T \ {r} : \A y \in Members(d[x].kids) : y \in T \ {r} /\ h[y] + 1 = h[x]
  <2> SUFFICES ASSUME NEW x \in T \ {r}, NEW y \in Members(d[x].kids) PROVE y \in T \ {r} /\ h[y] + 1 = h[x]
    OBVIOUS
  <2>1. Height(d, h, x)
    BY DEF HeightsBy
  <2>2. Members(d[x].kids) = {q \in T : P[q] = x} /\ x # 0
    BY DEF SlotsBy, Lists, Nodes, DataPages
  <2>3. P[r] = 0
    BY DEF SlotsBy
  <2> QED
    BY <2>1, <2>2, <2>3 DEF Height
<1>3. h \in [T -> Nat] /\ \A x \in T : d[x].leaf <=> h[x] = 0
  BY DEF HeightsBy, Height
<1> DEFINE At(n) == \E x \in T \ {r} : g[n] = d[x] /\ (d[x].leaf \/ h[x] + n <= h[p])
           W == {n \in 0 .. last : ~At(n)}
<1>4. W = {}
  <2> SUFFICES ASSUME W # {} PROVE FALSE
    OBVIOUS
  <2>1. PICK m \in W : \A k \in W : m <= k
    <3>1. W \in SUBSET Nat
      OBVIOUS
    <3> HIDE DEF W
    <3> QED
      BY <3>1, SmallestNumber
  <2>2. At(0)
    BY <1>1, <1>3
  <2>3. m # 0 /\ m \in 0 .. last /\ m - 1 \in 0 .. last
    BY <2>2
  <2>4. At(m - 1)
    <3>1. m - 1 \notin W
      <4>1. ~(m <= m - 1)
        BY <2>3
      <4> HIDE DEF W
      <4> QED
        BY <2>1, <4>1
    <3> QED
      BY <3>1, <2>3
  <2>5. PICK x \in T \ {r} : g[m - 1] = d[x] /\ (d[x].leaf \/ h[x] + (m - 1) <= h[p])
    BY <2>4
  <2>6. g[m] = f[d[x]]
    BY <1>1, <2>3, <2>5
  <2>7. At(m)
    <3>1. CASE d[x].leaf
      BY <3>1, <2>6 DEF Downward
    <3>2. CASE ~d[x].leaf
      <4>1. PICK y \in Members(d[x].kids) : f[d[x]] = d[y]
        BY <3>2 DEF Downward
      <4>2. y \in T \ {r} /\ h[y] + 1 = h[x] /\ h[y] \in Nat /\ h[p] \in Nat
        BY <1>2, <1>3
      <4>3. h[y] + m <= h[p]
        BY <4>2, <3>2, <2>5, <2>3
      <4> QED
        BY <4>1, <4>2, <4>3, <2>6
    <3> QED
      BY <3>1, <3>2
  <2> QED
    BY <2>1, <2>7
<1>5. \A n \in 0 .. last : At(n)
  BY <1>4
<1> HIDE DEF W
<1>6. ASSUME NEW n \in 0 .. last, ~g[n].leaf PROVE n # last
  <2>1. PICK x \in T \ {r} : g[n] = d[x] /\ (d[x].leaf \/ h[x] + n <= h[p])
    BY <1>5
  <2>2. h[x] \in Nat /\ h[p] \in Nat
    BY <1>3
  <2> QED
    BY <2>1, <2>2, <1>6
<1>7. ASSUME NEW n \in 0 .. last, g[n].leaf PROVE g[n] = g[last]
  <2> DEFINE V == {m \in n .. last : g[m] # g[n]}
  <2> SUFFICES ASSUME V # {} PROVE FALSE
    BY <1>7
  <2>1. PICK m \in V : \A k \in V : m <= k
    <3>1. V \in SUBSET Nat
      OBVIOUS
    <3> HIDE DEF V
    <3> QED
      BY <3>1, SmallestNumber
  <2>2. m \in n .. last /\ m # n /\ m - 1 \in n .. last /\ m - 1 \in 0 .. last /\ m \in 0 .. last /\ m # 0
    BY <2>1
  <2>3. m - 1 \notin V
    <3>1. ~(m <= m - 1)
      BY <2>2
    <3> HIDE DEF V
    <3> QED
      BY <2>1, <3>1
  <2>4. g[m - 1] = g[n]
    BY <2>2, <2>3
  <2>5. PICK x \in T \ {r} : g[m - 1] = d[x]
    BY <1>5, <2>2
  <2>6. g[m] = f[d[x]] /\ d[x].leaf
    BY <1>1, <2>2, <2>4, <2>5, <1>7
  <2>7. f[d[x]] = d[x]
    BY <2>6 DEF Downward
  <2> QED
    BY <2>1, <2>4, <2>5, <2>6, <2>7
<1> QED
  BY <1>1, <1>5, <1>6, <1>7

\* get_predecessor finds the last cell of the rightmost leaf.
LEMMA PredecessorPath ==
  ASSUME NEW s, NEW r, NEW T, NEW h, NEW P, Nodes(s.disk, T), HeightsBy(s.disk, T, h), SlotsBy(s.disk, r, T, P),
         NEW p \in T \ {r}, MaxHeight \in Nat, h[p] < MaxHeight,
         Bushy(s.disk, r, T)
  PROVE  LastBelow(s.disk, r, T, p, Predecessor(s, p))
<1> \A q \in T \ {r} : s.disk[q].leaf => Len(s.disk[q].cells) >= 1
  BY DEF Bushy
<1> DEFINE d     == s.disk
           A     == {d[x] : x \in T \ {r}}
           next(y) == IF y.leaf THEN y ELSE d[Last(y.kids)]
           f     == [y \in A |-> next(y)]
           Is(w) == w = [n \in 0 .. MaxHeight |-> IF n = 0 THEN d[p] ELSE next(w[n - 1])]
           down  == CHOOSE w : Is(w)
           c     == Last(down[MaxHeight].cells)
           Q     == {x \in T \ {r} : \E n \in 0 .. MaxHeight : down[n] = d[x]}
<1>1. Predecessor(s, p) = c
  BY DEF Predecessor
<1>2. \A x \in T \ {r} : ~d[x].leaf =>
        /\ Len(d[x].kids) >= 1 /\ Len(d[x].kids) \in Nat /\ Last(d[x].kids) = d[x].kids[Len(d[x].kids)]
        /\ Last(d[x].kids) \in Members(d[x].kids) /\ Last(d[x].kids) \in T \ {r}
  <2> SUFFICES ASSUME NEW x \in T \ {r}, ~d[x].leaf
               PROVE  /\ Len(d[x].kids) >= 1 /\ Len(d[x].kids) \in Nat /\ Last(d[x].kids) = d[x].kids[Len(d[x].kids)]
                      /\ Last(d[x].kids) \in Members(d[x].kids) /\ Last(d[x].kids) \in T \ {r}
    OBVIOUS
  <2>1. Len(d[x].kids) >= 1 /\ Len(d[x].kids) \in Nat
    BY NodeLens
  <2>2. Last(d[x].kids) = d[x].kids[Len(d[x].kids)]
    BY DEF Last
  <2>3. Last(d[x].kids) \in Members(d[x].kids)
    BY <2>1, <2>2 DEF Members
  <2>4. Members(d[x].kids) = {q \in T : P[q] = x} /\ P[r] = 0 /\ x # 0
    BY DEF SlotsBy, Lists, Nodes, DataPages
  <2> QED
    BY <2>1, <2>2, <2>3, <2>4
<1>3. Downward(d, r, T, f)
  BY <1>2 DEF Downward
<1>4. Closed(f, A)
  BY <1>2 DEF Closed
<1>5. d[p] \in A
  OBVIOUS
<1>6. \A y \in A : f[y] = next(y)
  OBVIOUS
<1> HIDE DEF A, f, next
<1>7. PICK g : Leads(f, d[p], MaxHeight, g)
  BY <1>4, <1>5, Iterated
<1>8. Is(g)
  <2>1. g \in [0 .. MaxHeight -> A]
    BY <1>4, <1>5, <1>7, IteratedStays
  <2>2. g = [n \in 0 .. MaxHeight |-> IF n = 0 THEN d[p] ELSE f[g[n - 1]]]
    BY <1>7 DEF Leads
  <2>3. \A n \in 0 .. MaxHeight : n # 0 => n - 1 \in 0 .. MaxHeight
    OBVIOUS
  <2>4. \A n \in 0 .. MaxHeight : n # 0 => f[g[n - 1]] = next(g[n - 1])
    BY <2>1, <2>3, <1>6
  <2>5. \A n \in 0 .. MaxHeight : (IF n = 0 THEN d[p] ELSE f[g[n - 1]]) = IF n = 0 THEN d[p] ELSE next(g[n - 1])
    BY <2>4
  <2> QED
    BY <2>2, <2>5
<1>9. Is(down)
  BY <1>8
<1> HIDE DEF down
<1>10. \A n \in 0 .. MaxHeight : down[n] = IF n = 0 THEN d[p] ELSE next(down[n - 1])
  BY <1>9
<1>11. Leads(f, d[p], MaxHeight, down)
  <2> DEFINE W == {n \in 0 .. MaxHeight : down[n] \notin A}
  <2>1. W = {}
    <3> SUFFICES ASSUME W # {} PROVE FALSE
      OBVIOUS
    <3>1. PICK m \in W : \A k \in W : m <= k
      <4>1. W \in SUBSET Nat
        OBVIOUS
      <4> HIDE DEF W
      <4> QED
        BY <4>1, SmallestNumber
    <3>2. m # 0 /\ m \in 0 .. MaxHeight /\ m - 1 \in 0 .. MaxHeight
      BY <1>5, <1>10
    <3>3. m - 1 \notin W
      <4>1. ~(m <= m - 1)
        BY <3>2
      <4> HIDE DEF W
      <4> QED
        BY <3>1, <4>1
    <3>4. down[m - 1] \in A
      BY <3>2, <3>3
    <3>5. down[m] = f[down[m - 1]] /\ f[down[m - 1]] \in A
      BY <3>2, <3>4, <1>4, <1>6, <1>10 DEF Closed
    <3> QED
      BY <3>1, <3>5
  <2>2. \A n \in 0 .. MaxHeight : n # 0 => n - 1 \in 0 .. MaxHeight
    OBVIOUS
  <2>3. \A n \in 0 .. MaxHeight : n # 0 => next(down[n - 1]) = f[down[n - 1]]
    BY <2>1, <2>2, <1>6
  <2>4. \A n \in 0 .. MaxHeight :
          (IF n = 0 THEN d[p] ELSE next(down[n - 1])) = IF n = 0 THEN d[p] ELSE f[down[n - 1]]
    BY <2>3
  <2> QED
    BY <1>9, <2>4 DEF Leads
<1>12. /\ down[0] = d[p]
       /\ \A n \in 0 .. MaxHeight : \E x \in T \ {r} : down[n] = d[x]
       /\ \A n \in 0 .. MaxHeight : (down[n].leaf => down[n] = down[MaxHeight]) /\ (~down[n].leaf => n # MaxHeight)
  <2> HIDE DEF d
  <2>1. Nodes(d, T) /\ HeightsBy(d, T, h) /\ SlotsBy(d, r, T, P)
    BY DEF d
  <2> QED
    BY <2>1, <1>3, <1>11, DownEnds
<1>13. p \in Q
  BY <1>12
<1>14. ASSUME NEW q \in Q, d[q].leaf PROVE Len(d[q].cells) >= 1 /\ d[q].cells[Len(d[q].cells)] = c
  <2>1. PICK n \in 0 .. MaxHeight : down[n] = d[q]
    OBVIOUS
  <2>2. down[MaxHeight] = d[q]
    BY <1>12, <1>14, <2>1
  <2> QED
    BY <2>2, <1>14 DEF Last
<1>15. ASSUME NEW q \in Q, ~d[q].leaf PROVE Len(d[q].kids) >= 1 /\ d[q].kids[Len(d[q].kids)] \in Q
  <2>1. PICK n \in 0 .. MaxHeight : down[n] = d[q]
    OBVIOUS
  <2>2. n # MaxHeight /\ n + 1 \in 0 .. MaxHeight /\ n + 1 # 0 /\ (n + 1) - 1 = n
    BY <1>12, <1>15, <2>1
  <2>3. down[n + 1] = next(down[n])
    BY <1>10, <2>2
  <2>4. down[n + 1] = d[Last(d[q].kids)]
    BY <2>1, <2>3, <1>15 DEF next
  <2>5. q \in T \ {r}
    OBVIOUS
  <2>6. Len(d[q].kids) >= 1 /\ Last(d[q].kids) = d[q].kids[Len(d[q].kids)] /\ Last(d[q].kids) \in T \ {r}
    BY <1>2, <1>15, <2>5
  <2> QED
    BY <2>2, <2>4, <2>6
<1>16. RightPath(d, T, p, Q, c)
  <2>1. Q \subseteq T
    OBVIOUS
  <2> HIDE DEF Q, c, d
  <2> QED
    BY <1>13, <1>14, <1>15, <2>1 DEF RightPath
<1>17. \E q \in T \ {r} : c \in Members(d[q].cells)
  <2>1. MaxHeight \in 0 .. MaxHeight
    OBVIOUS
  <2>2. PICK x \in T \ {r} : down[MaxHeight] = d[x]
    BY <1>12, <2>1
  <2>3. d[x].leaf
    BY <1>12, <2>1, <2>2
  <2>4. Len(d[x].cells) >= 1 /\ Len(d[x].cells) \in Nat
    BY <2>3, NodeLens
  <2>5. c = d[x].cells[Len(d[x].cells)]
    BY <2>2 DEF Last
  <2> QED
    BY <2>4, <2>5 DEF Members
<1> QED
  <2> HIDE DEF Q, c
  <2> QED
    BY <1>1, <1>16, <1>17 DEF LastBelow

\* get_successor finds the first cell of the leftmost leaf.
LEMMA SuccessorPath ==
  ASSUME NEW s, NEW r, NEW T, NEW h, NEW P, Nodes(s.disk, T), HeightsBy(s.disk, T, h), SlotsBy(s.disk, r, T, P),
         NEW p \in T \ {r}, MaxHeight \in Nat, h[p] < MaxHeight,
         Bushy(s.disk, r, T)
  PROVE  FirstBelow(s.disk, r, T, p, Successor(s, p))
<1> \A q \in T \ {r} : s.disk[q].leaf => Len(s.disk[q].cells) >= 1
  BY DEF Bushy
<1> DEFINE d     == s.disk
           A     == {d[x] : x \in T \ {r}}
           next(y) == IF y.leaf THEN y ELSE d[Head(y.kids)]
           f     == [y \in A |-> next(y)]
           Is(w) == w = [n \in 0 .. MaxHeight |-> IF n = 0 THEN d[p] ELSE next(w[n - 1])]
           down  == CHOOSE w : Is(w)
           c     == Head(down[MaxHeight].cells)
           Q     == {x \in T \ {r} : \E n \in 0 .. MaxHeight : down[n] = d[x]}
<1>1. Successor(s, p) = c
  BY DEF Successor
<1>2. \A x \in T \ {r} : ~d[x].leaf =>
        /\ Len(d[x].kids) >= 1 /\ Len(d[x].kids) \in Nat /\ Head(d[x].kids) = d[x].kids[1]
        /\ Head(d[x].kids) \in Members(d[x].kids) /\ Head(d[x].kids) \in T \ {r}
  <2> SUFFICES ASSUME NEW x \in T \ {r}, ~d[x].leaf
               PROVE  /\ Len(d[x].kids) >= 1 /\ Len(d[x].kids) \in Nat /\ Head(d[x].kids) = d[x].kids[1]
                      /\ Head(d[x].kids) \in Members(d[x].kids) /\ Head(d[x].kids) \in T \ {r}
    OBVIOUS
  <2>1. Len(d[x].kids) >= 1 /\ Len(d[x].kids) \in Nat
    BY NodeLens
  <2>2. Head(d[x].kids) = d[x].kids[1]
    OBVIOUS
  <2>3. Head(d[x].kids) \in Members(d[x].kids)
    BY <2>1, <2>2 DEF Members
  <2>4. Members(d[x].kids) = {q \in T : P[q] = x} /\ P[r] = 0 /\ x # 0
    BY DEF SlotsBy, Lists, Nodes, DataPages
  <2> QED
    BY <2>1, <2>2, <2>3, <2>4
<1>3. Downward(d, r, T, f)
  BY <1>2 DEF Downward
<1>4. Closed(f, A)
  BY <1>2 DEF Closed
<1>5. d[p] \in A
  OBVIOUS
<1>6. \A y \in A : f[y] = next(y)
  OBVIOUS
<1> HIDE DEF A, f, next
<1>7. PICK g : Leads(f, d[p], MaxHeight, g)
  BY <1>4, <1>5, Iterated
<1>8. Is(g)
  <2>1. g \in [0 .. MaxHeight -> A]
    BY <1>4, <1>5, <1>7, IteratedStays
  <2>2. g = [n \in 0 .. MaxHeight |-> IF n = 0 THEN d[p] ELSE f[g[n - 1]]]
    BY <1>7 DEF Leads
  <2>3. \A n \in 0 .. MaxHeight : n # 0 => n - 1 \in 0 .. MaxHeight
    OBVIOUS
  <2>4. \A n \in 0 .. MaxHeight : n # 0 => f[g[n - 1]] = next(g[n - 1])
    BY <2>1, <2>3, <1>6
  <2>5. \A n \in 0 .. MaxHeight : (IF n = 0 THEN d[p] ELSE f[g[n - 1]]) = IF n = 0 THEN d[p] ELSE next(g[n - 1])
    BY <2>4
  <2> QED
    BY <2>2, <2>5
<1>9. Is(down)
  BY <1>8
<1> HIDE DEF down
<1>10. \A n \in 0 .. MaxHeight : down[n] = IF n = 0 THEN d[p] ELSE next(down[n - 1])
  BY <1>9
<1>11. Leads(f, d[p], MaxHeight, down)
  <2> DEFINE W == {n \in 0 .. MaxHeight : down[n] \notin A}
  <2>1. W = {}
    <3> SUFFICES ASSUME W # {} PROVE FALSE
      OBVIOUS
    <3>1. PICK m \in W : \A k \in W : m <= k
      <4>1. W \in SUBSET Nat
        OBVIOUS
      <4> HIDE DEF W
      <4> QED
        BY <4>1, SmallestNumber
    <3>2. m # 0 /\ m \in 0 .. MaxHeight /\ m - 1 \in 0 .. MaxHeight
      BY <1>5, <1>10
    <3>3. m - 1 \notin W
      <4>1. ~(m <= m - 1)
        BY <3>2
      <4> HIDE DEF W
      <4> QED
        BY <3>1, <4>1
    <3>4. down[m - 1] \in A
      BY <3>2, <3>3
    <3>5. down[m] = f[down[m - 1]] /\ f[down[m - 1]] \in A
      BY <3>2, <3>4, <1>4, <1>6, <1>10 DEF Closed
    <3> QED
      BY <3>1, <3>5
  <2>2. \A n \in 0 .. MaxHeight : n # 0 => n - 1 \in 0 .. MaxHeight
    OBVIOUS
  <2>3. \A n \in 0 .. MaxHeight : n # 0 => next(down[n - 1]) = f[down[n - 1]]
    BY <2>1, <2>2, <1>6
  <2>4. \A n \in 0 .. MaxHeight :
          (IF n = 0 THEN d[p] ELSE next(down[n - 1])) = IF n = 0 THEN d[p] ELSE f[down[n - 1]]
    BY <2>3
  <2> QED
    BY <1>9, <2>4 DEF Leads
<1>12. /\ down[0] = d[p]
       /\ \A n \in 0 .. MaxHeight : \E x \in T \ {r} : down[n] = d[x]
       /\ \A n \in 0 .. MaxHeight : (down[n].leaf => down[n] = down[MaxHeight]) /\ (~down[n].leaf => n # MaxHeight)
  <2> HIDE DEF d
  <2>1. Nodes(d, T) /\ HeightsBy(d, T, h) /\ SlotsBy(d, r, T, P)
    BY DEF d
  <2> QED
    BY <2>1, <1>3, <1>11, DownEnds
<1>13. p \in Q
  BY <1>12
<1>14. ASSUME NEW q \in Q, d[q].leaf PROVE Len(d[q].cells) >= 1 /\ d[q].cells[1] = c
  <2>1. PICK n \in 0 .. MaxHeight : down[n] = d[q]
    OBVIOUS
  <2>2. down[MaxHeight] = d[q]
    BY <1>12, <1>14, <2>1
  <2> QED
    BY <2>2, <1>14
<1>15. ASSUME NEW q \in Q, ~d[q].leaf PROVE Len(d[q].kids) >= 1 /\ d[q].kids[1] \in Q
  <2>1. PICK n \in 0 .. MaxHeight : down[n] = d[q]
    OBVIOUS
  <2>2. n # MaxHeight /\ n + 1 \in 0 .. MaxHeight /\ n + 1 # 0 /\ (n + 1) - 1 = n
    BY <1>12, <1>15, <2>1
  <2>3. down[n + 1] = next(down[n])
    BY <1>10, <2>2
  <2>4. down[n + 1] = d[Head(d[q].kids)]
    BY <2>1, <2>3, <1>15 DEF next
  <2>5. q \in T \ {r}
    OBVIOUS
  <2>6. Len(d[q].kids) >= 1 /\ Head(d[q].kids) = d[q].kids[1] /\ Head(d[q].kids) \in T \ {r}
    BY <1>2, <1>15, <2>5
  <2> QED
    BY <2>2, <2>4, <2>6
<1>16. LeftPath(d, T, p, Q, c)
  <2>1. Q \subseteq T
    OBVIOUS
  <2> HIDE DEF Q, c, d
  <2> QED
    BY <1>13, <1>14, <1>15, <2>1 DEF LeftPath
<1>17. \E q \in T \ {r} : c \in Members(d[q].cells)
  <2>1. MaxHeight \in 0 .. MaxHeight
    OBVIOUS
  <2>2. PICK x \in T \ {r} : down[MaxHeight] = d[x]
    BY <1>12, <2>1
  <2>3. d[x].leaf
    BY <1>12, <2>1, <2>2
  <2>4. Len(d[x].cells) >= 1 /\ Len(d[x].cells) \in Nat
    BY <2>3, NodeLens
  <2>5. c = d[x].cells[1]
    BY <2>2
  <2> QED
    BY <2>4, <2>5 DEF Members
<1> QED
  <2> HIDE DEF Q, c
  <2> QED
    BY <1>1, <1>16, <1>17 DEF FirstBelow

\* The ranges of the pages of a way down end at its last key.
RangesBelow(R, T, Q, m) == [q \in T |-> IF q \in Q THEN {k \in R[q] : k <= m} ELSE R[q]]

\* The ranges of the pages of a way down begin at its first key.
RangesAbove(R, T, Q, m) == [q \in T |-> IF q \in Q THEN {k \in R[q] : m <= k} ELSE R[q]]

\* The last key of a way down the last children is in the ranges of its pages.
LEMMA RightPathIn ==
  ASSUME NEW d, NEW T, NEW h, NEW R, Nodes(d, T), HeightsBy(d, T, h), OrderedBy(d, T, R),
         NEW p, NEW Q, NEW c, RightPath(d, T, p, Q, c)
  PROVE  \A q \in Q : c.key \in R[q]
<1> DEFINE W == {n \in Nat : \E q \in Q : h[q] = n /\ c.key \notin R[q]}
<1> SUFFICES ASSUME W # {} PROVE FALSE
  BY DEF HeightsBy, RightPath
<1>1. PICK m \in W : \A k \in W : m <= k
  <2>1. W \in SUBSET Nat
    OBVIOUS
  <2> HIDE DEF W
  <2> QED
    BY <2>1, SmallestNumber
<1>2. PICK q \in Q : h[q] = m /\ c.key \notin R[q]
  OBVIOUS
<1>3. q \in T /\ Q \subseteq T
  BY DEF RightPath
<1>4. Len(d[q].cells) \in Nat /\ Len(d[q].kids) \in Nat
  BY <1>3, NodeLens
<1>5. CASE d[q].leaf
  <2>1. Len(d[q].cells) >= 1 /\ d[q].cells[Len(d[q].cells)] = c
    BY <1>5 DEF RightPath
  <2>2. \A i \in 1 .. Len(d[q].cells) : d[q].cells[i].key \in R[q]
    BY <1>3 DEF OrderedBy, OrderedNode
  <2>3. Len(d[q].cells) \in 1 .. Len(d[q].cells)
    BY <2>1, <1>4
  <2> QED
    BY <2>1, <2>2, <2>3, <1>2
<1>6. CASE ~d[q].leaf
  <2> DEFINE y == d[q].kids[Len(d[q].kids)]
  <2>1. Len(d[q].kids) >= 1 /\ y \in Q
    BY <1>6 DEF RightPath
  <2>2. y \in Members(d[q].kids)
    BY <2>1, <1>4 DEF Members
  <2>3. h[y] + 1 = h[q] /\ h[y] \in Nat
    BY <2>1, <2>2, <1>3 DEF HeightsBy, Height
  <2>4. R[y] \subseteq R[q]
    BY <2>2, <1>3 DEF OrderedBy, OrderedNode
  <2>5. h[y] \in W
    BY <2>1, <2>3, <2>4, <1>2
  <2> HIDE DEF W, y
  <2>6. m <= h[y]
    BY <2>5, <1>1
  <2> QED
    BY <2>3, <2>6, <1>2
<1> QED
  BY <1>5, <1>6

\* The same for the first children.
LEMMA LeftPathIn ==
  ASSUME NEW d, NEW T, NEW h, NEW R, Nodes(d, T), HeightsBy(d, T, h), OrderedBy(d, T, R),
         NEW p, NEW Q, NEW c, LeftPath(d, T, p, Q, c)
  PROVE  \A q \in Q : c.key \in R[q]
<1> DEFINE W == {n \in Nat : \E q \in Q : h[q] = n /\ c.key \notin R[q]}
<1> SUFFICES ASSUME W # {} PROVE FALSE
  BY DEF HeightsBy, LeftPath
<1>1. PICK m \in W : \A k \in W : m <= k
  <2>1. W \in SUBSET Nat
    OBVIOUS
  <2> HIDE DEF W
  <2> QED
    BY <2>1, SmallestNumber
<1>2. PICK q \in Q : h[q] = m /\ c.key \notin R[q]
  OBVIOUS
<1>3. q \in T /\ Q \subseteq T
  BY DEF LeftPath
<1>4. Len(d[q].cells) \in Nat /\ Len(d[q].kids) \in Nat
  BY <1>3, NodeLens
<1>5. CASE d[q].leaf
  <2>1. Len(d[q].cells) >= 1 /\ d[q].cells[1] = c
    BY <1>5 DEF LeftPath
  <2>2. \A i \in 1 .. Len(d[q].cells) : d[q].cells[i].key \in R[q]
    BY <1>3 DEF OrderedBy, OrderedNode
  <2>3. 1 \in 1 .. Len(d[q].cells)
    BY <2>1, <1>4
  <2> QED
    BY <2>1, <2>2, <2>3, <1>2
<1>6. CASE ~d[q].leaf
  <2> DEFINE y == d[q].kids[1]
  <2>1. Len(d[q].kids) >= 1 /\ y \in Q
    BY <1>6 DEF LeftPath
  <2>2. y \in Members(d[q].kids)
    BY <2>1, <1>4 DEF Members
  <2>3. h[y] + 1 = h[q] /\ h[y] \in Nat
    BY <2>1, <2>2, <1>3 DEF HeightsBy, Height
  <2>4. R[y] \subseteq R[q]
    BY <2>2, <1>3 DEF OrderedBy, OrderedNode
  <2>5. h[y] \in W
    BY <2>1, <2>3, <2>4, <1>2
  <2> HIDE DEF W, y
  <2>6. m <= h[y]
    BY <2>5, <1>1
  <2> QED
    BY <2>3, <2>6, <1>2
<1> QED
  BY <1>5, <1>6

\* So the ranges of a way down the last children may end at its last key.
LEMMA RightTightened ==
  ASSUME NEW d, NEW T, NEW h, NEW R, Nodes(d, T), HeightsBy(d, T, h), OrderedBy(d, T, R),
         NEW p, NEW Q, NEW c, RightPath(d, T, p, Q, c)
  PROVE  OrderedBy(d, T, RangesBelow(R, T, Q, c.key))
<1> DEFINE R2 == RangesBelow(R, T, Q, c.key)
<1>1. Q \subseteq T /\ R \in [T -> SUBSET Nat]
  BY DEF RightPath, OrderedBy
<1>2. \A q \in T : R2[q] = IF q \in Q THEN {k \in R[q] : k <= c.key} ELSE R[q]
  BY DEF RangesBelow
<1>3. R2 \in [T -> SUBSET Nat]
  BY <1>1 DEF RangesBelow
<1>4. \A q \in T : R2[q] \subseteq R[q]
  BY <1>2
<1>5. \A q \in Q : c.key \in R[q]
  BY RightPathIn
<1> HIDE DEF R2
<1>6. ASSUME NEW q \in T PROVE OrderedNode(d, R2, q)
  <2>1. /\ Sorted(d[q].cells) /\ Between(d[q].cells, d[q].kids, R)
        /\ \A i \in 1 .. Len(d[q].cells) : d[q].cells[i].key \in R[q]
        /\ \A x \in Members(d[q].kids) : R[x] \subseteq R[q]
    BY DEF OrderedBy, OrderedNode
  <2>2. /\ Len(d[q].cells) \in Nat /\ Len(d[q].kids) \in Nat
        /\ \A i \in 1 .. Len(d[q].kids) : d[q].kids[i] \in T
        /\ Members(d[q].kids) \subseteq T
        /\ d[q].leaf => Len(d[q].kids) = 0
        /\ ~d[q].leaf => Len(d[q].kids) = Len(d[q].cells) + 1
    BY NodeLens
  <2>3. Between(d[q].cells, d[q].kids, R2)
    BY <2>1, <2>2, <1>4 DEF Between
  <2>4. CASE q \notin Q
    BY <2>1, <2>2, <2>3, <2>4, <1>2, <1>4 DEF OrderedNode
  <2>5. CASE q \in Q /\ d[q].leaf
    <3>1. Len(d[q].cells) >= 1 /\ d[q].cells[Len(d[q].cells)] = c
      BY <2>5 DEF RightPath
    <3>2. \A i \in 1 .. Len(d[q].cells) : d[q].cells[i].key \in R[q] /\ d[q].cells[i].key \in Nat
      BY <2>1, <1>1
    <3>3. \A i \in 1 .. Len(d[q].cells) : d[q].cells[i].key <= c.key
      BY <3>1, <3>2, <2>1, <2>2 DEF Sorted
    <3>4. \A i \in 1 .. Len(d[q].cells) : d[q].cells[i].key \in R2[q]
      BY <3>2, <3>3, <1>2, <2>5
    <3>5. Members(d[q].kids) = {}
      BY <2>2, <2>5 DEF Members
    <3> QED
      BY <3>4, <3>5, <2>1, <2>3 DEF OrderedNode
  <2>6. CASE q \in Q /\ ~d[q].leaf
    <3> DEFINE l == Len(d[q].kids)
    <3>1. l >= 1 /\ d[q].kids[l] \in Q /\ l = Len(d[q].cells) + 1 /\ l \in 1 .. l
      BY <2>2, <2>6 DEF RightPath
    <3>2. c.key \in R[d[q].kids[l]] /\ c.key \in R[q]
      BY <3>1, <2>6, <1>5
    <3>3. \A i \in 1 .. Len(d[q].cells) : d[q].cells[i].key <= c.key
      <4>1. \A i \in 1 .. Len(d[q].cells) : i < l
        BY <3>1, <2>2
      <4> QED
        BY <4>1, <3>1, <3>2, <2>1 DEF Between
    <3>4. \A i \in 1 .. Len(d[q].cells) : d[q].cells[i].key \in R2[q]
      BY <3>3, <2>1, <1>2, <2>6
    <3>5. ASSUME NEW x \in Members(d[q].kids) PROVE R2[x] \subseteq R2[q]
      <4>1. PICK i \in 1 .. l : x = d[q].kids[i]
        BY DEF Members
      <4>2. x \in T /\ R2[x] \subseteq R[q]
        BY <2>1, <2>2, <1>4
      <4>3. \A k \in R2[x] : k <= c.key
        <5>1. CASE i = l
          BY <5>1, <4>1, <3>1, <1>2, <4>2
        <5>2. CASE i < l
          <6>1. i \in 1 .. Len(d[q].cells) /\ i <= i
            BY <5>2, <3>1, <2>2
          <6>2. \A k \in R[x] : k <= d[q].cells[i].key
            BY <6>1, <4>1, <2>1 DEF Between
          <6>3. d[q].cells[i].key <= c.key /\ d[q].cells[i].key \in Nat /\ c.key \in Nat
            BY <6>1, <3>3, <3>2, <2>1, <1>1
          <6>4. \A k \in R2[x] : k \in R[x] /\ k \in Nat
            BY <4>2, <1>4, <1>3
          <6> QED
            BY <6>2, <6>3, <6>4
        <5> QED
          BY <5>1, <5>2, <4>1
      <4> QED
        BY <4>2, <4>3, <1>2, <2>6
    <3> QED
      BY <3>4, <3>5, <2>1, <2>3 DEF OrderedNode
  <2> QED
    BY <2>4, <2>5, <2>6
<1>7. OrderedBy(d, T, R2)
  BY <1>3, <1>6 DEF OrderedBy
<1> QED
  BY <1>7 DEF R2

\* And the ranges of a way down the first children may begin at its first key.
LEMMA LeftTightened ==
  ASSUME NEW d, NEW T, NEW h, NEW R, Nodes(d, T), HeightsBy(d, T, h), OrderedBy(d, T, R),
         NEW p, NEW Q, NEW c, LeftPath(d, T, p, Q, c)
  PROVE  OrderedBy(d, T, RangesAbove(R, T, Q, c.key))
<1> DEFINE R2 == RangesAbove(R, T, Q, c.key)
<1>1. Q \subseteq T /\ R \in [T -> SUBSET Nat]
  BY DEF LeftPath, OrderedBy
<1>2. \A q \in T : R2[q] = IF q \in Q THEN {k \in R[q] : c.key <= k} ELSE R[q]
  BY DEF RangesAbove
<1>3. R2 \in [T -> SUBSET Nat]
  BY <1>1 DEF RangesAbove
<1>4. \A q \in T : R2[q] \subseteq R[q]
  BY <1>2
<1>5. \A q \in Q : c.key \in R[q]
  BY LeftPathIn
<1> HIDE DEF R2
<1>6. ASSUME NEW q \in T PROVE OrderedNode(d, R2, q)
  <2>1. /\ Sorted(d[q].cells) /\ Between(d[q].cells, d[q].kids, R)
        /\ \A i \in 1 .. Len(d[q].cells) : d[q].cells[i].key \in R[q]
        /\ \A x \in Members(d[q].kids) : R[x] \subseteq R[q]
    BY DEF OrderedBy, OrderedNode
  <2>2. /\ Len(d[q].cells) \in Nat /\ Len(d[q].kids) \in Nat
        /\ \A i \in 1 .. Len(d[q].kids) : d[q].kids[i] \in T
        /\ Members(d[q].kids) \subseteq T
        /\ d[q].leaf => Len(d[q].kids) = 0
        /\ ~d[q].leaf => Len(d[q].kids) = Len(d[q].cells) + 1
    BY NodeLens
  <2>3. Between(d[q].cells, d[q].kids, R2)
    BY <2>1, <2>2, <1>4 DEF Between
  <2>4. CASE q \notin Q
    BY <2>1, <2>2, <2>3, <2>4, <1>2, <1>4 DEF OrderedNode
  <2>5. CASE q \in Q /\ d[q].leaf
    <3>1. Len(d[q].cells) >= 1 /\ d[q].cells[1] = c
      BY <2>5 DEF LeftPath
    <3>2. \A i \in 1 .. Len(d[q].cells) : d[q].cells[i].key \in R[q] /\ d[q].cells[i].key \in Nat
      BY <2>1, <1>1
    <3>3. \A i \in 1 .. Len(d[q].cells) : c.key <= d[q].cells[i].key
      BY <3>1, <3>2, <2>1, <2>2 DEF Sorted
    <3>4. \A i \in 1 .. Len(d[q].cells) : d[q].cells[i].key \in R2[q]
      BY <3>2, <3>3, <1>2, <2>5
    <3>5. Members(d[q].kids) = {}
      BY <2>2, <2>5 DEF Members
    <3> QED
      BY <3>4, <3>5, <2>1, <2>3 DEF OrderedNode
  <2>6. CASE q \in Q /\ ~d[q].leaf
    <3> DEFINE l == Len(d[q].kids)
    <3>1. l >= 1 /\ d[q].kids[1] \in Q /\ l = Len(d[q].cells) + 1 /\ 1 \in 1 .. l
      BY <2>2, <2>6 DEF LeftPath
    <3>2. c.key \in R[d[q].kids[1]] /\ c.key \in R[q]
      BY <3>1, <2>6, <1>5
    <3>3. \A i \in 1 .. Len(d[q].cells) : c.key <= d[q].cells[i].key
      <4>1. \A i \in 1 .. Len(d[q].cells) : 1 <= i
        BY <3>1, <2>2
      <4> QED
        BY <4>1, <3>1, <3>2, <2>1 DEF Between
    <3>4. \A i \in 1 .. Len(d[q].cells) : d[q].cells[i].key \in R2[q]
      BY <3>3, <2>1, <1>2, <2>6
    <3>5. ASSUME NEW x \in Members(d[q].kids) PROVE R2[x] \subseteq R2[q]
      <4>1. PICK i \in 1 .. l : x = d[q].kids[i]
        BY DEF Members
      <4>2. x \in T /\ R2[x] \subseteq R[q]
        BY <2>1, <2>2, <1>4
      <4>3. \A k \in R2[x] : c.key <= k
        <5>1. CASE i = 1
          BY <5>1, <4>1, <3>1, <1>2, <4>2
        <5>2. CASE i > 1
          <6>1. i - 1 \in 1 .. Len(d[q].cells) /\ i - 1 < i
            BY <5>2, <3>1, <2>2
          <6>2. \A k \in R[x] : d[q].cells[i - 1].key <= k
            BY <6>1, <4>1, <2>1 DEF Between
          <6>3. c.key <= d[q].cells[i - 1].key /\ d[q].cells[i - 1].key \in Nat /\ c.key \in Nat
            BY <6>1, <3>3, <3>2, <2>1, <1>1
          <6>4. \A k \in R2[x] : k \in R[x] /\ k \in Nat
            BY <4>2, <1>4, <1>3
          <6> QED
            BY <6>2, <6>3, <6>4
        <5> QED
          BY <5>1, <5>2, <4>1
      <4> QED
        BY <4>2, <4>3, <1>2, <2>6
    <3> QED
      BY <3>4, <3>5, <2>1, <2>3 DEF OrderedNode
  <2> QED
    BY <2>4, <2>5, <2>6
<1>7. OrderedBy(d, T, R2)
  BY <1>3, <1>6 DEF OrderedBy
<1> QED
  BY <1>7 DEF R2

\* The cell before cell i of an inner node, in key order, may replace it: the ranges say so
\* once those of the way to it end at its key.
LEMMA BeforeReplaces ==
  ASSUME NEW d, NEW T, NEW h, NEW R, Nodes(d, T), HeightsBy(d, T, h), OrderedBy(d, T, R),
         NEW p \in T, d[p].leaf = FALSE, NEW i \in 1 .. Len(d[p].cells),
         NEW Q, NEW c, RightPath(d, T, d[p].kids[i], Q, c)
  PROVE  \E R2 : OrderedBy(d, T, R2) /\ c.key \in R2[p] /\ Replacing(d[p].cells, d[p].kids, R2, i, c)
<1> DEFINE R2 == RangesBelow(R, T, Q, c.key)
           a  == d[p].kids[i]
<1>1. OrderedBy(d, T, R2)
  BY RightTightened
<1>2. \A q \in Q : c.key \in R[q]
  BY RightPathIn
<1>3. /\ Len(d[p].cells) \in Nat /\ Len(d[p].kids) = Len(d[p].cells) + 1
      /\ \A j \in 1 .. Len(d[p].kids) : d[p].kids[j] \in T
  BY NodeLens
<1>4. a \in Q /\ Q \subseteq T /\ i \in 1 .. Len(d[p].kids) /\ a \in T
  BY <1>3 DEF RightPath
<1>5. R \in [T -> SUBSET Nat] /\ c.key \in R[a] /\ c.key \in Nat
  BY <1>2, <1>4 DEF OrderedBy
<1>6. \A q \in T : R2[q] = IF q \in Q THEN {k \in R[q] : k <= c.key} ELSE R[q]
  BY DEF RangesBelow
<1>7. /\ Sorted(d[p].cells) /\ Between(d[p].cells, d[p].kids, R)
      /\ \A j \in 1 .. Len(d[p].cells) : d[p].cells[j].key \in R[p] /\ d[p].cells[j].key \in Nat
      /\ \A q \in Members(d[p].kids) : R[q] \subseteq R[p]
  BY <1>5 DEF OrderedBy, OrderedNode
<1>8. c.key \in R2[p]
  <2>1. a \in Members(d[p].kids)
    BY <1>4 DEF Members
  <2>2. c.key \in R[p]
    BY <2>1, <1>5, <1>7
  <2>3. c.key <= c.key
    BY <1>5
  <2>4. c.key \in {k \in R[p] : k <= c.key}
    BY <2>2, <2>3
  <2>5. R2[p] = {k \in R[p] : k <= c.key} \/ R2[p] = R[p]
    BY <1>6
  <2> HIDE DEF a, R2
  <2> QED
    BY <2>2, <2>4, <2>5
<1>9. \A j \in 1 .. Len(d[p].cells) : i <= j => c.key <= d[p].cells[j].key
  BY <1>4, <1>5, <1>7 DEF Between
<1>10. \A j \in 1 .. Len(d[p].cells) : j < i => d[p].cells[j].key <= c.key
  BY <1>4, <1>5, <1>7 DEF Between
<1>11. ASSUME NEW n \in 1 .. Len(d[p].kids), NEW k \in R2[d[p].kids[n]]
       PROVE  (n <= i => k <= c.key) /\ (n > i => c.key <= k)
  <2>1. d[p].kids[n] \in T
    BY <1>3
  <2>2. k \in R[d[p].kids[n]] /\ k \in Nat
    BY <2>1, <1>5, <1>6
  <2>3. CASE n > i
    <3>1. d[p].cells[i].key <= k
      BY <2>2, <2>3, <1>7 DEF Between
    <3>2. c.key <= d[p].cells[i].key /\ d[p].cells[i].key \in Nat
      BY <1>7, <1>9
    <3> QED
      BY <2>2, <2>3, <3>1, <3>2, <1>5
  <2>4. CASE n = i
    <3> HIDE DEF R2
    <3>1. k \in R2[a]
      BY <2>4
    <3>2. R2[a] = {m \in R[a] : m <= c.key}
      BY <1>4, <1>6
    <3>3. k <= c.key
      BY <3>1, <3>2
    <3> QED
      BY <2>4, <3>3
  <2>5. CASE n < i
    <3>1. n \in 1 .. Len(d[p].cells) /\ n <= n
      BY <2>5
    <3>2. k <= d[p].cells[n].key
      BY <2>2, <3>1, <1>7 DEF Between
    <3>3. d[p].cells[n].key <= c.key /\ d[p].cells[n].key \in Nat
      BY <3>1, <2>5, <1>7, <1>10
    <3> QED
      BY <2>2, <2>5, <3>2, <3>3, <1>5
  <2> QED
    BY <2>3, <2>4, <2>5
<1>12. Replacing(d[p].cells, d[p].kids, R2, i, c)
  <2> HIDE DEF R2
  <2> QED
    BY <1>9, <1>10, <1>11 DEF Replacing
<1> QED
  BY <1>1, <1>8, <1>12

\* The cell after cell i of an inner node, in key order, may replace it: the ranges say so
\* once those of the way to it begin at its key.
LEMMA AfterReplaces ==
  ASSUME NEW d, NEW T, NEW h, NEW R, Nodes(d, T), HeightsBy(d, T, h), OrderedBy(d, T, R),
         NEW p \in T, d[p].leaf = FALSE, NEW i \in 1 .. Len(d[p].cells),
         NEW Q, NEW c, LeftPath(d, T, d[p].kids[i + 1], Q, c)
  PROVE  \E R2 : OrderedBy(d, T, R2) /\ c.key \in R2[p] /\ Replacing(d[p].cells, d[p].kids, R2, i, c)
<1> DEFINE R2 == RangesAbove(R, T, Q, c.key)
           a  == d[p].kids[i + 1]
<1>1. OrderedBy(d, T, R2)
  BY LeftTightened
<1>2. \A q \in Q : c.key \in R[q]
  BY LeftPathIn
<1>3. /\ Len(d[p].cells) \in Nat /\ Len(d[p].kids) = Len(d[p].cells) + 1
      /\ \A j \in 1 .. Len(d[p].kids) : d[p].kids[j] \in T
  BY NodeLens
<1>4. a \in Q /\ Q \subseteq T /\ i + 1 \in 1 .. Len(d[p].kids) /\ a \in T
  BY <1>3 DEF LeftPath
<1>5. R \in [T -> SUBSET Nat] /\ c.key \in R[a] /\ c.key \in Nat
  BY <1>2, <1>4 DEF OrderedBy
<1>6. \A q \in T : R2[q] = IF q \in Q THEN {k \in R[q] : c.key <= k} ELSE R[q]
  BY DEF RangesAbove
<1>7. /\ Sorted(d[p].cells) /\ Between(d[p].cells, d[p].kids, R)
      /\ \A j \in 1 .. Len(d[p].cells) : d[p].cells[j].key \in R[p] /\ d[p].cells[j].key \in Nat
      /\ \A q \in Members(d[p].kids) : R[q] \subseteq R[p]
  BY <1>5 DEF OrderedBy, OrderedNode
<1>8. c.key \in R2[p]
  <2>1. a \in Members(d[p].kids)
    BY <1>4 DEF Members
  <2>2. c.key \in R[p]
    BY <2>1, <1>5, <1>7
  <2>3. c.key <= c.key
    BY <1>5
  <2>4. c.key \in {k \in R[p] : c.key <= k}
    BY <2>2, <2>3
  <2>5. R2[p] = {k \in R[p] : c.key <= k} \/ R2[p] = R[p]
    BY <1>6
  <2> HIDE DEF a, R2
  <2> QED
    BY <2>2, <2>4, <2>5
<1>9. \A j \in 1 .. Len(d[p].cells) : i < j => c.key <= d[p].cells[j].key
  BY <1>4, <1>5, <1>7 DEF Between
<1>10. \A j \in 1 .. Len(d[p].cells) : j <= i => d[p].cells[j].key <= c.key
  BY <1>4, <1>5, <1>7 DEF Between
<1>11. ASSUME NEW n \in 1 .. Len(d[p].kids), NEW k \in R2[d[p].kids[n]]
       PROVE  (n <= i => k <= c.key) /\ (n > i => c.key <= k)
  <2>1. d[p].kids[n] \in T
    BY <1>3
  <2>2. k \in R[d[p].kids[n]] /\ k \in Nat
    BY <2>1, <1>5, <1>6
  <2>3. CASE n <= i
    <3>1. i \in 1 .. Len(d[p].cells) /\ k <= d[p].cells[i].key
      BY <2>2, <2>3, <1>7 DEF Between
    <3>2. d[p].cells[i].key <= c.key /\ d[p].cells[i].key \in Nat
      BY <1>7, <1>10
    <3> QED
      BY <2>2, <2>3, <3>1, <3>2, <1>5
  <2>4. CASE n = i + 1
    <3> HIDE DEF R2
    <3>1. k \in R2[a]
      BY <2>4
    <3>2. R2[a] = {m \in R[a] : c.key <= m}
      BY <1>4, <1>6
    <3>3. c.key <= k
      BY <3>1, <3>2
    <3> QED
      BY <2>4, <3>3
  <2>5. CASE n > i + 1
    <3>1. n - 1 \in 1 .. Len(d[p].cells) /\ n - 1 < n /\ i < n - 1
      BY <2>5, <1>3
    <3>2. d[p].cells[n - 1].key <= k
      BY <2>2, <3>1, <1>7 DEF Between
    <3>3. c.key <= d[p].cells[n - 1].key /\ d[p].cells[n - 1].key \in Nat
      BY <3>1, <1>7, <1>9
    <3> QED
      BY <2>2, <2>5, <3>2, <3>3, <1>5
  <2> QED
    BY <2>3, <2>4, <2>5
<1>12. Replacing(d[p].cells, d[p].kids, R2, i, c)
  <2> HIDE DEF R2
  <2> QED
    BY <1>9, <1>10, <1>11 DEF Replacing
<1> QED
  BY <1>1, <1>8, <1>12

--------------------------------------------------------------------------------
\* A tree of t children a node is less high than half the pages.

\* The tree's nodes are within their bounds, with t the order.
Sizes(d, r, T, t) ==
  \A p \in T : /\ Len(d[p].cells) <= 2 * t - 1
               /\ p # r => Len(d[p].cells) >= t - 1
               /\ ~d[p].leaf => Len(d[p].cells) >= 1

\* The root is above every other page.
LEMMA RootHighest ==
  ASSUME NEW d, NEW r, NEW T, NEW h, NEW P, Nodes(d, T), HeightsBy(d, T, h), SlotsBy(d, r, T, P)
  PROVE  \A q \in T : h[q] \in Nat /\ h[q] <= h[r] /\ (q # r => h[q] < h[r])
<1>0. IsFiniteSet(T)
  <2>1. IsFiniteSet(DataPages)
    BY FS_Interval, PageStoreAssumption DEF DataPages
  <2> QED
    BY <2>1, FS_Subset DEF Nodes
<1>1. h \in [T -> Nat] /\ r \in T
  BY DEF HeightsBy, SlotsBy
<1>2. ASSUME NEW q \in T, q # r PROVE P[q] \in T /\ h[P[q]] = h[q] + 1
  <2>1. P[q] \in T
    BY <1>2 DEF SlotsBy
  <2>2. q \in Members(d[P[q]].kids)
    BY <2>1 DEF SlotsBy, Lists
  <2> QED
    BY <2>1, <2>2 DEF HeightsBy, Height
<1> DEFINE up(p) == {q \in T : h[q] >= h[p]}
           Ups   == {up(p) : p \in T}
<1>3. PICK U \in Ups : \A V \in Ups : V \subseteq U => V = U
  <2>1. Ups \in SUBSET SUBSET T /\ Ups # {}
    BY <1>1
  <2> HIDE DEF Ups
  <2> QED
    BY <2>1, <1>0, SmallestSubset
<1>4. PICK p \in T : U = up(p)
  OBVIOUS
<1>5. \A q \in up(p) : up(q) = up(p)
  <2> SUFFICES ASSUME NEW q \in up(p) PROVE up(q) = up(p)
    OBVIOUS
  <2>1. q \in T /\ h[q] \in Nat /\ h[p] \in Nat /\ h[q] >= h[p]
    BY <1>1
  <2>2. up(q) \subseteq up(p)
    BY <1>1, <2>1
  <2>3. up(q) \in Ups
    BY <2>1
  <2> HIDE DEF up, Ups
  <2> QED
    BY <2>2, <2>3, <1>3, <1>4
<1>6. ASSUME NEW q \in up(p) PROVE q = r
  <2> SUFFICES ASSUME q # r PROVE FALSE
    OBVIOUS
  <2>1. P[q] \in T /\ h[P[q]] = h[q] + 1 /\ h[q] \in Nat /\ h[p] \in Nat
    BY <1>2, <1>1
  <2>2. P[q] \in up(p)
    BY <2>1
  <2>3. q \notin up(P[q])
    BY <2>1
  <2> QED
    BY <2>2, <2>3, <1>5
<1>7. p \in up(p)
  BY <1>1
<1>8. \A q \in T : q # r => ~(h[q] >= h[r])
  BY <1>6, <1>7
<1> QED
  BY <1>1, <1>8

\* Every height below that of the root is that of two pages, children of one.
LEMMA TwoOfEachHeight ==
  ASSUME NEW d, NEW r, NEW T, NEW h, NEW P, Nodes(d, T), HeightsBy(d, T, h), SlotsBy(d, r, T, P),
         \A q \in T : ~d[q].leaf => Len(d[q].cells) >= 1
  PROVE  \A n \in 1 .. h[r] : \E p \in T : /\ h[p] = n
                                           /\ \A i \in 1 .. 2 : d[p].kids[i] \in T \ {r} /\ h[d[p].kids[i]] = n - 1
                                           /\ d[p].kids[1] # d[p].kids[2]
<1>1. h \in [T -> Nat] /\ r \in T /\ h[r] \in Nat
  BY DEF HeightsBy, SlotsBy
<1>2. ASSUME NEW p \in T, h[p] # 0
      PROVE  /\ \A i \in 1 .. 2 : d[p].kids[i] \in T \ {r} /\ h[d[p].kids[i]] + 1 = h[p]
             /\ d[p].kids[1] # d[p].kids[2]
  <2>1. ~d[p].leaf
    BY <1>2 DEF HeightsBy, Height
  <2>2. Len(d[p].kids) = Len(d[p].cells) + 1 /\ Len(d[p].cells) \in Nat /\ Len(d[p].cells) >= 1
    BY <2>1, NodeLens
  <2>3. 1 \in 1 .. Len(d[p].kids) /\ 2 \in 1 .. Len(d[p].kids)
    BY <2>2
  <2>4. Lists(d[p].kids, {q \in T : P[q] = p}) /\ P[r] = 0 /\ p # 0
    <3>1. p \in DataPages /\ 0 \notin DataPages
      BY DEF Nodes, DataPages
    <3> QED
      BY <3>1 DEF SlotsBy
  <2>5. d[p].kids[1] # d[p].kids[2]
    BY <2>3, <2>4 DEF Lists, Distinct
  <2>6. \A i \in 1 .. 2 : d[p].kids[i] \in Members(d[p].kids)
    BY <2>3 DEF Members
  <2>7. \A q \in Members(d[p].kids) : q \in T \ {r} /\ h[q] + 1 = h[p]
    BY <2>4 DEF Lists, HeightsBy, Height
  <2> QED
    BY <2>5, <2>6, <2>7
<1> DEFINE At(n) == \E p \in T : h[p] = n
           W == {m \in Nat : m < h[r] /\ ~At(h[r] - m)}
<1>3. W = {}
  <2> SUFFICES ASSUME W # {} PROVE FALSE
    OBVIOUS
  <2>1. PICK m \in W : \A k \in W : m <= k
    <3>1. W \in SUBSET Nat
      OBVIOUS
    <3> HIDE DEF W
    <3> QED
      BY <3>1, SmallestNumber
  <2>2. m # 0
    BY <1>1
  <2>3. m - 1 \in Nat /\ ~(m <= m - 1) /\ m - 1 < h[r] /\ m < h[r]
    BY <2>2, <1>1
  <2>4. m - 1 \notin W
    <3> HIDE DEF W
    <3> QED
      BY <2>1, <2>3
  <2>5. PICK p \in T : h[p] = h[r] - (m - 1)
    BY <2>3, <2>4
  <2>6. h[p] # 0
    BY <2>3, <2>5, <1>1
  <2>7. d[p].kids[1] \in T /\ h[d[p].kids[1]] + 1 = h[p]
    BY <2>6, <1>2
  <2>8. h[d[p].kids[1]] = h[r] - m
    BY <2>5, <2>7, <1>1
  <2>9. At(h[r] - m)
    BY <2>7, <2>8
  <2> HIDE DEF At
  <2> QED
    BY <2>1, <2>9
<1> SUFFICES ASSUME NEW n \in 1 .. h[r]
             PROVE  \E p \in T : /\ h[p] = n
                                 /\ \A i \in 1 .. 2 : d[p].kids[i] \in T \ {r} /\ h[d[p].kids[i]] = n - 1
                                 /\ d[p].kids[1] # d[p].kids[2]
  OBVIOUS
<1>4. h[r] - n \in Nat /\ h[r] - n < h[r] /\ h[r] - (h[r] - n) = n
  BY <1>1
<1>5. h[r] - n \notin W
  BY <1>3
<1>6. At(n)
  <2> HIDE DEF At
  <2> QED
    BY <1>4, <1>5
<1>7. PICK p \in T : h[p] = n
  BY <1>6
<1>8. \A i \in 1 .. 2 : d[p].kids[i] \in T \ {r} /\ h[d[p].kids[i]] + 1 = h[p]
  BY <1>2, <1>7
<1>9. d[p].kids[1] # d[p].kids[2]
  BY <1>2, <1>7
<1>10. \A i \in 1 .. 2 : h[d[p].kids[i]] = n - 1
  BY <1>1, <1>7, <1>8
<1> QED
  BY <1>7, <1>8, <1>9, <1>10

\* So a tree in the file is lower than MaxHeight.
LEMMA HeightBound ==
  ASSUME NEW d, NEW r, NEW T, NEW h, NEW P, Nodes(d, T), HeightsBy(d, T, h), SlotsBy(d, r, T, P),
         \A q \in T : ~d[q].leaf => Len(d[q].cells) >= 1
  PROVE  MaxHeight \in Nat /\ h[r] < MaxHeight
<1>1. h \in [T -> Nat] /\ r \in T /\ h[r] \in Nat
  BY DEF HeightsBy, SlotsBy
<1> DEFINE Two(p, n) == /\ h[p] = n
                        /\ \A i \in 1 .. 2 : d[p].kids[i] \in T \ {r} /\ h[d[p].kids[i]] = n - 1
                        /\ d[p].kids[1] # d[p].kids[2]
           page == [n \in 1 .. h[r] |-> CHOOSE p \in T : Two(p, n)]
           l    == h[r]
           f    == [m \in 1 .. 2 * l |-> IF m <= l THEN d[page[m]].kids[1] ELSE d[page[m - l]].kids[2]]
           D    == DataPages \ {r}
<1>2. \A n \in 1 .. h[r] : \E p \in T : Two(p, n)
  BY TwoOfEachHeight
<1> HIDE DEF Two
<1>3. \A n \in 1 .. h[r] : Two(page[n], n)
  BY <1>2
<1> HIDE DEF page
<1>4. \A n \in 1 .. h[r] : /\ \A i \in 1 .. 2 : d[page[n]].kids[i] \in T \ {r} /\ h[d[page[n]].kids[i]] = n - 1
                           /\ d[page[n]].kids[1] # d[page[n]].kids[2]
  BY <1>3 DEF Two
<1>5. \A m \in 1 .. 2 * l : \/ m \in 1 .. l /\ f[m] = d[page[m]].kids[1]
                            \/ m > l /\ m - l \in 1 .. l /\ f[m] = d[page[m - l]].kids[2]
  BY <1>1
<1>6. \A m \in 1 .. 2 * l : f[m] \in T \ {r} /\ (m <= l => h[f[m]] = m - 1) /\ (m > l => h[f[m]] = m - l - 1)
  <2> SUFFICES ASSUME NEW m \in 1 .. 2 * l
               PROVE f[m] \in T \ {r} /\ (m <= l => h[f[m]] = m - 1) /\ (m > l => h[f[m]] = m - l - 1)
    OBVIOUS
  <2> HIDE DEF f
  <2>1. CASE m \in 1 .. l /\ f[m] = d[page[m]].kids[1]
    BY <2>1, <1>1, <1>4
  <2>2. CASE m > l /\ m - l \in 1 .. l /\ f[m] = d[page[m - l]].kids[2]
    BY <2>2, <1>1, <1>4
  <2> QED
    BY <2>1, <2>2, <1>5
<1>7. ASSUME NEW m \in 1 .. 2 * l, NEW n \in 1 .. 2 * l, f[m] = f[n] PROVE m = n
  <2>0. m \in Nat /\ n \in Nat /\ l \in Nat
    BY <1>1
  <2> HIDE DEF f, l
  <2>1. CASE m <= l /\ n <= l
    BY <2>0, <2>1, <1>6, <1>7
  <2>2. CASE m > l /\ n > l
    BY <2>0, <2>2, <1>6, <1>7
  <2>3. CASE m <= l /\ n > l
    <3>1. m = n - l
      BY <2>0, <2>3, <1>6, <1>7
    <3>2. f[m] = d[page[m]].kids[1] /\ f[n] = d[page[m]].kids[2] /\ m \in 1 .. l
      BY <2>0, <2>3, <3>1, <1>5
    <3> QED
      BY <3>2, <1>4, <1>7 DEF l
  <2>4. CASE m > l /\ n <= l
    <3>1. n = m - l
      <4>1. h[f[m]] = m - l - 1 /\ h[f[n]] = n - 1
        BY <2>4, <1>6
      <4>2. m - l - 1 = n - 1
        BY <4>1, <1>7
      <4> QED
        BY <4>2, <2>0
    <3>2. f[n] = d[page[n]].kids[1] /\ f[m] = d[page[n]].kids[2] /\ n \in 1 .. l
      BY <2>0, <2>4, <3>1, <1>5
    <3> QED
      BY <3>2, <1>4, <1>7 DEF l
  <2> QED
    BY <2>0, <2>1, <2>2, <2>3, <2>4
<1>8. f \in Injection(1 .. 2 * l, D)
  <2>1. T \subseteq DataPages
    BY DEF Nodes
  <2>2. f \in [1 .. 2 * l -> D]
    <3>1. \A m \in 1 .. 2 * l : f[m] \in D
      BY <2>1, <1>6
    <3>2. f = [m \in 1 .. 2 * l |-> f[m]]
      OBVIOUS
    <3> HIDE DEF f, D
    <3> QED
      BY <3>1, <3>2
  <2> HIDE DEF f, D
  <2> QED
    BY <2>2, <1>7 DEF Injection, IsInjective
<1>9. IsFiniteSet(D) /\ Cardinality(D) = MaxPages - 3
  <2>1. IsFiniteSet(DataPages) /\ Cardinality(DataPages) = MaxPages - 2
    <3>1. 2 \in Int /\ MaxPages - 1 \in Int /\ ~(2 > MaxPages - 1) /\ MaxPages - 1 - 2 + 1 = MaxPages - 2
      BY PageStoreAssumption
    <3>2. IsFiniteSet(2 .. MaxPages - 1) /\ Cardinality(2 .. MaxPages - 1) = IF 2 > MaxPages - 1 THEN 0 ELSE MaxPages - 1 - 2 + 1
      BY <3>1, FS_Interval
    <3> QED
      BY <3>1, <3>2 DEF DataPages
  <2>2. r \in DataPages
    BY <1>1 DEF Nodes
  <2>3. /\ IsFiniteSet(DataPages \ {r})
        /\ Cardinality(DataPages \ {r}) = IF r \in DataPages THEN Cardinality(DataPages) - 1 ELSE Cardinality(DataPages)
    BY <2>1, FS_RemoveElement
  <2> QED
    BY <2>1, <2>2, <2>3, PageStoreAssumption
<1>10. Cardinality(1 .. 2 * l) <= MaxPages - 3
  <2> HIDE DEF f, D
  <2> QED
    BY <1>8, <1>9, FS_Injection
<1>11. Cardinality(1 .. 2 * l) = 2 * l
  <2>1. 1 \in Int /\ 2 * l \in Int /\ (1 > 2 * l => 2 * l = 0) /\ 2 * l - 1 + 1 = 2 * l
    BY <1>1
  <2>2. Cardinality(1 .. 2 * l) = IF 1 > 2 * l THEN 0 ELSE 2 * l - 1 + 1
    BY <2>1, FS_Interval
  <2> QED
    BY <2>1, <2>2
<1>12. MaxHeight \in Nat /\ 2 * MaxHeight >= MaxPages /\ MaxPages \in Nat
  BY BTreeAssumption, PageStoreAssumption
<1> QED
  BY <1>1, <1>10, <1>11, <1>12

--------------------------------------------------------------------------------
\* The neighbours of an internal key replace it.

\* c is the cell next to cell i of the node p in key order, found below the child left or
\* right of it.
NextTo(d, T, p, i, c) ==
  \/ \E Q : RightPath(d, T, d[p].kids[i], Q, c)
  \/ \E Q : LeftPath(d, T, d[p].kids[i + 1], Q, c)

NeighbourOf(d, T, p, i, c) == NextTo(d, T, p, i, c) /\ \E q \in T : c \in Members(d[q].cells)

\* get_predecessor and get_successor find it, in some node of the tree.
LEMMA NeighbourFound ==
  ASSUME NEW s, NEW r, NEW T, NEW Y, NEW t \in Nat, t >= 2, Sound(s.disk, r, T, Y), Sizes(s.disk, r, T, t),
         NEW p \in T, s.disk[p].leaf = FALSE, NEW i \in 1 .. Len(s.disk[p].cells),
         NEW c, c \in {Predecessor(s, s.disk[p].kids[i]), Successor(s, s.disk[p].kids[i + 1])}
  PROVE  NeighbourOf(s.disk, T, p, i, c)
<1> DEFINE d == s.disk
<1>1. PICK h : HeightsBy(d, T, h)
  BY DEF Sound
<1>2. PICK P : SlotsBy(d, r, T, P)
  BY DEF Sound, Slots
<1>3. Nodes(d, T)
  BY DEF Sound
<1>4. \A q \in T : ~d[q].leaf => Len(d[q].cells) >= 1
  BY DEF Sizes
<1>5. MaxHeight \in Nat /\ h[r] < MaxHeight
  <2> HIDE DEF d
  <2> QED
    BY <1>1, <1>2, <1>3, <1>4, HeightBound
<1>6. \A q \in T : h[q] \in Nat /\ h[q] <= h[r]
  <2> HIDE DEF d
  <2> QED
    BY <1>1, <1>2, <1>3, RootHighest
<1>7. \A q \in T : h[q] < MaxHeight
  <2>1. h[r] \in Nat
    BY <1>2, <1>6 DEF SlotsBy
  <2> QED
    BY <2>1, <1>5, <1>6
<1>8. \A q \in T \ {r} : d[q].leaf => Len(d[q].cells) >= 1
  <2>1. \A q \in T \ {r} : Len(d[q].cells) >= t - 1 /\ Len(d[q].cells) \in Nat
    BY <1>3, NodeLens DEF Sizes
  <2> QED
    BY <2>1
<1>9. Children(d, r, T, p)
  <2> HIDE DEF d
  <2>1. Sound(d, r, T, Y) /\ d[p].leaf = FALSE
    BY DEF d
  <2> QED
    BY <2>1, KidsOf
<1>10. d[p].kids[i] \in T \ {r} /\ d[p].kids[i + 1] \in T \ {r}
  <2>1. i \in 1 .. Len(d[p].kids) /\ i + 1 \in 1 .. Len(d[p].kids)
    BY <1>9 DEF Children
  <2> QED
    BY <2>1, <1>9 DEF Children
<1>11. CASE c = Predecessor(s, d[p].kids[i])
  <2> DEFINE a == d[p].kids[i]
  <2>1. a \in T \ {r} /\ h[a] < MaxHeight
    BY <1>7, <1>10
  <2>0. /\ Nodes(s.disk, T) /\ HeightsBy(s.disk, T, h) /\ SlotsBy(s.disk, r, T, P)
        /\ MaxHeight \in Nat /\ Bushy(s.disk, r, T)
    BY <1>1, <1>2, <1>3, <1>5, <1>8 DEF Bushy
  <2> HIDE DEF a
  <2>2. LastBelow(s.disk, r, T, a, Predecessor(s, a))
    BY <2>0, <2>1, PredecessorPath
  <2> QED
    BY <2>2, <1>11 DEF NeighbourOf, NextTo, LastBelow, a
<1>12. CASE c = Successor(s, d[p].kids[i + 1])
  <2> DEFINE a == d[p].kids[i + 1]
  <2>1. a \in T \ {r} /\ h[a] < MaxHeight
    BY <1>7, <1>10
  <2>0. /\ Nodes(s.disk, T) /\ HeightsBy(s.disk, T, h) /\ SlotsBy(s.disk, r, T, P)
        /\ MaxHeight \in Nat /\ Bushy(s.disk, r, T)
    BY <1>1, <1>2, <1>3, <1>5, <1>8 DEF Bushy
  <2> HIDE DEF a
  <2>2. FirstBelow(s.disk, r, T, a, Successor(s, a))
    BY <2>0, <2>1, SuccessorPath
  <2> QED
    BY <2>2, <1>12 DEF NeighbourOf, NextTo, FirstBelow, a
<1> QED
  BY <1>11, <1>12

\* In place of cell i it leaves the tree a search tree.
LEMMA NeighbourSound ==
  ASSUME NEW d, NEW d2, NEW r, NEW T, NEW Y, Sound(d, r, T, Y),
         NEW p \in T, d[p].leaf = FALSE, NEW i \in 1 .. Len(d[p].cells),
         NEW c, NextTo(d, T, p, i, c), \E q \in T : c \in Members(d[q].cells),
         d2[p] = Node(FALSE, ReplaceAt(d[p].cells, i, c), d[p].kids), \A q \in T \ {p} : d2[q] = d[q]
  PROVE  /\ Sound(d2, r, T, Y) /\ c \in CellSet
         /\ Len(d2[p].cells) = Len(d[p].cells) /\ d2[p].leaf = FALSE /\ d2[p].kids = d[p].kids
         /\ ~IsOverflow(c) /\ ~IsOverflow(d[p].cells[i]) => \A H : Heads(d, T, H) => Heads(d2, T, H)
<1>1. Nodes(d, T) /\ Orderly(d, T) /\ HeadsIn(d, T, Y)
  BY DEF Sound
<1>2. PICK h : HeightsBy(d, T, h)
  BY DEF Sound
<1>3. PICK R : OrderedBy(d, T, R)
  BY <1>1 DEF Orderly
<1>4. PICK q \in T : c \in Members(d[q].cells)
  OBVIOUS
<1>5. c \in CellSet /\ Own(c) \subseteq Y
  <2>1. PICK j \in 1 .. Len(d[q].cells) : c = d[q].cells[j]
    BY <1>4 DEF Members
  <2>2. c \in CellSet
    BY <2>1, <1>1, NodeLens
  <2>3. Firsts(d[q].cells) \subseteq Y
    BY <1>1 DEF HeadsIn
  <2>4. \A y \in Own(c) : y \in Firsts(d[q].cells)
    BY <2>1, FirstsAre DEF Own
  <2> QED
    BY <2>2, <2>3, <2>4
<1> DEFINE cells == ReplaceAt(d[p].cells, i, c)
<1>6. d[p].cells \in Seq(CellSet) /\ Len(d[p].cells) \in Nat
  BY <1>1 DEF Nodes, NodeIn
<1>7. PICK s : s = RemoveAt(d[p].cells, i)
  OBVIOUS
<1>8. s \in Seq(CellSet) /\ Inserted(s, d[p].cells, i, d[p].cells[i])
  BY <1>6, <1>7, RemoveAtIs
<1>9. cells \in Seq(CellSet) /\ Inserted(s, cells, i, c)
  BY <1>5, <1>6, <1>8, InsertedOther
<1>10. Len(cells) = Len(d[p].cells)
  BY <1>8, <1>9 DEF Inserted
<1> HIDE DEF cells
<1>11. Recelled(d, d2, T, p, cells)
  <2>1. d2[p] = Node(d[p].leaf, cells, d[p].kids)
    BY DEF cells
  <2> QED
    BY <2>1, <1>9, <1>10 DEF Recelled
<1>12. /\ d2[p].leaf = FALSE /\ d2[p].cells = cells /\ d2[p].kids = d[p].kids
  <2>1. Holds(d2, p, FALSE, cells, d[p].kids)
    BY AtNode DEF cells
  <2> QED
    BY <2>1 DEF Holds
<1>13. \E R2 : OrderedBy(d, T, R2) /\ c.key \in R2[p] /\ Replacing(d[p].cells, d[p].kids, R2, i, c)
  <2>1. ASSUME NEW Q, RightPath(d, T, d[p].kids[i], Q, c)
        PROVE  \E R2 : OrderedBy(d, T, R2) /\ c.key \in R2[p] /\ Replacing(d[p].cells, d[p].kids, R2, i, c)
    BY <2>1, <1>1, <1>2, <1>3, BeforeReplaces
  <2>2. ASSUME NEW Q, LeftPath(d, T, d[p].kids[i + 1], Q, c)
        PROVE  \E R2 : OrderedBy(d, T, R2) /\ c.key \in R2[p] /\ Replacing(d[p].cells, d[p].kids, R2, i, c)
    BY <2>2, <1>1, <1>2, <1>3, AfterReplaces
  <2> QED
    BY <2>1, <2>2 DEF NextTo
<1>14. PICK R2 : OrderedBy(d, T, R2) /\ c.key \in R2[p] /\ Replacing(d[p].cells, d[p].kids, R2, i, c)
  BY <1>13
<1>15. Fits(d, p, cells, R2)
  BY <1>1, <1>14, ReplacedFits DEF cells
<1>16. Orderly(d2, T)
  BY <1>11, <1>14, <1>15, RecelledOrdered DEF Orderly
<1>17. Firsts(cells) \subseteq Y
  <2>1. Firsts(cells) = Firsts(s) \cup Own(c) /\ Firsts(d[p].cells) = Firsts(s) \cup Own(d[p].cells[i])
    BY <1>8, <1>9, InsertedHeads
  <2>2. Firsts(d[p].cells) \subseteq Y
    BY <1>1 DEF HeadsIn
  <2> QED
    BY <2>1, <2>2, <1>5
<1>18. Sound(d2, r, T, Y)
  BY <1>11, <1>16, <1>17, RecelledSound
<1>19. ASSUME ~IsOverflow(c), ~IsOverflow(d[p].cells[i]), NEW H, Heads(d, T, H) PROVE Heads(d2, T, H)
  <2>1. Len(s) \in Nat
    BY <1>8
  <2> QED
    BY <2>1, <1>8, <1>9, <1>11, <1>19, ReplacedHeads
<1> QED
  BY <1>5, <1>10, <1>12, <1>18, <1>19

\* Every key may be sought from the root: it has no bounds.
LEMMA RootWidened ==
  ASSUME NEW d, NEW r, NEW T, NEW R, Nodes(d, T), Slots(d, r, T), OrderedBy(d, T, R), NEW k \in Nat
  PROVE  \E R2 : OrderedBy(d, T, R2) /\ r \in T /\ k \in R2[r]
<1>1. PICK P : SlotsBy(d, r, T, P)
  BY DEF Slots
<1>2. r \in T /\ \A p \in T : r \notin Members(d[p].kids)
  <2>1. r \in T /\ P[r] = 0 /\ 0 \notin T
    BY <1>1 DEF SlotsBy, Nodes, DataPages
  <2>2. \A p \in T : Members(d[p].kids) = {q \in T : P[q] = p}
    BY <1>1 DEF SlotsBy, Lists
  <2> QED
    BY <2>1, <2>2
<1> DEFINE R2 == [q \in T |-> IF q = r THEN R[r] \cup {k} ELSE R[q]]
<1>3. R \in [T -> SUBSET Nat]
  BY DEF OrderedBy
<1>4. R2 \in [T -> SUBSET Nat] /\ k \in R2[r]
  BY <1>2, <1>3
<1>5. \A q \in T : R[q] \subseteq R2[q] /\ (q # r => R2[q] = R[q])
  OBVIOUS
<1> HIDE DEF R2
<1>6. ASSUME NEW p \in T PROVE OrderedNode(d, R2, p)
  <2>1. /\ Sorted(d[p].cells) /\ Between(d[p].cells, d[p].kids, R)
        /\ \A i \in 1 .. Len(d[p].cells) : d[p].cells[i].key \in R[p]
        /\ \A q \in Members(d[p].kids) : R[q] \subseteq R[p]
    BY DEF OrderedBy, OrderedNode
  <2>2. Members(d[p].kids) \subseteq T /\ \A i \in 1 .. Len(d[p].kids) : d[p].kids[i] \in Members(d[p].kids)
    BY NodeLens DEF Members
  <2>3. \A q \in Members(d[p].kids) : R2[q] = R[q]
    BY <2>2, <1>2, <1>5
  <2>4. Between(d[p].cells, d[p].kids, R2)
    BY <2>1, <2>2, <2>3 DEF Between
  <2>5. \A q \in Members(d[p].kids) : R2[q] \subseteq R2[p]
    BY <2>1, <2>3, <1>5
  <2>6. \A i \in 1 .. Len(d[p].cells) : d[p].cells[i].key \in R2[p]
    BY <2>1, <1>5
  <2> QED
    BY <2>1, <2>4, <2>5, <2>6 DEF OrderedNode
<1> QED
  BY <1>2, <1>4, <1>6 DEF OrderedBy

\* A key that may be sought from a node may be sought from the child that its position names.
LEMMA KidWidened ==
  ASSUME NEW d, NEW r, NEW T, NEW R, Nodes(d, T), OrderedBy(d, T, R),
         NEW p \in T, Children(d, r, T, p), NEW k \in R[p], NEW b, Position(d[p].cells, k, b)
  PROVE  /\ b + 1 \in 1 .. Len(d[p].kids)
         /\ \E R2 : OrderedBy(d, T, R2) /\ k \in R2[d[p].kids[b + 1]]
<1> DEFINE a  == d[p].kids[b + 1]
           R2 == [q \in T |-> IF q = a THEN R[a] \cup {k} ELSE R[q]]
<1>1. /\ Len(d[p].kids) = Len(d[p].cells) + 1 /\ Len(d[p].cells) \in Nat
      /\ \A i \in 1 .. Len(d[p].kids) : d[p].kids[i] \in T \ {p, r} /\ OnlyChild(d, T, p, d[p].kids[i])
      /\ \A i, j \in 1 .. Len(d[p].kids) : d[p].kids[i] = d[p].kids[j] => i = j
  BY DEF Children
<1>2. b \in 0 .. Len(d[p].cells) /\ b + 1 \in 1 .. Len(d[p].kids)
  BY <1>1 DEF Position
<1>3. a \in T /\ a # p /\ \A q \in T \ {p} : a \notin Members(d[q].kids)
  BY <1>1, <1>2 DEF OnlyChild
<1>4. R \in [T -> SUBSET Nat] /\ k \in Nat
  BY DEF OrderedBy
<1>5. R2 \in [T -> SUBSET Nat] /\ k \in R2[a]
  BY <1>3, <1>4
<1>6. \A q \in T : R[q] \subseteq R2[q] /\ (q # a => R2[q] = R[q]) /\ R2[q] \subseteq R[q] \cup {k}
  BY <1>4
<1> HIDE DEF R2
<1>7. ASSUME NEW x \in T PROVE OrderedNode(d, R2, x)
  <2>1. /\ Sorted(d[x].cells) /\ Between(d[x].cells, d[x].kids, R)
        /\ \A i \in 1 .. Len(d[x].cells) : d[x].cells[i].key \in R[x]
        /\ \A q \in Members(d[x].kids) : R[q] \subseteq R[x]
    BY DEF OrderedBy, OrderedNode
  <2>2. /\ Members(d[x].kids) \subseteq T /\ \A i \in 1 .. Len(d[x].kids) : d[x].kids[i] \in Members(d[x].kids)
        /\ \A i \in 1 .. Len(d[x].cells) : d[x].cells[i].key \in Nat
    BY NodeLens, NodeKeys DEF Members
  <2>6. \A i \in 1 .. Len(d[x].cells) : d[x].cells[i].key \in R2[x]
    BY <2>1, <1>6
  <2>7. CASE x # p
    <3>1. \A q \in Members(d[x].kids) : q # a
      BY <2>7, <1>3
    <3>2. \A q \in Members(d[x].kids) : R2[q] = R[q]
      BY <3>1, <2>2, <1>6
    <3>3. Between(d[x].cells, d[x].kids, R2)
      BY <2>1, <2>2, <3>2 DEF Between
    <3>4. \A q \in Members(d[x].kids) : R2[q] \subseteq R2[x]
      BY <2>1, <3>2, <1>6
    <3> QED
      BY <2>1, <2>6, <3>3, <3>4 DEF OrderedNode
  <2>8. CASE x = p
    <3>1. R2[p] = R[p]
      BY <1>3, <1>6
    <3>2. \A q \in Members(d[p].kids) : R2[q] \subseteq R2[p]
      <4>1. \A q \in Members(d[p].kids) : R[q] \cup {k} \subseteq R[p]
        BY <2>1, <2>8
      <4> QED
        BY <4>1, <3>1, <2>2, <2>8, <1>6
    <3>3. ASSUME NEW n \in 1 .. Len(d[p].kids), NEW j \in 1 .. Len(d[p].cells), NEW m \in R2[d[p].kids[n]]
          PROVE  (n <= j => m <= d[p].cells[j].key) /\ (j < n => d[p].cells[j].key <= m)
      <4>1. d[p].kids[n] \in T
        BY <1>1
      <4>2. CASE m \in R[d[p].kids[n]]
        BY <4>2, <2>1, <2>8 DEF Between
      <4>3. CASE m \notin R[d[p].kids[n]]
        <5>1. m = k /\ d[p].kids[n] = a
          BY <4>1, <4>3, <1>6
        <5>2. n = b + 1
          BY <5>1, <1>1, <1>2
        <5>3. d[p].cells[j].key < k <=> j <= b
          BY DEF Position
        <5>4. d[p].cells[j].key \in Nat
          BY <2>2, <2>8
        <5> QED
          BY <5>1, <5>2, <5>3, <5>4, <1>2, <1>4
      <4> QED
        BY <4>2, <4>3
    <3>4. Between(d[p].cells, d[p].kids, R2)
      BY <3>3 DEF Between
    <3> QED
      BY <2>1, <2>6, <2>8, <3>2, <3>4 DEF OrderedNode
  <2> QED
    BY <2>7, <2>8
<1>8. OrderedBy(d, T, R2)
  BY <1>5, <1>7 DEF OrderedBy
<1> QED
  BY <1>2, <1>5, <1>8

\* A key has one position.
LEMMA OnePosition ==
  ASSUME NEW cells, Len(cells) \in Nat, NEW k, NEW b, NEW b2, Position(cells, k, b), Position(cells, k, b2)
  PROVE  b = b2
<1>1. b \in 0 .. Len(cells) /\ b2 \in 0 .. Len(cells) /\ \A i \in 1 .. Len(cells) : i <= b <=> i <= b2
  BY DEF Position
<1>2. CASE b < b2
  <2>1. b2 \in 1 .. Len(cells)
    BY <1>1, <1>2
  <2> QED
    BY <2>1, <1>1, <1>2
<1>3. CASE b2 < b
  <2>1. b \in 1 .. Len(cells)
    BY <1>1, <1>3
  <2> QED
    BY <2>1, <1>1, <1>3
<1> QED
  BY <1>1, <1>2, <1>3

\* A cell on the same side of the key takes the place of another one.
LEMMA ReplacedPosition ==
  ASSUME NEW cells \in Seq(CellSet), NEW k, NEW b, Position(cells, k, b), NEW i \in 1 .. Len(cells), NEW x \in CellSet,
         x.key < k <=> i <= b
  PROVE  Position(ReplaceAt(cells, i, x), k, b)
<1>1. Inserted(RemoveAt(cells, i), cells, i, cells[i]) /\ RemoveAt(cells, i) \in Seq(CellSet)
  BY RemoveAtIs
<1>2. Inserted(RemoveAt(cells, i), ReplaceAt(cells, i, x), i, x)
  BY <1>1, InsertedOther
<1> DEFINE s == RemoveAt(cells, i)
           c == ReplaceAt(cells, i, x)
<1> HIDE DEF s, c
<1>3. Inserted(s, cells, i, cells[i]) /\ Inserted(s, c, i, x) /\ Len(s) \in Nat
  BY <1>1, <1>2 DEF s, c
<1>4. Len(c) = Len(cells) /\ c[i] = x
  BY <1>3 DEF Inserted
<1>5. ASSUME NEW j \in 1 .. Len(cells), j # i PROVE c[j] = cells[j]
  <2>1. j \in 1 .. Len(c)
    BY <1>4
  <2>2. CASE j < i
    BY <2>1, <2>2, <1>3 DEF Inserted
  <2>3. CASE j > i
    <3>1. c[j] = s[j - 1]
      BY <2>1, <2>3, <1>3 DEF Inserted
    <3>2. cells[j] = s[j - 1]
      BY <2>3, <1>3 DEF Inserted
    <3> QED
      BY <3>1, <3>2
  <2> QED
    BY <2>2, <2>3, <1>5
<1>6. \A j \in 1 .. Len(c) : c[j].key < k <=> j <= b
  BY <1>4, <1>5 DEF Position
<1> QED
  BY <1>4, <1>6 DEF Position, c

\* Without one of the cells.
LEMMA RemovedPosition ==
  ASSUME NEW cells, NEW c, NEW k, NEW b, Position(cells, k, b), NEW i, NEW x, Inserted(c, cells, i, x), Len(c) \in Nat
  PROVE  Position(c, k, IF i <= b THEN b - 1 ELSE b)
<1>1. Len(cells) = Len(c) + 1 /\ i \in 1 .. Len(cells) /\ b \in 0 .. Len(cells)
  BY DEF Inserted, Position
<1>2. ASSUME NEW j \in 1 .. Len(c) PROVE c[j].key < k <=> (IF j < i THEN j ELSE j + 1) <= b
  <2>1. CASE j < i
    <3>1. j \in 1 .. Len(cells) /\ cells[j] = c[j]
      BY <2>1, <1>1 DEF Inserted
    <3> QED
      BY <3>1, <2>1 DEF Position
  <2>2. CASE ~(j < i)
    <3>1. j + 1 \in 1 .. Len(cells) /\ cells[j + 1] = c[j]
      BY <2>2, <1>1 DEF Inserted
    <3> QED
      BY <3>1, <2>2 DEF Position
  <2> QED
    BY <2>1, <2>2
<1>3. CASE i <= b
  <2>1. b - 1 \in 0 .. Len(c)
    BY <1>1, <1>3
  <2>2. \A j \in 1 .. Len(c) : c[j].key < k <=> j <= b - 1
    BY <1>1, <1>2, <1>3
  <2> QED
    BY <2>1, <2>2, <1>3 DEF Position
<1>4. CASE ~(i <= b)
  <2>1. b \in 0 .. Len(c)
    BY <1>1, <1>4
  <2>2. \A j \in 1 .. Len(c) : c[j].key < k <=> j <= b
    BY <1>1, <1>2, <1>4
  <2> QED
    BY <2>1, <2>2, <1>4 DEF Position
<1> QED
  BY <1>3, <1>4

--------------------------------------------------------------------------------
\* What a step of a deletion leaves behind.

\* The nodes are within their bounds, but p may have no cells.
Near(d, r, T, t, p) ==
  \A q \in T : /\ Len(d[q].cells) <= 2 * t - 1
               /\ q # r => Len(d[q].cells) >= t - 1
               /\ q # p /\ ~d[q].leaf => Len(d[q].cells) >= 1

\* A full child is split: the tree has one page more, and its ranges are those of the child in
\* two parts.
SplitKeeps(d, d2, r, T, Y, p, i, a, z, t) ==
  /\ Sound(d2, r, T \cup {z}, Y) /\ Sizes(d2, r, T \cup {z}, t)
  /\ \A H : Heads(d, T, H) => Heads(d2, T \cup {z}, H)
  /\ d2[p].cells[i].key \in Nat /\ d2[p].kids[i] = a /\ d2[p].kids[i + 1] = z
  /\ Len(d2[a].cells) = t - 1 /\ Len(d2[z].cells) = t - 1
  /\ Len(d2[p].cells) = Len(d[p].cells) + 1
  /\ \A R : OrderedBy(d, T, R) =>
       OrderedBy(d2, T \cup {z}, RangesParted(R, T, a, z, d2[p].cells[i].key))

\* A split keeps the tree sound and its sizes.
LEMMA SplitKept ==
  ASSUME NEW d, NEW d2, NEW r, NEW T, NEW Y, NEW p \in T, NEW a \in T, NEW z \in DataPages, NEW i, NEW t \in Nat,
         t >= 2, Sound(d, r, T, Y), Near(d, r, T, t, p), z \notin T,
         d[p].leaf = FALSE, i \in 1 .. Len(d[p].kids), d[p].kids[i] = a, Len(d[p].cells) < 2 * t - 1,
         Len(d[a].cells) = 2 * t - 1, SplitOf(d, d2, T, p, i, a, z, t)
  PROVE  SplitKeeps(d, d2, r, T, Y, p, i, a, z, t)
<1>1. Nodes(d, T)
  BY DEF Sound
<1>2. a # p /\ a # r
  <2>1. Children(d, r, T, p)
    BY KidsOf
  <2> QED
    BY <2>1 DEF Children
<1>3. /\ Nodes(d2, T \cup {z}) /\ Parted(d, d2, T, p, i, a, z, t - 1)
      /\ Len(d2[a].cells) = t - 1 /\ Len(d2[z].cells) = t - 1
      /\ Len(d2[p].cells) = Len(d[p].cells) + 1
  <2>1. t >= 1
    OBVIOUS
  <2>2. SplitShape(d, d2, T, p, i, a, z, t)
    BY <1>1, <1>2, <2>1, SplitParts
  <2> QED
    BY <2>2 DEF SplitShape
<1>4. Sound(d2, r, T \cup {z}, Y)
  BY <1>3, PartedSound
<1>5. ASSUME NEW H, Heads(d, T, H) PROVE Heads(d2, T \cup {z}, H)
  BY <1>1, <1>3, <1>5, PartedHeads
<1>6. PartedSeqs(d, d2, T, p, i, a, z, t - 1)
  BY <1>1, <1>3, PartedSeqsHold
<1>7. /\ d2[p].kids[i] = a /\ d2[p].kids[i + 1] = z /\ d2[p].cells[i] = d[a].cells[(t - 1) + 1]
      /\ i \in 1 .. Len(d2[p].cells) /\ Len(d2[p].cells) \in Nat /\ Len(d[p].cells) \in Nat
  BY <1>6 DEF PartedSeqs
<1>8. d2[p].cells[i].key \in Nat
  BY <1>3, <1>7, NodeKeys
<1>9. ASSUME NEW R, OrderedBy(d, T, R)
      PROVE  OrderedBy(d2, T \cup {z}, RangesParted(R, T, a, z, d2[p].cells[i].key))
  <2>1. OrderedBy(d2, T \cup {z}, RangesParted(R, T, a, z, d[a].cells[(t - 1) + 1].key))
    BY <1>1, <1>3, <1>9, PartedOrdered
  <2> QED
    BY <2>1, <1>7
<1>10. \A q \in T \ {p, a} : d2[q] = d[q]
  BY DEF SplitOf
<1>11. Sizes(d2, r, T \cup {z}, t)
  <2> SUFFICES ASSUME NEW q \in T \cup {z}
               PROVE  /\ Len(d2[q].cells) <= 2 * t - 1
                      /\ q # r => Len(d2[q].cells) >= t - 1
                      /\ ~d2[q].leaf => Len(d2[q].cells) >= 1
    BY DEF Sizes
  <2>1. CASE q = z \/ q = a
    BY <2>1, <1>3
  <2>2. CASE q = p
    <3>1. p # r => Len(d[p].cells) >= t - 1
      BY DEF Near
    <3> QED
      BY <2>2, <3>1, <1>3, <1>7
  <2>3. CASE q \in T \ {p, a}
    BY <2>3, <1>10 DEF Near
  <2> QED
    BY <2>1, <2>2, <2>3
<1> QED
  BY <1>3, <1>4, <1>5, <1>7, <1>8, <1>9, <1>11 DEF SplitKeeps

\* What a step of a deletion leaves behind: a tree in which the child to enter, the one that
\* the position of k names, has a cell to spare.
Ensured(d, d2, r, T, T2, Y, t, p, k) ==
  /\ T2 \subseteq T /\ p \in T2 /\ Sound(d2, r, T2, Y) /\ Near(d2, r, T2, t, p)
  /\ p # r => Len(d2[p].cells) >= 1
  /\ d2[p].leaf = FALSE
  /\ \A H : Heads(d, T, H) => Heads(d2, T2, H)
  /\ \E b : /\ Position(d2[p].cells, k, b) /\ b + 1 \in 1 .. Len(d2[p].kids)
            /\ Len(d2[d2[p].kids[b + 1]].cells) > t - 1

\* The situation before it: b is the position of k in the inner node p.
Entering(d, r, T, Y, t, p, k, b) ==
  /\ t \in Nat /\ t >= 2 /\ k \in Nat
  /\ p \in T /\ d[p].leaf = FALSE /\ Sound(d, r, T, Y) /\ Sizes(d, r, T, t)
  /\ p # r => Len(d[p].cells) > t - 1
  /\ Position(d[p].cells, k, b)

\* Nothing to do.
LEMMA StayEnsured ==
  ASSUME NEW d, NEW r, NEW T, NEW Y, NEW t, NEW p, NEW k, NEW b, Entering(d, r, T, Y, t, p, k, b),
         Len(d[d[p].kids[b + 1]].cells) >= t
  PROVE  Ensured(d, d, r, T, T, Y, t, p, k)
<1> USE DEF Entering
<1>1. Children(d, r, T, p)
  BY KidsOf
<1>2. b + 1 \in 1 .. Len(d[p].kids) /\ Len(d[p].cells) \in Nat
  BY <1>1 DEF Children, Position
<1>3. Len(d[d[p].kids[b + 1]].cells) \in Nat
  <2>1. d[p].kids[b + 1] \in T
    BY <1>1, <1>2 DEF Children
  <2> QED
    BY <2>1, NodeLens DEF Sound
<1>4. Len(d[d[p].kids[b + 1]].cells) > t - 1
  BY <1>3
<1>5. Near(d, r, T, t, p)
  BY DEF Near, Sizes
<1>6. Len(d[p].cells) >= 1
  BY DEF Sizes
<1> QED
  BY <1>2, <1>4, <1>5, <1>6 DEF Ensured

\* What is common to the rotations: the cell that separates two children of p changes for one
\* on the same side of k, and the sizes stay within their bounds.
LEMMA RotatedEnsured ==
  ASSUME NEW d, NEW d2, NEW r, NEW T, NEW Y, NEW t, NEW p, NEW k, NEW b, Entering(d, r, T, Y, t, p, k, b),
         NEW i \in 1 .. Len(d[p].cells), NEW a, NEW z, a = d[p].kids[i], z = d[p].kids[i + 1],
         NEW n, Regrouped(d, d2, T, p, i, a, z, n), NEW x \in CellSet,
         d2[p] = Node(FALSE, ReplaceAt(d[p].cells, i, x), d[p].kids),
         x.key < k <=> i <= b,
         Len(d2[a].cells) \in t - 1 .. 2 * t - 1, Len(d2[z].cells) \in t - 1 .. 2 * t - 1,
         Len(d2[d[p].kids[b + 1]].cells) > t - 1
  PROVE  Ensured(d, d2, r, T, T, Y, t, p, k)
<1> USE DEF Entering
<1>1. Children(d, r, T, p)
  BY KidsOf
<1>2. /\ b + 1 \in 1 .. Len(d[p].kids) /\ Len(d[p].cells) \in Nat
      /\ i \in 1 .. Len(d[p].kids) /\ i + 1 \in 1 .. Len(d[p].kids)
  <2>1. Len(d[p].cells) \in Nat /\ Len(d[p].kids) = Len(d[p].cells) + 1
    BY <1>1 DEF Children
  <2>2. b \in 0 .. Len(d[p].cells)
    BY DEF Position
  <2> HIDE DEF Entering
  <2> QED
    BY <2>1, <2>2
<1>3. Siblings(d, T, p, i, a, z) /\ a \in T \ {p, r} /\ z \in T \ {p, r}
  BY SiblingsAre
<1>4. /\ Sound(d2, r, T, Y) /\ Len(d2[p].cells) = Len(d[p].cells) /\ d2[p].kids = d[p].kids
      /\ d2[p].leaf = FALSE
      /\ \A H : Heads(d, T, H) => Heads(d2, T, H)
  <2>1. Sound(d, r, T, Y)
    OBVIOUS
  <2>2. RegroupKeeps(d, d2, r, T, Y, p)
    BY <1>3, <2>1, RegroupedSound
  <2> QED
    BY <2>2 DEF RegroupKeeps
<1>5. Nodes(d, T)
  BY DEF Sound
<1>6. d[p].cells \in Seq(CellSet)
  BY <1>5 DEF Nodes, NodeIn
<1>7. Position(d2[p].cells, k, b)
  <2>1. d2[p].cells = ReplaceAt(d[p].cells, i, x)
    <3>1. Holds(d2, p, FALSE, ReplaceAt(d[p].cells, i, x), d[p].kids)
      BY AtNode
    <3> QED
      BY <3>1 DEF Holds
  <2>2. Position(ReplaceAt(d[p].cells, i, x), k, b)
    BY <1>6, ReplacedPosition
  <2> QED
    BY <2>1, <2>2
<1>8. \A q \in T \ {p, a, z} : d2[q] = d[q]
  BY DEF Regrouped
<1>9. Near(d2, r, T, t, p)
  <2> SUFFICES ASSUME NEW q \in T
               PROVE  /\ Len(d2[q].cells) <= 2 * t - 1
                      /\ q # r => Len(d2[q].cells) >= t - 1
                      /\ q # p /\ ~d2[q].leaf => Len(d2[q].cells) >= 1
    BY DEF Near
  <2>1. CASE q = p
    <3>1. Len(d[p].cells) <= 2 * t - 1 /\ (p # r => Len(d[p].cells) >= t - 1)
      BY DEF Sizes
    <3> QED
      BY <2>1, <3>1, <1>4
  <2>2. CASE q = a \/ q = z
    <3>1. Len(d2[q].cells) \in t - 1 .. 2 * t - 1
      BY <2>2
    <3> QED
      BY <3>1
  <2>3. CASE q \notin {p, a, z}
    BY <2>3, <1>8 DEF Sizes
  <2> QED
    BY <2>1, <2>2, <2>3
<1>10. p # r => Len(d2[p].cells) >= 1
  <2>1. Len(d[p].cells) >= 1
    BY DEF Sizes
  <2> QED
    BY <2>1, <1>4
<1>11. \E m : /\ Position(d2[p].cells, k, m) /\ m + 1 \in 1 .. Len(d2[p].kids)
              /\ Len(d2[d2[p].kids[m + 1]].cells) > t - 1
  BY <1>2, <1>4, <1>7
<1> QED
  BY <1>4, <1>9, <1>10, <1>11 DEF Ensured

\* The children of a node are within the bounds of its cells, in the order of keys.
LEMMA KidKeys ==
  ASSUME NEW d, NEW r, NEW T, NEW Y, Sound(d, r, T, Y), NEW p \in T, d[p].leaf = FALSE,
         NEW n \in 1 .. Len(d[p].kids), NEW c \in Members(d[d[p].kids[n]].cells), NEW j \in 1 .. Len(d[p].cells)
  PROVE  /\ c \in CellSet /\ c.key \in Nat /\ d[p].cells[j].key \in Nat
         /\ n <= j => c.key <= d[p].cells[j].key
         /\ j < n => d[p].cells[j].key <= c.key
<1>1. Nodes(d, T)
  BY DEF Sound
<1>2. PICK R : OrderedBy(d, T, R)
  BY DEF Sound, Orderly
<1>3. d[p].kids[n] \in T
  BY <1>1, NodeLens
<1>4. PICK m \in 1 .. Len(d[d[p].kids[n]].cells) : c = d[d[p].kids[n]].cells[m]
  BY DEF Members
<1>5. c.key \in R[d[p].kids[n]]
  BY <1>1, <1>2, <1>3, <1>4, NodeOrder
<1>6. Between(d[p].cells, d[p].kids, R)
  BY <1>1, <1>2, NodeOrder
<1>7. c \in CellSet
  BY <1>1, <1>3, <1>4, NodeLens
<1>8. c.key \in Nat /\ d[p].cells[j].key \in Nat
  BY <1>1, <1>7, CellFields, NodeKeys
<1> QED
  BY <1>5, <1>6, <1>7, <1>8 DEF Between

\* What is known of two neighbours below p.
Neighbours(d, r, T, t, p, i, a, z) ==
  /\ Nodes(d, T) /\ Siblings(d, T, p, i, a, z) /\ a \in T \ {p, r} /\ z \in T \ {p, r} /\ a # z
  /\ Len(d[a].cells) \in t - 1 .. 2 * t - 1 /\ Len(d[z].cells) \in t - 1 .. 2 * t - 1
  /\ d[a].cells \in Seq(CellSet) /\ d[z].cells \in Seq(CellSet)

\* The siblings around a cell, with their sizes.
LEMMA NeighboursAre ==
  ASSUME NEW d, NEW r, NEW T, NEW Y, NEW t \in Nat, t >= 2, Sound(d, r, T, Y), Sizes(d, r, T, t),
         NEW p \in T, d[p].leaf = FALSE, NEW i \in 1 .. Len(d[p].cells),
         NEW a, NEW z, a = d[p].kids[i], z = d[p].kids[i + 1]
  PROVE  Neighbours(d, r, T, t, p, i, a, z)
<1>1. Nodes(d, T)
  BY DEF Sound
<1>2. Siblings(d, T, p, i, a, z) /\ a \in T \ {p, r} /\ z \in T \ {p, r}
  BY SiblingsAre
<1>9. a # z
  BY <1>2 DEF Siblings
<1>3. SiblingSeqs(d, T, p, i, a, z)
  BY <1>1, <1>2, SiblingSeqsHold
<1>4. d[a].cells \in Seq(CellSet) /\ d[z].cells \in Seq(CellSet)
  BY <1>3 DEF SiblingSeqs
<1>5. Len(d[a].cells) \in Nat /\ Len(d[z].cells) \in Nat
  BY <1>1, <1>2, NodeLens
<1>6. /\ Len(d[a].cells) <= 2 * t - 1 /\ Len(d[a].cells) >= t - 1
      /\ Len(d[z].cells) <= 2 * t - 1 /\ Len(d[z].cells) >= t - 1
  BY <1>2 DEF Sizes
<1>7. Len(d[a].cells) \in t - 1 .. 2 * t - 1 /\ Len(d[z].cells) \in t - 1 .. 2 * t - 1
  BY <1>5, <1>6
<1> QED
  BY <1>1, <1>2, <1>4, <1>7, <1>9 DEF Neighbours

\* The left neighbour has a cell to spare, and gives its last one.
LEMMA BorrowedLeft ==
  ASSUME NEW d, NEW d2, NEW r, NEW T, NEW Y, NEW t, NEW p, NEW k, NEW b, Entering(d, r, T, Y, t, p, k, b),
         b >= 1, RightOf(d, d2, T, p, b, d[p].kids[b], d[p].kids[b + 1]),
         Len(d[d[p].kids[b]].cells) > t - 1, Len(d[d[p].kids[b + 1]].cells) < t
  PROVE  Ensured(d, d2, r, T, T, Y, t, p, k)
<1> DEFINE a == d[p].kids[b]
           z == d[p].kids[b + 1]
<1>1. /\ t \in Nat /\ t >= 2 /\ k \in Nat /\ p \in T /\ d[p].leaf = FALSE
      /\ Sound(d, r, T, Y) /\ Sizes(d, r, T, t) /\ Position(d[p].cells, k, b)
  BY DEF Entering
<1>2. b \in 1 .. Len(d[p].cells) /\ Len(d[p].cells) \in Nat /\ Len(d[p].kids) = Len(d[p].cells) + 1
  <2>1. Children(d, r, T, p)
    BY <1>1, KidsOf
  <2>2. Len(d[p].cells) \in Nat /\ Len(d[p].kids) = Len(d[p].cells) + 1
    BY <2>1 DEF Children
  <2>3. b \in 0 .. Len(d[p].cells)
    BY <1>1 DEF Position
  <2> QED
    BY <2>2, <2>3
<1>3. Neighbours(d, r, T, t, p, b, a, z)
  BY <1>1, <1>2, NeighboursAre
<1>4. Len(d[a].cells) > t - 1 /\ Len(d[z].cells) < t
  OBVIOUS
<1>5. RightOf(d, d2, T, p, b, a, z)
  OBVIOUS
<1>6. a = d[p].kids[b] /\ z = d[p].kids[b + 1]
  OBVIOUS
<1> HIDE DEF a, z
<1>7. Nodes(d, T) /\ Siblings(d, T, p, b, a, z) /\ d[a].cells \in Seq(CellSet)
  BY <1>3 DEF Neighbours
<1>8. /\ Len(d[a].cells) \in Nat /\ Len(d[z].cells) \in Nat
      /\ Len(d[a].cells) <= 2 * t - 1 /\ Len(d[a].cells) >= 1
      /\ Len(d[z].cells) >= t - 1
  BY <1>1, <1>3, <1>4 DEF Neighbours
<1>9. RightShape(d, d2, T, p, b, a, z)
  BY <1>5, <1>7, <1>8, RightRegroups
<1>10. Regrouped(d, d2, T, p, b, a, z, Len(d[a].cells) - 1)
  BY <1>9 DEF RightShape
<1>11. Len(d2[a].cells) = Len(d[a].cells) - 1 /\ Len(d2[z].cells) = Len(d[z].cells) + 1
  BY <1>9 DEF RightShape
<1>12. /\ Len(d2[a].cells) \in t - 1 .. 2 * t - 1 /\ Len(d2[z].cells) \in t - 1 .. 2 * t - 1
       /\ Len(d2[z].cells) > t - 1
  BY <1>1, <1>4, <1>8, <1>11
<1> DEFINE x == Last(d[a].cells)
<1>13. x \in Members(d[a].cells)
  BY <1>8 DEF Members, Last
<1>14. d2[p] = Node(FALSE, ReplaceAt(d[p].cells, b, x), d[p].kids)
  BY <1>5 DEF RightOf
<1> HIDE DEF x
<1>15. b \in 1 .. Len(d[p].kids) /\ b <= b
  BY <1>2
<1>16. x \in CellSet /\ x.key \in Nat /\ d[p].cells[b].key \in Nat /\ x.key <= d[p].cells[b].key
  BY <1>1, <1>2, <1>6, <1>13, <1>15, KidKeys
<1>17. d[p].cells[b].key < k
  BY <1>1, <1>2 DEF Position
<1>18. x.key < k <=> b <= b
  BY <1>1, <1>15, <1>16, <1>17
<1>19. Len(d2[d[p].kids[b + 1]].cells) > t - 1
  BY <1>6, <1>12
<1> QED
  BY <1>2, <1>6, <1>10, <1>12, <1>14, <1>16, <1>18, <1>19, RotatedEnsured

\* The right neighbour has a cell to spare, and gives its first one.
LEMMA BorrowedRight ==
  ASSUME NEW d, NEW d2, NEW r, NEW T, NEW Y, NEW t, NEW p, NEW k, NEW b, Entering(d, r, T, Y, t, p, k, b),
         b < Len(d[p].cells), LeftOf(d, d2, T, p, b + 1, d[p].kids[b + 1], d[p].kids[(b + 1) + 1]),
         Len(d[d[p].kids[(b + 1) + 1]].cells) > t - 1, Len(d[d[p].kids[b + 1]].cells) < t
  PROVE  Ensured(d, d2, r, T, T, Y, t, p, k)
<1> DEFINE i == b + 1
           a == d[p].kids[i]
           z == d[p].kids[i + 1]
<1>1. /\ t \in Nat /\ t >= 2 /\ k \in Nat /\ p \in T /\ d[p].leaf = FALSE
      /\ Sound(d, r, T, Y) /\ Sizes(d, r, T, t) /\ Position(d[p].cells, k, b)
  BY DEF Entering
<1>2. /\ i \in 1 .. Len(d[p].cells) /\ Len(d[p].cells) \in Nat /\ Len(d[p].kids) = Len(d[p].cells) + 1
      /\ b \in Nat
  <2>1. Children(d, r, T, p)
    BY <1>1, KidsOf
  <2>2. Len(d[p].cells) \in Nat /\ Len(d[p].kids) = Len(d[p].cells) + 1
    BY <2>1 DEF Children
  <2>3. b \in 0 .. Len(d[p].cells)
    BY <1>1 DEF Position
  <2> QED
    BY <2>2, <2>3
<1>3. Neighbours(d, r, T, t, p, i, a, z)
  <2> HIDE DEF i
  <2> QED
    BY <1>1, <1>2, NeighboursAre
<1>4. Len(d[z].cells) > t - 1 /\ Len(d[a].cells) < t
  OBVIOUS
<1>5. LeftOf(d, d2, T, p, i, a, z)
  OBVIOUS
<1>6. a = d[p].kids[i] /\ z = d[p].kids[i + 1] /\ i = b + 1
  OBVIOUS
<1> HIDE DEF a, z, i
<1>7. Nodes(d, T) /\ Siblings(d, T, p, i, a, z) /\ d[z].cells \in Seq(CellSet)
  BY <1>3 DEF Neighbours
<1>8. /\ Len(d[a].cells) \in Nat /\ Len(d[z].cells) \in Nat
      /\ Len(d[z].cells) <= 2 * t - 1 /\ Len(d[z].cells) >= 1
      /\ Len(d[a].cells) >= t - 1
  BY <1>1, <1>3, <1>4 DEF Neighbours
<1>9. LeftShape(d, d2, T, p, i, a, z)
  BY <1>5, <1>7, <1>8, LeftRegroups
<1>10. Regrouped(d, d2, T, p, i, a, z, Len(d[a].cells) + 1)
  BY <1>9 DEF LeftShape
<1>11. Len(d2[a].cells) = Len(d[a].cells) + 1 /\ Len(d2[z].cells) = Len(d[z].cells) - 1
  BY <1>9 DEF LeftShape
<1>12. /\ Len(d2[a].cells) \in t - 1 .. 2 * t - 1 /\ Len(d2[z].cells) \in t - 1 .. 2 * t - 1
       /\ Len(d2[a].cells) > t - 1
  BY <1>1, <1>4, <1>8, <1>11
<1> DEFINE x == Head(d[z].cells)
<1>13. x \in Members(d[z].cells)
  BY <1>7, <1>8 DEF Members
<1>14. d2[p] = Node(FALSE, ReplaceAt(d[p].cells, i, x), d[p].kids)
  BY <1>5 DEF LeftOf
<1> HIDE DEF x
<1>15. i + 1 \in 1 .. Len(d[p].kids) /\ i < i + 1
  BY <1>2
<1>16. x \in CellSet /\ x.key \in Nat /\ d[p].cells[i].key \in Nat /\ d[p].cells[i].key <= x.key
  BY <1>1, <1>2, <1>6, <1>13, <1>15, KidKeys
<1>17. ~(d[p].cells[i].key < k)
  <2>1. d[p].cells[i].key < k <=> i <= b
    BY <1>1, <1>2 DEF Position
  <2>2. ~(i <= b)
    BY <1>2, <1>6
  <2> QED
    BY <2>1, <2>2
<1>18. x.key < k <=> i <= b
  <2>1. ~(i <= b)
    BY <1>2, <1>6
  <2>2. PICK u, v : u = x.key /\ v = d[p].cells[i].key
    OBVIOUS
  <2>3. u \in Nat /\ v \in Nat /\ v <= u /\ ~(v < k) /\ k \in Nat
    BY <1>1, <1>16, <1>17, <2>2
  <2>4. ~(u < k)
    BY <2>3
  <2> QED
    BY <2>1, <2>2, <2>4
<1>19. Len(d2[d[p].kids[b + 1]].cells) > t - 1
  BY <1>6, <1>12
<1> QED
  BY <1>2, <1>6, <1>10, <1>12, <1>14, <1>16, <1>18, <1>19, RotatedEnsured

\* A merge of two neighbours with the smallest number of cells.
MergeSizes(d, d2, r, T, t, p, i, a, z) ==
  /\ Len(d2[a].cells) = 2 * t - 1 /\ Len(d2[p].cells) = Len(d[p].cells) - 1
  /\ Near(d2, r, T \ {z}, t, p)
  /\ p # r => Len(d2[p].cells) >= 1
  /\ a \in T \ {z} /\ p \in T \ {z}
  /\ i \in 1 .. Len(d2[p].kids) /\ d2[p].kids[i] = a

\* Two children with t - 1 cells become one with 2t - 1, and their parent has a cell less.
LEMMA MergedSizes ==
  ASSUME NEW d, NEW d2, NEW r, NEW T, NEW Y, NEW t \in Nat, t >= 2, Sound(d, r, T, Y), Sizes(d, r, T, t),
         NEW p \in T, d[p].leaf = FALSE, p # r => Len(d[p].cells) > t - 1,
         NEW i \in 1 .. Len(d[p].cells),
         NEW a, NEW z, a = d[p].kids[i], z = d[p].kids[i + 1], MergeOf(d, d2, T, p, i, a, z),
         Len(d[a].cells) <= t - 1, Len(d[z].cells) <= t - 1
  PROVE  MergeSizes(d, d2, r, T, t, p, i, a, z)
<1>1. Neighbours(d, r, T, t, p, i, a, z)
  BY NeighboursAre
<1>2. Nodes(d, T) /\ Siblings(d, T, p, i, a, z) /\ a \in T \ {p, r} /\ z \in T \ {p, r} /\ a # z
  BY <1>1 DEF Neighbours
<1>3. Len(d[a].cells) = t - 1 /\ Len(d[z].cells) = t - 1
  BY <1>1 DEF Neighbours
<1>4. MergeShape(d, d2, T, p, i, a, z)
  BY <1>2, MergeParts
<1>5. Len(d2[a].cells) = Len(d[a].cells) + 1 + Len(d[z].cells) /\ Len(d2[p].cells) = Len(d[p].cells) - 1
  BY <1>4 DEF MergeShape
<1>6. Parted(d2, d, T \ {z}, p, i, a, z, Len(d[a].cells))
  BY <1>4 DEF MergeShape
<1>7. i \in 1 .. Len(d2[p].kids) /\ d2[p].kids[i] = a
  BY <1>6 DEF Parted
<1>8. Len(d2[a].cells) = 2 * t - 1
  BY <1>3, <1>5
<1>9. Len(d[p].cells) \in Nat
  BY <1>2, NodeLens
<1>10. p # r => Len(d2[p].cells) >= 1 /\ Len(d2[p].cells) >= t - 1
  BY <1>5, <1>9
<1>11. Len(d2[p].cells) <= 2 * t - 1
  <2>1. Len(d[p].cells) <= 2 * t - 1
    BY DEF Sizes
  <2> QED
    BY <2>1, <1>5, <1>9
<1>12. \A q \in T \ {p, a, z} : d2[q] = d[q]
  BY DEF MergeOf
<1>13. Near(d2, r, T \ {z}, t, p)
  <2> SUFFICES ASSUME NEW q \in T \ {z}
               PROVE  /\ Len(d2[q].cells) <= 2 * t - 1
                      /\ q # r => Len(d2[q].cells) >= t - 1
                      /\ q # p /\ ~d2[q].leaf => Len(d2[q].cells) >= 1
    BY DEF Near
  <2>1. CASE q = p
    BY <2>1, <1>10, <1>11
  <2>2. CASE q = a
    BY <2>2, <1>8
  <2>3. CASE q \notin {p, a, z}
    BY <2>3, <1>12 DEF Sizes
  <2> QED
    BY <2>1, <2>2, <2>3
<1> QED
  BY <1>2, <1>5, <1>7, <1>8, <1>10, <1>13 DEF MergeSizes

\* Neither neighbour has a cell to spare: the child to enter becomes one node with a neighbour.
LEMMA MergeEnsured ==
  ASSUME NEW d, NEW d2, NEW r, NEW T, NEW Y, NEW t, NEW p, NEW k, NEW b, Entering(d, r, T, Y, t, p, k, b),
         NEW i \in 1 .. Len(d[p].cells), i = b \/ (b = 0 /\ i = 1),
         NEW a, NEW z, a = d[p].kids[i], z = d[p].kids[i + 1], MergeOf(d, d2, T, p, i, a, z),
         Len(d[a].cells) <= t - 1, Len(d[z].cells) <= t - 1
  PROVE  Ensured(d, d2, r, T, T \ {z}, Y, t, p, k)
<1>1. /\ t \in Nat /\ t >= 2 /\ k \in Nat /\ p \in T /\ d[p].leaf = FALSE
      /\ Sound(d, r, T, Y) /\ Sizes(d, r, T, t) /\ Position(d[p].cells, k, b)
      /\ p # r => Len(d[p].cells) > t - 1
  BY DEF Entering
<1>2. MergeSizes(d, d2, r, T, t, p, i, a, z)
  BY <1>1, MergedSizes
<1>3. Siblings(d, T, p, i, a, z)
  BY <1>1, SiblingsAre
<1>4. Nodes(d, T)
  BY <1>1 DEF Sound
<1>5. MergeKeeps(d, d2, r, T, Y, p, z)
  BY <1>1, <1>3, MergedSound
<1>6. MergeShape(d, d2, T, p, i, a, z)
  BY <1>3, <1>4, MergeParts
<1>7. Parted(d2, d, T \ {z}, p, i, a, z, Len(d[a].cells))
  BY <1>6 DEF MergeShape
<1>8. Inserted(d2[p].cells, d[p].cells, i, d2[a].cells[Len(d[a].cells) + 1])
  BY <1>7 DEF Parted
<1>9. Len(d2[p].cells) \in Nat
  <2>1. Nodes(d2, T \ {z}) /\ p \in T \ {z}
    BY <1>2, <1>6 DEF MergeShape, MergeSizes
  <2> QED
    BY <2>1, NodeLens
<1> DEFINE m == IF i <= b THEN b - 1 ELSE b
<1>10. Position(d2[p].cells, k, m)
  BY <1>1, <1>8, <1>9, RemovedPosition
<1>11. m + 1 = i
  <2>1. b \in Int /\ i \in Int
    BY <1>1 DEF Position
  <2> QED
    BY <2>1
<1> HIDE DEF m
<1>12. m + 1 \in 1 .. Len(d2[p].kids) /\ d2[p].kids[m + 1] = a /\ Len(d2[a].cells) = 2 * t - 1
  BY <1>2, <1>11 DEF MergeSizes
<1>13. Len(d2[d2[p].kids[m + 1]].cells) > t - 1
  BY <1>1, <1>12
<1>14. \E j : /\ Position(d2[p].cells, k, j) /\ j + 1 \in 1 .. Len(d2[p].kids)
              /\ Len(d2[d2[p].kids[j + 1]].cells) > t - 1
  BY <1>10, <1>12, <1>13
<1>15. /\ p \in T \ {z} /\ Near(d2, r, T \ {z}, t, p)
       /\ p # r => Len(d2[p].cells) >= 1
  BY <1>2 DEF MergeSizes
<1>16. /\ Sound(d2, r, T \ {z}, Y) /\ d2[p].leaf = FALSE
       /\ \A H : Heads(d, T, H) => Heads(d2, T \ {z}, H)
  BY <1>5 DEF MergeKeeps
<1>17. T \ {z} \subseteq T
  OBVIOUS
<1> QED
  BY <1>14, <1>15, <1>16, <1>17 DEF Ensured

--------------------------------------------------------------------------------
\* The pages of the file: writing, freeing and allocating.

\* The records of the pager: they have its fields, and a disk has its pages.
IsStore(s) ==
  /\ {"hdr", "size", "disk", "count", "free"} \subseteq DOMAIN s
  /\ {"magic", "order", "count", "root", "free"} \subseteq DOMAIN s.hdr
  /\ PageNums \subseteq DOMAIN s.disk

\* Only the page p changes, to c.
Wrote(s, s2, p, c) ==
  /\ IsStore(s2) /\ s2.hdr = s.hdr /\ s2.size = s.size /\ s2.count = s.count /\ s2.free = s.free
  /\ s2.disk[p] = c /\ \A q \in PageNums \ {p} : s2.disk[q] = s.disk[q]

\* Writing a page.
LEMMA Written ==
  ASSUME NEW s, IsStore(s), NEW p \in PageNums, NEW c
  PROVE  Wrote(s, PagerWritePage(s, p, c), p, c)
<1> DEFINE s2 == PagerWritePage(s, p, c)
<1>1. /\ s2.hdr = s.hdr /\ s2.size = s.size /\ s2.count = s.count /\ s2.free = s.free
      /\ DOMAIN s2 = DOMAIN s
      /\ s2.disk = [s.disk EXCEPT ![p] = c]
  BY DEF PagerWritePage, IsStore
<1>2. /\ s2.disk[p] = c /\ DOMAIN s2.disk = DOMAIN s.disk
      /\ \A q \in PageNums \ {p} : s2.disk[q] = s.disk[q]
  BY <1>1 DEF IsStore
<1> QED
  BY <1>1, <1>2 DEF IsStore, Wrote

\* Two pages written one after the other.
FreedTo(s, s2, p) ==
  /\ IsStore(s2) /\ s2.hdr = s.hdr /\ s2.size = s.size /\ s2.count = s.count /\ s2.free = p
  /\ s2.disk[p].word = s.free /\ \A q \in DataPages \ {p} : s2.disk[q] = s.disk[q]

\* Freeing a page.
LEMMA Freed ==
  ASSUME NEW s, IsStore(s), NEW p \in DataPages
  PROVE  FreedTo(s, PagerFree(s, p), p)
<1> DEFINE e == [s.disk EXCEPT ![p] = FreePage(s.free), ![1] = FreePage(p)]
           s2 == [s EXCEPT !.free = p, !.disk = e]
<1>0. p # 0 /\ p # 1 /\ p \in PageNums /\ 1 \in PageNums /\ DataPages \subseteq PageNums /\ 1 \notin DataPages
  BY PageStoreAssumption DEF DataPages, PageNums
<1>2. e[p] = FreePage(s.free) /\ (\A q \in DataPages \ {p} : e[q] = s.disk[q]) /\ DOMAIN e = DOMAIN s.disk
  BY <1>0 DEF IsStore
<1>4. PagerFree(s, p) = s2
  BY <1>0 DEF PagerFree
<1> HIDE DEF e
<1>5. /\ s2.hdr = s.hdr /\ s2.size = s.size /\ s2.disk = e /\ s2.count = s.count /\ s2.free = p
      /\ DOMAIN s2 = DOMAIN s
  BY DEF IsStore
<1> HIDE DEF s2
<1>8. IsStore(s2)
  BY <1>2, <1>5 DEF IsStore
<1>9. s2.disk[p].word = s.free
  BY <1>2, <1>5 DEF FreePage
<1> QED
  BY <1>2, <1>4, <1>5, <1>8, <1>9 DEF FreedTo

\* A page from the head of the free list.
Popped(s, s2, z) ==
  /\ IsStore(s2) /\ z = s.free /\ z # 0 /\ s2.free = s.disk[z].word
  /\ s2.hdr = s.hdr /\ s2.size = s.size /\ s2.count = s.count
  /\ \A q \in DataPages : s2.disk[q] = s.disk[q]

\* A page at the end of the file.
Extended(s, s2, z) ==
  /\ IsStore(s2) /\ s.free = 0 /\ z = s.count /\ z < MaxPages /\ s2.free = s.free
  /\ s2.size = Larger(s.size, s.count + 1) /\ s2.count = s.count + 1
  /\ s2.hdr = [s.hdr EXCEPT !.count = s.count + 1]
  /\ \A q \in DataPages \ {z} : s2.disk[q] = s.disk[q]

\* No page: the file may have grown by one that nobody counts.
NoPage(s, s2) ==
  /\ IsStore(s2) /\ s2.hdr = s.hdr /\ s2.disk = s.disk /\ s2.count = s.count /\ s2.free = s.free
  /\ s2.size = s.size \/ (s2.size = Larger(s.size, s.count + 1) /\ s.count < MaxPages)

Answers(s, r) ==
  \/ r.page = 0 /\ NoPage(s, r.store)
  \/ Popped(s, r.store, r.page)
  \/ r.page # 0 /\ Extended(s, r.store, r.page)

\* What pager_allocate answers.
LEMMA Allocated ==
  ASSUME NEW s, IsStore(s), s.free \in DataPages \cup {0}, s.count \in Nat, s.count >= 2, NEW room
  PROVE  Answers(s, PagerAllocate(s, room))
<1>0. 1 \in PageNums /\ 1 \notin DataPages /\ DataPages \subseteq PageNums
  BY PageStoreAssumption DEF DataPages, PageNums
<1> DEFINE n == s.disk[s.free].word
           g == Larger(s.size, s.count + 1)
           r == PagerAllocate(s, room)
<1>4. CASE s.free # 0 /\ ~PagerReadable(s, s.free)
  <2>1. r = [store |-> s, page |-> 0]
    BY <1>4 DEF PagerAllocate
  <2>2. r.store = s /\ r.page = 0
    BY <2>1
  <2> HIDE DEF r
  <2> QED
    BY <2>2 DEF Answers, NoPage, r
<1>5. CASE s.free # 0 /\ PagerReadable(s, s.free)
  <2> DEFINE e == [s.disk EXCEPT ![1] = FreePage(n)]
             s2 == [s EXCEPT !.free = n, !.disk = e]
  <2>1. r = [store |-> s2, page |-> s.free]
    BY <1>5 DEF PagerAllocate
  <2>2. (\A q \in DataPages : e[q] = s.disk[q]) /\ DOMAIN e = DOMAIN s.disk
    BY <1>0 DEF IsStore
  <2> HIDE DEF e, n
  <2>4. r.store = s2 /\ r.page = s.free
    BY <2>1
  <2>5. /\ s2.hdr = s.hdr /\ s2.size = s.size /\ s2.disk = e /\ s2.count = s.count /\ s2.free = n
        /\ DOMAIN s2 = DOMAIN s
    BY DEF IsStore
  <2> HIDE DEF s2, r
  <2>6. IsStore(s2)
    BY <2>2, <2>5 DEF IsStore
  <2>7. Popped(s, s2, s.free)
    BY <1>5, <2>2, <2>5, <2>6 DEF Popped, n
  <2> QED
    BY <2>4, <2>7 DEF Answers, r
<1>6. CASE s.free = 0 /\ (room = "no_extent" \/ s.count >= MaxPages)
  <2>1. r = [store |-> s, page |-> 0]
    <3>1. s.count >= MaxPages => ~(s.count < MaxPages)
      BY PageStoreAssumption
    <3>2. s.free = 0
      BY <1>6
    <3>3. CASE room = "no_extent"
      BY <3>2, <3>3 DEF PagerAllocate
    <3>4. CASE s.count >= MaxPages
      BY <3>1, <3>2, <3>4 DEF PagerAllocate
    <3> QED
      BY <1>6, <3>3, <3>4
  <2>2. r.store = s /\ r.page = 0
    BY <2>1
  <2> HIDE DEF r
  <2> QED
    BY <2>2 DEF Answers, NoPage, r
<1>7. CASE s.free = 0 /\ room = "no_block" /\ s.count < MaxPages
  <2> DEFINE s2 == [s EXCEPT !.size = g]
  <2>1. r = [store |-> s2, page |-> 0]
    <3>1. ~(s.count >= MaxPages)
      BY <1>7, PageStoreAssumption
    <3> QED
      BY <1>7, <3>1 DEF PagerAllocate
  <2> HIDE DEF g
  <2>4. r.store = s2 /\ r.page = 0
    BY <2>1
  <2>5. /\ s2.hdr = s.hdr /\ s2.size = g /\ s2.disk = s.disk /\ s2.count = s.count /\ s2.free = s.free
        /\ DOMAIN s2 = DOMAIN s
    BY DEF IsStore
  <2> HIDE DEF s2, r
  <2>6. IsStore(s2)
    BY <2>5 DEF IsStore
  <2>7. NoPage(s, s2)
    BY <1>7, <2>5, <2>6 DEF NoPage, g
  <2> QED
    BY <2>4, <2>7 DEF Answers, r
<1>8. CASE s.free = 0 /\ room # "no_extent" /\ room # "no_block" /\ s.count < MaxPages
  <2> DEFINE e == [s.disk EXCEPT ![s.count] = FreePage(0)]
             k == [s.hdr EXCEPT !.count = s.count + 1]
             s2 == [s EXCEPT !.size = g, !.count = s.count + 1, !.disk = e, !.hdr = k]
  <2>0. s.count \in PageNums /\ s.count # 0
    BY <1>8, PageStoreAssumption DEF PageNums
  <2>1. r = [store |-> s2, page |-> s.count]
    <3>1. ~(s.count >= MaxPages)
      BY <1>8, PageStoreAssumption
    <3> QED
      BY <1>8, <3>1 DEF PagerAllocate
  <2>2. (\A q \in DataPages \ {s.count} : e[q] = s.disk[q]) /\ DOMAIN e = DOMAIN s.disk
    BY <1>0, <2>0 DEF IsStore
  <2>3. DOMAIN k = DOMAIN s.hdr
    OBVIOUS
  <2> HIDE DEF e, g, k
  <2>5. r.store = s2 /\ r.page = s.count
    BY <2>1
  <2>6. /\ s2.hdr = k /\ s2.size = g /\ s2.disk = e /\ s2.count = s.count + 1 /\ s2.free = s.free
        /\ DOMAIN s2 = DOMAIN s
    BY DEF IsStore
  <2> HIDE DEF s2, r
  <2>7. IsStore(s2)
    BY <2>2, <2>3, <2>6 DEF IsStore
  <2>8. Extended(s, s2, s.count)
    BY <1>8, <2>2, <2>6, <2>7 DEF Extended, g, k
  <2> QED
    BY <2>0, <2>5, <2>8 DEF Answers, r
<1> QED
  BY <1>4, <1>5, <1>6, <1>7, <1>8, PageStoreAssumption

\* The pages of Y that are not in the tree: the free list from f is F, the chain that a call is
\* writing or freeing, from x, is E, and the chain of the value named h is C[h], for h in D.
ChainedBy(d, f, x, E, D, Y, F, C) ==
  /\ Y \subseteq DataPages /\ F \subseteq Y /\ E \subseteq Y /\ C \in [D -> SUBSET Y]
  /\ Walked(d, f, F) /\ Walked(d, x, E) /\ F \cap E = {}
  /\ \A h \in D : h \in C[h] /\ Walked(d, h, C[h]) /\ C[h] \cap F = {} /\ C[h] \cap E = {}
  /\ \A g, h \in D : g # h => C[g] \cap C[h] = {}
  /\ \A y \in Y : y \in F \/ y \in E \/ \E h \in D : y \in C[h]

Chained(d, f, x, E, D, Y) == \E F, C : ChainedBy(d, f, x, E, D, Y, F, C)

\* A page of the file is not page 0, the end of a chain.
LEMMA NotZero ==
  ASSUME NEW Y, Y \subseteq DataPages
  PROVE  0 \notin Y /\ Y \subseteq Nat /\ \A y \in Y : y # 0
BY PageStoreAssumption DEF DataPages

\* The chains depend on the first words of the pages only.
LEMMA ChainedFrame ==
  ASSUME NEW d, NEW d2, NEW f, NEW x, NEW E, NEW D, NEW Y, Chained(d, f, x, E, D, Y),
         \A y \in Y : d2[y].word = d[y].word
  PROVE  Chained(d2, f, x, E, D, Y)
<1>1. PICK F, C : ChainedBy(d, f, x, E, D, Y, F, C)
  BY DEF Chained
<1>2. F \subseteq Y /\ E \subseteq Y /\ \A h \in D : C[h] \subseteq Y
  BY <1>1 DEF ChainedBy
<1>3. Walked(d2, f, F) /\ Walked(d2, x, E)
  <2>1. (\A y \in F : d2[y].word = d[y].word) /\ \A y \in E : d2[y].word = d[y].word
    BY <1>2
  <2>2. Walked(d, f, F) /\ Walked(d, x, E)
    BY <1>1 DEF ChainedBy
  <2> QED
    BY <2>1, <2>2, WalkedFrame
<1>4. ASSUME NEW h \in D PROVE Walked(d2, h, C[h])
  <2>1. \A y \in C[h] : d2[y].word = d[y].word
    BY <1>2
  <2>2. Walked(d, h, C[h])
    BY <1>1 DEF ChainedBy
  <2> QED
    BY <2>1, <2>2, WalkedFrame
<1>5. ChainedBy(d2, f, x, E, D, Y, F, C)
  BY <1>1, <1>3, <1>4 DEF ChainedBy
<1> QED
  BY <1>5 DEF Chained

\* Every word of these pages leads to one of them or to the end.
ChainedIn(d, f, x, E, D, Y) ==
  /\ f \in Y \cup {0} /\ x \in E \cup {0} /\ (x = 0 <=> E = {}) /\ E \subseteq Y
  /\ D \subseteq Y /\ D \cap E = {} /\ (\A h \in D : h # f)
  /\ \A y \in Y : d[y].word \in Y \cup {0}

\* The words of chained pages stay inside.
LEMMA ChainedInside ==
  ASSUME NEW d, NEW f, NEW x, NEW E, NEW D, NEW Y, Chained(d, f, x, E, D, Y)
  PROVE  ChainedIn(d, f, x, E, D, Y)
<1>1. PICK F, C : ChainedBy(d, f, x, E, D, Y, F, C)
  BY DEF Chained
<1>2. Y \subseteq DataPages /\ F \subseteq Y /\ E \subseteq Y /\ \A h \in D : C[h] \subseteq Y /\ h \in C[h]
  BY <1>1 DEF ChainedBy
<1>3. 0 \notin Y /\ 0 \notin F /\ 0 \notin E
  BY <1>2, NotZero
<1>4. Walked(d, f, F) /\ Walked(d, x, E)
  BY <1>1 DEF ChainedBy
<1>5. f \in F \cup {0} /\ \A y \in F : d[y].word \in F \cup {0}
  BY <1>3, <1>4, WalkedInside
<1>6. x \in E \cup {0} /\ (x = 0 <=> E = {}) /\ \A y \in E : d[y].word \in E \cup {0}
  BY <1>3, <1>4, WalkedInside
<1>7. ASSUME NEW h \in D PROVE \A y \in C[h] : d[y].word \in C[h] \cup {0}
  <2>1. Walked(d, h, C[h])
    BY <1>1 DEF ChainedBy
  <2>2. 0 \notin C[h]
    BY <1>2, <1>3
  <2> QED
    BY <2>1, <2>2, WalkedInside
<1>8. \A y \in Y : d[y].word \in Y \cup {0}
  <2> TAKE y \in Y
  <2>1. y \in F \/ y \in E \/ \E h \in D : y \in C[h]
    BY <1>1 DEF ChainedBy
  <2> QED
    BY <1>2, <1>5, <1>6, <1>7, <2>1
<1>9. D \cap E = {} /\ \A h \in D : h # f
  <2> SUFFICES ASSUME NEW h \in D PROVE h \notin E /\ h # f
    OBVIOUS
  <2>1. h \in C[h] /\ C[h] \cap F = {} /\ C[h] \cap E = {}
    BY <1>1 DEF ChainedBy
  <2>2. h # 0
    BY <1>2, <1>3
  <2> QED
    BY <1>5, <2>1, <2>2
<1> QED
  BY <1>2, <1>5, <1>6, <1>8, <1>9 DEF ChainedIn

\* The head of the free list is taken.
LEMMA PoppedChains ==
  ASSUME NEW d, NEW f, NEW x, NEW E, NEW D, NEW Y, Chained(d, f, x, E, D, Y), f # 0
  PROVE  Chained(d, d[f].word, x, E, D, Y \ {f})
<1>1. PICK F, C : ChainedBy(d, f, x, E, D, Y, F, C)
  BY DEF Chained
<1>2. Y \subseteq DataPages /\ F \subseteq Y /\ E \subseteq Y /\ C \in [D -> SUBSET Y] /\ Walked(d, f, F)
      /\ F \cap E = {} /\ \A h \in D : C[h] \cap F = {}
  BY <1>1 DEF ChainedBy
<1>3. f \in F
  BY <1>2, NotZero, WalkedInside
<1>4. Walked(d, d[f].word, F \ {f})
  BY <1>2, WalkedTail
<1>5. C \in [D -> SUBSET (Y \ {f})]
  BY <1>2, <1>3
<1>6. E \subseteq Y \ {f} /\ F \ {f} \subseteq Y \ {f} /\ Y \ {f} \subseteq DataPages
  BY <1>2, <1>3
<1>7. ChainedBy(d, d[f].word, x, E, D, Y \ {f}, F \ {f}, C)
  BY <1>1, <1>4, <1>5, <1>6 DEF ChainedBy
<1> QED
  BY <1>7 DEF Chained

\* A page is put on the free list.
LEMMA PushedChains ==
  ASSUME NEW d, NEW d2, NEW f, NEW x, NEW E, NEW D, NEW Y, Chained(d, f, x, E, D, Y),
         NEW z \in DataPages, z \notin Y, d2[z].word = f, \A y \in Y : d2[y].word = d[y].word
  PROVE  Chained(d2, z, x, E, D, Y \cup {z})
<1>0. Chained(d2, f, x, E, D, Y)
  BY ChainedFrame
<1>1. PICK F, C : ChainedBy(d2, f, x, E, D, Y, F, C)
  BY <1>0 DEF Chained
<1>2. Y \subseteq DataPages /\ F \subseteq Y /\ E \subseteq Y /\ C \in [D -> SUBSET Y] /\ Walked(d2, f, F)
      /\ F \cap E = {} /\ \A h \in D : C[h] \cap F = {}
  BY <1>1 DEF ChainedBy
<1>3. z \in Nat /\ z # 0 /\ z \notin F
  BY <1>2, PageStoreAssumption DEF DataPages
<1>4. Walked(d2, z, F \cup {z})
  BY <1>2, <1>3, WalkedPush
<1>5. C \in [D -> SUBSET (Y \cup {z})] /\ \A h \in D : C[h] \cap (F \cup {z}) = {}
  BY <1>2
<1>6. E \subseteq Y \cup {z} /\ F \cup {z} \subseteq Y \cup {z} /\ Y \cup {z} \subseteq DataPages
      /\ (F \cup {z}) \cap E = {}
  BY <1>2
<1>7. ChainedBy(d2, z, x, E, D, Y \cup {z}, F \cup {z}, C)
  BY <1>1, <1>4, <1>5, <1>6 DEF ChainedBy
<1> QED
  BY <1>7 DEF Chained

\* A chain that is being written begins with z, or goes on with z after the page p.
LEMMA BegunChains ==
  ASSUME NEW d, NEW d2, NEW f, NEW D, NEW Y, Chained(d, f, 0, {}, D, Y),
         NEW z \in DataPages, z \notin Y, d2[z].word = 0, \A y \in Y : d2[y].word = d[y].word
  PROVE  Chained(d2, f, z, {z}, D, Y \cup {z})
<1>0. Chained(d2, f, 0, {}, D, Y)
  BY ChainedFrame
<1>1. PICK F, C : ChainedBy(d2, f, 0, {}, D, Y, F, C)
  BY <1>0 DEF Chained
<1>2. Y \subseteq DataPages /\ F \subseteq Y /\ C \in [D -> SUBSET Y]
  BY <1>1 DEF ChainedBy
<1>3. z \in Nat /\ z # 0 /\ z \notin F
  BY <1>2, PageStoreAssumption DEF DataPages
<1>4. Walked(d2, z, {} \cup {z})
  <2>1. Walked(d2, 0, {})
    BY WalkedEmpty
  <2> QED
    BY <1>3, <2>1, WalkedPush
<1>5. C \in [D -> SUBSET (Y \cup {z})] /\ \A h \in D : C[h] \cap {z} = {}
  BY <1>2
<1>6. {} \cup {z} = {z}
  OBVIOUS
<1>7. ChainedBy(d2, f, z, {z}, D, Y \cup {z}, F, C)
  BY <1>1, <1>2, <1>3, <1>4, <1>5, <1>6 DEF ChainedBy
<1> QED
  BY <1>7 DEF Chained

\* A page is added at the end of the chain being written.
LEMMA ContinuedChains ==
  ASSUME NEW d, NEW d2, NEW f, NEW x, NEW E, NEW D, NEW Y, Chained(d, f, x, E, D, Y),
         NEW p \in E, d[p].word = 0,
         NEW z \in DataPages, z \notin Y, d2[p].word = z, d2[z].word = 0, \A y \in Y \ {p} : d2[y].word = d[y].word
  PROVE  Chained(d2, f, x, E \cup {z}, D, Y \cup {z})
<1>1. PICK F, C : ChainedBy(d, f, x, E, D, Y, F, C)
  BY DEF Chained
<1>2. Y \subseteq DataPages /\ F \subseteq Y /\ E \subseteq Y /\ C \in [D -> SUBSET Y] /\ Walked(d, x, E)
      /\ Walked(d, f, F) /\ F \cap E = {} /\ \A h \in D : C[h] \cap E = {} /\ Walked(d, h, C[h])
  BY <1>1 DEF ChainedBy
<1>3. z \in Nat /\ z # 0 /\ z \notin E /\ z \notin F /\ 0 \notin E
  BY <1>2, PageStoreAssumption DEF DataPages
<1>4. Walked(d2, x, E \cup {z})
  <2>1. \A y \in E \ {p} : d2[y].word = d[y].word
    BY <1>2
  <2> QED
    BY <1>2, <1>3, <2>1, WalkedAppend
<1>5. Walked(d2, f, F)
  <2>1. \A y \in F : d2[y].word = d[y].word
    BY <1>2
  <2> QED
    BY <1>2, <2>1, WalkedFrame
<1>6. ASSUME NEW h \in D PROVE Walked(d2, h, C[h])
  <2>1. \A y \in C[h] : d2[y].word = d[y].word
    BY <1>2
  <2> QED
    BY <1>2, <2>1, WalkedFrame
<1>7. C \in [D -> SUBSET (Y \cup {z})] /\ \A h \in D : C[h] \cap (E \cup {z}) = {}
  BY <1>2
<1>8. E \cup {z} \subseteq Y \cup {z} /\ F \subseteq Y \cup {z} /\ Y \cup {z} \subseteq DataPages
      /\ F \cap (E \cup {z}) = {}
  BY <1>2, <1>3
<1>9. ChainedBy(d2, f, x, E \cup {z}, D, Y \cup {z}, F, C)
  BY <1>1, <1>4, <1>5, <1>6, <1>7, <1>8 DEF ChainedBy
<1> QED
  BY <1>9 DEF Chained

\* The chain that was written becomes the chain of a value.
LEMMA GivenChains ==
  ASSUME NEW d, NEW f, NEW x, NEW E, NEW D, NEW Y, Chained(d, f, x, E, D, Y), x # 0
  PROVE  Chained(d, f, 0, {}, D \cup {x}, Y)
<1>0. ChainedIn(d, f, x, E, D, Y)
  BY ChainedInside
<1>1. PICK F, C : ChainedBy(d, f, x, E, D, Y, F, C)
  BY DEF Chained
<1>2. Y \subseteq DataPages /\ F \subseteq Y /\ E \subseteq Y /\ C \in [D -> SUBSET Y] /\ Walked(d, x, E)
      /\ F \cap E = {} /\ \A h \in D : C[h] \cap E = {}
  BY <1>1 DEF ChainedBy
<1>3. x \in E /\ x \notin D
  BY <1>0 DEF ChainedIn
<1> DEFINE B == [h \in D \cup {x} |-> IF h = x THEN E ELSE C[h]]
<1>4. B \in [D \cup {x} -> SUBSET Y] /\ B[x] = E /\ \A h \in D : B[h] = C[h]
  BY <1>2, <1>3
<1> HIDE DEF B
<1>5. Walked(d, 0, {})
  BY WalkedEmpty
<1>6. \A h \in D \cup {x} : h \in B[h] /\ Walked(d, h, B[h]) /\ B[h] \cap F = {} /\ B[h] \cap {} = {}
  BY <1>1, <1>2, <1>3, <1>4 DEF ChainedBy
<1>7. \A g, h \in D \cup {x} : g # h => B[g] \cap B[h] = {}
  BY <1>1, <1>2, <1>3, <1>4 DEF ChainedBy
<1>8. \A y \in Y : y \in F \/ y \in {} \/ \E h \in D \cup {x} : y \in B[h]
  BY <1>1, <1>3, <1>4 DEF ChainedBy
<1>9. {} \subseteq Y /\ F \cap {} = {} /\ Walked(d, f, F)
  BY <1>1 DEF ChainedBy
<1>10. ChainedBy(d, f, 0, {}, D \cup {x}, Y, F, B)
  BY <1>2, <1>4, <1>5, <1>6, <1>7, <1>8, <1>9 DEF ChainedBy
<1> QED
  BY <1>10 DEF Chained

\* The chain of a value is about to be freed.
LEMMA TakenChains ==
  ASSUME NEW d, NEW f, NEW D, NEW Y, Chained(d, f, 0, {}, D, Y), NEW x \in D
  PROVE  \E E : Chained(d, f, x, E, D \ {x}, Y)
<1>1. PICK F, C : ChainedBy(d, f, 0, {}, D, Y, F, C)
  BY DEF Chained
<1> DEFINE B == [h \in D \ {x} |-> C[h]]
           E == C[x]
<1>2. E \subseteq Y /\ Walked(d, x, E) /\ E \cap F = {} /\ C \in [D -> SUBSET Y] /\ E = C[x]
  BY <1>1 DEF ChainedBy
<1>3. B \in [D \ {x} -> SUBSET Y] /\ \A h \in D \ {x} : B[h] = C[h]
  BY <1>2
<1> HIDE DEF B, E
<1>4. \A h \in D \ {x} : h \in B[h] /\ Walked(d, h, B[h]) /\ B[h] \cap F = {} /\ B[h] \cap E = {}
  BY <1>1, <1>2, <1>3 DEF ChainedBy
<1>5. \A g, h \in D \ {x} : g # h => B[g] \cap B[h] = {}
  BY <1>1, <1>3 DEF ChainedBy
<1>6. \A y \in Y : y \in F \/ y \in E \/ \E h \in D \ {x} : y \in B[h]
  <2> SUFFICES ASSUME NEW y \in Y, y \notin F PROVE y \in E \/ \E h \in D \ {x} : y \in B[h]
    OBVIOUS
  <2>1. PICK h \in D : y \in C[h]
    BY <1>1 DEF ChainedBy
  <2> QED
    BY <2>1, <1>2, <1>3
<1>7. Y \subseteq DataPages /\ F \subseteq Y /\ Walked(d, f, F) /\ F \cap E = {}
  BY <1>1, <1>2 DEF ChainedBy
<1>8. ChainedBy(d, f, x, E, D \ {x}, Y, F, B)
  BY <1>2, <1>3, <1>4, <1>5, <1>6, <1>7 DEF ChainedBy
<1> QED
  BY <1>8 DEF Chained

\* The first page of a chain goes to the free list.
LEMMA FreedChains ==
  ASSUME NEW d, NEW d2, NEW f, NEW x, NEW E, NEW D, NEW Y, Chained(d, f, x, E, D, Y), x # 0,
         d2[x].word = f, \A y \in Y \ {x} : d2[y].word = d[y].word
  PROVE  Chained(d2, x, d[x].word, E \ {x}, D, Y)
<1>0. ChainedIn(d, f, x, E, D, Y)
  BY ChainedInside
<1>1. PICK F, C : ChainedBy(d, f, x, E, D, Y, F, C)
  BY DEF Chained
<1>2. Y \subseteq DataPages /\ F \subseteq Y /\ E \subseteq Y /\ C \in [D -> SUBSET Y] /\ Walked(d, x, E)
      /\ Walked(d, f, F) /\ F \cap E = {}
      /\ \A h \in D : C[h] \cap E = {} /\ C[h] \cap F = {} /\ Walked(d, h, C[h]) /\ h \in C[h]
  BY <1>1 DEF ChainedBy
<1>3. x \in E /\ x \in Nat /\ x \notin F /\ x \in Y
  BY <1>0, <1>2, NotZero DEF ChainedIn
<1>4. Walked(d2, x, F \cup {x})
  <2>1. \A y \in F : d2[y].word = d[y].word
    BY <1>2, <1>3
  <2> QED
    BY <1>2, <1>3, <2>1, WalkedPush
<1>5. Walked(d2, d[x].word, E \ {x})
  <2>1. Walked(d, d[x].word, E \ {x})
    BY <1>2, WalkedTail
  <2>2. \A y \in E \ {x} : d2[y].word = d[y].word
    BY <1>2
  <2> QED
    BY <2>1, <2>2, WalkedFrame
<1>6. ASSUME NEW h \in D PROVE Walked(d2, h, C[h])
  <2>1. \A y \in C[h] : d2[y].word = d[y].word
    BY <1>2, <1>3
  <2> QED
    BY <1>2, <2>1, WalkedFrame
<1>7. \A h \in D : C[h] \cap (F \cup {x}) = {} /\ C[h] \cap (E \ {x}) = {}
  BY <1>2, <1>3
<1>8. F \cup {x} \subseteq Y /\ E \ {x} \subseteq Y /\ (F \cup {x}) \cap (E \ {x}) = {}
  BY <1>2, <1>3
<1>9. \A y \in Y : y \in F \cup {x} \/ y \in E \ {x} \/ \E h \in D : y \in C[h]
  BY <1>1 DEF ChainedBy
<1>10. \A g, h \in D : g # h => C[g] \cap C[h] = {}
  BY <1>1 DEF ChainedBy
<1>11. ChainedBy(d2, x, d[x].word, E \ {x}, D, Y, F \cup {x}, C)
  BY <1>2, <1>4, <1>5, <1>6, <1>7, <1>8, <1>9, <1>10 DEF ChainedBy
<1> QED
  BY <1>11 DEF Chained

\* A chain whose writing failed is lost.
LEMMA DroppedChains ==
  ASSUME NEW d, NEW f, NEW x, NEW E, NEW D, NEW Y, Chained(d, f, x, E, D, Y)
  PROVE  Chained(d, f, 0, {}, D, Y \ E)
<1>1. PICK F, C : ChainedBy(d, f, x, E, D, Y, F, C)
  BY DEF Chained
<1>2. Y \subseteq DataPages /\ F \subseteq Y /\ C \in [D -> SUBSET Y] /\ F \cap E = {}
      /\ \A h \in D : C[h] \cap E = {}
  BY <1>1 DEF ChainedBy
<1>3. C \in [D -> SUBSET (Y \ E)]
  BY <1>2
<1>4. Walked(d, 0, {})
  BY WalkedEmpty
<1>5. \A y \in Y \ E : y \in F \/ y \in {} \/ \E h \in D : y \in C[h]
  BY <1>1 DEF ChainedBy
<1>6. F \subseteq Y \ E /\ {} \subseteq Y \ E /\ Y \ E \subseteq DataPages /\ F \cap {} = {}
      /\ \A h \in D : C[h] \cap {} = {}
  BY <1>2
<1>7. ChainedBy(d, f, 0, {}, D, Y \ E, F, C)
  BY <1>1, <1>3, <1>4, <1>5, <1>6 DEF ChainedBy
<1> QED
  BY <1>7 DEF Chained

\* The pages of T and of Y are in the file, and the free list and the chains stay in Y.
Filed(s, T, Y) ==
  /\ IsStore(s) /\ s.count \in Nat /\ s.size \in Nat
  /\ 2 <= s.count /\ s.count <= s.size /\ s.size <= MaxPages
  /\ s.hdr.count \in Nat /\ s.hdr.count <= s.count
  /\ T \cup Y \subseteq 2 .. s.count - 1 /\ T \cap Y = {}
  /\ s.free \in Y \cup {0} /\ \A y \in Y : s.disk[y].word \in Y \cup {0}

\* They are all the pages of the file.
Whole(s, T, Y) == s.size = s.count /\ T \cup Y = 2 .. s.count - 1

SameHeader(s, s2) == s2.hdr.magic = s.hdr.magic /\ s2.hdr.root = s.hdr.root /\ s2.hdr.free = s.hdr.free

\* The pages of a file are data pages.
LEMMA FiledPages ==
  ASSUME NEW s, NEW T, NEW Y, Filed(s, T, Y)
  PROVE  T \subseteq DataPages /\ Y \subseteq DataPages /\ 0 \notin Y /\ s.free \in DataPages \cup {0}
BY PageStoreAssumption DEF Filed, DataPages

\* A page z was allocated: it is in T now, and no longer in what was Y.
Took(s, s2, z, x, E, D, T, Y, Y2) ==
  /\ z \in DataPages /\ z \notin T /\ z \notin Y2
  /\ Filed(s2, T \cup {z}, Y2) /\ (Whole(s, T, Y) => Whole(s2, T \cup {z}, Y2))
  /\ Chained(s2.disk, s2.free, x, E, D, Y2)
  /\ Y2 \subseteq Y /\ D \subseteq Y2 /\ E \subseteq Y2
  /\ \A q \in T \cup Y2 : s2.disk[q] = s.disk[q]
  /\ SameHeader(s, s2)

\* An allocation from the free list takes a page nobody has.
LEMMA TakenPopped ==
  ASSUME NEW s, NEW s2, NEW z, NEW x, NEW E, NEW D, NEW T, NEW Y, Filed(s, T, Y),
         Chained(s.disk, s.free, x, E, D, Y), Popped(s, s2, z), E = {} \/ s.free \notin E
  PROVE  Took(s, s2, z, x, E, D, T, Y, Y \ {z})
<1>1. /\ IsStore(s2) /\ z = s.free /\ z # 0 /\ s2.free = s.disk[z].word
      /\ s2.hdr = s.hdr /\ s2.size = s.size /\ s2.count = s.count
      /\ \A q \in DataPages : s2.disk[q] = s.disk[q]
  BY DEF Popped
<1>2. z \in Y /\ z \notin T /\ z \in DataPages /\ T \subseteq DataPages /\ Y \subseteq DataPages
  BY <1>1, FiledPages DEF Filed
<1>3. Chained(s.disk, s2.free, x, E, D, Y \ {z})
  BY <1>1, PoppedChains
<1>4. Chained(s2.disk, s2.free, x, E, D, Y \ {z})
  <2>1. \A y \in Y \ {z} : s2.disk[y].word = s.disk[y].word
    BY <1>1, <1>2
  <2> QED
    BY <1>3, <2>1, ChainedFrame
<1>5. ChainedIn(s2.disk, s2.free, x, E, D, Y \ {z})
  BY <1>4, ChainedInside
<1>6. Filed(s2, T \cup {z}, Y \ {z})
  <2>1. T \cup {z} \cup (Y \ {z}) \subseteq 2 .. s2.count - 1 /\ (T \cup {z}) \cap (Y \ {z}) = {}
    BY <1>1, <1>2 DEF Filed
  <2>2. s2.free \in (Y \ {z}) \cup {0} /\ \A y \in Y \ {z} : s2.disk[y].word \in (Y \ {z}) \cup {0}
    BY <1>5 DEF ChainedIn
  <2> QED
    BY <1>1, <2>1, <2>2 DEF Filed
<1>7. Whole(s, T, Y) => Whole(s2, T \cup {z}, Y \ {z})
  BY <1>1, <1>2 DEF Whole
<1>8. D \subseteq Y \ {z} /\ E \subseteq Y \ {z}
  BY <1>5 DEF ChainedIn
<1>9. (\A q \in T \cup (Y \ {z}) : s2.disk[q] = s.disk[q]) /\ SameHeader(s, s2)
  BY <1>1, <1>2 DEF SameHeader
<1> QED
  BY <1>2, <1>4, <1>6, <1>7, <1>8, <1>9 DEF Took

\* An allocation that extends the file takes a page nobody has.
LEMMA TakenExtended ==
  ASSUME NEW s, NEW s2, NEW z, NEW x, NEW E, NEW D, NEW T, NEW Y, Filed(s, T, Y),
         Chained(s.disk, s.free, x, E, D, Y), Extended(s, s2, z)
  PROVE  Took(s, s2, z, x, E, D, T, Y, Y)
<1>1. /\ IsStore(s2) /\ z = s.count /\ z < MaxPages /\ s2.free = s.free
      /\ s2.size = Larger(s.size, s.count + 1) /\ s2.count = s.count + 1
      /\ s2.hdr = [s.hdr EXCEPT !.count = s.count + 1]
      /\ \A q \in DataPages \ {z} : s2.disk[q] = s.disk[q]
  BY DEF Extended
<1>2. z \in DataPages /\ z \notin T /\ z \notin Y /\ T \subseteq DataPages /\ Y \subseteq DataPages
  <2>1. z \in Nat /\ z >= 2 /\ T \cup Y \subseteq 2 .. z - 1
    BY <1>1 DEF Filed
  <2> QED
    BY <1>1, <2>1, FiledPages, PageStoreAssumption DEF DataPages
<1>4. Chained(s2.disk, s2.free, x, E, D, Y)
  <2>1. \A y \in Y : s2.disk[y].word = s.disk[y].word
    BY <1>1, <1>2
  <2> QED
    BY <1>1, <2>1, ChainedFrame
<1>5. ChainedIn(s2.disk, s2.free, x, E, D, Y)
  BY <1>4, ChainedInside
<1>6. Filed(s2, T \cup {z}, Y)
  <2>1. s2.count \in Nat /\ s2.size \in Nat /\ 2 <= s2.count /\ s2.count <= s2.size /\ s2.size <= MaxPages
    BY <1>1, PageStoreAssumption DEF Filed, Larger
  <2>2. s2.hdr.count = s2.count
    BY <1>1 DEF Filed, IsStore
  <2>3. T \cup {z} \cup Y \subseteq 2 .. s2.count - 1 /\ (T \cup {z}) \cap Y = {}
    <3>1. T \cup Y \subseteq 2 .. s.count - 1 /\ T \cap Y = {} /\ s.count \in Nat /\ 2 <= s.count
      BY DEF Filed
    <3> QED
      BY <1>1, <1>2, <3>1
  <2>4. s2.free \in Y \cup {0} /\ \A y \in Y : s2.disk[y].word \in Y \cup {0}
    BY <1>5 DEF ChainedIn
  <2> QED
    BY <1>1, <2>1, <2>2, <2>3, <2>4 DEF Filed
<1>7. Whole(s, T, Y) => Whole(s2, T \cup {z}, Y)
  <2> SUFFICES ASSUME Whole(s, T, Y) PROVE Whole(s2, T \cup {z}, Y)
    OBVIOUS
  <2>1. s.size = s.count /\ T \cup Y = 2 .. s.count - 1 /\ s.count \in Nat /\ 2 <= s.count
    BY DEF Whole, Filed
  <2>2. s2.size = s2.count
    BY <1>1, <2>1 DEF Larger
  <2>3. 2 .. s2.count - 1 = (2 .. s.count - 1) \cup {z}
    BY <1>1, <2>1
  <2> QED
    BY <2>1, <2>2, <2>3 DEF Whole
<1>8. D \subseteq Y /\ E \subseteq Y
  BY <1>5 DEF ChainedIn
<1>9. (\A q \in T \cup Y : s2.disk[q] = s.disk[q]) /\ SameHeader(s, s2)
  <2>1. \A q \in T \cup Y : s2.disk[q] = s.disk[q]
    BY <1>1, <1>2
  <2>2. s2.hdr.magic = s.hdr.magic /\ s2.hdr.root = s.hdr.root /\ s2.hdr.free = s.hdr.free
    BY <1>1 DEF Filed, IsStore
  <2> QED
    BY <2>1, <2>2 DEF SameHeader
<1> QED
  BY <1>2, <1>4, <1>6, <1>7, <1>8, <1>9 DEF Took

\* A failed allocation changes no page.
Refused(s, s2, T, Y) ==
  /\ Filed(s2, T, Y) /\ s2.disk = s.disk /\ s2.free = s.free /\ s2.count = s.count
  /\ s2.hdr = s.hdr

\* What an allocation does to the pages of the tree and of the chains.
Serves(s, r, x, E, D, T, Y) ==
  /\ r.page = 0 => Refused(s, r.store, T, Y)
  /\ r.page # 0 => \E Y2 : Took(s, r.store, r.page, x, E, D, T, Y, Y2)

\* pager_allocate gives a page nobody has, or changes nothing that matters.
LEMMA AllocationServes ==
  ASSUME NEW s, NEW x, NEW E, NEW D, NEW T, NEW Y, Filed(s, T, Y), Chained(s.disk, s.free, x, E, D, Y),
         NEW room
  PROVE  Serves(s, PagerAllocate(s, room), x, E, D, T, Y)
<1> DEFINE r == PagerAllocate(s, room)
<1>1. Answers(s, r)
  <2>1. IsStore(s) /\ s.count \in Nat /\ s.count >= 2 /\ s.free \in DataPages \cup {0}
    BY FiledPages DEF Filed
  <2> QED
    BY <2>1, Allocated
<1> SUFFICES Serves(s, r, x, E, D, T, Y)
  OBVIOUS
<1> HIDE DEF r
<1>2. CASE r.page = 0 /\ NoPage(s, r.store)
  <2>1. Filed(r.store, T, Y)
    BY <1>2, PageStoreAssumption DEF Filed, NoPage, Larger
  <2>2. r.page = 0 /\ Refused(s, r.store, T, Y)
    BY <1>2, <2>1 DEF NoPage, Refused
  <2> QED
    BY <2>2 DEF Serves
<1>3. CASE Popped(s, r.store, r.page)
  <2>1. s.free \notin E
    <3>1. PICK F, C : ChainedBy(s.disk, s.free, x, E, D, Y, F, C)
      BY DEF Chained
    <3>2. Walked(s.disk, s.free, F) /\ F \subseteq Y /\ Y \subseteq DataPages /\ F \cap E = {}
      BY <3>1 DEF ChainedBy
    <3>3. s.free # 0
      BY <1>3 DEF Popped
    <3>4. 0 \notin F
      BY <3>2, NotZero
    <3> QED
      BY <3>2, <3>3, <3>4, WalkedInside
  <2>2. Took(s, r.store, r.page, x, E, D, T, Y, Y \ {r.page})
    BY <1>3, <2>1, TakenPopped
  <2>3. r.page # 0
    BY <1>3 DEF Popped
  <2> QED
    BY <2>2, <2>3 DEF Serves
<1>4. CASE r.page # 0 /\ Extended(s, r.store, r.page)
  <2>1. Took(s, r.store, r.page, x, E, D, T, Y, Y)
    BY <1>4, TakenExtended
  <2> QED
    BY <1>4, <2>1 DEF Serves
<1> QED
  BY <1>1, <1>2, <1>3, <1>4 DEF Answers

\* The heads of the values in the tree.
LEMMA HeadsAre ==
  ASSUME NEW d, NEW T, NEW H, Heads(d, T, H), NEW Y, H \subseteq Y
  PROVE  HeadsIn(d, T, Y)
<1>1. PICK home : HeadsBy(d, T, H, home)
  BY DEF Heads
<1> QED
  BY <1>1 DEF HeadsBy, HeadsOf, HeadsIn

\* A sound tree needs only the pages its cells name.
LEMMA SoundWithin ==
  ASSUME NEW d, NEW d2, NEW r, NEW T, NEW Y, NEW Y2, Sound(d, r, T, Y), HeadsIn(d, T, Y2),
         \A q \in T : d2[q] = d[q]
  PROVE  Sound(d2, r, T, Y2)
<1>1. Sound(d, r, T, Y2)
  BY DEF Sound
<1> QED
  BY <1>1, SameSound

--------------------------------------------------------------------------------
\* The restructurings on a store.

\* A page of the tree is written.
TreeWrote(s, s2, T, Y, p, c) ==
  /\ Filed(s2, T, Y) /\ (Whole(s, T, Y) => Whole(s2, T, Y))
  /\ s2.free = s.free /\ s2.hdr = s.hdr
  /\ s2.disk[p] = c /\ \A q \in (T \cup Y) \ {p} : s2.disk[q] = s.disk[q]

\* A page of the tree is written, and the file stays in shape.
LEMMA TreeWrites ==
  ASSUME NEW s, NEW T, NEW Y, Filed(s, T, Y), NEW p \in T, NEW c
  PROVE  TreeWrote(s, WriteNode(s, p, c), T, Y, p, c)
<1> DEFINE s2 == WriteNode(s, p, c)
<1>1. p \in PageNums /\ T \subseteq PageNums /\ Y \subseteq PageNums
  BY FiledPages DEF DataPages, PageNums
<1>2. Wrote(s, s2, p, c)
  BY <1>1, Written DEF WriteNode, Filed
<1>3. /\ IsStore(s2) /\ s2.hdr = s.hdr /\ s2.size = s.size /\ s2.count = s.count /\ s2.free = s.free
      /\ s2.disk[p] = c /\ \A q \in (T \cup Y) \ {p} : s2.disk[q] = s.disk[q]
  BY <1>1, <1>2 DEF Wrote
<1>4. p \notin Y
  BY DEF Filed
<1> HIDE DEF s2
<1>5. \A y \in Y : s2.disk[y].word \in Y \cup {0}
  BY <1>3, <1>4 DEF Filed
<1>6. Filed(s2, T, Y)
  BY <1>3, <1>5 DEF Filed
<1>7. Whole(s, T, Y) => Whole(s2, T, Y)
  BY <1>3 DEF Whole
<1>8. TreeWrote(s, s2, T, Y, p, c)
  BY <1>3, <1>6, <1>7 DEF TreeWrote
<1> QED
  BY <1>8 DEF s2

\* Two, or three, pages are written.
TwoWrote(s, s2, T, Y, a, ca, p, cp) ==
  /\ Filed(s2, T, Y) /\ (Whole(s, T, Y) => Whole(s2, T, Y))
  /\ s2.free = s.free /\ s2.hdr = s.hdr
  /\ s2.disk[a] = ca /\ s2.disk[p] = cp
  /\ \A q \in (T \cup Y) \ {a, p} : s2.disk[q] = s.disk[q]

\* Two pages of the tree are written.
LEMMA TwoWrites ==
  ASSUME NEW s, NEW T, NEW Y, Filed(s, T, Y), NEW a \in T, NEW p \in T, a # p, NEW ca, NEW cp
  PROVE  TwoWrote(s, WriteNode(WriteNode(s, a, ca), p, cp), T, Y, a, ca, p, cp)
<1> DEFINE s1 == WriteNode(s, a, ca)
           s2 == WriteNode(s1, p, cp)
<1>1. TreeWrote(s, s1, T, Y, a, ca)
  BY TreeWrites
<1> HIDE DEF s1
<1>2. Filed(s1, T, Y)
  BY <1>1 DEF TreeWrote
<1>3. TreeWrote(s1, s2, T, Y, p, cp)
  BY <1>2, TreeWrites
<1> HIDE DEF s2
<1>4. TwoWrote(s, s2, T, Y, a, ca, p, cp)
  BY <1>1, <1>3 DEF TreeWrote, TwoWrote
<1> QED
  BY <1>4 DEF s1, s2

ThreeWrote(s, s2, T, Y, a, ca, z, cz, p, cp) ==
  /\ Filed(s2, T, Y) /\ (Whole(s, T, Y) => Whole(s2, T, Y))
  /\ s2.free = s.free /\ s2.hdr = s.hdr
  /\ s2.disk[a] = ca /\ s2.disk[z] = cz /\ s2.disk[p] = cp
  /\ \A q \in (T \cup Y) \ {a, z, p} : s2.disk[q] = s.disk[q]

\* Three pages of the tree are written.
LEMMA ThreeWrites ==
  ASSUME NEW s, NEW T, NEW Y, Filed(s, T, Y), NEW a \in T, NEW z \in T, NEW p \in T, a # z, a # p, z # p,
         NEW ca, NEW cz, NEW cp
  PROVE  ThreeWrote(s, WriteNode(WriteNode(WriteNode(s, a, ca), z, cz), p, cp), T, Y, a, ca, z, cz, p, cp)
<1> DEFINE s1 == WriteNode(WriteNode(s, a, ca), z, cz)
           s2 == WriteNode(s1, p, cp)
<1>1. TwoWrote(s, s1, T, Y, a, ca, z, cz)
  BY TwoWrites
<1> HIDE DEF s1
<1>2. Filed(s1, T, Y)
  BY <1>1 DEF TwoWrote
<1>3. TreeWrote(s1, s2, T, Y, p, cp)
  BY <1>2, TreeWrites
<1> HIDE DEF s2
<1>4. ThreeWrote(s, s2, T, Y, a, ca, z, cz, p, cp)
  BY <1>1, <1>3 DEF TreeWrote, TwoWrote, ThreeWrote
<1> QED
  BY <1>4 DEF s1, s2

\* A page of the tree is freed.
TreeFreed(s, s2, T, Y, z) ==
  /\ Filed(s2, T \ {z}, Y \cup {z}) /\ (Whole(s, T, Y) => Whole(s2, T \ {z}, Y \cup {z}))
  /\ s2.free = z /\ s2.hdr = s.hdr /\ s2.disk[z].word = s.free
  /\ \A q \in (T \cup Y) \ {z} : s2.disk[q] = s.disk[q]

\* pager_free of a page of the tree.
LEMMA TreeFrees ==
  ASSUME NEW s, NEW T, NEW Y, Filed(s, T, Y), NEW z \in T
  PROVE  TreeFreed(s, PagerFree(s, z), T, Y, z)
<1> DEFINE s2 == PagerFree(s, z)
<1>1. z \in DataPages /\ T \subseteq DataPages /\ Y \subseteq DataPages /\ z \notin Y
  BY FiledPages DEF Filed
<1>2. FreedTo(s, s2, z)
  BY <1>1, Freed DEF Filed
<1>3. /\ IsStore(s2) /\ s2.hdr = s.hdr /\ s2.size = s.size /\ s2.count = s.count /\ s2.free = z
      /\ s2.disk[z].word = s.free /\ \A q \in (T \cup Y) \ {z} : s2.disk[q] = s.disk[q]
  BY <1>1, <1>2 DEF FreedTo
<1> HIDE DEF s2
<1>5. \A y \in Y \cup {z} : s2.disk[y].word \in Y \cup {z} \cup {0}
  BY <1>1, <1>3 DEF Filed
<1>6. (T \ {z}) \cup (Y \cup {z}) = T \cup Y /\ (T \ {z}) \cap (Y \cup {z}) = {}
  <2>1. T \cap Y = {}
    BY DEF Filed
  <2> QED
    BY <2>1
<1>7. Filed(s2, T \ {z}, Y \cup {z})
  BY <1>3, <1>5, <1>6 DEF Filed
<1>8. Whole(s, T, Y) => Whole(s2, T \ {z}, Y \cup {z})
  BY <1>3, <1>6 DEF Whole
<1>9. TreeFreed(s, s2, T, Y, z)
  BY <1>3, <1>7, <1>8 DEF TreeFreed
<1> QED
  BY <1>9 DEF s2

\* A page outside the tree is freed.
ChainFreed(s, s2, T, Y, z) ==
  /\ Filed(s2, T, Y) /\ (Whole(s, T, Y) => Whole(s2, T, Y))
  /\ s2.free = z /\ s2.hdr = s.hdr /\ s2.disk[z].word = s.free
  /\ \A q \in (T \cup Y) \ {z} : s2.disk[q] = s.disk[q]

\* pager_free of a page of a chain.
LEMMA ChainFrees ==
  ASSUME NEW s, NEW T, NEW Y, Filed(s, T, Y), NEW z \in Y
  PROVE  ChainFreed(s, PagerFree(s, z), T, Y, z)
<1> DEFINE s2 == PagerFree(s, z)
<1>1. z \in DataPages /\ T \subseteq DataPages /\ Y \subseteq DataPages
  BY FiledPages
<1>2. FreedTo(s, s2, z)
  BY <1>1, Freed DEF Filed
<1>3. /\ IsStore(s2) /\ s2.hdr = s.hdr /\ s2.size = s.size /\ s2.count = s.count /\ s2.free = z
      /\ s2.disk[z].word = s.free /\ \A q \in (T \cup Y) \ {z} : s2.disk[q] = s.disk[q]
  BY <1>1, <1>2 DEF FreedTo
<1> HIDE DEF s2
<1>5. \A y \in Y : s2.disk[y].word \in Y \cup {0}
  BY <1>1, <1>3 DEF Filed
<1>7. Filed(s2, T, Y)
  BY <1>3, <1>5 DEF Filed
<1>8. Whole(s, T, Y) => Whole(s2, T, Y)
  BY <1>3 DEF Whole
<1>9. ChainFreed(s, s2, T, Y, z)
  BY <1>3, <1>7, <1>8 DEF ChainFreed
<1> QED
  BY <1>9 DEF s2

\* What a split makes of a store.
SplitDone(s, s2, r, t, H, T, Y, p, i, a, z, Y2) ==
  /\ z \notin T /\ a \in T
  /\ Sound(s2.disk, r, T \cup {z}, Y2) /\ Sizes(s2.disk, r, T \cup {z}, t)
  /\ Filed(s2, T \cup {z}, Y2) /\ (Whole(s, T, Y) => Whole(s2, T \cup {z}, Y2))
  /\ Heads(s2.disk, T \cup {z}, H) /\ Chained(s2.disk, s2.free, 0, {}, H, Y2)
  /\ SameHeader(s, s2)
  /\ s2.disk[p].cells[i].key \in Nat /\ s2.disk[p].kids[i] = a /\ s2.disk[p].kids[i + 1] = z
  /\ Len(s2.disk[a].cells) = t - 1 /\ Len(s2.disk[z].cells) = t - 1
  /\ Len(s2.disk[p].cells) = Len(s.disk[p].cells) + 1
  /\ \A R : OrderedBy(s.disk, T, R) =>
       OrderedBy(s2.disk, T \cup {z}, RangesParted(R, T, a, z, s2.disk[p].cells[i].key))

\* btree_split_child splits a full child, or changes nothing when there is no page for it.
SplitServes(s, sp, r, t, H, T, Y, p, i, a) ==
  /\ ~sp.ok => Refused(s, sp.store, T, Y)
  /\ sp.ok => \E z, Y2 : SplitDone(s, sp.store, r, t, H, T, Y, p, i, a, z, Y2)
  /\ sp.ok \in BOOLEAN

\* btree_split_child on a store, with its allocation.
LEMMA SplitStore ==
  ASSUME NEW s, NEW r, NEW t \in Nat, NEW H, NEW T, NEW Y, NEW p \in T, NEW i, NEW a \in T, t = order, t >= 2,
         Sound(s.disk, r, T, Y), Near(s.disk, r, T, t, p), Filed(s, T, Y),
         Heads(s.disk, T, H), Chained(s.disk, s.free, 0, {}, H, Y),
         s.disk[p].leaf = FALSE, i \in 1 .. Len(s.disk[p].kids), s.disk[p].kids[i] = a,
         Len(s.disk[p].cells) < 2 * t - 1, Len(s.disk[a].cells) = 2 * t - 1, NEW room
  PROVE  SplitServes(s, SplitChild(s, p, i, room), r, t, H, T, Y, p, i, a)
<1> DEFINE al == PagerAllocate(s, room)
           d  == s.disk
           left  == Node(d[a].leaf, SubSeq(d[a].cells, 1, t - 1), KidsFrom(d[a], 1, t))
           right == Node(d[a].leaf, SubSeq(d[a].cells, t + 1, 2 * t - 1), KidsFrom(d[a], t + 1, 2 * t))
           split == Node(FALSE, InsertAt(d[p].cells, i, d[a].cells[t]), InsertAt(d[p].kids, i + 1, al.page))
           s2 == WriteNode(WriteNode(WriteNode(al.store, a, left), al.page, right), p, split)
           sp == SplitChild(s, p, i, room)
<1>1. sp = IF al.page = 0 THEN [ok |-> FALSE, store |-> al.store] ELSE [ok |-> TRUE, store |-> s2]
  BY DEF SplitChild, MaxKeys
<1>2. Serves(s, al, 0, {}, H, T, Y)
  BY AllocationServes
<1> SUFFICES SplitServes(s, sp, r, t, H, T, Y, p, i, a)
  OBVIOUS
<1>3. a # p
  <2>1. Children(s.disk, r, T, p)
    BY KidsOf
  <2> QED
    BY <2>1 DEF Children
<1> HIDE DEF sp
<1>4. CASE al.page = 0
  <2>1. ~sp.ok /\ sp.store = al.store /\ sp.ok \in BOOLEAN
    BY <1>1, <1>4
  <2>2. Refused(s, al.store, T, Y)
    BY <1>2, <1>4 DEF Serves
  <2> HIDE DEF al
  <2> QED
    BY <2>1, <2>2 DEF SplitServes
<1>5. CASE al.page # 0
  <2> DEFINE z == al.page
             s1 == al.store
  <2>1. sp.ok = TRUE /\ sp.store = s2
    BY <1>1, <1>5
  <2>2. PICK Y2 : Took(s, s1, z, 0, {}, H, T, Y, Y2)
    BY <1>2, <1>5 DEF Serves
  <2>3. /\ z \in DataPages /\ z \notin T /\ z \notin Y2 /\ Filed(s1, T \cup {z}, Y2)
        /\ Whole(s, T, Y) => Whole(s1, T \cup {z}, Y2)
        /\ Chained(s1.disk, s1.free, 0, {}, H, Y2) /\ H \subseteq Y2
        /\ \A q \in T \cup Y2 : s1.disk[q] = d[q]
        /\ SameHeader(s, s1)
    BY <2>2 DEF Took
  <2> HIDE DEF al
  <2> HIDE DEF left, right
  <2> HIDE DEF s1, z
  <2>4. ThreeWrote(s1, s2, T \cup {z}, Y2, a, left, z, right, p, split)
    <3>1. s2 = WriteNode(WriteNode(WriteNode(s1, a, left), z, right), p, split)
      BY DEF s1, z
    <3>2. a \in T \cup {z} /\ z \in T \cup {z} /\ p \in T \cup {z} /\ a # z /\ z # p
      BY <2>3
    <3> HIDE DEF split, s2
    <3> QED
      BY <1>3, <2>3, <3>1, <3>2, ThreeWrites
  <2> HIDE DEF s2
  <2>5. /\ s2.disk[a] = left /\ s2.disk[z] = right /\ s2.disk[p] = split
        /\ \A q \in (T \cup Y2) \ {a, z, p} : s2.disk[q] = d[q]
        /\ Filed(s2, T \cup {z}, Y2) /\ (Whole(s, T, Y) => Whole(s2, T \cup {z}, Y2))
        /\ s2.free = s1.free /\ s2.hdr = s1.hdr
    BY <2>3, <2>4 DEF ThreeWrote
  <2>6. SplitOf(d, s2.disk, T, p, i, a, z, t)
    BY <2>3, <2>5 DEF SplitOf, left, right, z
  <2> HIDE DEF split
  <2>7. Sound(d, r, T, Y2)
    <3>1. HeadsIn(d, T, Y2)
      BY <2>3, HeadsAre
    <3> QED
      BY <3>1, SoundWithin
  <2>8. SplitKeeps(d, s2.disk, r, T, Y2, p, i, a, z, t)
    BY <2>3, <2>6, <2>7, SplitKept
  <2>9. Chained(s2.disk, s2.free, 0, {}, H, Y2)
    <3>1. Y2 \cap T = {}
      BY <2>3 DEF Filed
    <3>2. \A y \in Y2 : s2.disk[y].word = s1.disk[y].word
      BY <2>3, <2>5, <3>1
    <3> QED
      BY <2>3, <2>5, <3>2, ChainedFrame
  <2>10. SameHeader(s, s2)
    BY <2>3, <2>5 DEF SameHeader
  <2>11. Heads(s2.disk, T \cup {z}, H)
    BY <2>8 DEF SplitKeeps
  <2> HIDE DEF d
  <2>12. SplitDone(s, s2, r, t, H, T, Y, p, i, a, z, Y2)
    BY <2>3, <2>5, <2>8, <2>9, <2>10, <2>11 DEF SplitDone, SplitKeeps, d
  <2> QED
    BY <2>1, <2>12 DEF SplitServes
<1> QED
  BY <1>4, <1>5

\* What a step of a deletion does to the pages.
Carries(s, s2, T, Y, T2, Y2) ==
  /\ Filed(s2, T2, Y2) /\ (Whole(s, T, Y) => Whole(s2, T2, Y2)) /\ s2.hdr = s.hdr
  /\ T2 \subseteq T /\ Y \subseteq Y2
  /\ \A H : Heads(s.disk, T, H) => Heads(s2.disk, T2, H)
  /\ \A D : Chained(s.disk, s.free, 0, {}, D, Y) => Chained(s2.disk, s2.free, 0, {}, D, Y2)

\* Doing nothing carries the pages along.
LEMMA CarriesStay ==
  ASSUME NEW s, NEW T, NEW Y, Filed(s, T, Y)
  PROVE  Carries(s, s, T, Y, T, Y)
BY DEF Carries

\* Two steps of a deletion, one after the other.
LEMMA CarriesOn ==
  ASSUME NEW s, NEW s2, NEW s3, NEW T, NEW Y, NEW T2, NEW Y2, NEW T3, NEW Y3,
         Carries(s, s2, T, Y, T2, Y2), Carries(s2, s3, T2, Y2, T3, Y3)
  PROVE  Carries(s, s3, T, Y, T3, Y3)
<1>1. \A H : Heads(s.disk, T, H) => Heads(s3.disk, T3, H)
  BY DEF Carries
<1>2. \A D : Chained(s.disk, s.free, 0, {}, D, Y) => Chained(s3.disk, s3.free, 0, {}, D, Y3)
  BY DEF Carries
<1>3. /\ Filed(s3, T3, Y3) /\ (Whole(s, T, Y) => Whole(s3, T3, Y3)) /\ s3.hdr = s.hdr
      /\ T3 \subseteq T /\ Y \subseteq Y3
  BY DEF Carries
<1> QED
  BY <1>1, <1>2, <1>3 DEF Carries

\* merge_children on a store.
MergeDone(s, s2, T, Y, p, i, a, z) ==
  MergeOf(s.disk, s2.disk, T, p, i, a, z) /\ Carries(s, s2, T, Y, T \ {z}, Y \cup {z})

\* merge_children on a store, with the page it frees.
LEMMA MergeStore ==
  ASSUME NEW s, NEW r, NEW T, NEW Y, Sound(s.disk, r, T, Y), Filed(s, T, Y),
         NEW p, NEW i, NEW a, NEW z, Siblings(s.disk, T, p, i, a, z)
  PROVE  MergeDone(s, MergeChildren(s, p, i), T, Y, p, i, a, z)
<1> DEFINE d == s.disk
           merged == Node(d[a].leaf, d[a].cells \o <<d[p].cells[i]>> \o d[z].cells, d[a].kids \o d[z].kids)
           parent == Node(FALSE, RemoveAt(d[p].cells, i), RemoveAt(d[p].kids, i + 1))
           s1 == PagerFree(s, z)
           s2 == WriteNode(WriteNode(s1, a, merged), p, parent)
<1>1. /\ p \in T /\ a \in T /\ z \in T /\ p # a /\ p # z /\ a # z
      /\ d[p].kids[i] = a /\ d[p].kids[i + 1] = z
  BY DEF Siblings
<1>2. MergeChildren(s, p, i) = s2
  BY <1>1 DEF MergeChildren
<1>3. TreeFreed(s, s1, T, Y, z)
  BY <1>1, TreeFrees
<1> HIDE DEF s1
<1>4. /\ Filed(s1, T \ {z}, Y \cup {z}) /\ (Whole(s, T, Y) => Whole(s1, T \ {z}, Y \cup {z}))
      /\ s1.free = z /\ s1.hdr = s.hdr /\ s1.disk[z].word = s.free
      /\ \A q \in (T \cup Y) \ {z} : s1.disk[q] = d[q]
  BY <1>3 DEF TreeFreed
<1> HIDE DEF merged, parent
<1>5. TwoWrote(s1, s2, T \ {z}, Y \cup {z}, a, merged, p, parent)
  BY <1>1, <1>4, TwoWrites
<1> HIDE DEF s2
<1>6. /\ Filed(s2, T \ {z}, Y \cup {z}) /\ (Whole(s, T, Y) => Whole(s2, T \ {z}, Y \cup {z}))
      /\ s2.free = z /\ s2.hdr = s.hdr
      /\ s2.disk[a] = merged /\ s2.disk[p] = parent
      /\ \A q \in ((T \ {z}) \cup (Y \cup {z})) \ {a, p} : s2.disk[q] = s1.disk[q]
  BY <1>4, <1>5 DEF TwoWrote
<1>7. MergeOf(d, s2.disk, T, p, i, a, z)
  <2>1. \A q \in T \ {p, a, z} : s2.disk[q] = d[q]
    BY <1>4, <1>6
  <2> QED
    BY <1>6, <2>1 DEF MergeOf, merged, parent
<1>8. \A H : Heads(d, T, H) => Heads(s2.disk, T \ {z}, H)
  <2>1. MergeKeeps(d, s2.disk, r, T, Y, p, z)
    BY <1>7, MergedSound
  <2> QED
    BY <2>1 DEF MergeKeeps
<1>9. ASSUME NEW D, Chained(d, s.free, 0, {}, D, Y)
      PROVE  Chained(s2.disk, s2.free, 0, {}, D, Y \cup {z})
  <2>1. z \in DataPages /\ z \notin Y /\ T \cap Y = {}
    BY <1>1, FiledPages DEF Filed
  <2>2. s2.disk[z].word = s.free /\ \A y \in Y : s2.disk[y].word = d[y].word
    BY <1>1, <1>4, <1>6, <2>1
  <2> QED
    BY <1>6, <1>9, <2>1, <2>2, PushedChains
<1>10. Carries(s, s2, T, Y, T \ {z}, Y \cup {z})
  <2>1. T \ {z} \subseteq T /\ Y \subseteq Y \cup {z}
    OBVIOUS
  <2> QED
    BY <1>6, <1>8, <1>9, <2>1 DEF Carries, d
<1> QED
  BY <1>2, <1>7, <1>10 DEF MergeDone

\* The root gives way to its only child.
LowerDone(s, s2, r, r2, t, T, Y) ==
  /\ r2 = s.disk[r].kids[1] /\ r2 \in T \ {r}
  /\ Sound(s2.disk, r2, T \ {r}, Y \cup {r}) /\ Sizes(s2.disk, r2, T \ {r}, t)
  /\ Carries(s, s2, T, Y, T \ {r}, Y \cup {r})

\* The root that lost its last cell is freed, and its child takes its place.
LEMMA LowerStore ==
  ASSUME NEW s, NEW r, NEW t, NEW T, NEW Y, Sound(s.disk, r, T, Y), Near(s.disk, r, T, t, r), Filed(s, T, Y),
         s.disk[r].leaf = FALSE, Len(s.disk[r].cells) = 0
  PROVE  LowerDone(s, PagerFree(s, r), r, s.disk[r].kids[1], t, T, Y)
<1> DEFINE d  == s.disk
           r2 == d[r].kids[1]
           s2 == PagerFree(s, r)
<1>1. LowerKeeps(d, T, r, Y)
  BY LoweredSound
<1>2. r2 \in T \ {r} /\ Sound(d, r2, T \ {r}, Y) /\ \A H : Heads(d, T, H) => Heads(d, T \ {r}, H)
  BY <1>1 DEF LowerKeeps
<1>3. r \in T
  BY DEF Sound, Slots, SlotsBy
<1>4. TreeFreed(s, s2, T, Y, r)
  BY <1>3, TreeFrees
<1> HIDE DEF s2
<1>5. /\ Filed(s2, T \ {r}, Y \cup {r}) /\ (Whole(s, T, Y) => Whole(s2, T \ {r}, Y \cup {r}))
      /\ s2.free = r /\ s2.hdr = s.hdr /\ s2.disk[r].word = s.free
      /\ \A q \in (T \cup Y) \ {r} : s2.disk[q] = d[q]
  BY <1>4 DEF TreeFreed
<1>6. \A q \in T \ {r} : s2.disk[q] = d[q]
  BY <1>5
<1> HIDE DEF r2
<1>7. Sound(s2.disk, r2, T \ {r}, Y \cup {r}) /\ \A H : Heads(d, T \ {r}, H) => Heads(s2.disk, T \ {r}, H)
  <2>1. Y \subseteq Y \cup {r}
    OBVIOUS
  <2> QED
    BY <1>2, <1>6, <2>1, SameSound
<1>8. Sizes(s2.disk, r2, T \ {r}, t)
  BY <1>6 DEF Sizes, Near
<1>9. ASSUME NEW D, Chained(d, s.free, 0, {}, D, Y)
      PROVE  Chained(s2.disk, s2.free, 0, {}, D, Y \cup {r})
  <2>1. r \in DataPages /\ r \notin Y
    BY <1>3, FiledPages DEF Filed
  <2>2. s2.disk[r].word = s.free /\ \A y \in Y : s2.disk[y].word = d[y].word
    BY <1>5, <2>1
  <2> QED
    BY <1>5, <1>9, <2>1, <2>2, PushedChains
<1>10. Carries(s, s2, T, Y, T \ {r}, Y \cup {r})
  <2>1. T \ {r} \subseteq T /\ Y \subseteq Y \cup {r}
    OBVIOUS
  <2> QED
    BY <1>2, <1>5, <1>7, <1>9, <2>1 DEF Carries, d
<1> QED
  BY <1>2, <1>7, <1>8, <1>10 DEF LowerDone, r2, s2

\* Three pages of the tree written, the rest as it was.
LEMMA TurnedCarries ==
  ASSUME NEW s, NEW s2, NEW T, NEW Y, NEW a, NEW ca, NEW z, NEW cz, NEW p, NEW cp,
         Filed(s, T, Y), a \in T, z \in T, p \in T,
         ThreeWrote(s, s2, T, Y, a, ca, z, cz, p, cp), \A H : Heads(s.disk, T, H) => Heads(s2.disk, T, H)
  PROVE  Carries(s, s2, T, Y, T, Y)
<1>1. /\ Filed(s2, T, Y) /\ (Whole(s, T, Y) => Whole(s2, T, Y)) /\ s2.free = s.free /\ s2.hdr = s.hdr
      /\ \A q \in (T \cup Y) \ {a, z, p} : s2.disk[q] = s.disk[q]
  BY DEF ThreeWrote
<1>2. T \cap Y = {}
  BY DEF Filed
<1>3. \A y \in Y : s2.disk[y].word = s.disk[y].word
  BY <1>1, <1>2
<1>4. ASSUME NEW D, Chained(s.disk, s.free, 0, {}, D, Y)
      PROVE  Chained(s2.disk, s2.free, 0, {}, D, Y)
  BY <1>1, <1>3, <1>4, ChainedFrame
<1> QED
  BY <1>1, <1>4 DEF Carries

\* The borrows, on a store.
LEMMA BorrowLeftStore ==
  ASSUME NEW s, NEW T, NEW Y, Filed(s, T, Y), NEW p \in T, NEW i, NEW a \in T, NEW z \in T, a # z, a # p, z # p,
         i \in Int, s.disk[p].kids[i] = a, s.disk[p].kids[i + 1] = z
  PROVE  LET s2 == BorrowFromLeft(s, p, i + 1) IN
         /\ RightOf(s.disk, s2.disk, T, p, i, a, z)
         /\ \E ca, cz, cp : ThreeWrote(s, s2, T, Y, z, cz, a, ca, p, cp)
<1> DEFINE d == s.disk
           fuller == Node(d[z].leaf, <<d[p].cells[i]>> \o d[z].cells,
                          KidsFrom(d[a], Len(d[a].kids), Len(d[a].kids)) \o d[z].kids)
           leaner == Node(d[a].leaf, Front(d[a].cells), KidsFrom(d[a], 1, Len(d[a].kids) - 1))
           turned == Node(FALSE, ReplaceAt(d[p].cells, i, Last(d[a].cells)), d[p].kids)
           s2 == WriteNode(WriteNode(WriteNode(s, z, fuller), a, leaner), p, turned)
<1>1. (i + 1) - 1 = i
  OBVIOUS
<1>2. BorrowFromLeft(s, p, i + 1) = s2
  BY <1>1 DEF BorrowFromLeft
<1> HIDE DEF fuller, leaner, turned
<1>3. ThreeWrote(s, s2, T, Y, z, fuller, a, leaner, p, turned)
  BY ThreeWrites
<1> HIDE DEF s2
<1>4. RightOf(d, s2.disk, T, p, i, a, z)
  <2>1. /\ s2.disk[z] = fuller /\ s2.disk[a] = leaner /\ s2.disk[p] = turned
        /\ \A q \in T \ {p, a, z} : s2.disk[q] = d[q]
    BY <1>3 DEF ThreeWrote
  <2> QED
    BY <2>1 DEF RightOf, fuller, leaner, turned
<1> QED
  BY <1>2, <1>3, <1>4

\* borrow_from_right on a store.
LEMMA BorrowRightStore ==
  ASSUME NEW s, NEW T, NEW Y, Filed(s, T, Y), NEW p \in T, NEW i, NEW a \in T, NEW z \in T, a # z, a # p, z # p,
         s.disk[p].kids[i] = a, s.disk[p].kids[i + 1] = z
  PROVE  LET s2 == BorrowFromRight(s, p, i) IN
         /\ LeftOf(s.disk, s2.disk, T, p, i, a, z)
         /\ \E ca, cz, cp : ThreeWrote(s, s2, T, Y, a, ca, z, cz, p, cp)
<1> DEFINE d == s.disk
           fuller == Node(d[a].leaf, Append(d[a].cells, d[p].cells[i]), d[a].kids \o KidsFrom(d[z], 1, 1))
           leaner == Node(d[z].leaf, Tail(d[z].cells), KidsFrom(d[z], 2, Len(d[z].kids)))
           turned == Node(FALSE, ReplaceAt(d[p].cells, i, Head(d[z].cells)), d[p].kids)
           s2 == WriteNode(WriteNode(WriteNode(s, a, fuller), z, leaner), p, turned)
<1>2. BorrowFromRight(s, p, i) = s2
  BY DEF BorrowFromRight
<1> HIDE DEF fuller, leaner, turned
<1>3. ThreeWrote(s, s2, T, Y, a, fuller, z, leaner, p, turned)
  BY ThreeWrites
<1> HIDE DEF s2
<1>4. LeftOf(d, s2.disk, T, p, i, a, z)
  <2>1. /\ s2.disk[a] = fuller /\ s2.disk[z] = leaner /\ s2.disk[p] = turned
        /\ \A q \in T \ {p, a, z} : s2.disk[q] = d[q]
    BY <1>3 DEF ThreeWrote
  <2> QED
    BY <2>1 DEF LeftOf, fuller, leaner, turned
<1> QED
  BY <1>2, <1>3, <1>4

\* What ensure_min_keys does when it prepares the child that the position of k names.
EnsureDone(s, s2, r, t, T, Y, p, k) ==
  \E T2, Y2 : /\ Y \subseteq Y2 /\ Ensured(s.disk, s2.disk, r, T, T2, Y, t, p, k)
              /\ Carries(s, s2, T, Y, T2, Y2)

\* The four ways of ensure_min_keys, and the numbers of cells that lead to them.
LEMMA EnsureIs ==
  ASSUME NEW s, NEW p, NEW b \in Nat, order \in Nat, NEW kids, kids = s.disk[p].kids, Len(kids) \in Nat,
         NEW n, \A j \in 1 .. Len(kids) : n[j] = Len(s.disk[kids[j]].cells) /\ n[j] \in Nat,
         b + 1 \in 1 .. Len(kids), Len(kids) >= 2,
         NEW e, e = EnsureMinKeys(s, p, b + 1)
  PROVE  \/ n[b + 1] >= order /\ e = s
         \/ n[b + 1] < order /\ b >= 1 /\ n[b] > order - 1 /\ e = BorrowFromLeft(s, p, b + 1)
         \/ n[b + 1] < order /\ b + 2 \in 1 .. Len(kids) /\ n[b + 2] > order - 1 /\ e = BorrowFromRight(s, p, b + 1)
         \/ n[b + 1] < order /\ b >= 1 /\ n[b] <= order - 1 /\ e = MergeChildren(s, p, b)
         \/ n[b + 1] < order /\ b = 0 /\ n[2] <= order - 1 /\ e = MergeChildren(s, p, 1)
<1> DEFINE i  == b + 1
           ki == Len(s.disk[s.disk[p].kids[i]].cells)
           kl == Len(s.disk[s.disk[p].kids[i - 1]].cells)
           kr == Len(s.disk[s.disk[p].kids[i + 1]].cells)
           hasLeft  == i > 1
           hasRight == i < Len(s.disk[p].kids)
           A == ki >= order
           B == ki < order /\ hasLeft /\ kl > MinKeys
           C == ki < order /\ ~(hasLeft /\ kl > MinKeys) /\ hasRight /\ kr > MinKeys
           u == s
           v == BorrowFromLeft(s, p, i)
           w == BorrowFromRight(s, p, i)
           x == MergeChildren(s, p, IF hasLeft THEN i - 1 ELSE i)
<1>1. e = CASE A -> u [] B -> v [] C -> w [] OTHER -> x
  BY DEF EnsureMinKeys
<1>2. i - 1 = b /\ i + 1 = b + 2 /\ (hasLeft <=> b >= 1) /\ (hasRight <=> b + 2 \in 1 .. Len(kids))
  OBVIOUS
<1>3. ki = n[i] /\ n[i] \in Nat
  OBVIOUS
<1>4. b >= 1 => kl = n[b] /\ n[b] \in Nat
  <2> SUFFICES ASSUME b >= 1 PROVE kl = n[b] /\ n[b] \in Nat
    OBVIOUS
  <2>1. b \in 1 .. Len(kids) /\ i - 1 = b
    OBVIOUS
  <2> QED
    BY <2>1
<1>5. b + 2 \in 1 .. Len(kids) => kr = n[b + 2] /\ n[b + 2] \in Nat
  <2>1. i + 1 = b + 2
    OBVIOUS
  <2> QED
    BY <2>1
<1>6. MinKeys = order - 1
  BY DEF MinKeys
<1>7. b = 0 => b + 2 \in 1 .. Len(kids) /\ b + 2 = 2 /\ i = 1 /\ ~hasLeft
  OBVIOUS
<1>8. x = IF hasLeft THEN MergeChildren(s, p, i - 1) ELSE MergeChildren(s, p, i)
  OBVIOUS
<1> HIDE DEF ki, kl, kr
<1>9. A \in BOOLEAN /\ B \in BOOLEAN /\ C \in BOOLEAN /\ ~(A /\ B) /\ ~(A /\ C) /\ ~(B /\ C)
  BY <1>3
<1>10. A \/ ki < order
  BY <1>3
<1> SUFFICES \/ n[i] >= order /\ e = s
             \/ n[i] < order /\ b >= 1 /\ n[b] > order - 1 /\ e = v
             \/ n[i] < order /\ b + 2 \in 1 .. Len(kids) /\ n[b + 2] > order - 1 /\ e = w
             \/ n[i] < order /\ b >= 1 /\ n[b] <= order - 1 /\ e = MergeChildren(s, p, b)
             \/ n[i] < order /\ b = 0 /\ n[2] <= order - 1 /\ e = MergeChildren(s, p, 1)
  OBVIOUS
<1>11. B => n[i] < order /\ b >= 1 /\ n[b] > order - 1
  BY <1>2, <1>3, <1>4, <1>6
<1>12. C => n[i] < order /\ b + 2 \in 1 .. Len(kids) /\ n[b + 2] > order - 1
  BY <1>2, <1>3, <1>5, <1>6
<1>13. A => n[i] >= order
  BY <1>3
<1>14. ~A /\ ~B /\ ~C /\ b >= 1 => n[i] < order /\ n[b] <= order - 1 /\ x = MergeChildren(s, p, b)
  <2> SUFFICES ASSUME ~A, ~B, ~C, b >= 1
               PROVE  n[i] < order /\ n[b] <= order - 1 /\ x = MergeChildren(s, p, b)
    OBVIOUS
  <2>1. ki < order /\ hasLeft
    BY <1>2, <1>10
  <2>2. ~(kl > order - 1)
    BY <2>1, <1>6
  <2>3. n[b] <= order - 1
    BY <2>2, <1>4
  <2> QED
    BY <1>2, <1>3, <1>8, <2>1, <2>3
<1>15. ~A /\ ~B /\ ~C /\ b = 0 => n[i] < order /\ n[2] <= order - 1 /\ x = MergeChildren(s, p, 1)
  <2> SUFFICES ASSUME ~A, ~B, ~C, b = 0
               PROVE  n[i] < order /\ n[2] <= order - 1 /\ x = MergeChildren(s, p, 1)
    OBVIOUS
  <2>1. ki < order /\ ~hasLeft /\ hasRight /\ i = 1
    BY <1>2, <1>7, <1>10
  <2>2. ~(kr > order - 1)
    BY <2>1, <1>6
  <2>3. n[2] <= order - 1
    BY <2>2, <1>5, <1>7
  <2> QED
    BY <1>3, <1>8, <2>1, <2>3
<1>16. b >= 1 \/ b = 0
  OBVIOUS
<1>18. u = s
  OBVIOUS
<1> HIDE DEF u, v, w, x
<1>19. ki \in Nat
  BY <1>3
<1>20. CASE A
  <2>1. e = u
    BY <1>1, <1>19, <1>20
  <2> QED
    BY <1>13, <1>18, <1>20, <2>1
<1>21. CASE B
  <2>1. e = v
    BY <1>1, <1>19, <1>21
  <2> QED
    BY <1>11, <1>21, <2>1
<1>22. CASE C
  <2>1. e = w
    BY <1>1, <1>19, <1>22
  <2> QED
    BY <1>12, <1>22, <2>1
<1>23. CASE ~A /\ ~B /\ ~C
  <2>1. e = x
    BY <1>1, <1>23
  <2> QED
    BY <1>14, <1>15, <1>16, <1>23, <2>1
<1> QED
  BY <1>20, <1>21, <1>22, <1>23

\* The two children a cell separates.
LEMMA SiblingsNamed ==
  ASSUME NEW d, NEW r, NEW T, NEW Y, Sound(d, r, T, Y), NEW p \in T, d[p].leaf = FALSE,
         NEW i \in 1 .. Len(d[p].cells), NEW a, NEW z, a = d[p].kids[i], z = d[p].kids[i + 1]
  PROVE  Siblings(d, T, p, i, a, z)
<1>1. Siblings(d, T, p, i, d[p].kids[i], d[p].kids[i + 1])
  BY SiblingsAre
<1> QED
  BY <1>1

\* The rotations, with what they do to the pages.
LEMMA EnsuredLeft ==
  ASSUME NEW s, NEW r, NEW T, NEW Y, NEW t, NEW p, NEW k, NEW b, Entering(s.disk, r, T, Y, t, p, k, b),
         Filed(s, T, Y), b \in 1 .. Len(s.disk[p].cells),
         NEW a, NEW z, a = s.disk[p].kids[b], z = s.disk[p].kids[b + 1],
         Len(s.disk[a].cells) > t - 1, Len(s.disk[z].cells) < t
  PROVE  EnsureDone(s, BorrowFromLeft(s, p, b + 1), r, t, T, Y, p, k)
<1> DEFINE s2 == BorrowFromLeft(s, p, b + 1)
<1>1. /\ Sound(s.disk, r, T, Y) /\ p \in T /\ s.disk[p].leaf = FALSE
  BY DEF Entering
<1>2. Siblings(s.disk, T, p, b, a, z)
  BY <1>1, SiblingsNamed
<1>3. a \in T /\ z \in T /\ a # z /\ a # p /\ z # p
  BY <1>2 DEF Siblings
<1>4. /\ RightOf(s.disk, s2.disk, T, p, b, a, z)
      /\ \E ca, cz, cp : ThreeWrote(s, s2, T, Y, z, cz, a, ca, p, cp)
  <2>1. b \in Int
    OBVIOUS
  <2> QED
    BY <1>1, <1>3, <2>1, BorrowLeftStore
<1> SUFFICES EnsureDone(s, s2, r, t, T, Y, p, k)
  OBVIOUS
<1> HIDE DEF s2
<1>5. Ensured(s.disk, s2.disk, r, T, T, Y, t, p, k)
  <2>1. RightOf(s.disk, s2.disk, T, p, b, s.disk[p].kids[b], s.disk[p].kids[b + 1])
    BY <1>4
  <2>2. b >= 1 /\ Len(s.disk[s.disk[p].kids[b]].cells) > t - 1 /\ Len(s.disk[s.disk[p].kids[b + 1]].cells) < t
    OBVIOUS
  <2> QED
    BY <2>1, <2>2, BorrowedLeft
<1>6. PICK ca, cz, cp : ThreeWrote(s, s2, T, Y, z, cz, a, ca, p, cp)
  BY <1>4
<1>7. \A H : Heads(s.disk, T, H) => Heads(s2.disk, T, H)
  BY <1>5 DEF Ensured
<1>8. Carries(s, s2, T, Y, T, Y)
  BY <1>1, <1>3, <1>6, <1>7, TurnedCarries
<1> QED
  BY <1>5, <1>8 DEF EnsureDone

\* ensure_child_has_enough_keys borrows from the right sibling.
LEMMA EnsuredRight ==
  ASSUME NEW s, NEW r, NEW T, NEW Y, NEW t, NEW p, NEW k, NEW b, Entering(s.disk, r, T, Y, t, p, k, b),
         Filed(s, T, Y), NEW i, i = b + 1, i \in 1 .. Len(s.disk[p].cells), b < Len(s.disk[p].cells),
         NEW a, NEW z, a = s.disk[p].kids[i], z = s.disk[p].kids[i + 1],
         Len(s.disk[z].cells) > t - 1, Len(s.disk[a].cells) < t
  PROVE  EnsureDone(s, BorrowFromRight(s, p, i), r, t, T, Y, p, k)
<1> DEFINE s2 == BorrowFromRight(s, p, i)
<1>1. /\ Sound(s.disk, r, T, Y) /\ p \in T /\ s.disk[p].leaf = FALSE
  BY DEF Entering
<1>2. Siblings(s.disk, T, p, i, a, z)
  BY <1>1, SiblingsNamed
<1>3. a \in T /\ z \in T /\ a # z /\ a # p /\ z # p
  BY <1>2 DEF Siblings
<1>4. /\ LeftOf(s.disk, s2.disk, T, p, i, a, z)
      /\ \E ca, cz, cp : ThreeWrote(s, s2, T, Y, a, ca, z, cz, p, cp)
  BY <1>1, <1>3, BorrowRightStore
<1> SUFFICES EnsureDone(s, s2, r, t, T, Y, p, k)
  OBVIOUS
<1> HIDE DEF s2
<1>5. Ensured(s.disk, s2.disk, r, T, T, Y, t, p, k)
  <2>1. LeftOf(s.disk, s2.disk, T, p, b + 1, s.disk[p].kids[b + 1], s.disk[p].kids[(b + 1) + 1])
    BY <1>4
  <2>2. /\ b < Len(s.disk[p].cells)
        /\ Len(s.disk[s.disk[p].kids[(b + 1) + 1]].cells) > t - 1 /\ Len(s.disk[s.disk[p].kids[b + 1]].cells) < t
    OBVIOUS
  <2> QED
    BY <2>1, <2>2, BorrowedRight
<1>6. PICK ca, cz, cp : ThreeWrote(s, s2, T, Y, a, ca, z, cz, p, cp)
  BY <1>4
<1>7. \A H : Heads(s.disk, T, H) => Heads(s2.disk, T, H)
  BY <1>5 DEF Ensured
<1>8. Carries(s, s2, T, Y, T, Y)
  BY <1>1, <1>3, <1>6, <1>7, TurnedCarries
<1> QED
  BY <1>5, <1>8 DEF EnsureDone

\* The merge.
LEMMA EnsuredMerge ==
  ASSUME NEW s, NEW r, NEW T, NEW Y, NEW t, NEW p, NEW k, NEW b, Entering(s.disk, r, T, Y, t, p, k, b),
         Filed(s, T, Y), NEW i, i \in 1 .. Len(s.disk[p].cells), i = b \/ (b = 0 /\ i = 1),
         NEW a, NEW z, a = s.disk[p].kids[i], z = s.disk[p].kids[i + 1],
         Len(s.disk[a].cells) <= t - 1, Len(s.disk[z].cells) <= t - 1
  PROVE  EnsureDone(s, MergeChildren(s, p, i), r, t, T, Y, p, k)
<1> DEFINE s2 == MergeChildren(s, p, i)
<1>1. /\ Sound(s.disk, r, T, Y) /\ p \in T /\ s.disk[p].leaf = FALSE
  BY DEF Entering
<1>2. Siblings(s.disk, T, p, i, a, z)
  BY <1>1, SiblingsNamed
<1>3. MergeDone(s, s2, T, Y, p, i, a, z)
  BY <1>1, <1>2, MergeStore
<1> SUFFICES EnsureDone(s, s2, r, t, T, Y, p, k)
  OBVIOUS
<1> HIDE DEF s2
<1>4. MergeOf(s.disk, s2.disk, T, p, i, a, z) /\ Carries(s, s2, T, Y, T \ {z}, Y \cup {z})
  BY <1>3 DEF MergeDone
<1>5. Ensured(s.disk, s2.disk, r, T, T \ {z}, Y, t, p, k)
  BY <1>4, MergeEnsured
<1>6. Y \subseteq Y \cup {z}
  OBVIOUS
<1> QED
  BY <1>4, <1>5, <1>6 DEF EnsureDone

\* ensure_min_keys prepares the child to enter, and keeps the tree and the pages.
LEMMA EnsureStore ==
  ASSUME NEW s, NEW r, NEW T, NEW Y, NEW t, NEW p, NEW k, NEW b, Entering(s.disk, r, T, Y, t, p, k, b),
         Filed(s, T, Y), t = order
  PROVE  EnsureDone(s, EnsureMinKeys(s, p, b + 1), r, t, T, Y, p, k)
<1> DEFINE d == s.disk
           kids == d[p].kids
           n == [j \in 1 .. Len(kids) |-> Len(d[kids[j]].cells)]
           e == EnsureMinKeys(s, p, b + 1)
<1>1. /\ Sound(d, r, T, Y) /\ Sizes(d, r, T, t) /\ p \in T /\ d[p].leaf = FALSE
      /\ Position(d[p].cells, k, b) /\ t \in Nat
  BY DEF Entering
<1>2. Children(d, r, T, p)
  BY <1>1, KidsOf
<1>3. /\ Len(kids) = Len(d[p].cells) + 1 /\ Len(d[p].cells) \in Nat
      /\ \A j \in 1 .. Len(kids) : kids[j] \in T
  BY <1>2 DEF Children
<1>4. Len(d[p].cells) >= 1
  BY <1>1 DEF Sizes
<1>5. b \in Nat /\ b \in 0 .. Len(d[p].cells)
  BY <1>1, <1>3 DEF Position
<1>6. b + 1 \in 1 .. Len(kids) /\ Len(kids) >= 2 /\ Len(kids) \in Nat
  BY <1>3, <1>4, <1>5
<1>7. \A j \in 1 .. Len(kids) : n[j] = Len(d[kids[j]].cells) /\ n[j] \in Nat
  <2>1. Nodes(d, T)
    BY <1>1 DEF Sound
  <2> QED
    BY <1>3, <2>1, NodeLens
<1> SUFFICES EnsureDone(s, e, r, t, T, Y, p, k)
  OBVIOUS
<1> HIDE DEF n
<1>8. \/ n[b + 1] >= order /\ e = s
      \/ n[b + 1] < order /\ b >= 1 /\ n[b] > order - 1 /\ e = BorrowFromLeft(s, p, b + 1)
      \/ n[b + 1] < order /\ b + 2 \in 1 .. Len(kids) /\ n[b + 2] > order - 1 /\ e = BorrowFromRight(s, p, b + 1)
      \/ n[b + 1] < order /\ b >= 1 /\ n[b] <= order - 1 /\ e = MergeChildren(s, p, b)
      \/ n[b + 1] < order /\ b = 0 /\ n[2] <= order - 1 /\ e = MergeChildren(s, p, 1)
  <2>1. order \in Nat
    BY <1>1
  <2> QED
    BY <1>5, <1>6, <1>7, <2>1, EnsureIs
<1> HIDE DEF e
<1>9. CASE n[b + 1] >= order /\ e = s
  <2>1. Len(d[d[p].kids[b + 1]].cells) >= t
    BY <1>6, <1>7, <1>9
  <2>2. Ensured(d, d, r, T, T, Y, t, p, k)
    BY <2>1, StayEnsured
  <2>3. Carries(s, s, T, Y, T, Y)
    BY CarriesStay
  <2>4. EnsureDone(s, s, r, t, T, Y, p, k)
    BY <2>2, <2>3 DEF EnsureDone
  <2> QED
    BY <1>9, <2>4
<1>10. CASE n[b + 1] < order /\ b >= 1 /\ n[b] > order - 1 /\ e = BorrowFromLeft(s, p, b + 1)
  <2>1. b \in 1 .. Len(d[p].cells) /\ b \in 1 .. Len(kids)
    BY <1>3, <1>5, <1>10
  <2>2. Len(d[kids[b]].cells) > t - 1 /\ Len(d[kids[b + 1]].cells) < t
    BY <1>6, <1>7, <1>10, <2>1
  <2>3. EnsureDone(s, BorrowFromLeft(s, p, b + 1), r, t, T, Y, p, k)
    BY <2>1, <2>2, EnsuredLeft
  <2> QED
    BY <1>10, <2>3
<1>11. CASE n[b + 1] < order /\ b + 2 \in 1 .. Len(kids) /\ n[b + 2] > order - 1
            /\ e = BorrowFromRight(s, p, b + 1)
  <2>1. b + 1 \in 1 .. Len(d[p].cells) /\ b < Len(d[p].cells)
    BY <1>3, <1>5, <1>11
  <2>2. (b + 1) + 1 = b + 2
    BY <1>5
  <2>3. Len(d[kids[(b + 1) + 1]].cells) > t - 1 /\ Len(d[kids[b + 1]].cells) < t
    BY <1>6, <1>7, <1>11, <2>2
  <2>4. EnsureDone(s, BorrowFromRight(s, p, b + 1), r, t, T, Y, p, k)
    BY <2>1, <2>3, EnsuredRight
  <2> QED
    BY <1>11, <2>4
<1>12. CASE n[b + 1] < order /\ b >= 1 /\ n[b] <= order - 1 /\ e = MergeChildren(s, p, b)
  <2>1. b \in 1 .. Len(d[p].cells) /\ b \in 1 .. Len(kids)
    BY <1>3, <1>5, <1>12
  <2>2. Len(d[kids[b]].cells) <= t - 1 /\ Len(d[kids[b + 1]].cells) <= t - 1
    <3>1. n[b + 1] < t /\ n[b + 1] \in Nat /\ n[b] <= t - 1
      BY <1>6, <1>7, <1>12
    <3>2. n[b + 1] <= t - 1
      BY <3>1, <1>1
    <3>3. n[b] = Len(d[kids[b]].cells) /\ n[b + 1] = Len(d[kids[b + 1]].cells)
      BY <1>6, <1>7, <2>1
    <3> QED
      BY <3>1, <3>2, <3>3
  <2>3. EnsureDone(s, MergeChildren(s, p, b), r, t, T, Y, p, k)
    BY <2>1, <2>2, EnsuredMerge
  <2> QED
    BY <1>12, <2>3
<1>13. CASE n[b + 1] < order /\ b = 0 /\ n[2] <= order - 1 /\ e = MergeChildren(s, p, 1)
  <2>1. 1 \in 1 .. Len(d[p].cells) /\ 2 \in 1 .. Len(kids) /\ 1 \in 1 .. Len(kids) /\ 1 + 1 = 2 /\ b + 1 = 1
    BY <1>3, <1>4, <1>13
  <2>2. Len(d[kids[1]].cells) <= t - 1 /\ Len(d[kids[2]].cells) <= t - 1
    <3>1. n[1] < t /\ n[1] \in Nat /\ n[2] <= t - 1
      BY <1>7, <1>13, <2>1
    <3>2. n[1] <= t - 1
      BY <3>1, <1>1
    <3>3. n[1] = Len(d[kids[1]].cells) /\ n[2] = Len(d[kids[2]].cells)
      BY <1>7, <2>1
    <3> QED
      BY <3>1, <3>2, <3>3
  <2>3. EnsureDone(s, MergeChildren(s, p, 1), r, t, T, Y, p, k)
    BY <1>13, <2>1, <2>2, EnsuredMerge
  <2> QED
    BY <1>13, <2>3
<1> QED
  BY <1>8, <1>9, <1>10, <1>11, <1>12, <1>13

================================================================================

-------------------------------- MODULE Induction ------------------------------
(***************************************************************************)
(* Induction as facts about sets: a property that fails somewhere fails at *)
(* a smallest place.  A proof takes the set of places where the property   *)
(* fails, and a smallest element of it for a contradiction.  With it, what *)
(* is found by following the words of pages, as a list of pages: how the   *)
(* list changes with a step, and that a walk along it meets its pages.     *)
(***************************************************************************)
EXTENDS Naturals, FiniteSetTheorems, WellFoundedInduction, TLAPS

\* Among some subsets of a finite set one is smallest: no other one of them is a part of it.
LEMMA SmallestSubset ==
  ASSUME NEW S, IsFiniteSet(S), NEW T \in SUBSET SUBSET S, T # {}
  PROVE  \E U \in T : \A V \in T : V \subseteq U => V = U
<1>1. FiniteSubsetsOf(S) = SUBSET S
  BY FS_FiniteSubsetsOfFinite
<1>2. IsWellFoundedOn(StrictSubsetOrdering(S), FiniteSubsetsOf(S))
  BY FS_StrictSubsetOrderingWellFounded
<1>3. PICK U \in T : \A V \in T : <<V, U>> \notin StrictSubsetOrdering(S)
  BY <1>1, <1>2, WFMin
<1> QED
  BY <1>3 DEF StrictSubsetOrdering

\* Among some natural numbers one is smallest.
LEMMA SmallestNumber ==
  ASSUME NEW T \in SUBSET Nat, T # {}
  PROVE  \E m \in T : \A k \in T : m <= k
<1>1. PICK n \in T : TRUE
  OBVIOUS
<1> DEFINE Low  == {k \in T : k <= n}
           Sets == {0 .. k : k \in Low}
           all  == 0 .. n
<1>2. IsFiniteSet(all)
  BY FS_Interval
<1>3. Sets \in SUBSET SUBSET all
  <2> SUFFICES ASSUME NEW k \in Low PROVE 0 .. k \in SUBSET all
    OBVIOUS
  <2> QED
    OBVIOUS
<1>4. Sets # {}
  <2>1. n \in Low
    OBVIOUS
  <2> QED
    BY <2>1
<1>5. PICK U \in Sets : \A V \in Sets : V \subseteq U => V = U
  <2> HIDE DEF Sets, all
  <2> QED
    BY <1>2, <1>3, <1>4, SmallestSubset
<1>6. PICK m \in Low : U = 0 .. m
  OBVIOUS
<1>7. ASSUME NEW k \in T PROVE m <= k
  <2> SUFFICES ASSUME k < m PROVE FALSE
    OBVIOUS
  <2>1. k \in Low
    OBVIOUS
  <2>2. 0 .. k \in Sets
    BY <2>1
  <2>3. m \in 0 .. m /\ m \notin 0 .. k /\ 0 .. k \subseteq 0 .. m
    OBVIOUS
  <2> QED
    BY <2>2, <2>3, <1>5, <1>6
<1> QED
  BY <1>7

--------------------------------------------------------------------------------
\* Walks: a function followed for a number of steps.

\* g leads from x by f, for a number of steps.
Leads(f, x, last, g) == g = [n \in 0 .. last |-> IF n = 0 THEN x ELSE f[g[n - 1]]]

\* f does not lead out of A.
Closed(f, A) == \A y \in A : f[y] \in A

\* There is such a g, whatever f is.
LEMMA Iterated ==
  ASSUME NEW A, NEW f, Closed(f, A), NEW x \in A, NEW last \in Nat
  PROVE  \E g : Leads(f, x, last, g)
<1>0. \A y \in A : f[y] \in A
  BY DEF Closed
<1> DEFINE P(k) == \E g \in [0 .. k -> A] : g = [n \in 0 .. k |-> IF n = 0 THEN x ELSE f[g[n - 1]]]
           T == {k \in Nat : ~P(k)}
<1>1. P(0)
  <2> DEFINE g == [n \in 0 .. 0 |-> x]
  <2>1. g \in [0 .. 0 -> A] /\ g = [n \in 0 .. 0 |-> IF n = 0 THEN x ELSE f[g[n - 1]]]
    OBVIOUS
  <2> QED
    BY <2>1
<1>2. ASSUME NEW k \in Nat, P(k) PROVE P(k + 1)
  <2>1. PICK g \in [0 .. k -> A] : g = [n \in 0 .. k |-> IF n = 0 THEN x ELSE f[g[n - 1]]]
    BY <1>2
  <2> DEFINE g2 == [n \in 0 .. k + 1 |-> IF n = k + 1 THEN f[g[k]] ELSE g[n]]
  <2>2. g2 \in [0 .. k + 1 -> A]
    BY <1>0
  <2>3. ASSUME NEW n \in 0 .. k + 1
        PROVE  g2[n] = IF n = 0 THEN x ELSE f[g2[n - 1]]
    <3>1. CASE n = k + 1
      BY <3>1
    <3>2. CASE n # k + 1 /\ n = 0
      BY <2>1, <3>2
    <3>3. CASE n # k + 1 /\ n # 0
      <4>1. n \in 0 .. k /\ n - 1 \in 0 .. k + 1 /\ n - 1 # k + 1
        BY <3>3
      <4> QED
        BY <2>1, <3>3, <4>1
    <3> QED
      BY <3>1, <3>2, <3>3
  <2>4. g2 = [n \in 0 .. k + 1 |-> IF n = 0 THEN x ELSE f[g2[n - 1]]]
    <3> HIDE DEF g2
    <3> QED
      BY <2>2, <2>3
  <2> QED
    BY <2>2, <2>4
<1> HIDE DEF P
<1>3. T = {}
  <2> SUFFICES ASSUME T # {} PROVE FALSE
    OBVIOUS
  <2>1. PICK m \in T : \A k \in T : m <= k
    BY SmallestNumber
  <2>2. m # 0
    BY <1>1
  <2>3. m - 1 \in Nat /\ P(m - 1)
    BY <2>1, <2>2
  <2>4. P((m - 1) + 1)
    BY <1>2, <2>3
  <2> QED
    BY <2>4
<1>4. P(last)
  BY <1>3
<1> QED
  BY <1>4 DEF P, Leads

\* However many steps: it stays where the function leads.
LEMMA IteratedStays ==
  ASSUME NEW A, NEW f, Closed(f, A), NEW x \in A, NEW last \in Nat,
         NEW g, Leads(f, x, last, g)
  PROVE  /\ g \in [0 .. last -> A] /\ g[0] = x
         /\ \A n \in Nat : n + 1 <= last => g[n + 1] = f[g[n]]
<1>0. \A n \in 0 .. last : g[n] = IF n = 0 THEN x ELSE f[g[n - 1]]
  BY DEF Leads
<1>2. \A y \in A : f[y] \in A
  BY DEF Closed
<1> DEFINE T == {n \in 0 .. last : g[n] \notin A}
<1>1. T = {}
  <2> SUFFICES ASSUME T # {} PROVE FALSE
    OBVIOUS
  <2>1. T \in SUBSET Nat
    OBVIOUS
  <2>2. PICK m \in T : \A k \in T : m <= k
    <3> HIDE DEF T
    <3> QED
      BY <2>1, SmallestNumber
  <2>3. m # 0 /\ m \in 0 .. last
    BY <1>0
  <2>4. m - 1 \in 0 .. last /\ m - 1 \notin T
    <3>1. m - 1 \in 0 .. last /\ ~ m <= m - 1
      BY <2>3
    <3> HIDE DEF T
    <3> QED
      BY <2>2, <3>1
  <2>5. g[m - 1] \in A
    BY <2>4
  <2>6. g[m] = f[g[m - 1]]
    BY <1>0, <2>3
  <2> QED
    BY <1>2, <2>5, <2>6
<1>3. g = [n \in 0 .. last |-> g[n]]
  BY DEF Leads
<1>4. g \in [0 .. last -> A]
  <2>1. \A n \in 0 .. last : g[n] \in A
    BY <1>1
  <2> HIDE <1>0
  <2> QED
    BY <1>3, <2>1
<1>5. ASSUME NEW n \in Nat, n + 1 <= last PROVE g[n + 1] = f[g[n]]
  <2>1. n + 1 \in 0 .. last /\ n + 1 # 0 /\ (n + 1) - 1 = n
    BY <1>5
  <2> QED
    BY <1>0, <2>1
<1> QED
  BY <1>0, <1>4, <1>5

--------------------------------------------------------------------------------
\* Lists of pages, linked by their words.

\* c is the list from the page f along the words of d: the pages of S, each once, and 0.
FollowsWords(d, f, S, k, c) ==
  /\ c[1] = f /\ c[k + 1] = 0
  /\ \A i \in 1 .. k : c[i] \in S /\ c[i + 1] = d[c[i]].word
  /\ \A i, j \in 1 .. k : c[i] = c[j] => i = j
  /\ \A p \in S : \E i \in 1 .. k : c[i] = p

Walked(d, f, S) == \E k \in Nat : \E c \in [1 .. k + 1 -> Nat] : FollowsWords(d, f, S, k, c)

\* Only the words of the pages in the list matter.
LEMMA WalkedFrame ==
  ASSUME NEW d, NEW e, NEW f, NEW S, Walked(d, f, S), \A p \in S : e[p].word = d[p].word
  PROVE  Walked(e, f, S)
<1>1. PICK k \in Nat : \E c \in [1 .. k + 1 -> Nat] : FollowsWords(d, f, S, k, c)
  BY DEF Walked
<1>2. PICK c \in [1 .. k + 1 -> Nat] : FollowsWords(d, f, S, k, c)
  BY <1>1
<1>3. FollowsWords(e, f, S, k, c)
  BY <1>2 DEF FollowsWords
<1> QED
  BY <1>3 DEF Walked

\* The empty list.
LEMMA WalkedEmpty ==
  ASSUME NEW d
  PROVE  Walked(d, 0, {})
<1> DEFINE c == [i \in 1 .. 1 |-> 0]
<1>1. FollowsWords(d, 0, {}, 0, c) /\ c \in [1 .. 0 + 1 -> Nat]
  BY DEF FollowsWords
<1> QED
  BY <1>1 DEF Walked

\* Without its head the list is that of the other pages.
LEMMA WalkedTail ==
  ASSUME NEW d, NEW f, NEW S, Walked(d, f, S), f # 0
  PROVE  Walked(d, d[f].word, S \ {f})
<1>1. PICK k \in Nat : \E c \in [1 .. k + 1 -> Nat] : FollowsWords(d, f, S, k, c)
  BY DEF Walked
<1>2. PICK c \in [1 .. k + 1 -> Nat] : FollowsWords(d, f, S, k, c)
  BY <1>1
<1>3. /\ c[1] = f /\ c[k + 1] = 0
      /\ \A i \in 1 .. k : c[i] \in S /\ c[i + 1] = d[c[i]].word
      /\ \A i, j \in 1 .. k : c[i] = c[j] => i = j
      /\ \A p \in S : \E i \in 1 .. k : c[i] = p
  BY <1>2 DEF FollowsWords
<1>4. k # 0 /\ k - 1 \in Nat /\ 1 \in 1 .. k
  BY <1>3
<1> DEFINE n == k - 1
           e == [i \in 1 .. n + 1 |-> c[i + 1]]
<1>5. e \in [1 .. n + 1 -> Nat]
  BY <1>2, <1>4
<1>6. \A i \in 1 .. n : /\ i \in 1 .. n + 1 /\ i + 1 \in 1 .. n + 1 /\ i + 1 \in 1 .. k
                        /\ e[i] = c[i + 1] /\ e[i + 1] = c[(i + 1) + 1] /\ i + 1 # 1
  BY <1>4
<1>7. e[1] = d[f].word /\ e[n + 1] = 0
  BY <1>3, <1>4
<1> HIDE DEF e, n
<1>8. ASSUME NEW i \in 1 .. n PROVE e[i] \in S \ {f} /\ e[i + 1] = d[e[i]].word
  <2>1. /\ i + 1 \in 1 .. k /\ i + 1 # 1
        /\ e[i] = c[i + 1] /\ e[i + 1] = c[(i + 1) + 1]
    BY <1>6
  <2>2. c[i + 1] \in S /\ c[(i + 1) + 1] = d[c[i + 1]].word
    BY <1>3, <2>1
  <2>3. c[i + 1] # c[1]
    BY <1>3, <1>4, <2>1
  <2> QED
    BY <1>3, <2>1, <2>2, <2>3
<1>9. \A i, j \in 1 .. n : e[i] = e[j] => i = j
  <2> SUFFICES ASSUME NEW i \in 1 .. n, NEW j \in 1 .. n, e[i] = e[j] PROVE i = j
    OBVIOUS
  <2>1. /\ i + 1 \in 1 .. k /\ j + 1 \in 1 .. k /\ c[i + 1] = c[j + 1]
    BY <1>6
  <2>2. i + 1 = j + 1
    BY <1>3, <2>1
  <2> QED
    BY <2>2
<1>10. \A p \in S \ {f} : \E i \in 1 .. n : e[i] = p
  <2> SUFFICES ASSUME NEW p \in S \ {f} PROVE \E i \in 1 .. n : e[i] = p
    OBVIOUS
  <2>1. PICK i \in 1 .. k : c[i] = p
    BY <1>3
  <2>2. i - 1 \in 1 .. n /\ (i - 1) + 1 = i
    BY <1>3, <1>4, <2>1 DEF n
  <2> QED
    BY <1>6, <2>1, <2>2
<1>11. FollowsWords(d, d[f].word, S \ {f}, n, e)
  BY <1>7, <1>8, <1>9, <1>10 DEF FollowsWords
<1> QED
  BY <1>4, <1>5, <1>11 DEF Walked, n

\* A page in front of the list.
LEMMA WalkedPush ==
  ASSUME NEW d, NEW e, NEW f, NEW S, NEW p \in Nat, Walked(d, f, S),
         p \notin S, p # 0, e[p].word = f, \A q \in S : e[q].word = d[q].word
  PROVE  Walked(e, p, S \cup {p})
<1>1. PICK k \in Nat : \E c \in [1 .. k + 1 -> Nat] : FollowsWords(d, f, S, k, c)
  BY DEF Walked
<1>2. PICK c \in [1 .. k + 1 -> Nat] : FollowsWords(d, f, S, k, c)
  BY <1>1
<1>3. /\ c[1] = f /\ c[k + 1] = 0
      /\ \A i \in 1 .. k : c[i] \in S /\ c[i + 1] = d[c[i]].word
      /\ \A i, j \in 1 .. k : c[i] = c[j] => i = j
      /\ \A q \in S : \E i \in 1 .. k : c[i] = q
  BY <1>2 DEF FollowsWords
<1> DEFINE n == k + 1
           b == [i \in 1 .. n + 1 |-> IF i = 1 THEN p ELSE c[i - 1]]
<1>4. n \in Nat /\ b \in [1 .. n + 1 -> Nat]
  <2>1. \A i \in 1 .. n + 1 : i # 1 => i - 1 \in 1 .. k + 1
    OBVIOUS
  <2>2. \A i \in 1 .. n + 1 : i # 1 => c[i - 1] \in Nat
    BY <1>2, <2>1
  <2> QED
    BY <2>2
<1>5. \A i \in 1 .. n : /\ i \in 1 .. n + 1 /\ i + 1 \in 1 .. n + 1 /\ b[i + 1] = c[i]
                        /\ i # 1 => i - 1 \in 1 .. k /\ b[i] = c[i - 1] /\ (i - 1) + 1 = i
  OBVIOUS
<1>6. b[1] = p /\ b[n + 1] = c[n] /\ c[n] = 0 /\ 1 \in 1 .. n
  BY <1>3
<1> HIDE DEF b
<1>7. ASSUME NEW i \in 1 .. n PROVE b[i] \in S \cup {p} /\ b[i + 1] = e[b[i]].word
  <2>1. CASE i = 1
    BY <2>1, <1>3, <1>5, <1>6
  <2>2. CASE i # 1
    <3>1. i - 1 \in 1 .. k /\ b[i] = c[i - 1] /\ b[i + 1] = c[(i - 1) + 1]
      BY <2>2, <1>5
    <3>2. c[i - 1] \in S /\ c[(i - 1) + 1] = d[c[i - 1]].word
      BY <1>3, <3>1
    <3> QED
      BY <3>1, <3>2
  <2> QED
    BY <2>1, <2>2
<1>8. ASSUME NEW i \in 1 .. n, NEW j \in 1 .. n, b[i] = b[j] PROVE i = j
  <2>1. ASSUME NEW m \in 1 .. n, m # 1 PROVE b[m] # p
    <3>1. m - 1 \in 1 .. k /\ b[m] = c[m - 1]
      BY <1>5, <2>1
    <3>2. c[m - 1] \in S
      BY <1>3, <3>1
    <3> QED
      BY <3>1, <3>2
  <2>2. CASE i # 1 /\ j # 1
    <3>1. i - 1 \in 1 .. k /\ j - 1 \in 1 .. k /\ c[i - 1] = c[j - 1]
      BY <2>2, <1>5, <1>8
    <3>2. i - 1 = j - 1
      BY <1>3, <3>1
    <3> QED
      BY <3>2
  <2> QED
    BY <2>1, <2>2, <1>6, <1>8
<1>9. ASSUME NEW q \in S \cup {p} PROVE \E i \in 1 .. n : b[i] = q
  <2>1. CASE q = p
    BY <2>1, <1>6
  <2>2. CASE q \in S
    <3>1. PICK i \in 1 .. k : c[i] = q
      BY <1>3, <2>2
    <3>2. i \in 1 .. n /\ i + 1 \in 1 .. n
      OBVIOUS
    <3> QED
      BY <3>1, <3>2, <1>5
  <2> QED
    BY <2>1, <2>2
<1> HIDE DEF n
<1>10. FollowsWords(e, p, S \cup {p}, n, b)
  BY <1>6, <1>7, <1>8, <1>9 DEF FollowsWords
<1> QED
  BY <1>4, <1>10 DEF Walked

\* A list lies in its pages, and its head is 0 only when it has none.
LEMMA WalkedInside ==
  ASSUME NEW d, NEW f, NEW S, Walked(d, f, S), 0 \notin S
  PROVE  /\ f \in S \cup {0} /\ (f = 0 <=> S = {})
         /\ \A p \in S : d[p].word \in S \cup {0}
<1>1. PICK k \in Nat : \E c \in [1 .. k + 1 -> Nat] : FollowsWords(d, f, S, k, c)
  BY DEF Walked
<1>2. PICK c \in [1 .. k + 1 -> Nat] : FollowsWords(d, f, S, k, c)
  BY <1>1
<1>3. /\ c[1] = f /\ c[k + 1] = 0
      /\ \A i \in 1 .. k : c[i] \in S /\ c[i + 1] = d[c[i]].word
      /\ \A p \in S : \E i \in 1 .. k : c[i] = p
  BY <1>2 DEF FollowsWords
<1>4. k = 0 \/ 1 \in 1 .. k
  OBVIOUS
<1>5. \A i \in 1 .. k : i + 1 = k + 1 \/ i + 1 \in 1 .. k
  OBVIOUS
<1>6. \A i \in 1 .. k : c[i + 1] \in S \cup {0}
  BY <1>3, <1>5
<1>7. CASE k = 0
  <2>1. 1 .. k = {} /\ f = 0
    BY <1>3, <1>7
  <2> QED
    BY <2>1, <1>3
<1>8. CASE 1 \in 1 .. k
  BY <1>3, <1>6, <1>8
<1> QED
  BY <1>4, <1>7, <1>8

\* A page after the last one.
LEMMA WalkedAppend ==
  ASSUME NEW d, NEW e, NEW f, NEW S, Walked(d, f, S), 0 \notin S,
         NEW p \in S, d[p].word = 0, NEW z \in Nat, z \notin S, z # 0,
         e[p].word = z, e[z].word = 0, \A q \in S \ {p} : e[q].word = d[q].word
  PROVE  Walked(e, f, S \cup {z})
<1>1. PICK k \in Nat : \E c \in [1 .. k + 1 -> Nat] : FollowsWords(d, f, S, k, c)
  BY DEF Walked
<1>2. PICK c \in [1 .. k + 1 -> Nat] : FollowsWords(d, f, S, k, c)
  BY <1>1
<1>3. /\ c[1] = f /\ c[k + 1] = 0
      /\ \A i \in 1 .. k : c[i] \in S /\ c[i + 1] = d[c[i]].word
      /\ \A i, j \in 1 .. k : c[i] = c[j] => i = j
      /\ \A q \in S : \E i \in 1 .. k : c[i] = q
  BY <1>2 DEF FollowsWords
<1>4. PICK l \in 1 .. k : c[l] = p
  BY <1>3
<1>5. l = k
  <2> SUFFICES ASSUME l # k PROVE FALSE
    OBVIOUS
  <2>1. l + 1 \in 1 .. k
    OBVIOUS
  <2>2. c[l + 1] \in S /\ c[l + 1] = 0
    BY <2>1, <1>3, <1>4
  <2> QED
    BY <2>2
<1>6. k >= 1 /\ c[k] = p
  BY <1>4, <1>5
<1> DEFINE n == k + 1
           b == [i \in 1 .. n + 1 |-> IF i = n + 1 THEN 0 ELSE IF i = n THEN z ELSE c[i]]
<1>7. n \in Nat /\ b \in [1 .. n + 1 -> Nat]
  <2>1. \A i \in 1 .. n + 1 : i # n + 1 => i \in 1 .. k + 1
    OBVIOUS
  <2>2. \A i \in 1 .. n + 1 : i # n + 1 => c[i] \in Nat
    BY <1>2, <2>1
  <2> QED
    BY <2>2
<1>8. b[1] = f /\ b[n + 1] = 0 /\ b[n] = z /\ n \in 1 .. n
  BY <1>3, <1>6
<1>9. ASSUME NEW i \in 1 .. n
      PROVE  \/ i = n /\ b[i] = z /\ b[i + 1] = 0
             \/ i = k /\ i \in 1 .. k /\ b[i] = p /\ b[i + 1] = z
             \/ i < k /\ i \in 1 .. k /\ i + 1 \in 1 .. k /\ b[i] = c[i] /\ b[i + 1] = c[i + 1]
  <2>1. CASE i = n
    BY <2>1
  <2>2. CASE i = k
    <3>1. i \in 1 .. k /\ i # n /\ i # n + 1 /\ i + 1 = n /\ i + 1 # n + 1 /\ i + 1 \in 1 .. n + 1 /\ i \in 1 .. n + 1
      BY <2>2, <1>6
    <3>2. b[i] = c[i] /\ b[i + 1] = z
      BY <3>1
    <3> HIDE DEF b, n
    <3> QED
      BY <3>1, <3>2, <2>2, <1>6
  <2>3. CASE i < k
    <3>1. /\ i \in 1 .. k /\ i # n /\ i # n + 1 /\ i + 1 # n /\ i + 1 # n + 1
          /\ i + 1 \in 1 .. n + 1 /\ i \in 1 .. n + 1 /\ i + 1 \in 1 .. k
      BY <2>3, <1>6
    <3>2. b[i] = c[i] /\ b[i + 1] = c[i + 1]
      BY <3>1
    <3> HIDE DEF b, n
    <3> QED
      BY <3>1, <3>2, <2>3
  <2> QED
    BY <2>1, <2>2, <2>3
<1>10. \A i \in 1 .. k : i \in 1 .. n /\ b[i] = c[i]
  OBVIOUS
<1> HIDE DEF b
<1>11. ASSUME NEW i \in 1 .. n PROVE b[i] \in S \cup {z} /\ b[i + 1] = e[b[i]].word
  <2>1. CASE i = n /\ b[i] = z /\ b[i + 1] = 0
    BY <2>1
  <2>2. CASE i = k /\ i \in 1 .. k /\ b[i] = p /\ b[i + 1] = z
    BY <2>2
  <2>3. CASE i < k /\ i \in 1 .. k /\ i + 1 \in 1 .. k /\ b[i] = c[i] /\ b[i + 1] = c[i + 1]
    <3>1. k \in 1 .. k /\ i # k
      BY <1>6, <2>3
    <3>2. c[i] # p
      BY <3>1, <2>3, <1>3, <1>6
    <3>3. c[i] \in S \ {p} /\ c[i + 1] = d[c[i]].word
      BY <3>2, <2>3, <1>3
    <3>4. e[c[i]].word = d[c[i]].word
      BY <3>3
    <3> QED
      BY <3>3, <3>4, <2>3
  <2> QED
    BY <2>1, <2>2, <2>3, <1>9
<1>12. ASSUME NEW i \in 1 .. n, NEW j \in 1 .. n, b[i] = b[j] PROVE i = j
  <2>1. \A m \in 1 .. n : m = n \/ m \in 1 .. k
    OBVIOUS
  <2>2. \A m \in 1 .. k : b[m] # z
    BY <1>3, <1>10
  <2>3. CASE i \in 1 .. k /\ j \in 1 .. k
    <3>1. c[i] = c[j]
      BY <2>3, <1>10, <1>12
    <3> QED
      BY <2>3, <3>1, <1>3
  <2> QED
    BY <2>1, <2>2, <2>3, <1>8, <1>12
<1>13. ASSUME NEW q \in S \cup {z} PROVE \E i \in 1 .. n : b[i] = q
  <2>1. CASE q = z
    BY <2>1, <1>8
  <2>2. CASE q \in S
    <3>1. PICK i \in 1 .. k : c[i] = q
      BY <1>3, <2>2
    <3> QED
      BY <3>1, <1>10
  <2> QED
    BY <2>1, <2>2
<1> HIDE DEF n
<1>14. FollowsWords(e, f, S \cup {z}, n, b)
  BY <1>8, <1>11, <1>12, <1>13 DEF FollowsWords
<1> QED
  BY <1>7, <1>14 DEF Walked

\* A list that has each page once has at most as many as there are.
LEMMA WalkedShort ==
  ASSUME NEW d, NEW f, NEW N \in Nat, NEW S \in SUBSET (1 .. N), NEW k \in Nat, NEW c \in [1 .. k + 1 -> Nat],
         FollowsWords(d, f, S, k, c)
  PROVE  k <= N
<1>1. \A i \in 1 .. k : c[i] \in S
  BY DEF FollowsWords
<1>2. \A i, j \in 1 .. k : c[i] = c[j] => i = j
  BY DEF FollowsWords
<1> DEFINE g == [i \in 1 .. k |-> c[i]]
           T == 1 .. N
<1>3. S \subseteq T
  OBVIOUS
<1>4. g \in Injection(1 .. k, T)
  <2>1. g \in [1 .. k -> T]
    BY <1>1, <1>3
  <2>2. \A i, j \in 1 .. k : g[i] = g[j] => i = j
    BY <1>2
  <2> QED
    BY <2>1, <2>2 DEF Injection, IsInjective
<1>5. IsFiniteSet(T) /\ Cardinality(T) = N
  <2>1. 1 \in Int /\ N \in Int /\ (1 > N => N = 0) /\ N - 1 + 1 = N
    OBVIOUS
  <2>2. IsFiniteSet(1 .. N) /\ Cardinality(1 .. N) = IF 1 > N THEN 0 ELSE N - 1 + 1
    BY <2>1, FS_Interval
  <2> QED
    BY <2>1, <2>2
<1>6. Cardinality(1 .. k) <= N
  <2> HIDE DEF g, T
  <2> QED
    BY <1>4, <1>5, FS_Injection
<1>7. Cardinality(1 .. k) = k
  <2>1. Cardinality(1 .. k) = IF 1 > k THEN 0 ELSE k - 1 + 1
    BY FS_Interval
  <2> QED
    BY <2>1
<1> QED
  BY <1>3, <1>6, <1>7

\* w goes along the words of d from f for N steps, and to 0 where it leaves A.
Walks(d, f, N, A, w) ==
  w = [n \in 0 .. N |-> IF n = 0 THEN f ELSE IF w[n - 1] \in A THEN d[w[n - 1]].word ELSE 0]

\* From the head of a list inside A, such a walk exists, and it meets the pages of the list.
LEMMA WalkedMeets ==
  ASSUME NEW d, NEW f, NEW N \in Nat, NEW A \in SUBSET (1 .. N), NEW S \in SUBSET A, Walked(d, f, S)
  PROVE  /\ \E w : Walks(d, f, N, A, w)
         /\ \A w : Walks(d, f, N, A, w) => {w[n] : n \in 0 .. N} \ {0} = S
<1>1. PICK k \in Nat : \E c \in [1 .. k + 1 -> Nat] : FollowsWords(d, f, S, k, c)
  BY DEF Walked
<1>2. PICK c \in [1 .. k + 1 -> Nat] : FollowsWords(d, f, S, k, c)
  BY <1>1
<1>3. /\ c[1] = f /\ c[k + 1] = 0
      /\ \A i \in 1 .. k : c[i] \in S /\ c[i + 1] = d[c[i]].word
      /\ \A p \in S : \E i \in 1 .. k : c[i] = p
  BY <1>2 DEF FollowsWords
<1>4. k <= N /\ N \in Nat
  <2>1. S \in SUBSET (1 .. N)
    OBVIOUS
  <2> QED
    BY <2>1, <1>2, WalkedShort
<1>5. 0 \notin A
  OBVIOUS
<1> DEFINE after(p) == IF p \in A THEN d[p].word ELSE 0
           Is(w)    == w = [n \in 0 .. N |-> IF n = 0 THEN f ELSE after(w[n - 1])]
           given    == [n \in 0 .. N |-> IF n < k THEN c[n + 1] ELSE 0]
<1>7. \A n \in 1 .. N : given[n] = after(given[n - 1])
  <2> SUFFICES ASSUME NEW n \in 1 .. N PROVE given[n] = after(given[n - 1])
    OBVIOUS
  <2>1. n \in 0 .. N /\ n - 1 \in 0 .. N
    BY <1>4
  <2>2. CASE n - 1 < k
    <3>1. n \in 1 .. k /\ given[n - 1] = c[n]
      BY <2>1, <2>2
    <3>2. c[n] \in A /\ after(c[n]) = c[n + 1]
      BY <3>1, <1>3
    <3>3. given[n] = c[n + 1]
      BY <2>1, <2>2, <1>3
    <3> QED
      BY <3>1, <3>2, <3>3
  <2>3. CASE ~(n - 1 < k)
    BY <2>1, <2>3, <1>5
  <2> QED
    BY <2>2, <2>3
<1>8. given[0] = f
  BY <1>3, <1>4
<1>9. Is(given)
  <2> DEFINE right == [n \in 0 .. N |-> IF n = 0 THEN f ELSE after(given[n - 1])]
  <2>1. \A n \in 0 .. N : given[n] = right[n]
    <3> HIDE DEF after, given
    <3> QED
      BY <1>4, <1>7, <1>8
  <2> HIDE DEF after
  <2> QED
    BY <2>1
<1> HIDE DEF given, after
<1>10. SUFFICES ASSUME NEW walk, Is(walk) PROVE {walk[n] : n \in 0 .. N} \ {0} = S
  BY <1>9 DEF Walks, after
<1>11. walk[0] = f /\ \A n \in 1 .. N : walk[n] = after(walk[n - 1])
  <2>1. walk = [n \in 0 .. N |-> IF n = 0 THEN f ELSE after(walk[n - 1])]
    BY <1>10
  <2>2. \A n \in 0 .. N : walk[n] = IF n = 0 THEN f ELSE after(walk[n - 1])
    BY <2>1
  <2>3. \A n \in 1 .. N : n \in 0 .. N /\ n # 0
    BY <1>4
  <2>4. 0 \in 0 .. N
    BY <1>4
  <2> QED
    BY <2>2, <2>3, <2>4
<1> DEFINE Wrong == {n \in 0 .. N : walk[n] # given[n]}
<1>12. Wrong = {}
  <2> SUFFICES ASSUME Wrong # {} PROVE FALSE
    OBVIOUS
  <2>1. Wrong \in SUBSET Nat
    BY <1>4
  <2>2. PICK n \in Wrong : \A m \in Wrong : n <= m
    <3> HIDE DEF Wrong
    <3> QED
      BY <2>1, SmallestNumber
  <2>3. n # 0 /\ n \in 1 .. N
    BY <1>4, <1>8, <1>11
  <2>4. n - 1 \in 0 .. N /\ n - 1 \notin Wrong
    BY <1>4, <2>2, <2>3
  <2>5. walk[n - 1] = given[n - 1]
    BY <2>4
  <2> QED
    BY <1>7, <1>11, <2>3, <2>5
<1>13. {walk[n] : n \in 0 .. N} = {given[n] : n \in 0 .. N}
  BY <1>12
<1>14. \A n \in 0 .. N : given[n] # 0 => given[n] \in S
  <2> SUFFICES ASSUME NEW n \in 0 .. N, given[n] # 0 PROVE given[n] \in S
    OBVIOUS
  <2>1. n + 1 \in 1 .. k /\ given[n] = c[n + 1]
    BY <1>4 DEF given
  <2> QED
    BY <2>1, <1>3
<1>15. \A p \in S : p # 0 /\ \E n \in 0 .. N : given[n] = p
  <2> SUFFICES ASSUME NEW p \in S PROVE p # 0 /\ \E n \in 0 .. N : given[n] = p
    OBVIOUS
  <2>1. PICK i \in 1 .. k : c[i] = p
    BY <1>3
  <2>2. i - 1 \in 0 .. N /\ i - 1 < k /\ (i - 1) + 1 = i
    BY <1>4
  <2>3. given[i - 1] = p
    BY <2>1, <2>2 DEF given
  <2> QED
    BY <1>5, <2>2, <2>3
<1>16. {given[n] : n \in 0 .. N} \ {0} = S
  BY <1>14, <1>15
<1> QED
  BY <1>13, <1>16
================================================================================

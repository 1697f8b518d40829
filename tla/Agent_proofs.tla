----------------------------- MODULE Agent_proofs ------------------------------
(***************************************************************************)
(* For any number of sessions and pages and any limits, as long as         *)
(* set_page_state is not used to close or revive a page: the page count of *)
(* the monitor is the number of pages that can be used and stays within    *)
(* the limit; and its memory is that of these pages, and passes the limit  *)
(* by less than one of them takes.                                         *)
(*                                                                         *)
(* The agent layer uses its sessions as Sessions says, so that what is     *)
(* proved of them holds for every client, server and schedule; the history *)
(* of its page is a History; and its requests carry the cookies in effect. *)
(***************************************************************************)
EXTENDS Agent, Induction, SequenceTheorems

--------------------------------------------------------------------------------
(* The sessions.                                                            *)

PoolOK    == pool \in [SessionIds -> [PageIds -> Entries]]
MonitorOK ==
  /\ DOMAIN monitor = SessionIds
  /\ \A s \in SessionIds : monitor[s].pages \in Nat /\ monitor[s].memory \in Nat

\* PagesCounted for one session.
PagesOK(s) == monitor[s].pages = Cardinality(Active(s)) /\ monitor[s].pages <= MaxPages

\* MemoryCounted for one session.
MemoryOK(s) ==
  /\ monitor[s].memory = MemoryOf(s, Active(s))
  /\ Active(s) # {} => \E p \in Active(s) : monitor[s].memory < MaxMemory + pool[s][p].mb

Counted(s) == Accounted(s) => PagesOK(s) /\ MemoryOK(s)

SInv == PoolOK /\ MonitorOK /\ \A s \in SessionIds : Counted(s)

--------------------------------------------------------------------------------
(* Sums.                                                                   *)

\* A sum is counted with w[x] tokens for each x.
Tokens(w, S) == UNION {{x} \X (1 .. w[x]) : x \in S}

\* Finitely many parts of finitely many tokens are finitely many.
LEMMA TokensFinite ==
  ASSUME NEW D, IsFiniteSet(D), NEW w \in [D -> Nat], NEW S \in SUBSET D
  PROVE  IsFiniteSet(Tokens(w, S)) /\ Cardinality(Tokens(w, S)) \in Nat
<1> DEFINE Parts == {{x} \X (1 .. w[x]) : x \in S}
<1>1. IsFiniteSet(S)
  BY FS_Subset
<1>2. IsFiniteSet(Parts)
  <2> DEFINE part == [x \in S |-> {x} \X (1 .. w[x])]
  <2>1. part \in Surjection(S, Parts)
    BY DEF Surjection
  <2> HIDE DEF part, Parts
  <2> QED
    BY <1>1, <2>1, FS_Surjection
<1>3. ASSUME NEW x \in S PROVE IsFiniteSet({x} \X (1 .. w[x]))
  <2>1. w[x] \in Nat /\ IsFiniteSet({x})
    BY FS_Singleton
  <2>2. IsFiniteSet(1 .. w[x])
    BY <2>1, FS_Interval
  <2> QED
    BY <2>1, <2>2, FS_Product
<1>4. IsFiniteSet(UNION Parts)
  BY <1>2, <1>3, FS_UNION
<1> QED
  BY <1>4, FS_CardinalityType DEF Tokens

\* An element adds its tokens.
LEMMA TokensAdd ==
  ASSUME NEW D, IsFiniteSet(D), NEW w \in [D -> Nat], NEW S \in SUBSET D, NEW x \in S
  PROVE  Cardinality(Tokens(w, S)) = w[x] + Cardinality(Tokens(w, S \ {x}))
<1> DEFINE new == {x} \X (1 .. w[x])
           old == Tokens(w, S \ {x})
<1>1. Tokens(w, S) = new \cup old
  BY DEF Tokens
<1>2. new \cap old = {}
  BY DEF Tokens
<1>3. IsFiniteSet(old) /\ Cardinality(old) \in Nat
  BY TokensFinite
<1>4. IsFiniteSet({x}) /\ Cardinality({x}) = 1
  BY FS_Singleton
<1>5. w[x] \in Nat
  OBVIOUS
<1>6. IsFiniteSet(1 .. w[x]) /\ Cardinality(1 .. w[x]) = w[x]
  BY <1>5, FS_Interval
<1>7. IsFiniteSet(new) /\ Cardinality(new) = w[x]
  BY <1>4, <1>5, <1>6, FS_Product
<1> HIDE DEF new, old
<1>8. Cardinality(new \cup old) = Cardinality(new) + Cardinality(old) - Cardinality({})
  BY <1>2, <1>3, <1>7, FS_Union
<1> QED
  BY <1>1, <1>3, <1>5, <1>7, <1>8, FS_EmptySet DEF old

\* So the tokens of a set satisfy the equation that defines its sum; by induction on the set
\* nothing else does.
LEMMA SumIsTokens ==
  ASSUME NEW D, IsFiniteSet(D), NEW w \in [D -> Nat], NEW S \in SUBSET D
  PROVE  SumOver(w, S) = Cardinality(Tokens(w, S))
<1> DEFINE One(T) == CHOOSE y \in T : TRUE
           Is(f) == f = [T \in SUBSET DOMAIN w |-> IF T = {} THEN 0 ELSE w[One(T)] + f[T \ {One(T)}]]
           count == [T \in SUBSET DOMAIN w |-> Cardinality(Tokens(w, T))]
           sum   == CHOOSE f : Is(f)
<1>1. Tokens(w, {}) = {}
  BY DEF Tokens
<1>2. \A T \in SUBSET D : T # {} => One(T) \in T
  OBVIOUS
<1>3. Is(count)
  <2>1. \A T \in SUBSET D : T # {} =>
          Cardinality(Tokens(w, T)) = w[One(T)] + Cardinality(Tokens(w, T \ {One(T)}))
    <3> HIDE DEF One
    <3> QED
      BY <1>2, TokensAdd
  <2> QED
    BY <1>1, <2>1, FS_EmptySet
<1>4. Is(sum)
  BY <1>3
<1> DEFINE Wrong == {T \in SUBSET D : sum[T] # count[T]}
<1>5. Wrong = {}
  <2> SUFFICES ASSUME Wrong # {} PROVE FALSE
    OBVIOUS
  <2>1. Wrong \in SUBSET SUBSET D
    OBVIOUS
  <2>2. PICK T \in Wrong : \A V \in Wrong : V \subseteq T => V = T
    <3> HIDE DEF Wrong
    <3> QED
      BY <2>1, SmallestSubset
  <2>3. CASE T = {}
    BY <1>3, <1>4, <2>3
  <2>4. CASE T # {}
    <3>1. One(T) \in T /\ T \ {One(T)} \subseteq T
      BY <1>2, <2>4
    <3>2. T \ {One(T)} \notin Wrong
      BY <2>2, <3>1
    <3>3. sum[T \ {One(T)}] = count[T \ {One(T)}]
      BY <3>2
    <3>4. sum[T] = w[One(T)] + sum[T \ {One(T)}] /\ count[T] = w[One(T)] + count[T \ {One(T)}]
      BY <1>3, <1>4, <2>4
    <3> QED
      BY <3>3, <3>4
  <2> QED
    BY <2>3, <2>4
<1>6. SumOver(w, S) = sum[S]
  BY DEF SumOver
<1>7. sum[S] = count[S]
  BY <1>5
<1> QED
  BY <1>6, <1>7

LEMMA SumInNat ==
  ASSUME NEW D, IsFiniteSet(D), NEW w \in [D -> Nat], NEW S \in SUBSET D
  PROVE  SumOver(w, S) \in Nat
BY SumIsTokens, TokensFinite

LEMMA SumEmpty ==
  ASSUME NEW D, IsFiniteSet(D), NEW w \in [D -> Nat]
  PROVE  SumOver(w, {}) = 0
<1>1. Tokens(w, {}) = {}
  BY DEF Tokens
<1> QED
  BY <1>1, SumIsTokens, FS_EmptySet

\* Any element of a set can be taken out of its sum.
LEMMA SumTake ==
  ASSUME NEW D, IsFiniteSet(D), NEW w \in [D -> Nat], NEW S \in SUBSET D, NEW x \in S
  PROVE  SumOver(w, S) = w[x] + SumOver(w, S \ {x})
<1>1. S \ {x} \in SUBSET D
  OBVIOUS
<1> QED
  BY <1>1, SumIsTokens, TokensAdd

\* A sum depends on what its elements give only.
LEMMA SumSame ==
  ASSUME NEW D, IsFiniteSet(D), NEW w \in [D -> Nat], NEW v \in [D -> Nat],
         NEW S \in SUBSET D, \A x \in S : v[x] = w[x]
  PROVE  SumOver(v, S) = SumOver(w, S)
<1>1. Tokens(v, S) = Tokens(w, S)
  BY DEF Tokens
<1> QED
  BY <1>1, SumIsTokens

--------------------------------------------------------------------------------
(* Pages in use.                                                           *)

LEMMA ActiveFinite ==
  ASSUME NEW s
  PROVE  IsFiniteSet(Active(s)) /\ Cardinality(Active(s)) \in Nat
<1>1. IsFiniteSet(PageIds) /\ Active(s) \in SUBSET PageIds
  BY LimitsAssumption DEF Active
<1> QED
  BY <1>1, FS_Subset, FS_CardinalityType

\* What the pages of a session take.
Mb(s) == [p \in PageIds |-> pool[s][p].mb]

LEMMA MbOK ==
  ASSUME PoolOK, NEW s \in SessionIds
  PROVE  Mb(s) \in [PageIds -> Nat]
BY DEF PoolOK, Entries, Absent, Mb

\* The finite set of pages, and what is in use of it.
LEMMA Pages ==
  ASSUME NEW s
  PROVE  IsFiniteSet(PageIds) /\ Active(s) \in SUBSET PageIds
BY LimitsAssumption DEF Active

LEMMA MemoryIsSum ==
  ASSUME NEW s, NEW P
  PROVE  MemoryOf(s, P) = SumOver(Mb(s), P)
BY DEF MemoryOf, Mb

\* A session that a step does not touch, and does not bring back, stays counted.
LEMMA Untouched ==
  ASSUME NEW s, Counted(s), Accounted(s)' => Accounted(s),
         pool'[s] = pool[s], monitor'[s] = monitor[s]
  PROVE  Counted(s)'
<1>1. Active(s)' = Active(s) /\ MemoryOf(s, Active(s))' = MemoryOf(s, Active(s))
  BY DEF Active, MemoryOf
<1> QED
  BY <1>1 DEF Counted, PagesOK, MemoryOK

\* A session that starts anew has no page.
LEMMA Emptied ==
  ASSUME NEW s, pool'[s] = NoPages, monitor'[s] = NoUse
  PROVE  Counted(s)'
<1>1. Active(s)' = {}
  BY DEF Active, NoPages, Live, Absent
<1>2. monitor'[s].pages = 0 /\ monitor'[s].memory = 0
  BY DEF NoUse
<1>3. Mb(s)' \in [PageIds -> Nat]
  BY DEF Mb, NoPages, Absent
<1>4. MemoryOf(s, Active(s))' = SumOver(Mb(s)', {})
  BY <1>1 DEF MemoryOf, Mb
<1>5. PagesOK(s)'
  BY <1>1, <1>2, FS_EmptySet, LimitsAssumption DEF PagesOK
<1>6. MemoryOK(s)'
  BY <1>1, <1>2, <1>3, <1>4, SumEmpty, Pages DEF MemoryOK
<1> QED
  BY <1>5, <1>6 DEF Counted

--------------------------------------------------------------------------------
(* Calls.                                                                  *)

LEMMA NothingDone ==
  ASSUME SInv, UNCHANGED <<sessions, pool, monitor, forced>>
  PROVE  SInv'
<1>1. \A s \in SessionIds : Counted(s)'
  BY Untouched DEF SInv, Accounted
<1> QED
  BY <1>1 DEF SInv, PoolOK, MonitorOK

\* A page that is opened is one more, and was not in use.
LEMMA OpenKeeps ==
  ASSUME SInv, NEW s \in SessionIds, NEW p \in PageIds, NEW mb \in Nat,
         Room(s), Open(s, p, mb), UNCHANGED <<sessions, forced>>
  PROVE  SInv'
<1> DEFINE entry == [state |-> "Loaded", mb |-> mb]
           use   == [pages |-> monitor[s].pages + 1, memory |-> monitor[s].memory + mb]
<1>1. entry \in Entries /\ Live(entry) /\ entry.mb = mb
  BY DEF Entries, States, Live
<1>2. pool' = [pool EXCEPT ![s][p] = entry] /\ monitor' = [monitor EXCEPT ![s] = use]
  BY DEF Open
<1>3. /\ use.pages = monitor[s].pages + 1 /\ use.memory = monitor[s].memory + mb
      /\ monitor[s].pages \in Nat /\ monitor[s].pages < MaxPages
      /\ monitor[s].memory \in Nat /\ monitor[s].memory < MaxMemory
  BY DEF SInv, MonitorOK, Room
<1> HIDE DEF entry, use
<1>4. PoolOK' /\ pool'[s] = [pool[s] EXCEPT ![p] = entry]
      /\ \A o \in SessionIds : o # s => pool'[o] = pool[o]
  BY <1>1, <1>2 DEF SInv, PoolOK
<1>5. MonitorOK' /\ monitor'[s] = use /\ \A o \in SessionIds : o # s => monitor'[o] = monitor[o]
  BY <1>2, <1>3 DEF SInv, MonitorOK
<1>6. Counted(s)'
  <2>1. ~Live(pool[s][p])
    BY DEF Open, Live, Absent
  <2>2. Active(s)' = Active(s) \cup {p} /\ p \notin Active(s)
    BY <1>1, <1>4, <2>1 DEF Active, SInv, PoolOK
  <2>3. Cardinality(Active(s)') = Cardinality(Active(s)) + 1
    BY <2>2, ActiveFinite, FS_AddElement
  <2> SUFFICES ASSUME Accounted(s)
               PROVE  PagesOK(s)' /\ MemoryOK(s)'
    BY DEF Counted, Accounted
  <2>4. PagesOK(s) /\ MemoryOK(s)
    BY DEF SInv, Counted
  <2>5. PagesOK(s)'
    BY <1>3, <1>5, <2>3, <2>4, LimitsAssumption, ActiveFinite DEF PagesOK
  <2>6. MemoryOf(s, Active(s))' = mb + MemoryOf(s, Active(s))
    <3>1. Mb(s) \in [PageIds -> Nat] /\ Mb(s)' \in [PageIds -> Nat]
      BY <1>4, MbOK DEF SInv, Mb, PoolOK, Entries, Absent
    <3>2. Mb(s)'[p] = mb /\ \A q \in Active(s) : Mb(s)'[q] = Mb(s)[q]
      BY <1>1, <1>4, <2>2 DEF Mb, SInv, PoolOK, Active
    <3>3. SumOver(Mb(s)', Active(s)) = SumOver(Mb(s), Active(s))
      BY <3>1, <3>2, Pages, SumSame
    <3>4. SumOver(Mb(s)', Active(s)') = Mb(s)'[p] + SumOver(Mb(s)', Active(s)' \ {p})
      BY <2>2, <3>1, Pages, SumTake
    <3>5. Active(s)' \ {p} = Active(s)
      BY <2>2
    <3> QED
      BY <3>2, <3>3, <3>4, <3>5 DEF MemoryOf, Mb
  <2>7. pool'[s][p].mb = mb
    BY <1>1, <1>4 DEF SInv, PoolOK
  <2>8. MemoryOK(s)'
    BY <1>3, <1>5, <2>2, <2>4, <2>6, <2>7, LimitsAssumption DEF MemoryOK
  <2> QED
    BY <2>5, <2>8
<1>7. \A o \in SessionIds : o # s => Counted(o)'
  BY <1>4, <1>5, Untouched DEF SInv, Accounted
<1> QED
  BY <1>4, <1>5, <1>6, <1>7 DEF SInv

\* A page that is closed was in use, and the count gives it back once.
LEMMA ReleaseKeeps ==
  ASSUME SInv, NEW s \in SessionIds, NEW p \in PageIds,
         Live(pool[s][p]), Release(s, p), UNCHANGED <<sessions, forced>>
  PROVE  SInv'
<1> DEFINE entry == [pool[s][p] EXCEPT !.state = "Closed"]
           use   == [pages  |-> Minus(monitor[s].pages, 1),
                     memory |-> Minus(monitor[s].memory, pool[s][p].mb)]
<1>1. pool[s][p] \in [state : States, mb : Nat]
  BY DEF SInv, PoolOK, Entries, Live, Absent
<1>2. entry \in Entries /\ ~Live(entry)
  BY <1>1 DEF Entries, States, Live
<1>3. pool' = [pool EXCEPT ![s][p] = entry] /\ monitor' = [monitor EXCEPT ![s] = use]
  BY DEF Release
<1>4. /\ use.pages = Minus(monitor[s].pages, 1) /\ use.pages \in Nat /\ monitor[s].pages \in Nat
      /\ use.memory = Minus(monitor[s].memory, pool[s][p].mb) /\ use.memory \in Nat
      /\ monitor[s].memory \in Nat /\ pool[s][p].mb \in Nat /\ entry.mb = pool[s][p].mb
  BY <1>1 DEF SInv, MonitorOK, Minus
<1> HIDE DEF entry, use
<1>5. PoolOK' /\ pool'[s] = [pool[s] EXCEPT ![p] = entry]
      /\ \A o \in SessionIds : o # s => pool'[o] = pool[o]
  BY <1>2, <1>3 DEF SInv, PoolOK
<1>6. MonitorOK' /\ monitor'[s] = use /\ \A o \in SessionIds : o # s => monitor'[o] = monitor[o]
  BY <1>3, <1>4 DEF SInv, MonitorOK
<1>7. Counted(s)'
  <2>1. Active(s)' = Active(s) \ {p} /\ p \in Active(s)
    BY <1>2, <1>5 DEF Active, SInv, PoolOK
  <2>2. Cardinality(Active(s)') = Cardinality(Active(s)) - 1
    BY <2>1, ActiveFinite, FS_RemoveElement
  <2>3. Cardinality(Active(s)) # 0
    BY <2>1, ActiveFinite, FS_EmptySet
  <2> SUFFICES ASSUME Accounted(s)
               PROVE  PagesOK(s)' /\ MemoryOK(s)'
    BY DEF Counted, Accounted
  <2>4. PagesOK(s) /\ MemoryOK(s)
    BY DEF SInv, Counted
  <2>5. PagesOK(s)'
    BY <1>4, <1>6, <2>2, <2>3, <2>4, LimitsAssumption, ActiveFinite DEF PagesOK, Minus
  <2>6. /\ \A q \in PageIds : pool'[s][q].mb = pool[s][q].mb /\ pool[s][q].mb \in Nat
        /\ Mb(s)' = Mb(s) /\ Mb(s) \in [PageIds -> Nat] /\ Mb(s)[p] = pool[s][p].mb
    BY <1>4, <1>5, MbOK DEF Mb, SInv, PoolOK, Entries, Absent
  <2>7. MemoryOf(s, Active(s)) = pool[s][p].mb + MemoryOf(s, Active(s))'
    <3>1. SumOver(Mb(s), Active(s)) = Mb(s)[p] + SumOver(Mb(s), Active(s) \ {p})
      BY <2>1, <2>6, Pages, SumTake
    <3> QED
      BY <2>1, <2>6, <3>1 DEF MemoryOf, Mb
  <2>8. MemoryOf(s, Active(s))' \in Nat
    <3>1. SumOver(Mb(s), Active(s)') \in Nat
      BY <2>1, <2>6, Pages, SumInNat
    <3> QED
      BY <2>6, <3>1 DEF MemoryOf, Mb
  <2>9. monitor'[s].memory = monitor[s].memory - pool[s][p].mb
        /\ monitor'[s].memory = MemoryOf(s, Active(s))'
    BY <1>4, <1>6, <2>4, <2>7, <2>8 DEF MemoryOK, Minus
  <2>10. ASSUME NEW q \in Active(s)'
         PROVE  \E r \in Active(s)' : monitor'[s].memory < MaxMemory + pool'[s][r].mb
    <3>1. PICK r \in Active(s) : monitor[s].memory < MaxMemory + pool[s][r].mb
      BY <2>1, <2>4 DEF MemoryOK
    <3>2. q \in PageIds /\ r \in PageIds
      BY <2>1, Pages
    <3>3. CASE r = p
      BY <1>4, <2>6, <2>9, <3>1, <3>2, <3>3, LimitsAssumption
    <3>4. CASE r # p
      BY <1>4, <2>1, <2>6, <2>9, <3>1, <3>2, <3>4, LimitsAssumption
    <3> QED
      BY <3>3, <3>4
  <2>11. MemoryOK(s)'
    BY <2>9, <2>10 DEF MemoryOK
  <2> QED
    BY <2>5, <2>11
<1>8. \A o \in SessionIds : o # s => Counted(o)'
  BY <1>5, <1>6, Untouched DEF SInv, Accounted
<1> QED
  BY <1>5, <1>6, <1>7, <1>8 DEF SInv

LEMMA OpenPageKeeps ==
  ASSUME SInv, NEW s \in SessionIds, NEW mb \in Nat, OpenPage(s, mb)
  PROVE  SInv'
<1>1. CASE UNCHANGED <<pool, monitor>>
  BY <1>1, NothingDone DEF OpenPage
<1>2. CASE Room(s) /\ Absent \in {pool[s][p] : p \in PageIds} /\ Open(s, NewPageId(s), mb)
  <2>1. NewPageId(s) \in PageIds
    BY <1>2 DEF NewPageId
  <2> QED
    BY <1>2, <2>1, OpenKeeps DEF OpenPage
<1> QED
  BY <1>1, <1>2 DEF OpenPage

\* A state that is set keeps the pages in use, or the session is one of the forced ones.
LEMMA SetPageStateKeeps ==
  ASSUME SInv, NEW s \in SessionIds, NEW p \in PageIds, NEW state \in States,
         SetPageState(s, p, state)
  PROVE  SInv'
<1> DEFINE entry == [pool[s][p] EXCEPT !.state = state]
<1>1. pool[s][p] \in [state : States, mb : Nat]
  BY DEF SInv, PoolOK, Entries, SetPageState
<1>2. entry \in Entries /\ (Live(entry) <=> state # "Closed") /\ entry.mb = pool[s][p].mb
  BY <1>1 DEF Entries, States, Live
<1>3. pool' = [pool EXCEPT ![s][p] = entry] /\ UNCHANGED <<sessions, monitor>>
  BY DEF SetPageState
<1> HIDE DEF entry
<1>4. PoolOK' /\ pool'[s] = [pool[s] EXCEPT ![p] = entry]
      /\ \A o \in SessionIds : o # s => pool'[o] = pool[o]
  BY <1>2, <1>3 DEF SInv, PoolOK
<1>5. Counted(s)'
  <2>1. CASE Live(pool[s][p]) = (state # "Closed")
    <3>1. Live(pool[s][p]) <=> Live(entry)
      BY <1>2, <2>1 DEF Live
    <3>2. Active(s)' = Active(s)
      BY <1>4, <3>1 DEF Active, SInv, PoolOK
    <3>3. forced' = forced
      BY <2>1 DEF SetPageState
    <3>4. \A q \in PageIds : pool'[s][q].mb = pool[s][q].mb
      BY <1>2, <1>4 DEF SInv, PoolOK
    <3>5. MemoryOf(s, Active(s))' = MemoryOf(s, Active(s))
      BY <3>2, <3>4 DEF MemoryOf
    <3>6. Accounted(s)' => PagesOK(s) /\ MemoryOK(s)
      BY <1>3, <3>3 DEF SInv, Counted, Accounted
    <3> QED
      BY <1>3, <3>2, <3>4, <3>5, <3>6, Pages DEF Counted, PagesOK, MemoryOK
  <2>2. CASE Live(pool[s][p]) # (state # "Closed")
    BY <2>2 DEF SetPageState, Counted, Accounted
  <2> QED
    BY <2>1, <2>2
<1>6. forced \subseteq forced'
  BY DEF SetPageState
<1>7. \A o \in SessionIds : o # s => Counted(o)'
  BY <1>3, <1>4, <1>6, Untouched DEF SInv, Accounted
<1> QED
  BY <1>3, <1>4, <1>5, <1>7 DEF SInv, MonitorOK

\* Sessions in ids start anew, or are gone; the others keep what they have.
LEMMA ResetKeeps ==
  ASSUME SInv, NEW ids,
         pool' = Reset(pool, ids, NoPages), monitor' = Reset(monitor, ids, NoUse),
         \A s \in SessionIds \ ids : Accounted(s)' => Accounted(s)
  PROVE  SInv'
<1>1. NoPages \in [PageIds -> Entries] /\ NoUse.pages = 0 /\ NoUse.memory = 0
  BY DEF NoPages, Entries, NoUse
<1> HIDE DEF NoPages, NoUse
<1>2. PoolOK' /\ MonitorOK'
  BY <1>1 DEF SInv, PoolOK, MonitorOK, Reset
<1>3. \A s \in SessionIds : s \in ids => pool'[s] = NoPages /\ monitor'[s] = NoUse
  BY DEF Reset
<1>4. \A s \in SessionIds : s \notin ids => pool'[s] = pool[s] /\ monitor'[s] = monitor[s]
  BY DEF Reset
<1>5. \A s \in SessionIds : Counted(s)'
  BY <1>3, <1>4, Emptied, Untouched DEF SInv
<1> QED
  BY <1>2, <1>5 DEF SInv

LEMMA DropKeeps ==
  ASSUME SInv, NEW gone, Drop(gone)
  PROVE  SInv'
BY ResetKeeps DEF Drop, Accounted

LEMMA CreateSessionKeeps ==
  ASSUME SInv, NEW s \in SessionIds, CreateSession(s)
  PROVE  SInv'
<1>1. pool' = Reset(pool, {s}, NoPages) /\ monitor' = Reset(monitor, {s}, NoUse)
  BY DEF SInv, PoolOK, MonitorOK, CreateSession, Reset
<1> QED
  BY <1>1, ResetKeeps DEF CreateSession, Accounted

LEMMA LoadKeeps ==
  ASSUME SInv, LoadFromDisk
  PROVE  SInv'
BY ResetKeeps DEF LoadFromDisk, Accounted

LEMMA SessionCallKeeps ==
  ASSUME SInv, NEW s \in SessionIds, SessionCall(s)
  PROVE  SInv'
<1>1. CASE CreatePage(s) \/ AddPage(s) \/ LoadPageFromHtml(s)
  BY <1>1, OpenPageKeeps, LimitsAssumption DEF CreatePage, AddPage, LoadPageFromHtml, Estimate
<1>2. CASE \E p \in PageIds : ClosePage(s, p)
  BY <1>2, NothingDone, ReleaseKeeps DEF ClosePage
<1>3. CASE \E p \in PageIds : \E state \in States : SetPageState(s, p, state)
  BY <1>3, SetPageStateKeeps
<1>4. CASE CreateSession(s)
  BY <1>4, CreateSessionKeeps
<1>5. CASE UseSession(s) \/ \E url \in Places : PushHistory(s, url)
  BY <1>5, NothingDone DEF UseSession, PushHistory
<1>6. CASE DeleteSession(s)
  BY <1>6, DropKeeps DEF DeleteSession
<1> QED
  BY <1>1, <1>2, <1>3, <1>4, <1>5, <1>6 DEF SessionCall

--------------------------------------------------------------------------------
LEMMA SessionsInitOK ==
  SessionsInit => SInv
<1> SUFFICES ASSUME SessionsInit PROVE SInv
  OBVIOUS
<1>1. NoPages \in [PageIds -> Entries] /\ NoUse.pages = 0 /\ NoUse.memory = 0
  BY DEF NoPages, Entries, NoUse
<1> QED
  BY <1>1 DEF SessionsInit, SInv, PoolOK, MonitorOK, Counted, Accounted

LEMMA SessionsNextKeeps ==
  SInv /\ [SessionsNext]_svars => SInv'
<1> SUFFICES ASSUME SInv, [SessionsNext]_svars PROVE SInv'
  OBVIOUS
<1>1. CASE \E s \in SessionIds : SessionCall(s)
  BY <1>1, SessionCallKeeps
<1>2. CASE ExpireSessions \/ Crash
  BY <1>2, DropKeeps DEF ExpireSessions, Crash
<1>3. CASE LoadFromDisk
  BY <1>3, LoadKeeps
<1>4. CASE StartSave \/ FinishSave \/ SaveFails \/ Tick \/ UNCHANGED svars
  BY <1>4, NothingDone DEF StartSave, FinishSave, SaveFails, Tick, svars
<1> QED
  BY <1>1, <1>2, <1>3, <1>4 DEF SessionsNext

\* Whatever the calls on sessions and pages, the expiry of sessions, saves, loads and
\* restarts: the monitor's count is the number of pages in use and stays within the limit
\* (resource.rs 78-112, page_pool.rs 44-111).
THEOREM PagesAlwaysCounted == SessionsSpec => []PagesCounted
<1>1. SInv => PagesCounted
  BY DEF SInv, Counted, PagesOK, PagesCounted
<1> QED
  BY <1>1, SessionsInitOK, SessionsNextKeeps, PTL DEF SessionsSpec

\* And whatever these are, the monitor's memory is that of the pages in use, so that closing a
\* page makes room for as much as opening it took; the limit is passed by less than one page
\* that is in use (resource.rs 92, 114-125).
THEOREM MemoryAlwaysCounted == SessionsSpec => []MemoryCounted
<1>1. SInv => MemoryCounted
  BY DEF SInv, Counted, MemoryOK, MemoryCounted
<1> QED
  BY <1>1, SessionsInitOK, SessionsNextKeeps, PTL DEF SessionsSpec

--------------------------------------------------------------------------------
(* The agent layer.                                                         *)

\* The plan is one of the plans, and the tab is in a session of it.
PlanOK == plan \in Plans /\ (tab # NoTab => tab.session \in SessionIds)

--------------------------------------------------------------------------------
LEMMA CallIsSessionsStep ==
  ASSUME ~saving, NEW s \in SessionIds, SessionCall(s)
  PROVE  [SessionsNext]_svars
BY DEF SessionsNext

\* Every step of the agent layer is a step of its sessions, or leaves them alone.
LEMMA StepIsSessionsStep ==
  ASSUME PlanOK, [Next]_vars
  PROVE  [SessionsNext]_svars
<1>1. plan.ids \subseteq SessionIds
  BY PlansAssumption DEF PlanOK
<1>2. CASE PageCalls
  <2>1. PICK s \in plan.ids : SessionCall(s)
    BY <1>2 DEF PageCalls, SessionCall
  <2> QED
    BY <1>1, <1>2, <2>1, CallIsSessionsStep DEF PageCalls, Calls, Free
<1>3. CASE StateCalls
  <2>1. PICK s \in plan.ids : SessionCall(s)
    BY <1>3 DEF StateCalls, SessionCall
  <2> QED
    BY <1>1, <1>3, <2>1, CallIsSessionsStep DEF StateCalls, Calls, Free
<1>4. CASE ManagerCalls
  <2>1. PICK s \in plan.ids : SessionCall(s)
    BY <1>4 DEF ManagerCalls, SessionCall
  <2> QED
    BY <1>1, <1>4, <2>1, CallIsSessionsStep DEF ManagerCalls, Free
<1>5. CASE FileCalls
  <2>1. ~saving
    BY <1>5 DEF FileCalls, Calls, Free
  <2>2. CASE StartSave \/ LoadFromDisk
    BY <2>1, <2>2 DEF SessionsNext
  <2>3. CASE \E s \in plan.ids, url \in Places : PushHistory(s, url)
    <3>1. PICK s \in plan.ids : SessionCall(s)
      BY <2>3 DEF SessionCall
    <3> QED
      BY <1>1, <2>1, <3>1, CallIsSessionsStep
  <2> QED
    BY <1>5, <2>2, <2>3 DEF FileCalls
<1>6. CASE EndSave
  BY <1>6 DEF EndSave, SessionsNext
<1>7. CASE AddTab
  <2>1. PICK s \in plan.ids : SessionCall(s)
    BY <1>7 DEF AddTab, SessionCall
  <2> QED
    BY <1>1, <1>7, <2>1, CallIsSessionsStep DEF AddTab, Calls, Free
<1>8. CASE Browse
  BY <1>8 DEF PlanOK, TabLives, Browse, Calls, Free, UseSession, Touch, SessionsNext, SessionCall
<1>9. CASE Expire
  BY <1>9 DEF Expire, Free, SessionsNext
<1>10. CASE ClockTicks \/ EndOfProcess
  BY <1>10 DEF ClockTicks, EndOfProcess, SessionsNext
<1>11. CASE ServerAnswers \/ CookiesLapse \/ UNCHANGED vars
  BY <1>11 DEF ServerAnswers, CookiesLapse, vars
<1> QED
  BY <1>2, <1>3, <1>4, <1>5, <1>6, <1>7, <1>8, <1>9, <1>10, <1>11 DEF Next

LEMMA PlanKept ==
  PlanOK /\ [Next]_vars => PlanOK'
<1> SUFFICES ASSUME PlanOK, [Next]_vars PROVE PlanOK'
  OBVIOUS
<1>1. CASE AddTab
  <2>1. PICK s \in plan.ids : tab' = tab \/ tab' = [session |-> s, page |-> NewPageId(s)]
    BY <1>1 DEF AddTab
  <2>2. plan' = plan /\ s \in SessionIds
    BY <1>1, PlansAssumption DEF AddTab, PlanOK
  <2> QED
    BY <2>1, <2>2 DEF PlanOK
<1>2. CASE UNCHANGED <<plan, tab>>
  BY <1>2 DEF PlanOK
<1> QED
  BY <1>1, <1>2 DEF Next, vars, PageCalls, StateCalls, ManagerCalls, FileCalls, EndSave, Browse,
     ServerAnswers, Expire, ClockTicks, CookiesLapse, EndOfProcess

\* The sessions of the agent layer are Sessions.
THEOREM ImplementsSessions == Spec => SessionsSpec
<1>1. Init => SessionsInit /\ PlanOK
  BY DEF Init, PlanOK
<1> QED
  BY <1>1, PlanKept, StepIsSessionsStep, PTL DEF Spec, SessionsSpec

\* So in serve mode, too, the monitor counts the pages in use and keeps them within the limit.
THEOREM AgentCountsPages == Spec => []PagesCounted
BY ImplementsSessions, PagesAlwaysCounted, PTL

\* The same of their memory.
THEOREM AgentCountsMemory == Spec => []MemoryCounted
BY ImplementsSessions, MemoryAlwaysCounted, PTL

--------------------------------------------------------------------------------
(* The history of the page.                                                *)

\* The page is on one of its addresses, or has none; goto() loads an address.
OnHistory ==
  \/ page.history = << >> /\ page.url = NoUrl /\ page.pos = 0
  \/ page.pos < Len(page.history) /\ page.url = page.history[page.pos + 1]
HInv ==
  /\ DOMAIN page = PageFields
  /\ page.history \in Seq(Urls) /\ page.pos \in Nat
  /\ OnHistory
  /\ nav.goal = "goto" => nav.url \in Urls

\* The step of History, or none.
HistoryStep ==
  [Browser!HistoryNext]_<<SubSeq(page.history, 1, page.pos), page.url,
                          SubSeq(page.history, page.pos + 2, Len(page.history))>>

\* A sequence that is cut behind p + 1 and continued with u.
LEMMA CutAndContinued ==
  ASSUME NEW U, NEW h \in Seq(U), NEW p \in Nat, p < Len(h), NEW u \in U,
         NEW g, g = Append(SubSeq(h, 1, p + 1), u)
  PROVE  /\ g \in Seq(U) /\ Len(g) = p + 2 /\ g[p + 2] = u
         /\ Len(SubSeq(h, 1, p + 1)) = p + 1
         /\ SubSeq(g, 1, p + 1) = Append(SubSeq(h, 1, p), h[p + 1])
         /\ SubSeq(g, p + 3, p + 2) = << >>
<1> DEFINE k == SubSeq(h, 1, p + 1)
           back == SubSeq(h, 1, p)
<1>1. k \in Seq(U) /\ Len(k) = p + 1 /\ \A i \in 1 .. p + 1 : k[i] = h[i]
  BY SubSeqProperties
<1>2. back \in Seq(U) /\ Len(back) = p /\ \A i \in 1 .. p : back[i] = h[i]
  BY SubSeqProperties
<1>3. h[p + 1] \in U
  BY ElementOfSeq
<1> HIDE DEF k, back
<1>4. g \in Seq(U) /\ Len(g) = p + 2 /\ g[p + 2] = u /\ \A i \in 1 .. p + 1 : g[i] = k[i]
  <2>1. g = Append(k, u)
    BY DEF k
  <2> QED
    BY <1>1, <2>1
<1>5. /\ SubSeq(g, 1, p + 1) \in Seq(U) /\ Len(SubSeq(g, 1, p + 1)) = p + 1
      /\ \A i \in 1 .. p + 1 : SubSeq(g, 1, p + 1)[i] = g[i]
  BY <1>4, SubSeqProperties
<1>6. /\ Append(back, h[p + 1]) \in Seq(U) /\ Len(Append(back, h[p + 1])) = p + 1
      /\ \A i \in 1 .. p + 1 : Append(back, h[p + 1])[i] = h[i]
  BY <1>2, <1>3
<1>7. SubSeq(g, 1, p + 1) = Append(back, h[p + 1])
  BY <1>1, <1>4, <1>5, <1>6, SeqEqual
<1>8. SubSeq(g, p + 3, p + 2) = << >>
  BY SubSeqEmpty
<1> QED
  BY <1>1, <1>4, <1>7, <1>8 DEF k, back

\* One step back along a sequence.
LEMMA SteppedBack ==
  ASSUME NEW U, NEW h \in Seq(U), NEW p \in Nat, 0 < p, p < Len(h)
  PROVE  /\ SubSeq(h, 1, p) # << >>
         /\ Front(SubSeq(h, 1, p)) = SubSeq(h, 1, p - 1)
         /\ Last(SubSeq(h, 1, p)) = h[p]
         /\ SubSeq(h, p + 1, Len(h)) = <<h[p + 1]>> \o SubSeq(h, p + 2, Len(h))
<1> DEFINE back == SubSeq(h, 1, p)
<1>1. back \in Seq(U) /\ Len(back) = p /\ \A i \in 1 .. p : back[i] = h[i]
  BY SubSeqProperties
<1>2. SubSeq(h, p + 1, Len(h)) = <<h[p + 1]>> \o SubSeq(h, p + 1 + 1, Len(h))
  BY SubSeqRecursiveFirst
<1>3. SubSeq(h, 1, p - 1) \in Seq(U) /\ Len(SubSeq(h, 1, p - 1)) = p - 1
      /\ \A i \in 1 .. p - 1 : SubSeq(h, 1, p - 1)[i] = h[i]
  BY SubSeqProperties
<1> HIDE DEF back
<1>4. SubSeq(back, 1, p - 1) \in Seq(U) /\ Len(SubSeq(back, 1, p - 1)) = p - 1
      /\ \A i \in 1 .. p - 1 : SubSeq(back, 1, p - 1)[i] = back[i]
  BY <1>1, SubSeqProperties
<1>5. SubSeq(back, 1, p - 1) = SubSeq(h, 1, p - 1)
  BY <1>1, <1>3, <1>4, SeqEqual
<1>6. back # << >> /\ Last(back) = h[p] /\ Front(back) = SubSeq(back, 1, p - 1)
  BY <1>1 DEF Front, Last
<1>7. p + 1 + 1 = p + 2
  OBVIOUS
<1> QED
  BY <1>2, <1>5, <1>6, <1>7 DEF back

\* One step forward.
LEMMA SteppedForward ==
  ASSUME NEW U, NEW h \in Seq(U), NEW p \in Nat, p + 1 < Len(h)
  PROVE  /\ SubSeq(h, p + 2, Len(h)) # << >>
         /\ Head(SubSeq(h, p + 2, Len(h))) = h[p + 2]
         /\ Tail(SubSeq(h, p + 2, Len(h))) = SubSeq(h, p + 3, Len(h))
         /\ SubSeq(h, 1, p + 1) = Append(SubSeq(h, 1, p), h[p + 1])
<1>1. p + 2 \in 1 .. Len(h) /\ Len(h) \in p + 2 .. Len(h) /\ p + 2 + 1 = p + 3
  OBVIOUS
<1>2. /\ Head(SubSeq(h, p + 2, Len(h))) = h[p + 2]
      /\ Tail(SubSeq(h, p + 2, Len(h))) = SubSeq(h, p + 2 + 1, Len(h))
  BY <1>1, HeadTailOfSubSeq
<1>3. SubSeq(h, p + 2, Len(h)) # << >>
  <2> DEFINE ahead == SubSeq(h, p + 2, Len(h))
  <2>1. \A i \in p + 2 .. Len(h) : h[i] \in U
    BY ElementOfSeq
  <2>2. Len(ahead) = Len(h) - (p + 2) + 1
    BY <1>1, <2>1, SubSeqProperties
  <2> HIDE DEF ahead
  <2>3. Len(ahead) # 0
    BY <2>2
  <2>4. ahead # << >>
    BY <2>3
  <2> QED
    BY <2>4 DEF ahead
<1>4. SubSeq(h, 1, p) \in Seq(U) /\ Len(SubSeq(h, 1, p)) = p
      /\ \A i \in 1 .. p : SubSeq(h, 1, p)[i] = h[i]
  BY SubSeqProperties
<1>5. SubSeq(h, 1, p + 1) \in Seq(U) /\ Len(SubSeq(h, 1, p + 1)) = p + 1
      /\ \A i \in 1 .. p + 1 : SubSeq(h, 1, p + 1)[i] = h[i]
  BY SubSeqProperties
<1>6. h[p + 1] \in U
  BY ElementOfSeq
<1>7. /\ Append(SubSeq(h, 1, p), h[p + 1]) \in Seq(U)
      /\ Len(Append(SubSeq(h, 1, p), h[p + 1])) = p + 1
      /\ \A i \in 1 .. p + 1 : Append(SubSeq(h, 1, p), h[p + 1])[i] = h[i]
  BY <1>4, <1>6
<1>8. SubSeq(h, 1, p + 1) = Append(SubSeq(h, 1, p), h[p + 1])
  BY <1>5, <1>7, SeqEqual
<1> QED
  BY <1>1, <1>2, <1>3, <1>8

--------------------------------------------------------------------------------
\* A call that leaves the history, the position and the address leaves them to History too.
LEMMA PageUntouched ==
  ASSUME HInv, page'.history = page.history, page'.pos = page.pos, page'.url = page.url,
         DOMAIN page' = PageFields, nav'.goal = "goto" => nav'.url \in Urls
  PROVE  HInv' /\ HistoryStep
<1>1. HInv'
  BY DEF HInv, OnHistory
<1> QED
  BY <1>1 DEF HistoryStep

LEMMA GoBackSteps ==
  ASSUME HInv, GoBack
  PROVE  HInv' /\ HistoryStep
<1> DEFINE h == page.history
           p == page.pos
<1>1. h \in Seq(Urls) /\ p \in Nat /\ 0 < p /\ p < Len(h) /\ page.url = h[p + 1]
  BY DEF HInv, OnHistory, GoBack
<1>2. page'.history = h /\ page'.pos = p - 1 /\ page'.url = h[p] /\ DOMAIN page' = PageFields
  BY <1>1 DEF HInv, GoBack, Move, PageFields
<1>3. nav'.goal = "reload"
  BY DEF GoBack, Move, Request
<1> HIDE DEF h, p
<1>4. HInv'
  BY <1>1, <1>2, <1>3 DEF HInv, OnHistory
<1>5. Browser!Back
  <2>1. /\ SubSeq(h, 1, p) # << >>
        /\ Front(SubSeq(h, 1, p)) = SubSeq(h, 1, p - 1)
        /\ Last(SubSeq(h, 1, p)) = h[p]
        /\ SubSeq(h, p + 1, Len(h)) = <<h[p + 1]>> \o SubSeq(h, p + 2, Len(h))
    BY <1>1, SteppedBack
  <2>2. (p - 1) + 2 = p + 1
    BY <1>1
  <2>3. \A s : Browser!Front(s) = Front(s) /\ Browser!Last(s) = Last(s)
    BY DEF Browser!Front, Browser!Last, Front, Last
  <2>4. SubSeq(page.history, 1, page.pos) # << >>
    BY <2>1 DEF h, p
  <2>5. SubSeq(page'.history, 1, page'.pos) = Front(SubSeq(page.history, 1, page.pos))
    BY <1>2, <2>1 DEF h, p
  <2>6. page'.url = Last(SubSeq(page.history, 1, page.pos))
    BY <1>2, <2>1 DEF h, p
  <2>7. SubSeq(page'.history, page'.pos + 2, Len(page'.history))
          = <<page.url>> \o SubSeq(page.history, page.pos + 2, Len(page.history))
    BY <1>1, <1>2, <2>1, <2>2 DEF h, p
  <2> QED
    BY <2>3, <2>4, <2>5, <2>6, <2>7 DEF Browser!Back
<1> QED
  BY <1>4, <1>5 DEF HistoryStep, Browser!HistoryNext

LEMMA GoForwardSteps ==
  ASSUME HInv, GoForward
  PROVE  HInv' /\ HistoryStep
<1> DEFINE h == page.history
           p == page.pos
<1>1. h \in Seq(Urls) /\ p \in Nat /\ p + 1 < Len(h) /\ page.url = h[p + 1]
  BY DEF HInv, OnHistory, GoForward
<1>2. page'.history = h /\ page'.pos = p + 1 /\ page'.url = h[p + 2] /\ DOMAIN page' = PageFields
  BY <1>1 DEF HInv, GoForward, Move, PageFields
<1>3. nav'.goal = "reload"
  BY DEF GoForward, Move, Request
<1> HIDE DEF h, p
<1>4. HInv'
  BY <1>1, <1>2, <1>3 DEF HInv, OnHistory
<1>5. Browser!Forward
  <2>1. /\ SubSeq(h, p + 2, Len(h)) # << >>
        /\ Head(SubSeq(h, p + 2, Len(h))) = h[p + 2]
        /\ Tail(SubSeq(h, p + 2, Len(h))) = SubSeq(h, p + 3, Len(h))
        /\ SubSeq(h, 1, p + 1) = Append(SubSeq(h, 1, p), h[p + 1])
    BY <1>1, SteppedForward
  <2>2. (p + 1) + 2 = p + 3
    BY <1>1
  <2> QED
    BY <1>1, <1>2, <2>1, <2>2 DEF Browser!Forward, h, p
<1> QED
  BY <1>4, <1>5 DEF HistoryStep, Browser!HistoryNext

\* A visit that succeeds cuts off what was ahead and goes on from here.
LEMMA VisitSteps ==
  ASSUME HInv, NEW url \in Urls, page' = Visited(page, url), nav'.goal # "goto"
  PROVE  HInv' /\ HistoryStep
<1> DEFINE h == page.history
           p == page.pos
           kept == SubSeq(h, 1, IF h = << >> THEN 0 ELSE p + 1)
<1>1. h \in Seq(Urls) /\ p \in Nat
  BY DEF HInv
<1>2. /\ page'.history = Append(kept, url) /\ page'.pos = Len(kept) /\ page'.url = url
      /\ DOMAIN page' = PageFields
  BY DEF HInv, Visited, PageFields
<1> HIDE DEF kept
<1>3. CASE h = << >>
  <2>1. kept = << >> /\ page.url = NoUrl /\ p = 0
    BY <1>3, SubSeqEmpty DEF HInv, OnHistory, kept
  <2>2. page'.history = <<url>> /\ page'.pos = 0
    BY <1>2, <2>1
  <2>3. HInv'
    BY <1>2, <2>2 DEF HInv, OnHistory
  <2>4. /\ SubSeq(h, 1, p) = << >> /\ SubSeq(<<url>>, 1, 0) = << >>
        /\ SubSeq(<<url>>, 2, 1) = << >> /\ Len(<<url>>) = 1
    BY <1>3, <2>1, SubSeqEmpty
  <2>5. Browser!Visit(url)
    BY <1>2, <2>1, <2>2, <2>4 DEF Browser!Visit
  <2> QED
    BY <2>3, <2>5 DEF HistoryStep, Browser!HistoryNext
<1>4. CASE h # << >>
  <2>1. p < Len(h) /\ page.url = h[p + 1]
    BY <1>4 DEF HInv, OnHistory
  <2>2. h[p + 1] \in Urls /\ page.url # NoUrl
    BY <1>1, <2>1, ElementOfSeq, PagesAssumption
  <2> HIDE DEF h, p
  <2> DEFINE g == Append(SubSeq(h, 1, p + 1), url)
  <2>0. g = Append(SubSeq(h, 1, p + 1), url)
    OBVIOUS
  <2> HIDE DEF g
  <2>3. /\ g \in Seq(Urls) /\ Len(g) = p + 2 /\ g[p + 2] = url
        /\ Len(SubSeq(h, 1, p + 1)) = p + 1
        /\ SubSeq(g, 1, p + 1) = Append(SubSeq(h, 1, p), h[p + 1])
        /\ SubSeq(g, p + 3, p + 2) = << >>
    <3>1. h \in Seq(Urls) /\ p \in Nat /\ p < Len(h)
      BY <1>1, <2>1
    <3> QED
      BY ONLY <3>1, <2>0, url \in Urls, CutAndContinued
  <2>4. page'.history = g /\ page'.pos = p + 1
    BY <1>2, <1>4, <2>0, <2>3 DEF kept
  <2>5. (p + 1) + 1 = p + 2 /\ (p + 1) + 2 = p + 3 /\ p + 1 < p + 2
    BY <1>1
  <2>6. HInv'
    BY <1>1, <1>2, <2>3, <2>4, <2>5 DEF HInv, OnHistory
  <2>7. Browser!Visit(url)
    BY <1>2, <2>1, <2>2, <2>3, <2>4, <2>5 DEF Browser!Visit, h, p
  <2> QED
    BY <2>6, <2>7 DEF HistoryStep, Browser!HistoryNext
<1> QED
  BY <1>3, <1>4

LEMMA BrowseSteps ==
  ASSUME HInv, Browse
  PROVE  HInv' /\ HistoryStep
<1>1. CASE \E url \in Urls : Goto(url)
  BY <1>1, PageUntouched DEF Goto, Request, HInv, PageFields
<1>2. CASE Reload
  BY <1>2, PageUntouched DEF Reload, Request, HInv
<1>3. CASE Fetch
  BY <1>3, PageUntouched DEF Fetch, Post, LoadResources, Request, HInv
<1> QED
  BY <1>1, <1>2, <1>3, GoBackSteps, GoForwardSteps DEF Browse, Navigate

LEMMA AnswerSteps ==
  ASSUME HInv, NEW a, Answer(a)
  PROVE  HInv' /\ HistoryStep
<1>1. PICK cookies : Fail(cookies) \/ Succeed(cookies) \/ (a.location \in Urls /\ Follow(a, cookies))
  BY DEF Answer
<1>2. CASE Fail(cookies)
  BY <1>2, PageUntouched DEF Fail, NextResource, Request, NoNav, HInv
<1>3. CASE a.location \in Urls /\ Follow(a, cookies)
  BY <1>3, PageUntouched DEF Follow, Request, HInv
<1>4. CASE Succeed(cookies)
  <2>1. nav'.goal # "goto"
    BY <1>4 DEF Succeed, NextResource, Request, NoNav
  <2>2. CASE nav.goal = "goto"
    BY <1>4, <2>1, <2>2, VisitSteps DEF Succeed, HInv
  <2>3. CASE nav.goal = "reload"
    <3>1. page' = Shown(page, nav.url)
      BY <1>4, <2>3 DEF Succeed
    <3> QED
      BY <2>1, <3>1, PageUntouched DEF Shown, HInv, PageFields
  <2>4. CASE nav.goal \notin {"goto", "reload"}
    BY <1>4, <2>1, <2>4, PageUntouched DEF Succeed, HInv
  <2> QED
    BY <2>2, <2>3, <2>4
<1> QED
  BY <1>1, <1>2, <1>3, <1>4

LEMMA HistoryInitOK ==
  Init => HInv /\ Browser!HistoryInit
<1> SUFFICES ASSUME Init PROVE HInv /\ Browser!HistoryInit
  OBVIOUS
<1>1. page \in NewPages /\ nav = NoNav
  BY DEF Init, BrowsingInit
<1>2. DOMAIN page = PageFields /\ page.pos = 0
  BY <1>1, PagesAssumption
<1>3. CASE page.history = << >> /\ page.url = NoUrl
  <2>1. SubSeq(page.history, 1, 0) = << >> /\ SubSeq(page.history, 2, 0) = << >>
    BY SubSeqEmpty
  <2> QED
    BY <1>1, <1>2, <1>3, <2>1 DEF HInv, OnHistory, NoNav, Browser!HistoryInit
<1>4. CASE page.url \in Urls /\ page.history = <<page.url>>
  <2>1. SubSeq(page.history, 1, 0) = << >> /\ SubSeq(page.history, 2, 1) = << >>
    BY SubSeqEmpty
  <2>2. page.history \in Seq(Urls) /\ Len(page.history) = 1 /\ page.history[1] = page.url
    BY <1>4
  <2> QED
    BY <1>1, <1>2, <1>4, <2>1, <2>2 DEF HInv, OnHistory, NoNav, Browser!HistoryInit
<1> QED
  BY <1>1, <1>3, <1>4, PagesAssumption

LEMMA HistoryNextOK ==
  HInv /\ [Next]_vars => HInv' /\ HistoryStep
<1> SUFFICES ASSUME HInv, [Next]_vars PROVE HInv' /\ HistoryStep
  OBVIOUS
<1>1. CASE Browse
  BY <1>1, BrowseSteps
<1>2. CASE ServerAnswers
  BY <1>2, AnswerSteps DEF ServerAnswers
<1>3. CASE UNCHANGED <<page, nav>>
  BY <1>3, PageUntouched DEF HInv
<1> QED
  BY <1>1, <1>2, <1>3 DEF Next, vars, bvars, PageCalls, StateCalls, ManagerCalls, FileCalls,
     EndSave, AddTab, Expire, ClockTicks, CookiesLapse, Lapse, EndOfProcess

\* The page keeps its history as History says: back and forward move without changing it, a
\* visit that succeeds forgets what was ahead, one that fails changes nothing (page.rs 71-157).
THEOREM KeepsHistory == Spec => ImplementsHistory
BY HistoryInitOK, HistoryNextOK, PTL
   DEF Spec, ImplementsHistory, Browser!HistorySpec, HistoryStep

--------------------------------------------------------------------------------
(* Cookies.                                                                *)

\* What a jar holds when n cookies are stored: what none of them replaces.
Kept(old, q, n) ==
  {d \in old : \A k \in 1 .. n : IsCookie(q[k]) => ~SameCookie(d, q[k])}
    \cup {q[k] : k \in {k \in 1 .. n :
            /\ IsCookie(q[k]) /\ q[k].life # "past"
            /\ \A m \in k + 1 .. n : IsCookie(q[m]) => ~SameCookie(q[k], q[m])}}

\* That satisfies the equation of StoreAll ...
LEMMA KeptNone ==
  ASSUME NEW old, NEW q
  PROVE  Kept(old, q, 0) = old
BY DEF Kept

LEMMA KeptNext ==
  ASSUME NEW old, NEW q, NEW n \in Nat, n # 0
  PROVE  Kept(old, q, n) = IF IsCookie(q[n]) THEN Store(Kept(old, q, n - 1), q[n])
                                            ELSE Kept(old, q, n - 1)
<1>1. 1 .. n = 1 .. n - 1 \cup {n} /\ n \notin 1 .. n - 1
  OBVIOUS
<1>2. \A k \in 1 .. n - 1 : k + 1 .. n = k + 1 .. n - 1 \cup {n}
  OBVIOUS
<1>3. n + 1 .. n = {}
  OBVIOUS
<1>4. CASE ~IsCookie(q[n])
  BY <1>1, <1>2, <1>4 DEF Kept
<1>5. CASE IsCookie(q[n])
  BY <1>1, <1>2, <1>3, <1>5 DEF Kept, Store
<1> QED
  BY <1>4, <1>5

\* ... and by induction on the number of cookies nothing else does.
LEMMA StoreAllKeeps ==
  ASSUME NEW old, NEW q, Len(q) \in Nat
  PROVE  StoreAll(old, q) = Kept(old, q, Len(q))
<1> DEFINE n == Len(q)
           Is(f) == f = [i \in 0 .. n |-> IF i = 0 THEN old
                                          ELSE IF IsCookie(q[i]) THEN Store(f[i - 1], q[i]) ELSE f[i - 1]]
           after == CHOOSE f : Is(f)
           kept  == [i \in 0 .. n |-> Kept(old, q, i)]
<1>1. Is(kept)
  BY KeptNone, KeptNext
<1>2. Is(after)
  BY <1>1
<1> DEFINE Wrong == {i \in 0 .. n : after[i] # kept[i]}
<1>3. Wrong = {}
  <2> SUFFICES ASSUME Wrong # {} PROVE FALSE
    OBVIOUS
  <2>1. Wrong \in SUBSET Nat
    OBVIOUS
  <2>2. PICK m \in Wrong : \A k \in Wrong : m <= k
    <3> HIDE DEF Wrong
    <3> QED
      BY <2>1, SmallestNumber
  <2>3. m # 0
    BY <1>1, <1>2
  <2>4. m - 1 \in 0 .. n /\ after[m - 1] = kept[m - 1]
    BY <2>2, <2>3
  <2> QED
    BY <1>1, <1>2, <2>3, <2>4
<1>4. StoreAll(old, q) = after[n]
  BY DEF StoreAll
<1>5. n \in 0 .. n /\ kept[n] = Kept(old, q, n)
  OBVIOUS
<1> HIDE DEF after, kept
<1>6. after[n] = kept[n]
  BY <1>3, <1>5
<1> QED
  BY <1>4, <1>5, <1>6

CookieFields == {"name", "value", "life", "secure", "domain", "hostOnly", "path"}
Cookies(q) ==
  /\ Len(q) \in Nat /\ q = [i \in 1 .. Len(q) |-> q[i]]
  /\ \A i \in 1 .. Len(q) : DOMAIN q[i] = CookieFields

Alive(cookies) == {c \in cookies : c.life # "past"}

\* What is sent depends on the cookies that are alive,
LEMMA SentAlive ==
  ASSUME NEW A, NEW B, Alive(A) = Alive(B), NEW address
  PROVE  CookiesFor(A, address) = CookiesFor(B, address)
<1>1. \A C : CookiesFor(C, address) = {c \in Alive(C) : Matches(c, address)}
  BY DEF CookiesFor, Alive, Matches
<1> QED
  BY <1>1

\* and what is alive after storing on what was alive before.
LEMMA KeptAlive ==
  ASSUME NEW A, NEW B, Alive(A) = Alive(B), NEW q, NEW n
  PROVE  Alive(Kept(A, q, n)) = Alive(Kept(B, q, n))
<1> DEFINE new == {q[k] : k \in {k \in 1 .. n :
                     /\ IsCookie(q[k]) /\ q[k].life # "past"
                     /\ \A m \in k + 1 .. n : IsCookie(q[m]) => ~SameCookie(q[k], q[m])}}
           Stays(d) == \A k \in 1 .. n : IsCookie(q[k]) => ~SameCookie(d, q[k])
<1>1. \A C : Kept(C, q, n) = {d \in C : Stays(d)} \cup new
  BY DEF Kept
<1> HIDE DEF new, Stays
<1>2. \A C : Alive(Kept(C, q, n)) = {d \in Alive(C) : Stays(d)} \cup Alive(new)
  BY <1>1 DEF Alive
<1> QED
  BY <1>2

\* Cookies behind cookies.
LEMMA Joined ==
  ASSUME NEW q, Cookies(q), NEW r, Cookies(r)
  PROVE  /\ Cookies(q \o r) /\ Len(q \o r) = Len(q) + Len(r)
         /\ \A i \in 1 .. Len(q) : (q \o r)[i] = q[i]
         /\ \A i \in 1 .. Len(r) : (q \o r)[Len(q) + i] = r[i]
<1> DEFINE C == {q[i] : i \in 1 .. Len(q)} \cup {r[i] : i \in 1 .. Len(r)}
<1>1. q \in Seq(C) /\ r \in Seq(C)
  BY IsASeq DEF Cookies
<1>2. \A c \in C : DOMAIN c = CookieFields
  BY DEF Cookies
<1> HIDE DEF C
<1>3. /\ q \o r \in Seq(C) /\ Len(q \o r) = Len(q) + Len(r)
      /\ \A i \in 1 .. Len(q) + Len(r) :
           (q \o r)[i] = IF i <= Len(q) THEN q[i] ELSE r[i - Len(q)]
  BY <1>1, ConcatProperties
<1>4. Cookies(q \o r)
  BY <1>2, <1>3, ElementOfSeq, LenProperties DEF Cookies
<1> QED
  BY <1>1, <1>3, <1>4, LenProperties

\* Storing more cookies and asking what is in effect, or the other way round.
LEMMA InEffectJoined ==
  ASSUME NEW q, Cookies(q), NEW r, Cookies(r)
  PROVE  Alive(InEffect(q \o r)) = Alive(Kept(InEffect(q), r, Len(r)))
<1> DEFINE s == q \o r
           a == Len(q)
           b == Len(r)
<1>1. /\ Len(s) = a + b /\ a \in Nat /\ b \in Nat
      /\ \A i \in 1 .. a : s[i] = q[i]
      /\ \A i \in 1 .. b : s[a + i] = r[i]
  BY Joined DEF Cookies
<1> HIDE DEF s, a, b
<1> DEFINE Latest(i) == IsCookie(s[i]) /\ \A j \in i + 1 .. Len(s) : ~SameCookie(s[i], s[j])
<1>2. \A i \in 1 .. a : Latest(i) <=>
        /\ IsCookie(q[i]) /\ \A j \in i + 1 .. a : ~SameCookie(q[i], q[j])
        /\ \A k \in 1 .. b : IsCookie(r[k]) => ~SameCookie(q[i], r[k])
  <2> SUFFICES ASSUME NEW i \in 1 .. a
               PROVE  Latest(i) <=>
                        /\ IsCookie(q[i]) /\ \A j \in i + 1 .. a : ~SameCookie(q[i], q[j])
                        /\ \A k \in 1 .. b : IsCookie(r[k]) => ~SameCookie(q[i], r[k])
    OBVIOUS
  <2>1. \A j \in i + 1 .. Len(s) : j \in i + 1 .. a \/ (j - a \in 1 .. b /\ j = a + (j - a))
    BY <1>1
  <2>2. \A k \in 1 .. b : a + k \in i + 1 .. Len(s)
    BY <1>1
  <2>3. \A j \in i + 1 .. a : j \in i + 1 .. Len(s) /\ j \in 1 .. a
    BY <1>1
  <2>4. \A k \in 1 .. b : IsCookie(q[i]) /\ SameCookie(q[i], r[k]) => IsCookie(r[k])
    BY DEF IsCookie, SameCookie
  <2> QED
    BY <1>1, <2>1, <2>2, <2>3, <2>4
<1>3. \A k \in 1 .. b : Latest(a + k) <=>
        /\ IsCookie(r[k])
        /\ \A m \in k + 1 .. b : IsCookie(r[m]) => ~SameCookie(r[k], r[m])
  <2> SUFFICES ASSUME NEW k \in 1 .. b
               PROVE  Latest(a + k) <=>
                        /\ IsCookie(r[k])
                        /\ \A m \in k + 1 .. b : IsCookie(r[m]) => ~SameCookie(r[k], r[m])
    OBVIOUS
  <2>1. \A j \in a + k + 1 .. Len(s) : j - a \in k + 1 .. b /\ j - a \in 1 .. b /\ j = a + (j - a)
    BY <1>1
  <2>2. \A m \in k + 1 .. b : a + m \in a + k + 1 .. Len(s) /\ m \in 1 .. b
    BY <1>1
  <2>4. \A m \in 1 .. b : IsCookie(r[k]) /\ SameCookie(r[k], r[m]) => IsCookie(r[m])
    BY DEF IsCookie, SameCookie
  <2> QED
    BY <1>1, <2>1, <2>2, <2>4
<1>4. InEffect(s) = {s[i] : i \in {i \in 1 .. Len(s) : Latest(i)}}
  BY DEF InEffect
<1>5. \A i \in 1 .. Len(s) : i \in 1 .. a \/ (i - a \in 1 .. b /\ i = a + (i - a))
  BY <1>1
<1>6. \A i \in 1 .. a : i \in 1 .. Len(s)
  BY <1>1
<1>7. \A k \in 1 .. b : a + k \in 1 .. Len(s)
  BY <1>1
<1> HIDE DEF Latest
<1> DEFINE old == {q[i] : i \in {i \in 1 .. a : Latest(i)}}
           new == {r[k] : k \in {k \in 1 .. b : Latest(a + k)}}
<1>8. InEffect(s) = old \cup new
  BY <1>1, <1>4, <1>5, <1>6, <1>7
<1>9. old = {d \in InEffect(q) : \A k \in 1 .. b : IsCookie(r[k]) => ~SameCookie(d, r[k])}
  BY <1>2 DEF InEffect, a
<1>10. Kept(InEffect(q), r, b) = old \cup Alive(new)
  BY <1>3, <1>9 DEF Kept, Alive
<1>11. Alive(InEffect(s)) = Alive(Kept(InEffect(q), r, b))
  BY <1>8, <1>10 DEF Alive
<1> QED
  BY <1>11 DEF s, b

\* A cookie that expires keeps its name, domain and path.
LEMMA LapsedSame ==
  ASSUME NEW c, DOMAIN c = CookieFields
  PROVE  /\ DOMAIN Lapsed(c) = CookieFields
         /\ Lapsed(c).name = c.name /\ Lapsed(c).domain = c.domain /\ Lapsed(c).path = c.path
         /\ Lapsed(c).life # "past" => Lapsed(c) = c
         /\ c.life = "past" => Lapsed(c).life = "past"
BY DEF CookieFields, Lapsed

\* So the cookies in effect expire where they are.
LEMMA InEffectLapsed ==
  ASSUME NEW q, Cookies(q), NEW r, r = [i \in 1 .. Len(q) |-> Lapsed(q[i])]
  PROVE  Cookies(r) /\ InEffect(r) = {Lapsed(c) : c \in InEffect(q)}
<1>1. Len(q) \in Nat /\ Len(r) = Len(q)
  BY DEF Cookies
<1>2. \A i \in 1 .. Len(q) : r[i] = Lapsed(q[i]) /\ DOMAIN q[i] = CookieFields
  BY DEF Cookies
<1>3. Cookies(r)
  BY <1>1, <1>2, LapsedSame DEF Cookies
<1>4. \A i \in 1 .. Len(q) : IsCookie(r[i]) <=> IsCookie(q[i])
  BY <1>2, LapsedSame DEF IsCookie
<1>5. \A i \in 1 .. Len(q) : \A j \in 1 .. Len(q) : SameCookie(r[i], r[j]) <=> SameCookie(q[i], q[j])
  BY <1>2, LapsedSame DEF SameCookie
<1>6. \A i \in 1 .. Len(q) : i + 1 .. Len(q) \subseteq 1 .. Len(q)
  BY <1>1
<1> DEFINE late == {i \in 1 .. Len(q) :
                     IsCookie(q[i]) /\ \A j \in i + 1 .. Len(q) : ~SameCookie(q[i], q[j])}
<1>7. InEffect(q) = {q[i] : i \in late}
  BY DEF InEffect
<1>8. InEffect(r) = {r[i] : i \in late}
  BY <1>1, <1>4, <1>5, <1>6 DEF InEffect
<1>9. late \subseteq 1 .. Len(q)
  OBVIOUS
<1> HIDE DEF late
<1> QED
  BY <1>2, <1>3, <1>7, <1>8, <1>9

\* Of two jars with the same cookies alive the same expire.
LEMMA AliveLapsed ==
  ASSUME NEW A, NEW B, Alive(A) = Alive(B),
         \A c \in A : DOMAIN c = CookieFields, \A c \in B : DOMAIN c = CookieFields
  PROVE  Alive({Lapsed(c) : c \in A}) = Alive({Lapsed(c) : c \in B})
<1>1. ASSUME NEW C, \A c \in C : DOMAIN c = CookieFields
      PROVE  Alive({Lapsed(c) : c \in C}) = {c \in Alive(C) : Lapsed(c) = c /\ Lapsed(c).life # "past"}
  BY <1>1, LapsedSame DEF Alive
<1>2. /\ Alive({Lapsed(c) : c \in A}) = {c \in Alive(A) : Lapsed(c) = c /\ Lapsed(c).life # "past"}
      /\ Alive({Lapsed(c) : c \in B}) = {c \in Alive(B) : Lapsed(c) = c /\ Lapsed(c).life # "past"}
  BY <1>1
<1> QED
  BY <1>2

\* The cookies of the jar that are alive are those that are in effect.
CInv ==
  /\ plan \in Plans
  /\ Cookies(stored)
  /\ \A c \in jar : DOMAIN c = CookieFields
  /\ Alive(jar) = Alive(InEffect(stored))

\* A request carries what the jar has for its address.
Sent == nav' \notin {nav, NoNav} => nav'.sent = CookiesFor(jar', Address[nav'.url])

LEMMA InEffectCookies ==
  ASSUME NEW q, Cookies(q)
  PROVE  \A c \in InEffect(q) : DOMAIN c = CookieFields
BY DEF Cookies, InEffect

LEMMA ParsedCookies ==
  ASSUME NEW headers, Len(headers) \in Nat, NEW address
  PROVE  Cookies(Parsed(headers, address))
<1>1. \A h : DOMAIN ParseSetCookie(h, address) = CookieFields
  BY DEF ParseSetCookie, CookieFields
<1> HIDE DEF ParseSetCookie
<1> QED
  BY <1>1 DEF Parsed, Cookies

LEMMA StoreAllCookies ==
  ASSUME NEW old, \A c \in old : DOMAIN c = CookieFields, NEW q, Cookies(q)
  PROVE  \A c \in StoreAll(old, q) : DOMAIN c = CookieFields
<1>1. StoreAll(old, q) = Kept(old, q, Len(q))
  BY StoreAllKeeps DEF Cookies
<1> QED
  BY <1>1 DEF Kept, Cookies

\* An answer stores its cookies first, and then follows the redirect or loads the next resource.
LEMMA AnswerCookies ==
  ASSUME CInv, NEW a \in plan.answers, Answer(a), plan' = plan
  PROVE  CInv' /\ Sent
<1> DEFINE got == Parsed(a.cookies, Address[nav.url])
<1>1. Cookies(got)
  BY PlansAssumption, ParsedCookies DEF CInv
<1> HIDE DEF got
<1>2. jar' = StoreAll(jar, got) /\ stored' = stored \o got
  BY DEF Answer, got
<1>3. Alive(InEffect(stored')) = Alive(Kept(InEffect(stored), got, Len(got)))
  BY <1>1, <1>2, InEffectJoined DEF CInv
<1>4. Alive(jar') = Alive(Kept(InEffect(stored), got, Len(got)))
  BY <1>1, <1>2, StoreAllKeeps, KeptAlive DEF CInv, Cookies
<1>5. CInv'
  BY <1>1, <1>2, <1>3, <1>4, Joined, StoreAllCookies DEF CInv
<1>6. \/ nav' = NoNav
      \/ \E goal, url, method, count : nav' = Request(goal, url, method, count, jar')
  BY <1>2 DEF Answer, Fail, Succeed, NextResource, Follow, got
<1>7. Sent
  BY <1>6 DEF Sent, Request
<1> QED
  BY <1>5, <1>7

\* A call sends its first request.
LEMMA CallCookies ==
  ASSUME CInv, Navigate \/ Fetch, plan' = plan
  PROVE  CInv' /\ Sent
<1>1. jar' = jar /\ stored' = stored
  BY DEF Navigate, Goto, Reload, GoBack, GoForward, Move, Fetch, Post, LoadResources
<1>2. \E goal, url, method, count : nav' = Request(goal, url, method, count, jar')
  BY DEF Navigate, Goto, Reload, GoBack, GoForward, Move, Fetch, Post, LoadResources
<1>3. Sent
  BY <1>2 DEF Sent, Request
<1> QED
  BY <1>1, <1>3 DEF CInv

\* Time passes.
LEMMA LapseCookies ==
  ASSUME CInv, Lapse, plan' = plan
  PROVE  CInv' /\ Sent
<1>1. /\ jar' = {Lapsed(c) : c \in jar}
      /\ stored' = [i \in 1 .. Len(stored) |-> Lapsed(stored[i])] /\ nav' = nav
  BY DEF Lapse
<1>2. Cookies(stored') /\ InEffect(stored') = {Lapsed(c) : c \in InEffect(stored)}
  BY <1>1, InEffectLapsed DEF CInv
<1>3. Alive(jar') = Alive(InEffect(stored'))
  BY <1>1, <1>2, AliveLapsed, InEffectCookies DEF CInv
<1>4. \A c \in jar' : DOMAIN c = CookieFields
  BY <1>1, LapsedSame DEF CInv
<1> QED
  BY <1>1, <1>2, <1>3, <1>4 DEF CInv, Sent

\* Every request that a call, a redirect or a resource causes carries exactly the cookies in
\* effect for its address, whatever the servers set, delete, replace or let expire, and
\* wherever they redirect (http.rs 131-208, cookies.rs 222-262).
THEOREM CookiesAlwaysSent == Spec => CookiesSent
<1>1. Init => CInv
  <2>1. Cookies(<< >>)
    BY DEF Cookies
  <2>2. InEffect(<< >>) = {}
    BY DEF InEffect
  <2> QED
    BY <2>1, <2>2 DEF Init, BrowsingInit, CInv, Alive
<1>2. CInv /\ [Next]_vars => CInv' /\ Sent
  <2> SUFFICES ASSUME CInv, [Next]_vars PROVE CInv' /\ Sent
    OBVIOUS
  <2>1. CASE Browse
    BY <2>1, CallCookies DEF Browse
  <2>2. CASE ServerAnswers
    BY <2>2, AnswerCookies DEF ServerAnswers
  <2>3. CASE CookiesLapse
    BY <2>3, LapseCookies DEF CookiesLapse
  <2>4. CASE UNCHANGED <<bvars, plan>>
    BY <2>4 DEF bvars, CInv, Sent
  <2> QED
    BY <2>1, <2>2, <2>3, <2>4 DEF Next, vars, PageCalls, StateCalls, ManagerCalls, FileCalls,
       EndSave, AddTab, Expire, ClockTicks, EndOfProcess
<1>3. CInv' /\ Sent => (nav' \notin {nav, NoNav}
                         => nav'.sent = CookiesFor(InEffect(stored'), Address[nav'.url]))
  BY SentAlive DEF CInv, Sent
<1> QED
  BY <1>1, <1>2, <1>3, PTL DEF Spec, CookiesSent

================================================================================

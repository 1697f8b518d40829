------------------------------- MODULE Cdp_proofs ------------------------------
(***************************************************************************)
(* For any number of connections, targets, sessions and requests: a target *)
(* says that it is attached exactly as long as a session names it; and the *)
(* lines of the consoles are reported once, in order, and to the session   *)
(* that wrote them unless they were left.                                  *)
(*                                                                         *)
(* Neither is inductive by itself.  For the first (IInv), a session must   *)
(* name a target that exists, or none, and the requests that wait must be  *)
(* such that what they do to a target leaves it one.  For the second       *)
(* (LInv), the lines of a target must be numbered from when it was made: a *)
(* line that was said has a number that the target has given, smaller than *)
(* those of the lines it still has, so that no later one can repeat it on  *)
(* this connection or another.                                             *)
(***************************************************************************)
EXTENDS Cdp, SequenceTheorems, TLAPS

Line    == [target : Nat, no : Nat, by : Nat, left : BOOLEAN]
Target  == [url : Words, attached : BOOLEAN, enabled : SUBSET Words, logs : Seq(Line), lines : Nat]
Request == [id : Nat, session : Nat, on : Nat, method : Words, what : Words]

\* Targets and sessions: what every call on them preserves.
BrowserOK ==
  /\ targets \in Seq(Target)
  /\ sessions \in Seq(Nat)
  /\ \A s \in DOMAIN sessions : sessions[s] \in DOMAIN targets \cup {None}
  /\ AttachedExact

\* The requests that wait.
Fields  == {"state", "sent", "inbox", "channel", "received"}
ConnOK(k) == DOMAIN k = Fields /\ k.sent \in Nat /\ k.inbox \in Seq(Request)
ConnsOK ==
  /\ DOMAIN conns = Conns
  /\ \A c \in Conns : ConnOK(conns[c])

IInv == BrowserOK /\ ConnsOK /\ plan \in Plans

--------------------------------------------------------------------------------
(* Sequences.                                                              *)

\* A sequence with one more element.
LEMMA Extended ==
  ASSUME NEW S, NEW q \in Seq(S), NEW e \in S
  PROVE  /\ Append(q, e) \in Seq(S)
         /\ DOMAIN Append(q, e) = DOMAIN q \cup {Len(q) + 1}
         /\ Append(q, e)[Len(q) + 1] = e
         /\ \A i \in DOMAIN q : Append(q, e)[i] = q[i]
         /\ Len(q) + 1 \notin DOMAIN q
OBVIOUS

\* A sequence with another element at i.
LEMMA Replaced ==
  ASSUME NEW S, NEW q \in Seq(S), NEW i \in DOMAIN q, NEW e \in S
  PROVE  /\ [q EXCEPT ![i] = e] \in Seq(S)
         /\ DOMAIN [q EXCEPT ![i] = e] = DOMAIN q
         /\ [q EXCEPT ![i] = e][i] = e
         /\ \A j \in DOMAIN q : j # i => [q EXCEPT ![i] = e][j] = q[j]
OBVIOUS

\* The elements of a sequence, and their places.
LEMMA Element ==
  ASSUME NEW S, NEW q \in Seq(S), NEW i \in DOMAIN q
  PROVE  q[i] \in S /\ i \in Nat /\ i # 0
OBVIOUS

\* A target that is attached or detached.
LEMMA Attached ==
  ASSUME NEW x \in Target, NEW a \in BOOLEAN
  PROVE  [x EXCEPT !.attached = a] \in Target /\ [x EXCEPT !.attached = a].attached = a
BY DEF Target

--------------------------------------------------------------------------------
(* What is done to targets and sessions.                                   *)

\* A new target has no session.
LEMMA CreateKeeps ==
  ASSUME BrowserOK, NEW url \in Words, CreateTarget(url)
  PROVE  BrowserOK'
<1> DEFINE new == Len(targets) + 1
<1>1. NewTarget(url) \in Target /\ NewTarget(url).attached = FALSE
  BY DEF NewTarget, Target, Line
<1>2. targets \in Seq(Target) /\ sessions' = sessions
  BY DEF BrowserOK, CreateTarget
<1>3. /\ targets' \in Seq(Target)
      /\ DOMAIN targets' = DOMAIN targets \cup {new} /\ new \notin DOMAIN targets
      /\ targets'[new].attached = FALSE
      /\ \A t \in DOMAIN targets : targets'[t] = targets[t]
  BY <1>1, <1>2, Extended DEF CreateTarget
<1>4. new \in Nat /\ new # 0
  BY <1>2
<1> HIDE DEF new
<1>5. \A s \in DOMAIN sessions : sessions[s] # new
  BY <1>3, <1>4 DEF BrowserOK, None
<1>6. AttachedExact'
  BY <1>2, <1>3, <1>5 DEF BrowserOK, AttachedExact
<1> QED
  BY <1>2, <1>3, <1>6 DEF BrowserOK

\* A new session attaches its target.
LEMMA AttachKeeps ==
  ASSUME BrowserOK, NEW t, AttachSession(t)
  PROVE  BrowserOK'
<1> DEFINE target == [targets[t] EXCEPT !.attached = TRUE]
           new    == Len(sessions) + 1
<1>1. targets \in Seq(Target) /\ sessions \in Seq(Nat) /\ t \in DOMAIN targets
  BY DEF AttachSession, IsTarget, BrowserOK
<1>2. targets[t] \in Target /\ t \in Nat
  BY <1>1, Element
<1>3. target \in Target /\ target.attached = TRUE
  BY <1>2, Attached
<1>4. targets' = [targets EXCEPT ![t] = target]
  BY <1>1 DEF AttachSession
<1> HIDE DEF target
<1>5. /\ targets' \in Seq(Target) /\ DOMAIN targets' = DOMAIN targets
      /\ targets'[t].attached = TRUE
      /\ \A u \in DOMAIN targets : u # t => targets'[u] = targets[u]
  BY <1>1, <1>3, <1>4, Replaced
<1>6. /\ sessions' \in Seq(Nat)
      /\ DOMAIN sessions' = DOMAIN sessions \cup {new}
      /\ sessions'[new] = t
      /\ \A s \in DOMAIN sessions : sessions'[s] = sessions[s]
  BY <1>1, <1>2, Extended DEF AttachSession
<1> HIDE DEF new
<1>7. AttachedExact'
  BY <1>1, <1>5, <1>6 DEF BrowserOK, AttachedExact
<1> QED
  BY <1>1, <1>5, <1>6, <1>7 DEF BrowserOK

\* A session that is detached leaves its target attached if another one names it.
LEMMA DetachKeeps ==
  ASSUME BrowserOK, NEW s, DetachSession(s)
  PROVE  BrowserOK'
<1> DEFINE t      == sessions[s]
           named  == \E o \in DOMAIN sessions \ {s} : sessions[o] = t
           still  == targets[t].attached /\ named
           target == [targets[t] EXCEPT !.attached = still]
<1>1. targets \in Seq(Target) /\ sessions \in Seq(Nat) /\ s \in DOMAIN sessions /\ t # None
  BY DEF DetachSession, IsSession, BrowserOK
<1>2. t \in DOMAIN targets
  BY <1>1 DEF BrowserOK
<1>3. targets[t] \in Target /\ None \in Nat
  BY <1>1, <1>2, Element DEF None
<1>4. targets' = [targets EXCEPT ![t] = target] /\ sessions' = [sessions EXCEPT ![s] = None]
  BY <1>1, <1>2 DEF DetachSession
<1>5. still \in BOOLEAN
  OBVIOUS
<1>6. target \in Target /\ target.attached = still
  BY <1>3, <1>5, Attached
<1> HIDE DEF target
<1>7. /\ targets' \in Seq(Target) /\ DOMAIN targets' = DOMAIN targets
      /\ targets'[t] = target
      /\ \A u \in DOMAIN targets : u # t => targets'[u] = targets[u]
  BY <1>1, <1>2, <1>4, <1>6, Replaced
<1>8. /\ sessions' \in Seq(Nat) /\ DOMAIN sessions' = DOMAIN sessions
      /\ sessions'[s] = None
      /\ \A o \in DOMAIN sessions : o # s => sessions'[o] = sessions[o]
  BY <1>1, <1>3, <1>4, Replaced
<1> HIDE DEF t
<1>9. targets[t].attached
  BY <1>1, <1>2 DEF BrowserOK, AttachedExact, t
<1>10. AttachedExact'
  <2> SUFFICES ASSUME NEW u \in DOMAIN targets
               PROVE  targets'[u].attached <=> \E o \in DOMAIN sessions : sessions'[o] = u
    BY <1>7, <1>8 DEF AttachedExact
  <2>1. u # None
    BY <1>1, Element DEF None
  <2>2. CASE u # t
    <3>1. targets[u].attached <=> \E o \in DOMAIN sessions : sessions[o] = u
      BY DEF BrowserOK, AttachedExact
    <3> QED
      BY <2>1, <2>2, <3>1, <1>1, <1>7, <1>8 DEF t
  <2>3. CASE u = t
    BY <2>1, <2>3, <1>1, <1>6, <1>7, <1>8, <1>9
  <2> QED
    BY <2>2, <2>3
<1> QED
  BY <1>1, <1>2, <1>7, <1>8, <1>10 DEF BrowserOK

\* Whatever else happens to a target does not attach or detach it.
LEMMA ChangeKeeps ==
  ASSUME BrowserOK, NEW t \in DOMAIN targets, NEW target \in Target,
         target.attached = targets[t].attached,
         targets' = [targets EXCEPT ![t] = target], UNCHANGED sessions
  PROVE  BrowserOK'
<1>1. targets \in Seq(Target)
  BY DEF BrowserOK
<1>2. /\ targets' \in Seq(Target) /\ DOMAIN targets' = DOMAIN targets
      /\ \A u \in DOMAIN targets : targets'[u].attached = targets[u].attached
  BY <1>1, Replaced
<1> QED
  BY <1>2 DEF BrowserOK, AttachedExact

\* A script writes lines, of the target that runs it.
LEMMA RanIsTarget ==
  ASSUME BrowserOK, NEW t \in DOMAIN targets, NEW s \in Nat, NEW script, NEW left \in BOOLEAN
  PROVE  /\ Ran(t, s, script, left) \in Target
         /\ Ran(t, s, script, left).attached = targets[t].attached
<1> DEFINE L    == Lines(script)
           line(i) == [target |-> t, no |-> targets[t].lines + i, by |-> s, left |-> left]
           more == [i \in 1 .. L |-> line(i)]
<1>1. targets[t] \in Target /\ t \in Nat
  BY Element DEF BrowserOK
<1>2. targets[t].lines \in Nat /\ targets[t].logs \in Seq(Line)
  BY <1>1 DEF Target
<1>3. L \in Nat
  BY DEF Lines
<1>4. Ran(t, s, script, left) = [targets[t] EXCEPT !.logs = targets[t].logs \o more,
                                                  !.lines = targets[t].lines + L]
  BY DEF Ran
<1> HIDE DEF L
<1>5. \A i \in 1 .. L : line(i) \in Line
  BY <1>1, <1>2, <1>3 DEF Line
<1> HIDE DEF line
<1>6. more \in Seq(Line)
  BY <1>3, <1>5
<1> HIDE DEF more
<1>7. targets[t].logs \o more \in Seq(Line)
  BY <1>2, <1>6
<1>8. targets[t].lines + L \in Nat
  BY <1>2, <1>3
<1> DEFINE logs == targets[t].logs \o more
           n    == targets[t].lines + L
<1> HIDE DEF logs, n
<1>9. [targets[t] EXCEPT !.logs = logs, !.lines = n] \in Target
      /\ [targets[t] EXCEPT !.logs = logs, !.lines = n].attached = targets[t].attached
  BY <1>1, <1>7, <1>8 DEF Target, logs, n
<1> QED
  BY <1>4, <1>9 DEF logs, n

\* A script whose lines are left attaches and detaches nothing.
LEMMA LeaveKeeps ==
  ASSUME BrowserOK, NEW t \in DOMAIN targets, NEW s \in Nat, NEW script, Leave(t, s, script)
  PROVE  BrowserOK'
BY RanIsTarget, ChangeKeeps DEF Leave

\* And so does one whose lines are taken.
LEMMA TakeKeepsBrowser ==
  ASSUME BrowserOK, NEW t \in DOMAIN targets, NEW s \in Nat, NEW script, Take(t, s, script)
  PROVE  BrowserOK'
<1> DEFINE ran == Ran(t, s, script, FALSE)
<1>1. ran \in Target /\ ran.attached = targets[t].attached
  BY RanIsTarget
<1>2. targets' = [targets EXCEPT ![t] = [ran EXCEPT !.logs = << >>]] /\ UNCHANGED sessions
  BY DEF Take
<1> HIDE DEF ran
<1>3. << >> \in Seq(Line)
  OBVIOUS
<1>4. [ran EXCEPT !.logs = << >>] \in Target /\ [ran EXCEPT !.logs = << >>].attached = ran.attached
  BY <1>1, <1>3 DEF Target
<1> QED
  BY <1>1, <1>2, <1>4, ChangeKeeps

--------------------------------------------------------------------------------
(* The readers, and the owner.                                             *)

\* What a reader says takes a request from the inbox and adds none.
LEMMA SayKeeps ==
  ASSUME ConnsOK, NEW c \in Conns, conns[c].inbox # << >>, NEW messages, Say(c, messages)
  PROVE  ConnsOK'
<1>1. /\ DOMAIN conns' = Conns /\ \A d \in Conns : d # c => conns'[d] = conns[d]
      /\ DOMAIN conns'[c] = Fields
      /\ conns'[c].sent = conns[c].sent
      /\ conns'[c].inbox = Tail(conns[c].inbox)
  BY DEF Say, ConnsOK, ConnOK, Fields
<1>2. Tail(conns[c].inbox) \in Seq(Request)
  BY DEF ConnsOK, ConnOK
<1> QED
  BY <1>1, <1>2 DEF ConnsOK, ConnOK

\* A request for the browser.
LEMMA OnBrowserKeeps ==
  ASSUME IInv, NEW c \in Conns, conns[c].inbox # << >>, NEW m \in Request, OnBrowser(c, m)
  PROVE  BrowserOK' /\ ConnsOK'
<1>1. m.what \in Words
  BY DEF Request
<1>2. UNCHANGED browser => BrowserOK'
  BY DEF IInv, browser, BrowserOK, AttachedExact
<1>3. BrowserOK'
  BY <1>1, <1>2, CreateKeeps, AttachKeeps, DetachKeeps DEF OnBrowser, IInv
<1>4. ConnsOK'
  BY SayKeeps DEF OnBrowser, IInv
<1> QED
  BY <1>3, <1>4

\* A request for a session, that is, for its target.
LEMMA OnTargetKeeps ==
  ASSUME IInv, NEW c \in Conns, conns[c].inbox # << >>, NEW m \in Request,
         NEW t \in DOMAIN targets, OnTarget(c, m, t)
  PROVE  BrowserOK' /\ ConnsOK'
<1>1. m.what \in Words /\ m.session \in Nat /\ targets[t] \in Target
  BY DEF Request, IInv, BrowserOK
<1>2. ConnsOK'
  BY SayKeeps DEF OnTarget, Evaluate, IInv
<1>3. CASE m.method = "enable" /\ SetTarget(t, [targets[t] EXCEPT !.enabled = @ \cup {m.what}])
  <2> DEFINE next == [targets[t] EXCEPT !.enabled = @ \cup {m.what}]
  <2>1. next \in Target /\ next.attached = targets[t].attached
    BY <1>1 DEF Target
  <2> QED
    BY <1>2, <1>3, <2>1, ChangeKeeps DEF SetTarget, IInv
<1>4. CASE m.method = "disable" /\ SetTarget(t, [targets[t] EXCEPT !.enabled = @ \ {m.what}])
  <2> DEFINE next == [targets[t] EXCEPT !.enabled = @ \ {m.what}]
  <2>1. next \in Target /\ next.attached = targets[t].attached
    BY <1>1 DEF Target
  <2> QED
    BY <1>2, <1>4, <2>1, ChangeKeeps DEF SetTarget, IInv
<1>5. CASE m.method = "evaluate" /\ Evaluate(c, m, t)
  BY <1>1, <1>2, <1>5, LeaveKeeps, TakeKeepsBrowser DEF Evaluate, IInv
<1>6. CASE m.method = "callFunctionOn" /\ Leave(t, m.session, m.what)
  BY <1>1, <1>2, <1>6, LeaveKeeps DEF IInv
<1>7. CASE m.method = "navigate" /\ SetTarget(t, [targets[t] EXCEPT !.url = m.what])
  <2> DEFINE next == [targets[t] EXCEPT !.url = m.what]
  <2>1. next \in Target /\ next.attached = targets[t].attached
    BY <1>1 DEF Target
  <2> QED
    BY <1>2, <1>7, <2>1, ChangeKeeps DEF SetTarget, IInv
<1>8. CASE UNCHANGED browser
  BY <1>2, <1>8 DEF IInv, browser, BrowserOK, AttachedExact
<1> QED
  BY <1>3, <1>4, <1>5, <1>6, <1>7, <1>8 DEF OnTarget

\* Whatever a request asks for.
LEMMA HandleKeeps ==
  ASSUME IInv, NEW c \in Conns, Handle(c)
  PROVE  IInv'
<1> DEFINE m == Head(conns[c].inbox)
<1>1. m \in Request /\ conns[c].inbox # << >> /\ plan' = plan
  BY DEF IInv, ConnsOK, ConnOK, Handle
<1> HIDE DEF m
<1>2. CASE UNCHANGED <<browser, conns>>
  BY <1>1, <1>2 DEF IInv, browser, BrowserOK, AttachedExact, ConnsOK
<1>3. CASE UNCHANGED browser /\ \E messages : Say(c, messages)
  BY <1>1, <1>3, SayKeeps DEF IInv, browser, BrowserOK, AttachedExact
<1>4. CASE OnBrowser(c, m)
  BY <1>1, <1>4, OnBrowserKeeps DEF IInv
<1>5. CASE IsSession(m.session) /\ OnTarget(c, m, sessions[m.session])
  <2>1. sessions[m.session] \in DOMAIN targets
    BY <1>5 DEF IsSession, IInv, BrowserOK
  <2> QED
    BY <1>1, <1>5, <2>1, OnTargetKeeps DEF IInv
<1> QED
  BY <1>2, <1>3, <1>4, <1>5 DEF Handle, Refuse, m

\* Whatever the owner calls.
LEMMA OwnerKeeps ==
  ASSUME IInv, Owner
  PROVE  IInv'
<1>1. PICK r \in plan.calls : OwnerCall(r.method, r.what)
  BY DEF Owner
<1>2. r.what \in Words
  BY <1>1, PlansAssumption DEF IInv, Acts
<1>3. BrowserOK'
  <2>1. CASE CreateTarget(r.what)
    BY <1>2, <2>1, CreateKeeps DEF IInv
  <2>2. CASE \E t \in DOMAIN targets : AttachSession(t)
    BY <2>2, AttachKeeps DEF IInv
  <2>3. CASE \E s \in DOMAIN sessions : DetachSession(s)
    BY <2>3, DetachKeeps DEF IInv
  <2>4. CASE \E s \in DOMAIN sessions : IsSession(s) /\ Leave(sessions[s], s, r.what)
    <3>1. PICK s \in DOMAIN sessions : IsSession(s) /\ Leave(sessions[s], s, r.what)
      BY <2>4
    <3>2. sessions[s] \in DOMAIN targets /\ s \in Nat
      BY <3>1 DEF IsSession, IInv, BrowserOK
    <3> QED
      BY <3>1, <3>2, LeaveKeeps DEF IInv
  <2>5. CASE \E t \in DOMAIN targets : Leave(t, None, r.what)
    BY <2>5, LeaveKeeps DEF IInv, None
  <2> QED
    BY <1>1, <2>1, <2>2, <2>3, <2>4, <2>5 DEF OwnerCall
<1> QED
  BY <1>3 DEF Owner, IInv, ConnsOK

\* A client sends a request that is one.
LEMMA SendKeeps ==
  ASSUME IInv, NEW c \in Conns, Send(c)
  PROVE  IInv'
<1>1. PICK r \in plan.requests :
        \E s \in Session(r.to), on \in Named(r.method) :
          conns' = [conns EXCEPT
            ![c].inbox = Append(@, [id |-> conns[c].sent + 1, session |-> s, on |-> on,
                                    method |-> r.method, what |-> r.what]),
            ![c].sent = @ + 1]
  BY DEF Send
<1>2. r.method \in Words /\ r.what \in Words /\ r.to \in Words
  BY PlansAssumption DEF IInv, Acts
<1>3. PICK s \in Session(r.to), on \in Named(r.method) :
        conns' = [conns EXCEPT
          ![c].inbox = Append(@, [id |-> conns[c].sent + 1, session |-> s, on |-> on,
                                  method |-> r.method, what |-> r.what]),
          ![c].sent = @ + 1]
  BY <1>1
<1> DEFINE m == [id |-> conns[c].sent + 1, session |-> s, on |-> on,
                 method |-> r.method, what |-> r.what]
<1>4. DOMAIN targets \subseteq Nat /\ DOMAIN sessions \subseteq Nat
  BY DEF IInv, BrowserOK
<1>5. conns[c].sent \in Nat /\ conns[c].inbox \in Seq(Request)
  BY DEF IInv, ConnsOK, ConnOK
<1>6. s \in Nat
  BY <1>4 DEF Session, None, Unknown
<1>7. on \in Nat
  BY <1>4 DEF Named, None, Unknown
<1>8. m \in Request
  BY <1>2, <1>5, <1>6, <1>7 DEF Request
<1>9. /\ DOMAIN conns' = Conns /\ \A d \in Conns : d # c => conns'[d] = conns[d]
      /\ DOMAIN conns'[c] = Fields
      /\ conns'[c].sent = conns[c].sent + 1
      /\ conns'[c].inbox = Append(conns[c].inbox, m)
  BY <1>3 DEF IInv, ConnsOK, ConnOK, Fields
<1> HIDE DEF m
<1>10. conns[c].sent + 1 \in Nat /\ Append(conns[c].inbox, m) \in Seq(Request)
  BY <1>5, <1>8, Extended
<1>11. ConnOK(conns'[c])
  BY <1>9, <1>10 DEF ConnOK
<1>12. ConnsOK'
  BY <1>9, <1>11 DEF IInv, ConnsOK
<1> QED
  BY <1>12 DEF Send, IInv, browser, BrowserOK, AttachedExact

\* A connection that opens, closes, ends or is written to.
LEMMA ConnKeeps ==
  ASSUME IInv, NEW c \in Conns, Connect(c) \/ ClientCloses(c) \/ ReaderEnds(c) \/ Write(c)
  PROVE  IInv'
<1>1. /\ DOMAIN conns' = Conns /\ \A d \in Conns : d # c => conns'[d] = conns[d]
      /\ DOMAIN conns'[c] = Fields
      /\ conns'[c].sent = conns[c].sent
      /\ conns'[c].inbox \in {conns[c].inbox, << >>}
  BY DEF Connect, ClientCloses, ReaderEnds, Write, IInv, ConnsOK, ConnOK, Fields
<1>2. conns[c].sent \in Nat /\ conns[c].inbox \in Seq(Request) /\ << >> \in Seq(Request)
  BY DEF IInv, ConnsOK, ConnOK
<1>3. ConnOK(conns'[c])
  BY <1>1, <1>2 DEF ConnOK
<1>4. ConnsOK'
  BY <1>1, <1>3 DEF IInv, ConnsOK
<1> QED
  BY <1>4 DEF Connect, ClientCloses, ReaderEnds, Write, IInv, browser, BrowserOK, AttachedExact

--------------------------------------------------------------------------------
(* The invariant.                                                          *)

\* The server as it starts, with its first target.
LEMMA IInvStarts ==
  ASSUME Init
  PROVE  IInv
<1>1. NewTarget("about:blank") \in Target
  BY PlansAssumption DEF NewTarget, Target, Line
<1>2. BrowserOK
  BY <1>1 DEF Init, BrowserOK, AttachedExact, NewTarget
<1>3. ConnsOK
  <2>1. << >> \in Seq(Request)
    OBVIOUS
  <2>2. ConnOK(NewConn)
    BY <2>1 DEF ConnOK, NewConn, Fields
  <2> QED
    BY <2>2 DEF Init, ConnsOK
<1> QED
  BY <1>2, <1>3 DEF Init, IInv

\* Every step of the owner, the clients, the readers and the writers.
LEMMA IInvKept ==
  ASSUME IInv, [Next]_vars
  PROVE  IInv'
<1>1. CASE Owner
  BY <1>1, OwnerKeeps
<1>2. CASE Run \/ AcceptFails
  BY <1>2 DEF Run, AcceptFails, IInv, browser, BrowserOK, AttachedExact, ConnsOK
<1>3. CASE \E c \in Conns : Send(c)
  BY <1>3, SendKeeps
<1>4. CASE \E c \in Conns : Handle(c)
  BY <1>4, HandleKeeps
<1>5. CASE \E c \in Conns : Connect(c) \/ ClientCloses(c) \/ ReaderEnds(c) \/ Write(c)
  BY <1>5, ConnKeeps
<1>6. CASE UNCHANGED vars
  BY <1>6 DEF vars, IInv, BrowserOK, AttachedExact, ConnsOK
<1> QED
  BY <1>1, <1>2, <1>3, <1>4, <1>5, <1>6 DEF Next

\* Every target of the server says that it is attached exactly as long as some session names
\* it, whoever attaches and detaches in whatever order (cdp.rs 137-159).
THEOREM AlwaysAttachedExact == Spec => []AttachedExact
<1>1. Init => IInv
  BY IInvStarts
<1>2. IInv /\ [Next]_vars => IInv'
  BY IInvKept
<1>3. IInv => AttachedExact
  BY DEF IInv, BrowserOK
<1> QED
  BY <1>1, <1>2, <1>3, PTL DEF Spec

--------------------------------------------------------------------------------
(* The lines of the consoles.                                              *)

Types   == {"reply", "targetCreated", "attachedToTarget", "messageAdded", "frameNavigated"}
Message == [type : Types, id : Nat, session : Nat, ok : BOOLEAN, line : Line]

\* The lines that the targets T have: they were left, and are in the order of their numbers.
LogsOK(T) ==
  \A t \in DOMAIN T : \A j \in 1 .. Len(T[t].logs) :
    /\ T[t].logs[j].target = t /\ T[t].logs[j].left /\ T[t].logs[j].no <= T[t].lines
    /\ \A k \in 1 .. Len(T[t].logs) : j < k => T[t].logs[j].no < T[t].logs[k].no

\* A line that was said: of one of the targets T, from before the lines that the target has,
\* and written by the session it was said to unless it was left.
LineOK(e, T) ==
  /\ e.line.target \in DOMAIN T
  /\ e.line.no <= T[e.line.target].lines
  /\ e.line.by = e.session \/ e.line.left
  /\ \A j \in 1 .. Len(T[e.line.target].logs) : e.line.no < T[e.line.target].logs[j].no

SaidOK(said, T) ==
  \A i \in 1 .. Len(said) : IF IsLine(said[i]) THEN LineOK(said[i], T) ELSE said[i].line = NoLine

\* Lines of a target are in order, and before the reply.
OrderOK(said) ==
  \A i, j \in 1 .. Len(said) :
    /\ i < j /\ IsLine(said[i]) /\ IsLine(said[j]) /\ said[i].line.target = said[j].line.target
    => said[i].line.no < said[j].line.no
NextOK(said) ==
  \A i \in 1 .. Len(said) : IsLine(said[i]) =>
    i < Len(said) /\ said[i + 1].session = said[i].session

\* No line is said on two connections.
ApartOK(said, other) ==
  \A i \in 1 .. Len(said), j \in 1 .. Len(other) :
    IsLine(said[i]) /\ IsLine(other[j]) => said[i].line # other[j].line

\* Messages with lines that come after those that were said.
Later(messages, T) ==
  \A i \in 1 .. Len(messages) : \A e \in Message :
    /\ IsLine(messages[i]) /\ LineOK(e, T) /\ e.line.target = messages[i].line.target
    => e.line.no < messages[i].line.no

StreamOK(c) ==
  /\ conns[c].received \in Seq(Message) /\ conns[c].channel \in Seq(Message)
  /\ SaidOK(Stream(c), targets)
  /\ OrderOK(Stream(c))
  /\ conns[c].state # "closed" => NextOK(Stream(c))

LInv ==
  /\ IInv /\ LogsOK(targets)
  /\ \A c \in Conns : StreamOK(c)
  /\ \A c, d \in Conns : c # d => ApartOK(Stream(c), Stream(d))

--------------------------------------------------------------------------------
\* A stream is a sequence of messages.
LEMMA StreamType ==
  ASSUME NEW c, StreamOK(c)
  PROVE  Stream(c) \in Seq(Message)
<1>1. conns[c].received \in Seq(Message) /\ conns[c].channel \in Seq(Message)
  BY DEF StreamOK
<1> QED
  BY <1>1, ConcatProperties DEF Stream

\* Messages behind messages.
LEMMA Behind ==
  ASSUME NEW said \in Seq(Message), NEW messages \in Seq(Message), NEW now,
         now = said \o messages
  PROVE  /\ now \in Seq(Message) /\ Len(now) = Len(said) + Len(messages)
         /\ Len(said) \in Nat /\ Len(messages) \in Nat
         /\ \A i \in 1 .. Len(said) : said[i] \in Message /\ now[i] = said[i]
         /\ \A i \in 1 .. Len(messages) :
              messages[i] \in Message /\ now[Len(said) + i] = messages[i]
         /\ \A i \in 1 .. Len(now) :
              i \in 1 .. Len(said) \/ (i - Len(said) \in 1 .. Len(messages)
                                       /\ now[i] = messages[i - Len(said)])
<1>1. /\ now \in Seq(Message) /\ Len(now) = Len(said) + Len(messages)
      /\ \A i \in 1 .. Len(said) + Len(messages) :
           now[i] = IF i <= Len(said) THEN said[i] ELSE messages[i - Len(said)]
  BY ConcatProperties
<1>2. /\ Len(said) \in Nat /\ Len(messages) \in Nat
      /\ \A i \in 1 .. Len(said) : said[i] \in Message
      /\ \A i \in 1 .. Len(messages) : messages[i] \in Message
  OBVIOUS
<1> QED
  BY <1>1, <1>2

\* What is said stays lines of the targets, and messages add such lines.
LEMMA SaidGrows ==
  ASSUME NEW said \in Seq(Message), NEW messages \in Seq(Message), NEW T, NEW U,
         SaidOK(said, T), SaidOK(messages, U), \A e \in Message : LineOK(e, T) => LineOK(e, U)
  PROVE  SaidOK(said \o messages, U)
<1> DEFINE now == said \o messages
<1>1. now = said \o messages
  OBVIOUS
<1> HIDE DEF now
<1> SUFFICES ASSUME NEW i \in 1 .. Len(now)
             PROVE  IF IsLine(now[i]) THEN LineOK(now[i], U) ELSE now[i].line = NoLine
  BY <1>1 DEF SaidOK
<1>2. CASE i \in 1 .. Len(said)
  BY <1>1, <1>2, Behind DEF SaidOK
<1>3. CASE i - Len(said) \in 1 .. Len(messages) /\ now[i] = messages[i - Len(said)]
  BY <1>3 DEF SaidOK
<1> QED
  BY <1>1, <1>2, <1>3, Behind

\* Lines that come later, in order, behind lines in order.
LEMMA OrderGrows ==
  ASSUME NEW said \in Seq(Message), NEW messages \in Seq(Message), NEW T,
         SaidOK(said, T), OrderOK(said), OrderOK(messages), Later(messages, T)
  PROVE  OrderOK(said \o messages)
<1> DEFINE now == said \o messages
<1>1. now = said \o messages
  OBVIOUS
<1> HIDE DEF now
<1> SUFFICES ASSUME NEW i \in 1 .. Len(now), NEW j \in 1 .. Len(now),
                    i < j, IsLine(now[i]), IsLine(now[j]), now[i].line.target = now[j].line.target
             PROVE  now[i].line.no < now[j].line.no
  BY <1>1 DEF OrderOK
<1>2. CASE i \in 1 .. Len(said) /\ j \in 1 .. Len(said)
  BY <1>1, <1>2, Behind DEF OrderOK
<1>3. CASE i \in 1 .. Len(said) /\ j - Len(said) \in 1 .. Len(messages) /\ now[j] = messages[j - Len(said)]
  <2>1. now[i] \in Message /\ LineOK(now[i], T)
    BY <1>1, <1>3, Behind DEF SaidOK
  <2> QED
    BY <1>3, <2>1 DEF Later
<1>4. CASE /\ i - Len(said) \in 1 .. Len(messages) /\ now[i] = messages[i - Len(said)]
           /\ j - Len(said) \in 1 .. Len(messages) /\ now[j] = messages[j - Len(said)]
  <2>1. i - Len(said) < j - Len(said)
    OBVIOUS
  <2> QED
    BY <1>4, <2>1 DEF OrderOK
<1> QED
  BY <1>1, <1>2, <1>3, <1>4, Behind

\* Messages that end with a reply, behind messages that do.
LEMMA NextGrows ==
  ASSUME NEW said \in Seq(Message), NEW messages \in Seq(Message),
         NextOK(said), NextOK(messages)
  PROVE  NextOK(said \o messages)
<1> DEFINE now == said \o messages
<1>1. now = said \o messages
  OBVIOUS
<1> HIDE DEF now
<1> SUFFICES ASSUME NEW i \in 1 .. Len(now), IsLine(now[i])
             PROVE  i < Len(now) /\ now[i + 1].session = now[i].session
  BY <1>1 DEF NextOK
<1>2. CASE i \in 1 .. Len(said)
  <2>1. i < Len(said) /\ said[i + 1].session = said[i].session
    BY <1>1, <1>2, Behind DEF NextOK
  <2>2. i + 1 \in 1 .. Len(said)
    BY <1>1, <1>2, <2>1, Behind
  <2> QED
    BY <1>1, <1>2, <2>1, <2>2, Behind
<1>3. CASE i - Len(said) \in 1 .. Len(messages) /\ now[i] = messages[i - Len(said)]
  <2> DEFINE k == i - Len(said)
  <2>1. k < Len(messages) /\ messages[k + 1].session = messages[k].session
    BY <1>3 DEF NextOK
  <2>2. k + 1 \in 1 .. Len(messages) /\ Len(said) + (k + 1) = i + 1
    BY <1>1, <1>3, <2>1, Behind
  <2>3. now[i + 1] = messages[k + 1]
    BY <1>1, <2>2, Behind
  <2> QED
    BY <1>1, <1>3, <2>1, <2>2, <2>3, Behind
<1> QED
  BY <1>1, <1>2, <1>3, Behind

\* Lines that come later were not said on another connection.
LEMMA ApartGrows ==
  ASSUME NEW said \in Seq(Message), NEW messages \in Seq(Message), NEW other \in Seq(Message), NEW T,
         ApartOK(said, other), SaidOK(other, T), Later(messages, T)
  PROVE  ApartOK(said \o messages, other) 
<1> DEFINE now == said \o messages
<1>1. now = said \o messages
  OBVIOUS
<1> HIDE DEF now
<1> SUFFICES ASSUME NEW i \in 1 .. Len(now), NEW j \in 1 .. Len(other),
                    IsLine(now[i]), IsLine(other[j])
             PROVE  now[i].line # other[j].line
  BY <1>1 DEF ApartOK
<1>2. CASE i \in 1 .. Len(said)
  BY <1>1, <1>2, Behind DEF ApartOK
<1>3. CASE i - Len(said) \in 1 .. Len(messages) /\ now[i] = messages[i - Len(said)]
  <2>1. other[j] \in Message /\ LineOK(other[j], T)
    BY DEF SaidOK
  <2>2. other[j].line.target = now[i].line.target => other[j].line.no < now[i].line.no
    BY <1>3, <2>1 DEF Later
  <2>3. other[j].line.no \in Nat
    BY <2>1 DEF Message, Line
  <2> QED
    BY <2>2, <2>3
<1> QED
  BY <1>1, <1>2, <1>3, Behind

--------------------------------------------------------------------------------
(* What a script does to the lines of its target.                          *)

\* What ran is to the target t: its lines, and behind them more of session s.
Longer(ran, t, s, more, left) ==
  LET old == targets[t].logs
      n   == targets[t].lines
  IN /\ t \in Nat /\ n \in Nat /\ more \in Nat /\ ran.lines = n + more
     /\ old \in Seq(Line) /\ Len(old) \in Nat /\ ran.logs \in Seq(Line)
     /\ Len(ran.logs) = Len(old) + more
     /\ \A i \in 1 .. Len(old) : ran.logs[i] = old[i]
     /\ \A i \in 1 .. Len(ran.logs) : i \notin 1 .. Len(old) =>
          /\ i - Len(old) \in 1 .. more
          /\ ran.logs[i].target = t /\ ran.logs[i].no = n + (i - Len(old))
          /\ ran.logs[i].by = s /\ (left => ran.logs[i].left)

\* The lines of ran are of target t, in their order, and after all that were said.
Ordered(ran, t, s, left) ==
  /\ targets[t].lines \in Nat /\ ran.lines \in Nat /\ targets[t].lines <= ran.lines
  /\ ran.logs \in Seq(Line)
  /\ \A j \in 1 .. Len(ran.logs) :
       /\ ran.logs[j].target = t /\ ran.logs[j].no <= ran.lines
       /\ ran.logs[j].left \/ (ran.logs[j].by = s /\ ~left)
       /\ \A k \in 1 .. Len(ran.logs) : j < k => ran.logs[j].no < ran.logs[k].no
       /\ \A e \in Message :
            LineOK(e, targets) /\ e.line.target = t => e.line.no < ran.logs[j].no

\* A script adds its lines behind those its target has.
LEMMA RanLonger ==
  ASSUME IInv, NEW t \in DOMAIN targets, NEW s \in Nat, NEW script, NEW left \in BOOLEAN
  PROVE  Longer(Ran(t, s, script, left), t, s, Lines(script), left)
<1> DEFINE old     == targets[t].logs
           n       == targets[t].lines
           L       == Lines(script)
           line(i) == [target |-> t, no |-> n + i, by |-> s, left |-> left]
           more    == [i \in 1 .. L |-> line(i)]
<1>1. targets[t] \in Target /\ t \in Nat
  BY Element DEF IInv, BrowserOK
<1>2. n \in Nat /\ old \in Seq(Line)
  BY <1>1 DEF Target, old, n
<1>3. L \in Nat
  BY DEF Lines
<1>4. Ran(t, s, script, left) = [targets[t] EXCEPT !.logs = old \o more, !.lines = n + L]
  BY DEF Ran
<1> HIDE DEF old, n, L
<1>5. \A i \in 1 .. L : line(i) \in Line
  BY <1>1, <1>2, <1>3 DEF Line
<1>6. more \in Seq(Line) /\ Len(more) = L /\ \A i \in 1 .. L : more[i] = line(i)
  <2> HIDE DEF line
  <2> QED
    BY <1>3, <1>5
<1> HIDE DEF more, line
<1> DEFINE all == old \o more
<1>7. /\ all \in Seq(Line) /\ Len(all) = Len(old) + L
      /\ \A i \in 1 .. Len(old) + L : all[i] = IF i <= Len(old) THEN old[i] ELSE more[i - Len(old)]
  BY <1>2, <1>6, ConcatProperties
<1>8. Len(old) \in Nat
  BY <1>2
<1> DEFINE logs == Ran(t, s, script, left).logs
<1>9. logs = all /\ Ran(t, s, script, left).lines = n + L
  <2> HIDE DEF all
  <2>1. Ran(t, s, script, left) = [targets[t] EXCEPT !.logs = all, !.lines = n + L]
    BY <1>4 DEF all
  <2> QED
    BY <2>1, <1>1 DEF Target
<1> HIDE DEF all, logs
<1>10. \A i \in 1 .. Len(old) : logs[i] = old[i]
  BY <1>3, <1>7, <1>8, <1>9
<1>11. ASSUME NEW i \in 1 .. Len(logs), i \notin 1 .. Len(old)
       PROVE  i - Len(old) \in 1 .. L /\ logs[i] = line(i - Len(old))
  <2>1. i - Len(old) \in 1 .. L
    BY <1>3, <1>7, <1>8, <1>9, <1>11
  <2> QED
    BY <2>1, <1>3, <1>6, <1>7, <1>8, <1>9, <1>11
<1>12. \A i \in 1 .. L : /\ line(i).target = t /\ line(i).no = n + i
                         /\ line(i).by = s /\ (left => line(i).left)
  BY DEF line
<1> QED
  BY <1>1, <1>2, <1>3, <1>7, <1>8, <1>9, <1>10, <1>11, <1>12 DEF Longer, old, n, L, logs

\* All of them are in order, and come after what was said.
LEMMA RanOrdered ==
  ASSUME IInv, LogsOK(targets),
         NEW t \in DOMAIN targets, NEW s \in Nat, NEW script, NEW left \in BOOLEAN
  PROVE  Ordered(Ran(t, s, script, left), t, s, left)
<1> DEFINE ran  == Ran(t, s, script, left)
           logs == ran.logs
           old  == targets[t].logs
           n    == targets[t].lines
           L    == Lines(script)
<1>1. Longer(ran, t, s, L, left)
  BY RanLonger
<1> HIDE DEF ran, L
<1>2. /\ n \in Nat /\ L \in Nat /\ Len(old) \in Nat /\ t \in Nat /\ ran.lines = n + L
      /\ old \in Seq(Line) /\ logs \in Seq(Line) /\ Len(logs) = Len(old) + L
  BY <1>1 DEF Longer
<1>3. /\ \A i \in 1 .. Len(old) : logs[i] = old[i]
      /\ \A i \in 1 .. Len(logs) : i \notin 1 .. Len(old) =>
           /\ i - Len(old) \in 1 .. L
           /\ logs[i].target = t /\ logs[i].no = n + (i - Len(old))
           /\ logs[i].by = s /\ (left => logs[i].left)
  BY <1>1 DEF Longer
<1> HIDE DEF old, n
<1>4. \A j \in 1 .. Len(old) :
        /\ old[j].target = t /\ old[j].left /\ old[j].no <= n /\ old[j].no \in Nat
        /\ \A k \in 1 .. Len(old) : j < k => old[j].no < old[k].no
  <2>1. \A j \in 1 .. Len(old) : old[j] \in Line
    BY <1>2
  <2> QED
    BY <2>1 DEF LogsOK, Line, old, n
<1>5. \A e \in Message : LineOK(e, targets) /\ e.line.target = t =>
        e.line.no \in Nat /\ e.line.no <= n /\ \A j \in 1 .. Len(old) : e.line.no < old[j].no
  BY DEF LineOK, Message, Line, old, n
<1>6. n <= n + L /\ n + L \in Nat
  BY <1>2
<1> HIDE DEF logs
<1> SUFFICES ASSUME NEW j \in 1 .. Len(logs)
             PROVE  /\ logs[j].target = t /\ logs[j].no <= n + L
                    /\ logs[j].left \/ (logs[j].by = s /\ ~left)
                    /\ \A k \in 1 .. Len(logs) : j < k => logs[j].no < logs[k].no
                    /\ \A e \in Message :
                         LineOK(e, targets) /\ e.line.target = t => e.line.no < logs[j].no
  BY <1>2, <1>6 DEF Ordered, n, logs, ran
<1>7. CASE j \in 1 .. Len(old)
  <2>1. /\ logs[j] = old[j] /\ old[j].no \in Nat
        /\ logs[j].target = t /\ logs[j].no <= n /\ logs[j].left
    BY <1>3, <1>4, <1>7
  <2>2. ASSUME NEW k \in 1 .. Len(logs), j < k
        PROVE  logs[j].no < logs[k].no
    <3>1. CASE k \in 1 .. Len(old)
      BY <3>1, <2>1, <2>2, <1>3, <1>4, <1>7
    <3>2. CASE k \notin 1 .. Len(old)
      <4>1. k - Len(old) \in 1 .. L /\ logs[k].no = n + (k - Len(old))
        BY <3>2, <1>3
      <4> QED
        BY <4>1, <2>1, <1>2
    <3> QED
      BY <3>1, <3>2
  <2>3. \A e \in Message : LineOK(e, targets) /\ e.line.target = t => e.line.no < logs[j].no
    BY <2>1, <1>5, <1>7
  <2>4. logs[j].no <= n + L
    BY <2>1, <1>2
  <2> QED
    BY <2>1, <2>2, <2>3, <2>4
<1>8. CASE j \notin 1 .. Len(old)
  <2>1. /\ j - Len(old) \in 1 .. L
        /\ logs[j].target = t /\ logs[j].no = n + (j - Len(old))
        /\ logs[j].left \/ (logs[j].by = s /\ ~left)
    BY <1>3, <1>8
  <2>2. ASSUME NEW k \in 1 .. Len(logs), j < k
        PROVE  logs[j].no < logs[k].no
    <3>1. k \notin 1 .. Len(old)
      BY <1>2, <1>8, <2>2
    <3>2. logs[k].no = n + (k - Len(old))
      BY <3>1, <1>3
    <3> QED
      BY <3>2, <2>1, <2>2, <1>2
  <2>3. \A e \in Message : LineOK(e, targets) /\ e.line.target = t => e.line.no < logs[j].no
    BY <2>1, <1>2, <1>5
  <2>4. logs[j].no <= n + L
    BY <2>1, <1>2
  <2> QED
    BY <2>1, <2>2, <2>3, <2>4
<1> QED
  BY <1>7, <1>8

\* What every change of the targets, from T to U, does for the lines.
LinesKept(T, U) == LogsOK(U) /\ \A e \in Message : LineOK(e, T) => LineOK(e, U)

\* What every reader says when the targets change from T to U.
Fits(messages, T, U) ==
  /\ messages \in Seq(Message)
  /\ SaidOK(messages, U) /\ OrderOK(messages) /\ NextOK(messages)
  /\ Later(messages, T)

\* Targets that keep their lines, and new ones that have none.
LEMMA SameLines ==
  ASSUME NEW T, NEW U, LogsOK(T), DOMAIN T \subseteq DOMAIN U,
         \A t \in DOMAIN T : U[t].logs = T[t].logs /\ U[t].lines = T[t].lines,
         \A t \in DOMAIN U \ DOMAIN T : U[t].logs = << >>
  PROVE  LinesKept(T, U)
<1>1. LogsOK(U)
  <2> SUFFICES ASSUME NEW t \in DOMAIN U, NEW j \in 1 .. Len(U[t].logs)
               PROVE  /\ U[t].logs[j].target = t /\ U[t].logs[j].left
                      /\ U[t].logs[j].no <= U[t].lines
                      /\ \A k \in 1 .. Len(U[t].logs) : j < k => U[t].logs[j].no < U[t].logs[k].no
    BY DEF LogsOK
  <2>1. t \in DOMAIN T
    OBVIOUS
  <2> QED
    BY <2>1 DEF LogsOK
<1>2. \A e \in Message : LineOK(e, T) => LineOK(e, U)
  BY DEF LineOK
<1> QED
  BY <1>1, <1>2 DEF LinesKept

\* A target that gets another address or other domains.
LEMMA SetKeepsLines ==
  ASSUME IInv, LogsOK(targets), NEW t \in DOMAIN targets, NEW target,
         target.logs = targets[t].logs, target.lines = targets[t].lines,
         targets' = [targets EXCEPT ![t] = target]
  PROVE  LinesKept(targets, targets')
<1>1. /\ DOMAIN targets' = DOMAIN targets
      /\ \A u \in DOMAIN targets : targets'[u] = IF u = t THEN target ELSE targets[u]
  BY DEF IInv, BrowserOK
<1> QED
  BY <1>1, SameLines

\* A target that is attached or detached.
LEMMA AttachKeepsLines ==
  ASSUME IInv, LogsOK(targets), NEW t \in DOMAIN targets, NEW a,
         targets' = [targets EXCEPT ![t].attached = a]
  PROVE  LinesKept(targets, targets')
<1> DEFINE target == [targets[t] EXCEPT !.attached = a]
<1>1. targets[t] \in Target
  BY Element DEF IInv, BrowserOK
<1>2. target.logs = targets[t].logs /\ target.lines = targets[t].lines
  BY <1>1 DEF Target
<1>3. targets' = [targets EXCEPT ![t] = target]
  OBVIOUS
<1> HIDE DEF target
<1> QED
  BY <1>2, <1>3, SetKeepsLines

\* A target that is made.
LEMMA CreateKeepsLines ==
  ASSUME IInv, LogsOK(targets), NEW url \in Words, CreateTarget(url)
  PROVE  LinesKept(targets, targets')
<1>1. NewTarget(url) \in Target /\ NewTarget(url).logs = << >>
  BY DEF NewTarget, Target, Line
<1>2. targets \in Seq(Target)
  BY DEF IInv, BrowserOK
<1>3. /\ DOMAIN targets' = DOMAIN targets \cup {Len(targets) + 1}
      /\ targets'[Len(targets) + 1].logs = << >>
      /\ \A t \in DOMAIN targets : targets'[t] = targets[t]
  BY <1>1, <1>2, Extended DEF CreateTarget
<1> QED
  BY <1>3, SameLines

\* A script whose lines are left in the context.
LEMMA LeaveKeepsLines ==
  ASSUME IInv, LogsOK(targets), NEW t \in DOMAIN targets, NEW s \in Nat, NEW script,
         Leave(t, s, script)
  PROVE  LinesKept(targets, targets')
<1> DEFINE ran  == Ran(t, s, script, TRUE)
           logs == ran.logs
<1>0. Ordered(ran, t, s, TRUE)
  BY RanOrdered
<1> HIDE DEF ran
<1>1. /\ ran.lines \in Nat /\ targets[t].lines <= ran.lines
      /\ \A j \in 1 .. Len(logs) :
           /\ logs[j].target = t /\ logs[j].no <= ran.lines /\ logs[j].left
           /\ \A k \in 1 .. Len(logs) : j < k => logs[j].no < logs[k].no
           /\ \A e \in Message :
                LineOK(e, targets) /\ e.line.target = t => e.line.no < logs[j].no
  BY <1>0 DEF Ordered
<1>2. targets[t].lines \in Nat
  BY <1>0 DEF Ordered
<1>3. /\ DOMAIN targets' = DOMAIN targets
      /\ \A u \in DOMAIN targets : targets'[u] = IF u = t THEN ran ELSE targets[u]
  BY DEF IInv, BrowserOK, Leave, ran
<1>4. LogsOK(targets')
  <2> SUFFICES ASSUME NEW u \in DOMAIN targets, NEW j \in 1 .. Len(targets'[u].logs)
               PROVE  /\ targets'[u].logs[j].target = u /\ targets'[u].logs[j].left
                      /\ targets'[u].logs[j].no <= targets'[u].lines
                      /\ \A k \in 1 .. Len(targets'[u].logs) :
                           j < k => targets'[u].logs[j].no < targets'[u].logs[k].no
    BY <1>3 DEF LogsOK
  <2>1. CASE u = t
    BY <2>1, <1>1, <1>3
  <2>2. CASE u # t
    BY <2>2, <1>3 DEF LogsOK
  <2> QED
    BY <2>1, <2>2
<1>5. ASSUME NEW e \in Message, LineOK(e, targets)
      PROVE  LineOK(e, targets')
  <2>1. e.line.no \in Nat
    BY DEF Message, Line
  <2>2. CASE e.line.target = t
    <3>1. targets'[e.line.target] = ran /\ e.line.target \in DOMAIN targets'
      BY <2>2, <1>3
    <3>2. e.line.no <= targets[t].lines /\ (e.line.by = e.session \/ e.line.left)
      BY <2>2, <1>5 DEF LineOK
    <3>3. e.line.no <= ran.lines
      BY <2>1, <3>2, <1>1, <1>2
    <3>4. \A j \in 1 .. Len(logs) : e.line.no < logs[j].no
      BY <2>2, <1>1, <1>5
    <3> QED
      BY <3>1, <3>2, <3>3, <3>4 DEF LineOK
  <2>3. CASE e.line.target # t
    BY <2>3, <1>3, <1>5 DEF LineOK
  <2> QED
    BY <2>2, <2>3
<1> QED
  BY <1>4, <1>5 DEF LinesKept

\* A script whose lines are taken.
LEMMA TakeKeepsLines ==
  ASSUME IInv, LogsOK(targets), NEW t \in DOMAIN targets, NEW s \in Nat, NEW script,
         Take(t, s, script)
  PROVE  /\ LinesKept(targets, targets')
         /\ t \in DOMAIN targets' /\ targets'[t].logs = << >>
         /\ targets'[t].lines = Ran(t, s, script, FALSE).lines
<1> DEFINE ran   == Ran(t, s, script, FALSE)
           empty == [ran EXCEPT !.logs = << >>]
<1>1. ran.lines \in Nat /\ targets[t].lines <= ran.lines
  BY RanOrdered DEF Ordered
<1>2. targets[t].lines \in Nat
  BY RanOrdered DEF Ordered
<1>3. ran \in Target
  BY RanIsTarget DEF IInv
<1> HIDE DEF ran
<1>4. empty.logs = << >> /\ empty.lines = ran.lines
  BY <1>3 DEF Target
<1>5. /\ DOMAIN targets' = DOMAIN targets
      /\ \A u \in DOMAIN targets : targets'[u] = IF u = t THEN empty ELSE targets[u]
  BY DEF IInv, BrowserOK, Take, ran
<1> HIDE DEF empty
<1>6. LogsOK(targets')
  <2> SUFFICES ASSUME NEW u \in DOMAIN targets, NEW j \in 1 .. Len(targets'[u].logs)
               PROVE  /\ targets'[u].logs[j].target = u /\ targets'[u].logs[j].left
                      /\ targets'[u].logs[j].no <= targets'[u].lines
                      /\ \A k \in 1 .. Len(targets'[u].logs) :
                           j < k => targets'[u].logs[j].no < targets'[u].logs[k].no
    BY <1>5 DEF LogsOK
  <2>1. u # t
    BY <1>4, <1>5
  <2> QED
    BY <2>1, <1>5 DEF LogsOK
<1>7. ASSUME NEW e \in Message, LineOK(e, targets)
      PROVE  LineOK(e, targets')
  <2>1. e.line.no \in Nat
    BY DEF Message, Line
  <2>2. CASE e.line.target = t
    BY <2>1, <2>2, <1>1, <1>2, <1>4, <1>5, <1>7 DEF LineOK
  <2>3. CASE e.line.target # t
    BY <2>3, <1>5, <1>7 DEF LineOK
  <2> QED
    BY <2>2, <2>3
<1> QED
  BY <1>4, <1>5, <1>6, <1>7 DEF LinesKept, ran

--------------------------------------------------------------------------------
(* What a reader says.                                                     *)

\* Messages that are not lines.
Plain(messages) ==
  /\ messages \in Seq(Message)
  /\ \A i \in 1 .. Len(messages) : ~IsLine(messages[i]) /\ messages[i].line = NoLine

\* Messages without lines can always be said.
LEMMA PlainFits ==
  ASSUME NEW messages, Plain(messages), NEW T, NEW U
  PROVE  Fits(messages, T, U)
BY DEF Plain, Fits, SaidOK, OrderOK, NextOK, Later

\* A reply is for the session of its request.
LEMMA ReplyIsMessage ==
  ASSUME NEW m \in Request, NEW ok \in BOOLEAN
  PROVE  /\ Reply(m, ok) \in Message /\ ~IsLine(Reply(m, ok))
         /\ Reply(m, ok).line = NoLine /\ Reply(m, ok).session = m.session
<1>1. NoLine \in Line
  BY DEF NoLine, Line, None
<1>2. m.id \in Nat /\ m.session \in Nat
  BY DEF Request
<1> QED
  BY <1>1, <1>2 DEF Reply, Message, Types, IsLine

\* And so is an event.
LEMMA EventIsMessage ==
  ASSUME NEW m \in Request, NEW type \in Types, NEW line \in Line
  PROVE  /\ Event(m, type, line) \in Message /\ Event(m, type, line).type = type
         /\ Event(m, type, line).line = line /\ Event(m, type, line).session = m.session
<1>1. m.session \in Nat
  BY DEF Request
<1> QED
  BY <1>1 DEF Event, Message

\* A reply alone, or nothing.
LEMMA RepliesPlain ==
  ASSUME NEW m \in Request, NEW ok \in BOOLEAN
  PROVE  Plain(<<Reply(m, ok)>>) /\ Plain(<< >>)
<1> DEFINE r == Reply(m, ok)
<1>1. r \in Message /\ ~IsLine(r) /\ r.line = NoLine
  BY ReplyIsMessage
<1> HIDE DEF r
<1>2. <<r>> \in Seq(Message) /\ << >> \in Seq(Message)
  BY <1>1
<1>3. Plain(<<r>>) /\ Plain(<< >>)
  BY <1>1, <1>2 DEF Plain
<1> QED
  BY <1>3 DEF r

\* An event and a reply.
LEMMA EventsPlain ==
  ASSUME NEW m \in Request, NEW type \in Types \ {"messageAdded"}
  PROVE  Plain(<<Event(m, type, NoLine), Reply(m, TRUE)>>)
<1> DEFINE e == Event(m, type, NoLine)
           r == Reply(m, TRUE)
<1>1. r \in Message /\ ~IsLine(r) /\ r.line = NoLine
  BY ReplyIsMessage
<1>2. NoLine \in Line
  BY DEF NoLine, Line, None
<1>3. e \in Message /\ ~IsLine(e) /\ e.line = NoLine
  BY <1>2, EventIsMessage DEF IsLine
<1> HIDE DEF e, r
<1>4. <<e, r>> \in Seq(Message)
  BY <1>1, <1>3
<1>5. Plain(<<e, r>>)
  BY <1>1, <1>3, <1>4 DEF Plain
<1> QED
  BY <1>5 DEF e, r

\* An evaluate that returns reports the lines it takes, and then replies.
LEMMA TakenFit ==
  ASSUME IInv, LogsOK(targets), NEW t \in DOMAIN targets, NEW m \in Request,
         Take(t, m.session, m.what)
  PROVE  Fits(Reports(m, t) \o <<Reply(m, TRUE)>>, targets, targets')
<1> DEFINE ran     == Ran(t, m.session, m.what, FALSE)
           lines   == ran.logs
           event(i) == Event(m, "messageAdded", lines[i])
           reports == Reports(m, t)
           reply   == Reply(m, TRUE)
           all     == reports \o <<reply>>
<1>1. m.session \in Nat
  BY DEF Request
<1>2. Ordered(ran, t, m.session, FALSE)
  BY <1>1, RanOrdered
<1>3. t \in DOMAIN targets' /\ targets'[t].logs = << >> /\ targets'[t].lines = ran.lines
  BY <1>1, TakeKeepsLines
<1>4. reply \in Message /\ ~IsLine(reply) /\ reply.line = NoLine /\ reply.session = m.session
  BY ReplyIsMessage
<1>5. reports \in {<< >>, [i \in 1 .. Len(lines) |-> event(i)]}
  BY DEF Reports
<1> HIDE DEF ran, reports, reply
<1>6. lines \in Seq(Line) /\ Len(lines) \in Nat
  BY <1>2 DEF Ordered
<1>7. \A i \in 1 .. Len(lines) :
        /\ event(i) \in Message /\ IsLine(event(i))
        /\ event(i).line = lines[i] /\ event(i).session = m.session
  <2> TAKE i \in 1 .. Len(lines)
  <2>1. lines[i] \in Line
    BY <1>6
  <2> QED
    BY <2>1, EventIsMessage DEF Types, IsLine
<1> HIDE DEF event
<1>8. /\ reports \in Seq(Message) /\ Len(reports) \in Nat
      /\ \A i \in 1 .. Len(reports) : i \in 1 .. Len(lines) /\ reports[i] = event(i)
  <2>1. CASE reports = << >>
    BY <2>1
  <2>2. CASE reports = [i \in 1 .. Len(lines) |-> event(i)]
    BY <2>2, <1>6, <1>7
  <2> QED
    BY <2>1, <2>2, <1>5
<1>9. /\ all \in Seq(Message) /\ Len(all) = Len(reports) + 1
      /\ \A i \in 1 .. Len(all) : all[i] = IF i <= Len(reports) THEN reports[i] ELSE reply
  <2>1. <<reply>> \in Seq(Message)
    BY <1>4
  <2> QED
    BY <1>4, <1>8, <2>1, ConcatProperties
<1> HIDE DEF all
<1>10. \A i \in 1 .. Len(all) :
         \/ /\ i \in 1 .. Len(lines) /\ i <= Len(reports)
            /\ IsLine(all[i]) /\ all[i].line = lines[i] /\ all[i].session = m.session
         \/ /\ i = Len(all)
            /\ ~IsLine(all[i]) /\ all[i].line = NoLine /\ all[i].session = m.session
  <2> SUFFICES ASSUME NEW i \in 1 .. Len(all)
               PROVE  \/ /\ i \in 1 .. Len(lines) /\ i <= Len(reports)
                         /\ IsLine(all[i]) /\ all[i].line = lines[i] /\ all[i].session = m.session
                      \/ /\ i = Len(all)
                         /\ ~IsLine(all[i]) /\ all[i].line = NoLine /\ all[i].session = m.session
    OBVIOUS
  <2>1. CASE i <= Len(reports)
    <3>1. i \in 1 .. Len(reports) /\ all[i] = reports[i]
      BY <1>8, <1>9, <2>1
    <3>2. i \in 1 .. Len(lines) /\ all[i] = event(i)
      BY <3>1, <1>8
    <3> QED
      BY <2>1, <3>2, <1>7
  <2>2. CASE ~(i <= Len(reports))
    <3>1. i = Len(all) /\ all[i] = reply
      BY <1>8, <1>9, <2>2
    <3> QED
      BY <3>1, <1>4
  <2> QED
    BY <2>1, <2>2
<1>11. SaidOK(all, targets')
  <2> SUFFICES ASSUME NEW i \in 1 .. Len(all), IsLine(all[i]), i \in 1 .. Len(lines),
                      all[i].line = lines[i], all[i].session = m.session
               PROVE  LineOK(all[i], targets')
    BY <1>10 DEF SaidOK
  <2>1. /\ lines[i].target = t /\ lines[i].no <= ran.lines
        /\ lines[i].left \/ lines[i].by = m.session
    BY <1>2 DEF Ordered
  <2> QED
    BY <2>1, <1>3 DEF LineOK
<1>12. OrderOK(all)
  <2> SUFFICES ASSUME NEW i \in 1 .. Len(all), NEW j \in 1 .. Len(all),
                      i < j, IsLine(all[i]), IsLine(all[j])
               PROVE  all[i].line.no < all[j].line.no
    BY DEF OrderOK
  <2>1. /\ i \in 1 .. Len(lines) /\ j \in 1 .. Len(lines)
        /\ all[i].line = lines[i] /\ all[j].line = lines[j]
    BY <1>10
  <2> QED
    BY <2>1, <1>2 DEF Ordered
<1>13. NextOK(all)
  <2> SUFFICES ASSUME NEW i \in 1 .. Len(all), IsLine(all[i])
               PROVE  i < Len(all) /\ all[i + 1].session = all[i].session
    BY DEF NextOK
  <2>1. i <= Len(reports) /\ all[i].session = m.session
    BY <1>10
  <2>2. i < Len(all) /\ i + 1 \in 1 .. Len(all)
    BY <2>1, <1>8, <1>9
  <2>3. all[i + 1].session = m.session
    BY <2>2, <1>10
  <2> QED
    BY <2>1, <2>2, <2>3
<1>14. Later(all, targets)
  <2> SUFFICES ASSUME NEW i \in 1 .. Len(all), NEW e \in Message, IsLine(all[i]),
                      LineOK(e, targets), e.line.target = all[i].line.target
               PROVE  e.line.no < all[i].line.no
    BY DEF Later
  <2>1. i \in 1 .. Len(lines) /\ all[i].line = lines[i]
    BY <1>10
  <2>2. lines[i].target = t
    BY <2>1, <1>2 DEF Ordered
  <2> QED
    BY <2>1, <2>2, <1>2 DEF Ordered
<1> QED
  BY <1>9, <1>11, <1>12, <1>13, <1>14 DEF Fits, all, reports, reply

--------------------------------------------------------------------------------
(* The streams of the connections.                                         *)

\* What was said stays lines of the targets when these change.
LEMMA SaidStays ==
  ASSUME NEW said \in Seq(Message), NEW T, NEW U, SaidOK(said, T), LinesKept(T, U)
  PROVE  SaidOK(said, U)
<1>1. \A i \in 1 .. Len(said) : said[i] \in Message
  OBVIOUS
<1> QED
  BY <1>1 DEF SaidOK, LinesKept

\* Two streams are apart from each other.
LEMMA ApartBoth ==
  ASSUME NEW said, NEW other, ApartOK(said, other)
  PROVE  ApartOK(other, said)
BY DEF ApartOK

\* Streams that stay as they are while the targets change.
LEMMA StreamsStay ==
  ASSUME LInv, IInv', LinesKept(targets, targets'),
         \A d \in Conns :
           /\ conns'[d].received \in Seq(Message) /\ conns'[d].channel \in Seq(Message)
           /\ Stream(d)' = Stream(d)
           /\ conns'[d].state # "closed" => conns[d].state # "closed"
  PROVE  LInv'
<1>1. ASSUME NEW d \in Conns
      PROVE  StreamOK(d)'
  <2>1. StreamOK(d) /\ Stream(d) \in Seq(Message)
    BY StreamType DEF LInv
  <2>2. SaidOK(Stream(d), targets')
    BY <2>1, SaidStays DEF StreamOK
  <2> QED
    BY <2>1, <2>2 DEF StreamOK
<1>2. \A d, e \in Conns : d # e => ApartOK(Stream(d)', Stream(e)')
  BY DEF LInv
<1>3. LogsOK(targets')
  BY DEF LinesKept
<1> QED
  BY <1>1, <1>2, <1>3 DEF LInv

\* What a reader says comes behind what was said on its connection.
LEMMA StreamSays ==
  ASSUME LInv, IInv', NEW c \in Conns, NEW messages, Say(c, messages),
         LinesKept(targets, targets'), Fits(messages, targets, targets')
  PROVE  LInv'
<1>1. /\ \A d \in Conns : d # c => conns'[d] = conns[d]
      /\ conns'[c].received = conns[c].received
      /\ conns'[c].channel = conns[c].channel \o messages
      /\ conns'[c].state = conns[c].state
  BY DEF Say, LInv, IInv, ConnsOK, ConnOK, Fields
<1>2. /\ messages \in Seq(Message)
      /\ SaidOK(messages, targets') /\ OrderOK(messages) /\ NextOK(messages)
      /\ Later(messages, targets)
  BY DEF Fits
<1>3. \A d \in Conns : StreamOK(d) /\ Stream(d) \in Seq(Message)
  BY StreamType DEF LInv
<1>4. /\ conns[c].received \in Seq(Message) /\ conns[c].channel \in Seq(Message)
      /\ SaidOK(Stream(c), targets) /\ OrderOK(Stream(c))
      /\ conns[c].state # "closed" => NextOK(Stream(c))
  BY <1>3 DEF StreamOK
<1>5. Stream(c)' = Stream(c) \o messages /\ conns'[c].channel \in Seq(Message)
  <2> DEFINE r == conns[c].received
             w == conns[c].channel
  <2>1. Stream(c) = r \o w /\ Stream(c)' = r \o (w \o messages) /\ conns'[c].channel = w \o messages
    BY <1>1 DEF Stream
  <2>2. r \in Seq(Message) /\ w \in Seq(Message)
    BY <1>4
  <2> HIDE DEF r, w
  <2>3. (r \o w) \o messages = r \o (w \o messages)
    BY <1>2, <2>2, ConcatAssociative
  <2>4. w \o messages \in Seq(Message)
    BY <1>2, <2>2, ConcatProperties
  <2> QED
    BY <2>1, <2>3, <2>4
<1>6. \A d \in Conns : d # c => Stream(d)' = Stream(d)
  BY <1>1 DEF Stream
<1>7. ASSUME NEW d \in Conns
      PROVE  StreamOK(d)'
  <2>1. CASE d = c
    <3>1. SaidOK(Stream(c) \o messages, targets')
      BY <1>2, <1>3, <1>4, SaidGrows DEF LinesKept
    <3>2. OrderOK(Stream(c) \o messages)
      BY <1>2, <1>3, <1>4, OrderGrows
    <3>3. conns'[c].state # "closed" => NextOK(Stream(c) \o messages)
      BY <1>1, <1>2, <1>3, <1>4, NextGrows
    <3> QED
      BY <2>1, <3>1, <3>2, <3>3, <1>1, <1>4, <1>5 DEF StreamOK
  <2>2. CASE d # c
    <3>1. SaidOK(Stream(d), targets')
      BY <1>3, SaidStays DEF StreamOK
    <3> QED
      BY <2>2, <3>1, <1>1, <1>3, <1>6 DEF StreamOK
  <2> QED
    BY <2>1, <2>2
<1>8. ASSUME NEW d \in Conns, d # c
      PROVE  ApartOK(Stream(c)', Stream(d)') /\ ApartOK(Stream(d)', Stream(c)')
  <2>1. ApartOK(Stream(c), Stream(d)) /\ SaidOK(Stream(d), targets)
    BY <1>3, <1>8 DEF LInv, StreamOK
  <2>2. ApartOK(Stream(c) \o messages, Stream(d))
    BY <2>1, <1>2, <1>3, ApartGrows
  <2> QED
    BY <2>2, <1>5, <1>6, <1>8, ApartBoth
<1>9. \A d, e \in Conns : d # e => ApartOK(Stream(d)', Stream(e)')
  <2> SUFFICES ASSUME NEW d \in Conns, NEW e \in Conns, d # e, d # c, e # c
               PROVE  ApartOK(Stream(d)', Stream(e)')
    BY <1>8
  <2> QED
    BY <1>6 DEF LInv
<1> QED
  BY <1>7, <1>9 DEF LInv, LinesKept

\* A connection that is closed keeps what it has received, the beginning of its stream.
LEMMA StreamCut ==
  ASSUME LInv, IInv', UNCHANGED targets, NEW c \in Conns,
         \A d \in Conns : d # c => conns'[d] = conns[d],
         conns'[c].received = conns[c].received, conns'[c].channel = << >>,
         conns'[c].state = "closed"
  PROVE  LInv'
<1> DEFINE said == Stream(c)
           now  == conns[c].received
<1>1. \A d \in Conns : StreamOK(d) /\ Stream(d) \in Seq(Message)
  BY StreamType DEF LInv
<1>2. /\ now \in Seq(Message) /\ conns[c].channel \in Seq(Message)
      /\ SaidOK(said, targets) /\ OrderOK(said) /\ said \in Seq(Message)
  BY <1>1 DEF StreamOK
<1>3. Stream(c)' = now /\ << >> \in Seq(Message)
  BY <1>2, ConcatEmptySeq DEF Stream
<1>4. /\ Len(now) \in Nat /\ Len(said) \in Nat /\ Len(now) <= Len(said)
      /\ \A i \in 1 .. Len(now) : i \in 1 .. Len(said) /\ now[i] = said[i]
  <2> DEFINE w == conns[c].channel
  <2>1. said = now \o w
    BY DEF Stream
  <2>2. w \in Seq(Message)
    BY <1>2
  <2> HIDE DEF said, now, w
  <2>3. /\ Len(said) = Len(now) + Len(w) /\ Len(now) \in Nat /\ Len(w) \in Nat
        /\ \A i \in 1 .. Len(now) : said[i] = now[i]
    BY <1>2, <2>1, <2>2, Behind
  <2> QED
    BY <2>3
<1> HIDE DEF said, now
<1>5. SaidOK(now, targets)
  BY <1>2, <1>4 DEF SaidOK
<1>6. OrderOK(now)
  BY <1>2, <1>4 DEF OrderOK
<1>7. \A other : ApartOK(said, other) => ApartOK(now, other)
  BY <1>4 DEF ApartOK
<1>8. \A d \in Conns : d # c => Stream(d)' = Stream(d)
  BY DEF Stream
<1>9. ASSUME NEW d \in Conns
      PROVE  StreamOK(d)'
  <2>1. CASE d = c
    BY <2>1, <1>2, <1>3, <1>5, <1>6 DEF StreamOK, now
  <2>2. CASE d # c
    BY <2>2, <1>1, <1>8 DEF StreamOK
  <2> QED
    BY <2>1, <2>2
<1>10. ASSUME NEW d \in Conns, d # c
       PROVE  ApartOK(Stream(c)', Stream(d)') /\ ApartOK(Stream(d)', Stream(c)')
  <2>1. ApartOK(said, Stream(d))
    BY <1>10 DEF LInv, said
  <2> QED
    BY <2>1, <1>3, <1>7, <1>8, <1>10, ApartBoth
<1>11. \A d, e \in Conns : d # e => ApartOK(Stream(d)', Stream(e)')
  <2> SUFFICES ASSUME NEW d \in Conns, NEW e \in Conns, d # e, d # c, e # c
               PROVE  ApartOK(Stream(d)', Stream(e)')
    BY <1>10
  <2> QED
    BY <1>8 DEF LInv
<1> QED
  BY <1>9, <1>11 DEF LInv

--------------------------------------------------------------------------------
(* The steps keep the invariant of the lines.                              *)

\* Targets that do not change.
LEMMA SameKeepsLines ==
  ASSUME LogsOK(targets), UNCHANGED targets
  PROVE  LinesKept(targets, targets')
BY DEF LinesKept

\* A request for the browser reports no line.
LEMMA OnBrowserLines ==
  ASSUME LInv, IInv', NEW c \in Conns, NEW m \in Request, OnBrowser(c, m)
  PROVE  LInv'
<1>1. IInv /\ LogsOK(targets) /\ m.what \in Words
  BY DEF LInv, Request
<1>2. CASE CreateTarget(m.what) /\ Say(c, <<Event(m, "targetCreated", NoLine), Reply(m, TRUE)>>)
  <2>1. LinesKept(targets, targets')
    BY <1>1, <1>2, CreateKeepsLines
  <2>2. Fits(<<Event(m, "targetCreated", NoLine), Reply(m, TRUE)>>, targets, targets')
    BY EventsPlain, PlainFits DEF Types
  <2> QED
    BY <1>2, <2>1, <2>2, StreamSays
<1>3. CASE AttachSession(m.on) /\ Say(c, <<Event(m, "attachedToTarget", NoLine), Reply(m, TRUE)>>)
  <2>1. LinesKept(targets, targets')
    BY <1>1, <1>3, AttachKeepsLines DEF AttachSession, IsTarget
  <2>2. Fits(<<Event(m, "attachedToTarget", NoLine), Reply(m, TRUE)>>, targets, targets')
    BY EventsPlain, PlainFits DEF Types
  <2> QED
    BY <1>3, <2>1, <2>2, StreamSays
<1>4. \A ok \in BOOLEAN : Fits(<<Reply(m, ok)>>, targets, targets')
  BY RepliesPlain, PlainFits
<1>5. CASE DetachSession(m.on) /\ Say(c, <<Reply(m, TRUE)>>)
  <2>1. sessions[m.on] \in DOMAIN targets
    BY <1>1, <1>5 DEF DetachSession, IsSession, IInv, BrowserOK
  <2>2. LinesKept(targets, targets')
    BY <1>1, <1>5, <2>1, AttachKeepsLines DEF DetachSession
  <2> QED
    BY <1>4, <1>5, <2>2, StreamSays
<1>6. CASE UNCHANGED browser /\ \E ok \in BOOLEAN : Say(c, <<Reply(m, ok)>>)
  <2>1. LinesKept(targets, targets')
    BY <1>1, <1>6, SameKeepsLines DEF browser
  <2> QED
    BY <1>4, <1>6, <2>1, StreamSays
<1>7. (m.method = "getTargets") \in BOOLEAN
  OBVIOUS
<1> QED
  BY <1>2, <1>3, <1>5, <1>6, <1>7 DEF OnBrowser

\* A request for a session; only an evaluate that returns reports lines.
LEMMA OnTargetLines ==
  ASSUME LInv, IInv', NEW c \in Conns, NEW m \in Request, NEW t \in DOMAIN targets,
         OnTarget(c, m, t)
  PROVE  LInv'
<1>1. IInv /\ LogsOK(targets) /\ m.session \in Nat /\ targets[t] \in Target
  BY DEF LInv, Request, IInv, BrowserOK
<1>2. \A ok \in BOOLEAN : Fits(<<Reply(m, ok)>>, targets, targets')
  BY RepliesPlain, PlainFits
<1>3. ASSUME NEW target, SetTarget(t, target),
             target.logs = targets[t].logs, target.lines = targets[t].lines
      PROVE  LinesKept(targets, targets')
  BY <1>1, <1>3, SetKeepsLines DEF SetTarget
<1>4. CASE /\ SetTarget(t, [targets[t] EXCEPT !.enabled = @ \cup {m.what}])
           /\ Say(c, <<Reply(m, TRUE)>>)
  <2> DEFINE next == [targets[t] EXCEPT !.enabled = @ \cup {m.what}]
  <2>1. next.logs = targets[t].logs /\ next.lines = targets[t].lines
    BY <1>1 DEF Target
  <2>2. SetTarget(t, next)
    BY <1>4
  <2> HIDE DEF next
  <2> QED
    BY <1>2, <1>3, <1>4, <2>1, <2>2, StreamSays
<1>5. CASE /\ SetTarget(t, [targets[t] EXCEPT !.enabled = @ \ {m.what}])
           /\ Say(c, <<Reply(m, TRUE)>>)
  <2> DEFINE next == [targets[t] EXCEPT !.enabled = @ \ {m.what}]
  <2>1. next.logs = targets[t].logs /\ next.lines = targets[t].lines
    BY <1>1 DEF Target
  <2>2. SetTarget(t, next)
    BY <1>5
  <2> HIDE DEF next
  <2> QED
    BY <1>2, <1>3, <1>5, <2>1, <2>2, StreamSays
<1>6. CASE Leave(t, m.session, m.what) /\ Say(c, <<Reply(m, TRUE)>>)
  <2>1. LinesKept(targets, targets')
    BY <1>1, <1>6, LeaveKeepsLines
  <2> QED
    BY <1>2, <1>6, <2>1, StreamSays
<1>7. CASE Take(t, m.session, m.what) /\ Say(c, Reports(m, t) \o <<Reply(m, TRUE)>>)
  <2>1. LinesKept(targets, targets')
    BY <1>1, <1>7, TakeKeepsLines
  <2>2. Fits(Reports(m, t) \o <<Reply(m, TRUE)>>, targets, targets')
    BY <1>1, <1>7, TakenFit
  <2> QED
    BY <1>7, <2>1, <2>2, StreamSays
<1>8. CASE /\ SetTarget(t, [targets[t] EXCEPT !.url = m.what])
           /\ \/ Say(c, <<Event(m, "frameNavigated", NoLine), Reply(m, TRUE)>>)
              \/ Say(c, <<Reply(m, TRUE)>>)
  <2> DEFINE next == [targets[t] EXCEPT !.url = m.what]
  <2>1. next.logs = targets[t].logs /\ next.lines = targets[t].lines
    BY <1>1 DEF Target
  <2>2. SetTarget(t, next)
    BY <1>8
  <2> HIDE DEF next
  <2>3. LinesKept(targets, targets')
    BY <1>3, <2>1, <2>2
  <2>4. Fits(<<Event(m, "frameNavigated", NoLine), Reply(m, TRUE)>>, targets, targets')
    BY EventsPlain, PlainFits DEF Types
  <2> QED
    BY <1>2, <1>8, <2>3, <2>4, StreamSays
<1>9. CASE UNCHANGED browser /\ \E ok \in BOOLEAN : Say(c, <<Reply(m, ok)>>)
  <2>1. LinesKept(targets, targets')
    BY <1>1, <1>9, SameKeepsLines DEF browser
  <2> QED
    BY <1>2, <1>9, <2>1, StreamSays
<1>10. (m.method = "getProperties") \in BOOLEAN
  OBVIOUS
<1> QED
  BY <1>4, <1>5, <1>6, <1>7, <1>8, <1>9, <1>10 DEF OnTarget, Evaluate

\* Streams and targets that stay as they are.
LEMMA QuietLines ==
  ASSUME LInv, IInv', LinesKept(targets, targets'),
         \A d \in Conns : /\ conns'[d].received = conns[d].received
                          /\ conns'[d].channel = conns[d].channel
                          /\ conns'[d].state # "closed" => conns[d].state # "closed"
  PROVE  LInv'
<1>1. \A d \in Conns : conns[d].received \in Seq(Message) /\ conns[d].channel \in Seq(Message)
  BY DEF LInv, StreamOK
<1>2. \A d \in Conns : Stream(d)' = Stream(d)
  BY DEF Stream
<1> QED
  BY <1>1, <1>2, StreamsStay

\* Whatever a request asks for.
LEMMA HandleLines ==
  ASSUME LInv, NEW c \in Conns, Handle(c)
  PROVE  LInv'
<1> DEFINE m == Head(conns[c].inbox)
<1>1. IInv /\ IInv' /\ LogsOK(targets)
  BY HandleKeeps DEF LInv
<1>2. m \in Request
  BY <1>1 DEF IInv, ConnsOK, ConnOK, Handle
<1> HIDE DEF m
<1>3. CASE UNCHANGED <<browser, conns>>
  BY <1>1, <1>3, SameKeepsLines, QuietLines DEF browser
<1>4. CASE UNCHANGED browser /\ (Say(c, << >>) \/ Say(c, <<Reply(m, FALSE)>>))
  <2>1. LinesKept(targets, targets')
    BY <1>1, <1>4, SameKeepsLines DEF browser
  <2>2. Fits(<< >>, targets, targets') /\ Fits(<<Reply(m, FALSE)>>, targets, targets')
    BY <1>2, RepliesPlain, PlainFits
  <2> QED
    BY <1>1, <1>4, <2>1, <2>2, StreamSays
<1>5. CASE OnBrowser(c, m)
  BY <1>1, <1>2, <1>5, OnBrowserLines
<1>6. CASE IsSession(m.session) /\ OnTarget(c, m, sessions[m.session])
  <2>1. sessions[m.session] \in DOMAIN targets
    BY <1>1, <1>6 DEF IsSession, IInv, BrowserOK
  <2> QED
    BY <1>1, <1>2, <1>6, <2>1, OnTargetLines
<1> QED
  BY <1>3, <1>4, <1>5, <1>6 DEF Handle, Refuse, m

\* The owner runs scripts and leaves their lines.
LEMMA OwnerLines ==
  ASSUME LInv, Owner
  PROVE  LInv'
<1>1. IInv /\ IInv' /\ LogsOK(targets) /\ UNCHANGED conns
  BY OwnerKeeps DEF LInv, Owner
<1>2. PICK r \in plan.calls : OwnerCall(r.method, r.what)
  BY DEF Owner
<1>3. r.what \in Words
  BY <1>1, <1>2, PlansAssumption DEF IInv, Acts
<1>4. LinesKept(targets, targets')
  <2>1. CASE CreateTarget(r.what)
    BY <1>1, <1>3, <2>1, CreateKeepsLines
  <2>2. CASE \E t \in DOMAIN targets : AttachSession(t)
    BY <1>1, <2>2, AttachKeepsLines DEF AttachSession
  <2>3. CASE \E s \in DOMAIN sessions : DetachSession(s)
    <3>1. PICK s \in DOMAIN sessions : DetachSession(s)
      BY <2>3
    <3>2. sessions[s] \in DOMAIN targets
      BY <1>1, <3>1 DEF DetachSession, IsSession, IInv, BrowserOK
    <3> QED
      BY <1>1, <3>1, <3>2, AttachKeepsLines DEF DetachSession
  <2>4. CASE \E s \in DOMAIN sessions : IsSession(s) /\ Leave(sessions[s], s, r.what)
    <3>1. PICK s \in DOMAIN sessions : IsSession(s) /\ Leave(sessions[s], s, r.what)
      BY <2>4
    <3>2. sessions[s] \in DOMAIN targets /\ s \in Nat
      BY <1>1, <3>1 DEF IsSession, IInv, BrowserOK
    <3> QED
      BY <1>1, <3>1, <3>2, LeaveKeepsLines
  <2>5. CASE \E t \in DOMAIN targets : Leave(t, None, r.what)
    BY <1>1, <2>5, LeaveKeepsLines DEF None
  <2> QED
    BY <1>2, <2>1, <2>2, <2>3, <2>4, <2>5 DEF OwnerCall
<1> QED
  BY <1>1, <1>4, QuietLines

\* Clients that connect, send and close, and the start and the end of the server.
LEMMA ClientLines ==
  ASSUME LInv, IInv', NEW c \in Conns,
         Connect(c) \/ Send(c) \/ ClientCloses(c) \/ ReaderEnds(c)
  PROVE  LInv'
<1>1. LinesKept(targets, targets') /\ UNCHANGED targets
  BY SameKeepsLines DEF LInv, Connect, Send, ClientCloses, ReaderEnds, browser
<1>2. DOMAIN conns = Conns /\ DOMAIN conns[c] = Fields
  BY DEF LInv, IInv, ConnsOK, ConnOK
<1>3. CASE Connect(c)
  BY <1>1, <1>2, <1>3, QuietLines DEF Connect, Fields
<1>4. CASE Send(c)
  <2>1. PICK inbox, n : conns' = [conns EXCEPT ![c].inbox = inbox, ![c].sent = n]
    BY <1>4 DEF Send
  <2>2. \A d \in Conns : /\ conns'[d].received = conns[d].received
                        /\ conns'[d].channel = conns[d].channel
                        /\ conns'[d].state = conns[d].state
    BY <1>2, <2>1 DEF Fields
  <2> QED
    BY <1>1, <2>2, QuietLines
<1>5. CASE ClientCloses(c) /\ conns' = [conns EXCEPT ![c].state = "closing"]
  BY <1>1, <1>2, <1>5, QuietLines DEF ClientCloses, Fields
<1>6. CASE conns' = [conns EXCEPT ![c].state = "closed", ![c].inbox = << >>, ![c].channel = << >>]
  BY <1>1, <1>2, <1>6, StreamCut DEF Fields
<1>7. CASE ReaderEnds(c)
  BY <1>1, <1>2, <1>7, StreamCut DEF ReaderEnds, Fields
<1> QED
  BY <1>3, <1>4, <1>5, <1>6, <1>7 DEF ClientCloses

\* The writer moves a message on and changes no stream.
LEMMA WriteLines ==
  ASSUME LInv, IInv', NEW c \in Conns, Write(c)
  PROVE  LInv'
<1> DEFINE r == conns[c].received
           w == conns[c].channel
<1>1. LinesKept(targets, targets')
  BY SameKeepsLines DEF LInv, Write, browser
<1>2. \A d \in Conns : conns[d].received \in Seq(Message) /\ conns[d].channel \in Seq(Message)
  BY DEF LInv, StreamOK
<1>3. /\ \A d \in Conns : d # c => conns'[d] = conns[d]
      /\ conns'[c].received = Append(r, Head(w)) /\ conns'[c].channel = Tail(w)
      /\ conns'[c].state = conns[c].state /\ w # << >>
  BY DEF Write, LInv, IInv, ConnsOK, ConnOK, Fields
<1>4. Stream(c) = r \o w /\ Stream(c)' = Append(r, Head(w)) \o Tail(w)
  BY <1>3 DEF Stream
<1>5. r \in Seq(Message) /\ w \in Seq(Message)
  BY <1>2
<1> HIDE DEF r, w
<1>6. /\ Head(w) \in Message /\ Tail(w) \in Seq(Message) /\ Append(r, Head(w)) \in Seq(Message)
      /\ <<Head(w)>> \in Seq(Message)
  BY <1>3, <1>5
<1>7. w = <<Head(w)>> \o Tail(w) /\ Append(r, Head(w)) = r \o <<Head(w)>>
  <2>1. Len(w) \in Nat /\ 1 \in 1 .. Len(w) /\ Len(w) \in 1 .. Len(w) /\ Head(w) = w[1]
    BY <1>3, <1>5
  <2>2. SubSeq(w, 1, Len(w)) = <<w[1]>> \o SubSeq(w, 1 + 1, Len(w))
    BY <1>5, <2>1, SubSeqRecursiveFirst
  <2>3. SubSeq(w, 1, Len(w)) = w /\ Tail(w) = SubSeq(w, 2, Len(w))
    BY <1>3, <1>5, SubSeqFull, TailIsSubSeq
  <2>4. Append(r, Head(w)) = r \o <<Head(w)>>
    BY <1>5, <1>6, AppendIsConcat
  <2> QED
    BY <2>1, <2>2, <2>3, <2>4
<1>8. (r \o <<Head(w)>>) \o Tail(w) = r \o (<<Head(w)>> \o Tail(w))
  BY <1>5, <1>6, ConcatAssociative
<1>9. \A d \in Conns : Stream(d)' = Stream(d)
  BY <1>3, <1>4, <1>7, <1>8 DEF Stream
<1> QED
  BY <1>1, <1>2, <1>3, <1>6, <1>9, StreamsStay

\* At the start nothing was said.
LEMMA InitLines ==
  ASSUME Init, IInv
  PROVE  LInv
<1>1. /\ targets = <<NewTarget("about:blank")>> /\ NewTarget("about:blank").logs = << >>
      /\ \A d \in Conns : conns[d].received = << >> /\ conns[d].channel = << >>
  BY DEF Init, NewTarget, NewConn
<1>2. LogsOK(targets)
  BY <1>1 DEF LogsOK
<1>3. << >> \in Seq(Message)
  OBVIOUS
<1>4. \A d \in Conns : Stream(d) = << >>
  BY <1>1, <1>3, ConcatEmptySeq DEF Stream
<1>5. \A d \in Conns : StreamOK(d)
  <2>1. SaidOK(<< >>, targets) /\ OrderOK(<< >>) /\ NextOK(<< >>)
    BY DEF SaidOK, OrderOK, NextOK
  <2> QED
    BY <1>1, <1>3, <1>4, <2>1 DEF StreamOK
<1>6. \A d, e \in Conns : ApartOK(Stream(d), Stream(e))
  BY <1>4 DEF ApartOK
<1> QED
  BY <1>2, <1>5, <1>6 DEF LInv

\* What the invariant says of the lines.
LEMMA LinesSay ==
  ASSUME LInv
  PROVE  LinesReported
<1> SUFFICES ASSUME NEW c \in Conns, NEW i \in 1 .. Len(Stream(c)), IsLine(Stream(c)[i])
             PROVE  LET said == Stream(c) IN
                    /\ said[i].line.by = said[i].session \/ said[i].line.left
                    /\ conns[c].state # "closed" => i < Len(said) /\ said[i + 1].session = said[i].session
                    /\ \A j \in i + 1 .. Len(said) :
                         IsLine(said[j]) /\ said[j].line.target = said[i].line.target
                           => said[i].line.no < said[j].line.no
                    /\ \A d \in Conns \ {c} : \A j \in 1 .. Len(Stream(d)) :
                         Stream(d)[j].line # said[i].line
                    /\ \A j \in 1 .. Len(targets[said[i].line.target].logs) :
                         said[i].line.no < targets[said[i].line.target].logs[j].no
  BY DEF LInv, LogsOK, LinesReported
<1> DEFINE said == Stream(c)
<1>1. /\ SaidOK(said, targets) /\ OrderOK(said) /\ said \in Seq(Message)
      /\ conns[c].state # "closed" => NextOK(said)
  BY StreamType DEF LInv, StreamOK
<1>2. LineOK(said[i], targets)
  BY <1>1 DEF SaidOK
<1>3. \A j \in i + 1 .. Len(said) : j \in 1 .. Len(said) /\ i < j
  BY <1>1
<1>4. said[i].line.target # None
  <2>1. targets \in Seq(Target)
    BY DEF LInv, IInv, BrowserOK
  <2> QED
    BY <1>2, <2>1, Element DEF LineOK, None
<1>5. \A d \in Conns \ {c} : \A j \in 1 .. Len(Stream(d)) : Stream(d)[j].line # said[i].line
  <2> SUFFICES ASSUME NEW d \in Conns \ {c}, NEW j \in 1 .. Len(Stream(d))
               PROVE  Stream(d)[j].line # said[i].line
    OBVIOUS
  <2>1. ApartOK(said, Stream(d)) /\ SaidOK(Stream(d), targets)
    BY DEF LInv, StreamOK
  <2>2. CASE IsLine(Stream(d)[j])
    BY <2>1, <2>2 DEF ApartOK
  <2>3. CASE ~IsLine(Stream(d)[j])
    BY <2>1, <2>3, <1>4 DEF SaidOK, NoLine
  <2> QED
    BY <2>2, <2>3
<1>6. conns[c].state # "closed" => i < Len(said) /\ said[i + 1].session = said[i].session
  BY <1>1 DEF NextOK
<1>7. \A j \in i + 1 .. Len(said) :
        IsLine(said[j]) /\ said[j].line.target = said[i].line.target
          => said[i].line.no < said[j].line.no
  BY <1>1, <1>3 DEF OrderOK
<1> HIDE DEF said
<1>8. /\ said[i].line.by = said[i].session \/ said[i].line.left
      /\ \A j \in 1 .. Len(targets[said[i].line.target].logs) :
           said[i].line.no < targets[said[i].line.target].logs[j].no
  BY <1>2 DEF LineOK
<1> QED
  BY <1>5, <1>6, <1>7, <1>8 DEF said

\* Every step.
LEMMA NextLines ==
  ASSUME LInv, [Next]_vars
  PROVE  LInv'
<1>1. IInv /\ IInv'
  BY IInvKept DEF LInv
<1>2. CASE Owner
  BY <1>2, OwnerLines
<1>3. CASE Run \/ AcceptFails \/ UNCHANGED vars
  <2>1. UNCHANGED <<targets, conns>>
    BY <1>3 DEF Run, AcceptFails, vars, browser
  <2>2. LinesKept(targets, targets')
    BY <2>1, SameKeepsLines DEF LInv
  <2> QED
    BY <1>1, <2>1, <2>2, QuietLines
<1>4. CASE \E c \in Conns : Handle(c)
  BY <1>4, HandleLines
<1>5. CASE \E c \in Conns : Connect(c) \/ Send(c) \/ ClientCloses(c) \/ ReaderEnds(c)
  BY <1>1, <1>5, ClientLines
<1>6. CASE \E c \in Conns : Write(c)
  BY <1>1, <1>6, WriteLines
<1> QED
  BY <1>2, <1>3, <1>4, <1>5, <1>6 DEF Next

\* A line of a console is reported at most once, on one connection only, in the order of its
\* console, to the session whose evaluate wrote it unless the line was left, and together with
\* the reply, however the clients, the owner, the readers and the writers interleave
\* (cdp.rs 288-331).
THEOREM LinesAlwaysReported == Spec => []LinesReported
<1>1. Init => LInv
  BY IInvStarts, InitLines
<1>2. LInv /\ [Next]_vars => LInv'
  BY NextLines
<1>3. LInv => LinesReported
  BY LinesSay
<1> QED
  BY <1>1, <1>2, <1>3, PTL DEF Spec
================================================================================

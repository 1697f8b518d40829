----------------------------------- MODULE Cdp ---------------------------------
(***************************************************************************)
(* The debugger server of the browser (04-browser, src/js/cdp.rs): targets *)
(* with a JavaScript context each, sessions attached to them, and web      *)
(* sockets on which clients send requests.  Each socket has a reader,      *)
(* which handles a request with the state locked and puts the messages it  *)
(* gives into a channel, and a writer, which sends what is in the channel. *)
(* Before run() takes the server over, its owner calls it directly.        *)
(*                                                                         *)
(* A target is named by its place in targets, a session by its place in    *)
(* sessions: uuids never come again.  A script is one of Scripts.  Text of *)
(* messages and results of scripts are left out, and so is the HTTP list   *)
(* of targets, which only reads.                                           *)
(***************************************************************************)
EXTENDS Naturals, Sequences

CONSTANTS
  Conns,         \* the connections that come
  Words,         \* names of methods, addresses, scripts and domains
  Plans,         \* [conns, calls, requests, faults, maxCalls, maxRequests]: who comes, what
                 \* the owner and the clients do, as [to, method, what], what ends a
                 \* connection, and bounds on calls and on the requests of a client
  MaxRequests    \* bound on all maxRequests

Acts == [to : Words, method : Words, what : Words]

ASSUME PlansAssumption ==
  /\ "about:blank" \in Words
  /\ \A p \in Plans : p.calls \subseteq Acts /\ p.requests \subseteq Acts

VARIABLES
  targets,   \* [url, attached, enabled, logs, lines]
  sessions,  \* the target of each session, None when it is detached
  phase,     \* "owned" before run(), "serving", and "ended" when accept() has failed
  hung,      \* a script that does not end holds the lock
  conns,     \* [state, sent, inbox, channel, received] of each connection
  calls,     \* how many calls the owner has made
  plan

browser == <<targets, sessions>>
vars    == <<targets, sessions, phase, hung, conns, calls, plan>>

None    == 0
Unknown == 100   \* an id that nobody has

\* What a script does: it writes a line to the console or none, and returns, throws or loops.
Scripts == {"quiet", "logs", "throws", "loops"}
Lines(script) == IF script \in {"logs", "throws"} THEN 1 ELSE 0

NewTarget(url) == [url |-> url, attached |-> FALSE, enabled |-> {}, logs |-> << >>, lines |-> 0]
NewConn == [state |-> "none", sent |-> 0, inbox |-> << >>, channel |-> << >>, received |-> << >>]

Init ==
  /\ targets = <<NewTarget("about:blank")>>
  /\ sessions = << >>
  /\ phase = "owned" /\ hung = FALSE
  /\ conns = [c \in Conns |-> NewConn]
  /\ calls = 0
  /\ plan \in Plans

--------------------------------------------------------------------------------
(* Targets and sessions.                                                   *)

IsTarget(t)  == t \in DOMAIN targets
IsSession(s) == s \in DOMAIN sessions /\ sessions[s] # None

CreateTarget(url) == targets' = Append(targets, NewTarget(url)) /\ UNCHANGED sessions

AttachSession(t) ==
  /\ IsTarget(t)
  /\ targets' = [targets EXCEPT ![t].attached = TRUE]
  /\ sessions' = Append(sessions, t)

\* Mutant: the target is not attached any more, whatever other sessions it has.
DetachAlways(s) ==
  /\ IsSession(s)
  /\ sessions' = [sessions EXCEPT ![s] = None]
  /\ targets' = [targets EXCEPT ![sessions[s]].attached = FALSE]

DetachSession(s) ==
  /\ IsSession(s)
  /\ sessions' = [sessions EXCEPT ![s] = None]
  /\ targets' = [targets EXCEPT ![sessions[s]].attached =
                   @ /\ \E other \in DOMAIN sessions \ {s} : sessions[other] = sessions[s]]

\* The context of target t after a script of session s: the lines of its console are kept in
\* the context until an evaluate that returns takes them.  A line that its own request does
\* not take is left.
Ran(t, s, script, left) ==
  [targets[t] EXCEPT
     !.logs  = @ \o [i \in 1 .. Lines(script) |->
                       [target |-> t, no |-> targets[t].lines + i, by |-> s, left |-> left]],
     !.lines = @ + Lines(script)]

Leave(t, s, script) == targets' = [targets EXCEPT ![t] = Ran(t, s, script, TRUE)] /\ UNCHANGED sessions

\* Mutant: the lines stay in the context when they are taken.
TakeKeeps(t, s, script) ==
  targets' = [targets EXCEPT ![t] = Ran(t, s, script, FALSE)] /\ UNCHANGED sessions

Take(t, s, script) ==
  /\ targets' = [targets EXCEPT ![t] = [Ran(t, s, script, FALSE) EXCEPT !.logs = << >>]]
  /\ UNCHANGED sessions

--------------------------------------------------------------------------------
(* The owner's calls, before run().                                        *)

OwnerCall(method, what) ==
  \/ method = "createTarget" /\ CreateTarget(what)
  \/ method = "attach" /\ \E t \in DOMAIN targets : AttachSession(t)
  \/ method = "detach" /\ \E s \in DOMAIN sessions : DetachSession(s)
  \/ method = "evaluateInSession" /\ \E s \in DOMAIN sessions :
       IsSession(s) /\ Leave(sessions[s], s, what)
  \/ method = "evaluateInTarget" /\ \E t \in DOMAIN targets : Leave(t, None, what)

Owner ==
  /\ phase = "owned" /\ calls < plan.maxCalls
  /\ \E r \in plan.calls : OwnerCall(r.method, r.what)
  /\ calls' = calls + 1
  /\ UNCHANGED <<phase, hung, conns, plan>>

Run == phase = "owned" /\ phase' = "serving" /\ UNCHANGED <<browser, hung, conns, calls, plan>>

\* run() ends with the first accept() that fails; the connections there are stay.
AcceptFails ==
  /\ phase = "serving" /\ "accept" \in plan.faults /\ phase' = "ended"
  /\ UNCHANGED <<browser, hung, conns, calls, plan>>

--------------------------------------------------------------------------------
(* Clients.                                                                *)

Connect(c) ==
  /\ phase = "serving" /\ c \in plan.conns /\ conns[c].state = "none"
  /\ conns' = [conns EXCEPT ![c].state = "open"]
  /\ UNCHANGED <<browser, phase, hung, calls, plan>>

\* A request is for the browser, for a session, or for one that never was, and is about a
\* target or a session if it attaches or detaches.
Session(to) ==
  CASE to = "browser" -> {None} [] to = "stray" -> {Unknown} [] OTHER -> DOMAIN sessions
Named(method) ==
  CASE method = "attachToTarget"   -> DOMAIN targets \cup {Unknown}
    [] method = "detachFromTarget" -> DOMAIN sessions \cup {Unknown}
    [] OTHER                       -> {Unknown}

Send(c) ==
  /\ conns[c].state = "open" /\ conns[c].sent < plan.maxRequests
  /\ \E r \in plan.requests : \E s \in Session(r.to), on \in Named(r.method) :
       /\ conns' = [conns EXCEPT
            ![c].inbox = Append(@, [id |-> conns[c].sent + 1, session |-> s, on |-> on,
                                    method |-> r.method, what |-> r.what]),
            ![c].sent = @ + 1]
  /\ UNCHANGED <<browser, phase, hung, calls, plan>>

\* A close frame comes behind the requests; a connection that breaks loses them.
ClientCloses(c) ==
  /\ conns[c].state = "open"
  /\ \/ "close" \in plan.faults /\ conns' = [conns EXCEPT ![c].state = "closing"]
     \/ /\ "break" \in plan.faults
        /\ conns' = [conns EXCEPT ![c].state = "closed", ![c].inbox = << >>, ![c].channel = << >>]
  /\ UNCHANGED <<browser, phase, hung, calls, plan>>

--------------------------------------------------------------------------------
(* The reader of a connection.                                             *)

NoLine == [target |-> None, no |-> 0, by |-> None, left |-> FALSE]
Reply(m, ok) == [type |-> "reply", id |-> m.id, session |-> m.session, ok |-> ok, line |-> NoLine]
Event(m, type, line) == [type |-> type, id |-> 0, session |-> m.session, ok |-> TRUE, line |-> line]

\* The writer is gone when the peer has closed: what is said then is lost.
Say(c, messages) ==
  conns' = [conns EXCEPT ![c].inbox = Tail(@), ![c].channel = @ \o messages]

OnBrowser(c, m) ==
  \/ /\ m.method = "createTarget"
     /\ CreateTarget(m.what)
     /\ Say(c, <<Event(m, "targetCreated", NoLine), Reply(m, TRUE)>>)
  \/ /\ m.method = "attachToTarget" /\ IsTarget(m.on)
     /\ AttachSession(m.on)
     /\ Say(c, <<Event(m, "attachedToTarget", NoLine), Reply(m, TRUE)>>)
  \/ /\ m.method = "detachFromTarget" /\ IsSession(m.on)
     /\ DetachSession(m.on)
     /\ Say(c, <<Reply(m, TRUE)>>)
  \/ /\ \/ m.method = "attachToTarget" /\ ~IsTarget(m.on)
        \/ m.method = "detachFromTarget" /\ ~IsSession(m.on)
     /\ UNCHANGED browser
     /\ Say(c, <<Reply(m, FALSE)>>)
  \/ /\ m.method \notin {"createTarget", "attachToTarget", "detachFromTarget"}
     /\ UNCHANGED browser
     /\ Say(c, <<Reply(m, m.method = "getTargets")>>)

\* Which lines an evaluate that returns reports: all there are, if the target's console is
\* enabled, by whichever session.
Reports(m, t) ==
  LET lines == Ran(t, m.session, m.what, FALSE).logs
  IN IF "Console" \in targets[t].enabled
     THEN [i \in 1 .. Len(lines) |-> Event(m, "messageAdded", lines[i])]
     ELSE << >>

Evaluate(c, m, t) ==
  \/ /\ m.what = "throws"
     /\ Leave(t, m.session, m.what)
     /\ Say(c, <<Reply(m, TRUE)>>)
  \/ /\ m.what # "throws"
     /\ Take(t, m.session, m.what)
     /\ Say(c, Reports(m, t) \o <<Reply(m, TRUE)>>)

SetTarget(t, target) == targets' = [targets EXCEPT ![t] = target] /\ UNCHANGED sessions

OnTarget(c, m, t) ==
  \/ /\ m.method = "enable"
     /\ SetTarget(t, [targets[t] EXCEPT !.enabled = @ \cup {m.what}])
     /\ Say(c, <<Reply(m, TRUE)>>)
  \/ /\ m.method = "disable"
     /\ SetTarget(t, [targets[t] EXCEPT !.enabled = @ \ {m.what}])
     /\ Say(c, <<Reply(m, TRUE)>>)
  \/ m.method = "evaluate" /\ Evaluate(c, m, t)
  \/ m.method = "callFunctionOn" /\ Leave(t, m.session, m.what) /\ Say(c, <<Reply(m, TRUE)>>)
  \/ /\ m.method = "navigate"
     /\ SetTarget(t, [targets[t] EXCEPT !.url = m.what])
     /\ Say(c, IF "Page" \in targets[t].enabled
               THEN <<Event(m, "frameNavigated", NoLine), Reply(m, TRUE)>>
               ELSE <<Reply(m, TRUE)>>)
  \/ /\ m.method \notin {"enable", "disable", "evaluate", "callFunctionOn", "navigate"}
     /\ UNCHANGED browser
     /\ Say(c, <<Reply(m, m.method = "getProperties")>>)

Loops(m) == m.method \in {"evaluate", "callFunctionOn"} /\ m.what = "loops" /\ IsSession(m.session)

\* Mutant: a request for a session that is gone is not answered.
RefuseSilently(c, m) == UNCHANGED browser /\ Say(c, << >>)

Refuse(c, m) == UNCHANGED browser /\ Say(c, <<Reply(m, FALSE)>>)

Handle(c) ==
  /\ conns[c].inbox # << >> /\ ~hung
  /\ LET m == Head(conns[c].inbox)
     IN \/ /\ Loops(m)
           /\ hung' = TRUE
           /\ UNCHANGED <<browser, conns>>
        \/ /\ ~Loops(m)
           /\ \/ m.method = "noise" /\ UNCHANGED browser /\ Say(c, << >>)
              \/ /\ m.method # "noise"
                 /\ \/ m.session = None /\ OnBrowser(c, m)
                    \/ m.session # None /\ ~IsSession(m.session) /\ Refuse(c, m)
                    \/ IsSession(m.session) /\ OnTarget(c, m, sessions[m.session])
           /\ UNCHANGED hung
  /\ UNCHANGED <<phase, calls, plan>>

\* The reader ends with the close frame, the channel with it; no session is detached.
ReaderEnds(c) ==
  /\ conns[c].state = "closing" /\ conns[c].inbox = << >> /\ ~hung
  /\ conns' = [conns EXCEPT ![c].state = "closed", ![c].channel = << >>]
  /\ UNCHANGED <<browser, phase, hung, calls, plan>>

\* The writer of a connection.
Write(c) ==
  /\ conns[c].channel # << >>
  /\ conns' = [conns EXCEPT ![c].received = Append(@, Head(conns[c].channel)),
                            ![c].channel = Tail(@)]
  /\ UNCHANGED <<browser, phase, hung, calls, plan>>

--------------------------------------------------------------------------------
Next ==
  \/ Owner \/ Run \/ AcceptFails
  \/ \E c \in Conns :
       Connect(c) \/ Send(c) \/ ClientCloses(c) \/ Handle(c) \/ ReaderEnds(c) \/ Write(c)

\* Readers and writers are tasks that run when they can; clients read what they are sent.
Fairness == \A c \in Conns : WF_vars(Handle(c)) /\ WF_vars(Write(c))

Spec == Init /\ [][Next]_vars /\ Fairness

--------------------------------------------------------------------------------
(* What the server promises.                                               *)

\* A target says that it is attached exactly as long as some session names it: with several
\* sessions, of several clients or the owner, until the last one is detached.
AttachedExact ==
  \A t \in DOMAIN targets : targets[t].attached <=> \E s \in DOMAIN sessions : sessions[s] = t

Stream(c)  == conns[c].received \o conns[c].channel
IsLine(e)  == e.type = "messageAdded"

\* A line of the console is reported at most once, in the order of its target's console, to
\* the session that wrote it, together with the reply of the evaluate that wrote it; only
\* lines that were left (by a script that threw, callFunctionOn or a call of the owner) wait,
\* and are reported to whichever session evaluates next.
LinesReported ==
  /\ \A c \in Conns : LET said == Stream(c) IN
       \A i \in 1 .. Len(said) : IsLine(said[i]) =>
         /\ said[i].line.by = said[i].session \/ said[i].line.left
         /\ conns[c].state # "closed" => i < Len(said) /\ said[i + 1].session = said[i].session
         /\ \A j \in i + 1 .. Len(said) :
              IsLine(said[j]) /\ said[j].line.target = said[i].line.target
                => said[i].line.no < said[j].line.no
         /\ \A d \in Conns \ {c} : \A j \in 1 .. Len(Stream(d)) :
              Stream(d)[j].line # said[i].line
         /\ \A j \in 1 .. Len(targets[said[i].line.target].logs) :
              said[i].line.no < targets[said[i].line.target].logs[j].no
  /\ \A t \in DOMAIN targets : \A j \in 1 .. Len(targets[t].logs) : targets[t].logs[j].left

Requests(messages) == SelectSeq(messages, LAMBDA m : m.method # "noise")
Replies(messages)  == SelectSeq(messages, LAMBDA m : m.type = "reply")
Replied(c, id)     == \E i \in 1 .. Len(conns[c].received) :
                        conns[c].received[i].type = "reply" /\ conns[c].received[i].id = id

\* The replies come one for each request and in the order of the requests, also when the
\* session is detached by another client in the meantime, and every request of a client
\* that stays is answered, unless a script does not end.
InOrder(c) ==
  LET replies == Replies(Stream(c))
      waiting == Requests(conns[c].inbox)
      ids     == [i \in 1 .. Len(replies) |-> replies[i].id]
                   \o [i \in 1 .. Len(waiting) |-> waiting[i].id]
  IN \A i, j \in 1 .. Len(ids) : i < j => ids[i] < ids[j]

Waits(c, id) == \E i \in 1 .. Len(conns[c].inbox) :
                  conns[c].inbox[i].id = id /\ conns[c].inbox[i].method # "noise"

Answered ==
  \A c \in Conns :
    /\ []InOrder(c)
    /\ \A id \in 1 .. MaxRequests :
         Waits(c, id) ~> (Replied(c, id) \/ conns[c].state # "open" \/ hung)
================================================================================

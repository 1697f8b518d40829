---------------------------------- MODULE Agent --------------------------------
(***************************************************************************)
(* The agent layer in serve mode: a client that uses sessions and browses  *)
(* a page of one of them, the expiry task, time, and the end of the        *)
(* process.  A caller of the library reaches a page through the manager    *)
(* (get_page_mut), so that a call on the page borrows it until it returns. *)
(* That the caller is serve mode's, with the manager behind a mutex and    *)
(* the expiry task beside it, is an assumption: main.rs sets up the mutex  *)
(* and the task, and reaches no page through them yet.  So no other call   *)
(* and no expiry happens during a call on a page, but time passes.         *)
(*                                                                         *)
(* A plan says which calls the client makes in a run.                      *)
(***************************************************************************)
EXTENDS Sessions, Browsing

CONSTANT Plans   \* [ids, calls, answers]: the sessions, the kinds of calls, what a server says

ASSUME PlansAssumption ==
  \A p \in Plans : p.ids \subseteq SessionIds /\ \A a \in p.answers : Len(a.cookies) \in Nat

VARIABLES
  plan,
  tab    \* where the page of Browsing is: [session, page], or NoTab

vars == <<svars, bvars, plan, tab>>

NoTab == [session |-> "none", page |-> "none"]

Init == SessionsInit /\ BrowsingInit /\ plan \in Plans /\ tab = NoTab

TabLives == tab # NoTab /\ tab.session \in sessions /\ Live(pool[tab.session][tab.page])
Free     == ~Busy /\ ~saving
Calls(kind) == kind \in plan.calls /\ Free

--------------------------------------------------------------------------------
PageCalls ==
  /\ Calls("pages")
  /\ \E s \in plan.ids :
       \/ CreatePage(s) \/ LoadPageFromHtml(s)
       \/ \E p \in PageIds : ClosePage(s, p)
  /\ UNCHANGED <<bvars, plan, tab>>

StateCalls ==
  /\ Calls("states")
  /\ \E s \in plan.ids, p \in PageIds, state \in States : SetPageState(s, p, state)
  /\ UNCHANGED <<bvars, plan, tab>>

ManagerCalls ==
  /\ Free
  /\ \E s \in plan.ids : CreateSession(s) \/ UseSession(s) \/ DeleteSession(s)
  /\ UNCHANGED <<bvars, plan, tab>>

FileCalls ==
  /\ Calls("file")
  /\ \/ StartSave \/ LoadFromDisk
     \/ \E s \in plan.ids, url \in Places : PushHistory(s, url)
  /\ UNCHANGED <<bvars, plan, tab>>

EndSave == (FinishSave \/ SaveFails) /\ UNCHANGED <<bvars, plan, tab>>

\* add_page with the page of Browsing, once.
AddTab ==
  /\ (Calls("navigate") \/ Calls("fetch")) /\ tab = NoTab
  /\ \E s \in plan.ids :
       /\ AddPage(s)
       /\ tab' = IF pool' = pool THEN tab ELSE [session |-> s, page |-> NewPageId(s)]
  /\ UNCHANGED <<bvars, plan>>

\* get_session_mut and get_page_mut, and the call on the page.
Browse ==
  /\ TabLives
  /\ UseSession(tab.session)
  /\ (Calls("navigate") /\ Navigate) \/ (Calls("fetch") /\ Fetch)
  /\ UNCHANGED <<plan, tab>>

ServerAnswers == (\E a \in plan.answers : Answer(a)) /\ UNCHANGED <<svars, plan, tab>>

Expire == Free /\ ExpireSessions /\ UNCHANGED <<bvars, plan, tab>>

ClockTicks  == Tick /\ UNCHANGED <<bvars, plan, tab>>
CookiesLapse == Lapse /\ UNCHANGED <<svars, plan, tab>>

\* A page that is open goes with its process, and nothing is left to say of it.
EndOfProcess ==
  /\ "file" \in plan.calls /\ tab = NoTab
  /\ Crash
  /\ UNCHANGED <<bvars, plan, tab>>

Next ==
  \/ PageCalls \/ StateCalls \/ ManagerCalls \/ FileCalls \/ EndSave \/ AddTab \/ Browse
  \/ ServerAnswers \/ Expire \/ ClockTicks \/ CookiesLapse \/ EndOfProcess

\* Every request is answered or times out, a save that was begun ends, and time passes.  The
\* expiry task takes turns with the client at the manager's mutex, which is fair.
Fairness ==
  /\ WF_vars(ServerAnswers) /\ WF_vars(EndSave) /\ WF_vars(ClockTicks)
  /\ SF_vars(Expire)

Spec == Init /\ [][Next]_vars /\ Fairness

--------------------------------------------------------------------------------
\* Going back and forth moves in the history without changing it, whether the pages load or
\* not; a visit that succeeds forgets what was ahead, also when redirects led elsewhere; a
\* visit that fails changes nothing; and the address is always the one the history is at.
Browser == INSTANCE History WITH
  Nowhere <- NoUrl,
  back    <- SubSeq(page.history, 1, page.pos),
  here    <- page.url,
  ahead   <- SubSeq(page.history, page.pos + 2, Len(page.history))

ImplementsHistory == Browser!HistorySpec

\* Of all cookies stored under one name, domain and path the last one counts, unless it has
\* expired.
InEffect(cookies) ==
  {cookies[i] : i \in {i \in 1 .. Len(cookies) :
                         /\ IsCookie(cookies[i])
                         /\ \A j \in i + 1 .. Len(cookies) : ~SameCookie(cookies[i], cookies[j])}}

\* Every request, the ones that redirects and resources cause included, carries exactly the
\* cookies in effect for its address, the ones of the answer before it included.
CookiesSent ==
  [][nav' \notin {nav, NoNav}
       => nav'.sent = CookiesFor(InEffect(stored'), Address[nav'.url])]_vars

\* No call waits for ever, redirects or not, and a session that nobody uses is removed.
Progress ==
  /\ Busy ~> ~Busy
  /\ \A s \in SessionIds : []<>(s \notin sessions \/ age[s] = 0)
================================================================================

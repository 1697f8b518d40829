-------------------------------- MODULE Sessions -------------------------------
(***************************************************************************)
(* The sessions of the browser (04-browser, src/agent/session.rs) with the *)
(* pool of pages (page_pool.rs) and the resource accounting (resource.rs)  *)
(* of each.  All of it is behind one mutex in serve mode (main.rs): a      *)
(* call is a step, except that saving to disk truncates the file first and *)
(* writes it then, and the process can die in between.                     *)
(*                                                                         *)
(* Time is counted per session, in units the expiry task can tell apart:   *)
(* the age of a session is the time since it was used last, and stops at   *)
(* Timeout + 1.  The content of a page is not kept here.                   *)
(***************************************************************************)
EXTENDS Naturals, Sequences, FiniteSets

CONSTANTS
  SessionIds, PageIds,   \* the ids that Uuid::new_v4 can give out
  MaxPages, MaxMemory,   \* ResourceLimits
  Texts,                 \* the sizes of HTML texts, in MB
  Timeout,               \* session_timeout
  Places,                \* the addresses of a session's history
  MaxHistory             \* bound on that history

ASSUME LimitsAssumption ==
  /\ MaxPages \in Nat /\ MaxMemory \in Nat /\ Timeout \in Nat /\ MaxHistory \in Nat
  /\ Texts \subseteq Nat /\ IsFiniteSet(PageIds)

VARIABLES
  sessions,   \* the ids of the sessions of the manager
  used,       \* the session ids given out so far
  pool,       \* pool[s][p] is the entry of page p in session s, or Absent
  monitor,    \* monitor[s]: the pages and the memory in use, as the monitor counts them
  age,        \* the time since the last touch of a session
  history,    \* the history of a session
  disk,       \* the file: whole or cut off, and the histories in it
  saving,     \* save_to_disk has truncated the file and not yet written it
  forced      \* sessions whose set_page_state closed a page or revived a closed one

svars == <<sessions, used, pool, monitor, age, history, disk, saving, forced>>

Absent  == [state |-> "Absent", mb |-> 0]
States  == {"Loading", "Loaded", "Error", "Closed"}
Entries == [state : States, mb : Nat] \cup {Absent}
NoPages == [p \in PageIds |-> Absent]
NoUse   == [pages |-> 0, memory |-> 0]

Live(entry)  == entry.state \notin {"Absent", "Closed"}
\* page_ids and active_page_count
Active(s)    == {p \in PageIds : Live(pool[s][p])}

\* estimate_page_memory_mb for a text of m MB: two more for the script context.
Estimate(m) == m + 2
Expired(s)  == age[s] > Timeout
Minus(a, b) == IF a > b THEN a - b ELSE 0

SessionsInit ==
  /\ sessions = {} /\ used = {}
  /\ pool = [s \in SessionIds |-> NoPages]
  /\ monitor = [s \in SessionIds |-> NoUse]
  /\ age = [s \in SessionIds |-> 0]
  /\ history = [s \in SessionIds |-> << >>]
  /\ disk = [whole |-> FALSE, ids |-> {}, history |-> [s \in SessionIds |-> << >>]]
  /\ saving = FALSE /\ forced = {}

--------------------------------------------------------------------------------
(* Pages of a session.  Every call but set_page_state touches the session. *)

Touch(s) == age' = [age EXCEPT ![s] = 0]

\* check_page_limit, then check_memory_limit: what the new page will use is not counted.
Room(s) == monitor[s].pages < MaxPages /\ monitor[s].memory < MaxMemory

\* A new id is any that is not used yet; one is as good as another.
NewPageId(s) == CHOOSE p \in PageIds : pool[s][p] = Absent

Open(s, p, mb) ==
  /\ pool[s][p] = Absent
  /\ pool' = [pool EXCEPT ![s][p] = [state |-> "Loaded", mb |-> mb]]
  /\ monitor' = [monitor EXCEPT ![s] = [pages |-> @.pages + 1, memory |-> @.memory + mb]]

OpenPage(s, mb) ==
  /\ s \in sessions
  /\ Touch(s)
  /\ \/ ~Room(s) /\ UNCHANGED <<pool, monitor>>
     \/ Room(s) /\ Absent \in {pool[s][p] : p \in PageIds} /\ Open(s, NewPageId(s), mb)
  /\ UNCHANGED <<sessions, used, history, disk, saving, forced>>

\* create_page and add_page take the size of an empty page.
CreatePage(s)       == OpenPage(s, Estimate(0))
AddPage(s)          == OpenPage(s, Estimate(0))
LoadPageFromHtml(s) == \E m \in Texts : OpenPage(s, Estimate(m))

\* Mutant: the memory of an empty page is given back.
ReleaseEmpty(s, p) ==
  /\ pool' = [pool EXCEPT ![s][p].state = "Closed"]
  /\ monitor' = [monitor EXCEPT ![s] = [pages  |-> Minus(@.pages, 1),
                                        memory |-> Minus(@.memory, Estimate(0))]]

Release(s, p) ==
  /\ pool' = [pool EXCEPT ![s][p].state = "Closed"]
  /\ monitor' = [monitor EXCEPT ![s] = [pages  |-> Minus(@.pages, 1),
                                        memory |-> Minus(@.memory, pool[s][p].mb)]]

\* Mutant: a page that is closed already is closed again.
ClosePageTwice(s, p) ==
  /\ s \in sessions /\ pool[s][p] # Absent
  /\ Touch(s)
  /\ Release(s, p)
  /\ UNCHANGED <<sessions, used, history, disk, saving, forced>>

ClosePage(s, p) ==
  /\ s \in sessions
  /\ Touch(s)
  /\ \/ ~Live(pool[s][p]) /\ UNCHANGED <<pool, monitor>>
     \/ Live(pool[s][p]) /\ Release(s, p)
  /\ UNCHANGED <<sessions, used, history, disk, saving, forced>>

\* The pool is public: a state is set without any accounting.
SetPageState(s, p, state) ==
  /\ s \in sessions
  /\ pool[s][p] # Absent
  /\ pool' = [pool EXCEPT ![s][p].state = state]
  /\ forced' = IF Live(pool[s][p]) = (state # "Closed") THEN forced ELSE forced \cup {s}
  /\ UNCHANGED <<sessions, used, monitor, age, history, disk, saving>>

--------------------------------------------------------------------------------
(* The manager.                                                            *)

CreateSession(s) ==
  /\ s \notin used
  /\ sessions' = sessions \cup {s} /\ used' = used \cup {s}
  /\ pool' = [pool EXCEPT ![s] = NoPages]
  /\ monitor' = [monitor EXCEPT ![s] = NoUse]
  /\ history' = [history EXCEPT ![s] = << >>]
  /\ forced' = forced \ {s}
  /\ Touch(s)
  /\ UNCHANGED <<disk, saving>>

\* get_session_mut, and get_page_mut of the session.
UseSession(s) ==
  /\ s \in sessions
  /\ Touch(s)
  /\ UNCHANGED <<sessions, used, pool, monitor, history, disk, saving, forced>>

PushHistory(s, url) ==
  /\ s \in sessions /\ Len(history[s]) < MaxHistory
  /\ history' = [history EXCEPT ![s] = Append(@, url)]
  /\ Touch(s)
  /\ UNCHANGED <<sessions, used, pool, monitor, disk, saving, forced>>

Reset(f, ids, value) == [s \in SessionIds |-> IF s \in ids THEN value ELSE f[s]]

\* What a session kept goes with it.
Drop(gone) ==
  /\ sessions' = sessions \ gone
  /\ pool' = Reset(pool, gone, NoPages)
  /\ monitor' = Reset(monitor, gone, NoUse)
  /\ age' = Reset(age, gone, 0)
  /\ history' = Reset(history, gone, << >>)
  /\ forced' = forced \ gone

DeleteSession(s) == s \in sessions /\ Drop({s}) /\ UNCHANGED <<used, disk, saving>>

\* The expiry task of serve mode.
ExpireSessions ==
  /\ \E s \in sessions : Expired(s)
  /\ Drop({s \in sessions : Expired(s)})
  /\ UNCHANGED <<used, disk, saving>>

\* Time passes for every session.
Tick ==
  /\ \E s \in sessions : ~Expired(s)
  /\ age' = [s \in SessionIds |-> IF s \in sessions /\ ~Expired(s) THEN age[s] + 1 ELSE age[s]]
  /\ UNCHANGED <<sessions, used, pool, monitor, history, disk, saving, forced>>

--------------------------------------------------------------------------------
(* The file.                                                               *)

\* fs::write truncates the file ...
StartSave ==
  /\ saving' = TRUE
  /\ disk' = [disk EXCEPT !.whole = FALSE]
  /\ UNCHANGED <<sessions, used, pool, monitor, age, history, forced>>

\* ... and fills it.
FinishSave ==
  /\ saving /\ saving' = FALSE
  /\ disk' = [whole |-> TRUE, ids |-> sessions, history |-> history]
  /\ UNCHANGED <<sessions, used, pool, monitor, age, history, forced>>

\* A write that fails leaves the file cut off.
SaveFails ==
  /\ saving /\ saving' = FALSE
  /\ UNCHANGED <<sessions, used, pool, monitor, age, history, disk, forced>>

\* load_from_disk puts a new session in the place of each saved one, a live one included.
LoadFromDisk ==
  /\ disk.whole
  /\ sessions' = sessions \cup disk.ids
  /\ pool' = Reset(pool, disk.ids, NoPages)
  /\ monitor' = Reset(monitor, disk.ids, NoUse)
  /\ age' = Reset(age, disk.ids, 0)
  /\ history' = [s \in SessionIds |-> IF s \in disk.ids THEN disk.history[s] ELSE history[s]]
  /\ forced' = forced \ disk.ids
  /\ UNCHANGED <<used, disk, saving>>

\* The process dies, or has shut down; a new one starts with an empty manager.
Crash ==
  /\ Drop(sessions) /\ saving' = FALSE
  /\ UNCHANGED <<used, disk>>

--------------------------------------------------------------------------------
SessionCall(s) ==
  \/ CreatePage(s) \/ AddPage(s) \/ LoadPageFromHtml(s)
  \/ \E p \in PageIds : ClosePage(s, p) \/ \E state \in States : SetPageState(s, p, state)
  \/ CreateSession(s) \/ UseSession(s) \/ DeleteSession(s)
  \/ \E url \in Places : PushHistory(s, url)

SessionsNext ==
  \/ ~saving /\ \E s \in SessionIds : SessionCall(s)
  \/ ~saving /\ (ExpireSessions \/ StartSave \/ LoadFromDisk)
  \/ FinishSave \/ SaveFails \/ Tick \/ Crash

SessionsSpec == SessionsInit /\ [][SessionsNext]_svars

--------------------------------------------------------------------------------
(* What the pool promises.                                                 *)

Accounted(s) == s \in sessions \ forced

\* The monitor's page count is the number of pages that can be used, and it never passes
\* the limit, whatever is opened, closed twice, deleted, expired, saved and loaded again;
\* only set_page_state on a pool can upset it (page_pool.rs 129).
PagesCounted ==
  \A s \in SessionIds : Accounted(s) =>
    /\ monitor[s].pages = Cardinality(Active(s))
    /\ monitor[s].pages <= MaxPages

\* The sum of what w gives for the elements of S.
SumOver(w, S) ==
  LET sum[T \in SUBSET DOMAIN w] ==
        IF T = {} THEN 0 ELSE LET x == CHOOSE y \in T : TRUE IN w[x] + sum[T \ {x}]
  IN sum[S]
MemoryOf(s, pages) == SumOver([p \in PageIds |-> pool[s][p].mb], pages)

\* The monitor's memory is that of the pages in use, whatever is opened, closed, deleted,
\* expired, saved and loaded again.  Each page was let in below the limit, so the memory stays
\* less than one page above it: that it stays below it is MemoryLimited, which fails.
MemoryCounted ==
  \A s \in SessionIds : Accounted(s) =>
    /\ monitor[s].memory = MemoryOf(s, Active(s))
    /\ Active(s) # {} => \E p \in Active(s) : monitor[s].memory < MaxMemory + pool[s][p].mb

\* "Hard limits applied per-session" (resource.rs 7), "Memory stays under limit"
\* (docs/browser-design.md 162): opening a page never takes a session above its limit.  It
\* does, for check_memory_limit asks before the new page is counted (resource.rs 92).
MemoryLimited == \A s \in SessionIds : Accounted(s) => monitor[s].memory <= MaxMemory
================================================================================

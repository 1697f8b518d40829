-------------------------------- MODULE Browsing -------------------------------
(***************************************************************************)
(* A page of the browser (04-browser, src/agent/page.rs) that is navigated *)
(* and the fetch loop under it (src/net/http.rs), one step per request and *)
(* answer.  The server is the environment: an answer is a record [status,  *)
(* location, cookies], with status 0 for a failure or a timeout, which     *)
(* makes sure that one comes.                                              *)
(*                                                                         *)
(* Addresses that do not parse make a call return before it has changed    *)
(* anything, and are left out.                                             *)
(***************************************************************************)
EXTENDS Network

CONSTANTS
  Urls, Address,   \* the addresses, and Address[url] = [host, path, secure]
  MaxRedirects,
  NewPages,        \* pages as Page::new, from_html and from_html_with_url make them
  ResourceLists,   \* what find_resources may find
  MaxVisits, MaxStores   \* bounds on the history and on the cookies that are set

VARIABLES
  page,        \* [doc, url, history, pos, load]
  jar,         \* the page's cookies
  nav,         \* the call that is under way
  resources,   \* the resources of the page: [url, state]
  stored       \* every cookie that an answer set, in order

bvars == <<page, jar, nav, resources, stored>>

NoUrl == "none"
NoNav == [goal |-> "none", url |-> NoUrl, method |-> "GET", count |-> 0, sent |-> {}]
Busy  == nav # NoNav

PageFields == {"doc", "url", "history", "pos", "load"}

\* A new page has no address and no history, or it is on its only address.
ASSUME PagesAssumption ==
  /\ NoUrl \notin Urls
  /\ \A p \in NewPages :
       /\ DOMAIN p = PageFields /\ p.pos = 0
       /\ \/ p.history = << >> /\ p.url = NoUrl
          \/ p.url \in Urls /\ p.history = <<p.url>>

BrowsingInit == page \in NewPages /\ jar = {} /\ nav = NoNav /\ resources = << >> /\ stored = << >>

--------------------------------------------------------------------------------
(* Calls.                                                                  *)

Request(goal, url, method, count, cookies) ==
  [goal |-> goal, url |-> url, method |-> method, count |-> count,
   sent |-> CookiesFor(cookies, Address[url])]

Goto(url) ==
  /\ page.pos + 1 < MaxVisits
  /\ page' = [page EXCEPT !.load = "Loading"]
  /\ nav' = Request("goto", url, "GET", 0, jar)
  /\ UNCHANGED <<jar, resources, stored>>

Reload ==
  /\ page.url # NoUrl
  /\ nav' = Request("reload", page.url, "GET", 0, jar)
  /\ UNCHANGED <<page, jar, resources, stored>>

\* The position and the address move before the load, which may fail.
Move(pos) ==
  /\ page' = [page EXCEPT !.pos = pos, !.url = page.history[pos + 1]]
  /\ nav' = Request("reload", page.history[pos + 1], "GET", 0, jar)
  /\ UNCHANGED <<jar, resources, stored>>
GoBack    == page.pos > 0 /\ Move(page.pos - 1)
GoForward == page.pos + 1 < Len(page.history) /\ Move(page.pos + 1)

\* The client used without a page.
Post(url) ==
  /\ nav' = Request("post", url, "POST", 0, jar)
  /\ UNCHANGED <<page, jar, resources, stored>>

\* With the page's own jar; a caller may pass another one.
LoadResources(urls) ==
  /\ urls # << >>
  /\ resources' = [i \in 1 .. Len(urls) |->
                     [url |-> urls[i], state |-> IF i = 1 THEN "Loading" ELSE "Pending"]]
  /\ nav' = Request("resource", urls[1], "GET", 0, jar)
  /\ UNCHANGED <<page, jar, stored>>

--------------------------------------------------------------------------------
(* Answers.                                                                *)

\* Mutant: the pages ahead are kept.
VisitedKeeps(p, url) ==
  [p EXCEPT !.doc = url, !.url = url, !.history = Append(@, url), !.pos = Len(p.history),
            !.load = "Loaded"]

Visited(p, url) ==
  LET kept == SubSeq(p.history, 1, IF p.history = << >> THEN 0 ELSE p.pos + 1)
  IN [p EXCEPT !.doc = url, !.url = url, !.history = Append(kept, url), !.pos = Len(kept),
               !.load = "Loaded"]

Shown(p, url) == [p EXCEPT !.doc = url, !.load = "Loaded"]

NextResource(state, cookies) ==
  LET at   == SelectInSeq(resources, LAMBDA r : r.state = "Loading")
      done == [resources EXCEPT ![at].state = state]
  IN IF at = Len(resources) THEN resources' = done /\ nav' = NoNav
     ELSE /\ resources' = [done EXCEPT ![at + 1].state = "Loading"]
          /\ nav' = Request("resource", resources[at + 1].url, "GET", 0, cookies)

\* The call fails.  A page that goto() was called for stays in the state Loading.
Fail(cookies) ==
  /\ page' = page
  /\ IF nav.goal = "resource" THEN NextResource("Failed", cookies)
     ELSE nav' = NoNav /\ UNCHANGED resources

Succeed(cookies) ==
  /\ page' = CASE nav.goal = "goto"   -> Visited(page, nav.url)
               [] nav.goal = "reload" -> Shown(page, nav.url)
               [] OTHER               -> page
  /\ IF nav.goal = "resource" THEN NextResource("Loaded", cookies)
     ELSE nav' = NoNav /\ UNCHANGED resources

\* Mutant: redirects are not counted.
FollowUncounted(a, cookies) ==
  /\ nav' = Request(nav.goal, a.location, MethodAfter(nav.method, a.status), nav.count, cookies)
  /\ UNCHANGED <<page, resources>>

Follow(a, cookies) ==
  /\ nav' = Request(nav.goal, a.location, MethodAfter(nav.method, a.status), nav.count + 1, cookies)
  /\ UNCHANGED <<page, resources>>

\* The cookies are stored whatever becomes of the redirect.  "bad" is a location that does
\* not resolve; a redirect without one is the answer.
Answer(a) ==
  LET got     == Parsed(a.cookies, Address[nav.url])
      cookies == StoreAll(jar, got)
  IN /\ Busy
     /\ Len(stored) + Len(got) <= MaxStores
     /\ jar' = cookies /\ stored' = stored \o got
     /\ \/ a.status = 0 /\ Fail(cookies)
        \/ a.status \in Redirects /\ nav.count >= MaxRedirects /\ Fail(cookies)
        \/ /\ a.status \in Redirects /\ nav.count < MaxRedirects
           /\ \/ a.location = NoUrl /\ Succeed(cookies)
              \/ a.location = "bad" /\ Fail(cookies)
              \/ a.location \in Urls /\ Follow(a, cookies)
        \/ a.status \notin Redirects \cup {0} /\ Succeed(cookies)

\* Time passes: dated cookies expire.
Lapsed(c) == IF c.life = "dated" THEN [c EXCEPT !.life = "past"] ELSE c
Lapse ==
  /\ \E c \in jar : c.life = "dated"
  /\ jar' = {Lapsed(c) : c \in jar}
  /\ stored' = [i \in 1 .. Len(stored) |-> Lapsed(stored[i])]
  /\ UNCHANGED <<page, nav, resources>>

--------------------------------------------------------------------------------
Navigate ==
  \/ \E url \in Urls : Goto(url)
  \/ Reload \/ GoBack \/ GoForward

Fetch ==
  \/ \E url \in Urls : Post(url)
  \/ \E urls \in ResourceLists : LoadResources(urls)
================================================================================

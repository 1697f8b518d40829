---------------------------------- MODULE MCCdp --------------------------------
(***************************************************************************)
(* Instances of Cdp: two clients, and what they and the owner do.          *)
(***************************************************************************)
EXTENDS Cdp

R(to, method, what) == [to |-> to, method |-> method, what |-> what]
Call(method, what)  == R("owner", method, what)

Plan(cs, owner, maxCalls, requests, maxRequests, faults) ==
  [conns |-> cs, calls |-> owner, requests |-> requests, faults |-> faults,
   maxCalls |-> maxCalls, maxRequests |-> maxRequests]

Console ==
  Plan(Conns, {Call("attach", "")}, 2,
       {R("session", "enable", "Console"), R("session", "evaluate", "logs"),
        R("session", "evaluate", "throws")},
       2, {})
Attaching ==
  Plan(Conns, {Call("attach", "")}, 1,
       {R("browser", "attachToTarget", ""), R("browser", "detachFromTarget", ""),
        R("session", "getProperties", "")},
       2, {})
Others ==
  Plan({"c1"},
       {Call("createTarget", "u"), Call("attach", ""), Call("detach", ""),
        Call("evaluateInTarget", "logs"), Call("evaluateInSession", "throws")}, 2,
       {R("session", "enable", "Console"), R("session", "disable", "Console"),
        R("session", "enable", "Page"), R("session", "navigate", "u"),
        R("session", "callFunctionOn", "logs"), R("session", "evaluate", "loops"),
        R("session", "evaluate", "logs"),
        R("browser", "createTarget", "u"), R("browser", "getTargets", ""),
        R("stray", "evaluate", "quiet"), R("browser", "noise", "")},
       2, {"accept", "close", "break"})
PlansDef == {Console, Attaching, Others}
WordsDef ==
  UNION {{r.to, r.method, r.what} : r \in UNION {p.calls \cup p.requests : p \in PlansDef}}
  \cup {"about:blank"}
================================================================================

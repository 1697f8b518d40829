-------------------------------- MODULE KVStore --------------------------------
(***************************************************************************)
(* What the B-tree engine promises (02-database/src/btree.h): a map from   *)
(* keys to values, one call at a time.  An insertion or a deletion takes   *)
(* effect in one step between its call and its return; it may fail, and    *)
(* then it has had no effect.                                              *)
(***************************************************************************)
EXTENDS TLC, Functions

CONSTANTS Keys, Values

VARIABLES
  dict,    \* the map
  call,    \* the call in progress, or NoCall
  done,    \* whether the call in progress has taken effect
  ret      \* the answer of the last call

vars == <<call, done, ret, dict>>

NoCall == [op |-> "none"]

Init ==
  /\ dict = [k \in {} |-> 0]
  /\ call = NoCall
  /\ done = FALSE
  /\ ret = [status |-> "none"]

InvokeInsert(k, v) ==
  /\ call = NoCall
  /\ call' = [op |-> "insert", key |-> k, value |-> v]
  /\ done' = FALSE
  /\ UNCHANGED <<ret, dict>>

InvokeDelete(k) ==
  /\ call = NoCall
  /\ call' = [op |-> "delete", key |-> k]
  /\ done' = FALSE
  /\ UNCHANGED <<ret, dict>>

TakeEffect ==
  /\ call # NoCall /\ ~done
  /\ done' = TRUE
  /\ UNCHANGED <<call, ret>>
  /\ \/ /\ call.op = "insert" /\ call.key \notin DOMAIN dict
        /\ dict' = (call.key :> call.value) @@ dict
     \/ /\ call.op = "delete" /\ call.key \in DOMAIN dict
        /\ dict' = Restrict(dict, DOMAIN dict \ {call.key})

\* OK exactly when the call took effect; otherwise the answer says why not.
Answers ==
  IF done THEN {"OK"}
  ELSE {"ERR"} \cup
       (IF call.op = "insert"
        THEN {r \in {"EXISTS"} : call.key \in DOMAIN dict}
        ELSE {r \in {"NOTFOUND"} : call.key \notin DOMAIN dict})

Return ==
  /\ call # NoCall
  /\ call' = NoCall
  /\ \E r \in Answers : ret' = [status |-> r]
  /\ done' = FALSE
  /\ UNCHANGED dict

\* A search reads the map in one step.
Search(k) ==
  /\ call = NoCall
  /\ UNCHANGED <<call, done>>
  /\ ret' = IF k \in DOMAIN dict THEN [status |-> "OK", value |-> dict[k]]
            ELSE [status |-> "NOTFOUND"]
  /\ UNCHANGED dict

Next ==
  \/ \E k \in Keys, v \in Values : InvokeInsert(k, v)
  \/ \E k \in Keys : InvokeDelete(k) \/ Search(k)
  \/ TakeEffect
  \/ Return

Spec == Init /\ [][Next]_vars

================================================================================

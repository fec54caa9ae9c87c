--------------------------- MODULE WorkLifecycle ---------------------------
(***************************************************************************)
(* What the durable work ledger promises its users, whatever the clock,    *)
(* the claim order, the backoff and the crashes do: an item is submitted,  *)
(* attempted and released any number of times, and settles as succeeded or *)
(* blocked.  Only a new submission reopens a success, and a blocked item   *)
(* is reopened only by spending an administrative request that was never   *)
(* spent before.                                                           *)
(***************************************************************************)

CONSTANTS Items, Requests

VARIABLES status, spent

lifecycleVars == <<status, spent>>

Released == {"pending", "retry"}

Init == /\ status = [i \in Items |-> "absent"]
        /\ spent = {}

(* A producer asks for an item, or for a new generation of a finished one. *)
Submit(i) == /\ status[i] \in {"absent", "succeeded"}
             /\ status' = [status EXCEPT ![i] = "pending"]
             /\ UNCHANGED spent

Start(i) == /\ status[i] \in Released
            /\ status' = [status EXCEPT ![i] = "running"]
            /\ UNCHANGED spent

(* Attempts end without a verdict: deferred, failed for now, interrupted.  *)
Release(S, s) == /\ S # {} /\ \A i \in S : status[i] = "running"
                 /\ status' = [i \in Items |-> IF i \in S THEN s ELSE status[i]]
                 /\ UNCHANGED spent

Settle(i) == /\ status[i] = "running"
             /\ \E s \in {"succeeded", "blocked"} :
                   status' = [status EXCEPT ![i] = s]
             /\ UNCHANGED spent

(* An unspent request reopens the blocked item it names, or is rejected.   *)
Spend(r, i) == /\ r \notin spent
               /\ spent' = spent \cup {r}
               /\ status' = IF status[i] = "blocked"
                              THEN [status EXCEPT ![i] = "pending"]
                              ELSE status

Next == \/ \E i \in Items : Submit(i) \/ Start(i) \/ Settle(i)
        \/ \E S \in SUBSET Items, s \in Released : Release(S, s)
        \/ \E r \in Requests, i \in Items : Spend(r, i)

Spec == Init /\ [][Next]_lifecycleVars

=============================================================================

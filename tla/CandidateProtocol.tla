-------------------------- MODULE CandidateProtocol --------------------------
(***************************************************************************)
(* What the pipeline promises of each candidate commit: it passes the      *)
(* gates one at a time and in order; only past the last gate is a backup   *)
(* requested, and once; it is prepared only after that request; whatever   *)
(* concludes it, prepared or refused, concludes it for ever.               *)
(***************************************************************************)
EXTENDS Integers

CONSTANTS Candidates, NumGates

VARIABLES
  passed,     \* gates each candidate has passed, detection being gate 1
  requests,   \* backup requests sent for each candidate
  verdict     \* "none", "prepared" or "refused"

protocolVars == <<passed, requests, verdict>>

Init == /\ passed = [c \in Candidates |-> 0]
        /\ requests = [c \in Candidates |-> 0]
        /\ verdict = [c \in Candidates |-> "none"]

Pass(c) == /\ verdict[c] = "none" /\ passed[c] < NumGates
           /\ passed' = [passed EXCEPT ![c] = @ + 1]
           /\ UNCHANGED <<requests, verdict>>

Request(c) == /\ verdict[c] = "none" /\ passed[c] = NumGates /\ requests[c] = 0
              /\ requests' = [requests EXCEPT ![c] = 1]
              /\ UNCHANGED <<passed, verdict>>

Prepare(c) == /\ verdict[c] = "none" /\ requests[c] = 1
              /\ verdict' = [verdict EXCEPT ![c] = "prepared"]
              /\ UNCHANGED <<passed, requests>>

Refuse(c) == /\ verdict[c] = "none" /\ passed[c] > 0
             /\ verdict' = [verdict EXCEPT ![c] = "refused"]
             /\ UNCHANGED <<passed, requests>>

Next == \E c \in Candidates : Pass(c) \/ Request(c) \/ Prepare(c) \/ Refuse(c)

Spec == Init /\ [][Next]_protocolVars

=============================================================================

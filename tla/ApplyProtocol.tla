---------------------------- MODULE ApplyProtocol ----------------------------
(***************************************************************************)
(* What the journal of a controlled Apply promises: operations begin in    *)
(* plan order, one at a time, each only after all earlier ones are         *)
(* confirmed; an operation begins once; a halt is for ever; the restart is *)
(* released only after every operation is confirmed.                       *)
(***************************************************************************)
EXTENDS Integers

CONSTANT NumOps

VARIABLES confirmed, open, halted, released

protocolVars == <<confirmed, open, halted, released>>

Ops == 1..NumOps

Init == confirmed = {} /\ open = {} /\ halted = {} /\ released = FALSE

Begin(i) == /\ open = {} /\ halted = {}
            /\ i \notin confirmed /\ \A j \in 1..(i - 1) : j \in confirmed
            /\ open' = {i} /\ UNCHANGED <<confirmed, halted, released>>

Confirm(i) == /\ i \in open /\ open' = {} /\ confirmed' = confirmed \cup {i}
              /\ UNCHANGED <<halted, released>>

Halt(i) == /\ i \in open /\ open' = {} /\ halted' = {i}
           /\ UNCHANGED <<confirmed, released>>

Release == confirmed = Ops /\ released' = TRUE /\ UNCHANGED <<confirmed, open, halted>>

Next == Release \/ \E i \in Ops : Begin(i) \/ Confirm(i) \/ Halt(i)

Spec == Init /\ [][Next]_protocolVars

=============================================================================

----------------------------- MODULE MCOwnerLoop -----------------------------
(* Instances of OwnerLoop: one directory tree and the budgets.             *)
EXTENDS OwnerLoop, TLC

CONSTANTS root, a, b

None == [edits |-> 0, churn |-> FALSE, makes |-> 0, moves |-> 0, events |-> 0,
         drops |-> 0, faults |-> 0, failures |-> 0, timeouts |-> 0, requests |-> 0,
         signals |-> 0, restarts |-> 0]

MCParent == (a :> root) @@ (b :> a)

MCOneDir == (a :> root)

MCBudgets == {
  [None EXCEPT !.edits = 1, !.churn = TRUE, !.makes = 1, !.moves = 1],
  [None EXCEPT !.edits = 2, !.failures = 1, !.requests = 1],
  [None EXCEPT !.edits = 1, !.failures = 1, !.requests = 1, !.restarts = 1],
  [None EXCEPT !.edits = 1, !.faults = 2, !.requests = 2, !.timeouts = 1, !.signals = 1],
  [None EXCEPT !.events = 2, !.drops = 2, !.failures = 1, !.requests = 1],
  [None EXCEPT !.events = 1, !.drops = 1, !.faults = 1, !.timeouts = 1, !.signals = 1,
               !.restarts = 1]}

MCMoves == {[None EXCEPT !.makes = 2, !.moves = 1]}
MCStops == {[None EXCEPT !.faults = 1, !.signals = 1]}
=============================================================================

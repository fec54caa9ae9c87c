---- MODULE Surroundings ----
(* What happens to the service from outside is bounded: a behaviour draws  *)
(* a budget of edits, events, faults and signals, and every one spends it. *)
EXTENDS Naturals

CONSTANT Budgets   \* the budgets a behaviour may draw

VARIABLE left      \* what remains of it

Spend(kind) == left[kind] # 0 /\ left' = [left EXCEPT ![kind] = @ - 1]

====

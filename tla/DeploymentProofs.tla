-------------------------- MODULE DeploymentProofs --------------------------
(* Proofs about one deployment, for any attempts and shocks.               *)
EXTENDS Deployment, TLAPS

USE DeploymentAssumption

-----------------------------------------------------------------------------
(* The inductive invariant *)

(* The owner thread is in at most one stage, whose row is claimed, and     *)
(* each place belongs to the executor of its stage.                        *)
PlaceInv ==
  /\ held # "none" => work[held].status = "running"
  /\ held = "none" => step = "idle"
  /\ step \in {"send", "ack"} => held = "restart" /\ restart = "started"
  /\ step \in {"defer", "schedule"} => held = "core"
  /\ step \in Promoting => held = "promote"

(* As long as the request can still be sent, none was.                     *)
RestartInv ==
  /\ posts <= 1
  /\ restart = "none" \/ step = "send" => posts = 0

(* What had been recorded before stage s was scheduled.                    *)
Chain(s) ==
  /\ s # "restart" => restart = "acknowledged"
  /\ s \notin {"restart", "core"} => window = "completed"
  /\ s \notin {"restart", "core", "supervisor"} => records["supervisor"] = "good"
  /\ s \notin {"restart", "core", "supervisor", "integrations"} =>
       records["integrations"] = "good"
  /\ s \in Judged => \A p \in Judged : Position[p] < Position[s] => records[p] = "good"
  /\ s = "promote" => finalization = "none"
  /\ s = "rollback" => finalization \in Judged

(* What stage s has recorded when it is about to finish.                   *)
Done(s) ==
  /\ s = "restart" => restart = "acknowledged"
  /\ s = "core" => window = "completed"
  /\ s \in Probes => records[s] # "absent"
  /\ s = "finalize" => finalization # "absent"

AllGood == \A p \in Probes : records[p] = "good"

ChainInv ==
  /\ \A s \in Stages : work[s].status # "absent" => Chain(s)
  /\ step = "finish" => held # "none" /\ Done(held)
  /\ \A p \in Probes \ Judged : records[p] # "bad"
  /\ finalization # "absent" => restart = "acknowledged" /\ window = "completed"
  /\ finalization = "none" => AllGood

(* Whatever promotion does, it does on a passing verdict, and a ref that   *)
(* was once read with the candidate does not go back to what it was.       *)
VerdictInv ==
  /\ promotion # "absent" => finalization = "none"
  /\ refs.main = "candidate" \/ refs.tag = "candidate" => finalization = "none"
  /\ promotion = "completed" => refs.main # "baseline" /\ refs.tag = "candidate"
  /\ seen.main = "candidate" => refs.main # "baseline"
  /\ seen.tag = "candidate" => refs.tag = "candidate"
  /\ intent = "planned" => finalization \in Judged

(* Attempts beyond the maximum are paid by shocks; a row that nobody holds *)
(* and that can still be claimed has one left.                             *)
BudgetInv ==
  /\ \A s \in Stages : work[s].attempts <= MaxAttempts + shocks
  /\ \A s \in Stages : /\ work[s].status \in {"pending", "retry", "running"}
                       /\ held # s
                       => work[s].attempts < MaxAttempts + shocks

IInv == /\ TypeOK /\ OneStageOpen /\ PlaceInv /\ RestartInv /\ ChainInv
        /\ VerdictInv /\ BudgetInv
-----------------------------------------------------------------------------
(* The stages *)

LEMMA StageFacts ==
  /\ Stages = {"restart", "core", "supervisor", "integrations", "startup_errors", "resources",
               "entities", "automation_scripts", "assertions", "finalize", "promote", "rollback"}
  /\ Judged = {"startup_errors", "resources", "entities", "automation_scripts", "assertions"}
  /\ Probes = Judged \cup {"supervisor", "integrations"}
  <1>1. Stages = {"restart", "core", "supervisor", "integrations", "startup_errors", "resources",
               "entities", "automation_scripts", "assertions", "finalize", "promote", "rollback"}
    BY DEF Stages, Position
  <1>2. Judged = {"startup_errors", "resources", "entities", "automation_scripts", "assertions"}
    BY <1>1 DEF Judged, Position
  <1>3. Probes = Judged \cup {"supervisor", "integrations"}
    BY <1>1, <1>2 DEF Probes, Position
  <1> QED BY <1>1, <1>2, <1>3

(* A stage is scheduled only by a stage whose evidence completes its chain. *)
LEMMA SuccessorChain ==
  ASSUME TypeOK, ChainInv, NEW s \in Stages, NEW t \in Successor(s), Chain(s), Done(s)
  PROVE  t \in Stages /\ Chain(t)
  <1> USE StageFacts DEF Chain, Done, Successor, After, Position
  <1>t. /\ records \in [Probes -> {"absent", "good", "bad"}]
        /\ finalization \in {"absent", "none"} \cup Judged
    BY DEF TypeOK
  <1>1. \A p \in Probes \ Judged : records[p] # "bad"
    BY DEF ChainInv
  <1>2. finalization = "none" => AllGood
    BY DEF ChainInv
  <1>3. CASE s \in {"restart", "core"}
    BY <1>3
  <1>4. CASE s \in {"supervisor", "integrations"}
    BY <1>t, <1>1, <1>4
  <1>5. CASE s \in Judged
    <2>1. CASE s = "startup_errors"
      BY <1>t, <2>1
    <2>2. CASE s = "resources"
      BY <1>t, <2>2
    <2>3. CASE s = "entities"
      BY <1>t, <2>3
    <2>4. CASE s = "automation_scripts"
      BY <1>t, <2>4
    <2>5. CASE s = "assertions"
      BY <1>t, <2>5
    <2> QED BY <1>5, <2>1, <2>2, <2>3, <2>4, <2>5
  <1>6. CASE s = "finalize"
    BY <1>t, <1>6
  <1>7. CASE s \in {"promote", "rollback"}
    BY <1>7
  <1> QED BY <1>3, <1>4, <1>5, <1>6, <1>7

LEMMA InitIInv == Init => IInv
  <1> SUFFICES ASSUME Init PROVE IInv
    OBVIOUS
  <1> USE StageFacts
  <1>1. TypeOK
    <2>1. work \in [Stages -> Row]
      BY DEF Init, Row
    <2>2. held \in Stages \cup {"none"} /\ step \in Steps
      BY DEF Init, Steps
    <2>3. refs \in Refs /\ seen \in Refs
      BY DEF Init, Refs
    <2>4. records \in [Probes -> {"absent", "good", "bad"}]
      BY DEF Init
    <2>5. /\ restart = "none" /\ posts = 0 /\ window = "none" /\ elapsed = FALSE
          /\ target \in Targets /\ finalization = "absent" /\ promotion = "absent"
          /\ intent = "absent" /\ shocks \in 0..MaxShocks
      BY DEF Init
    <2> QED BY <2>1, <2>2, <2>3, <2>4, <2>5 DEF TypeOK
  <1>2. OneStageOpen
    BY DEF Init, OneStageOpen
  <1>3. PlaceInv /\ RestartInv
    BY DEF Init, PlaceInv, RestartInv, Promoting
  <1>4. ChainInv
    BY DEF Init, ChainInv, Chain, Done
  <1>5. VerdictInv /\ BudgetInv
    BY DEF Init, VerdictInv, BudgetInv
  <1> QED BY <1>1, <1>2, <1>3, <1>4, <1>5 DEF IInv
-----------------------------------------------------------------------------
(* Steps that change a row *)

Statuses == {"absent", "pending", "running", "retry", "succeeded", "blocked"}

(* What the properties need to know of a step that gives row s a new       *)
(* status and the thread a new place, and leaves all evidence alone.       *)
Rewrites(s, st, n) ==
  /\ work' \in [Stages -> Row]
  /\ work'[s].status = st /\ work'[s].attempts = n
  /\ \A t \in Stages \ {s} : work'[t] = work[t]

LEMMA Rewritten ==
  ASSUME TypeOK, NEW s \in Stages, NEW st \in Statuses, NEW n \in 0..(MaxAttempts + MaxShocks),
         \/ work' = [work EXCEPT ![s] = [status |-> st, attempts |-> n]]
         \/ work' = [work EXCEPT ![s].status = st, ![s].attempts = n]
         \/ n = work[s].attempts /\ work' = [work EXCEPT ![s].status = st]
  PROVE  Rewrites(s, st, n)
  <1>1. work \in [Stages -> Row] /\ [status |-> st, attempts |-> n] \in Row
    BY DEF TypeOK, Row, Statuses
  <1>2. work[s] = [status |-> work[s].status, attempts |-> work[s].attempts]
    BY <1>1 DEF Row
  <1>3. work' = [work EXCEPT ![s] = [status |-> st, attempts |-> n]]
    BY <1>1, <1>2 DEF Row
  <1> QED BY <1>1, <1>3 DEF Rewrites

LEMMA SameEvidence ==
  ASSUME IInv, UNCHANGED <<evidence, verdict>>, NEW s \in Stages, NEW st \in Statuses \ {"absent"},
         NEW n \in Nat, Rewrites(s, st, n), work[s].status \notin {"absent", "succeeded"},
         step' = "finish" => FALSE
  PROVE  ChainInv' /\ VerdictInv' /\ OneStageOpen'
  <1>1. ChainInv'
    <2>1. \A t \in Stages : Chain(t)' <=> Chain(t)
      BY DEF Chain, evidence
    <2>2. \A t \in Stages : work'[t].status # "absent" => work[t].status # "absent"
      BY DEF Rewrites
    <2> QED BY <2>1, <2>2 DEF IInv, ChainInv, AllGood, evidence
  <1>2. VerdictInv'
    BY DEF IInv, VerdictInv, evidence, verdict
  <1>3. OneStageOpen'
    BY DEF IInv, OneStageOpen, Rewrites
  <1> QED BY <1>1, <1>2, <1>3

LEMMA ClaimKeeps ==
  ASSUME IInv, NEW s \in Stages, Claim(s)
  PROVE  IInv'
  <1>t. /\ work \in [Stages -> Row] /\ shocks \in 0..MaxShocks /\ TypeOK
        /\ work[s].attempts \in Nat /\ work[s].attempts < MaxAttempts + shocks
    BY DEF IInv, TypeOK, BudgetInv, Row, Claim
  <1>c. /\ held = "none" /\ work[s].status \in {"pending", "retry", "running"}
        /\ held' = s /\ step' = "enter" /\ UNCHANGED <<evidence, verdict, shocks>>
    BY DEF Claim
  <1>1. Rewrites(s, "running", work[s].attempts + 1)
    <2>1. work[s].attempts + 1 \in 0..(MaxAttempts + MaxShocks) /\ "running" \in Statuses
      BY <1>t DEF Statuses
    <2>2. work' = [work EXCEPT ![s].status = "running", ![s].attempts = work[s].attempts + 1]
      BY <1>t DEF Claim
    <2> QED BY <1>t, <2>1, <2>2, Rewritten
  <1>2. TypeOK'
    BY <1>1, <1>c, StageFacts DEF IInv, TypeOK, Rewrites, Steps, evidence, verdict
  <1>3. ChainInv' /\ VerdictInv' /\ OneStageOpen'
    BY <1>1, <1>t, <1>c, SameEvidence DEF Statuses
  <1>4. PlaceInv' /\ RestartInv'
    BY <1>1, <1>t, <1>c, StageFacts DEF IInv, PlaceInv, RestartInv, Rewrites, evidence, Promoting
  <1>5. BudgetInv'
    <2>1. \A t \in Stages : work[t].attempts \in Nat
      BY <1>t DEF Row
    <2>2. /\ \A t \in Stages \ {s} : work'[t] = work[t]
          /\ work'[s].attempts = work[s].attempts + 1 /\ shocks' = shocks
      BY <1>1, <1>c DEF Rewrites
    <2>3. ASSUME NEW t \in Stages PROVE work'[t].attempts <= MaxAttempts + shocks'
      BY <1>t, <2>1, <2>2 DEF IInv, BudgetInv
    <2>4. ASSUME NEW t \in Stages, held' # t, work'[t].status \in {"pending", "retry", "running"}
          PROVE  work'[t].attempts < MaxAttempts + shocks'
      BY <1>t, <1>c, <2>2, <2>4, StageFacts DEF IInv, BudgetInv
    <2> QED BY <2>3, <2>4 DEF BudgetInv
  <1> QED BY <1>2, <1>3, <1>4, <1>5 DEF IInv

LEMMA FailKeeps ==
  ASSUME IInv, NEW s \in Stages, NEW transient \in BOOLEAN, Fail(s, transient)
  PROVE  IInv'
  <1> DEFINE st == IF transient /\ work[s].attempts < MaxAttempts THEN "retry" ELSE "blocked"
  <1>t. /\ work \in [Stages -> Row] /\ shocks \in 0..MaxShocks /\ TypeOK
        /\ \A t \in Stages : work[t].attempts \in Nat
        /\ work[s].attempts \in 0..(MaxAttempts + MaxShocks)
    BY DEF IInv, TypeOK, Row
  <1>c. /\ held = s /\ work[s].status = "running" /\ held' = "none" /\ step' = "idle"
        /\ work' = [work EXCEPT ![s].status = st]
        /\ UNCHANGED <<evidence, verdict, shocks>>
    BY StageFacts DEF Fail, Release, IInv, PlaceInv
  <1>1. Rewrites(s, st, work[s].attempts) /\ st \in Statuses \ {"absent"}
    BY <1>t, <1>c, Rewritten DEF Statuses
  <1>2. TypeOK'
    BY <1>1, <1>c, StageFacts DEF IInv, TypeOK, Rewrites, Steps, evidence, verdict
  <1>3. ChainInv' /\ VerdictInv' /\ OneStageOpen'
    BY <1>1, <1>t, <1>c, SameEvidence
  <1>4. PlaceInv' /\ RestartInv'
    BY <1>c DEF IInv, PlaceInv, RestartInv, evidence, Promoting
  <1>5. BudgetInv'
    BY <1>1, <1>t, <1>c DEF IInv, BudgetInv, Rewrites
  <1> QED BY <1>2, <1>3, <1>4, <1>5 DEF IInv

LEMMA RescheduleKeeps ==
  ASSUME IInv, Reschedule
  PROVE  IInv'
  <1> DEFINE st == IF step = "defer" THEN "pending" ELSE "retry"
  <1>t. /\ work \in [Stages -> Row] /\ shocks \in 0..MaxShocks /\ TypeOK
        /\ \A t \in Stages : work[t].attempts \in Nat
        /\ "core" \in Stages
    BY StageFacts DEF IInv, TypeOK, Row
  <1>c. /\ held = "core" /\ work["core"].status = "running" /\ held' = "none" /\ step' = "idle"
        /\ work' = [work EXCEPT !["core"] = [status |-> st, attempts |-> 0]]
        /\ UNCHANGED <<evidence, verdict, shocks>>
    BY StageFacts DEF Reschedule, At, Release, IInv, PlaceInv
  <1>1. Rewrites("core", st, 0) /\ st \in Statuses \ {"absent"}
    <2>1. 0 \in 0..(MaxAttempts + MaxShocks) /\ st \in Statuses \ {"absent"}
      BY DEF Statuses
    <2> HIDE DEF st
    <2> QED BY <1>t, <1>c, <2>1, Rewritten
  <1>2. TypeOK'
    BY <1>1, <1>c, StageFacts DEF IInv, TypeOK, Rewrites, Steps, evidence, verdict
  <1>3. ChainInv' /\ VerdictInv' /\ OneStageOpen'
    BY <1>1, <1>t, <1>c, SameEvidence
  <1>4. PlaceInv' /\ RestartInv'
    BY <1>c DEF IInv, PlaceInv, RestartInv, evidence, Promoting
  <1>5. BudgetInv'
    BY <1>1, <1>t, <1>c DEF IInv, BudgetInv, Rewrites
  <1> QED BY <1>2, <1>3, <1>4, <1>5 DEF IInv

LEMMA RetryKeeps ==
  ASSUME IInv, NEW s \in Stages, AdministrativeRetry(s)
  PROVE  IInv'
  <1>t. /\ work \in [Stages -> Row] /\ shocks \in 0..MaxShocks /\ TypeOK
        /\ \A t \in Stages : work[t].attempts \in Nat
    BY DEF IInv, TypeOK, Row
  <1>c. /\ held = "none" /\ step = "idle" /\ work[s].status = "blocked"
        /\ work' = [work EXCEPT ![s] = [status |-> "pending", attempts |-> 0]]
        /\ shocks' = shocks + 1 /\ shocks' \in 0..MaxShocks
        /\ UNCHANGED <<held, step, evidence, verdict>>
    BY <1>t DEF AdministrativeRetry, Shock, IInv, PlaceInv
  <1>1. Rewrites(s, "pending", 0) /\ "pending" \in Statuses \ {"absent"}
    <2>1. 0 \in 0..(MaxAttempts + MaxShocks) /\ "pending" \in Statuses \ {"absent"}
      BY DEF Statuses
    <2> QED BY <1>t, <1>c, <2>1, Rewritten
  <1>2. TypeOK'
    BY <1>1, <1>c, StageFacts DEF IInv, TypeOK, Rewrites, Steps, evidence, verdict
  <1>3. ChainInv' /\ VerdictInv' /\ OneStageOpen'
    BY <1>1, <1>t, <1>c, SameEvidence
  <1>4. PlaceInv' /\ RestartInv'
    BY <1>c DEF IInv, PlaceInv, RestartInv, evidence
  <1>5. BudgetInv'
    BY <1>1, <1>t, <1>c DEF IInv, BudgetInv, Rewrites
  <1> QED BY <1>2, <1>3, <1>4, <1>5 DEF IInv

LEMMA CrashKeeps ==
  ASSUME IInv, Crash
  PROVE  IInv'
  <1>t. /\ work \in [Stages -> Row] /\ shocks \in 0..MaxShocks
        /\ \A t \in Stages : work[t].attempts \in Nat
    BY DEF IInv, TypeOK, Row
  <1>c. /\ held' = "none" /\ step' = "idle" /\ UNCHANGED <<work, evidence, verdict>>
        /\ shocks' = shocks + 1 /\ shocks' \in 0..MaxShocks
    BY <1>t DEF Crash, Shock, Release
  <1>2. TypeOK'
    BY <1>c, StageFacts DEF IInv, TypeOK, Steps, evidence, verdict
  <1>3. ChainInv' /\ VerdictInv' /\ OneStageOpen'
    <2>1. \A s \in Stages : Chain(s)' <=> Chain(s)
      BY <1>c DEF Chain, evidence
    <2> QED BY <1>c, <2>1
            DEF IInv, ChainInv, VerdictInv, OneStageOpen, AllGood, evidence, verdict
  <1>4. PlaceInv' /\ RestartInv'
    BY <1>c DEF IInv, PlaceInv, RestartInv, evidence, Promoting
  <1>5. BudgetInv'
    BY <1>t, <1>c DEF IInv, BudgetInv
  <1> QED BY <1>2, <1>3, <1>4, <1>5 DEF IInv

(* One row at most is open, and it is the one that finishes: its successor *)
(* becomes the open one.                                                   *)
LEMMA FinishKeeps ==
  ASSUME IInv, NEW s \in Stages, Finish(s)
  PROVE  IInv'
  <1>t. /\ work \in [Stages -> Row] /\ shocks \in 0..MaxShocks /\ TypeOK
        /\ \A t \in Stages : work[t].attempts \in Nat
    BY DEF IInv, TypeOK, Row
  <1>c. /\ held = s /\ step = "finish" /\ work[s].status = "running" /\ Done(s)
        /\ held' = "none" /\ step' = "idle"
        /\ UNCHANGED <<evidence, verdict, shocks>>
    BY StageFacts DEF Finish, At, Release, IInv, PlaceInv, ChainInv
  <1>s. /\ Successor(s) \subseteq Stages /\ s \notin Successor(s)
        /\ \A t, u \in Successor(s) : t = u
        /\ \A t \in Successor(s) : Chain(t)
    <2>1. Chain(s)
      BY <1>c DEF IInv, ChainInv
    <2>2. \A t \in Successor(s) : t \in Stages /\ Chain(t)
      BY <1>c, <2>1, SuccessorChain DEF IInv
    <2>3. /\ s \notin Successor(s)
          /\ \A t, u \in Successor(s) : t = u
      BY StageFacts DEF Successor, After
    <2> QED BY <2>2, <2>3
  <1>w. \A t \in Stages :
          work'[t] = IF t \in Successor(s) THEN [status |-> "pending", attempts |-> 0]
                     ELSE IF t = s THEN [status |-> "succeeded", attempts |-> 0]
                     ELSE work[t]
    BY DEF Finish
  <1>r. work' \in [Stages -> Row]
    <2>1. /\ [status |-> "pending", attempts |-> 0] \in Row
          /\ [status |-> "succeeded", attempts |-> 0] \in Row
      BY DEF Row
    <2> QED BY <1>t, <2>1 DEF Finish
  <1>2. TypeOK'
    BY <1>r, <1>c, StageFacts DEF IInv, TypeOK, Steps, evidence, verdict
  <1>3. ChainInv'
    <2>1. \A t \in Stages : Chain(t)' <=> Chain(t)
      BY <1>c DEF Chain, evidence
    <2>2. \A t \in Stages : work'[t].status # "absent" => Chain(t)
      BY <1>w, <1>s, <1>c DEF IInv, ChainInv
    <2> QED BY <1>c, <2>1, <2>2 DEF IInv, ChainInv, AllGood, evidence
  <1>4. VerdictInv' /\ PlaceInv' /\ RestartInv'
    BY <1>c DEF IInv, VerdictInv, PlaceInv, RestartInv, evidence, verdict, Promoting
  <1>5. OneStageOpen'
    <2>1. \A t \in Stages : work'[t].status \notin {"absent", "succeeded"} => t \in Successor(s)
      BY <1>w, <1>c DEF IInv, OneStageOpen
    <2> QED BY <2>1, <1>s DEF OneStageOpen
  <1>6. BudgetInv'
    <2>1. \A t \in Stages : work'[t].attempts = 0 \/ work'[t] = work[t]
      BY <1>w
    <2>2. \A t \in Stages : work'[t].status \in {"pending", "retry", "running"} =>
            work'[t].attempts = 0
      <3>1. \A t \in Stages : work'[t].status \in {"pending", "retry", "running"} =>
              t \in Successor(s)
        BY <1>w, <1>c DEF IInv, OneStageOpen
      <3> QED BY <1>w, <3>1
    <2>3. 0 < MaxAttempts + shocks' /\ shocks' = shocks
      BY <1>t, <1>c
    <2>4. \A t \in Stages : work[t].attempts <= MaxAttempts + shocks
      BY DEF IInv, BudgetInv
    <2>5. \A t \in Stages : work'[t].attempts <= MaxAttempts + shocks'
      BY <1>t, <2>1, <2>3, <2>4
    <2>6. \A t \in Stages : work'[t].status \in {"pending", "retry", "running"} =>
            work'[t].attempts < MaxAttempts + shocks'
      BY <1>t, <2>2, <2>3
    <2> QED BY <2>5, <2>6 DEF BudgetInv
  <1> QED BY <1>2, <1>3, <1>4, <1>5, <1>6 DEF IInv

-----------------------------------------------------------------------------
(* Steps that record evidence *)

(* Evidence is only ever added.                                            *)
Grows ==
  /\ restart = "acknowledged" => restart' = "acknowledged"
  /\ window = "completed" => window' = "completed"
  /\ \A p \in Probes : records[p] = "good" => records'[p] = "good"
  /\ finalization # "absent" => finalization' = finalization

LEMMA GrowthKeepsChains ==
  ASSUME IInv, Grows
  PROVE  /\ \A s \in Stages : Chain(s) => Chain(s)'
         /\ AllGood => AllGood'
  BY StageFacts DEF Grows, Chain, AllGood, Position

(* The rows, the verdict and the bound are left alone.                     *)
LEMMA EvidenceKeeps ==
  ASSUME IInv, Grows, UNCHANGED <<work, held, verdict, shocks>>
  PROVE  /\ OneStageOpen' /\ BudgetInv'
         /\ \A s \in Stages : work'[s].status # "absent" => Chain(s)'
         /\ VerdictInv'
  <1>1. OneStageOpen' /\ BudgetInv'
    BY DEF IInv, OneStageOpen, BudgetInv
  <1>2. \A s \in Stages : work'[s].status # "absent" => Chain(s)'
    BY GrowthKeepsChains DEF IInv, ChainInv
  <1>3. VerdictInv'
    BY StageFacts DEF IInv, VerdictInv, verdict, Grows
  <1> QED BY <1>1, <1>2, <1>3

LEMMA JournalRestartKeeps ==
  ASSUME IInv, JournalRestart
  PROVE  IInv'
  <1>c. UNCHANGED <<work, held, verdict, shocks>>
    BY DEF JournalRestart, At, Go
  <1>1. Grows
    BY <1>c DEF JournalRestart, At, Grows, IInv, TypeOK
  <1>2. TypeOK'
    BY <1>c, StageFacts DEF JournalRestart, At, Go, IInv, TypeOK, Steps, verdict
  <1>3. OneStageOpen' /\ BudgetInv' /\ VerdictInv'
    BY <1>c, <1>1, EvidenceKeeps
  <1>4. PlaceInv' /\ RestartInv'
    BY <1>c, StageFacts DEF JournalRestart, At, Go, IInv, PlaceInv, RestartInv, Promoting
  <1>5. ChainInv'
    <2>1. \A s \in Stages : work'[s].status # "absent" => Chain(s)'
      BY <1>c, <1>1, EvidenceKeeps
    <2>2. step' = "finish" => held' # "none" /\ Done(held)'
      BY <1>c, StageFacts DEF JournalRestart, At, Go, Done, IInv, ChainInv
    <2>3. /\ \A p \in Probes \ Judged : records'[p] # "bad"
          /\ finalization' # "absent" => restart' = "acknowledged" /\ window' = "completed"
          /\ finalization' = "none" => AllGood'
      BY <1>c, <1>1 DEF JournalRestart, At, IInv, ChainInv, AllGood, Grows
    <2> QED BY <2>1, <2>2, <2>3 DEF ChainInv
  <1> QED BY <1>2, <1>3, <1>4, <1>5 DEF IInv

LEMMA SendRestartKeeps ==
  ASSUME IInv, SendRestart
  PROVE  IInv'
  <1>c. UNCHANGED <<work, held, verdict, shocks>>
    BY DEF SendRestart, At, Go
  <1>1. Grows
    BY <1>c DEF SendRestart, At, Grows, IInv, TypeOK
  <1>2. TypeOK'
    BY <1>c, StageFacts DEF SendRestart, At, Go, IInv, TypeOK, Steps, verdict
  <1>3. OneStageOpen' /\ BudgetInv' /\ VerdictInv'
    BY <1>c, <1>1, EvidenceKeeps
  <1>4. PlaceInv' /\ RestartInv'
    BY <1>c, StageFacts DEF SendRestart, At, Go, IInv, PlaceInv, RestartInv, Promoting
  <1>5. ChainInv'
    <2>1. \A s \in Stages : work'[s].status # "absent" => Chain(s)'
      BY <1>c, <1>1, EvidenceKeeps
    <2>2. step' = "finish" => held' # "none" /\ Done(held)'
      BY <1>c, StageFacts DEF SendRestart, At, Go, Done, IInv, ChainInv
    <2>3. /\ \A p \in Probes \ Judged : records'[p] # "bad"
          /\ finalization' # "absent" => restart' = "acknowledged" /\ window' = "completed"
          /\ finalization' = "none" => AllGood'
      BY <1>c, <1>1 DEF SendRestart, At, IInv, ChainInv, AllGood, Grows
    <2> QED BY <2>1, <2>2, <2>3 DEF ChainInv
  <1> QED BY <1>2, <1>3, <1>4, <1>5 DEF IInv

LEMMA AcknowledgeRestartKeeps ==
  ASSUME IInv, AcknowledgeRestart
  PROVE  IInv'
  <1>c. UNCHANGED <<work, held, verdict, shocks>>
    BY DEF AcknowledgeRestart, At, Go
  <1>1. Grows
    BY <1>c DEF AcknowledgeRestart, At, Grows, IInv, TypeOK
  <1>2. TypeOK'
    BY <1>c, StageFacts DEF AcknowledgeRestart, At, Go, IInv, TypeOK, Steps, verdict
  <1>3. OneStageOpen' /\ BudgetInv' /\ VerdictInv'
    BY <1>c, <1>1, EvidenceKeeps
  <1>4. PlaceInv' /\ RestartInv'
    BY <1>c, StageFacts DEF AcknowledgeRestart, At, Go, IInv, PlaceInv, RestartInv, Promoting
  <1>5. ChainInv'
    <2>1. \A s \in Stages : work'[s].status # "absent" => Chain(s)'
      BY <1>c, <1>1, EvidenceKeeps
    <2>2. step' = "finish" => held' # "none" /\ Done(held)'
      BY <1>c, StageFacts DEF AcknowledgeRestart, At, Go, Done, IInv, ChainInv
    <2>3. /\ \A p \in Probes \ Judged : records'[p] # "bad"
          /\ finalization' # "absent" => restart' = "acknowledged" /\ window' = "completed"
          /\ finalization' = "none" => AllGood'
      BY <1>c, <1>1 DEF AcknowledgeRestart, At, IInv, ChainInv, AllGood, Grows
    <2> QED BY <2>1, <2>2, <2>3 DEF ChainInv
  <1> QED BY <1>2, <1>3, <1>4, <1>5 DEF IInv

LEMMA ReplayRestartKeeps ==
  ASSUME IInv, ReplayRestart
  PROVE  IInv'
  <1>c. UNCHANGED <<work, held, verdict, shocks>>
    BY DEF ReplayRestart, evidence, At, Go
  <1>1. Grows
    BY <1>c DEF ReplayRestart, evidence, At, Grows, IInv, TypeOK
  <1>2. TypeOK'
    BY <1>c, StageFacts DEF ReplayRestart, evidence, At, Go, IInv, TypeOK, Steps, verdict
  <1>3. OneStageOpen' /\ BudgetInv' /\ VerdictInv'
    BY <1>c, <1>1, EvidenceKeeps
  <1>4. PlaceInv' /\ RestartInv'
    BY <1>c, StageFacts DEF ReplayRestart, evidence, At, Go, IInv, PlaceInv, RestartInv, Promoting
  <1>5. ChainInv'
    <2>1. \A s \in Stages : work'[s].status # "absent" => Chain(s)'
      BY <1>c, <1>1, EvidenceKeeps
    <2>2. step' = "finish" => held' # "none" /\ Done(held)'
      BY <1>c, StageFacts DEF ReplayRestart, evidence, At, Go, Done, IInv, ChainInv
    <2>3. /\ \A p \in Probes \ Judged : records'[p] # "bad"
          /\ finalization' # "absent" => restart' = "acknowledged" /\ window' = "completed"
          /\ finalization' = "none" => AllGood'
      BY <1>c, <1>1 DEF ReplayRestart, evidence, At, IInv, ChainInv, AllGood, Grows
    <2> QED BY <2>1, <2>2, <2>3 DEF ChainInv
  <1> QED BY <1>2, <1>3, <1>4, <1>5 DEF IInv

(* A completed window stays completed, and only a completed one finishes.  *)
LEMMA WindowKeeps ==
  ASSUME IInv, NEW w \in {"initial", "started", "completed"},
         NEW q \in {"defer", "schedule", "finish"}, SetWindow(w, q), At("core", "enter"),
         window = "completed" => w = "completed", q = "finish" => w = "completed"
  PROVE  IInv'
  <1>c. UNCHANGED <<work, held, verdict, shocks>>
    BY DEF SetWindow, At, Go
  <1>1. Grows
    BY <1>c DEF SetWindow, At, Grows, IInv, TypeOK
  <1>2. TypeOK'
    BY <1>c, StageFacts DEF SetWindow, At, Go, IInv, TypeOK, Steps, verdict
  <1>3. OneStageOpen' /\ BudgetInv' /\ VerdictInv'
    BY <1>c, <1>1, EvidenceKeeps
  <1>4. PlaceInv' /\ RestartInv'
    BY <1>c, StageFacts DEF SetWindow, At, Go, IInv, PlaceInv, RestartInv, Promoting
  <1>5. ChainInv'
    <2>1. \A s \in Stages : work'[s].status # "absent" => Chain(s)'
      BY <1>c, <1>1, EvidenceKeeps
    <2>2. step' = "finish" => held' # "none" /\ Done(held)'
      BY <1>c, StageFacts DEF SetWindow, At, Go, Done, IInv, ChainInv
    <2>3. /\ \A p \in Probes \ Judged : records'[p] # "bad"
          /\ finalization' # "absent" => restart' = "acknowledged" /\ window' = "completed"
          /\ finalization' = "none" => AllGood'
      BY <1>c, <1>1 DEF SetWindow, At, IInv, ChainInv, AllGood, Grows
    <2> QED BY <2>1, <2>2, <2>3 DEF ChainInv
  <1> QED BY <1>2, <1>3, <1>4, <1>5 DEF IInv

(* A probe that cannot fail records nothing bad.                           *)
LEMMA RecordKeeps ==
  ASSUME IInv, NEW s \in Probes, NEW outcomes, outcomes \subseteq {"good", "bad"},
         s \notin Judged => outcomes = {"good"}, RecordOnce(s, outcomes)
  PROVE  IInv'
  <1>t. records \in [Probes -> {"absent", "good", "bad"}]
    BY DEF IInv, TypeOK
  <1>c. /\ UNCHANGED <<work, held, restart, posts, window, elapsed, target, finalization,
                       verdict, shocks>>
        /\ held = s /\ step = "enter" /\ step' = "finish"
    BY DEF RecordOnce, At, Go
  <1>r. /\ records' \in [Probes -> {"absent", "good", "bad"}]
        /\ records'[s] # "absent"
        /\ s \notin Judged => records'[s] # "bad"
        /\ \A p \in Probes : records[p] # "absent" \/ p # s => records'[p] = records[p]
    <2>1. CASE records[s] = "absent"
      BY <1>t, <2>1 DEF RecordOnce
    <2>2. CASE records[s] # "absent"
      BY <1>t, <2>2 DEF RecordOnce, IInv, ChainInv
    <2> QED BY <2>1, <2>2
  <1>1. Grows
    BY <1>c, <1>r DEF Grows
  <1>2. TypeOK'
    BY <1>c, <1>r, StageFacts DEF IInv, TypeOK, Steps, verdict
  <1>3. OneStageOpen' /\ BudgetInv' /\ VerdictInv'
    BY <1>c, <1>1, EvidenceKeeps
  <1>4. PlaceInv' /\ RestartInv'
    BY <1>c, StageFacts DEF IInv, PlaceInv, RestartInv, Promoting
  <1>5. ChainInv'
    <2>1. \A t \in Stages : work'[t].status # "absent" => Chain(t)'
      BY <1>c, <1>1, EvidenceKeeps
    <2>2. held' # "none" /\ Done(held)'
      <3>1. held' = s /\ s \notin {"none", "restart", "core", "finalize"}
        BY <1>c, StageFacts
      <3> QED BY <1>r, <3>1 DEF Done
    <2>3. \A p \in Probes \ Judged : records'[p] # "bad"
      BY <1>r DEF IInv, ChainInv
    <2>4. /\ finalization' # "absent" => restart' = "acknowledged" /\ window' = "completed"
          /\ finalization' = "none" => AllGood'
      BY <1>c, <1>1, GrowthKeepsChains DEF IInv, ChainInv
    <2> QED BY <2>1, <2>2, <2>3, <2>4 DEF ChainInv
  <1> QED BY <1>2, <1>3, <1>4, <1>5 DEF IInv

(* The verdict passes only over good records: the finalization was         *)
(* scheduled behind those that it does not judge itself.                   *)
LEMMA DecideKeeps ==
  ASSUME IInv, Decide
  PROVE  IInv'
  <1>t. /\ records \in [Probes -> {"absent", "good", "bad"}]
        /\ finalization \in {"absent", "none"} \cup Judged
    BY DEF IInv, TypeOK
  <1>c. /\ UNCHANGED <<work, held, restart, posts, window, elapsed, target, records,
                       verdict, shocks>>
        /\ held = "finalize" /\ step' = "finish"
    BY DEF Decide, At, Go
  <1>f. /\ finalization' \in {"none"} \cup Judged
        /\ finalization # "absent" => finalization' = finalization
        /\ finalization' = "none" => Passes
    BY <1>t, StageFacts DEF Decide
  <1>h. Chain("finalize")
    BY <1>c, StageFacts DEF IInv, PlaceInv, ChainInv
  <1>1. Grows
    BY <1>c, <1>f DEF Grows
  <1>2. TypeOK'
    BY <1>c, <1>f, StageFacts DEF IInv, TypeOK, Steps, verdict
  <1>3. OneStageOpen' /\ BudgetInv' /\ VerdictInv'
    BY <1>c, <1>1, EvidenceKeeps
  <1>4. PlaceInv' /\ RestartInv'
    BY <1>c DEF IInv, PlaceInv, RestartInv, Promoting
  <1>5. ChainInv'
    <2>1. \A t \in Stages : work'[t].status # "absent" => Chain(t)'
      BY <1>c, <1>1, EvidenceKeeps
    <2>2. held' # "none" /\ Done(held)'
      BY <1>c, <1>f, StageFacts DEF Done
    <2>3. /\ \A p \in Probes \ Judged : records'[p] # "bad"
          /\ restart' = "acknowledged" /\ window' = "completed"
      BY <1>c, <1>h DEF IInv, ChainInv, Chain
    <2>4. finalization' = "none" => AllGood'
      BY <1>c, <1>f, <1>h, StageFacts DEF Chain, Passes, AllGood
    <2> QED BY <2>1, <2>2, <2>3, <2>4 DEF ChainInv
  <1> QED BY <1>2, <1>3, <1>4, <1>5 DEF IInv

LEMMA ElapseKeeps ==
  ASSUME IInv, Elapse
  PROVE  IInv'
  <1>c. UNCHANGED <<work, held, step, restart, posts, window, target, records, finalization,
                    verdict, shocks>> /\ elapsed' = TRUE
    BY DEF Elapse
  <1>1. TypeOK'
    BY <1>c, StageFacts DEF IInv, TypeOK, verdict
  <1>2. OneStageOpen' /\ PlaceInv' /\ RestartInv' /\ VerdictInv' /\ BudgetInv'
    BY <1>c DEF IInv, OneStageOpen, PlaceInv, RestartInv, VerdictInv, BudgetInv, verdict
  <1>3. ChainInv'
    BY <1>c DEF IInv, ChainInv, Chain, Done, AllGood
  <1> QED BY <1>1, <1>2, <1>3 DEF IInv

-----------------------------------------------------------------------------
(* Steps towards the verdict *)

(* Rows and evidence are left alone.                                       *)
LEMMA VerdictKeeps ==
  ASSUME IInv, UNCHANGED <<work, held, evidence>>, VerdictInv',
         promotion' \in {"absent", "planned", "completed", "blocked"},
         refs' \in Refs, seen' \in Refs, intent' \in {"absent", "planned"},
         \/ step' \in {"idle"} \cup Promoting /\ held = "promote"
              /\ UNCHANGED shocks
         \/ step' = "finish" /\ held \in {"promote", "rollback"} /\ UNCHANGED shocks
         \/ step' = step /\ shocks' = shocks + 1 /\ shocks < MaxShocks
  PROVE  IInv'
  <1>1. TypeOK'
    BY StageFacts DEF IInv, TypeOK, Steps, evidence
  <1>2. OneStageOpen' /\ PlaceInv' /\ RestartInv'
    BY DEF IInv, OneStageOpen, PlaceInv, RestartInv, evidence, Promoting
  <1>3. BudgetInv'
    <2>1. \A s \in Stages : work[s].attempts \in Nat
      BY DEF IInv, TypeOK, Row
    <2>2. shocks \in Nat /\ shocks' \in Nat /\ shocks <= shocks'
      BY DEF IInv, TypeOK
    <2> QED BY <2>1, <2>2 DEF IInv, BudgetInv
  <1>4. ChainInv'
    <2>1. \A s \in Stages : /\ Chain(s)' <=> Chain(s)
                            /\ Done(s)' <=> Done(s)
      BY DEF Chain, Done, evidence
    <2>2. step' = "finish" => held' # "none" /\ Done(held)'
      <3>1. CASE step' = "finish" /\ held \in {"promote", "rollback"}
        BY <3>1, StageFacts DEF Done
      <3>2. CASE step' = step
        BY <3>2, <2>1 DEF IInv, ChainInv, TypeOK
      <3> QED BY <3>1, <3>2
    <2> QED BY <2>1, <2>2 DEF IInv, ChainInv, AllGood, evidence
  <1> QED BY <1>1, <1>2, <1>3, <1>4 DEF IInv

LEMMA PromotesOnPass ==
  ASSUME IInv, held = "promote"
  PROVE  finalization = "none"
  <1>1. "promote" \in Stages /\ work["promote"].status # "absent"
    BY StageFacts DEF IInv, PlaceInv
  <1> QED BY <1>1 DEF IInv, ChainInv, Chain

LEMMA PlanKeeps ==
  ASSUME IInv, PlanPromotion
  PROVE  IInv'
  <1>1. /\ held = "promote" /\ finalization = "none"
        /\ UNCHANGED <<work, held, evidence, refs, seen, intent, shocks>>
        /\ promotion' = IF promotion = "completed" THEN "completed" ELSE "planned"
        /\ step' \in {"finish", "read"}
    BY DEF PlanPromotion, At, Go
  <1>2. VerdictInv'
    BY <1>1 DEF IInv, VerdictInv, evidence
  <1> QED BY <1>1, <1>2, VerdictKeeps DEF IInv, TypeOK, Promoting

(* Only refs that were read with the candidate complete a promotion.       *)
LEMMA ConcludeKeeps ==
  ASSUME IInv, held = "promote", Conclude, seen' \in Refs, VerdictInv,
         seen'.main = "candidate" => refs.main # "baseline",
         seen'.tag = "candidate" => refs.tag = "candidate"
  PROVE  IInv'
  <1> DEFINE d == Disposition(seen')
  <1>1. /\ UNCHANGED <<work, held, evidence, refs, intent, shocks>>
        /\ promotion' \in {promotion, d} /\ step' \in {"main", "finish", "idle"}
        /\ promotion' # promotion => promotion' = d /\ d # "publish"
    BY DEF Conclude, Settle, Go
  <1>2. finalization = "none"
    BY PromotesOnPass
  <1>3. /\ d \in {"blocked", "completed", "publish"}
        /\ d = "completed" => seen'.main = "candidate" /\ seen'.tag = "candidate"
    BY DEF Disposition
  <1>4. d = "completed" => refs.main # "baseline" /\ refs.tag = "candidate"
    BY <1>3
  <1> HIDE DEF d
  <1>5. VerdictInv'
    BY <1>1, <1>2, <1>3, <1>4 DEF VerdictInv, evidence
  <1>6. step' = "finish" \/ step' \in {"idle"} \cup Promoting
    BY <1>1 DEF Promoting
  <1>7. promotion' \in {"absent", "planned", "completed", "blocked"}
    BY <1>1, <1>3 DEF IInv, TypeOK
  <1> QED BY <1>1, <1>5, <1>6, <1>7, VerdictKeeps DEF IInv, TypeOK

LEMMA ReadKeeps ==
  ASSUME IInv, ReadRefs
  PROVE  IInv'
  <1>t. refs \in Refs /\ seen \in Refs /\ VerdictInv
    BY DEF IInv, TypeOK
  <1>1. held = "promote"
    BY DEF ReadRefs, ReadHead, ReadMain, ReadTag, ReadSnapshot, Asks, At
  <1>2. /\ seen' \in Refs
        /\ seen'.main \in {seen.main, refs.main} /\ seen'.tag \in {seen.tag, refs.tag}
    <2>1. CASE ReadHead
      BY <1>t, <2>1 DEF ReadHead, Refs
    <2>2. CASE ReadMain
      BY <1>t, <2>2 DEF ReadMain, Refs
    <2>3. CASE ReadTag
      BY <1>t, <2>3 DEF ReadTag, Refs
    <2>4. CASE ReadSnapshot
      BY <1>t, <2>4 DEF ReadSnapshot
    <2> QED BY <2>1, <2>2, <2>3, <2>4 DEF ReadRefs
  <1>3. /\ seen'.main = "candidate" => refs.main # "baseline"
        /\ seen'.tag = "candidate" => refs.tag = "candidate"
    BY <1>t, <1>2 DEF VerdictInv
  <1>4. CASE ReadHead \/ ReadMain
    <2>1. /\ UNCHANGED <<work, held, evidence, promotion, refs, intent, shocks>>
          /\ step' \in {"idle"} \cup Promoting
      BY <1>4 DEF ReadHead, ReadMain, Asks, Go, Promoting
    <2>2. VerdictInv'
      BY <1>t, <1>3, <2>1 DEF VerdictInv, evidence
    <2> QED BY <1>1, <1>2, <2>1, <2>2, VerdictKeeps DEF IInv, TypeOK
  <1>5. CASE ReadTag \/ ReadSnapshot
    BY <1>t, <1>1, <1>2, <1>3, <1>5, ConcludeKeeps DEF ReadTag, ReadSnapshot
  <1> QED BY <1>4, <1>5 DEF ReadRefs

LEMMA PublishKeeps ==
  ASSUME IInv, Publish
  PROVE  IInv'
  <1>1. /\ held = "promote" /\ step' \in {"idle"} \cup Promoting
        /\ UNCHANGED <<work, held, evidence, promotion, seen, intent, shocks>>
    BY DEF Publish, PublishMain, PublishTag, Recheck, PublishWithDeployKey, Confirm, Asks,
           At, Go, Promoting
  <1>2. finalization = "none"
    BY <1>1, PromotesOnPass
  <1>3. /\ refs' \in Refs
        /\ refs'.main \in {refs.main, "candidate"} /\ refs'.tag \in {refs.tag, "candidate"}
    <2>1. refs \in Refs
      BY DEF IInv, TypeOK
    <2>2. CASE PublishMain
      BY <2>1, <2>2 DEF PublishMain, Refs
    <2>3. CASE PublishTag
      BY <2>1, <2>3 DEF PublishTag, Refs
    <2>4. CASE PublishWithDeployKey
      BY <2>1, <2>4 DEF PublishWithDeployKey, Refs
    <2>5. CASE Recheck \/ Confirm
      BY <2>1, <2>5 DEF Recheck, Confirm, Asks
    <2> QED BY <2>2, <2>3, <2>4, <2>5 DEF Publish
  <1>4. VerdictInv'
    BY <1>1, <1>2, <1>3 DEF IInv, VerdictInv, evidence
  <1> QED BY <1>1, <1>3, <1>4, VerdictKeeps DEF IInv, TypeOK

LEMMA AuthorizeKeeps ==
  ASSUME IInv, AuthorizeRollback
  PROVE  IInv'
  <1>1. /\ held = "rollback" /\ finalization \in Judged /\ intent' = "planned"
        /\ step' = "finish"
        /\ UNCHANGED <<work, held, evidence, promotion, refs, seen, shocks>>
    BY DEF AuthorizeRollback, At, Go
  <1>2. VerdictInv'
    BY <1>1 DEF IInv, VerdictInv, evidence
  <1> QED BY <1>1, <1>2, VerdictKeeps DEF IInv, TypeOK

LEMMA ForeignKeeps ==
  ASSUME IInv, ForeignPush
  PROVE  IInv'
  <1>1. /\ step' = step /\ shocks' = shocks + 1 /\ shocks < MaxShocks
        /\ UNCHANGED <<work, held, evidence, promotion, seen, intent>>
    BY DEF ForeignPush, Shock
  <1>2. /\ refs' \in Refs
        /\ refs'.main \in {refs.main, "ancestor", "other"}
        /\ refs'.tag # refs.tag => refs.tag = "absent" /\ refs'.tag = "other"
    <2>1. refs \in Refs
      BY DEF IInv, TypeOK
    <2>2. CASE refs' = [refs EXCEPT !.head = "other"]
      BY <2>1, <2>2 DEF Refs
    <2>3. CASE \E commit \in {"ancestor", "other"} : refs' = [refs EXCEPT !.main = commit]
      BY <2>1, <2>3 DEF Refs
    <2>4. CASE refs.tag = "absent" /\ refs' = [refs EXCEPT !.tag = "other"]
      BY <2>1, <2>4 DEF Refs
    <2> QED BY <2>2, <2>3, <2>4 DEF ForeignPush
  <1>3. VerdictInv'
    BY <1>1, <1>2 DEF IInv, VerdictInv, evidence
  <1> QED BY <1>1, <1>2, <1>3, VerdictKeeps DEF IInv, TypeOK

-----------------------------------------------------------------------------
(* The theorems *)

LEMMA StepIInv == IInv /\ [Next]_vars => IInv'
  <1> SUFFICES ASSUME IInv, [Next]_vars PROVE IInv'
    OBVIOUS
  <1>1. ASSUME NEW s \in Stages, Claim(s) \/ Finish(s) \/ AdministrativeRetry(s) PROVE IInv'
    BY <1>1, ClaimKeeps, FinishKeeps, RetryKeeps
  <1>2. ASSUME NEW s \in Stages, NEW t \in BOOLEAN, Fail(s, t) PROVE IInv'
    BY <1>2, FailKeeps
  <1>3. CASE Restart
    BY <1>3, JournalRestartKeeps, SendRestartKeeps, AcknowledgeRestartKeeps, ReplayRestartKeeps
       DEF Restart
  <1>4. CASE CoreHealth
    <2>1. CASE ObserveCore
      BY <2>1, WindowKeeps DEF ObserveCore
    <2>2. CASE StartWindow
      BY <2>2, WindowKeeps DEF StartWindow
    <2>3. CASE WaitWindow
      BY <2>3, WindowKeeps DEF WaitWindow
    <2>4. CASE CompleteWindow
      BY <2>4, WindowKeeps DEF CompleteWindow
    <2>5. CASE ReplayWindow
      BY <2>5, WindowKeeps DEF ReplayWindow
    <2> QED BY <1>4, <2>1, <2>2, <2>3, <2>4, <2>5, RescheduleKeeps DEF CoreHealth
  <1>5. CASE Observe
    <2>1. \E s \in Probes, o \in SUBSET {"good", "bad"} :
            (s \notin Judged => o = {"good"}) /\ RecordOnce(s, o)
      <3>1. /\ {"good"} \in SUBSET {"good", "bad"} /\ {"good", "bad"} \in SUBSET {"good", "bad"}
            /\ \A a : Judgement(a) \in SUBSET {"good", "bad"}
        BY DEF Judgement
      <3>2. CASE ObserveSupervisor
        BY <3>1, <3>2, StageFacts DEF ObserveSupervisor
      <3>3. CASE ObserveIntegrations
        BY <3>1, <3>3, StageFacts DEF ObserveIntegrations
      <3>4. CASE ObserveStartupErrors
        BY <3>1, <3>4, StageFacts DEF ObserveStartupErrors
      <3>5. CASE ObserveResources
        BY <3>1, <3>5, StageFacts DEF ObserveResources
      <3>6. CASE ObserveEntities
        BY <3>1, <3>6, StageFacts DEF ObserveEntities
      <3>7. CASE ObserveAutomations
        BY <3>1, <3>7, StageFacts DEF ObserveAutomations
      <3>8. CASE ObserveAssertions
        BY <3>1, <3>8, StageFacts DEF ObserveAssertions
      <3> QED BY <1>5, <3>2, <3>3, <3>4, <3>5, <3>6, <3>7, <3>8 DEF Observe
    <2> QED BY <2>1, RecordKeeps
  <1>6. CASE Decide
    BY <1>6, DecideKeeps
  <1>7. CASE Promote
    BY <1>7, PlanKeeps, ReadKeeps, PublishKeeps DEF Promote
  <1>8. CASE AuthorizeRollback
    BY <1>8, AuthorizeKeeps
  <1>9. CASE Elapse \/ Crash \/ ForeignPush
    BY <1>9, ElapseKeeps, CrashKeeps, ForeignKeeps
  <1>10. CASE UNCHANGED vars
    <2> USE <1>10 DEF vars
    <2>1. TypeOK' /\ OneStageOpen' /\ PlaceInv' /\ RestartInv'
      BY DEF IInv, TypeOK, OneStageOpen, PlaceInv, RestartInv
    <2>2. ChainInv' /\ VerdictInv' /\ BudgetInv'
      BY DEF IInv, ChainInv, Chain, Done, AllGood, VerdictInv, BudgetInv
    <2> QED BY <2>1, <2>2 DEF IInv
  <1> QED BY <1>1, <1>2, <1>3, <1>4, <1>5, <1>6, <1>7, <1>8, <1>9, <1>10 DEF Next, Pass

LEMMA Inductive == Spec => []IInv
  BY InitIInv, StepIInv, PTL DEF Spec

(* core_restart_transport.py: for any number of attempts, crashes and      *)
(* operator retries Core is asked to restart at most once.                 *)
THEOREM RestartsOnce == Spec => []RestartOnce
  <1>1. IInv => RestartOnce
    BY DEF IInv, RestartInv, RestartOnce
  <1> QED BY <1>1, Inductive, PTL

(* deployment_promotion.py: the refs of Repo B carry the candidate only    *)
(* over a complete and passing chain of evidence, and a promotion that is  *)
(* recorded as completed published both refs.                              *)
THEOREM PublishesOnlyProven == Spec => []PublishedOnlyIfProven
  <1>1. IInv => PublishedOnlyIfProven
    BY DEF IInv, ChainInv, VerdictInv, AllGood, PublishedOnlyIfProven
  <1> QED BY <1>1, Inductive, PTL

(* candidate_finalization_execution.py: one stage of a deployment is open  *)
(* at a time, promotion and rollback are scheduled on their own verdict    *)
(* only, and a rollback is never authorized beside a promotion.            *)
THEOREM Exclusive == Spec => []AuthorityIsExclusive
  <1>1. IInv => AuthorityIsExclusive
    <2> SUFFICES ASSUME IInv PROVE AuthorityIsExclusive
      OBVIOUS
    <2>1. /\ work["promote"].status # "absent" => finalization = "none"
          /\ work["rollback"].status # "absent" => finalization \in Judged
      BY StageFacts DEF IInv, ChainInv, Chain
    <2>2. intent = "planned" => finalization \in Judged /\ promotion = "absent"
      BY StageFacts DEF IInv, VerdictInv
    <2> QED BY <2>1, <2>2 DEF IInv, AuthorityIsExclusive
  <1> QED BY <1>1, Inductive, PTL


-----------------------------------------------------------------------------
(* What somebody else pushed *)

(* From the read of the refs until the promotion is settled its plan is    *)
(* open.                                                                   *)
ReadInv == step \in Promoting => promotion = "planned"

Kept ==
  /\ refs.main = "other" => refs'.main = "other"
  /\ refs.tag # "absent" => refs'.tag = refs.tag
  /\ promotion \in {"completed", "blocked"} => promotion' = promotion
  /\ finalization # "absent" => finalization' = finalization

(* A stage that is not the promotion leaves refs and promotion alone.      *)
LEMMA ElsewhereKept ==
  ASSUME ReadInv, UNCHANGED <<verdict, finalization>>,
         step' = step \/ step' \notin Promoting
  PROVE  ReadInv' /\ Kept
  <1>1. UNCHANGED <<promotion, refs, seen>>
    BY DEF verdict
  <1>2. Kept
    BY <1>1 DEF Kept
  <1>3. ReadInv'
    BY <1>1 DEF ReadInv, Promoting
  <1> QED BY <1>2, <1>3

(* What is settled was planned, so nothing settled is settled again.       *)
LEMMA ConcludedOnce ==
  ASSUME ReadInv, step \in Promoting, Conclude
  PROVE  ReadInv' /\ Kept
  <1>1. /\ UNCHANGED <<finalization, refs>> /\ promotion = "planned"
        /\ step' \in {"main", "finish", "idle"}
        /\ step' = "main" => promotion' = promotion
    BY DEF Conclude, Settle, Go, evidence, ReadInv
  <1>2. ReadInv'
    BY <1>1 DEF ReadInv, Promoting
  <1> QED BY <1>1, <1>2 DEF Kept

LEMMA ReadKept ==
  ASSUME ReadInv, ReadRefs
  PROVE  ReadInv' /\ Kept
  <1>1. CASE ReadHead \/ ReadMain
    <2>1. /\ UNCHANGED <<finalization, promotion, refs>>
          /\ step \in Promoting
          /\ step' \in {"read_main", "read_tag", "reread_main", "reread_tag"}
      BY <1>1 DEF ReadHead, ReadMain, Asks, At, Go, evidence, Promoting
    <2> QED BY <2>1 DEF ReadInv, Kept
  <1>2. CASE ReadTag \/ ReadSnapshot
    BY <1>2, ConcludedOnce DEF ReadTag, ReadSnapshot, Promoting
  <1> QED BY <1>1, <1>2 DEF ReadRefs

(* Neither transport forces: both are refused where a ref is not missing   *)
(* any more, whatever was read before.                                     *)
LEMMA PublicationKept ==
  ASSUME IInv, ReadInv, Publish
  PROVE  ReadInv' /\ Kept
  <1>t. refs \in Refs /\ seen \in Refs
    BY DEF IInv, TypeOK
  <1>1. /\ step \in Promoting /\ step' \in Promoting
        /\ UNCHANGED <<promotion, seen, finalization>>
    BY DEF Publish, PublishMain, PublishTag, Recheck, PublishWithDeployKey, Confirm, Asks,
           At, Go, evidence, Promoting
  <1>2. promotion = "planned" /\ ReadInv'
    BY <1>1 DEF ReadInv
  <1>3. /\ refs.main = "other" => refs'.main = "other"
        /\ refs.tag # "absent" => refs'.tag = refs.tag
    <2>1. CASE PublishMain
      BY <1>t, <2>1 DEF PublishMain, Refs
    <2>2. CASE PublishTag
      BY <1>t, <2>2 DEF PublishTag, Refs
    <2>3. CASE PublishWithDeployKey
      BY <1>t, <2>3 DEF PublishWithDeployKey, Refs
    <2>4. CASE Recheck \/ Confirm
      BY <2>4 DEF Recheck, Confirm, Asks
    <2> QED BY <2>1, <2>2, <2>3, <2>4 DEF Publish
  <1>4. Kept
    BY <1>1, <1>2, <1>3 DEF Kept
  <1> QED BY <1>2, <1>4

LEMMA PromoteKept ==
  ASSUME IInv, ReadInv, Promote
  PROVE  ReadInv' /\ Kept
  <1>1. CASE PlanPromotion
    <2>1. /\ promotion # "blocked" /\ step' \in {"finish", "read"}
          /\ promotion' = IF promotion = "completed" THEN "completed" ELSE "planned"
          /\ step' = "read" => promotion # "completed"
          /\ UNCHANGED <<finalization, refs>>
      BY <1>1 DEF PlanPromotion, Go, evidence
    <2> QED BY <2>1 DEF ReadInv, Kept, Promoting
  <1> QED BY <1>1, ReadKept, PublicationKept DEF Promote

LEMMA StepKept ==
  ASSUME IInv, ReadInv, [Next]_vars
  PROVE  ReadInv' /\ Kept
  <1>1. ASSUME NEW s \in Stages,
               Claim(s) \/ Finish(s) \/ AdministrativeRetry(s)
                 \/ (\E t \in BOOLEAN : Fail(s, t))
        PROVE  ReadInv' /\ Kept
    <2>1. /\ UNCHANGED <<verdict, finalization>>
          /\ step' = step \/ step' \notin Promoting
      BY <1>1 DEF Claim, Finish, AdministrativeRetry, Fail, Release, evidence, Promoting
    <2> QED BY <2>1, ElsewhereKept
  <1>2. CASE Restart
    <2>1. /\ UNCHANGED <<verdict, finalization>>
          /\ step' \in {"send", "ack", "finish"}
      BY <1>2 DEF Restart, JournalRestart, SendRestart, AcknowledgeRestart, ReplayRestart,
                  Go, evidence
    <2> QED BY <2>1, ElsewhereKept DEF Promoting
  <1>3. CASE CoreHealth
    <2>1. /\ UNCHANGED <<verdict, finalization>>
          /\ step' \in {"defer", "schedule", "finish", "idle"}
      BY <1>3 DEF CoreHealth, ObserveCore, StartWindow, WaitWindow, CompleteWindow,
                  ReplayWindow, Reschedule, SetWindow, Go, Release, evidence
    <2> QED BY <2>1, ElsewhereKept DEF Promoting
  <1>4. CASE Observe
    <2>1. UNCHANGED <<verdict, finalization>> /\ step' = "finish"
      BY <1>4 DEF Observe, ObserveSupervisor, ObserveIntegrations, ObserveStartupErrors,
                  ObserveResources, ObserveEntities, ObserveAutomations, ObserveAssertions,
                  RecordOnce, Go
    <2> QED BY <2>1, ElsewhereKept DEF Promoting
  <1>5. CASE Decide
    <2>1. /\ UNCHANGED <<promotion, refs>> /\ step' = "finish"
          /\ finalization # "absent" => finalization' = finalization
      BY <1>5 DEF Decide, Go, verdict
    <2> QED BY <2>1 DEF ReadInv, Kept, Promoting
  <1>6. CASE Promote
    BY <1>6, PromoteKept
  <1>7. CASE AuthorizeRollback
    <2>1. UNCHANGED <<promotion, refs, finalization>> /\ step' = "finish"
      BY <1>7 DEF AuthorizeRollback, Go, evidence
    <2> QED BY <2>1 DEF ReadInv, Kept, Promoting
  <1>8. CASE Elapse \/ Crash \/ UNCHANGED vars
    <2>1. /\ UNCHANGED <<verdict, finalization>>
          /\ step' = step \/ step' = "idle"
      BY <1>8 DEF Elapse, Crash, Release, vars, verdict, evidence
    <2> QED BY <2>1, ElsewhereKept DEF Promoting
  <1>9. CASE ForeignPush
    <2>1. /\ UNCHANGED <<step, promotion, seen, finalization>>
          /\ refs \in Refs
      BY <1>9 DEF ForeignPush, evidence, IInv, TypeOK
    <2>2. /\ refs.main = "other" => refs'.main = "other"
          /\ refs.tag # "absent" => refs'.tag = refs.tag
      BY <1>9, <2>1 DEF ForeignPush, Refs
    <2>3. ReadInv'
      BY <2>1 DEF ReadInv
    <2> QED BY <2>1, <2>2, <2>3 DEF Kept
  <1> QED
    BY <1>1, <1>2, <1>3, <1>4, <1>5, <1>6, <1>7, <1>8, <1>9 DEF Next, Pass

(* deployment_promotion_transport.py: for any attempts, crashes, retries   *)
(* and pushes of others, a promotion neither moves a main that diverged    *)
(* nor a tag that exists, and a verdict or a settled promotion is final.   *)
THEOREM ForeignPushesSurvive == Spec => ForeignRefsSurvive
  <1>1. Init => ReadInv
    BY DEF Init, ReadInv, Promoting
  <1>2. IInv /\ ReadInv /\ [Next]_vars => ReadInv'
    BY StepKept
  <1>3. IInv /\ ReadInv /\ [Next]_vars => Kept
    BY StepKept
  <1>4. Spec => []ReadInv
    BY <1>1, <1>2, Inductive, PTL DEF Spec
  <1> QED BY <1>3, <1>4, Inductive, PTL DEF Spec, ForeignRefsSurvive, Kept
=============================================================================

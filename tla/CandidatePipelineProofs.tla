----------------------- MODULE CandidatePipelineProofs -----------------------
(* Proofs about the candidate pipeline, for any set of candidates and any  *)
(* number of attempts, interruptions and administrative retries.           *)
EXTENDS CandidatePipeline, FiniteSetTheorems, TLAPS

USE PipelineAssumption

-----------------------------------------------------------------------------
(* The inductive invariant *)

Open(c) == orch[c] \in OpenPhases
Now(c) == Position[NextAction[orch[c]]]

(* At most one task runs; its row is claimed, its candidate not concluded, *)
(* and its place tells what it has recorded.                               *)
TaskInv ==
  /\ task # {} => up
  /\ \A s, t \in task : s = t
  /\ \A t \in task : LET c == t.candidate IN
       /\ work[c].status = "running"
       /\ orch[c] = "none" \/ Open(c)
       /\ t.pc = "release" => Open(c)
       /\ t.pc = "planned" => Open(c) /\ checkpoint[c][NextAction[orch[c]]] = "planned"
       /\ t.pc = "renamed" => tree[c]
       /\ t.pc = "started" => checkpoint[c]["prepare_backup"] = "mutation_started"
                              /\ asked[c] = 0
       /\ t.pc = "answered" => copies[c] > 0

(* The evidence agrees with the orchestration row.                         *)
OrderInv ==
  \A c \in Candidates :
    /\ orch[c] = "none" => \A a \in Actions : checkpoint[c][a] = "none"
    /\ Open(c) =>
         /\ \A a \in Actions : Position[a] < Now(c) => checkpoint[c][a] = "completed"
         /\ \A a \in Actions : Position[a] > Now(c) => checkpoint[c][a] = "none"
         /\ checkpoint[c][NextAction[orch[c]]] \notin {"completed", "blocked"}
         /\ Now(c) > 1 => tree[c]

(* Nothing is requested before the journal says so, a second time never,   *)
(* and a backup is either requested, being taken, or there.                *)
BackupInv ==
  \A c \in Candidates :
    /\ asked[c] \in {0, 1}
    /\ checkpoint[c]["prepare_backup"] \in {"none", "planned"} => asked[c] = 0
    /\ copies[c] + (IF c \in flight THEN 1 ELSE 0) <= asked[c]

(* The evidence of a conclusion is there for good.                         *)
ConcludedInv ==
  \A c \in Candidates :
    orch[c] \in {"completed", "blocked"} =>
      \E a \in Actions :
        /\ orch[c] = "completed" => a = "prepare_backup"
        /\ \A b \in Actions : checkpoint[c][b] # "none" <=> Position[b] <= Position[a]

(* Attempts beyond the maximum are paid by interruptions.                  *)
BudgetInv ==
  \A c \in Candidates :
    /\ work[c].attempts <= MaxAttempts + interrupted[c]
    /\ /\ work[c].status \in {"pending", "retry", "running"}
       /\ \A t \in task : t.candidate # c
       => work[c].attempts < MaxAttempts + interrupted[c]

Inv == /\ TypeOK /\ TaskInv /\ OrderInv /\ BackupInv /\ ConcludedInv /\ BudgetInv
       /\ SettledTogether
-----------------------------------------------------------------------------
(* The tables *)

LEMMA Tables ==
  /\ OpenPhases = {"detected", "staged", "integrity_verified", "dependencies_analyzed",
                   "risk_classified", "static_validated", "semantically_validated"}
  /\ Actions = {"fetch_stage", "analyze", "analyze_dependencies", "classify_risk", "validate",
                "validate_semantics", "prepare_backup"}
  /\ Position["fetch_stage"] = 1 /\ Position["analyze"] = 2
  /\ Position["analyze_dependencies"] = 3 /\ Position["classify_risk"] = 4
  /\ Position["validate"] = 5 /\ Position["validate_semantics"] = 6
  /\ Position["prepare_backup"] = 7
  <1>1. OpenPhases = {"detected", "staged", "integrity_verified", "dependencies_analyzed",
                      "risk_classified", "static_validated", "semantically_validated"}
    BY DEF OpenPhases, NextAction
  <1>2. Actions = {"fetch_stage", "analyze", "analyze_dependencies", "classify_risk",
                   "validate", "validate_semantics", "prepare_backup"}
    BY DEF Actions, Preflight
  <1> QED BY <1>1, <1>2 DEF Position

LEMMA ActionFacts ==
  /\ \A a \in Actions : Position[a] \in 1..7
  /\ \A a, b \in Actions : Position[a] = Position[b] => a = b
  /\ Position["prepare_backup"] = 7 /\ Position["fetch_stage"] = 1
  /\ "prepare_backup" \in Actions /\ "fetch_stage" \in Actions
  /\ Preflight = Actions \ {"prepare_backup"}
  <1>1. Preflight = Actions \ {"prepare_backup"}
    BY DEF Actions, Preflight
  <1> QED BY <1>1, Tables

LEMMA PhaseFacts ==
  /\ \A p \in OpenPhases : NextAction[p] \in Actions
  /\ "detected" \in OpenPhases /\ NextAction["detected"] = "fetch_stage"
  /\ {"none", "completed", "blocked"} \cap OpenPhases = {}
  /\ \A a \in Preflight : /\ Successor[a] \in OpenPhases
                          /\ Position[NextAction[Successor[a]]] = Position[a] + 1
  <1>1. \A p \in OpenPhases : NextAction[p] \in Actions
    BY Tables DEF NextAction
  <1>2. "detected" \in OpenPhases /\ NextAction["detected"] = "fetch_stage"
    BY Tables DEF NextAction
  <1>3. {"none", "completed", "blocked"} \cap OpenPhases = {}
    BY Tables
  <1>4. \A a \in Preflight : /\ Successor[a] \in OpenPhases
                             /\ Position[NextAction[Successor[a]]] = Position[a] + 1
    BY Tables DEF Preflight, NextAction, Successor
  <1> QED BY <1>1, <1>2, <1>3, <1>4

LEMMA InitInv == Init => Inv
  <1> SUFFICES ASSUME Init PROVE Inv
    OBVIOUS
  <1>1. TypeOK
    <2>1. work \in [Candidates -> Row]
      BY DEF Init, Row
    <2>2. orch \in [Candidates -> Phases]
      BY DEF Init, Phases
    <2>3. checkpoint \in [Candidates -> [Actions -> CheckpointPhases]]
      BY DEF Init, CheckpointPhases
    <2>4. /\ head \in SUBSET Candidates /\ tree \in [Candidates -> BOOLEAN]
          /\ prepared \in SUBSET Candidates /\ up \in BOOLEAN /\ task \in SUBSET Task
          /\ flight \in SUBSET Candidates
      BY DEF Init
    <2>5. asked \in [Candidates -> Nat] /\ copies \in [Candidates -> Nat]
      BY DEF Init
    <2>6. /\ interrupted \in [Candidates -> 0..MaxInterruptions]
          /\ retried \in [Candidates -> 0..MaxRetries]
      BY DEF Init
    <2> QED BY <2>1, <2>2, <2>3, <2>4, <2>5, <2>6 DEF TypeOK
  <1>2. TaskInv /\ BackupInv /\ BudgetInv
    BY ActionFacts DEF Init, TaskInv, BackupInv, BudgetInv
  <1>3. OrderInv /\ ConcludedInv /\ SettledTogether
    BY ActionFacts, PhaseFacts DEF Init, OrderInv, ConcludedInv, SettledTogether, Open
  <1> QED BY <1>1, <1>2, <1>3 DEF Inv
-----------------------------------------------------------------------------
(* What several steps share *)

(* The evidence and its conclusions stay as they are.                      *)
LEMMA EvidenceKeeps ==
  ASSUME Inv, UNCHANGED <<orch, checkpoint, tree>>
  PROVE  OrderInv' /\ ConcludedInv'
  BY DEF Inv, OrderInv, ConcludedInv, Open, Now

LEMMA SupervisorKeeps ==
  ASSUME Inv, UNCHANGED <<checkpoint, supervisorVars>>
  PROVE  BackupInv'
  BY DEF Inv, BackupInv, supervisorVars

(* One row is written.                                                     *)
Written(c, row) == /\ work' \in [Candidates -> Row] /\ work'[c] = row
                   /\ \A d \in Candidates \ {c} : work'[d] = work[d]

LEMMA RowWritten ==
  ASSUME TypeOK, NEW c \in Candidates, NEW row \in Row,
         \/ work' = [work EXCEPT ![c] = row]
         \/ row.attempts = work[c].attempts /\ work' = [work EXCEPT ![c].status = row.status]
  PROVE  Written(c, row)
  <1>1. work \in [Candidates -> Row]
    BY DEF TypeOK
  <1>2. work[c] \in Row /\ row = [status |-> row.status, attempts |-> row.attempts]
    BY <1>1 DEF Row
  <1>3. work' = [work EXCEPT ![c] = row]
    BY <1>1, <1>2 DEF Row
  <1> QED BY <1>1, <1>3 DEF Written

(* One checkpoint is written.                                              *)
Marked(c, a, phase) ==
  /\ checkpoint' \in [Candidates -> [Actions -> CheckpointPhases]]
  /\ checkpoint'[c][a] = phase
  /\ \A b \in Actions \ {a} : checkpoint'[c][b] = checkpoint[c][b]
  /\ \A d \in Candidates \ {c} : checkpoint'[d] = checkpoint[d]

LEMMA CheckpointMarked ==
  ASSUME TypeOK, NEW c \in Candidates, NEW a \in Actions, NEW phase \in CheckpointPhases,
         checkpoint' = [checkpoint EXCEPT ![c] = [@ EXCEPT ![a] = phase]]
  PROVE  Marked(c, a, phase)
  <1>1. /\ checkpoint \in [Candidates -> [Actions -> CheckpointPhases]]
        /\ checkpoint[c] \in [Actions -> CheckpointPhases]
    BY DEF TypeOK
  <1>2. checkpoint'[c] = [checkpoint[c] EXCEPT ![a] = phase]
    BY <1>1
  <1> QED BY <1>1, <1>2 DEF Marked

(* A step that settles, claims or reopens one row and leaves the evidence  *)
(* alone; afterwards no task runs, or one on that row.                     *)
LEMMA RowKeeps ==
  ASSUME Inv, NEW c \in Candidates, NEW row \in Row, Written(c, row),
         UNCHANGED <<orch, checkpoint, tree, prepared, supervisorVars>>,
         TypeOK', TaskInv', BudgetInv',
         row.status \notin {"absent", "succeeded"}, work[c].status # "succeeded",
         retried'[c] = 0 /\ orch[c] = "blocked" => row.status = "blocked",
         \A d \in Candidates \ {c} : retried'[d] = retried[d]
  PROVE  Inv'
  <1>1. OrderInv' /\ ConcludedInv' /\ BackupInv'
    BY EvidenceKeeps, SupervisorKeeps
  <1>2. SettledTogether'
    <2> SUFFICES ASSUME NEW d \in Candidates
                 PROVE  /\ (d \in prepared <=> work[d].status = "succeeded")'
                        /\ (orch[d] = "blocked" /\ retried[d] = 0 => work[d].status = "blocked")'
      BY DEF Inv, SettledTogether, supervisorVars
    <2> QED BY DEF Inv, SettledTogether, Written
  <1> QED BY <1>1, <1>2 DEF Inv

LEMMA TaskFacts ==
  ASSUME Inv, NEW t \in task
  PROVE  /\ t \in Task /\ t.candidate \in Candidates /\ task = {t} /\ up
         /\ work[t.candidate] \in Row /\ work[t.candidate].status = "running"
         /\ orch[t.candidate] = "none" \/ Open(t.candidate)
  <1>1. t \in Task /\ t.candidate \in Candidates
    BY DEF Inv, TypeOK, Task
  <1>2. work[t.candidate] \in Row
    BY <1>1 DEF Inv, TypeOK
  <1>3. /\ up /\ \A s \in task : s = t
        /\ work[t.candidate].status = "running"
        /\ orch[t.candidate] = "none" \/ Open(t.candidate)
    BY DEF Inv, TaskInv
  <1>4. task = {t}
    BY <1>3
  <1> QED BY <1>1, <1>2, <1>3, <1>4

LEMMA FailKeeps ==
  ASSUME Inv, NEW t \in task, NEW transient \in BOOLEAN, Fail(t, transient)
  PROVE  Inv'
  <1> DEFINE c == t.candidate
             row == [status |-> IF transient /\ work[c].attempts < MaxAttempts
                                  THEN "retry" ELSE "blocked",
                     attempts |-> work[c].attempts]
  <1>t. /\ TypeOK /\ c \in Candidates /\ work[c] \in Row /\ work[c].status = "running"
        /\ task = {t} /\ orch[c] # "blocked"
    BY TaskFacts, PhaseFacts DEF Inv, Open
  <1>a. /\ task' = {} /\ UNCHANGED <<head, orch, checkpoint, tree, prepared, up>>
        /\ UNCHANGED <<supervisorVars, historyVars>>
        /\ work' = [work EXCEPT ![c].status = row.status]
    BY DEF Fail
  <1>1. row \in Row /\ row.attempts = work[c].attempts /\ row.status \in {"retry", "blocked"}
    BY <1>t DEF Row
  <1>2. row.status = "retry" => row.attempts < MaxAttempts
    OBVIOUS
  <1> HIDE DEF c, row
  <1>3. Written(c, row)
    BY <1>t, <1>a, <1>1, RowWritten
  <1>4. TypeOK'
    BY <1>a, <1>3 DEF Inv, TypeOK, Written, supervisorVars, historyVars
  <1>5. TaskInv'
    BY <1>a DEF TaskInv
  <1>6. BudgetInv'
    <2>1. /\ \A d \in Candidates : interrupted[d] \in Nat /\ interrupted'[d] = interrupted[d]
          /\ \A d \in Candidates \ {c} : \A s \in task : s.candidate # d
          /\ \A d \in Candidates : work[d].attempts \in Nat
      BY <1>a, <1>t DEF TypeOK, Row, historyVars, c
    <2>2. /\ work'[c].attempts = work[c].attempts
          /\ work'[c].status \in {"pending", "retry", "running"} =>
               work'[c].attempts < MaxAttempts
      BY <1>1, <1>2, <1>3 DEF Written
    <2>3. \A d \in Candidates \ {c} : work'[d] = work[d]
      BY <1>3 DEF Written
    <2> QED BY <1>t, <2>1, <2>2, <2>3 DEF Inv, BudgetInv
  <1> QED BY <1>t, <1>a, <1>1, <1>3, <1>4, <1>5, <1>6, RowKeeps DEF historyVars
-----------------------------------------------------------------------------
(* Steps that claim, release or reopen rows *)

Lanes == {"routine", "retrigger"}

LEMMA StartKeeps ==
  ASSUME Inv, Idle, NEW c \in Candidates, NEW lane \in Lanes, Start(c, lane),
         work[c].status \in {"pending", "retry"}, orch[c] \in {"none"} \cup OpenPhases
  PROVE  Inv'
  <1> DEFINE row == [status |-> "running", attempts |-> work[c].attempts + 1]
             t == [lane |-> lane, candidate |-> c, pc |-> "claimed"]
  <1>t. /\ TypeOK /\ up /\ task = {} /\ work[c] \in Row /\ orch[c] # "blocked"
        /\ interrupted[c] \in 0..MaxInterruptions
        /\ work[c].attempts \in Nat /\ work[c].attempts < MaxAttempts + interrupted[c]
    BY PhaseFacts DEF Inv, TypeOK, Idle, Row, BudgetInv
  <1>a. /\ task' = {t} /\ UNCHANGED <<head, orch, checkpoint, tree, prepared, up>>
        /\ UNCHANGED <<supervisorVars, historyVars>>
        /\ work' = [work EXCEPT ![c] = row]
    BY <1>t DEF Start, TypeOK
  <1>1. row \in Row /\ row.status = "running"
    BY <1>t DEF Row
  <1>2. t \in Task /\ t.candidate = c /\ t.pc = "claimed"
    BY DEF Task, Lanes
  <1>4. row.attempts = work[c].attempts + 1
    OBVIOUS
  <1> HIDE DEF row, t
  <1>3. Written(c, row)
    BY <1>t, <1>a, <1>1, RowWritten
  <1>5. TypeOK'
    BY <1>a, <1>2, <1>3 DEF Inv, TypeOK, Written, supervisorVars, historyVars
  <1>6. TaskInv'
    BY <1>a, <1>t, <1>1, <1>2, <1>3 DEF TaskInv, Written, Open
  <1>7. BudgetInv'
    <2>1. \A d \in Candidates : /\ work[d].attempts \in Nat /\ interrupted[d] \in Nat
                                /\ interrupted'[d] = interrupted[d]
      BY <1>a, <1>t DEF TypeOK, Row, historyVars
    <2>2. /\ work'[c].attempts = work[c].attempts + 1
          /\ \A d \in Candidates \ {c} : work'[d] = work[d]
      BY <1>3, <1>4 DEF Written
    <2>3. \E s \in task' : s.candidate = c
      BY <1>a, <1>2
    <2> QED BY <1>t, <2>1, <2>2, <2>3 DEF Inv, BudgetInv
  <1> QED BY <1>t, <1>a, <1>1, <1>3, <1>5, <1>6, <1>7, RowKeeps DEF historyVars

LEMMA ClaimKeeps ==
  ASSUME Inv, NEW c \in Candidates, RoutineClaim(c) \/ RetriggerClaim(c)
  PROVE  Inv'
  BY StartKeeps DEF RoutineClaim, RetriggerClaim, Claimable, Lanes

LEMMA ReleaseKeeps ==
  ASSUME Inv, NEW t \in task, Release(t)
  PROVE  Inv'
  <1> DEFINE c == t.candidate
             row == [status |-> "pending", attempts |-> 0]
  <1>t. /\ TypeOK /\ c \in Candidates /\ work[c].status = "running"
        /\ task = {t} /\ orch[c] # "blocked"
    BY TaskFacts, PhaseFacts DEF Inv, Open
  <1>a. /\ task' = {} /\ UNCHANGED <<head, orch, checkpoint, tree, prepared, up>>
        /\ UNCHANGED <<supervisorVars, historyVars>>
        /\ work' = [work EXCEPT ![c] = row]
    BY DEF Release
  <1>1. row \in Row /\ row.status = "pending" /\ row.attempts = 0
    BY DEF Row
  <1> HIDE DEF c, row
  <1>3. Written(c, row)
    BY <1>t, <1>a, <1>1, RowWritten
  <1>4. TypeOK'
    BY <1>a, <1>3 DEF Inv, TypeOK, Written, supervisorVars, historyVars
  <1>5. TaskInv'
    BY <1>a DEF TaskInv
  <1>6. BudgetInv'
    <2>1. /\ \A d \in Candidates : interrupted[d] \in Nat /\ interrupted'[d] = interrupted[d]
          /\ \A d \in Candidates \ {c} : \A s \in task : s.candidate # d
          /\ \A d \in Candidates \ {c} : work'[d] = work[d]
          /\ work'[c].attempts = 0
      BY <1>a, <1>t, <1>1, <1>3 DEF TypeOK, Written, historyVars, c
    <2> QED BY <1>t, <2>1 DEF Inv, BudgetInv
  <1> QED BY <1>t, <1>a, <1>1, <1>3, <1>4, <1>5, <1>6, RowKeeps DEF historyVars

LEMMA DetectKeeps ==
  ASSUME Inv, Detect
  PROVE  Inv'
  <1> DEFINE row == [status |-> "pending", attempts |-> 0]
  <1>1. PICK c \in head : work[c].status = "absent" /\ work' = [work EXCEPT ![c] = row]
    BY DEF Detect
  <1>t. TypeOK /\ c \in Candidates /\ task = {}
    BY DEF Inv, TypeOK, Detect, Idle
  <1>a. /\ UNCHANGED <<head, orch, checkpoint, tree, prepared, up, task>>
        /\ UNCHANGED <<supervisorVars, historyVars>>
    BY DEF Detect
  <1>2. row \in Row /\ row.status = "pending" /\ row.attempts = 0
    BY DEF Row
  <1> HIDE DEF row
  <1>3. Written(c, row)
    BY <1>t, <1>1, <1>2, RowWritten
  <1>4. TypeOK'
    BY <1>a, <1>3 DEF Inv, TypeOK, Written, supervisorVars, historyVars
  <1>5. TaskInv'
    BY <1>t, <1>a DEF TaskInv
  <1>6. BudgetInv'
    <2>1. /\ \A d \in Candidates : interrupted[d] \in Nat /\ interrupted'[d] = interrupted[d]
          /\ \A d \in Candidates \ {c} : work'[d] = work[d]
          /\ work'[c].attempts = 0
      BY <1>a, <1>t, <1>2, <1>3 DEF TypeOK, Written, historyVars
    <2> QED BY <1>t, <2>1 DEF Inv, BudgetInv
  <1>7. retried'[c] = 0 /\ orch[c] = "blocked" => FALSE
    BY <1>a, <1>1, <1>t DEF Inv, SettledTogether, historyVars
  <1> QED BY <1>t, <1>a, <1>1, <1>2, <1>3, <1>4, <1>5, <1>6, <1>7, RowKeeps DEF historyVars

LEMMA BootWithRetryKeeps ==
  ASSUME Inv, NEW c \in Candidates, BootWithRetry(c)
  PROVE  Inv'
  <1> DEFINE row == [status |-> "pending", attempts |-> 0]
  <1>t. TypeOK /\ task = {} /\ retried \in [Candidates -> 0..MaxRetries]
    BY DEF Inv, TypeOK, TaskInv, BootWithRetry
  <1>a. /\ UNCHANGED <<head, orch, checkpoint, tree, prepared, task, interrupted>>
        /\ UNCHANGED supervisorVars /\ up' = TRUE
        /\ work' = [work EXCEPT ![c] = row] /\ work[c].status = "blocked"
        /\ retried[c] < MaxRetries /\ retried' = [retried EXCEPT ![c] = retried[c] + 1]
    BY <1>t DEF BootWithRetry
  <1>2. row \in Row /\ row.status = "pending" /\ row.attempts = 0
    BY DEF Row
  <1> HIDE DEF row
  <1>3. Written(c, row)
    BY <1>t, <1>a, <1>2, RowWritten
  <1>4. TypeOK' /\ retried'[c] # 0 /\ \A d \in Candidates \ {c} : retried'[d] = retried[d]
    <2>1. /\ retried' \in [Candidates -> 0..MaxRetries] /\ retried'[c] # 0
          /\ \A d \in Candidates \ {c} : retried'[d] = retried[d]
      BY <1>t, <1>a
    <2> QED BY <1>a, <1>3, <2>1 DEF Inv, TypeOK, Written, supervisorVars
  <1>5. TaskInv'
    BY <1>t, <1>a DEF TaskInv
  <1>6. BudgetInv'
    <2>1. /\ \A d \in Candidates : interrupted[d] \in Nat /\ interrupted'[d] = interrupted[d]
          /\ \A d \in Candidates \ {c} : work'[d] = work[d]
          /\ work'[c].attempts = 0
      BY <1>a, <1>t, <1>2, <1>3 DEF TypeOK, Written
    <2> QED BY <1>t, <1>a, <2>1 DEF Inv, BudgetInv
  <1> QED BY <1>t, <1>a, <1>2, <1>3, <1>4, <1>5, <1>6, RowKeeps
-----------------------------------------------------------------------------
(* Steps that end a task without a verdict, or touch no candidate          *)

LEMMA RecoverKeeps ==
  ASSUME Inv, Recover
  PROVE  Inv'
  <1>t. /\ TypeOK /\ task = {} /\ work \in [Candidates -> Row]
        /\ UNCHANGED <<head, orch, checkpoint, tree, prepared, up, task>>
        /\ UNCHANGED <<supervisorVars, historyVars>>
    BY DEF Inv, TypeOK, Recover, Idle
  <1>1. \A c \in Candidates :
          /\ work'[c] \in Row /\ work'[c].attempts = work[c].attempts
          /\ IF work[c].status = "running" THEN work'[c].status = "retry"
                                           ELSE work'[c] = work[c]
    BY <1>t DEF Recover, Row
  <1>2. TypeOK'
    <2>1. work' \in [Candidates -> Row]
      BY <1>1 DEF Recover
    <2> QED BY <1>t, <2>1 DEF TypeOK, supervisorVars, historyVars
  <1>3. TaskInv' /\ OrderInv' /\ ConcludedInv' /\ BackupInv'
    BY <1>t, EvidenceKeeps, SupervisorKeeps DEF TaskInv
  <1>4. BudgetInv'
    BY <1>t, <1>1 DEF Inv, BudgetInv, historyVars
  <1>5. SettledTogether'
    <2> SUFFICES ASSUME NEW d \in Candidates
                 PROVE  /\ (d \in prepared <=> work[d].status = "succeeded")'
                        /\ (orch[d] = "blocked" /\ retried[d] = 0 => work[d].status = "blocked")'
      BY <1>t DEF Inv, SettledTogether, supervisorVars
    <2> QED BY <1>t, <1>1 DEF Inv, SettledTogether, historyVars
  <1> QED BY <1>2, <1>3, <1>4, <1>5 DEF Inv

(* The rows and the evidence stay; an interruption pays for the attempt    *)
(* that is cut short.                                                      *)
LEMMA StoppedKeeps ==
  ASSUME Inv, UNCHANGED <<work, orch, checkpoint, tree, prepared, supervisorVars, retried>>,
         TypeOK', TaskInv', \A c \in Candidates : interrupted[c] <= interrupted'[c],
         \A c \in Candidates :
           \/ \E s \in task' : s.candidate = c
           \/ \A s \in task : s.candidate # c
           \/ interrupted[c] < interrupted'[c]
  PROVE  Inv'
  <1>t. /\ work \in [Candidates -> Row] /\ interrupted \in [Candidates -> 0..MaxInterruptions]
        /\ interrupted' \in [Candidates -> 0..MaxInterruptions]
    BY DEF Inv, TypeOK
  <1>1. OrderInv' /\ ConcludedInv' /\ BackupInv'
    BY EvidenceKeeps, SupervisorKeeps
  <1>2. BudgetInv'
    <2>1. \A c \in Candidates : /\ work[c].attempts \in Nat /\ interrupted[c] \in Nat
                                /\ interrupted'[c] \in Nat
      BY <1>t DEF Row
    <2> QED BY <1>t, <2>1 DEF Inv, BudgetInv
  <1>3. SettledTogether'
    BY DEF Inv, SettledTogether, supervisorVars
  <1> QED BY <1>1, <1>2, <1>3 DEF Inv

LEMMA StopKeeps ==
  ASSUME Inv, \/ Crash \/ Boot \/ (\E h \in {{}} \cup {{c} : c \in Candidates} : Push(h))
              \/ (\E t \in task : Abandon(t))
  PROVE  Inv'
  <1>t. /\ TypeOK /\ interrupted \in [Candidates -> 0..MaxInterruptions]
        /\ \A t \in task : t.candidate \in Candidates
    BY TaskFacts DEF Inv, TypeOK
  <1> USE DEF supervisorVars, historyVars
  <1>1. CASE Crash
    <2>1. \A c \in Candidates :
            /\ interrupted'[c] \in 0..MaxInterruptions
            /\ interrupted'[c] = IF \E t \in task : t.candidate = c THEN interrupted[c] + 1
                                                                    ELSE interrupted[c]
      BY <1>1, <1>t DEF Crash
    <2>2. interrupted' \in [Candidates -> 0..MaxInterruptions]
      BY <1>1, <2>1 DEF Crash
    <2>3. TypeOK' /\ TaskInv'
      BY <1>1, <1>t, <2>2 DEF Crash, TypeOK, TaskInv
    <2>4. \A c \in Candidates :
            /\ interrupted[c] <= interrupted'[c]
            /\ (\A s \in task : s.candidate # c) \/ interrupted[c] < interrupted'[c]
      BY <1>t, <2>1
    <2> QED BY <1>1, <2>3, <2>4, StoppedKeeps DEF Crash
  <1>2. CASE Boot
    <2>1. TypeOK' /\ TaskInv'
      <3>1. TypeOK'
        BY <1>2 DEF Boot, Inv, TypeOK
      <3>2. TaskInv'
        BY <1>2 DEF Boot, Inv, TaskInv, Open
      <3> QED BY <3>1, <3>2
    <2> QED BY <1>2, <1>t, <2>1, StoppedKeeps DEF Boot
  <1>3. ASSUME NEW h \in {{}} \cup {{c} : c \in Candidates}, Push(h) PROVE Inv'
    <2>1. TypeOK' /\ TaskInv'
      <3>1. TypeOK'
        BY <1>3 DEF Push, Inv, TypeOK
      <3>2. TaskInv'
        BY <1>3 DEF Push, Inv, TaskInv, Open
      <3> QED BY <3>1, <3>2
    <2> QED BY <1>3, <1>t, <2>1, StoppedKeeps DEF Push
  <1>4. ASSUME NEW t \in task, Abandon(t) PROVE Inv'
    <2>1. /\ t.candidate \in Candidates /\ task = {t} /\ task' = {}
          /\ interrupted[t.candidate] < MaxInterruptions
          /\ interrupted' = [interrupted EXCEPT ![t.candidate] = interrupted[t.candidate] + 1]
      BY <1>4, <1>t, TaskFacts DEF Abandon
    <2>2. /\ interrupted' \in [Candidates -> 0..MaxInterruptions]
          /\ interrupted[t.candidate] < interrupted'[t.candidate]
          /\ \A c \in Candidates : interrupted[c] <= interrupted'[c]
      BY <1>t, <2>1
    <2>3. TypeOK' /\ TaskInv'
      BY <1>4, <1>t, <2>1, <2>2 DEF Abandon, TypeOK, TaskInv
    <2> QED BY <1>4, <2>1, <2>2, <2>3, StoppedKeeps DEF Abandon
  <1> QED BY <1>1, <1>2, <1>3, <1>4

(* The Supervisor takes or loses a backup that was requested.              *)
LEMMA FlightKeeps ==
  ASSUME Inv, NEW c \in Candidates, TakeBackup(c) \/ LoseBackup(c)
  PROVE  Inv'
  <1>t. /\ TypeOK /\ c \in flight /\ flight' = flight \ {c} /\ copies \in [Candidates -> Nat]
        /\ UNCHANGED <<head, work, orch, checkpoint, tree, prepared, up, task, asked>>
        /\ UNCHANGED historyVars
    BY DEF Inv, TypeOK, TakeBackup, LoseBackup
  <1>1. /\ copies' \in [Candidates -> Nat] /\ copies'[c] \in {copies[c], copies[c] + 1}
        /\ \A d \in Candidates \ {c} : copies'[d] = copies[d]
    BY <1>t DEF TakeBackup, LoseBackup
  <1>2. TypeOK'
    BY <1>t, <1>1 DEF TypeOK, historyVars
  <1>3. TaskInv'
    <2>1. \A d \in Candidates : copies[d] > 0 => copies'[d] > 0
      BY <1>t, <1>1
    <2>2. \A s \in task : s.candidate \in Candidates
      BY TaskFacts
    <2> QED BY <1>t, <2>1, <2>2 DEF Inv, TaskInv, Open
  <1>4. BackupInv'
    <2>1. \A d \in Candidates : asked[d] \in Nat /\ copies[d] \in Nat
      BY <1>t DEF TypeOK
    <2>2. \A d \in Candidates \ {c} : d \in flight' <=> d \in flight
      BY <1>t
    <2>3. copies'[c] + (IF c \in flight' THEN 1 ELSE 0) <= asked[c]
      BY <1>t, <1>1, <2>1 DEF Inv, BackupInv
    <2> QED BY <1>t, <1>1, <2>1, <2>2, <2>3 DEF Inv, BackupInv
  <1>5. BudgetInv'
    BY <1>t DEF Inv, BudgetInv, historyVars
  <1>6. SettledTogether'
    <2>1. c \notin prepared
      BY <1>t DEF Inv, SettledTogether, BackupInv
    <2> QED BY <1>t, <1>1, <2>1 DEF Inv, SettledTogether, historyVars
  <1> QED BY <1>t, <1>2, <1>3, <1>4, <1>5, <1>6, EvidenceKeeps DEF Inv
-----------------------------------------------------------------------------
(* Steps of an executor *)

Places == {"claimed", "planned", "cleaned", "observed", "renamed", "started",
           "sent", "answered", "unsure", "uncertain", "reconcile", "release"}

(* The task moves on, the rows stay; what is left to show is what the new  *)
(* place says of the evidence.                                             *)
LEMMA MoveFacts ==
  ASSUME Inv, NEW t \in task, NEW pc \in Places, Move(t, pc),
         UNCHANGED <<work, up, interrupted>>,
         orch'[t.candidate] = "none" \/ Open(t.candidate)',
         pc = "release" => Open(t.candidate)',
         pc = "planned" => /\ Open(t.candidate)'
                           /\ checkpoint'[t.candidate][NextAction[orch'[t.candidate]]] = "planned",
         pc = "renamed" => tree'[t.candidate],
         pc = "started" => /\ checkpoint'[t.candidate]["prepare_backup"] = "mutation_started"
                           /\ asked'[t.candidate] = 0,
         pc = "answered" => copies'[t.candidate] > 0
  PROVE  TaskInv' /\ BudgetInv' /\ task' \in SUBSET Task
  <1>t. t \in Task /\ task = {t} /\ up /\ work[t.candidate].status = "running"
    BY TaskFacts
  <1> DEFINE s == [t EXCEPT !.pc = pc]
  <1>1. s \in Task /\ task' = {s} /\ s.candidate = t.candidate /\ s.pc = pc
    <2>1. s \in Task /\ s.candidate = t.candidate /\ s.pc = pc
      BY <1>t DEF Task, Places
    <2> QED BY <2>1 DEF Move
  <1> HIDE DEF s
  <1>2. TaskInv'
    BY <1>t, <1>1 DEF TaskInv
  <1>3. BudgetInv'
    BY <1>t, <1>1 DEF Inv, BudgetInv
  <1> QED BY <1>1, <1>2, <1>3

(* Nothing but the task moves.                                             *)
LEMMA PlainMoveKeeps ==
  ASSUME Inv, NEW t \in task, NEW pc \in {"observed", "answered", "unsure"}, Move(t, pc),
         UNCHANGED <<head, work, orch, checkpoint, tree, prepared, up>>,
         UNCHANGED <<supervisorVars, historyVars>>,
         pc = "answered" => copies[t.candidate] > 0
  PROVE  Inv'
  <1>1. TaskInv' /\ BudgetInv' /\ task' \in SUBSET Task
    BY MoveFacts, TaskFacts DEF Places, Open, supervisorVars, historyVars
  <1>2. TypeOK' /\ SettledTogether'
    BY <1>1 DEF Inv, TypeOK, SettledTogether, supervisorVars, historyVars
  <1> QED BY <1>1, <1>2, EvidenceKeeps, SupervisorKeeps DEF Inv

LEMMA MoveKeeps ==
  ASSUME Inv, NEW t \in task, Observe(t) \/ BackupAnswered(t) \/ BackupUnclear(t)
  PROVE  Inv'
  BY PlainMoveKeeps DEF Observe, BackupAnswered, BackupUnclear

LEMMA RegisterKeeps ==
  ASSUME Inv, NEW t \in task, Register(t)
  PROVE  Inv'
  <1> DEFINE c == t.candidate
  <1>t. /\ TypeOK /\ c \in Candidates /\ task = {t} /\ up /\ work[c].status = "running"
    BY TaskFacts DEF Inv
  <1>a. /\ UNCHANGED <<head, work, checkpoint, tree, prepared, up, task>>
        /\ UNCHANGED <<supervisorVars, historyVars>>
        /\ orch[c] = "none" /\ t.pc = "claimed"
        /\ orch'[c] = "detected" /\ \A d \in Candidates \ {c} : orch'[d] = orch[d]
        /\ orch' \in [Candidates -> Phases]
    BY <1>t, PhaseFacts DEF Register, TypeOK, Phases
  <1> HIDE DEF c
  <1>b. "detected" \in OpenPhases /\ NextAction["detected"] = "fetch_stage"
    BY PhaseFacts
  <1>1. TypeOK'
    BY <1>t, <1>a DEF TypeOK, supervisorVars, historyVars
  <1>2. TaskInv'
    BY <1>t, <1>a, <1>b DEF Inv, TaskInv, Open, supervisorVars, c
  <1>3. OrderInv'
    <2>1. \A a \in Actions : checkpoint[c][a] = "none"
      BY <1>t, <1>a DEF Inv, OrderInv
    <2>2. \A a \in Actions : ~(Position[a] < 1)
      BY ActionFacts
    <2>3. \A d \in Candidates \ {c} : orch'[d] = orch[d]
      BY <1>a
    <2>4. ASSUME NEW d \in Candidates
          PROVE  /\ orch'[d] = "none" => \A a \in Actions : checkpoint'[d][a] = "none"
                 /\ Open(d)' =>
                    /\ \A a \in Actions : Position[a] < Now(d)' => checkpoint'[d][a] = "completed"
                    /\ \A a \in Actions : Position[a] > Now(d)' => checkpoint'[d][a] = "none"
                    /\ checkpoint'[d][NextAction[orch'[d]]] \notin {"completed", "blocked"}
                    /\ Now(d)' > 1 => tree'[d]
      <3>1. CASE d = c
        <4>1. Now(d)' = 1 /\ orch'[d] # "none"
          BY <3>1, <1>a, <1>b, ActionFacts DEF Now
        <4> QED BY <3>1, <4>1, <1>a, <1>b, <2>1, <2>2, ActionFacts
      <3>2. CASE d # c
        BY <3>2, <1>a, <2>3 DEF Inv, OrderInv, Open, Now
      <3> QED BY <3>1, <3>2
    <2> QED BY <2>4 DEF OrderInv
  <1>4. ConcludedInv'
    BY <1>t, <1>a DEF Inv, ConcludedInv
  <1>5. BackupInv' /\ BudgetInv'
    BY <1>a, SupervisorKeeps DEF Inv, BudgetInv, historyVars
  <1>6. SettledTogether'
    <2>1. \A d \in Candidates : /\ orch'[d] = "completed" <=> orch[d] = "completed"
                                /\ orch'[d] = "blocked" <=> orch[d] = "blocked"
      BY <1>a
    <2> QED BY <1>a, <2>1 DEF Inv, SettledTogether, supervisorVars, historyVars
  <1> QED BY <1>1, <1>2, <1>3, <1>4, <1>5, <1>6 DEF Inv

LEMMA OpenFacts ==
  ASSUME Inv, NEW c \in Candidates, Open(c)
  PROVE  /\ orch[c] \notin {"none", "completed", "blocked"} /\ c \notin prepared
         /\ NextAction[orch[c]] \in Actions /\ Now(c) \in 1..7
         /\ checkpoint[c]["prepare_backup"] # "completed" /\ work[c].status # "succeeded"
  BY PhaseFacts, ActionFacts DEF Inv, SettledTogether, Open, Now

LEMMA AtFacts ==
  ASSUME Inv, NEW t \in task, NEW a, NEW pc, At(t, a, pc)
  PROVE  /\ t.candidate \in Candidates /\ t.pc = pc /\ Open(t.candidate)
         /\ a = NextAction[orch[t.candidate]] /\ a \in Actions
         /\ Now(t.candidate) = Position[a]
  BY TaskFacts, PhaseFacts DEF At, Open, Now

(* fetch_stage handles the Stage of a candidate that has passed no gate.   *)
LEMMA StageKeeps ==
  ASSUME Inv, NEW t \in task, CleanStage(t) \/ RenameStage(t)
  PROVE  Inv'
  <1> DEFINE c == t.candidate
  <1>t. TypeOK /\ c \in Candidates /\ Open(c) /\ Now(c) = 1
    BY AtFacts, ActionFacts DEF Inv, CleanStage, RenameStage
  <1>a. /\ UNCHANGED <<head, work, orch, checkpoint, prepared, up>>
        /\ UNCHANGED <<supervisorVars, historyVars>>
        /\ tree' \in [Candidates -> BOOLEAN] /\ \A d \in Candidates \ {c} : tree'[d] = tree[d]
        /\ \/ Move(t, "cleaned")
           \/ Move(t, "renamed") /\ tree'[c]
    BY <1>t DEF CleanStage, RenameStage, TypeOK
  <1> HIDE DEF c
  <1>1. TaskInv' /\ BudgetInv' /\ task' \in SUBSET Task
    BY <1>t, <1>a, MoveFacts DEF Places, Open, historyVars, c
  <1>2. TypeOK' /\ SettledTogether'
    BY <1>a, <1>1 DEF Inv, TypeOK, SettledTogether, supervisorVars, historyVars
  <1>3. OrderInv'
    <2>1. ASSUME NEW d \in Candidates, Open(d), Now(d) > 1 PROVE tree'[d]
      BY <1>t, <1>a, <2>1 DEF Inv, OrderInv
    <2> QED BY <1>a, <2>1 DEF Inv, OrderInv, Open, Now
  <1>4. ConcludedInv' /\ BackupInv'
    BY <1>a, SupervisorKeeps DEF Inv, ConcludedInv
  <1> QED BY <1>1, <1>2, <1>3, <1>4 DEF Inv

(* The checkpoint of the current action is written, short of a verdict.    *)
LEMMA MarkKeeps ==
  ASSUME Inv, NEW t \in task, NEW a \in Actions, NEW pc,
         NEW phase \in {"planned", "mutation_started", "uncertain"},
         NEW next \in {"planned", "started", "uncertain", "reconcile"},
         At(t, a, pc), Marked(t.candidate, a, phase), Move(t, next),
         UNCHANGED <<head, work, orch, tree, prepared, up>>,
         UNCHANGED <<supervisorVars, historyVars>>,
         next = "planned" => phase = "planned",
         phase = "planned" => checkpoint[t.candidate][a] \in {"none", "planned"},
         next = "started" => a = "prepare_backup" /\ phase = "mutation_started"
                             /\ asked[t.candidate] = 0
  PROVE  Inv'
  <1> DEFINE c == t.candidate
  <1>t. /\ TypeOK /\ c \in Candidates /\ Open(c) /\ a = NextAction[orch[c]]
        /\ Now(c) = Position[a] /\ Position[a] \in 1..7
    BY AtFacts, ActionFacts DEF Inv
  <1>o. /\ orch[c] \notin {"none", "completed", "blocked"} /\ c \notin prepared
        /\ checkpoint[c]["prepare_backup"] # "completed"
    BY <1>t, OpenFacts
  <1>a. /\ checkpoint' \in [Candidates -> [Actions -> CheckpointPhases]]
        /\ checkpoint'[c][a] = phase
        /\ \A b \in Actions \ {a} : checkpoint'[c][b] = checkpoint[c][b]
        /\ \A d \in Candidates \ {c} : checkpoint'[d] = checkpoint[d]
    BY DEF Marked
  <1>1. TaskInv' /\ BudgetInv' /\ task' \in SUBSET Task
    BY <1>t, <1>a, MoveFacts DEF Places, Open, supervisorVars, historyVars
  <1> HIDE DEF c
  <1>2. TypeOK'
    BY <1>t, <1>a, <1>1 DEF TypeOK, supervisorVars, historyVars
  <1>3. OrderInv'
    <2> SUFFICES ASSUME NEW d \in Candidates
                 PROVE  /\ orch[d] = "none" => \A b \in Actions : checkpoint'[d][b] = "none"
                        /\ Open(d) =>
                           /\ \A b \in Actions : Position[b] < Now(d) => checkpoint'[d][b] = "completed"
                           /\ \A b \in Actions : Position[b] > Now(d) => checkpoint'[d][b] = "none"
                           /\ checkpoint'[d][NextAction[orch[d]]] \notin {"completed", "blocked"}
                           /\ Now(d) > 1 => tree[d]
      BY DEF OrderInv, Open, Now
    <2>1. CASE d = c
      <3>1. /\ \A b \in Actions : Position[b] < Now(c) => checkpoint[c][b] = "completed"
            /\ \A b \in Actions : Position[b] > Now(c) => checkpoint[c][b] = "none"
            /\ Now(c) > 1 => tree[c]
        BY <1>t DEF Inv, OrderInv
      <3> QED BY <1>t, <1>o, <1>a, <2>1, <3>1
    <2>2. CASE d # c
      BY <1>a, <2>2 DEF Inv, OrderInv
    <2> QED BY <2>1, <2>2
  <1>4. ConcludedInv'
    BY <1>o, <1>a DEF Inv, ConcludedInv
  <1>5. BackupInv'
    <2>1. checkpoint'[c]["prepare_backup"] \in {"none", "planned"} =>
             checkpoint[c]["prepare_backup"] \in {"none", "planned"}
      BY <1>a, ActionFacts DEF c
    <2> QED BY <1>a, <2>1 DEF Inv, BackupInv, supervisorVars
  <1>6. SettledTogether'
    <2>1. checkpoint'[c]["prepare_backup"] # "completed"
      BY <1>o, <1>a, ActionFacts
    <2> QED BY <1>o, <1>a, <2>1 DEF Inv, SettledTogether, supervisorVars, historyVars
  <1> QED BY <1>1, <1>2, <1>3, <1>4, <1>5, <1>6 DEF Inv

LEMMA PlanKeeps ==
  ASSUME Inv, NEW t \in task, NEW a \in Actions, Plan(t, a)
  PROVE  Inv'
  <1>1. Marked(t.candidate, a, "planned")
    BY CheckpointMarked, TaskFacts DEF Plan, Inv, CheckpointPhases
  <1> QED BY <1>1, MarkKeeps DEF Plan

LEMMA BackupMarkKeeps ==
  ASSUME Inv, NEW t \in task, StartBackup(t) \/ MarkUncertain(t) \/ ResumeBackup(t)
  PROVE  Inv'
  <1>t. TypeOK /\ t.candidate \in Candidates /\ "prepare_backup" \in Actions
    BY TaskFacts, ActionFacts DEF Inv
  <1>1. CASE StartBackup(t)
    <2>1. Marked(t.candidate, "prepare_backup", "mutation_started")
      BY <1>1, <1>t, CheckpointMarked DEF StartBackup, SetBackup, CheckpointPhases
    <2>2. asked[t.candidate] = 0
      BY <1>1, <1>t, AtFacts DEF StartBackup, Inv, TaskInv, BackupInv
    <2> QED BY <1>1, <1>t, <2>1, <2>2, MarkKeeps DEF StartBackup
  <1>2. CASE MarkUncertain(t) \/ ResumeBackup(t)
    <2>1. Marked(t.candidate, "prepare_backup", "uncertain")
      BY <1>2, <1>t, CheckpointMarked DEF MarkUncertain, ResumeBackup, SetBackup, CheckpointPhases
    <2> QED BY <1>2, <1>t, <2>1, MarkKeeps DEF MarkUncertain, ResumeBackup
  <1> QED BY <1>1, <1>2

LEMMA SendBackupKeeps ==
  ASSUME Inv, NEW t \in task, SendBackup(t)
  PROVE  Inv'
  <1> DEFINE c == t.candidate
  <1>t. /\ TypeOK /\ c \in Candidates /\ Open(c) /\ asked[c] = 0
        /\ checkpoint[c]["prepare_backup"] = "mutation_started"
    BY AtFacts DEF Inv, TaskInv, SendBackup
  <1>o. orch[c] \notin {"none", "completed", "blocked"} /\ c \notin prepared
    BY <1>t, OpenFacts
  <1>a. /\ UNCHANGED <<head, work, orch, checkpoint, tree, prepared, up, copies>>
        /\ UNCHANGED historyVars /\ Move(t, "sent")
        /\ asked' \in [Candidates -> Nat] /\ asked'[c] = 1
        /\ \A d \in Candidates \ {c} : asked'[d] = asked[d]
        /\ flight' = flight \cup {c}
    BY <1>t DEF SendBackup, TypeOK
  <1>1. TaskInv' /\ BudgetInv' /\ task' \in SUBSET Task
    BY <1>t, <1>a, MoveFacts DEF Places, Open, historyVars
  <1> HIDE DEF c
  <1>2. TypeOK'
    BY <1>t, <1>a, <1>1 DEF TypeOK, historyVars
  <1>3. BackupInv'
    <2>1. \A d \in Candidates \ {c} : d \in flight' <=> d \in flight
      BY <1>a
    <2>2. copies[c] \in Nat /\ copies[c] + (IF c \in flight THEN 1 ELSE 0) <= 0
      BY <1>t DEF Inv, BackupInv, TypeOK
    <2>3. copies'[c] + (IF c \in flight' THEN 1 ELSE 0) <= asked'[c]
      BY <1>a, <2>2
    <2> QED BY <1>t, <1>a, <2>1, <2>3 DEF Inv, BackupInv
  <1>4. SettledTogether'
    BY <1>o, <1>a DEF Inv, SettledTogether, historyVars
  <1> QED BY <1>a, <1>1, <1>2, <1>3, <1>4, EvidenceKeeps DEF Inv

(* A gate is passed: its checkpoint and the orchestration move together.   *)
LEMMA AdvanceKeeps ==
  ASSUME Inv, NEW t \in task, NEW a \in Preflight, NEW pc, At(t, a, pc), Advance(t, a),
         a = "fetch_stage" => pc = "renamed"
  PROVE  Inv'
  <1> DEFINE c == t.candidate
  <1>t. /\ TypeOK /\ c \in Candidates /\ Open(c) /\ a = NextAction[orch[c]] /\ a \in Actions
        /\ Now(c) = Position[a] /\ Position[a] \in 1..7 /\ a # "prepare_backup"
        /\ a = "fetch_stage" => tree[c]
    BY AtFacts, ActionFacts DEF Inv, TaskInv
  <1>o. orch[c] \notin {"none", "completed", "blocked"} /\ c \notin prepared
    BY <1>t, OpenFacts
  <1>s. /\ Successor[a] \in OpenPhases
        /\ Successor[a] \notin {"none", "completed", "blocked"}
        /\ Position[NextAction[Successor[a]]] = Position[a] + 1
        /\ NextAction[Successor[a]] \in Actions
    BY PhaseFacts
  <1>m. Marked(c, a, "completed")
    BY <1>t, CheckpointMarked DEF Advance, CheckpointPhases
  <1>a. /\ checkpoint' \in [Candidates -> [Actions -> CheckpointPhases]]
        /\ checkpoint'[c][a] = "completed"
        /\ \A b \in Actions \ {a} : checkpoint'[c][b] = checkpoint[c][b]
        /\ \A d \in Candidates \ {c} : checkpoint'[d] = checkpoint[d]
    BY <1>m DEF Marked
  <1>b. /\ orch' \in [Candidates -> Phases] /\ orch'[c] = Successor[a]
        /\ \A d \in Candidates \ {c} : orch'[d] = orch[d]
        /\ UNCHANGED <<head, work, tree, prepared, up>>
        /\ UNCHANGED <<supervisorVars, historyVars>> /\ Move(t, "release")
    BY <1>t, <1>s DEF Advance, TypeOK, Phases
  <1>1. TaskInv' /\ BudgetInv' /\ task' \in SUBSET Task
    BY <1>t, <1>s, <1>b, MoveFacts DEF Places, Open, historyVars
  <1> HIDE DEF c
  <1>2. TypeOK'
    BY <1>t, <1>a, <1>b, <1>1 DEF TypeOK, supervisorVars, historyVars
  <1>3. OrderInv'
    <2> SUFFICES ASSUME NEW d \in Candidates
                 PROVE  /\ orch'[d] = "none" => \A b \in Actions : checkpoint'[d][b] = "none"
                        /\ Open(d)' =>
                           /\ \A b \in Actions : Position[b] < Now(d)' => checkpoint'[d][b] = "completed"
                           /\ \A b \in Actions : Position[b] > Now(d)' => checkpoint'[d][b] = "none"
                           /\ checkpoint'[d][NextAction[orch'[d]]] \notin {"completed", "blocked"}
                           /\ Now(d)' > 1 => tree'[d]
      BY DEF OrderInv
    <2>1. CASE d = c
      <3>n. Now(c)' = Position[a] + 1 /\ orch'[c] # "none"
        BY <1>b, <1>s DEF Now
      <3>p. \A b \in Actions : Position[b] \in 1..7 /\ (Position[b] = Position[a] => b = a)
        BY <1>t, ActionFacts
      <3>1. \A b \in Actions : Position[b] < Now(c)' => checkpoint'[c][b] = "completed"
        <4> SUFFICES ASSUME NEW b \in Actions, Position[b] < Now(c)'
                     PROVE  checkpoint'[c][b] = "completed"
          OBVIOUS
        <4>1. CASE b = a
          BY <4>1, <1>a
        <4>2. CASE b # a
          <5>1. Position[b] < Now(c)
            BY <4>2, <3>n, <3>p, <1>t
          <5> QED BY <4>2, <5>1, <1>t, <1>a DEF Inv, OrderInv
        <4> QED BY <4>1, <4>2
      <3>2. \A b \in Actions : Position[b] > Now(c)' => checkpoint'[c][b] = "none"
        <4> SUFFICES ASSUME NEW b \in Actions, Position[b] > Now(c)'
                     PROVE  checkpoint'[c][b] = "none"
          OBVIOUS
        <4>1. Position[b] > Now(c) /\ b # a
          BY <3>n, <3>p, <1>t
        <4> QED BY <4>1, <1>t, <1>a DEF Inv, OrderInv
      <3>3. checkpoint'[c][NextAction[orch'[c]]] \notin {"completed", "blocked"}
        <4> DEFINE b == NextAction[Successor[a]]
        <4>1. b \in Actions /\ Position[b] > Now(c) /\ b # a
          BY <1>s, <1>t
        <4>2. checkpoint[c][b] = "none"
          BY <4>1, <1>t DEF Inv, OrderInv
        <4> QED BY <4>1, <4>2, <1>a, <1>b
      <3>4. tree'[c]
        <4>1. CASE a = "fetch_stage"
          BY <4>1, <1>t, <1>b
        <4>2. CASE a # "fetch_stage"
          <5>1. Now(c) > 1
            BY <4>2, <1>t, ActionFacts
          <5> QED BY <5>1, <1>t, <1>b DEF Inv, OrderInv
        <4> QED BY <4>1, <4>2
      <3> QED BY <2>1, <3>n, <3>1, <3>2, <3>3, <3>4
    <2>2. CASE d # c
      BY <1>a, <1>b, <2>2 DEF Inv, OrderInv, Open, Now
    <2> QED BY <2>1, <2>2
  <1>4. ConcludedInv'
    BY <1>s, <1>a, <1>b DEF Inv, ConcludedInv
  <1>5. BackupInv'
    <2>1. checkpoint'[c]["prepare_backup"] = checkpoint[c]["prepare_backup"]
      BY <1>t, <1>a, ActionFacts
    <2> QED BY <1>a, <1>b, <2>1 DEF Inv, BackupInv, supervisorVars
  <1>6. SettledTogether'
    <2>1. checkpoint'[c]["prepare_backup"] = checkpoint[c]["prepare_backup"]
      BY <1>t, <1>a, ActionFacts
    <2> QED BY <1>o, <1>s, <1>a, <1>b, <2>1 DEF Inv, SettledTogether, supervisorVars, historyVars
  <1> QED BY <1>1, <1>2, <1>3, <1>4, <1>5, <1>6 DEF Inv

(* A candidate is concluded: checkpoint, orchestration, prepared rows and  *)
(* work row say the same verdict.                                          *)
LEMMA ConcludeKeeps ==
  ASSUME Inv, NEW t \in task, NEW a \in Actions, NEW pc, At(t, a, pc),
         NEW phase \in {"completed", "blocked"}, Marked(t.candidate, a, phase),
         NEW verdict \in {"completed", "blocked"},
         orch' = [orch EXCEPT ![t.candidate] = verdict],
         NEW settled \in {"succeeded", "blocked"},
         work' = [work EXCEPT ![t.candidate].status = settled],
         prepared' = IF verdict = "completed" THEN prepared \cup {t.candidate} ELSE prepared,
         verdict = "completed" <=> a = "prepare_backup" /\ phase = "completed",
         verdict = "completed" <=> settled = "succeeded",
         verdict = "completed" => asked[t.candidate] = 1 /\ copies[t.candidate] = 1,
         task' = {}, UNCHANGED <<head, tree, up, supervisorVars, historyVars>>
  PROVE  Inv'
  <1> DEFINE c == t.candidate
             row == [status |-> settled, attempts |-> work[c].attempts]
  <1>t. /\ TypeOK /\ c \in Candidates /\ Open(c) /\ a = NextAction[orch[c]] /\ task = {t}
        /\ Now(c) = Position[a] /\ Position[a] \in 1..7
        /\ work[c] \in Row
    BY AtFacts, ActionFacts, TaskFacts DEF Inv
  <1>o. c \notin prepared /\ checkpoint[c]["prepare_backup"] # "completed"
    BY <1>t, OpenFacts
  <1>a. /\ checkpoint' \in [Candidates -> [Actions -> CheckpointPhases]]
        /\ checkpoint'[c][a] = phase
        /\ \A b \in Actions \ {a} : checkpoint'[c][b] = checkpoint[c][b]
        /\ \A d \in Candidates \ {c} : checkpoint'[d] = checkpoint[d]
    BY DEF Marked
  <1>b. /\ orch' \in [Candidates -> Phases] /\ orch'[c] = verdict
        /\ \A d \in Candidates \ {c} : orch'[d] = orch[d]
    BY <1>t DEF TypeOK, Phases
  <1>1. row \in Row /\ row.status = settled /\ row.attempts = work[c].attempts
    BY <1>t DEF Row
  <1> HIDE DEF c, row
  <1>2. Written(c, row)
    BY <1>t, <1>1, RowWritten DEF c
  <1>3. TypeOK'
    BY <1>t, <1>a, <1>b, <1>2 DEF TypeOK, Written, supervisorVars, historyVars, c
  <1>4. TaskInv'
    BY DEF TaskInv
  <1>5. OrderInv'
    <2> SUFFICES ASSUME NEW d \in Candidates
                 PROVE  /\ orch'[d] = "none" => \A b \in Actions : checkpoint'[d][b] = "none"
                        /\ Open(d)' =>
                           /\ \A b \in Actions : Position[b] < Now(d)' => checkpoint'[d][b] = "completed"
                           /\ \A b \in Actions : Position[b] > Now(d)' => checkpoint'[d][b] = "none"
                           /\ checkpoint'[d][NextAction[orch'[d]]] \notin {"completed", "blocked"}
                           /\ Now(d)' > 1 => tree'[d]
      BY DEF OrderInv
    <2>1. CASE d = c
      BY <2>1, <1>b, PhaseFacts DEF Open
    <2>2. CASE d # c
      BY <1>a, <1>b, <2>2 DEF Inv, OrderInv, Open, Now
    <2> QED BY <2>1, <2>2
  <1>6. ConcludedInv'
    <2>1. \A b \in Actions : Position[b] \in 1..7 /\ (Position[b] = Position[a] => b = a)
      BY <1>t, ActionFacts
    <2>2. \A b \in Actions : checkpoint'[c][b] # "none" <=> Position[b] <= Position[a]
      <3> SUFFICES ASSUME NEW b \in Actions
                   PROVE  checkpoint'[c][b] # "none" <=> Position[b] <= Position[a]
        OBVIOUS
      <3>1. CASE b = a
        BY <3>1, <1>t, <1>a
      <3>2. CASE b # a
        <4>1. Position[b] < Now(c) \/ Position[b] > Now(c)
          BY <3>2, <2>1, <1>t
        <4>2. /\ Position[b] < Now(c) => checkpoint[c][b] = "completed"
              /\ Position[b] > Now(c) => checkpoint[c][b] = "none"
          BY <1>t DEF Inv, OrderInv
        <4> QED BY <3>2, <4>1, <4>2, <2>1, <1>t, <1>a
      <3> QED BY <3>1, <3>2
    <2>3. verdict = "completed" => a = "prepare_backup"
      OBVIOUS
    <2> SUFFICES ASSUME NEW d \in Candidates, orch'[d] \in {"completed", "blocked"}
                 PROVE  \E e \in Actions :
                          /\ orch'[d] = "completed" => e = "prepare_backup"
                          /\ \A b \in Actions : checkpoint'[d][b] # "none"
                                                 <=> Position[b] <= Position[e]
      BY DEF ConcludedInv
    <2>4. CASE d = c
      BY <2>2, <2>3, <2>4, <1>b
    <2>5. CASE d # c
      BY <2>5, <1>a, <1>b DEF Inv, ConcludedInv
    <2> QED BY <2>4, <2>5
  <1>7. BackupInv'
    <2>1. checkpoint'[c]["prepare_backup"] \in {"none", "planned"} =>
             checkpoint[c]["prepare_backup"] \in {"none", "planned"}
      BY <1>a, ActionFacts
    <2> QED BY <1>a, <2>1 DEF Inv, BackupInv, supervisorVars
  <1>8. BudgetInv'
    <2>1. /\ \A d \in Candidates : interrupted[d] \in Nat /\ interrupted'[d] = interrupted[d]
          /\ \A d \in Candidates \ {c} : \A s \in task : s.candidate # d
          /\ \A d \in Candidates \ {c} : work'[d] = work[d]
          /\ work'[c].attempts = work[c].attempts /\ work'[c].status = settled
      <3>1. \A d \in Candidates : interrupted[d] \in Nat /\ interrupted'[d] = interrupted[d]
        BY <1>t DEF TypeOK, historyVars
      <3>2. \A s \in task : s.candidate = c
        BY <1>t DEF c
      <3>3. \A d \in Candidates \ {c} : work'[d] = work[d]
        BY <1>2 DEF Written
      <3>4. work'[c].attempts = work[c].attempts /\ work'[c].status = settled
        BY <1>1, <1>2 DEF Written
      <3> QED BY <3>1, <3>2, <3>3, <3>4
    <2>2. /\ work'[c].attempts <= MaxAttempts + interrupted'[c]
          /\ work'[c].status \notin {"pending", "retry", "running"}
      BY <1>t, <2>1 DEF Inv, BudgetInv
    <2>3. \A d \in Candidates \ {c} :
            /\ work'[d].attempts <= MaxAttempts + interrupted'[d]
            /\ work'[d].status \in {"pending", "retry", "running"}
               => work'[d].attempts < MaxAttempts + interrupted'[d]
      BY <2>1 DEF Inv, BudgetInv
    <2> QED BY <2>2, <2>3 DEF BudgetInv
  <1>9. SettledTogether'
    <2> SUFFICES ASSUME NEW d \in Candidates
                 PROVE  /\ d \in prepared' <=> orch'[d] = "completed"
                        /\ d \in prepared' <=> checkpoint'[d]["prepare_backup"] = "completed"
                        /\ d \in prepared' <=> work'[d].status = "succeeded"
                        /\ d \in prepared' => /\ \A b \in Actions : checkpoint'[d][b] = "completed"
                                              /\ asked'[d] = 1 /\ copies'[d] = 1
                        /\ orch'[d] = "blocked" /\ retried'[d] = 0 => work'[d].status = "blocked"
      BY DEF SettledTogether
    <2>1. CASE d # c
      BY <2>1, <1>a, <1>b, <1>2 DEF Inv, SettledTogether, Written, supervisorVars, historyVars, c
    <2>2. CASE d = c
      <3>1. c \in prepared' <=> verdict = "completed"
        BY <1>o DEF c
      <3>2. checkpoint'[c]["prepare_backup"] = "completed" <=> verdict = "completed"
        BY <1>o, <1>a, ActionFacts
      <3>3. work'[c].status = settled
        BY <1>1, <1>2 DEF Written
      <3>4. ASSUME verdict = "completed" PROVE \A b \in Actions : checkpoint'[c][b] = "completed"
        <4>1. \A b \in Actions : b = a \/ Position[b] < Now(c)
          BY <3>4, <1>t, ActionFacts
        <4> QED BY <3>4, <4>1, <1>t, <1>a DEF Inv, OrderInv
      <3> QED BY <2>2, <3>1, <3>2, <3>3, <3>4, <1>b DEF supervisorVars, c
    <2> QED BY <2>1, <2>2
  <1> QED BY <1>3, <1>4, <1>5, <1>6, <1>7, <1>8, <1>9 DEF Inv

LEMMA RejectKeeps ==
  ASSUME Inv, NEW t \in task, NEW a \in Actions, NEW pc, At(t, a, pc),
         NEW phase \in {"completed", "blocked"}, Reject(t, a, phase),
         a = "prepare_backup" => phase = "blocked"
  PROVE  Inv'
  <1>t. TypeOK /\ t.candidate \in Candidates /\ phase \in CheckpointPhases
    BY TaskFacts DEF Inv, CheckpointPhases
  <1>1. Marked(t.candidate, a, phase)
    BY <1>t, CheckpointMarked DEF Reject
  <1> QED BY <1>1, ConcludeKeeps DEF Reject

(* A backup in the inventory is the one backup that was asked for.         *)
LEMMA CopiedOnce ==
  ASSUME Inv, NEW c \in Candidates, copies[c] > 0
  PROVE  asked[c] = 1 /\ copies[c] = 1
  <1>1. copies[c] \in Nat
    BY DEF Inv, TypeOK
  <1>2. asked[c] \in {0, 1} /\ copies[c] + (IF c \in flight THEN 1 ELSE 0) <= asked[c]
    BY DEF Inv, BackupInv
  <1>3. copies[c] <= asked[c]
    <2>1. CASE c \in flight
      BY <2>1, <1>1, <1>2
    <2>2. CASE c \notin flight
      BY <2>2, <1>1, <1>2
    <2> QED BY <2>1, <2>2
  <1> QED BY <1>1, <1>2, <1>3

LEMMA PrepareKeeps ==
  ASSUME Inv, NEW t \in task, PrepareBackup(t)
  PROVE  Inv'
  <1>t. TypeOK /\ t.candidate \in Candidates /\ "prepare_backup" \in Actions
    BY TaskFacts, ActionFacts DEF Inv
  <1>1. Marked(t.candidate, "prepare_backup", "completed")
    BY <1>t, CheckpointMarked DEF PrepareBackup, SetBackup, CheckpointPhases
  <1>2. PICK pc : At(t, "prepare_backup", pc)
    BY DEF PrepareBackup
  <1>3. asked[t.candidate] = 1 /\ copies[t.candidate] = 1
    <2>1. copies[t.candidate] > 0
      <3>1. t.pc = "answered" \/ copies[t.candidate] = 1
        BY DEF PrepareBackup, At
      <3>2. t.pc = "answered" => copies[t.candidate] > 0
        BY DEF Inv, TaskInv
      <3> QED BY <3>1, <3>2
    <2> QED BY <1>t, <2>1, CopiedOnce
  <1> QED BY <1>t, <1>1, <1>2, <1>3, ConcludeKeeps DEF PrepareBackup
-----------------------------------------------------------------------------
(* The invariant is inductive *)

LEMMA GateKeeps ==
  ASSUME Inv, NEW t \in task, Gate(t)
  PROVE  Inv'
  <1>1. CASE Register(t)
    BY <1>1, RegisterKeeps
  <1>2. CASE \E a \in Actions : Plan(t, a)
    BY <1>2, PlanKeeps
  <1>3. CASE EvidenceInvalid(t) \/ Superseded(t) \/ Unavailable(t)
    BY <1>3, FailKeeps DEF EvidenceInvalid, Superseded, Unavailable
  <1>4. CASE CleanStage(t) \/ RenameStage(t)
    BY <1>4, StageKeeps
  <1>5. CASE Observe(t)
    BY <1>5, MoveKeeps
  <1>6. CASE \/ FetchStage(t) \/ AnalyzeIntegrity(t) \/ AnalyzeDependencies(t)
             \/ ClassifyRisk(t)
    BY <1>6, AdvanceKeeps
       DEF FetchStage, AnalyzeIntegrity, AnalyzeDependencies, ClassifyRisk, Preflight
  <1>7. CASE ValidateStatic(t) \/ ValidateSemantics(t)
    <2>1. CASE ValidateStatic(t)
      BY <2>1, AdvanceKeeps, RejectKeeps DEF ValidateStatic, Actions, Preflight
    <2>2. CASE ValidateSemantics(t)
      BY <2>2, AdvanceKeeps, RejectKeeps DEF ValidateSemantics, Actions, Preflight
    <2> QED BY <1>7, <2>1, <2>2
  <1> QED BY <1>1, <1>2, <1>3, <1>4, <1>5, <1>6, <1>7 DEF Gate

LEMMA BackupKeeps ==
  ASSUME Inv, NEW t \in task, Backup(t)
  PROVE  Inv'
  <1>1. CASE StartBackup(t) \/ MarkUncertain(t) \/ ResumeBackup(t)
    BY <1>1, BackupMarkKeeps
  <1>2. CASE SendBackup(t)
    BY <1>2, SendBackupKeeps
  <1>3. CASE BackupAnswered(t) \/ BackupUnclear(t)
    BY <1>3, MoveKeeps
  <1>4. CASE LeaveUncertain(t)
    BY <1>4, FailKeeps DEF LeaveUncertain
  <1>5. CASE PrepareBackup(t)
    BY <1>5, PrepareKeeps
  <1>6. CASE BlockBackup(t)
    BY <1>6, RejectKeeps, ActionFacts DEF BlockBackup
  <1> QED BY <1>1, <1>2, <1>3, <1>4, <1>5, <1>6 DEF Backup

LEMMA UnchangedKeeps ==
  ASSUME Inv, UNCHANGED vars
  PROVE  Inv'
  <1> USE DEF vars
  <1>1. TypeOK' /\ TaskInv' /\ BudgetInv' /\ SettledTogether'
    <2>1. TypeOK'
      BY DEF Inv, TypeOK
    <2>2. TaskInv'
      BY DEF Inv, TaskInv, Open
    <2>3. BudgetInv'
      BY DEF Inv, BudgetInv
    <2>4. SettledTogether'
      BY DEF Inv, SettledTogether
    <2> QED BY <2>1, <2>2, <2>3, <2>4
  <1>2. BackupInv'
    BY DEF Inv, BackupInv
  <1> QED BY <1>1, <1>2, EvidenceKeeps DEF Inv

LEMMA StepInv == Inv /\ [Next]_vars => Inv'
  <1> SUFFICES ASSUME Inv, [Next]_vars PROVE Inv'
    OBVIOUS
  <1>1. CASE \/ (\E h \in {{}} \cup {{c} : c \in Candidates} : Push(h)) \/ Crash \/ Boot
    BY <1>1, StopKeeps
  <1>2. CASE Detect \/ Recover
    BY <1>2, DetectKeeps, RecoverKeeps
  <1>3. CASE \E c \in Candidates : RoutineClaim(c) \/ RetriggerClaim(c)
    BY <1>3, ClaimKeeps
  <1>4. ASSUME NEW t \in task, Execute(t) PROVE Inv'
    <2>1. CASE Release(t)
      BY <2>1, ReleaseKeeps
    <2>2. CASE ReleaseFails(t)
      BY <2>2, FailKeeps DEF ReleaseFails
    <2> QED BY <1>4, <2>1, <2>2, GateKeeps, BackupKeeps DEF Execute
  <1>5. CASE \E t \in task : Abandon(t)
    BY <1>5, StopKeeps
  <1>6. CASE \E c \in Candidates : TakeBackup(c) \/ LoseBackup(c)
    BY <1>6, FlightKeeps
  <1>7. CASE \E c \in Candidates : BootWithRetry(c)
    BY <1>7, BootWithRetryKeeps
  <1>8. CASE UNCHANGED vars
    BY <1>8, UnchangedKeeps
  <1> QED BY <1>1, <1>2, <1>3, <1>4, <1>5, <1>6, <1>7, <1>8 DEF Next

LEMMA Inductive == Spec => []Inv
  BY InitInv, StepInv, PTL DEF Spec

(* The evidence of an open candidate is complete up to the action it waits *)
(* for and empty beyond, its Stage in place, after any crash, failure or   *)
(* retry: the executors' _complete_atomically never parts them.            *)
THEOREM EvidenceInOrder == Spec => []StagesInOrder
  <1>1. Inv => StagesInOrder
    BY DEF Inv, OrderInv, StagesInOrder, Open, Now
  <1> QED BY <1>1, Inductive, PTL

(* The rows _finish_atomically writes agree, and a prepared deployment     *)
(* rests on seven completed checkpoints and exactly one backup.            *)
THEOREM RowsSettleTogether == Spec => []SettledTogether
  <1>1. Inv => SettledTogether
    BY DEF Inv
  <1> QED BY <1>1, Inductive, PTL

-----------------------------------------------------------------------------
(* The pipeline implements the protocol *)

Passed == [c \in Candidates |-> Gates(c)]
Verdict(c) == CASE orch[c] = "completed" -> "prepared"
                [] orch[c] = "blocked" -> "refused"
                [] OTHER -> "none"
Verdicts == [c \in Candidates |-> Verdict(c)]
protocolState == <<Passed, asked, Verdicts>>

(* Actions up to a position: as many as the position says.                 *)
LEMMA UpTo ==
  \A a \in Actions : Cardinality({b \in Actions : Position[b] <= Position[a]}) = Position[a]
  <1> DEFINE S(n) == {b \in Actions : Position[b] <= n}
  <1>1. ASSUME NEW n \in 0..6, NEW a \in Actions, Position[a] = n + 1,
               IsFiniteSet(S(n)), Cardinality(S(n)) = n
        PROVE  IsFiniteSet(S(n + 1)) /\ Cardinality(S(n + 1)) = n + 1
    <2>1. \A b \in Actions : Position[b] \in 1..7 /\ (Position[b] = n + 1 => b = a)
      BY <1>1, ActionFacts
    <2>2. S(n + 1) = S(n) \cup {a}
      BY <1>1, <2>1
    <2>3. a \notin S(n)
      BY <1>1
    <2> HIDE DEF S
    <2> QED BY <1>1, <2>2, <2>3, FS_AddElement
  <1>2. IsFiniteSet(S(0)) /\ Cardinality(S(0)) = 0
    <2>1. S(0) = {}
      BY ActionFacts
    <2> QED BY <2>1, FS_EmptySet
  <1> HIDE DEF S
  <1>3. \A n \in 1..7 : \E a \in Actions : Position[a] = n
    BY Tables
  <1>4. \A n \in 0..6 : IsFiniteSet(S(n)) /\ Cardinality(S(n)) = n
                        => IsFiniteSet(S(n + 1)) /\ Cardinality(S(n + 1)) = n + 1
    <2> SUFFICES ASSUME NEW n \in 0..6, IsFiniteSet(S(n)), Cardinality(S(n)) = n
                 PROVE  IsFiniteSet(S(n + 1)) /\ Cardinality(S(n + 1)) = n + 1
      OBVIOUS
    <2>1. PICK a \in Actions : Position[a] = n + 1
      BY <1>3
    <2> QED BY <1>1, <2>1
  <1> DEFINE P(n) == IsFiniteSet(S(n)) /\ Cardinality(S(n)) = n
  <1>5. P(0) /\ \A n \in 0..6 : P(n) => P(n + 1)
    BY <1>2, <1>4
  <1> HIDE DEF P
  <1>6. P(1) /\ P(2) /\ P(3) /\ P(4) /\ P(5) /\ P(6) /\ P(7)
    <2>1. P(0 + 1) /\ P(1 + 1) /\ P(2 + 1) /\ P(3 + 1) /\ P(4 + 1) /\ P(5 + 1) /\ P(6 + 1)
      BY <1>5
    <2> QED BY <2>1
  <1>7. \A n \in 1..7 : Cardinality(S(n)) = n
    BY <1>6 DEF P
  <1> QED BY <1>7, ActionFacts DEF S

LEMMA RowCount ==
  ASSUME NEW row, NEW a \in Actions,
         \A b \in Actions : row[b] # "none" <=> Position[b] <= Position[a]
  PROVE  Cardinality({b \in Actions : row[b] # "none"}) = Position[a]
  <1>1. {b \in Actions : row[b] # "none"} = {b \in Actions : Position[b] <= Position[a]}
    OBVIOUS
  <1> QED BY <1>1, UpTo

(* Both as functions of the two rows they read.                            *)
GatesOf(phase, row) ==
  CASE phase = "none" -> 0
    [] phase \in OpenPhases -> Position[NextAction[phase]]
    [] OTHER -> Cardinality({a \in Actions : row[a] # "none"})
VerdictOf(phase) == CASE phase = "completed" -> "prepared"
                      [] phase = "blocked" -> "refused"
                      [] OTHER -> "none"

LEMMA OfRows ==
  ASSUME NEW c \in Candidates
  PROVE  /\ Gates(c) = GatesOf(orch[c], checkpoint[c])
         /\ Gates(c)' = GatesOf(orch'[c], checkpoint'[c])
         /\ Verdict(c) = VerdictOf(orch[c]) /\ Verdict(c)' = VerdictOf(orch'[c])
  BY DEF Gates, GatesOf, Verdict, VerdictOf

LEMMA GatesAre ==
  ASSUME NEW phase, NEW row
  PROVE  /\ phase = "none" => GatesOf(phase, row) = 0
         /\ phase \in OpenPhases => GatesOf(phase, row) = Position[NextAction[phase]]
         /\ phase \in {"none"} \cup OpenPhases => VerdictOf(phase) = "none"
         /\ phase = "completed" => VerdictOf(phase) = "prepared"
         /\ phase = "blocked" => VerdictOf(phase) = "refused"
  <1>1. phase \in OpenPhases => phase \notin {"none", "completed", "blocked"}
    BY PhaseFacts
  <1>2. /\ phase \in {"none"} \cup OpenPhases => VerdictOf(phase) = "none"
        /\ phase = "completed" => VerdictOf(phase) = "prepared"
        /\ phase = "blocked" => VerdictOf(phase) = "refused"
    BY <1>1 DEF VerdictOf
  <1>3. phase = "none" => GatesOf(phase, row) = 0
    BY <1>1 DEF GatesOf
  <1>4. phase \in OpenPhases => GatesOf(phase, row) = Position[NextAction[phase]]
    BY <1>1 DEF GatesOf
  <1> QED BY <1>2, <1>3, <1>4

(* A candidate the step does not conclude, register or advance.            *)
LEMMA SameGates ==
  ASSUME NEW c \in Candidates, orch'[c] = orch[c],
         orch[c] \in OpenPhases \/ checkpoint'[c] = checkpoint[c]
  PROVE  Gates(c)' = Gates(c) /\ Verdict(c)' = Verdict(c)
  BY OfRows, GatesAre

(* A step the protocol does not see.                                       *)
LEMMA Unseen ==
  ASSUME UNCHANGED <<orch, asked>>,
         \A c \in Candidates : orch[c] \in OpenPhases \/ checkpoint'[c] = checkpoint[c]
  PROVE  UNCHANGED protocolState
  <1>1. \A c \in Candidates : Gates(c)' = Gates(c) /\ Verdict(c)' = Verdict(c)
    BY SameGates
  <1>2. Passed' = Passed
    BY <1>1 DEF Passed
  <1>3. Verdicts' = Verdicts
    BY <1>1 DEF Verdicts
  <1> QED BY <1>2, <1>3 DEF protocolState

(* One candidate passes a gate.                                            *)
LEMMA PassSeen ==
  ASSUME NEW c \in Candidates, NEW n \in 0..6, Gates(c) = n, Gates(c)' = n + 1,
         Verdict(c) = "none", Verdict(c)' = "none", asked' = asked,
         \A d \in Candidates \ {c} : orch'[d] = orch[d] /\ checkpoint'[d] = checkpoint[d]
  PROVE  Protocol!Next
  <1>1. \A d \in Candidates \ {c} : Gates(d)' = Gates(d) /\ Verdict(d)' = Verdict(d)
    BY SameGates
  <1>2. /\ Passed' \in [Candidates -> {Gates(d)' : d \in Candidates}]
        /\ Passed'[c] = n + 1 /\ Passed[c] = n
        /\ \A d \in Candidates \ {c} : Passed'[d] = Passed[d]
    BY <1>1 DEF Passed
  <1>3. Passed' = [Passed EXCEPT ![c] = Passed[c] + 1]
    <2>1. DOMAIN Passed' = Candidates /\ DOMAIN Passed = Candidates
      BY DEF Passed
    <2>2. Passed' = [d \in Candidates |-> IF d = c THEN Passed[c] + 1 ELSE Passed[d]]
      BY <1>2, <2>1
    <2> QED BY <2>1, <2>2 DEF Passed
  <1>4. Verdicts' = Verdicts /\ Verdicts[c] = "none" /\ Passed[c] < 7
    BY <1>1, <1>2 DEF Verdicts
  <1>5. Protocol!Pass(c)
    BY <1>3, <1>4 DEF Protocol!Pass, Passed, Verdicts, Verdict
  <1> QED BY <1>5 DEF Protocol!Next

LEMMA RegisterSeen ==
  ASSUME Inv, NEW t \in task, Register(t)
  PROVE  Protocol!Next
  <1> DEFINE c == t.candidate
  <1>t. c \in Candidates /\ orch \in [Candidates -> Phases]
    BY TaskFacts DEF Inv, TypeOK
  <1>a. /\ orch[c] = "none" /\ orch'[c] = "detected" /\ asked' = asked
        /\ checkpoint' = checkpoint /\ \A d \in Candidates \ {c} : orch'[d] = orch[d]
    BY <1>t DEF Register, supervisorVars
  <1> HIDE DEF c
  <1>1. Gates(c) = 0 /\ Verdict(c) = "none"
    BY <1>t, <1>a, OfRows, GatesAre
  <1>2. Gates(c)' = 1 /\ Verdict(c)' = "none"
    BY <1>t, <1>a, OfRows, GatesAre, PhaseFacts, ActionFacts
  <1> QED BY <1>t, <1>a, <1>1, <1>2, PassSeen

LEMMA AdvanceSeen ==
  ASSUME Inv, NEW t \in task, NEW a \in Preflight, NEW pc, At(t, a, pc), Advance(t, a)
  PROVE  Protocol!Next
  <1> DEFINE c == t.candidate
  <1>t. /\ c \in Candidates /\ orch[c] \in OpenPhases /\ a = NextAction[orch[c]]
        /\ Position[a] \in 1..6 /\ TypeOK /\ a \in Actions
    BY AtFacts, ActionFacts DEF Open, Inv
  <1>a. /\ orch'[c] = Successor[a] /\ asked' = asked
        /\ \A d \in Candidates \ {c} : orch'[d] = orch[d] /\ checkpoint'[d] = checkpoint[d]
    BY <1>t DEF Advance, supervisorVars, TypeOK
  <1> HIDE DEF c
  <1>1. Gates(c) = Position[a] /\ Verdict(c) = "none"
    BY <1>t, OfRows, GatesAre
  <1>2. Gates(c)' = Position[a] + 1 /\ Verdict(c)' = "none"
    BY <1>t, <1>a, OfRows, GatesAre, PhaseFacts
  <1> QED BY <1>t, <1>a, <1>1, <1>2, PassSeen

(* The one backup request.                                                 *)
LEMMA SendBackupSeen ==
  ASSUME Inv, NEW t \in task, SendBackup(t)
  PROVE  Protocol!Next
  <1> DEFINE c == t.candidate
  <1>t. /\ c \in Candidates /\ orch[c] \in OpenPhases /\ "prepare_backup" = NextAction[orch[c]]
        /\ TypeOK /\ asked[c] = 0
    BY AtFacts DEF Open, Inv, SendBackup, TaskInv
  <1>a. /\ UNCHANGED <<orch, checkpoint>> /\ asked' = [asked EXCEPT ![c] = 1]
    BY <1>t DEF SendBackup, TypeOK
  <1> HIDE DEF c
  <1>1. Gates(c) = 7 /\ Verdict(c) = "none"
    BY <1>t, OfRows, GatesAre, ActionFacts
  <1>2. \A d \in Candidates : Gates(d)' = Gates(d) /\ Verdict(d)' = Verdict(d)
    BY <1>a, SameGates
  <1>3. Passed' = Passed /\ Passed[c] = 7
    BY <1>t, <1>1, <1>2 DEF Passed
  <1>4. Verdicts' = Verdicts /\ Verdicts[c] = "none"
    BY <1>t, <1>1, <1>2 DEF Verdicts
  <1>5. Protocol!Request(c)
    BY <1>t, <1>a, <1>3, <1>4 DEF Protocol!Request, Passed, Verdicts, Verdict
  <1> QED BY <1>t, <1>5 DEF Protocol!Next

(* A conclusion: the gates passed until then stay counted.                 *)
LEMMA ConcludeSeen ==
  ASSUME Inv, NEW t \in task, NEW a \in Actions, NEW pc, At(t, a, pc),
         NEW phase \in {"completed", "blocked"}, Marked(t.candidate, a, phase),
         NEW verdict \in {"completed", "blocked"},
         orch' = [orch EXCEPT ![t.candidate] = verdict],
         verdict = "completed" => asked[t.candidate] = 1, asked' = asked
  PROVE  Protocol!Next
  <1> DEFINE c == t.candidate
  <1>t. /\ c \in Candidates /\ orch[c] \in OpenPhases /\ a = NextAction[orch[c]]
        /\ TypeOK /\ Position[a] \in 1..7 /\ Now(c) = Position[a]
    BY AtFacts, ActionFacts DEF Open, Inv
  <1>a. /\ orch'[c] = verdict /\ checkpoint'[c][a] = phase
        /\ \A b \in Actions \ {a} : checkpoint'[c][b] = checkpoint[c][b]
        /\ \A d \in Candidates \ {c} : orch'[d] = orch[d] /\ checkpoint'[d] = checkpoint[d]
    BY <1>t DEF Marked, TypeOK
  <1> HIDE DEF c
  <1>1. Gates(c) = Position[a] /\ Verdict(c) = "none"
    BY <1>t, OfRows, GatesAre
  <1>2. \A b \in Actions : checkpoint'[c][b] # "none" <=> Position[b] <= Position[a]
    <2> SUFFICES ASSUME NEW b \in Actions
                 PROVE  checkpoint'[c][b] # "none" <=> Position[b] <= Position[a]
      OBVIOUS
    <2>1. CASE b = a
      BY <2>1, <1>t, <1>a
    <2>2. CASE b # a
      <3>1. /\ Position[b] < Now(c) \/ Position[b] > Now(c)
            /\ Position[b] \in 1..7
        BY <2>2, <1>t, ActionFacts
      <3>2. /\ Position[b] < Now(c) => checkpoint[c][b] = "completed"
            /\ Position[b] > Now(c) => checkpoint[c][b] = "none"
        BY <1>t DEF Inv, OrderInv, Open
      <3> QED BY <2>2, <3>1, <3>2, <1>t, <1>a
    <2> QED BY <2>1, <2>2
  <1>3. Gates(c)' = Position[a]
    <2>1. Gates(c)' = GatesOf(orch'[c], checkpoint'[c])
      BY <1>t, OfRows
    <2>2. GatesOf(orch'[c], checkpoint'[c])
            = Cardinality({b \in Actions : checkpoint'[c][b] # "none"})
      BY <1>a, PhaseFacts DEF GatesOf
    <2> QED BY <2>1, <2>2, <1>2, RowCount
  <1>4. \A d \in Candidates \ {c} : Gates(d)' = Gates(d) /\ Verdict(d)' = Verdict(d)
    BY <1>a, SameGates
  <1>5. Passed' = Passed /\ Passed[c] > 0
    BY <1>t, <1>1, <1>3, <1>4 DEF Passed
  <1>6. Verdict(c)' = IF verdict = "completed" THEN "prepared" ELSE "refused"
    BY <1>t, <1>a, OfRows, GatesAre
  <1>7. Verdicts' = [Verdicts EXCEPT ![c] = IF verdict = "completed" THEN "prepared"
                                                                       ELSE "refused"]
    BY <1>t, <1>4, <1>6 DEF Verdicts
  <1>8. Verdicts[c] = "none"
    BY <1>t, <1>1 DEF Verdicts
  <1>9. CASE verdict = "completed"
    <2>1. Verdicts' = [Verdicts EXCEPT ![c] = "prepared"] /\ asked[c] = 1
      BY <1>7, <1>9 DEF c
    <2>2. Protocol!Prepare(c)
      BY <2>1, <1>5, <1>8 DEF Protocol!Prepare, Passed, Verdicts, Verdict
    <2> QED BY <1>t, <2>2 DEF Protocol!Next
  <1>10. CASE verdict = "blocked"
    <2>1. Verdicts' = [Verdicts EXCEPT ![c] = "refused"]
      BY <1>7, <1>10
    <2>2. Protocol!Refuse(c)
      BY <2>1, <1>5, <1>8 DEF Protocol!Refuse, Passed, Verdicts, Verdict
    <2> QED BY <1>t, <2>2 DEF Protocol!Next
  <1> QED BY <1>9, <1>10

LEMMA MarkSeen ==
  ASSUME Inv, NEW t \in task, Open(t.candidate), NEW a \in Actions, NEW phase,
         Marked(t.candidate, a, phase), UNCHANGED <<orch, asked>>
  PROVE  UNCHANGED protocolState
  BY Unseen DEF Marked, Open

LEMMA StepSeen == Inv /\ [Next]_vars => [Protocol!Next]_protocolState
  <1> SUFFICES ASSUME Inv, [Next]_vars PROVE Protocol!Next \/ UNCHANGED protocolState
    OBVIOUS
  <1>t. TypeOK /\ "prepare_backup" \in Actions
    BY ActionFacts DEF Inv
  <1>0. CASE UNCHANGED <<orch, checkpoint, asked>>
    BY <1>0, Unseen
  <1>1. ASSUME NEW t \in task, Gate(t) PROVE Protocol!Next \/ UNCHANGED protocolState
    <2>1. CASE Register(t)
      BY <2>1, RegisterSeen
    <2>2. ASSUME NEW a \in Actions, Plan(t, a) PROVE UNCHANGED protocolState
      <3>1. Marked(t.candidate, a, "planned") /\ Open(t.candidate)
        BY <2>2, <1>t, TaskFacts, AtFacts, CheckpointMarked DEF Plan, CheckpointPhases
      <3>2. UNCHANGED <<orch, asked>>
        BY <2>2 DEF Plan, supervisorVars
      <3> QED BY <3>1, <3>2, MarkSeen
    <2>3. CASE \/ FetchStage(t) \/ AnalyzeIntegrity(t) \/ AnalyzeDependencies(t)
               \/ ClassifyRisk(t)
      BY <2>3, AdvanceSeen
         DEF FetchStage, AnalyzeIntegrity, AnalyzeDependencies, ClassifyRisk, Preflight
    <2>4. CASE \E a \in Preflight, phase \in {"completed", "blocked"}, pc \in Places :
                 At(t, a, pc) /\ (Advance(t, a) \/ Reject(t, a, phase))
      <3>1. PICK a \in Preflight, phase \in {"completed", "blocked"}, pc \in Places :
                 At(t, a, pc) /\ (Advance(t, a) \/ Reject(t, a, phase))
        BY <2>4
      <3>2. CASE Advance(t, a)
        BY <3>1, <3>2, AdvanceSeen
      <3>3. CASE Reject(t, a, phase)
        <4>1. t.candidate \in Candidates /\ a \in Actions /\ phase \in CheckpointPhases
          BY TaskFacts DEF Actions, CheckpointPhases
        <4>2. Marked(t.candidate, a, phase)
          BY <3>3, <4>1, <1>t, CheckpointMarked DEF Reject
        <4>3. /\ orch' = [orch EXCEPT ![t.candidate] = "blocked"] /\ asked' = asked
              /\ "blocked" \in {"completed", "blocked"} /\ "blocked" # "completed"
          BY <3>3 DEF Reject, supervisorVars
        <4>4. At(t, a, pc) /\ phase \in {"completed", "blocked"}
          BY <3>1
        <4>5. Protocol!Next
          BY <4>1, <4>2, <4>3, <4>4, ConcludeSeen
        <4> QED BY <4>5
      <3> QED BY <3>1, <3>2, <3>3
    <2>5. CASE ValidateStatic(t) \/ ValidateSemantics(t)
      <3>1. /\ {"validate", "validate_semantics"} \subseteq Preflight /\ "planned" \in Places
        BY DEF Preflight, Places
      <3>2. CASE ValidateStatic(t)
        <4>1. /\ At(t, "validate", "planned")
              /\ Advance(t, "validate") \/ Reject(t, "validate", "completed")
          BY <3>2 DEF ValidateStatic
        <4> QED BY <2>4, <3>1, <4>1
      <3>3. CASE ValidateSemantics(t)
        <4>1. /\ At(t, "validate_semantics", "planned")
              /\ Advance(t, "validate_semantics") \/ Reject(t, "validate_semantics", "blocked")
          BY <3>3 DEF ValidateSemantics
        <4> QED BY <2>4, <3>1, <4>1
      <3> QED BY <2>5, <3>2, <3>3
    <2>6. CASE \/ EvidenceInvalid(t) \/ Superseded(t) \/ Unavailable(t)
               \/ CleanStage(t) \/ Observe(t) \/ RenameStage(t)
      <3>1. UNCHANGED <<orch, checkpoint, asked>>
        BY <2>6 DEF EvidenceInvalid, Superseded, Unavailable, Fail, CleanStage, Observe,
                    RenameStage, supervisorVars
      <3> QED BY <3>1, <1>0
    <2> QED BY <1>1, <2>1, <2>2, <2>3, <2>5, <2>6 DEF Gate
  <1>2. ASSUME NEW t \in task, Backup(t) PROVE Protocol!Next \/ UNCHANGED protocolState
    <2>1. CASE SendBackup(t)
      BY <2>1, SendBackupSeen
    <2>2. CASE StartBackup(t) \/ MarkUncertain(t) \/ ResumeBackup(t)
      <3>1. PICK phase \in CheckpointPhases : SetBackup(t.candidate, phase)
        BY <2>2 DEF StartBackup, MarkUncertain, ResumeBackup, CheckpointPhases
      <3>2. Marked(t.candidate, "prepare_backup", phase)
        BY <3>1, <1>t, TaskFacts, CheckpointMarked DEF SetBackup
      <3>3. Open(t.candidate) /\ UNCHANGED <<orch, asked>>
        BY <2>2, AtFacts DEF StartBackup, MarkUncertain, ResumeBackup, supervisorVars
      <3> QED BY <3>2, <3>3, <1>t, MarkSeen
    <2>3. CASE PrepareBackup(t)
      <3>1. t.candidate \in Candidates /\ "completed" \in CheckpointPhases
        BY TaskFacts DEF CheckpointPhases
      <3>2. Marked(t.candidate, "prepare_backup", "completed")
        BY <2>3, <3>1, <1>t, CheckpointMarked DEF PrepareBackup, SetBackup
      <3>3. asked[t.candidate] = 1
        <4>1. copies[t.candidate] > 0
          <5>1. t.pc = "answered" \/ copies[t.candidate] = 1
            BY <2>3 DEF PrepareBackup, At
          <5>2. t.pc = "answered" => copies[t.candidate] > 0
            BY DEF Inv, TaskInv
          <5> QED BY <5>1, <5>2
        <4> QED BY <3>1, <4>1, CopiedOnce
      <3>4. PICK pc : At(t, "prepare_backup", pc)
        BY <2>3 DEF PrepareBackup
      <3> QED BY <2>3, <3>2, <3>3, <3>4, <1>t, ConcludeSeen DEF PrepareBackup, supervisorVars
    <2>4. CASE BlockBackup(t)
      <3>1. t.candidate \in Candidates /\ "blocked" \in CheckpointPhases
        BY TaskFacts DEF CheckpointPhases
      <3>2. Marked(t.candidate, "prepare_backup", "blocked")
        BY <2>4, <3>1, <1>t, CheckpointMarked DEF BlockBackup, Reject
      <3> QED BY <2>4, <3>2, <1>t, ConcludeSeen DEF BlockBackup, Reject, supervisorVars
    <2>5. CASE BackupAnswered(t) \/ BackupUnclear(t) \/ LeaveUncertain(t)
      <3>1. UNCHANGED <<orch, checkpoint, asked>>
        BY <2>5 DEF BackupAnswered, BackupUnclear, LeaveUncertain, Fail, supervisorVars
      <3> QED BY <3>1, <1>0
    <2> QED BY <1>2, <2>1, <2>2, <2>3, <2>4, <2>5 DEF Backup
  <1>3. ASSUME NEW t \in task, Execute(t) \/ Abandon(t)
        PROVE  Protocol!Next \/ UNCHANGED protocolState
    <2>1. CASE Release(t) \/ ReleaseFails(t) \/ Abandon(t)
      <3>1. UNCHANGED <<orch, checkpoint, asked>>
        BY <2>1 DEF Release, ReleaseFails, Fail, Abandon, supervisorVars
      <3> QED BY <3>1, <1>0
    <2> QED BY <1>1, <1>2, <1>3, <2>1 DEF Execute
  <1>4. CASE \/ (\E h \in {{}} \cup {{c} : c \in Candidates} : Push(h))
             \/ Detect \/ Recover \/ Crash \/ Boot
    <2>1. UNCHANGED <<orch, checkpoint, asked>>
      BY <1>4 DEF Push, Detect, Recover, Crash, Boot, supervisorVars
    <2> QED BY <2>1, <1>0
  <1>5. ASSUME NEW c \in Candidates,
               \/ RoutineClaim(c) \/ RetriggerClaim(c) \/ TakeBackup(c) \/ LoseBackup(c)
               \/ BootWithRetry(c)
        PROVE  UNCHANGED protocolState
    <2>1. UNCHANGED <<orch, checkpoint, asked>>
      BY <1>5 DEF RoutineClaim, RetriggerClaim, Start, TakeBackup, LoseBackup, BootWithRetry,
                  supervisorVars
    <2> QED BY <2>1, Unseen
  <1>6. CASE UNCHANGED vars
    BY <1>6, <1>0 DEF vars
  <1> QED BY <1>3, <1>4, <1>5, <1>6 DEF Next

(* candidate_orchestration.py and the executors implement the protocol     *)
(* for any number of candidates: gates in order, at most one backup        *)
(* request per candidate and only past the last gate, verdicts for ever.   *)
THEOREM ImplementsProtocol == Spec => CandidateProtocolSpec
  <1>1. Init => Protocol!Init
    <2> SUFFICES ASSUME Init PROVE Protocol!Init
      OBVIOUS
    <2>1. \A c \in Candidates : Gates(c) = 0 /\ Verdict(c) = "none"
      BY OfRows, GatesAre DEF Init
    <2>2. Passed = [c \in Candidates |-> 0]
      BY <2>1 DEF Passed
    <2>3. Verdicts = [c \in Candidates |-> "none"]
      BY <2>1 DEF Verdicts
    <2> QED BY <2>2, <2>3 DEF Init, Protocol!Init, Passed, Verdicts, Verdict
  <1>2. Inv /\ [Next]_vars => [Protocol!Next]_protocolState
    BY StepSeen
  <1> QED BY <1>1, <1>2, Inductive, PTL
          DEF Spec, CandidateProtocolSpec, Protocol!Spec, Protocol!protocolVars, protocolState,
              Passed, Verdicts, Verdict

(* The number of gates is one.                                             *)
LEMMA GatesNat ==
  ASSUME Inv, NEW c \in Candidates
  PROVE  Gates(c) \in Nat
  <1>1. orch[c] \in {"none", "completed", "blocked"} \cup OpenPhases
    BY PhaseFacts DEF Inv, TypeOK, Phases
  <1>2. CASE orch[c] = "none"
    BY <1>2, OfRows, GatesAre
  <1>3. CASE orch[c] \in OpenPhases
    <2>1. Gates(c) = Position[NextAction[orch[c]]]
      BY <1>3, OfRows, GatesAre
    <2>2. NextAction[orch[c]] \in Actions
      BY <1>3, PhaseFacts
    <2> QED BY <2>1, <2>2, ActionFacts
  <1>4. CASE orch[c] \in {"completed", "blocked"}
    <2>1. PICK a \in Actions : \A b \in Actions : checkpoint[c][b] # "none"
                                                   <=> Position[b] <= Position[a]
      BY <1>4 DEF Inv, ConcludedInv
    <2>2. Gates(c) = Cardinality({b \in Actions : checkpoint[c][b] # "none"})
      BY <1>4, OfRows, PhaseFacts DEF GatesOf
    <2>3. {b \in Actions : checkpoint[c][b] # "none"}
            = {b \in Actions : Position[b] <= Position[a]}
      BY <2>1
    <2>4. Gates(c) = Position[a]
      BY <2>2, <2>3, UpTo
    <2> QED BY <2>4, ActionFacts
  <1> QED BY <1>1, <1>2, <1>3, <1>4

(* candidate_orchestration.py: what the refinement gives to a reader of    *)
(* the rows, whoever retries or restarts the executors.                    *)
(* A verdict is never taken back; the gates a candidate has passed are     *)
(* not passed again; and the one step that asks Supervisor for a backup is *)
(* taken once, past the last gate, of a candidate without a verdict.       *)
BackupIsLast ==
  [][\A c \in Candidates :
       /\ Verdict(c) # "none" => Verdict(c)' = Verdict(c) /\ Gates(c)' = Gates(c)
       /\ Gates(c) <= Gates(c)'
       /\ asked'[c] # asked[c] =>
            Verdict(c) = "none" /\ Gates(c) = 7 /\ asked[c] = 0 /\ asked'[c] = 1]_vars

LEMMA StepOrdered ==
  ASSUME Inv, [Next]_vars, NEW c \in Candidates
  PROVE  /\ Verdict(c) # "none" => Verdict(c)' = Verdict(c) /\ Gates(c)' = Gates(c)
         /\ Gates(c) <= Gates(c)'
         /\ asked'[c] # asked[c] =>
              Verdict(c) = "none" /\ Gates(c) = 7 /\ asked[c] = 0 /\ asked'[c] = 1
  <1> DEFINE Ordered ==
               /\ Verdicts[c] # "none" => Verdicts'[c] = Verdicts[c] /\ Passed'[c] = Passed[c]
               /\ Passed[c] <= Passed'[c]
               /\ asked'[c] # asked[c] =>
                    Verdicts[c] = "none" /\ Passed[c] = 7 /\ asked[c] = 0 /\ asked'[c] = 1
  <1>1. Protocol!Next \/ UNCHANGED protocolState
    BY StepSeen
  <1>2. /\ Passed[c] = Gates(c) /\ Passed'[c] = Gates(c)'
        /\ Verdicts[c] = Verdict(c) /\ Verdicts'[c] = Verdict(c)'
    BY DEF Passed, Verdicts
  <1>3. /\ DOMAIN Passed = Candidates /\ DOMAIN Verdicts = Candidates
        /\ asked \in [Candidates -> Nat]
    BY DEF Passed, Verdicts, Inv, TypeOK
  <1>4. Passed[c] \in Nat
    BY <1>2, GatesNat
  <1>5. CASE UNCHANGED protocolState
    <2>1. Ordered
      BY <1>4, <1>5 DEF protocolState
    <2> QED BY <2>1, <1>2
  <1>6. ASSUME NEW d \in Candidates,
               Protocol!Pass(d) \/ Protocol!Request(d) \/ Protocol!Prepare(d) \/ Protocol!Refuse(d)
        PROVE  Ordered
    <2>1. CASE Protocol!Pass(d)
      <3>1. /\ Verdicts[d] = "none" /\ Passed' = [Passed EXCEPT ![d] = Passed[d] + 1]
            /\ asked' = asked /\ Verdicts' = Verdicts
        BY <2>1 DEF Protocol!Pass, Passed, Verdicts, Verdict
      <3> QED BY <3>1, <1>3, <1>4
    <2>2. CASE Protocol!Request(d)
      <3>1. /\ Verdicts[d] = "none" /\ Passed[d] = 7 /\ asked[d] = 0
            /\ asked' = [asked EXCEPT ![d] = 1] /\ Passed' = Passed /\ Verdicts' = Verdicts
        BY <2>2 DEF Protocol!Request, Passed, Verdicts, Verdict
      <3> QED BY <3>1, <1>3, <1>4
    <2>3. CASE Protocol!Prepare(d) \/ Protocol!Refuse(d)
      <3>1. /\ Verdicts[d] = "none" /\ asked' = asked /\ Passed' = Passed
            /\ \E v : Verdicts' = [Verdicts EXCEPT ![d] = v]
        BY <2>3 DEF Protocol!Prepare, Protocol!Refuse, Passed, Verdicts, Verdict
      <3> QED BY <3>1, <1>3, <1>4
    <2> QED BY <1>6, <2>1, <2>2, <2>3
  <1>7. CASE Protocol!Next
    <2>1. Ordered
      BY <1>6, <1>7 DEF Protocol!Next
    <2> QED BY <2>1, <1>2
  <1> QED BY <1>1, <1>5, <1>7

(* candidate_backup_execution.py: for any number of candidates, crashes,   *)
(* retries and lost answers, the backup is asked for once and last, and    *)
(* what is concluded stays concluded.                                      *)
THEOREM AsksOnceAndLast == Spec => BackupIsLast
  <1>1. Inv /\ [Next]_vars =>
          \A c \in Candidates :
            /\ Verdict(c) # "none" => Verdict(c)' = Verdict(c) /\ Gates(c)' = Gates(c)
            /\ Gates(c) <= Gates(c)'
            /\ asked'[c] # asked[c] =>
                 Verdict(c) = "none" /\ Gates(c) = 7 /\ asked[c] = 0 /\ asked'[c] = 1
    BY StepOrdered
  <1> QED BY <1>1, Inductive, PTL DEF Spec, BackupIsLast
=============================================================================

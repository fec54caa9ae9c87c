-------------------------- MODULE CandidatePipeline --------------------------
(***************************************************************************)
(* From a commit on the `candidate` branch of Repo B to a prepared         *)
(* deployment: detection, the routine preflight pass and the Retrigger     *)
(* lanes that claim one candidate at a time, the six read-only gates, each *)
(* with its checkpoint, and the journaled Supervisor backup, with pushes   *)
(* to the branch, failures, the process dying at any step and an operator  *)
(* who retries a blocked row.                                              *)
(*                                                                         *)
(* One thread owns the state, so at most one task runs.  A pending row is  *)
(* always due; when the backoff of a retry row ends is left open.  The     *)
(* digests that bind a checkpoint to the orchestration it was planned for  *)
(* are abstracted to the pair (phase, checkpoint phase) they protect.      *)
(***************************************************************************)
EXTENDS Integers, FiniteSets

CONSTANTS
  Candidates,        \* candidate commits
  MaxAttempts,       \* StateStore.MAX_WORK_ATTEMPTS
  MaxInterruptions,  \* bound: tasks of a candidate that end without a verdict
  MaxRetries         \* bound: administrative retries of a candidate

ASSUME PipelineAssumption ==
  /\ MaxAttempts \in Nat \ {0}
  /\ MaxInterruptions \in Nat /\ MaxRetries \in Nat

VARIABLES
  head,         \* the commit of the candidate branch, {} when it is absent
  work,         \* work rows of kind candidate
  orch,         \* phase of the candidate_orchestration row, "none" without one
  checkpoint,   \* the seven checkpoint tables, by the action they belong to
  tree,         \* the Stage directory is in place under its final name
  prepared,     \* prepared_deployment and candidate_apply rows
  up, task,     \* the service process and the task its thread executes
  asked,        \* backup requests the Supervisor received
  flight,       \* requests the Supervisor has not finished
  copies,       \* backups with the candidate's request name in the inventory
  interrupted,  \* tasks that ended without a verdict
  retried       \* administrative retries

vars == <<head, work, orch, checkpoint, tree, prepared, up, task,
          asked, flight, copies, interrupted, retried>>

supervisorVars == <<asked, flight, copies>>
historyVars == <<interrupted, retried>>

Preflight == {"fetch_stage", "analyze", "analyze_dependencies",
              "classify_risk", "validate", "validate_semantics"}
Actions == Preflight \cup {"prepare_backup"}

(* next_action of each phase that has one.                                 *)
NextAction ==
  [detected |-> "fetch_stage", staged |-> "analyze",
   integrity_verified |-> "analyze_dependencies",
   dependencies_analyzed |-> "classify_risk", risk_classified |-> "validate",
   static_validated |-> "validate_semantics",
   semantically_validated |-> "prepare_backup"]

OpenPhases == DOMAIN NextAction
Phases == {"none"} \cup OpenPhases \cup {"completed", "blocked"}

(* The phase that succeeds each action, its only permitted successor       *)
(* besides blocked.                                                        *)
Successor ==
  [fetch_stage |-> "staged", analyze |-> "integrity_verified",
   analyze_dependencies |-> "dependencies_analyzed",
   classify_risk |-> "risk_classified", validate |-> "static_validated",
   validate_semantics |-> "semantically_validated",
   prepare_backup |-> "completed"]

(* The position of each action, and the lane order of a Retrigger cycle.   *)
Position ==
  [fetch_stage |-> 1, analyze |-> 2, analyze_dependencies |-> 3,
   classify_risk |-> 4, validate |-> 5, validate_semantics |-> 6,
   prepare_backup |-> 7]

(* The action a candidate is waiting for; without an orchestration row it  *)
(* can only be registered for fetch_stage.                                 *)
ActionOf(c) == IF orch[c] = "none" THEN "fetch_stage" ELSE NextAction[orch[c]]

CheckpointPhases == {"none", "planned", "mutation_started", "uncertain",
                     "completed", "blocked"}
Row == [status : {"absent", "pending", "running", "retry", "succeeded", "blocked"},
        attempts : 0..(MaxAttempts + MaxInterruptions)]
Task == [lane : {"routine", "retrigger"}, candidate : Candidates,
         pc : {"claimed", "planned", "cleaned", "observed", "renamed", "started",
               "sent", "answered", "unsure", "uncertain", "reconcile", "release"}]

TypeOK ==
  /\ head \in SUBSET Candidates
  /\ work \in [Candidates -> Row]
  /\ orch \in [Candidates -> Phases]
  /\ checkpoint \in [Candidates -> [Actions -> CheckpointPhases]]
  /\ tree \in [Candidates -> BOOLEAN]
  /\ prepared \in SUBSET Candidates
  /\ up \in BOOLEAN
  /\ task \in SUBSET Task
  /\ asked \in [Candidates -> Nat]
  /\ flight \in SUBSET Candidates
  /\ copies \in [Candidates -> Nat]
  /\ interrupted \in [Candidates -> 0..MaxInterruptions]
  /\ retried \in [Candidates -> 0..MaxRetries]

Init ==
  /\ head = {}
  /\ work = [c \in Candidates |-> [status |-> "absent", attempts |-> 0]]
  /\ orch = [c \in Candidates |-> "none"]
  /\ checkpoint = [c \in Candidates |-> [a \in Actions |-> "none"]]
  /\ tree = [c \in Candidates |-> FALSE]
  /\ prepared = {}
  /\ up = FALSE
  /\ task = {}
  /\ asked = [c \in Candidates |-> 0]
  /\ flight = {}
  /\ copies = [c \in Candidates |-> 0]
  /\ interrupted = [c \in Candidates |-> 0]
  /\ retried = [c \in Candidates |-> 0]

Idle == up /\ task = {}

-----------------------------------------------------------------------------
(* Repo B *)

(* Someone pushes to the candidate branch, resets it or deletes it.        *)
Push(h) ==
  /\ h # head /\ head' = h
  /\ UNCHANGED <<work, orch, checkpoint, tree, prepared, up, task,
                 supervisorVars, historyVars>>

(* Detection enqueues the head it observes, unless a row of it exists.     *)
Detect ==
  /\ Idle
  /\ \E c \in head :
       /\ work[c].status = "absent"
       /\ work' = [work EXCEPT ![c] = [status |-> "pending", attempts |-> 0]]
  /\ UNCHANGED <<head, orch, checkpoint, tree, prepared, up, task,
                 supervisorVars, historyVars>>

-----------------------------------------------------------------------------
(* Claiming *)

Start(c, lane) ==
  /\ work' = [work EXCEPT ![c] = [status |-> "running", attempts |-> @.attempts + 1]]
  /\ task' = {[lane |-> lane, candidate |-> c, pc |-> "claimed"]}
  /\ UNCHANGED <<head, orch, checkpoint, tree, prepared, up,
                 supervisorVars, historyVars>>

(* The routine pass takes pending rows only, and none that would back up.  *)
RoutineClaim(c) ==
  /\ Idle
  /\ work[c].status = "pending" /\ work[c].attempts < MaxAttempts
  /\ orch[c] \in {"none"} \cup (OpenPhases \ {"semantically_validated"})
  /\ Start(c, "routine")

(* The fetch_stage lane opens the candidate part of every cycle and makes  *)
(* every running candidate row retryable; the recovery of each later lane  *)
(* finds nothing more.                                                     *)
Recover ==
  /\ Idle
  /\ work' = [c \in Candidates |-> IF work[c].status = "running"
                THEN [work[c] EXCEPT !.status = "retry"] ELSE work[c]]
  /\ UNCHANGED <<head, orch, checkpoint, tree, prepared, up, task,
                 supervisorVars, historyVars>>

Claimable(c) == /\ work[c].status \in {"pending", "retry"}
                /\ orch[c] \in {"none"} \cup OpenPhases

(* Faulty variant: the lanes leave retry rows to somebody else.            *)
RetriggerClaimsPending(c) ==
  /\ Idle /\ \A d \in Candidates : work[d].status # "running"
  /\ Claimable(c) /\ work[c].status = "pending"
  /\ \A d \in Candidates :
       Claimable(d) /\ work[d].status = "pending"
         => Position[ActionOf(c)] <= Position[ActionOf(d)]
  /\ Start(c, "retrigger")

(* After the recovery the lanes run in order until one claims: a row that  *)
(* is due for an earlier lane goes first.                                  *)
RetriggerClaim(c) ==
  /\ Idle /\ \A d \in Candidates : work[d].status # "running"
  /\ Claimable(c)
  /\ \A d \in Candidates :
       Claimable(d) /\ work[d].status = "pending"
         => Position[ActionOf(c)] <= Position[ActionOf(d)]
  /\ Start(c, "retrigger")

-----------------------------------------------------------------------------
(* What every executor shares *)

At(t, a, pc) == /\ t.pc = pc
                /\ orch[t.candidate] \in OpenPhases
                /\ NextAction[orch[t.candidate]] = a

Move(t, pc) == task' = {[t EXCEPT !.pc = pc]}

(* fail_work: retry with backoff while attempts are left, otherwise block. *)
Fail(t, transient) ==
  LET c == t.candidate IN
  /\ work' = [work EXCEPT ![c].status =
                IF transient /\ work[c].attempts < MaxAttempts THEN "retry" ELSE "blocked"]
  /\ task' = {}
  /\ UNCHANGED <<head, orch, checkpoint, tree, prepared, up,
                 supervisorVars, historyVars>>

(* The result of a gate: its checkpoint is completed and the orchestration *)
(* advanced in one transaction, after which the row is to be released.     *)
Advance(t, a) ==
  LET c == t.candidate IN
  /\ checkpoint' = [checkpoint EXCEPT ![c] = [@ EXCEPT ![a] = "completed"]]
  /\ orch' = [orch EXCEPT ![c] = Successor[a]]
  /\ Move(t, "release")
  /\ UNCHANGED <<head, work, tree, prepared, up, supervisorVars, historyVars>>

(* A deterministic rejection: checkpoint, orchestration and work row are   *)
(* settled in one transaction.                                             *)
Reject(t, a, phase) ==
  LET c == t.candidate IN
  /\ checkpoint' = [checkpoint EXCEPT ![c] = [@ EXCEPT ![a] = phase]]
  /\ orch' = [orch EXCEPT ![c] = "blocked"]
  /\ work' = [work EXCEPT ![c].status = "blocked"]
  /\ task' = {}
  /\ UNCHANGED <<head, tree, prepared, up, supervisorVars, historyVars>>

(* Bind a claimed candidate without an orchestration row to its first      *)
(* action.                                                                 *)
Register(t) ==
  /\ t.pc = "claimed" /\ orch[t.candidate] = "none"
  /\ orch' = [orch EXCEPT ![t.candidate] = "detected"]
  /\ UNCHANGED <<head, work, checkpoint, tree, prepared, up, task,
                 supervisorVars, historyVars>>

(* Record the plan of the action, or find the plan an interrupted attempt  *)
(* left.  Every executor but the first needs the verified Stage.           *)
Plan(t, a) ==
  LET c == t.candidate IN
  /\ At(t, a, "claimed")
  /\ a \notin {"fetch_stage", "classify_risk"} => tree[c]
  /\ checkpoint[c][a] \in {"none", "planned"}
  /\ checkpoint' = [checkpoint EXCEPT ![c] = [@ EXCEPT ![a] = "planned"]]
  /\ Move(t, "planned")
  /\ UNCHANGED <<head, work, orch, tree, prepared, up, supervisorVars, historyVars>>

(* Evidence that is missing, changed or malformed blocks the candidate;    *)
(* so does a store that fails inside an executor or a registration.        *)
EvidenceInvalid(t) ==
  /\ t.pc \in {"claimed", "planned", "cleaned", "observed", "renamed",
               "answered", "unsure", "reconcile"}
  /\ Fail(t, FALSE)

-----------------------------------------------------------------------------
(* The six read-only gates *)

(* fetch_stage removes what an interrupted attempt left under the name     *)
(* reserved by the plan.                                                   *)
CleanStage(t) ==
  /\ At(t, "fetch_stage", "planned")
  /\ tree' = [tree EXCEPT ![t.candidate] = FALSE]
  /\ Move(t, "cleaned")
  /\ UNCHANGED <<head, work, orch, checkpoint, prepared, up,
                 supervisorVars, historyVars>>

(* fetch_stage and analyze ask Repo B for the branch before they fetch.    *)
Observable(t) == At(t, "fetch_stage", "cleaned") \/ At(t, "analyze", "planned")

Observe(t) ==
  /\ Observable(t) /\ head = {t.candidate}
  /\ Move(t, "observed")
  /\ UNCHANGED <<head, work, orch, checkpoint, tree, prepared, up,
                 supervisorVars, historyVars>>

(* The branch has moved on: the candidate is superseded.                   *)
Superseded(t) == Observable(t) /\ head # {t.candidate} /\ Fail(t, FALSE)

(* Repo B, the Core API or the validation runtime is unavailable.          *)
Unavailable(t) ==
  /\ \/ Observable(t)
     \/ At(t, "fetch_stage", "observed") \/ At(t, "analyze", "observed")
     \/ At(t, "analyze_dependencies", "planned")
     \/ At(t, "validate_semantics", "planned")
  /\ Fail(t, TRUE)

(* Faulty variant: the rename is left to after the checkpoint.             *)
RecordUnrenamed(t) ==
  At(t, "fetch_stage", "observed") /\ Advance(t, "fetch_stage")

(* The verified Stage is renamed into place before anything records it.    *)
RenameStage(t) ==
  /\ At(t, "fetch_stage", "observed")
  /\ tree' = [tree EXCEPT ![t.candidate] = TRUE]
  /\ Move(t, "renamed")
  /\ UNCHANGED <<head, work, orch, checkpoint, prepared, up,
                 supervisorVars, historyVars>>

FetchStage(t) == At(t, "fetch_stage", "renamed") /\ Advance(t, "fetch_stage")

AnalyzeIntegrity(t) == At(t, "analyze", "observed") /\ Advance(t, "analyze")

AnalyzeDependencies(t) ==
  At(t, "analyze_dependencies", "planned") /\ Advance(t, "analyze_dependencies")

ClassifyRisk(t) == At(t, "classify_risk", "planned") /\ Advance(t, "classify_risk")

(* Faulty variant: invalid syntax blocks the orchestration and forgets the *)
(* work row.                                                               *)
ValidateStaticOrchestrationOnly(t) ==
  /\ At(t, "validate", "planned")
  /\ \/ Advance(t, "validate")
     \/ LET c == t.candidate IN
        /\ checkpoint' = [checkpoint EXCEPT ![c] = [@ EXCEPT !["validate"] = "completed"]]
        /\ orch' = [orch EXCEPT ![c] = "blocked"]
        /\ task' = {}
        /\ UNCHANGED <<head, work, tree, prepared, up, supervisorVars, historyVars>>

(* Invalid syntax is a completed validation that blocks the candidate.     *)
ValidateStatic(t) ==
  /\ At(t, "validate", "planned")
  /\ Advance(t, "validate") \/ Reject(t, "validate", "completed")

ValidateSemantics(t) ==
  /\ At(t, "validate_semantics", "planned")
  /\ Advance(t, "validate_semantics") \/ Reject(t, "validate_semantics", "blocked")

(* defer_work: the next action starts with a fresh attempt budget.         *)
Release(t) ==
  /\ t.pc = "release"
  /\ work' = [work EXCEPT ![t.candidate] = [status |-> "pending", attempts |-> 0]]
  /\ task' = {}
  /\ UNCHANGED <<head, orch, checkpoint, tree, prepared, up,
                 supervisorVars, historyVars>>

(* The release itself fails.  The first three Retrigger lanes leave the    *)
(* row running; the later ones try to block it, although its orchestration *)
(* has advanced.                                                           *)
ReleaseFails(t) ==
  /\ t.pc = "release" /\ t.lane = "retrigger"
  /\ Position[NextAction[orch[t.candidate]]] > 4
  /\ Fail(t, FALSE)

Abandon(t) ==
  LET c == t.candidate IN
  /\ t.pc = "release" /\ t.lane = "retrigger"
  /\ interrupted[c] < MaxInterruptions
  /\ interrupted' = [interrupted EXCEPT ![c] = @ + 1]
  /\ task' = {}
  /\ UNCHANGED <<head, work, orch, checkpoint, tree, prepared, up,
                 supervisorVars, retried>>

-----------------------------------------------------------------------------
(* The backup *)

SetBackup(c, phase) ==
  checkpoint' = [checkpoint EXCEPT ![c] = [@ EXCEPT !["prepare_backup"] = phase]]

(* Journal the mutation before it is requested.                            *)
StartBackup(t) ==
  /\ At(t, "prepare_backup", "planned")
  /\ SetBackup(t.candidate, "mutation_started")
  /\ Move(t, "started")
  /\ UNCHANGED <<head, work, orch, tree, prepared, up, supervisorVars, historyVars>>

(* POST /backups/new/full under the request name of the checkpoint.        *)
SendBackup(t) ==
  LET c == t.candidate IN
  /\ At(t, "prepare_backup", "started")
  /\ asked' = [asked EXCEPT ![c] = @ + 1]
  /\ flight' = flight \cup {c}
  /\ Move(t, "sent")
  /\ UNCHANGED <<head, work, orch, checkpoint, tree, prepared, up, copies, historyVars>>

(* The Supervisor finishes the backup, whoever still waits for it ...      *)
TakeBackup(c) ==
  /\ c \in flight /\ flight' = flight \ {c}
  /\ copies' = [copies EXCEPT ![c] = @ + 1]
  /\ UNCHANGED <<head, work, orch, checkpoint, tree, prepared, up, task, asked,
                 historyVars>>

(* ... or gives it up.                                                     *)
LoseBackup(c) ==
  /\ c \in flight /\ flight' = flight \ {c}
  /\ UNCHANGED <<head, work, orch, checkpoint, tree, prepared, up, task, asked,
                 copies, historyVars>>

(* The answer names a backup that the Supervisor confirms.                 *)
BackupAnswered(t) ==
  /\ At(t, "prepare_backup", "sent") /\ copies[t.candidate] > 0
  /\ Move(t, "answered")
  /\ UNCHANGED <<head, work, orch, checkpoint, tree, prepared, up,
                 supervisorVars, historyVars>>

(* No credential, no answer in time, or one that proves nothing.           *)
BackupUnclear(t) ==
  /\ At(t, "prepare_backup", "started") \/ At(t, "prepare_backup", "sent")
  /\ Move(t, "unsure")
  /\ UNCHANGED <<head, work, orch, checkpoint, tree, prepared, up,
                 supervisorVars, historyVars>>

MarkUncertain(t) ==
  /\ At(t, "prepare_backup", "unsure")
  /\ SetBackup(t.candidate, "uncertain")
  /\ Move(t, "uncertain")
  /\ UNCHANGED <<head, work, orch, tree, prepared, up, supervisorVars, historyVars>>

(* The attempt is over: a later one reconciles, if any is left.            *)
LeaveUncertain(t) == At(t, "prepare_backup", "uncertain") /\ Fail(t, TRUE)

(* Faulty variant: an interrupted request is sent again.                   *)
ResumeBackupBlindly(t) ==
  LET c == t.candidate IN
  /\ At(t, "prepare_backup", "claimed") /\ tree[c]
  /\ checkpoint[c]["prepare_backup"] \in {"mutation_started", "uncertain"}
  /\ SetBackup(c, "mutation_started")
  /\ Move(t, "started")
  /\ UNCHANGED <<head, work, orch, tree, prepared, up, supervisorVars, historyVars>>

(* A request that may have been sent is only ever reconciled.              *)
ResumeBackup(t) ==
  LET c == t.candidate IN
  /\ At(t, "prepare_backup", "claimed") /\ tree[c]
  /\ checkpoint[c]["prepare_backup"] \in {"mutation_started", "uncertain"}
  /\ SetBackup(c, "uncertain")
  /\ Move(t, "reconcile")
  /\ UNCHANGED <<head, work, orch, tree, prepared, up, supervisorVars, historyVars>>

(* The backup is verified, by its answer or as the only one of its name in *)
(* the inventory: one transaction completes the checkpoint, inserts the    *)
(* prepared deployment and its candidate_apply work, completes the         *)
(* orchestration and settles the work row.                                 *)
PrepareBackup(t) ==
  LET c == t.candidate IN
  /\ \/ At(t, "prepare_backup", "answered")
     \/ At(t, "prepare_backup", "reconcile") /\ copies[c] = 1
  /\ SetBackup(c, "completed")
  /\ orch' = [orch EXCEPT ![c] = "completed"]
  /\ prepared' = prepared \cup {c}
  /\ work' = [work EXCEPT ![c].status = "succeeded"]
  /\ task' = {}
  /\ UNCHANGED <<head, tree, up, supervisorVars, historyVars>>

(* The inventory does not hold exactly one, or could not be read.          *)
BlockBackup(t) ==
  At(t, "prepare_backup", "reconcile") /\ Reject(t, "prepare_backup", "blocked")

-----------------------------------------------------------------------------
(* The process and its operator *)

(* The process dies: killed, failed, or stopped by the cold backup it      *)
(* asked for.                                                              *)
Crash ==
  /\ up
  /\ \A t \in task : interrupted[t.candidate] < MaxInterruptions
  /\ up' = FALSE /\ task' = {}
  /\ interrupted' = [c \in Candidates |->
       IF \E t \in task : t.candidate = c THEN interrupted[c] + 1 ELSE interrupted[c]]
  /\ UNCHANGED <<head, work, orch, checkpoint, tree, prepared, supervisorVars, retried>>

Boot ==
  /\ ~up /\ up' = TRUE
  /\ UNCHANGED <<head, work, orch, checkpoint, tree, prepared, task,
                 supervisorVars, historyVars>>

(* Boot with an administrative request that names a blocked candidate.     *)
BootWithRetry(c) ==
  /\ ~up /\ up' = TRUE
  /\ work[c].status = "blocked" /\ retried[c] < MaxRetries
  /\ work' = [work EXCEPT ![c] = [status |-> "pending", attempts |-> 0]]
  /\ retried' = [retried EXCEPT ![c] = @ + 1]
  /\ UNCHANGED <<head, orch, checkpoint, tree, prepared, task,
                 supervisorVars, interrupted>>

-----------------------------------------------------------------------------
Gate(t) ==
  \/ Register(t) \/ \E a \in Actions : Plan(t, a)
  \/ EvidenceInvalid(t) \/ Superseded(t) \/ Unavailable(t)
  \/ CleanStage(t) \/ Observe(t) \/ RenameStage(t) \/ FetchStage(t)
  \/ AnalyzeIntegrity(t) \/ AnalyzeDependencies(t) \/ ClassifyRisk(t)
  \/ ValidateStatic(t) \/ ValidateSemantics(t)

Backup(t) ==
  \/ StartBackup(t) \/ SendBackup(t) \/ BackupAnswered(t) \/ BackupUnclear(t)
  \/ MarkUncertain(t) \/ LeaveUncertain(t)
  \/ ResumeBackup(t) \/ PrepareBackup(t) \/ BlockBackup(t)

Execute(t) == Gate(t) \/ Backup(t) \/ Release(t) \/ ReleaseFails(t)

Next ==
  \/ \E h \in {{}} \cup {{c} : c \in Candidates} : Push(h)
  \/ Detect \/ Recover
  \/ \E c \in Candidates : RoutineClaim(c) \/ RetriggerClaim(c)
  \/ \E t \in task : Execute(t) \/ Abandon(t)
  \/ \E c \in Candidates : TakeBackup(c) \/ LoseBackup(c)
  \/ Crash \/ Boot \/ \E c \in Candidates : BootWithRetry(c)

Spec == Init /\ [][Next]_vars

(* The owner thread gets on with its task; the service is started again    *)
(* when it stopped, and stays up long enough for a Retrigger cycle to      *)
(* reach the candidate lanes again and again.                              *)
Fairness ==
  /\ WF_vars(\E t \in task : Execute(t))
  /\ WF_vars(Boot)
  /\ SF_vars(Recover)
  /\ SF_vars(\E c \in Candidates : RetriggerClaim(c))

FairSpec == Spec /\ Fairness

-----------------------------------------------------------------------------
(* Properties *)

Concluded(c) == orch[c] \in {"completed", "blocked"}

(* The evidence tables agree with the orchestration row: every action      *)
(* before the one a candidate waits for is completed and the Stage they    *)
(* examined is in place, nothing later has even been planned.  A crash     *)
(* between the Stage, the checkpoint and the orchestration must not part   *)
(* them (the executors' _complete_atomically).                             *)
StagesInOrder ==
  /\ TypeOK
  /\ \A c \in Candidates : orch[c] \in OpenPhases =>
       LET now == Position[NextAction[orch[c]]] IN
       /\ \A a \in Actions : Position[a] < now => checkpoint[c][a] = "completed"
       /\ \A a \in Actions : Position[a] > now => checkpoint[c][a] = "none"
       /\ checkpoint[c][NextAction[orch[c]]] \notin {"completed", "blocked"}
       /\ now > 1 => tree[c]

(* _finish_atomically: the five rows a conclusion touches say the same.    *)
(* A prepared deployment rests on six completed gates, one request and one *)
(* backup; and the work row of a concluded candidate is settled, unless an *)
(* administrator reopened it.                                              *)
SettledTogether ==
  \A c \in Candidates :
    /\ c \in prepared <=> orch[c] = "completed"
    /\ c \in prepared <=> checkpoint[c]["prepare_backup"] = "completed"
    /\ c \in prepared <=> work[c].status = "succeeded"
    /\ c \in prepared => /\ \A a \in Actions : checkpoint[c][a] = "completed"
                         /\ asked[c] = 1 /\ copies[c] = 1
    /\ orch[c] = "blocked" /\ retried[c] = 0 => work[c].status = "blocked"

(* Every detected candidate reaches a verdict: however its attempts fail   *)
(* or are cut short, and wherever the branch moves, it ends prepared or    *)
(* blocked.                                                                *)
EveryCandidateSettles ==
  \A c \in Candidates :
    (work[c].status # "absent") ~> (Concluded(c) \/ work[c].status = "blocked")

(* The pipeline implements the protocol: gates in order, one backup        *)
(* request per candidate and only past the last gate, conclusions final,   *)
(* whatever crashes, retries and races happen in between.                  *)
Gates(c) ==
  CASE orch[c] = "none" -> 0
    [] orch[c] \in OpenPhases -> Position[NextAction[orch[c]]]
    [] OTHER -> Cardinality({a \in Actions : checkpoint[c][a] # "none"})

Protocol == INSTANCE CandidateProtocol WITH
  NumGates <- 7,
  passed <- [c \in Candidates |-> Gates(c)],
  requests <- asked,
  verdict <- [c \in Candidates |-> CASE orch[c] = "completed" -> "prepared"
                                     [] orch[c] = "blocked" -> "refused"
                                     [] OTHER -> "none"]

CandidateProtocolSpec == Protocol!Spec

=============================================================================

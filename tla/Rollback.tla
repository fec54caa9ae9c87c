------------------------------ MODULE Rollback ------------------------------
(***************************************************************************)
(* The rollback of one rejected deployment: the durable intent, the full   *)
(* restore asked of Supervisor, the reconciliation of an uncertain or      *)
(* running restore, the observation of the restored system and the work    *)
(* row that carries all this.  The stages before it (backup, Apply,        *)
(* finalization) are one action each: Deployment and LiveApply open them.  *)
(*                                                                         *)
(* Supervisor runs a restore as a job.  The backup it restores was taken   *)
(* while this app had journaled the request for it and nothing after; when *)
(* the backup holds the app's own data too, the restore puts the state     *)
(* database back to that moment.  Whether it does is Supervisor's choice   *)
(* and left open.                                                          *)
(***************************************************************************)
EXTENDS Integers, Sequences

CONSTANTS
  MaxAttempts,  \* StateStore.MAX_WORK_ATTEMPTS
  MaxApplies,   \* bound: times the candidate is applied
  MaxShocks     \* bound: crashes, operator actions, Supervisor restarts, pushes

ASSUME RollbackAssumption ==
  MaxAttempts \in Nat \ {0} /\ MaxApplies \in Nat /\ MaxShocks \in Nat

VARIABLES
  holdsApp,  \* the backup holds the state database of this app
  deploy,    \* durable stage of the deployment before its rollback
  record,    \* deployment_rollback row
  work,      \* deployment_rollback work row
  step,      \* the owner thread's place in a rollback pass
  ticket,    \* the job id of Supervisor's answer, 0 when there is none
  jobs,      \* Supervisor's restore jobs of the backup, in order of creation
  live,      \* what the Home Assistant configuration is
  main,      \* branch main of Repo B
  applies, requests, wiped,  \* history: Applies, restore requests, lost databases
  rejected,  \* history: the candidate was rejected
  shocks     \* bound counter

durable == <<deploy, record, work>>
pass == <<step, ticket>>
history == <<applies, requests, wiped, rejected>>
vars == <<holdsApp, durable, pass, jobs, live, main, history, shocks>>

Phases == {"planned", "restore_started", "restore_acknowledged", "uncertain",
           "observing", "completed", "blocked"}
Retryable == Phases \ {"completed", "blocked"}
Steps == {"idle", "request", "journaled", "accepted", "lost", "refused", "reconcile",
          "observe", "retry", "block", "complete"}
JobStates == {"queued", "running", "restored", "done", "failed", "gone"}

NoRecord == [phase |-> "none", job |-> 0, since |-> 0]
NoWork == [status |-> "absent", attempts |-> 0]

TypeOK ==
  /\ holdsApp \in BOOLEAN
  /\ deploy \in {"backing_up", "prepared", "applied", "promoted", "rejected", "blocked"}
  /\ record \in [phase : Phases \cup {"none"}, job : 0..Len(jobs), since : 0..Len(jobs)]
  /\ work \in [status : {"absent", "running", "retry", "pending", "succeeded", "blocked"},
               attempts : 0..(MaxAttempts + MaxShocks)]
  /\ step \in Steps /\ ticket \in 0..Len(jobs)
  /\ jobs \in Seq(JobStates)
  /\ live \in {"baseline", "candidate"} /\ main \in {"baseline", "other"}
  /\ applies \in 0..MaxApplies /\ requests \in Nat /\ wiped \in Nat
  /\ rejected \in BOOLEAN /\ shocks \in 0..MaxShocks

(* The cold backup stopped the app while its request was journaled; the    *)
(* backup exists.                                                          *)
Init ==
  /\ holdsApp \in BOOLEAN
  /\ deploy = "backing_up" /\ record = NoRecord /\ work = NoWork
  /\ step = "idle" /\ ticket = 0
  /\ jobs = <<>> /\ live = "baseline" /\ main = "baseline"
  /\ applies = 0 /\ requests = 0 /\ wiped = 0 /\ rejected = FALSE /\ shocks = 0

Shock == shocks < MaxShocks /\ shocks' = shocks + 1

-----------------------------------------------------------------------------
(* The deployment up to its rejection *)

(* An interrupted backup request is reconciled from the inventory.         *)
Prepare ==
  /\ step = "idle" /\ deploy = "backing_up"
  /\ deploy' \in {"prepared", "blocked"}
  /\ UNCHANGED <<holdsApp, record, work, pass, jobs, live, main, history, shocks>>

(* Apply proves that the live tree is the baseline before it changes it.   *)
Apply ==
  /\ step = "idle" /\ deploy = "prepared" /\ live = "baseline" /\ applies < MaxApplies
  /\ deploy' = "applied" /\ live' = "candidate" /\ applies' = applies + 1
  /\ UNCHANGED <<holdsApp, record, work, pass, jobs, main, requests, wiped, rejected, shocks>>

Finalize ==
  /\ step = "idle" /\ deploy = "applied"
  /\ \/ deploy' = "promoted" /\ UNCHANGED rejected
     \/ deploy' = "rejected" /\ rejected' = TRUE
  /\ UNCHANGED <<holdsApp, record, work, pass, jobs, live, main, applies, requests,
                 wiped, shocks>>

(* The immutable intent, with main and the backup proved.                  *)
Authorize ==
  /\ step = "idle" /\ deploy = "rejected" /\ record = NoRecord /\ main = "baseline"
  /\ record' = [phase |-> "planned", job |-> 0, since |-> Len(jobs)]
  /\ UNCHANGED <<holdsApp, deploy, work, pass, jobs, live, main, history, shocks>>

-----------------------------------------------------------------------------
(* The rollback lane *)

(* Only a record that is not terminal is discovered: its work is enqueued, *)
(* recovered and claimed, and its phase tells what the pass may do.        *)
Claim ==
  /\ step = "idle" /\ record.phase \in Retryable
  /\ work.status \in {"absent", "pending", "retry", "running"}
  /\ work' = [status |-> "running", attempts |-> work.attempts + 1]
  /\ step' = CASE record.phase = "planned" -> "request"
               [] record.phase = "observing" -> "observe"
               [] OTHER -> "reconcile"
  /\ UNCHANGED <<holdsApp, deploy, record, ticket, jobs, live, main, history, shocks>>

EndPass(row) == /\ work' = row /\ step' = "idle" /\ ticket' = 0
                /\ UNCHANGED <<holdsApp, deploy, record, jobs, live, main, history, shocks>>

(* Faulty variant: every retry starts from a fresh attempt budget.         *)
FailedRefreshed(transient) ==
  [status |-> IF transient THEN "retry" ELSE "blocked", attempts |-> 0]

Failed(transient) ==
  [work EXCEPT !.status = IF transient /\ work.attempts < MaxAttempts
                            THEN "retry" ELSE "blocked"]

(* Too early after the last update, a proof or an answer not available, or *)
(* authority that does not hold: the record stays what it is.              *)
Refuse(transient) ==
  /\ step \in {"request", "reconcile", "observe"}
  /\ EndPass(Failed(transient))

(* How the pass settles its work: only a completed rollback succeeds.      *)
Settle ==
  \/ step = "retry" /\ EndPass(Failed(TRUE))
  \/ step = "block" /\ EndPass(Failed(FALSE))
  \/ step = "complete" /\ EndPass([work EXCEPT !.status = "succeeded"])

(* One transaction on the record, then the next step of the pass.          *)
Record(phase, job, next) ==
  /\ record' = [record EXCEPT !.phase = phase, !.job = job]
  /\ step' = next /\ ticket' = 0
  /\ UNCHANGED <<holdsApp, deploy, work, jobs, live, main, history, shocks>>

(* Faulty variant: the request is sent before it is journaled.             *)
JournalNothing ==
  /\ step = "request" /\ main = "baseline" /\ step' = "journaled"
  /\ UNCHANGED <<holdsApp, durable, ticket, jobs, live, main, history, shocks>>

(* Baseline and backup proved again, the start is durable before the       *)
(* request.  It carries the reference time of the pass, which lies between *)
(* the authorization and now: since tells which jobs count as older.       *)
Journal ==
  /\ step = "request" /\ main = "baseline"
  /\ \E n \in record.since..Len(jobs) :
        record' = [record EXCEPT !.phase = "restore_started", !.since = n]
  /\ step' = "journaled"
  /\ UNCHANGED <<holdsApp, deploy, work, ticket, jobs, live, main, history, shocks>>

(* Supervisor refuses, accepts with a job, or its answer is lost.          *)
Send ==
  /\ step = "journaled" /\ requests' = requests + 1
  /\ \/ jobs' = Append(jobs, "queued") /\ step' = "accepted" /\ ticket' = Len(jobs')
     \/ jobs' = Append(jobs, "queued") /\ step' = "lost" /\ ticket' = 0
     \/ jobs' = jobs /\ step' \in {"refused", "lost"} /\ ticket' = 0
  /\ UNCHANGED <<holdsApp, durable, live, main, applies, wiped, rejected, shocks>>

Acknowledge ==
  \/ step = "accepted" /\ Record("restore_acknowledged", ticket, "retry")
  \/ step = "lost" /\ Record("uncertain", 0, "retry")
  \/ step = "refused" /\ Record("blocked", 0, "block")

Listed == {j \in 1..Len(jobs) : jobs[j] # "gone"}

(* Faulty variant: an older job of the same backup is taken for this one.  *)
EvidenceOfAny ==
  IF record.job # 0 THEN Listed \cap {record.job}
  ELSE {j \in Listed : Listed = {j}}

(* The job that answers for the restore: the acknowledged one by its id;   *)
(* otherwise the only one of this backup, if it is not older.              *)
Evidence ==
  IF record.job # 0 THEN Listed \cap {record.job}
  ELSE {j \in Listed : Listed = {j} /\ j > record.since}

(* Read-only reconciliation.  A job that has not begun is in progress, one *)
(* that ended without errors has restored; no evidence, a job that says it *)
(* is not done, or one that ended with errors is ambiguous for ever, and   *)
(* so is an answer that is not a well-formed 200, whatever jobs there are. *)
Reconcile ==
  /\ step = "reconcile"
  /\ \/ \E j \in Evidence :
          \/ jobs[j] = "queued" /\ Record("restore_acknowledged", j, "retry")
          \/ jobs[j] = "done" /\ Record("observing", j, "retry")
     \/ Record("blocked", 0, "block")

(* Repo B must still be at the baseline, Core and Supervisor healthy.      *)
Observe ==
  /\ step = "observe"
  /\ IF main = "baseline" THEN Record("completed", record.job, "complete")
                          ELSE Record("blocked", 0, "block")

-----------------------------------------------------------------------------
(* Supervisor and the rest of the world *)

JobStep(j, from, to) == jobs[j] = from /\ jobs' = [jobs EXCEPT ![j] = to]

RunJob ==
  /\ \E j \in DOMAIN jobs : \/ JobStep(j, "queued", "running")
                            \/ JobStep(j, "running", "failed")
                            \/ JobStep(j, "restored", "failed")
                            \/ JobStep(j, "restored", "done")
  /\ UNCHANGED <<holdsApp, durable, pass, live, main, history, shocks>>

(* The configuration is put back and, if the backup holds it, so is the    *)
(* state database of the app, which is stopped for that.                   *)
Restore ==
  /\ \E j \in DOMAIN jobs : JobStep(j, "running", "restored")
  /\ live' = "baseline"
  /\ IF holdsApp
       THEN /\ deploy' = "backing_up" /\ record' = NoRecord /\ work' = NoWork
            /\ step' = "idle" /\ ticket' = 0 /\ wiped' = wiped + 1
       ELSE UNCHANGED <<durable, pass, wiped>>
  /\ UNCHANGED <<holdsApp, main, applies, requests, rejected, shocks>>

(* The process dies in a pass; its work stays running.                     *)
Crash == /\ step # "idle" /\ Shock /\ step' = "idle" /\ ticket' = 0
         /\ UNCHANGED <<holdsApp, durable, jobs, live, main, history>>

(* Another lane's recovery of everything that was running.                 *)
RecoverAll ==
  /\ step = "idle" /\ work.status = "running"
  /\ work' = [work EXCEPT !.status = "retry"]
  /\ UNCHANGED <<holdsApp, deploy, record, pass, jobs, live, main, history, shocks>>

AdministrativeRetry ==
  /\ step = "idle" /\ work.status = "blocked" /\ Shock
  /\ work' = [status |-> "pending", attempts |-> 0]
  /\ UNCHANGED <<holdsApp, deploy, record, pass, jobs, live, main, history>>

(* A person restores the same backup; Supervisor restarts and forgets its  *)
(* jobs, the running ones included; somebody pushes to main.               *)
Disturb ==
  /\ Shock
  /\ \/ jobs' = Append(jobs, "queued") /\ UNCHANGED main
     \/ jobs # <<>> /\ jobs' = [j \in DOMAIN jobs |-> "gone"] /\ UNCHANGED main
     \/ main = "baseline" /\ main' = "other" /\ UNCHANGED jobs
  /\ UNCHANGED <<holdsApp, durable, pass, live, history>>

-----------------------------------------------------------------------------
Pass ==
  \/ Claim \/ Settle \/ Journal \/ Send \/ Acknowledge \/ Reconcile \/ Observe
  \/ \E t \in BOOLEAN : Refuse(t)

Next ==
  \/ Prepare \/ Apply \/ Finalize \/ Authorize \/ Pass
  \/ RunJob \/ Restore
  \/ Crash \/ RecoverAll \/ AdministrativeRetry \/ Disturb

Spec == Init /\ [][Next]_vars

(* The owner thread keeps making passes.                                   *)
FairSpec == Spec /\ WF_vars(Pass)

-----------------------------------------------------------------------------
(* Properties *)

(* deployment_rollback.py never asks for a second restore because of a     *)
(* lost answer, a crash, a retry or the operator: each request belongs to  *)
(* a journal of its own, and a new journal takes a lost database.          *)
RestoreOnce == requests <= 1 + wiped

(* A rollback is observed and completed only over a configuration that is  *)
(* the backup's, whichever job the reconciliation believed in.             *)
CompletedIsRestored == record.phase \in {"observing", "completed"} => live = "baseline"

(* The work ledger is not marked successful while the record is anything   *)
(* but completed, although the two are written in separate transactions.   *)
SuccessIsCompleted == work.status = "succeeded" => record.phase = "completed"

(* deployment_rollback.py: whoever reads the ledger, the record or both at *)
(* any moment can believe them.  A rollback that its work row calls a      *)
(* success is completed in the record, and one the record calls completed  *)
(* (or restored and under observation) has the backup's configuration      *)
(* live; and the row counts every attempt that no crash cut short.         *)
ConclusionIsTrue == TypeOK /\ CompletedIsRestored /\ SuccessIsCompleted

(* A planned rollback ends: in a terminal record, with blocked work for    *)
(* the operator, or by losing its journal to a restore.                    *)
RollbackConcludes ==
  (record.phase = "planned") ~>
     (record.phase \in {"completed", "blocked", "none"} \/ work.status = "blocked")

(* docs/deployment-rollback.md:72: "The failed candidate remains rejected  *)
(* throughout every state": it is not applied again after its rejection.   *)
RejectedStaysRejected ==
  [][rejected /\ live' = "candidate" => live = "candidate"]_vars

(* docs/deployment-rollback.md:69 classifies the work of a completed       *)
(* rollback as terminal success.                                           *)
CompletedSucceeds == (record.phase = "completed") ~> (work.status = "succeeded")

=============================================================================

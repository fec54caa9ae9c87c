--------------------------- MODULE RollbackProofs ---------------------------
(* Proofs about the rollback, for any attempts, Applies and shocks.        *)
EXTENDS Rollback, SequenceTheorems, TLAPS

USE RollbackAssumption

(* A pass runs over a claimed row, and its place agrees with the record.   *)
PassInv ==
  /\ step # "idle" => work.status = "running"
  /\ step = "request" => record.phase = "planned"
  /\ step = "journaled" => record.phase = "restore_started"
  /\ step = "observe" => record.phase = "observing"
  /\ step = "complete" => record.phase = "completed"
  /\ step \in {"accepted", "lost", "refused", "reconcile"} =>
       record.phase # "none"

(* A request that can still be sent has not been sent: every request so    *)
(* far belongs to a journal that is lost.                                  *)
RequestInv ==
  record.phase \in {"none", "planned"} \/ step = "journaled" => requests <= wiped

(* While a rollback is on record nothing is applied, so the jobs that      *)
(* restored since its authorization left the baseline behind.  Its own job *)
(* is one of them.                                                         *)
JobInv ==
  /\ record.phase # "none" => deploy = "rejected"
  /\ record.phase # "none" =>
       \A j \in 1..Len(jobs) :
          j > record.since /\ jobs[j] \in {"restored", "done"} => live = "baseline"
  /\ record.job # 0 => record.job > record.since
  /\ step = "accepted" => ticket > record.since
  /\ record.phase \in {"none", "planned"} => record.job = 0

(* The attempts beyond the maximum are those that crashes cut short; what  *)
(* can be claimed has one left.                                            *)
BudgetInv ==
  /\ work.attempts <= MaxAttempts + shocks
  /\ step = "idle" /\ work.status \notin {"blocked", "succeeded"} =>
       work.attempts < MaxAttempts + shocks

IInv == /\ TypeOK /\ RestoreOnce /\ CompletedIsRestored /\ SuccessIsCompleted
        /\ PassInv /\ RequestInv /\ JobInv /\ BudgetInv

LEMMA InitIInv == Init => IInv
  <1> SUFFICES ASSUME Init PROVE IInv
    OBVIOUS
  <1>1. jobs \in Seq(JobStates) /\ Len(jobs) = 0
    BY EmptySeq DEF Init
  <1>2. TypeOK
    <2>1. record \in [phase : Phases \cup {"none"}, job : 0..Len(jobs), since : 0..Len(jobs)]
      BY <1>1 DEF Init, NoRecord
    <2>2. work \in [status : {"absent", "running", "retry", "pending", "succeeded", "blocked"},
                   attempts : 0..(MaxAttempts + MaxShocks)]
      BY DEF Init, NoWork
    <2>3. step \in Steps /\ ticket \in 0..Len(jobs)
      BY <1>1 DEF Init, Steps
    <2>4. applies \in 0..MaxApplies /\ requests \in Nat /\ wiped \in Nat
          /\ shocks \in 0..MaxShocks
      BY DEF Init
    <2>5. holdsApp \in BOOLEAN /\ rejected \in BOOLEAN
      BY DEF Init
    <2> QED BY <1>1, <2>1, <2>2, <2>3, <2>4, <2>5 DEF Init, TypeOK
  <1>3. RestoreOnce /\ CompletedIsRestored /\ SuccessIsCompleted
    BY DEF Init, RestoreOnce, CompletedIsRestored, SuccessIsCompleted, NoRecord, NoWork
  <1>4. PassInv /\ RequestInv /\ JobInv /\ BudgetInv
    BY DEF Init, PassInv, RequestInv, JobInv, BudgetInv, NoRecord, NoWork
  <1> QED BY <1>2, <1>3, <1>4 DEF IInv

-----------------------------------------------------------------------------
(* What a step does to Supervisor's jobs: none is taken off the list, and  *)
(* one that has restored either had before or leaves the baseline behind.  *)

Finished == {"restored", "done"}

JobsKept ==
  /\ jobs' \in Seq(JobStates)
  /\ Len(jobs) \in Nat /\ Len(jobs') \in Nat /\ Len(jobs) <= Len(jobs')
  /\ \A j \in 1..Len(jobs') :
        jobs'[j] \in Finished =>
           (j \in 1..Len(jobs) /\ jobs[j] \in Finished) \/ live' = "baseline"

LEMMA QueueKeeps ==
  ASSUME jobs \in Seq(JobStates), jobs' = Append(jobs, "queued")
  PROVE  JobsKept /\ Len(jobs') = Len(jobs) + 1
  <1>1. Len(jobs) \in Nat /\ "queued" \in JobStates
    BY LenProperties DEF JobStates
  <1>2. jobs' \in Seq(JobStates) /\ Len(jobs') = Len(jobs) + 1
    BY <1>1, AppendProperties
  <1>3. \A j \in 1..Len(jobs) : jobs'[j] = jobs[j]
    BY <1>1, AppendProperties
  <1>4. jobs'[Len(jobs) + 1] = "queued"
    BY <1>1, AppendProperties
  <1> QED BY <1>1, <1>2, <1>3, <1>4 DEF JobsKept, Finished

LEMMA ForgetKeeps ==
  ASSUME jobs \in Seq(JobStates), jobs' = [j \in DOMAIN jobs |-> "gone"]
  PROVE  JobsKept /\ Len(jobs') = Len(jobs)
  <1>1. Len(jobs) \in Nat /\ DOMAIN jobs = 1..Len(jobs)
    BY LenProperties
  <1>2. jobs' \in [1..Len(jobs) -> JobStates]
    BY <1>1 DEF JobStates
  <1>3. jobs' \in Seq(JobStates)
    BY <1>1, <1>2, SeqDef
  <1>4. Len(jobs') \in Nat /\ DOMAIN jobs' = 1..Len(jobs')
    BY <1>3, LenProperties
  <1>5. Len(jobs') = Len(jobs)
    BY <1>1, <1>2, <1>4
  <1> QED BY <1>1, <1>3, <1>4, <1>5 DEF JobsKept, Finished

LEMMA JobStepKeeps ==
  ASSUME jobs \in Seq(JobStates), NEW j \in DOMAIN jobs, NEW from, NEW to \in JobStates,
         JobStep(j, from, to), to \in Finished => from \in Finished \/ live' = "baseline"
  PROVE  JobsKept /\ Len(jobs') = Len(jobs)
  <1>1. Len(jobs) \in Nat /\ j \in 1..Len(jobs)
    BY LenProperties
  <1>2. jobs' \in Seq(JobStates) /\ Len(jobs') = Len(jobs)
        /\ \A k \in 1..Len(jobs) : jobs'[k] = IF k = j THEN to ELSE jobs[k]
    BY <1>1, ExceptSeq DEF JobStep
  <1> QED BY <1>1, <1>2 DEF JobsKept, JobStep

LEMMA SameJobs == ASSUME jobs \in Seq(JobStates), jobs' = jobs PROVE JobsKept
  BY LenProperties DEF JobsKept

LEMMA StepJobs == TypeOK /\ [Next]_vars => JobsKept
  <1> SUFFICES ASSUME TypeOK, [Next]_vars PROVE JobsKept
    OBVIOUS
  <1>t. jobs \in Seq(JobStates)
    BY DEF TypeOK
  <1>1. CASE RunJob
    <2> USE <1>t DEF JobStates, Finished
    <2>1. PICK j \in DOMAIN jobs : \/ JobStep(j, "queued", "running")
                                  \/ JobStep(j, "running", "failed")
                                  \/ JobStep(j, "restored", "failed")
                                  \/ JobStep(j, "restored", "done")
      BY <1>1 DEF RunJob
    <2> QED BY <2>1, JobStepKeeps
  <1>2. CASE Restore
    <2>1. PICK j \in DOMAIN jobs : JobStep(j, "running", "restored")
      BY <1>2 DEF Restore
    <2>2. live' = "baseline" /\ "restored" \in JobStates
      BY <1>2 DEF Restore, JobStates
    <2> QED BY <1>t, <2>1, <2>2, JobStepKeeps
  <1>3. CASE Send
    BY <1>t, <1>3, QueueKeeps, SameJobs DEF Send
  <1>4. CASE Disturb
    BY <1>t, <1>4, QueueKeeps, ForgetKeeps, SameJobs DEF Disturb
  <1>5. CASE jobs' = jobs
    BY <1>t, <1>5, SameJobs
  <1> QED
    BY <1>1, <1>2, <1>3, <1>4, <1>5
       DEF Next, Pass, vars, Prepare, Apply, Finalize, Authorize, Claim, Settle, EndPass,
           Journal, Acknowledge, Record, Reconcile, Observe, Refuse, Crash, RecoverAll,
           AdministrativeRetry

-----------------------------------------------------------------------------
(* Types.  A record, a row and a ticket that are typed stay typed: the     *)
(* list of jobs only grows.                                                *)

RollbackRow == [phase : Phases \cup {"none"}, job : 0..Len(jobs), since : 0..Len(jobs)]
Row == [status : {"absent", "running", "retry", "pending", "succeeded", "blocked"},
        attempts : 0..(MaxAttempts + MaxShocks)]

LEMMA StepRow == IInv /\ [Next]_vars => work' \in Row
  <1> SUFFICES ASSUME IInv, [Next]_vars PROVE work' \in Row
    OBVIOUS
  <1>t. /\ work \in Row /\ shocks \in 0..MaxShocks /\ shocks' \in 0..MaxShocks
    <2>1. work \in Row /\ shocks \in 0..MaxShocks
      BY DEF IInv, TypeOK, Row
    <2>2. Shock => shocks' \in 0..MaxShocks
      BY <2>1 DEF Shock
    <2>3. Shock \/ shocks' = shocks
      BY DEF Next, Pass, vars, Prepare, Apply, Finalize, Authorize, Claim, Settle, EndPass,
             Journal, Send, Acknowledge, Record, Reconcile, Observe, Refuse, RunJob, Restore,
             Crash, RecoverAll, AdministrativeRetry, Disturb
    <2> QED BY <2>1, <2>2, <2>3
  <1>0. /\ work.status \in {"absent", "running", "retry", "pending", "succeeded", "blocked"}
        /\ work.attempts \in 0..(MaxAttempts + MaxShocks)
    BY <1>t DEF Row
  <1>1. CASE Claim
    <2>1. work.attempts + 1 \in 0..(MaxAttempts + MaxShocks)
      BY <1>t, <1>0, <1>1 DEF IInv, BudgetInv, Claim
    <2> QED BY <1>1, <2>1 DEF Claim, Row
  <1>2. ASSUME NEW t \in BOOLEAN, work' = Failed(t) PROVE work' \in Row
    BY <1>t, <1>2 DEF Failed, Row
  <1>3. CASE Restore
    BY <1>t, <1>3 DEF Restore, NoWork, Row, durable
  <1>4. CASE RecoverAll \/ AdministrativeRetry
    BY <1>t, <1>0, <1>4 DEF RecoverAll, AdministrativeRetry, Row
  <1>5. CASE Settle
    BY <1>t, <1>2, <1>5 DEF Settle, EndPass, Row
  <1>6. CASE work' = work
    BY <1>t, <1>6
  <1> QED
    BY <1>1, <1>2, <1>3, <1>4, <1>5, <1>6
       DEF Next, Pass, vars, durable, Prepare, Apply, Finalize, Authorize, EndPass, Journal,
           Send, Acknowledge, Record, Reconcile, Observe, Refuse, RunJob, Crash, Disturb

LEMMA RecordTyped ==
  ASSUME TypeOK, JobsKept, NEW phase \in Phases, NEW job \in 0..Len(jobs), NEW next,
         Record(phase, job, next)
  PROVE  record' \in RollbackRow'
  BY DEF TypeOK, JobsKept, Record, RollbackRow

LEMMA StepRecord == IInv /\ [Next]_vars => record' \in RollbackRow'
  <1> SUFFICES ASSUME IInv, [Next]_vars PROVE record' \in RollbackRow'
    OBVIOUS
  <1>t. TypeOK /\ JobsKept /\ record \in RollbackRow
    BY StepJobs DEF IInv, TypeOK, RollbackRow
  <1>0. /\ record.phase \in Phases \cup {"none"}
        /\ record.job \in 0..Len(jobs) /\ record.since \in 0..Len(jobs)
        /\ Len(jobs) \in Nat /\ Len(jobs') \in Nat /\ Len(jobs) <= Len(jobs')
    BY <1>t DEF RollbackRow, JobsKept
  <1>1. CASE record' = record
    BY <1>0, <1>1, <1>t DEF RollbackRow
  <1>2. CASE record' = NoRecord
    BY <1>0, <1>2 DEF NoRecord, RollbackRow
  <1>3. CASE Authorize
    BY <1>0, <1>3 DEF Authorize, RollbackRow, Phases
  <1>4. CASE Journal
    <2>1. PICK n \in record.since..Len(jobs) :
            record' = [record EXCEPT !.phase = "restore_started", !.since = n]
      BY <1>4 DEF Journal
    <2>2. n \in 0..Len(jobs') /\ record.job \in 0..Len(jobs')
      BY <1>0
    <2> QED BY <1>t, <2>1, <2>2 DEF RollbackRow, Phases
  <1>5. CASE Acknowledge
    <2>1. ticket \in 0..Len(jobs) /\ 0 \in 0..Len(jobs)
      BY <1>t, <1>0 DEF TypeOK
    <2>2. "restore_acknowledged" \in Phases /\ "uncertain" \in Phases /\ "blocked" \in Phases
      BY DEF Phases
    <2> QED BY <1>5, <1>t, <2>1, <2>2, RecordTyped DEF Acknowledge
  <1>6. CASE Reconcile
    <2>1. \A j \in Evidence : j \in 0..Len(jobs)
      BY <1>0 DEF Evidence, Listed
    <2>2. "restore_acknowledged" \in Phases /\ "observing" \in Phases /\ "blocked" \in Phases
          /\ 0 \in 0..Len(jobs)
      BY <1>0 DEF Phases
    <2> QED BY <1>6, <1>t, <2>1, <2>2, RecordTyped DEF Reconcile
  <1>7. CASE Observe
    <2>1. "completed" \in Phases /\ "blocked" \in Phases /\ 0 \in 0..Len(jobs)
      BY <1>0 DEF Phases
    <2> QED BY <1>7, <1>t, <1>0, <2>1, RecordTyped DEF Observe
  <1> QED
    BY <1>1, <1>2, <1>3, <1>4, <1>5, <1>6, <1>7
       DEF Next, Pass, vars, durable, Prepare, Apply, Finalize, Claim, Settle, EndPass, Send,
           Refuse, RunJob, Restore, Crash, RecoverAll, AdministrativeRetry, Disturb

LEMMA StepTicket == IInv /\ [Next]_vars => step' \in Steps /\ ticket' \in 0..Len(jobs')
  <1> SUFFICES ASSUME IInv, [Next]_vars
               PROVE  step' \in Steps /\ ticket' \in 0..Len(jobs')
    OBVIOUS
  <1>t. /\ TypeOK /\ step \in Steps /\ ticket \in 0..Len(jobs)
        /\ Len(jobs) \in Nat /\ Len(jobs') \in Nat /\ Len(jobs) <= Len(jobs')
    BY StepJobs DEF IInv, TypeOK, JobsKept
  <1>1. step' \in Steps
    BY <1>t DEF Next, Pass, vars, durable, pass, Steps, Prepare, Apply, Finalize, Authorize,
           Claim, Settle, EndPass, Journal, Send, Acknowledge, Record, Reconcile, Observe,
           Refuse, RunJob, Restore, Crash, RecoverAll, AdministrativeRetry, Disturb
  <1>2. ticket' = ticket \/ ticket' = 0 \/ ticket' = Len(jobs')
    BY DEF Next, Pass, vars, durable, pass, Prepare, Apply, Finalize, Authorize,
           Claim, Settle, EndPass, Journal, Send, Acknowledge, Record, Reconcile, Observe,
           Refuse, RunJob, Restore, Crash, RecoverAll, AdministrativeRetry, Disturb
  <1> QED BY <1>t, <1>1, <1>2

LEMMA StepTypeOK == IInv /\ [Next]_vars => TypeOK'
  <1> SUFFICES ASSUME IInv, [Next]_vars PROVE TypeOK'
    OBVIOUS
  <1>t. TypeOK
    BY DEF IInv
  <1>1. holdsApp' \in BOOLEAN /\ rejected' \in BOOLEAN
    BY <1>t DEF TypeOK, Next, Pass, vars, durable, history, Prepare, Apply, Finalize, Authorize,
           Claim, Settle, EndPass, Journal, Send, Acknowledge, Record, Reconcile, Observe,
           Refuse, RunJob, Restore, Crash, RecoverAll, AdministrativeRetry, Disturb
  <1>2. /\ deploy' \in {"backing_up", "prepared", "applied", "promoted", "rejected", "blocked"}
        /\ live' \in {"baseline", "candidate"} /\ main' \in {"baseline", "other"}
    <2>1. deploy' \in {"backing_up", "prepared", "applied", "promoted", "rejected", "blocked"}
      BY <1>t DEF TypeOK, Next, Pass, vars, durable, Prepare, Apply, Finalize, Authorize,
             Claim, Settle, EndPass, Journal, Send, Acknowledge, Record, Reconcile, Observe,
             Refuse, RunJob, Restore, Crash, RecoverAll, AdministrativeRetry, Disturb
    <2>2. live' \in {"baseline", "candidate"}
      BY <1>t DEF TypeOK, Next, Pass, vars, durable, Prepare, Apply, Finalize, Authorize,
             Claim, Settle, EndPass, Journal, Send, Acknowledge, Record, Reconcile, Observe,
             Refuse, RunJob, Restore, Crash, RecoverAll, AdministrativeRetry, Disturb
    <2>3. main' \in {"baseline", "other"}
      BY <1>t DEF TypeOK, Next, Pass, vars, durable, Prepare, Apply, Finalize, Authorize,
             Claim, Settle, EndPass, Journal, Send, Acknowledge, Record, Reconcile, Observe,
             Refuse, RunJob, Restore, Crash, RecoverAll, AdministrativeRetry, Disturb
    <2> QED BY <2>1, <2>2, <2>3
  <1>3. /\ applies' \in 0..MaxApplies /\ requests' \in Nat /\ wiped' \in Nat
        /\ shocks' \in 0..MaxShocks
    <2>0. applies \in 0..MaxApplies /\ requests \in Nat /\ wiped \in Nat
          /\ shocks \in 0..MaxShocks
      BY <1>t DEF TypeOK
    <2>1. applies' = applies \/ (applies < MaxApplies /\ applies' = applies + 1)
      BY DEF Next, Pass, vars, durable, pass, history, Prepare, Apply, Finalize,
             Authorize, Claim, Settle, EndPass, Journal, Send, Acknowledge, Record,
             Reconcile, Observe, Refuse, RunJob, Restore, Crash, RecoverAll,
             AdministrativeRetry, Disturb, Shock
    <2>2. requests' = requests \/ requests' = requests + 1
      BY DEF Next, Pass, vars, durable, pass, history, Prepare, Apply, Finalize,
             Authorize, Claim, Settle, EndPass, Journal, Send, Acknowledge, Record,
             Reconcile, Observe, Refuse, RunJob, Restore, Crash, RecoverAll,
             AdministrativeRetry, Disturb
    <2>3. wiped' = wiped \/ wiped' = wiped + 1
      BY DEF Next, Pass, vars, durable, pass, history, Prepare, Apply, Finalize,
             Authorize, Claim, Settle, EndPass, Journal, Send, Acknowledge, Record,
             Reconcile, Observe, Refuse, RunJob, Restore, Crash, RecoverAll,
             AdministrativeRetry, Disturb
    <2>4. shocks' = shocks \/ (shocks < MaxShocks /\ shocks' = shocks + 1)
      BY DEF Next, Pass, vars, durable, pass, history, Prepare, Apply, Finalize,
             Authorize, Claim, Settle, EndPass, Journal, Send, Acknowledge, Record,
             Reconcile, Observe, Refuse, RunJob, Restore, Crash, RecoverAll,
             AdministrativeRetry, Disturb, Shock
    <2> QED BY <2>0, <2>1, <2>2, <2>3, <2>4
  <1> QED
    BY <1>t, <1>1, <1>2, <1>3, StepJobs, StepRow, StepRecord, StepTicket
       DEF TypeOK, JobsKept, Row, RollbackRow

-----------------------------------------------------------------------------
(* Where a pass is, and the work row it runs over.                         *)

LEMMA FailedStatus == ASSUME TypeOK, NEW t \in BOOLEAN
                      PROVE  /\ Failed(t).status \in {"retry", "blocked"}
                             /\ Failed(t).attempts = work.attempts
                             /\ Failed(t).status = "retry" => work.attempts < MaxAttempts
  BY DEF TypeOK, Failed

LEMMA RecordFields ==
  ASSUME TypeOK, NEW phase, NEW job, NEW next, Record(phase, job, next)
  PROVE  record'.phase = phase /\ record'.job = job /\ record'.since = record.since
  BY DEF TypeOK, Record

LEMMA StepPass == IInv /\ [Next]_vars => PassInv'
  <1> SUFFICES ASSUME IInv, [Next]_vars PROVE PassInv'
    OBVIOUS
  <1>t. TypeOK /\ PassInv
    BY DEF IInv
  <1>1. CASE step' = "idle"
    BY <1>1 DEF PassInv
  <1>2. CASE Claim
    <2>1. work'.status = "running" /\ record' = record /\ record.phase \in Retryable
      BY <1>2 DEF Claim
    <2>2. step' = IF record.phase = "planned" THEN "request"
                  ELSE IF record.phase = "observing" THEN "observe" ELSE "reconcile"
      BY <1>2 DEF Claim
    <2> QED BY <2>1, <2>2 DEF PassInv, Retryable, Phases
  <1>3. CASE Journal
    <2>1. record'.phase = "restore_started"
      BY <1>t, <1>3 DEF Journal, TypeOK
    <2> QED BY <1>t, <1>3, <2>1 DEF Journal, PassInv
  <1>4. CASE Send
    BY <1>t, <1>4 DEF Send, PassInv, durable
  <1>5. ASSUME NEW phase, NEW job, NEW next, Record(phase, job, next), phase # "none",
               next \in {"retry", "block"} \/ (next = "complete" /\ phase = "completed"),
               step # "idle"
        PROVE  PassInv'
    <2>1. record'.phase = phase /\ work' = work /\ step' = next
      BY <1>t, <1>5, RecordFields DEF Record
    <2> QED BY <1>t, <1>5, <2>1 DEF PassInv
  <1>6. CASE Acknowledge \/ Reconcile \/ Observe
    BY <1>5, <1>6 DEF Acknowledge, Reconcile, Observe
  <1>7. CASE UNCHANGED <<record, work, step>>
    BY <1>t, <1>7 DEF PassInv
  <1>8. CASE Authorize \/ RecoverAll \/ AdministrativeRetry
    BY <1>1, <1>8 DEF Authorize, RecoverAll, AdministrativeRetry, pass
  <1> QED
    BY <1>1, <1>2, <1>3, <1>4, <1>6, <1>7, <1>8
       DEF Next, Pass, vars, durable, pass, Prepare, Apply, Finalize, Settle, EndPass, Refuse,
           RunJob, Restore, Crash, Disturb

LEMMA StepRequest == IInv /\ [Next]_vars => RequestInv' /\ RestoreOnce'
  <1> SUFFICES ASSUME IInv, [Next]_vars PROVE RequestInv' /\ RestoreOnce'
    OBVIOUS
  <1>t. TypeOK /\ PassInv /\ RequestInv /\ RestoreOnce /\ requests \in Nat /\ wiped \in Nat
    BY DEF IInv, TypeOK
  <1>1. CASE Send
    <2>1. record.phase = "restore_started" /\ requests <= wiped
      BY <1>t, <1>1 DEF Send, PassInv, RequestInv
    <2> QED BY <1>t, <1>1, <2>1 DEF Send, RequestInv, RestoreOnce, durable
  <1>2. CASE Journal
    <2>1. requests <= wiped
      BY <1>t, <1>2 DEF Journal, PassInv, RequestInv
    <2> QED BY <1>t, <1>2, <2>1 DEF Journal, RequestInv, RestoreOnce, history
  <1>3. CASE Restore
    <2>1. requests' = requests /\ (wiped' = wiped \/ wiped' = wiped + 1)
      BY <1>3 DEF Restore
    <2>2. wiped' = wiped => UNCHANGED <<record, step>>
      BY <1>t, <1>3 DEF Restore, durable, pass
    <2> QED BY <1>t, <2>1, <2>2 DEF RequestInv, RestoreOnce
  <1>4. ASSUME NEW phase, NEW job, NEW next, Record(phase, job, next),
               phase \notin {"none", "planned"}, next # "journaled"
        PROVE  RequestInv' /\ RestoreOnce'
    <2>1. record'.phase = phase /\ step' = next /\ UNCHANGED <<requests, wiped>>
      BY <1>t, <1>4, RecordFields DEF Record, history
    <2> QED BY <1>t, <1>4, <2>1 DEF RequestInv, RestoreOnce
  <1>5. CASE Acknowledge \/ Reconcile \/ Observe
    BY <1>4, <1>5 DEF Acknowledge, Reconcile, Observe
  <1>6. CASE Authorize
    BY <1>t, <1>6 DEF Authorize, RequestInv, RestoreOnce, NoRecord, pass, history
  <1>7. CASE UNCHANGED <<record, requests, wiped>> /\ (step' = step \/ step' # "journaled")
    BY <1>t, <1>7 DEF RequestInv, RestoreOnce
  <1>8. CASE Claim
    <2>1. step' # "journaled" /\ UNCHANGED <<record, requests, wiped>>
      BY <1>8 DEF Claim, history
    <2> QED BY <1>7, <2>1
  <1> QED
    BY <1>1, <1>2, <1>3, <1>5, <1>6, <1>7, <1>8
       DEF Next, Pass, vars, durable, pass, history, Prepare, Apply, Finalize, Settle, EndPass,
           Refuse, RunJob, Crash, RecoverAll, AdministrativeRetry, Disturb

-----------------------------------------------------------------------------
(* The evidence of the restore.  Whatever step is taken, a job that has    *)
(* restored since the reference point of the record leaves the baseline.   *)

LEMMA RestoredSince ==
  ASSUME IInv, [Next]_vars, record.phase # "none", record'.since >= record.since
  PROVE  \A j \in 1..Len(jobs') :
           j > record'.since /\ jobs'[j] \in Finished => live' = "baseline"
  <1>1. live' = live \/ live' = "baseline"
    <2>1. deploy = "rejected"
      BY DEF IInv, JobInv
    <2> QED
      BY <2>1 DEF Next, Pass, vars, durable, Prepare, Apply, Finalize, Authorize, Claim,
           Settle, EndPass, Journal, Send, Acknowledge, Record, Reconcile, Observe, Refuse,
           RunJob, Restore, Crash, RecoverAll, AdministrativeRetry, Disturb
  <1>2. record.since \in Nat /\ Len(jobs) \in Nat
    BY LenProperties DEF IInv, TypeOK
  <1> SUFFICES ASSUME NEW j \in 1..Len(jobs'), j > record'.since, jobs'[j] \in Finished,
                      live' # "baseline"
               PROVE  FALSE
    OBVIOUS
  <1>3. j \in 1..Len(jobs) /\ jobs[j] \in Finished
    BY StepJobs DEF IInv, JobsKept
  <1>4. record'.since \in Int
    BY StepTypeOK DEF TypeOK
  <1> QED BY <1>1, <1>2, <1>3, <1>4 DEF IInv, JobInv, Finished

LEMMA EvidenceIsOurs ==
  ASSUME IInv, record.phase # "none", NEW j \in Evidence
  PROVE  /\ j \in 1..Len(jobs) /\ j > record.since
         /\ jobs[j] = "done" => live = "baseline"
  <1>1. j \in 1..Len(jobs) /\ j > record.since
    BY DEF IInv, JobInv, Evidence, Listed
  <1> QED BY <1>1 DEF IInv, JobInv

(* What one transaction of the rollback leaves of its evidence.            *)
LEMMA RecordKeeps ==
  ASSUME IInv, [Next]_vars, record.phase # "none",
         NEW phase, NEW job \in Nat, NEW next, Record(phase, job, next),
         phase \notin {"none", "planned"}, next # "accepted",
         job # 0 => job > record.since,
         phase \in {"observing", "completed"} => live = "baseline"
  PROVE  JobInv' /\ CompletedIsRestored'
  <1>1. /\ record'.phase = phase /\ record'.job = job /\ record'.since = record.since
        /\ UNCHANGED <<deploy, live>> /\ step' = next
    BY RecordFields DEF IInv, Record
  <1>2. record.since \in Int
    BY DEF IInv, TypeOK
  <1>3. deploy = "rejected"
    BY DEF IInv, JobInv
  <1>4. \A j \in 1..Len(jobs') :
           j > record'.since /\ jobs'[j] \in Finished => live' = "baseline"
    BY <1>1, <1>2, RestoredSince
  <1> QED BY <1>1, <1>3, <1>4 DEF JobInv, CompletedIsRestored, Finished

LEMMA StepEvidence == IInv /\ [Next]_vars => JobInv' /\ CompletedIsRestored'
  <1> SUFFICES ASSUME IInv, [Next]_vars PROVE JobInv' /\ CompletedIsRestored'
    OBVIOUS
  <1>t. /\ TypeOK /\ JobInv /\ CompletedIsRestored /\ PassInv
        /\ record.job \in Nat /\ record.since \in Nat /\ ticket \in Nat
        /\ Len(jobs) \in Nat /\ Len(jobs') \in Nat /\ Len(jobs) <= Len(jobs')
    BY StepJobs DEF IInv, TypeOK, JobsKept
  <1>1. CASE Acknowledge
    <2>1. record.phase # "none" /\ (step = "accepted" => ticket > record.since)
      BY <1>t, <1>1 DEF Acknowledge, PassInv, JobInv
    <2>2. 0 \in Nat
      OBVIOUS
    <2> QED BY <1>t, <1>1, <2>1, <2>2, RecordKeeps DEF Acknowledge
  <1>2. CASE Reconcile
    <2>1. record.phase # "none"
      BY <1>t, <1>2 DEF Reconcile, PassInv
    <2>2. ASSUME NEW j \in Evidence
          PROVE j \in Nat /\ j > record.since /\ (jobs[j] = "done" => live = "baseline")
      BY <2>1, EvidenceIsOurs
    <2>3. 0 \in Nat
      OBVIOUS
    <2> QED BY <1>2, <2>1, <2>2, <2>3, RecordKeeps DEF Reconcile
  <1>3. CASE Observe
    <2>1. /\ record.phase = "observing" /\ live = "baseline"
          /\ record.job # 0 => record.job > record.since
      BY <1>t, <1>3 DEF Observe, PassInv, JobInv, CompletedIsRestored
    <2>2. 0 \in Nat
      OBVIOUS
    <2> QED BY <1>t, <1>3, <2>1, <2>2, RecordKeeps DEF Observe
  <1>4. CASE Journal
    <2>1. PICK n \in record.since..Len(jobs) :
            record' = [record EXCEPT !.phase = "restore_started", !.since = n]
      BY <1>4 DEF Journal
    <2>2. record.phase = "planned" /\ record.job = 0 /\ deploy = "rejected"
      BY <1>t, <1>4 DEF Journal, PassInv, JobInv
    <2>3. /\ record'.phase = "restore_started" /\ record'.job = 0 /\ record'.since = n
          /\ deploy' = deploy /\ step' = "journaled"
      BY <1>t, <1>4, <2>1, <2>2 DEF Journal, TypeOK
    <2>4. \A j \in 1..Len(jobs') :
             j > record'.since /\ jobs'[j] \in Finished => live' = "baseline"
      BY <1>t, <2>1, <2>2, <2>3, RestoredSince
    <2> QED BY <2>2, <2>3, <2>4 DEF JobInv, CompletedIsRestored, Finished
  <1>5. CASE Authorize
    <2>1. /\ record'.phase = "planned" /\ record'.job = 0 /\ record'.since = Len(jobs')
          /\ deploy' = "rejected" /\ step' = "idle"
      BY <1>5 DEF Authorize, pass
    <2> QED BY <1>t, <2>1 DEF JobInv, CompletedIsRestored
  <1>6. CASE record' = NoRecord /\ step' = "idle"
    BY <1>6 DEF NoRecord, JobInv, CompletedIsRestored
  <1>7. ASSUME record' = record, record.phase = "none", step' # "accepted"
        PROVE  JobInv' /\ CompletedIsRestored'
    BY <1>t, <1>7 DEF JobInv, CompletedIsRestored
  <1>8. ASSUME record' = record, record.phase # "none", deploy' = deploy,
               step' = "accepted" => ticket' > record.since,
               live' = live \/ live' = "baseline"
        PROVE  JobInv' /\ CompletedIsRestored'
    <2>1. \A j \in 1..Len(jobs') :
             j > record'.since /\ jobs'[j] \in Finished => live' = "baseline"
      BY <1>t, <1>8, RestoredSince
    <2>2. record'.phase \in {"observing", "completed"} => live' = "baseline"
      BY <1>t, <1>8 DEF CompletedIsRestored
    <2> QED BY <1>t, <1>8, <2>1, <2>2 DEF JobInv, CompletedIsRestored, Finished
  <1>9. CASE Send
    <2>1. record' = record /\ record.phase # "none" /\ UNCHANGED <<deploy, live>>
      BY <1>t, <1>9 DEF Send, PassInv, durable
    <2>2. step' = "accepted" => ticket' = Len(jobs) + 1
      BY <1>t, <1>9, QueueKeeps DEF Send, TypeOK
    <2>3. record.since <= Len(jobs)
      BY <1>t DEF TypeOK
    <2> QED BY <1>8, <1>t, <2>1, <2>2, <2>3
  <1>10. CASE Restore
    <2>1. /\ live' = "baseline"
          /\ (record' = NoRecord /\ step' = "idle") \/ UNCHANGED <<durable, pass>>
      BY <1>10 DEF Restore
    <2>2. CASE UNCHANGED <<durable, pass>>
      <3>1. UNCHANGED <<record, deploy, step, ticket>>
        BY <2>2 DEF durable, pass
      <3> QED BY <1>7, <1>8, <1>t, <2>1, <3>1 DEF JobInv, PassInv
    <2> QED BY <1>6, <2>1, <2>2
  <1>11. CASE Prepare \/ Apply \/ Finalize
    <2>1. deploy # "rejected" /\ record' = record /\ step' = "idle"
      BY <1>11 DEF Prepare, Apply, Finalize, pass
    <2>2. record.phase = "none"
      BY <1>t, <2>1 DEF JobInv
    <2> QED BY <1>7, <2>1, <2>2
  <1>12. ASSUME UNCHANGED <<record, deploy, live>>,
                UNCHANGED <<step, ticket>> \/ step' # "accepted"
         PROVE  JobInv' /\ CompletedIsRestored'
    BY <1>7, <1>8, <1>12, <1>t DEF JobInv, PassInv
  <1>13. CASE Claim
    <2>1. UNCHANGED <<record, deploy, live>>
      BY <1>13 DEF Claim
    <2>2. step' # "accepted"
      BY <1>13 DEF Claim
    <2> QED BY <1>12, <2>1, <2>2
  <1> QED
    BY <1>1, <1>2, <1>3, <1>4, <1>5, <1>9, <1>10, <1>11, <1>12, <1>13
       DEF Next, Pass, vars, durable, pass, Settle, EndPass, Refuse, RunJob, Crash, RecoverAll,
           AdministrativeRetry, Disturb

-----------------------------------------------------------------------------
(* The work row: success and the attempt budget.                           *)

LEMMA StepSuccess == IInv /\ [Next]_vars => SuccessIsCompleted'
  <1> SUFFICES ASSUME IInv, [Next]_vars PROVE SuccessIsCompleted'
    OBVIOUS
  <1>t. TypeOK /\ SuccessIsCompleted /\ PassInv
    BY DEF IInv
  <1>1. ASSUME NEW t \in BOOLEAN, work' = Failed(t) PROVE SuccessIsCompleted'
    BY <1>t, <1>1, FailedStatus DEF SuccessIsCompleted
  <1>2. CASE Settle \/ \E t \in BOOLEAN : Refuse(t)
    <2>1. CASE step = "complete" /\ EndPass([work EXCEPT !.status = "succeeded"])
      BY <1>t, <2>1 DEF EndPass, PassInv, SuccessIsCompleted
    <2> QED BY <1>1, <1>2, <2>1 DEF Settle, Refuse, EndPass
  <1>3. CASE Claim \/ Restore \/ RecoverAll \/ AdministrativeRetry
    <2>1. work'.status # "succeeded" \/ UNCHANGED <<work, record>>
      <3>1. CASE Claim
        BY <3>1 DEF Claim
      <3>2. CASE Restore
        BY <3>2 DEF Restore, NoWork, durable
      <3>3. CASE RecoverAll
        BY <1>t, <3>3 DEF RecoverAll, TypeOK
      <3>4. CASE AdministrativeRetry
        BY <3>4 DEF AdministrativeRetry
      <3> QED BY <1>3, <3>1, <3>2, <3>3, <3>4
    <2> QED BY <1>t, <2>1 DEF SuccessIsCompleted
  <1>4. ASSUME work' = work, step # "idle" PROVE SuccessIsCompleted'
    BY <1>t, <1>4 DEF PassInv, SuccessIsCompleted
  <1>5. CASE UNCHANGED <<work, record>>
    BY <1>t, <1>5 DEF SuccessIsCompleted
  <1>6. CASE Journal \/ Acknowledge \/ Reconcile \/ Observe
    BY <1>4, <1>6 DEF Journal, Acknowledge, Reconcile, Observe, Record
  <1>7. CASE Authorize
    BY <1>t, <1>7 DEF Authorize, SuccessIsCompleted, NoRecord
  <1> QED
    BY <1>2, <1>3, <1>5, <1>6, <1>7
       DEF Next, Pass, vars, durable, Prepare, Apply, Finalize, Send, RunJob, Crash, Disturb

LEMMA StepBudget == IInv /\ [Next]_vars => BudgetInv'
  <1> SUFFICES ASSUME IInv, [Next]_vars PROVE BudgetInv'
    OBVIOUS
  <1>t. /\ TypeOK /\ BudgetInv /\ PassInv
        /\ work.attempts \in Nat /\ shocks \in Nat /\ shocks' \in Nat
    BY StepTypeOK DEF IInv, TypeOK
  <1>0. shocks <= shocks'
    <2>1. shocks' = shocks \/ shocks' = shocks + 1
      BY DEF Next, Pass, vars, Prepare, Apply, Finalize, Authorize, Claim, Settle, EndPass,
             Journal, Send, Acknowledge, Record, Reconcile, Observe, Refuse, RunJob, Restore,
             Crash, RecoverAll, AdministrativeRetry, Disturb, Shock
    <2> QED BY <1>t, <2>1
  <1>1. CASE Claim
    <2>1. /\ work'.attempts = work.attempts + 1 /\ step' # "idle" /\ shocks' = shocks
          /\ work.attempts < MaxAttempts + shocks
      BY <1>t, <1>1 DEF Claim, BudgetInv
    <2> QED BY <1>t, <2>1 DEF BudgetInv
  <1>2. ASSUME NEW t \in BOOLEAN, work' = Failed(t), shocks' = shocks PROVE BudgetInv'
    BY <1>t, <1>2, FailedStatus DEF BudgetInv
  <1>3. CASE Settle
    <2>1. CASE EndPass([work EXCEPT !.status = "succeeded"])
      BY <1>t, <2>1 DEF EndPass, BudgetInv, TypeOK
    <2> QED BY <1>2, <1>3, <2>1 DEF Settle, EndPass
  <1>4. CASE \E t \in BOOLEAN : Refuse(t)
    BY <1>2, <1>4 DEF Refuse, EndPass
  <1>5. CASE Crash
    <2>1. shocks' = shocks + 1 /\ work' = work
      BY <1>5 DEF Crash, Shock, durable
    <2> QED BY <1>t, <2>1 DEF BudgetInv
  <1>6. CASE RecoverAll
    <2>1. /\ work'.attempts = work.attempts /\ shocks' = shocks
          /\ work.attempts < MaxAttempts + shocks
      BY <1>t, <1>6 DEF RecoverAll, BudgetInv, TypeOK
    <2> QED BY <1>t, <2>1 DEF BudgetInv
  <1>7. CASE work'.attempts = 0
    <2>1. \A n \in Nat : 0 <= MaxAttempts + n /\ 0 < MaxAttempts + n
      OBVIOUS
    <2> QED BY <1>t, <1>7, <2>1 DEF BudgetInv
  <1>8. CASE work' = work /\ (step' = step \/ step' # "idle")
    BY <1>t, <1>0, <1>8 DEF BudgetInv
  <1>9. CASE Restore
    <2>1. work'.attempts = 0 \/ (work' = work /\ step' = step)
      BY <1>9 DEF Restore, NoWork, durable, pass
    <2> QED BY <1>7, <1>8, <2>1
  <1>10. CASE AdministrativeRetry
    BY <1>7, <1>10 DEF AdministrativeRetry
  <1>11. CASE Journal \/ Send \/ Acknowledge \/ Reconcile \/ Observe
    <2>1. work' = work /\ step' # "idle"
      BY <1>11 DEF Journal, Send, Acknowledge, Reconcile, Observe, Record, durable
    <2> QED BY <1>8, <2>1
  <1> QED
    BY <1>1, <1>3, <1>4, <1>5, <1>6, <1>8, <1>9, <1>10, <1>11
       DEF Next, Pass, vars, durable, pass, Prepare, Apply, Finalize, Authorize, RunJob, Disturb

-----------------------------------------------------------------------------
(* Theorems *)

LEMMA StepIInv == IInv /\ [Next]_vars => IInv'
  BY StepTypeOK, StepPass, StepRequest, StepEvidence, StepSuccess, StepBudget DEF IInv

LEMMA Invariance == Spec => []IInv
  BY InitIInv, StepIInv, PTL DEF Spec

(* Whatever is lost, retried, crashed or repaired by hand, one journal of  *)
(* a rollback asks Supervisor for at most one restore.                     *)
THEOREM RestoresOnce == Spec => []RestoreOnce
  <1>1. IInv => RestoreOnce
    BY DEF IInv
  <1> QED BY Invariance, <1>1, PTL

(* No older, foreign, running or forgotten job makes a rollback observe or *)
(* complete over the candidate's configuration, and the ledger says success *)
(* only for a completed rollback, at every step between the transactions.  *)
(* Attempts exceed their maximum only by the passes that crashes cut short. *)
THEOREM ConcludesTruly == Spec => []ConclusionIsTrue
  <1>1. IInv => ConclusionIsTrue
    BY DEF IInv, ConclusionIsTrue
  <1> QED BY Invariance, <1>1, PTL

=============================================================================

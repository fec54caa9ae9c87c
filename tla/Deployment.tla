----------------------------- MODULE Deployment -----------------------------
(***************************************************************************)
(* One deployment from its activation to its verdict: the journaled Core   *)
(* restart, the health window, the ordered observations, the finalization  *)
(* and then either the promotion of the candidate in Repo B or the         *)
(* authorization of a rollback.  Every stage is a row of the work table;   *)
(* the state-owner thread claims it, records the stage's evidence in one   *)
(* transaction and, in another, inserts the successor row and marks the    *)
(* stage succeeded.  The process can die between any two steps.            *)
(*                                                                         *)
(* Backoff is abstracted: a row in retry can be claimed.  What the         *)
(* observed services answer, and who else moves the refs of Repo B, is     *)
(* left open.                                                              *)
(***************************************************************************)
EXTENDS Integers

CONSTANTS
  MaxAttempts,  \* StateStore.MAX_WORK_ATTEMPTS
  MaxShocks     \* bound: crashes, administrative retries and foreign pushes

ASSUME DeploymentAssumption == MaxAttempts \in Nat \ {0} /\ MaxShocks \in Nat

VARIABLES
  work,          \* work rows of this deployment, one per stage
  held,          \* the stage the owner thread is executing, or "none"
  step,          \* how far its executor got
  restart,       \* core_restart_attempt.phase
  posts,         \* history: restart requests sent
  window,        \* core_health_observation and core_health_window
  elapsed,       \* the window's deadline has passed
  target,        \* what the change affects: ResourceAvailabilityTarget
  records,       \* the observation tables
  finalization,  \* failure_stage of deployment_finalization
  promotion,     \* deployment_promotion.phase
  refs,          \* Repo B: candidate head, main and the known-good tag
  seen,          \* the refs as the promotion last read them
  intent,        \* deployment_rollback exists
  shocks         \* bound counter

vars == <<work, held, step, restart, posts, window, elapsed, target, records,
          finalization, promotion, refs, seen, intent, shocks>>
evidence == <<restart, posts, window, elapsed, target, records, finalization>>
verdict == <<promotion, refs, seen, intent>>

Position == [restart |-> 1, core |-> 2, supervisor |-> 3, integrations |-> 4,
             startup_errors |-> 5, resources |-> 6, entities |-> 7,
             automation_scripts |-> 8, assertions |-> 9, finalize |-> 10,
             promote |-> 11, rollback |-> 11]
Stages == DOMAIN Position
Probes == {s \in Stages : Position[s] \in 3..9}
Judged == {s \in Stages : Position[s] \in 5..9}  \* these can record a failure

(* No entity is affected, entities are, automations or scripts among them. *)
Targets == {"nothing", "entities", "automations"}

Row == [status : {"absent", "pending", "running", "retry", "succeeded", "blocked"},
        attempts : 0..(MaxAttempts + MaxShocks)]

(* Where a promotion is: reading head, main and tag, writing the refs over *)
(* the API or pushing them with the deploy key, and reading them again.    *)
Promoting == {"read", "read_main", "read_tag", "main", "tag", "recheck", "push", "confirm",
              "reread", "reread_main", "reread_tag"}
Steps == {"idle", "enter", "send", "ack", "defer", "schedule", "finish"} \cup Promoting

(* An "ancestor" is a foreign commit the candidate descends from; from     *)
(* every "other" commit a branch does not fast-forward to the candidate.   *)
Refs == [head : {"candidate", "other"},
         main : {"baseline", "candidate", "ancestor", "other"},
         tag : {"absent", "candidate", "other"}]

(* Attempts can pass the maximum only by as many as the process crashed.   *)
TypeOK ==
  /\ work \in [Stages -> Row]
  /\ held \in Stages \cup {"none"} /\ step \in Steps
  /\ restart \in {"none", "started", "acknowledged"} /\ posts \in Nat
  /\ window \in {"none", "initial", "started", "completed"} /\ elapsed \in BOOLEAN
  /\ target \in Targets
  /\ records \in [Probes -> {"absent", "good", "bad"}]
  /\ finalization \in {"absent", "none"} \cup Judged
  /\ promotion \in {"absent", "planned", "completed", "blocked"}
  /\ refs \in Refs /\ seen \in Refs
  /\ intent \in {"absent", "planned"}
  /\ shocks \in 0..MaxShocks

Init ==
  /\ work = [s \in Stages |-> [status |-> IF s = "restart" THEN "pending" ELSE "absent",
                               attempts |-> 0]]
  /\ held = "none" /\ step = "idle"
  /\ restart = "none" /\ posts = 0 /\ window = "none" /\ elapsed = FALSE
  /\ target \in Targets
  /\ records = [p \in Probes |-> "absent"]
  /\ finalization = "absent" /\ promotion = "absent" /\ intent = "absent"
  /\ refs = [head |-> "candidate", main |-> "baseline", tag |-> "absent"]
  /\ seen = refs
  /\ shocks = 0

At(s, p) == held = s /\ step = p
Go(p) == step' = p /\ UNCHANGED <<work, held>>
Release == held' = "none" /\ step' = "idle"

-----------------------------------------------------------------------------
(* Every lane *)

(* Interrupted rows of the lane are recovered and one is claimed, in one   *)
(* transaction.                                                            *)
Claim(s) ==
  /\ held = "none" /\ work[s].status \in {"pending", "retry", "running"}
  /\ work' = [work EXCEPT ![s].status = "running", ![s].attempts = @ + 1]
  /\ held' = s /\ step' = "enter"
  /\ UNCHANGED <<evidence, verdict, shocks>>

(* Faulty variant: every retry starts from a fresh attempt budget.         *)
FailRefreshing(s, transient) ==
  /\ held = s
  /\ s = "restart" \/ (s = "promote" /\ promotion = "blocked") => ~transient
  /\ work' = [work EXCEPT ![s] = IF transient THEN [status |-> "retry", attempts |-> 0]
                                 ELSE [@ EXCEPT !.status = "blocked"]]
  /\ Release
  /\ UNCHANGED <<evidence, verdict, shocks>>

(* A classified error at any point of an executor.  A restart and a        *)
(* blocked promotion are never retried; elsewhere transport errors are     *)
(* transient, invalid evidence is not.                                     *)
Fail(s, transient) ==
  /\ held = s
  /\ s = "restart" \/ (s = "promote" /\ promotion = "blocked") => ~transient
  /\ work' = [work EXCEPT ![s].status =
                IF transient /\ work[s].attempts < MaxAttempts THEN "retry" ELSE "blocked"]
  /\ Release
  /\ UNCHANGED <<evidence, verdict, shocks>>

(* What a stage re-proves from the tables before it acts: the whole chain. *)
Proven(s) ==
  /\ Position[s] > 1 => restart = "acknowledged"
  /\ Position[s] > 2 => window = "completed"
  /\ \A p \in Probes : Position[p] < Position[s] => records[p] = "good"

After == [restart |-> "core", core |-> "supervisor", supervisor |-> "integrations",
          integrations |-> "startup_errors", startup_errors |-> "resources",
          resources |-> "entities", entities |-> "automation_scripts",
          automation_scripts |-> "assertions", assertions |-> "finalize"]

(* Faulty variant: the two handoffs of the finalization are swapped.       *)
SuccessorSwapped(s) ==
  IF s = "finalize" THEN IF finalization = "none" THEN {"rollback"} ELSE {"promote"}
  ELSE IF s \in {"promote", "rollback"} THEN {}
  ELSE IF s \in Judged /\ records[s] = "bad" THEN {"finalize"} ELSE {After[s]}

(* The stage scheduled by the evidence of s; the last ones schedule none.  *)
Successor(s) ==
  IF s = "finalize" THEN IF finalization = "none" THEN {"promote"} ELSE {"rollback"}
  ELSE IF s \in {"promote", "rollback"} THEN {}
  ELSE IF s \in Judged /\ records[s] = "bad" THEN {"finalize"} ELSE {After[s]}

(* The rows that must not exist yet when s schedules its successor.        *)
Conflicts(s) ==
  IF s = "finalize" THEN {"promote", "rollback"}
  ELSE IF s \in Judged THEN {After[s], "finalize"} ELSE Successor(s)

(* One transaction: the successor is inserted, the stage has succeeded.    *)
(* The attempts of a succeeded stage are never read again: dropped here.   *)
Finish(s) ==
  /\ At(s, "finish")
  /\ \A t \in Conflicts(s) : work[t].status = "absent"
  /\ work' = [t \in Stages |-> IF t \in Successor(s)
                                 THEN [status |-> "pending", attempts |-> 0]
                               ELSE IF t = s THEN [status |-> "succeeded", attempts |-> 0]
                               ELSE work[t]]
  /\ Release
  /\ UNCHANGED <<evidence, verdict, shocks>>

-----------------------------------------------------------------------------
(* The Core restart *)

(* Faulty variant: a request that was started is sent again.               *)
JournalRestartAgain ==
  /\ At("restart", "enter") /\ restart # "acknowledged"
  /\ restart' = "started"
  /\ Go("send")
  /\ UNCHANGED <<posts, window, elapsed, records, finalization, target, verdict, shocks>>

(* Journal first; a started request with no answer is only ever blocked.   *)
JournalRestart ==
  /\ At("restart", "enter") /\ restart = "none"
  /\ restart' = "started"
  /\ Go("send")
  /\ UNCHANGED <<posts, window, elapsed, records, finalization, target, verdict, shocks>>

SendRestart ==
  /\ At("restart", "send")
  /\ posts' = posts + 1
  /\ Go("ack")
  /\ UNCHANGED <<restart, window, elapsed, records, finalization, target, verdict, shocks>>

AcknowledgeRestart ==
  /\ At("restart", "ack")
  /\ restart' = "acknowledged"
  /\ Go("finish")
  /\ UNCHANGED <<posts, window, elapsed, records, finalization, target, verdict, shocks>>

ReplayRestart ==
  /\ At("restart", "enter") /\ restart = "acknowledged"
  /\ Go("finish")
  /\ UNCHANGED <<evidence, verdict, shocks>>

-----------------------------------------------------------------------------
(* The Core health window *)

SetWindow(w, p) ==
  /\ window' = w
  /\ Go(p)
  /\ UNCHANGED <<restart, posts, elapsed, records, finalization, target, verdict, shocks>>

(* The first healthy answer after the restart is recorded.                 *)
ObserveCore ==
  /\ At("core", "enter") /\ Proven("core") /\ window = "none"
  /\ SetWindow("initial", "defer")

StartWindow ==
  /\ At("core", "enter") /\ Proven("core") /\ window = "initial"
  /\ SetWindow("started", "schedule")

(* Claimed before the deadline, after an interruption.                     *)
WaitWindow ==
  /\ At("core", "enter") /\ Proven("core") /\ window = "started" /\ ~elapsed
  /\ SetWindow("started", "schedule")

CompleteWindow ==
  /\ At("core", "enter") /\ Proven("core") /\ window = "started" /\ elapsed
  /\ SetWindow("completed", "finish")

ReplayWindow ==
  /\ At("core", "enter") /\ Proven("core") /\ window = "completed"
  /\ SetWindow("completed", "finish")

(* Progress gives the row a fresh attempt budget: now, or at the deadline. *)
Reschedule ==
  /\ \/ At("core", "defer")
     \/ At("core", "schedule") /\ window = "started"
  /\ work' = [work EXCEPT !["core"] =
                [status |-> IF step = "defer" THEN "pending" ELSE "retry", attempts |-> 0]]
  /\ Release
  /\ UNCHANGED <<evidence, verdict, shocks>>

Elapse ==
  /\ window = "started" /\ ~elapsed
  /\ elapsed' = TRUE
  /\ UNCHANGED <<work, held, step, restart, posts, window, target, records,
                 finalization, verdict, shocks>>

-----------------------------------------------------------------------------
(* The observations and the finalization *)

(* One evidence row per probe, written once: a replay keeps what it says.  *)
RecordOnce(s, outcomes) ==
  /\ At(s, "enter") /\ Proven(s)
  /\ IF records[s] = "absent"
       THEN \E o \in outcomes : records' = [records EXCEPT ![s] = o]
       ELSE UNCHANGED records
  /\ Go("finish")
  /\ UNCHANGED <<restart, posts, window, elapsed, target, finalization, verdict, shocks>>

(* Recorded only when healthy; anything else is an error of the stage.     *)
ObserveSupervisor == RecordOnce("supervisor", {"good"})
ObserveIntegrations == RecordOnce("integrations", {"good"})

(* Errors logged since the restart count, whatever the change affects.     *)
ObserveStartupErrors == RecordOnce("startup_errors", {"good", "bad"})

(* What is not affected is not asked for, and passes.                      *)
Judgement(affected) == IF target \in affected THEN {"good", "bad"} ELSE {"good"}

ObserveResources == RecordOnce("resources", Judgement({"entities", "automations"}))
ObserveEntities == RecordOnce("entities", Judgement({"entities", "automations"}))
ObserveAutomations == RecordOnce("automation_scripts", Judgement({"automations"}))
ObserveAssertions == RecordOnce("assertions", Judgement({"entities", "automations"}))

(* The first failed predicate, with nothing recorded behind it.            *)
FailsAt(p) ==
  /\ records[p] = "bad"
  /\ \A q \in Judged : /\ Position[q] < Position[p] => records[q] = "good"
                       /\ Position[q] > Position[p] => records[q] = "absent"

Passes == \A q \in Judged : records[q] = "good"

(* Faulty variant: the assertions are evaluated but not judged.            *)
DecideWithoutAssertions ==
  /\ At("finalize", "enter")
  /\ IF finalization = "absent"
       THEN \/ \E p \in Judged \ {"assertions"} : FailsAt(p) /\ finalization' = p
            \/ /\ \A q \in Judged \ {"assertions"} : records[q] = "good"
               /\ finalization' = "none"
       ELSE UNCHANGED finalization
  /\ Go("finish")
  /\ UNCHANGED <<restart, posts, window, elapsed, records, target, verdict, shocks>>

(* The verdict is written once, and a replay re-derives it from the        *)
(* records: it must be the same.                                           *)
Decide ==
  /\ At("finalize", "enter")
  /\ IF finalization = "absent"
       THEN \/ \E p \in Judged : FailsAt(p) /\ finalization' = p
            \/ Passes /\ finalization' = "none"
       ELSE /\ IF finalization = "none" THEN Passes ELSE FailsAt(finalization)
            /\ UNCHANGED finalization
  /\ Go("finish")
  /\ UNCHANGED <<restart, posts, window, elapsed, records, target, verdict, shocks>>

-----------------------------------------------------------------------------
(* The promotion *)

Disposition(r) ==
  IF r.head # "candidate" \/ r.main \notin {"baseline", "candidate"} \/ r.tag = "other"
    THEN "blocked"
  ELSE IF r.main = "candidate" /\ r.tag = "candidate" THEN "completed" ELSE "publish"

(* The durable plan precedes every GitHub request; a completed one needs   *)
(* none and a blocked one refuses (Fail).                                  *)
PlanPromotion ==
  /\ At("promote", "enter") /\ finalization = "none" /\ promotion # "blocked"
  /\ promotion' = IF promotion = "completed" THEN "completed" ELSE "planned"
  /\ Go(IF promotion = "completed" THEN "finish" ELSE "read")
  /\ UNCHANGED <<evidence, refs, seen, intent, shocks>>

(* Divergence is recorded as terminal; the row then fails (Fail) since no  *)
(* step follows.                                                           *)
Settle(d) ==
  /\ promotion' = d
  /\ Go(IF d = "completed" THEN "finish" ELSE "idle")
  /\ UNCHANGED <<evidence, refs, intent, shocks>>

(* What is read decides: a promotion that is published already completes,  *)
(* one whose refs diverged is blocked, and otherwise the missing refs are  *)
(* written; after the writes "publish" is an unavailable answer (Fail).    *)
Conclude ==
  \/ /\ Disposition(seen') = "publish" /\ step \in {"read", "read_tag"}
     /\ Go("main")
     /\ UNCHANGED <<evidence, promotion, refs, intent, shocks>>
  \/ Disposition(seen') # "publish" /\ Settle(Disposition(seen'))

Asks(from, to) ==
  /\ At("promote", from) /\ Go(to)
  /\ UNCHANGED <<evidence, promotion, refs, intent, shocks>>

(* With a token each ref is a request of its own.                          *)
ReadHead ==
  /\ Asks("read", "read_main") \/ Asks("reread", "reread_main")
  /\ seen' = [seen EXCEPT !.head = refs.head]

ReadMain ==
  /\ Asks("read_main", "read_tag") \/ Asks("reread_main", "reread_tag")
  /\ seen' = [seen EXCEPT !.main = refs.main]

ReadTag ==
  /\ held = "promote" /\ step \in {"read_tag", "reread_tag"}
  /\ seen' = [seen EXCEPT !.tag = refs.tag]
  /\ Conclude

(* With the deploy key one ls-remote answers for all of them.              *)
ReadSnapshot ==
  /\ held = "promote" /\ step \in {"read", "reread"}
  /\ seen' = refs
  /\ Conclude

(* Faulty variant: the PATCH forces the branch to where it is wanted.      *)
PublishMainForced ==
  /\ At("promote", "main")
  /\ IF seen.main = "baseline"
       THEN refs' = [refs EXCEPT !.main = "candidate"]
       ELSE UNCHANGED refs
  /\ Go("tag")
  /\ UNCHANGED <<evidence, promotion, seen, intent, shocks>>

(* PATCH with force: false: GitHub refuses it unless main fast-forwards.   *)
PublishMain ==
  /\ At("promote", "main")
  /\ IF seen.main = "baseline"
       THEN refs.main # "other" /\ refs' = [refs EXCEPT !.main = "candidate"]
       ELSE UNCHANGED refs
  /\ Go("tag")
  /\ UNCHANGED <<evidence, promotion, seen, intent, shocks>>

(* POST of a new ref.  GitHub refuses it when the tag exists.              *)
PublishTag ==
  /\ At("promote", "tag")
  /\ IF seen.tag = "absent"
       THEN refs.tag = "absent" /\ refs' = [refs EXCEPT !.tag = "candidate"]
       ELSE UNCHANGED refs
  /\ Go("reread")
  /\ UNCHANGED <<evidence, promotion, seen, intent, shocks>>

(* With the deploy key the refs are read twice more, before and after the  *)
(* candidate is fetched, and must not have changed; by the second time     *)
(* they may have been completed.                                           *)
Recheck ==
  /\ \/ refs = seen /\ (Asks("main", "recheck") \/ Asks("recheck", "push"))
     \/ Disposition(refs) = "completed" /\ Asks("recheck", "reread")
  /\ UNCHANGED seen

(* Then the missing refs go in one atomic, unforced push.                  *)
PublishWithDeployKey ==
  /\ At("promote", "push")
  /\ seen.main = "baseline" => refs.main # "other"
  /\ seen.tag = "absent" => refs.tag # "other"
  /\ refs' = [refs EXCEPT !.main = IF seen.main = "baseline" THEN "candidate" ELSE @,
                          !.tag = IF seen.tag = "absent" THEN "candidate" ELSE @]
  /\ Go("confirm")
  /\ UNCHANGED <<evidence, promotion, seen, intent, shocks>>

(* The publisher is not done before it has read both refs back.            *)
Confirm ==
  /\ Disposition(refs) = "completed" /\ Asks("confirm", "reread")
  /\ UNCHANGED seen

(* Rollback authority: a failed verdict, and main still at the baseline    *)
(* unless the intent was already recorded.                                 *)
AuthorizeRollback ==
  /\ At("rollback", "enter") /\ finalization \in Judged
  /\ intent = "absent" => refs.main = "baseline"
  /\ intent' = "planned"
  /\ Go("finish")
  /\ UNCHANGED <<evidence, promotion, refs, seen, shocks>>

-----------------------------------------------------------------------------
(* The environment *)

Shock == shocks < MaxShocks /\ shocks' = shocks + 1

(* The process dies, or an unclassified error ends the pass: the row, if   *)
(* any was claimed, stays running.                                         *)
Crash == /\ held # "none" /\ Shock /\ Release
         /\ UNCHANGED <<work, evidence, verdict>>

(* The operator's one-shot retry of a blocked row, consumed at boot.       *)
AdministrativeRetry(s) ==
  /\ held = "none" /\ work[s].status = "blocked" /\ Shock
  /\ work' = [work EXCEPT ![s] = [status |-> "pending", attempts |-> 0]]
  /\ UNCHANGED <<held, step, evidence, verdict>>

(* Somebody else pushes to Repo B.                                         *)
ForeignPush ==
  /\ Shock
  /\ \/ refs.head = "candidate" /\ refs' = [refs EXCEPT !.head = "other"]
     \/ /\ refs.main # "other"
        /\ \E commit \in {"ancestor", "other"} \ {refs.main} :
             refs' = [refs EXCEPT !.main = commit]
     \/ refs.tag = "absent" /\ refs' = [refs EXCEPT !.tag = "other"]
  /\ UNCHANGED <<work, held, step, evidence, promotion, seen, intent>>

-----------------------------------------------------------------------------
Restart == JournalRestart \/ SendRestart \/ AcknowledgeRestart \/ ReplayRestart
CoreHealth == ObserveCore \/ StartWindow \/ WaitWindow \/ CompleteWindow
                \/ ReplayWindow \/ Reschedule
Observe == ObserveSupervisor \/ ObserveIntegrations \/ ObserveStartupErrors
             \/ ObserveResources \/ ObserveEntities \/ ObserveAutomations
             \/ ObserveAssertions
ReadRefs == ReadHead \/ ReadMain \/ ReadTag \/ ReadSnapshot
Publish == PublishMain \/ PublishTag \/ Recheck \/ PublishWithDeployKey \/ Confirm
Promote == PlanPromotion \/ ReadRefs \/ Publish

(* The owner thread.                                                       *)
Pass ==
  \/ \E s \in Stages : Claim(s) \/ Finish(s)
  \/ \E s \in Stages, t \in BOOLEAN : Fail(s, t)
  \/ Restart \/ CoreHealth
  \/ Observe
  \/ Decide \/ Promote \/ AuthorizeRollback

Next ==
  \/ Pass \/ Elapse \/ Crash \/ ForeignPush
  \/ \E s \in Stages : AdministrativeRetry(s)

Spec == Init /\ [][Next]_vars

(* The owner thread keeps taking steps while it has one, and time passes.  *)
FairSpec == Spec /\ WF_vars(Pass) /\ WF_vars(Elapse)

-----------------------------------------------------------------------------
(* Properties *)

(* core_restart_transport.py: however often the stage is interrupted,      *)
(* recovered or retried by the operator, Core is asked to restart once.    *)
RestartOnce == posts <= 1

(* The refs of Repo B carry the candidate only if Core was restarted, the  *)
(* health window completed and every observation passed: no crash, replay  *)
(* or retry anywhere in the chain lets a candidate through.  A promotion   *)
(* recorded as completed published both, whatever was lost in between.     *)
PublishedOnlyIfProven ==
  /\ refs.main = "candidate" \/ refs.tag = "candidate" =>
       /\ restart = "acknowledged" /\ window = "completed"
       /\ \A p \in Probes : records[p] = "good"
  /\ promotion = "completed" => refs.main # "baseline" /\ refs.tag = "candidate"

(* Of the stages of a deployment at most one is unfinished, so two lanes   *)
(* never work on it and no stage runs twice.                               *)
OneStageOpen ==
  \A s, t \in Stages :
    /\ work[s].status \notin {"absent", "succeeded"}
    /\ work[t].status \notin {"absent", "succeeded"}
    => s = t

(* candidate_finalization_execution.py: promotion and rollback are never   *)
(* both scheduled, each only on the verdict that grants it, and no other   *)
(* stage is open beside them.                                              *)
AuthorityIsExclusive ==
  /\ TypeOK
  /\ OneStageOpen
  /\ work["promote"].status # "absent" => finalization = "none"
  /\ work["rollback"].status # "absent" => finalization \in Judged
  /\ intent = "planned" => finalization \in Judged /\ promotion = "absent"

(* deployment_promotion_transport.py, publish_promotion_refs: the refs are *)
(* read one by one, then written, and anything can be pushed in between.   *)
(* Whichever transport, crash or retry writes them, a main that somebody   *)
(* moved to where it does not fast-forward to the candidate stays where    *)
(* they put it and a tag that exists is not moved; and what was concluded  *)
(* of them is not concluded again: neither the verdict nor a promotion     *)
(* that completed or met a divergence is ever rewritten.                   *)
ForeignRefsSurvive ==
  [][/\ refs.main = "other" => refs'.main = "other"
     /\ refs.tag # "absent" => refs'.tag = refs.tag
     /\ promotion \in {"completed", "blocked"} => promotion' = promotion
     /\ finalization # "absent" => finalization' = finalization]_vars

(* A deployment always reaches a conclusion: promoted, handed over to the  *)
(* rollback lane, or blocked for the operator.                             *)
DeploymentConcludes ==
  <>[](\/ work["promote"].status = "succeeded"
       \/ work["rollback"].status = "succeeded"
       \/ \E s \in Stages : work[s].status = "blocked")

(* README.md:371: the deployment is rolled back automatically if           *)
(* validation fails.  The code does so only for the judged predicates: a   *)
(* stage that cannot observe a healthy system blocks, and nothing follows. *)
UnhealthyIsRolledBack ==
  (\E s \in {"core", "supervisor", "integrations"} : work[s].status = "blocked")
    ~> work["rollback"].status # "absent"
=============================================================================

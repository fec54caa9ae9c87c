# A formal model of SyncApp

SyncApp is a Home Assistant app that keeps a Home Assistant installation and a
GitHub repository ("Repo B") synchronised: it publishes snapshots of the
configuration, the recorder database, the runtime inventory and the logs, and it
deploys candidates that a person pushes to the repository, through validation,
backup, controlled Apply, restart, observation, promotion and, if it must,
rollback.

This directory holds TLA+ modules translated from `src/syncapp/src/ha_syncapp/`,
TLC configurations that check them on small instances, and TLAPS proofs of what
matters most for every instance. `PROJECT.json` lists the components, the runs,
the source lines each definition stands for, the mutants that show that each
property can fail, the hazards of the code and the disagreements found between
the code and its documents.

## 1. Inventory

### The process

One process (`__main__.run`) owns the state database. Its *owner thread* is a
single synchronous loop: boot (schema, administrative retry, start-up work),
then for ever: drain the mailboxes, schedule routine work, run a retrigger
cycle, sleep. Every lane of a cycle has the same shape: in one SQLite transaction
recover rows a dead process left `running`, in the same or the next one claim the
oldest due row of the lane's kind, execute it, and settle it. Two helper threads
(inotify watcher, Core WebSocket session) only put signals into bounded mailboxes.
So the concurrency that matters is: the owner thread against *crashes and power
loss* at every step, against *the live file tree* (Home Assistant and people edit
it), against *Repo B* (people and other tools push to it), against *Core and
Supervisor* (answers lost, late or wrong), and against the signals of its own
helper threads.

### The components

| component | state | operations | hard behaviour | what makes it correct | module |
|---|---|---|---|---|---|
| Work ledger (`state.py`, `work_schedule.py`, `administrative_retry_request.py`) | the `work` table, receipts | enqueue, schedule, claim, recover, fail with backoff, defer, complete, administrative retry | crash in the middle of an attempt, signals coalesced with unfinished rows, an option that is replayed at each boot | exclusive claims, no lost signal, bounded attempts, no starvation | `WorkLedger`, `WorkLifecycle` |
| Controlled live Apply (`live_apply_*`, `candidate_apply_*`, `post_apply_activation.py`) | journal, mutation guards, reconciliation outcomes, intent, activation; the live tree | admit, prove, journal, prepare, exchange/link/rename/chmod, check, reverse, verify, reconcile, activate | crash between the change of a file and its record; edits at any moment; block that cannot be stored | an operation is applied once, in order, over exactly its baseline; restart only after all | `LiveApply`, `ApplyProtocol` |
| Post-Apply chain (`core_restart_transport.py`, `core_health_*`, the observations, `deployment_finalization.py`) | one evidence table per stage, one work row per stage | restart, observe, wait, record, finalize | a request whose answer is lost; stages that die between evidence and handoff; operator retries | one restart; one open stage; a verdict that agrees with the evidence; exclusive authority | `Deployment` |
| Promotion (`deployment_promotion*.py`) | durable plan; `main`, candidate and known-good refs of Repo B | plan, read, publish branch and tag, read back | two refs, not atomic over the REST API; foreign pushes; lost answers | only proven candidates are published; "completed" means both refs | `Deployment` |
| Rollback (`deployment_rollback*.py`) | rollback journal; a Supervisor restore job | authorize, restore, reconcile, observe, complete | the restore replaces the state of the app that requested it | restored once, completed only over the baseline, concluded, never applied again | `Rollback`; the authorization also in `Deployment` |
| Candidate pipeline (`candidate_*`) | one work row and one evidence table per stage, the Stage tree, backup checkpoint | detect, fetch, integrity, dependencies, risk, static, semantics, freshness, backup, prepare | a new candidate while an old one is in the pipeline; a cold backup that stops its own requester; two kinds of pass claiming the same rows | stages in order; one backup request; conclusions settled in all tables at once; every candidate settles | `CandidatePipeline`, `CandidateProtocol` |
| Snapshot publication (`local_sync*`, `publication_*`, `main_routing.py`) | work rows, baselines; branches of Repo B | schedule, claim, capture, look, commit, authorize, push, verify, record | push succeeds and its answer is lost; foreign push between look and push; promotion moves main and records no baseline | no foreign commit dropped; the baseline is what was published | `Publication` |
| Database, runtime, log producers | as publication, one branch each | collect, sanitise, publish | as publication; an anchor that the branch must still carry | as publication | cases of `Publication` |
| Retention (`*_history_replace*`, `*_retention_work.py`) | retention rows, intents; history of a branch | plan, prove, authorize, leased replacement, verify, move the baseline | the clock moves between plan and retry; crash between replacement and baseline; a foreign push under the lease | exactly the expired suffix goes; nothing foreign; what was replaced gets its baseline | `Retention` |
| Change and event intake (`local_change_*`, `runtime_event_*`, `core_event_stream.py`) | inotify watches, two mailboxes, debouncer, sessions | walk, watch, read, notify, drain, debounce; connect, subscribe, forward, reconnect | the tree moves under the walk; threads; a full mailbox; stop while events arrive | every edit seen or about to be; every runtime change published or owed | `LocalChanges`, `RuntimeEvents`, `OwnerLoop` |
| Owner loop and Retrigger cycle (`__main__.py`, `retrigger_*.py`) | its place; the requests at its socket | start up, serve, cycle, tick, stop, join | a signal or an exception anywhere; a restart; a lane that raises ends the cycle | what was seen stays owed; threads are joined before the run is finished | `OwnerLoop`; its scheduling in `WorkLedger` |
| Repo B initialisation (`repo_initialization*.py`) | authority and execution rows | authorize, prepare, push, confirm, retry, block | a lost answer to the first push; somebody else's first commit | initialized once; execution, authority and baseline end together | `RepoInitialization` |
| Deploy-key administration (`deploy_key*.py`) | key directories, generation journals, rotation record, receipts | generate, test, prepare, verify, activate, initialize | crash between two renames, or between an action and its receipt; requests in any order | no key lost; only a proven key in use; receipts are true | `KeyRotation`, `KeyAdministration` |
| Validation and evidence collection | none | parsers, classifiers | none of a protocol kind | tested, data-only | not modelled |
| Configuration, packaging | options | parse | none | tested | not modelled |

The components meet in the work table (a stage inserts its successor's row), in
their evidence tables (a stage re-proves those of all earlier stages), in the
live tree and in the refs of Repo B.

## 2. The modules

### `WorkLifecycle` and `WorkLedger`

`WorkLifecycle` is the abstract specification: an item is submitted, started,
released without verdict, settled; a success is reopened only by a new
submission; a blocked item only by an administrative request never spent before.

`WorkLedger` is the table itself. `work[i]` is a row with its status, attempts and
`wait`, which is `next_attempt_at` minus now; `Tick` makes all waits shrink, and
`MaxAge` bounds how overdue a row may become. `held` is the `WorkItem` snapshot the
owner thread carries; the compare-and-set of the transitions
(`WHERE status='running' AND attempts=?`) is `StillOurs`. Each method of `StateStore`
is one action: `Enqueue`, `Schedule`, `ClaimKind`, `RecoverAll` (the four routine
lanes), `RecoverKind` (the candidate lanes), `Fail`, `Defer`, `Complete`; `Abandon`
is an exception that leaves a pass with the row `running`; `Crash`, `Boot`,
`BootWithRequest` are the process and the option `administrative_retry`.
`interrupted` and `dirty` only record history and guard nothing, except that
`interrupted` carries the bound `MaxInterruptions`.

### `CandidateProtocol` and `CandidatePipeline`

`CandidateProtocol` is what the pipeline promises of a commit: gates one at a time
and in order, a backup request only past the last gate and once, a preparation
only after the request, conclusions for ever.

`CandidatePipeline` is the pipeline. `head` is the candidate branch, which `Push` moves
at any time. For each commit, `work` is its row of kind `candidate`, `orch` the phase
of its `candidate_orchestration` row (which determines `next_action`), `checkpoint`
its rows in the seven checkpoint tables, `tree` its Stage directory, `prepared` the
prepared deployment with its `candidate_apply` work. `task` is the place of the
one thread in an executor. `RoutineClaim` is the routine preflight pass (pending
rows only, below the attempt limit, never the backup), `Recover` and `RetriggerClaim`
the seven lanes of a cycle, of which only the first that finds a row executes.
What the executors share is written once: `Register`, `Plan`, `Advance` (checkpoint and
orchestration in one transaction), `Reject`, `Fail`, `Release`; each gate is an action of its
own over these. `EvidenceInvalid`, `Superseded` and `Unavailable` are the ways a gate
fails. The backup is journaled (`StartBackup`), sent, and either answered or unclear;
`ResumeBackup` is what a later attempt does with a request that may have been sent.
`TakeBackup` and `LoseBackup` are Supervisor's. Digests that bind a checkpoint to
the orchestration it was planned for are abstracted to the phases they bind.
`StagesInOrder` is the reason that is sound: the phases themselves never part.

Two behaviours are in the model although no property forbids them. A backup that
Supervisor finishes after `BlockBackup` stays in the inventory, unused. And an
operator's retry of a candidate whose orchestration is concluded makes the
row pending, but no pass will select it, because both join on `next_action`; hence
the `retried[c] = 0` in `SettledTogether`.

### `ApplyProtocol` and `LiveApply`

`ApplyProtocol` is what the journal promises: operations begin in order, one at a
time, once; a halt is for ever; the restart is released after all are confirmed.

`LiveApply` is one prepared deployment being applied. Every leaf of the tree has
one value for its content and mode ("base", "cand", "absent", or somebody's edit),
and `side` is the temporary or tombstone next to it. `pc` is the owner thread's
place in the writer, the reconciler or the completion, with one action per
effect that another party or a crash could fall between: the first proof, the
journal record, the second proof with the guard, the temporary, the exchange
(link, rename, chmod), the check of what was displaced, its reversal, the removal
of the temporary, the postcondition, the record, the release. `Refuse` is the file
system or the state store refusing any of these, and the checks and reversals have
alternatives of their own for a leaf that cannot be read or moved back; `TryUnlink`
is a removal that is attempted and not insisted on. A plan can be `Empty`: it is
complete at once, and releases no restart. The reconciler's two
transactions and completion's three are actions of their own; the latter can fail for
good (`Fail(FALSE)`: the store or the successor refuses), which blocks a row whose plan
is fully verified. `Edit` changes any
leaf at any time, `Crash` sends the thread back to "idle" and leaves the row
`running`. `mutations`, `displaced` and `discarded` are history.

### `Deployment`

One deployment from its activation to its conclusion. `work` has one row per
stage, in the order of `Position`; the generic actions `Claim`, `Fail` and
`Finish` are the lane code all stages share, `Successor` and `Conflicts` the
handoffs. The stages differ in what they record: the restart (`JournalRestart`,
`SendRestart`, `AcknowledgeRestart`), the health window of the Core observation,
the seven probes (`ObserveSupervisor` to `ObserveAssertions`, over `RecordOnce`; `target` says what
the change affects, and with it which probes can fail), the finalization (`Decide`) and the promotion
(`PlanPromotion`, `ReadRefs`, `Publish`, and `ReadRefs` again) or the
authorization of a rollback. `Proven` is the chain of evidence each stage proves
again before it acts. Backoff is left out (a row in retry can be claimed) since
`WorkLedger` is about it. The two transports of a promotion differ. A token reads
head, main and tag in three requests (`ReadHead`, `ReadMain`, `ReadTag`) and writes in
two (`PublishMain`, `PublishTag`); the deploy key reads all refs at once
(`ReadSnapshot`), twice more before it pushes (`Recheck`), pushes what is missing
atomically (`PublishWithDeployKey`) and reads it back (`Confirm`). Neither forces, so
what GitHub refuses is a main from which the candidate is no fast-forward; `seen` is what
the pass goes by. The environment crashes the process, retries blocked
rows as the administrative request does, and pushes to all three refs of Repo B.

### `Rollback`

One rejected deployment being rolled back. `record` is the `deployment_rollback` row
(phase, acknowledged job, and `since`, the number of jobs that are older than its
`updated_at`), `work` its row of the ledger, `step` and `ticket` the owner thread's
place in a pass and the answer it carries. `jobs` is Supervisor's list of restore
jobs of the backup, in order of creation; a job is queued, running, restored
(configuration put back, not yet finished), done, failed, or gone after a
restart of Supervisor. `Claim` chooses the work of the pass from the record's
phase; `Journal`, `Send` and `Acknowledge` are the request with the journal before
it; `Reconcile` reads the jobs through `Evidence`; `Observe` is the health proof;
`Settle` and `Refuse` are how a pass ends its row, in a transaction of its own.
`Restore` is what Supervisor does: it puts the configuration back and, when
`holdsApp` says that the backup holds the app's own data, also the state database,
to what it was when the cold backup stopped the app. Which backups do is
Supervisor's affair, so both are initial states. `Disturb` is a person who
restores the same backup, a restart of Supervisor, or a push to main. The
stages before the rollback (`Prepare`, `Apply`, `Finalize`) are one action each, so that
what follows a restored database can be seen; a second deployment is not
distinguished from the first, because it is of the same candidate.

### `Publication` and `Retention`

`Publication` is one branch of Repo B and the pass that publishes to it. `case` is
the branch and the credential, chosen initially; what the branches do differently
(what is captured, what must be anchored, whether a moved branch is reported or an
error, how rows are keyed) is a guard on `case`. A commit *is* its history, a
sequence of entries with tree, author and time, so that "fast-forward" is
`IsPrefix`. `pass` is the place of the owner thread with what it captured, saw and
made; every look at GitHub (`Observe`, `Preflight`, `Authorize`, `Recheck`, `Verify`) is a
step of its own, since somebody else may push between any two. `Push` is the
unforced push; `PushUnanswered` is the push whose answer is lost. `Deploy`, `Promote`,
`PromotionRefused` and `RollBack` are the deployment of the same files as far as
`main` and the configuration see it; `Promote` is the composition with
`Deployment`, whose preconditions are its business.

`Retention` composes the retention pass with it, on the same thread, the same
branch and the same baseline. A row is keyed by the head and the plan (`keep`), its
`ref` is the time it was created at. `Prove`, `AuthorizeReplacement`, `RecordIntent`,
`RetRecheck`, `Replace`, `AdvanceBaseline` and `RetComplete` are the steps; `ResumeReplaced` and `ResumeStale`
what a later attempt does with an intent. Time is `horizon`, the last entry that is
older than the retention period, which `Age` moves. Two reductions keep it small:
time is only observed by planning, so `Age` need not happen where nothing reads
it, and the source, which retention does not read, changes between its passes.

### `KeyRotation`, `RepoInitialization` and `KeyAdministration`

One state machine in three layers, each with its own variables. `KeyRotation` is the
disk: `keys` says which key generation each directory holds, `journal` which one a
generation journal names, `record` is the rotation record. Every durable write
and every rename is an action, so that a stop can fall between any two; one that raises
has taken place or has not (`Torn`: the `fsync` after it can be what failed), whether it
writes the record, names or removes a generation journal (`EnsureKey`, `RemoveJournal`)
or puts a directory in its place (`GenerateKey`, `Rename`). `Reconcile` is
what the next activation makes of the directories it finds. `RepoInitialization`
adds the authority and execution rows, the remote's `main`, the push and the
observations around it. `KeyAdministration` is the control plane: `Start` takes one
configured action (`plan` is what the operator configures), `Call` is its dispatch,
`Settle` its receipt with the retries and the exhaustion, `Crash` the stop of
the app, `Wait` the time of a backoff, `Enroll` the keys on GitHub.

The executor of the initialization is also modelled as the library call that
`repo_initialization.py` prepares for ("a future idempotent executor") and the
tests make. The control plane alone cannot resume an interrupted execution with the
authority it was prepared with, so without the call half of the executor would be
unreachable. `MCOperatorPlans` is the control plane alone.

### `Surroundings`, `LocalChanges`, `RuntimeEvents` and `OwnerLoop`

`OwnerLoop` is the whole process; `LocalChanges` and `RuntimeEvents` are its two
helper threads with their mailboxes, and `Surroundings` the budget that everything
outside spends. A budget is drawn initially from a set, so a run explores several
mixtures of edits, faults, requests and signals instead of their product.

`LocalChanges`: `present` are the directories there are, `live` those whose present
inode the kernel watches, `table` the watcher's dictionary, and `unread` its event
queue. The walk (`Scan`), the comparison (`Forget`) and each registration (`AddWatch`)
are separate, since `Edit`, `Make` and `MoveAway` go on meanwhile. A view of the
source is the number of edits so far.

`RuntimeEvents`: the session of the WebSocket worker, its attempts, the events on
the wire and the number of signals in the mailbox. Putting a signal into a full
mailbox ends the worker (`Overflow`); a disconnection backs off and connects again;
a stop is taken between two receives.

`OwnerLoop`: `at` walks through `run()`: the startup publications, the construction
of the bridge, the start of both threads, the ticks (serve a Retrigger request,
drain, observe, debounce, synchronize), and the stop and join of each thread. A
publication is two steps, `Copy` (the view it reads) and `Settle` (succeeded, retry
or blocked). `Signal`, `Restart` (killed and started again at any point), `Dispatch` and
`GiveUp` (the launcher) and `Elapse` (the quiet period) are outside the thread.

The `MC*` modules hold nothing but the values of constants and the choice of
kinds; `WorkLedgerProofs`, `CandidatePipelineProofs`, `LiveApplyProofs`,
`DeploymentProofs`, `RollbackProofs`, `RetentionProofs`, `KeyAdministrationProofs` and
`OwnerLoopProofs` hold the proofs. Each model has one type invariant; where the list of a run does not name it, it is the first
conjunct of one of the invariants listed.

## 3. The runs

| run | expects | what it shows |
|---|---|---|
| `work_ledger` | pass | the table's safety, `NoStarvation` under fairness, and that it implements `WorkLifecycle` |
| `candidate_pipeline` | pass | evidence in step with the orchestration, conclusions settled together, and the refinement of `CandidateProtocol` with its single backup request |
| `candidate_settles` | pass | under fair scheduling every detected candidate ends prepared or blocked |
| `live_apply` | pass | one mutation per operation, the writer vouches for exact replacements only, outcome and journal agree, a halt is exact and a success whole, Apply ends, and the refinement of `ApplyProtocol` |
| `live_apply_discarded` | violation | the reversal of a mismatch can remove a second edit |
| `deployment` | pass | one restart, one open stage, exclusive authority, proven publication that overwrites nothing foreign, conclusion |
| `rollback` | pass | one restore request per journal, completion only over the baseline, an honest ledger row, and an end |
| `publication` | pass | on each branch: baselines describe commits, main only grows, nothing foreign is dropped, retention drops what expired and gives up only when the branch moved, and a replacement ends with its baseline |
| `publication_interrupted` | violation | SyncApp's own push, when its baseline was not recorded, is reported as divergence |
| `key_administration` | pass | rotation record and directories, the proof before use, receipts, one initialization, no key lost, under crashes, faults and requests in any order |
| `service` | pass | no edit or runtime change is lost between the threads and the work table, threads are joined, the quiet period ends |
| `replaced_directory` | violation | a subdirectory made again with its moved parent keeps a watch on the old inode |

The properties are stated, with the code behaviour they are about, at the end of
each module. Every property of a passing run has a mutant in `PROJECT.json`: a
*faulty variant* of a definition, kept next to it in the module and used nowhere
else, with which the property fails.

Eight more configurations state something a document, a comment or an assertion
says and the code does not do. They are kept to be run by hand
(`tlc -config X.cfg M`), each ends with a counterexample:

| configuration | module | what its counterexample shows |
|---|---|---|
| `LedgerAttemptsWithinMaximum.cfg` | `MCWorkLedger` | interrupted attempts count but are never bounded, against the assertion at `retrigger_runtime_status.py:861` |
| `LiveApplyDisplaced.cfg` | `MCLiveApply` | after a crash the reconciler confirms an operation that displaced somebody's edit (`docs/live-apply-writer.md:26`) |
| `DeploymentUnhealthy.cfg` | `MCDeployment` | a Core, a Supervisor or an integration that never becomes healthy blocks the deployment; no rollback follows (`README.md:371`) |
| `RollbackRejected.cfg` | `MCRollback` | a restore of the app's own data forgets the rejection and the candidate is applied again (`docs/deployment-rollback.md:72`) |
| `RollbackCompleted.cfg` | `MCRollback` | a crash between two transactions leaves a completed rollback whose row never succeeds (`docs/deployment-rollback.md:69`) |
| `InitializationInterrupted.cfg` | `MCKeyAdministration` | a publication GitHub accepted before the app stopped ends blocked, because the proof of the next start does not match the authority (`docs/deploy-key-operator-controls.md:56`, `deploy_key_administration.py:257-266`) |
| `InitializationRow.cfg` | `MCKeyAdministration` | a row that one transaction wrote is refused by the check that loads it (`repo_initialization_execution.py:580-592`) |
| `UncleanStop.cfg` | `MCOwnerLoop` | the watcher has failed just before SIGTERM: its `stop()` raises on the clean path and the event worker is never stopped (`__main__.py:1188-1200`, `docs/runtime-event-service-activation.md:18`) |

### Bounds, and why they are enough

* `WorkLedger`: two items of one kind (competition needs two and is symmetric
  beyond), maximum three attempts with a base delay of 2 and a cap of 3, so that
  the first delay is below the cap and the second would exceed it; one
  interruption per budget, enough to exceed the maximum by one; one
  administrative request, so that the same id is met again at a later boot;
  `MaxAge` 2. `LedgerAttemptsWithinMaximum.cfg` uses two kinds.
* `CandidatePipeline`: two candidates, which is what competing for a lane and
  superseding one another take; two attempts, so that a failure is retried and
  the next one blocks; one interruption and one administrative retry per
  candidate. A backup attempt that is cut short, reconciled, blocked and retried
  fits into these. Candidates are symmetric, and `candidate_pipeline` uses that;
  `candidate_settles` does not, since symmetry is not sound for liveness, and
  leaves out the administrative retry to stay small.
* `LiveApply`: the empty plan and all sixteen plans of two operations (order and
  contiguity need two), one kind of foreign content, two edits (one to spoil, one to spoil the
  reversal), one crash, two attempts. `attempts` is not bounded by the code
  either; it is bounded here by `MaxCrashes` and `MaxAttempts`.
* `Deployment`: three attempts; four shocks in all, a shock being a crash, an
  administrative retry or a foreign push. Four are enough for a crash in a stage,
  its block, its retry, and a foreign push or a second crash.

* `Rollback`: three attempts, two Applies (one more than a rejection needs, to see
  whether it is forgotten), two shocks, a shock being a crash, an administrative
  retry, an operator's restore, a restart of Supervisor or a push: enough for an
  older job beside our own, or a crash followed by a retry. The list of jobs
  is bounded by what these allow. `RollbackRejected.cfg` needs no shock at all,
  `RollbackCompleted.cfg` one crash.

* `Publication`, `Retention`: two trees, three entries ever committed (a baseline, a
  second commit, and one that follows a promotion, a foreign push or a retention),
  two attempts, one fault, one foreign push, two retention rows, and at most two
  entries that expire, so that a plan keeps one, two or three. Main is checked with
  both credentials, each generated branch with one. Branches share nothing but the
  thread and are independent of each other.
* `KeyAdministration`: two requests, three key generations (an original, a candidate
  and one made in an empty place), two contents, receipts and executions with two
  attempts, two faults (one to interrupt, one to spoil the recovery), one foreign
  ref, one stop. Three operators: one who rotates while another request
  generates and prepares, one who tests and initializes twice, and one who does
  both with the library call.
* `OwnerLoop`: two connections, a mailbox of two, one signal drained per tick and
  one request at the socket, so that each limit is met; six budgets of at most two
  disturbances of a kind. `service` has one directory below the root,
  `replaced_directory` two, nested, since it takes a moved parent.

The ledger never stops and is checked for deadlock. `CHECK_DEADLOCK FALSE` appears
elsewhere because those systems really stop: one Apply, one deployment and one
rollback end with a succeeded or blocked row, an operator's requests are answered,
a process ends, and publication stops at the bound on commits.

### Fairness, and why the code justifies it

The owner loop of `__main__.run` makes a retrigger pass after every sleep and the
Supervisor restarts a dead app, so weak fairness holds of *some* step of the
pass (`WF_vars(Pass)`), never of a particular outcome: which branch a pass takes
is the environment's choice. `WorkLedger` needs strong fairness of `ClaimKind(k)` and
`RecoverAll`, because crashes and other lanes disable them again and again;
every pass begins with the recovery and a claim, so a pass that happens takes
them. `Finish` is weakly fair as a whole: a claimed item gets *a* verdict, or the
pass is cut short, of which there are finitely many per budget
(`MaxInterruptions`). `CandidatePipeline` has the same shape: strong
fairness of `Recover` and of a Retrigger claim (not of one particular candidate),
which says that the service stays up long enough for a cycle to reach the
candidate lanes again and again. Time passes (`Tick`, `Elapse`). Nothing is assumed of
Supervisor: in `Rollback` a job may stay queued for ever, and `RollbackConcludes`
holds all the same because each poll spends an attempt.

In `Retention` a pass that has begun goes on (`WF` of its steps), and the claim and
the recovery are strongly fair since routine passes and crashes disable them
again and again while every tick and cycle comes back to the retention lane. In
`OwnerLoop` the owner thread, both helper threads and time are weakly fair, and
nothing is assumed of the source, of Core or of the launcher: `QuietPeriodEnds`
holds while files that are not routed to main change for ever.

## 4. The proofs

`WorkLedgerProofs` proves, for all items, kinds, requests and bounds:

* `Typing`, `Exclusive`, `SignalsSurvive`, `BudgetHolds`: the four invariants of
  the run, from one inductive invariant;
* `ImplementsLifecycle`: `Spec => LifecycleSpec`, the refinement of the abstract
  lifecycle;
* `OneRequestOneRetry`, an action property read off the refinement: blocked work is
  reopened only by spending one request that was not spent before, and the step moves
  no other item.

None of the invariants is inductive as it stands. `ClaimIsExclusive` needs that
the holder of an item implies a running service and that at most one item is
held; then no recovery, which only runs when nothing is held, can take the row
away. `NoLostSignal` needs that no signal arrived since the claim of a *held* item
(`held` items are clean), because it is `Complete` of a held item that makes a row
succeed. `AttemptBudget` needs the sharper fact that a row which is waiting has
spent strictly fewer attempts than the maximum plus its interruptions, and a
running one that nobody holds has been interrupted already; only then does the
increment of a claim stay within the bound. The refinement uses these: `Complete`
maps to `Settle` only because the row is still running.

`RollbackProofs` proves the invariants of the run `rollback` for any number of
attempts, Applies and shocks: `RestoresOnce` and `ConcludesTruly` (type correctness,
`CompletedIsRestored` and `SuccessIsCompleted` together). Its inductive invariant adds to them:

* `PassInv`: the place of a pass agrees with the phase of the record (a pass that
  is about to send has journaled `restore_started`; one that is about to succeed
  has completed), and a pass runs over a running row. `SuccessIsCompleted` rests on
  it, since the row is settled in a later transaction than the record.
* `RequestInv`: as long as a request can still be sent, every request so far
  belongs to a journal that a restore has wiped. This is why `requests` cannot
  exceed `1 + wiped`.
* `JobInv`: since the reference point of the record nothing was applied, so *any*
  job younger than it that has restored, whoever started it, left the baseline
  behind; and the job a record believes in is younger. `CompletedIsRestored`
  follows without knowing that the job is our own, which the code cannot know.
* `BudgetInv`: attempts beyond the maximum are paid by shocks, which the type of
  the row needs.

`StepJobs` carries the facts about the growing list of jobs that the rest uses.
The assumption is `RollbackAssumption`, evaluated in the run `rollback`.

`DeploymentProofs` proves the three invariants of the run `deployment` for any number
of attempts and shocks, `RestartsOnce`, `PublishesOnlyProven` and `Exclusive` (type
correctness and `OneStageOpen` are part of the last), and its action property,
`ForeignPushesSurvive`. None of the invariants is inductive: each
says what the *end* of the chain carries, and a step only sees its own stage.
The inductive invariant adds:

* `PlaceInv`: the place of the owner thread belongs to the stage whose claimed row
  it holds, so evidence is only recorded by the stage that owes it.
* `RestartInv`: nothing was sent while the journal is empty or the pass that
  journaled is about to send. A pass that finds the journal started replays it
  and never reaches that place, hence at most one request.
* `ChainInv`: a row exists only behind its evidence. `Chain(s)` is what had been
  recorded before stage `s` was scheduled, `Done(s)` what `s` has recorded when it is
  about to finish, and `SuccessorChain` leads from one to the other: this is where
  the branches of `Successor` (a failed probe goes to the finalization, the
  verdict to promotion or rollback) are justified. Evidence is written once
  (`Grows`), so a chain stays complete through crashes and repeated passes.
* `VerdictInv`: every record of a promotion, every ref that carries the candidate
  and every intent of a rollback stand on the matching verdict; and a ref that was
  read with the candidate has not gone back, so that three reads at three moments may
  complete a promotion together.
* `BudgetInv`: attempts beyond the maximum are paid by shocks, for the type.

The action property needs one fact more, `ReadInv`: from the read of the refs until
the promotion is settled its plan is open, so nothing that was settled is settled again.
Neither transport overwrites what is foreign because GitHub refuses what does not
fast-forward, whatever was pushed since the refs were read.

The assumption is `DeploymentAssumption`, evaluated in the run `deployment`.

`LiveApplyProofs` proves, for plans of any length and any number of attempts, crashes
and edits, the four invariants of the run `live_apply` (`MutatesOnce`,
`ReplacesBaseline`, `OutcomeIsBinding`, `EndsExactly`) and
`ImplementsProtocol`: `Spec => ProtocolSpec`, the refinement of `ApplyProtocol`. What the
first three need of each other and of the place of the owner thread:

* `PrefixInv`: the journal is a verified prefix with at most one record after it.
  Hence a step at operation `i` finds all before it verified and none after it
  begun, which is also what the refinement maps to "one at a time, in plan order".
* `FreshInv`: an operation without a record was never carried out, so that a pass
  that begins it may mutate it for the first time.
* `PlaceInv`: in the writer and in the reconciler the operation has begun and, in
  the writer, has no verdict yet. A crash leaves the first half; that is why a
  resumed Apply goes to the reconciler and never to the writer again.
* `LeafInv`: what the writer has put aside at each of its looks. Before the change
  nothing was mutated, and from the cleanup on the displaced leaf *is* the
  authorized baseline; `WriterReplacedBaseline` is true at `record` for this reason,
  although an edit may come between any two looks.

`EndsExactly` says what an Apply that ended leaves behind (`HaltIsExact` and
`SuccessIsWhole`), and rests on these:

* `ReleasedInv`: the activation exists only over a journal that is verified throughout.
  It is read off the refinement: no step of the protocol leaves a confirmed operation.
* `TailInv`: the release, the restart work and the verdict are three transactions, each
  only there behind the one before, wherever a crash or a failure falls.

* `EmptyInv`: with an empty plan nothing is ever journaled, so nothing is released.

The lemma `SucceedsWhole` combines them. `HaltsExactly` needs both, for nothing was released
before a halt, and `PrefixInv` and `FreshInv` for the operations around it.

The assumption is `ApplyAssumption`, evaluated in the run `live_apply`.

`CandidatePipelineProofs` proves, for any set of candidates and any number of attempts,
interruptions and administrative retries, `EvidenceInOrder` and `RowsSettleTogether` (type
correctness is part of the latter), the refinement of `CandidateProtocol`
(`ImplementsProtocol`) and, read off the refinement, the action property
`AsksOnceAndLast`: verdicts and passed gates are never taken back, and the backup is
asked for once, past the last gate:

* `TaskInv`: there is one task, only while the service runs, over a claimed row,
  and its place says what it has recorded so far. Without it an executor could
  complete the checkpoint of another action than the one the row waits for.
* `OrderInv`: the checkpoints of an open candidate are complete up to the action it
  waits for and empty beyond. `SettledTogether` needs it, since a prepared deployment
  rests on *all* the checkpoints and the step that concludes writes the last.
* `BackupInv`: nothing was asked before the journal says so, and a backup is asked
  for, in flight or there, never two of these.
* `ConcludedInv`: the evidence of a verdict stays. `CandidateProtocol` counts the gates
  a candidate has passed, and the count of a concluded one must not change.
* `BudgetInv`: attempts beyond the maximum are paid by interruptions.

`UpTo`, `RowCount` and `GatesAre` compute the number of gates that the abstract state
has passed from the checkpoints (a cardinality), which the refinement compares
step by step. The assumption is `PipelineAssumption`, evaluated in the run
`candidate_pipeline`.

`RetentionProofs` proves all four properties of the run `publication` that are not
liveness, for any trees, cases, credentials, faults and lengths of history:
`BaselineNamesItsTree`, `ForeignEntriesSurvive`, `MainIsExtended`, `RetentionIsPlanned` (the last
three are action properties).

* `Hist` is what every history in the state is: a sequence of entries in the order
  of time, not longer than the clock. A commit is made at a new time, and two
  histories with the same last entry need not be compared any further.
* `Synced`: the baseline, what a pass saw and what it made consist of SyncApp's own
  entries only. It is the reason why a *replacement* of the branch, which rewrites
  history, drops nothing foreign: it is leased on a head that the baseline names
  (`RetInv`: from the proof of the plan until the baseline follows), and a branch
  that carries a foreign entry is not that head.
* `PassInv` and `BaselineInv`: what is committed carries the captured tree, and the
  baseline the tree of its commit, so that `Record` parts neither.
* `RowsInv`: a row *is* the plan of its head at its reference time (`PlanKeeps` says
  what a plan keeps). A pass that plans again, later, finds another plan only if
  the head is another one, hence a row is stale only if the branch moved.
* `IntentInv`: an intent belongs to a row, and its replacement is that row's.
* `WorkInv`: `Spent` is the attempt budget, paid by faults.

`RemoteMoves` classifies every step of the branch (an append of our own, a promotion
or a foreign push, a replacement of a leased head); the action properties are
read off it. The assumptions are `PublicationAssumption` and `RetentionAssumption`, evaluated
in the run `publication`.

`KeyAdministrationProofs` proves all six properties of the run `key_administration`, for
any operators, requests, key generations and contents and any number of crashes and
faults: `RecordIsTrue`, `OnlyProvenKeysAreUsed`, `ActivationSurvivesCrashes`,
`CompletedReceiptsAreTrue`, `OneInitialization` and the action property `NoKeyIsLost`.

* `KeyInv` with `RotationOK`: in every phase the record says which directory holds
  which generation, also for the phases no property speaks of (a record that is
  preparing or blocked leaves the original alone), and no generation is in two
  places. The last is what makes a rename into an empty directory lose nothing.
* `FilesKept`: what a step of the generation leaves of directories and journals whether
  it succeeds, fails before its effect or fails after it. `KeyInv` survives each of the
  three, and only then does `NotEnsuredKeeps` look at the record the failure writes.
* `RepoInv`: what GitHub took of ours is on its main (`Landing`), the baseline is that
  commit, and the authority follows the execution row. Main never changes once it
  carries a commit, so a second one cannot land.
* `JobInv`, `KeyJob`, `RepoJob`: what holds at each place of the action in progress,
  which is in memory only. "rename" is only reached over a record that is activating
  for this request; the steps of a publication only over an authority and a row that
  are still open; an action is performed only while its receipt says retry.
* `Reached`: what an action that answers "done" has reached, with the key its receipt
  will show. It is monotone (`ReachedKept`: keys, records, verdicts, baseline and
  enrolment are kept), hence a receipt that is true when it is written stays true,
  and holds between the answer and its receipt (`AnswerInv`).
* `Excused`: why an activation may have been given up. It is not taken back while the
  activation lasts (`ExcusesKept`), and the answer of an activation that fails finds
  its excuse in the directories at that moment: with the layouts of `RotationOK`, a
  process that was merely stopped always finds one of the three it can continue.

The assumptions are `KeyAdministrationAssumption` and `NamesAssumption` (the placeholders of the
model are not the name of a generation or a request), evaluated in the run
`key_administration`.

`OwnerLoopProofs` proves the four invariants of the run `service` for any directory tree of two
levels, mailbox, drain limit, backlog and number of connections, and for any budget of
edits, events, faults, signals and restarts: `NoEditIsMissed`, `SeenStaysOwed`,
`RuntimeStaysOwed`, `CleanExitIsJoined`.

* `SeenInv`: while the loop serves, a watcher in the middle of a refresh was ready
  before, so the end of the refresh will notify; and if it waits, with nothing to read,
  the bit clear and the loop not about to look, everything in a watched directory has
  been seen. A directory edited before its watch was added is covered by the first
  half, an edit during the installation by the look after readiness (`LookKeeps`).
* `PlaceInv`: nothing is watched or connected before the startup reaches the place that
  starts the thread. It is needed for the startup executions, which pass through the
  same places "copy" and "settle" as those of the ticks. It also bounds the connections.
* `OwedInv`: the view an execution of the local lane is about to publish is not older
  than the loop's snapshot, hence an item may succeed without dropping what was seen.
* `RuntimeInv`: with nothing on the wire and in the mailbox, the inventory that is about
  to be published is the present one; a change after the copy is on the wire.
* `StopInv`: without an error, the place on the way out says which threads have stopped.

Every place of the thread that only moves on is covered by `PassKeeps`, every schedule
and claim by `ClaimKeeps`. The assumptions are `TreeAssumption` (two levels, for which
`Subtree` is exact), `EventAssumption` and `OwnerAssumption`, evaluated in the run `service`.

The other assumptions are `LedgerAssumption` (the constants are numbers and every item
has a kind) and `PowerAssumption` (the uncapped backoff of every attempt is a
natural number, which the provers cannot derive of `^`). TLC evaluates both in
the run `work_ledger`.

Only model-checked: every liveness property (`NoStarvation`, `EveryCandidateSettles`,
`ApplySettles`, `DeploymentConcludes`, `RollbackConcludes`, `ReplacementIsFinished`,
`QuietPeriodEnds`), which is out of the prover's reach. Every safety invariant, every action
property and every refinement that a passing run checks is stated by a theorem.

## 5. Where the code and its documents disagree

1. **An edit removed** (`live_apply_discarded`). Between the exchange and its
   reversal the live name is open to others, and what they write there is
   unlinked with the temporary.
2. **An own push not recovered** (`publication_interrupted`).
   `classify_local_sync_no_push` compares the remote head with the baseline only,
   before the local commit exists, so the classification "already published"
   of the preflight is never reached in the case it was written for.
3. **A replaced directory unwatched** (`replaced_directory`). A moved directory
   invalidates its own watch, not those of its subdirectories; a subdirectory
   that is back at its path when the refresh walks keeps the old entry.

The configurations to run by hand in section 3 show eight more. In short: attempts of
interrupted rows are unbounded; a displaced edit can be confirmed after a crash;
an unhealthy Core is blocked and not rolled back; a restored database forgets a
rejection; a completed rollback may stay open in the ledger (harmless, as
`ConclusionIsTrue` shows); an interrupted initialization
is not taken up by the control plane; one execution row cannot be loaded; a
failed watcher leaves the event worker running at the stop.

Seen while modelling, without a statement of the documents to hold against it:

* An edit between the copy of the start-up publication and the construction of
  `LocalChangeBridge` is part of its first snapshot and is published only with
  the next change. `SeenIsOwed` exempts that first snapshot (`snapshot = base`).
* A directory that is made after its parent was listed and before the parent is
  watched stays unwatched until some other event causes a walk; `EditsAreSeen` is
  therefore about watched directories.
* The event worker's attempts are never reset by a successful session; the
  debouncer has no longest wait; a client that gives up leaves its request in the
  socket's backlog; a Retrigger does not schedule a new local generation.
* An I/O error between the two renames of an activation blocks its receipt;
  `CrashNeverStrandsActivation` is therefore about stops. `generate`, asked for while
  the active place is empty in the middle of an activation, makes a third key.
* A backup that Supervisor finishes after its request was given up stays in the
  inventory, unused; documents say that missing evidence blocks.
* An entity that vanishes between two probes, or a change that affects more
  entities than the assertion plan allows, is invalid evidence: the stage blocks.

## 6. Not modelled, and why

Parsers, classifiers, sanitizers and hashing (data transformations, tested);
file system and Git plumbing below the level of "this tree is that commit";
the transports' size and time limits, which all end as a transient or permanent
failure; schema migration; the runtime status report (`retrigger_runtime_status.py`,
a validated read of the tables); the container's launcher and configuration.
In `LiveApply` and `Deployment` the re-proofs of unchanged evidence are one choice
(proved, unavailable, no longer true). Directory identities are part of the
guard, not values. The lanes of a Retrigger cycle other than local and runtime are
one step in `OwnerLoop`, because their order among each other shares no state
beyond the work table, whose competition `WorkLedger` and `CandidatePipeline` have.
The log collection and the sanitizers of the producers are one choice each.

## 7. What is left

1. A composition of two overlapping deployments with publication on all three
   refs of Repo B (main, candidate, known-good tag).
2. The remaining tables of `state.py`: repository bindings and run records.

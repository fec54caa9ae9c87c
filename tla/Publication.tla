---------------------------- MODULE Publication ----------------------------
(***************************************************************************)
(* Routine publication of one Repo B branch.  local_sync.py (main),        *)
(* database_sync.py (database), runtime_sync.py (runtime) and log_sync.py  *)
(* (logs) run the same pass on the state-owner thread: produce what is to  *)
(* be published, look at the branch, compare it with the durable baseline, *)
(* commit on top of it, push without force, look again, record the new     *)
(* baseline, settle the work row.  Branches share nothing but the thread,  *)
(* so one is modelled, chosen by Init with the credential it is reached    *)
(* with: a token or a deploy key.                                          *)
(*                                                                         *)
(* A commit is identified by its history: the sequence of its entries,     *)
(* oldest first, each with its tree, its author and its time, <<>> when    *)
(* the branch is absent.  GitHub accepts a push without force when the     *)
(* present head is a prefix of the new one.                                *)
(***************************************************************************)
EXTENDS Naturals, FiniteSets, Sequences, SequencesExt

CONSTANTS
  Trees,         \* contents of what is published
  Cases,         \* the branches and credentials to consider
  MaxCommits,    \* bound: entries ever committed by anyone
  MaxAttempts,   \* StateStore.MAX_WORK_ATTEMPTS
  MaxFaults,     \* bound: crashes of the service and faults of Git or the network
  MaxForeign     \* bound: moves of the branch by somebody else

Branches == {"main", "database", "runtime", "logs"}
Transports == {"token", "deploy_key"}

ASSUME PublicationAssumption ==
  /\ Cases \subseteq [branch : Branches, transport : Transports]
  /\ MaxCommits \in Nat \ {0} /\ MaxAttempts \in Nat \ {0}
  /\ MaxFaults \in Nat /\ MaxForeign \in Nat

VARIABLES
  case,        \* the branch and the credential
  source,      \* what the branch is published from
  deploying,   \* the open candidate deployment of the same files, if any
  remote,      \* head of the branch on GitHub
  baseline,    \* the synchronization_baseline row, if any
  work,        \* the sync work rows, by key
  pass,        \* the pass the owner thread is executing
  clock,       \* entries committed so far
  faults,      \* crashes and faults so far
  foreign      \* moves by somebody else so far

pubVars == <<case, source, deploying, remote, baseline, work, pass, clock,
             faults, foreign>>

Absent == <<>>
NoTree == "none"
OtherTree == "other"   \* what somebody else commits
Entry == [tree : Trees \cup {OtherTree}, by : {"sync", "promotion", "foreign"},
          at : 1..MaxCommits]
Steps == {"claimed", "captured", "cleared", "committed", "authorized", "checked",
          "pushed", "verified", "recorded"}
Idle == [step |-> "idle", key |-> NoTree, tree |-> NoTree, seen |-> Absent, made |-> Absent]
Outcomes == {"none", "failed", "initialized", "published", "no_change",
             "baseline_required", "diverged", "remote_missing"}

(* The head is a commit the model can hold: its entries are well typed.    *)
IsHead(h) == /\ Len(h) <= MaxCommits
             /\ \A i \in 1..Len(h) : h[i] \in Entry

(* A row is keyed by the target, a logs row by the artifact it publishes.  *)
Keys == IF case.branch = "logs" THEN Trees ELSE {NoTree}

TypeOK ==
  /\ case \in Cases
  /\ source \in Trees
  /\ \A d \in deploying : d.tree \in Trees /\ d.prior \in Trees /\ IsHead(d.on)
  /\ IsHead(remote)
  /\ \A b \in baseline : b.snapshot \in Trees /\ IsHead(b.commit)
  /\ DOMAIN work \subseteq Keys
  /\ \A k \in DOMAIN work :
       /\ work[k].status \in {"pending", "running", "retry", "succeeded", "blocked"}
       /\ work[k].attempts \in 0..(MaxAttempts + MaxFaults)
       /\ work[k].outcome \in Outcomes
  /\ pass = Idle \/ (pass.step \in Steps /\ pass.key \in DOMAIN work)
  /\ pass.tree \in Trees \cup {NoTree} /\ IsHead(pass.seen) /\ IsHead(pass.made)
  /\ clock \in 0..MaxCommits /\ faults \in 0..MaxFaults /\ foreign \in 0..MaxForeign

PubInit ==
  /\ case \in Cases
  /\ source \in Trees
  /\ deploying = {}
  /\ remote = Absent
  /\ baseline = {}
  /\ work = <<>>
  /\ pass = Idle
  /\ clock = 0 /\ faults = 0 /\ foreign = 0

OwnerIdle == pass = Idle

Commit(head, tree, by) == Append(head, [tree |-> tree, by |-> by, at |-> clock + 1])

-----------------------------------------------------------------------------
(* The work rows *)

NewWork == [status |-> "pending", attempts |-> 0, outcome |-> "none"]

(* schedule_routine_work: a new generation of a missing or succeeded row.  *)
Schedule ==
  /\ OwnerIdle /\ case.branch # "logs"
  /\ NoTree \in DOMAIN work => work[NoTree].status = "succeeded"
  /\ work' = [k \in {NoTree} |-> NewWork]
  /\ UNCHANGED <<case, source, deploying, remote, baseline, pass, clock, faults, foreign>>

(* collect_and_enqueue_supervisor_logs: what is logged now becomes a       *)
(* private artifact, and the row names that artifact; asking for the same  *)
(* artifact again changes nothing.                                         *)
CollectLogs ==
  /\ OwnerIdle /\ case.branch = "logs" /\ source \notin DOMAIN work
  /\ work' = [k \in DOMAIN work \cup {source} |->
                IF k = source THEN NewWork ELSE work[k]]
  /\ UNCHANGED <<case, source, deploying, remote, baseline, pass, clock, faults, foreign>>

(* Retry delays reorder the rows of different artifacts.                   *)
Claim ==
  /\ OwnerIdle
  /\ \E k \in DOMAIN work :
       /\ work[k].status \in {"pending", "retry"}
       /\ work' = [work EXCEPT ![k].status = "running", ![k].attempts = @ + 1]
       /\ pass' = [Idle EXCEPT !.step = "claimed", !.key = k]
  /\ UNCHANGED <<case, source, deploying, remote, baseline, clock, faults, foreign>>

(* execute_claimed_*: complete_work or fail_work, and the thread is free.  *)
Settle(status, outcome) ==
  /\ work' = [work EXCEPT ![pass.key].status = status, ![pass.key].outcome = outcome]
  /\ pass' = Idle

Fail(transient) ==
  Settle(IF transient /\ work[pass.key].attempts < MaxAttempts THEN "retry" ELSE "blocked",
         "failed")

(* Git, the network or the file system fails: worth another try.           *)
Fault == /\ faults < MaxFaults /\ faults' = faults + 1
         /\ Fail(TRUE)

(* The transport finds the branch is not what it must be.  With a token    *)
(* every such error is transient; a deploy key blocks the row, unless the  *)
(* branch is still where the push would move it from.                      *)
Mismatch == Fail(case.transport = "token" \/ remote = pass.seen)

-----------------------------------------------------------------------------
(* Producing the tree *)

Captured(tree) == pass' = [pass EXCEPT !.step = "captured", !.tree = tree]

Capture ==
  /\ pass.step = "claimed"
  /\ UNCHANGED <<case, source, deploying, remote, baseline, clock, foreign>>

(* A scan, a copy and a second scan that must agree with the first.        *)
CaptureConfiguration ==
  /\ Capture /\ case.branch = "main"
  /\ Captured(source) /\ UNCHANGED <<work, faults>>

(* The online backup of SQLite: one committed state of the Recorder.       *)
BackUpDatabase ==
  /\ Capture /\ case.branch = "database"
  /\ Captured(source) /\ UNCHANGED <<work, faults>>

(* What Core and the work table say now, after the claim.                  *)
BuildInventory ==
  /\ Capture /\ case.branch = "runtime"
  /\ Captured(source) /\ UNCHANGED <<work, faults>>

(* The artifact the row names, however old; one that cannot be loaded any  *)
(* more blocks the row.                                                    *)
LoadArtifact ==
  /\ Capture /\ case.branch = "logs"
  /\ \/ Captured(pass.key) /\ UNCHANGED <<work, faults>>
     \/ /\ faults < MaxFaults /\ faults' = faults + 1
        /\ Fail(FALSE)

(* The source changes under the scan, the database is locked, Core does    *)
(* not answer, the staging area is full.                                   *)
CaptureFault == Capture /\ Fault

-----------------------------------------------------------------------------
(* One pass *)

(* What the branch and the baseline say before anything is committed.      *)
Refusal(head) ==
  IF baseline = {}
    THEN IF head = Absent THEN "none" ELSE "baseline_required"
    ELSE IF head = Absent THEN "remote_missing"
         ELSE IF \A b \in baseline : b.commit = head THEN "none" ELSE "diverged"

(* Look at the branch; a refusal blocks the row until an operator acts.    *)
Observe ==
  /\ pass.step = "captured"
  /\ \/ IF Refusal(remote) = "none"
          THEN /\ pass' = [pass EXCEPT !.step = "cleared", !.seen = remote]
               /\ UNCHANGED <<work, faults>>
          ELSE Settle("blocked", Refusal(remote)) /\ UNCHANGED faults
     \/ Fault
  /\ UNCHANGED <<case, source, deploying, remote, baseline, clock, foreign>>

(* Fetch the observed head, which the branch may have left in between.     *)
AnchorRefused ==
  /\ pass.step = "cleared"
  /\ \/ pass.seen # Absent /\ remote # pass.seen /\ Mismatch /\ UNCHANGED faults
     \/ Fault
  /\ UNCHANGED <<case, source, deploying, remote, baseline, clock, foreign>>

(* Anchored on the observed head, Git sees no difference: nothing to do.   *)
NoChange ==
  /\ pass.step = "cleared" /\ remote = pass.seen
  /\ pass.seen # Absent /\ Last(pass.seen).tree = pass.tree
  /\ Settle("succeeded", "no_change")
  /\ UNCHANGED <<case, source, deploying, remote, baseline, clock, faults, foreign>>

(* assess_publication_preflight of a commit made on the observed head.     *)
Preflight(made, head) ==
  IF baseline = {}
    THEN IF head = Absent THEN "safe_to_initialize" ELSE "baseline_required"
    ELSE IF head = Absent THEN "remote_missing"
         ELSE IF \A b \in baseline : b.commit = head
           THEN IF made = head THEN "no_change" ELSE "safe_to_publish"
           ELSE IF made = head THEN "already_published" ELSE "diverged"

(* Commit the snapshot on the anchored head; the first publication starts  *)
(* an unborn branch.                                                       *)
CommitSnapshot ==
  /\ pass.step = "cleared" /\ clock < MaxCommits
  /\ pass.seen # Absent => remote = pass.seen /\ Last(pass.seen).tree # pass.tree
  /\ pass' = [pass EXCEPT !.step = "committed", !.made = Commit(pass.seen, pass.tree, "sync")]
  /\ clock' = clock + 1
  /\ UNCHANGED <<case, source, deploying, remote, baseline, work, faults, foreign>>

(* build_publication_intent binds commit, expected head and workspace; the *)
(* commit must descend from the head.                                      *)
Authorize ==
  /\ pass.step = "committed"
  /\ Preflight(pass.made, pass.seen) \in {"safe_to_initialize", "safe_to_publish"}
  /\ IsPrefix(pass.seen, pass.made)
  /\ pass' = [pass EXCEPT !.step = "authorized"]
  /\ UNCHANGED <<case, source, deploying, remote, baseline, work, clock, faults, foreign>>

(* The last look before the push: the expectation of the intent must hold. *)
Recheck ==
  /\ pass.step = "authorized"
  /\ \/ /\ remote = pass.seen
        /\ pass' = [pass EXCEPT !.step = "checked"]
        /\ UNCHANGED <<work, faults>>
     \/ remote # pass.seen /\ Mismatch /\ UNCHANGED faults
     \/ Fault
  /\ UNCHANGED <<case, source, deploying, remote, baseline, clock, foreign>>

(* git push without force: GitHub moves the branch only forward.           *)
Push ==
  /\ pass.step = "checked" /\ IsPrefix(remote, pass.made)
  /\ remote' = pass.made
  /\ pass' = [pass EXCEPT !.step = "pushed"]
  /\ UNCHANGED <<case, source, deploying, baseline, work, clock, faults, foreign>>

(* The branch moved as the push took its answer, or the push timed out     *)
(* without or after effect: an unconfirmed push is tried again.            *)
PushRejected ==
  /\ pass.step = "checked"
  /\ \/ ~IsPrefix(remote, pass.made) /\ Mismatch /\ UNCHANGED faults
     \/ Fault
  /\ UNCHANGED <<case, source, deploying, remote, baseline, clock, foreign>>

PushUnanswered ==
  /\ pass.step = "checked" /\ IsPrefix(remote, pass.made)
  /\ remote' = pass.made /\ Fault
  /\ UNCHANGED <<case, source, deploying, baseline, clock, foreign>>

(* The fresh head must be the commit pushed.                               *)
Verify ==
  /\ pass.step = "pushed"
  /\ \/ /\ remote = pass.made
        /\ pass' = [pass EXCEPT !.step = "verified"]
        /\ UNCHANGED <<work, faults>>
     \/ /\ remote # pass.made
        /\ Mismatch /\ UNCHANGED faults
     \/ Fault
  /\ UNCHANGED <<case, source, deploying, remote, baseline, clock, foreign>>

(* Faulty variant: the snapshot recorded is the source as it is by now.    *)
RecordCurrentSource ==
  /\ pass.step = "verified"
  /\ baseline' = {[snapshot |-> source, commit |-> pass.made]}
  /\ pass' = [pass EXCEPT !.step = "recorded"]
  /\ UNCHANGED <<case, source, deploying, remote, work, clock, faults, foreign>>

(* record_verified_publication, which can fail after the push is proven.   *)
Record ==
  /\ pass.step = "verified"
  /\ \/ /\ baseline' = {[snapshot |-> pass.tree, commit |-> pass.made]}
        /\ pass' = [pass EXCEPT !.step = "recorded"]
        /\ UNCHANGED <<work, faults>>
     \/ /\ faults < MaxFaults /\ faults' = faults + 1
        /\ Mismatch /\ UNCHANGED baseline
  /\ UNCHANGED <<case, source, deploying, remote, clock, foreign>>

Complete ==
  /\ pass.step = "recorded"
  /\ Settle("succeeded", IF pass.seen = Absent THEN "initialized" ELSE "published")
  /\ UNCHANGED <<case, source, deploying, remote, baseline, clock, faults, foreign>>

-----------------------------------------------------------------------------
(* Everybody else *)

(* The service dies: the pass is lost, the row stays running.              *)
Crash ==
  /\ ~OwnerIdle /\ faults < MaxFaults
  /\ pass' = Idle /\ faults' = faults + 1
  /\ UNCHANGED <<case, source, deploying, remote, baseline, work, clock, foreign>>

Edit(t) ==
  /\ t # source
  /\ source' = t
  /\ UNCHANGED <<case, deploying, remote, baseline, work, pass, clock, faults, foreign>>

(* Somebody else pushes on the branch, or moves it back or deletes it.     *)
ForeignMove ==
  /\ foreign < MaxForeign
  /\ foreign' = foreign + 1
  /\ \/ /\ clock < MaxCommits
        /\ remote' = Commit(remote, OtherTree, "foreign")
        /\ clock' = clock + 1
     \/ /\ remote # Absent
        /\ remote' = Front(remote)
        /\ UNCHANGED clock
  /\ UNCHANGED <<case, source, deploying, baseline, work, pass, faults>>

(* A candidate deployment writes the published files and remembers the     *)
(* head it started from; it succeeds or is rolled back.                    *)
Deploy(t) ==
  /\ case.branch = "main" /\ OwnerIdle /\ deploying = {} /\ baseline # {} /\ t # source
  /\ deploying' = {[tree |-> t, prior |-> source, on |-> remote]}
  /\ source' = t
  /\ UNCHANGED <<case, remote, baseline, work, pass, clock, faults, foreign>>

(* Faulty variant: main is taken to be where the deployment found it.      *)
PromoteStale ==
  /\ OwnerIdle /\ clock < MaxCommits
  /\ \E d \in deploying : remote' = Commit(d.on, d.tree, "promotion")
  /\ deploying' = {} /\ clock' = clock + 1
  /\ UNCHANGED <<case, source, baseline, work, pass, faults, foreign>>

(* Promotion moves main to the candidate commit when main has not moved    *)
(* since; it records no synchronization baseline.                          *)
Promote ==
  /\ OwnerIdle /\ clock < MaxCommits
  /\ \E d \in deploying : remote = d.on /\ remote' = Commit(remote, d.tree, "promotion")
  /\ deploying' = {} /\ clock' = clock + 1
  /\ UNCHANGED <<case, source, baseline, work, pass, faults, foreign>>

PromotionRefused ==
  /\ OwnerIdle /\ \E d \in deploying : remote # d.on
  /\ deploying' = {}
  /\ UNCHANGED <<case, source, remote, baseline, work, pass, clock, faults, foreign>>

RollBack ==
  /\ OwnerIdle
  /\ \E d \in deploying : source' = d.prior
  /\ deploying' = {}
  /\ UNCHANGED <<case, remote, baseline, work, pass, clock, faults, foreign>>

Synchronize ==
  \/ Observe \/ AnchorRefused \/ NoChange \/ CommitSnapshot \/ Authorize \/ Recheck
  \/ Push \/ PushRejected \/ PushUnanswered \/ Verify \/ Record \/ Complete

LocalSync == case.branch = "main" /\ (CaptureConfiguration \/ CaptureFault \/ Synchronize)
DatabaseSync == case.branch = "database" /\ (BackUpDatabase \/ CaptureFault \/ Synchronize)
RuntimeSync == case.branch = "runtime" /\ (BuildInventory \/ CaptureFault \/ Synchronize)
LogSync == case.branch = "logs" /\ (LoadArtifact \/ CaptureFault \/ Synchronize)

PassStep == LocalSync \/ DatabaseSync \/ RuntimeSync \/ LogSync

(* What the owner thread does, and what happens to it.                     *)
OwnerStep ==
  \/ Schedule \/ CollectLogs \/ Claim \/ PassStep \/ Crash
  \/ Promote \/ PromotionRefused \/ RollBack \/ \E t \in Trees : Deploy(t)

=============================================================================

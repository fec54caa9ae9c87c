------------------------------ MODULE LiveApply ------------------------------
(***************************************************************************)
(* Controlled Apply of one prepared deployment: an ordered plan of file    *)
(* operations is carried out on the live Home Assistant tree, one durable  *)
(* journal record per operation, one operation per pass of the owner       *)
(* thread.  The process may crash between any two steps; people and Home   *)
(* Assistant itself may edit the live files at any moment.                 *)
(*                                                                         *)
(* A leaf's content and mode together are one value: "base" (what main has),*)
(* "cand" (what the candidate has), "absent", or somebody's edit.          *)
(***************************************************************************)
EXTENDS Integers, FiniteSets

CONSTANTS
  NumOps,       \* operations of the plan
  Edits,        \* contents that neither main nor the candidate has
  MaxAttempts,  \* StateStore.MAX_WORK_ATTEMPTS
  MaxEdits,     \* bound: external edits of live files
  MaxCrashes    \* bound: crashes of the process

ASSUME ApplyAssumption ==
  /\ NumOps \in Nat \ {0} /\ MaxAttempts \in Nat \ {0}
  /\ MaxEdits \in Nat /\ MaxCrashes \in Nat
  /\ Edits \cap {"base", "cand", "absent", "nothing"} = {}

VARIABLES
  plan,        \* kind of each operation; nothing when the candidate changes nothing
  live,        \* the live leaf of each operation
  side,        \* its private temporary or tombstone, "nothing" when there is none
  journal,     \* live_apply_progress: phase of each operation
  guarded,     \* live_apply_mutation_guard rows
  outcome,     \* live_apply_reconciliation rows
  intent,      \* admission recorded the Apply intent
  activation,  \* post_apply_activation_authorization row
  restart,     \* candidate_restart work exists
  work,        \* status of the candidate_apply_execute item
  attempts,    \* its attempts
  pc, at,      \* the owner thread's step, and the operation it is at
  crashes, edits,  \* counters of the bounds
  mutations,   \* history: times Apply changed the live leaf (saturates at 2)
  displaced,   \* history: what the change of the live leaf replaced
  discarded    \* history: contents Apply removed from the disk

fileVars == <<live, side>>
recordVars == <<journal, guarded, outcome>>
releaseVars == <<intent, activation, restart>>
workVars == <<work, attempts>>
threadVars == <<pc, at>>
envVars == <<plan, crashes, edits>>
historyVars == <<mutations, displaced, discarded>>
vars == <<fileVars, recordVars, releaseVars, workVars, threadVars, envVars, historyVars>>

Ops == 1..NumOps
Kinds == {"added", "modified", "deleted", "mode_changed"}
Contents == {"base", "cand", "absent"} \cup Edits
Phases == {"none", "mutation_started", "mutation_verified", "blocked"}
Outcomes == {"none", "applied", "not_applied", "ambiguous"}
Steps == {"idle", "reprove", "advance", "prove", "journal", "prove_again", "prepare",
          "commit", "check", "reverse", "drop", "clean", "chmod", "verify", "record",
          "observe", "record_applied", "record_not_applied", "record_ambiguous",
          "settle", "release", "activate", "enqueue", "complete"}

(* The plan is the difference of two commits: it can be empty.             *)
Plans == [Ops -> Kinds] \cup [{} -> Kinds]
Empty == DOMAIN plan = {}

Before(i) == IF plan[i] = "added" THEN "absent" ELSE "base"
After(i) == IF plan[i] = "deleted" THEN "absent" ELSE "cand"

TypeOK ==
  /\ plan \in Plans
  /\ live \in [Ops -> Contents] /\ side \in [Ops -> Contents \cup {"nothing"}]
  /\ journal \in [Ops -> Phases] /\ guarded \in [Ops -> BOOLEAN]
  /\ outcome \in [Ops -> Outcomes]
  /\ intent \in BOOLEAN /\ activation \in BOOLEAN /\ restart \in BOOLEAN
  /\ work \in {"absent", "pending", "running", "retry", "succeeded", "blocked"}
  /\ attempts \in Nat
  /\ pc \in Steps /\ at \in Ops
  /\ crashes \in 0..MaxCrashes /\ edits \in 0..MaxEdits
  /\ mutations \in [Ops -> 0..2]
  /\ displaced \in [Ops -> Contents \cup {"nothing"}]
  /\ discarded \in SUBSET Contents

Init ==
  /\ plan \in Plans
  /\ live = [i \in Ops |-> IF Empty THEN "base" ELSE Before(i)]
  /\ side = [i \in Ops |-> "nothing"]
  /\ journal = [i \in Ops |-> "none"] /\ guarded = [i \in Ops |-> FALSE]
  /\ outcome = [i \in Ops |-> "none"]
  /\ intent = FALSE /\ activation = FALSE /\ restart = FALSE
  /\ work = "absent" /\ attempts = 0
  /\ pc = "idle" /\ at = 1 /\ crashes = 0 /\ edits = 0
  /\ mutations = [i \in Ops |-> 0] /\ displaced = [i \in Ops |-> "nothing"]
  /\ discarded = {}

-----------------------------------------------------------------------------
(* The recovery decision of discover_live_apply_recovery: what the last    *)
(* journal record allows.                                                  *)

Last(i) == journal[i] # "none" /\ \A j \in Ops : j > i => journal[j] = "none"

(* Faulty variant: the phase of the previous operation is not looked at.   *)
NextOperationUnchecked(i) ==
  /\ journal[i] = "none"
  /\ IF i = 1 THEN \A j \in Ops : journal[j] = "none" ELSE Last(i - 1)

NextOperation(i) ==
  IF i = 1 THEN \A j \in Ops : journal[j] = "none"
           ELSE Last(i - 1) /\ journal[i - 1] = "mutation_verified"

Uncertain(i) == Last(i) /\ journal[i] = "mutation_started"
Halted(i) == Last(i) /\ journal[i] = "blocked"
Applied == Empty \/ (Last(NumOps) /\ journal[NumOps] = "mutation_verified")

-----------------------------------------------------------------------------
(* How a pass ends.  Each releases the thread and settles the work item.   *)

(* Faulty variant: every retry starts from a fresh attempt budget.         *)
FailRefreshing(transient) ==
  /\ work' = IF transient THEN "retry" ELSE "blocked"
  /\ attempts' = 0
  /\ pc' = "idle" /\ UNCHANGED at

Fail(transient) ==
  /\ work' = IF transient /\ attempts < MaxAttempts THEN "retry" ELSE "blocked"
  /\ pc' = "idle" /\ UNCHANGED <<attempts, at>>

(* The controller rejected: retry only while the journal is uncertain.     *)
Reject(phases) == Fail(\E i \in Ops : phases[i] = "mutation_started")

(* _block_if_possible suppresses the failure to store the block.           *)
BlockIfPossible ==
  \E stored \in BOOLEAN :
    /\ journal' = IF stored THEN [journal EXCEPT ![at] = "blocked"] ELSE journal
    /\ Reject(journal')

Go(step) == pc' = step /\ UNCHANGED <<at, workVars>>

-----------------------------------------------------------------------------
(* Admission, claim and authority *)

(* Every live path still equals its baseline: the intent, the execution    *)
(* item and the end of the admission item are stored together.             *)
Admit ==
  /\ pc = "idle" /\ ~intent
  /\ \A i \in DOMAIN plan : live[i] = Before(i)
  /\ intent' = TRUE /\ work' = "pending"
  /\ UNCHANGED <<fileVars, recordVars, activation, restart, attempts, threadVars, envVars,
                 historyVars>>

(* The lane recovers its interrupted item and claims in one transaction.   *)
Claim ==
  /\ pc = "idle" /\ work \in {"pending", "retry", "running"}
  /\ work' = "running" /\ attempts' = attempts + 1 /\ pc' = "reprove"
  /\ UNCHANGED <<fileVars, recordVars, releaseVars, at, envVars, historyVars>>

(* Backup, repository heads, Stage and plan are proved anew: proved, not   *)
(* available right now, or no longer true.                                 *)
Reprove ==
  /\ pc = "reprove"
  /\ Go("advance") \/ Fail(TRUE) \/ Fail(FALSE)
  /\ UNCHANGED <<fileVars, recordVars, releaseVars, envVars, historyVars>>

(* advance_live_apply_once: one operation or one reconciliation, never two.*)
Advance ==
  /\ pc = "advance"
  /\ \/ Applied /\ Go("activate")
     \/ \E i \in DOMAIN plan :
          \/ NextOperation(i) /\ at' = i /\ pc' = "prove" /\ UNCHANGED workVars
          \/ Uncertain(i) /\ at' = i /\ pc' = "observe" /\ UNCHANGED workVars
          \/ Halted(i) /\ Fail(FALSE)
  /\ UNCHANGED <<fileVars, recordVars, releaseVars, envVars, historyVars>>

-----------------------------------------------------------------------------
(* The writer: apply_live_operation *)

(* The staged tree and the live leaf are checked before anything is stored.*)
Prove ==
  /\ pc = "prove"
  /\ \/ live[at] = Before(at) /\ Go("journal")
     \/ Reject(journal)
  /\ UNCHANGED <<fileVars, recordVars, releaseVars, envVars, historyVars>>

(* A new record starts, is the next of a contiguous history, and follows a *)
(* verified one.                                                           *)
Journal ==
  /\ pc = "journal" /\ journal[at] = "none" /\ NextOperation(at)
  /\ journal' = [journal EXCEPT ![at] = "mutation_started"]
  /\ Go("prove_again")
  /\ UNCHANGED <<fileVars, guarded, outcome, releaseVars, envVars, historyVars>>

(* The same proof again, and the directory identities made durable.        *)
ProveAgain ==
  /\ pc = "prove_again"
  /\ \/ /\ live[at] = Before(at)
        /\ guarded' = [guarded EXCEPT ![at] = TRUE]
        /\ Go(IF plan[at] = "mode_changed" THEN "chmod"
              ELSE IF plan[at] = "deleted" THEN "commit" ELSE "prepare")
        /\ UNCHANGED journal
     \/ BlockIfPossible /\ UNCHANGED guarded
  /\ UNCHANGED <<fileVars, outcome, releaseVars, envVars, historyVars>>

(* Candidate bytes go to a private temporary next to the leaf, unless a    *)
(* directory on its path is not the guarded one any more.                  *)
Prepare ==
  /\ pc = "prepare"
  /\ \/ side' = [side EXCEPT ![at] = "cand"] /\ Go("commit") /\ UNCHANGED journal
     \/ BlockIfPossible /\ UNCHANGED side
  /\ UNCHANGED <<live, guarded, outcome, releaseVars, envVars, historyVars>>

Mutated(old) ==
  /\ mutations' = [mutations EXCEPT ![at] = IF @ < 2 THEN @ + 1 ELSE @]
  /\ displaced' = [displaced EXCEPT ![at] = old]
  /\ UNCHANGED discarded

Unlink == /\ side' = [side EXCEPT ![at] = "nothing"]
          /\ discarded' = discarded \cup ({side[at]} \ {"nothing"})
          /\ UNCHANGED <<mutations, displaced>>

(* Removing the temporary after a failure is attempted, never insisted on. *)
TryUnlink == Unlink \/ UNCHANGED <<side, historyVars>>

Exchange == /\ live' = [live EXCEPT ![at] = side[at]]
            /\ side' = [side EXCEPT ![at] = live[at]]

(* Added: hard-link the temporary, never over an existing leaf.            *)
CommitAdded ==
  /\ pc = "commit" /\ plan[at] = "added"
  /\ \/ /\ live[at] = "absent"
        /\ live' = [live EXCEPT ![at] = side[at]] /\ UNCHANGED side
        /\ Mutated("absent") /\ Go("clean")
     \/ live[at] # "absent" /\ TryUnlink /\ Reject(journal) /\ UNCHANGED live
  /\ UNCHANGED <<recordVars, releaseVars, envVars>>

(* Modified: exchange leaf and temporary; there must be a leaf.            *)
CommitModified ==
  /\ pc = "commit" /\ plan[at] = "modified"
  /\ \/ live[at] # "absent" /\ Exchange /\ Mutated(live[at]) /\ Go("check")
     \/ live[at] = "absent" /\ TryUnlink /\ Reject(journal) /\ UNCHANGED live
  /\ UNCHANGED <<recordVars, releaseVars, envVars>>

(* Deleted: move the leaf to a tombstone; there must be a leaf, in the     *)
(* guarded directory.                                                      *)
CommitDeleted ==
  /\ pc = "commit" /\ plan[at] = "deleted"
  /\ \/ /\ live[at] # "absent"
        /\ live' = [live EXCEPT ![at] = "absent"]
        /\ side' = [side EXCEPT ![at] = live[at]]
        /\ Mutated(live[at]) /\ Go("check") /\ UNCHANGED journal
     \/ BlockIfPossible /\ UNCHANGED <<fileVars, historyVars>>
  /\ UNCHANGED <<guarded, outcome, releaseVars, envVars>>

(* Faulty variant: what was moved aside is not verified.                   *)
CheckNothing ==
  /\ pc = "check" /\ Go("clean")
  /\ UNCHANGED <<fileVars, recordVars, releaseVars, envVars, historyVars>>

(* What was moved aside must be the baseline.  If it cannot be read it is  *)
(* taken for something else.                                               *)
Check ==
  /\ pc = "check"
  /\ \/ side[at] = "base" /\ Go("clean")
     \/ Go("reverse")
  /\ UNCHANGED <<fileVars, recordVars, releaseVars, envVars, historyVars>>

(* It was not: put it back.  A modified leaf is exchanged back, and the    *)
(* temporary removed; a deleted one returns only to a free name.  If that  *)
(* fails, for whatever reason, the journal stays uncertain and the moved   *)
(* content stays aside.                                                    *)
ReverseModified ==
  /\ pc = "reverse" /\ plan[at] = "modified"
  /\ \/ live[at] # "absent" /\ Exchange /\ Go("drop")
     \/ Reject(journal) /\ UNCHANGED fileVars
  /\ UNCHANGED <<recordVars, releaseVars, envVars, historyVars>>

Drop ==
  /\ pc = "drop" /\ TryUnlink /\ BlockIfPossible
  /\ UNCHANGED <<live, guarded, outcome, releaseVars, envVars>>

ReverseDeleted ==
  /\ pc = "reverse" /\ plan[at] = "deleted"
  /\ \/ /\ live[at] = "absent"
        /\ live' = [live EXCEPT ![at] = side[at]]
        /\ side' = [side EXCEPT ![at] = "nothing"]
        /\ BlockIfPossible
     \/ Reject(journal) /\ UNCHANGED <<fileVars, journal>>
  /\ UNCHANGED <<guarded, outcome, releaseVars, envVars, historyVars>>

Clean ==
  /\ pc = "clean" /\ Unlink /\ Go("verify")
  /\ UNCHANGED <<live, recordVars, releaseVars, envVars>>

(* Mode-only change through an open descriptor of the verified baseline.   *)
(* ChmodBaseline is the read, Chmod the fchmod after it: an edit in place  *)
(* in between keeps its content, an edit that replaced the file is noticed.*)
(* A leaf that cannot be opened is one that changed.                       *)
(* A mode change displaces no content.                                     *)
ChmodBaseline ==
  /\ pc = "chmod"
  /\ \/ live[at] = "base" /\ Go("commit") /\ UNCHANGED journal
     \/ BlockIfPossible
  /\ UNCHANGED <<fileVars, guarded, outcome, releaseVars, envVars, historyVars>>

Chmod ==
  /\ pc = "commit" /\ plan[at] = "mode_changed"
  /\ \/ /\ live[at] = "base" /\ live' = [live EXCEPT ![at] = "cand"]
        /\ Mutated("base") /\ Go("verify")
     \/ /\ live[at] # "base" /\ UNCHANGED live
        /\ \/ live[at] # "absent" /\ Mutated("base") /\ Go("verify")
           \/ Reject(journal) /\ UNCHANGED historyVars
  /\ UNCHANGED <<side, recordVars, releaseVars, envVars>>

(* The postcondition holds, is refuted, or cannot be read.                 *)
Verify ==
  /\ pc = "verify"
  /\ \/ live[at] = After(at) /\ Go("record") /\ UNCHANGED journal
     \/ live[at] # After(at) /\ BlockIfPossible
     \/ Reject(journal) /\ UNCHANGED journal
  /\ UNCHANGED <<fileVars, guarded, outcome, releaseVars, envVars, historyVars>>

Record ==
  /\ pc = "record"
  /\ journal' = [journal EXCEPT ![at] = "mutation_verified"]
  /\ Go("release")
  /\ UNCHANGED <<fileVars, guarded, outcome, releaseVars, envVars, historyVars>>

(* The file system or the state store refuses a step of the writer: the    *)
(* temporary or tombstone is removed or stays, and the journal is left as  *)
(* it is.                                                                  *)
Refuse ==
  /\ pc \in {"journal", "prepare", "commit", "clean", "record"}
  /\ TryUnlink /\ Reject(journal)
  /\ UNCHANGED <<live, recordVars, releaseVars, envVars>>

(* defer_work, in a transaction of its own.                                *)
Release ==
  /\ pc = "release"
  /\ work' = "pending" /\ attempts' = 0 /\ pc' = "idle"
  /\ UNCHANGED <<fileVars, recordVars, releaseVars, at, envVars, historyVars>>

-----------------------------------------------------------------------------
(* The reconciler: reconcile_live_apply_operation, read-only on the tree   *)

(* An unreadable Stage, a missing guard or a replaced directory is         *)
(* ambiguous; otherwise the leaf itself tells.                             *)
Observed(i) ==
  {"ambiguous"} \cup
    (IF ~guarded[i] THEN {}
     ELSE IF live[i] = After(i) THEN {"applied"}
     ELSE IF live[i] = Before(i) THEN {"not_applied"} ELSE {})

Observe ==
  /\ pc = "observe"
  /\ \E o \in Observed(at) : Go(
        CASE o = "applied" -> "record_applied"
          [] o = "not_applied" -> "record_not_applied"
          [] OTHER -> "record_ambiguous")
  /\ UNCHANGED <<fileVars, recordVars, releaseVars, envVars, historyVars>>

(* First transaction: the outcome, which can be repeated but not changed.  *)
RecordOutcome(step, o) ==
  /\ pc = step
  /\ \/ /\ outcome[at] \in {"none", o}
        /\ outcome' = [outcome EXCEPT ![at] = o]
        /\ Go("settle")
     \/ outcome[at] \notin {"none", o} /\ Reject(journal) /\ UNCHANGED outcome
  /\ UNCHANGED <<fileVars, journal, guarded, releaseVars, envVars, historyVars>>

(* Faulty variant: an unapplied operation becomes writable again.          *)
SettleForRetry ==
  /\ pc = "settle" /\ Go("release")
  /\ journal' = [journal EXCEPT ![at] =
       IF outcome[at] = "not_applied" THEN "none"
       ELSE IF outcome[at] = "applied" THEN "mutation_verified" ELSE "blocked"]
  /\ UNCHANGED <<fileVars, guarded, outcome, releaseVars, envVars, historyVars>>

(* Faulty variant: the leaf is read again instead of the stored outcome.   *)
SettleFromLeaf ==
  /\ pc = "settle"
  /\ IF live[at] = After(at)
       THEN journal' = [journal EXCEPT ![at] = "mutation_verified"] /\ Go("release")
       ELSE journal' = [journal EXCEPT ![at] = "blocked"] /\ Fail(FALSE)
  /\ UNCHANGED <<fileVars, guarded, outcome, releaseVars, envVars, historyVars>>

(* Second transaction: the journal.                                        *)
Settle ==
  /\ pc = "settle"
  /\ IF outcome[at] = "applied"
       THEN journal' = [journal EXCEPT ![at] = "mutation_verified"] /\ Go("release")
       ELSE journal' = [journal EXCEPT ![at] = "blocked"] /\ Fail(FALSE)
  /\ UNCHANGED <<fileVars, guarded, outcome, releaseVars, envVars, historyVars>>

-----------------------------------------------------------------------------
(* Completion: activation, restart work and verdict, in three transactions *)

(* An empty plan needs no activation, and with it no restart.              *)
Activate ==
  /\ pc = "activate"
  /\ \/ Empty /\ Go("complete") /\ UNCHANGED activation
     \/ /\ ~ Empty /\ \A i \in Ops : journal[i] = "mutation_verified"
        /\ activation' = TRUE /\ Go("enqueue")
     \/ Fail(FALSE) /\ UNCHANGED activation
  /\ UNCHANGED <<fileVars, recordVars, intent, restart, envVars, historyVars>>

(* Faulty variant: a failure to enqueue is suppressed.                     *)
EnqueueSuppressed ==
  /\ pc = "enqueue" /\ restart' \in {restart, TRUE} /\ Go("complete")
  /\ UNCHANGED <<fileVars, recordVars, intent, activation, envVars, historyVars>>

(* The insert fails, or after a crash the restart is there and is blocked: *)
(* the Apply is blocked.                                                   *)
EnqueueRestart ==
  /\ pc = "enqueue"
  /\ \/ restart' = TRUE /\ Go("complete")
     \/ Fail(FALSE) /\ UNCHANGED restart
  /\ UNCHANGED <<fileVars, recordVars, intent, activation, envVars, historyVars>>

Complete ==
  /\ pc = "complete"
  /\ \/ work' = "succeeded" /\ pc' = "idle" /\ UNCHANGED <<attempts, at>>
     \/ Fail(FALSE)
  /\ UNCHANGED <<fileVars, recordVars, releaseVars, envVars, historyVars>>

-----------------------------------------------------------------------------
(* The environment *)

Crash ==
  /\ pc # "idle" /\ crashes < MaxCrashes
  /\ crashes' = crashes + 1 /\ pc' = "idle"
  /\ UNCHANGED <<fileVars, recordVars, releaseVars, workVars, at, plan, edits, historyVars>>

(* Somebody else writes, restores or removes a live file.                  *)
Edit(i, c) ==
  /\ edits < MaxEdits /\ live[i] # c
  /\ live' = [live EXCEPT ![i] = c] /\ edits' = edits + 1
  /\ UNCHANGED <<side, recordVars, releaseVars, workVars, threadVars, plan, crashes,
                 historyVars>>

-----------------------------------------------------------------------------
Write ==
  \/ Prove \/ Journal \/ ProveAgain \/ Prepare
  \/ CommitAdded \/ CommitModified \/ CommitDeleted
  \/ Check \/ ReverseModified \/ Drop \/ ReverseDeleted \/ Clean
  \/ ChmodBaseline \/ Chmod \/ Verify \/ Record \/ Refuse

Reconcile ==
  \/ Observe
  \/ RecordOutcome("record_applied", "applied")
  \/ RecordOutcome("record_not_applied", "not_applied")
  \/ RecordOutcome("record_ambiguous", "ambiguous")
  \/ Settle

Pass == Claim \/ Reprove \/ Advance \/ Write \/ Reconcile \/ Release
        \/ Activate \/ EnqueueRestart \/ Complete

Next == Admit \/ Pass \/ Crash \/ \E i \in Ops, c \in Contents : Edit(i, c)

Spec == Init /\ [][Next]_vars

(* Retrigger passes keep coming and the owner thread keeps running.        *)
FairSpec == Spec /\ WF_vars(Pass)

-----------------------------------------------------------------------------
(* Properties *)

(* A restart, a retry or a reconciliation never applies an operation a     *)
(* second time, whatever it finds on disk.                                 *)
OneMutation == \A i \in Ops : mutations[i] <= 1

(* An operation that the writer itself verified replaced exactly the       *)
(* authorized baseline, even if the leaf was edited at the worst moment.   *)
WriterReplacedBaseline ==
  \A i \in Ops : journal[i] = "mutation_verified" /\ outcome[i] = "none"
                   => displaced[i] = Before(i)

(* docs/live-apply-writer.md: "The displaced object must match the exact   *)
(* authorized baseline" - also when the reconciler verified the operation. *)
VerifiedReplacedBaseline ==
  \A i \in Ops : journal[i] = "mutation_verified" /\ mutations[i] > 0
                   => displaced[i] = Before(i)

(* docs/live-apply-writer.md: "A proven mismatch is safely reversed": the  *)
(* reversal never removes somebody's edit.                                 *)
DiscardsNoEdit == discarded \cap Edits = {}

(* The reconciler's verdict is durable before the journal follows it, and  *)
(* the journal never contradicts it (and the state is well typed).         *)
OutcomeBindsJournal ==
  /\ TypeOK
  /\ \A i \in Ops :
       /\ outcome[i] = "applied" => journal[i] \in {"mutation_started", "mutation_verified"}
       /\ outcome[i] \in {"not_applied", "ambiguous"} =>
            journal[i] \in {"mutation_started", "blocked"}

(* live_apply_controller.py: an Apply that is halted at an operation has   *)
(* verified every operation before it and has neither journaled nor        *)
(* touched one after it; it is not released, restarts nothing and is not   *)
(* a success.                                                              *)
HaltIsExact ==
  \A i \in Ops : journal[i] = "blocked" =>
    /\ ~ activation /\ ~ restart /\ work # "succeeded"
    /\ \A j \in Ops : j < i => journal[j] = "mutation_verified"
    /\ \A j \in Ops : i < j => journal[j] = "none" /\ mutations[j] = 0

(* candidate_apply_execution.py, _finish: an Apply that succeeded has      *)
(* verified its whole plan and released and scheduled the restart,         *)
(* although these are transactions of their own and any of them can be     *)
(* the last before a crash.  If there was nothing to do Core is not        *)
(* restarted for it.                                                       *)
SuccessIsWhole ==
  /\ work = "succeeded" /\ ~ Empty =>
       activation /\ restart /\ \A i \in Ops : journal[i] = "mutation_verified"
  /\ Empty => ~ activation /\ ~ restart

(* candidate_apply_execution.py: where an Apply ends is what its journal,  *)
(* its releases and the live tree say, be it a halt or a success.          *)
EndIsExact == HaltIsExact /\ SuccessIsWhole

(* However often it crashes, an admitted Apply ends with a verdict.        *)
ApplySettles == (work = "pending") ~> (work \in {"succeeded", "blocked"})

Protocol == INSTANCE ApplyProtocol WITH
  confirmed <- {i \in Ops : journal[i] = "mutation_verified"},
  open <- {i \in Ops : journal[i] = "mutation_started"},
  halted <- {i \in Ops : journal[i] = "blocked"},
  released <- activation

(* The journal implements the ordered protocol.                            *)
ProtocolSpec == Protocol!Spec

=============================================================================

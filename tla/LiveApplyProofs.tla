--------------------------- MODULE LiveApplyProofs ---------------------------
(* Proofs about one controlled Apply, for plans of any length and any      *)
(* number of attempts, crashes and edits.                                  *)
EXTENDS LiveApply, TLAPS

USE ApplyAssumption

-----------------------------------------------------------------------------
(* The inductive invariant *)

(* The journal is a verified prefix with at most one record after it.      *)
PrefixInv ==
  \A i, j \in Ops : i < j /\ journal[j] # "none" => journal[i] = "mutation_verified"

(* An operation without a journal record was never carried out.            *)
FreshInv ==
  \A i \in Ops : journal[i] = "none" => outcome[i] = "none" /\ mutations[i] = 0

Writing == {"prove_again", "chmod", "prepare", "commit", "check", "reverse", "drop",
            "clean", "verify", "record"}
Reconciling == {"observe", "record_applied", "record_not_applied", "record_ambiguous",
                "settle"}

(* Where the owner thread is tells what the operation it is at has come to.*)
PlaceInv ==
  /\ pc \in {"prove", "journal"} => NextOperation(at)
  /\ pc \in Writing \cup Reconciling => journal[at] = "mutation_started"
  /\ pc \in {"prove", "journal"} \cup Writing \cup Reconciling => plan \in [Ops -> Kinds]
  /\ pc \in Writing => outcome[at] = "none"
  /\ pc = "settle" => outcome[at] # "none"

(* What the writer did to the leaf so far, and what it has put aside.      *)
LeafInv ==
  /\ pc \in {"prove_again", "chmod", "prepare", "commit"} => mutations[at] = 0
  /\ pc = "chmod" => plan[at] = "mode_changed"
  /\ pc = "prepare" => plan[at] \in {"added", "modified"}
  /\ pc = "commit" /\ plan[at] \in {"added", "modified"} => side[at] = "cand"
  /\ pc \in {"check", "reverse"} => plan[at] \in {"modified", "deleted"} /\ side[at] # "nothing"
  /\ pc = "check" => displaced[at] = side[at]
  /\ pc \in {"clean", "verify", "record"} => displaced[at] = Before(at)

Inv == /\ TypeOK /\ PrefixInv /\ FreshInv /\ PlaceInv /\ LeafInv
       /\ OneMutation /\ WriterReplacedBaseline /\ OutcomeBindsJournal
-----------------------------------------------------------------------------
(* What several steps share *)

LEMMA InitInv == Init => Inv
  <1> SUFFICES ASSUME Init PROVE Inv
    OBVIOUS
  <1>1. \A i \in Ops : Before(i) \in Contents
    BY DEF Before, Contents
  <1>2. TypeOK
    <2>1. live \in [Ops -> Contents] /\ plan \in Plans
      BY <1>1 DEF Init, Contents
    <2>2. /\ side \in [Ops -> Contents \cup {"nothing"}]
          /\ displaced \in [Ops -> Contents \cup {"nothing"}]
          /\ journal \in [Ops -> Phases] /\ guarded \in [Ops -> BOOLEAN]
          /\ outcome \in [Ops -> Outcomes] /\ mutations \in [Ops -> 0..2]
      BY DEF Init, Phases, Outcomes
    <2>3. pc \in Steps /\ at \in Ops /\ crashes \in 0..MaxCrashes /\ edits \in 0..MaxEdits
      BY DEF Init, Steps, Ops
    <2> QED BY <2>1, <2>2, <2>3 DEF Init, TypeOK
  <1>3. PlaceInv /\ LeafInv
    BY DEF Init, PlaceInv, LeafInv, Writing, Reconciling
  <1> QED BY <1>2, <1>3
          DEF Init, Inv, PrefixInv, FreshInv, OneMutation, WriterReplacedBaseline,
              OutcomeBindsJournal

(* The steps at which no operation is in hand.                             *)
Between == {"idle", "reprove", "advance", "release", "activate", "enqueue", "complete"}

Statuses == {"absent", "pending", "running", "retry", "succeeded", "blocked"}

LEMMA Ended ==
  ASSUME pc' \in Between
  PROVE  PlaceInv' /\ LeafInv'
  BY DEF Between, PlaceInv, LeafInv, Writing, Reconciling

LEMMA Failed ==
  ASSUME TypeOK, NEW phases, Reject(phases) \/ Fail(TRUE) \/ Fail(FALSE)
  PROVE  /\ work' \in Statuses /\ attempts' \in Nat /\ at' \in Ops
         /\ pc' = "idle" /\ UNCHANGED <<attempts, at>>
  BY DEF Reject, Fail, Statuses, TypeOK

(* A step that leaves the journal, the outcomes and the history alone.     *)
LEMMA QuietKeeps ==
  ASSUME Inv, UNCHANGED <<plan, journal, outcome, mutations, displaced>>,
         TypeOK', PlaceInv', LeafInv'
  PROVE  Inv'
  BY DEF Inv, PrefixInv, FreshInv, OneMutation, WriterReplacedBaseline, OutcomeBindsJournal,
         Before

(* A step that ends the record of the operation in hand.                   *)
LEMMA ConcludeKeeps ==
  ASSUME Inv, NEW phase \in {"mutation_verified", "blocked"},
         journal' = [journal EXCEPT ![at] = phase], journal[at] = "mutation_started",
         UNCHANGED <<plan, outcome, mutations, displaced>>,
         phase = "mutation_verified" =>
           outcome[at] = "applied" \/ (outcome[at] = "none" /\ displaced[at] = Before(at)),
         phase = "blocked" => outcome[at] # "applied",
         TypeOK', pc' \in Between
  PROVE  Inv'
  <1>1. at \in Ops /\ journal \in [Ops -> Phases] /\ outcome \in [Ops -> Outcomes]
    BY DEF Inv, TypeOK
  <1>2. /\ journal'[at] = phase
        /\ \A i \in Ops \ {at} : journal'[i] = journal[i]
    BY <1>1
  <1>3. PrefixInv'
    <2> SUFFICES ASSUME NEW i \in Ops, NEW j \in Ops, i < j, journal'[j] # "none"
                 PROVE  journal'[i] = "mutation_verified"
      BY DEF PrefixInv, Ops
    <2>1. journal[j] # "none"
      BY <1>2
    <2> QED BY <2>1, <1>1, <1>2 DEF Inv, PrefixInv
  <1>4. FreshInv' /\ OneMutation'
    BY <1>2 DEF Inv, FreshInv, OneMutation
  <1>5. WriterReplacedBaseline'
    BY <1>2 DEF Inv, WriterReplacedBaseline, Before
  <1>6. OutcomeBindsJournal'
    BY <1>1, <1>2 DEF Inv, OutcomeBindsJournal, Outcomes
  <1> QED BY <1>3, <1>4, <1>5, <1>6, Ended DEF Inv

(* The files, wherever the writer leaves them.                             *)
FilesOK == /\ live \in [Ops -> Contents] /\ side \in [Ops -> Contents \cup {"nothing"}]
           /\ discarded \in SUBSET Contents

(* A pass that gives up: the journal keeps the operation open ...          *)
LEMMA RejectKeeps ==
  ASSUME Inv, Reject(journal), FilesOK', UNCHANGED <<recordVars, releaseVars, envVars>>,
         UNCHANGED <<mutations, displaced>>
  PROVE  Inv'
  <1>1. work' \in Statuses /\ attempts' \in Nat /\ at' \in Ops /\ pc' = "idle"
    BY Failed DEF Inv
  <1>2. TypeOK'
    BY <1>1 DEF Inv, TypeOK, FilesOK, Statuses, Steps, recordVars, releaseVars, envVars
  <1> QED BY <1>1, <1>2, Ended, QuietKeeps DEF Between, recordVars, envVars

(* ... or has stored that it is blocked.                                   *)
LEMMA BlockKeeps ==
  ASSUME Inv, pc \in Writing, BlockIfPossible, FilesOK',
         UNCHANGED <<guarded, outcome, releaseVars, envVars, mutations, displaced>>
  PROVE  Inv'
  <1>1. journal[at] = "mutation_started" /\ outcome[at] = "none"
    BY DEF Inv, PlaceInv
  <1>2. PICK stored \in BOOLEAN :
          /\ journal' = IF stored THEN [journal EXCEPT ![at] = "blocked"] ELSE journal
          /\ Reject(journal')
    BY DEF BlockIfPossible
  <1>3. work' \in Statuses /\ attempts' \in Nat /\ at' \in Ops /\ pc' = "idle"
    BY <1>2, Failed DEF Inv
  <1>4. TypeOK'
    <2>1. journal' \in [Ops -> Phases]
      BY <1>2 DEF Inv, TypeOK, Phases
    <2> QED BY <1>3, <2>1 DEF Inv, TypeOK, FilesOK, Statuses, Steps, releaseVars, envVars
  <1>5. CASE stored
    BY <1>1, <1>2, <1>3, <1>4, <1>5, ConcludeKeeps DEF Between, envVars
  <1>6. CASE ~stored
    BY <1>2, <1>3, <1>4, <1>6, Ended, QuietKeeps DEF Between, envVars
  <1> QED BY <1>5, <1>6
-----------------------------------------------------------------------------
(* Steps between the operations *)

LEMMA BetweenKeeps ==
  ASSUME Inv, UNCHANGED <<fileVars, recordVars, plan, edits, historyVars>>,
         work' \in Statuses, attempts' \in Nat, at' \in Ops, pc' \in Between,
         intent' \in BOOLEAN, activation' \in BOOLEAN, restart' \in BOOLEAN,
         crashes' \in 0..MaxCrashes
  PROVE  Inv'
  <1>1. TypeOK'
    BY DEF Inv, TypeOK, Between, Statuses, Steps, fileVars, recordVars, historyVars
  <1> QED BY <1>1, Ended, QuietKeeps DEF recordVars, historyVars

LEMMA PassKeeps ==
  ASSUME Inv, \/ Admit \/ Claim \/ Reprove \/ Release \/ Activate \/ EnqueueRestart
              \/ Complete \/ Crash
  PROVE  Inv'
  <1>t. /\ work \in Statuses /\ attempts \in Nat /\ at \in Ops /\ TypeOK
        /\ intent \in BOOLEAN /\ activation \in BOOLEAN /\ restart \in BOOLEAN
        /\ crashes \in 0..MaxCrashes
    BY DEF Inv, TypeOK, Statuses
  <1> USE DEF Statuses, Between, releaseVars, workVars, threadVars, envVars
  <1>1. CASE Admit
    BY <1>1, <1>t, BetweenKeeps DEF Admit
  <1>2. CASE Claim
    BY <1>2, <1>t, BetweenKeeps DEF Claim
  <1>3. CASE Reprove
    <2>1. CASE Go("advance")
      BY <1>3, <2>1, <1>t, BetweenKeeps DEF Reprove, Go
    <2>2. CASE Fail(TRUE) \/ Fail(FALSE)
      BY <1>3, <2>2, <1>t, Failed, BetweenKeeps DEF Reprove
    <2> QED BY <1>3, <2>1, <2>2 DEF Reprove
  <1>4. CASE Release
    BY <1>4, <1>t, BetweenKeeps DEF Release
  <1>5. CASE Activate
    <2>1. CASE activation' = TRUE /\ Go("enqueue")
      BY <1>5, <2>1, <1>t, BetweenKeeps DEF Activate, Go
    <2>2. CASE Fail(FALSE) /\ UNCHANGED activation
      BY <1>5, <2>2, <1>t, Failed, BetweenKeeps DEF Activate
    <2>3. CASE Go("complete") /\ UNCHANGED activation
      BY <1>5, <2>3, <1>t, BetweenKeeps DEF Activate, Go
    <2> QED BY <1>5, <2>1, <2>2, <2>3 DEF Activate
  <1>6. CASE EnqueueRestart
    <2>1. CASE restart' = TRUE /\ Go("complete")
      BY <1>6, <2>1, <1>t, BetweenKeeps DEF EnqueueRestart, Go
    <2>2. CASE Fail(FALSE) /\ UNCHANGED restart
      BY <1>6, <2>2, <1>t, Failed, BetweenKeeps DEF EnqueueRestart
    <2> QED BY <1>6, <2>1, <2>2 DEF EnqueueRestart
  <1>7. CASE Complete
    <2>1. CASE work' = "succeeded" /\ pc' = "idle" /\ UNCHANGED <<attempts, at>>
      BY <1>7, <2>1, <1>t, BetweenKeeps DEF Complete
    <2>2. CASE Fail(FALSE)
      BY <1>7, <2>2, <1>t, Failed, BetweenKeeps DEF Complete
    <2> QED BY <1>7, <2>1, <2>2 DEF Complete
  <1>8. CASE Crash
    BY <1>8, <1>t, BetweenKeeps DEF Crash
  <1> QED BY <1>1, <1>2, <1>3, <1>4, <1>5, <1>6, <1>7, <1>8

(* The recovery decision hands an operation to the writer only if it has   *)
(* no record yet, to the reconciler only if its record is open.            *)
LEMMA AdvanceKeeps ==
  ASSUME Inv, Advance
  PROVE  Inv'
  <1>t. /\ TypeOK /\ work \in Statuses /\ attempts \in Nat /\ at \in Ops
        /\ intent \in BOOLEAN /\ activation \in BOOLEAN /\ restart \in BOOLEAN
        /\ crashes \in 0..MaxCrashes
        /\ UNCHANGED <<fileVars, recordVars, releaseVars, envVars, historyVars>>
    BY DEF Inv, TypeOK, Statuses, Advance
  <1>1. CASE Go("activate")
    BY <1>1, <1>t, BetweenKeeps DEF Go, Between, releaseVars, envVars, workVars
  <1>2. CASE Fail(FALSE)
    BY <1>2, <1>t, Failed, BetweenKeeps DEF Between, releaseVars, envVars
  <1>3. ASSUME NEW i \in Ops, plan \in [Ops -> Kinds], at' = i, UNCHANGED workVars,
               \/ NextOperation(i) /\ pc' = "prove"
               \/ Uncertain(i) /\ pc' = "observe"
        PROVE  Inv'
    <2> USE DEF fileVars, recordVars, releaseVars, workVars, envVars, historyVars
    <2>1. TypeOK'
      BY <1>3, <1>t DEF TypeOK, Steps
    <2>2. PlaceInv'
      <3>1. NextOperation(i)' <=> NextOperation(i)
        BY <1>t DEF NextOperation, Last
      <3> QED BY <1>3, <1>t, <3>1 DEF PlaceInv, Uncertain, Writing, Reconciling
    <2>3. LeafInv'
      BY <1>3 DEF LeafInv
    <2> QED BY <1>t, <2>1, <2>2, <2>3, QuietKeeps
  <1>4. \A i \in DOMAIN plan : i \in Ops /\ plan \in [Ops -> Kinds]
    BY <1>t DEF TypeOK, Plans
  <1> QED BY <1>1, <1>2, <1>3, <1>4 DEF Advance

LEMMA EditKeeps ==
  ASSUME Inv, NEW i \in Ops, NEW c \in Contents, Edit(i, c)
  PROVE  Inv'
  <1> USE DEF Edit, recordVars, releaseVars, workVars, threadVars, historyVars
  <1>1. TypeOK'
    <2>1. live' \in [Ops -> Contents] /\ edits' \in 0..MaxEdits
      BY DEF Inv, TypeOK
    <2> QED BY <2>1 DEF Inv, TypeOK
  <1>2. PlaceInv' /\ LeafInv'
    BY DEF Inv, PlaceInv, LeafInv, NextOperation, Last, Before
  <1> QED BY <1>1, <1>2, QuietKeeps
-----------------------------------------------------------------------------
(* The writer *)

LEMMA NextIsUnrecorded ==
  ASSUME Inv, NEW i \in Ops, NextOperation(i)
  PROVE  /\ \A j \in Ops : j >= i => journal[j] = "none"
         /\ \A j \in Ops : j < i => journal[j] = "mutation_verified"
  <1>1. CASE i = 1
    BY <1>1 DEF NextOperation, Ops
  <1>2. CASE i # 1
    <2>1. i - 1 \in Ops /\ Last(i - 1) /\ journal[i - 1] = "mutation_verified"
      BY <1>2 DEF NextOperation, Ops
    <2>2. \A j \in Ops : j >= i => j > i - 1
      BY DEF Ops
    <2>3. \A j \in Ops : j < i => j = i - 1 \/ j < i - 1
      BY DEF Ops
    <2> QED BY <2>1, <2>2, <2>3 DEF Last, Inv, PrefixInv
  <1> QED BY <1>1, <1>2

(* A step of the writer that only moves on.                                *)
LEMMA WriterKeeps ==
  ASSUME Inv, pc \in Writing, pc' \in Writing, UNCHANGED <<at, workVars>>,
         UNCHANGED <<journal, outcome, releaseVars, envVars, mutations, displaced>>,
         FilesOK', guarded' \in [Ops -> BOOLEAN], LeafInv'
  PROVE  Inv'
  <1>1. TypeOK'
    BY DEF Inv, TypeOK, FilesOK, Writing, Steps, workVars, releaseVars, envVars
  <1>2. PlaceInv'
    BY DEF Inv, PlaceInv, Writing, Reconciling, envVars
  <1> QED BY <1>1, <1>2, QuietKeeps DEF envVars

LEMMA ProveKeeps ==
  ASSUME Inv, Prove
  PROVE  Inv'
  <1> USE DEF Prove, fileVars, historyVars
  <1>f. FilesOK'
    BY DEF Inv, TypeOK, FilesOK
  <1>1. CASE Reject(journal)
    BY <1>1, <1>f, RejectKeeps
  <1>2. CASE Go("journal")
    <2> USE <1>2 DEF Go, recordVars, releaseVars, workVars, envVars
    <2>1. TypeOK'
      BY DEF Inv, TypeOK, Steps
    <2>2. PlaceInv'
      BY DEF Inv, PlaceInv, NextOperation, Last, Writing, Reconciling
    <2>3. LeafInv'
      BY DEF LeafInv
    <2> QED BY <2>1, <2>2, <2>3, QuietKeeps
  <1> QED BY <1>1, <1>2

(* The record that opens keeps the journal a prefix.                       *)
LEMMA JournalKeeps ==
  ASSUME Inv, Journal
  PROVE  Inv'
  <1> USE DEF Journal, Go, fileVars, releaseVars, workVars, envVars, historyVars
  <1>t. /\ at \in Ops /\ journal \in [Ops -> Phases] /\ outcome \in [Ops -> Outcomes]
        /\ journal[at] = "none" /\ outcome[at] = "none" /\ mutations[at] = 0
    BY DEF Inv, TypeOK, FreshInv
  <1>p. plan \in [Ops -> Kinds]
    BY DEF Inv, PlaceInv
  <1>n. /\ journal'[at] = "mutation_started"
        /\ \A i \in Ops \ {at} : journal'[i] = journal[i]
    BY <1>t
  <1>1. TypeOK'
    <2>1. journal' \in [Ops -> Phases] /\ pc' \in Steps
      BY <1>t DEF Phases, Steps
    <2> QED BY <2>1 DEF Inv, TypeOK
  <1>2. PrefixInv'
    <2> SUFFICES ASSUME NEW i \in Ops, NEW j \in Ops, i < j, journal'[j] # "none"
                 PROVE  journal'[i] = "mutation_verified"
      BY DEF PrefixInv, Ops
    <2>1. CASE j = at
      BY <2>1, <1>t, <1>n, NextIsUnrecorded
    <2>2. CASE j # at
      <3>1. journal[j] # "none"
        BY <2>2, <1>n
      <3>2. i # at
        BY <3>1, <1>t DEF Inv, PrefixInv
      <3> QED BY <3>1, <3>2, <1>n DEF Inv, PrefixInv
    <2> QED BY <2>1, <2>2
  <1>3. FreshInv' /\ OneMutation'
    BY <1>n DEF Inv, FreshInv, OneMutation
  <1>4. WriterReplacedBaseline'
    BY <1>n DEF Inv, WriterReplacedBaseline, Before
  <1>5. OutcomeBindsJournal'
    BY <1>t, <1>n, <1>1 DEF Inv, OutcomeBindsJournal
  <1>6. PlaceInv' /\ LeafInv'
    BY <1>t, <1>p, <1>n DEF PlaceInv, LeafInv, Writing, Reconciling
  <1> QED BY <1>1, <1>2, <1>3, <1>4, <1>5, <1>6 DEF Inv

LEMMA ProveAgainKeeps ==
  ASSUME Inv, ProveAgain
  PROVE  Inv'
  <1> USE DEF fileVars, historyVars
  <1>f. FilesOK' /\ pc \in Writing
    BY DEF Inv, TypeOK, FilesOK, ProveAgain, Writing
  <1>1. CASE BlockIfPossible /\ UNCHANGED guarded
    BY <1>1, <1>f, BlockKeeps DEF ProveAgain
  <1>2. CASE ~ (BlockIfPossible /\ UNCHANGED guarded)
    <2>1. /\ guarded' = [guarded EXCEPT ![at] = TRUE] /\ UNCHANGED journal
          /\ Go(IF plan[at] = "mode_changed" THEN "chmod"
                ELSE IF plan[at] = "deleted" THEN "commit" ELSE "prepare")
      BY <1>2 DEF ProveAgain
    <2>2. guarded' \in [Ops -> BOOLEAN] /\ pc' \in Writing
      BY <2>1 DEF Inv, TypeOK, Go, Writing
    <2>3. LeafInv'
      BY <2>1, <1>f DEF ProveAgain, Go, Inv, TypeOK, PlaceInv, LeafInv, Kinds, envVars
    <2> QED BY <1>f, <2>1, <2>2, <2>3, WriterKeeps DEF ProveAgain, Go
  <1> QED BY <1>1, <1>2

LEMMA PrepareKeeps ==
  ASSUME Inv, Prepare
  PROVE  Inv'
  <1>1. CASE BlockIfPossible /\ UNCHANGED side
    <2>1. FilesOK' /\ pc \in Writing
      BY <1>1 DEF Prepare, Inv, TypeOK, FilesOK, Writing, historyVars
    <2> QED BY <1>1, <2>1, BlockKeeps DEF Prepare, historyVars
  <1>2. CASE side' = [side EXCEPT ![at] = "cand"] /\ Go("commit") /\ UNCHANGED journal
    <2> USE <1>2 DEF Prepare, Go, historyVars
    <2>1. FilesOK' /\ guarded' \in [Ops -> BOOLEAN] /\ pc \in Writing /\ pc' \in Writing
      BY DEF Inv, TypeOK, FilesOK, Contents, Writing
    <2>2. LeafInv'
      BY DEF Inv, TypeOK, LeafInv, envVars
    <2> QED BY <2>1, <2>2, WriterKeeps
  <1> QED BY <1>1, <1>2 DEF Prepare

LEMMA UnlinkedOK ==
  ASSUME TypeOK, TryUnlink, UNCHANGED live
  PROVE  FilesOK' /\ UNCHANGED <<mutations, displaced>>
  BY DEF TypeOK, TryUnlink, Unlink, FilesOK, historyVars

(* The change of the live leaf: the first of this operation, and what it   *)
(* replaces goes on record.                                                *)
LEMMA MutateKeeps ==
  ASSUME Inv, pc = "commit", NEW old \in Contents, Mutated(old), FilesOK',
         UNCHANGED <<recordVars, releaseVars, envVars>>,
         Go("clean") \/ Go("check") \/ Go("verify"),
         pc' = "check" => plan[at] \in {"modified", "deleted"} /\ side'[at] = old,
         pc' # "check" => old = Before(at)
  PROVE  Inv'
  <1> USE DEF recordVars, releaseVars, envVars, Go, workVars
  <1>t. /\ at \in Ops /\ journal[at] = "mutation_started" /\ outcome[at] = "none"
        /\ mutations[at] = 0 /\ old # "nothing"
        /\ mutations \in [Ops -> 0..2] /\ displaced \in [Ops -> Contents \cup {"nothing"}]
    BY DEF Inv, TypeOK, PlaceInv, LeafInv, Writing, Contents
  <1>p. plan \in [Ops -> Kinds]
    BY DEF Inv, PlaceInv, Writing
  <1>m. /\ mutations'[at] = 1 /\ displaced'[at] = old
        /\ \A i \in Ops \ {at} : mutations'[i] = mutations[i] /\ displaced'[i] = displaced[i]
    BY <1>t DEF Mutated
  <1>1. TypeOK'
    <2>1. mutations' \in [Ops -> 0..2] /\ displaced' \in [Ops -> Contents \cup {"nothing"}]
      BY <1>t DEF Mutated
    <2>2. pc' \in Steps
      BY DEF Steps
    <2> QED BY <2>1, <2>2 DEF Inv, TypeOK, FilesOK
  <1>2. PrefixInv' /\ OutcomeBindsJournal'
    BY <1>1 DEF Inv, PrefixInv, OutcomeBindsJournal
  <1>3. FreshInv' /\ OneMutation' /\ WriterReplacedBaseline'
    BY <1>t, <1>m DEF Inv, FreshInv, OneMutation, WriterReplacedBaseline, Before
  <1>4. PlaceInv'
    BY <1>t, <1>p DEF PlaceInv, Writing, Reconciling
  <1>5. LeafInv'
    BY <1>t, <1>m DEF LeafInv, Before
  <1> QED BY <1>1, <1>2, <1>3, <1>4, <1>5 DEF Inv

LEMMA CommitKeeps ==
  ASSUME Inv, CommitAdded \/ CommitModified \/ CommitDeleted \/ Chmod
  PROVE  Inv'
  <1>t. /\ TypeOK /\ pc = "commit" /\ pc \in Writing /\ at \in Ops /\ live[at] \in Contents
        /\ UNCHANGED <<guarded, outcome, releaseVars, envVars>>
        /\ "absent" \in Contents /\ "base" \in Contents /\ "cand" \in Contents
    BY DEF Inv, TypeOK, CommitAdded, CommitModified, CommitDeleted, Chmod, recordVars, Writing,
           Contents
  <1>f. /\ live \in [Ops -> Contents] /\ side \in [Ops -> Contents \cup {"nothing"}]
        /\ discarded \in SUBSET Contents
    BY <1>t DEF TypeOK
  <1>1. CASE CommitAdded
    <2>1. CASE live[at] # "absent"
      BY <1>1, <1>t, <2>1, UnlinkedOK, RejectKeeps DEF CommitAdded
    <2>2. CASE live[at] = "absent"
      <3>1. /\ live' = [live EXCEPT ![at] = side[at]] /\ UNCHANGED side
            /\ Mutated("absent") /\ Go("clean") /\ plan[at] = "added"
        BY <1>1, <2>2 DEF CommitAdded
      <3>2. FilesOK'
        BY <1>t, <1>f, <3>1 DEF Inv, LeafInv, FilesOK, Mutated
      <3> QED BY <1>1, <1>t, <3>1, <3>2, MutateKeeps DEF CommitAdded, Go, Before
    <2> QED BY <2>1, <2>2
  <1>2. CASE CommitModified
    <2>1. CASE live[at] = "absent"
      BY <1>2, <1>t, <2>1, UnlinkedOK, RejectKeeps DEF CommitModified
    <2>2. CASE live[at] # "absent"
      <3>1. Exchange /\ Mutated(live[at]) /\ Go("check") /\ plan[at] = "modified"
        BY <1>2, <2>2 DEF CommitModified
      <3>2. FilesOK' /\ side'[at] = live[at]
        BY <1>t, <1>f, <3>1 DEF Inv, LeafInv, FilesOK, Mutated, Exchange
      <3> QED BY <1>2, <1>t, <3>1, <3>2, MutateKeeps DEF CommitModified, Go
    <2> QED BY <2>1, <2>2
  <1>3. CASE CommitDeleted
    <2>1. CASE BlockIfPossible /\ UNCHANGED <<fileVars, historyVars>>
      BY <1>t, <1>f, <2>1, BlockKeeps DEF FilesOK, fileVars, historyVars
    <2>2. CASE ~ (BlockIfPossible /\ UNCHANGED <<fileVars, historyVars>>)
      <3>1. /\ live' = [live EXCEPT ![at] = "absent"] /\ side' = [side EXCEPT ![at] = live[at]]
            /\ Mutated(live[at]) /\ Go("check") /\ plan[at] = "deleted" /\ UNCHANGED journal
        BY <1>3, <2>2 DEF CommitDeleted
      <3>2. FilesOK' /\ side'[at] = live[at]
        BY <1>t, <1>f, <3>1 DEF FilesOK, Mutated
      <3> QED BY <1>t, <3>1, <3>2, MutateKeeps DEF Go, recordVars
    <2> QED BY <2>1, <2>2
  <1>4. CASE Chmod
    <2>1. FilesOK'
      BY <1>4, <1>t, <1>f DEF Chmod, Mutated, FilesOK, historyVars
    <2>2. CASE Mutated("base") /\ Go("verify")
      BY <1>4, <1>t, <2>1, <2>2, MutateKeeps DEF Chmod, Go, Before
    <2>3. CASE Reject(journal) /\ UNCHANGED historyVars
      BY <1>4, <1>t, <2>1, <2>3, RejectKeeps DEF Chmod, historyVars
    <2> QED BY <1>4, <2>2, <2>3 DEF Chmod
  <1> QED BY <1>1, <1>2, <1>3, <1>4

(* Only the baseline goes on to be cleaned away as replaced.               *)
LEMMA CheckKeeps ==
  ASSUME Inv, Check \/ Clean \/ ReverseModified \/ ReverseDeleted \/ Drop
  PROVE  Inv'
  <1>t. /\ TypeOK /\ pc \in Writing /\ at \in Ops
        /\ live \in [Ops -> Contents] /\ side \in [Ops -> Contents \cup {"nothing"}]
        /\ discarded \in SUBSET Contents /\ guarded \in [Ops -> BOOLEAN]
    BY DEF Inv, TypeOK, Check, Clean, ReverseModified, ReverseDeleted, Drop, Writing
  <1> USE DEF Go, fileVars, recordVars, historyVars
  <1>1. CASE Check
    <2>1. FilesOK' /\ pc' \in Writing
      BY <1>1, <1>t DEF Check, FilesOK, Writing
    <2>2. LeafInv'
      BY <1>1, <1>t DEF Check, Inv, LeafInv, Before, envVars
    <2> QED BY <1>1, <1>t, <2>1, <2>2, WriterKeeps DEF Check
  <1>2. CASE Clean
    <2>1. FilesOK' /\ UNCHANGED <<mutations, displaced>> /\ pc' \in Writing
      BY <1>2, <1>t, UnlinkedOK DEF Clean, TryUnlink, Writing
    <2>2. LeafInv'
      BY <1>2, <2>1 DEF Clean, Inv, LeafInv, Before, envVars
    <2> QED BY <1>2, <1>t, <2>1, <2>2, WriterKeeps DEF Clean
  <1>3. CASE ReverseModified
    <2>1. CASE Reject(journal) /\ UNCHANGED fileVars
      BY <1>3, <1>t, <2>1, RejectKeeps DEF ReverseModified, FilesOK
    <2>2. CASE live[at] # "absent" /\ Exchange /\ Go("drop")
      <3>1. FilesOK' /\ pc' \in Writing /\ pc' = "drop"
        BY <1>3, <1>t, <2>2 DEF ReverseModified, Exchange, FilesOK, Inv, LeafInv, Writing
      <3>2. LeafInv'
        BY <3>1 DEF LeafInv
      <3> QED BY <1>3, <1>t, <2>2, <3>1, <3>2, WriterKeeps DEF ReverseModified
    <2> QED BY <1>3, <2>1, <2>2 DEF ReverseModified
  <1>4. CASE ReverseDeleted
    <2>1. CASE Reject(journal) /\ UNCHANGED <<fileVars, journal>>
      BY <1>4, <1>t, <2>1, RejectKeeps DEF ReverseDeleted, FilesOK
    <2>2. CASE ~ (Reject(journal) /\ UNCHANGED <<fileVars, journal>>)
      <3>1. BlockIfPossible /\ FilesOK'
        BY <1>4, <1>t, <2>2 DEF ReverseDeleted, FilesOK, Inv, LeafInv
      <3> QED BY <1>4, <1>t, <3>1, BlockKeeps DEF ReverseDeleted
    <2> QED BY <2>1, <2>2
  <1>5. CASE Drop
    <2>1. FilesOK' /\ UNCHANGED <<mutations, displaced>>
      BY <1>5, <1>t, UnlinkedOK DEF Drop
    <2> QED BY <1>5, <1>t, <2>1, BlockKeeps DEF Drop
  <1> QED BY <1>1, <1>2, <1>3, <1>4, <1>5

LEMMA ReadLeafKeeps ==
  ASSUME Inv, ChmodBaseline \/ Verify
  PROVE  Inv'
  <1>t. /\ pc \in Writing /\ FilesOK' /\ guarded \in [Ops -> BOOLEAN]
        /\ UNCHANGED <<live, side, guarded, outcome, releaseVars, envVars, mutations, displaced>>
    BY DEF Inv, TypeOK, ChmodBaseline, Verify, FilesOK, fileVars, historyVars, Writing
  <1>1. CASE BlockIfPossible
    BY <1>1, <1>t, BlockKeeps
  <1>2. CASE Reject(journal) /\ UNCHANGED journal
    BY <1>2, <1>t, RejectKeeps DEF recordVars
  <1>3. CASE ChmodBaseline /\ Go("commit") /\ UNCHANGED journal
    <2>1. LeafInv' /\ pc' \in Writing
      BY <1>3, <1>t DEF ChmodBaseline, Go, Inv, LeafInv, Writing, envVars
    <2> QED BY <1>3, <1>t, <2>1, WriterKeeps DEF Go
  <1>4. CASE Verify /\ Go("record") /\ UNCHANGED journal
    <2>1. LeafInv' /\ pc' \in Writing
      BY <1>4, <1>t DEF Verify, Go, Inv, LeafInv, Before, Writing, envVars
    <2> QED BY <1>4, <1>t, <2>1, WriterKeeps DEF Go
  <1> QED BY <1>1, <1>2, <1>3, <1>4 DEF ChmodBaseline, Verify

LEMMA RecordKeeps ==
  ASSUME Inv, Record
  PROVE  Inv'
  <1> USE DEF Record, Go, fileVars, historyVars, workVars, releaseVars, envVars
  <1>1. /\ journal[at] = "mutation_started" /\ outcome[at] = "none"
        /\ displaced[at] = Before(at)
    BY DEF Inv, PlaceInv, LeafInv, Writing
  <1>2. TypeOK' /\ pc' \in Between
    <2>1. journal' \in [Ops -> Phases] /\ pc' \in Steps /\ pc' \in Between
      BY DEF Inv, TypeOK, Phases, Steps, Between
    <2> QED BY <2>1 DEF Inv, TypeOK
  <1> QED BY <1>1, <1>2, ConcludeKeeps

LEMMA RefuseKeeps ==
  ASSUME Inv, Refuse
  PROVE  Inv'
  <1>1. FilesOK' /\ UNCHANGED <<mutations, displaced>>
    BY UnlinkedOK DEF Inv, Refuse
  <1> QED BY <1>1, RejectKeeps DEF Refuse

LEMMA WriteKeeps ==
  ASSUME Inv, Write
  PROVE  Inv'
  BY ProveKeeps, JournalKeeps, ProveAgainKeeps, PrepareKeeps, CommitKeeps, CheckKeeps,
     ReadLeafKeeps, RecordKeeps, RefuseKeeps DEF Write
-----------------------------------------------------------------------------
(* The reconciler *)

LEMMA ObserveKeeps ==
  ASSUME Inv, Observe
  PROVE  Inv'
  <1> USE DEF fileVars, recordVars, releaseVars, workVars, envVars, historyVars
  <1>1. /\ pc' \in {"record_applied", "record_not_applied", "record_ambiguous"}
        /\ UNCHANGED <<at, workVars>>
        /\ UNCHANGED <<fileVars, recordVars, releaseVars, envVars, historyVars>>
    BY DEF Observe, Go
  <1>2. TypeOK'
    BY <1>1 DEF Inv, TypeOK, Steps
  <1>3. PlaceInv' /\ LeafInv'
    BY <1>1 DEF Observe, Inv, PlaceInv, LeafInv, Writing, Reconciling
  <1> QED BY <1>1, <1>2, <1>3, QuietKeeps

(* An outcome is recorded over an open record, and not changed any more.   *)
LEMMA OutcomeKeeps ==
  ASSUME Inv, NEW o \in Outcomes \ {"none"}, NEW step \in Reconciling, step # "settle",
         RecordOutcome(step, o)
  PROVE  Inv'
  <1> USE DEF fileVars, releaseVars, workVars, envVars, historyVars
  <1>t. /\ at \in Ops /\ outcome \in [Ops -> Outcomes] /\ journal[at] = "mutation_started"
        /\ UNCHANGED <<fileVars, journal, guarded, releaseVars, envVars, historyVars>>
        /\ FilesOK'
    BY DEF Inv, TypeOK, PlaceInv, RecordOutcome, FilesOK
  <1>p. plan \in [Ops -> Kinds]
    BY DEF Inv, PlaceInv, RecordOutcome
  <1>1. CASE Reject(journal) /\ UNCHANGED outcome
    BY <1>1, <1>t, RejectKeeps DEF recordVars
  <1>2. CASE outcome' = [outcome EXCEPT ![at] = o] /\ Go("settle")
    <2>1. /\ outcome'[at] = o /\ \A i \in Ops \ {at} : outcome'[i] = outcome[i]
          /\ outcome' \in [Ops -> Outcomes]
      BY <1>2, <1>t
    <2>2. TypeOK'
      BY <1>2, <1>t, <2>1 DEF Inv, TypeOK, Go, Steps
    <2>3. PrefixInv' /\ FreshInv' /\ OneMutation'
      BY <1>t, <2>1 DEF Inv, PrefixInv, FreshInv, OneMutation
    <2>4. WriterReplacedBaseline'
      BY <1>t, <2>1 DEF Inv, WriterReplacedBaseline, Before
    <2>5. OutcomeBindsJournal'
      BY <1>t, <2>1, <2>2 DEF Inv, OutcomeBindsJournal
    <2>6. PlaceInv' /\ LeafInv'
      BY <1>2, <1>t, <1>p, <2>1 DEF Go, PlaceInv, LeafInv, Writing, Reconciling
    <2> QED BY <2>2, <2>3, <2>4, <2>5, <2>6 DEF Inv
  <1> QED BY <1>1, <1>2 DEF RecordOutcome

LEMMA SettleKeeps ==
  ASSUME Inv, Settle
  PROVE  Inv'
  <1> USE DEF fileVars, releaseVars, workVars, envVars, historyVars
  <1>t. /\ TypeOK /\ at \in Ops /\ journal[at] = "mutation_started"
        /\ work \in Statuses /\ attempts \in Nat
        /\ UNCHANGED <<fileVars, guarded, outcome, releaseVars, envVars, historyVars>>
    BY DEF Inv, TypeOK, PlaceInv, Settle, Reconciling, Statuses
  <1>1. /\ work' \in Statuses /\ attempts' \in Nat /\ at' \in Ops /\ pc' \in Between
    <2>1. CASE Go("release")
      BY <1>t, <2>1 DEF Go, Between
    <2>2. CASE Fail(FALSE)
      BY <1>t, <2>2, Failed DEF Between
    <2> QED BY <2>1, <2>2 DEF Settle
  <1>2. journal' = [journal EXCEPT ![at] =
                      IF outcome[at] = "applied" THEN "mutation_verified" ELSE "blocked"]
    BY DEF Settle
  <1>3. TypeOK'
    <2>1. journal' \in [Ops -> Phases] /\ pc' \in Steps
      BY <1>t, <1>1, <1>2 DEF TypeOK, Phases, Steps, Between
    <2> QED BY <1>t, <1>1, <2>1 DEF TypeOK, Statuses
  <1>4. CASE outcome[at] = "applied"
    <2>1. journal' = [journal EXCEPT ![at] = "mutation_verified"]
      BY <1>2, <1>4
    <2> QED BY <1>t, <1>1, <1>3, <1>4, <2>1, ConcludeKeeps
  <1>5. CASE outcome[at] # "applied"
    BY <1>t, <1>1, <1>2, <1>3, <1>5, ConcludeKeeps
  <1> QED BY <1>4, <1>5

LEMMA ReconcileKeeps ==
  ASSUME Inv, Reconcile
  PROVE  Inv'
  <1>1. CASE RecordOutcome("record_applied", "applied")
    BY <1>1, OutcomeKeeps DEF Outcomes, Reconciling
  <1>2. CASE RecordOutcome("record_not_applied", "not_applied")
    BY <1>2, OutcomeKeeps DEF Outcomes, Reconciling
  <1>3. CASE RecordOutcome("record_ambiguous", "ambiguous")
    BY <1>3, OutcomeKeeps DEF Outcomes, Reconciling
  <1> QED BY <1>1, <1>2, <1>3, ObserveKeeps, SettleKeeps DEF Reconcile
-----------------------------------------------------------------------------
(* The theorems *)

LEMMA StepInv == Inv /\ [Next]_vars => Inv'
  <1> SUFFICES ASSUME Inv, [Next]_vars PROVE Inv'
    OBVIOUS
  <1>1. CASE Pass
    BY <1>1, PassKeeps, AdvanceKeeps, WriteKeeps, ReconcileKeeps DEF Pass
  <1>2. CASE Admit \/ Crash
    BY <1>2, PassKeeps
  <1>3. ASSUME NEW i \in Ops, NEW c \in Contents, Edit(i, c) PROVE Inv'
    BY <1>3, EditKeeps
  <1>4. CASE UNCHANGED vars
    <2> USE <1>4 DEF vars, fileVars, recordVars, releaseVars, workVars, threadVars, envVars,
                     historyVars
    <2>1. TypeOK'
      BY DEF Inv, TypeOK
    <2>2. PlaceInv' /\ LeafInv'
      BY DEF Inv, PlaceInv, LeafInv, NextOperation, Last, Before
    <2> QED BY <2>1, <2>2, QuietKeeps
  <1> QED BY <1>1, <1>2, <1>3, <1>4 DEF Next

LEMMA Inductive == Spec => []Inv
  BY InitInv, StepInv, PTL DEF Spec

(* live_apply_writer.py and live_apply_reconciler.py: for plans of any     *)
(* length and any number of crashes, retries and edits, no operation       *)
(* changes its leaf twice.                                                 *)
THEOREM MutatesOnce == Spec => []OneMutation
  <1>1. Inv => OneMutation
    BY DEF Inv
  <1> QED BY <1>1, Inductive, PTL

(* live_apply_writer.py: what the writer verified replaced exactly the     *)
(* authorized baseline, whatever was edited between its looks.             *)
THEOREM ReplacesBaseline == Spec => []WriterReplacedBaseline
  <1>1. Inv => WriterReplacedBaseline
    BY DEF Inv
  <1> QED BY <1>1, Inductive, PTL

(* live_apply_reconciler.py: the journal never contradicts the verdict the *)
(* reconciler stored before it (and the state is well typed).              *)
THEOREM OutcomeIsBinding == Spec => []OutcomeBindsJournal
  <1>1. Inv => OutcomeBindsJournal
    BY DEF Inv
  <1> QED BY <1>1, Inductive, PTL
-----------------------------------------------------------------------------
(* The journal implements the ordered protocol *)

Confirmed == {i \in Ops : journal[i] = "mutation_verified"}
Open == {i \in Ops : journal[i] = "mutation_started"}
Blocked == {i \in Ops : journal[i] = "blocked"}
protocolState == <<Confirmed, Open, Blocked, activation>>

(* Only two kinds of steps are seen through the mapping.                   *)
LEMMA Unseen ==
  ASSUME UNCHANGED <<journal, activation>>
  PROVE  UNCHANGED protocolState
  BY DEF protocolState, Confirmed, Open, Blocked

LEMMA BeginSeen ==
  ASSUME Inv, Journal
  PROVE  Protocol!Next
  <1>1. at \in Ops /\ journal \in [Ops -> Phases] /\ UNCHANGED activation
    BY DEF Inv, TypeOK, Journal, releaseVars
  <1>2. /\ journal'[at] = "mutation_started"
        /\ \A i \in Ops \ {at} : journal'[i] = journal[i]
    BY <1>1 DEF Journal
  <1>3. /\ \A j \in Ops : j >= at => journal[j] = "none"
        /\ \A j \in Ops : j < at => journal[j] = "mutation_verified"
    BY <1>1, NextIsUnrecorded DEF Journal
  <1>4. \A j \in Ops : journal[j] \in {"none", "mutation_verified"}
    <2>1. \A j \in Ops : j < at \/ j >= at
      BY <1>1 DEF Ops
    <2> QED BY <1>3, <2>1
  <1>5. Open = {} /\ Blocked = {} /\ at \notin Confirmed
    <2>1. Open = {}
      BY <1>4 DEF Open
    <2>2. Blocked = {}
      BY <1>4 DEF Blocked
    <2>3. at \notin Confirmed
      BY <1>1, <1>3 DEF Confirmed, Ops
    <2> QED BY <2>1, <2>2, <2>3
  <1>6. \A j \in 1..(at - 1) : j \in Confirmed
    <2>1. \A j \in 1..(at - 1) : j \in Ops /\ j < at
      BY <1>1 DEF Ops
    <2> QED BY <2>1, <1>3 DEF Confirmed
  <1>7. Open' = {at} /\ Confirmed' = Confirmed /\ Blocked' = Blocked
    <2>1. journal[at] = "none"
      BY DEF Journal
    <2>2. Open' = {at}
      BY <1>1, <1>2, <1>4 DEF Open
    <2>3. Confirmed' = Confirmed
      BY <1>1, <1>2, <2>1 DEF Confirmed
    <2>4. Blocked' = Blocked
      BY <1>1, <1>2, <2>1 DEF Blocked
    <2> QED BY <2>2, <2>3, <2>4
  <1> QED BY <1>1, <1>5, <1>6, <1>7
          DEF Protocol!Next, Protocol!Begin, Protocol!Ops, Ops, Open, Confirmed, Blocked

(* The record in hand is the only open one, and nothing is blocked.        *)
LEMMA ConcludeSeen ==
  ASSUME Inv, NEW phase \in {"mutation_verified", "blocked"},
         journal' = [journal EXCEPT ![at] = phase], journal[at] = "mutation_started",
         UNCHANGED activation
  PROVE  Protocol!Next
  <1>1. at \in Ops /\ journal \in [Ops -> Phases]
    BY DEF Inv, TypeOK
  <1>2. \A j \in Ops : j # at => journal[j] \in {"none", "mutation_verified"}
    <2> SUFFICES ASSUME NEW j \in Ops, j # at
                 PROVE  journal[j] \in {"none", "mutation_verified"}
      OBVIOUS
    <2>1. j < at \/ at < j
      BY <1>1 DEF Ops
    <2> QED BY <1>1, <2>1 DEF Inv, PrefixInv
  <1>3. journal'[at] = phase /\ \A i \in Ops \ {at} : journal'[i] = journal[i]
    BY <1>1
  <1>4. Open = {at} /\ Blocked = {} /\ Open' = {}
    BY <1>1, <1>2, <1>3 DEF Open, Blocked
  <1>5. CASE phase = "blocked"
    <2>1. Blocked' = {at} /\ Confirmed' = Confirmed
      BY <1>1, <1>2, <1>3, <1>5 DEF Blocked, Confirmed
    <2> QED BY <1>1, <1>4, <1>5, <2>1
            DEF Protocol!Next, Protocol!Halt, Protocol!Ops, Ops, Open, Confirmed, Blocked
  <1>6. CASE phase = "mutation_verified"
    <2>1. Confirmed' = Confirmed \cup {at} /\ Blocked' = Blocked
      BY <1>1, <1>2, <1>3, <1>6 DEF Confirmed, Blocked
    <2> QED BY <1>1, <1>4, <1>6, <2>1
            DEF Protocol!Next, Protocol!Confirm, Protocol!Ops, Ops, Open, Confirmed, Blocked
  <1> QED BY <1>5, <1>6

LEMMA BlockSeen ==
  ASSUME Inv, pc \in Writing, BlockIfPossible, UNCHANGED activation
  PROVE  [Protocol!Next]_protocolState
  <1>1. journal[at] = "mutation_started" /\ at \in Ops
    BY DEF Inv, PlaceInv, TypeOK
  <1>2. CASE journal' = journal
    BY <1>2, Unseen
  <1>3. CASE journal' = [journal EXCEPT ![at] = "blocked"]
    BY <1>1, <1>3, ConcludeSeen
  <1> QED BY <1>2, <1>3 DEF BlockIfPossible

LEMMA StepSeen ==
  ASSUME Inv, [Next]_vars
  PROVE  [Protocol!Next]_protocolState
  <1>1. CASE Journal
    BY <1>1, BeginSeen
  <1>2. CASE BlockIfPossible /\ pc \in Writing /\ UNCHANGED activation
    BY <1>2, BlockSeen
  <1>3. CASE Record
    <2>1. journal[at] = "mutation_started" /\ UNCHANGED activation
      BY <1>3 DEF Inv, PlaceInv, Record, Writing, releaseVars
    <2> QED BY <1>3, <2>1, ConcludeSeen DEF Record
  <1>4. CASE Settle
    <2>1. journal[at] = "mutation_started" /\ UNCHANGED activation
      BY <1>4 DEF Inv, PlaceInv, Settle, Reconciling, releaseVars
    <2>2. CASE outcome[at] = "applied"
      BY <1>4, <2>1, <2>2, ConcludeSeen DEF Settle
    <2>3. CASE outcome[at] # "applied"
      BY <1>4, <2>1, <2>3, ConcludeSeen DEF Settle
    <2> QED BY <2>2, <2>3
  <1>5. CASE Activate
    <2>1. CASE UNCHANGED activation
      BY <1>5, <2>1, Unseen DEF Activate, recordVars
    <2>2. CASE activation' = TRUE /\ \A i \in Ops : journal[i] = "mutation_verified"
      <3>1. Confirmed = Protocol!Ops
        BY <2>2 DEF Confirmed, Protocol!Ops, Ops
      <3>2. UNCHANGED <<Confirmed, Open, Blocked>>
        BY <1>5 DEF Activate, recordVars, Confirmed, Open, Blocked
      <3>3. Protocol!Release
        BY <2>2, <3>1, <3>2 DEF Protocol!Release, Confirmed, Open, Blocked
      <3> QED BY <3>3 DEF Protocol!Next
    <2> QED BY <1>5, <2>1, <2>2 DEF Activate
  <1>6. CASE UNCHANGED <<journal, activation>>
    BY <1>6, Unseen
  <1>7. CASE Write
    <2>1. \/ Journal \/ Record \/ UNCHANGED <<journal, activation>>
          \/ BlockIfPossible /\ pc \in Writing /\ UNCHANGED activation
      <3> USE DEF recordVars, releaseVars, Writing
      <3>1. CASE Prove \/ Prepare \/ Check \/ Clean \/ ReverseModified \/ Refuse
        BY <3>1 DEF Prove, Prepare, Check, Clean, ReverseModified, Refuse
      <3>2. CASE CommitAdded \/ CommitModified \/ Chmod
        BY <3>2 DEF CommitAdded, CommitModified, Chmod
      <3>3. CASE CommitDeleted \/ ReverseDeleted
        BY <3>3 DEF CommitDeleted, ReverseDeleted
      <3>4. CASE ProveAgain \/ Drop \/ ChmodBaseline \/ Verify
        BY <3>4 DEF ProveAgain, Drop, ChmodBaseline, Verify
      <3> QED BY <1>7, <3>1, <3>2, <3>3, <3>4 DEF Write
    <2> QED BY <2>1, <1>1, <1>2, <1>3, <1>6
  <1>8. CASE Reconcile
    <2>1. Settle \/ UNCHANGED <<journal, activation>>
      BY <1>8 DEF Reconcile, Observe, RecordOutcome, recordVars, releaseVars
    <2> QED BY <2>1, <1>4, <1>6
  <1>9. CASE Next /\ ~ (Write \/ Reconcile \/ Activate)
    <2>1. UNCHANGED <<journal, activation>>
      BY <1>9 DEF Next, Pass, Admit, Claim, Reprove, Advance, Release, EnqueueRestart, Complete,
                  Crash, Edit, recordVars, releaseVars
    <2> QED BY <2>1, <1>6
  <1>10. CASE UNCHANGED vars
    BY <1>10, <1>6 DEF vars, recordVars, releaseVars
  <1> QED BY <1>5, <1>7, <1>8, <1>9, <1>10

(* live_apply_controller.py: the journal implements ApplyProtocol.  For    *)
(* plans of any length, operations begin in plan order, one at a time and  *)
(* once each, a halt is for ever, and the restart is released only after   *)
(* every operation is confirmed.                                           *)
THEOREM ImplementsProtocol == Spec => ProtocolSpec
  <1>1. Init => Protocol!Init
    BY DEF Init, Protocol!Init
  <1>2. Inv /\ [Next]_vars => [Protocol!Next]_protocolState
    BY StepSeen
  <1> QED BY <1>1, <1>2, Inductive, PTL
          DEF Spec, ProtocolSpec, Protocol!Spec, Protocol!protocolVars, protocolState,
              Confirmed, Open, Blocked

-----------------------------------------------------------------------------
(* What the refinement gives to a reader of the journal.                   *)

(* The restart is released only over a verified plan, and the plan stays   *)
(* verified, because no step of the protocol leaves a confirmed operation. *)
ReleasedInv == activation => \A i \in Ops : journal[i] = "mutation_verified"

LEMMA ReleasedKeeps ==
  ASSUME Inv, ReleasedInv, [Next]_vars
  PROVE  ReleasedInv'
  <1>1. Protocol!Next \/ UNCHANGED protocolState
    BY StepSeen
  <1>2. ReleasedInv <=> (activation => Confirmed = Ops)
    BY DEF ReleasedInv, Confirmed
  <1>3. ReleasedInv' <=> (activation' => Confirmed' = Ops)
    BY DEF ReleasedInv, Confirmed
  <1>4. Open \cap Confirmed = {} /\ Open \subseteq Ops
    BY DEF Open, Confirmed
  <1>5. CASE UNCHANGED protocolState
    BY <1>2, <1>3, <1>5 DEF protocolState
  <1>6. CASE Protocol!Release
    BY <1>3, <1>6 DEF Protocol!Release, Protocol!Ops, Ops, Confirmed
  <1>7. ASSUME NEW i \in Ops, Protocol!Begin(i) \/ Protocol!Confirm(i) \/ Protocol!Halt(i)
        PROVE  ReleasedInv'
    <2>1. activation' = activation
      BY <1>7 DEF Protocol!Begin, Protocol!Confirm, Protocol!Halt
    <2>2. CASE Protocol!Begin(i)
      <3>1. i \notin Confirmed
        BY <2>2 DEF Protocol!Begin, Confirmed
      <3> QED BY <1>2, <1>3, <2>1, <3>1
    <2>3. CASE Protocol!Confirm(i) \/ Protocol!Halt(i)
      <3>1. i \in Open
        BY <2>3 DEF Protocol!Confirm, Protocol!Halt, Open
      <3>2. Confirmed # Ops
        BY <3>1, <1>4
      <3> QED BY <1>2, <1>3, <2>1, <3>2
    <2> QED BY <1>7, <2>2, <2>3
  <1> QED BY <1>1, <1>5, <1>6, <1>7 DEF Protocol!Next, Protocol!Ops, Ops

(* The release, the restart work and the verdict are three transactions:   *)
(* each is only there behind the one before, wherever a crash falls.       *)
TailInv ==
  /\ pc = "enqueue" => activation
  /\ pc = "complete" => restart \/ Empty
  /\ restart => activation
  /\ work = "succeeded" => restart \/ Empty
  /\ Empty => ~ activation

(* An empty plan is never handed to the writer or the reconciler.          *)
EmptyInv == Empty => \A i \in Ops : journal[i] = "none"

(* All other steps leave the tail alone.                                   *)
Elsewhere ==
  /\ UNCHANGED <<plan, activation, restart>>
  /\ pc' = pc \/ pc' \notin {"enqueue", "complete"}
  /\ work' = work \/ work' # "succeeded"

LEMMA ElsewhereKeeps ==
  ASSUME TailInv, Elsewhere
  PROVE  TailInv'
  BY DEF TailInv, Elsewhere, Empty

LEMMA WriteElsewhere ==
  ASSUME Write
  PROVE  Elsewhere
  <1> USE DEF Elsewhere, releaseVars, workVars, envVars, Go
  <1>1. CASE Prove \/ Journal \/ ProveAgain \/ Prepare
    BY <1>1 DEF Prove, Journal, ProveAgain, Prepare, BlockIfPossible, Reject, Fail
  <1>2. CASE CommitAdded \/ CommitModified \/ CommitDeleted
    BY <1>2 DEF CommitAdded, CommitModified, CommitDeleted, BlockIfPossible, Reject, Fail
  <1>3. CASE Check \/ ReverseModified \/ Drop \/ ReverseDeleted \/ Clean
    BY <1>3 DEF Check, ReverseModified, Drop, ReverseDeleted, Clean, BlockIfPossible, Reject, Fail
  <1>4. CASE ChmodBaseline \/ Chmod \/ Verify \/ Record \/ Refuse
    BY <1>4 DEF ChmodBaseline, Chmod, Verify, Record, Refuse, BlockIfPossible, Reject, Fail
  <1> QED BY <1>1, <1>2, <1>3, <1>4 DEF Write

LEMMA TailKeeps ==
  ASSUME TailInv, [Next]_vars
  PROVE  TailInv'
  <1>1. CASE Write
    BY <1>1, WriteElsewhere, ElsewhereKeeps
  <1>2. CASE Reconcile
    <2>1. Elsewhere
      BY <1>2 DEF Reconcile, Observe, RecordOutcome, Settle, Reject, Fail, Go, Elsewhere,
                  releaseVars, workVars, envVars
    <2> QED BY <2>1, ElsewhereKeeps
  <1>3. CASE Admit \/ Claim \/ Reprove \/ Advance \/ Release
    <2>1. Elsewhere
      BY <1>3 DEF Admit, Claim, Reprove, Advance, Release, Reject, Fail, Go, Elsewhere,
                  releaseVars, workVars, threadVars, envVars
    <2> QED BY <2>1, ElsewhereKeeps
  <1>4. CASE Crash \/ (\E i \in Ops, c \in Contents : Edit(i, c)) \/ UNCHANGED vars
    <2>1. Elsewhere
      BY <1>4 DEF Crash, Edit, vars, Elsewhere, releaseVars, workVars, threadVars, envVars
    <2> QED BY <2>1, ElsewhereKeeps
  <1>e. Activate \/ EnqueueRestart \/ Complete => Empty' = Empty
    BY DEF Activate, EnqueueRestart, Complete, envVars, Empty
  <1>5. CASE Activate
    BY <1>5, <1>e DEF Activate, Fail, Go, TailInv, workVars
  <1>6. CASE EnqueueRestart
    <2>1. CASE restart' = TRUE /\ Go("complete")
      BY <1>6, <2>1, <1>e DEF EnqueueRestart, Go, TailInv, workVars
    <2>2. CASE Fail(FALSE) /\ UNCHANGED restart
      BY <1>6, <2>2, <1>e DEF EnqueueRestart, Fail, TailInv
    <2> QED BY <1>6, <2>1, <2>2 DEF EnqueueRestart
  <1>7. CASE Complete
    <2>1. CASE work' = "succeeded" /\ pc' = "idle" /\ UNCHANGED <<attempts, at>>
      BY <1>7, <2>1, <1>e DEF Complete, TailInv, releaseVars
    <2>2. CASE Fail(FALSE)
      BY <1>7, <2>2, <1>e DEF Complete, Fail, TailInv, releaseVars
    <2> QED BY <1>7, <2>1, <2>2 DEF Complete
  <1> QED BY <1>1, <1>2, <1>3, <1>4, <1>5, <1>6, <1>7 DEF Next, Pass

LEMMA EmptyKeeps ==
  ASSUME Inv, EmptyInv, [Next]_vars
  PROVE  EmptyInv'
  <1>1. CASE Write \/ Reconcile
    <2>1. pc \in {"prove", "journal"} \cup Writing \cup Reconciling
      <3>1. CASE Write
        BY <3>1 DEF Write, Prove, Journal, ProveAgain, Prepare, CommitAdded, CommitModified,
                    CommitDeleted, Check, ReverseModified, Drop, ReverseDeleted, Clean,
                    ChmodBaseline, Chmod, Verify, Record, Refuse, Writing
      <3>2. CASE Reconcile
        BY <3>2 DEF Reconcile, Observe, RecordOutcome, Settle, Reconciling
      <3> QED BY <1>1, <3>1, <3>2
    <2>2. plan' = plan
      BY <1>1, WriteElsewhere
         DEF Elsewhere, Reconcile, Observe, RecordOutcome, Settle, envVars
    <2>3. ~ Empty'
      BY <2>1, <2>2 DEF Inv, PlaceInv, Empty, Ops
    <2> QED BY <2>3 DEF EmptyInv
  <1>2. CASE ~ (Write \/ Reconcile)
    <2>1. UNCHANGED <<plan, journal>>
      BY <1>2 DEF Next, Pass, Admit, Claim, Reprove, Advance, Release, Activate, EnqueueRestart,
                  Complete, Crash, Edit, vars, recordVars, envVars
    <2> QED BY <2>1 DEF EmptyInv, Empty
  <1> QED BY <1>1, <1>2

LEMMA TailAlways == Spec => [](ReleasedInv /\ TailInv /\ EmptyInv)
  <1>1. Init => ReleasedInv /\ TailInv /\ EmptyInv
    BY DEF Init, ReleasedInv, TailInv, EmptyInv
  <1>2. Inv /\ ReleasedInv /\ [Next]_vars => ReleasedInv'
    BY ReleasedKeeps
  <1>3. TailInv /\ [Next]_vars => TailInv'
    BY TailKeeps
  <1>4. Inv /\ EmptyInv /\ [Next]_vars => EmptyInv'
    BY EmptyKeeps
  <1> QED BY <1>1, <1>2, <1>3, <1>4, Inductive, PTL DEF Spec

(* live_apply_controller.py: for plans of any length and any crashes, a    *)
(* success is a success of the whole chain.                                *)
LEMMA SucceedsWhole == Spec => []SuccessIsWhole
  <1>1. ReleasedInv /\ TailInv => SuccessIsWhole
    BY DEF ReleasedInv, TailInv, SuccessIsWhole
  <1> QED BY <1>1, TailAlways, PTL

(* live_apply_controller.py: for plans of any length, where an Apply halts *)
(* is where its effects end.                                               *)
LEMMA HaltsExactly == Spec => []HaltIsExact
  <1>1. Inv /\ ReleasedInv /\ TailInv /\ EmptyInv => HaltIsExact
    <2> SUFFICES ASSUME Inv, ReleasedInv, TailInv, EmptyInv, NEW i \in Ops, journal[i] = "blocked"
                 PROVE  /\ ~ activation /\ ~ restart /\ work # "succeeded"
                        /\ \A j \in Ops : j < i => journal[j] = "mutation_verified"
                        /\ \A j \in Ops : i < j => journal[j] = "none" /\ mutations[j] = 0
      BY DEF HaltIsExact
    <2>1. ~ activation /\ ~ restart /\ work # "succeeded"
      BY DEF ReleasedInv, TailInv, EmptyInv
    <2>2. \A j \in Ops : j < i => journal[j] = "mutation_verified"
      BY DEF Inv, PrefixInv
    <2>3. \A j \in Ops : i < j => journal[j] = "none"
      BY DEF Inv, PrefixInv
    <2>4. \A j \in Ops : i < j => mutations[j] = 0
      BY <2>3 DEF Inv, FreshInv
    <2> QED BY <2>1, <2>2, <2>3, <2>4
  <1> QED BY <1>1, Inductive, TailAlways, PTL

(* candidate_apply_execution.py and live_apply_controller.py: for plans of *)
(* any length and any crashes, edits and failures, an Apply that halted    *)
(* stopped exactly at its journal's halt and released nothing, one that    *)
(* succeeded over a plan with operations verified everything and scheduled *)
(* the restart, and an empty plan released nothing at all.                 *)
THEOREM EndsExactly == Spec => []EndIsExact
  <1>1. HaltIsExact /\ SuccessIsWhole => EndIsExact
    BY DEF EndIsExact
  <1> QED BY <1>1, HaltsExactly, SucceedsWhole, PTL
=============================================================================

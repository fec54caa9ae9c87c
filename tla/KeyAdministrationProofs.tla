---------------------- MODULE KeyAdministrationProofs ----------------------
(* Proofs about the operator's control plane over the deploy key, for any  *)
(* operators, requests, key generations and bounds.                        *)
EXTENDS KeyAdministration, FiniteSetTheorems, TLAPS

USE KeyAdministrationAssumption, NamesAssumption

-----------------------------------------------------------------------------
(* The inductive invariant *)

Single(S) == \A x, y \in S : x = y

(* The record against the directories, in every phase.                     *)
RotationOK(r) ==
  /\ r.candidate # r.original
  /\ r.phase = "preparing" => r.candidate = None
  /\ r.phase \in {"preparing", "prepared", "verified", "blocked"} =>
       keys["active"] = r.original /\ keys["retained"] = None /\ journal["active"] = None
  /\ r.phase \in {"prepared", "verified", "activating", "activated"} =>
       r.candidate # None /\ journal["candidate"] = None
  /\ r.phase \in {"prepared", "verified"} => keys["candidate"] = r.candidate
  /\ r.phase \in {"verified", "activating", "activated"} => r.candidate \in enrolled
  /\ r.phase = "activating" =>
       /\ journal["active"] \notin {r.original, r.candidate}
       /\ \/ Layout \in {Before(r), After(r)}
          \/ (keys["candidate"] = r.candidate /\ keys["retained"] = r.original)
  /\ r.phase = "activated" => Layout = After(r)

(* No generation is in two places.                                         *)
KeyInv ==
  /\ keys \in [Directories -> Generations \cup {None}]
  /\ journal \in [Directories -> Generations \cup {None}]
  /\ enrolled \subseteq Generations /\ faults \in 0..MaxFaults
  /\ \A d, e \in Directories : d # e /\ keys[d] # None => keys[d] # keys[e]
  /\ journal["retained"] = None
  /\ record \subseteq Rotation /\ Single(record)
  /\ \A r \in record : RotationOK(r)

Refs == [main : Commits \cup {NoCommit, ForeignCommit}, others : BOOLEAN]

(* What GitHub took of ours is on main; the baseline is that commit.       *)
Landing ==
  /\ source \in Contents /\ remote \in Refs /\ foreign \in 0..MaxForeign
  /\ landed = (IF remote.main \in Commits THEN {remote.main} ELSE {})

RepoInv ==
  /\ Landing /\ baseline \subseteq landed
  /\ \A c \in baseline : c.request \in DOMAIN execution
  /\ authority \in [DOMAIN authority -> Authority] /\ DOMAIN authority \subseteq Requests
  /\ execution \in [DOMAIN execution -> Execution] /\ DOMAIN execution \subseteq DOMAIN authority
  /\ \A r \in DOMAIN execution :
       /\ authority[r].phase = IF execution[r].phase \in {"completed", "blocked"}
                               THEN execution[r].phase ELSE "authorized"
       /\ (execution[r].phase = "completed") <=> (\E c \in baseline : c.request = r)

Results == {None, "done", "blocked", "transient", "failed"}
Publishing == {"recover", "capture", "reread", "publish", "push", "confirm"}

(* The job is one the operator asked for and the receipt does not settle.  *)
JobInv ==
  /\ job \in [step : JobSteps \cup {"idle"}, action : Actions \cup {LibraryCall, None},
              request : Requests \cup {None}, result : Results,
              proof : [key : Generations \cup {None}, refs : Refs]]
  /\ plan \in Plans /\ crashes \in 0..MaxCrashes
  /\ IF job.step = "idle" THEN job = NoJob ELSE <<job.request, job.action>> \in plan
  /\ job.step # "idle" /\ Key \in DOMAIN receipts =>
       receipts[Key].status = "retry"

(* What holds at the steps of key generation and rotation.                 *)
KeyJob ==
  /\ job.step \in {"ensure", "keygen", "clear"} => job.action \in {"generate", "rotate_prepare"}
  /\ job.step = "stage" => job.action = "rotate_prepare"
  /\ job.step \in {"ensure", "keygen", "clear", "stage"} /\ job.action = "rotate_prepare" =>
       \E r \in record : r.phase = "preparing" /\ r.request = job.request
  /\ job.step = "keygen" => /\ keys[Target] = None /\ journal[Target] # None
                            /\ \A d \in Directories : keys[d] # journal[Target]
  /\ job.step = "clear" => keys[Target] # None /\ keys[Target] = journal[Target]
  /\ job.step = "stage" => keys["candidate"] # None /\ journal["candidate"] = None
  /\ job.step = "rename" =>
       /\ job.action = "rotate_activate"
       /\ \E r \in record : r.phase = "activating" /\ r.request = job.request

(* What holds at the steps of an initialization.                           *)
RepoJob ==
  /\ job.step \in {"authorize", "execute"} \cup Publishing =>
       job.action \in {"initialize", LibraryCall}
  /\ job.step = "authorize" => job.proof.key # None
  /\ job.step \in {"execute"} \cup Publishing => job.request \in DOMAIN authority
  /\ job.step \in Publishing =>
       /\ authority[job.request].phase = "authorized"
       /\ job.step # "capture" => job.request \in DOMAIN execution
       /\ job.request \in DOMAIN execution =>
            execution[job.request].phase \notin {"completed", "blocked"}

(* What an action that answered "done" has reached, with the key its       *)
(* receipt shows.                                                          *)
Reached(request, action, key) ==
  /\ action = "generate" => key # None /\ \E d \in Directories : keys[d] = key
  /\ action = "test" => key \in enrolled
  /\ action = "initialize" =>
       /\ request \in DOMAIN authority /\ authority[request].phase = "completed"
       /\ \E c \in baseline : c.request = request
  /\ action \in Rotations =>
       \E r \in record :
         /\ r.request = request /\ r.candidate = key /\ key # None
         /\ action = "rotate_verify" => r.candidate \in enrolled
         /\ action = "rotate_activate" => r.phase = "activated"

(* Why an activation may have been given up.                               *)
Excused(r) == \/ faults > 0
              \/ keys["active"] \notin {r.original, r.candidate, None}
              \/ journal["active"] # None

AnswerInv ==
  job.step = "answer" =>
    /\ job.result # None
    /\ job.result = "done" => Reached(job.request, job.action, Shown)
    /\ job.action = "rotate_activate" /\ job.result # "done" =>
         \A r \in record : r.request = job.request /\ r.phase = "activating" => Excused(r)

ReceiptInv ==
  /\ receipts \in [DOMAIN receipts -> Receipt] /\ DOMAIN receipts \subseteq Requests \X Actions
  /\ \A k \in DOMAIN receipts :
       /\ receipts[k].status = "retry" => receipts[k].attempts < MaxAttempts
       /\ receipts[k].status = "completed" => Reached(k[1], k[2], receipts[k].key)
       /\ k[2] = "rotate_activate" /\ receipts[k].status = "blocked" =>
            \A r \in record : r.request = k[1] /\ r.phase = "activating" => Excused(r)

Inv == KeyInv /\ RepoInv /\ JobInv /\ KeyJob /\ RepoJob /\ AnswerInv /\ ReceiptInv

-----------------------------------------------------------------------------
(* What the definitions mean *)

LEMMA NameFacts ==
  /\ None \notin Generations
  /\ Commits \cap {NoCommit, ForeignCommit} = {} /\ NoCommit # ForeignCommit
  /\ \A q \in Requests, c \in Contents : Commit(q, c) \in Commits
  <1>1. /\ NoCommit.request = None /\ ForeignCommit.request = "foreign"
        /\ \A c \in Commits : c.request \in Requests
    BY DEF Commits, Commit, NoCommit, ForeignCommit
  <1>2. NoCommit # ForeignCommit
    BY <1>1 DEF None
  <1>3. \A q \in Requests, c \in Contents : Commit(q, c) \in Commits
    BY DEF Commits, Commit
  <1> QED BY <1>1, <1>2, <1>3

LEMMA SingleIsSmall ==
  ASSUME NEW S, Single(S)
  PROVE  IsFiniteSet(S) /\ Cardinality(S) <= 1
  <1>1. CASE S = {}
    BY <1>1, FS_EmptySet
  <1>2. ASSUME NEW x \in S PROVE IsFiniteSet(S) /\ Cardinality(S) <= 1
    <2>1. S = {x}
      BY <1>2 DEF Single
    <2>2. IsFiniteSet({x}) /\ Cardinality({x}) = 1
      BY FS_Singleton
    <2>3. Cardinality({x}) <= 1
      BY <2>2
    <2> QED BY <2>1, <2>2, <2>3
  <1> QED BY <1>1, <1>2

LEMMA LayoutFacts ==
  ASSUME NEW r
  PROVE  /\ Layout = Before(r) <=> /\ keys["active"] = r.original
                                   /\ keys["candidate"] = r.candidate /\ keys["retained"] = None
         /\ Layout = Between(r) <=> /\ keys["active"] = None
                                    /\ keys["candidate"] = r.candidate
                                    /\ keys["retained"] = r.original
         /\ Layout = After(r) <=> /\ keys["active"] = r.candidate
                                  /\ keys["candidate"] = None /\ keys["retained"] = r.original
  BY DEF Layout, Before, Between, After

LEMMA InitInv == Init => Inv
  <1> SUFFICES ASSUME Init PROVE Inv
    OBVIOUS
  <1> USE DEF Init, KeyInit, RepoInit
  <1>1. KeyInv
    BY DEF KeyInv, Single, Directories
  <1>2. RepoInv
    <2>1. /\ authority = [k \in {} |-> None] /\ DOMAIN authority = {}
          /\ execution = [k \in {} |-> None] /\ DOMAIN execution = {}
      OBVIOUS
    <2>2. remote.main = NoCommit /\ remote \in Refs
      BY DEF Empty, Refs
    <2>3. remote.main \notin Commits
      BY <2>2, NameFacts
    <2> QED BY <2>1, <2>2, <2>3 DEF RepoInv, Landing
  <1>3. JobInv /\ KeyJob /\ RepoJob /\ AnswerInv
    <2>1. NoProof \in [key : Generations \cup {None}, refs : Refs]
      BY DEF NoProof, Empty, Refs
    <2>2. job.step = "idle"
      BY DEF NoJob
    <2>3. JobInv
      BY <2>1 DEF JobInv, NoJob, Results
    <2> QED BY <2>2, <2>3 DEF KeyJob, RepoJob, Publishing, AnswerInv
  <1>4. ReceiptInv
    <2>1. receipts = [k \in {} |-> None] /\ DOMAIN receipts = {}
      OBVIOUS
    <2> QED BY <2>1 DEF ReceiptInv
  <1> QED BY <1>1, <1>2, <1>3, <1>4 DEF Inv
-----------------------------------------------------------------------------
(* What several steps share *)

(* The job goes on, or answers.                                            *)
Moves(step, result) == job' = [job EXCEPT !.step = step, !.result = result]

LEMMA JobMoves ==
  ASSUME JobInv, job.step # "idle", NEW step \in JobSteps, NEW result \in Results,
         Moves(step, result), UNCHANGED <<plan, crashes, receipts>>
  PROVE  /\ JobInv' /\ job'.step = step /\ job'.result = result
         /\ job'.action = job.action /\ job'.request = job.request /\ job'.proof = job.proof
         /\ Target' = Target
         /\ job.request \in Requests /\ job.action \in Actions \cup {LibraryCall}
  <1>1. /\ job'.step = step /\ job'.result = result
        /\ job'.action = job.action /\ job'.request = job.request /\ job'.proof = job.proof
        /\ job' \in [step : JobSteps \cup {"idle"}, action : Actions \cup {LibraryCall, None},
                     request : Requests \cup {None}, result : Results,
                     proof : [key : Generations \cup {None}, refs : Refs]]
    BY DEF JobInv, Moves
  <1>2. step # "idle"
    BY DEF JobSteps
  <1>3. JobInv'
    BY <1>1, <1>2 DEF JobInv, Key
  <1>4. job.request \in Requests /\ job.action \in Actions \cup {LibraryCall}
    BY DEF JobInv
  <1> QED BY <1>1, <1>3, <1>4 DEF Target, Asks

LEMMA GoMoves ==
  ASSUME JobInv, NEW step, Go(step)
  PROVE  Moves(step, job.result) /\ job.result \in Results
  BY DEF JobInv, Go, Moves

LEMMA AnswerMoves ==
  ASSUME JobInv, NEW result, Answer(result)
  PROVE  Moves("answer", result)
  BY DEF JobInv, Answer, Moves

(* What is promised of a receipt stays true.                               *)
KeysKept == \A d \in Directories : keys[d] # None => \E e \in Directories : keys'[e] = keys[d]

RecordKept ==
  \A r \in record : \E q \in record' :
    /\ q.request = r.request
    /\ r.candidate # None => q.candidate = r.candidate
    /\ r.phase = "activated" => q.phase = "activated"

AuthorityKept ==
  \A q \in DOMAIN authority :
    /\ q \in DOMAIN authority'
    /\ authority[q].phase = "completed" => authority'[q].phase = "completed"

LEMMA ReachedKept ==
  ASSUME KeysKept, RecordKept, AuthorityKept, baseline \subseteq baseline',
         enrolled \subseteq enrolled',
         NEW request, NEW action, NEW key, Reached(request, action, key)
  PROVE  Reached(request, action, key)'
  <1>1. action = "generate" => key # None /\ \E d \in Directories : keys'[d] = key
    BY DEF Reached, KeysKept
  <1>2. action = "test" => key \in enrolled'
    BY DEF Reached
  <1>3. action = "initialize" =>
          /\ request \in DOMAIN authority' /\ authority'[request].phase = "completed"
          /\ \E c \in baseline' : c.request = request
    BY DEF Reached, AuthorityKept
  <1>4. ASSUME action \in Rotations
        PROVE  \E r \in record' :
                 /\ r.request = request /\ r.candidate = key /\ key # None
                 /\ action = "rotate_verify" => r.candidate \in enrolled'
                 /\ action = "rotate_activate" => r.phase = "activated"
    BY <1>4 DEF Reached, RecordKept
  <1> QED BY <1>1, <1>2, <1>3, <1>4 DEF Reached

(* An excuse is not taken back.                                            *)
ExcusesKept ==
  \A r \in record' : r.phase = "activating" =>
    \/ Excused(r)'
    \/ (r \in record /\ ~Excused(r))
    \/ <<r.request, "rotate_activate">> \notin DOMAIN receipts
    \/ receipts[<<r.request, "rotate_activate">>].status # "blocked"

LEMMA ReceiptsKept ==
  ASSUME Inv, UNCHANGED receipts, KeysKept, RecordKept, AuthorityKept,
         baseline \subseteq baseline', enrolled \subseteq enrolled', ExcusesKept
  PROVE  ReceiptInv'
  <1>1. ASSUME NEW k \in DOMAIN receipts, receipts[k].status = "completed"
        PROVE  Reached(k[1], k[2], receipts[k].key)'
    <2>1. Reached(k[1], k[2], receipts[k].key)
      BY <1>1 DEF Inv, ReceiptInv
    <2>2. \A x : x = receipts[k].key => Reached(k[1], k[2], x)'
      BY <2>1, ReachedKept
    <2> QED BY <2>2 DEF Reached
  <1>2. ASSUME NEW k \in DOMAIN receipts, k[2] = "rotate_activate", receipts[k].status = "blocked",
               NEW r \in record', r.request = k[1], r.phase = "activating"
        PROVE  Excused(r)'
    <2>1. k = <<r.request, "rotate_activate">>
      BY <1>2 DEF Inv, ReceiptInv
    <2>2. r \in record => Excused(r)
      BY <1>2 DEF Inv, ReceiptInv
    <2> QED BY <1>2, <2>1, <2>2 DEF ExcusesKept
  <1> QED BY <1>1, <1>2 DEF Inv, ReceiptInv

(* A step of the key or of its rotation, taken together.                   *)
NextKeySteps == {"ensure", "keygen", "clear", "stage", "rename", "answer"}

LEMMA KeyFrame ==
  ASSUME Inv, job.step # "idle", NEW step \in NextKeySteps, NEW result \in Results,
         Moves(step, result), UNCHANGED <<repoVars, adminVars>>,
         KeyInv', KeyJob', AnswerInv', KeysKept, RecordKept, ExcusesKept,
         enrolled \subseteq enrolled'
  PROVE  Inv'
  <1>1. JobInv' /\ job'.step = step
    BY JobMoves DEF Inv, NextKeySteps, JobSteps, adminVars
  <1>2. RepoInv' /\ AuthorityKept /\ baseline \subseteq baseline'
    BY DEF Inv, RepoInv, Landing, repoVars, AuthorityKept
  <1>3. RepoJob'
    BY <1>1 DEF RepoJob, Publishing, NextKeySteps
  <1>4. ReceiptInv'
    BY <1>2, ReceiptsKept DEF adminVars
  <1> QED BY <1>1, <1>2, <1>3, <1>4 DEF Inv

(* The same, when the action gives up.                                     *)
LEMMA KeyFails ==
  ASSUME Inv, job.step # "idle", NEW result \in {"failed", "transient"}, Answer(result),
         UNCHANGED <<repoVars, adminVars>>, KeyInv', KeysKept, RecordKept, ExcusesKept,
         enrolled \subseteq enrolled',
         job.action = "rotate_activate" =>
           \A r \in record' : r.request = job.request /\ r.phase = "activating" => Excused(r)'
  PROVE  Inv'
  <1>1. /\ Moves("answer", result) /\ result \in Results /\ job'.step = "answer"
        /\ job'.result = result /\ job'.action = job.action /\ job'.request = job.request
    BY AnswerMoves, JobMoves DEF Inv, Results, JobSteps, adminVars
  <1>2. KeyJob'
    BY <1>1 DEF KeyJob
  <1>3. AnswerInv'
    BY <1>1 DEF AnswerInv, None
  <1> QED BY <1>1, <1>2, <1>3, KeyFrame DEF NextKeySteps

(* The action is done.                                                     *)
LEMMA KeyDone ==
  ASSUME Inv, job.step # "idle", Answer("done"),
         UNCHANGED <<repoVars, adminVars>>, KeyInv', KeysKept, RecordKept, ExcusesKept,
         enrolled \subseteq enrolled', Reached(job.request, job.action, Shown)'
  PROVE  Inv'
  <1>1. /\ Moves("answer", "done") /\ "done" \in Results /\ job'.step = "answer"
        /\ job'.result = "done"
    BY AnswerMoves, JobMoves DEF Inv, Results, JobSteps, adminVars
  <1>2. KeyJob'
    BY <1>1 DEF KeyJob
  <1>3. AnswerInv'
    BY <1>1 DEF AnswerInv, None
  <1> QED BY <1>1, <1>2, <1>3, KeyFrame DEF NextKeySteps

LEMMA KeyTypes ==
  ASSUME KeyInv
  PROVE  /\ keys["active"] \in Generations \cup {None}
         /\ keys["candidate"] \in Generations \cup {None}
         /\ keys["retained"] \in Generations \cup {None}
         /\ journal["active"] \in Generations \cup {None}
         /\ journal["candidate"] \in Generations \cup {None}
         /\ journal["retained"] = None
         /\ \A r \in record : /\ r \in Rotation /\ RotationOK(r) /\ record = {r}
                              /\ r.request \in Requests /\ r.original \in Generations
                              /\ r.candidate \in Generations \cup {None} /\ r.phase \in Phases
  BY DEF KeyInv, Directories, Rotation, Single

LEMMA ExcusesFrame ==
  ASSUME UNCHANGED <<keys, journal>>, faults \in Nat, faults' \in Nat, faults <= faults',
         \A r \in record' : r.phase = "activating" =>
           \/ r \in record
           \/ <<r.request, "rotate_activate">> \notin DOMAIN receipts
           \/ receipts[<<r.request, "rotate_activate">>].status # "blocked"
  PROVE  ExcusesKept
  <1>1. \A r : Excused(r) => Excused(r)'
    BY DEF Excused
  <1> QED BY <1>1 DEF ExcusesKept

LEMMA NothingMoves ==
  ASSUME UNCHANGED <<keys, record>>
  PROVE  KeysKept /\ RecordKept
  BY DEF KeysKept, RecordKept

-----------------------------------------------------------------------------
(* The generation of a key *)

(* What a step of the generation leaves of the directories and journals,   *)
(* however it ends.                                                        *)
FilesKept ==
  /\ keys' \in [Directories -> Generations \cup {None}]
  /\ journal' \in [Directories -> Generations \cup {None}]
  /\ \A d, e \in Directories : d # e /\ keys'[d] # None => keys'[d] # keys'[e]
  /\ journal'["retained"] = None
  /\ KeysKept
  /\ \A r \in record : /\ RotationOK(r)'
                       /\ r.phase = "activating" /\ Excused(r) => Excused(r)'

LEMMA FilesStay ==
  ASSUME Inv, UNCHANGED <<keys, journal, enrolled>>, faults' \in {faults, faults + 1}
  PROVE  FilesKept
  <1>1. faults \in Nat
    BY DEF Inv, KeyInv
  <1>2. \A r \in record : RotationOK(r)'
    BY DEF Inv, KeyInv, RotationOK, Layout, Before, After
  <1>3. \A r : Excused(r) => Excused(r)'
    BY <1>1 DEF Excused
  <1> QED BY <1>2, <1>3 DEF Inv, KeyInv, FilesKept, KeysKept

(* A new generation is named before it exists.                             *)
LEMMA JournalNamed ==
  ASSUME Inv, job.step = "ensure", keys[Target] = None, journal[Target] = None,
         NEW g \in Unused, journal' = [journal EXCEPT ![Target] = g],
         UNCHANGED <<keys, enrolled>>
  PROVE  /\ FilesKept /\ Target \in Directories /\ g \in Generations /\ g # None
         /\ journal'[Target] = g /\ \A d \in Directories : keys[d] # g
  <1>1. /\ g \in Generations /\ g # None /\ \A d \in Directories : keys[d] # g
        /\ Target \in Directories /\ job.action \in {"generate", "rotate_prepare"}
    BY DEF Unused, Target, Directories, Inv, KeyJob
  <1>2. /\ journal' \in [Directories -> Generations \cup {None}]
        /\ journal'[Target] = g /\ \A d \in Directories \ {Target} : journal'[d] = journal[d]
        /\ {"active", "candidate", "retained"} = Directories
    BY <1>1 DEF Inv, KeyInv, Directories
  <1>3. ASSUME NEW r \in record
        PROVE  RotationOK(r)' /\ (r.phase = "activating" /\ Excused(r) => Excused(r)')
    <2>1. RotationOK(r) /\ r.original \in Generations /\ r.candidate \in Generations \cup {None}
          /\ r.phase \in Phases
      BY KeyTypes DEF Inv
    <2>2. /\ keys' = keys /\ enrolled' = enrolled /\ Layout' = Layout
          /\ Before(r)' = Before(r) /\ After(r)' = After(r)
      BY DEF Layout, Before, After
    <2>3. CASE job.action = "generate"
      <3>1. Target = "active" /\ keys["active"] = None
        BY <2>3 DEF Target, Asks
      <3>2. /\ r.phase = "activating" /\ keys["candidate"] = r.candidate
            /\ keys["retained"] = r.original
        BY <2>1, <3>1, LayoutFacts DEF RotationOK, Phases
      <3>3. journal'["active"] = g /\ g \notin {r.original, r.candidate}
            /\ journal'["candidate"] = journal["candidate"]
        BY <1>1, <1>2, <3>1, <3>2
      <3>4. RotationOK(r)'
        BY <2>1, <2>2, <3>2, <3>3 DEF RotationOK
      <3>5. Excused(r)'
        BY <1>1, <3>3 DEF Excused
      <3> QED BY <3>4, <3>5
    <2>4. CASE job.action = "rotate_prepare"
      <3>1. Target = "candidate" /\ r.phase = "preparing"
        BY <2>4, KeyTypes DEF Target, Asks, Inv, KeyJob
      <3>2. journal'["active"] = journal["active"]
        BY <1>2, <3>1
      <3>3. RotationOK(r)'
        BY <2>1, <2>2, <3>1, <3>2 DEF RotationOK
      <3> QED BY <3>1, <3>3
    <2> QED BY <1>1, <2>3, <2>4
  <1>4. journal'["retained"] = None
    BY <1>2 DEF Target, Inv, KeyInv
  <1>5. FilesKept
    BY <1>2, <1>3, <1>4 DEF FilesKept, KeysKept, Inv, KeyInv
  <1> QED BY <1>1, <1>2, <1>5

(* It fills an empty directory.                                            *)
LEMMA KeyPlaced ==
  ASSUME Inv, job.step = "keygen", keys' = [keys EXCEPT ![Target] = journal[Target]],
         UNCHANGED <<journal, enrolled>>
  PROVE  FilesKept /\ keys'[Target] = journal[Target] /\ keys'[Target] # None
  <1> DEFINE g == journal[Target]
  <1>1. /\ g \in Generations /\ g # None /\ \A d \in Directories : keys[d] # g
        /\ Target \in Directories /\ keys[Target] = None
        /\ job.action \in {"generate", "rotate_prepare"}
    BY DEF Inv, KeyJob, KeyInv, Target, Directories
  <1>2. /\ keys' \in [Directories -> Generations \cup {None}]
        /\ keys'[Target] = g /\ \A d \in Directories \ {Target} : keys'[d] = keys[d]
        /\ {"active", "candidate", "retained"} = Directories
    BY <1>1 DEF Inv, KeyInv, Directories
  <1>3. ASSUME NEW r \in record
        PROVE  RotationOK(r)' /\ (r.phase = "activating" /\ Excused(r) => Excused(r)')
    <2>1. RotationOK(r) /\ r.original \in Generations /\ r.candidate \in Generations \cup {None}
          /\ r.phase \in Phases
      BY KeyTypes DEF Inv
    <2>2. CASE job.action = "generate"
      <3>1. Target = "active" /\ keys["active"] = None
        BY <1>1, <2>2 DEF Target, Asks
      <3>2. /\ r.phase = "activating" /\ keys["candidate"] = r.candidate
            /\ keys["retained"] = r.original
        BY <2>1, <3>1, LayoutFacts DEF RotationOK, Phases
      <3>3. /\ keys'["active"] = g /\ g \notin {r.original, r.candidate, None}
            /\ keys'["candidate"] = r.candidate /\ keys'["retained"] = r.original
        BY <1>1, <1>2, <3>1, <3>2
      <3>4. RotationOK(r)'
        BY <2>1, <3>2, <3>3 DEF RotationOK
      <3>5. Excused(r)'
        BY <3>3 DEF Excused
      <3> QED BY <3>4, <3>5
    <2>3. CASE job.action = "rotate_prepare"
      <3>1. Target = "candidate" /\ r.phase = "preparing"
        BY <2>3, KeyTypes DEF Target, Asks, Inv, KeyJob
      <3>2. keys'["active"] = keys["active"] /\ keys'["retained"] = keys["retained"]
        BY <1>2, <3>1
      <3>3. RotationOK(r)'
        BY <2>1, <3>1, <3>2 DEF RotationOK
      <3> QED BY <3>1, <3>3
    <2> QED BY <1>1, <2>2, <2>3
  <1>4. \A d, e \in Directories : d # e /\ keys'[d] # None => keys'[d] # keys'[e]
    BY <1>1, <1>2 DEF Inv, KeyInv
  <1>5. KeysKept
    BY <1>1, <1>2 DEF KeysKept
  <1>6. FilesKept
    BY <1>2, <1>3, <1>4, <1>5 DEF FilesKept, Inv, KeyInv
  <1> QED BY <1>1, <1>2, <1>6

(* The journal of a key that is complete goes.                             *)
LEMMA JournalGone ==
  ASSUME Inv, job.step \in {"ensure", "clear"}, faults' \in {faults, faults + 1},
         keys[Target] # None, journal[Target] \in {None, keys[Target]},
         journal' = [journal EXCEPT ![Target] = None], UNCHANGED <<keys, enrolled>>
  PROVE  FilesKept /\ journal'[Target] = None /\ Target \in Directories
  <1>f. Target \in Directories /\ faults \in Nat
    BY DEF Inv, KeyInv, Target, Directories
  <1>j. /\ journal' \in [Directories -> Generations \cup {None}]
        /\ journal'[Target] = None /\ \A d \in Directories \ {Target} : journal'[d] = journal[d]
        /\ {"active", "candidate", "retained"} = Directories
    BY <1>f DEF Inv, KeyInv, Directories
  <1>1. ASSUME NEW r \in record PROVE RotationOK(r)'
    <2>1. RotationOK(r) /\ r.original \in Generations
      BY KeyTypes DEF Inv
    <2>2. /\ journal'["active"] \in {None, journal["active"]}
          /\ journal'["candidate"] \in {None, journal["candidate"]}
      BY <1>j
    <2>3. /\ keys' = keys /\ enrolled' = enrolled /\ Layout' = Layout
          /\ Before(r)' = Before(r) /\ After(r)' = After(r)
      BY DEF Layout, Before, After
    <2> QED BY <2>1, <2>2, <2>3 DEF RotationOK
  <1>2. ASSUME NEW r \in record, r.phase = "activating", Excused(r) PROVE Excused(r)'
    <2>1. journal["active"] \notin {r.original, r.candidate}
      BY <1>2, KeyTypes DEF Inv, RotationOK
    <2>2. CASE Target = "active"
      <3>1. keys["active"] \notin {r.original, r.candidate, None} \/ faults > 0
        BY <1>2, <2>1, <2>2 DEF Excused
      <3> QED BY <1>f, <3>1 DEF Excused
    <2>3. CASE Target # "active"
      BY <1>2, <1>f, <1>j, <2>3 DEF Excused
    <2> QED BY <2>2, <2>3
  <1>3. journal'["retained"] = None
    BY <1>j DEF Inv, KeyInv
  <1>4. FilesKept
    BY <1>j, <1>1, <1>2, <1>3 DEF FilesKept, KeysKept, Inv, KeyInv
  <1> QED BY <1>f, <1>j, <1>4

(* The generation fails.                                                   *)
LEMMA NotEnsuredKeeps ==
  ASSUME Inv, job.step \in {"ensure", "keygen", "clear"}, NotEnsured, FilesKept,
         faults' \in {faults, faults + 1}, faults' <= MaxFaults,
         UNCHANGED <<enrolled, repoVars, adminVars>>
  PROVE  Inv'
  <1>f. faults' \in 0..MaxFaults
    BY DEF Inv, KeyInv
  <1>a. Answer("failed") /\ job.step # "idle" /\ job.action # "rotate_activate"
    BY DEF NotEnsured, PreparationFails, Inv, KeyJob
  <1>1. CASE UNCHANGED record
    <2>1. KeyInv'
      BY <1>1, <1>f DEF Inv, KeyInv, FilesKept
    <2>2. ExcusesKept /\ RecordKept /\ KeysKept
      BY <1>1 DEF FilesKept, ExcusesKept, RecordKept
    <2> QED BY <1>a, <2>1, <2>2, KeyFails
  <1>2. CASE ~UNCHANGED record
    <2>1. job.action = "rotate_prepare"
      BY <1>2 DEF NotEnsured, Asks, Inv, KeyJob
    <2>2. PICK r \in record : r.phase = "preparing"
      BY <2>1 DEF Inv, KeyJob
    <2>3. record = {r} /\ r \in Rotation /\ RotationOK(r)'
      BY <2>2, KeyTypes DEF Inv, FilesKept
    <2> DEFINE b == Blocked(r, "generation_failed")
    <2>4. record' = {b}
      BY <1>2, <2>1, <2>3 DEF NotEnsured, Asks, PreparationFails
    <2>5. /\ b \in Rotation /\ b.phase = "blocked" /\ b.request = r.request
          /\ b.original = r.original /\ b.candidate = r.candidate
      BY <2>3 DEF Blocked, Rotation, Phases
    <2> HIDE DEF b
    <2>6. r.candidate = None
      BY <2>2, KeyTypes DEF Inv, RotationOK
    <2>7. RotationOK(b)'
      BY <2>2, <2>3, <2>5, <2>6 DEF RotationOK
    <2>8. KeyInv'
      BY <1>f, <2>4, <2>5, <2>7 DEF Inv, KeyInv, FilesKept, Single
    <2>9. RecordKept /\ ExcusesKept /\ KeysKept
      BY <2>2, <2>3, <2>4, <2>5, <2>6 DEF RecordKept, ExcusesKept, FilesKept
    <2> QED BY <1>a, <2>8, <2>9, KeyFails
  <1> QED BY <1>1, <1>2

LEMMA JournalCleared ==
  ASSUME Inv, job.step \in {"ensure", "clear"},
         keys[Target] # None, journal[Target] \in {None, keys[Target]},
         RemoveJournal, UNCHANGED <<keys, enrolled, repoVars, adminVars>>
  PROVE  Inv'
  <1>f. /\ job.step # "idle" /\ job.action \in {"generate", "rotate_prepare"}
        /\ faults \in 0..MaxFaults
    BY DEF Inv, KeyJob, KeyInv
  <1>1. CASE /\ journal' = [journal EXCEPT ![Target] = None] /\ Ensured /\ Healthy
    <2>1. /\ FilesKept /\ journal'[Target] = None /\ Target \in Directories
          /\ UNCHANGED <<record, faults>>
      BY <1>1, JournalGone DEF Healthy, Ensured
    <2>2. KeyInv'
      BY <1>f, <2>1 DEF FilesKept, Inv, KeyInv
    <2>3. ExcusesKept
      BY <2>1 DEF FilesKept, ExcusesKept
    <2>4. CASE job.action = "generate"
      <3>1. Answer("done") /\ Target = "active"
        BY <1>1, <2>4 DEF Ensured, Target, Asks
      <3>2. job'.action = "generate" /\ job'.result = "done"
        BY <2>4, <3>1 DEF Answer, Inv, JobInv
      <3>3. Shown' = keys'["active"]
        BY <3>2 DEF Shown, Rotations
      <3>4. keys'["active"] # None /\ "active" \in Directories
        BY <3>1 DEF Directories
      <3>5. Reached(job.request, job.action, Shown)'
        BY <3>2, <3>3, <3>4 DEF Reached, Rotations
      <3> QED BY <1>f, <2>1, <2>2, <2>3, <3>1, <3>5, NothingMoves, KeyDone
    <2>5. CASE job.action = "rotate_prepare"
      <3>1. Go("stage") /\ Target = "candidate"
        BY <1>1, <2>5 DEF Ensured, Target, Asks
      <3>2. /\ Moves("stage", job.result) /\ job.result \in Results
            /\ job'.step = "stage" /\ job'.action = "rotate_prepare" /\ job'.request = job.request
        BY <1>f, <2>5, <3>1, GoMoves, JobMoves DEF Inv, JobSteps, adminVars
      <3>3. \E r \in record : r.phase = "preparing" /\ r.request = job.request
        BY <2>5 DEF Inv, KeyJob
      <3>4. KeyJob'
        BY <2>1, <3>1, <3>2, <3>3 DEF KeyJob
      <3>5. AnswerInv'
        BY <3>2 DEF AnswerInv
      <3> QED BY <1>f, <2>1, <2>2, <2>3, <3>2, <3>4, <3>5, NothingMoves, KeyFrame
            DEF NextKeySteps
    <2> QED BY <1>f, <2>4, <2>5
  <1>2. CASE /\ Fault /\ Torn(journal, [journal EXCEPT ![Target] = None]) /\ NotEnsured
    <2>1. faults' \in {faults, faults + 1} /\ faults' <= MaxFaults
      BY <1>2, <1>f DEF Fault
    <2>2. FilesKept
      BY <1>2, <2>1, FilesStay, JournalGone DEF Torn
    <2> QED BY <1>2, <2>1, <2>2, NotEnsuredKeeps
  <1> QED BY <1>1, <1>2 DEF RemoveJournal

LEMMA EnsureKeeps ==
  ASSUME Inv, EnsureKey, UNCHANGED <<repoVars, adminVars>>
  PROVE  Inv'
  <1> DEFINE named == [journal EXCEPT ![Target] = CHOOSE g \in Unused : TRUE]
  <1>f. /\ job.step = "ensure" /\ UNCHANGED <<keys, enrolled>>
        /\ job.action \in {"generate", "rotate_prepare"} /\ faults \in 0..MaxFaults
    BY DEF EnsureKey, At, Inv, KeyJob, KeyInv
  <1>1. CASE /\ keys[Target] # None /\ journal[Target] \in {None, keys[Target]}
             /\ RemoveJournal
    BY <1>1, <1>f, JournalCleared
  <1>2. CASE /\ journal[Target] \notin {None, keys[Target]}
             /\ NotEnsured /\ Healthy /\ UNCHANGED journal
    <2>1. faults' \in {faults, faults + 1} /\ faults' <= MaxFaults
      BY <1>2, <1>f DEF Healthy
    <2>2. FilesKept
      BY <1>2, <1>f, <2>1, FilesStay
    <2> QED BY <1>2, <1>f, <2>1, <2>2, NotEnsuredKeeps
  <1>3. ASSUME keys[Target] = None, journal[Target] = None, Unused # {},
               \/ journal' = named /\ Go("keygen") /\ Healthy /\ UNCHANGED record
               \/ Fault /\ Torn(journal, named) /\ NotEnsured
        PROVE  Inv'
    <2>g. PICK g \in Unused : named = [journal EXCEPT ![Target] = g]
      BY <1>3
    <2> HIDE DEF named
    <2>n. journal' = named =>
            /\ FilesKept /\ Target \in Directories /\ g \in Generations /\ g # None
            /\ journal'[Target] = g /\ \A d \in Directories : keys[d] # g
      BY <1>3, <1>f, <2>g, JournalNamed
    <2>1. CASE Fault /\ Torn(journal, named) /\ NotEnsured
      <3>1. faults' \in {faults, faults + 1} /\ faults' <= MaxFaults
        BY <2>1, <1>f DEF Fault
      <3>2. FilesKept
        BY <2>1, <2>n, <1>f, <3>1, FilesStay DEF Torn
      <3> QED BY <2>1, <1>f, <3>1, <3>2, NotEnsuredKeeps
    <2>2. CASE journal' = named /\ Go("keygen") /\ Healthy /\ UNCHANGED record
      <3>1. /\ Moves("keygen", job.result) /\ job.result \in Results /\ job.step # "idle"
            /\ job'.step = "keygen" /\ job'.action = job.action /\ job'.request = job.request
            /\ Target' = Target
        BY <2>2, <1>f, GoMoves, JobMoves DEF Inv, JobSteps, adminVars
      <3>2. KeyInv'
        BY <1>f, <2>2, <2>n DEF FilesKept, Inv, KeyInv, Healthy
      <3>3. KeyJob'
        <4>1. job.action = "rotate_prepare" =>
                \E r \in record : r.phase = "preparing" /\ r.request = job.request
          BY <1>f DEF Inv, KeyJob
        <4> QED BY <1>3, <1>f, <2>2, <2>n, <3>1, <4>1 DEF KeyJob
      <3>4. AnswerInv'
        BY <3>1 DEF AnswerInv
      <3>5. ExcusesKept
        BY <2>2, <2>n DEF FilesKept, ExcusesKept
      <3> QED BY <1>f, <2>2, <3>1, <3>2, <3>3, <3>4, <3>5, NothingMoves, KeyFrame
            DEF NextKeySteps
    <2> QED BY <1>3, <2>1, <2>2
  <1> QED BY <1>1, <1>2, <1>3 DEF EnsureKey

LEMMA GenerateKeeps ==
  ASSUME Inv, GenerateKey, UNCHANGED <<repoVars, adminVars>>
  PROVE  Inv'
  <1> DEFINE generated == [keys EXCEPT ![Target] = journal[Target]]
  <1>f. /\ job.step = "keygen" /\ UNCHANGED <<journal, enrolled>>
        /\ job.action \in {"generate", "rotate_prepare"} /\ faults \in 0..MaxFaults
    BY DEF GenerateKey, At, Inv, KeyJob, KeyInv
  <1>k. keys' = generated =>
          FilesKept /\ keys'[Target] = journal[Target] /\ keys'[Target] # None
    BY <1>f, KeyPlaced
  <1>1. CASE Fault /\ Torn(keys, generated) /\ NotEnsured
    <2>1. faults' \in {faults, faults + 1} /\ faults' <= MaxFaults
      BY <1>1, <1>f DEF Fault
    <2>2. FilesKept
      BY <1>1, <1>f, <1>k, <2>1, FilesStay DEF Torn
    <2> QED BY <1>1, <1>f, <2>1, <2>2, NotEnsuredKeeps
  <1>2. CASE keys' = generated /\ Go("clear") /\ Healthy /\ UNCHANGED record
    <2>1. /\ Moves("clear", job.result) /\ job.result \in Results /\ job.step # "idle"
          /\ job'.step = "clear" /\ job'.action = job.action /\ job'.request = job.request
          /\ Target' = Target
      BY <1>2, <1>f, GoMoves, JobMoves DEF Inv, JobSteps, adminVars
    <2>2. KeyInv'
      BY <1>f, <1>2, <1>k DEF FilesKept, Inv, KeyInv, Healthy
    <2>3. KeyJob'
      <3>1. job.action = "rotate_prepare" =>
              \E r \in record : r.phase = "preparing" /\ r.request = job.request
        BY <1>f DEF Inv, KeyJob
      <3> QED BY <1>f, <1>2, <1>k, <2>1, <3>1 DEF KeyJob
    <2>4. AnswerInv' /\ RecordKept
      BY <1>2, <2>1 DEF AnswerInv, RecordKept
    <2>5. ExcusesKept /\ KeysKept
      BY <1>2, <1>k DEF FilesKept, ExcusesKept
    <2> QED BY <1>f, <2>1, <2>2, <2>3, <2>4, <2>5, KeyFrame DEF NextKeySteps
  <1> QED BY <1>1, <1>2 DEF GenerateKey

LEMMA ClearKeeps ==
  ASSUME Inv, ClearJournal, UNCHANGED <<repoVars, adminVars>>
  PROVE  Inv'
  BY JournalCleared DEF ClearJournal, At, Inv, KeyJob

-----------------------------------------------------------------------------
(* The rotation *)

(* The record moves on, the directories stay.                              *)
LEMMA RecordMoves ==
  ASSUME Inv, NEW r \in record, NEW s \in Rotation, record' = {s},
         s.request = r.request, r.candidate # None => s.candidate = r.candidate,
         r.phase = "activated" => s.phase = "activated", RotationOK(s)',
         \/ s = r
         \/ s.phase # "activating"
         \/ <<s.request, "rotate_activate">> \notin DOMAIN receipts
         \/ receipts[<<s.request, "rotate_activate">>].status # "blocked",
         UNCHANGED <<keys, journal, enrolled>>, Fault \/ Healthy
  PROVE  /\ KeyInv' /\ KeysKept /\ RecordKept /\ ExcusesKept /\ enrolled \subseteq enrolled'
  <1>1. faults \in Nat /\ faults' \in 0..MaxFaults /\ faults <= faults'
    BY DEF Inv, KeyInv, Fault, Healthy
  <1>2. KeyInv'
    BY <1>1 DEF Inv, KeyInv, Single
  <1>3. record = {r}
    BY KeyTypes DEF Inv
  <1>4. KeysKept /\ RecordKept
    BY <1>3 DEF KeysKept, RecordKept
  <1>5. ExcusesKept
    BY <1>1, ExcusesFrame
  <1> QED BY <1>2, <1>4, <1>5

LEMMA RecordStays ==
  ASSUME Inv, UNCHANGED keyVars, Fault \/ Healthy
  PROVE  /\ KeyInv' /\ KeysKept /\ RecordKept /\ ExcusesKept /\ enrolled \subseteq enrolled'
  <1>1. faults \in Nat /\ faults' \in 0..MaxFaults /\ faults <= faults'
    BY DEF Inv, KeyInv, Fault, Healthy
  <1>2. KeyInv'
    BY <1>1 DEF Inv, KeyInv, RotationOK, Layout, keyVars
  <1>3. ExcusesKept
    BY <1>1, ExcusesFrame DEF keyVars
  <1> QED BY <1>2, <1>3, NothingMoves DEF keyVars

(* An action of a rotation is done.                                        *)
LEMMA RotationDone ==
  ASSUME Inv, job.step # "idle", job.action \in Rotations, Answer("done"),
         UNCHANGED <<repoVars, adminVars>>, KeyInv', KeysKept, RecordKept, ExcusesKept,
         enrolled \subseteq enrolled',
         NEW s, record' = {s}, s.request = job.request, s.candidate # None,
         job.action = "rotate_verify" => s.candidate \in enrolled',
         job.action = "rotate_activate" => s.phase = "activated"
  PROVE  Inv'
  <1>1. job'.result = "done" /\ job'.action = job.action /\ job'.request = job.request
    BY DEF Answer, Inv, JobInv
  <1>2. (CHOOSE q \in record' : TRUE) = s
    OBVIOUS
  <1>3. Shown' = s.candidate
    BY <1>1, <1>2 DEF Shown, Rotations
  <1>4. Reached(job.request, job.action, Shown)'
    BY <1>1, <1>3 DEF Reached, Rotations
  <1> QED BY <1>4, KeyDone

(* The key generation of a rotation begins.                                *)
LEMMA GoEnsure ==
  ASSUME Inv, job.step = "begin", job.action = "rotate_prepare", Go("ensure"),
         UNCHANGED <<repoVars, adminVars>>, KeyInv', KeysKept, RecordKept, ExcusesKept,
         enrolled \subseteq enrolled',
         \E s \in record' : s.phase = "preparing" /\ s.request = job.request
  PROVE  Inv'
  <1>1. /\ Moves("ensure", job.result) /\ job.result \in Results /\ job.step # "idle"
        /\ job'.step = "ensure" /\ job'.action = "rotate_prepare" /\ job'.request = job.request
    BY GoMoves, JobMoves DEF Inv, JobSteps, adminVars
  <1>2. KeyJob' /\ AnswerInv'
    BY <1>1 DEF KeyJob, AnswerInv
  <1> QED BY <1>1, <1>2, KeyFrame DEF NextKeySteps

LEMMA PrepareNewKeeps ==
  ASSUME Inv, PrepareNew, UNCHANGED <<repoVars, adminVars>>
  PROVE  Inv'
  <1>q. PICK q, g : q = job.request /\ g = keys["active"]
    OBVIOUS
  <1> DEFINE r == [request |-> q, phase |-> "preparing", original |-> g,
                   candidate |-> None, reason |-> None]
  <1>f. /\ job.step = "begin" /\ job.step # "idle" /\ job.action = "rotate_prepare"
        /\ job.request \in Requests
        /\ record = {} /\ UNCHANGED <<keys, journal, enrolled>>
    BY DEF PrepareNew, At, Asks, Inv, JobInv
  <1>1. CASE Answer("failed") /\ Healthy /\ UNCHANGED record
    BY <1>1, <1>f, RecordStays, KeyFails DEF keyVars
  <1>2. CASE /\ Inspectable("active") /\ keys["candidate"] = None
             /\ keys["retained"] = None /\ journal["candidate"] = None
             /\ \/ record' = {r} /\ Go("ensure") /\ Healthy
                \/ Fault /\ Answer("failed")
                   /\ record' \in {{}, {r}, {Blocked(r, "generation_failed")}}
    <2>1. keys["active"] \in Generations /\ journal["active"] = None
      BY <1>2, KeyTypes DEF Inspectable, Inv
    <2>a. r \in Rotation
      BY <1>f, <1>q, <2>1 DEF Rotation, Phases
    <2>b. Blocked(r, "generation_failed") \in Rotation
      BY <2>a DEF Blocked, Rotation, Phases
    <2>2. \A s \in {r, Blocked(r, "generation_failed")} :
            /\ s \in Rotation /\ s.phase \in {"preparing", "blocked"}
            /\ s.original = keys["active"] /\ s.candidate = None
      <3>1. /\ r.phase = "preparing" /\ r.original = keys["active"] /\ r.candidate = None
        BY <1>q
      <3>2. LET b == Blocked(r, "generation_failed")
            IN  b.phase = "blocked" /\ b.original = r.original /\ b.candidate = r.candidate
        BY DEF Blocked
      <3> HIDE DEF r
      <3> QED BY <2>a, <2>b, <3>1, <3>2
    <2>3. \A s \in {r, Blocked(r, "generation_failed")} : RotationOK(s)'
      <3> SUFFICES ASSUME NEW s \in {r, Blocked(r, "generation_failed")} PROVE RotationOK(s)'
        OBVIOUS
      <3> HIDE DEF r
      <3> QED BY <1>2, <1>f, <2>1, <2>2 DEF RotationOK
    <2> HIDE DEF r
    <2>4. ASSUME record' \in {{}, {r}, {Blocked(r, "generation_failed")}}, Fault \/ Healthy
          PROVE  KeyInv' /\ KeysKept /\ RecordKept /\ ExcusesKept
      <3>1. faults \in Nat /\ faults' \in 0..MaxFaults /\ faults <= faults'
        BY <2>4 DEF Inv, KeyInv, Fault, Healthy
      <3>2. KeyInv'
        BY <1>f, <2>2, <2>3, <2>4, <3>1 DEF Inv, KeyInv, Single
      <3>3. ExcusesKept
        BY <1>f, <2>2, <2>4, <3>1, ExcusesFrame
      <3> QED BY <1>f, <3>2, <3>3 DEF KeysKept, RecordKept
    <2>5. CASE record' = {r} /\ Go("ensure") /\ Healthy
      <3>1. r.phase = "preparing" /\ r.request = job.request
        BY <1>q DEF r
      <3> QED BY <1>f, <2>4, <2>5, <3>1, GoEnsure
    <2>6. CASE /\ Fault /\ Answer("failed")
               /\ record' \in {{}, {r}, {Blocked(r, "generation_failed")}}
      BY <1>f, <2>4, <2>6, KeyFails
    <2> QED BY <1>2, <2>5, <2>6
  <1> QED BY <1>q, <1>1, <1>2 DEF PrepareNew

LEMMA PreparationFailsKeeps ==
  ASSUME Inv, job.step # "idle", job.action = "rotate_prepare",
         NEW r \in record, r.phase = "preparing",
         NEW s \in Rotation, s.request = r.request, s.original = r.original,
         RotationOK(s)', RotationOK(Blocked(s, "generation_failed"))', s.phase # "activating",
         PreparationFails({s}), Fault \/ Healthy,
         UNCHANGED <<keys, journal, enrolled, repoVars, adminVars>>
  PROVE  Inv'
  <1>1. /\ r.candidate = None /\ record = {r}
    BY KeyTypes DEF Inv, RotationOK
  <1> DEFINE b == Blocked(s, "generation_failed")
  <1>2. b \in Rotation /\ b.request = s.request /\ b.phase = "blocked"
    BY DEF Blocked, Rotation, Phases
  <1>3. Answer("failed") /\ record' \in {{b}, record, {s}}
    BY DEF PreparationFails
  <1> HIDE DEF b
  <1>4. CASE record' = {b}
    <2>1. RotationOK(b)'
      BY DEF b
    <2> QED BY <1>1, <1>2, <1>3, <1>4, <2>1, RecordMoves, KeyFails
  <1>5. CASE record' = {s}
    BY <1>1, <1>3, <1>5, RecordMoves, KeyFails
  <1>6. CASE UNCHANGED record
    BY <1>3, <1>6, RecordStays, KeyFails DEF keyVars
  <1> QED BY <1>3, <1>4, <1>5, <1>6

LEMMA PrepareAgainKeeps ==
  ASSUME Inv, PrepareAgain, UNCHANGED <<repoVars, adminVars>>
  PROVE  Inv'
  <1>f. /\ job.step = "begin" /\ job.step # "idle" /\ job.action = "rotate_prepare"
        /\ job.action \in Rotations
        /\ UNCHANGED <<keys, journal, enrolled>>
    BY DEF PrepareAgain, At, Asks, Rotations
  <1> DEFINE Own(r) == Inspectable("active") /\ keys["active"] = r.original
  <1>1. PICK r \in record :
          \/ /\ r.request = job.request /\ Own(r) /\ r.phase = "preparing"
             /\ IF keys["candidate"] = None
                THEN Go("ensure") /\ Healthy /\ UNCHANGED record
                ELSE IF Inspectable("candidate") THEN Go("stage") /\ Healthy /\ UNCHANGED record
                     ELSE PreparationFails(record) /\ Healthy
          \/ /\ ~ (r.request = job.request /\ Own(r) /\ r.phase = "preparing")
             /\ DoneIf(/\ r.request = job.request /\ r.phase # "blocked"
                       /\ r.phase \in {"activating", "activated"} \/ Own(r)
                       /\ ValidGenerations(r))
             /\ Healthy /\ UNCHANGED record
    BY DEF PrepareAgain
  <1>2. record = {r} /\ r \in Rotation /\ RotationOK(r) /\ r.phase \in Phases
    BY KeyTypes DEF Inv
  <1> HIDE DEF Own
  <1>3. ASSUME r.request = job.request, r.phase = "preparing", Own(r) PROVE Inv'
    <2>1. CASE keys["candidate"] = None
      BY <1>1, <1>2, <1>3, <1>f, <2>1, RecordStays, GoEnsure DEF keyVars
    <2>2. CASE keys["candidate"] # None /\ Inspectable("candidate")
      <3>0. Go("stage") /\ Healthy /\ UNCHANGED record
        BY <1>1, <1>3, <2>2
      <3>1. /\ Moves("stage", job.result) /\ job.result \in Results
            /\ job'.step = "stage" /\ job'.action = "rotate_prepare" /\ job'.request = job.request
        BY <1>f, <3>0, GoMoves, JobMoves DEF Inv, JobSteps, adminVars
      <3>2. KeyJob' /\ AnswerInv'
        BY <1>2, <1>3, <1>f, <2>2, <3>0, <3>1 DEF KeyJob, AnswerInv, Inspectable
      <3> QED BY <1>f, <3>0, <3>1, <3>2, RecordStays, KeyFrame DEF NextKeySteps, keyVars
    <2>3. CASE keys["candidate"] # None /\ ~Inspectable("candidate")
      <3>1. PreparationFails({r}) /\ Healthy
        BY <1>1, <1>2, <1>3, <2>3
      <3> DEFINE b == Blocked(r, "generation_failed")
      <3>2. b.phase = "blocked" /\ b.original = r.original /\ b.candidate = r.candidate
        BY <1>2 DEF Blocked, Rotation
      <3>3. RotationOK(r)' /\ RotationOK(b)'
        <4> HIDE DEF b
        <4> QED BY <1>2, <1>3, <1>f, <3>2 DEF RotationOK
      <3> QED BY <1>2, <1>3, <1>f, <3>1, <3>3, PreparationFailsKeeps
    <2> QED BY <2>1, <2>2, <2>3
  <1>4. ASSUME ~(r.request = job.request /\ Own(r) /\ r.phase = "preparing") PROVE Inv'
    <2>1. Healthy /\ UNCHANGED keyVars
      BY <1>1, <1>4, <1>f DEF keyVars
    <2>2. CASE Answer("failed")
      BY <1>f, <2>1, <2>2, RecordStays, KeyFails
    <2>3. CASE /\ Answer("done") /\ r.request = job.request /\ r.phase # "blocked"
               /\ r.phase \in {"activating", "activated"} \/ Own(r)
      <3>1. r.phase # "preparing"
        BY <1>4, <2>3
      <3>2. r.candidate # None
        BY <1>2, <2>3, <3>1 DEF RotationOK, Phases
      <3> QED BY <1>f, <1>2, <2>1, <2>3, <3>2, RecordStays, RotationDone DEF keyVars
    <2> QED BY <1>1, <1>4, <2>2, <2>3 DEF DoneIf
  <1> QED BY <1>1, <1>3, <1>4

LEMMA StageKeeps ==
  ASSUME Inv, Stage, UNCHANGED <<repoVars, adminVars>>
  PROVE  Inv'
  <1>f. /\ job.step = "stage" /\ job.step # "idle" /\ job.action = "rotate_prepare"
        /\ job.action \in Rotations
        /\ keys["candidate"] # None /\ journal["candidate"] = None
        /\ UNCHANGED <<keys, journal, enrolled>>
    BY DEF Stage, At, Inv, KeyJob, Rotations
  <1>1. PICK r \in record : r.phase = "preparing" /\ r.request = job.request
    BY <1>f DEF Inv, KeyJob
  <1>2. /\ record = {r} /\ r \in Rotation /\ RotationOK(r) /\ r.original \in Generations
        /\ keys["candidate"] \in Generations
    BY <1>f, <1>1, KeyTypes DEF Inv
  <1>c. PICK c : c = keys["candidate"]
    OBVIOUS
  <1> DEFINE s == [r EXCEPT !.candidate = c, !.phase = "prepared"]
             b == Blocked(s, "generation_failed")
  <1>3. /\ s \in Rotation /\ s.phase = "prepared" /\ s.request = r.request
        /\ s.original = r.original /\ s.candidate = keys["candidate"]
        /\ b.phase = "blocked" /\ b.original = r.original /\ b.candidate = keys["candidate"]
    BY <1>2, <1>c DEF Rotation, Phases, Blocked
  <1>4. \/ record' = {s} /\ Answer("done") /\ Healthy
        \/ Fault /\ PreparationFails({s})
    BY <1>2, <1>c DEF Stage
  <1> HIDE DEF s, b
  <1>5. keys["candidate"] # keys["active"]
    BY <1>f DEF Inv, KeyInv, Directories
  <1>6. RotationOK(s)' /\ RotationOK(b)'
    BY <1>1, <1>2, <1>3, <1>5, <1>f, KeyTypes DEF RotationOK, Inv
  <1>7. CASE record' = {s} /\ Answer("done") /\ Healthy
    <2>1. KeyInv' /\ KeysKept /\ RecordKept /\ ExcusesKept
      BY <1>1, <1>2, <1>3, <1>6, <1>7, <1>f, RecordMoves DEF RotationOK
    <2> QED BY <1>1, <1>3, <1>7, <1>f, <2>1, RotationDone
  <1>8. CASE Fault /\ PreparationFails({s})
    BY <1>1, <1>3, <1>6, <1>8, <1>f, PreparationFailsKeeps DEF b
  <1> QED BY <1>4, <1>7, <1>8

LEMMA TestKeeps ==
  ASSUME Inv, TestKey, UNCHANGED <<repoVars, adminVars>>
  PROVE  Inv'
  <1>f. /\ job.step # "idle" /\ job.action = "test" /\ UNCHANGED keyVars
        /\ Fault \/ Healthy
    BY DEF TestKey, At, Asks
  <1>s. KeyInv' /\ KeysKept /\ RecordKept /\ ExcusesKept /\ enrolled \subseteq enrolled'
    BY <1>f, RecordStays
  <1>1. CASE Answer("done") /\ Accepts("active")
    <2>1. job'.result = "done" /\ job'.action = "test" /\ keys'["active"] \in enrolled'
      BY <1>1, <1>f DEF Answer, Inv, JobInv, keyVars, Accepts
    <2>2. Shown' = keys'["active"]
      BY <2>1 DEF Shown, Rotations
    <2>3. Reached(job.request, job.action, Shown)'
      BY <2>1, <2>2 DEF Reached, Rotations
    <2> QED BY <1>1, <1>f, <1>s, <2>3, KeyDone
  <1>2. CASE Answer("failed") \/ Answer("transient")
    BY <1>2, <1>f, <1>s, KeyFails
  <1> QED BY <1>1, <1>2 DEF TestKey, DoneIf

LEMMA VerifyKeeps ==
  ASSUME Inv, Verify, UNCHANGED <<repoVars, adminVars>>
  PROVE  Inv'
  <1>f. /\ job.step # "idle" /\ job.action = "rotate_verify" /\ job.action \in Rotations
        /\ UNCHANGED <<keys, journal, enrolled>>
    BY DEF Verify, At, Asks, Rotations
  <1>1. CASE /\ DoneIf(\E r \in record : /\ r.request = job.request /\ ValidGenerations(r)
                                         /\ r.phase \in {"verified", "activating", "activated"})
             /\ Healthy /\ UNCHANGED record
    <2>1. UNCHANGED keyVars
      BY <1>1, <1>f DEF keyVars
    <2>2. CASE Answer("failed")
      BY <1>1, <1>f, <2>1, <2>2, RecordStays, KeyFails
    <2>3. CASE Answer("done") /\ \E r \in record :
                 r.request = job.request /\ r.phase \in {"verified", "activating", "activated"}
      <3>1. PICK r \in record :
              r.request = job.request /\ r.phase \in {"verified", "activating", "activated"}
        BY <2>3
      <3>2. record = {r} /\ r.candidate # None /\ r.candidate \in enrolled
        BY <3>1, KeyTypes DEF Inv, RotationOK
      <3> QED BY <1>1, <1>f, <2>1, <2>3, <3>1, <3>2, RecordStays, RotationDone DEF keyVars
    <2> QED BY <1>1, <2>2, <2>3 DEF DoneIf
  <1>2. ASSUME NEW r \in record, CanVerify(r),
               \/ /\ record' = {Verified(r)} /\ Healthy
                  /\ DoneIf(Verified(r).phase = "verified")
               \/ Fault /\ Answer("transient") /\ UNCHANGED record
               \/ Fault /\ Answer("failed") /\ Torn(record, {Verified(r)})
        PROVE  Inv'
    <2>1. /\ record = {r} /\ r \in Rotation /\ RotationOK(r) /\ r.phase = "prepared"
          /\ r.request = job.request /\ keys["candidate"] = r.candidate /\ r.candidate # None
      BY <1>2, KeyTypes DEF Inv, CanVerify, RotationOK
    <2>v. PICK v : v = Verified(r)
      OBVIOUS
    <2>2. /\ v \in Rotation /\ v.request = r.request /\ v.original = r.original
          /\ v.candidate = r.candidate /\ v.phase \in {"blocked", "verified"}
          /\ v.phase = "verified" => r.candidate \in enrolled
      <3>1. CASE ~Accepts("candidate")
        <4>1. v = [r EXCEPT !.phase = "blocked", !.reason = "access_failed"]
          BY <2>1, <2>v, <3>1 DEF Verified, Blocked
        <4> QED BY <2>1, <4>1 DEF Rotation, Phases
      <3>2. CASE Accepts("candidate")
        <4>1. v = [r EXCEPT !.phase = "verified"]
          BY <2>1, <2>v, <3>2 DEF Verified
        <4> QED BY <2>1, <3>2, <4>1 DEF Rotation, Phases, Accepts
      <3> QED BY <3>1, <3>2
    <2>3. RotationOK(v)'
      BY <1>f, <2>1, <2>2 DEF RotationOK
    <2>4. ASSUME record' = {v}, Fault \/ Healthy
          PROVE  KeyInv' /\ KeysKept /\ RecordKept /\ ExcusesKept
      BY <1>f, <2>1, <2>2, <2>3, <2>4, RecordMoves
    <2>5. ASSUME record' = record, Fault \/ Healthy
          PROVE  KeyInv' /\ KeysKept /\ RecordKept /\ ExcusesKept
      BY <1>f, <2>5, RecordStays DEF keyVars
    <2>6. CASE record' = {v} /\ Healthy /\ Answer("done") /\ v.phase = "verified"
      BY <1>f, <2>1, <2>2, <2>4, <2>6, RotationDone
    <2>7. CASE record' = {v} /\ Answer("failed") /\ (Fault \/ Healthy)
      BY <1>f, <2>4, <2>7, KeyFails
    <2>8. CASE record' = record /\ (Answer("failed") \/ Answer("transient")) /\ Fault
      BY <1>f, <2>5, <2>8, KeyFails
    <2> QED BY <1>2, <2>v, <2>6, <2>7, <2>8 DEF DoneIf, Torn
  <1> QED BY <1>1, <1>2 DEF Verify

(* The activation goes on with the next rename.                            *)
LEMMA GoRename ==
  ASSUME Inv, job.step # "idle", job.action = "rotate_activate", Go("rename"),
         UNCHANGED <<repoVars, adminVars>>, KeyInv', KeysKept, RecordKept, ExcusesKept,
         enrolled \subseteq enrolled',
         \E s \in record' : s.phase = "activating" /\ s.request = job.request
  PROVE  Inv'
  <1>1. /\ Moves("rename", job.result) /\ job.result \in Results
        /\ job'.step = "rename" /\ job'.action = "rotate_activate" /\ job'.request = job.request
    BY GoMoves, JobMoves DEF Inv, JobSteps, adminVars
  <1>2. KeyJob' /\ AnswerInv'
    BY <1>1 DEF KeyJob, AnswerInv
  <1> QED BY <1>1, <1>2, KeyFrame DEF NextKeySteps

LEMMA FaultCounts ==
  ASSUME Inv, Fault
  PROVE  \A r : Excused(r)'
  <1>1. faults' > 0
    BY DEF Inv, KeyInv, Fault
  <1> QED BY <1>1 DEF Excused

LEMMA ActivateKeeps ==
  ASSUME Inv, Activate, UNCHANGED <<repoVars, adminVars>>
  PROVE  Inv'
  <1>f. /\ job.step # "idle" /\ job.action = "rotate_activate" /\ job.action \in Rotations
        /\ UNCHANGED <<keys, journal, enrolled>>
    BY DEF Activate, At, Asks, Rotations
  <1>1. CASE /\ ~ \E r \in record : /\ r.request = job.request
                                    /\ r.phase \in {"verified", "activating"}
             /\ DoneIf(\E r \in record : /\ r.request = job.request
                                         /\ r.phase = "activated" /\ ValidGenerations(r))
             /\ Healthy /\ UNCHANGED record
    <2>1. UNCHANGED keyVars
      BY <1>1, <1>f DEF keyVars
    <2>2. CASE Answer("failed")
      BY <1>1, <1>f, <2>1, <2>2, RecordStays, KeyFails
    <2>3. CASE Answer("done") /\ \E r \in record : r.request = job.request /\ r.phase = "activated"
      <3>1. PICK r \in record : r.request = job.request /\ r.phase = "activated"
        BY <2>3
      <3>2. record = {r} /\ r.candidate # None
        BY <3>1, KeyTypes DEF Inv, RotationOK
      <3> QED BY <1>1, <1>f, <2>1, <2>3, <3>1, <3>2, RecordStays, RotationDone DEF keyVars
    <2> QED BY <1>1, <2>2, <2>3 DEF DoneIf
  <1>2. ASSUME NEW r \in record, r.request = job.request, r.phase = "activating",
               Go("rename"), Healthy, UNCHANGED record
        PROVE  Inv'
    BY <1>2, <1>f, RecordStays, GoRename DEF keyVars
  <1>3. ASSUME NEW r \in record, r.request = job.request, r.phase = "verified",
               LET next == [r EXCEPT !.phase = "activating"]
               IN  IF ValidGenerations(r)
                   THEN \/ record' = {next} /\ Go("rename") /\ Healthy
                        \/ Fault /\ Answer("failed") /\ Torn(record, {next})
                   ELSE Answer("failed") /\ Healthy /\ UNCHANGED record
        PROVE  Inv'
    <2> DEFINE s == [r EXCEPT !.phase = "activating"]
    <2>1. /\ record = {r} /\ r \in Rotation /\ RotationOK(r) /\ r.original \in Generations
          /\ r.candidate # None
      BY <1>3, KeyTypes DEF Inv, RotationOK
    <2>2. /\ s \in Rotation /\ s.request = r.request /\ s.original = r.original
          /\ s.candidate = r.candidate /\ s.phase = "activating"
      BY <2>1 DEF Rotation, Phases
    <2>3. \/ record' = {s} /\ Go("rename") /\ Healthy
          \/ Fault /\ Answer("failed") /\ record' \in {record, {s}}
          \/ Answer("failed") /\ Healthy /\ UNCHANGED record
      BY <1>3 DEF Torn
    <2> HIDE DEF s
    <2>4. RotationOK(s)'
      <3>1. /\ keys["active"] = r.original /\ keys["retained"] = None
            /\ keys["candidate"] = r.candidate /\ journal["active"] = None
            /\ journal["candidate"] = None /\ r.candidate \in enrolled
        BY <1>3, <2>1 DEF RotationOK
      <3>2. Layout' = Before(s)
        BY <1>f, <2>2, <3>1 DEF Layout, Before
      <3>3. Before(s)' = Before(s)
        BY DEF Before
      <3> QED BY <1>f, <2>1, <2>2, <3>1, <3>2, <3>3 DEF RotationOK
    <2>5. \/ <<s.request, "rotate_activate">> \notin DOMAIN receipts
          \/ receipts[<<s.request, "rotate_activate">>].status # "blocked"
      BY <1>3, <1>f, <2>2 DEF Inv, JobInv, Key
    <2>6. ASSUME record' = {s}, Fault \/ Healthy
          PROVE  KeyInv' /\ KeysKept /\ RecordKept /\ ExcusesKept
      BY <1>3, <1>f, <2>2, <2>4, <2>5, <2>6, RecordMoves
    <2>7. ASSUME record' = record, Fault \/ Healthy
          PROVE  KeyInv' /\ KeysKept /\ RecordKept /\ ExcusesKept
      BY <1>f, <2>7, RecordStays DEF keyVars
    <2>8. CASE record' = {s} /\ Go("rename") /\ Healthy
      BY <1>3, <1>f, <2>2, <2>6, <2>8, GoRename
    <2>9. CASE Fault /\ Answer("failed") /\ record' \in {record, {s}}
      BY <1>f, <2>6, <2>7, <2>9, FaultCounts, KeyFails
    <2>10. CASE Answer("failed") /\ Healthy /\ UNCHANGED record
      BY <1>3, <1>f, <2>1, <2>7, <2>10, KeyFails
    <2> QED BY <2>3, <2>8, <2>9, <2>10
  <1> QED BY <1>1, <1>2, <1>3 DEF Activate

(* A rename of the activation, with what it makes of the record.           *)
LEMMA RenameKeeps ==
  ASSUME Inv, job.step = "rename", NEW r \in record, r.phase = "activating",
         r.request = job.request,
         NEW from \in Directories, NEW to \in Directories, from # to,
         keys[from] # None, keys[to] = None,
         Rename(from, to), UNCHANGED <<journal, record, enrolled, repoVars, adminVars>>,
         keys' = [keys EXCEPT ![from] = None, ![to] = keys[from]] =>
           RotationOK(r)' /\ (Excused(r) => Excused(r)')
  PROVE  Inv'
  <1>f. /\ job.step # "idle" /\ job.action = "rotate_activate" /\ record = {r} /\ RotationOK(r)
        /\ Fault \/ Healthy
    BY KeyTypes DEF Inv, KeyJob, Rename
  <1>1. faults \in Nat /\ faults' \in 0..MaxFaults /\ faults <= faults'
    BY <1>f DEF Inv, KeyInv, Fault, Healthy
  <1>2. ASSUME keys' = [keys EXCEPT ![from] = None, ![to] = keys[from]]
        PROVE  KeyInv' /\ KeysKept /\ RecordKept /\ ExcusesKept
    <2>1. keys \in [Directories -> Generations \cup {None}]
      BY DEF Inv, KeyInv
    <2>2. /\ keys' \in [Directories -> Generations \cup {None}]
          /\ keys'[from] = None /\ keys'[to] = keys[from]
          /\ \A d \in Directories \ {from, to} : keys'[d] = keys[d]
      BY <1>2, <2>1
    <2>3. \A d, e \in Directories : d # e /\ keys'[d] # None => keys'[d] # keys'[e]
      BY <2>2 DEF Inv, KeyInv
    <2>4. KeyInv'
      BY <1>1, <1>2, <1>f, <2>2, <2>3 DEF Inv, KeyInv
    <2>5. KeysKept
      BY <2>2 DEF KeysKept
    <2> QED BY <1>2, <1>f, <2>4, <2>5 DEF RecordKept, ExcusesKept
  <1>3. ASSUME keys' = keys PROVE KeyInv' /\ KeysKept /\ RecordKept /\ ExcusesKept
    BY <1>3, <1>f, RecordStays DEF keyVars
  <1>4. CASE keys' = [keys EXCEPT ![from] = None, ![to] = keys[from]] /\ Go("rename")
    BY <1>2, <1>4, <1>f, GoRename
  <1>5. CASE Fault /\ Answer("failed")
    BY <1>2, <1>3, <1>5, <1>f, FaultCounts, KeyFails DEF Rename, Torn
  <1> QED BY <1>4, <1>5 DEF Rename

LEMMA ReconcileKeeps ==
  ASSUME Inv, Reconcile, UNCHANGED <<repoVars, adminVars>>
  PROVE  Inv'
  <1>f. /\ job.step = "rename" /\ job.step # "idle" /\ job.action = "rotate_activate"
        /\ job.action \in Rotations /\ UNCHANGED <<journal, enrolled>>
    BY DEF Reconcile, At, Inv, KeyJob, Rotations
  <1>1. PICK r \in record : r.phase = "activating" /\ r.request = job.request
    BY <1>f DEF Inv, KeyJob
  <1>2. /\ record = {r} /\ r \in Rotation /\ RotationOK(r)
        /\ r.original \in Generations /\ r.original # None
        /\ r.candidate # None /\ r.candidate # r.original /\ journal["candidate"] = None
        /\ {"active", "candidate", "retained"} = Directories
    BY <1>1, KeyTypes DEF Inv, RotationOK, Directories
  <1>3. CASE Intact /\ Layout = Before(r) /\ Rename("active", "retained") /\ UNCHANGED record
    <2>1. /\ keys["active"] = r.original /\ keys["candidate"] = r.candidate
          /\ keys["retained"] = None /\ journal["active"] = None
      BY <1>2, <1>3, LayoutFacts DEF Intact
    <2>2. ASSUME keys' = [keys EXCEPT !["active"] = None, !["retained"] = keys["active"]]
          PROVE  RotationOK(r)' /\ (Excused(r) => Excused(r)')
      <3>1. /\ keys'["active"] = None /\ keys'["retained"] = r.original
            /\ keys'["candidate"] = r.candidate
        BY <1>2, <2>1, <2>2 DEF Inv, KeyInv
      <3>2. RotationOK(r)'
        BY <1>1, <1>2, <1>3, <1>f, <3>1 DEF RotationOK
      <3>3. Excused(r) => faults > 0
        BY <2>1 DEF Excused
      <3>4. faults > 0 => faults' > 0
        BY <1>3 DEF Rename, Fault, Healthy, Inv, KeyInv
      <3> QED BY <3>2, <3>3, <3>4 DEF Excused
    <2> QED BY <1>1, <1>2, <1>3, <1>f, <2>1, <2>2, RenameKeeps
  <1>4. CASE Intact /\ Layout = Between(r) /\ Rename("candidate", "active") /\ UNCHANGED record
    <2>1. /\ keys["active"] = None /\ keys["candidate"] = r.candidate
          /\ keys["retained"] = r.original
      BY <1>4, LayoutFacts
    <2>2. ASSUME keys' = [keys EXCEPT !["candidate"] = None, !["active"] = keys["candidate"]]
          PROVE  RotationOK(r)' /\ (Excused(r) => Excused(r)')
      <3>1. /\ keys'["active"] = r.candidate /\ keys'["retained"] = r.original
            /\ keys'["candidate"] = None
        BY <1>2, <2>1, <2>2 DEF Inv, KeyInv
      <3>2. Layout' = After(r)'
        BY <3>1 DEF Layout, After
      <3>3. RotationOK(r)'
        BY <1>1, <1>2, <1>4, <1>f, <3>2 DEF RotationOK
      <3>4. Excused(r) => faults > 0 \/ journal["active"] # None
        BY <2>1 DEF Excused
      <3>5. faults > 0 => faults' > 0
        BY <1>4 DEF Rename, Fault, Healthy, Inv, KeyInv
      <3> QED BY <1>f, <3>3, <3>4, <3>5 DEF Excused
    <2> QED BY <1>1, <1>2, <1>4, <1>f, <2>1, <2>2, RenameKeeps
  <1>5. CASE /\ Intact /\ Layout = After(r)
             /\ LET next == [r EXCEPT !.phase = "activated"]
                IN  \/ record' = {next} /\ DoneIf(journal["candidate"] = None) /\ Healthy
                    \/ Fault /\ Torn(record, {next}) /\ Answer("failed")
             /\ UNCHANGED keys
    <2> DEFINE s == [r EXCEPT !.phase = "activated"]
    <2>1. /\ s \in Rotation /\ s.request = r.request /\ s.original = r.original
          /\ s.candidate = r.candidate /\ s.phase = "activated"
      BY <1>2 DEF Rotation, Phases
    <2>2. \/ record' = {s} /\ Answer("done") /\ Healthy
          \/ Fault /\ Answer("failed") /\ record' \in {record, {s}}
      BY <1>2, <1>5 DEF Torn, DoneIf
    <2> HIDE DEF s
    <2>3. RotationOK(s)'
      <3>1. Layout' = After(s)'
        BY <1>5, <2>1 DEF Layout, After
      <3> QED BY <1>1, <1>2, <1>5, <1>f, <2>1, <3>1 DEF RotationOK
    <2>4. ASSUME record' = {s}, Fault \/ Healthy
          PROVE  KeyInv' /\ KeysKept /\ RecordKept /\ ExcusesKept
      BY <1>5, <1>f, <2>1, <2>3, <2>4, RecordMoves
    <2>5. ASSUME record' = record, Fault \/ Healthy
          PROVE  KeyInv' /\ KeysKept /\ RecordKept /\ ExcusesKept
      BY <1>5, <1>f, <2>5, RecordStays DEF keyVars
    <2>6. CASE record' = {s} /\ Answer("done") /\ Healthy
      BY <1>1, <1>2, <1>f, <2>1, <2>4, <2>6, RotationDone
    <2>7. CASE Fault /\ Answer("failed") /\ record' \in {record, {s}}
      BY <1>f, <2>4, <2>5, <2>7, FaultCounts, KeyFails
    <2> QED BY <2>2, <2>6, <2>7
  <1>6. CASE /\ ~ (Intact /\ Layout \in {Before(r), Between(r), After(r)})
             /\ Answer("failed") /\ Healthy /\ UNCHANGED <<keys, record>>
    <2>1. Excused(r)
      <3>1. CASE Layout \notin {Before(r), Between(r), After(r)}
        <4>1. keys["candidate"] = r.candidate /\ keys["retained"] = r.original
          BY <1>1, <1>2, <3>1 DEF RotationOK
        <4>2. keys["active"] # None
          BY <3>1, <4>1, LayoutFacts
        <4>3. keys["active"] # keys["candidate"] /\ keys["active"] # keys["retained"]
          BY <1>2, <4>2 DEF Inv, KeyInv
        <4> QED BY <4>1, <4>2, <4>3 DEF Excused
      <3>2. CASE ~Intact
        <4>1. journal["active"] # None
          BY <1>2, <3>2, KeyTypes DEF Intact, Inv
        <4> QED BY <4>1 DEF Excused
      <3> QED BY <1>6, <3>1, <3>2
    <2>2. Excused(r)'
      BY <1>6, <1>f, <2>1 DEF Excused, Healthy
    <2> QED BY <1>2, <1>6, <1>f, <2>2, RecordStays, KeyFails DEF keyVars
  <1> QED BY <1>2, <1>3, <1>4, <1>5, <1>6 DEF Reconcile

LEMMA KeyStepKeeps ==
  ASSUME Inv, KeyStep, UNCHANGED <<repoVars, adminVars>>
  PROVE  Inv'
  BY EnsureKeeps, GenerateKeeps, ClearKeeps, PrepareNewKeeps, PrepareAgainKeeps, StageKeeps,
     TestKeeps, VerifyKeeps, ActivateKeeps, ReconcileKeeps DEF KeyStep

-----------------------------------------------------------------------------
(* The rows of an initialization *)

InitializationSteps == {"authorize", "execute", "answer"} \cup Publishing

(* What a step of the initialization leaves alone.                         *)
Around == /\ Landing' /\ baseline \subseteq landed'
          /\ UNCHANGED <<keyVars, adminVars>> /\ (Fault \/ Healthy)

LEMMA RepoFrame ==
  ASSUME Inv, UNCHANGED <<keyVars, adminVars>>, Fault \/ Healthy,
         job'.step \in InitializationSteps, JobInv', RepoInv', RepoJob', AnswerInv',
         AuthorityKept, baseline \subseteq baseline'
  PROVE  Inv'
  <1>1. KeyInv' /\ KeysKept /\ RecordKept /\ ExcusesKept /\ enrolled \subseteq enrolled'
    BY RecordStays
  <1>2. KeyJob'
    BY DEF KeyJob, InitializationSteps, Publishing
  <1>3. ReceiptInv'
    BY <1>1, ReceiptsKept DEF adminVars
  <1> QED BY <1>1, <1>2, <1>3 DEF Inv

LEMMA RepoAnswers ==
  ASSUME Inv, job.step # "idle", job.action \in {"initialize", LibraryCall},
         NEW result \in {"done", "blocked", "transient", "failed"}, Answer(result),
         UNCHANGED <<keyVars, adminVars>>, Fault \/ Healthy, RepoInv',
         AuthorityKept, baseline \subseteq baseline',
         result = "done" /\ job.action = "initialize" =>
           /\ job.request \in DOMAIN authority' /\ authority'[job.request].phase = "completed"
           /\ \E c \in baseline' : c.request = job.request
  PROVE  Inv'
  <1>1. /\ JobInv' /\ job'.step = "answer" /\ job'.result = result
        /\ job'.action = job.action /\ job'.request = job.request
    BY AnswerMoves, JobMoves DEF Inv, Results, JobSteps, adminVars
  <1>2. RepoJob'
    BY <1>1 DEF RepoJob, Publishing
  <1>3. result = "done" => Reached(job.request, job.action, Shown)'
    BY <1>1 DEF Reached, Rotations, LibraryCall
  <1>4. AnswerInv'
    BY <1>1, <1>3 DEF AnswerInv, None, LibraryCall
  <1> QED BY <1>1, <1>2, <1>4, RepoFrame DEF InitializationSteps

LEMMA RepoGoes ==
  ASSUME Inv, job.step # "idle", job.action \in {"initialize", LibraryCall},
         NEW step \in {"execute"} \cup Publishing, Go(step),
         UNCHANGED <<keyVars, adminVars>>, Fault \/ Healthy, RepoInv',
         AuthorityKept, baseline \subseteq baseline', job.request \in DOMAIN authority',
         step \in Publishing =>
           /\ authority'[job.request].phase = "authorized"
           /\ step # "capture" => job.request \in DOMAIN execution'
           /\ job.request \in DOMAIN execution' =>
                execution'[job.request].phase \notin {"completed", "blocked"}
  PROVE  Inv'
  <1>1. /\ JobInv' /\ job'.step = step /\ job'.action = job.action /\ job'.request = job.request
    BY GoMoves, JobMoves DEF Inv, Publishing, JobSteps, adminVars
  <1>2. RepoJob'
    BY <1>1 DEF RepoJob, Publishing
  <1>3. AnswerInv'
    BY <1>1 DEF AnswerInv, Publishing
  <1> QED BY <1>1, <1>2, <1>3, RepoFrame DEF InitializationSteps

LEMMA RowWritten ==
  ASSUME RepoInv, NEW q \in DOMAIN execution, NEW e \in Execution, NEW a \in Authority,
         execution' = [execution EXCEPT ![q] = e], authority' = [authority EXCEPT ![q] = a],
         Landing', baseline' \subseteq landed', baseline \subseteq baseline',
         a.phase = IF e.phase \in {"completed", "blocked"} THEN e.phase ELSE "authorized",
         (e.phase = "completed") <=> (\E c \in baseline' : c.request = q),
         \A c \in baseline' \ baseline : c.request = q
  PROVE  RepoInv'
  <1>1. /\ authority \in [DOMAIN authority -> Authority] /\ DOMAIN authority \subseteq Requests
        /\ execution \in [DOMAIN execution -> Execution]
        /\ DOMAIN execution \subseteq DOMAIN authority
    BY DEF RepoInv
  <1>2. /\ DOMAIN authority' = DOMAIN authority /\ DOMAIN execution' = DOMAIN execution
        /\ authority' \in [DOMAIN authority' -> Authority]
        /\ execution' \in [DOMAIN execution' -> Execution]
        /\ execution'[q] = e /\ authority'[q] = a
        /\ \A r \in DOMAIN execution : r # q => execution'[r] = execution[r]
                                                /\ authority'[r] = authority[r]
    BY <1>1
  <1>3. ASSUME NEW r \in DOMAIN execution
        PROVE  /\ authority'[r].phase = IF execution'[r].phase \in {"completed", "blocked"}
                                        THEN execution'[r].phase ELSE "authorized"
               /\ (execution'[r].phase = "completed") <=> (\E c \in baseline' : c.request = r)
    <2>1. CASE r = q
      BY <1>2, <2>1
    <2>2. CASE r # q
      <3>1. (\E c \in baseline' : c.request = r) <=> (\E c \in baseline : c.request = r)
        BY <2>2
      <3> QED BY <1>2, <2>2, <3>1 DEF RepoInv
    <2> QED BY <2>1, <2>2
  <1> QED BY <1>1, <1>2, <1>3 DEF RepoInv

(* The row of the request is open, and so is its authority.                *)
Held == /\ job.step \in {"execute"} \cup Publishing /\ job.step # "idle"
        /\ job.action \in {"initialize", LibraryCall} /\ job.request \in Requests
        /\ job.request \in DOMAIN authority /\ job.request \in DOMAIN execution
        /\ authority[job.request].phase = "authorized"
        /\ execution[job.request].phase \notin {"completed", "blocked"}

LEMMA HeldFacts ==
  ASSUME Inv, Held
  PROVE  /\ Mine \in Execution /\ authority[Request] \in Authority
         /\ MyCommit \in Commits /\ MyCommit.request = Request
         /\ \A c \in baseline : c.request # Request
  <1>1. Mine \in Execution /\ authority[Request] \in Authority
    BY DEF Inv, RepoInv, Held, Mine, Request
  <1>2. Mine.content \in Contents
    BY <1>1 DEF Execution
  <1>3. MyCommit \in Commits /\ MyCommit.request = Request
    BY <1>2, NameFacts DEF MyCommit, Commit, Request, Held
  <1>4. \A c \in baseline : c.request # Request
    BY DEF Inv, RepoInv, Held, Request
  <1> QED BY <1>1, <1>3, <1>4

BlockReasons == {"key_changed", "authority_invalid", "repository_diverged", "source_changed",
                 "attempts_exhausted", "transport_rejected"}

LEMMA BlockKeeps ==
  ASSUME Inv, Held, NEW reason \in BlockReasons, Block(reason), Around
  PROVE  Inv'
  <1> DEFINE e == [Mine EXCEPT !.phase = "blocked", !.reason = reason, !.due = FALSE]
             a == [authority[Request] EXCEPT !.phase = "blocked", !.reason = "execution_blocked"]
  <1>1. e \in Execution /\ e.phase = "blocked" /\ a \in Authority /\ a.phase = "blocked"
    BY HeldFacts DEF Execution, Authority, BlockReasons
  <1>2. /\ execution' = [execution EXCEPT ![Request] = e]
        /\ authority' = [authority EXCEPT ![Request] = a]
        /\ UNCHANGED baseline /\ Answer("blocked")
    BY DEF Block, Mine
  <1>3. Request = job.request /\ Request \in DOMAIN execution
    BY DEF Held, Request
  <1> HIDE DEF e, a
  <1>4. RepoInv'
    <2>1. \A q, x, y : /\ q \in DOMAIN execution /\ x \in Execution /\ y \in Authority
                       /\ execution' = [execution EXCEPT ![q] = x]
                       /\ authority' = [authority EXCEPT ![q] = y]
                       /\ x.phase = "blocked" /\ y.phase = "blocked"
                       /\ \A c \in baseline : c.request # q
                       => RepoInv'
      BY <1>2, RowWritten DEF Inv, Around
    <2> QED BY <1>1, <1>2, <1>3, <2>1, HeldFacts
  <1>5. AuthorityKept
    BY <1>2, <1>3 DEF AuthorityKept, Held
  <1> QED BY <1>2, <1>4, <1>5, RepoAnswers DEF Held, Around

LEMMA CompleteKeeps ==
  ASSUME Inv, Held, Complete, remote.main = MyCommit, Around, landed' = landed
  PROVE  Inv'
  <1>1. CASE baseline \subseteq {MyCommit}
    <2>c. PICK m, q : m = MyCommit /\ q = Request
      OBVIOUS
    <2> DEFINE e == [Mine EXCEPT !.phase = "completed", !.due = FALSE]
               a == [authority[Request] EXCEPT !.phase = "completed"]
    <2>1. e \in Execution /\ e.phase = "completed" /\ a \in Authority /\ a.phase = "completed"
      BY HeldFacts DEF Execution, Authority
    <2>2. /\ execution' = [execution EXCEPT ![Request] = e]
          /\ authority' = [authority EXCEPT ![Request] = a]
          /\ baseline' = {m} /\ DoneIf(Mine.attempts > 0)
      BY <1>1, <2>c DEF Complete, Mine
    <2>3. q = job.request /\ q \in DOMAIN execution /\ m.request = q /\ m \in Commits
      BY <2>c, HeldFacts DEF Held, Request
    <2> HIDE DEF e, a
    <2>4. landed = {m}
      BY <2>3, <2>c DEF Inv, RepoInv, Landing
    <2>5. baseline \subseteq baseline' /\ baseline' \subseteq landed'
      BY <1>1, <2>c, <2>2, <2>4
    <2>6. RepoInv'
      <3>1. \A x, y : /\ x \in Execution /\ y \in Authority
                      /\ execution' = [execution EXCEPT ![q] = x]
                      /\ authority' = [authority EXCEPT ![q] = y]
                      /\ x.phase = "completed" /\ y.phase = "completed"
                      => RepoInv'
        BY <2>2, <2>3, <2>5, RowWritten DEF Inv, Around
      <3> QED BY <2>c, <2>1, <2>2, <3>1
    <2>7. /\ authority'[q].phase = "completed" /\ q \in DOMAIN authority'
          /\ AuthorityKept
      BY <2>c, <2>1, <2>2, <2>3 DEF AuthorityKept, Held
    <2> QED BY <2>2, <2>3, <2>5, <2>6, <2>7, RepoAnswers DEF Held, Around, DoneIf
  <1>2. CASE ~(baseline \subseteq {MyCommit})
    <2>1. Answer("failed") /\ UNCHANGED <<execution, authority, baseline>>
      BY <1>2 DEF Complete
    <2>2. RepoInv' /\ AuthorityKept
      BY <2>1 DEF Inv, RepoInv, Around, AuthorityKept
    <2> QED BY <2>1, <2>2, RepoAnswers DEF Held, Around
  <1> QED BY <1>1, <1>2

(* The row changes and stays open.                                         *)
LEMMA OpenRow ==
  ASSUME Inv, Held, NEW e \in Execution, e.phase \notin {"completed", "blocked"},
         execution' = [execution EXCEPT ![Request] = e], UNCHANGED <<authority, baseline>>, Around
  PROVE  /\ RepoInv' /\ AuthorityKept
         /\ Request \in DOMAIN execution' /\ execution'[Request] = e
  <1>1. Request \in DOMAIN execution /\ execution \in [DOMAIN execution -> Execution]
        /\ Request \in DOMAIN authority /\ authority \in [DOMAIN authority -> Authority]
    BY DEF Held, Request, Inv, RepoInv
  <1>q. PICK q, a : q = Request /\ a = authority[Request]
    OBVIOUS
  <1>2. authority' = [authority EXCEPT ![q] = a]
    BY <1>1, <1>q
  <1>3. a \in Authority /\ a.phase = "authorized" /\ \A c \in baseline : c.request # q
    BY <1>q, HeldFacts DEF Held, Request
  <1>4. RepoInv'
    BY <1>1, <1>2, <1>3, <1>q, RowWritten DEF Inv, Around
  <1> QED BY <1>1, <1>4 DEF AuthorityKept

LEMMA TransportKeeps ==
  ASSUME Inv, Held, NEW transient \in BOOLEAN, TransportFailure(transient), Around
  PROVE  Inv'
  <1>1. CASE transient /\ Mine.attempts < MaxTries
    <2> DEFINE e == [Mine EXCEPT !.phase = "retry", !.due = FALSE]
    <2>1. e \in Execution /\ e.phase = "retry"
      BY HeldFacts DEF Execution
    <2>2. /\ execution' = [execution EXCEPT ![Request] = e] /\ UNCHANGED <<authority, baseline>>
          /\ Answer("transient") \/ Answer("failed")
      BY <1>1 DEF TransportFailure
    <2> HIDE DEF e
    <2>3. RepoInv' /\ AuthorityKept
      <3>1. \A x : /\ x \in Execution /\ x.phase = "retry"
                   /\ execution' = [execution EXCEPT ![Request] = x]
                   => RepoInv' /\ AuthorityKept
        BY <2>2, OpenRow
      <3> QED BY <2>1, <2>2, <3>1
    <2> QED BY <2>2, <2>3, RepoAnswers DEF Held, Around
  <1>2. CASE ~(transient /\ Mine.attempts < MaxTries)
    <2>1. PICK reason \in BlockReasons : Block(reason)
      BY <1>2 DEF TransportFailure, BlockReasons
    <2> QED BY <2>1, BlockKeeps
  <1> QED BY <1>1, <1>2

LEMMA RowsStay ==
  ASSUME Inv, UNCHANGED <<execution, authority, baseline>>, Around
  PROVE  RepoInv' /\ AuthorityKept
  BY DEF Inv, RepoInv, Around, AuthorityKept

(* On to the next step with the row as it is.                              *)
LEMMA ProceedKeeps ==
  ASSUME Inv, job.step # "idle", job.action \in {"initialize", LibraryCall},
         job.request \in DOMAIN authority,
         authority[job.request].phase = "authorized",
         job.request \in DOMAIN execution =>
           execution[job.request].phase \notin {"completed", "blocked"},
         NEW step \in Publishing, step # "capture" => job.request \in DOMAIN execution,
         Proceed(step), Around
  PROVE  Inv'
  <1>1. Go(step) /\ UNCHANGED <<execution, authority, baseline>>
    BY DEF Proceed
  <1>2. RepoInv' /\ AuthorityKept
    BY <1>1, RowsStay
  <1> QED BY <1>1, <1>2, RepoGoes DEF Around

LEMMA ReconsiderKeeps ==
  ASSUME Inv, Held, NEW step \in {"capture", "publish"}, Reconsider(step), Landing',
         UNCHANGED <<keyVars, adminVars, remote, landed>>
  PROVE  Inv'
  <1>1. ASSUME Fault \/ Healthy PROVE Around
    BY <1>1 DEF Around, Inv, RepoInv
  <1>2. CASE /\ remote = [main |-> MyCommit, others |-> FALSE]
             /\ Complete /\ Healthy
    BY <1>1, <1>2, CompleteKeeps
  <1>3. CASE Block("repository_diverged") /\ Healthy
    BY <1>1, <1>3, BlockKeeps DEF BlockReasons
  <1>4. CASE Proceed(step) /\ Healthy
    BY <1>1, <1>4, ProceedKeeps DEF Held, Publishing
  <1>5. CASE TransportFailure(FALSE) /\ Healthy
    BY <1>1, <1>5, TransportKeeps
  <1>6. CASE Fault /\ TransportFailure(TRUE)
    BY <1>1, <1>6, TransportKeeps
  <1>7. CASE /\ SameKey
             /\ CASE remote = [main |-> MyCommit, others |-> FALSE] -> Complete
                  [] remote # Empty -> Block("repository_diverged")
                  [] OTHER -> Proceed(step)
             /\ Healthy
    <2>1. CASE remote = [main |-> MyCommit, others |-> FALSE] /\ Complete
      BY <1>2, <1>7, <2>1
    <2> QED BY <1>3, <1>4, <1>7, <2>1
  <1> QED BY <1>5, <1>6, <1>7 DEF Reconsider

LEMMA AtHeld ==
  ASSUME Inv, job.step \in Publishing \ {"capture"}
  PROVE  Held
  BY DEF Inv, RepoJob, JobInv, Held, Publishing

LEMMA RecoverKeeps ==
  ASSUME Inv, Recover, UNCHANGED adminVars
  PROVE  Inv'
  <1>1. Held /\ Landing' /\ UNCHANGED <<keyVars, adminVars, remote, landed>>
    BY AtHeld DEF Recover, At, Publishing, Inv, RepoInv, Landing
  <1> QED BY <1>1, ReconsiderKeeps DEF Recover

LEMMA RereadKeeps ==
  ASSUME Inv, Reread, UNCHANGED adminVars
  PROVE  Inv'
  <1>1. Held /\ Landing' /\ UNCHANGED <<keyVars, adminVars, remote, landed>>
    BY AtHeld DEF Reread, At, Publishing, Inv, RepoInv, Landing
  <1>2. ASSUME Healthy PROVE Around
    BY <1>1, <1>2 DEF Around, Inv, RepoInv
  <1>3. CASE Block("authority_invalid") /\ Healthy
    BY <1>1, <1>2, <1>3, BlockKeeps DEF BlockReasons
  <1>4. CASE Block("key_changed") /\ Healthy
    BY <1>1, <1>2, <1>4, BlockKeeps DEF BlockReasons
  <1>5. CASE Reconsider("publish")
    BY <1>1, <1>5, ReconsiderKeeps
  <1> QED BY <1>3, <1>4, <1>5 DEF Reread

LEMMA BeginPublishingKeeps ==
  ASSUME Inv, BeginPublishing, UNCHANGED adminVars
  PROVE  Inv'
  <1>1. Held /\ Around /\ Healthy
    BY AtHeld DEF BeginPublishing, At, Publishing, Inv, RepoInv, Landing, Around
  <1>2. CASE Block("attempts_exhausted")
    BY <1>1, <1>2, BlockKeeps DEF BlockReasons
  <1>3. CASE /\ ~(Mine.attempts >= MaxTries)
             /\ execution' = [execution EXCEPT ![Request].phase = "publishing",
                                               ![Request].attempts = @ + 1, ![Request].due = FALSE]
             /\ Go("push") /\ UNCHANGED <<authority, baseline>>
    <2> DEFINE n == Mine.attempts + 1
               e == [Mine EXCEPT !.phase = "publishing", !.attempts = n, !.due = FALSE]
    <2>1. n \in 0..MaxTries
      BY <1>1, <1>3, HeldFacts DEF Execution
    <2>2. e \in Execution /\ e.phase = "publishing"
      BY <1>1, <2>1, HeldFacts DEF Execution
    <2>3. execution' = [execution EXCEPT ![Request] = e]
      BY <1>3 DEF Mine
    <2> HIDE DEF n, e
    <2>4. /\ RepoInv' /\ AuthorityKept /\ Request \in DOMAIN execution'
          /\ execution'[Request].phase = "publishing"
      <3>1. \A x : /\ x \in Execution /\ x.phase = "publishing"
                   /\ execution' = [execution EXCEPT ![Request] = x]
                   => /\ RepoInv' /\ AuthorityKept /\ Request \in DOMAIN execution'
                      /\ execution'[Request] = x
        BY <1>1, <1>3, OpenRow
      <3> QED BY <2>2, <2>3, <3>1
    <2>5. /\ job.request \in DOMAIN execution' /\ job.request \in DOMAIN authority'
          /\ execution'[job.request].phase = "publishing"
          /\ authority'[job.request].phase = "authorized"
      <3>1. /\ job.request \in DOMAIN execution
            /\ DOMAIN execution' = DOMAIN execution
        BY <1>1, <1>3 DEF Held
      <3>2. execution[job.request] \in Execution /\ job.request = Request
        BY <1>1, HeldFacts DEF Mine, Request
      <3> QED BY <1>1, <1>3, <2>4, <3>1, <3>2 DEF Held, Request
    <2> QED BY <1>1, <1>3, <2>4, <2>5, RepoGoes DEF Held, Around, Publishing
  <1> QED BY <1>1, <1>2, <1>3 DEF BeginPublishing

LEMMA PushKeeps ==
  ASSUME Inv, Push, UNCHANGED adminVars
  PROVE  Inv'
  <1>1. Held /\ UNCHANGED <<keyVars, adminVars, source, foreign>>
    BY AtHeld DEF Push, At, Publishing
  <1>2. ASSUME UNCHANGED <<remote, landed>>, Fault \/ Healthy PROVE Around
    BY <1>1, <1>2 DEF Around, Inv, RepoInv, Landing
  <1>3. ASSUME remote.main = NoCommit, remote' = [remote EXCEPT !.main = MyCommit],
               landed' = landed \cup {MyCommit}, Fault \/ Healthy
        PROVE  Around
    <2>1. MyCommit \in Commits
      BY <1>1, HeldFacts
    <2>2. landed = {}
      BY <1>3, NameFacts DEF Inv, RepoInv, Landing
    <2>3. remote' \in Refs /\ remote'.main = MyCommit
      BY <1>3, <2>1 DEF Inv, RepoInv, Landing, Refs
    <2>4. Landing'
      BY <1>1, <1>3, <2>1, <2>2, <2>3 DEF Inv, RepoInv, Landing
    <2>5. baseline \subseteq landed'
      BY <1>3 DEF Inv, RepoInv
    <2> QED BY <1>1, <1>3, <2>4, <2>5 DEF Around
  <1>4. CASE Around /\ Proceed("confirm")
    BY <1>1, <1>4, ProceedKeeps DEF Held, Publishing
  <1>5. CASE \E transient \in BOOLEAN : Around /\ TransportFailure(transient)
    BY <1>1, <1>5, TransportKeeps
  <1> QED BY <1>2, <1>3, <1>4, <1>5 DEF Push

LEMMA ConfirmKeeps ==
  ASSUME Inv, Confirm, UNCHANGED adminVars
  PROVE  Inv'
  <1>1. Held /\ UNCHANGED <<keyVars, adminVars, source, remote, landed, foreign>>
    BY AtHeld DEF Confirm, At, Publishing
  <1>2. ASSUME Fault \/ Healthy PROVE Around
    BY <1>1, <1>2 DEF Around, Inv, RepoInv, Landing
  <1>3. CASE remote = [main |-> MyCommit, others |-> FALSE] /\ Complete /\ Healthy
    BY <1>1, <1>2, <1>3, CompleteKeeps
  <1>4. CASE Block("repository_diverged") /\ Healthy
    BY <1>1, <1>2, <1>4, BlockKeeps DEF BlockReasons
  <1>5. CASE Fault /\ TransportFailure(TRUE)
    BY <1>1, <1>2, <1>5, TransportKeeps
  <1> QED BY <1>3, <1>4, <1>5 DEF Confirm

(* A row is journaled for the snapshot that was captured.                  *)
LEMMA CaptureKeeps ==
  ASSUME Inv, Capture, UNCHANGED adminVars
  PROVE  Inv'
  <1>1. /\ job.step = "capture" /\ job.step # "idle" /\ job.action \in {"initialize", LibraryCall}
        /\ job.request \in Requests /\ job.request \in DOMAIN authority
        /\ authority[job.request].phase = "authorized" /\ Request = job.request
        /\ job.request \in DOMAIN execution =>
             execution[job.request].phase \notin {"completed", "blocked"}
        /\ UNCHANGED <<keyVars, adminVars, source, remote, landed, foreign>>
    BY DEF Capture, At, Inv, RepoJob, JobInv, Publishing, Request
  <1>2. ASSUME Fault \/ Healthy PROVE Around
    BY <1>1, <1>2 DEF Around, Inv, RepoInv, Landing
  <1>3. CASE /\ Request \notin DOMAIN execution
             /\ execution' = Put(execution, Request,
                                 [content |-> source, phase |-> "prepared", reason |-> None,
                                  attempts |-> 0, due |-> FALSE])
             /\ Go("reread") /\ Healthy /\ UNCHANGED <<authority, baseline>>
    <2> DEFINE e == [content |-> source, phase |-> "prepared", reason |-> None,
                     attempts |-> 0, due |-> FALSE]
    <2>1. e \in Execution /\ e.phase = "prepared"
      BY DEF Execution, Inv, RepoInv, Landing
    <2>2. execution' = Put(execution, Request, e)
      BY <1>3
    <2> HIDE DEF e
    <2>a. /\ DOMAIN execution' = DOMAIN execution \cup {Request}
          /\ \A q \in DOMAIN execution \cup {Request} :
               execution'[q] = IF q = Request THEN e ELSE execution[q]
          /\ execution' = [q \in DOMAIN execution \cup {Request} |-> execution'[q]]
      BY <2>2 DEF Put
    <2>b. \A q \in DOMAIN execution : execution[q] \in Execution
      BY DEF Inv, RepoInv
    <2>3. /\ DOMAIN execution' = DOMAIN execution \cup {Request} /\ execution'[Request] = e
          /\ \A q \in DOMAIN execution : execution'[q] = execution[q]
          /\ execution' \in [DOMAIN execution' -> Execution]
      BY <1>3, <2>1, <2>a, <2>b
    <2>4. \A c \in baseline : c.request # Request
      BY <1>3 DEF Inv, RepoInv
    <2>5. RepoInv'
      <3>1. Landing' /\ baseline' \subseteq landed' /\ UNCHANGED <<authority, baseline>>
        BY <1>2, <1>3 DEF Around
      <3>2. \A q \in DOMAIN execution' :
              /\ authority'[q].phase = IF execution'[q].phase \in {"completed", "blocked"}
                                       THEN execution'[q].phase ELSE "authorized"
              /\ (execution'[q].phase = "completed") <=> (\E c \in baseline' : c.request = q)
        <4> SUFFICES ASSUME NEW q \in DOMAIN execution'
                     PROVE  /\ authority'[q].phase = IF execution'[q].phase \in {"completed", "blocked"}
                                                     THEN execution'[q].phase ELSE "authorized"
                            /\ (execution'[q].phase = "completed")
                                 <=> (\E c \in baseline' : c.request = q)
          OBVIOUS
        <4>1. CASE q = Request
          BY <1>1, <2>1, <2>3, <2>4, <3>1, <4>1
        <4>2. CASE q # Request
          BY <2>3, <3>1, <4>2 DEF Inv, RepoInv
        <4> QED BY <4>1, <4>2
      <3>3. DOMAIN execution' \subseteq DOMAIN authority'
        BY <1>1, <2>3, <3>1 DEF Inv, RepoInv
      <3>4. \A c \in baseline' : c.request \in DOMAIN execution'
        BY <2>3, <3>1 DEF Inv, RepoInv
      <3>5. /\ authority' \in [DOMAIN authority' -> Authority] /\ DOMAIN authority' \subseteq Requests
        BY <3>1 DEF Inv, RepoInv
      <3> QED BY <2>3, <3>1, <3>2, <3>3, <3>4, <3>5 DEF RepoInv
    <2> QED BY <1>1, <1>3, <2>1, <2>3, <2>5, RepoGoes DEF Publishing, AuthorityKept
  <1>4. CASE Request \in DOMAIN execution /\ Block("source_changed") /\ Healthy
    BY <1>1, <1>2, <1>4, BlockKeeps DEF Held, Publishing, BlockReasons
  <1>5. CASE Request \in DOMAIN execution /\ Proceed("publish") /\ Healthy
    BY <1>1, <1>2, <1>5, ProceedKeeps DEF Publishing
  <1>6. CASE Fault /\ Unfinished("failed")
    BY <1>1, <1>2, <1>6, RowsStay, RepoAnswers DEF Unfinished
  <1> QED BY <1>3, <1>4, <1>5, <1>6 DEF Capture

LEMMA ProveKeeps ==
  ASSUME Inv, Prove, UNCHANGED adminVars
  PROVE  Inv'
  <1>1. /\ job.step = "begin" /\ job.step # "idle" /\ job.action = "initialize"
        /\ UNCHANGED <<keyVars, repoVars, adminVars>>
        /\ Fault \/ Healthy
    BY DEF Prove, At, Asks
  <1>2. RepoInv' /\ AuthorityKept /\ baseline' = baseline
    BY <1>1 DEF Inv, RepoInv, Landing, repoVars, AuthorityKept
  <1>3. CASE /\ Accepts("active")
             /\ job' = [job EXCEPT !.step = "authorize",
                                   !.proof = [key |-> keys["active"], refs |-> remote]]
    <2>1. keys["active"] \in Generations \cup {None} /\ keys["active"] # None /\ remote \in Refs
      BY <1>3, KeyTypes DEF Accepts, Inspectable, Inv, RepoInv, Landing
    <2>2. [key |-> keys["active"], refs |-> remote] \in [key : Generations \cup {None}, refs : Refs]
      BY <2>1
    <2>3. /\ job' \in [step : JobSteps \cup {"idle"}, action : Actions \cup {LibraryCall, None},
                       request : Requests \cup {None}, result : Results,
                       proof : [key : Generations \cup {None}, refs : Refs]]
          /\ job'.step = "authorize" /\ job'.action = job.action /\ job'.request = job.request
          /\ job'.proof.key = keys["active"]
      BY <1>3, <2>2 DEF Inv, JobInv, JobSteps
    <2>4. JobInv'
      BY <1>1, <2>3 DEF Inv, JobInv, Key, adminVars
    <2>5. RepoJob' /\ AnswerInv'
      BY <1>1, <2>1, <2>3 DEF RepoJob, AnswerInv, Publishing
    <2> QED BY <1>1, <1>2, <2>3, <2>4, <2>5, RepoFrame DEF InitializationSteps
  <1>4. CASE Answer("failed") \/ Answer("transient")
    BY <1>1, <1>2, <1>4, RepoAnswers
  <1> QED BY <1>3, <1>4 DEF Prove

LEMMA AuthorizeKeeps ==
  ASSUME Inv, Authorize, UNCHANGED adminVars
  PROVE  Inv'
  <1>1. /\ job.step = "authorize" /\ job.step # "idle" /\ job.action \in {"initialize", LibraryCall}
        /\ job.request \in Requests /\ Request = job.request /\ job.proof.key \in Generations
        /\ UNCHANGED <<keyVars, source, remote, execution, baseline, landed, foreign, adminVars>>
        /\ Fault \/ Healthy
    BY DEF Authorize, At, Inv, JobInv, RepoJob, Request
  <1>2. CASE (Answer("failed") \/ Answer("transient")) /\ UNCHANGED authority
    <2>1. RepoInv' /\ AuthorityKept
      BY <1>1, <1>2 DEF Inv, RepoInv, Landing, AuthorityKept
    <2> QED BY <1>1, <1>2, <2>1, RepoAnswers
  <1>3. ASSUME NEW row \in Authority, Request \notin DOMAIN authority,
               authority' = Put(authority, Request, row), Go("execute") \/ Answer("blocked")
        PROVE  Inv'
    <2>1. /\ DOMAIN authority' = DOMAIN authority \cup {Request}
          /\ \A q \in DOMAIN authority \cup {Request} :
               authority'[q] = IF q = Request THEN row ELSE authority[q]
          /\ authority' = [q \in DOMAIN authority \cup {Request} |-> authority'[q]]
      BY <1>3 DEF Put
    <2>2. \A q \in DOMAIN authority : authority[q] \in Authority
      BY DEF Inv, RepoInv
    <2>3. /\ authority' \in [DOMAIN authority' -> Authority]
          /\ \A q \in DOMAIN authority : authority'[q] = authority[q]
      BY <1>3, <2>1, <2>2
    <2>4. RepoInv'
      BY <1>1, <2>1, <2>3 DEF Inv, RepoInv, Landing
    <2>5. AuthorityKept /\ job.request \in DOMAIN authority'
      BY <1>1, <2>1, <2>3 DEF AuthorityKept
    <2> QED BY <1>1, <1>3, <2>4, <2>5, RepoAnswers, RepoGoes DEF Publishing
  <1>4. ASSUME NEW reason \in {None, "already_initialized", "repository_not_empty", "active_request"}
        PROVE  [phase |-> IF reason = None THEN "authorized" ELSE "blocked",
                reason |-> reason, key |-> job.proof.key] \in Authority
    BY <1>1 DEF Authority
  <1>5. (CASE baseline # {} -> "already_initialized"
           [] remote # Empty -> "repository_not_empty"
           [] \E r \in DOMAIN authority : authority[r].phase = "authorized" -> "active_request"
           [] OTHER -> None)
        \in {None, "already_initialized", "repository_not_empty", "active_request"}
    OBVIOUS
  <1> QED BY <1>2, <1>3, <1>4, <1>5 DEF Authorize

LEMMA ExecuteKeeps ==
  ASSUME Inv, Execute, UNCHANGED adminVars
  PROVE  Inv'
  <1>1. /\ job.step = "execute" /\ job.step # "idle" /\ job.action \in {"initialize", LibraryCall}
        /\ job.request \in Requests /\ job.request \in DOMAIN authority /\ Request = job.request
        /\ UNCHANGED <<keyVars, source, remote, landed, foreign, adminVars>> /\ Healthy
    BY DEF Execute, At, Inv, JobInv, RepoJob, Request
  <1>2. Around
    BY <1>1 DEF Around, Inv, RepoInv, Landing
  <1>3. CASE Unfinished("failed") \/ Unfinished("transient") \/ Unfinished("blocked")
    BY <1>1, <1>2, <1>3, RowsStay, RepoAnswers DEF Unfinished
  <1>4. CASE /\ Request \notin DOMAIN execution
             /\ authority[Request].phase = "authorized" /\ Proceed("capture")
    BY <1>1, <1>2, <1>4, ProceedKeeps DEF Publishing
  <1>5. CASE /\ Request \in DOMAIN execution /\ Mine.phase = "completed" /\ Unfinished("done")
    <2>1. authority[Request].phase = "completed" /\ \E c \in baseline : c.request = Request
      BY <1>5 DEF Inv, RepoInv, Mine
    <2> QED BY <1>1, <1>2, <1>5, <2>1, RowsStay, RepoAnswers DEF Unfinished
  <1>6. CASE /\ Request \in DOMAIN execution /\ Mine.phase \in {"completed", "blocked"}
             /\ Unfinished(CASE authority[Request].phase # Mine.phase -> "failed"
                             [] Mine.phase = "blocked" -> "blocked"
                             [] OTHER -> IF baseline = {MyCommit} THEN "done" ELSE "failed")
    <2>1. authority[Request].phase = Mine.phase
      BY <1>6 DEF Inv, RepoInv, Mine
    <2> QED BY <1>3, <1>5, <1>6, <2>1
  <1>7. CASE /\ Request \in DOMAIN execution /\ Mine.phase \notin {"completed", "blocked"}
             /\ CASE authority[Request].phase # "authorized" -> Unfinished("failed")
                  [] ~ ProofMatches -> Block("key_changed")
                  [] baseline # {} -> Block("authority_invalid")
                  [] OTHER -> Proceed("recover")
    <2>1. authority[Request].phase = "authorized"
      BY <1>7 DEF Inv, RepoInv, Mine
    <2>2. Held
      BY <1>1, <1>7, <2>1 DEF Held, Mine
    <2>3. CASE Block("key_changed") \/ Block("authority_invalid")
      BY <1>2, <2>2, <2>3, BlockKeeps DEF BlockReasons
    <2>4. CASE Proceed("recover")
      BY <1>2, <2>2, <2>4, ProceedKeeps DEF Held, Publishing
    <2> QED BY <1>7, <2>1, <2>3, <2>4
  <1> QED BY <1>1, <1>3, <1>4, <1>6, <1>7 DEF Execute

LEMMA RepoStepKeeps ==
  ASSUME Inv, RepoStep, UNCHANGED adminVars
  PROVE  Inv'
  BY ProveKeeps, AuthorizeKeeps, ExecuteKeeps, RecoverKeeps, CaptureKeeps, RereadKeeps,
     BeginPublishingKeeps, PushKeeps, ConfirmKeeps DEF RepoStep

-----------------------------------------------------------------------------
(* The control plane and the world around *)

(* There is no job any more.                                               *)
LEMMA JobEnds ==
  ASSUME job' = NoJob, plan' \in Plans, crashes' \in 0..MaxCrashes
  PROVE  JobInv' /\ KeyJob' /\ RepoJob' /\ AnswerInv'
  <1>1. NoProof \in [key : Generations \cup {None}, refs : Refs]
    BY DEF NoProof, Empty, Refs
  <1>2. job'.step = "idle"
    BY DEF NoJob
  <1>3. JobInv'
    BY <1>1 DEF JobInv, NoJob, Results
  <1> QED BY <1>2, <1>3 DEF KeyJob, RepoJob, Publishing, AnswerInv

(* The job is where it was, and so is everything it reached.               *)
LEMMA JobWaits ==
  ASSUME Inv, UNCHANGED <<keys, journal, record, job, faults, authority, baseline>>,
         enrolled \subseteq enrolled', enrolled' \subseteq Generations
  PROVE  /\ KeyInv' /\ KeyJob' /\ AnswerInv'
         /\ KeysKept /\ RecordKept /\ AuthorityKept /\ ExcusesKept
  <1>1. KeysKept /\ RecordKept /\ AuthorityKept
    BY NothingMoves DEF AuthorityKept
  <1>2. ExcusesKept
    BY DEF ExcusesKept, Excused
  <1>3. KeyInv'
    <2>1. ASSUME NEW r \in record PROVE RotationOK(r)'
      <3>1. RotationOK(r)
        BY DEF Inv, KeyInv
      <3>2. Layout' = Layout /\ Before(r)' = Before(r) /\ After(r)' = After(r)
        BY DEF Layout, Before, After
      <3> QED BY <3>1, <3>2 DEF RotationOK
    <2> QED BY <2>1 DEF Inv, KeyInv
  <1>4. KeyJob'
    BY DEF Inv, KeyJob, Target, Asks
  <1>5. AnswerInv'
    <2>1. Shown' = Shown
      BY DEF Shown
    <2>2. ASSUME Reached(job.request, job.action, Shown)
          PROVE  Reached(job.request, job.action, Shown)'
      <3>1. \A q, a, x : Reached(q, a, x) => Reached(q, a, x)'
        BY <1>1, ReachedKept
      <3>2. PICK q, a, x : q = job.request /\ a = job.action /\ x = Shown
        OBVIOUS
      <3>3. Reached(q, a, x)'
        BY <2>2, <3>1, <3>2
      <3> QED BY <2>1, <3>2, <3>3 DEF Reached
    <2>3. \A r \in record : Excused(r) => Excused(r)'
      BY DEF Excused
    <2> QED BY <2>2, <2>3 DEF Inv, AnswerInv
  <1> QED BY <1>1, <1>2, <1>3, <1>4, <1>5

LEMMA StartKeeps ==
  ASSUME Inv, Start
  PROVE  Inv'
  <1>1. PICK option \in plan :
          /\ option[2] # LibraryCall /\ Due(option)
          /\ job' = [NoJob EXCEPT !.step = IF option[2] = "generate" THEN "ensure" ELSE "begin",
                                  !.request = option[1], !.action = option[2]]
    BY DEF Start
  <1>2. UNCHANGED <<keyVars, repoVars, adminVars, faults>>
    BY DEF Start
  <1>3. /\ option = <<option[1], option[2]>> /\ option[1] \in Requests /\ option[2] \in Actions
    BY <1>1 DEF Inv, JobInv
  <1>4. NoProof \in [key : Generations \cup {None}, refs : Refs]
    BY DEF NoProof, Empty, Refs
  <1>5. /\ job' \in [step : JobSteps \cup {"idle"}, action : Actions \cup {LibraryCall, None},
                     request : Requests \cup {None}, result : Results,
                     proof : [key : Generations \cup {None}, refs : Refs]]
        /\ job'.step \in {"ensure", "begin"} /\ job'.request = option[1]
        /\ job'.action = option[2]
        /\ job'.step = "ensure" => job'.action = "generate"
    BY <1>1, <1>3, <1>4 DEF NoJob, JobSteps, Results
  <1>6. JobInv'
    <2>1. Key' = option
      BY <1>3, <1>5 DEF Key
    <2> QED BY <1>1, <1>2, <1>3, <1>5, <2>1 DEF Inv, JobInv, Due, adminVars
  <1>7. KeyJob' /\ RepoJob' /\ AnswerInv'
    BY <1>5 DEF KeyJob, RepoJob, AnswerInv, Publishing
  <1>8. KeyInv' /\ KeysKept /\ RecordKept /\ ExcusesKept /\ enrolled \subseteq enrolled'
    BY <1>2, RecordStays DEF Healthy
  <1>9. RepoInv' /\ AuthorityKept /\ baseline \subseteq baseline'
    BY <1>2 DEF Inv, RepoInv, Landing, repoVars, AuthorityKept
  <1>10. ReceiptInv'
    BY <1>2, <1>8, <1>9, ReceiptsKept DEF adminVars
  <1> QED BY <1>6, <1>7, <1>8, <1>9, <1>10 DEF Inv

LEMMA CallKeeps ==
  ASSUME Inv, Call
  PROVE  Inv'
  <1>1. PICK request \in DOMAIN authority :
          /\ <<request, LibraryCall>> \in plan
          /\ \E proof \in {[key |-> authority[request].key, refs |-> Empty],
                           [key |-> keys["active"], refs |-> remote]} :
               job' = [NoJob EXCEPT !.step = "execute", !.action = LibraryCall,
                                    !.request = request, !.proof = proof]
    BY DEF Call
  <1>2. UNCHANGED <<keyVars, repoVars, adminVars, faults>>
    BY DEF Call
  <1>3. PICK proof \in {[key |-> authority[request].key, refs |-> Empty],
                        [key |-> keys["active"], refs |-> remote]} :
          job' = [NoJob EXCEPT !.step = "execute", !.action = LibraryCall,
                               !.request = request, !.proof = proof]
    BY <1>1
  <1>4. proof \in [key : Generations \cup {None}, refs : Refs]
    <2>1. authority[request].key \in Generations /\ remote \in Refs /\ Empty \in Refs
      BY DEF Inv, RepoInv, Landing, Authority, Empty, Refs
    <2>2. keys["active"] \in Generations \cup {None}
      BY KeyTypes DEF Inv
    <2> QED BY <2>1, <2>2
  <1>5. /\ job' \in [step : JobSteps \cup {"idle"}, action : Actions \cup {LibraryCall, None},
                     request : Requests \cup {None}, result : Results,
                     proof : [key : Generations \cup {None}, refs : Refs]]
        /\ job'.step = "execute" /\ job'.request = request /\ job'.action = LibraryCall
    <2>1. request \in Requests
      BY DEF Inv, RepoInv
    <2> QED BY <1>3, <1>4, <2>1 DEF NoJob, JobSteps, Results
  <1>6. JobInv'
    <2>1. Key' \notin DOMAIN receipts
      BY <1>5 DEF Key, Inv, ReceiptInv, LibraryCall, Actions, Rotations
    <2> QED BY <1>1, <1>2, <1>5, <2>1 DEF Inv, JobInv, adminVars
  <1>7. KeyJob' /\ RepoJob' /\ AnswerInv'
    BY <1>2, <1>5 DEF KeyJob, RepoJob, AnswerInv, Publishing, repoVars
  <1>8. KeyInv' /\ KeysKept /\ RecordKept /\ ExcusesKept /\ enrolled \subseteq enrolled'
    BY <1>2, RecordStays DEF Healthy
  <1>9. RepoInv' /\ AuthorityKept /\ baseline \subseteq baseline'
    BY <1>2 DEF Inv, RepoInv, Landing, repoVars, AuthorityKept
  <1>10. ReceiptInv'
    BY <1>2, <1>8, <1>9, ReceiptsKept DEF adminVars
  <1> QED BY <1>6, <1>7, <1>8, <1>9, <1>10 DEF Inv

LEMMA CrashKeeps ==
  ASSUME Inv, Crash
  PROVE  Inv'
  <1>1. /\ UNCHANGED <<keyVars, repoVars, plan, receipts, faults>> /\ job' = NoJob
        /\ crashes' \in 0..MaxCrashes /\ plan' \in Plans
    BY DEF Crash, Inv, JobInv
  <1>2. KeyInv' /\ KeysKept /\ RecordKept /\ ExcusesKept /\ enrolled \subseteq enrolled'
    BY <1>1, RecordStays DEF Healthy
  <1>3. RepoInv' /\ AuthorityKept /\ baseline \subseteq baseline'
    BY <1>1 DEF Inv, RepoInv, Landing, repoVars, AuthorityKept
  <1>4. ReceiptInv'
    BY <1>1, <1>2, <1>3, ReceiptsKept
  <1> QED BY <1>1, <1>2, <1>3, <1>4, JobEnds DEF Inv

(* The receipt of an action shows a key, and was not tried too often.      *)
LEMMA SettledRow ==
  ASSUME Inv, job.step = "answer", job.action # LibraryCall
  PROVE  /\ Key \in Requests \X Actions /\ Key = <<job.request, job.action>>
         /\ Attempts \in 1..MaxAttempts /\ Shown \in Generations \cup {None}
  <1>1. Key \in Requests \X Actions
    BY KeyAdministrationAssumption DEF Inv, JobInv, Key
  <1>2. Attempts \in 1..MaxAttempts
    <2>1. CASE Key \in DOMAIN receipts
      <3>1. receipts[Key] \in Receipt /\ receipts[Key].status = "retry"
            /\ receipts[Key].attempts < MaxAttempts
        BY <2>1 DEF Inv, JobInv, ReceiptInv
      <3>2. receipts[Key].attempts \in 1..MaxAttempts
        BY <3>1 DEF Receipt
      <3> QED BY <2>1, <3>1, <3>2 DEF Attempts
    <2>2. CASE Key \notin DOMAIN receipts
      BY <2>2 DEF Attempts
    <2> QED BY <2>1, <2>2
  <1>3. Shown \in Generations \cup {None}
    <2>1. job.proof.key \in Generations \cup {None} /\ keys["active"] \in Generations \cup {None}
      BY KeyTypes DEF Inv, JobInv
    <2>2. CASE job.result # "done"
      BY <2>1, <2>2 DEF Shown
    <2>3. CASE job.result = "done" /\ job.action \in Rotations
      <3>1. Reached(job.request, job.action, Shown)
        BY <2>3 DEF Inv, AnswerInv
      <3>2. \E r \in record : r.candidate = Shown
        BY <2>3, <3>1 DEF Reached
      <3> QED BY <3>2, KeyTypes DEF Inv
    <2>4. CASE job.result = "done" /\ job.action \notin Rotations
      BY <2>1, <2>4 DEF Shown, Rotations
    <2> QED BY <2>2, <2>3, <2>4
  <1> QED BY <1>1, <1>2, <1>3 DEF Key

LEMMA SettleKeeps ==
  ASSUME Inv, Settle
  PROVE  Inv'
  <1>1. /\ UNCHANGED <<keyVars, repoVars, plan, crashes, faults>> /\ job' = NoJob
        /\ crashes' \in 0..MaxCrashes /\ plan' \in Plans /\ job.step = "answer"
    BY DEF Settle, At, Inv, JobInv
  <1>2. KeyInv' /\ KeysKept /\ RecordKept /\ ExcusesKept /\ enrolled \subseteq enrolled'
    BY <1>1, RecordStays DEF Healthy
  <1>3. RepoInv' /\ AuthorityKept /\ baseline \subseteq baseline'
    BY <1>1 DEF Inv, RepoInv, Landing, repoVars, AuthorityKept
  <1>4. CASE job.action = LibraryCall
    <2>1. ReceiptInv'
      BY <1>2, <1>3, <1>4, ReceiptsKept DEF Settle
    <2> QED BY <1>1, <1>2, <1>3, <2>1, JobEnds DEF Inv
  <1>5. CASE job.action # LibraryCall
    <2>1. PICK status : status = CASE job.result = "done" -> "completed"
                                   [] job.result = "transient" /\ Attempts < MaxAttempts -> "retry"
                                   [] OTHER -> "blocked"
      OBVIOUS
    <2>2. PICK attempts, key, mine : attempts = Attempts /\ key = Shown /\ mine = Key
      OBVIOUS
    <2>3. receipts' = Put(receipts, mine, [status |-> status, attempts |-> attempts,
                                           due |-> FALSE, key |-> key])
      BY <1>5, <2>1, <2>2 DEF Settle
    <2>4. /\ mine \in Requests \X Actions /\ mine = <<job.request, job.action>>
          /\ attempts \in 1..MaxAttempts /\ key \in Generations \cup {None}
      BY <1>1, <1>5, <2>2, SettledRow
    <2>5. /\ DOMAIN receipts' = DOMAIN receipts \cup {mine}
          /\ receipts'[mine] = [status |-> status, attempts |-> attempts,
                                due |-> FALSE, key |-> key]
          /\ \A k \in DOMAIN receipts : k # mine => receipts'[k] = receipts[k]
          /\ receipts' = [k \in DOMAIN receipts \cup {mine} |-> receipts'[k]]
      BY <2>3 DEF Put
    <2>6. /\ status \in {"retry", "completed", "blocked"}
          /\ status = "retry" => attempts < MaxAttempts
          /\ status = "completed" => job.result = "done"
          /\ status = "blocked" => job.result # "done"
      BY <2>1, <2>2
    <2>7. receipts'[mine] \in Receipt
      BY <2>4, <2>5, <2>6 DEF Receipt
    <2>8. \A q, a, x : Reached(q, a, x) => Reached(q, a, x)'
      BY <1>2, <1>3, ReachedKept
    <2>9. \A r : Excused(r) => Excused(r)'
      BY <1>1 DEF Excused, keyVars
    <2>10. ASSUME NEW k \in DOMAIN receipts, k # mine
           PROVE  /\ receipts'[k] \in Receipt /\ k \in Requests \X Actions
                  /\ receipts'[k].status = "retry" => receipts'[k].attempts < MaxAttempts
                  /\ receipts'[k].status = "completed" =>
                       Reached(k[1], k[2], receipts[k].key)'
                  /\ k[2] = "rotate_activate" /\ receipts'[k].status = "blocked" =>
                       \A r \in record' : r.request = k[1] /\ r.phase = "activating"
                                            => Excused(r)'
      <3>1. receipts'[k] = receipts[k]
        BY <2>5, <2>10
      <3>2. /\ receipts[k] \in Receipt /\ k \in Requests \X Actions
            /\ receipts[k].status = "retry" => receipts[k].attempts < MaxAttempts
            /\ receipts[k].status = "completed" => Reached(k[1], k[2], receipts[k].key)
            /\ k[2] = "rotate_activate" /\ receipts[k].status = "blocked" =>
                 \A r \in record : r.request = k[1] /\ r.phase = "activating" => Excused(r)
        BY DEF Inv, ReceiptInv
      <3>3. PICK x : x = receipts[k].key
        OBVIOUS
      <3>4. receipts[k].status = "completed" => Reached(k[1], k[2], x)'
        BY <2>8, <3>2, <3>3
      <3> QED BY <1>1, <2>9, <3>1, <3>2, <3>3, <3>4 DEF Reached, keyVars
    <2>11. status = "completed" => Reached(mine[1], mine[2], key)'
      <3>1. status = "completed" => Reached(mine[1], mine[2], key)
        BY <1>1, <2>2, <2>4, <2>6 DEF Inv, AnswerInv
      <3> QED BY <2>8, <3>1
    <2>12. mine[2] = "rotate_activate" /\ status = "blocked" =>
             \A r \in record' : r.request = mine[1] /\ r.phase = "activating" => Excused(r)'
      BY <1>1, <2>4, <2>6, <2>9 DEF Inv, AnswerInv, keyVars
    <2>13. ASSUME NEW k \in DOMAIN receipts'
           PROVE  /\ receipts'[k] \in Receipt /\ k \in Requests \X Actions
                  /\ receipts'[k].status = "retry" => receipts'[k].attempts < MaxAttempts
                  /\ receipts'[k].status = "completed" =>
                       Reached(k[1], k[2], receipts[k].key)'
                  /\ k[2] = "rotate_activate" /\ receipts'[k].status = "blocked" =>
                       \A r \in record' : r.request = k[1] /\ r.phase = "activating"
                                            => Excused(r)'
      <3>1. CASE k = mine
        BY <2>4, <2>5, <2>6, <2>7, <2>11, <2>12, <3>1 DEF Reached
      <3>2. CASE k # mine
        BY <2>5, <2>10, <3>2
      <3> QED BY <3>1, <3>2
    <2>14. ReceiptInv'
      BY <2>5, <2>13 DEF ReceiptInv
    <2> QED BY <1>1, <1>2, <1>3, <2>14, JobEnds DEF Inv
  <1> QED BY <1>4, <1>5

(* The job is left alone, and so is what it works on.                      *)
LEMMA JobStays ==
  ASSUME JobInv, UNCHANGED <<job, plan, crashes>>, DOMAIN receipts' = DOMAIN receipts,
         \A k \in DOMAIN receipts : receipts'[k].status = receipts[k].status
  PROVE  JobInv'
  <1>1. Key' = Key
    BY DEF Key
  <1> QED BY <1>1 DEF JobInv

LEMMA WaitKeeps ==
  ASSUME Inv, Wait
  PROVE  Inv'
  <1>1. UNCHANGED <<keyVars, source, remote, authority, baseline, landed, foreign, plan,
                    crashes, job, faults>>
    BY DEF Wait
  <1>2. /\ KeyInv' /\ KeyJob' /\ AnswerInv'
        /\ KeysKept /\ RecordKept /\ AuthorityKept /\ ExcusesKept
    BY <1>1, JobWaits DEF Inv, KeyInv, keyVars
  <1>3. CASE \E k \in DOMAIN receipts :
               /\ receipts[k].status = "retry" /\ ~ receipts[k].due
               /\ receipts' = [receipts EXCEPT ![k].due = TRUE]
               /\ UNCHANGED execution
    <2>1. PICK k \in DOMAIN receipts :
            /\ receipts[k].status = "retry" /\ ~ receipts[k].due
            /\ receipts' = [receipts EXCEPT ![k].due = TRUE]
            /\ UNCHANGED execution
      BY <1>3
    <2>2. /\ receipts \in [DOMAIN receipts -> Receipt]
          /\ DOMAIN receipts \subseteq Requests \X Actions
      BY DEF Inv, ReceiptInv
    <2>3. /\ DOMAIN receipts' = DOMAIN receipts /\ receipts' \in [DOMAIN receipts' -> Receipt]
          /\ \A q \in DOMAIN receipts : /\ receipts'[q].status = receipts[q].status
                                        /\ receipts'[q].attempts = receipts[q].attempts
                                        /\ receipts'[q].key = receipts[q].key
      BY <2>1, <2>2 DEF Receipt
    <2>4. JobInv'
      BY <1>1, <2>3, JobStays DEF Inv
    <2>5. RepoInv' /\ RepoJob'
      BY <1>1, <2>1 DEF Inv, RepoInv, Landing, RepoJob, Publishing
    <2>6. ReceiptInv'
      <3>1. ASSUME NEW q \in DOMAIN receipts, receipts[q].status = "completed"
            PROVE  Reached(q[1], q[2], receipts[q].key)'
        <4>1. PICK x : x = receipts[q].key
          OBVIOUS
        <4>2. Reached(q[1], q[2], x)
          BY <3>1, <4>1 DEF Inv, ReceiptInv
        <4>3. Reached(q[1], q[2], x)'
          BY <1>1, <1>2, <4>2, ReachedKept DEF keyVars
        <4> QED BY <2>3, <4>1, <4>3 DEF Reached
      <3>2. \A r : Excused(r)' <=> Excused(r)
        BY <1>1 DEF Excused, keyVars
      <3> QED BY <1>1, <2>2, <2>3, <3>1, <3>2 DEF Inv, ReceiptInv, keyVars
    <2> QED BY <1>2, <2>4, <2>5, <2>6 DEF Inv
  <1>4. CASE \E r \in DOMAIN execution :
               /\ execution[r].phase = "retry" /\ ~ execution[r].due
               /\ execution' = [execution EXCEPT ![r].due = TRUE]
               /\ UNCHANGED receipts
    <2>1. PICK r \in DOMAIN execution :
            /\ execution[r].phase = "retry" /\ ~ execution[r].due
            /\ execution' = [execution EXCEPT ![r].due = TRUE]
            /\ UNCHANGED receipts
      BY <1>4
    <2>2. execution \in [DOMAIN execution -> Execution]
      BY DEF Inv, RepoInv
    <2>3. /\ DOMAIN execution' = DOMAIN execution
          /\ execution' \in [DOMAIN execution' -> Execution]
          /\ \A q \in DOMAIN execution : execution'[q].phase = execution[q].phase
      <3> DEFINE row == [execution[r] EXCEPT !.due = TRUE]
      <3>1. row \in Execution /\ row.phase = execution[r].phase
        BY <2>2 DEF Execution
      <3>2. execution' = [execution EXCEPT ![r] = row]
        BY <2>1
      <3> HIDE DEF row
      <3>3. DOMAIN execution' = DOMAIN execution /\ execution'[r] = row
        BY <2>2, <3>2
      <3>4. \A q \in DOMAIN execution \ {r} : execution'[q] = execution[q]
        BY <2>2, <3>2
      <3>5. execution' \in [DOMAIN execution' -> Execution]
        BY <2>2, <3>1, <3>2, <3>3
      <3> QED BY <3>1, <3>3, <3>4, <3>5
    <2>4. JobInv'
      BY <1>1, <2>1, JobStays DEF Inv
    <2>5. RepoInv'
      BY <1>1, <2>3 DEF Inv, RepoInv, Landing
    <2>6. RepoJob'
      BY <1>1, <2>3 DEF Inv, RepoJob, Publishing
    <2>7. ReceiptInv'
      BY <1>1, <1>2, <2>1, ReceiptsKept DEF keyVars
    <2> QED BY <1>2, <2>4, <2>5, <2>6, <2>7 DEF Inv
  <1> QED BY <1>3, <1>4 DEF Wait

LEMMA EnrollKeeps ==
  ASSUME Inv, Enroll
  PROVE  Inv'
  <1>1. PICK k \in DOMAIN receipts :
          /\ k[2] \in {"generate", "rotate_prepare"} /\ receipts[k].status = "completed"
          /\ enrolled' = enrolled \cup {receipts[k].key}
    BY DEF Enroll
  <1>2. UNCHANGED <<keys, journal, record, repoVars, adminVars, job, faults>>
    BY DEF Enroll
  <1>3. receipts[k].key \in Generations
    <2>1. receipts[k].key \in Generations \cup {None} /\ Reached(k[1], k[2], receipts[k].key)
      BY <1>1 DEF Inv, ReceiptInv, Receipt
    <2>2. receipts[k].key # None
      BY <1>1, <2>1 DEF Reached, Rotations
    <2> QED BY <2>1, <2>2
  <1>4. enrolled \subseteq enrolled' /\ enrolled' \subseteq Generations
    BY <1>1, <1>3 DEF Inv, KeyInv
  <1>5. /\ KeyInv' /\ KeyJob' /\ AnswerInv'
        /\ KeysKept /\ RecordKept /\ AuthorityKept /\ ExcusesKept
    BY <1>2, <1>4, JobWaits DEF repoVars
  <1>6. RepoInv' /\ RepoJob'
    BY <1>2 DEF Inv, RepoInv, Landing, RepoJob, Publishing, repoVars
  <1>7. JobInv'
    BY <1>2, JobStays DEF Inv, adminVars
  <1>8. ReceiptInv'
    BY <1>2, <1>4, <1>5, ReceiptsKept DEF repoVars, adminVars
  <1> QED BY <1>5, <1>6, <1>7, <1>8 DEF Inv

(* The configuration and the repository belong to others.                  *)
LEMMA WorldKeeps ==
  ASSUME Inv, Landing',
         UNCHANGED <<keyVars, job, faults, authority, execution, baseline, landed, adminVars>>
  PROVE  Inv'
  <1>1. /\ KeyInv' /\ KeyJob' /\ AnswerInv'
        /\ KeysKept /\ RecordKept /\ AuthorityKept /\ ExcusesKept
    BY JobWaits DEF Inv, KeyInv, keyVars
  <1>2. RepoInv' /\ RepoJob'
    BY DEF Inv, RepoInv, RepoJob, Publishing
  <1>3. JobInv'
    BY JobStays DEF Inv, adminVars
  <1>4. ReceiptInv'
    BY <1>1, ReceiptsKept DEF keyVars, adminVars
  <1> QED BY <1>1, <1>2, <1>3, <1>4 DEF Inv

LEMMA CreateRefKeeps ==
  ASSUME Inv, CreateRef, UNCHANGED adminVars
  PROVE  Inv'
  <1>1. Landing
    BY DEF Inv, RepoInv
  <1>2. foreign' \in 0..MaxForeign /\ UNCHANGED <<source, landed>>
    BY <1>1 DEF CreateRef, Landing
  <1>3. remote' \in Refs /\ (remote'.main \in Commits <=> remote.main \in Commits)
        /\ (remote.main \in Commits => remote'.main = remote.main)
    BY <1>1, NameFacts DEF CreateRef, Landing, Refs
  <1>4. Landing'
    BY <1>1, <1>2, <1>3 DEF Landing
  <1> QED BY <1>4, WorldKeeps DEF CreateRef

LEMMA EditKeeps ==
  ASSUME Inv, Edit, UNCHANGED adminVars
  PROVE  Inv'
  <1>1. Landing'
    BY DEF Edit, Inv, RepoInv, Landing
  <1> QED BY <1>1, WorldKeeps DEF Edit

LEMMA StepInv == Inv /\ [Next]_vars => Inv'
  <1> SUFFICES ASSUME Inv, [Next]_vars PROVE Inv'
    OBVIOUS
  <1>1. CASE Next
    BY <1>1, StartKeeps, CallKeeps, SettleKeeps, CrashKeeps, WaitKeeps, EnrollKeeps,
       KeyStepKeeps, RepoStepKeeps, EditKeeps, CreateRefKeeps DEF Next
  <1>2. CASE UNCHANGED vars
    <2>1. Landing'
      BY <1>2 DEF Inv, RepoInv, Landing, vars, repoVars
    <2> QED BY <1>2, <2>1, WorldKeeps DEF vars, repoVars, adminVars
  <1> QED BY <1>1, <1>2

LEMMA Inductive == Spec => []Inv
  BY InitInv, StepInv, PTL DEF Spec

-----------------------------------------------------------------------------
(* What follows *)

LEMMA InvTypeOK == Inv => TypeOK
  <1> SUFFICES ASSUME Inv PROVE TypeOK
    OBVIOUS
  <1>1. KeyTypeOK
    <2>1. Cardinality(record) <= 1
      BY SingleIsSmall DEF Inv, KeyInv
    <2> QED BY <2>1 DEF Inv, KeyInv, KeyTypeOK
  <1>2. RepoTypeOK
    <2>1. landed \subseteq Commits /\ Single(landed)
      BY DEF Inv, RepoInv, Landing, Single
    <2>2. baseline \subseteq Commits /\ Single(baseline)
      BY <2>1 DEF Inv, RepoInv, Single
    <2>3. Cardinality(baseline) <= 1
      BY <2>2, SingleIsSmall
    <2> QED BY <2>1, <2>2, <2>3 DEF Inv, RepoInv, RepoTypeOK, Landing, Refs
  <1>3. /\ DOMAIN receipts \subseteq Requests \X Actions
        /\ \A k \in DOMAIN receipts : receipts[k] \in Receipt
    BY DEF Inv, ReceiptInv
  <1>4. /\ plan \in Plans /\ crashes \in 0..MaxCrashes
        /\ \/ job = NoJob
           \/ /\ job.step \in JobSteps /\ <<job.request, job.action>> \in plan
              /\ job.result \in {None, "done", "blocked", "transient", "failed"}
    BY DEF Inv, JobInv, Results
  <1> QED BY <1>1, <1>2, <1>3, <1>4 DEF TypeOK

LEMMA InvDescribes == Inv => RecordDescribesDirectories
  <1> SUFFICES ASSUME Inv, NEW r \in record
               PROVE  /\ r.phase \in {"prepared", "verified"} => Layout = Before(r)
                      /\ r.phase = "activating" =>
                           /\ keys["active"] = r.original \/ keys["retained"] = r.original
                           /\ keys["candidate"] = r.candidate \/ keys["active"] = r.candidate
                      /\ r.phase = "activated" => Layout = After(r)
    BY InvTypeOK DEF RecordDescribesDirectories
  <1>1. RotationOK(r)
    BY KeyTypes DEF Inv
  <1>2. r.phase \in {"prepared", "verified"} => Layout = Before(r)
    BY <1>1, LayoutFacts DEF RotationOK
  <1>3. r.phase = "activating" =>
          /\ keys["active"] = r.original \/ keys["retained"] = r.original
          /\ keys["candidate"] = r.candidate \/ keys["active"] = r.candidate
    BY <1>1, LayoutFacts DEF RotationOK
  <1> QED BY <1>1, <1>2, <1>3 DEF RotationOK

LEMMA InvProven == Inv => ActiveIsProven
  <1> SUFFICES ASSUME Inv, NEW r \in record, keys["active"] = r.candidate
               PROVE  r.candidate \in enrolled /\ r.phase \in {"activating", "activated"}
    BY DEF ActiveIsProven
  <1> QED BY KeyTypes DEF Inv, RotationOK, Phases

LEMMA InvStrands == Inv => CrashNeverStrandsActivation
  BY DEF Inv, ReceiptInv, CrashNeverStrandsActivation, Excused

LEMMA InvTrue == Inv => ReceiptsAreTrue
  <1> SUFFICES ASSUME Inv, NEW k \in DOMAIN receipts, receipts[k].status = "completed"
               PROVE  CASE k[2] = "generate" -> \E d \in Directories : keys[d] = receipts[k].key
                        [] k[2] = "initialize" ->
                             authority[k[1]].phase = "completed"
                             /\ \E c \in baseline : c.request = k[1]
                        [] k[2] \in Rotations ->
                             \E r \in record :
                               /\ r.request = k[1] /\ r.candidate = receipts[k].key
                               /\ k[2] = "rotate_verify" => r.candidate \in enrolled
                               /\ k[2] = "rotate_activate" => r.phase = "activated"
                        [] OTHER -> receipts[k].key \in enrolled
    BY DEF ReceiptsAreTrue
  <1>1. Reached(k[1], k[2], receipts[k].key) /\ k[2] \in Actions
    BY DEF Inv, ReceiptInv
  <1>2. CASE k[2] = "generate"
    BY <1>1, <1>2 DEF Reached, Rotations
  <1>3. CASE k[2] = "initialize"
    BY <1>1, <1>3 DEF Reached, Rotations
  <1>4. CASE k[2] \in Rotations
    <2>1. \E r \in record :
            /\ r.request = k[1] /\ r.candidate = receipts[k].key
            /\ k[2] = "rotate_verify" => r.candidate \in enrolled
            /\ k[2] = "rotate_activate" => r.phase = "activated"
      BY <1>1, <1>4 DEF Reached
    <2>2. k[2] # "generate" /\ k[2] # "initialize"
      BY <1>4 DEF Rotations
    <2> QED BY <1>4, <2>1, <2>2
  <1>5. CASE k[2] = "test"
    BY <1>1, <1>5 DEF Reached, Rotations
  <1> QED BY <1>1, <1>2, <1>3, <1>4, <1>5 DEF Actions

LEMMA InvOnce == Inv => InitializedOnce
  <1> SUFFICES ASSUME Inv PROVE InitializedOnce
    OBVIOUS
  <1>1. Single(landed)
    BY DEF Inv, RepoInv, Landing, Single
  <1>2. Cardinality(landed) <= 1
    BY <1>1, SingleIsSmall
  <1> QED BY <1>2 DEF Inv, RepoInv, InitializedOnce

(* Only a new generation and the renames of an activation touch the        *)
(* directories, and each fills an empty one.                               *)
LEMMA KeepsKeys == Inv /\ [Next]_vars => KeysKept
  <1> SUFFICES ASSUME Inv, [Next]_vars PROVE KeysKept
    OBVIOUS
  <1>1. CASE UNCHANGED keys
    BY <1>1 DEF KeysKept
  <1>2. CASE GenerateKey
    <2>1. keys \in [Directories -> Generations \cup {None}]
      BY DEF Inv, KeyInv
    <2>2. keys[Target] = None
      BY <1>2 DEF GenerateKey, At, Inv, KeyJob
    <2>3. \/ UNCHANGED keys
          \/ keys' = [keys EXCEPT ![Target] = journal[Target]]
      BY <1>2 DEF GenerateKey, Torn
    <2> QED BY <2>1, <2>2, <2>3 DEF KeysKept
  <1>3. CASE Reconcile
    <2>1. keys \in [Directories -> Generations \cup {None}]
      BY DEF Inv, KeyInv
    <2>2. ASSUME NEW from \in Directories, NEW to \in Directories, from # to,
                 keys[to] = None, Rename(from, to)
          PROVE  KeysKept
      <3>1. \/ UNCHANGED keys
            \/ keys' = [keys EXCEPT ![from] = None, ![to] = keys[from]]
        BY <2>2 DEF Rename, Torn
      <3> QED BY <2>1, <2>2, <3>1 DEF KeysKept
    <2>3. PICK r \in record :
            \/ Layout = Before(r) /\ Rename("active", "retained")
            \/ Layout = Between(r) /\ Rename("candidate", "active")
            \/ UNCHANGED keys
      BY <1>3 DEF Reconcile
    <2>4. CASE Layout = Before(r) /\ Rename("active", "retained")
      BY <2>2, <2>4, LayoutFacts DEF Directories
    <2>5. CASE Layout = Between(r) /\ Rename("candidate", "active")
      BY <2>2, <2>5, LayoutFacts DEF Directories
    <2> QED BY <1>1, <2>3, <2>4, <2>5
  <1>4. UNCHANGED keys \/ GenerateKey \/ Reconcile
    <2>1. CASE KeyStep
      BY <2>1 DEF KeyStep, EnsureKey, ClearJournal, PrepareNew, PrepareAgain, Stage, TestKey,
                  Verify, Activate, keyVars
    <2>2. CASE RepoStep
      BY <2>2 DEF RepoStep, Prove, Authorize, Execute, Recover, Capture, Reread,
                  BeginPublishing, Push, Confirm, keyVars
    <2>3. CASE ~ KeyStep /\ ~ RepoStep
      BY <2>3 DEF Next, Start, Call, Settle, Crash, Wait, Enroll, Edit, CreateRef, vars, keyVars
    <2> QED BY <2>1, <2>2, <2>3
  <1> QED BY <1>1, <1>2, <1>3, <1>4

-----------------------------------------------------------------------------
(* Theorems *)

(* The state has its type and the rotation record describes the key        *)
(* directories, wherever the writes and renames of deploy_key_rotation.py  *)
(* are interrupted.                                                        *)
THEOREM RecordIsTrue == Spec => []RecordDescribesDirectories
  BY Inductive, InvDescribes, PTL

(* Whatever actions the operator configures in whatever order, the key in  *)
(* use after a rotation is one GitHub accepted first.                      *)
THEOREM OnlyProvenKeysAreUsed == Spec => []ActiveIsProven
  BY Inductive, InvProven, PTL

(* Stops of the app alone never make _reconcile_activation give up.        *)
THEOREM ActivationSurvivesCrashes == Spec => []CrashNeverStrandsActivation
  BY Inductive, InvStrands, PTL

(* What a completed receipt of deploy_key_administration.py answers is     *)
(* true now, however long ago it was written.                              *)
THEOREM CompletedReceiptsAreTrue == Spec => []ReceiptsAreTrue
  BY Inductive, InvTrue, PTL

(* One commit of ours at most reaches an empty Repo B, and the rows of     *)
(* _finish_atomically agree about it.                                      *)
THEOREM OneInitialization == Spec => []InitializedOnce
  BY Inductive, InvOnce, PTL

(* No step of the generation or the rotation loses a key.                  *)
THEOREM NoKeyIsLost == Spec => KeysAreKept
  <1>1. Inv /\ [Next]_vars => [KeysKept]_vars
    BY KeepsKeys
  <1> QED BY <1>1, Inductive, PTL DEF Spec, KeysAreKept, KeysKept
=============================================================================

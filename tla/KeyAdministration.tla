------------------------- MODULE KeyAdministration -------------------------
(***************************************************************************)
(* The operator's control plane over the deploy key, as                    *)
(* deploy_key_administration.py runs it once at each start of the app: one *)
(* configured action of one request, answered from its durable receipt or  *)
(* performed and then recorded.  Between the effect of the action and its  *)
(* receipt the app can be stopped; the next start performs it again.       *)
(***************************************************************************)
EXTENDS RepoInitialization

CONSTANTS
  Plans,         \* sets of options, a request with an action, that an operator configures
  MaxAttempts,   \* MAX_ATTEMPTS of a receipt
  MaxCrashes     \* bound: stops of the app in the middle of an action

Rotations == {"rotate_prepare", "rotate_verify", "rotate_activate"}
Actions == {"generate", "test", "initialize"} \cup Rotations
LibraryCall == "execute"

ASSUME KeyAdministrationAssumption ==
  /\ Plans \subseteq SUBSET (Requests \X (Actions \cup {LibraryCall}))
  /\ MaxAttempts \in Nat \ {0} /\ MaxTries \in Nat \ {0}
  /\ MaxFaults \in Nat /\ MaxForeign \in Nat /\ MaxCrashes \in Nat

VARIABLES
  plan,      \* the options of this operator
  receipts,  \* <<request, action>> -> its receipt
  crashes    \* stops so far

adminVars == <<plan, receipts, crashes>>
vars == <<keyVars, repoVars, adminVars, job, faults>>

NoJob == [step |-> "idle", action |-> None, request |-> None, result |-> None,
          proof |-> NoProof]
JobSteps == {"begin", "ensure", "keygen", "clear", "stage", "rename", "authorize", "execute",
             "recover", "capture", "reread", "publish", "push", "confirm", "answer"}
Receipt == [status : {"retry", "completed", "blocked"}, attempts : 1..MaxAttempts,
            due : BOOLEAN, key : Generations \cup {None}]

TypeOK ==
  /\ KeyTypeOK /\ RepoTypeOK
  /\ plan \in Plans
  /\ DOMAIN receipts \subseteq Requests \X Actions
  /\ \A k \in DOMAIN receipts : receipts[k] \in Receipt
  /\ crashes \in 0..MaxCrashes
  /\ \/ job = NoJob
     \/ /\ job.step \in JobSteps /\ <<job.request, job.action>> \in plan
        /\ job.result \in {None, "done", "blocked", "transient", "failed"}

Init ==
  /\ KeyInit /\ RepoInit
  /\ plan \in Plans
  /\ receipts = <<>> /\ crashes = 0
  /\ job = NoJob

-----------------------------------------------------------------------------

Key == <<job.request, job.action>>

(* apply_deploy_key_administrative_request: a receipt that is settled, or  *)
(* waits for its next attempt, is replayed and nothing happens.            *)
Due(k) == k \in DOMAIN receipts => receipts[k].status = "retry" /\ receipts[k].due

Start ==
  /\ job = NoJob
  /\ \E option \in plan :
       /\ option[2] # LibraryCall /\ Due(option)
       /\ job' = [NoJob EXCEPT !.step = IF option[2] = "generate" THEN "ensure" ELSE "begin",
                               !.request = option[1], !.action = option[2]]
  /\ UNCHANGED <<keyVars, repoVars, adminVars, faults>>

(* execute_authorized_repo_b_initialization called by itself, with the     *)
(* proof the authority was given or with one taken now.                    *)
Call ==
  /\ job = NoJob
  /\ \E request \in DOMAIN authority :
       /\ <<request, LibraryCall>> \in plan
       /\ \E proof \in {[key |-> authority[request].key, refs |-> Empty],
                        [key |-> keys["active"], refs |-> remote]} :
            job' = [NoJob EXCEPT !.step = "execute", !.action = LibraryCall,
                              !.request = request, !.proof = proof]
  /\ UNCHANGED <<keyVars, repoVars, adminVars, faults>>

(* The generation a receipt shows: the candidate's while there is a        *)
(* rotation, otherwise the one in use.                                     *)
Shown ==
  IF job.result # "done" THEN IF job.result = "blocked" THEN job.proof.key ELSE None
  ELSE CASE job.action \in Rotations -> (CHOOSE r \in record : TRUE).candidate
         [] job.action = "initialize" -> job.proof.key
         [] OTHER -> keys["active"]

Attempts == 1 + (IF Key \in DOMAIN receipts THEN receipts[Key].attempts ELSE 0)

(* _save_receipt: only a transient error is retried, and not for ever.     *)
Settle ==
  /\ At("answer")
  /\ receipts' =
       IF job.action = LibraryCall THEN receipts
       ELSE Put(receipts, Key,
                [status |-> CASE job.result = "done" -> "completed"
                              [] job.result = "transient" /\ Attempts < MaxAttempts -> "retry"
                              [] OTHER -> "blocked",
                 attempts |-> Attempts, due |-> FALSE, key |-> Shown])
  /\ job' = NoJob
  /\ UNCHANGED <<keyVars, repoVars, plan, crashes, faults>>

(* The app is stopped: what is in memory is gone.                          *)
Crash ==
  /\ job # NoJob /\ crashes < MaxCrashes
  /\ crashes' = crashes + 1
  /\ job' = NoJob
  /\ UNCHANGED <<keyVars, repoVars, plan, receipts, faults>>

(* next_attempt_at of a receipt or of an execution row passes.             *)
Wait ==
  /\ \/ \E k \in DOMAIN receipts :
          /\ receipts[k].status = "retry" /\ ~ receipts[k].due
          /\ receipts' = [receipts EXCEPT ![k].due = TRUE]
          /\ UNCHANGED execution
     \/ \E r \in DOMAIN execution :
          /\ execution[r].phase = "retry" /\ ~ execution[r].due
          /\ execution' = [execution EXCEPT ![r].due = TRUE]
          /\ UNCHANGED receipts
  /\ UNCHANGED <<keyVars, source, remote, authority, baseline, landed, foreign, plan,
                 crashes, job, faults>>

(* The operator adds a public key a receipt showed to Repo B.              *)
Enroll ==
  /\ \E k \in DOMAIN receipts :
       /\ k[2] \in {"generate", "rotate_prepare"} /\ receipts[k].status = "completed"
       /\ receipts[k].key \notin enrolled
       /\ enrolled' = enrolled \cup {receipts[k].key}
  /\ UNCHANGED <<keys, journal, record, repoVars, adminVars, job, faults>>

Next ==
  \/ Start \/ Call \/ Settle \/ Crash \/ Wait \/ Enroll
  \/ KeyStep /\ UNCHANGED <<repoVars, adminVars>>
  \/ RepoStep /\ UNCHANGED adminVars
  \/ Edit /\ UNCHANGED adminVars
  \/ CreateRef /\ UNCHANGED adminVars

Spec == Init /\ [][Next]_vars

-----------------------------------------------------------------------------
(* Properties *)

(* The rotation record and the directories tell the same story at every    *)
(* point where the app can be stopped: before activation the original is   *)
(* in use beside its candidate, after it the candidate is in use and the   *)
(* original retained, in between neither is lost and each is in one of two *)
(* places (deploy_key_rotation.py _reconcile_activation).                  *)
RecordDescribesDirectories ==
  /\ TypeOK
  /\ \A r \in record :
       /\ r.phase \in {"prepared", "verified"} => Layout = Before(r)
       /\ r.phase = "activating" =>
            /\ keys["active"] = r.original \/ keys["retained"] = r.original
            /\ keys["candidate"] = r.candidate \/ keys["active"] = r.candidate
       /\ r.phase = "activated" => Layout = After(r)

(* No step discards a key generation: neither a rename over a directory,   *)
(* nor a generation made while another is in the way.                      *)
KeysAreKept ==
  [][\A d \in Directories : keys[d] # None => \E e \in Directories : keys'[e] = keys[d]]_vars

(* A candidate is in use only when GitHub accepted it before: the operator *)
(* can start the three actions in any order and stop the app anywhere.     *)
ActiveIsProven ==
  \A r \in record : keys["active"] = r.candidate =>
    r.candidate \in enrolled /\ r.phase \in {"activating", "activated"}

(* Stopping the app, however often, never strands an activation: its       *)
(* receipt is blocked only after a fault of the disk, or once a third key  *)
(* was begun in the empty place.                                           *)
CrashNeverStrandsActivation ==
  \A r \in record, k \in DOMAIN receipts :
    /\ k[1] = r.request /\ k[2] = "rotate_activate"
    /\ r.phase = "activating" /\ receipts[k].status = "blocked"
    => \/ faults > 0
       \/ keys["active"] \notin {r.original, r.candidate, None}
       \/ journal["active"] # None

(* A completed receipt is true when it is shown, and stays true: the       *)
(* replay of an action answers from the receipt alone.                     *)
ReceiptsAreTrue ==
  \A k \in DOMAIN receipts : receipts[k].status = "completed" =>
    CASE k[2] = "generate" -> \E d \in Directories : keys[d] = receipts[k].key
      [] k[2] = "initialize" ->
           authority[k[1]].phase = "completed" /\ \E c \in baseline : c.request = k[1]
      [] k[2] \in Rotations ->
           \E r \in record :
             /\ r.request = k[1] /\ r.candidate = receipts[k].key
             /\ k[2] = "rotate_verify" => r.candidate \in enrolled
             /\ k[2] = "rotate_activate" => r.phase = "activated"
      [] OTHER -> receipts[k].key \in enrolled

(* Repo B is initialized once: at most one of our commits ever lands,      *)
(* the baseline is that commit, and execution and authority end together.  *)
InitializedOnce ==
  /\ Cardinality(landed) <= 1 /\ baseline \subseteq landed
  /\ \A r \in DOMAIN execution :
       /\ execution[r].phase \in {"completed", "blocked"} =>
            authority[r].phase = execution[r].phase
       /\ execution[r].phase = "completed" <=> \E c \in baseline : c.request = r

(* The control plane takes up a publication that was interrupted after     *)
(* GitHub had accepted it                                                  *)
(* (src/docs/deploy-key-operator-controls.md: "reconciles an interrupted   *)
(* publish against the exact remote commit before deciding whether to      *)
(* retry or block").                                                       *)
InterruptedPublishIsReconciled ==
  \A r \in DOMAIN execution :
    /\ execution[r].phase = "publishing"
    /\ remote = [main |-> Commit(r, execution[r].content), others |-> FALSE]
    /\ <<r, "initialize">> \in DOMAIN receipts
    => receipts[<<r, "initialize">>].status # "blocked"

(* An execution row that a transaction committed can be loaded again       *)
(* (repo_initialization_execution.py _execution_from_row).                 *)
RowsAreReadable == \A r \in DOMAIN execution : Readable(execution[r])

=============================================================================

---------------------------- MODULE KeyRotation ----------------------------
(***************************************************************************)
(* The deploy key of Repo B on the disk of the app and its rotation:       *)
(* deploy_key.py generates one key generation, deploy_key_access.py proves *)
(* it against GitHub, deploy_key_rotation.py replaces it in three explicit *)
(* actions.  Every durable write or rename is a step of its own, because   *)
(* the process can be stopped between any two of them; KeyAdministration   *)
(* starts the actions, stops the process and keeps the receipts.           *)
(*                                                                         *)
(* The rotation lock only excludes a second process, and there is none.    *)
(***************************************************************************)
EXTENDS Naturals, FiniteSets

CONSTANTS
  Requests,      \* UUIDs the operator configures
  Generations,   \* key generations ssh-keygen can still produce
  MaxFaults      \* bound: faults of the disk, ssh-keygen or the network

None == "none"

(* A generation and a request have a name of their own; the second also    *)
(* sets the commits of a request apart from what somebody else commits.    *)
ASSUME NamesAssumption == None \notin Generations /\ Requests \cap {None, "foreign"} = {}

VARIABLES
  keys,       \* the generation each key directory holds
  journal,    \* the generation each generation journal names
  record,     \* the rotation record, if any
  enrolled,   \* generations GitHub accepts (external)
  job,        \* the administrative action in progress, in memory
  faults      \* faults so far

keyVars == <<keys, journal, record, enrolled>>

Directories == {"active", "candidate", "retained"}
Phases == {"preparing", "prepared", "verified", "activating", "activated", "blocked"}

Rotation == [request : Requests, phase : Phases, original : Generations,
             candidate : Generations \cup {None},
             reason : {None, "generation_failed", "access_failed", "proof_mismatch"}]

KeyTypeOK ==
  /\ keys \in [Directories -> Generations \cup {None}]
  /\ journal \in [Directories -> Generations \cup {None}]
  /\ Cardinality(record) <= 1 /\ record \subseteq Rotation
  /\ enrolled \subseteq Generations
  /\ faults \in 0..MaxFaults

KeyInit ==
  /\ keys = [d \in Directories |-> None]
  /\ journal = [d \in Directories |-> None]
  /\ record = {}
  /\ enrolled = {}
  /\ faults = 0

-----------------------------------------------------------------------------
(* The job: where it is, and what it answers to the control plane *)

At(step) == job.step = step
Asks(action) == job.action = action
Go(step) == job' = [job EXCEPT !.step = step]
Answer(result) == job' = [job EXCEPT !.step = "answer", !.result = result]
DoneIf(condition) == Answer(IF condition THEN "done" ELSE "failed")

Fault == /\ faults < MaxFaults /\ faults' = faults + 1
Healthy == UNCHANGED faults

(* A write, unlink or rename that raises has taken place or has not: what  *)
(* follows it, an fsync of the directory, can be what raised.              *)
Torn(var, new) == var' \in {var, new}

-----------------------------------------------------------------------------
(* One key generation: deploy_key.py *)

(* inspect_repo_b_deploy_key: a complete directory and no journal.         *)
Inspectable(d) == keys[d] # None /\ journal[d] = None

(* A rotation works beside the key in use.                                 *)
Target == IF Asks("generate") THEN "active" ELSE "candidate"

Blocked(r, reason) == [r EXCEPT !.phase = "blocked", !.reason = reason]

(* The preparation fails: the record is blocked, unless the disk refuses   *)
(* that write too.                                                         *)
PreparationFails(possible) ==
  /\ Answer("failed")
  /\ \E r \in possible :
       record' \in {{Blocked(r, "generation_failed")}}
                   \cup (IF faults < MaxFaults THEN {record, {r}} ELSE {})

Ensured == /\ IF Asks("generate") THEN Answer("done") ELSE Go("stage")
           /\ UNCHANGED record

NotEnsured == IF Asks("generate") THEN Answer("failed") /\ UNCHANGED record
              ELSE PreparationFails(record)

Unused == Generations \ ({keys[d] : d \in Directories} \cup {journal[d] : d \in Directories})

(* Faulty variant: a generation that exists is not looked for.             *)
EnsureOver ==
  /\ At("ensure") /\ Unused # {}
  /\ journal' = [journal EXCEPT ![Target] = CHOOSE g \in Unused : TRUE]
  /\ Go("keygen") /\ Healthy
  /\ UNCHANGED <<keys, record, enrolled>>

(* journal.unlink() and the fsync of its directory.                        *)
RemoveJournal ==
  LET removed == [journal EXCEPT ![Target] = None]
  IN  \/ journal' = removed /\ Ensured /\ Healthy
      \/ Fault /\ Torn(journal, removed) /\ NotEnsured

(* ensure_repo_b_deploy_key up to the journal: an existing generation is   *)
(* replayed, and a journal that names it is what a crash left behind.      *)
EnsureKey ==
  /\ At("ensure")
  /\ \/ /\ keys[Target] # None /\ journal[Target] \in {None, keys[Target]}
        /\ RemoveJournal
     \/ /\ journal[Target] \notin {None, keys[Target]}
        /\ NotEnsured /\ Healthy /\ UNCHANGED journal
     \/ /\ keys[Target] = None /\ journal[Target] = None /\ Unused # {}
        /\ LET named == [journal EXCEPT ![Target] = CHOOSE g \in Unused : TRUE]
           IN  \/ journal' = named /\ Go("keygen") /\ Healthy /\ UNCHANGED record
               \/ Fault /\ Torn(journal, named) /\ NotEnsured
  /\ UNCHANGED <<keys, enrolled>>

(* ssh-keygen fills a temporary directory, published by one os.replace.    *)
GenerateKey ==
  /\ At("keygen")
  /\ LET generated == [keys EXCEPT ![Target] = journal[Target]]
     IN  \/ keys' = generated /\ Go("clear") /\ Healthy /\ UNCHANGED record
         \/ Fault /\ Torn(keys, generated) /\ NotEnsured
  /\ UNCHANGED <<journal, enrolled>>

ClearJournal == At("clear") /\ RemoveJournal /\ UNCHANGED <<keys, enrolled>>

-----------------------------------------------------------------------------
(* The rotation record against the directories *)

Layout == <<keys["active"], keys["candidate"], keys["retained"]>>
Before(r) == <<r.original, r.candidate, None>>
Between(r) == <<None, r.candidate, r.original>>
After(r) == <<r.candidate, None, r.original>>

Intact == \A d \in Directories : keys[d] # None => journal[d] = None

(* _validate_record_generations                                            *)
ValidGenerations(r) ==
  /\ journal["candidate"] = None
  /\ CASE r.phase = "activating" -> Intact /\ Layout \in {Before(r), Between(r), After(r)}
       [] r.phase = "activated" -> Intact /\ Layout = After(r)
       [] OTHER ->
            /\ Inspectable("active") /\ keys["active"] = r.original
            /\ IF r.candidate = None
               THEN r.phase \in {"preparing", "blocked"} /\ keys["candidate"] = None
               ELSE Intact /\ Layout = Before(r)

-----------------------------------------------------------------------------
(* prepare_repo_b_deploy_key_rotation *)

(* The intent is durable before ssh-keygen runs.                           *)
PrepareNew ==
  /\ At("begin") /\ Asks("rotate_prepare") /\ record = {}
  /\ LET r == [request |-> job.request, phase |-> "preparing", original |-> keys["active"],
               candidate |-> None, reason |-> None]
     IN  IF Inspectable("active") /\ keys["candidate"] = None
            /\ keys["retained"] = None /\ journal["candidate"] = None
         THEN \/ record' = {r} /\ Go("ensure") /\ Healthy
              \/ Fault /\ Answer("failed")
                 /\ record' \in {{}, {r}, {Blocked(r, "generation_failed")}}
         ELSE Answer("failed") /\ Healthy /\ UNCHANGED record
  /\ UNCHANGED <<keys, journal, enrolled>>

(* Faulty variant: any request replays the rotation of another.            *)
PrepareAny ==
  /\ At("begin") /\ Asks("rotate_prepare")
  /\ \E r \in record : DoneIf(ValidGenerations(r) /\ r.candidate # None)
  /\ Healthy /\ UNCHANGED keyVars

(* _replay_prepare: the same request again.  A candidate directory that is *)
(* already there is inspected, which a left-over journal makes fail.       *)
PrepareAgain ==
  /\ At("begin") /\ Asks("rotate_prepare")
  /\ \E r \in record :
       LET original == Inspectable("active") /\ keys["active"] = r.original
       IN  \/ /\ r.request = job.request /\ original /\ r.phase = "preparing"
              /\ IF keys["candidate"] = None
                 THEN Go("ensure") /\ Healthy /\ UNCHANGED record
                 ELSE IF Inspectable("candidate") THEN Go("stage") /\ Healthy /\ UNCHANGED record
                      ELSE PreparationFails(record) /\ Healthy
           \/ /\ ~ (r.request = job.request /\ original /\ r.phase = "preparing")
              /\ DoneIf(/\ r.request = job.request /\ r.phase # "blocked"
                        /\ r.phase \in {"activating", "activated"} \/ original
                        /\ ValidGenerations(r))
              /\ Healthy /\ UNCHANGED record
  /\ UNCHANGED <<keys, journal, enrolled>>

(* The candidate is named in the record, which is prepared from then on.   *)
Stage ==
  /\ At("stage")
  /\ \E r \in record :
       LET staged == [r EXCEPT !.candidate = keys["candidate"], !.phase = "prepared"]
       IN  \/ record' = {staged} /\ Answer("done") /\ Healthy
           \/ Fault /\ PreparationFails({staged})
  /\ UNCHANGED <<keys, journal, enrolled>>

-----------------------------------------------------------------------------
(* verify_repo_b_deploy_key_rotation and the access test *)

(* test_repo_b_deploy_key_access: GitHub knows the repository and accepts  *)
(* the key for reading.                                                    *)
Accepts(d) == Inspectable(d) /\ keys[d] \in enrolled

TestKey ==
  /\ At("begin") /\ Asks("test")
  /\ \/ DoneIf(Accepts("active")) /\ Healthy
     \/ Fault /\ Answer("transient")
  /\ UNCHANGED keyVars

CanVerify(r) == r.request = job.request /\ ValidGenerations(r) /\ r.phase = "prepared"

Verified(r) ==
  CASE ~ Accepts("candidate") -> Blocked(r, "access_failed")
    [] keys["candidate"] # r.candidate -> Blocked(r, "proof_mismatch")
    [] OTHER -> [r EXCEPT !.phase = "verified"]

Verify ==
  /\ At("begin") /\ Asks("rotate_verify")
  /\ \/ /\ ~ \E r \in record : CanVerify(r)
        /\ DoneIf(\E r \in record : /\ r.request = job.request /\ ValidGenerations(r)
                                    /\ r.phase \in {"verified", "activating", "activated"})
        /\ Healthy /\ UNCHANGED record
     \/ \E r \in record :
          /\ CanVerify(r)
          /\ \/ /\ record' = {Verified(r)} /\ Healthy
                /\ DoneIf(Verified(r).phase = "verified")
             \/ Fault /\ Answer("transient") /\ UNCHANGED record
             \/ Fault /\ Answer("failed") /\ Torn(record, {Verified(r)})
  /\ UNCHANGED <<keys, journal, enrolled>>

-----------------------------------------------------------------------------
(* activate_repo_b_deploy_key_rotation *)

(* Faulty variant: a candidate that was only prepared is activated.        *)
ActivateUnverified ==
  /\ At("begin") /\ Asks("rotate_activate")
  /\ \E r \in record :
       /\ r.request = job.request /\ r.phase \in {"prepared", "verified", "activating"}
       /\ record' = {[r EXCEPT !.phase = "activating"]}
  /\ Go("rename") /\ Healthy
  /\ UNCHANGED <<keys, journal, enrolled>>

(* Faulty variant: an activation that was begun is not taken up again.     *)
ActivateOnce ==
  /\ At("begin") /\ Asks("rotate_activate")
  /\ \E r \in record :
       IF r.request = job.request /\ r.phase = "verified" /\ ValidGenerations(r)
       THEN record' = {[r EXCEPT !.phase = "activating"]} /\ Go("rename")
       ELSE UNCHANGED record /\ DoneIf(r.request = job.request /\ r.phase = "activated")
  /\ Healthy
  /\ UNCHANGED <<keys, journal, enrolled>>

(* The intent is durable before the first rename.                          *)
Activate ==
  /\ At("begin") /\ Asks("rotate_activate")
  /\ \/ /\ ~ \E r \in record : /\ r.request = job.request
                               /\ r.phase \in {"verified", "activating"}
        /\ DoneIf(\E r \in record : /\ r.request = job.request
                                    /\ r.phase = "activated" /\ ValidGenerations(r))
        /\ Healthy /\ UNCHANGED record
     \/ \E r \in record :
          /\ r.request = job.request /\ r.phase = "activating"
          /\ Go("rename") /\ Healthy /\ UNCHANGED record
     \/ \E r \in record :
          /\ r.request = job.request /\ r.phase = "verified"
          /\ LET next == [r EXCEPT !.phase = "activating"]
             IN  IF ValidGenerations(r)
                 THEN \/ record' = {next} /\ Go("rename") /\ Healthy
                      \/ Fault /\ Answer("failed") /\ Torn(record, {next})
                 ELSE Answer("failed") /\ Healthy /\ UNCHANGED record
  /\ UNCHANGED <<keys, journal, enrolled>>

(* Rename a directory and fsync its parent: either can raise.              *)
Rename(source, destination) ==
  LET moved == [keys EXCEPT ![source] = None, ![destination] = keys[source]]
  IN  \/ keys' = moved /\ Go("rename") /\ Healthy
      \/ Fault /\ Torn(keys, moved) /\ Answer("failed")

(* Faulty variant: the record is written after the first rename.           *)
ReconcileEarly ==
  /\ At("rename")
  /\ \E r \in record :
       IF Layout = Before(r) THEN Rename("active", "retained") /\ UNCHANGED record
       ELSE /\ record' = {[r EXCEPT !.phase = "activated"]}
            /\ Answer("done") /\ Healthy /\ UNCHANGED keys
  /\ UNCHANGED <<journal, enrolled>>

(* _reconcile_activation: whichever of the two renames is still missing.   *)
Reconcile ==
  /\ At("rename")
  /\ \E r \in record :
       \/ /\ Intact /\ Layout = Before(r)
          /\ Rename("active", "retained") /\ UNCHANGED record
       \/ /\ Intact /\ Layout = Between(r)
          /\ Rename("candidate", "active") /\ UNCHANGED record
       \/ /\ Intact /\ Layout = After(r)
          /\ LET next == [r EXCEPT !.phase = "activated"]
             IN  \/ record' = {next} /\ DoneIf(journal["candidate"] = None) /\ Healthy
                 \/ Fault /\ Torn(record, {next}) /\ Answer("failed")
          /\ UNCHANGED keys
       \/ /\ ~ (Intact /\ Layout \in {Before(r), Between(r), After(r)})
          /\ Answer("failed") /\ Healthy /\ UNCHANGED <<keys, record>>
  /\ UNCHANGED <<journal, enrolled>>

KeyStep == EnsureKey \/ GenerateKey \/ ClearJournal \/ PrepareNew \/ PrepareAgain \/ Stage
           \/ TestKey \/ Verify \/ Activate \/ Reconcile

=============================================================================

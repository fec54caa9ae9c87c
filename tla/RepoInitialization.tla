------------------------- MODULE RepoInitialization -------------------------
(***************************************************************************)
(* The first commit of Repo B.  repo_initialization.py decides, in one     *)
(* transaction, whether a request may initialize the repository;           *)
(* repo_initialization_execution.py publishes one snapshot to the empty    *)
(* repository and records the baseline, the execution and the authority    *)
(* together.  As in KeyRotation each durable write, each look at GitHub    *)
(* and the push are steps of their own.                                    *)
(*                                                                         *)
(* The executor is reached in two ways: by the control plane's action      *)
(* "initialize", with evidence taken at this start of the app, and as the  *)
(* library call that repo_initialization.py keeps for "a future idempotent *)
(* executor" and the tests make, action "execute", with the evidence the   *)
(* authority was given or with a new proof.                                *)
(***************************************************************************)
EXTENDS KeyRotation

CONSTANTS
  Contents,       \* what the configuration can be
  MaxTries,       \* MAX_INITIALIZATION_ATTEMPTS
  MaxForeign      \* bound: refs somebody else creates in Repo B

VARIABLES
  source,      \* the configuration on disk
  remote,      \* the refs of Repo B: its main and whether there are others
  authority,   \* request -> its authority row
  execution,   \* request -> its execution row
  baseline,    \* the synchronization baseline of main, if any
  landed,      \* commits a push of ours put on main, history
  foreign      \* refs somebody else created

repoVars == <<source, remote, authority, execution, baseline, landed, foreign>>

(* The commit is a function of the snapshot and of the time of preparation *)
(* the request's row keeps.                                                *)
Commit(request, content) == [request |-> request, content |-> content]
NoCommit == Commit(None, None)
ForeignCommit == Commit("foreign", None)
Empty == [main |-> NoCommit, others |-> FALSE]
Commits == [request : Requests, content : Contents]

NoProof == [key |-> None, refs |-> Empty]
Authority == [phase : {"authorized", "blocked", "completed"},
              reason : {None, "already_initialized", "repository_not_empty",
                        "active_request", "execution_blocked"},
              key : Generations]
Execution == [content : Contents, phase : {"prepared", "publishing", "retry", "completed", "blocked"},
              reason : {None, "key_changed", "authority_invalid", "repository_diverged",
                        "source_changed", "attempts_exhausted", "transport_rejected"},
              attempts : 0..MaxTries, due : BOOLEAN]

RepoTypeOK ==
  /\ source \in Contents
  /\ remote \in [main : Commits \cup {NoCommit, ForeignCommit}, others : BOOLEAN]
  /\ DOMAIN authority \subseteq Requests /\ \A r \in DOMAIN authority : authority[r] \in Authority
  /\ DOMAIN execution \subseteq DOMAIN authority
  /\ \A r \in DOMAIN execution : execution[r] \in Execution
  /\ Cardinality(baseline) <= 1 /\ baseline \subseteq Commits
  /\ landed \subseteq Commits /\ foreign \in 0..MaxForeign

RepoInit ==
  /\ source \in Contents
  /\ remote = Empty
  /\ authority = <<>> /\ execution = <<>>
  /\ baseline = {} /\ landed = {} /\ foreign = 0

Request == job.request
Mine == execution[Request]
MyCommit == Commit(Request, Mine.content)
Put(rows, r, row) == [q \in DOMAIN rows \cup {r} |-> IF q = r THEN row ELSE rows[q]]

-----------------------------------------------------------------------------
(* Authority *)

(* The access test of the action: a proof binds the key and all the refs.  *)
Prove ==
  /\ At("begin") /\ Asks("initialize")
  /\ \/ Accepts("active") /\ Healthy
        /\ job' = [job EXCEPT !.step = "authorize",
                              !.proof = [key |-> keys["active"], refs |-> remote]]
     \/ ~ Accepts("active") /\ Answer("failed") /\ Healthy
     \/ Fault /\ Answer("transient")
  /\ UNCHANGED <<keyVars, repoVars>>

(* authorize_repo_b_initialization with the refs read once more.  A row of *)
(* the request must have been observed at this very time, and every start  *)
(* of the app observes at a time of its own.                               *)
Authorize ==
  /\ At("authorize")
  /\ LET reason == CASE baseline # {} -> "already_initialized"
                     [] remote # Empty -> "repository_not_empty"
                     [] \E r \in DOMAIN authority : authority[r].phase = "authorized" ->
                          "active_request"
                     [] OTHER -> None
         row == [phase |-> IF reason = None THEN "authorized" ELSE "blocked",
                 reason |-> reason, key |-> job.proof.key]
     IN  \/ /\ remote = job.proof.refs /\ Request \notin DOMAIN authority
            /\ authority' = Put(authority, Request, row)
            /\ IF reason = None THEN Go("execute") ELSE Answer("blocked")
            /\ Healthy
         \/ /\ remote # job.proof.refs \/ Request \in DOMAIN authority
            /\ Answer("failed") /\ Healthy /\ UNCHANGED authority
         \/ Fault /\ Answer("transient") /\ UNCHANGED authority
  /\ UNCHANGED <<keyVars, source, remote, execution, baseline, landed, foreign>>

-----------------------------------------------------------------------------
(* Execution *)

(* What _execution_from_row accepts of a row: anything else cannot be      *)
(* loaded again.                                                           *)
Readable(e) ==
  /\ e.phase = "prepared" => e.attempts = 0
  /\ e.phase \in {"publishing", "retry", "completed"} => e.attempts > 0

(* Faulty variant: the authority is left as it is.                         *)
BlockExecution(reason) ==
  /\ execution' = [execution EXCEPT ![Request].phase = "blocked", ![Request].reason = reason,
                                    ![Request].due = FALSE]
  /\ Answer("blocked")
  /\ UNCHANGED <<authority, baseline>>

(* _finish_atomically: execution, authority and baseline in one            *)
(* transaction.                                                            *)
Block(reason) ==
  /\ execution' = [execution EXCEPT ![Request].phase = "blocked", ![Request].reason = reason,
                                    ![Request].due = FALSE]
  /\ authority' = [authority EXCEPT ![Request].phase = "blocked",
                                    ![Request].reason = "execution_blocked"]
  /\ Answer("blocked")
  /\ UNCHANGED baseline

Complete ==
  IF baseline \subseteq {MyCommit}
  THEN /\ execution' = [execution EXCEPT ![Request].phase = "completed", ![Request].due = FALSE]
       /\ authority' = [authority EXCEPT ![Request].phase = "completed"]
       /\ baseline' = {MyCommit}
       /\ DoneIf(Mine.attempts > 0)
  ELSE Answer("failed") /\ UNCHANGED <<execution, authority, baseline>>

(* _transport_failure, and _access_failure, which hands on to it.  The row *)
(* is committed first and read back afterwards.                            *)
TransportFailure(transient) ==
  IF transient /\ Mine.attempts < MaxTries
  THEN LET retry == [Mine EXCEPT !.phase = "retry", !.due = FALSE]
       IN  /\ execution' = [execution EXCEPT ![Request] = retry]
           /\ Answer(IF Readable(retry) THEN "transient" ELSE "failed")
           /\ UNCHANGED <<authority, baseline>>
  ELSE Block(IF transient THEN "attempts_exhausted" ELSE "transport_rejected")

Unfinished(result) == Answer(result) /\ UNCHANGED <<execution, authority, baseline>>
Proceed(step) == Go(step) /\ UNCHANGED <<execution, authority, baseline>>

ProofMatches == job.proof = [key |-> authority[Request].key, refs |-> Empty]

(* The executor from the top: what the durable rows allow.                 *)
Execute ==
  /\ At("execute")
  /\ LET mine == Request \in DOMAIN execution IN
     \/ /\ ~ mine
        /\ IF Request \in DOMAIN authority /\ authority[Request].phase = "authorized"
           THEN Proceed("capture") ELSE Unfinished("failed")
     \/ /\ mine /\ ~ Readable(Mine)
        /\ Unfinished("failed")
     \/ /\ mine /\ Readable(Mine) /\ Mine.phase \in {"completed", "blocked"}
        /\ Unfinished(CASE authority[Request].phase # Mine.phase -> "failed"
                        [] Mine.phase = "blocked" -> "blocked"
                        [] OTHER -> IF baseline = {MyCommit} THEN "done" ELSE "failed")
     \/ /\ mine /\ Readable(Mine) /\ Mine.phase = "retry" /\ ~ Mine.due
        /\ Unfinished("transient")
     \/ /\ mine /\ Readable(Mine) /\ Mine.phase \notin {"completed", "blocked"}
        /\ Mine.phase = "retry" => Mine.due
        /\ CASE authority[Request].phase # "authorized" -> Unfinished("failed")
             [] ~ ProofMatches -> Block("key_changed")
             [] baseline # {} -> Block("authority_invalid")
             [] OTHER -> Proceed("recover")
  /\ Healthy
  /\ UNCHANGED <<keyVars, source, remote, landed, foreign>>

(* read_repo_b_deploy_key_references: the key the proof names is in use.   *)
SameKey == Inspectable("active") /\ keys["active"] = job.proof.key

(* Look at the refs and compare them with the journaled commit.            *)
Reconsider(step) ==
  \/ /\ SameKey
     /\ CASE remote = [main |-> MyCommit, others |-> FALSE] -> Complete
          [] remote # Empty -> Block("repository_diverged")
          [] OTHER -> Proceed(step)
     /\ Healthy
  \/ ~ SameKey /\ TransportFailure(FALSE) /\ Healthy
  \/ Fault /\ TransportFailure(TRUE)

(* A row that was left behind is compared with the remote before anything  *)
(* is captured.                                                            *)
Recover ==
  /\ At("recover")
  /\ Reconsider("capture")
  /\ UNCHANGED <<keyVars, source, remote, landed, foreign>>

(* Capture the snapshot and commit it; journal both, or compare them with  *)
(* what the row has.                                                       *)
Capture ==
  /\ At("capture")
  /\ \/ /\ Request \notin DOMAIN execution
        /\ execution' = Put(execution, Request,
                            [content |-> source, phase |-> "prepared", reason |-> None,
                             attempts |-> 0, due |-> FALSE])
        /\ Go("reread") /\ Healthy /\ UNCHANGED <<authority, baseline>>
     \/ /\ Request \in DOMAIN execution
        /\ IF Mine.content # source THEN Block("source_changed") ELSE Proceed("publish")
        /\ Healthy
     \/ Fault /\ Unfinished("failed")
  /\ UNCHANGED <<keyVars, source, remote, landed, foreign>>

Reread ==
  /\ At("reread")
  /\ IF baseline # {} THEN Block("authority_invalid") /\ Healthy
     ELSE IF ~ ProofMatches THEN Block("key_changed") /\ Healthy
     ELSE Reconsider("publish")
  /\ UNCHANGED <<keyVars, source, remote, landed, foreign>>

BeginPublishing ==
  /\ At("publish")
  /\ IF Mine.attempts >= MaxTries THEN Block("attempts_exhausted")
     ELSE /\ execution' = [execution EXCEPT ![Request].phase = "publishing",
                                            ![Request].attempts = @ + 1, ![Request].due = FALSE]
          /\ Go("push") /\ UNCHANGED <<authority, baseline>>
  /\ Healthy
  /\ UNCHANGED <<keyVars, source, remote, landed, foreign>>

(* push_publication_intent_with_deploy_key, require_repository_empty: a    *)
(* ref seen before the push, or a main the push would have to replace,     *)
(* rejects it; a ref created in between is not seen.                       *)
Push ==
  /\ At("push")
  /\ \/ /\ SameKey /\ remote.main = NoCommit
        /\ remote' = [remote EXCEPT !.main = MyCommit] /\ landed' = landed \cup {MyCommit}
        /\ \/ Proceed("confirm") /\ Healthy
           \/ Fault /\ TransportFailure(TRUE)
     \/ /\ remote # Empty \/ ~ SameKey
        /\ TransportFailure(FALSE) /\ Healthy /\ UNCHANGED <<remote, landed>>
     \/ Fault /\ TransportFailure(TRUE) /\ UNCHANGED <<remote, landed>>
  /\ UNCHANGED <<keyVars, source, foreign>>

Confirm ==
  /\ At("confirm")
  /\ \/ /\ IF remote = [main |-> MyCommit, others |-> FALSE] THEN Complete
           ELSE Block("repository_diverged")
        /\ Healthy
     \/ Fault /\ TransportFailure(TRUE)
  /\ UNCHANGED <<keyVars, source, remote, landed, foreign>>

RepoStep == Prove \/ Authorize \/ Execute \/ Recover \/ Capture \/ Reread
            \/ BeginPublishing \/ Push \/ Confirm

-----------------------------------------------------------------------------
(* The world around *)

Edit ==
  /\ source' \in Contents \ {source}
  /\ UNCHANGED <<keyVars, job, faults, remote, authority, execution, baseline, landed, foreign>>

(* Somebody else creates a ref: main, or any other.                        *)
CreateRef ==
  /\ foreign < MaxForeign /\ foreign' = foreign + 1
  /\ \/ remote.main = NoCommit /\ remote' = [remote EXCEPT !.main = ForeignCommit]
     \/ ~ remote.others /\ remote' = [remote EXCEPT !.others = TRUE]
  /\ UNCHANGED <<keyVars, job, faults, source, authority, execution, baseline, landed>>

=============================================================================

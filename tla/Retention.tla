----------------------------- MODULE Retention -----------------------------
(***************************************************************************)
(* Retention of the generated branches (database and logs): a pass of the  *)
(* owner thread, run after routine publication, drops the oldest entries   *)
(* of the branch by replacing its history with the retained suffix, under  *)
(* a lease on the head it planned for.  database_retention_work.py and     *)
(* log_retention_work.py differ in names only.                             *)
(*                                                                         *)
(* Time is the horizon: the last entry older than the retention period.    *)
(* Both passes share the thread, the work table and the baseline; the      *)
(* specification of a branch is their composition.                         *)
(***************************************************************************)
EXTENDS Publication

CONSTANTS
  MaxRows,      \* bound: retention rows ever enqueued
  MaxHorizon    \* bound: entries that ever expire

ASSUME RetentionAssumption == MaxRows \in Nat /\ MaxHorizon \in 0..MaxCommits

VARIABLES
  horizon,   \* entries up to this time are older than the retention period
  rows,      \* retention work rows, one per exact head and plan
  intents,   \* database_retention_intent and log_retention_intent rows
  ret        \* the retention pass the owner thread is executing

retVars == <<horizon, rows, intents, ret>>
vars == <<pubVars, retVars>>

Retained == case.branch \in {"database", "logs"}
NoKey == [head |-> Absent, keep |-> 0]
RetIdle == ret.step = "idle"
NoPass == [step |-> "idle", key |-> NoKey]

Init ==
  /\ PubInit
  /\ horizon = 0 /\ rows = <<>> /\ intents = {} /\ ret = NoPass

RetTypeOK ==
  /\ horizon \in 0..MaxHorizon
  /\ \A k \in DOMAIN rows :
       /\ IsHead(k.head) /\ k.keep \in 1..Len(k.head)
       /\ rows[k].status \in {"pending", "running", "retry", "succeeded", "blocked"}
       /\ rows[k].attempts \in 0..(MaxAttempts + MaxFaults)
       /\ rows[k].ref \in 0..horizon
       /\ rows[k].outcome \in {"none", "failed", "stale", "no_change", "replaced"}
  /\ \A i \in intents : i.key \in DOMAIN rows /\ IsHead(i.replacement)
  /\ ret.step \in {"idle", "discovered", "claimed", "proven", "authorized",
                   "intended", "rechecked", "replaced", "advanced"}
  /\ RetIdle \/ ret.key \in DOMAIN rows

Put(k, row) == [x \in DOMAIN rows \cup {k} |-> IF x = k THEN row ELSE rows[x]]
Suffix(h, n) == SubSeq(h, Len(h) - n + 1, Len(h))

-----------------------------------------------------------------------------
(* The plan *)

(* plan_database_retention: the newest entry and those inside the period.  *)
Kept(h, ref) == {i \in 1..Len(h) : i = Len(h) \/ h[i].at > ref}
Plan(h, ref) == [head |-> h, keep |-> Cardinality(Kept(h, ref))]

(* build_database_history_replacement: the retained commits rebuilt on a   *)
(* new root, byte for byte, which makes the result a function of the plan. *)
Replacement(k) == Suffix(k.head, k.keep)
RequiresReplacement(k) == k.keep < Len(k.head)

-----------------------------------------------------------------------------
(* The pass *)

Due == {k \in DOMAIN rows : rows[k].status \in {"pending", "retry"}}

(* Nothing is due: plan for the head as it is now, and enqueue the plan.   *)
Discover ==
  /\ Retained /\ OwnerIdle /\ RetIdle /\ Due = {} /\ remote # Absent
  /\ Cardinality(DOMAIN rows) < MaxRows
  /\ LET k == Plan(remote, horizon)
     IN /\ k \notin DOMAIN rows
        /\ rows' = Put(k, [status |-> "pending", attempts |-> 0,
                           ref |-> horizon, outcome |-> "none"])
        /\ ret' = [step |-> "discovered", key |-> k]
  /\ UNCHANGED <<pubVars, horizon, intents>>

RetClaim ==
  /\ OwnerIdle /\ ret.step \in {"idle", "discovered"}
  /\ \E k \in Due :
       /\ rows' = [rows EXCEPT ![k].status = "running", ![k].attempts = @ + 1]
       /\ ret' = [step |-> "claimed", key |-> k]
  /\ UNCHANGED <<pubVars, horizon, intents>>

RetSettle(status, outcome) ==
  /\ rows' = [rows EXCEPT ![ret.key].status = status, ![ret.key].outcome = outcome]
  /\ ret' = NoPass

RetFail(transient) ==
  RetSettle(IF transient /\ rows[ret.key].attempts < MaxAttempts THEN "retry" ELSE "blocked",
            "failed")

RetLoses == /\ faults < MaxFaults /\ faults' = faults + 1
            /\ RetFail(TRUE)

Intended == \E i \in intents : i.key = ret.key
Advance(step) == ret' = [ret EXCEPT !.step = step] /\ UNCHANGED rows

(* An earlier attempt recorded its intent and the branch carries the       *)
(* replacement: only the baseline is left to advance.                      *)
ResumeReplaced ==
  /\ ret.step = "claimed" /\ Intended /\ remote = Replacement(ret.key)
  /\ \E i \in intents :
       /\ i.key = ret.key
       /\ IF \E b \in baseline : /\ b.snapshot = i.snapshot
                                 /\ b.commit \in {ret.key.head, i.replacement}
            THEN /\ baseline' = {[snapshot |-> i.snapshot, commit |-> i.replacement]}
                 /\ Advance("advanced")
            ELSE RetFail(FALSE) /\ UNCHANGED baseline
  /\ UNCHANGED <<case, source, deploying, remote, work, pass, clock,
                 faults, foreign, horizon, intents>>

(* Neither the replacement nor the head it was planned for; a branch that  *)
(* is not there at all is a failure of the look.                           *)
ResumeStale ==
  /\ ret.step = "claimed" /\ Intended
  /\ remote \notin {Replacement(ret.key), ret.key.head}
  /\ IF remote = Absent THEN RetFail(FALSE) ELSE RetSettle("blocked", "stale")
  /\ UNCHANGED <<pubVars, horizon, intents>>

(* Faulty variant: a retry plans with the present time.                    *)
ProveNow ==
  /\ ret.step = "claimed"
  /\ Intended => remote = ret.key.head
  /\ IF remote = Absent THEN RetFail(FALSE)
     ELSE IF Plan(remote, horizon) # ret.key THEN RetSettle("blocked", "stale")
     ELSE IF \E b \in baseline : b.commit = remote THEN Advance("proven")
     ELSE RetFail(FALSE)
  /\ UNCHANGED <<pubVars, horizon, intents>>

(* Read the history again and plan with the time the row was created: the  *)
(* same row must come out, on the branch the baseline describes.           *)
Prove ==
  /\ ret.step = "claimed"
  /\ Intended => remote = ret.key.head
  /\ IF remote = Absent THEN RetFail(FALSE)
     ELSE IF Plan(remote, rows[ret.key].ref) # ret.key THEN RetSettle("blocked", "stale")
     ELSE IF \E b \in baseline : b.commit = remote THEN Advance("proven")
     ELSE RetFail(FALSE)
  /\ UNCHANGED <<pubVars, horizon, intents>>

(* The prewrite look and the authorization; a plan that drops nothing is   *)
(* done.  The history to replace is staged from the branch.                *)
AuthorizeReplacement ==
  /\ ret.step = "proven"
  /\ IF remote # ret.key.head THEN RetFail(FALSE)
     ELSE IF RequiresReplacement(ret.key) THEN Advance("authorized")
     ELSE RetSettle("succeeded", "no_change")
  /\ UNCHANGED <<pubVars, horizon, intents>>

(* Faulty variant: the intent is left for after the replacement.           *)
IntendLater ==
  /\ ret.step = "authorized"
  /\ Advance("intended")
  /\ UNCHANGED <<pubVars, horizon, intents>>

(* The intent is durable before the branch is touched.                     *)
RecordIntent ==
  /\ ret.step = "authorized"
  /\ \E b \in baseline :
       intents' = intents \cup {[key |-> ret.key, replacement |-> Replacement(ret.key),
                                 snapshot |-> b.snapshot]}
  /\ Advance("intended")
  /\ UNCHANGED <<pubVars, horizon>>

RetRecheck ==
  /\ ret.step = "intended"
  /\ IF remote = ret.key.head THEN Advance("rechecked") ELSE RetFail(FALSE)
  /\ UNCHANGED <<pubVars, horizon, intents>>

(* Faulty variant: --force instead of --force-with-lease.                  *)
ReplaceForced ==
  /\ ret.step = "rechecked"
  /\ remote' = Replacement(ret.key) /\ Advance("replaced")
  /\ UNCHANGED <<case, source, deploying, baseline, work, pass, clock,
                 faults, foreign, horizon, intents>>

(* The leased update of the branch.                                        *)
Replace ==
  /\ ret.step = "rechecked" /\ remote = ret.key.head
  /\ remote' = Replacement(ret.key) /\ Advance("replaced")
  /\ UNCHANGED <<case, source, deploying, baseline, work, pass, clock,
                 faults, foreign, horizon, intents>>

ReplaceUnanswered ==
  /\ ret.step = "rechecked" /\ remote = ret.key.head
  /\ remote' = Replacement(ret.key) /\ RetLoses
  /\ UNCHANGED <<case, source, deploying, baseline, work, pass, clock,
                 foreign, horizon, intents>>

LeaseLost ==
  /\ ret.step = "rechecked" /\ remote # ret.key.head
  /\ RetFail(FALSE)
  /\ UNCHANGED <<pubVars, horizon, intents>>

(* The baseline follows the branch; with a deploy key only after another   *)
(* look, and a branch that moved again leaves it behind.                   *)
AdvanceBaseline ==
  /\ ret.step = "replaced"
  /\ IF case.transport = "deploy_key" /\ remote # Replacement(ret.key)
       THEN RetFail(FALSE) /\ UNCHANGED baseline
       ELSE /\ baseline' = {[snapshot |-> b.snapshot, commit |-> Replacement(ret.key)]
                              : b \in baseline}
            /\ Advance("advanced")
  /\ UNCHANGED <<case, source, deploying, remote, work, pass, clock,
                 faults, foreign, horizon, intents>>

RetComplete ==
  /\ ret.step = "advanced"
  /\ RetSettle("succeeded", "replaced")
  /\ UNCHANGED <<pubVars, horizon, intents>>

(* A transport fault of any look, fetch or push, before any effect.        *)
RetFault ==
  /\ ret.step \in {"claimed", "proven", "authorized", "intended", "rechecked"}
  /\ RetLoses
  /\ UNCHANGED <<case, source, deploying, remote, baseline, work, pass,
                 clock, foreign, horizon, intents>>

RetentionPass ==
  \/ ResumeReplaced \/ ResumeStale \/ Prove \/ AuthorizeReplacement \/ RecordIntent \/ RetRecheck
  \/ Replace \/ ReplaceUnanswered \/ LeaseLost \/ AdvanceBaseline \/ RetComplete \/ RetFault

DatabaseRetention == case.branch = "database" /\ RetentionPass
LogRetention == case.branch = "logs" /\ RetentionPass
RetStep == DatabaseRetention \/ LogRetention

-----------------------------------------------------------------------------
(* The branch *)

RetCrash ==
  /\ ~RetIdle /\ faults < MaxFaults
  /\ ret' = NoPass /\ faults' = faults + 1
  /\ UNCHANGED <<case, source, deploying, remote, baseline, work, pass,
                 clock, foreign, horizon, rows, intents>>

(* Routine publication reads no time, so an entry ages between its passes. *)
Age ==
  /\ Retained /\ OwnerIdle /\ horizon < clock /\ horizon < MaxHorizon
  /\ horizon' = horizon + 1
  /\ UNCHANGED <<pubVars, rows, intents, ret>>

Requeued(table) == [k \in DOMAIN table |->
                     IF table[k].status = "running" THEN [table[k] EXCEPT !.status = "retry"]
                     ELSE table[k]]

(* recover_interrupted_work: every row a crash left running is due again.  *)
Recover ==
  /\ OwnerIdle /\ RetIdle
  /\ \/ \E k \in DOMAIN work : work[k].status = "running"
     \/ \E k \in DOMAIN rows : rows[k].status = "running"
  /\ work' = Requeued(work) /\ rows' = Requeued(rows)
  /\ UNCHANGED <<case, source, deploying, remote, baseline, pass, clock,
                 faults, foreign, horizon, intents, ret>>

(* Retention reads no source, so the source changes between its passes.    *)
Next ==
  \/ RetIdle /\ OwnerStep /\ UNCHANGED retVars
  \/ ForeignMove /\ UNCHANGED retVars
  \/ RetIdle /\ (\E t \in Trees : Edit(t)) /\ UNCHANGED retVars
  \/ Discover \/ RetClaim \/ RetStep \/ RetCrash \/ Age \/ Recover

Spec == Init /\ [][Next]_vars

(* A pass, once begun, goes on until it settles or the process dies; every *)
(* tick and every retrigger cycle comes back to the retention lane, and    *)
(* the launcher asks for retrigger cycles for ever.                        *)
FairSpec ==
  /\ Spec
  /\ WF_vars(PassStep /\ UNCHANGED retVars) /\ WF_vars(RetStep)
  /\ SF_vars(RetClaim) /\ SF_vars(Recover)

-----------------------------------------------------------------------------
(* Properties *)

BranchTypeOK == TypeOK /\ RetTypeOK

(* The baseline row names the tree of the commit it names: publication     *)
(* records what it captured, whatever the source became since, retention   *)
(* keeps the snapshot while it moves the commit.                           *)
BaselineDescribesBranch ==
  /\ BranchTypeOK
  /\ \A b \in baseline : b.commit # Absent /\ Last(b.commit).tree = b.snapshot

ForeignEntries(h) == {e \in ToSet(h) : e.by # "sync"}

(* No push and no replacement of SyncApp drops an entry that somebody else *)
(* put on the branch, however the moves interleave with its looks.         *)
NeverDropsForeign ==
  [][foreign' = foreign => ForeignEntries(remote) \subseteq ForeignEntries(remote')]_vars

(* Routine publication and promotion both move main, each with the other   *)
(* possibly in between its look and its push: neither drops what the other *)
(* published.                                                              *)
MainOnlyGrows ==
  [][case.branch = "main" /\ foreign' = foreign => IsPrefix(remote, remote')]_vars

DropsOnlyExpired ==
  foreign' = foreign /\ Len(remote') < Len(remote) =>
    /\ remote' # Absent /\ IsSuffix(remote', remote)
    /\ \A i \in 1..(Len(remote) - Len(remote')) : remote[i].at <= horizon

StaleOnlyIfMoved ==
  \A k \in DOMAIN rows :
    rows[k].outcome # "stale" /\ rows'[k].outcome = "stale" => remote # k.head

(* A step that shortens the branch is a retention replacement: it keeps    *)
(* the newest entries in their order, and what it drops is expired.  A row *)
(* is given up as stale only when the branch left the head it was planned  *)
(* for: neither verdict may come from a clock that moved on meanwhile.     *)
RetentionFollowsPlan == [][DropsOnlyExpired /\ StaleOnlyIfMoved]_vars

(* docs/development.md:93-94: "a remote head already equal to the local     *)
(* commit is recoverable as an interrupted already-published operation".   *)
(* A branch whose only news is a push of SyncApp's own is not reported as  *)
(* diverged.                                                               *)
OwnPushIsRecovered ==
  (\E k \in DOMAIN work : work[k].outcome = "diverged") =>
    ~ \E b \in baseline : /\ IsPrefix(b.commit, remote)
                          /\ Len(remote) = Len(b.commit) + 1
                          /\ Last(remote).by = "sync"

(* The branch carries a retained suffix of the head the baseline names.    *)
LeftBehind == \E b \in baseline : /\ remote \notin {Absent, b.commit}
                                  /\ IsSuffix(remote, b.commit)

Exhausted == \E k \in DOMAIN rows, b \in baseline :
               /\ k.head = b.commit /\ remote = Replacement(k)
               /\ rows[k].status = "blocked" /\ rows[k].outcome = "failed"
               /\ rows[k].attempts >= MaxAttempts

(* A replacement GitHub took and the service lost track of (a crash, a     *)
(* lost answer) is finished by a later attempt: the baseline follows,      *)
(* unless the attempts are used up or somebody else moved the branch.      *)
ReplacementIsFinished == LeftBehind ~> (~LeftBehind \/ Exhausted \/ foreign > 0)

=============================================================================

----------------------------- MODULE WorkLedger -----------------------------
(***************************************************************************)
(* The durable work table of state.py and the code that drives it: the     *)
(* producers (enqueue_work, schedule_routine_work), the single state-owner *)
(* thread that claims one item at a time and settles it, the recovery      *)
(* every lane runs before it claims, the administrative retry request      *)
(* consumed at boot, and the process crashing at any point.                *)
(*                                                                         *)
(* Time is relative: wait is next_attempt_at minus the current time, and   *)
(* Tick lets time pass, until an item is overdue by MaxAge.  created_at    *)
(* and work_key only break ties of the claim order, which is left open     *)
(* between items due at the same time.                                     *)
(***************************************************************************)
EXTENDS Integers, FiniteSets

CONSTANTS
  Items,             \* identities (work_kind, work_key)
  Kinds,             \* work kinds
  KindOf,            \* the kind of each item
  Requests,          \* administrative request ids
  MaxAttempts,       \* StateStore.MAX_WORK_ATTEMPTS
  BaseDelay,         \* the 60 seconds of fail_work
  MaxBackoff,        \* StateStore.MAX_WORK_BACKOFF_SECONDS
  MaxAge,            \* bound: how long an item can be overdue
  MaxInterruptions   \* bound: interrupted attempts per budget of an item

ASSUME LedgerAssumption ==
  /\ KindOf \in [Items -> Kinds]
  /\ MaxAttempts \in Nat \ {0}
  /\ BaseDelay \in Nat /\ MaxBackoff \in Nat /\ MaxAge \in Nat \ {0}
  /\ MaxInterruptions \in Nat

(* The unbounded backoff of every attempt is a natural number.             *)
ASSUME PowerAssumption == \A n \in 1..MaxAttempts : BaseDelay * 2^(n - 1) \in Nat

VARIABLES
  work,         \* the table: one row per item, "absent" when there is none
  held,         \* the claimed WorkItem the owner thread is executing, if any
  up,           \* the service process runs
  receipts,     \* administrative_retry_request rows
  interrupted,  \* history: attempts of the current budget that never ended
  dirty         \* history: a routine signal came after the last claim

vars == <<work, held, up, receipts, interrupted, dirty>>

Statuses == {"absent", "pending", "running", "retry", "succeeded", "blocked"}
Row == [status : Statuses, attempts : Nat, wait : (-MaxAge)..MaxBackoff]
Snapshot == [item : Items, attempts : Nat]
Receipt == [request : Requests, item : Items, outcome : {"retried", "rejected"}]

TypeOK ==
  /\ work \in [Items -> Row]
  /\ held \in SUBSET Snapshot
  /\ up \in BOOLEAN
  /\ receipts \in SUBSET Receipt
  /\ interrupted \in [Items -> 0..MaxInterruptions]
  /\ dirty \in [Items -> BOOLEAN]

NewRow(s, a) == [status |-> s, attempts |-> a, wait |-> 0]

Init ==
  /\ work = [i \in Items |-> NewRow("absent", 0)]
  /\ held = {}
  /\ up = FALSE
  /\ receipts = {}
  /\ interrupted = [i \in Items |-> 0]
  /\ dirty = [i \in Items |-> FALSE]

Idle == up /\ held = {}

-----------------------------------------------------------------------------
(* Producers *)

(* INSERT OR IGNORE: an existing row, whatever its status, is left alone.  *)
Enqueue(i) ==
  /\ Idle /\ work[i].status = "absent"
  /\ work' = [work EXCEPT ![i] = NewRow("pending", 0)]
  /\ UNCHANGED <<held, up, receipts, interrupted, dirty>>

(* Faulty variant: a signal for a succeeded item is coalesced too.         *)
ScheduleOnlyMissing(i) ==
  /\ Idle
  /\ dirty' = [dirty EXCEPT ![i] = TRUE]
  /\ IF work[i].status = "absent"
       THEN /\ work' = [work EXCEPT ![i] = NewRow("pending", 0)]
            /\ interrupted' = [interrupted EXCEPT ![i] = 0]
       ELSE UNCHANGED <<work, interrupted>>
  /\ UNCHANGED <<held, up, receipts>>

(* A routine signal: open a new generation of a missing or succeeded item, *)
(* coalesce with an unfinished or blocked one.                             *)
Schedule(i) ==
  /\ Idle
  /\ dirty' = [dirty EXCEPT ![i] = TRUE]
  /\ IF work[i].status \in {"absent", "succeeded"}
       THEN /\ work' = [work EXCEPT ![i] = NewRow("pending", 0)]
            /\ interrupted' = [interrupted EXCEPT ![i] = 0]
       ELSE UNCHANGED <<work, interrupted>>
  /\ UNCHANGED <<held, up, receipts>>

-----------------------------------------------------------------------------
(* The owner thread *)

Due(k) == {i \in Items : /\ KindOf[i] = k
                         /\ work[i].status \in {"pending", "retry"}
                         /\ work[i].wait <= 0}

(* Faulty variant: ORDER BY next_attempt_at DESC.                          *)
ClaimNewest(k) ==
  /\ Idle
  /\ \E i \in Due(k) :
       /\ \A j \in Due(k) : work[i].wait >= work[j].wait
       /\ work' = [work EXCEPT ![i] = NewRow("running", work[i].attempts + 1)]
       /\ held' = {[item |-> i, attempts |-> work[i].attempts + 1]}
       /\ dirty' = [dirty EXCEPT ![i] = FALSE]
  /\ UNCHANGED <<up, receipts, interrupted>>

(* Claim the item of the kind that has been due longest.                   *)
ClaimKind(k) ==
  /\ Idle
  /\ \E i \in Due(k) :
       /\ \A j \in Due(k) : work[i].wait <= work[j].wait
       /\ work' = [work EXCEPT ![i] = NewRow("running", work[i].attempts + 1)]
       /\ held' = {[item |-> i, attempts |-> work[i].attempts + 1]}
       /\ dirty' = [dirty EXCEPT ![i] = FALSE]
  /\ UNCHANGED <<up, receipts, interrupted>>

(* Faulty variant: recovery while an item is being executed.               *)
RecoverDuringPass ==
  /\ up
  /\ work' = [i \in Items |-> IF work[i].status = "running"
                                THEN NewRow("retry", work[i].attempts)
                                ELSE work[i]]
  /\ UNCHANGED <<held, up, receipts, interrupted, dirty>>

(* recover_interrupted_work: every kind's running rows become due now.     *)
RecoverAll ==
  /\ Idle
  /\ work' = [i \in Items |-> IF work[i].status = "running"
                                THEN NewRow("retry", work[i].attempts)
                                ELSE work[i]]
  /\ UNCHANGED <<held, up, receipts, interrupted, dirty>>

(* The candidate lanes recover only rows of their own kind.                *)
RecoverKind(k) ==
  /\ Idle
  /\ work' = [i \in Items |-> IF work[i].status = "running" /\ KindOf[i] = k
                                THEN NewRow("retry", work[i].attempts)
                                ELSE work[i]]
  /\ UNCHANGED <<held, up, receipts, interrupted, dirty>>

(* WHERE status='running' AND attempts=?: the claim is still the row's.    *)
StillOurs(h) == work[h.item].status = "running" /\ work[h.item].attempts = h.attempts

(* Faulty variant: the backoff is not capped.                              *)
DelayUncapped(n) == BaseDelay * 2^(n - 1)

Delay(n) == IF BaseDelay * 2^(n - 1) <= MaxBackoff
              THEN BaseDelay * 2^(n - 1) ELSE MaxBackoff

(* Faulty variant: one retry too many.                                     *)
FailedRowLate(h, transient) ==
  IF transient /\ h.attempts <= MaxAttempts
    THEN [status |-> "retry", attempts |-> h.attempts, wait |-> Delay(h.attempts)]
    ELSE NewRow("blocked", h.attempts)

FailedRow(h, transient) ==
  IF transient /\ h.attempts < MaxAttempts
    THEN [status |-> "retry", attempts |-> h.attempts, wait |-> Delay(h.attempts)]
    ELSE NewRow("blocked", h.attempts)

Fail(h, transient) ==
  /\ up /\ StillOurs(h)
  /\ work' = [work EXCEPT ![h.item] = FailedRow(h, transient)]
  /\ held' = {}
  /\ UNCHANGED <<up, receipts, interrupted, dirty>>

(* Phased work succeeded at one step: release it with a fresh budget.      *)
Defer(h) ==
  /\ up /\ StillOurs(h)
  /\ work' = [work EXCEPT ![h.item] = NewRow("pending", 0)]
  /\ interrupted' = [interrupted EXCEPT ![h.item] = 0]
  /\ held' = {}
  /\ UNCHANGED <<up, receipts, dirty>>

Complete(h) ==
  /\ up /\ StillOurs(h)
  /\ work' = [work EXCEPT ![h.item] = NewRow("succeeded", h.attempts)]
  /\ held' = {}
  /\ UNCHANGED <<up, receipts, interrupted, dirty>>

(* An unclassified exception, or a transition that found the row changed,  *)
(* ends the pass and leaves the row running.                               *)
Abandon(h) ==
  /\ up /\ interrupted[h.item] < MaxInterruptions
  /\ held' = {}
  /\ interrupted' = [interrupted EXCEPT ![h.item] = @ + 1]
  /\ UNCHANGED <<work, up, receipts, dirty>>

-----------------------------------------------------------------------------
(* The process and its operator *)

(* The process dies, in the middle of an attempt or between two.           *)
Crash ==
  /\ up
  /\ \A h \in held : interrupted[h.item] < MaxInterruptions
  /\ up' = FALSE
  /\ held' = {}
  /\ interrupted' = [i \in Items |-> IF \E h \in held : h.item = i
                                       THEN interrupted[i] + 1 ELSE interrupted[i]]
  /\ UNCHANGED <<work, receipts, dirty>>

(* Boot without an administrative request in the options.                  *)
Boot == /\ ~up /\ up' = TRUE
        /\ UNCHANGED <<work, held, receipts, interrupted, dirty>>

Receipts(r) == {c \in receipts : c.request = r}

(* Faulty variant: the receipt of an old request is not looked up.         *)
BootReplaysRequest(r, i) ==
  /\ ~up /\ up' = TRUE
  /\ IF work[i].status = "blocked"
       THEN /\ work' = [work EXCEPT ![i] = NewRow("pending", 0)]
            /\ interrupted' = [interrupted EXCEPT ![i] = 0]
            /\ receipts' = receipts \cup
                  {[request |-> r, item |-> i, outcome |-> "retried"]}
       ELSE /\ receipts' = receipts \cup
                  {[request |-> r, item |-> i, outcome |-> "rejected"]}
            /\ UNCHANGED <<work, interrupted>>
  /\ UNCHANGED <<held, dirty>>

(* Boot with request r for item i.  The options persist, so an old request *)
(* comes back at every boot: its receipt makes it a no-op.  A request id   *)
(* reused for another item refuses to start.                               *)
BootWithRequest(r, i) ==
  /\ ~up /\ up' = TRUE
  /\ \A c \in Receipts(r) : c.item = i
  /\ IF Receipts(r) # {}
       THEN UNCHANGED <<work, receipts, interrupted>>
       ELSE IF work[i].status = "blocked"
         THEN /\ work' = [work EXCEPT ![i] = NewRow("pending", 0)]
              /\ interrupted' = [interrupted EXCEPT ![i] = 0]
              /\ receipts' = receipts \cup
                    {[request |-> r, item |-> i, outcome |-> "retried"]}
         ELSE /\ receipts' = receipts \cup
                    {[request |-> r, item |-> i, outcome |-> "rejected"]}
              /\ UNCHANGED <<work, interrupted>>
  /\ UNCHANGED <<held, dirty>>

(* One unit of time passes for every row with a next_attempt_at.           *)
Tick ==
  /\ \A i \in Items : work[i].wait > -MaxAge
  /\ work' = [i \in Items |-> IF work[i].status \in {"pending", "retry"}
                                THEN [work[i] EXCEPT !.wait = @ - 1] ELSE work[i]]
  /\ UNCHANGED <<held, up, receipts, interrupted, dirty>>

-----------------------------------------------------------------------------
Finish(h) == (\E t \in BOOLEAN : Fail(h, t)) \/ Defer(h) \/ Complete(h)

Next ==
  \/ \E i \in Items : Enqueue(i) \/ Schedule(i)
  \/ \E k \in Kinds : ClaimKind(k) \/ RecoverKind(k)
  \/ RecoverAll
  \/ \E h \in held : Finish(h) \/ Abandon(h)
  \/ Crash \/ Boot
  \/ \E r \in Requests, i \in Items : BootWithRequest(r, i)
  \/ Tick

Spec == Init /\ [][Next]_vars

(* The owner loop keeps making passes: a pass that starts while work is    *)
(* due claims it, a claimed item gets a verdict or loses its pass, a pass  *)
(* recovers what it finds running, a stopped service is started again.     *)
Fairness ==
  /\ \A k \in Kinds : SF_vars(ClaimKind(k))
  /\ SF_vars(RecoverAll)
  /\ WF_vars(\E h \in held : Finish(h))
  /\ WF_vars(Boot)
  /\ WF_vars(Tick)

FairSpec == Spec /\ Fairness

-----------------------------------------------------------------------------
(* Properties *)

(* The compare-and-set of fail_work, defer_work and complete_work always   *)
(* succeeds: nothing between the claim and the verdict, the recovery that  *)
(* other lanes run included, takes the row away from the owner thread.     *)
ClaimIsExclusive ==
  /\ \A h \in held : up /\ StillOurs(h)
  /\ \A g, h \in held : g = h

(* schedule_routine_work never loses a signal: after a signal for an item, *)
(* the item does not end as succeeded without an attempt that was claimed  *)
(* after the signal.                                                       *)
NoLostSignal == \A i \in Items : dirty[i] => work[i].status # "succeeded"

(* What MAX_WORK_ATTEMPTS of fail_work really bounds: the attempts of one  *)
(* budget that reached a verdict.  Attempts cut short come on top, because *)
(* recover_interrupted_work keeps the count and no claim looks at it.      *)
AttemptBudget ==
  \A i \in Items : work[i].attempts <= MaxAttempts + interrupted[i]

(* retrigger_runtime_status.py asserts 0 <= attempts <= MAX_WORK_ATTEMPTS  *)
(* of every row it publishes, and fails closed otherwise.                  *)
AttemptsWithinMaximum == \A i \in Items : work[i].attempts <= MaxAttempts

(* The claim order starves nobody: whatever fails, backs off, is deferred  *)
(* or crashes around it, a waiting item is eventually attempted.           *)
NoStarvation ==
  \A i \in Items : (work[i].status \in {"pending", "retry"})
                      ~> (work[i].status = "running")

(* The ledger implements the lifecycle: the clock, the budget and the      *)
(* crashes never reopen blocked work without a request, spend a request    *)
(* twice, or settle an item nobody was attempting.                         *)
Lifecycle == INSTANCE WorkLifecycle WITH
  status <- [i \in Items |-> work[i].status],
  spent <- {c.request : c \in receipts}

LifecycleSpec == Lifecycle!Spec

=============================================================================

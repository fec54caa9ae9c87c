-------------------------- MODULE WorkLedgerProofs --------------------------
(* Proofs about the work ledger, for any number of items and kinds.        *)
EXTENDS WorkLedger, TLAPS

Holder(i) == \E h \in held : h.item = i

(* A signal is only pending against a row nobody is executing.             *)
SignalInv == NoLostSignal /\ \A h \in held : ~dirty[h.item]

(* How much of the budget each status can have consumed: a retryable row   *)
(* has an attempt left, and so has a running row whose pass ended, because *)
(* the interruption that orphaned it is counted.                           *)
BudgetInv ==
  \A i \in Items :
    /\ work[i].status \in {"absent", "pending"} => work[i].attempts = 0
    /\ work[i].status = "running" => work[i].attempts >= 1
    /\ work[i].status = "retry" =>
         work[i].attempts < MaxAttempts + interrupted[i]
    /\ work[i].status = "running" /\ ~Holder(i) =>
         work[i].attempts < MaxAttempts + interrupted[i]
    /\ work[i].attempts <= MaxAttempts + interrupted[i]

IInv == TypeOK /\ ClaimIsExclusive /\ SignalInv /\ BudgetInv

USE LedgerAssumption

(* Every backoff fits the bound that the due time is kept in.              *)
LEMMA DelayRange == \A n \in 1..MaxAttempts : Delay(n) \in 0..MaxBackoff
  <1> SUFFICES ASSUME NEW n \in 1..MaxAttempts PROVE Delay(n) \in 0..MaxBackoff
    OBVIOUS
  <1> DEFINE d == BaseDelay * 2^(n - 1)
  <1>1. d \in Nat
    BY PowerAssumption
  <1> HIDE DEF d
  <1>2. Delay(n) = IF d <= MaxBackoff THEN d ELSE MaxBackoff
    BY DEF Delay, d
  <1> QED BY <1>1, <1>2

LEMMA NewRowType == \A s \in Statuses, a \in Nat : NewRow(s, a) \in Row
  BY DEF NewRow, Row, Statuses

LEMMA InitIInv == Init => IInv
  <1> SUFFICES ASSUME Init PROVE IInv
    OBVIOUS
  <1>1. TypeOK
    <2>1. NewRow("absent", 0) \in Row
      BY NewRowType DEF Statuses
    <2>2. work \in [Items -> Row]
      BY <2>1 DEF Init
    <2>3. interrupted \in [Items -> 0..MaxInterruptions] /\ dirty \in [Items -> BOOLEAN]
      BY DEF Init
    <2>4. held \in SUBSET Snapshot /\ up \in BOOLEAN /\ receipts \in SUBSET Receipt
      BY DEF Init
    <2> QED BY <2>2, <2>3, <2>4 DEF TypeOK
  <1>2. ClaimIsExclusive /\ SignalInv /\ BudgetInv
    BY DEF Init, ClaimIsExclusive, SignalInv, NoLostSignal, BudgetInv, NewRow, Holder
  <1> QED BY <1>1, <1>2 DEF IInv

(* The type of every row survives every step.                              *)
LEMMA StepTypeOK == IInv /\ [Next]_vars => TypeOK'
  <1> SUFFICES ASSUME IInv, [Next]_vars PROVE TypeOK'
    OBVIOUS
  <1>t. TypeOK
    BY DEF IInv
  <1>r. ASSUME NEW i \in Items
        PROVE work[i] \in Row /\ work[i].attempts \in Nat /\ work[i].status \in Statuses
    BY <1>t DEF TypeOK, Row
  <1>1. ASSUME NEW i \in Items, Enqueue(i) PROVE TypeOK'
    BY <1>t, <1>1, NewRowType DEF TypeOK, Enqueue, Statuses
  <1>2. ASSUME NEW i \in Items, Schedule(i) PROVE TypeOK'
    BY <1>t, <1>2, NewRowType DEF TypeOK, Schedule, Statuses
  <1>3. ASSUME NEW k \in Kinds, ClaimKind(k) PROVE TypeOK'
    <2>1. PICK i \in Items :
             /\ work' = [work EXCEPT ![i] = NewRow("running", work[i].attempts + 1)]
             /\ held' = {[item |-> i, attempts |-> work[i].attempts + 1]}
             /\ dirty' = [dirty EXCEPT ![i] = FALSE]
      BY <1>3 DEF ClaimKind, Due
    <2>2. NewRow("running", work[i].attempts + 1) \in Row
      BY <1>r, NewRowType DEF Statuses
    <2>3. [item |-> i, attempts |-> work[i].attempts + 1] \in Snapshot
      BY <1>r DEF Snapshot
    <2> QED BY <1>t, <1>3, <2>1, <2>2, <2>3 DEF TypeOK, ClaimKind
  <1>4. ASSUME RecoverAll \/ \E k \in Kinds : RecoverKind(k) PROVE TypeOK'
    <2>1. \A i \in Items : NewRow("retry", work[i].attempts) \in Row
      BY <1>r, NewRowType DEF Statuses
    <2> QED BY <1>t, <1>4, <1>r, <2>1 DEF TypeOK, RecoverAll, RecoverKind
  <1>5. ASSUME NEW h \in held, Finish(h) PROVE TypeOK'
    <2>1. h.item \in Items /\ h.attempts \in Nat
      BY <1>t DEF TypeOK, Snapshot
    <2>2. ASSUME NEW t \in BOOLEAN, Fail(h, t) PROVE TypeOK'
      <3>1. h.attempts >= 1
        BY <2>1, <2>2 DEF Fail, StillOurs, IInv, BudgetInv
      <3>2. FailedRow(h, t) \in Row
        <4>1. CASE t /\ h.attempts < MaxAttempts
          <5>1. Delay(h.attempts) \in 0..MaxBackoff
            BY <3>1, <2>1, <4>1, DelayRange
          <5> QED BY <4>1, <5>1, <2>1 DEF FailedRow, Row, Statuses
        <4>2. CASE ~(t /\ h.attempts < MaxAttempts)
          BY <4>2, <2>1, NewRowType DEF FailedRow, Statuses
        <4> QED BY <4>1, <4>2
      <3> QED BY <1>t, <2>1, <2>2, <3>2 DEF TypeOK, Fail
    <2>3. CASE Defer(h)
      BY <1>t, <2>1, <2>3, NewRowType DEF TypeOK, Defer, Statuses
    <2>4. CASE Complete(h)
      BY <1>t, <2>1, <2>4, NewRowType DEF TypeOK, Complete, Statuses
    <2> QED BY <1>5, <2>2, <2>3, <2>4 DEF Finish
  <1>6. ASSUME NEW h \in held, Abandon(h) PROVE TypeOK'
    <2>1. h.item \in Items /\ interrupted[h.item] + 1 \in 0..MaxInterruptions
      BY <1>t, <1>6 DEF TypeOK, Abandon, Snapshot
    <2> QED BY <1>t, <1>6, <2>1 DEF TypeOK, Abandon
  <1>7. CASE Crash
    <2>1. ASSUME NEW h \in held
          PROVE h.item \in Items /\ interrupted[h.item] + 1 \in 0..MaxInterruptions
      BY <1>t, <1>7 DEF TypeOK, Crash, Snapshot
    <2>2. interrupted' \in [Items -> 0..MaxInterruptions]
      <3>1. ASSUME NEW i \in Items
            PROVE (IF \E h \in held : h.item = i THEN interrupted[i] + 1 ELSE interrupted[i])
                     \in 0..MaxInterruptions
        BY <1>t, <2>1 DEF TypeOK
      <3> QED BY <1>7, <3>1 DEF Crash
    <2> QED BY <1>t, <1>7, <2>2 DEF TypeOK, Crash
  <1>8. CASE Boot
    BY <1>t, <1>8 DEF TypeOK, Boot
  <1>9. ASSUME NEW r \in Requests, NEW i \in Items, BootWithRequest(r, i)
        PROVE TypeOK'
    <2>1. [request |-> r, item |-> i, outcome |-> "retried"] \in Receipt
          /\ [request |-> r, item |-> i, outcome |-> "rejected"] \in Receipt
      BY DEF Receipt
    <2>2. NewRow("pending", 0) \in Row
      BY NewRowType DEF Statuses
    <2> QED BY <1>t, <1>9, <2>1, <2>2 DEF TypeOK, BootWithRequest
  <1>10. CASE Tick
    <2>1. \A i \in Items : work[i].wait > -MaxAge =>
                [work[i] EXCEPT !.wait = @ - 1] \in Row
      BY <1>t DEF TypeOK, Row
    <2> QED BY <1>t, <1>10, <2>1 DEF TypeOK, Tick
  <1>11. CASE UNCHANGED vars
    BY <1>t, <1>11 DEF TypeOK, vars
  <1> QED BY <1>1, <1>2, <1>3, <1>4, <1>5, <1>6, <1>7, <1>8, <1>9, <1>10, <1>11
          DEF Next

-----------------------------------------------------------------------------
(* What the actions do to one row, in the terms the invariants use.        *)

LEMMA HeldType == ASSUME TypeOK, NEW h \in held
                  PROVE h.item \in Items /\ h.attempts \in Nat
  BY DEF TypeOK, Snapshot

LEMMA FailedRowFacts ==
  ASSUME NEW h, h.attempts \in Nat, NEW t \in BOOLEAN
  PROVE /\ FailedRow(h, t).attempts = h.attempts
        /\ FailedRow(h, t).status \in {"retry", "blocked"}
        /\ FailedRow(h, t).status = "retry" => h.attempts < MaxAttempts
  BY DEF FailedRow, NewRow

(* A verdict rewrites the row of its claim and empties the hands of the    *)
(* owner thread; the count either stays, or starts a fresh pending budget. *)
LEMMA FinishFacts ==
  ASSUME IInv, NEW h \in held, Finish(h)
  PROVE /\ held' = {} /\ up' = up /\ dirty' = dirty /\ receipts' = receipts
        /\ h.item \in Items /\ work[h.item].status = "running"
        /\ \A i \in Items \ {h.item} : work'[i] = work[i] /\ interrupted'[i] = interrupted[i]
        /\ \/ /\ work'[h.item].status \in {"retry", "blocked", "succeeded"}
              /\ work'[h.item].attempts = work[h.item].attempts
              /\ work'[h.item].status = "retry" => work[h.item].attempts < MaxAttempts
              /\ interrupted'[h.item] = interrupted[h.item]
           \/ /\ work'[h.item].status = "pending"
              /\ work'[h.item].attempts = 0
              /\ interrupted'[h.item] = 0
  <1>1. TypeOK /\ h.item \in Items /\ h.attempts \in Nat
    BY HeldType DEF IInv
  <1>2. ASSUME NEW t \in BOOLEAN, Fail(h, t)
        PROVE /\ work'[h.item].status \in {"retry", "blocked"}
              /\ work'[h.item].attempts = work[h.item].attempts
              /\ work'[h.item].status = "retry" => work[h.item].attempts < MaxAttempts
    BY <1>1, <1>2, FailedRowFacts DEF Fail, StillOurs, TypeOK
  <1>3. CASE \E t \in BOOLEAN : Fail(h, t)
    BY <1>1, <1>2, <1>3 DEF Fail, StillOurs, TypeOK
  <1>4. CASE Defer(h)
    BY <1>1, <1>4 DEF Defer, StillOurs, TypeOK, NewRow
  <1>5. CASE Complete(h)
    BY <1>1, <1>5 DEF Complete, StillOurs, TypeOK, NewRow
  <1> QED BY <1>3, <1>4, <1>5 DEF Finish

(* A claim takes a pending or retryable row, one attempt further.          *)
ClaimStep(i) ==
  /\ held = {} /\ up /\ up' = up /\ receipts' = receipts
  /\ interrupted' = interrupted
  /\ work[i].status \in {"pending", "retry"}
  /\ \A j \in Items \ {i} : work'[j] = work[j] /\ dirty'[j] = dirty[j]
  /\ work'[i].status = "running"
  /\ work'[i].attempts = work[i].attempts + 1
  /\ held' = {[item |-> i, attempts |-> work[i].attempts + 1]}
  /\ dirty'[i] = FALSE

LEMMA ClaimFacts ==
  ASSUME TypeOK, NEW k \in Kinds, ClaimKind(k)
  PROVE \E i \in Items : ClaimStep(i)
  <1>1. PICK i \in Items :
          /\ work[i].status \in {"pending", "retry"}
          /\ work' = [work EXCEPT ![i] = NewRow("running", work[i].attempts + 1)]
          /\ held' = {[item |-> i, attempts |-> work[i].attempts + 1]}
          /\ dirty' = [dirty EXCEPT ![i] = FALSE]
    BY DEF ClaimKind, Due
  <1> QED BY <1>1 DEF ClaimKind, Idle, TypeOK, NewRow, ClaimStep

(* A recovery turns some running rows retryable and leaves the rest alone. *)
LEMMA RecoverFacts ==
  ASSUME TypeOK, RecoverAll \/ \E k \in Kinds : RecoverKind(k)
  PROVE /\ held = {} /\ UNCHANGED <<held, up, receipts, interrupted, dirty>>
        /\ \A i \in Items :
             \/ work'[i] = work[i]
             \/ /\ work[i].status = "running" /\ work'[i].status = "retry"
                /\ work'[i].attempts = work[i].attempts
  BY DEF RecoverAll, RecoverKind, Idle, TypeOK, NewRow

(* A boot reopens at most the blocked item that a new receipt names.       *)
LEMMA BootFacts ==
  ASSUME TypeOK, NEW r \in Requests, NEW i \in Items, BootWithRequest(r, i)
  PROVE /\ ~up /\ held' = held /\ dirty' = dirty
        /\ \A j \in Items \ {i} : work'[j] = work[j] /\ interrupted'[j] = interrupted[j]
        /\ \/ work'[i] = work[i] /\ interrupted'[i] = interrupted[i]
           \/ /\ work[i].status = "blocked" /\ work'[i].status = "pending"
              /\ work'[i].attempts = 0 /\ interrupted'[i] = 0
  BY DEF BootWithRequest, TypeOK, NewRow

(* Passing time touches neither the status nor the count of a row.         *)
LEMMA TickFacts ==
  ASSUME TypeOK, Tick
  PROVE /\ UNCHANGED <<held, up, receipts, interrupted, dirty>>
        /\ \A i \in Items : /\ work'[i].status = work[i].status
                            /\ work'[i].attempts = work[i].attempts
  BY DEF Tick, TypeOK, Row

(* A producer opens a fresh budget for a missing or succeeded item.        *)
LEMMA ProducerFacts ==
  ASSUME TypeOK, NEW i \in Items, Enqueue(i) \/ Schedule(i)
  PROVE /\ held = {} /\ up /\ UNCHANGED <<held, up, receipts>>
        /\ \A j \in Items \ {i} : /\ work'[j] = work[j] /\ dirty'[j] = dirty[j]
                                  /\ interrupted'[j] = interrupted[j]
        /\ \/ work'[i] = work[i] /\ work[i].status # "succeeded"
              /\ interrupted'[i] = interrupted[i]
           \/ /\ work[i].status \in {"absent", "succeeded"}
              /\ work'[i].status = "pending" /\ work'[i].attempts = 0
              /\ interrupted'[i] \in {0, interrupted[i]}
  BY DEF Enqueue, Schedule, Idle, TypeOK, NewRow, Row, Statuses

-----------------------------------------------------------------------------
(* The three parts of the invariant, step by step *)

LEMMA StepExclusive == IInv /\ [Next]_vars => ClaimIsExclusive'
  <1> SUFFICES ASSUME IInv, [Next]_vars PROVE ClaimIsExclusive'
    OBVIOUS
  <1>t. TypeOK /\ ClaimIsExclusive
    BY DEF IInv
  <1> USE DEF ClaimIsExclusive, StillOurs
  <1>1. ASSUME NEW i \in Items, Enqueue(i) \/ Schedule(i) PROVE ClaimIsExclusive'
    BY <1>t, <1>1, ProducerFacts
  <1>2. ASSUME NEW k \in Kinds, ClaimKind(k) PROVE ClaimIsExclusive'
    <2>1. PICK i \in Items : ClaimStep(i)
      BY <1>t, <1>2, ClaimFacts
    <2> QED BY <1>t, <2>1 DEF ClaimStep
  <1>3. CASE RecoverAll \/ \E k \in Kinds : RecoverKind(k)
    BY <1>t, <1>3, RecoverFacts
  <1>4. ASSUME NEW h \in held, Finish(h) PROVE ClaimIsExclusive'
    BY <1>4, FinishFacts
  <1>5. ASSUME NEW h \in held, Abandon(h) PROVE ClaimIsExclusive'
    BY <1>5 DEF Abandon
  <1>6. CASE Crash
    BY <1>6 DEF Crash
  <1>7. CASE Boot
    BY <1>t, <1>7 DEF Boot
  <1>8. ASSUME NEW r \in Requests, NEW i \in Items, BootWithRequest(r, i)
        PROVE ClaimIsExclusive'
    <2>1. ~up /\ held' = held
      BY <1>t, <1>8, BootFacts
    <2> QED BY <1>t, <2>1
  <1>9. CASE Tick
    <2>1. ASSUME NEW h \in held PROVE up /\ StillOurs(h)'
      BY <1>t, <1>9, TickFacts, HeldType
    <2>2. held' = held /\ up' = up
      BY <1>t, <1>9, TickFacts
    <2> QED BY <1>t, <2>1, <2>2
  <1>10. CASE UNCHANGED vars
    BY <1>t, <1>10 DEF vars
  <1> QED BY <1>1, <1>2, <1>3, <1>4, <1>5, <1>6, <1>7, <1>8, <1>9, <1>10 DEF Next

LEMMA StepSignal == IInv /\ [Next]_vars => SignalInv'
  <1> SUFFICES ASSUME IInv, [Next]_vars PROVE SignalInv'
    OBVIOUS
  <1>t. TypeOK /\ ClaimIsExclusive /\ SignalInv
    BY DEF IInv
  <1> USE DEF SignalInv, NoLostSignal
  <1>1. ASSUME NEW i \in Items, Enqueue(i) \/ Schedule(i) PROVE SignalInv'
    BY <1>t, <1>1, ProducerFacts
  <1>2. ASSUME NEW k \in Kinds, ClaimKind(k) PROVE SignalInv'
    <2>1. PICK i \in Items : ClaimStep(i)
      BY <1>t, <1>2, ClaimFacts
    <2> QED BY <1>t, <2>1 DEF ClaimStep
  <1>3. CASE RecoverAll \/ \E k \in Kinds : RecoverKind(k)
    BY <1>t, <1>3, RecoverFacts
  <1>4. ASSUME NEW h \in held, Finish(h) PROVE SignalInv'
    BY <1>t, <1>4, FinishFacts
  <1>5. ASSUME NEW h \in held, Abandon(h) PROVE SignalInv'
    BY <1>t, <1>5 DEF Abandon
  <1>6. CASE Crash
    BY <1>t, <1>6 DEF Crash
  <1>7. CASE Boot
    BY <1>t, <1>7 DEF Boot
  <1>8. ASSUME NEW r \in Requests, NEW i \in Items, BootWithRequest(r, i)
        PROVE SignalInv'
    <2>1. held' = held /\ dirty' = dirty
      BY <1>t, <1>8, BootFacts
    <2>2. \A j \in Items : work'[j].status = work[j].status \/ work'[j].status = "pending"
      BY <1>t, <1>8, BootFacts
    <2> QED BY <1>t, <2>1, <2>2
  <1>9. CASE Tick
    BY <1>t, <1>9, TickFacts
  <1>10. CASE UNCHANGED vars
    BY <1>t, <1>10 DEF vars
  <1> QED BY <1>1, <1>2, <1>3, <1>4, <1>5, <1>6, <1>7, <1>8, <1>9, <1>10 DEF Next

(* The budget of one row, with its holder as a parameter.                  *)
RowBudget(row, cut, running) ==
  /\ row.status \in {"absent", "pending"} => row.attempts = 0
  /\ row.status = "running" => row.attempts >= 1
  /\ row.status = "retry" => row.attempts < MaxAttempts + cut
  /\ row.status = "running" /\ ~running => row.attempts < MaxAttempts + cut
  /\ row.attempts <= MaxAttempts + cut

LEMMA StepBudget == IInv /\ [Next]_vars => BudgetInv'
  <1> SUFFICES ASSUME IInv, [Next]_vars,
                      NEW i \in Items
               PROVE RowBudget(work'[i], interrupted'[i], Holder(i)')
    BY DEF BudgetInv, RowBudget
  <1>t. TypeOK /\ ClaimIsExclusive
    BY DEF IInv
  <1>b. \A j \in Items : RowBudget(work[j], interrupted[j], Holder(j))
    BY DEF IInv, BudgetInv, RowBudget
  <1>n. \A j \in Items : work[j].attempts \in Nat /\ interrupted[j] \in Nat
    BY <1>t DEF TypeOK, Row
  <1> USE DEF RowBudget, Holder
  <1>1. ASSUME NEW j \in Items, Enqueue(j) \/ Schedule(j)
        PROVE RowBudget(work'[i], interrupted'[i], Holder(i)')
    BY <1>t, <1>b, <1>n, <1>1, ProducerFacts
  <1>2. ASSUME NEW k \in Kinds, ClaimKind(k)
        PROVE RowBudget(work'[i], interrupted'[i], Holder(i)')
    <2>1. PICK j \in Items : ClaimStep(j)
      BY <1>t, <1>2, ClaimFacts
    <2>2. CASE j = i
      <3>1. work'[i].attempts = work[i].attempts + 1 /\ work'[i].status = "running"
        BY <2>1, <2>2 DEF ClaimStep
      <3>2. work[i].attempts < MaxAttempts + interrupted[i]
        BY <1>b, <1>n, <2>1, <2>2 DEF ClaimStep
      <3>3. Holder(i)' /\ interrupted' = interrupted
        BY <2>1, <2>2 DEF ClaimStep
      <3> QED BY <1>n, <3>1, <3>2, <3>3
    <2>3. CASE j # i
      <3>1. work'[i] = work[i] /\ interrupted' = interrupted /\ held = {}
        BY <2>1, <2>3 DEF ClaimStep
      <3>2. ~Holder(i)
        BY <3>1
      <3> QED BY <1>b, <1>n, <3>1, <3>2
    <2> QED BY <2>2, <2>3
  <1>3. CASE RecoverAll \/ \E k \in Kinds : RecoverKind(k)
    BY <1>t, <1>b, <1>n, <1>3, RecoverFacts
  <1>4. ASSUME NEW h \in held, Finish(h)
        PROVE RowBudget(work'[i], interrupted'[i], Holder(i)')
    <2>1. held' = {} /\ ~Holder(i)'
      BY <1>4, FinishFacts
    <2>2. CASE h.item = i
      BY <1>b, <1>n, <1>4, <2>2, FinishFacts
    <2>3. CASE h.item # i
      <3>1. work'[i] = work[i] /\ interrupted'[i] = interrupted[i]
        BY <1>4, <2>3, FinishFacts
      <3>2. ~Holder(i)
        BY <1>t, <2>3 DEF ClaimIsExclusive
      <3> QED BY <1>b, <3>1, <3>2
    <2> QED BY <2>2, <2>3
  <1>5. ASSUME NEW h \in held, Abandon(h)
        PROVE RowBudget(work'[i], interrupted'[i], Holder(i)')
    <2>1. work' = work /\ h.item \in Items
      BY <1>t, <1>5, HeldType DEF Abandon
    <2>2. interrupted'[i] = IF i = h.item THEN interrupted[i] + 1 ELSE interrupted[i]
      BY <1>t, <1>5, <2>1 DEF Abandon, TypeOK
    <2> QED BY <1>t, <1>b, <1>n, <2>1, <2>2 DEF ClaimIsExclusive
  <1>6. CASE Crash
    BY <1>b, <1>n, <1>6 DEF Crash
  <1>7. CASE Boot
    BY <1>b, <1>7 DEF Boot
  <1>8. ASSUME NEW r \in Requests, NEW j \in Items, BootWithRequest(r, j)
        PROVE RowBudget(work'[i], interrupted'[i], Holder(i)')
    BY <1>t, <1>b, <1>n, <1>8, BootFacts
  <1>9. CASE Tick
    BY <1>t, <1>b, <1>9, TickFacts
  <1>10. CASE UNCHANGED vars
    BY <1>b, <1>10 DEF vars
  <1> QED BY <1>1, <1>2, <1>3, <1>4, <1>5, <1>6, <1>7, <1>8, <1>9, <1>10 DEF Next

LEMMA Inductive == Spec => []IInv
  <1>1. IInv /\ [Next]_vars => IInv'
    BY StepTypeOK, StepExclusive, StepSignal, StepBudget DEF IInv
  <1> QED BY <1>1, InitIInv, PTL DEF Spec

-----------------------------------------------------------------------------
(* The ledger's variables keep their types.                                *)
THEOREM Typing == Spec => []TypeOK
  <1>1. IInv => TypeOK
    BY DEF IInv
  <1> QED BY <1>1, Inductive, PTL

(* No recovery, producer, boot or crash of state.py ever takes a claimed   *)
(* row away from the thread that executes it, so the compare-and-set of    *)
(* every verdict finds the row it claimed.                                 *)
THEOREM Exclusive == Spec => []ClaimIsExclusive
  <1>1. IInv => ClaimIsExclusive
    BY DEF IInv
  <1> QED BY <1>1, Inductive, PTL

(* A routine signal accepted by schedule_routine_work is never absorbed by *)
(* an attempt that was claimed before it.                                  *)
THEOREM SignalsSurvive == Spec => []NoLostSignal
  <1>1. IInv => NoLostSignal
    BY DEF IInv, SignalInv
  <1> QED BY <1>1, Inductive, PTL

(* Attempts of one budget exceed MAX_WORK_ATTEMPTS by no more than the     *)
(* interrupted ones.                                                       *)
THEOREM BudgetHolds == Spec => []AttemptBudget
  <1>1. IInv => AttemptBudget
    BY DEF IInv, BudgetInv, AttemptBudget
  <1> QED BY <1>1, Inductive, PTL

-----------------------------------------------------------------------------
(* The refinement: every step of the ledger is a step of the lifecycle or  *)
(* leaves the mapped state alone.                                          *)

StatusOf == [i \in Items |-> work[i].status]
Spent == {c.request : c \in receipts}

LifecycleStep == Lifecycle!Next \/ (StatusOf' = StatusOf /\ Spent' = Spent)

(* A step that changes no status and no receipt is a stutter.              *)
LEMMA Stutters ==
  ASSUME \A i \in Items : work'[i].status = work[i].status, receipts' = receipts
  PROVE LifecycleStep
  BY DEF LifecycleStep, StatusOf, Spent

(* A step that moves exactly the status of item j to s.                    *)
LEMMA OneStatus ==
  ASSUME NEW j \in Items, NEW s, work'[j].status = s,
         \A i \in Items \ {j} : work'[i].status = work[i].status
  PROVE StatusOf' = [StatusOf EXCEPT ![j] = s]
  BY DEF StatusOf

LEMMA ProducerSimulates ==
  ASSUME TypeOK, NEW i \in Items, Enqueue(i) \/ Schedule(i)
  PROVE LifecycleStep
  <1>1. receipts' = receipts /\ \A j \in Items \ {i} : work'[j].status = work[j].status
    BY ProducerFacts
  <1>2. CASE work'[i] = work[i]
    BY <1>1, <1>2, Stutters
  <1>3. CASE work[i].status \in {"absent", "succeeded"} /\ work'[i].status = "pending"
    <2>1. StatusOf' = [StatusOf EXCEPT ![i] = "pending"]
      BY <1>1, <1>3, OneStatus
    <2>2. Lifecycle!Submit(i)
      BY <1>1, <1>3, <2>1 DEF Lifecycle!Submit, StatusOf
    <2> QED BY <2>2 DEF Lifecycle!Next, LifecycleStep
  <1> QED BY <1>2, <1>3, ProducerFacts

LEMMA ClaimSimulates ==
  ASSUME TypeOK, NEW k \in Kinds, ClaimKind(k)
  PROVE LifecycleStep
  <1>1. PICK i \in Items : ClaimStep(i)
    BY ClaimFacts
  <1>2. StatusOf' = [StatusOf EXCEPT ![i] = "running"]
    BY <1>1, OneStatus DEF ClaimStep
  <1>3. Lifecycle!Start(i)
    BY <1>1, <1>2 DEF ClaimStep, Lifecycle!Start, Lifecycle!Released, StatusOf
  <1> QED BY <1>3 DEF Lifecycle!Next, LifecycleStep

LEMMA RecoverSimulates ==
  ASSUME TypeOK, RecoverAll \/ \E k \in Kinds : RecoverKind(k)
  PROVE LifecycleStep
  <1> DEFINE S == {i \in Items : work[i].status = "running" /\ work'[i].status = "retry"}
  <1>1. receipts' = receipts
        /\ \A i \in Items : work'[i].status = IF i \in S THEN "retry" ELSE work[i].status
    BY RecoverFacts
  <1>2. CASE S = {}
    BY <1>1, <1>2, Stutters
  <1>3. CASE S # {}
    <2>1. Lifecycle!Release(S, "retry")
      BY <1>1, <1>3 DEF Lifecycle!Release, StatusOf
    <2>2. S \in SUBSET Items /\ "retry" \in Lifecycle!Released
      BY DEF Lifecycle!Released
    <2> QED BY <2>1, <2>2 DEF Lifecycle!Next, LifecycleStep
  <1> QED BY <1>2, <1>3

LEMMA FinishSimulates ==
  ASSUME IInv, NEW h \in held, Finish(h)
  PROVE LifecycleStep
  <1> DEFINE i == h.item
  <1>1. i \in Items /\ work[i].status = "running" /\ receipts' = receipts
        /\ \A j \in Items \ {i} : work'[j].status = work[j].status
    BY FinishFacts
  <1> HIDE DEF i
  <1>2. StatusOf' = [StatusOf EXCEPT ![i] = work'[i].status]
    BY <1>1, OneStatus
  <1>3. work'[i].status \in {"retry", "pending", "succeeded", "blocked"}
    BY FinishFacts DEF i
  <1>4. CASE work'[i].status \in {"succeeded", "blocked"}
    <2>1. Lifecycle!Settle(i)
      BY <1>1, <1>2, <1>4 DEF Lifecycle!Settle, StatusOf
    <2> QED BY <1>1, <2>1 DEF Lifecycle!Next, LifecycleStep
  <1>5. CASE work'[i].status \in {"retry", "pending"}
    <2>1. StatusOf' = [j \in Items |-> IF j \in {i} THEN work'[i].status ELSE work[j].status]
      BY <1>1, <1>2 DEF StatusOf
    <2>2. Lifecycle!Release({i}, work'[i].status)
      BY <1>1, <2>1 DEF Lifecycle!Release, StatusOf
    <2>3. {i} \in SUBSET Items
      BY <1>1
    <2>5. work'[i].status \in Lifecycle!Released
      BY <1>5 DEF Lifecycle!Released
    <2>4. \E S \in SUBSET Items, s \in Lifecycle!Released : Lifecycle!Release(S, s)
      BY <2>2, <2>3, <2>5 DEF Lifecycle!Release
    <2> QED BY <2>4 DEF Lifecycle!Next, LifecycleStep
  <1> QED BY <1>3, <1>4, <1>5

LEMMA BootSimulates ==
  ASSUME TypeOK, NEW r \in Requests, NEW i \in Items, BootWithRequest(r, i)
  PROVE LifecycleStep
  <1>1. CASE Receipts(r) # {}
    BY <1>1, Stutters DEF BootWithRequest
  <1>2. CASE Receipts(r) = {}
    <2>1. r \notin Spent
      BY <1>2 DEF Receipts, Spent
    <2>2. Spent' = Spent \cup {r}
      <3>1. \E c : c.request = r /\ receipts' = receipts \cup {c}
        BY <1>2 DEF BootWithRequest
      <3> QED BY <3>1 DEF Spent
    <2>3. CASE work[i].status = "blocked"
      <3>1. work'[i].status = "pending"
            /\ \A j \in Items \ {i} : work'[j].status = work[j].status
        BY <1>2, <2>3 DEF BootWithRequest, TypeOK, NewRow
      <3>2. StatusOf' = [StatusOf EXCEPT ![i] = "pending"]
        BY <3>1, OneStatus
      <3>3. Lifecycle!Spend(r, i)
        BY <2>1, <2>2, <2>3, <3>2 DEF Lifecycle!Spend, StatusOf, Spent
      <3> QED BY <3>3 DEF Lifecycle!Next, LifecycleStep
    <2>4. CASE work[i].status # "blocked"
      <3>1. StatusOf' = StatusOf
        BY <1>2, <2>4 DEF BootWithRequest, StatusOf
      <3>2. Lifecycle!Spend(r, i)
        BY <2>1, <2>2, <2>4, <3>1 DEF Lifecycle!Spend, StatusOf, Spent
      <3> QED BY <3>2 DEF Lifecycle!Next, LifecycleStep
    <2> QED BY <2>3, <2>4
  <1> QED BY <1>1, <1>2

LEMMA StepSimulates == IInv /\ [Next]_vars => [Lifecycle!Next]_(Lifecycle!lifecycleVars)
  <1> SUFFICES ASSUME IInv, [Next]_vars PROVE LifecycleStep
    BY DEF LifecycleStep, Lifecycle!lifecycleVars, StatusOf, Spent
  <1>t. TypeOK
    BY DEF IInv
  <1>1. ASSUME NEW i \in Items, Enqueue(i) \/ Schedule(i) PROVE LifecycleStep
    BY <1>t, <1>1, ProducerSimulates
  <1>2. ASSUME NEW k \in Kinds, ClaimKind(k) PROVE LifecycleStep
    BY <1>t, <1>2, ClaimSimulates
  <1>3. CASE RecoverAll \/ \E k \in Kinds : RecoverKind(k)
    BY <1>t, <1>3, RecoverSimulates
  <1>4. ASSUME NEW h \in held, Finish(h) PROVE LifecycleStep
    BY <1>4, FinishSimulates
  <1>5. ASSUME NEW h \in held, Abandon(h) PROVE LifecycleStep
    BY <1>5, Stutters DEF Abandon
  <1>6. CASE Crash \/ Boot
    BY <1>6, Stutters DEF Crash, Boot
  <1>7. ASSUME NEW r \in Requests, NEW i \in Items, BootWithRequest(r, i)
        PROVE LifecycleStep
    BY <1>t, <1>7, BootSimulates
  <1>8. CASE Tick
    BY <1>t, <1>8, TickFacts, Stutters
  <1>9. CASE UNCHANGED vars
    BY <1>9, Stutters DEF vars
  <1> QED BY <1>1, <1>2, <1>3, <1>4, <1>5, <1>6, <1>7, <1>8, <1>9 DEF Next

(* The work ledger implements the lifecycle: no crash, recovery or verdict *)
(* reopens blocked work, spends an administrative request twice, or        *)
(* settles an item nobody was attempting.                                  *)
THEOREM ImplementsLifecycle == Spec => LifecycleSpec
  <1>1. Init => Lifecycle!Init
    BY DEF Init, Lifecycle!Init, NewRow
  <1> QED BY <1>1, Inductive, StepSimulates, PTL DEF Spec, LifecycleSpec, Lifecycle!Spec


(* administrative_retry_request.py and state.py: what an operator may rely *)
(* on.  A blocked item leaves that status only as a new submission, in a   *)
(* step that spends a request nobody spent before and moves no other item; *)
(* and a spent request stays spent.                                        *)
ReopenedByRequest ==
  [][/\ Spent \subseteq Spent'
     /\ \A i \in Items : work[i].status = "blocked" /\ work'[i].status # "blocked" =>
          /\ work'[i].status = "pending"
          /\ \E r \in Requests : r \notin Spent /\ Spent' = Spent \cup {r}
          /\ \A j \in Items \ {i} : work'[j].status = work[j].status]_vars

LEMMA StepReopens ==
  ASSUME IInv, [Next]_vars
  PROVE  /\ Spent \subseteq Spent'
         /\ \A i \in Items : work[i].status = "blocked" /\ work'[i].status # "blocked" =>
              /\ work'[i].status = "pending"
              /\ \E r \in Requests : r \notin Spent /\ Spent' = Spent \cup {r}
              /\ \A j \in Items \ {i} : work'[j].status = work[j].status
  <1>1. LifecycleStep
    BY StepSimulates DEF LifecycleStep, Lifecycle!lifecycleVars, StatusOf, Spent
  <1>2. \A i \in Items : StatusOf[i] = work[i].status /\ StatusOf'[i] = work'[i].status
    BY DEF StatusOf
  <1>d. DOMAIN StatusOf = Items
    BY DEF StatusOf
  <1> SUFFICES
        /\ Spent \subseteq Spent'
        /\ \A i \in Items : StatusOf[i] = "blocked" /\ StatusOf'[i] # "blocked" =>
             /\ StatusOf'[i] = "pending"
             /\ \E r \in Requests : r \notin Spent /\ Spent' = Spent \cup {r}
             /\ \A j \in Items \ {i} : StatusOf'[j] = StatusOf[j]
    BY <1>2
  <1>3. CASE StatusOf' = StatusOf /\ Spent' = Spent
    BY <1>3
  <1>4. ASSUME Spent' = Spent,
               \A i \in Items : StatusOf[i] = "blocked" => StatusOf'[i] = "blocked"
        PROVE  /\ Spent \subseteq Spent'
               /\ \A i \in Items : StatusOf[i] = "blocked" /\ StatusOf'[i] # "blocked" =>
                    /\ StatusOf'[i] = "pending"
                    /\ \E r \in Requests : r \notin Spent /\ Spent' = Spent \cup {r}
                    /\ \A j \in Items \ {i} : StatusOf'[j] = StatusOf[j]
    BY <1>4
  <1>5. CASE \E i \in Items : Lifecycle!Submit(i) \/ Lifecycle!Start(i) \/ Lifecycle!Settle(i)
    <2>1. PICK i \in Items : Lifecycle!Submit(i) \/ Lifecycle!Start(i) \/ Lifecycle!Settle(i)
      BY <1>5
    <2>2. StatusOf[i] # "blocked" /\ Spent' = Spent
      BY <2>1 DEF Lifecycle!Submit, Lifecycle!Start, Lifecycle!Settle, Lifecycle!Released,
                  StatusOf, Spent
    <2>3. \E s : StatusOf' = [StatusOf EXCEPT ![i] = s]
      BY <2>1 DEF Lifecycle!Submit, Lifecycle!Start, Lifecycle!Settle, StatusOf
    <2>4. \A j \in Items \ {i} : StatusOf'[j] = StatusOf[j]
      BY <2>3, <1>d
    <2> QED BY <1>4, <2>2, <2>4
  <1>6. CASE \E S \in SUBSET Items, s \in Lifecycle!Released : Lifecycle!Release(S, s)
    <2>1. PICK S \in SUBSET Items, s \in Lifecycle!Released : Lifecycle!Release(S, s)
      BY <1>6
    <2>2. /\ Spent' = Spent /\ \A i \in S : StatusOf[i] = "running"
          /\ \A j \in Items : StatusOf'[j] = IF j \in S THEN s ELSE StatusOf[j]
      BY <2>1 DEF Lifecycle!Release, StatusOf, Spent
    <2> QED BY <1>4, <2>2
  <1>7. CASE \E r \in Requests, i \in Items : Lifecycle!Spend(r, i)
    <2>1. PICK r \in Requests, i \in Items : Lifecycle!Spend(r, i)
      BY <1>7
    <2>2. /\ r \notin Spent /\ Spent' = Spent \cup {r}
          /\ StatusOf' = IF StatusOf[i] = "blocked" THEN [StatusOf EXCEPT ![i] = "pending"]
                                                    ELSE StatusOf
      BY <2>1 DEF Lifecycle!Spend, StatusOf, Spent
    <2>3. /\ \A j \in Items \ {i} : StatusOf'[j] = StatusOf[j]
          /\ StatusOf'[i] # StatusOf[i] => StatusOf'[i] = "pending"
      BY <2>2, <1>d
    <2> QED BY <2>2, <2>3
  <1> QED BY <1>1, <1>3, <1>5, <1>6, <1>7 DEF LifecycleStep, Lifecycle!Next

(* administrative_retry_request.py: for all items, requests, crashes and   *)
(* replays, no request reopens two items or one item twice, and nothing    *)
(* but a request reopens blocked work.                                     *)
THEOREM OneRequestOneRetry == Spec => ReopenedByRequest
  BY StepReopens, Inductive, PTL DEF Spec, ReopenedByRequest

=============================================================================

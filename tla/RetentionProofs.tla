-------------------------- MODULE RetentionProofs --------------------------
(* Proofs about the publication of a branch and the retention of its       *)
(* history, for any contents, cases and bounds.                            *)
EXTENDS Retention, FiniteSetTheorems, SequenceTheorems, TLAPS

USE PublicationAssumption, RetentionAssumption

-----------------------------------------------------------------------------
(* Histories: well typed, no longer than the clock, in the order of time   *)

Hist(h, n) ==
  /\ h \in Seq(Entry) /\ Len(h) <= n
  /\ \A i \in 1..Len(h) : h[i].at <= n
  /\ \A i, j \in 1..Len(h) : i < j => h[i].at < h[j].at

Synced(h) == \A i \in 1..Len(h) : h[i].by = "sync"

LEMMA EntryFacts ==
  ASSUME NEW e \in Entry
  PROVE  e.at \in Nat /\ e.tree \in Trees \cup {OtherTree}
  BY DEF Entry

LEMMA HistFacts ==
  ASSUME NEW n, NEW h, Hist(h, n)
  PROVE  /\ h \in Seq(Entry) /\ Len(h) \in Nat
         /\ h # Absent => Len(h) \in Nat \ {0}
         /\ \A i \in 1..Len(h) : h[i] \in Entry /\ h[i].at \in Nat
  <1>1. h \in Seq(Entry)
    BY DEF Hist
  <1>2. \A i \in 1..Len(h) : h[i] \in Entry
    BY <1>1, ElementOfSeq
  <1>3. Len(h) \in Nat /\ (h # Absent => Len(h) \in Nat \ {0})
    BY <1>1, EmptySeq DEF Absent
  <1> QED BY <1>1, <1>2, <1>3, EntryFacts

LEMMA HistGrows ==
  ASSUME NEW n \in Nat, NEW m \in Nat, n <= m, NEW h, Hist(h, n)
  PROVE  Hist(h, m)
  BY HistFacts DEF Hist

LEMMA HistIsHead ==
  ASSUME NEW n \in 0..MaxCommits, NEW h, Hist(h, n)
  PROVE  IsHead(h)
  BY DEF Hist, IsHead

LEMMA AbsentIsHist ==
  ASSUME NEW n \in Nat
  PROVE  Hist(Absent, n) /\ Synced(Absent)
  BY DEF Hist, Synced, Absent

LEMMA HistCommit ==
  ASSUME NEW n \in Nat, n < MaxCommits, NEW h, Hist(h, n),
         NEW tree \in Trees \cup {OtherTree}, NEW by \in {"sync", "promotion", "foreign"},
         NEW e, e = [tree |-> tree, by |-> by, at |-> n + 1]
  PROVE  /\ Hist(Append(h, e), n + 1)
         /\ Append(h, e) # Absent /\ Last(Append(h, e)) = e
         /\ IsPrefix(h, Append(h, e))
         /\ (Synced(h) /\ by = "sync" => Synced(Append(h, e)))
  <1>1. e \in Entry /\ e.at = n + 1 /\ e.by = by
    BY DEF Entry
  <1>2. /\ Append(h, e) \in Seq(Entry) /\ Len(Append(h, e)) = Len(h) + 1
        /\ \A i \in 1..Len(h) : Append(h, e)[i] = h[i]
        /\ Append(h, e)[Len(h) + 1] = e
    BY <1>1, HistFacts, AppendProperties
  <1>3. Len(h) \in Nat /\ \A i \in 1..Len(h) : h[i].at \in Nat
    BY HistFacts
  <1> DEFINE g == Append(h, e)
  <1> HIDE DEF g
  <1>4. Hist(g, n + 1)
    <2>1. \A i \in 1..Len(g) : g[i].at <= n + 1
      BY <1>1, <1>2, <1>3 DEF Hist, g
    <2>2. ASSUME NEW i \in 1..Len(g), NEW j \in 1..Len(g), i < j
          PROVE  g[i].at < g[j].at
      <3>1. i \in 1..Len(h) /\ g[i].at = h[i].at /\ h[i].at <= n
        BY <1>2, <1>3, <2>2 DEF Hist, g
      <3>2. CASE j \in 1..Len(h)
        BY <1>2, <2>2, <3>1, <3>2 DEF Hist, g
      <3>3. CASE j = Len(h) + 1
        BY <1>1, <1>2, <1>3, <3>1, <3>3 DEF g
      <3> QED BY <1>2, <1>3, <3>2, <3>3 DEF g
    <2> QED BY <1>2, <1>3, <2>1, <2>2 DEF Hist, g
  <1>5. g # Absent /\ Last(g) = e
    BY <1>2, <1>3 DEF g, Absent, Last
  <1>6. IsPrefix(h, g)
    <2>1. SubSeq(h, 1, Len(h)) = SubSeq(g, 1, Len(h))
      BY <1>2, <1>3 DEF g, Hist
    <2> QED BY <1>2, <1>3, <2>1 DEF IsPrefix, g
  <1>7. Synced(h) /\ by = "sync" => Synced(g)
    BY <1>1, <1>2, <1>3 DEF Synced, g
  <1> QED BY <1>4, <1>5, <1>6, <1>7 DEF g

LEMMA HistFront ==
  ASSUME NEW n \in Nat, NEW h, Hist(h, n), h # Absent
  PROVE  Hist(Front(h), n)
  <1>1. h \in Seq(Entry) /\ Len(h) \in Nat \ {0}
    BY HistFacts
  <1> DEFINE q == Len(h) - 1
  <1>2. q \in Nat /\ q + 1 = Len(h) /\ \A i \in 1..q : h[i] \in Entry
    BY <1>1, HistFacts
  <1>3. Front(h) = SubSeq(h, 1, q)
    BY DEF Front
  <1> HIDE DEF q
  <1>4. /\ Front(h) \in Seq(Entry) /\ Len(Front(h)) = q
        /\ \A i \in 1..q : Front(h)[i] = h[i]
    <2>1. /\ SubSeq(h, 1, q) \in Seq(Entry)
          /\ Len(SubSeq(h, 1, q)) = IF 1 <= q THEN q - 1 + 1 ELSE 0
          /\ \A i \in 1..(q - 1 + 1) : SubSeq(h, 1, q)[i] = h[1 + i - 1]
      BY <1>2, SubSeqProperties
    <2> QED BY <1>2, <1>3, <2>1
  <1> QED BY <1>1, <1>2, <1>4 DEF Hist

(* The newest entries of a history.                                        *)
LEMMA HistSuffix ==
  ASSUME NEW n \in Nat, NEW h, Hist(h, n), NEW k \in 1..Len(h)
  PROVE  /\ Hist(Suffix(h, k), n) /\ Suffix(h, k) # Absent
         /\ Last(Suffix(h, k)) = Last(h) /\ Len(Suffix(h, k)) = k
         /\ \A i \in 1..k : Suffix(h, k)[i] = h[Len(h) - k + i]
         /\ Synced(h) => Synced(Suffix(h, k))
         /\ IsSuffix(Suffix(h, k), h)
  <1> DEFINE g == Suffix(h, k)
  <1>1. Len(h) \in Nat /\ h \in Seq(Entry) /\ Len(h) - k + 1 \in 1..Len(h)
    BY HistFacts
  <1>2. /\ g \in Seq(Entry) /\ Len(g) = k
        /\ \A i \in 1..k : g[i] = h[Len(h) - k + i]
    <2>1. /\ g \in Seq(Entry) /\ Len(g) = Len(h) - (Len(h) - k + 1) + 1
          /\ \A i \in 1..(Len(h) - (Len(h) - k + 1) + 1) : g[i] = h[(Len(h) - k + 1) + i - 1]
      BY <1>1, SubSeqProperties DEF Suffix
    <2> QED BY <1>1, <2>1
  <1> HIDE DEF g
  <1>3. \A i \in 1..k : Len(h) - k + i \in 1..Len(h)
    BY <1>1
  <1>4. Hist(g, n)
    <2>1. \A i \in 1..k : g[i].at <= n
      <3> SUFFICES ASSUME NEW i \in 1..k PROVE g[i].at <= n
        OBVIOUS
      <3>1. h[Len(h) - k + i].at <= n
        BY <1>3 DEF Hist
      <3> QED BY <1>2, <3>1
    <2>2. \A i, j \in 1..k : i < j => Len(h) - k + i < Len(h) - k + j
      BY <1>1
    <2>3. \A i, j \in 1..k : i < j => g[i].at < g[j].at
      <3> SUFFICES ASSUME NEW i \in 1..k, NEW j \in 1..k, i < j PROVE g[i].at < g[j].at
        OBVIOUS
      <3>1. h[Len(h) - k + i].at < h[Len(h) - k + j].at
        BY <1>3, <2>2 DEF Hist
      <3> QED BY <1>2, <3>1
    <2>4. k <= n
      BY <1>1 DEF Hist
    <2> QED BY <1>2, <2>1, <2>3, <2>4 DEF Hist
  <1>5. g # Absent /\ Last(g) = Last(h)
    BY <1>1, <1>2 DEF Absent, Last
  <1>6. Synced(h) => Synced(g)
    <2> SUFFICES ASSUME Synced(h), NEW i \in 1..k PROVE g[i].by = "sync"
      BY <1>2 DEF Synced
    <2>1. h[Len(h) - k + i].by = "sync"
      BY <1>3 DEF Synced
    <2> QED BY <1>2, <2>1
  <1>7. IsSuffix(g, h)
    <2>1. Len(Reverse(g)) = k /\ Len(Reverse(h)) = Len(h)
      BY <1>1, <1>2 DEF Reverse
    <2>2. \A i \in 1..k : Reverse(g)[i] = Reverse(h)[i]
      BY <1>1, <1>2 DEF Reverse
    <2>3. Reverse(g) \in Seq(Entry) /\ Reverse(h) \in Seq(Entry)
      BY <1>1, <1>2, <1>3 DEF Reverse
    <2> HIDE DEF Reverse
    <2>4. SubSeq(Reverse(g), 1, k) = SubSeq(Reverse(h), 1, k)
      BY <1>1, <2>1, <2>2, <2>3
    <2> QED BY <1>1, <2>1, <2>4 DEF IsSuffix, IsPrefix
  <1> QED BY <1>2, <1>4, <1>5, <1>6, <1>7 DEF g

(* A plan keeps at least the newest entry, drops only expired ones, and    *)
(* keeps what it keeps at the end.                                         *)
LEMMA PlanKeeps ==
  ASSUME NEW n \in Nat, NEW h, Hist(h, n), h # Absent, NEW ref \in Nat
  PROVE  /\ Plan(h, ref).head = h /\ Plan(h, ref).keep \in 1..Len(h)
         /\ \A i \in 1..(Len(h) - Plan(h, ref).keep) : h[i].at <= ref
  <1> DEFINE S == Kept(h, ref)
             k == Cardinality(S)
  <1>1. Len(h) \in Nat \ {0} /\ \A i \in 1..Len(h) : h[i].at \in Nat
    BY HistFacts
  <1>2. S \subseteq 1..Len(h) /\ Len(h) \in S
    BY <1>1 DEF Kept
  <1>3. IsFiniteSet(1..Len(h)) /\ Cardinality(1..Len(h)) = Len(h)
    <2>1. Len(h) \in Int /\ 1 \in Int /\ Len(h) - 1 + 1 = Len(h) /\ ~(1 > Len(h))
      BY <1>1
    <2> QED BY <2>1, FS_Interval
  <1>4. IsFiniteSet(S) /\ k \in Nat /\ k <= Len(h)
    BY <1>2, <1>3, FS_Subset, FS_CardinalityType
  <1>5. k # 0
    BY <1>2, <1>4, FS_EmptySet
  <1>6. ASSUME NEW i \in 1..(Len(h) - k) PROVE h[i].at <= ref
    <2> SUFFICES ASSUME h[i].at > ref PROVE FALSE
      BY <1>1, <1>4
    <2>0. i \in 1..Len(h) /\ Len(h) - i + 1 > k
      BY <1>1, <1>4
    <2>1. i..Len(h) \subseteq S
      <3> SUFFICES ASSUME NEW j \in i..Len(h) PROVE j \in S
        OBVIOUS
      <3>1. j \in 1..Len(h) /\ (j = i \/ i < j)
        BY <2>0, <1>1
      <3>2. h[j].at > ref
        BY <3>1, <2>0, <1>1 DEF Hist
      <3> QED BY <3>1, <3>2 DEF Kept
    <2>2. Cardinality(i..Len(h)) = Len(h) - i + 1
      <3>1. i \in Int /\ Len(h) \in Int /\ ~(i > Len(h))
        BY <2>0, <1>1
      <3> QED BY <3>1, FS_Interval
    <2>3. Cardinality(i..Len(h)) <= k
      BY <2>1, <1>4, FS_Subset
    <2> QED BY <2>0, <2>2, <2>3, <1>1, <1>4
  <1> QED BY <1>1, <1>4, <1>5, <1>6 DEF Plan
-----------------------------------------------------------------------------
(* The inductive invariant *)

Numbers ==
  /\ clock \in 0..MaxCommits /\ faults \in 0..MaxFaults /\ foreign \in 0..MaxForeign
  /\ horizon \in 0..MaxHorizon

(* What deployments and others do is a history; the baseline is SyncApp's  *)
(* own, and names the tree its commit carries.                             *)
BranchInv ==
  /\ case \in Cases /\ source \in Trees
  /\ deploying \in SUBSET [tree : Trees, prior : Trees, on : Seq(Entry)]
  /\ \A d \in deploying : Hist(d.on, clock)
  /\ Hist(remote, clock)

BaselineOK(base, n) ==
  /\ base \in SUBSET [snapshot : Trees, commit : Seq(Entry)]
  /\ \A b, c \in base : b = c
  /\ \A b \in base : /\ Hist(b.commit, n) /\ Synced(b.commit) /\ b.commit # Absent
                     /\ Last(b.commit).tree = b.snapshot

BaselineInv == BaselineOK(baseline, clock)

(* A publication commits what it captured on a head of SyncApp's own.      *)
MadeSteps == {"committed", "authorized", "checked", "pushed", "verified", "recorded"}

PassOK(p, n) ==
  /\ p \in [step : Steps \cup {"idle"}, key : Trees \cup {NoTree}, tree : Trees \cup {NoTree},
            seen : Seq(Entry), made : Seq(Entry)]
  /\ Hist(p.seen, n) /\ Synced(p.seen) /\ Hist(p.made, n) /\ Synced(p.made)
  /\ p.step \in Steps \ {"claimed"} => p.tree \in Trees
  /\ p.step \in MadeSteps => p.made # Absent /\ Last(p.made).tree = p.tree

PassInv ==
  /\ PassOK(pass, clock)
  /\ IF pass.step = "idle" THEN pass = Idle ELSE pass.key \in DOMAIN work

(* A row that nobody holds has an attempt left for every fault to come.    *)
Spent(row, n, held) ==
  /\ row.attempts <= MaxAttempts + n
  /\ row.status \in {"pending", "retry", "running"} /\ ~held => row.attempts < MaxAttempts + n

WorkInv ==
  /\ work \in [DOMAIN work -> [status : {"pending", "running", "retry", "succeeded", "blocked"},
                               attempts : Nat, outcome : Outcomes]]
  /\ DOMAIN work \subseteq Keys
  /\ \A k \in DOMAIN work : Spent(work[k], faults, pass.step # "idle" /\ pass.key = k)

(* The pass has claimed the row.                                           *)
RetHolds(k) == ret.step \notin {"idle", "discovered"} /\ ret.key = k

(* A retention row is the plan of its head at its reference time.          *)
RowsInv ==
  /\ rows \in [DOMAIN rows -> [status : {"pending", "running", "retry", "succeeded", "blocked"},
                               attempts : Nat, ref : Nat,
                               outcome : {"none", "failed", "stale", "no_change", "replaced"}]]
  /\ \A k \in DOMAIN rows :
       /\ Hist(k.head, clock) /\ k.head # Absent
       /\ rows[k].ref <= horizon /\ k = Plan(k.head, rows[k].ref)
       /\ Spent(rows[k], faults, RetHolds(k))

IntentInv ==
  \A i \in intents : /\ i.key \in DOMAIN rows /\ i.replacement = Replacement(i.key)
                     /\ Synced(i.key.head)
                     /\ i.snapshot \in Trees /\ Last(i.key.head).tree = i.snapshot

(* From the moment a pass has proven its plan until the baseline follows,  *)
(* the head to be replaced is the one the baseline names.                  *)
RetInv ==
  /\ ret \in [step : {"idle", "discovered", "claimed", "proven", "authorized", "intended",
                      "rechecked", "replaced", "advanced"},
              key : {NoKey} \cup DOMAIN rows]
  /\ ~RetIdle => ret.key \in DOMAIN rows
  /\ ret.step \in {"proven", "authorized", "intended", "rechecked", "replaced"} =>
       \E b \in baseline : b.commit = ret.key.head

Inv == /\ Numbers /\ BranchInv /\ BaselineInv /\ PassInv /\ WorkInv /\ RowsInv /\ IntentInv
       /\ RetInv

LEMMA InitInv == Init => Inv
  <1> SUFFICES ASSUME Init PROVE Inv
    OBVIOUS
  <1> USE DEF Init, PubInit
  <1>0. Numbers
    BY DEF Numbers
  <1>1. BranchInv
    BY AbsentIsHist DEF BranchInv
  <1>2. BaselineInv
    BY DEF BaselineInv, BaselineOK
  <1>3. PassInv
    <2>1. Absent \in Seq(Entry)
      BY DEF Absent
    <2> QED BY <2>1, AbsentIsHist DEF PassInv, PassOK, Idle, MadeSteps, Steps
  <1>4. WorkInv /\ RowsInv
    <2>1. work = [k \in {} |-> NewWork] /\ DOMAIN work = {}
      OBVIOUS
    <2>2. rows = [k \in {} |-> NewWork] /\ DOMAIN rows = {}
      OBVIOUS
    <2> QED BY <2>1, <2>2 DEF WorkInv, RowsInv
  <1>5. IntentInv /\ RetInv
    BY DEF IntentInv, RetInv, NoPass, RetIdle
  <1> QED BY <1>0, <1>1, <1>2, <1>3, <1>4, <1>5 DEF Inv
-----------------------------------------------------------------------------
(* What several steps share *)

LEMMA NumberFacts ==
  ASSUME Inv
  PROVE  /\ clock \in Nat /\ faults \in Nat /\ foreign \in Nat /\ horizon \in Nat
         /\ clock <= MaxCommits /\ horizon \in 0..MaxHorizon
  BY DEF Inv, Numbers

(* What time does to the state nobody touches.                             *)
LEMMA BranchFrame ==
  ASSUME Inv, UNCHANGED <<case, source, deploying>>, clock' \in Nat, clock <= clock',
         Hist(remote', clock')
  PROVE  BranchInv'
  <1>1. \A d \in deploying : Hist(d.on, clock')
    BY NumberFacts, HistGrows DEF Inv, BranchInv
  <1> QED BY <1>1 DEF Inv, BranchInv

LEMMA BaselineFrame ==
  ASSUME Inv, UNCHANGED baseline, clock' \in Nat, clock <= clock'
  PROVE  BaselineInv'
  <1>1. \A b \in baseline : Hist(b.commit, clock')
    BY NumberFacts, HistGrows DEF Inv, BaselineInv, BaselineOK
  <1> QED BY <1>1 DEF Inv, BaselineInv, BaselineOK

LEMMA RemoteFrame ==
  ASSUME Inv, UNCHANGED remote, clock' \in Nat, clock <= clock'
  PROVE  Hist(remote', clock')
  BY NumberFacts, HistGrows DEF Inv, BranchInv

LEMMA PassFrame ==
  ASSUME Inv, UNCHANGED pass, clock' \in Nat, clock <= clock', DOMAIN work \subseteq DOMAIN work'
  PROVE  PassInv'
  <1>1. Hist(pass.seen, clock') /\ Hist(pass.made, clock')
    BY NumberFacts, HistGrows DEF Inv, PassInv, PassOK
  <1> QED BY <1>1 DEF Inv, PassInv, PassOK

LEMMA WorkFrame ==
  ASSUME Inv, UNCHANGED <<case, work, pass>>, faults' \in Nat, faults <= faults'
  PROVE  WorkInv'
  <1>1. \A k \in DOMAIN work : work[k].attempts \in Nat
    BY DEF Inv, WorkInv
  <1> QED BY <1>1, NumberFacts DEF Inv, WorkInv, Spent, Keys

LEMMA RowsFrame ==
  ASSUME Inv, UNCHANGED <<rows, ret, intents>>, clock' \in Nat, clock <= clock',
         faults' \in Nat, faults <= faults', horizon' \in Nat, horizon <= horizon'
  PROVE  RowsInv' /\ IntentInv'
  <1>1. \A k \in DOMAIN rows : /\ Hist(k.head, clock')
                               /\ rows[k].ref \in Nat /\ rows[k].attempts \in Nat
    BY NumberFacts, HistGrows DEF Inv, RowsInv
  <1>2. RowsInv'
    BY <1>1, NumberFacts DEF Inv, RowsInv, Spent, RetHolds
  <1> QED BY <1>2 DEF Inv, IntentInv

LEMMA RetFrame ==
  ASSUME Inv, UNCHANGED <<ret, rows>>, baseline' = baseline \/ RetIdle
  PROVE  RetInv'
  BY DEF Inv, RetInv, RetIdle

(* A pass is busy with its publication, nothing else moves.                *)
LEMMA BusyFrame ==
  ASSUME Inv, RetIdle, UNCHANGED <<case, source, deploying, foreign, retVars>>,
         Numbers', clock <= clock', faults <= faults', Hist(remote', clock'),
         BaselineOK(baseline', clock'), PassInv', WorkInv'
  PROVE  Inv'
  <1>1. clock' \in Nat /\ faults' \in Nat /\ horizon' = horizon
    BY DEF Numbers, retVars
  <1>2. BranchInv'
    BY <1>1, BranchFrame
  <1>3. RowsInv' /\ IntentInv'
    BY <1>1, NumberFacts, RowsFrame DEF retVars
  <1>4. RetInv'
    BY RetFrame DEF retVars
  <1> QED BY <1>2, <1>3, <1>4 DEF Inv, BaselineInv

LEMMA BusyFacts ==
  ASSUME Inv, pass.step # "idle"
  PROVE  /\ pass.step \in Steps /\ pass.key \in DOMAIN work
         /\ work[pass.key].attempts \in Nat /\ work[pass.key].attempts <= MaxAttempts + faults
         /\ PassOK(pass, clock)
  BY DEF Inv, PassInv, PassOK, WorkInv, Spent

LEMMA IdleOK ==
  ASSUME NEW n \in Nat
  PROVE  PassOK(Idle, n)
  <1>1. Absent \in Seq(Entry)
    BY DEF Absent
  <1> QED BY <1>1, AbsentIsHist DEF PassOK, Idle, MadeSteps, Steps

(* The pass settles its row.                                               *)
LEMMA SettleKeeps ==
  ASSUME Inv, RetIdle, pass.step # "idle",
         NEW status \in {"retry", "succeeded", "blocked"}, NEW outcome \in Outcomes,
         Settle(status, outcome),
         status = "retry" => work[pass.key].attempts < MaxAttempts,
         faults' \in {faults, faults + 1}, faults' <= MaxFaults,
         remote' \in {remote, pass.made},
         UNCHANGED <<case, source, deploying, baseline, clock, foreign, retVars>>
  PROVE  Inv'
  <1> DEFINE k == pass.key
  <1>f. /\ clock \in Nat /\ faults \in Nat /\ faults' \in 0..MaxFaults /\ faults <= faults'
        /\ k \in DOMAIN work /\ work[k].attempts \in Nat
        /\ work[k].attempts <= MaxAttempts + faults
    BY NumberFacts, BusyFacts
  <1>1. Numbers'
    BY <1>f DEF Inv, Numbers, retVars
  <1>2. Hist(remote', clock') /\ BaselineOK(baseline', clock')
    BY DEF Inv, BranchInv, PassInv, PassOK, BaselineInv
  <1>3. PassInv'
    BY <1>f, IdleOK DEF Settle, PassInv, Idle
  <1>4. WorkInv'
    <2>1. /\ DOMAIN work' = DOMAIN work
          /\ \A j \in DOMAIN work \ {k} : work'[j] = work[j]
          /\ work'[k].status = status /\ work'[k].attempts = work[k].attempts
          /\ work' \in [DOMAIN work -> [status : {"pending", "running", "retry", "succeeded",
                                                  "blocked"},
                                        attempts : Nat, outcome : Outcomes]]
      <3> DEFINE Rows == [status : {"pending", "running", "retry", "succeeded", "blocked"},
                          attempts : Nat, outcome : Outcomes]
                 row == [work[k] EXCEPT !.status = status, !.outcome = outcome]
      <3>1. work \in [DOMAIN work -> Rows] /\ work' = [work EXCEPT ![k] = row]
        BY DEF Settle, Inv, WorkInv
      <3>2. row \in Rows /\ row.status = status /\ row.attempts = work[k].attempts
        BY <1>f, <3>1
      <3>3. k \in DOMAIN work
        BY <1>f
      <3> HIDE DEF Rows, row, k
      <3>4. DOMAIN work' = DOMAIN work /\ work'[k] = row
        BY <3>1, <3>3
      <3>5. \A j \in DOMAIN work \ {k} : work'[j] = work[j]
        BY <3>1
      <3>6. work' \in [DOMAIN work -> Rows]
        BY <3>1, <3>2
      <3> QED BY <3>2, <3>4, <3>5, <3>6 DEF Rows
    <2>2. \A j \in DOMAIN work \ {k} : Spent(work[j], faults, FALSE) /\ work[j].attempts \in Nat
      BY DEF Inv, WorkInv, Spent
    <2>3. \A j \in DOMAIN work' : Spent(work'[j], faults', FALSE)
      <3> SUFFICES ASSUME NEW j \in DOMAIN work PROVE Spent(work'[j], faults', FALSE)
        BY <2>1
      <3>1. CASE j = k
        BY <3>1, <1>f, <2>1 DEF Spent
      <3>2. CASE j # k
        BY <3>2, <1>f, <2>1, <2>2 DEF Spent
      <3> QED BY <3>1, <3>2
    <2>4. Keys' = Keys /\ pass'.step = "idle"
      BY DEF Keys, Settle, Idle
    <2> QED BY <2>1, <2>3, <2>4 DEF Inv, WorkInv, Spent
  <1> QED BY <1>f, <1>1, <1>2, <1>3, <1>4, BusyFrame

(* Faults of the transport, a branch that is not where it must be.         *)
LEMMA EndKeeps ==
  ASSUME Inv, RetIdle, pass.step # "idle",
         \/ Fault
         \/ (Mismatch \/ Fail(FALSE)) /\ faults' \in {faults, faults + 1} /\ faults' <= MaxFaults,
         remote' \in {remote, pass.made},
         UNCHANGED <<case, source, deploying, baseline, clock, foreign, retVars>>
  PROVE  Inv'
  <1>1. PICK transient \in BOOLEAN : Fail(transient)
    BY DEF Fault, Mismatch
  <1>2. faults' \in {faults, faults + 1} /\ faults' <= MaxFaults
    <2>1. CASE Fault
      BY <2>1, NumberFacts DEF Fault
    <2> QED BY <2>1
  <1> DEFINE status == IF transient /\ work[pass.key].attempts < MaxAttempts THEN "retry"
                                                                            ELSE "blocked"
  <1>3. Settle(status, "failed") /\ "failed" \in Outcomes
    BY <1>1 DEF Fail, Outcomes
  <1>4. status = "retry" => work[pass.key].attempts < MaxAttempts
    OBVIOUS
  <1>5. status \in {"retry", "succeeded", "blocked"}
    OBVIOUS
  <1> HIDE DEF status
  <1> QED BY <1>2, <1>3, <1>4, <1>5, SettleKeeps

(* The pass goes on.                                                       *)
LEMMA MoveKeeps ==
  ASSUME Inv, RetIdle, pass.step # "idle", pass'.step \in Steps, pass'.key = pass.key,
         PassOK(pass', clock'), clock' \in 0..MaxCommits, clock <= clock',
         Hist(remote', clock'), BaselineOK(baseline', clock'),
         UNCHANGED <<case, source, deploying, work, faults, foreign, retVars>>
  PROVE  Inv'
  <1>1. Numbers'
    BY DEF Inv, Numbers, retVars
  <1>2. PassInv'
    BY BusyFacts DEF PassInv, Steps
  <1>3. WorkInv'
    BY BusyFacts DEF Inv, WorkInv, Keys, Steps
  <1> QED BY <1>1, <1>2, <1>3, NumberFacts, BusyFrame
-----------------------------------------------------------------------------
(* The publication pass *)

Busy(p) == p.step # "idle"

(* Nothing but the place of the pass moves.                                *)
LEMMA StepKeeps ==
  ASSUME Inv, RetIdle, Busy(pass), NEW step \in Steps, pass' = [pass EXCEPT !.step = step],
         step # "claimed" => pass.tree \in Trees,
         step \in MadeSteps => pass.step \in MadeSteps,
         remote' \in {remote, pass.made}, BaselineOK(baseline', clock),
         UNCHANGED <<case, source, deploying, work, clock, faults, foreign, retVars>>
  PROVE  Inv'
  <1>1. PassOK(pass', clock')
    BY BusyFacts DEF PassOK, Steps, Busy
  <1>2. pass'.key = pass.key /\ pass'.step \in Steps
    BY BusyFacts DEF PassOK, Busy
  <1>3. Hist(remote', clock')
    BY DEF Inv, BranchInv, PassInv, PassOK
  <1> QED BY <1>1, <1>2, <1>3, MoveKeeps, NumberFacts DEF Busy

LEMMA CaptureKeeps ==
  ASSUME Inv, RetIdle, UNCHANGED retVars,
         \/ CaptureConfiguration \/ BackUpDatabase \/ BuildInventory \/ LoadArtifact
         \/ CaptureFault
  PROVE  Inv'
  <1>f. pass.step = "claimed" /\ UNCHANGED <<case, source, deploying, remote, baseline, clock, foreign>>
    BY DEF CaptureConfiguration, BackUpDatabase, BuildInventory, LoadArtifact, CaptureFault, Capture
  <1>e. ASSUME Fail(FALSE) \/ Fault, UNCHANGED faults \/ (faults < MaxFaults /\ faults' = faults + 1)
        PROVE  Inv'
    <2>1. faults' \in {faults, faults + 1} /\ faults' <= MaxFaults /\ pass.step # "idle"
      BY <1>e, <1>f, NumberFacts DEF Inv, Numbers
    <2> QED BY <1>e, <1>f, <2>1, EndKeeps
  <1>1. ASSUME NEW tree \in Trees, Captured(tree), UNCHANGED <<work, faults>> PROVE Inv'
    <2>1. /\ pass'.step = "captured" /\ pass'.key = pass.key
          /\ PassOK(pass', clock')
      BY <1>1, <1>f, BusyFacts DEF Captured, PassOK, Steps, MadeSteps
    <2>2. Hist(remote', clock') /\ BaselineOK(baseline', clock')
      BY <1>f DEF Inv, BranchInv, BaselineInv
    <2> QED BY <1>1, <1>f, <2>1, <2>2, MoveKeeps, NumberFacts DEF Steps
  <1>2. CASE CaptureConfiguration \/ BackUpDatabase \/ BuildInventory
    BY <1>1, <1>2 DEF CaptureConfiguration, BackUpDatabase, BuildInventory, Inv, BranchInv
  <1>3. CASE LoadArtifact
    <2>1. pass.key \in Trees
      BY <1>3, <1>f, BusyFacts DEF LoadArtifact, Inv, WorkInv, Keys
    <2>2. CASE Fail(FALSE) /\ faults < MaxFaults /\ faults' = faults + 1
      BY <1>e, <2>2
    <2> QED BY <1>1, <1>3, <2>1, <2>2 DEF LoadArtifact
  <1>4. CASE CaptureFault
    BY <1>4, <1>e DEF CaptureFault, Fault
  <1> QED BY <1>2, <1>3, <1>4

LEMMA LookKeeps ==
  ASSUME Inv, RetIdle, UNCHANGED retVars,
         Observe \/ AnchorRefused \/ NoChange
  PROVE  Inv'
  <1>1. CASE Observe
    <2>f. pass.step = "captured" /\ UNCHANGED <<case, source, deploying, remote, baseline, clock, foreign>>
      BY <1>1 DEF Observe
    <2>1. CASE Refusal(remote) = "none" /\ UNCHANGED <<work, faults>>
               /\ pass' = [pass EXCEPT !.step = "cleared", !.seen = remote]
      <3>1. Synced(remote) /\ Hist(remote, clock) /\ remote \in Seq(Entry)
        BY <2>1, AbsentIsHist, NumberFacts
           DEF Refusal, Inv, BranchInv, BaselineInv, BaselineOK, Hist
      <3>2. /\ pass'.step = "cleared" /\ pass'.key = pass.key
            /\ PassOK(pass', clock')
        BY <2>1, <2>f, <3>1, BusyFacts DEF PassOK, Steps, MadeSteps
      <3>3. Hist(remote', clock') /\ BaselineOK(baseline', clock')
        BY <2>f DEF Inv, BranchInv, BaselineInv
      <3> QED BY <2>1, <2>f, <3>2, <3>3, MoveKeeps, NumberFacts DEF Steps
    <2>2. CASE Settle("blocked", Refusal(remote)) /\ UNCHANGED faults /\ Refusal(remote) # "none"
      <3>1. Refusal(remote) \in Outcomes
        BY DEF Refusal, Outcomes
      <3> QED BY <2>2, <2>f, <3>1, SettleKeeps, NumberFacts DEF Inv, Numbers
    <2>3. CASE Fault
      BY <2>3, <2>f, EndKeeps
    <2> QED BY <1>1, <2>1, <2>2, <2>3 DEF Observe
  <1>2. CASE AnchorRefused
    <2>1. /\ pass.step # "idle" /\ remote' \in {remote, pass.made}
          /\ UNCHANGED <<case, source, deploying, baseline, clock, foreign>>
          /\ Fault \/ (Mismatch /\ UNCHANGED faults)
      BY <1>2 DEF AnchorRefused
    <2>2. UNCHANGED faults => faults' \in {faults, faults + 1} /\ faults' <= MaxFaults
      BY DEF Inv, Numbers
    <2> QED BY <2>1, <2>2, EndKeeps
  <1>3. CASE NoChange
    BY <1>3, SettleKeeps, NumberFacts DEF NoChange, Outcomes, Inv, Numbers
  <1> QED BY <1>1, <1>2, <1>3

LEMMA CommitKeeps ==
  ASSUME Inv, RetIdle, UNCHANGED retVars, CommitSnapshot
  PROVE  Inv'
  <1>f. /\ pass.step = "cleared" /\ clock \in Nat /\ clock < MaxCommits /\ clock' = clock + 1
        /\ UNCHANGED <<case, source, deploying, remote, baseline, work, faults, foreign>>
        /\ pass' = [pass EXCEPT !.step = "committed",
                                !.made = Commit(pass.seen, pass.tree, "sync")]
    BY NumberFacts DEF CommitSnapshot
  <1>1. PassOK(pass, clock) /\ pass.tree \in Trees
    BY <1>f, BusyFacts DEF PassOK, Steps
  <1> DEFINE e == [tree |-> pass.tree, by |-> "sync", at |-> clock + 1]
             made == Append(pass.seen, e)
  <1>2. /\ Hist(made, clock + 1) /\ made # Absent /\ Last(made) = e /\ Synced(made)
    BY <1>f, <1>1, HistCommit DEF PassOK
  <1>3. Hist(pass.seen, clock + 1)
    <2>1. clock + 1 \in Nat /\ clock <= clock + 1 /\ Hist(pass.seen, clock)
      BY <1>f, <1>1 DEF PassOK
    <2> QED BY <1>f, <2>1, HistGrows
  <1>4. e.tree = pass.tree /\ pass'.made = made
    BY <1>f, <1>1 DEF Commit, PassOK
  <1> HIDE DEF e, made
  <1>5. /\ pass'.step = "committed" /\ pass'.key = pass.key /\ pass'.seen = pass.seen
        /\ pass'.tree = pass.tree
        /\ pass' \in [step : Steps \cup {"idle"}, key : Trees \cup {NoTree},
                      tree : Trees \cup {NoTree}, seen : Seq(Entry), made : Seq(Entry)]
    BY <1>f, <1>1, <1>2, <1>4 DEF PassOK, Hist, Steps
  <1>6. PassOK(pass', clock')
    BY <1>f, <1>1, <1>2, <1>3, <1>4, <1>5 DEF PassOK
  <1>7. Hist(remote', clock')
    BY <1>f, RemoteFrame
  <1>8. BaselineOK(baseline', clock')
    BY <1>f, BaselineFrame DEF BaselineInv
  <1>9. clock' \in 0..MaxCommits /\ clock <= clock' /\ pass'.step \in Steps /\ pass.step # "idle"
    BY <1>f, <1>5 DEF Steps
  <1> QED BY <1>f, <1>5, <1>6, <1>7, <1>8, <1>9, MoveKeeps

LEMMA PushKeeps ==
  ASSUME Inv, RetIdle, UNCHANGED retVars,
         Authorize \/ Recheck \/ Push \/ PushRejected \/ PushUnanswered \/ Verify
  PROVE  Inv'
  <1>f. /\ pass.step \in MadeSteps /\ UNCHANGED <<case, source, deploying, baseline, clock, foreign>>
        /\ remote' \in {remote, pass.made}
    BY DEF Authorize, Recheck, Push, PushRejected, PushUnanswered, Verify, MadeSteps
  <1>t. pass.step # "idle" /\ pass.tree \in Trees /\ BaselineOK(baseline', clock)
    BY <1>f, BusyFacts DEF PassOK, MadeSteps, Steps, Inv, BaselineInv
  <1>1. ASSUME NEW step \in MadeSteps, pass' = [pass EXCEPT !.step = step],
               UNCHANGED <<work, faults>>
        PROVE  Inv'
    BY <1>1, <1>f, <1>t, StepKeeps DEF MadeSteps, Steps, Busy
  <1>2. ASSUME Fault \/ (Mismatch /\ UNCHANGED faults) PROVE Inv'
    <2>1. UNCHANGED faults => faults' \in {faults, faults + 1} /\ faults' <= MaxFaults
      BY DEF Inv, Numbers
    <2> QED BY <1>2, <1>f, <1>t, <2>1, EndKeeps
  <1>3. CASE Authorize \/ Push
    BY <1>3, <1>1 DEF Authorize, Push, MadeSteps
  <1>4. CASE Recheck \/ Verify
    BY <1>4, <1>1, <1>2 DEF Recheck, Verify, MadeSteps
  <1>5. CASE PushRejected \/ PushUnanswered
    BY <1>5, <1>2 DEF PushRejected, PushUnanswered
  <1> QED BY <1>3, <1>4, <1>5

LEMMA RecordKeeps ==
  ASSUME Inv, RetIdle, UNCHANGED retVars, Record \/ Complete
  PROVE  Inv'
  <1>1. CASE Record
    <2>f. /\ pass.step = "verified"
          /\ UNCHANGED <<case, source, deploying, remote, clock, foreign>>
      BY <1>1 DEF Record
    <2>1. CASE /\ baseline' = {[snapshot |-> pass.tree, commit |-> pass.made]}
               /\ pass' = [pass EXCEPT !.step = "recorded"]
               /\ UNCHANGED <<work, faults>>
      <3>1. /\ pass.tree \in Trees /\ Hist(pass.made, clock) /\ pass.made \in Seq(Entry)
            /\ Synced(pass.made) /\ pass.made # Absent /\ Last(pass.made).tree = pass.tree
        BY <2>f, BusyFacts DEF PassOK, Steps, MadeSteps
      <3>2. BaselineOK(baseline', clock)
        BY <2>1, <3>1 DEF BaselineOK
      <3> QED BY <2>1, <2>f, <3>1, <3>2, StepKeeps DEF MadeSteps, Steps, Busy
    <2>2. CASE faults < MaxFaults /\ faults' = faults + 1 /\ Mismatch /\ UNCHANGED baseline
      BY <2>2, <2>f, EndKeeps, NumberFacts
    <2> QED BY <1>1, <2>1, <2>2 DEF Record
  <1>2. CASE Complete
    BY <1>2, SettleKeeps, NumberFacts DEF Complete, Outcomes, Inv, Numbers
  <1> QED BY <1>1, <1>2

LEMMA PassStepKeeps ==
  ASSUME Inv, RetIdle, UNCHANGED retVars, PassStep
  PROVE  Inv'
  BY CaptureKeeps, LookKeeps, CommitKeeps, PushKeeps, RecordKeeps
     DEF PassStep, LocalSync, DatabaseSync, RuntimeSync, LogSync, Synchronize
-----------------------------------------------------------------------------
(* The rows, and everybody else *)

(* The branch, the source and the time move, the rows stay.                *)
LEMMA OthersFrame ==
  ASSUME Inv, UNCHANGED <<case, baseline, work, pass, faults, rows, intents, ret>>,
         Numbers', clock <= clock', horizon <= horizon', BranchInv'
  PROVE  Inv'
  <1>1. clock' \in Nat /\ faults' \in Nat /\ faults <= faults' /\ horizon' \in Nat
    BY NumberFacts DEF Numbers
  <1>2. BaselineInv' /\ PassInv' /\ WorkInv'
    BY <1>1, BaselineFrame, PassFrame, WorkFrame
  <1>3. RowsInv' /\ IntentInv' /\ RetInv'
    BY <1>1, RowsFrame, RetFrame
  <1> QED BY <1>2, <1>3 DEF Inv

LEMMA OthersKeep ==
  ASSUME Inv, UNCHANGED retVars,
         \/ ForeignMove \/ Promote \/ PromotionRefused \/ RollBack
         \/ \E t \in Trees : Edit(t) \/ Deploy(t)
  PROVE  Inv'
  <1> USE DEF retVars
  <1>f. clock \in Nat /\ horizon \in Nat
    BY NumberFacts
  <1>b. /\ case \in Cases /\ source \in Trees /\ Hist(remote, clock)
        /\ deploying \in SUBSET [tree : Trees, prior : Trees, on : Seq(Entry)]
        /\ \A d \in deploying : Hist(d.on, clock)
    BY DEF Inv, BranchInv
  <1>1. CASE ForeignMove
    <2>0. UNCHANGED <<case, source, deploying, baseline, work, pass, faults>>
      BY <1>1 DEF ForeignMove
    <2>1. CASE /\ clock < MaxCommits /\ clock' = clock + 1
               /\ remote' = Commit(remote, OtherTree, "foreign")
      <3>1. Hist(remote', clock + 1)
        BY <2>1, <1>f, <1>b, HistCommit DEF Commit
      <3>2. Numbers' /\ clock' \in Nat /\ clock <= clock'
        BY <1>1, <2>1, <1>f DEF ForeignMove, Inv, Numbers
      <3>3. BranchInv'
        BY <2>0, <2>1, <3>1, <3>2, BranchFrame
      <3> QED BY <2>0, <3>2, <3>3, <1>f, OthersFrame
    <2>2. CASE remote # Absent /\ remote' = Front(remote) /\ UNCHANGED clock
      <3>1. Hist(remote', clock)
        BY <2>2, <1>f, <1>b, HistFront
      <3>2. Numbers' /\ clock' \in Nat /\ clock <= clock'
        BY <1>1, <2>2, <1>f DEF ForeignMove, Inv, Numbers
      <3>3. BranchInv'
        BY <2>0, <2>2, <3>1, <3>2, BranchFrame
      <3> QED BY <2>0, <3>2, <3>3, <1>f, OthersFrame
    <2> QED BY <1>1, <2>1, <2>2 DEF ForeignMove
  <1>2. CASE Promote
    <2>0. /\ UNCHANGED <<case, source, baseline, work, pass, faults, foreign>>
          /\ deploying' = {} /\ clock < MaxCommits /\ clock' = clock + 1
      BY <1>2 DEF Promote
    <2>1. PICK d \in deploying : remote' = Commit(remote, d.tree, "promotion")
      BY <1>2 DEF Promote
    <2>2. Hist(remote', clock + 1)
      BY <2>0, <2>1, <1>f, <1>b, HistCommit DEF Commit
    <2>3. Numbers'
      BY <2>0, <1>f DEF Inv, Numbers
    <2>4. BranchInv'
      BY <2>0, <2>2, <1>b DEF BranchInv
    <2> QED BY <2>0, <2>3, <2>4, <1>f, OthersFrame
  <1>3. CASE PromotionRefused \/ RollBack \/ \E t \in Trees : Edit(t) \/ Deploy(t)
    <2>0. UNCHANGED <<case, baseline, work, pass, remote, clock, faults, foreign>>
      BY <1>3 DEF PromotionRefused, RollBack, Edit, Deploy
    <2>1. Numbers'
      BY <2>0 DEF Inv, Numbers
    <2>2. CASE PromotionRefused \/ RollBack
      <3>1. BranchInv'
        BY <2>0, <2>2, <1>b DEF PromotionRefused, RollBack, BranchInv
      <3> QED BY <2>0, <2>1, <3>1, <1>f, OthersFrame
    <2>3. ASSUME NEW t \in Trees, Edit(t) PROVE Inv'
      <3>1. BranchInv'
        BY <2>0, <2>3, <1>b DEF Edit, BranchInv
      <3> QED BY <2>0, <2>1, <3>1, <1>f, OthersFrame
    <2>4. ASSUME NEW t \in Trees, Deploy(t) PROVE Inv'
      <3>1. remote \in Seq(Entry)
        BY <1>b, HistFacts
      <3>2. BranchInv'
        BY <2>0, <2>4, <3>1, <1>b DEF Deploy, BranchInv
      <3> QED BY <2>0, <2>1, <3>2, <1>f, OthersFrame
    <2> QED BY <1>3, <2>2, <2>3, <2>4
  <1> QED BY <1>1, <1>2, <1>3

LEMMA AgeKeeps ==
  ASSUME Inv, Age
  PROVE  Inv'
  <1> USE DEF Age, pubVars
  <1>1. clock \in Nat /\ horizon \in Nat /\ horizon' = horizon + 1
    BY NumberFacts
  <1>2. Numbers' /\ horizon <= horizon'
    BY <1>1 DEF Inv, Numbers
  <1>3. BranchInv'
    BY DEF Inv, BranchInv
  <1> QED BY <1>1, <1>2, <1>3, OthersFrame

(* The publication rows: a new one, a claim, a crash.                      *)
LEMMA QueueKeeps ==
  ASSUME Inv, RetIdle, UNCHANGED retVars, Schedule \/ CollectLogs \/ Claim \/ Crash
  PROVE  Inv'
  <1> DEFINE Rows == [status : {"pending", "running", "retry", "succeeded", "blocked"},
                      attempts : Nat, outcome : Outcomes]
  <1>f. /\ clock \in Nat /\ faults \in Nat
        /\ UNCHANGED <<case, source, deploying, remote, baseline, clock, foreign>>
        /\ Hist(remote', clock') /\ BaselineOK(baseline', clock')
    BY NumberFacts DEF Schedule, CollectLogs, Claim, Crash, Inv, BranchInv, BaselineInv
  <1>w. /\ work \in [DOMAIN work -> Rows] /\ DOMAIN work \subseteq Keys
        /\ \A k \in DOMAIN work : Spent(work[k], faults, pass.step # "idle" /\ pass.key = k)
    BY DEF Inv, WorkInv
  <1>n. NewWork \in Rows /\ Spent(NewWork, faults, FALSE)
    BY <1>f DEF NewWork, Spent, Outcomes
  <1>1. CASE Schedule
    <2>1. /\ work' = [k \in {NoTree} |-> NewWork] /\ pass = Idle /\ UNCHANGED <<pass, faults>>
          /\ Keys = {NoTree} /\ pass.step = "idle"
      BY <1>1 DEF Schedule, OwnerIdle, Keys, Idle
    <2>2. WorkInv'
      BY <1>f, <1>n, <2>1 DEF WorkInv, Keys, Spent
    <2>3. PassInv' /\ Numbers'
      BY <1>f, <2>1, IdleOK DEF PassInv, Idle, Inv, Numbers, retVars
    <2> QED BY <1>f, <2>1, <2>2, <2>3, BusyFrame
  <1>2. CASE CollectLogs
    <2>1. /\ work' = [k \in DOMAIN work \cup {source} |-> IF k = source THEN NewWork ELSE work[k]]
          /\ pass = Idle /\ UNCHANGED <<pass, faults>> /\ source \in Keys /\ pass.step = "idle"
      BY <1>2 DEF CollectLogs, OwnerIdle, Keys, Idle, Inv, BranchInv
    <2>2. WorkInv'
      <3>1. work' \in [DOMAIN work' -> Rows] /\ DOMAIN work' \subseteq Keys'
        BY <1>f, <1>w, <1>n, <2>1 DEF Keys
      <3>2. \A k \in DOMAIN work' : Spent(work'[k], faults', pass'.step # "idle" /\ pass'.key = k)
        BY <1>w, <1>n, <2>1 DEF Spent
      <3> QED BY <3>1, <3>2 DEF WorkInv
    <2>3. PassInv' /\ Numbers'
      BY <1>f, <2>1, IdleOK DEF PassInv, Idle, Inv, Numbers, retVars
    <2> QED BY <1>f, <2>1, <2>2, <2>3, BusyFrame
  <1>3. CASE Claim
    <2>1. PICK k \in DOMAIN work :
            /\ work[k].status \in {"pending", "retry"}
            /\ work' = [work EXCEPT ![k].status = "running", ![k].attempts = work[k].attempts + 1]
            /\ pass' = [Idle EXCEPT !.step = "claimed", !.key = k]
      BY <1>3 DEF Claim
    <2>2. pass = Idle /\ faults' = faults /\ pass.step = "idle"
      BY <1>3 DEF Claim, OwnerIdle, Idle
    <2>3. /\ pass'.step = "claimed" /\ pass'.key = k /\ pass'.tree = NoTree
          /\ pass'.seen = Absent /\ pass'.made = Absent
          /\ pass' \in [step : Steps \cup {"idle"}, key : Trees \cup {NoTree},
                        tree : Trees \cup {NoTree}, seen : Seq(Entry), made : Seq(Entry)]
      <3>1. k \in Trees \cup {NoTree} /\ Absent \in Seq(Entry)
        BY <1>w DEF Keys, Absent
      <3> QED BY <2>1, <3>1 DEF Idle, Steps
    <2>4. /\ DOMAIN work' = DOMAIN work
          /\ \A j \in DOMAIN work \ {k} : work'[j] = work[j]
          /\ work'[k].attempts = work[k].attempts + 1
          /\ work' \in [DOMAIN work -> Rows]
      <3>1. work[k] \in Rows /\ work[k].attempts + 1 \in Nat
        BY <1>w
      <3> QED BY <1>w, <2>1, <3>1
    <2>5. PassInv'
      <3>1. PassOK(pass', clock')
        BY <1>f, <2>3, AbsentIsHist DEF PassOK, Steps, MadeSteps
      <3> QED BY <2>3, <2>4, <3>1 DEF PassInv
    <2>6. WorkInv'
      <3>1. work[k].attempts \in Nat /\ work[k].attempts < MaxAttempts + faults
        BY <1>w, <2>1, <2>2 DEF Spent
      <3>2. \A j \in DOMAIN work' : Spent(work'[j], faults', pass'.step # "idle" /\ pass'.key = j)
        <4>1. Spent(work'[k], faults', TRUE)
          <5>1. work'[k].attempts <= MaxAttempts + faults
            BY <1>f, <2>4, <3>1, RetentionAssumption
          <5> QED BY <2>2, <5>1 DEF Spent
        <4>2. ASSUME NEW j \in DOMAIN work, j # k PROVE Spent(work'[j], faults', FALSE)
          <5>1. work'[j] = work[j]
            BY <2>4, <4>2
          <5>2. Spent(work[j], faults, FALSE)
            BY <1>w, <2>2 DEF Spent
          <5> QED BY <2>2, <5>1, <5>2
        <4>3. pass'.step # "idle" /\ pass'.key = k
          BY <2>3
        <4> QED BY <2>4, <4>1, <4>2, <4>3 DEF Spent
      <3>3. Keys' = Keys
        BY <1>f DEF Keys
      <3> QED BY <1>w, <2>4, <3>2, <3>3 DEF WorkInv
    <2>7. Numbers'
      BY <1>f, <2>2 DEF Inv, Numbers, retVars
    <2> QED BY <1>f, <2>2, <2>5, <2>6, <2>7, BusyFrame
  <1>4. CASE Crash
    <2>1. /\ pass' = Idle /\ faults' = faults + 1 /\ faults < MaxFaults /\ work' = work
          /\ pass'.step = "idle"
      BY <1>4 DEF Crash, Idle
    <2>2. WorkInv'
      <3>1. \A j \in DOMAIN work : work[j].attempts \in Nat
        BY <1>w
      <3>2. \A j \in DOMAIN work : Spent(work[j], faults + 1, FALSE)
        BY <1>f, <1>w, <3>1 DEF Spent
      <3> QED BY <1>f, <1>w, <2>1, <3>2 DEF WorkInv, Keys, Spent
    <2>3. PassInv' /\ Numbers'
      BY <1>f, <2>1, IdleOK DEF PassInv, Idle, Inv, Numbers, retVars
    <2> QED BY <1>f, <2>1, <2>2, <2>3, BusyFrame
  <1> QED BY <1>1, <1>2, <1>3, <1>4

LEMMA RecoverKeeps ==
  ASSUME Inv, Recover
  PROVE  Inv'
  <1>f. /\ UNCHANGED <<case, source, deploying, remote, baseline, pass, clock, faults, foreign>>
        /\ UNCHANGED <<horizon, intents, ret>> /\ pass = Idle /\ RetIdle
        /\ work' = Requeued(work) /\ rows' = Requeued(rows)
    BY DEF Recover, OwnerIdle
  <1>1. /\ DOMAIN work' = DOMAIN work /\ DOMAIN rows' = DOMAIN rows
        /\ \A k \in DOMAIN work : work'[k] = IF work[k].status = "running"
                                             THEN [work[k] EXCEPT !.status = "retry"] ELSE work[k]
        /\ \A k \in DOMAIN rows : rows'[k] = IF rows[k].status = "running"
                                             THEN [rows[k] EXCEPT !.status = "retry"] ELSE rows[k]
    BY <1>f DEF Requeued
  <1>2. WorkInv'
    <2> DEFINE Rows == [status : {"pending", "running", "retry", "succeeded", "blocked"},
                        attempts : Nat, outcome : Outcomes]
    <2>1. \A k \in DOMAIN work : /\ work[k] \in Rows
                                 /\ Spent(work[k], faults, pass.step # "idle" /\ pass.key = k)
      BY DEF Inv, WorkInv
    <2>2. /\ DOMAIN work' = DOMAIN work /\ Keys' = Keys
          /\ \A k \in DOMAIN work :
               /\ work'[k] \in Rows /\ work'[k].attempts = work[k].attempts
               /\ \/ work'[k].status = work[k].status
                  \/ (work[k].status = "running" /\ work'[k].status = "retry")
      <3>1. Keys' = Keys
        BY <1>f DEF Keys
      <3>2. ASSUME NEW k \in DOMAIN work, work[k].status = "running"
            PROVE  /\ work'[k] \in Rows /\ work'[k].attempts = work[k].attempts
                   /\ work'[k].status = "retry"
        <4>1. work'[k] = [work[k] EXCEPT !.status = "retry"] /\ work[k] \in Rows
          BY <1>1, <2>1, <3>2
        <4> QED BY <4>1
      <3>3. ASSUME NEW k \in DOMAIN work, work[k].status # "running"
            PROVE  work'[k] = work[k]
        BY <1>1, <3>3
      <3> QED BY <1>1, <2>1, <3>1, <3>2, <3>3
    <2>3. work' = [k \in DOMAIN work |-> work'[k]]
      BY <1>f, <2>2 DEF Requeued
    <2>4. \A k \in DOMAIN work' : Spent(work'[k], faults', pass'.step # "idle" /\ pass'.key = k)
      BY <1>f, <2>1, <2>2 DEF Spent
    <2>5. work' \in [DOMAIN work' -> Rows]
      BY <2>2, <2>3
    <2> QED BY <2>2, <2>4, <2>5 DEF Inv, WorkInv
  <1>3. RowsInv'
    <2> DEFINE Rows == [status : {"pending", "running", "retry", "succeeded", "blocked"},
                        attempts : Nat, ref : Nat,
                        outcome : {"none", "failed", "stale", "no_change", "replaced"}]
    <2>1. \A k \in DOMAIN rows : /\ rows[k] \in Rows
                                 /\ Spent(rows[k], faults, RetHolds(k))
      BY DEF Inv, RowsInv
    <2>2. /\ DOMAIN rows' = DOMAIN rows
          /\ \A k \in DOMAIN rows :
               /\ rows'[k] \in Rows /\ rows'[k].attempts = rows[k].attempts
               /\ rows'[k].ref = rows[k].ref
               /\ \/ rows'[k].status = rows[k].status
                  \/ (rows[k].status = "running" /\ rows'[k].status = "retry")
      <3>2. ASSUME NEW k \in DOMAIN rows, rows[k].status = "running"
            PROVE  /\ rows'[k] \in Rows /\ rows'[k].attempts = rows[k].attempts
                   /\ rows'[k].ref = rows[k].ref /\ rows'[k].status = "retry"
        <4>1. rows'[k] = [rows[k] EXCEPT !.status = "retry"] /\ rows[k] \in Rows
          BY <1>1, <2>1, <3>2
        <4> QED BY <4>1
      <3>3. ASSUME NEW k \in DOMAIN rows, rows[k].status # "running"
            PROVE  rows'[k] = rows[k]
        BY <1>1, <3>3
      <3> QED BY <1>1, <2>1, <3>2, <3>3
    <2>3. rows' = [k \in DOMAIN rows |-> rows'[k]]
      BY <1>f, <2>2 DEF Requeued
    <2>4. \A k \in DOMAIN rows' : Spent(rows'[k], faults', RetHolds(k)')
      BY <1>f, <2>1, <2>2 DEF Spent, RetHolds, RetIdle
    <2>5. rows' \in [DOMAIN rows' -> Rows]
      BY <2>2, <2>3
    <2>6. \A k \in DOMAIN rows' : /\ Hist(k.head, clock') /\ k.head # Absent
                                  /\ rows'[k].ref <= horizon' /\ k = Plan(k.head, rows'[k].ref)
      BY <1>f, <2>2 DEF Inv, RowsInv
    <2> QED BY <2>4, <2>5, <2>6 DEF RowsInv
  <1>4. /\ DOMAIN rows' = DOMAIN rows /\ DOMAIN work' = DOMAIN work
    BY <1>f, <1>1
  <1>5. IntentInv' /\ RetInv'
    BY <1>f, <1>4 DEF Inv, IntentInv, RetInv, RetIdle
  <1>6. Numbers' /\ BranchInv' /\ BaselineInv' /\ PassInv'
    BY <1>f, <1>4 DEF Inv, Numbers, BranchInv, BaselineInv, PassInv
  <1> QED BY <1>2, <1>3, <1>5, <1>6 DEF Inv
-----------------------------------------------------------------------------
(* The retention pass *)

(* What a row plans: it keeps the newest entries of its head.              *)
LEMMA RowFacts ==
  ASSUME Inv, NEW k \in DOMAIN rows
  PROVE  /\ Hist(k.head, clock) /\ k.head # Absent /\ k.keep \in 1..Len(k.head)
         /\ Hist(Replacement(k), clock) /\ Replacement(k) # Absent
         /\ Last(Replacement(k)) = Last(k.head) /\ IsSuffix(Replacement(k), k.head)
         /\ Synced(k.head) => Synced(Replacement(k))
         /\ Len(Replacement(k)) = k.keep
         /\ \A i \in 1..(Len(k.head) - k.keep) : k.head[i].at <= rows[k].ref
         /\ rows[k].ref \in Nat /\ rows[k].ref <= horizon
         /\ rows[k].attempts \in Nat /\ rows[k].attempts <= MaxAttempts + faults
  <1>1. /\ Hist(k.head, clock) /\ k.head # Absent
        /\ rows[k].ref \in Nat /\ rows[k].ref <= horizon /\ k = Plan(k.head, rows[k].ref)
        /\ rows[k].attempts \in Nat /\ rows[k].attempts <= MaxAttempts + faults
    BY DEF Inv, RowsInv, Spent
  <1>2. /\ k.keep \in 1..Len(k.head)
        /\ \A i \in 1..(Len(k.head) - k.keep) : k.head[i].at <= rows[k].ref
    BY <1>1, PlanKeeps, NumberFacts
  <1>3. /\ Hist(Suffix(k.head, k.keep), clock) /\ Suffix(k.head, k.keep) # Absent
        /\ Last(Suffix(k.head, k.keep)) = Last(k.head)
        /\ Len(Suffix(k.head, k.keep)) = k.keep
        /\ Synced(k.head) => Synced(Suffix(k.head, k.keep))
        /\ IsSuffix(Suffix(k.head, k.keep), k.head)
    BY <1>1, <1>2, HistSuffix, NumberFacts
  <1> QED BY <1>1, <1>2, <1>3 DEF Replacement

RetBusy == ret.step \notin {"idle", "discovered"}
RetTypes == [step : {"idle", "discovered", "claimed", "proven", "authorized", "intended",
                     "rechecked", "replaced", "advanced"},
             key : {NoKey} \cup DOMAIN rows]

LEMMA RetFacts ==
  ASSUME Inv, RetBusy
  PROVE  /\ ret \in RetTypes /\ ret.key \in DOMAIN rows
         /\ Hist(Replacement(ret.key), clock)
  BY RowFacts DEF Inv, RetInv, RetBusy, RetIdle, RetTypes

(* A pass moves the branch to its replacement or not at all.               *)
LEMMA RetBranch ==
  ASSUME Inv, RetBusy, remote' \in {remote, Replacement(ret.key)},
         UNCHANGED <<case, source, deploying, work, pass, clock, foreign, horizon>>,
         faults' \in {faults, faults + 1}, faults' <= MaxFaults
  PROVE  /\ Numbers' /\ BranchInv' /\ PassInv' /\ WorkInv'
         /\ clock' = clock /\ clock' \in Nat /\ faults' \in Nat /\ faults <= faults'
  <1>1. clock' = clock /\ clock' \in Nat /\ faults' \in Nat /\ faults <= faults'
    BY NumberFacts
  <1>2. Numbers'
    BY <1>1 DEF Inv, Numbers
  <1>3. BranchInv'
    <2>1. Hist(remote', clock')
      BY <1>1, RetFacts DEF Inv, BranchInv
    <2> QED BY <1>1, <2>1, BranchFrame
  <1>4. PassInv' /\ WorkInv'
    BY <1>1, PassFrame, WorkFrame
  <1> QED BY <1>1, <1>2, <1>3, <1>4

LEMMA RetSettleKeeps ==
  ASSUME Inv, RetBusy, NEW status \in {"retry", "succeeded", "blocked"},
         NEW outcome \in {"none", "failed", "stale", "no_change", "replaced"},
         RetSettle(status, outcome),
         status = "retry" => rows[ret.key].attempts < MaxAttempts,
         faults' \in {faults, faults + 1}, faults' <= MaxFaults,
         remote' \in {remote, Replacement(ret.key)},
         UNCHANGED <<case, source, deploying, baseline, work, pass, clock, foreign, horizon, intents>>
  PROVE  Inv'
  <1> DEFINE j == ret.key
             Rows == [status : {"pending", "running", "retry", "succeeded", "blocked"},
                      attempts : Nat, ref : Nat,
                      outcome : {"none", "failed", "stale", "no_change", "replaced"}]
  <1>1. /\ Numbers' /\ BranchInv' /\ PassInv' /\ WorkInv'
        /\ clock' = clock /\ clock' \in Nat /\ faults' \in Nat /\ faults <= faults'
    BY RetBranch
  <1>2. BaselineInv'
    BY <1>1, BaselineFrame
  <1>3. /\ rows \in [DOMAIN rows -> Rows] /\ j \in DOMAIN rows /\ faults \in Nat
        /\ rows[j].attempts \in Nat /\ rows[j].attempts <= MaxAttempts + faults
    BY RetFacts, RowFacts, NumberFacts DEF Inv, RowsInv
  <1>4. /\ DOMAIN rows' = DOMAIN rows /\ rows' \in [DOMAIN rows -> Rows]
        /\ \A k \in DOMAIN rows \ {j} : rows'[k] = rows[k]
        /\ rows'[j].status = status /\ rows'[j].attempts = rows[j].attempts
        /\ rows'[j].ref = rows[j].ref
        /\ ret' = NoPass
    <2>1. rows[j] \in Rows
      BY <1>3
    <2>2. rows' = [rows EXCEPT ![j] = [rows[j] EXCEPT !.status = status, !.outcome = outcome]]
      BY <1>3 DEF RetSettle
    <2>3. [rows[j] EXCEPT !.status = status, !.outcome = outcome] \in Rows
      BY <2>1
    <2> QED BY <1>3, <2>1, <2>2, <2>3 DEF RetSettle
  <1>5. RowsInv'
    <2> SUFFICES ASSUME NEW k \in DOMAIN rows
                 PROVE  /\ Hist(k.head, clock') /\ k.head # Absent
                        /\ rows'[k].ref <= horizon' /\ k = Plan(k.head, rows'[k].ref)
                        /\ Spent(rows'[k], faults', FALSE)
      <3>1. \A k \in DOMAIN rows : RetHolds(k)' = FALSE
        BY <1>4 DEF RetHolds, NoPass
      <3> QED BY <1>4, <3>1 DEF RowsInv
    <2>1. /\ Hist(k.head, clock) /\ k.head # Absent
          /\ rows[k].ref <= horizon /\ k = Plan(k.head, rows[k].ref)
      BY DEF Inv, RowsInv
    <2>2. rows'[k].ref = rows[k].ref
      BY <1>4
    <2>3. Spent(rows'[k], faults', FALSE)
      <3>1. CASE k = j
        BY <3>1, <1>1, <1>3, <1>4 DEF Spent
      <3>2. CASE k # j
        <4>1. Spent(rows[k], faults, FALSE) /\ rows[k].attempts \in Nat
          BY <3>2, <1>3 DEF Inv, RowsInv, RetHolds
        <4>2. Spent(rows[k], faults', FALSE)
          BY <4>1, <1>1, <1>3 DEF Spent
        <4> QED BY <1>4, <3>2, <4>2
      <3> QED BY <3>1, <3>2
    <2>4. UNCHANGED <<clock, horizon>>
      OBVIOUS
    <2> QED BY <2>1, <2>2, <2>3, <2>4
  <1>6. IntentInv' /\ RetInv'
    BY <1>4 DEF Inv, IntentInv, RetInv, NoPass, RetIdle
  <1> QED BY <1>1, <1>2, <1>5, <1>6 DEF Inv

LEMMA RetFailKeeps ==
  ASSUME Inv, RetBusy,
         \/ RetLoses
         \/ RetFail(FALSE) /\ UNCHANGED faults,
         remote' \in {remote, Replacement(ret.key)},
         UNCHANGED <<case, source, deploying, baseline, work, pass, clock, foreign, horizon, intents>>
  PROVE  Inv'
  <1>1. PICK transient \in BOOLEAN : RetFail(transient)
    BY DEF RetLoses
  <1>2. faults' \in {faults, faults + 1} /\ faults' <= MaxFaults
    <2>1. CASE RetLoses
      BY <2>1, NumberFacts DEF RetLoses
    <2>2. CASE UNCHANGED faults
      BY <2>2 DEF Inv, Numbers
    <2> QED BY <2>1, <2>2
  <1> DEFINE status == IF transient /\ rows[ret.key].attempts < MaxAttempts THEN "retry"
                                                                            ELSE "blocked"
  <1>3. RetSettle(status, "failed")
    BY <1>1 DEF RetFail
  <1>4. status = "retry" => rows[ret.key].attempts < MaxAttempts
    OBVIOUS
  <1>5. status \in {"retry", "succeeded", "blocked"}
    OBVIOUS
  <1> HIDE DEF status
  <1> QED BY <1>2, <1>3, <1>4, <1>5, RetSettleKeeps

LEMMA RetAdvanceKeeps ==
  ASSUME Inv, RetBusy,
         NEW step \in {"proven", "authorized", "intended", "rechecked", "replaced", "advanced"},
         Advance(step), remote' \in {remote, Replacement(ret.key)},
         UNCHANGED <<case, source, deploying, work, pass, clock, faults, foreign, horizon>>,
         BaselineOK(baseline', clock), IntentInv',
         step # "advanced" => \E b \in baseline' : b.commit = ret.key.head
  PROVE  Inv'
  <1>1. /\ Numbers' /\ BranchInv' /\ PassInv' /\ WorkInv'
    BY RetBranch, NumberFacts DEF Inv, Numbers
  <1>2. BaselineInv'
    BY DEF BaselineInv
  <1>3. /\ ret'.key = ret.key /\ ret'.step = step /\ ret' \in RetTypes /\ ret.key \in DOMAIN rows
    BY RetFacts DEF Advance, RetTypes
  <1>4. RowsInv'
    <2>1. UNCHANGED rows /\ \A k : RetHolds(k)' = RetHolds(k)
      BY <1>3 DEF RetHolds, RetBusy, Advance
    <2> QED BY <2>1 DEF Inv, RowsInv
  <1>5. RetInv'
    BY <1>3 DEF RetInv, RetTypes, RetIdle, Advance
  <1> QED BY <1>1, <1>2, <1>4, <1>5 DEF Inv

(* The head to be replaced is the one the baseline names, SyncApp's own.   *)
LEMMA BoundFacts ==
  ASSUME Inv, ret.step \in {"proven", "authorized", "intended", "rechecked", "replaced"}
  PROVE  /\ \E b \in baseline : b.commit = ret.key.head
         /\ Synced(ret.key.head)
         /\ \A b \in baseline : /\ b.commit = ret.key.head
                                /\ b.snapshot \in Trees /\ b.snapshot = Last(ret.key.head).tree
  <1>1. PICK b \in baseline : b.commit = ret.key.head
    BY DEF Inv, RetInv
  <1>2. \A c \in baseline : c = b
    BY DEF Inv, BaselineInv, BaselineOK
  <1> QED BY <1>1, <1>2 DEF Inv, BaselineInv, BaselineOK

LEMMA ResumeKeeps ==
  ASSUME Inv, ResumeReplaced \/ ResumeStale
  PROVE  Inv'
  <1>b. RetBusy /\ ret.step = "claimed"
    BY DEF ResumeReplaced, ResumeStale, RetBusy
  <1>1. CASE ResumeStale
    <2>1. /\ RetSettle("blocked", "stale") \/ RetFail(FALSE)
          /\ UNCHANGED <<pubVars, horizon, intents>>
      BY <1>1 DEF ResumeStale
    <2>2. faults' \in {faults, faults + 1} /\ faults' <= MaxFaults
      BY <2>1 DEF pubVars, Inv, Numbers
    <2>3. CASE RetSettle("blocked", "stale")
      BY <1>b, <2>1, <2>2, <2>3, RetSettleKeeps DEF pubVars
    <2>4. CASE RetFail(FALSE)
      BY <1>b, <2>1, <2>2, <2>4, RetFailKeeps DEF pubVars
    <2> QED BY <2>1, <2>3, <2>4
  <1>2. CASE ResumeReplaced
    <2>f. UNCHANGED <<case, source, deploying, remote, work, pass, clock, faults, foreign,
                      horizon, intents>>
      BY <1>2 DEF ResumeReplaced
    <2>1. CASE RetFail(FALSE) /\ UNCHANGED baseline
      BY <1>b, <2>f, <2>1, RetFailKeeps
    <2>2. ASSUME NEW i \in intents, i.key = ret.key, Advance("advanced"),
                 baseline' = {[snapshot |-> i.snapshot, commit |-> i.replacement]}
          PROVE  Inv'
      <3>1. /\ i.replacement = Replacement(ret.key) /\ Synced(ret.key.head)
            /\ i.snapshot \in Trees /\ Last(ret.key.head).tree = i.snapshot
        BY <2>2 DEF Inv, IntentInv
      <3>2. /\ Hist(i.replacement, clock) /\ Synced(i.replacement) /\ i.replacement # Absent
            /\ Last(i.replacement).tree = i.snapshot /\ i.replacement \in Seq(Entry)
        BY <1>b, <3>1, RetFacts, RowFacts, HistFacts
      <3>3. BaselineOK(baseline', clock)
        BY <2>2, <3>1, <3>2 DEF BaselineOK
      <3>4. IntentInv'
        BY <2>2, <2>f DEF Inv, IntentInv, Advance
      <3> QED BY <1>b, <2>2, <2>f, <3>3, <3>4, RetAdvanceKeeps
    <2> QED BY <1>2, <2>1, <2>2 DEF ResumeReplaced
  <1> QED BY <1>1, <1>2

LEMMA PlanningKeeps ==
  ASSUME Inv, Prove \/ AuthorizeReplacement \/ RecordIntent \/ RetRecheck \/ LeaseLost
  PROVE  Inv'
  <1>f. RetBusy /\ UNCHANGED <<pubVars, horizon>>
    BY DEF Prove, AuthorizeReplacement, RecordIntent, RetRecheck, LeaseLost, RetBusy
  <1>n. /\ faults' \in {faults, faults + 1} /\ faults' <= MaxFaults
        /\ BaselineOK(baseline', clock) /\ remote' = remote
    BY <1>f DEF pubVars, Inv, Numbers, BaselineInv
  <1>1. ASSUME NEW status \in {"retry", "succeeded", "blocked"}, status # "retry",
               NEW outcome \in {"stale", "no_change"}, RetSettle(status, outcome),
               UNCHANGED intents
        PROVE  Inv'
    BY <1>1, <1>f, <1>n, RetSettleKeeps DEF pubVars
  <1>2. ASSUME RetFail(FALSE), UNCHANGED intents PROVE Inv'
    BY <1>2, <1>f, <1>n, RetFailKeeps DEF pubVars
  <1>3. ASSUME NEW step \in {"proven", "authorized", "intended", "rechecked"}, Advance(step),
               \E b \in baseline : b.commit = ret.key.head, UNCHANGED intents
        PROVE  Inv'
    <2>1. IntentInv'
      BY <1>3 DEF Inv, IntentInv, Advance
    <2> QED BY <1>3, <1>f, <1>n, <2>1, RetAdvanceKeeps DEF pubVars
  <1>4. CASE Prove
    <2> DEFINE planned == Plan(remote, rows[ret.key].ref)
    <2>1. CASE remote = Absent \/ planned # ret.key
      BY <1>1, <1>2, <1>4, <2>1 DEF Prove
    <2>2. CASE planned = ret.key /\ remote # Absent
      <3>1. ret.key.head = remote
        BY <2>2 DEF Plan
      <3> QED BY <1>2, <1>3, <1>4, <2>2, <3>1 DEF Prove
    <2> QED BY <2>1, <2>2
  <1>5. CASE AuthorizeReplacement
    BY <1>1, <1>2, <1>3, <1>5, BoundFacts DEF AuthorizeReplacement
  <1>6. CASE RetRecheck \/ LeaseLost
    BY <1>2, <1>3, <1>6, BoundFacts DEF RetRecheck, LeaseLost
  <1>7. CASE RecordIntent
    <2>1. PICK b \in baseline :
            intents' = intents \cup {[key |-> ret.key, replacement |-> Replacement(ret.key),
                                      snapshot |-> b.snapshot]}
      BY <1>7 DEF RecordIntent
    <2>2. /\ Advance("intended") /\ ret.key \in DOMAIN rows
          /\ b.commit = ret.key.head /\ Synced(ret.key.head)
          /\ b.snapshot \in Trees /\ b.snapshot = Last(ret.key.head).tree
      BY <1>7, <1>f, BoundFacts, RetFacts DEF RecordIntent
    <2>3. IntentInv'
      BY <2>1, <2>2 DEF Inv, IntentInv, Advance
    <2>4. \E c \in baseline' : c.commit = ret.key.head
      BY <1>f, <2>2 DEF pubVars
    <2> QED BY <1>f, <1>n, <2>2, <2>3, <2>4, RetAdvanceKeeps DEF pubVars
  <1> QED BY <1>4, <1>5, <1>6, <1>7

LEMMA ReplaceKeeps ==
  ASSUME Inv, Replace \/ ReplaceUnanswered \/ AdvanceBaseline \/ RetComplete \/ RetFault
  PROVE  Inv'
  <1>f. RetBusy /\ UNCHANGED <<case, source, deploying, work, pass, clock, foreign, horizon, intents>>
    BY DEF Replace, ReplaceUnanswered, AdvanceBaseline, RetComplete, RetFault, RetBusy, pubVars
  <1>1. CASE Replace
    <2>1. UNCHANGED <<baseline, faults>> /\ Advance("replaced") /\ remote' = Replacement(ret.key)
      BY <1>1 DEF Replace
    <2>2. \E b \in baseline' : b.commit = ret.key.head
      BY <1>1, <2>1, BoundFacts DEF Replace
    <2>3. BaselineOK(baseline', clock) /\ IntentInv'
      BY <1>f, <2>1 DEF Inv, BaselineInv, IntentInv, Advance
    <2> QED BY <1>f, <2>1, <2>2, <2>3, RetAdvanceKeeps
  <1>2. CASE ReplaceUnanswered
    BY <1>2, <1>f, RetFailKeeps DEF ReplaceUnanswered
  <1>3. CASE RetFault
    BY <1>3, <1>f, RetFailKeeps DEF RetFault
  <1>4. CASE RetComplete
    <2>1. faults' \in {faults, faults + 1} /\ faults' <= MaxFaults
      BY <1>4 DEF RetComplete, pubVars, Inv, Numbers
    <2> QED BY <1>4, <1>f, <2>1, RetSettleKeeps DEF RetComplete, pubVars
  <1>5. CASE AdvanceBaseline
    <2>f. UNCHANGED <<remote, faults>> /\ ret.step = "replaced"
      BY <1>5 DEF AdvanceBaseline
    <2>1. CASE RetFail(FALSE) /\ UNCHANGED baseline
      BY <1>f, <2>f, <2>1, RetFailKeeps
    <2>2. CASE /\ baseline' = {[snapshot |-> b.snapshot, commit |-> Replacement(ret.key)]
                                 : b \in baseline}
               /\ Advance("advanced")
      <3> DEFINE h == Replacement(ret.key)
      <3>1. /\ Synced(ret.key.head)
            /\ \A b \in baseline : /\ b.snapshot \in Trees
                                   /\ b.snapshot = Last(ret.key.head).tree
        BY <2>f, BoundFacts
      <3>2. /\ Hist(h, clock) /\ Synced(h) /\ h # Absent /\ h \in Seq(Entry)
            /\ Last(h) = Last(ret.key.head)
        BY <1>f, <3>1, RetFacts, RowFacts, HistFacts
      <3> HIDE DEF h
      <3>3. \A c \in baseline' : /\ c \in [snapshot : Trees, commit : Seq(Entry)]
                                 /\ c.commit = h /\ c.snapshot = Last(ret.key.head).tree
        <4> SUFFICES ASSUME NEW c \in baseline'
                     PROVE  /\ c \in [snapshot : Trees, commit : Seq(Entry)]
                            /\ c.commit = h /\ c.snapshot = Last(ret.key.head).tree
          OBVIOUS
        <4>1. PICK b \in baseline : c = [snapshot |-> b.snapshot, commit |-> h]
          BY <2>2 DEF h
        <4> QED BY <3>1, <3>2, <4>1
      <3>4. \A c, d \in baseline' : c = d
        BY <2>2, <3>1 DEF h
      <3>5. BaselineOK(baseline', clock)
        BY <3>2, <3>3, <3>4 DEF BaselineOK
      <3>6. IntentInv'
        BY <1>f, <2>2 DEF Inv, IntentInv, Advance
      <3> QED BY <1>f, <2>f, <2>2, <3>5, <3>6, RetAdvanceKeeps
    <2> QED BY <1>5, <2>1, <2>2 DEF AdvanceBaseline
  <1> QED BY <1>1, <1>2, <1>3, <1>4, <1>5

LEMMA RetentionPassKeeps ==
  ASSUME Inv, RetStep
  PROVE  Inv'
  BY ResumeKeeps, PlanningKeeps, ReplaceKeeps
     DEF RetStep, DatabaseRetention, LogRetention, RetentionPass

(* The rows of the lane: a new one, a claim, a crash.                      *)
LEMMA DiscoverKeeps ==
  ASSUME Inv, Discover
  PROVE  Inv'
  <1> DEFINE k == Plan(remote, horizon)
             row == [status |-> "pending", attempts |-> 0, ref |-> horizon, outcome |-> "none"]
             Rows == [status : {"pending", "running", "retry", "succeeded", "blocked"},
                      attempts : Nat, ref : Nat,
                      outcome : {"none", "failed", "stale", "no_change", "replaced"}]
  <1>f. /\ UNCHANGED pubVars /\ UNCHANGED <<horizon, intents>> /\ RetIdle /\ remote # Absent
        /\ rows' = Put(k, row) /\ ret' = [step |-> "discovered", key |-> k]
        /\ horizon \in Nat /\ faults \in Nat
    BY NumberFacts DEF Discover
  <1>1. Hist(remote, clock) /\ k.head = remote
    BY DEF Inv, BranchInv, Plan
  <1>2. row \in Rows /\ row.ref = horizon /\ Spent(row, faults, FALSE)
    BY <1>f DEF Spent
  <1>3. rows \in [DOMAIN rows -> Rows]
    BY DEF Inv, RowsInv
  <1>k. k = Plan(k.head, row.ref)
    BY <1>1, <1>2
  <1> HIDE DEF row, k
  <1>4. /\ DOMAIN rows' = DOMAIN rows \cup {k} /\ rows' \in [DOMAIN rows' -> Rows]
        /\ \A j \in DOMAIN rows' : rows'[j] = IF j = k THEN row ELSE rows[j]
    BY <1>f, <1>2, <1>3 DEF Put
  <1>5. RowsInv'
    <2>1. ASSUME NEW j \in DOMAIN rows'
          PROVE  /\ Hist(j.head, clock') /\ j.head # Absent
                 /\ rows'[j].ref <= horizon' /\ j = Plan(j.head, rows'[j].ref)
                 /\ Spent(rows'[j], faults', FALSE)
      <3>1. CASE j = k
        <4>1. rows'[j] = row
          BY <3>1, <1>4
        <4>2. /\ Hist(k.head, clock) /\ k.head # Absent
              /\ row.ref <= horizon /\ k = Plan(k.head, row.ref) /\ Spent(row, faults, FALSE)
          <5>1. Hist(k.head, clock) /\ k.head # Absent
            BY <1>f, <1>1
          <5>2. horizon \in Nat /\ row.ref = horizon
            BY <1>f, <1>2
          <5>3. row.ref <= horizon
            BY <5>2
          <5> QED BY <1>2, <1>k, <5>1, <5>3
        <4>3. UNCHANGED <<clock, horizon, faults>>
          BY <1>f DEF pubVars
        <4> QED BY <3>1, <4>1, <4>2, <4>3
      <3>2. CASE j # k
        <4>1. j \in DOMAIN rows /\ rows'[j] = rows[j]
          BY <1>4, <3>2
        <4>2. /\ Hist(j.head, clock) /\ j.head # Absent
              /\ rows[j].ref <= horizon /\ j = Plan(j.head, rows[j].ref)
              /\ Spent(rows[j], faults, FALSE)
          BY <1>f, <4>1 DEF Inv, RowsInv, RetHolds, RetIdle
        <4>3. UNCHANGED <<clock, horizon, faults>>
          BY <1>f DEF pubVars
        <4> QED BY <4>1, <4>2, <4>3
      <3> QED BY <3>1, <3>2
    <2>2. \A j : RetHolds(j)' = FALSE
      BY <1>f DEF RetHolds
    <2> QED BY <1>4, <2>1, <2>2 DEF RowsInv
  <1>6. IntentInv' /\ RetInv'
    BY <1>f, <1>4 DEF Inv, IntentInv, RetInv, RetIdle
  <1>7. Numbers' /\ BranchInv' /\ BaselineInv' /\ PassInv' /\ WorkInv'
    BY <1>f DEF pubVars, Inv, Numbers, BranchInv, BaselineInv, PassInv, WorkInv, Keys
  <1> QED BY <1>5, <1>6, <1>7 DEF Inv

LEMMA RetClaimKeeps ==
  ASSUME Inv, RetClaim
  PROVE  Inv'
  <1> DEFINE Rows == [status : {"pending", "running", "retry", "succeeded", "blocked"},
                      attempts : Nat, ref : Nat,
                      outcome : {"none", "failed", "stale", "no_change", "replaced"}]
  <1>1. PICK k \in DOMAIN rows :
          /\ rows[k].status \in {"pending", "retry"}
          /\ rows' = [rows EXCEPT ![k].status = "running", ![k].attempts = rows[k].attempts + 1]
          /\ ret' = [step |-> "claimed", key |-> k]
    BY DEF RetClaim, Due
  <1>f. /\ UNCHANGED pubVars /\ UNCHANGED <<horizon, intents>> /\ ~RetBusy /\ faults \in Nat
    BY NumberFacts DEF RetClaim, RetBusy
  <1>2. rows \in [DOMAIN rows -> Rows] /\ rows[k].attempts \in Nat
        /\ \A j \in DOMAIN rows : /\ Hist(j.head, clock) /\ j.head # Absent
                                  /\ rows[j].ref <= horizon /\ j = Plan(j.head, rows[j].ref)
                                  /\ Spent(rows[j], faults, FALSE)
    BY <1>f DEF Inv, RowsInv, RetHolds, RetBusy
  <1>3. /\ DOMAIN rows' = DOMAIN rows /\ rows' \in [DOMAIN rows -> Rows]
        /\ \A j \in DOMAIN rows \ {k} : rows'[j] = rows[j]
        /\ rows'[k].attempts = rows[k].attempts + 1 /\ rows'[k].ref = rows[k].ref
    <2>1. rows[k] \in Rows
      BY <1>2
    <2>2. rows' = [rows EXCEPT ![k] = [rows[k] EXCEPT !.status = "running",
                                                      !.attempts = rows[k].attempts + 1]]
      BY <1>1
    <2>3. [rows[k] EXCEPT !.status = "running", !.attempts = rows[k].attempts + 1] \in Rows
      <3>1. rows[k].attempts + 1 \in Nat
        BY <1>2
      <3> QED BY <2>1, <3>1
    <2> QED BY <1>2, <2>1, <2>2, <2>3
  <1>4. \A j \in DOMAIN rows' : Spent(rows'[j], faults', j = k)
    <2>1. Spent(rows'[k], faults, TRUE)
      BY <1>f, <1>1, <1>2, <1>3 DEF Spent
    <2> QED BY <1>f, <1>2, <1>3, <2>1 DEF pubVars
  <1>5. RowsInv'
    <2>1. \A j : RetHolds(j)' = (j = k)
      BY <1>1 DEF RetHolds
    <2>2. \A j \in DOMAIN rows : rows'[j].ref = rows[j].ref
      BY <1>3
    <2> QED BY <1>f, <1>2, <1>3, <1>4, <2>1, <2>2 DEF RowsInv, pubVars
  <1>6. IntentInv' /\ RetInv'
    BY <1>f, <1>1, <1>3 DEF Inv, IntentInv, RetInv, RetIdle
  <1>7. Numbers' /\ BranchInv' /\ BaselineInv' /\ PassInv' /\ WorkInv'
    BY <1>f DEF pubVars, Inv, Numbers, BranchInv, BaselineInv, PassInv, WorkInv, Keys
  <1> QED BY <1>5, <1>6, <1>7 DEF Inv

LEMMA RetCrashKeeps ==
  ASSUME Inv, RetCrash
  PROVE  Inv'
  <1>f. /\ UNCHANGED <<case, source, deploying, remote, baseline, work, pass, clock, foreign,
                       horizon, rows, intents>>
        /\ ret' = NoPass /\ faults \in Nat /\ faults' = faults + 1 /\ faults < MaxFaults
        /\ clock \in Nat
    BY NumberFacts DEF RetCrash
  <1>1. Numbers'
    BY <1>f DEF Inv, Numbers
  <1>2. PassInv' /\ WorkInv' /\ BaselineInv'
    BY <1>f, PassFrame, WorkFrame, BaselineFrame
  <1>3. BranchInv'
    BY <1>f DEF Inv, BranchInv
  <1>4. RowsInv'
    <2>1. \A k \in DOMAIN rows : Spent(rows[k], faults + 1, FALSE)
      BY <1>f DEF Inv, RowsInv, Spent
    <2>2. \A k : RetHolds(k)' = FALSE
      BY <1>f DEF RetHolds, NoPass
    <2> QED BY <1>f, <2>1, <2>2 DEF Inv, RowsInv
  <1>5. IntentInv' /\ RetInv'
    BY <1>f DEF Inv, IntentInv, RetInv, NoPass, RetIdle
  <1> QED BY <1>1, <1>2, <1>3, <1>4, <1>5 DEF Inv

LEMMA StutterKeeps ==
  ASSUME Inv, UNCHANGED vars
  PROVE  Inv'
  <1> USE DEF vars, pubVars, retVars
  <1>1. Numbers' /\ BranchInv' /\ BaselineInv' /\ PassInv'
    BY DEF Inv, Numbers, BranchInv, BaselineInv, PassInv
  <1>2. WorkInv' /\ RowsInv' /\ IntentInv' /\ RetInv'
    BY DEF Inv, WorkInv, Keys, RowsInv, RetHolds, IntentInv, RetInv, RetIdle
  <1> QED BY <1>1, <1>2 DEF Inv

LEMMA StepInv ==
  ASSUME Inv, [Next]_vars
  PROVE  Inv'
  <1>1. CASE RetIdle /\ OwnerStep /\ UNCHANGED retVars
    BY <1>1, QueueKeeps, PassStepKeeps, OthersKeep DEF OwnerStep
  <1>2. CASE ForeignMove /\ UNCHANGED retVars
    BY <1>2, OthersKeep
  <1>3. CASE RetIdle /\ (\E t \in Trees : Edit(t)) /\ UNCHANGED retVars
    BY <1>3, OthersKeep
  <1>4. CASE Discover \/ RetClaim \/ RetStep \/ RetCrash \/ Age \/ Recover
    BY <1>4, DiscoverKeeps, RetClaimKeeps, RetentionPassKeeps, RetCrashKeeps, AgeKeeps, RecoverKeeps
  <1>5. CASE UNCHANGED vars
    BY <1>5, StutterKeeps
  <1> QED BY <1>1, <1>2, <1>3, <1>4, <1>5 DEF Next

LEMMA Inductive == Spec => []Inv
  BY InitInv, StepInv, PTL DEF Spec
-----------------------------------------------------------------------------
(* What a step may do to the branch *)

LEMMA PrefixEntries ==
  ASSUME NEW g \in Seq(Entry), NEW h \in Seq(Entry), IsPrefix(g, h)
  PROVE  /\ Len(g) <= Len(h)
         /\ \A i \in 1..Len(g) : i \in 1..Len(h) /\ g[i] = h[i]
  <1> DEFINE n == Len(g)
  <1>1. n \in Nat /\ Len(h) \in Nat /\ n <= Len(h) /\ SubSeq(g, 1, n) = SubSeq(h, 1, n)
    BY DEF IsPrefix
  <1>2. \A i \in 1..n : SubSeq(g, 1, n)[i] = g[i] /\ SubSeq(h, 1, n)[i] = h[i]
    BY <1>1
  <1> QED BY <1>1, <1>2

(* A replacement: of a history of SyncApp's own, on a retained branch, by  *)
(* the part of it that the plan keeps.                                     *)
Replaces ==
  /\ Retained /\ RetBusy /\ Synced(remote)
  /\ remote = ret.key.head /\ remote' = Replacement(ret.key)

LEMMA RemoteMoves ==
  ASSUME Inv, [Next]_vars
  PROVE  \/ remote' = remote
         \/ foreign' # foreign
         \/ (remote' \in Seq(Entry) /\ IsPrefix(remote, remote'))
         \/ Replaces
  <1>1. CASE OwnerStep
    <2>1. CASE Push \/ PushUnanswered
      <3>1. pass.made \in Seq(Entry)
        BY DEF Inv, PassInv, PassOK
      <3> QED BY <2>1, <3>1 DEF Push, PushUnanswered
    <2>2. CASE Promote
      <3>1. PICK d \in deploying : remote' = Commit(remote, d.tree, "promotion")
        BY <2>2 DEF Promote
      <3>2. /\ Hist(remote, clock) /\ d.tree \in Trees /\ clock \in Nat /\ clock < MaxCommits
        BY <2>2, NumberFacts DEF Promote, Inv, BranchInv
      <3>3. Hist(remote', clock + 1) /\ IsPrefix(remote, remote')
        BY <3>1, <3>2, HistCommit DEF Commit
      <3> QED BY <3>3 DEF Hist
    <2>3. CASE Schedule \/ CollectLogs \/ Claim \/ Crash
      BY <2>3 DEF Schedule, CollectLogs, Claim, Crash
    <2>4. CASE PromotionRefused \/ RollBack \/ \E t \in Trees : Deploy(t)
      BY <2>4 DEF PromotionRefused, RollBack, Deploy
    <2>5. CASE \/ CaptureConfiguration \/ BackUpDatabase \/ BuildInventory \/ LoadArtifact
               \/ CaptureFault
      BY <2>5 DEF CaptureConfiguration, BackUpDatabase, BuildInventory, LoadArtifact,
                  CaptureFault, Capture
    <2>6. CASE \/ Observe \/ AnchorRefused \/ NoChange \/ CommitSnapshot \/ Authorize \/ Recheck
               \/ PushRejected \/ Verify \/ Record \/ Complete
      BY <2>6 DEF Observe, AnchorRefused, NoChange, CommitSnapshot, Authorize, Recheck,
                  PushRejected, Verify, Record, Complete
    <2> QED BY <1>1, <2>1, <2>2, <2>3, <2>4, <2>5, <2>6
            DEF OwnerStep, PassStep, LocalSync, DatabaseSync, RuntimeSync, LogSync, Synchronize
  <1>2. CASE ForeignMove
    BY <1>2, NumberFacts DEF ForeignMove
  <1>3. CASE RetStep
    <2>1. CASE Replace \/ ReplaceUnanswered
      <3>1. Synced(ret.key.head) /\ RetBusy
        BY <2>1, BoundFacts DEF Replace, ReplaceUnanswered, RetBusy
      <3>2. Retained
        BY <1>3 DEF RetStep, DatabaseRetention, LogRetention, Retained
      <3> QED BY <2>1, <3>1, <3>2 DEF Replace, ReplaceUnanswered, Replaces
    <2>2. CASE \/ ResumeReplaced \/ ResumeStale \/ Prove \/ AuthorizeReplacement \/ RecordIntent
               \/ RetRecheck \/ LeaseLost \/ AdvanceBaseline \/ RetComplete \/ RetFault
      BY <2>2 DEF ResumeReplaced, ResumeStale, Prove, AuthorizeReplacement, RecordIntent,
                  RetRecheck, LeaseLost, AdvanceBaseline, RetComplete, RetFault, pubVars
    <2> QED BY <1>3, <2>1, <2>2 DEF RetStep, DatabaseRetention, LogRetention, RetentionPass
  <1>4. CASE \/ \E t \in Trees : Edit(t)
             \/ Discover \/ RetClaim \/ RetCrash \/ Age \/ Recover \/ UNCHANGED vars
    BY <1>4 DEF Edit, Discover, RetClaim, RetCrash, Age, Recover, vars, pubVars
  <1> QED BY <1>1, <1>2, <1>3, <1>4 DEF Next

LEMMA ReplacesFacts ==
  ASSUME Inv, Replaces
  PROVE  /\ remote' # Absent /\ IsSuffix(remote', remote)
         /\ Len(remote) \in Nat /\ Len(remote') \in 1..Len(remote)
         /\ \A i \in 1..(Len(remote) - Len(remote')) : remote[i].at <= horizon
  <1> DEFINE k == ret.key
  <1>1. k \in DOMAIN rows /\ remote = k.head /\ remote' = Replacement(k)
    BY RetFacts DEF Replaces
  <1>2. /\ k.keep \in 1..Len(k.head) /\ Len(Replacement(k)) = k.keep
        /\ Replacement(k) # Absent /\ IsSuffix(Replacement(k), k.head)
        /\ \A i \in 1..(Len(k.head) - k.keep) : k.head[i].at <= rows[k].ref
        /\ rows[k].ref \in Nat /\ rows[k].ref <= horizon
    BY <1>1, RowFacts
  <1>3. Len(remote) \in Nat /\ \A i \in 1..Len(remote) : remote[i].at \in Nat
    BY HistFacts DEF Inv, BranchInv
  <1> HIDE DEF k
  <1>4. ASSUME NEW i \in 1..(Len(remote) - Len(remote')) PROVE remote[i].at <= horizon
    <2>1. i \in 1..(Len(k.head) - k.keep) /\ i \in 1..Len(remote)
      BY <1>1, <1>2, <1>3
    <2>2. remote[i].at <= rows[k].ref
      BY <1>1, <1>2, <2>1
    <2> QED BY <1>2, <1>3, <2>1, <2>2, NumberFacts
  <1> QED BY <1>1, <1>2, <1>3, <1>4

LEMMA DropsExpired ==
  ASSUME Inv, [Next]_vars
  PROVE  DropsOnlyExpired
  <1> SUFFICES ASSUME foreign' = foreign, Len(remote') < Len(remote)
               PROVE  /\ remote' # Absent /\ IsSuffix(remote', remote)
                      /\ \A i \in 1..(Len(remote) - Len(remote')) : remote[i].at <= horizon
    BY DEF DropsOnlyExpired
  <1>1. remote \in Seq(Entry) /\ Len(remote) \in Nat
    BY HistFacts DEF Inv, BranchInv
  <1>2. ASSUME remote' \in Seq(Entry), IsPrefix(remote, remote') PROVE FALSE
    <2>1. Len(remote) <= Len(remote') /\ Len(remote') \in Nat
      BY <1>1, <1>2, PrefixEntries
    <2> QED BY <1>1, <2>1
  <1>3. remote' # remote
    BY <1>1
  <1>4. Replaces
    BY <1>2, <1>3, RemoteMoves
  <1> QED BY <1>4, ReplacesFacts

(* A row is given up as stale by the two looks that find the branch        *)
(* elsewhere: its plan is a function of its head and its reference time.   *)
LEMMA StaleMoved ==
  ASSUME Inv, [Next]_vars
  PROVE  StaleOnlyIfMoved
  <1> SUFFICES ASSUME NEW k \in DOMAIN rows, rows[k].outcome # "stale", rows'[k].outcome = "stale"
               PROVE  remote # k.head
    BY DEF StaleOnlyIfMoved
  <1>1. ASSUME UNCHANGED rows PROVE FALSE
    BY <1>1
  <1>2. ASSUME NEW status, NEW outcome, outcome # "stale", RetSettle(status, outcome) PROVE FALSE
    <2>1. k # ret.key => rows'[k] = rows[k]
      BY <1>2 DEF RetSettle
    <2>2. k = ret.key => rows'[k].outcome = outcome
      <3>1. rows[k] \in [status : {"pending", "running", "retry", "succeeded", "blocked"},
                         attempts : Nat, ref : Nat,
                         outcome : {"none", "failed", "stale", "no_change", "replaced"}]
        BY DEF Inv, RowsInv
      <3> QED BY <1>2, <3>1 DEF RetSettle
    <2> QED BY <1>2, <2>1, <2>2
  <1>3. ASSUME NEW transient, RetFail(transient) PROVE FALSE
    BY <1>2, <1>3 DEF RetFail
  <1>4. ASSUME RetSettle("blocked", "stale") PROVE k = ret.key
    BY <1>1, <1>4 DEF RetSettle
  <1>5. CASE RetStep
    <2>1. CASE ResumeStale
      BY <1>3, <1>4, <2>1 DEF ResumeStale
    <2>2. CASE Prove
      <3>1. k = Plan(k.head, rows[k].ref) /\ k.head # Absent
        BY DEF Inv, RowsInv
      <3>2. CASE remote = Absent \/ Plan(remote, rows[ret.key].ref) # ret.key
        BY <1>3, <1>4, <2>2, <3>1, <3>2 DEF Prove
      <3>3. CASE ~(remote = Absent \/ Plan(remote, rows[ret.key].ref) # ret.key)
        BY <1>1, <1>3, <2>2, <3>3 DEF Prove, Advance
      <3> QED BY <3>2, <3>3
    <2>3. CASE ResumeReplaced \/ AuthorizeReplacement \/ RecordIntent \/ RetRecheck
      BY <1>1, <1>2, <1>3, <2>3
         DEF ResumeReplaced, AuthorizeReplacement, RecordIntent, RetRecheck, Advance
    <2>4. CASE Replace \/ ReplaceUnanswered \/ LeaseLost \/ AdvanceBaseline
      BY <1>1, <1>3, <2>4
         DEF Replace, ReplaceUnanswered, LeaseLost, AdvanceBaseline, RetLoses, Advance
    <2>5. CASE RetComplete \/ RetFault
      BY <1>2, <1>3, <2>5 DEF RetComplete, RetFault, RetLoses
    <2> QED BY <1>5, <2>1, <2>2, <2>3, <2>4, <2>5
            DEF RetStep, DatabaseRetention, LogRetention, RetentionPass
  <1>6. CASE Discover
    BY <1>1, <1>6 DEF Discover, Put
  <1>7. CASE RetClaim \/ Recover
    <2>1. rows[k] \in [status : {"pending", "running", "retry", "succeeded", "blocked"},
                       attempts : Nat, ref : Nat,
                       outcome : {"none", "failed", "stale", "no_change", "replaced"}]
      BY DEF Inv, RowsInv
    <2>2. CASE RetClaim
      <3>1. PICK j \in DOMAIN rows :
              rows' = [rows EXCEPT ![j].status = "running", ![j].attempts = rows[j].attempts + 1]
        BY <2>2 DEF RetClaim, Due
      <3>2. rows'[k].outcome = rows[k].outcome
        <4>1. CASE j = k
          BY <2>1, <3>1, <4>1
        <4>2. CASE j # k
          BY <3>1, <4>2
        <4> QED BY <4>1, <4>2
      <3> QED BY <3>2
    <2>3. CASE Recover
      <3>1. rows'[k] = IF rows[k].status = "running" THEN [rows[k] EXCEPT !.status = "retry"]
                       ELSE rows[k]
        BY <2>3 DEF Recover, Requeued
      <3>2. [rows[k] EXCEPT !.status = "retry"].outcome = rows[k].outcome
        BY <2>1
      <3> QED BY <3>1, <3>2
    <2> QED BY <1>7, <2>2, <2>3
  <1>8. CASE \/ UNCHANGED retVars \/ RetCrash \/ Age \/ UNCHANGED vars
    BY <1>1, <1>8 DEF retVars, RetCrash, Age, vars
  <1> QED BY <1>5, <1>6, <1>7, <1>8 DEF Next

LEMMA KeepsForeign ==
  ASSUME Inv, [Next]_vars, foreign' = foreign
  PROVE  ForeignEntries(remote) \subseteq ForeignEntries(remote')
  <1>1. remote \in Seq(Entry)
    BY HistFacts DEF Inv, BranchInv
  <1>2. CASE remote' \in Seq(Entry) /\ IsPrefix(remote, remote')
    <2>1. \A i \in 1..Len(remote) : i \in 1..Len(remote') /\ remote[i] = remote'[i]
      BY <1>1, <1>2, PrefixEntries
    <2>2. DOMAIN remote = 1..Len(remote) /\ DOMAIN remote' = 1..Len(remote')
      BY <1>1, <1>2
    <2> QED BY <2>1, <2>2 DEF ForeignEntries, ToSet
  <1>3. CASE Replaces
    <2>1. DOMAIN remote = 1..Len(remote) /\ Synced(remote)
      BY <1>1, <1>3 DEF Replaces
    <2> QED BY <2>1 DEF Synced, ForeignEntries, ToSet
  <1> QED BY <1>2, <1>3, RemoteMoves

LEMMA MainGrows ==
  ASSUME Inv, [Next]_vars, case.branch = "main", foreign' = foreign
  PROVE  IsPrefix(remote, remote')
  <1>1. remote \in Seq(Entry)
    BY HistFacts DEF Inv, BranchInv
  <1>2. IsPrefix(remote, remote)
    BY <1>1 DEF IsPrefix
  <1>3. ~Replaces
    BY DEF Replaces, Retained
  <1> QED BY <1>2, <1>3, RemoteMoves

LEMMA BranchDescribed ==
  ASSUME Inv
  PROVE  BaselineDescribesBranch
  <1>n. clock \in 0..MaxCommits /\ faults \in 0..MaxFaults /\ MaxAttempts \in Nat
    BY DEF Inv, Numbers
  <1>1. TypeOK
    <2>1. /\ case \in Cases /\ source \in Trees /\ IsHead(remote)
          /\ \A d \in deploying : d.tree \in Trees /\ d.prior \in Trees /\ IsHead(d.on)
      BY <1>n, HistIsHead DEF Inv, BranchInv
    <2>2. \A b \in baseline : b.snapshot \in Trees /\ IsHead(b.commit)
      BY <1>n, HistIsHead DEF Inv, BaselineInv, BaselineOK
    <2>3. /\ DOMAIN work \subseteq Keys
          /\ \A k \in DOMAIN work :
               /\ work[k].status \in {"pending", "running", "retry", "succeeded", "blocked"}
               /\ work[k].attempts \in 0..(MaxAttempts + MaxFaults)
               /\ work[k].outcome \in Outcomes
      <3>1. \A k \in DOMAIN work : work[k].attempts \in Nat
                                   /\ work[k].attempts <= MaxAttempts + faults
        BY DEF Inv, WorkInv, Spent
      <3>2. \A k \in DOMAIN work : work[k].attempts \in 0..(MaxAttempts + MaxFaults)
        BY <1>n, <3>1
      <3> QED BY <3>2 DEF Inv, WorkInv
    <2>4. /\ pass = Idle \/ (pass.step \in Steps /\ pass.key \in DOMAIN work)
          /\ pass.tree \in Trees \cup {NoTree} /\ IsHead(pass.seen) /\ IsHead(pass.made)
      BY <1>n, HistIsHead DEF Inv, PassInv, PassOK
    <2> QED BY <2>1, <2>2, <2>3, <2>4 DEF Inv, Numbers, TypeOK
  <1>2. RetTypeOK
    <2>1. \A k \in DOMAIN rows :
            /\ IsHead(k.head) /\ k.keep \in 1..Len(k.head) /\ IsHead(Replacement(k))
            /\ rows[k].attempts \in 0..(MaxAttempts + MaxFaults)
            /\ rows[k].ref \in 0..horizon
      BY <1>n, RowFacts, HistIsHead, NumberFacts
    <2>2. \A i \in intents : i.key \in DOMAIN rows /\ IsHead(i.replacement)
      BY <2>1 DEF Inv, IntentInv
    <2> QED BY <2>1, <2>2 DEF RetTypeOK, Inv, RowsInv, RetInv, Numbers
  <1> QED BY <1>1, <1>2
          DEF BaselineDescribesBranch, BranchTypeOK, Inv, BaselineInv, BaselineOK
-----------------------------------------------------------------------------
(* The theorems *)

(* The synchronization_baseline row names a commit, and the tree of that   *)
(* commit, in every reachable state of publication and retention: what the *)
(* source became since the capture, a lost answer, a crash between the     *)
(* push and the row, or a replacement that is resumed never part the two.  *)
THEOREM BaselineNamesItsTree == Spec => []BaselineDescribesBranch
  BY Inductive, BranchDescribed, PTL

(* Neither git push without force nor the leased replacement of retention  *)
(* drops an entry that somebody else, or a promotion, put on the branch.   *)
THEOREM ForeignEntriesSurvive == Spec => NeverDropsForeign
  <1>1. Inv /\ [Next]_vars => [foreign' = foreign =>
                                 ForeignEntries(remote) \subseteq ForeignEntries(remote')]_vars
    BY KeepsForeign
  <1> QED BY <1>1, Inductive, PTL DEF Spec, NeverDropsForeign

(* On main, whatever the order of publication and promotion, the history   *)
(* SyncApp publishes extends the history that was there.                   *)
THEOREM MainIsExtended == Spec => MainOnlyGrows
  <1>1. Inv /\ [Next]_vars => [case.branch = "main" /\ foreign' = foreign =>
                                 IsPrefix(remote, remote')]_vars
    BY MainGrows
  <1> QED BY <1>1, Inductive, PTL DEF Spec, MainOnlyGrows

(* Retention shortens a branch only by a retained suffix and drops only    *)
(* what is expired; it gives a row up as stale only when the branch left   *)
(* the head the row was planned for.                                       *)
THEOREM RetentionIsPlanned == Spec => RetentionFollowsPlan
  <1>1. Inv /\ [Next]_vars => [DropsOnlyExpired /\ StaleOnlyIfMoved]_vars
    BY DropsExpired, StaleMoved
  <1> QED BY <1>1, Inductive, PTL DEF Spec, RetentionFollowsPlan
=============================================================================

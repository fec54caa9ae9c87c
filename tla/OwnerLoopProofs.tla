--------------------------- MODULE OwnerLoopProofs ---------------------------
(* Proofs about the service process, for any directory tree, mailbox,      *)
(* number of connections and budget of what happens around it.             *)
EXTENDS OwnerLoop, TLAPS

USE EventAssumption, OwnerAssumption

-----------------------------------------------------------------------------
(* The inductive invariant *)

(* Where an execution returns to: the startup, a cycle, or a tick.         *)
Returns == {"bridge", "start_local", "cycle_runtime", "cycle_rest", "tick_events",
            "check_events"}
JobInv == at \in {"copy", "settle"} => job \in [lane : Lanes, view : Nat, next : Returns]

(* The producers are not started yet: first none, then the watcher only.   *)
Executing == at \in {"copy", "settle"}
BeforeWatcher ==
  \/ at \in {"start_local_sync", "bridge", "start_runtime_sync", "start_local"}
  \/ Executing /\ job.next \in {"bridge", "start_local"}
BeforeWorker == BeforeWatcher \/ at \in {"await_local", "start_events"}

PlaceInv ==
  /\ BeforeWatcher => watcher.at = "off"
  /\ BeforeWorker => session = "off"
  /\ session \in {"off", "starting"} => connections = 0
  /\ session = "backoff" => connections < MaxConnections

(* No view is from the future.                                             *)
ViewInv ==
  /\ snapshot <= stamp
  /\ \A d \in Paths : edited[d] <= stamp

(* Once the watcher was ready, each refresh of the watches will notify;    *)
(* what nothing is left to notify has been seen.                           *)
Serving == at \in {"start_events"} \cup Ticks \cup {"copy", "settle"}
SeenInv ==
  /\ Serving /\ watcher.at \in {"scan", "watch"} => watcher.ready
  /\ Serving /\ at # "observe" /\ watcher.at = "select" /\ ~unread.any /\ ~bit =>
       \A d \in live : edited[d] <= snapshot

(* A change that was seen is in the view an execution is about to publish. *)
OwedInv ==
  /\ \/ snapshot = base
     \/ snapshot <= published["local"]
     \/ deadline # "none"
     \/ row["local"] \in Open
  /\ at = "settle" /\ job.lane = "local" => snapshot <= job.view

(* With nothing on the wire or in the mailbox, what is published, or about *)
(* to be, is what is there.                                                *)
RuntimeInv ==
  session = "open" /\ wire = 0 /\ queue = 0 =>
    /\ row["runtime"] \notin Open => published["runtime"] = world
    /\ at = "settle" /\ job.lane = "runtime" => job.view = world

(* On the way out without an error the threads are joined one by one.      *)
StopInv ==
  /\ exit # "none" => at = "ended"
  /\ at \in {"stop_events", "join_events", "finish"} /\ ~error =>
       watcher.at \in {"off", "stopped"}
  /\ at = "finish" /\ ~error => session \in {"off", "stopped"}
  /\ FinishedMeansJoined

Inv == TypeOK /\ JobInv /\ PlaceInv /\ ViewInv /\ SeenInv /\ OwedInv /\ RuntimeInv /\ StopInv

LEMMA InitInv == Init => Inv
  <1> SUFFICES ASSUME Init PROVE Inv
    OBVIOUS
  <1> USE DEF Init, LocalInit, EventInit, AtStep, NoEvents
  <1>1. TypeOK
    <2>1. LocalTypeOK
      BY DEF LocalTypeOK, WatcherSteps, Paths
    <2>2. 0 \in 0..MaxConnections /\ 0 \in 0..Capacity /\ 0 \in 0..Backlog
      BY EventAssumption, OwnerAssumption
    <2>3. EventTypeOK
      BY <2>2 DEF EventTypeOK, Sessions
    <2>4. at \in Places /\ row \in [Lanes -> Open \cup {"absent", "succeeded"}]
          /\ published \in [Lanes -> Nat]
      BY DEF Places, Startup
    <2> QED BY <2>1, <2>2, <2>3, <2>4 DEF TypeOK
  <1>2. JobInv /\ PlaceInv /\ ViewInv /\ SeenInv
    BY DEF JobInv, PlaceInv, ViewInv, SeenInv, BeforeWatcher, BeforeWorker, Executing, Serving,
           Ticks, Paths
  <1>3. OwedInv /\ RuntimeInv /\ StopInv
    BY DEF OwedInv, RuntimeInv, StopInv, FinishedMeansJoined
  <1> QED BY <1>1, <1>2, <1>3 DEF Inv

-----------------------------------------------------------------------------
(* The watcher and the tree *)

(* A step of theirs leaves the owner thread and the other producer alone.  *)
LEMMA LocalFrame ==
  ASSUME Inv, UNCHANGED <<eventVars, ownerVars>>, LocalTypeOK', ViewInv', SeenInv',
         watcher.at \in {"off", "stopped"} => watcher'.at = watcher.at
  PROVE  Inv'
  <1> USE DEF eventVars, ownerVars, Inv
  <1>1. TypeOK' /\ JobInv'
    BY DEF TypeOK, EventTypeOK, JobInv
  <1>2. PlaceInv'
    BY DEF PlaceInv, BeforeWatcher, BeforeWorker, Executing
  <1>3. OwedInv' /\ RuntimeInv'
    BY DEF OwedInv, RuntimeInv
  <1>4. StopInv'
    BY DEF StopInv, FinishedMeansJoined
  <1> QED BY <1>1, <1>2, <1>3, <1>4

(* A change of the tree is stamped in one directory at most, and a watched *)
(* one reports it.                                                         *)
Disturbs(top, lost) ==
  /\ Raise(top, lost)
  /\ live' \subseteq live /\ present' \subseteq Dirs
  /\ stamp' \in {stamp, stamp + 1}
  /\ edited' \in [Paths -> Nat]
  /\ \A e \in Paths : \/ edited'[e] \in {edited[e], 0}
                      \/ e = top /\ edited'[e] = stamp'

LEMMA TreeKeeps ==
  ASSUME Inv, TreeStep, UNCHANGED <<eventVars, ownerVars>>
  PROVE  Inv'
  <1>1. PICK d \in Paths : \/ Edit(d)
                           \/ Churn(d)
                           \/ d \in Dirs /\ (Make(d) \/ MoveAway(d))
    BY DEF TreeStep
  <1>2. /\ stamp \in Nat /\ edited \in [Paths -> Nat]
        /\ present \subseteq Dirs /\ live \subseteq Paths /\ table \subseteq Paths
        /\ unread \in [any : BOOLEAN, lost : SUBSET Paths]
        /\ snapshot \in Nat /\ snapshot <= stamp
        /\ \A e \in Paths : edited[e] \in Nat /\ edited[e] <= stamp
    BY DEF Inv, TypeOK, LocalTypeOK, ViewInv
  <1>3. UNCHANGED <<table, watcher, bit, halt, at, snapshot>>
    BY <1>1 DEF Edit, Churn, Make, MoveAway, ownerVars
  <1>4. PICK top \in Paths, lost \in SUBSET Paths : Disturbs(top, lost)
    <2>1. CASE Edit(d)
      <3>1. Disturbs(d, {})
        BY <1>2, <2>1 DEF Edit, Disturbs
      <3> QED BY <3>1
    <2>2. CASE Churn(d)
      <3>1. Disturbs(d, {})
        BY <1>2, <2>2 DEF Churn, Disturbs
      <3> QED BY <3>1
    <2>3. CASE d \in Dirs /\ Make(d)
      <3>1. Parent[d] \in Paths
        BY <2>3, TreeAssumption DEF Paths
      <3>2. Disturbs(Parent[d], {})
        BY <1>2, <2>3, <3>1 DEF Make, Disturbs
      <3> QED BY <3>1, <3>2
    <2>4. CASE d \in Dirs /\ MoveAway(d)
      <3>1. Parent[d] \in Paths
        BY <2>4, TreeAssumption DEF Paths
      <3>2. Disturbs(Parent[d], {d} \cap live)
        BY <1>2, <2>4, <3>1 DEF MoveAway, Disturbs
      <3> QED BY <1>2, <3>1, <3>2
    <2> QED BY <1>1, <2>1, <2>2, <2>3, <2>4
  <1>5. LocalTypeOK'
    BY <1>2, <1>3, <1>4 DEF Inv, TypeOK, LocalTypeOK, Disturbs, Raise
  <1>6. ViewInv'
    <2>1. stamp <= stamp' /\ stamp' \in Nat
      BY <1>2, <1>4 DEF Disturbs
    <2>2. ASSUME NEW e \in Paths PROVE edited'[e] <= stamp'
      BY <1>2, <1>4, <2>1 DEF Disturbs
    <2> QED BY <1>2, <1>3, <2>1, <2>2 DEF ViewInv
  <1>7. SeenInv'
    <2>1. ASSUME Serving, at # "observe", watcher.at = "select", ~unread'.any, ~bit,
                 NEW e \in live'
          PROVE  edited'[e] <= snapshot
      <3>1. e # top /\ e \in live /\ ~unread.any
        BY <1>4, <2>1 DEF Disturbs, Raise
      <3>2. edited[e] <= snapshot
        BY <2>1, <3>1 DEF Inv, SeenInv
      <3> QED BY <1>2, <1>4, <3>1, <3>2 DEF Disturbs
    <2> QED BY <1>3, <2>1 DEF SeenInv, Serving, Inv
  <1> QED BY <1>3, <1>5, <1>6, <1>7, LocalFrame

(* A step of the thread that only moves its own walk, and its watches.     *)
LEMMA WalkKeeps ==
  ASSUME Inv, UNCHANGED <<eventVars, ownerVars>>,
         UNCHANGED <<stamp, edited, present, unread, bit, halt>>,
         watcher.at \in {"scan", "watch"}, watcher'.at \in {"scan", "watch"},
         watcher'.ready = watcher.ready,
         watcher' \in [at : WatcherSteps, todo : SUBSET Paths, found : SUBSET Paths,
                       ready : BOOLEAN],
         live' \subseteq Paths, table' \subseteq Paths
  PROVE  Inv'
  <1>1. LocalTypeOK'
    BY DEF Inv, TypeOK, LocalTypeOK
  <1>2. ViewInv'
    BY DEF Inv, ViewInv, ownerVars
  <1>3. SeenInv'
    BY DEF Inv, SeenInv, Serving, ownerVars
  <1> QED BY <1>1, <1>2, <1>3, LocalFrame

(* The thread ends, and its watches with it.                               *)
LEMMA WatcherEnds ==
  ASSUME Inv, UNCHANGED <<eventVars, ownerVars>>,
         UNCHANGED <<stamp, edited, present, bit, halt>>,
         watcher.at \notin {"off", "stopped"}, NEW s \in {"stopped", "failed"},
         watcher' = AtStep(s), live' = {}, table' = {}, unread' = NoEvents
  PROVE  Inv'
  <1>1. LocalTypeOK' /\ watcher'.at = s
    BY DEF Inv, TypeOK, LocalTypeOK, AtStep, NoEvents, WatcherSteps
  <1>2. ViewInv'
    BY DEF Inv, ViewInv, ownerVars
  <1>3. SeenInv'
    BY <1>1 DEF SeenInv
  <1> QED BY <1>1, <1>2, <1>3, LocalFrame

LEMMA WatcherKeeps ==
  ASSUME Inv, WatcherStep \/ WatcherFails, UNCHANGED <<eventVars, ownerVars>>
  PROVE  Inv'
  <1>0. /\ watcher \in [at : WatcherSteps, todo : SUBSET Paths, found : SUBSET Paths,
                        ready : BOOLEAN]
        /\ present \subseteq Dirs /\ live \subseteq Paths /\ table \subseteq Paths
        /\ Root \in Paths /\ Dirs \subseteq Paths
    BY DEF Inv, TypeOK, LocalTypeOK, Paths
  <1>1. CASE Scan
    <2>1. PICK d \in watcher.todo :
            watcher' = IF Exists(d)
              THEN [watcher EXCEPT !.todo = (@ \ {d}) \cup Children(d), !.found = @ \cup {d}]
              ELSE [watcher EXCEPT !.todo = @ \ {d}]
      BY <1>1 DEF Scan
    <2>2. Children(d) \subseteq Paths
      BY <1>0 DEF Children
    <2>3. /\ watcher' \in [at : WatcherSteps, todo : SUBSET Paths, found : SUBSET Paths,
                           ready : BOOLEAN]
          /\ watcher'.at = watcher.at /\ watcher'.ready = watcher.ready
      BY <1>0, <2>1, <2>2
    <2> QED BY <1>0, <1>1, <2>3, WalkKeeps DEF Scan
  <1>2. CASE Forget
    <2>1. /\ watcher' \in [at : WatcherSteps, todo : SUBSET Paths, found : SUBSET Paths,
                           ready : BOOLEAN]
          /\ watcher'.at = "watch" /\ watcher'.ready = watcher.ready
      BY <1>0, <1>2 DEF Forget, WatcherSteps
    <2>2. table' \subseteq Paths
      BY <1>0, <1>2 DEF Forget
    <2> QED BY <1>0, <1>2, <2>1, <2>2, WalkKeeps DEF Forget
  <1>3. CASE AddWatch
    <2>1. PICK d \in watcher.todo :
            /\ watcher' = [watcher EXCEPT !.todo = @ \ {d}]
            /\ IF Exists(d) THEN live' = live \cup {d} /\ table' = table \cup {d}
                            ELSE UNCHANGED <<live, table>>
      BY <1>3 DEF AddWatch
    <2>2. /\ watcher' \in [at : WatcherSteps, todo : SUBSET Paths, found : SUBSET Paths,
                           ready : BOOLEAN]
          /\ watcher'.at = watcher.at /\ watcher'.ready = watcher.ready
          /\ live' \subseteq Paths /\ table' \subseteq Paths
      BY <1>0, <2>1
    <2> QED BY <1>3, <2>2, WalkKeeps DEF AddWatch
  <1>4. CASE Report
    <2>1. /\ watcher.at = "watch" /\ watcher'.at = "select" /\ bit' = (bit \/ watcher.ready)
          /\ UNCHANGED <<stamp, edited, present, live, unread, table, halt>>
      BY <1>4 DEF Report, Waiting
    <2>2. LocalTypeOK'
      BY <1>0, <1>4, <2>1 DEF Inv, TypeOK, LocalTypeOK, Report, Waiting, WatcherSteps
    <2>3. ViewInv'
      BY <2>1 DEF Inv, ViewInv, ownerVars
    <2>4. SeenInv'
      BY <2>1 DEF Inv, SeenInv, Serving, ownerVars
    <2> QED BY <2>1, <2>2, <2>3, <2>4, LocalFrame
  <1>5. CASE Read
    <2>1. /\ watcher.at = "select" /\ watcher'.at = "scan" /\ watcher'.ready
          /\ UNCHANGED <<stamp, edited, present, live, bit, halt>>
      BY <1>5 DEF Read, Walk
    <2>2. LocalTypeOK'
      BY <1>0, <1>5, <2>1 DEF Inv, TypeOK, LocalTypeOK, Read, Walk, NoEvents, WatcherSteps
    <2>3. ViewInv'
      BY <2>1 DEF Inv, ViewInv, ownerVars
    <2>4. SeenInv'
      BY <2>1 DEF SeenInv
    <2> QED BY <2>1, <2>2, <2>3, <2>4, LocalFrame
  <1>6. CASE Halt
    BY <1>6, WatcherEnds DEF Halt
  <1>7. CASE WatcherFails
    BY <1>7, WatcherEnds DEF WatcherFails
  <1> QED BY <1>1, <1>2, <1>3, <1>4, <1>5, <1>6, <1>7 DEF WatcherStep

-----------------------------------------------------------------------------
(* The event worker and Core *)

LEMMA EventFrame ==
  ASSUME Inv, UNCHANGED <<localVars, ownerVars>>, EventTypeOK', RuntimeInv',
         session = "off" => session' = "off",
         session = "stopped" => session' = "stopped",
         session' = "starting" => session = "starting" /\ connections' = connections,
         session' = "off" => connections' = connections /\ session = "off",
         session' = "backoff" => connections' < MaxConnections
  PROVE  Inv'
  <1> USE DEF localVars, ownerVars, Inv
  <1>1. TypeOK' /\ JobInv'
    BY DEF TypeOK, LocalTypeOK, JobInv
  <1>2. PlaceInv'
    BY DEF PlaceInv, BeforeWatcher, BeforeWorker, Executing
  <1>3. ViewInv' /\ SeenInv' /\ OwedInv'
    BY DEF ViewInv, SeenInv, OwedInv, Serving
  <1>4. StopInv'
    BY DEF StopInv, FinishedMeansJoined
  <1> QED BY <1>1, <1>2, <1>3, <1>4

LEMMA EventsKeep ==
  ASSUME Inv, WorkerStep \/ Change \/ Disconnect, UNCHANGED <<localVars, ownerVars>>
  PROVE  Inv'
  <1>0. /\ world \in Nat /\ session \in Sessions /\ connections \in 0..MaxConnections
        /\ wire \in Nat /\ queue \in 0..Capacity /\ halted \in BOOLEAN
    BY DEF Inv, TypeOK, EventTypeOK
  <1>1. CASE Change
    <2>1. EventTypeOK' /\ (session = "open" => wire' > 0) /\ UNCHANGED <<session, connections>>
      BY <1>0, <1>1 DEF Change, EventTypeOK
    <2>2. RuntimeInv'
      BY <2>1 DEF RuntimeInv
    <2> QED BY <1>0, <2>1, <2>2, EventFrame DEF Inv, PlaceInv
  <1>2. CASE Connect
    <2>1. connections < MaxConnections
      BY <1>2, EventAssumption DEF Connect, Inv, PlaceInv
    <2>2. connections + 1 \in 0..MaxConnections
      BY <1>0, <2>1
    <2>3. EventTypeOK' /\ session' = "connecting"
      BY <1>0, <1>2, <2>2 DEF Connect, EventTypeOK, Sessions
    <2> QED BY <1>2, <2>3, EventFrame DEF RuntimeInv, Connect
  <1>3. CASE Subscribe
    <2>1. EventTypeOK' /\ session' = "subscribed"
      BY <1>0, <1>3 DEF Subscribe, EventTypeOK, Sessions
    <2> QED BY <1>3, <2>1, EventFrame DEF RuntimeInv, Subscribe
  <1>4. CASE Ready
    <2>1. /\ EventTypeOK' /\ session = "subscribed" /\ session' \in {"open", "failed"}
          /\ session' = "open" => queue' > 0
      BY <1>0, <1>4 DEF Ready, Overflow, EventTypeOK, Sessions
    <2> QED BY <2>1, EventFrame DEF RuntimeInv
  <1>5. CASE Forward
    <2>1. /\ EventTypeOK' /\ session = "open" /\ session' \in {"open", "failed"}
          /\ session' = "open" => queue' > 0
      BY <1>0, <1>5 DEF Forward, Overflow, EventTypeOK, Sessions
    <2> QED BY <2>1, EventFrame DEF RuntimeInv
  <1>6. CASE StopWorker
    <2>1. /\ EventTypeOK' /\ session \notin {"off", "stopped"} /\ session' = "stopped"
      BY <1>0, <1>6 DEF StopWorker, WorkerEnded, EventTypeOK, Sessions
    <2> QED BY <2>1, EventFrame DEF RuntimeInv
  <1>7. CASE Disconnect
    <2>1. /\ EventTypeOK' /\ session \notin {"off", "stopped"}
          /\ session' \in {"stopped", "exhausted", "backoff"}
          /\ session' = "backoff" => connections' < MaxConnections
      BY <1>0, <1>7 DEF Disconnect, EventTypeOK, Sessions
    <2> QED BY <2>1, EventFrame DEF RuntimeInv
  <1> QED BY <1>1, <1>2, <1>3, <1>4, <1>5, <1>6, <1>7 DEF WorkerStep

-----------------------------------------------------------------------------
(* The owner thread *)

(* Flags that a step may set without consequence for what is owed.         *)
FlagsOK == /\ halt \in BOOLEAN /\ halted \in BOOLEAN /\ stop \in BOOLEAN /\ error \in BOOLEAN
           /\ bit \in BOOLEAN /\ waiting \in BOOLEAN
           /\ backlog \in 0..Backlog /\ exit \in {"none", "clean", "failed"}

(* The thread goes from one place to another, or stays.                    *)
LEMMA GoKeeps ==
  ASSUME Inv, FlagsOK', StopInv', at' \in Places,
         UNCHANGED <<stamp, edited, present, live, unread, table, watcher, world, session,
                     connections, wire, queue, job, row, published, snapshot, base, deadline>>,
         at' = at \/ at' \notin {"copy", "settle"},
         BeforeWatcher' => BeforeWatcher, BeforeWorker' => BeforeWorker,
         Serving' => Serving, bit' = bit \/ at' = "observe", at = "observe" => at' = at \/ ~Serving'
  PROVE  Inv'
  <1> USE DEF Inv
  <1>1. TypeOK'
    BY DEF TypeOK, LocalTypeOK, EventTypeOK, FlagsOK
  <1>2. JobInv' /\ PlaceInv'
    BY DEF JobInv, PlaceInv
  <1>3. ViewInv'
    BY DEF ViewInv
  <1>4. SeenInv'
    BY DEF SeenInv, Serving
  <1>5. OwedInv' /\ RuntimeInv'
    BY DEF OwedInv, RuntimeInv
  <1> QED BY <1>1, <1>2, <1>3, <1>4, <1>5

LEMMA Flags ==
  ASSUME Inv
  PROVE  FlagsOK /\ at \in Places
  BY DEF Inv, TypeOK, LocalTypeOK, EventTypeOK, FlagsOK

(* It schedules and claims, and goes to execute or goes on.                *)
LEMMA ClaimKeeps ==
  ASSUME Inv, NEW l \in Lanes, NEW r \in [Lanes -> Open \cup {"absent", "succeeded"}],
         NEW next \in Returns, ClaimOr(l, r, next), at \notin {"copy", "settle", "observe"},
         \A k \in Lanes : row[k] \in Open => r[k] \in Open,
         UNCHANGED <<localVars, world, session, connections, wire, halted, published,
                     snapshot, base, stop, error, exit, backlog, waiting>>,
         queue' \in 0..Capacity, queue' = queue \/ r["runtime"] \in Open,
         deadline' \in {"none", "armed", "due"}, deadline' = deadline \/ r["local"] \in Open,
         next \in {"bridge", "start_local"} => BeforeWatcher,
         next \notin {"bridge", "start_local"} => Serving, at \notin Stopping \cup {"ended"}
  PROVE  Inv'
  <1> USE DEF Inv, localVars
  <1>1. /\ row' \in [Lanes -> Open \cup {"absent", "succeeded"}]
        /\ \A k \in Lanes : r[k] \in Open => row'[k] \in Open
        /\ at' \in {"copy", next}
        /\ at' = "copy" => job' = [lane |-> l, view |-> 0, next |-> next]
        /\ at' # "copy" => job' = job
        /\ at' = next => next # "copy"
    BY DEF ClaimOr, Go, Open, Returns
  <1>2. TypeOK'
    <2>1. at' \in Places /\ next \in Places
      BY <1>1 DEF Returns, Places, Startup, Ticks
    <2>2. job' \in {NoJob} \cup [lane : Lanes, view : Nat, next : Places]
      BY <1>1, <2>1 DEF TypeOK
    <2> QED BY <1>1, <2>1, <2>2 DEF TypeOK, LocalTypeOK, EventTypeOK
  <1>3. JobInv'
    BY <1>1 DEF JobInv, Returns
  <1>4. PlaceInv'
    <2>1. BeforeWatcher' => BeforeWatcher
      BY <1>1 DEF BeforeWatcher, Executing, Returns
    <2>2. BeforeWorker' => BeforeWorker
      BY <1>1, <2>1 DEF BeforeWorker, Returns
    <2> QED BY <2>1, <2>2 DEF PlaceInv
  <1>5. ViewInv'
    BY DEF ViewInv
  <1>6. SeenInv'
    <2>1. CASE next \in {"bridge", "start_local"}
      BY <2>1 DEF SeenInv, PlaceInv
    <2>2. CASE next \notin {"bridge", "start_local"}
      BY <1>1, <2>2 DEF SeenInv, Returns
    <2> QED BY <2>1, <2>2
  <1>7. OwedInv'
    BY <1>1 DEF OwedInv, Lanes, Returns
  <1>8. RuntimeInv'
    BY <1>1 DEF RuntimeInv, Lanes, Returns
  <1>9. StopInv'
    BY <1>1 DEF StopInv, FinishedMeansJoined, Returns, Stopping
  <1> QED BY <1>2, <1>3, <1>4, <1>5, <1>6, <1>7, <1>8, <1>9

LEMMA ScheduledRow ==
  ASSUME Inv, NEW l \in Lanes
  PROVE  /\ [row EXCEPT ![l] = Scheduled(l)] \in [Lanes -> Open \cup {"absent", "succeeded"}]
         /\ [row EXCEPT ![l] = Scheduled(l)][l] \in Open
         /\ \A k \in Lanes : row[k] \in Open => [row EXCEPT ![l] = Scheduled(l)][k] \in Open
  <1>1. row \in [Lanes -> Open \cup {"absent", "succeeded"}]
    BY DEF Inv, TypeOK
  <1>2. Scheduled(l) \in Open
    BY <1>1 DEF Scheduled, Open
  <1> QED BY <1>1, <1>2

LEMMA StartupSyncKeeps ==
  ASSUME Inv, NEW l \in Lanes, StartupSync(l)
  PROVE  Inv'
  <1>1. /\ at = IF l = "local" THEN "start_local_sync" ELSE "start_runtime_sync"
        /\ UNCHANGED <<left, localVars, eventVars, published, snapshot, base, deadline,
                       stop, error, exit, backlog, waiting>>
    BY DEF StartupSync
  <1>2. CASE stop /\ Go("stop_local") /\ UNCHANGED <<row, job>>
    <2>1. at' = "stop_local" /\ FlagsOK'
      BY <1>1, <1>2, Flags DEF Go, FlagsOK, localVars, eventVars
    <2>2. StopInv'
      BY <1>1, <2>1 DEF Inv, StopInv, FinishedMeansJoined, localVars, eventVars
    <2> QED BY <1>1, <1>2, <2>1, <2>2, GoKeeps
        DEF localVars, eventVars, Places, Stopping, BeforeWatcher, BeforeWorker, Executing,
            Serving, Ticks
  <1>3. CASE ClaimOr(l, [row EXCEPT ![l] = Scheduled(l)],
                     IF l = "local" THEN "bridge" ELSE "start_local")
    <2>1. queue' \in 0..Capacity /\ deadline' \in {"none", "armed", "due"}
      BY <1>1 DEF Inv, TypeOK, EventTypeOK, eventVars
    <2> QED BY <1>1, <1>3, <2>1, ScheduledRow, ClaimKeeps
        DEF eventVars, Returns, BeforeWatcher, Stopping
  <1> QED BY <1>2, <1>3 DEF StartupSync

LEMMA CycleLaneKeeps ==
  ASSUME Inv, NEW l \in Lanes, CycleLane(l)
  PROVE  Inv'
  <1>1. /\ at = IF l = "local" THEN "cycle_local" ELSE "cycle_runtime"
        /\ UNCHANGED <<left, localVars, eventVars, published, snapshot, base, deadline,
                       stop, error, exit, backlog, waiting>>
        /\ ClaimOr(l, Recovered, IF l = "local" THEN "cycle_runtime" ELSE "cycle_rest")
    BY DEF CycleLane
  <1>2. /\ Recovered \in [Lanes -> Open \cup {"absent", "succeeded"}]
        /\ \A k \in Lanes : row[k] \in Open => Recovered[k] \in Open
    BY DEF Inv, TypeOK, Recovered, Open
  <1>3. queue' \in 0..Capacity /\ deadline' \in {"none", "armed", "due"}
    BY <1>1 DEF Inv, TypeOK, EventTypeOK, eventVars
  <1> QED BY <1>1, <1>2, <1>3, ClaimKeeps DEF eventVars, Returns, Serving, Ticks, Stopping

LEMMA CopyKeeps ==
  ASSUME Inv, Copy
  PROVE  Inv'
  <1> USE DEF Inv
  <1>1. /\ at = "copy" /\ at' = "settle" /\ job' = [job EXCEPT !.view = Source(job.lane)]
        /\ UNCHANGED <<left, localVars, eventVars, row, published, snapshot, base, deadline,
                       stop, error, exit, backlog, waiting>>
    BY DEF Copy, Go
  <1>2. job \in [lane : Lanes, view : Nat, next : Returns] /\ stamp \in Nat /\ world \in Nat
    BY <1>1 DEF JobInv, TypeOK, LocalTypeOK, EventTypeOK
  <1>3. /\ job' \in [lane : Lanes, view : Nat, next : Returns]
        /\ job'.lane = job.lane /\ job'.next = job.next
        /\ job.lane = "local" => job'.view = stamp
        /\ job.lane = "runtime" => job'.view = world
    BY <1>1, <1>2 DEF Source
  <1>4. TypeOK'
    <2>1. job' \in [lane : Lanes, view : Nat, next : Places] /\ at' \in Places
      BY <1>1, <1>3 DEF Returns, Places, Startup, Ticks
    <2> QED BY <1>1, <2>1 DEF TypeOK, LocalTypeOK, EventTypeOK, localVars, eventVars
  <1>5. JobInv' /\ PlaceInv'
    BY <1>1, <1>3 DEF JobInv, PlaceInv, BeforeWatcher, BeforeWorker, Executing,
                      localVars, eventVars
  <1>6. ViewInv' /\ SeenInv'
    BY <1>1 DEF ViewInv, SeenInv, Serving, localVars
  <1>7. OwedInv' /\ RuntimeInv'
    BY <1>1, <1>3 DEF ViewInv, OwedInv, RuntimeInv, eventVars
  <1>8. StopInv'
    BY <1>1 DEF StopInv, FinishedMeansJoined, localVars, eventVars
  <1> QED BY <1>4, <1>5, <1>6, <1>7, <1>8

LEMMA SettleKeeps ==
  ASSUME Inv, Settle
  PROVE  Inv'
  <1> USE DEF Inv
  <1>1. /\ at = "settle" /\ job' = NoJob
        /\ UNCHANGED <<localVars, eventVars, snapshot, base, deadline, stop, exit,
                       backlog, waiting>>
    BY DEF Settle
  <1>2. /\ job.lane \in Lanes /\ job.view \in Nat /\ job.next \in Returns
        /\ row \in [Lanes -> Open \cup {"absent", "succeeded"}] /\ published \in [Lanes -> Nat]
    BY <1>1 DEF JobInv, TypeOK
  <1>3. /\ row' \in [Lanes -> Open \cup {"absent", "succeeded"}]
        /\ published' \in [Lanes -> Nat]
        /\ \/ /\ row' = [row EXCEPT ![job.lane] = "succeeded"]
              /\ published' = [published EXCEPT ![job.lane] = job.view]
           \/ /\ published' = published
              /\ \A k \in Lanes : row[k] \in Open => row'[k] \in Open
              /\ \A k \in Lanes : row'[k] = row[k] \/ row'[k] \in Open
    BY <1>2 DEF Settle, Open
  <1>4. /\ at' \in {job.next, "cycle_rest", "stop_local"}
        /\ at' = "cycle_rest" => job.next \in {"cycle_runtime", "cycle_rest"}
        /\ error' \in BOOLEAN
    BY DEF Settle, Go, InCycle, TypeOK
  <1>5. TypeOK'
    <2>1. at' \in Places
      BY <1>2, <1>4 DEF Returns, Places, Startup, Ticks, Stopping
    <2> QED BY <1>1, <1>3, <1>4, <2>1
        DEF TypeOK, LocalTypeOK, EventTypeOK, localVars, eventVars
  <1>6. JobInv' /\ PlaceInv'
    BY <1>1, <1>2, <1>4 DEF JobInv, PlaceInv, BeforeWatcher, BeforeWorker, Executing, Returns,
                            localVars, eventVars
  <1>7. ViewInv' /\ SeenInv'
    <2>1. Serving /\ at # "observe" /\ at' # "observe"
      BY <1>1, <1>2, <1>4 DEF Serving, Returns
    <2> QED BY <1>1, <2>1 DEF ViewInv, SeenInv, localVars
  <1>8. at' # "settle"
    BY <1>2, <1>4 DEF Returns
  <1>9. OwedInv'
    BY <1>1, <1>2, <1>3, <1>8 DEF OwedInv, Lanes, Open
  <1>10. RuntimeInv'
    BY <1>1, <1>2, <1>3, <1>8 DEF RuntimeInv, Lanes, Open, eventVars
  <1>11. StopInv'
    BY <1>1, <1>2, <1>4 DEF StopInv, FinishedMeansJoined, Returns, localVars, eventVars
  <1> QED BY <1>5, <1>6, <1>7, <1>9, <1>10, <1>11

LEMMA BuildBridgeKeeps ==
  ASSUME Inv, BuildBridge
  PROVE  Inv'
  <1> USE DEF Inv
  <1>1. /\ at = "bridge" /\ at' \in {"start_runtime_sync", "stop_local"}
        /\ UNCHANGED <<left, localVars, eventVars, job, row, published, deadline,
                       stop, error, exit, backlog, waiting>>
        /\ (snapshot' = snapshot /\ base' = base) \/ (snapshot' = stamp /\ base' = stamp)
    BY DEF BuildBridge, Unless, Go
  <1>2. TypeOK'
    BY <1>1 DEF TypeOK, LocalTypeOK, EventTypeOK, Places, Startup, Stopping, localVars, eventVars
  <1>3. JobInv' /\ PlaceInv' /\ SeenInv'
    BY <1>1 DEF JobInv, PlaceInv, BeforeWatcher, BeforeWorker, Executing, SeenInv, Serving, Ticks,
                localVars, eventVars
  <1>4. ViewInv' /\ OwedInv' /\ RuntimeInv'
    BY <1>1, <1>2 DEF ViewInv, OwedInv, RuntimeInv, TypeOK, LocalTypeOK, localVars, eventVars
  <1>5. StopInv'
    BY <1>1 DEF StopInv, FinishedMeansJoined, localVars, eventVars
  <1> QED BY <1>2, <1>3, <1>4, <1>5

LEMMA StartLocalKeeps ==
  ASSUME Inv, StartLocal
  PROVE  Inv'
  <1> USE DEF Inv
  <1>1. /\ at = "start_local" /\ at' \in {"await_local", "stop_local"}
        /\ watcher' = watcher \/ (watcher' = Walk(FALSE) /\ at' = "await_local")
        /\ UNCHANGED <<left, stamp, edited, present, live, unread, table, bit, halt, eventVars,
                       job, row, published, snapshot, base, deadline, stop,
                       error, exit, backlog, waiting>>
    BY DEF StartLocal, Unless, Go
  <1>2. TypeOK'
    <2>1. watcher' \in [at : WatcherSteps, todo : SUBSET Paths, found : SUBSET Paths,
                        ready : BOOLEAN]
      <3>1. watcher \in [at : WatcherSteps, todo : SUBSET Paths, found : SUBSET Paths,
                         ready : BOOLEAN]
        BY DEF TypeOK, LocalTypeOK
      <3>2. {Root} \subseteq Paths /\ "scan" \in WatcherSteps
        BY DEF Paths, WatcherSteps
      <3>3. Walk(FALSE) \in [at : WatcherSteps, todo : SUBSET Paths, found : SUBSET Paths,
                             ready : BOOLEAN]
        BY <3>2 DEF Walk
      <3> HIDE DEF Inv
      <3> QED BY <1>1, <3>1, <3>3
    <2> QED BY <1>1, <2>1 DEF TypeOK, LocalTypeOK, EventTypeOK, Places, Startup, Stopping, eventVars
  <1>3. JobInv' /\ PlaceInv' /\ SeenInv'
    BY <1>1 DEF JobInv, PlaceInv, BeforeWatcher, BeforeWorker, Executing, SeenInv, Serving, Ticks,
                eventVars
  <1>4. ViewInv' /\ OwedInv' /\ RuntimeInv'
    BY <1>1 DEF ViewInv, OwedInv, RuntimeInv, eventVars
  <1>5. StopInv'
    BY <1>1 DEF StopInv, FinishedMeansJoined, eventVars
  <1> QED BY <1>2, <1>3, <1>4, <1>5

(* The bridge looks at the source.                                         *)
LEMMA LookKeeps ==
  ASSUME Inv, Look, at \in {"await_local", "observe"}, at' \in {"start_events", "debounce"},
         at = "await_local" => (watcher.ready \/ WatcherEnded) /\ at' = "start_events",
         at = "observe" => at' = "debounce",
         UNCHANGED <<localVars, eventVars, job, row, published, base, stop, error,
                     exit, backlog, waiting>>
  PROVE  Inv'
  <1> USE DEF Inv, localVars
  <1>1. /\ snapshot' = stamp /\ stamp \in Nat
        /\ deadline' \in {deadline, "armed"}
        /\ snapshot' # snapshot => deadline' = "armed"
    BY DEF Look, TypeOK, LocalTypeOK
  <1>2. TypeOK'
    BY <1>1 DEF TypeOK, LocalTypeOK, EventTypeOK, Places, Startup, Ticks, eventVars
  <1>3. JobInv' /\ PlaceInv'
    BY DEF JobInv, PlaceInv, BeforeWatcher, BeforeWorker, Executing, eventVars
  <1>4. ViewInv'
    BY <1>1 DEF ViewInv
  <1>5. SeenInv'
    BY <1>1 DEF SeenInv, Serving, Ticks, ViewInv, WatcherEnded, TypeOK, LocalTypeOK
  <1>6. OwedInv' /\ RuntimeInv'
    BY <1>1 DEF OwedInv, RuntimeInv, eventVars
  <1>7. StopInv'
    BY DEF StopInv, FinishedMeansJoined, eventVars
  <1> QED BY <1>2, <1>3, <1>4, <1>5, <1>6, <1>7

(* A step between two places, with what changes besides the place.         *)
LEMMA PassKeeps ==
  ASSUME Inv, FlagsOK', StopInv',
         UNCHANGED <<stamp, edited, present, live, unread, table, watcher, world, session,
                     connections, wire, queue, job, row, published, snapshot, base, deadline>>,
         at \in Ticks \cup Stopping \cup {"await_local"},
         at' \in Stopping \cup {"ended"}
           \/ (at \in Ticks \ {"observe"} /\ at' \in Ticks /\ (bit' = bit \/ at' = "observe"))
  PROVE  Inv'
  <1>1. at' \in Places /\ at' \notin {"copy", "settle"}
    BY DEF Places, Ticks, Stopping
  <1>2. ~BeforeWatcher' /\ (BeforeWorker' => BeforeWorker)
    BY DEF BeforeWatcher, BeforeWorker, Executing, Ticks, Stopping
  <1>3. CASE at' \in Stopping \cup {"ended"}
    <2>1. ~Serving' /\ at' # "observe"
      BY <1>3 DEF Serving, Ticks, Stopping
    <2>2. TypeOK' /\ ViewInv' /\ OwedInv' /\ RuntimeInv'
      BY <1>1 DEF Inv, TypeOK, LocalTypeOK, EventTypeOK, FlagsOK, ViewInv, OwedInv, RuntimeInv
    <2>3. JobInv' /\ PlaceInv' /\ SeenInv'
      BY <1>1, <1>2, <2>1 DEF Inv, JobInv, PlaceInv, SeenInv
    <2> QED BY <2>2, <2>3 DEF Inv
  <1>4. CASE at \in Ticks \ {"observe"} /\ at' \in Ticks /\ (bit' = bit \/ at' = "observe")
    BY <1>1, <1>2, <1>4, GoKeeps DEF Serving
  <1> QED BY <1>3, <1>4

LEMMA ServeKeeps ==
  ASSUME Inv, Serve
  PROVE  Inv'
  <1>1. /\ at = "serve" /\ at' \in {"stop_local", "cycle_local", "drain_local"}
        /\ UNCHANGED <<left, localVars, eventVars, job, row, published, snapshot,
                       base, deadline, stop, error, exit, waiting>>
        /\ backlog' \in 0..Backlog
    BY Flags DEF Serve, Go, FlagsOK
  <1>2. FlagsOK' /\ StopInv'
    BY <1>1, Flags DEF FlagsOK, Inv, StopInv, FinishedMeansJoined, localVars, eventVars
  <1> QED BY <1>1, <1>2, PassKeeps DEF Ticks, Stopping, localVars, eventVars

LEMMA CycleRestKeeps ==
  ASSUME Inv, CycleRest
  PROVE  Inv'
  <1>1. /\ at = "cycle_rest" /\ at' = "drain_local" /\ waiting' \in BOOLEAN
        /\ UNCHANGED <<left, localVars, eventVars, job, row, published, snapshot,
                       base, deadline, stop, error, exit, backlog>>
    BY Flags DEF CycleRest, Go, FlagsOK
  <1>2. FlagsOK' /\ StopInv'
    BY <1>1, Flags DEF FlagsOK, Inv, StopInv, FinishedMeansJoined, localVars, eventVars
  <1> QED BY <1>1, <1>2, PassKeeps DEF Ticks, Stopping, localVars, eventVars

LEMMA DrainLocalKeeps ==
  ASSUME Inv, DrainLocal
  PROVE  Inv'
  <1>1. /\ at = "drain_local" /\ at' \in {"stop_local", "observe", "debounce"}
        /\ at' = "debounce" => ~bit
        /\ at' \in {"stop_local", "debounce"} => (bit' <=> bit)
        /\ bit' \in BOOLEAN /\ error' \in BOOLEAN /\ bit \in BOOLEAN
        /\ UNCHANGED <<left, stamp, edited, present, live, unread, table, watcher, halt,
                       eventVars, job, row, published, snapshot, base, deadline, stop, exit,
                       backlog, waiting>>
    BY Flags DEF DrainLocal, Tick, Go, FlagsOK
  <1>2. FlagsOK' /\ StopInv'
    BY <1>1, Flags DEF FlagsOK, Inv, StopInv, FinishedMeansJoined, eventVars
  <1>3. at' \in {"stop_local", "debounce"} => bit' = bit
    BY <1>1
  <1> QED BY <1>1, <1>2, <1>3, PassKeeps DEF Ticks, Stopping, eventVars

LEMMA ObserveKeeps ==
  ASSUME Inv, Observe
  PROVE  Inv'
  <1>1. /\ at = "observe"
        /\ UNCHANGED <<localVars, eventVars, job, row, published, base, stop, exit,
                       backlog, waiting>>
    BY DEF Observe
  <1>2. CASE Look /\ Go("debounce") /\ UNCHANGED <<left, error>>
    BY <1>1, <1>2, LookKeeps DEF Go
  <1>3. CASE at' = "stop_local" /\ error' = TRUE /\ UNCHANGED <<snapshot, deadline>>
    <2>1. FlagsOK' /\ StopInv'
      BY <1>1, <1>3, Flags DEF FlagsOK, Inv, StopInv, FinishedMeansJoined, localVars, eventVars
    <2> QED BY <1>1, <1>3, <2>1, PassKeeps DEF Ticks, Stopping, localVars, eventVars
  <1> QED BY <1>2, <1>3 DEF Observe, Go

LEMMA DebounceKeeps ==
  ASSUME Inv, Debounce
  PROVE  Inv'
  <1>1. /\ at = "debounce"
        /\ UNCHANGED <<left, localVars, eventVars, published, snapshot, base, stop, error,
                       exit, backlog, waiting>>
    BY DEF Debounce
  <1>2. CASE /\ deadline' = "none"
             /\ ClaimOr("local", [row EXCEPT !["local"] = Scheduled("local")], "tick_events")
    <2>1. queue' \in 0..Capacity /\ "local" \in Lanes
      BY <1>1 DEF Inv, TypeOK, EventTypeOK, eventVars, Lanes
    <2> QED BY <1>1, <1>2, <2>1, ScheduledRow, ClaimKeeps
        DEF eventVars, Returns, Serving, Ticks, Stopping
  <1>3. CASE Go("tick_events") /\ UNCHANGED <<deadline, row, job>>
    <2>1. FlagsOK' /\ StopInv'
      BY <1>1, <1>3, Flags
      DEF FlagsOK, Inv, StopInv, FinishedMeansJoined, localVars, eventVars, Go
    <2> QED BY <1>1, <1>3, <2>1, PassKeeps DEF Ticks, Stopping, localVars, eventVars, Go
  <1> QED BY <1>2, <1>3 DEF Debounce

LEMMA TickEventsKeeps ==
  ASSUME Inv, TickEvents
  PROVE  Inv'
  <1>1. /\ at = "tick_events"
        /\ UNCHANGED <<left, localVars, world, session, connections, wire, halted, published,
                       snapshot, base, deadline, stop, exit, backlog, waiting>>
    BY DEF TickEvents
  <1>2. CASE Tick(WorkerEnded, "tick_rest") /\ UNCHANGED <<queue, row, job>>
    <2>1. at' \in {"stop_local", "tick_rest"} /\ error' \in BOOLEAN
      BY <1>2, Flags DEF Tick, Go, FlagsOK
    <2>2. FlagsOK' /\ StopInv'
      BY <1>1, <2>1, Flags DEF FlagsOK, Inv, StopInv, FinishedMeansJoined, localVars
    <2> QED BY <1>1, <1>2, <2>1, <2>2, PassKeeps DEF Ticks, Stopping, localVars
  <1>3. CASE /\ queue' = IF queue > DrainLimit THEN queue - DrainLimit ELSE 0
             /\ ClaimOr("runtime",
                  IF queue > 0 THEN [row EXCEPT !["runtime"] = Scheduled("runtime")] ELSE row,
                  "check_events")
             /\ UNCHANGED error
    <2>1. queue \in 0..Capacity /\ row \in [Lanes -> Open \cup {"absent", "succeeded"}]
          /\ deadline' \in {"none", "armed", "due"} /\ "runtime" \in Lanes
      BY <1>1 DEF Inv, TypeOK, EventTypeOK, Lanes
    <2>2. queue' \in 0..Capacity /\ (queue' = queue \/ queue > 0)
      BY <1>3, <2>1, EventAssumption, OwnerAssumption
    <2>3. PICK r : r = IF queue > 0 THEN [row EXCEPT !["runtime"] = Scheduled("runtime")] ELSE row
      OBVIOUS
    <2>4. /\ r \in [Lanes -> Open \cup {"absent", "succeeded"}]
          /\ \A k \in Lanes : row[k] \in Open => r[k] \in Open
          /\ queue > 0 => r["runtime"] \in Open
      BY <2>1, <2>3, ScheduledRow
    <2>5. ClaimOr("runtime", r, "check_events")
      BY <1>3, <2>3
    <2> QED BY <1>1, <1>3, <2>1, <2>2, <2>4, <2>5, ClaimKeeps
        DEF Returns, Serving, Ticks, Stopping
  <1> QED BY <1>2, <1>3 DEF TickEvents

LEMMA CheckEventsKeeps ==
  ASSUME Inv, CheckEvents
  PROVE  Inv'
  <1>1. /\ at = "check_events" /\ at' \in {"stop_local", "tick_rest"} /\ error' \in BOOLEAN
        /\ UNCHANGED <<left, localVars, eventVars, job, row, published, snapshot,
                       base, deadline, stop, exit, backlog, waiting>>
    BY DEF CheckEvents, Go, WorkerEnded
  <1>2. FlagsOK' /\ StopInv'
    BY <1>1, Flags DEF FlagsOK, Inv, StopInv, FinishedMeansJoined, localVars, eventVars
  <1> QED BY <1>1, <1>2, PassKeeps DEF Ticks, Stopping, localVars, eventVars

LEMMA TickRestKeeps ==
  ASSUME Inv, TickRest
  PROVE  Inv'
  <1>1. /\ at = "tick_rest" /\ at' \in {"stop_local", "serve"} /\ error' \in BOOLEAN
        /\ UNCHANGED <<localVars, eventVars, job, row, published, snapshot, base,
                       deadline, stop, exit, backlog, waiting>>
    BY Flags DEF TickRest, Go, Unless, FlagsOK
  <1>2. FlagsOK' /\ StopInv'
    BY <1>1, Flags DEF FlagsOK, Inv, StopInv, FinishedMeansJoined, localVars, eventVars
  <1> QED BY <1>1, <1>2, PassKeeps DEF Ticks, Stopping, localVars, eventVars

LEMMA AwaitLocalKeeps ==
  ASSUME Inv, AwaitLocal
  PROVE  Inv'
  BY LookKeeps DEF AwaitLocal, Go

LEMMA AwaitTimesOutKeeps ==
  ASSUME Inv, AwaitTimesOut
  PROVE  Inv'
  <1>1. /\ at = "await_local" /\ at' = "finish" /\ halt' = TRUE /\ error' = TRUE
        /\ UNCHANGED <<stamp, edited, present, live, unread, table, watcher, bit, eventVars,
                       job, row, published, snapshot, base, deadline, stop,
                       exit, backlog, waiting>>
    BY DEF AwaitTimesOut, Go
  <1>2. FlagsOK' /\ StopInv'
    BY <1>1, Flags DEF FlagsOK, Inv, StopInv, FinishedMeansJoined, eventVars
  <1> QED BY <1>1, <1>2, PassKeeps DEF Stopping, eventVars

LEMMA StartEventsKeeps ==
  ASSUME Inv, StartEvents
  PROVE  Inv'
  <1> USE DEF Inv
  <1>1. /\ at = "start_events" /\ at' \in {"serve", "stop_local"}
        /\ session' \in {session, "starting"} /\ session = "off"
        /\ UNCHANGED <<left, localVars, world, connections, wire, queue, halted, job, row,
                       published, snapshot, base, deadline, stop, error, exit, backlog, waiting>>
    BY DEF StartEvents, Unless, Go, PlaceInv, BeforeWorker
  <1>2. TypeOK'
    BY <1>1 DEF TypeOK, LocalTypeOK, EventTypeOK, Sessions, Places, Ticks, Stopping, localVars
  <1>3. JobInv' /\ PlaceInv'
    BY <1>1 DEF JobInv, PlaceInv, BeforeWatcher, BeforeWorker, Executing, localVars
  <1>4. ViewInv' /\ SeenInv'
    BY <1>1 DEF ViewInv, SeenInv, Serving, Ticks, localVars
  <1>5. OwedInv' /\ RuntimeInv'
    BY <1>1 DEF OwedInv, RuntimeInv
  <1>6. StopInv'
    BY <1>1 DEF StopInv, FinishedMeansJoined, localVars
  <1> QED BY <1>2, <1>3, <1>4, <1>5, <1>6

(* The way out.                                                            *)
LEMMA StoppingKeeps ==
  ASSUME Inv, StopLocal \/ JoinLocal \/ StopEvents \/ JoinEvents \/ Finish
  PROVE  Inv'
  <1> USE DEF Go, Joined, localVars, eventVars
  <1>1. CASE StopLocal
    <2>1. FlagsOK' /\ StopInv'
      BY <1>1, Flags DEF StopLocal, FlagsOK, Inv, StopInv, FinishedMeansJoined
    <2> QED BY <1>1, <2>1, PassKeeps DEF StopLocal, Stopping
  <1>2. CASE JoinLocal
    <2>1. FlagsOK' /\ StopInv'
      BY <1>2, Flags DEF JoinLocal, FlagsOK, Inv, StopInv, FinishedMeansJoined
    <2> QED BY <1>2, <2>1, PassKeeps DEF JoinLocal, Stopping
  <1>3. CASE StopEvents
    <2>1. FlagsOK' /\ StopInv'
      BY <1>3, Flags DEF StopEvents, FlagsOK, Inv, StopInv, FinishedMeansJoined
    <2> QED BY <1>3, <2>1, PassKeeps DEF StopEvents, Stopping
  <1>4. CASE JoinEvents
    <2>1. FlagsOK' /\ StopInv'
      BY <1>4, Flags DEF JoinEvents, FlagsOK, Inv, StopInv, FinishedMeansJoined
    <2> QED BY <1>4, <2>1, PassKeeps DEF JoinEvents, Stopping
  <1>5. CASE Finish
    <2>1. FlagsOK' /\ StopInv'
      BY <1>5, Flags DEF Finish, FlagsOK, Inv, StopInv, FinishedMeansJoined
    <2> QED BY <1>5, <2>1, PassKeeps DEF Finish, Stopping
  <1> QED BY <1>1, <1>2, <1>3, <1>4, <1>5

LEMMA OwnerStepKeeps ==
  ASSUME Inv, OwnerStep
  PROVE  Inv'
  BY StartupSyncKeeps, CycleLaneKeeps, CopyKeeps, SettleKeeps, BuildBridgeKeeps,
     StartLocalKeeps, AwaitLocalKeeps, AwaitTimesOutKeeps, StartEventsKeeps, ServeKeeps,
     CycleRestKeeps, DrainLocalKeeps, ObserveKeeps, DebounceKeeps, TickEventsKeeps,
     CheckEventsKeeps, TickRestKeeps, StoppingKeeps DEF OwnerStep

-----------------------------------------------------------------------------
(* The launcher, the supervisor and time *)

LEMMA OthersKeep ==
  ASSUME Inv, Dispatch \/ GiveUp \/ Signal
  PROVE  Inv'
  <1>1. UNCHANGED <<localVars, eventVars, at, job, row, published, snapshot, base, deadline,
                    error, exit>>
    BY DEF Dispatch, GiveUp, Signal
  <1>2. FlagsOK' /\ StopInv'
    <2>1. backlog' \in 0..Backlog
      <3>1. backlog \in 0..Backlog
        BY Flags DEF FlagsOK
      <3> QED BY <3>1, OwnerAssumption DEF Dispatch, GiveUp, Signal
    <2>2. waiting' \in BOOLEAN /\ stop' \in BOOLEAN
      BY Flags DEF Dispatch, GiveUp, Signal, FlagsOK
    <2>3. FlagsOK'
      BY <1>1, <2>1, <2>2, Flags DEF FlagsOK, localVars, eventVars
    <2>4. StopInv'
      BY <1>1 DEF Inv, StopInv, FinishedMeansJoined, localVars, eventVars
    <2> QED BY <2>3, <2>4
  <1>3. (BeforeWatcher' <=> BeforeWatcher) /\ (BeforeWorker' <=> BeforeWorker)
        /\ (Serving' <=> Serving)
    BY <1>1 DEF BeforeWatcher, BeforeWorker, Executing, Serving
  <1> QED BY <1>1, <1>2, <1>3, Flags, GoKeeps DEF localVars, eventVars

LEMMA ElapseKeeps ==
  ASSUME Inv, Elapse
  PROVE  Inv'
  <1> USE DEF Inv
  <1>1. /\ deadline' = "due"
        /\ UNCHANGED <<left, localVars, eventVars, at, job, row, published, snapshot,
                       base, stop, error, exit, backlog, waiting>>
    BY DEF Elapse
  <1>2. TypeOK' /\ JobInv'
    BY <1>1 DEF TypeOK, LocalTypeOK, EventTypeOK, JobInv, localVars, eventVars
  <1>3. PlaceInv' /\ ViewInv' /\ SeenInv'
    BY <1>1 DEF PlaceInv, BeforeWatcher, BeforeWorker, Executing, ViewInv, SeenInv, Serving,
                localVars, eventVars
  <1>4. OwedInv' /\ RuntimeInv' /\ StopInv'
    BY <1>1 DEF OwedInv, RuntimeInv, StopInv, FinishedMeansJoined, localVars, eventVars
  <1> QED BY <1>2, <1>3, <1>4

LEMMA RestartKeeps ==
  ASSUME Inv, Restart
  PROVE  Inv'
  <1> USE DEF Inv
  <1>1. /\ watcher' = AtStep("off") /\ live' = {} /\ table' = {} /\ unread' = NoEvents
        /\ bit' = FALSE /\ halt' = FALSE /\ session' = "off" /\ connections' = 0
        /\ wire' = 0 /\ queue' = 0 /\ halted' = FALSE
        /\ at' = "start_local_sync" /\ job' = NoJob
        /\ snapshot' = 0 /\ base' = 0 /\ deadline' = "none"
        /\ stop' = FALSE /\ error' = FALSE /\ exit' = "none" /\ backlog' = 0 /\ waiting' = FALSE
        /\ UNCHANGED <<stamp, edited, present, world, row, published>>
    BY DEF Restart
  <1>2. watcher'.at = "off"
    BY <1>1 DEF AtStep
  <1>3. TypeOK'
    <2>1. LocalTypeOK'
      BY <1>1 DEF TypeOK, LocalTypeOK, AtStep, NoEvents, WatcherSteps
    <2>2. 0 \in 0..MaxConnections /\ 0 \in 0..Capacity /\ 0 \in 0..Backlog
      BY EventAssumption, OwnerAssumption
    <2>3. EventTypeOK'
      BY <1>1, <2>2 DEF TypeOK, EventTypeOK, Sessions
    <2> QED BY <1>1, <2>1, <2>2, <2>3 DEF TypeOK, Places, Startup
  <1>4. JobInv' /\ PlaceInv' /\ SeenInv'
    BY <1>1, <1>2 DEF JobInv, PlaceInv, SeenInv, Serving, Ticks
  <1>5. ViewInv'
    BY <1>1 DEF ViewInv, TypeOK, LocalTypeOK
  <1>6. OwedInv' /\ RuntimeInv' /\ StopInv'
    BY <1>1 DEF OwedInv, RuntimeInv, StopInv, FinishedMeansJoined
  <1> QED BY <1>3, <1>4, <1>5, <1>6

LEMMA StepInv == Inv /\ [Next]_vars => Inv'
  <1> SUFFICES ASSUME Inv, [Next]_vars PROVE Inv'
    OBVIOUS
  <1>1. CASE OwnerStep
    BY <1>1, OwnerStepKeeps
  <1>2. CASE WatchStep \/ EventStep
    BY <1>2, WatcherKeeps, EventsKeep DEF WatchStep, EventStep
  <1>3. CASE (TreeStep \/ WatcherFails) /\ UNCHANGED <<eventVars, ownerVars>>
    BY <1>3, TreeKeeps, WatcherKeeps
  <1>4. CASE (Change \/ Disconnect) /\ UNCHANGED <<localVars, ownerVars>>
    BY <1>4, EventsKeep
  <1>5. CASE Elapse \/ Dispatch \/ GiveUp \/ Signal \/ Restart
    BY <1>5, ElapseKeeps, OthersKeep, RestartKeeps
  <1>6. CASE UNCHANGED vars
    <2>1. UNCHANGED <<localVars, eventVars, ownerVars>>
      BY <1>6 DEF vars
    <2>2. LocalTypeOK' /\ ViewInv' /\ SeenInv' /\ UNCHANGED watcher
      BY <2>1 DEF Inv, TypeOK, LocalTypeOK, ViewInv, SeenInv, Serving, localVars, ownerVars
    <2> QED BY <2>1, <2>2, LocalFrame
  <1> QED BY <1>1, <1>2, <1>3, <1>4, <1>5, <1>6 DEF Next

LEMMA Inductive == Spec => []Inv
  BY InitInv, StepInv, PTL DEF Spec

-----------------------------------------------------------------------------
(* Theorems *)

(* No edit of a watched directory is lost between the kernel, the refresh  *)
(* of consume_local_change_events, the mailbox and LocalChangeBridge, for  *)
(* any interleaving of the threads with the tree that moves below them.    *)
THEOREM NoEditIsMissed == Spec => []EditsAreSeen
  <1>1. Inv => EditsAreSeen
    BY DEF Inv, SeenInv, Serving, EditsAreSeen, Quiet
  <1> QED BY <1>1, Inductive, PTL

(* The state has its type, and what LocalChangeBridge saw is published or  *)
(* owed by the debouncer or the work table, also across restarts.          *)
THEOREM SeenStaysOwed == Spec => []SeenIsOwed
  <1>1. Inv => SeenIsOwed
    BY DEF Inv, OwedInv, SeenIsOwed
  <1> QED BY <1>1, Inductive, PTL

(* No change of Core's runtime falls between two connections, or between   *)
(* the mailbox of RuntimeEventBridge and the inventory being published.    *)
THEOREM RuntimeStaysOwed == Spec => []RuntimeIsOwed
  <1>1. Inv => RuntimeIsOwed
    BY DEF Inv, RuntimeInv, RuntimeIsOwed
  <1> QED BY <1>1, Inductive, PTL

(* run() returns without an error only after both producer threads were    *)
(* joined, whatever raises and whenever the signal arrives.                *)
THEOREM CleanExitIsJoined == Spec => []FinishedMeansJoined
  <1>1. Inv => FinishedMeansJoined
    BY DEF Inv, StopInv
  <1> QED BY <1>1, Inductive, PTL
=============================================================================

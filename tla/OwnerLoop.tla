------------------------------ MODULE OwnerLoop ------------------------------
(***************************************************************************)
(* The service process of a configured repository: run() of __main__.py on *)
(* the thread that owns the StateStore, with the two producer threads it   *)
(* starts and joins, the launcher that asks it for Retrigger cycles, and   *)
(* the process being stopped, failing, or killed and started again.        *)
(*                                                                         *)
(* Two lanes are followed, "local" and "runtime": the row of each in the   *)
(* work table and the view of the source its last publication carries.     *)
(* The other routine services and the other lanes of a cycle run and       *)
(* succeed or raise.                                                       *)
(***************************************************************************)
EXTENDS LocalChanges, RuntimeEvents

CONSTANTS
  DrainLimit,    \* signals taken from the runtime mailbox in one tick
  Backlog        \* requests the IPC socket can hold

ASSUME OwnerAssumption == DrainLimit \in Nat /\ Backlog \in Nat

VARIABLES
  at,          \* where the owner thread is
  job,         \* the claimed item: its lane, the view read, where to go next
  row,         \* status of the lane's item in the work table
  published,   \* the view the lane's last publication carries
  snapshot,    \* LocalChangeBridge._snapshot
  base,        \* history: the first snapshot of this process
  deadline,    \* LocalChangeDebouncer._deadline: none, armed or due
  stop,        \* SIGTERM or SIGINT has been received
  error,       \* an exception ended the loop
  exit,        \* how run() returned
  backlog,     \* requests waiting at the socket
  waiting      \* the launcher waits for an answer

ownerVars == <<at, job, row, published, snapshot, base, deadline,
               stop, error, exit, backlog, waiting>>
vars == <<left, localVars, eventVars, ownerVars>>

Lanes == {"local", "runtime"}
Open == {"pending", "running", "retry", "blocked"}
Startup == {"start_local_sync", "bridge", "start_runtime_sync", "start_local",
            "await_local", "start_events"}
Ticks == {"serve", "cycle_local", "cycle_runtime", "cycle_rest", "drain_local",
          "observe", "debounce", "tick_events", "check_events", "tick_rest"}
Stopping == {"stop_local", "join_local", "stop_events", "join_events", "finish"}
Places == Startup \cup Ticks \cup Stopping \cup {"copy", "settle", "ended"}

NoJob == [lane |-> "none", view |-> 0, next |-> "none"]

TypeOK ==
  /\ LocalTypeOK /\ EventTypeOK
  /\ at \in Places
  /\ job \in {NoJob} \cup [lane : Lanes, view : Nat, next : Places]
  /\ row \in [Lanes -> Open \cup {"absent", "succeeded"}]
  /\ published \in [Lanes -> Nat] /\ snapshot \in Nat /\ base \in Nat
  /\ deadline \in {"none", "armed", "due"}
  /\ stop \in BOOLEAN /\ error \in BOOLEAN
  /\ exit \in {"none", "clean", "failed"}
  /\ backlog \in 0..Backlog /\ waiting \in BOOLEAN

Init ==
  /\ left \in Budgets
  /\ LocalInit /\ EventInit
  /\ at = "start_local_sync" /\ job = NoJob
  /\ snapshot = 0 /\ base = 0 /\ deadline = "none"
  /\ stop = FALSE /\ error = FALSE /\ exit = "none"
  /\ backlog = 0 /\ waiting = FALSE
  /\ row = [l \in Lanes |-> "absent"] /\ published = [l \in Lanes |-> 0]

Source(l) == IF l = "local" THEN stamp ELSE world
Go(p) == at' = p
(* `if not stop.requested` before every step of the startup.               *)
Unless(p) == Go(IF stop THEN "stop_local" ELSE p)

-----------------------------------------------------------------------------
(* Routine work: schedule, claim, execute *)

(* Faulty variant: only a missing row is scheduled.                        *)
ScheduledMissing(l) == IF row[l] = "absent" THEN "pending" ELSE row[l]

Scheduled(l) == IF row[l] \in {"absent", "succeeded"} THEN "pending" ELSE row[l]

(* A pending item is due; a retry may have to wait for its delay.          *)
ClaimOr(l, r, next) ==
  \/ /\ r[l] \in {"pending", "retry"}
     /\ row' = [r EXCEPT ![l] = "running"]
     /\ Go("copy") /\ job' = [lane |-> l, view |-> 0, next |-> next]
  \/ /\ r[l] # "pending"
     /\ row' = r /\ Go(next) /\ UNCHANGED job

(* The stable copy of the source, or the runtime inventory.                *)
Copy ==
  /\ at = "copy"
  /\ job' = [job EXCEPT !.view = Source(job.lane)] /\ Go("settle")
  /\ UNCHANGED <<left, localVars, eventVars, row, published, snapshot, base, deadline,
                 stop, error, exit, backlog, waiting>>

InCycle == job.next \in {"cycle_runtime", "cycle_rest"}

(* The outcome of an execution.  A StateError leaves the row running: it   *)
(* fails the process from a tick, and only the request from a cycle.       *)
Settle ==
  /\ at = "settle"
  /\ \/ /\ row' = [row EXCEPT ![job.lane] = "succeeded"]
        /\ published' = [published EXCEPT ![job.lane] = job.view]
        /\ Go(job.next) /\ UNCHANGED <<left, error>>
     \/ /\ \E s \in {"retry", "blocked"} : row' = [row EXCEPT ![job.lane] = s]
        /\ Spend("failures")
        /\ Go(job.next) /\ UNCHANGED <<published, error>>
     \/ /\ Spend("faults")
        /\ Go(IF InCycle THEN "cycle_rest" ELSE "stop_local")
        /\ error' = (error \/ ~InCycle)
        /\ UNCHANGED <<row, published>>
  /\ job' = NoJob
  /\ UNCHANGED <<localVars, eventVars, snapshot, base, deadline, stop, exit, backlog, waiting>>

-----------------------------------------------------------------------------
(* Startup *)

StartupSync(l) ==
  /\ at = IF l = "local" THEN "start_local_sync" ELSE "start_runtime_sync"
  /\ LET r == [row EXCEPT ![l] = Scheduled(l)]
         next == IF l = "local" THEN "bridge" ELSE "start_local"
     IN IF stop THEN Go("stop_local") /\ UNCHANGED <<row, job>>
                ELSE ClaimOr(l, r, next)
  /\ UNCHANGED <<left, localVars, eventVars, published, snapshot, base, deadline,
                 stop, error, exit, backlog, waiting>>

(* LocalChangeBridge observes the source when it is built.                 *)
BuildBridge ==
  /\ at = "bridge"
  /\ Unless("start_runtime_sync")
  /\ IF stop THEN UNCHANGED <<snapshot, base>>
             ELSE snapshot' = stamp /\ base' = stamp
  /\ UNCHANGED <<left, localVars, eventVars, job, row, published, deadline,
                 stop, error, exit, backlog, waiting>>

StartLocal ==
  /\ at = "start_local"
  /\ Unless("await_local")
  /\ watcher' = IF stop THEN watcher ELSE Walk(FALSE)
  /\ UNCHANGED <<left, stamp, edited, present, live, unread, table, bit, halt, eventVars,
                 job, row, published, snapshot, base, deadline, stop,
                 error, exit, backlog, waiting>>

(* notify_source_event: only a view that differs arms the quiet period.    *)
Look ==
  IF stamp = snapshot
    THEN UNCHANGED <<snapshot, deadline>>
    ELSE snapshot' = stamp /\ deadline' = "armed"

(* Ready or terminated; then the source is looked at again.                *)
AwaitLocal ==
  /\ at = "await_local" /\ (watcher.ready \/ WatcherEnded)
  /\ Look /\ Go("start_events")
  /\ UNCHANGED <<left, localVars, eventVars, job, row, published, base,
                 stop, error, exit, backlog, waiting>>

(* Ten seconds without readiness.                                          *)
AwaitTimesOut ==
  /\ at = "await_local" /\ ~watcher.ready /\ ~WatcherEnded /\ Spend("timeouts")
  /\ halt' = TRUE /\ error' = TRUE /\ Go("finish")
  /\ UNCHANGED <<stamp, edited, present, live, unread, table, watcher, bit, eventVars,
                 job, row, published, snapshot, base, deadline, stop,
                 exit, backlog, waiting>>

StartEvents ==
  /\ at = "start_events"
  /\ Unless("serve")
  /\ session' = IF stop THEN session ELSE "starting"
  /\ UNCHANGED <<left, localVars, world, connections, wire, queue, halted, job, row, published, snapshot, base, deadline, stop, error, exit,
                 backlog, waiting>>

-----------------------------------------------------------------------------
(* The loop: one request, then one tick of each service *)

(* accept returns a request or times out.                                  *)
Serve ==
  /\ at = "serve"
  /\ \/ stop /\ Go("stop_local") /\ UNCHANGED backlog
     \/ ~stop /\ backlog > 0 /\ Go("cycle_local") /\ backlog' = backlog - 1
     \/ ~stop /\ backlog = 0 /\ Go("drain_local") /\ UNCHANGED backlog
  /\ UNCHANGED <<left, localVars, eventVars, job, row, published, snapshot,
                 base, deadline, stop, error, exit, waiting>>

Recovered == [l \in Lanes |-> IF row[l] = "running" THEN "retry" ELSE row[l]]

(* A lane of the cycle recovers the interrupted rows of every lane and     *)
(* executes at most one eligible item of its own.                          *)
CycleLane(l) ==
  /\ at = IF l = "local" THEN "cycle_local" ELSE "cycle_runtime"
  /\ ClaimOr(l, Recovered, IF l = "local" THEN "cycle_runtime" ELSE "cycle_rest")
  /\ UNCHANGED <<left, localVars, eventVars, published, snapshot, base, deadline,
                 stop, error, exit, backlog, waiting>>

(* The remaining lanes, or the failure of one, and the answer.             *)
CycleRest ==
  /\ at = "cycle_rest"
  /\ Go("drain_local") /\ waiting' = (waiting /\ backlog > 0)
  /\ UNCHANGED <<left, localVars, eventVars, job, row, published, snapshot,
                 base, deadline, stop, error, exit, backlog>>

(* A tick of a service whose thread has ended fails the process.           *)
Tick(ended, next) ==
  /\ Go(IF stop \/ ended THEN "stop_local" ELSE next)
  /\ error' = (error \/ (~stop /\ ended))

DrainLocal ==
  /\ at = "drain_local"
  /\ Tick(WatcherEnded, IF bit THEN "observe" ELSE "debounce")
  /\ bit' = (bit /\ (stop \/ WatcherEnded))
  /\ UNCHANGED <<left, stamp, edited, present, live, unread, table, watcher, halt, eventVars,
                 job, row, published, snapshot, base, deadline, stop, exit,
                 backlog, waiting>>

(* Faulty variant: every notification restarts the quiet period.           *)
ObserveAny ==
  /\ at = "observe"
  /\ Go("debounce") /\ snapshot' = stamp /\ deadline' = "armed"
  /\ UNCHANGED <<left, localVars, eventVars, job, row, published, base,
                 stop, error, exit, backlog, waiting>>

(* The source may be unsafe to observe, which fails the process.           *)
Observe ==
  /\ at = "observe"
  /\ \/ Look /\ Go("debounce") /\ UNCHANGED <<left, error>>
     \/ /\ Spend("faults") /\ Go("stop_local") /\ error' = TRUE
        /\ UNCHANGED <<snapshot, deadline>>
  /\ UNCHANGED <<localVars, eventVars, job, row, published, base, stop, exit,
                 backlog, waiting>>

(* The quiet period ends, unless it is extended before the next tick.      *)
Elapse ==
  /\ deadline = "armed"
  /\ deadline' = "due"
  /\ UNCHANGED <<left, localVars, eventVars, at, job, row, published, snapshot,
                 base, stop, error, exit, backlog, waiting>>

Debounce ==
  /\ at = "debounce"
  /\ IF deadline = "due"
       THEN /\ deadline' = "none"
            /\ ClaimOr("local", [row EXCEPT !["local"] = Scheduled("local")], "tick_events")
       ELSE Go("tick_events") /\ UNCHANGED <<deadline, row, job>>
  /\ UNCHANGED <<left, localVars, eventVars, published, snapshot, base, stop, error,
                 exit, backlog, waiting>>

TickEvents ==
  /\ at = "tick_events"
  /\ IF stop \/ WorkerEnded
       THEN Tick(WorkerEnded, "tick_rest") /\ UNCHANGED <<queue, row, job>>
       ELSE /\ queue' = IF queue > DrainLimit THEN queue - DrainLimit ELSE 0
            /\ ClaimOr("runtime",
                 IF queue > 0 THEN [row EXCEPT !["runtime"] = Scheduled("runtime")] ELSE row,
                 "check_events")
            /\ UNCHANGED error
  /\ UNCHANGED <<left, localVars, world, session, connections, wire, halted, published,
                 snapshot, base, deadline, stop, exit, backlog, waiting>>

CheckEvents ==
  /\ at = "check_events"
  /\ Go(IF WorkerEnded THEN "stop_local" ELSE "tick_rest") /\ error' = WorkerEnded
  /\ UNCHANGED <<left, localVars, eventVars, job, row, published, snapshot,
                 base, deadline, stop, exit, backlog, waiting>>

(* The database, log, candidate detection and preflight services.          *)
TickRest ==
  /\ at = "tick_rest"
  /\ \/ Unless("serve") /\ UNCHANGED <<left, error>>
     \/ ~stop /\ Spend("faults") /\ Go("stop_local") /\ error' = TRUE
  /\ UNCHANGED <<localVars, eventVars, job, row, published, snapshot, base,
                 deadline, stop, exit, backlog, waiting>>

-----------------------------------------------------------------------------
(* Stopping: the services in order, and only then finish_run.  On the way  *)
(* out of an exception the errors of stop are suppressed; on a clean stop  *)
(* the first one ends run().                                               *)

StopLocal ==
  /\ at = "stop_local"
  /\ IF watcher.at = "off"
       THEN Go("stop_events") /\ UNCHANGED halt
       ELSE Go("join_local") /\ halt' = TRUE
  /\ UNCHANGED <<left, stamp, edited, present, live, unread, table, watcher, bit, eventVars,
                 job, row, published, snapshot, base, deadline, stop, error,
                 exit, backlog, waiting>>

Joined(clean, next) ==
  /\ Go(IF clean \/ error THEN next ELSE "finish")
  /\ error' = (error \/ ~clean)

(* Faulty variant: how the thread ended is not looked at.                  *)
JoinLocalAny ==
  /\ at = "join_local" /\ WatcherEnded
  /\ Joined(TRUE, "stop_events")
  /\ UNCHANGED <<left, localVars, eventVars, job, row, published, snapshot,
                 base, deadline, stop, exit, backlog, waiting>>

JoinLocal ==
  /\ at = "join_local"
  /\ \/ WatcherEnded /\ Joined(watcher.at = "stopped", "stop_events") /\ UNCHANGED left
     \/ ~WatcherEnded /\ Spend("timeouts") /\ Joined(FALSE, "stop_events")
  /\ UNCHANGED <<localVars, eventVars, job, row, published, snapshot, base,
                 deadline, stop, exit, backlog, waiting>>

StopEvents ==
  /\ at = "stop_events"
  /\ IF session = "off"
       THEN Go("finish") /\ UNCHANGED halted
       ELSE Go("join_events") /\ halted' = TRUE
  /\ UNCHANGED <<left, localVars, world, session, connections, wire, queue, job, row, published, snapshot, base, deadline, stop, error, exit,
                 backlog, waiting>>

JoinEvents ==
  /\ at = "join_events"
  /\ \/ WorkerEnded /\ Joined(session = "stopped", "finish") /\ UNCHANGED left
     \/ ~WorkerEnded /\ Spend("timeouts") /\ Joined(FALSE, "finish")
  /\ UNCHANGED <<localVars, eventVars, job, row, published, snapshot, base,
                 deadline, stop, exit, backlog, waiting>>

Finish ==
  /\ at = "finish"
  /\ Go("ended") /\ exit' = IF error THEN "failed" ELSE "clean"
  /\ UNCHANGED <<left, localVars, eventVars, job, row, published, snapshot,
                 base, deadline, stop, error, backlog, waiting>>

-----------------------------------------------------------------------------
(* The launcher, the supervisor and time *)

(* The schedule is due, and its client connects; later it may give up.     *)
Dispatch ==
  /\ at \in Ticks \cup {"copy", "settle"} /\ ~waiting /\ backlog < Backlog
  /\ Spend("requests")
  /\ backlog' = backlog + 1 /\ waiting' = TRUE
  /\ UNCHANGED <<localVars, eventVars, at, job, row, published, snapshot,
                 base, deadline, stop, error, exit>>

GiveUp ==
  /\ waiting /\ Spend("timeouts")
  /\ waiting' = FALSE
  /\ UNCHANGED <<localVars, eventVars, at, job, row, published, snapshot,
                 base, deadline, stop, error, exit, backlog>>

Signal ==
  /\ ~stop /\ at # "ended" /\ Spend("signals")
  /\ stop' = TRUE
  /\ UNCHANGED <<localVars, eventVars, at, job, row, published, snapshot,
                 base, deadline, error, exit, backlog, waiting>>

(* Killed at any time, or gone, and started again: only the store, the     *)
(* source and the published history remain.                                *)
Restart ==
  /\ Spend("restarts")
  /\ watcher' = AtStep("off") /\ live' = {} /\ table' = {} /\ unread' = NoEvents
  /\ bit' = FALSE /\ halt' = FALSE
  /\ session' = "off" /\ connections' = 0 /\ wire' = 0 /\ queue' = 0 /\ halted' = FALSE
  /\ at' = "start_local_sync" /\ job' = NoJob
  /\ snapshot' = 0 /\ base' = 0 /\ deadline' = "none"
  /\ stop' = FALSE /\ error' = FALSE /\ exit' = "none"
  /\ backlog' = 0 /\ waiting' = FALSE
  /\ UNCHANGED <<stamp, edited, present, world, row, published>>
OwnerStep ==
  \/ \E l \in Lanes : StartupSync(l) \/ CycleLane(l)
  \/ Copy \/ Settle
  \/ BuildBridge \/ StartLocal \/ AwaitLocal \/ AwaitTimesOut \/ StartEvents
  \/ Serve \/ CycleRest \/ DrainLocal \/ Observe \/ Debounce
  \/ TickEvents \/ CheckEvents \/ TickRest
  \/ StopLocal \/ JoinLocal \/ StopEvents \/ JoinEvents \/ Finish

WatchStep == WatcherStep /\ UNCHANGED <<eventVars, ownerVars>>
EventStep == WorkerStep /\ UNCHANGED <<localVars, ownerVars>>

Next ==
  \/ OwnerStep
  \/ WatchStep
  \/ EventStep
  \/ (TreeStep \/ WatcherFails) /\ UNCHANGED <<eventVars, ownerVars>>
  \/ (Change \/ Disconnect) /\ UNCHANGED <<localVars, ownerVars>>
  \/ Elapse \/ Dispatch \/ GiveUp \/ Signal \/ Restart

Spec == Init /\ [][Next]_vars

(* The threads are scheduled and time passes; nothing is assumed of the    *)
(* source, of Core, or of the launcher.                                    *)
FairSpec == Spec /\ WF_vars(OwnerStep) /\ WF_vars(WatchStep) /\ WF_vars(EventStep)
                 /\ WF_vars(Elapse)

-----------------------------------------------------------------------------
(* Properties *)

(* The watcher waits with nothing to read, and the loop is between the     *)
(* mailbox and the next look at it.                                        *)
Quiet ==
  /\ at \in (Ticks \ {"observe"}) \cup {"copy", "settle"} /\ watcher.ready
  /\ watcher.at = "select" /\ ~unread.any /\ ~bit

(* When everything is quiet, no edit of a watched directory is still       *)
(* unseen: not one made while the watches were installed, refreshed, read, *)
(* or while the owner drained and observed.  (consume_local_change_events  *)
(* refreshes before it notifies, LocalChangeService.start looks again.)    *)
EditsAreSeen ==
  Quiet => \A d \in live : edited[d] <= snapshot

(* A change the loop has seen is published, or still owed by the quiet     *)
(* period or by an open item: it is never dropped by a coalesced           *)
(* generation, a failure, a cycle in between, or a restart of the period.  *)
(* (LocalChangeDebouncer.tick, schedule_routine_work.)                     *)
SeenIsOwed ==
  /\ TypeOK
  /\ \/ snapshot = base
     \/ snapshot <= published["local"]
     \/ deadline # "none"
     \/ row["local"] \in Open

(* While a session is open and drained, and no runtime item is open, the   *)
(* published inventory is the present one: whatever happened before the    *)
(* subscriptions were confirmed, or between two connections, is covered.   *)
(* (on_ready of consume_core_runtime_events, forward_ready.)               *)
RuntimeIsOwed ==
  session = "open" /\ wire = 0 /\ queue = 0 /\ row["runtime"] \notin Open
    => published["runtime"] = world

(* A run is recorded finished only when both producer threads were told to *)
(* stop and had stopped by themselves for no other reason.                 *)
(* (LocalChangeService.stop, RuntimeEventBridge.stop, then finish_run.)    *)
FinishedMeansJoined ==
  exit = "clean" => /\ watcher.at \in {"off", "stopped"}
                    /\ session \in {"off", "stopped"}

(* The quiet period ends although files that are not routed to main keep   *)
(* changing.  (LocalChangeBridge.notify_source_event.)                     *)
QuietPeriodEnds == deadline # "none" ~> (deadline = "none" \/ at = "ended")

(* A claim of docs/local-change-events.md: recreating a directory at the   *)
(* same path cannot leave its replacement unwatched.                       *)
ReplacementIsWatched ==
  Quiet => \A d \in table \cap present : Parent[d] \in live => d \in live

(* A claim of docs/runtime-event-service-activation.md: leaving the loop   *)
(* on SIGTERM stops the event worker before run() returns.                 *)
StopReachesWorkers ==
  at = "ended" => /\ watcher.at \in {"off", "stopped", "failed"}
                  /\ session \in {"off", "stopped", "exhausted", "failed"} \/ halted
=============================================================================

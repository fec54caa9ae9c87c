---------------------------- MODULE RuntimeEvents ----------------------------
(***************************************************************************)
(* The producer of runtime signals: Home Assistant Core changes and sends  *)
(* events over a WebSocket, and the worker thread of                       *)
(* runtime_event_worker.py connects, subscribes, puts READY and then every *)
(* event into the bounded mailbox, and reconnects a bounded number of      *)
(* times.  Every signal asks for the same thing, a complete inventory, so  *)
(* the mailbox is the number of signals in it.                             *)
(***************************************************************************)
EXTENDS Surroundings

CONSTANTS
  MaxConnections,  \* RuntimeEventWorker max_attempts
  Capacity         \* RuntimeEventMailbox capacity

ASSUME EventAssumption == MaxConnections \in Nat \ {0} /\ Capacity \in Nat

VARIABLES
  world,        \* changes of the runtime of Home Assistant so far
  session,      \* the thread and its connection
  connections,  \* attempts of the loop in _run
  wire,         \* events sent by Core that the worker has not received
  queue,        \* signals in the mailbox
  halted        \* RuntimeEventWorker._stop_requested

eventVars == <<world, session, connections, wire, queue, halted>>

Sessions == {"off", "starting", "connecting", "subscribed", "open", "backoff",
             "stopped", "exhausted", "failed"}

EventTypeOK ==
  /\ world \in Nat /\ session \in Sessions /\ connections \in 0..MaxConnections
  /\ wire \in Nat /\ queue \in 0..Capacity /\ halted \in BOOLEAN

EventInit ==
  /\ world = 0 /\ session = "off" /\ connections = 0
  /\ wire = 0 /\ queue = 0 /\ halted = FALSE

WorkerEnded == session \in {"stopped", "exhausted", "failed"}

-----------------------------------------------------------------------------
(* Core changes.  Until every subscription is confirmed an event may or    *)
(* may not be sent, and the worker drops it: that is the same as none.     *)
Change ==
  /\ Spend("events")
  /\ world' = world + 1
  /\ wire' = IF session \in {"subscribed", "open"} THEN wire + 1 ELSE wire
  /\ UNCHANGED <<session, connections, queue, halted>>

-----------------------------------------------------------------------------
(* The worker thread *)

Connect ==
  /\ session \in {"starting", "backoff"} /\ ~halted
  /\ session' = "connecting" /\ connections' = connections + 1
  /\ UNCHANGED <<left, world, wire, queue, halted>>

(* Authenticated, and the last subscription is confirmed.                  *)
Subscribe ==
  /\ session = "connecting"
  /\ session' = "subscribed"
  /\ UNCHANGED <<left, world, connections, wire, queue, halted>>

(* mailbox_failed: a full mailbox ends the worker, whatever the transport  *)
(* makes of the exception.                                                 *)
Overflow ==
  /\ queue = Capacity
  /\ session' = "failed" /\ wire' = 0
  /\ UNCHANGED <<left, world, connections, queue, halted>>

(* Faulty variant: only the first connection announces its readiness.      *)
ReadyOnce ==
  /\ session = "subscribed"
  /\ \/ /\ queue < Capacity
        /\ queue' = IF connections = 1 THEN queue + 1 ELSE queue
        /\ session' = "open"
        /\ UNCHANGED <<left, world, connections, wire, halted>>
     \/ Overflow

(* on_ready, once per connection and before any event is forwarded.        *)
Ready ==
  /\ session = "subscribed"
  /\ \/ /\ queue < Capacity
        /\ queue' = queue + 1 /\ session' = "open"
        /\ UNCHANGED <<left, world, connections, wire, halted>>
     \/ Overflow

Forward ==
  /\ session = "open" /\ wire > 0
  /\ \/ /\ queue < Capacity
        /\ queue' = queue + 1 /\ wire' = wire - 1
        /\ UNCHANGED <<left, world, session, connections, halted>>
     \/ Overflow

(* CoreEventStreamError: what was on the wire is lost with the connection. *)
(* The attempts are those of the process, not of the outage.               *)
Disconnect ==
  /\ session \in {"connecting", "subscribed", "open"} /\ Spend("drops")
  /\ wire' = 0
  /\ session' = IF halted THEN "stopped"
                ELSE IF connections = MaxConnections THEN "exhausted" ELSE "backoff"
  /\ UNCHANGED <<world, connections, queue, halted>>

(* The stop event interrupts the wait for a message and the backoff.       *)
StopWorker ==
  /\ halted /\ session \notin {"off"} /\ ~WorkerEnded
  /\ session' = "stopped" /\ wire' = 0
  /\ UNCHANGED <<left, world, connections, queue, halted>>

WorkerStep == Connect \/ Subscribe \/ Ready \/ Forward \/ StopWorker
=============================================================================

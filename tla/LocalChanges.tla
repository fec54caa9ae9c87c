---------------------------- MODULE LocalChanges ----------------------------
(***************************************************************************)
(* The producer of local change signals: Home Assistant edits the          *)
(* configuration tree, the kernel queues inotify events, and the watcher   *)
(* thread of local_change_worker.py runs consume_local_change_events:      *)
(* install watches, report readiness, then wait, read, refresh the         *)
(* watches and set the one bit of the mailbox.                             *)
(*                                                                         *)
(* A view of the source (LocalChangeSnapshot) is the number of edits made  *)
(* so far to files routed to main; edited names the last edit of each      *)
(* directory.  A walk and the registration of the watches are one step     *)
(* per directory, because the tree moves underneath them.                  *)
(***************************************************************************)
EXTENDS Surroundings, FiniteSets

CONSTANTS
  Root,      \* /homeassistant
  Dirs,      \* the directories below it, by path
  Parent     \* Dirs -> Dirs \cup {Root}

(* Two levels below the root are enough for a directory that leaves with   *)
(* a watched one below it.                                                 *)
ASSUME TreeAssumption ==
  /\ Root \notin Dirs /\ Parent \in [Dirs -> Dirs \cup {Root}]
  /\ \A d \in Dirs : Parent[d] = Root \/ Parent[Parent[d]] = Root

VARIABLES
  stamp,     \* edits of main-routed files so far
  edited,    \* the last edit in each directory
  present,   \* the paths where a directory is
  live,      \* the kernel watches the directory that is there now
  unread,    \* queued events: any at all, and watches they invalidate
  table,     \* the paths in the watcher's watched dictionary
  watcher,   \* the thread: its step, and its walk
  bit,       \* LocalChangeMailbox._changed
  halt       \* LocalChangeWorker._stop

localVars == <<stamp, edited, present, live, unread, table, watcher, bit, halt>>

Paths == Dirs \cup {Root}
WatcherSteps == {"off", "scan", "watch", "select", "stopped", "failed"}

LocalTypeOK ==
  /\ stamp \in Nat /\ edited \in [Paths -> Nat]
  /\ present \subseteq Dirs /\ live \subseteq Paths /\ table \subseteq Paths
  /\ unread \in [any : BOOLEAN, lost : SUBSET Paths]
  /\ watcher \in [at : WatcherSteps, todo : SUBSET Paths, found : SUBSET Paths,
                  ready : BOOLEAN]
  /\ bit \in BOOLEAN /\ halt \in BOOLEAN

NoEvents == [any |-> FALSE, lost |-> {}]
AtStep(s) == [at |-> s, todo |-> {}, found |-> {}, ready |-> FALSE]

LocalInit ==
  /\ stamp = 0 /\ edited = [d \in Paths |-> 0]
  /\ present = Dirs /\ live = {} /\ unread = NoEvents /\ table = {}
  /\ watcher = AtStep("off") /\ bit = FALSE /\ halt = FALSE

Exists(d) == d = Root \/ d \in present
Children(d) == {c \in present : Parent[c] = d}
WatcherEnded == watcher.at \in {"stopped", "failed"}

-----------------------------------------------------------------------------
(* The tree, edited by Home Assistant and its users.  The kernel reports   *)
(* what happens in a watched directory, and that a watch lost its path.    *)

Raise(d, lost) ==
  unread' = [any |-> unread.any \/ d \in live \/ lost # {}, lost |-> unread.lost \cup lost]

Edit(d) ==
  /\ Exists(d) /\ Spend("edits")
  /\ stamp' = stamp + 1 /\ edited' = [edited EXCEPT ![d] = stamp + 1]
  /\ Raise(d, {})
  /\ UNCHANGED <<present, live, table, watcher, bit, halt>>

(* A file that is not routed to main: the recorder database, a log.        *)
Churn(d) ==
  /\ left.churn /\ d \in live
  /\ Raise(d, {})
  /\ UNCHANGED <<left, stamp, edited, present, live, table, watcher, bit, halt>>

Make(d) ==
  /\ d \notin present /\ Exists(Parent[d]) /\ Spend("makes")
  /\ present' = present \cup {d} /\ edited' = [edited EXCEPT ![d] = 0]
  /\ Raise(Parent[d], {})
  /\ UNCHANGED <<stamp, live, table, watcher, bit, halt>>

(* Everything at or below d, for trees two levels deep.                    *)
Subtree(d) == {d} \cup Children(d)

(* A directory leaves with all that is below it: the kernel invalidates    *)
(* the watch of the directory itself; a watch further down stays with its  *)
(* inode and reports nothing.                                              *)
MoveAway(d) ==
  /\ d \in present /\ Spend("moves")
  /\ present' = present \ Subtree(d) /\ live' = live \ Subtree(d)
  /\ stamp' = stamp + 1 /\ edited' = [edited EXCEPT ![Parent[d]] = stamp + 1]
  /\ Raise(Parent[d], {d} \cap live)
  /\ UNCHANGED <<table, watcher, bit, halt>>

TreeStep == \E d \in Paths :
  \/ Edit(d)
  \/ Churn(d)
  \/ d \in Dirs /\ (Make(d) \/ MoveAway(d))

-----------------------------------------------------------------------------
(* The watcher thread *)

Walk(ready) == [at |-> "scan", todo |-> {Root}, found |-> {}, ready |-> ready]

(* os.scandir: a directory that is gone is skipped, its entries are listed *)
(* before anything watches them.  A symbolic link ends the thread.         *)
Scan ==
  /\ watcher.at = "scan"
  /\ \E d \in watcher.todo :
       watcher' = IF Exists(d)
         THEN [watcher EXCEPT !.todo = (@ \ {d}) \cup Children(d), !.found = @ \cup {d}]
         ELSE [watcher EXCEPT !.todo = @ \ {d}]
  /\ UNCHANGED <<left, stamp, edited, present, live, unread, table, bit, halt>>

(* The walk is over: forget the paths it did not meet.                     *)
Forget ==
  /\ watcher.at = "scan" /\ watcher.todo = {}
  /\ table' = table \cap watcher.found
  /\ watcher' = [watcher EXCEPT !.at = "watch", !.todo = watcher.found \ table, !.found = {}]
  /\ UNCHANGED <<left, stamp, edited, present, live, unread, bit, halt>>

(* inotify_add_watch, for each path not in the dictionary.                 *)
AddWatch ==
  /\ watcher.at = "watch"
  /\ \E d \in watcher.todo :
       /\ watcher' = [watcher EXCEPT !.todo = @ \ {d}]
       /\ IF Exists(d)
            THEN live' = live \cup {d} /\ table' = table \cup {d}
            ELSE UNCHANGED <<live, table>>
  /\ UNCHANGED <<left, stamp, edited, present, unread, bit, halt>>

Waiting == [at |-> "select", todo |-> {}, found |-> {}, ready |-> TRUE]

(* Watches in place: the first time, report readiness; later, notify.      *)
Report ==
  /\ watcher.at = "watch" /\ watcher.todo = {}
  /\ watcher' = Waiting
  /\ bit' = (bit \/ watcher.ready)
  /\ UNCHANGED <<left, stamp, edited, present, live, unread, table, halt>>

(* Faulty variant: notify as soon as events are read, then refresh.        *)
ReadAndNotify ==
  /\ watcher.at = "select" /\ ~halt /\ unread.any
  /\ table' = table \ unread.lost
  /\ unread' = NoEvents
  /\ watcher' = Walk(FALSE) /\ bit' = TRUE
  /\ UNCHANGED <<left, stamp, edited, present, live, halt>>

(* One read takes every queued event.  Invalidated paths are forgotten,    *)
(* and the watches are refreshed before the mailbox is notified.           *)
Read ==
  /\ watcher.at = "select" /\ ~halt /\ unread.any
  /\ table' = table \ unread.lost
  /\ unread' = NoEvents
  /\ watcher' = Walk(TRUE)
  /\ UNCHANGED <<left, stamp, edited, present, live, bit, halt>>

(* The stop event is looked at between two reads.  The descriptor closes   *)
(* with the thread, and its watches with it.                               *)
Halt ==
  /\ watcher.at = "select" /\ halt
  /\ watcher' = AtStep("stopped")
  /\ live' = {} /\ table' = {} /\ unread' = NoEvents
  /\ UNCHANGED <<left, stamp, edited, present, bit, halt>>

(* A symbolic link, a watch that cannot be added, an I/O error.            *)
WatcherFails ==
  /\ watcher.at \in {"scan", "watch", "select"} /\ Spend("faults")
  /\ watcher' = AtStep("failed")
  /\ live' = {} /\ table' = {} /\ unread' = NoEvents
  /\ UNCHANGED <<stamp, edited, present, bit, halt>>

WatcherStep == Scan \/ Forget \/ AddWatch \/ Report \/ Read \/ Halt
=============================================================================

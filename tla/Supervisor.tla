----------------------------- MODULE Supervisor -----------------------------
(***************************************************************************)
(* The live supervision of one Printer (src/src-tauri/src/connections/     *)
(* supervisor.rs, printers/setup.rs): the task that observes its host, the *)
(* forwarder that applies what was observed, the status everybody reads,   *)
(* and the commands that change the Printer's row and then bring its       *)
(* supervision in line under the manager's one guard.                      *)
(*                                                                         *)
(* A row can be read and its credential is there; the guard, which all     *)
(* Printers share, is the commands' of this one.  A reading is the host it *)
(* was taken from.                                                         *)
(***************************************************************************)
EXTENDS Integers, Sequences, FiniteSets

CONSTANTS
    Hosts, NoHost,
    Cmds,          \* command handlers that can be open together
    Depth,         \* STATUS_CHANNEL_DEPTH
    MaxEpochs,     \* bound: supervisions of one run of the app
    Limits         \* bounds: edits, observations, forced stops and restarts of a behaviour

ASSUME SupervisorAssumption ==
    /\ NoHost \notin Hosts /\ Depth \in Nat \ {0} /\ MaxEpochs \in Nat \ {0}
    /\ Limits \subseteq [edits : Nat, reads : Nat, forces : Nat, restarts : Nat]

VARIABLES
    row,        \* the printers row: active, archived or deleted, and its Connection
    snapshot,   \* the printer_status_snapshots row: whose telemetry, or NoHost
    status,     \* StatusMap: what is shown of the Printer
    epoch,      \* StatusMap: the current supervision
    entry,      \* the manager's tasks: the task of the Printer, or 0
    task,       \* each supervision's task and forwarder
    cmd,        \* the command handlers
    forced,     \* a task was aborted rather than stopped (history)
    limit       \* what is left of the bounds

supervision == <<row, snapshot, status, epoch, entry, task, cmd, forced, limit>>

Epochs == 1..MaxEpochs
Observations == {"online", "offline", "telemetry"}
NoStatus == [shown |-> FALSE, state |-> "offline", by |-> 0, from |-> NoHost, fresh |-> FALSE, cached |-> FALSE]
NoTask == [pc |-> "none", host |-> NoHost, stop |-> FALSE, outcome |-> "none", buf |-> <<>>, held |-> NoStatus]
NoCmd == [pc |-> "idle", kind |-> "none", copy |-> [state |-> "active", conn |-> NoHost],
          what |-> "none", host |-> NoHost, task |-> 0]

Forwarding(t) == t.buf # <<>> \/ t.held.shown
GuardFree == \A c \in Cmds : cmd[c].pc \notin {"joining", "acting"}
---------------------------------------------------------------------------
(* The status                                                              *)

(* merge_status: telemetry replaces the reading; health keeps it, and      *)
(* online health extends it unless it came from the cache.                 *)
MergeStatus(previous, seen, host, by) ==
  LET next == [previous EXCEPT !.shown = TRUE, !.by = by] IN
  IF seen = "telemetry"
  THEN [next EXCEPT !.state = "online", !.from = host, !.fresh = TRUE, !.cached = FALSE]
  ELSE [next EXCEPT !.state = seen, !.fresh = @ \/ (seen = "online" /\ ~previous.cached)]

(* apply_error_to, reconcile_printer: the reading is kept.                 *)
Retain(state, by) == [status EXCEPT !.shown = TRUE, !.state = state, !.by = by]

\* Mutant: what an old supervision observed is shown like any.
PublishAnyway(e) == status' = task[e].held

(* publish_changed_if_current                                              *)
PublishIfCurrent(e) == status' = IF epoch = e THEN task[e].held ELSE status

(* publish_removed                                                         *)
PublishRemoved == status' = NoStatus /\ epoch' = epoch + 1

(* fresh_until passes.                                                     *)
Expire ==
  /\ status.fresh
  /\ status' = [status EXCEPT !.fresh = FALSE]
  /\ UNCHANGED <<row, snapshot, epoch, entry, task, cmd, forced, limit>>
---------------------------------------------------------------------------
(* A supervision: its task subscribes, reports an error, waits and         *)
(* subscribes again; its forwarder drains before the task goes on.         *)

SetTask(e, t) == task' = [task EXCEPT ![e] = t]

(* subscribe: the adapter sends what it sees while there is room.          *)
Observe(e, seen) ==
  /\ task[e].pc = "subscribed" /\ Len(task[e].buf) < Depth /\ limit.reads > 0
  /\ SetTask(e, [task[e] EXCEPT !.buf = Append(@, seen)])
  /\ limit' = [limit EXCEPT !.reads = @ - 1]
  /\ UNCHANGED <<row, snapshot, status, epoch, entry, cmd, forced>>

(* apply_observation_to reads the status and saves the snapshot, when one  *)
(* is due or the first and its Printer is still there,                     *)
Take(e) ==
  LET t == task[e]  seen == Head(t.buf)  next == MergeStatus(status, seen, t.host, e) IN
  /\ t.buf # <<>> /\ ~t.held.shown
  /\ SetTask(e, [t EXCEPT !.buf = Tail(@), !.held = next])
  /\ \/ seen = "telemetry" /\ row.state # "deleted" /\ snapshot' = t.host
     \/ (seen = "telemetry" => snapshot # NoHost \/ row.state = "deleted") /\ UNCHANGED snapshot
  /\ UNCHANGED <<row, status, epoch, entry, cmd, forced, limit>>

(* and publishes, if its supervision is still the current one.             *)
Publish(e) ==
  /\ task[e].held.shown
  /\ PublishIfCurrent(e)
  /\ SetTask(e, [task[e] EXCEPT !.held = NoStatus])
  /\ UNCHANGED <<row, snapshot, epoch, entry, cmd, forced, limit>>

(* The subscription ends, or the task sees that it is to stop.             *)
Unsubscribe(e, outcome) ==
  /\ task[e].pc = "subscribed"
  /\ outcome = "stopped" => task[e].stop
  /\ SetTask(e, [task[e] EXCEPT !.pc = "draining", !.outcome = outcome])
  /\ UNCHANGED <<row, snapshot, status, epoch, entry, cmd, forced, limit>>

(* forward.await                                                           *)
Drained(e) ==
  LET t == task[e] IN
  /\ t.pc = "draining" /\ ~Forwarding(t)
  /\ SetTask(e, [t EXCEPT !.pc = IF t.outcome = "stopped" \/ t.stop THEN "ended"
                                 ELSE IF t.outcome = "failed" THEN "failing" ELSE "waiting"])
  /\ UNCHANGED <<row, snapshot, status, epoch, entry, cmd, forced, limit>>

(* apply_error_to asks for no epoch.                                       *)
ReportError(e) ==
  /\ task[e].pc = "failing"
  /\ status' = Retain("error", e)
  /\ SetTask(e, [task[e] EXCEPT !.pc = "waiting"])
  /\ UNCHANGED <<row, snapshot, epoch, entry, cmd, forced, limit>>

(* The backoff ends, by its time or because the task is to stop.           *)
Backoff(e) ==
  /\ task[e].pc = "waiting"
  /\ \/ SetTask(e, [task[e] EXCEPT !.pc = "subscribed", !.outcome = "none"])
     \/ task[e].stop /\ SetTask(e, [task[e] EXCEPT !.pc = "ended"])
  /\ UNCHANGED <<row, snapshot, status, epoch, entry, cmd, forced, limit>>

TaskStep == \E e \in Epochs :
  \/ \E seen \in Observations : Observe(e, seen)
  \/ \E outcome \in {"closed", "failed", "stopped"} : Unsubscribe(e, outcome)
  \/ Take(e) \/ Publish(e) \/ Drained(e) \/ ReportError(e) \/ Backoff(e)
---------------------------------------------------------------------------
(* Commands.  The row is committed first, outside the guard.               *)

Edited(kind, host) ==
  CASE kind = "set" -> [row EXCEPT !.conn = host]
    [] kind = "clear" -> [row EXCEPT !.conn = NoHost]
    [] kind = "archive" -> [row EXCEPT !.state = "archived"]
    [] kind = "unarchive" -> [row EXCEPT !.state = "active"]
    [] kind = "delete" -> [state |-> "deleted", conn |-> NoHost]

Commit(c, kind, host) ==
  /\ cmd[c].pc = "idle" /\ limit.edits > 0 /\ row.state # "deleted"
  /\ kind \in (IF row.state = "active" THEN {"set", "clear", "archive", "delete"}
               ELSE {"set", "clear", "unarchive", "delete"})
  /\ row' = Edited(kind, host)
  /\ snapshot' = IF kind = "delete" THEN NoHost ELSE snapshot
  /\ cmd' = [cmd EXCEPT ![c] = [NoCmd EXCEPT !.pc = "waiting", !.kind = kind, !.copy = row']]
  /\ limit' = [limit EXCEPT !.edits = @ - 1]
  /\ UNCHANGED <<status, epoch, entry, task, forced>>

(* supervise_printer                                                       *)
Supervise(printer) ==
  IF printer.state # "active" THEN "stop" ELSE IF printer.conn = NoHost THEN "reconcile" ELSE "start"

(* clear_connection, the command                                           *)
Cleared(printer) ==
  IF printer.state = "archived" THEN "discard"
  ELSE IF printer.state = "active" /\ printer.conn = NoHost THEN "clear" ELSE Supervise(printer)

\* Mutant: the command supervises the copy it committed.
OwnCopy(c) == cmd[c].copy

(* supervise_persisted re-reads the row under the guard.                   *)
Persisted(c) == row

(* What the command does about the supervision, and stop_task_and_wait:    *)
(* the task leaves the map and is told to stop.                            *)
TakeGuard(c) ==
  LET current == Persisted(c)
      what == CASE cmd[c].kind = "delete" -> "stop"
                [] cmd[c].kind = "clear" -> Cleared(current)
                [] OTHER -> Supervise(current)
      joins == what # "reconcile" /\ entry # 0
  IN /\ cmd[c].pc = "waiting" /\ GuardFree
     /\ cmd' = [cmd EXCEPT ![c] = [@ EXCEPT !.pc = IF joins THEN "joining" ELSE "acting", !.what = what,
                                            !.host = current.conn, !.task = IF joins THEN entry ELSE 0]]
     /\ entry' = IF joins THEN 0 ELSE entry
     /\ task' = IF joins THEN [task EXCEPT ![entry].stop = TRUE] ELSE task
     /\ UNCHANGED <<row, snapshot, status, epoch, forced, limit>>

Join(c) ==
  /\ cmd[c].pc = "joining" /\ task[cmd[c].task].pc = "ended"
  /\ cmd' = [cmd EXCEPT ![c].pc = "acting"]
  /\ UNCHANGED <<row, snapshot, status, epoch, entry, task, forced, limit>>

(* GRACEFUL_STOP_TIMEOUT passes: the task is aborted where it awaits; its  *)
(* forwarder goes on.                                                      *)
Abort(c) ==
  /\ cmd[c].pc = "joining" /\ limit.forces > 0
  /\ task[cmd[c].task].pc \in {"subscribed", "draining", "waiting"}
  /\ SetTask(cmd[c].task, [task[cmd[c].task] EXCEPT !.pc = "ended"])
  /\ forced' = TRUE
  /\ limit' = [limit EXCEPT !.forces = @ - 1]
  /\ UNCHANGED <<row, snapshot, status, epoch, entry, cmd>>

(* start: begin_supervision, Connecting, and the task.                     *)
Start(host) ==
  LET e == epoch + 1 IN
  /\ e \in Epochs
  /\ epoch' = e /\ entry' = e
  /\ status' = MergeStatus(status, "connecting", host, e)
  /\ SetTask(e, [NoTask EXCEPT !.pc = "subscribed", !.host = host])
  /\ UNCHANGED snapshot

Act(c) ==
  /\ cmd[c].pc = "acting"
  /\ CASE cmd[c].what = "start" -> Start(cmd[c].host)
       [] cmd[c].what = "reconcile" -> status' = Retain("offline", 0) /\ UNCHANGED <<snapshot, epoch, entry, task>>
       [] cmd[c].what = "stop" -> PublishRemoved /\ UNCHANGED <<snapshot, entry, task>>
       [] cmd[c].what = "discard" -> PublishRemoved /\ snapshot' = NoHost /\ UNCHANGED <<entry, task>>
       [] cmd[c].what = "clear" -> /\ status' = [NoStatus EXCEPT !.shown = TRUE] /\ snapshot' = NoHost
                                   /\ UNCHANGED <<epoch, entry, task>>
  /\ cmd' = [cmd EXCEPT ![c] = NoCmd]
  /\ UNCHANGED <<row, forced, limit>>

Command == \E c \in Cmds :
  \/ \E kind \in {"clear", "archive", "unarchive", "delete"} : Commit(c, kind, NoHost)
  \/ \E host \in Hosts : Commit(c, "set", host)
  \/ TakeGuard(c) \/ Join(c) \/ Abort(c) \/ Act(c)

(* The app ends and starts: the statuses are hydrated from the snapshots,  *)
(* then restore_persisted_connections supervises every row.                *)
Hydrated == IF snapshot = NoHost THEN NoStatus
            ELSE [NoStatus EXCEPT !.shown = TRUE, !.from = snapshot, !.cached = TRUE]

Restore ==
  LET none == [e \in Epochs |-> NoTask]
      what == IF row.state = "deleted" THEN "none" ELSE Supervise(row)
  IN /\ task' = IF what = "start" THEN [none EXCEPT ![1] = [NoTask EXCEPT !.pc = "subscribed", !.host = row.conn]]
                ELSE none
     /\ entry' = IF what = "start" THEN 1 ELSE 0
     /\ epoch' = IF what \in {"start", "stop"} THEN 1 ELSE 0
     /\ status' = CASE what = "start" -> MergeStatus(Hydrated, "connecting", row.conn, 1)
                    [] what = "reconcile" -> [Hydrated EXCEPT !.shown = TRUE]
                    [] what = "stop" -> NoStatus
                    [] what = "none" -> Hydrated

Restart ==
  /\ limit.restarts > 0
  /\ limit' = [limit EXCEPT !.restarts = @ - 1]
  /\ cmd' = [c \in Cmds |-> NoCmd] /\ forced' = FALSE
  /\ Restore
  /\ UNCHANGED <<row, snapshot>>

SupervisorInit ==
  /\ row = [state |-> "active", conn |-> NoHost]
  /\ snapshot = NoHost /\ status = [NoStatus EXCEPT !.shown = TRUE]
  /\ epoch = 0 /\ entry = 0 /\ task = [e \in Epochs |-> NoTask]
  /\ cmd = [c \in Cmds |-> NoCmd] /\ forced = FALSE /\ limit \in Limits

SupervisorNext == TaskStep \/ Command \/ Expire \/ Restart
SupervisorSpec == SupervisorInit /\ [][SupervisorNext]_supervision
---------------------------------------------------------------------------
(* Properties                                                              *)

Settled == \A c \in Cmds : cmd[c].pc = "idle"
Running(e) == task[e].pc \notin {"none", "ended"}

\* Once every command is done, an active Printer with a Connection is observed by one task, at
\* that Connection, and any other Printer by none, whatever order the commands committed and
\* took the guard in.
ObservedAsStored == Settled =>
  IF row.state = "active" /\ row.conn # NoHost
  THEN entry # 0 /\ {e \in Epochs : Running(e)} = {entry} /\ task[entry].host = row.conn
  ELSE entry = 0 /\ \A e \in Epochs : ~Running(e)

\* Once every command is done, what is shown of a Printer comes from the supervision it has
\* now, and nothing is shown of one that is archived or deleted; only after a forced stop may
\* a Printer whose Connection was cleared be shown by the forwarder that was left.
ShownIsCurrent == Settled /\ (row.state # "active" \/ row.conn # NoHost \/ ~forced) =>
  /\ status.shown <=> row.state = "active"
  /\ row.state = "active" => status.by = entry

\* The supervision, and what is shown, follow the Printer's row.
FollowsRow == ObservedAsStored /\ ShownIsCurrent

\* A reading that is shown live and fresh was taken from the host the Printer is on.
FreshIsOurs == Settled /\ status.state = "online" /\ status.fresh /\ status.from # NoHost => status.from = row.conn
=============================================================================

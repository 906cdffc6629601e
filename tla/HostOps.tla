------------------------------ MODULE HostOps ------------------------------
(***************************************************************************)
(* Host Operations (src/src-tauri/src/host_ops): the writes farm3d sends   *)
(* to a printer host (upload, start, pause, resume, cancel).  Every write  *)
(* is a durable row.  The row is committed `dispatching` before anything   *)
(* is sent, `dispatched_at` is committed immediately before the send, the  *)
(* executor commits the answer, and an answer that proves nothing leaves   *)
(* the row `uncertain` for the reconciler, which only ever reads the host. *)
(*                                                                         *)
(* One variable per store or task: the `host_operations` table (row), the  *)
(* executor tasks (exec, outcome), the write command and the reconcile     *)
(* attempt that hold a Printer's lock across their network reads (cmd,     *)
(* att), the tasks waiting for that lock (queued), the retry timers, the   *)
(* Online hook, the `printers` rows with their live status, and the world  *)
(* outside: the network (net) and the hosts.                               *)
(***************************************************************************)
EXTENDS Naturals

CONSTANTS
  Printers,     \* Printer ids
  Ops,          \* operation ids; a Host Operation row is named by the id that made it
  Endpoints,    \* host endpoints (kind, host, port)
  None,         \* no operation, no Connection
  MaxJobs,      \* bound on prints a host's history records
  Budgets       \* bounds: the kinds of write asked for, and how often other people act at
                \* the hosts, Printers are edited or go offline, the app crashes, a storage
                \* write fails or an executor panics; each behaviour draws one

AllKinds == {"upload", "start", "pause", "resume", "cancel"}
Control == {"pause", "resume", "cancel"}
Bounded == AllKinds \cup {"outside", "edits", "flaps", "crashes", "faults", "panics"}

ASSUME NoneAssumption == None \notin Ops /\ None \notin Endpoints
ASSUME BoundsAssumption == MaxJobs \in Nat /\ Budgets \subseteq [Bounded -> Nat]

VARIABLES
  up,       \* whether the process runs
  row,      \* the `host_operations` table
  exec,     \* the executor task of each operation
  outcome,  \* the outcome an executor has classified and not committed yet
  cmd,      \* per Printer, the write command holding its lock
  att,      \* per Printer, the reconcile attempt holding its lock
  queued,   \* attempts waiting for their Printer's lock
  timer,    \* per Printer, whether a current-generation retry timer is pending
  hook,     \* per Printer, whether an Online hook task is pending
  printer,  \* the `printers` rows and their live status
  net,      \* what became of the one write each operation may send
  sends,    \* history: how often each operation was sent
  host,     \* the hosts
  settled,  \* whether an upload's settle deadline has passed
  shown,    \* history: the host showed an operation's effect after it was marked sent
  budget    \* what is left of the bounds

durable == <<row, printer>>
tasks == <<exec, outcome, cmd, att, queued, timer, hook>>
world == <<net, sends, host, settled, shown>>
vars == <<up, durable, tasks, world, budget>>

(***************************************************************************)
(* Values.                                                                 *)
(***************************************************************************)
Unresolved == {"dispatching", "uncertain", "reconciling"}
Terminal == {"succeeded", "failed", "abandoned"}
RowState == {"absent", "deleted"} \cup Unresolved \cup Terminal
Paths == {"ours", "other"}

\* tried: attempts >= 1.  sent: dispatched_at is set.  mark: history_mark.
Row == [state: RowState, printer: Printers, kind: AllKinds, sent: BOOLEAN,
        tried: BOOLEAN, endpoint: Endpoints \cup {None},
        mark: 0..MaxJobs, path: Paths]

ExecPc == {"none", "ready", "marked", "sending", "verifying", "commit", "done"}
Outcomes == {"none", "succeeded", "failed", "uncertain"}
Decisions == {"none", "applied", "notApplied", "inconclusive"}

IdleCmd == [op |-> None, kind |-> "upload", conn |-> None, mark |-> 0, path |-> "ours"]
Cmd == [op: Ops \cup {None}, kind: AllKinds, conn: Endpoints \cup {None},
        mark: 0..MaxJobs, path: Paths]

IdleAtt == [op |-> None, decision |-> "none"]
Att == [op: Ops \cup {None}, decision: Decisions]

\* supported: the capabilities the Printer's adapter and cached host facts give.
Printer == [life: {"active", "archived", "deleted"}, conn: Endpoints \cup {None},
            online: BOOLEAN, supported: BOOLEAN]

\* jobs: the newest history id; ours: the newest history id for the staged file.
Host == [disk: {"absent", "same", "different"},
         print: {"standby", "printing", "paused", "complete", "cancelled"},
         file: Paths, jobs: 0..MaxJobs, ours: 0..MaxJobs]

NetState == {"none", "flying", "applied", "refused", "lost"}

(***************************************************************************)
(* Helpers.                                                                *)
(***************************************************************************)
\* The Printer's lock (services.rs printer_lock) is free.
LockFree(p) == cmd[p].op = None /\ att[p].op = None

\* Mutant: an uncertain row no longer counts as unresolved.
UncertainIsResolved(p) ==
  \E o \in Ops : row[o].state \in {"dispatching", "reconciling"} /\ row[o].printer = p

HasUnresolved(p) == \E o \in Ops : row[o].state \in Unresolved /\ row[o].printer = p

Busy(e) == host[e].print \in {"printing", "paused"}
Running(e) == Busy(e) /\ host[e].file = "ours"

\* start_rule.rs / api.rs host_allows_start
HostAllowsStart(e) == host[e].print \in {"standby", "complete", "cancelled"}

\* start_rule.rs ControlVerb::allows
VerbAllows(k, print) ==
  \/ k = "pause" /\ print = "printing"
  \/ k = "resume" /\ print = "paused"
  \/ k = "cancel" /\ print \in {"printing", "paused"}

\* reconciler.rs observe_control: the print state that proves a control applied.
Proves(k, print) ==
  \/ k = "pause" /\ print = "paused"
  \/ k = "resume" /\ print \in {"printing", "complete"}
  \/ k = "cancel" /\ print = "cancelled"

\* What host state h shows of the effect of row r: the file on its disk, the file
\* printing or paused, the control's effect on the file the row names.
Shows(r, h) ==
  \/ r.kind = "upload" /\ h.disk = "same"
  \/ r.kind = "start" /\ h.print \in {"printing", "paused"} /\ h.file = r.path
  \/ r.kind \in Control /\ Proves(r.kind, h.print) /\ h.file = r.path

\* state.rs transition
Edge(from, to) == <<from, to>> \in
  {<<"dispatching", "succeeded">>, <<"dispatching", "failed">>,
   <<"dispatching", "uncertain">>, <<"uncertain", "reconciling">>,
   <<"uncertain", "abandoned">>, <<"reconciling", "succeeded">>,
   <<"reconciling", "failed">>, <<"reconciling", "uncertain">>}

SetState(o, s) == row' = [row EXCEPT ![o].state = s]

\* Mutant: nothing is scheduled.
NoRetry(p) == UNCHANGED timer

\* services.rs schedule_retry: a timer for an uncertain row, while Online.
ScheduleRetry(p) == timer' = [timer EXCEPT ![p] = @ \/ printer[p].online]

(***************************************************************************)
(* Initial state: a running app, no operation yet; what a host's disk and  *)
(* history hold is whatever earlier prints left there.                     *)
(***************************************************************************)
NoRow(p) == [state |-> "absent", printer |-> p, kind |-> "upload", sent |-> FALSE,
             tried |-> FALSE, endpoint |-> None, mark |-> 0, path |-> "ours"]

Init ==
  /\ up = TRUE
  /\ \E p \in Printers : row = [o \in Ops |-> NoRow(p)]
  /\ exec = [o \in Ops |-> "none"]
  /\ outcome = [o \in Ops |-> "none"]
  /\ cmd = [p \in Printers |-> IdleCmd]
  /\ att = [p \in Printers |-> IdleAtt]
  /\ queued = [o \in Ops |-> FALSE]
  /\ timer = [p \in Printers |-> FALSE]
  /\ hook = [p \in Printers |-> FALSE]
  /\ printer \in [Printers -> {q \in Printer : q.life = "active" /\ ~q.online /\ ~q.supported}]
  /\ \A p, q \in Printers : p # q /\ printer[p].conn # None => printer[p].conn # printer[q].conn
  /\ net = [o \in Ops |-> "none"]
  /\ sends = [o \in Ops |-> 0]
  /\ host \in [Endpoints -> {h \in Host :
       /\ h.jobs \in 0..1 /\ h.ours \in {0, h.jobs}
       /\ h.print = IF h.jobs = 0 THEN "standby" ELSE "complete"
       /\ h.file = IF h.jobs > h.ours THEN "other" ELSE "ours"}]
  /\ settled = [o \in Ops |-> FALSE]
  /\ shown = [o \in Ops |-> FALSE]
  /\ budget \in Budgets

Spend(what) == /\ budget[what] > 0
               /\ budget' = [budget EXCEPT ![what] = @ - 1]

(***************************************************************************)
(* Write commands (api.rs).  The replay check, the Printer checks and the  *)
(* host reads run under the Printer's lock; the write-ahead transaction    *)
(* re-checks them, because Connection and lifecycle edits do not take it.  *)
(***************************************************************************)
\* api.rs writable_printer
Writable(p) ==
  /\ printer[p].life = "active"
  /\ printer[p].supported
  /\ printer[p].conn # None
  /\ ~HasUnresolved(p)

\* api.rs stage, start, control: what each kind asks of the Printer and its host.
MayWrite(p, k) ==
  LET e == printer[p].conn IN
  /\ printer[p].online
  /\ \/ k = "upload"
     \/ /\ k = "start"
        /\ \E u \in Ops : /\ row[u].kind = "upload" /\ row[u].state = "succeeded"
                          /\ row[u].printer = p
        /\ HostAllowsStart(e)
        /\ host[e].disk = "same"
     \/ k \in Control /\ VerbAllows(k, host[e].print)

CheckWrite(p, o, k) ==
  /\ up /\ LockFree(p) /\ budget[k] > 0
  /\ row[o].state = "absent"
  /\ Writable(p) /\ MayWrite(p, k)
  /\ cmd' = [cmd EXCEPT ![p] =
       [op |-> o, kind |-> k, conn |-> printer[p].conn,
        mark |-> IF k = "start" THEN host[printer[p].conn].jobs ELSE 0,
        path |-> IF k \in Control THEN host[printer[p].conn].file ELSE "ours"]]
  /\ UNCHANGED <<up, durable, exec, outcome, att, queued, timer, hook, world, budget>>

\* The transaction's own conditions: the Printer is there and not archived, its
\* Connection is the one the checks used, it has no unresolved row, and the
\* operation id is fresh in the ledger.
\* Mutant: the transaction trusts the Connection the checks read before it.
StaleConnection(p) ==
  /\ printer[p].life = "active"
  /\ ~HasUnresolved(p)
  /\ row[cmd[p].op].state = "absent"

WriteAheadAllowed(p) ==
  /\ printer[p].life = "active"
  /\ printer[p].conn = cmd[p].conn
  /\ ~HasUnresolved(p)
  /\ row[cmd[p].op].state = "absent"

WriteAhead(p) ==
  LET c == cmd[p] IN
  /\ up /\ c.op # None
  /\ IF WriteAheadAllowed(p)
       THEN /\ row' = [row EXCEPT ![c.op] =
                 [state |-> "dispatching", printer |-> p, kind |-> c.kind, sent |-> FALSE,
                  tried |-> FALSE, endpoint |-> c.conn, mark |-> c.mark, path |-> c.path]]
            /\ exec' = [exec EXCEPT ![c.op] = "ready"]
       ELSE UNCHANGED <<row, exec>>
  /\ cmd' = [cmd EXCEPT ![p] = IdleCmd]
  /\ UNCHANGED <<up, printer, outcome, att, queued, timer, hook, world, budget>>

\* A pre-check's host read fails: no row is written.
CommandFails(p) ==
  /\ up /\ cmd[p].op # None
  /\ cmd' = [cmd EXCEPT ![p] = IdleCmd]
  /\ UNCHANGED <<up, durable, exec, outcome, att, queued, timer, hook, world, budget>>

(***************************************************************************)
(* The executor (executor.rs), one task per row, holding no lock until it  *)
(* commits.                                                                *)
(***************************************************************************)
ExecTo(o, pc, out) ==
  /\ exec' = [exec EXCEPT ![o] = pc]
  /\ outcome' = [outcome EXCEPT ![o] = out]
  /\ UNCHANGED <<up, cmd, att, queued, timer, hook>>

\* prepare: no adapter, credential or verified blob; nothing was sent.
PrepareFails(o) ==
  /\ up /\ exec[o] = "ready"
  /\ ExecTo(o, "commit", "failed")
  /\ UNCHANGED <<durable, world, budget>>

\* mark_sent commits dispatched_at; without that commit nothing is sent.
MarkSent(o) ==
  /\ up /\ exec[o] = "ready"
  /\ row[o].state = "dispatching" /\ ~row[o].sent
  /\ row' = [row EXCEPT ![o].sent = TRUE]
  /\ ExecTo(o, "marked", "none")
  /\ shown' = [shown EXCEPT ![o] = Shows(row[o], host[row[o].endpoint])]
  /\ UNCHANGED <<printer, net, sends, host, settled, budget>>

\* Mutant: the error of the dispatched_at commit is ignored.
SendsUnmarked(o) ==
  /\ up /\ exec[o] = "ready"
  /\ Spend("faults")
  /\ ExecTo(o, "marked", "none")
  /\ UNCHANGED <<durable, world>>

MarkSentFails(o) ==
  /\ up /\ exec[o] = "ready"
  /\ Spend("faults")
  /\ ExecTo(o, "commit", "failed")
  /\ UNCHANGED <<durable, world>>

Send(o) ==
  /\ up /\ exec[o] = "marked"
  /\ ExecTo(o, "sending", "none")
  /\ net' = [net EXCEPT ![o] = "flying"]
  /\ sends' = [sends EXCEPT ![o] = @ + 1]
  /\ UNCHANGED <<durable, host, settled, shown, budget>>

\* files.rs classify_write_response, classify_write_transport_failure: what a
\* write that ended up `n` may be answered.  An answer can always be lost.
Answers(n) == {"indeterminate"} \cup (CASE n = "applied" -> {"ok"}
                                        [] n = "refused" -> {"definitive"}
                                        [] OTHER -> {})

\* Mutant: any accepted write is a success.
AcceptedIsDone(o) ==
  /\ up /\ exec[o] = "sending"
  /\ \E a \in Answers(net[o]) :
       \/ a = "definitive" /\ ExecTo(o, "commit", "failed")
       \/ a = "indeterminate" /\ ExecTo(o, "commit", "uncertain")
       \/ a = "ok" /\ ExecTo(o, "commit", "succeeded")
  /\ UNCHANGED <<durable, world, budget>>

\* executor.rs classify: an accepted start is a success; an accepted upload or
\* control proves nothing until the host is read (Verify).
Answered(o) ==
  /\ up /\ exec[o] = "sending"
  /\ \E a \in Answers(net[o]) :
       \/ a = "definitive" /\ ExecTo(o, "commit", "failed")
       \/ a = "indeterminate" /\ ExecTo(o, "commit", "uncertain")
       \/ a = "ok" /\ row[o].kind = "start" /\ ExecTo(o, "commit", "succeeded")
       \/ a = "ok" /\ row[o].kind # "start" /\ ExecTo(o, "verifying", "none")
  /\ UNCHANGED <<durable, world, budget>>

\* Mutant: a history job at the mark, an earlier print of the file, counts.
AtTheMark(o) ==
  LET r == row[o]  h == host[r.endpoint] IN
  Shows(r, h) \/ (r.kind = "start" /\ h.ours >= r.mark)

\* locate, decide_start and observe_control: the host shows the operation's
\* effect, or its history has a job for the started file above the mark.
Observed(o) ==
  LET r == row[o]  h == host[r.endpoint] IN
  Shows(r, h) \/ (r.kind = "start" /\ h.ours > r.mark)

\* locate after an upload's 201, or the control's verification window.
Verify(o) ==
  /\ up /\ exec[o] = "verifying"
  /\ \/ Observed(o) /\ ExecTo(o, "commit", "succeeded")
     \/ ExecTo(o, "commit", "uncertain")
  /\ UNCHANGED <<durable, world, budget>>

\* Mutant: a panic fails the operation whatever was sent.
PanicFails(o) == "failed"

\* after_panic: what may have been sent is uncertain, what was not is failed.
PanicOutcome(o) == IF row[o].sent THEN "uncertain" ELSE "failed"

\* Mutant: the task just ends.
PanicStops(o) ==
  /\ up /\ exec[o] \in {"ready", "marked", "sending", "verifying"}
  /\ Spend("panics")
  /\ exec' = [exec EXCEPT ![o] = "done"]
  /\ UNCHANGED <<up, durable, outcome, cmd, att, queued, timer, hook, world>>

Panic(o) ==
  /\ up /\ exec[o] \in {"ready", "marked", "sending", "verifying"}
  /\ Spend("panics")
  /\ ExecTo(o, "commit", PanicOutcome(o))
  /\ UNCHANGED <<durable, world>>

\* services.rs commit_outcome, under the Printer's lock.
CommitOutcome(o) ==
  /\ up /\ exec[o] = "commit" /\ LockFree(row[o].printer)
  /\ Edge(row[o].state, outcome[o])
  /\ SetState(o, outcome[o])
  /\ exec' = [exec EXCEPT ![o] = "done"]
  /\ IF outcome[o] = "uncertain" THEN ScheduleRetry(row[o].printer) ELSE UNCHANGED timer
  /\ UNCHANGED <<up, printer, outcome, cmd, att, queued, hook, world, budget>>

\* The commit fails: the row stays `dispatching` for startup recovery.
CommitOutcomeFails(o) ==
  /\ up /\ exec[o] = "commit" /\ LockFree(row[o].printer)
  /\ Spend("faults")
  /\ exec' = [exec EXCEPT ![o] = "done"]
  /\ UNCHANGED <<up, durable, outcome, cmd, att, queued, timer, hook, world>>

(***************************************************************************)
(* The reconciler (reconciler.rs): an attempt holds the Printer's lock     *)
(* from its first commit, across its host reads, to its last.              *)
(***************************************************************************)
\* attempt, up to its first commit: a row that is not uncertain, or one whose
\* capability is unsupported, ends the attempt with nothing written.
BeginAttempt(o) ==
  LET p == row[o].printer IN
  /\ up /\ queued[o] /\ LockFree(p)
  /\ queued' = [queued EXCEPT ![o] = FALSE]
  /\ IF row[o].state = "uncertain" /\ printer[p].supported
       THEN /\ SetState(o, "reconciling")
            /\ att' = [att EXCEPT ![p] = [op |-> o, decision |-> "none"]]
       ELSE UNCHANGED <<row, att>>
  /\ UNCHANGED <<up, printer, exec, outcome, cmd, timer, hook, world, budget>>

BeginAttemptFails(o) ==
  /\ up /\ queued[o] /\ LockFree(row[o].printer)
  /\ row[o].state = "uncertain" /\ printer[row[o].printer].supported
  /\ Spend("faults")
  /\ queued' = [queued EXCEPT ![o] = FALSE]
  /\ UNCHANGED <<up, durable, exec, outcome, cmd, att, timer, hook, world>>

\* Mutants: an absence proves itself before the settle deadline, or for every kind.
UnsettledAbsence(o, d) ==
  \/ d = "inconclusive"
  \/ d = "applied" /\ Observed(o)
  \/ d = "notApplied" /\ row[o].kind = "upload" /\ ~Observed(o)
AbsenceProves(o, d) ==
  \/ d = "inconclusive"
  \/ d = "applied" /\ Observed(o)
  \/ d = "notApplied" /\ ~Observed(o)

\* decide_upload, decide_start, observe_control.  Only an upload is ever proved
\* not applied, and only once its settle deadline has passed.
MayDecide(o, d) ==
  \/ d = "inconclusive"      \* unreachable, not ready, or the adapter panicked
  \/ d = "applied" /\ Observed(o)
  \/ d = "notApplied" /\ row[o].kind = "upload" /\ settled[o] /\ ~Observed(o)

Decide(p) ==
  LET o == att[p].op IN
  /\ up /\ o # None /\ att[p].decision = "none"
  /\ \E d \in Decisions \ {"none"} :
       /\ MayDecide(o, d)
       /\ att' = [att EXCEPT ![p].decision = d]
  /\ UNCHANGED <<up, durable, exec, outcome, cmd, queued, timer, hook, world, budget>>

\* transition / record_attempt, then schedule_retry.
AttemptTarget(d) == CASE d = "applied" -> "succeeded"
                      [] d = "notApplied" -> "failed"
                      [] OTHER -> "uncertain"

EndAttempt(p) ==
  LET o == att[p].op
      target == AttemptTarget(att[p].decision) IN
  /\ up /\ o # None /\ att[p].decision # "none"
  /\ Edge(row[o].state, target)
  /\ row' = [row EXCEPT ![o].state = target, ![o].tried = @ \/ target = "uncertain"]
  /\ att' = [att EXCEPT ![p] = IdleAtt]
  /\ IF target = "uncertain" THEN ScheduleRetry(p) ELSE UNCHANGED timer
  /\ UNCHANGED <<up, printer, exec, outcome, cmd, queued, hook, world, budget>>

\* The last commit fails: the row stays `reconciling` for startup recovery.
EndAttemptFails(p) ==
  /\ up /\ att[p].op # None /\ att[p].decision # "none"
  /\ Spend("faults")
  /\ att' = [att EXCEPT ![p] = IdleAtt]
  /\ UNCHANGED <<up, durable, exec, outcome, cmd, queued, timer, hook, world>>

(***************************************************************************)
(* What starts an attempt (services.rs, commands.rs): a retry timer, the   *)
(* Online hook, "Check again", and the startup pass (Restart).             *)
(***************************************************************************)
Uncertain(p) == {o \in Ops : row[o].state = "uncertain" /\ row[o].printer = p}

QueueUncertain(p) == queued' = [o \in Ops |-> queued[o] \/ o \in Uncertain(p)]

\* A timer of the current generation; it does nothing while not Online.  Only
\* scheduling for the row that is uncertain now leaves the generation current.
TimerFires(p) ==
  /\ up /\ timer[p]
  /\ timer' = [timer EXCEPT ![p] = FALSE]
  /\ IF printer[p].online THEN QueueUncertain(p) ELSE UNCHANGED queued
  /\ UNCHANGED <<up, durable, exec, outcome, cmd, att, hook, world, budget>>

\* Mutant: the Online hook cancels the timers and attempts nothing.
HookOnlyCancels(p) ==
  /\ up /\ hook[p]
  /\ hook' = [hook EXCEPT ![p] = FALSE]
  /\ \E s \in BOOLEAN : printer' = [printer EXCEPT ![p].supported = s /\ printer[p].conn # None]
  /\ timer' = [timer EXCEPT ![p] = FALSE]
  /\ UNCHANGED <<up, row, queued, exec, outcome, cmd, att, world, budget>>

\* on_online: refresh the host facts, cancel the timers, one attempt per
\* uncertain row.
OnOnline(p) ==
  /\ up /\ hook[p]
  /\ hook' = [hook EXCEPT ![p] = FALSE]
  /\ \E s \in BOOLEAN : printer' = [printer EXCEPT ![p].supported = s /\ printer[p].conn # None]
  /\ timer' = [timer EXCEPT ![p] = FALSE]
  /\ QueueUncertain(p)
  /\ UNCHANGED <<up, row, exec, outcome, cmd, att, world, budget>>

\* reconcile_host_operation
CheckAgain(o) ==
  /\ up /\ row[o].state = "uncertain"
  /\ timer' = [timer EXCEPT ![row[o].printer] = FALSE]
  /\ queued' = [queued EXCEPT ![o] = TRUE]
  /\ UNCHANGED <<up, durable, exec, outcome, cmd, att, hook, world, budget>>

\* abandon_host_operation, under the Printer's lock.
Abandon(o) ==
  LET p == row[o].printer IN
  /\ up /\ LockFree(p)
  /\ row[o].state = "uncertain"
  /\ row[o].tried \/ ~printer[p].supported
  /\ SetState(o, "abandoned")
  /\ timer' = [timer EXCEPT ![p] = FALSE]
  /\ UNCHANGED <<up, printer, exec, outcome, cmd, att, queued, hook, world, budget>>

(***************************************************************************)
(* Printer edits that take no lock (printers/repository.rs), with the      *)
(* guards of host_ops/guards.rs inside their transactions.                 *)
(***************************************************************************)
\* connection_change_orphans / check_connection_change
ConnectionChangeAllowed(p, new) == new # printer[p].conn => ~HasUnresolved(p)

SetConnection(p, new) ==
  /\ up /\ printer[p].life # "deleted" /\ Spend("edits")
  /\ new # printer[p].conn
  /\ ConnectionChangeAllowed(p, new)
  /\ \A q \in Printers \ {p} : new # None => printer[q].conn # new \/ printer[q].life = "deleted"
  /\ \E s \in BOOLEAN : printer' = [printer EXCEPT ![p].conn = new, ![p].online = FALSE,
                                                 ![p].supported = s /\ new # None]
  /\ UNCHANGED <<up, row, tasks, world>>

Archive(p) ==
  /\ up /\ printer[p].life = "active" /\ Spend("edits")
  /\ ~HasUnresolved(p)
  /\ printer' = [printer EXCEPT ![p].life = "archived"]
  /\ UNCHANGED <<up, row, tasks, world>>

Unarchive(p) ==
  /\ up /\ printer[p].life = "archived" /\ Spend("edits")
  /\ printer' = [printer EXCEPT ![p].life = "active"]
  /\ UNCHANGED <<up, row, tasks, world>>

\* Deleting an archived Printer deletes its terminal rows with it.
DeletePrinter(p) ==
  /\ up /\ printer[p].life = "archived" /\ Spend("edits")
  /\ ~HasUnresolved(p)
  /\ printer' = [printer EXCEPT ![p].life = "deleted", ![p].online = FALSE]
  /\ row' = [o \in Ops |-> IF row[o].printer = p /\ row[o].state \in Terminal
                             THEN [row[o] EXCEPT !.state = "deleted"] ELSE row[o]]
  /\ UNCHANGED <<up, tasks, world>>

(***************************************************************************)
(* The supervisor's status edges (connections/supervisor.rs).              *)
(***************************************************************************)
GoOnline(p) ==
  /\ up /\ printer[p].life # "deleted" /\ printer[p].conn # None /\ ~printer[p].online
  /\ printer' = [printer EXCEPT ![p].online = TRUE]
  /\ hook' = [hook EXCEPT ![p] = TRUE]
  /\ UNCHANGED <<up, row, exec, outcome, cmd, att, queued, timer, world, budget>>

GoOffline(p) ==
  /\ up /\ printer[p].online /\ Spend("flaps")
  /\ printer' = [printer EXCEPT ![p].online = FALSE]
  /\ UNCHANGED <<up, row, tasks, world>>

(***************************************************************************)
(* Crash and restart.  A restart runs recover_after_restart before any     *)
(* command is served, then the startup pass attempts every uncertain row.  *)
(***************************************************************************)
Crash ==
  /\ up /\ Spend("crashes")
  /\ up' = FALSE
  /\ exec' = [o \in Ops |-> "none"]
  /\ outcome' = [o \in Ops |-> "none"]
  /\ cmd' = [p \in Printers |-> IdleCmd]
  /\ att' = [p \in Printers |-> IdleAtt]
  /\ queued' = [o \in Ops |-> FALSE]
  /\ timer' = [p \in Printers |-> FALSE]
  /\ hook' = [p \in Printers |-> FALSE]
  /\ printer' = [p \in Printers |-> [printer[p] EXCEPT !.online = FALSE, !.supported = FALSE]]
  /\ UNCHANGED <<row, world>>

\* Mutant: recovery forgets what was sent.
ForgetsSent(r) ==
  CASE r.state = "dispatching" /\ ~r.sent -> [r EXCEPT !.state = "failed"]
    [] r.state = "reconciling" -> [r EXCEPT !.state = "uncertain"]
    [] OTHER -> r

\* repository.rs recover_after_restart
Recovered(r) ==
  CASE r.state = "dispatching" /\ ~r.sent -> [r EXCEPT !.state = "failed"]
    [] r.state = "dispatching" /\ r.sent -> [r EXCEPT !.state = "uncertain"]
    [] r.state = "reconciling" -> [r EXCEPT !.state = "uncertain"]
    [] OTHER -> r

Restart ==
  /\ ~up
  /\ up' = TRUE
  /\ row' = [o \in Ops |-> Recovered(row[o])]
  /\ queued' = [o \in Ops |-> row'[o].state = "uncertain"]
  /\ \E S \in SUBSET {p \in Printers : printer[p].conn # None} :
       printer' = [p \in Printers |-> [printer[p] EXCEPT !.supported = p \in S]]
  /\ UNCHANGED <<exec, outcome, cmd, att, timer, hook, world, budget>>

(***************************************************************************)
(* The world outside: the network, the hosts, and the people at them.      *)
(***************************************************************************)
\* The host at e becomes h.
HostBecomes(e, h) ==
  /\ host' = [host EXCEPT ![e] = h]
  /\ shown' = [o \in Ops |-> shown[o] \/ (/\ row[o].sent /\ row[o].endpoint = e
                                          /\ Shows(row[o], h))]

\* A host starts printing a file: a new history job.
StartPrint(h, path) ==
  [disk |-> h.disk, print |-> "printing", file |-> path, jobs |-> h.jobs + 1,
   ours |-> IF path = "ours" THEN h.jobs + 1 ELSE h.ours]

\* What a write does to its host.  A control on a print it does not fit is
\* accepted and does nothing.
Effect(k, h) ==
  CASE k = "upload" -> [h EXCEPT !.disk = "same"]
    [] k = "start" -> StartPrint(h, "ours")
    [] k = "pause" /\ h.print = "printing" -> [h EXCEPT !.print = "paused"]
    [] k = "resume" /\ h.print = "paused" -> [h EXCEPT !.print = "printing"]
    [] k = "cancel" /\ h.print \in {"printing", "paused"} -> [h EXCEPT !.print = "cancelled"]
    [] OTHER -> h

\* The host refuses to replace a loaded file, to start a missing file, and to
\* start over a running print (but not over a paused one).
HostAccepts(k, e) ==
  CASE k = "upload" -> ~Running(e)
    [] k = "start" -> host[e].disk # "absent" /\ host[e].print # "printing"
                      /\ host[e].jobs < MaxJobs
    [] OTHER -> TRUE

Land(o) ==
  LET r == row[o] IN
  /\ net[o] = "flying"
  /\ HostAccepts(r.kind, r.endpoint)
  /\ net' = [net EXCEPT ![o] = "applied"]
  /\ HostBecomes(r.endpoint, Effect(r.kind, host[r.endpoint]))
  /\ UNCHANGED <<up, durable, tasks, sends, settled, budget>>

Drop(o) ==
  /\ net[o] = "flying"
  /\ \E n \in {"refused", "lost"} : net' = [net EXCEPT ![o] = n]
  /\ UNCHANGED <<up, durable, tasks, sends, host, settled, shown, budget>>

\* reconciler.rs settle_deadline.  SETTLE_PERIOD's premise: a write the host has
\* not applied by then is one it never will.
SettlePasses(o) ==
  /\ ~settled[o] /\ row[o].kind = "upload"
  /\ row[o].state \in {"uncertain", "reconciling"}
  /\ net[o] # "flying"
  /\ settled' = [settled EXCEPT ![o] = TRUE]
  /\ UNCHANGED <<up, durable, tasks, net, sends, host, shown, budget>>

\* Prints end by themselves.
PrintEnds(e) ==
  /\ host[e].print = "printing"
  /\ HostBecomes(e, [host[e] EXCEPT !.print = "complete"])
  /\ UNCHANGED <<up, durable, tasks, net, sends, settled, budget>>

\* Someone at the host starts, pauses, resumes or cancels a print, clears the
\* bed, or changes or deletes the staged file.
OutsideChanges(h) ==
  {StartPrint(h, f) : f \in {f \in Paths : h.print \notin {"printing", "paused"} /\ h.jobs < MaxJobs
                                           /\ (f = "ours" => h.disk # "absent")}}
  \cup {Effect(k, h) : k \in Control}
  \cup {[h EXCEPT !.print = "standby"] : x \in {h.print} \cap {"complete", "cancelled"}}
  \cup {[h EXCEPT !.disk = d] : d \in {"absent", "different"}}

Outside(e) ==
  /\ Spend("outside")
  /\ \E h \in OutsideChanges(host[e]) \ {host[e]} : HostBecomes(e, h)
  /\ UNCHANGED <<up, durable, tasks, net, sends, settled>>

(***************************************************************************)
(* The specification.                                                      *)
(***************************************************************************)
ExecutorStep(o) ==
  \/ PrepareFails(o) \/ MarkSent(o) \/ MarkSentFails(o) \/ Send(o) \/ Answered(o)
  \/ Verify(o) \/ Panic(o) \/ CommitOutcome(o) \/ CommitOutcomeFails(o)

ReconcilerStep ==
  \/ \E o \in Ops : \/ BeginAttempt(o) \/ BeginAttemptFails(o)
                    \/ CheckAgain(o) \/ Abandon(o)
  \/ \E p \in Printers : \/ Decide(p) \/ EndAttempt(p) \/ EndAttemptFails(p)
                         \/ TimerFires(p) \/ OnOnline(p)

CommandStep(p) ==
  \/ \E o \in Ops, k \in AllKinds : CheckWrite(p, o, k)
  \/ WriteAhead(p) \/ CommandFails(p)

PrinterStep(p) ==
  \/ \E c \in Endpoints \cup {None} : SetConnection(p, c)
  \/ Archive(p) \/ Unarchive(p) \/ DeletePrinter(p)
  \/ GoOnline(p) \/ GoOffline(p)

WorldStep ==
  \/ \E o \in Ops : Land(o) \/ Drop(o) \/ SettlePasses(o)
  \/ \E e \in Endpoints : PrintEnds(e) \/ Outside(e)

Next ==
  \/ \E o \in Ops : ExecutorStep(o)
  \/ \E p \in Printers : CommandStep(p) \/ PrinterStep(p)
  \/ ReconcilerStep
  \/ WorldStep
  \/ Crash \/ Restart

Spec == Init /\ [][Next]_vars

\* Tasks that run, run on: the runtime polls every spawned task, every host
\* request ends in an answer or its timeout, and a lock waiter gets its turn
\* (tokio's Mutex is fair).  A crashed app is started again.
Fairness ==
  /\ \A o \in Ops : /\ WF_vars(MarkSent(o) \/ PrepareFails(o)) /\ WF_vars(Send(o))
                    /\ WF_vars(Answered(o)) /\ WF_vars(Verify(o))
                    /\ SF_vars(CommitOutcome(o)) /\ SF_vars(BeginAttempt(o))
  /\ \A p \in Printers : /\ WF_vars(WriteAhead(p) \/ CommandFails(p))
                         /\ WF_vars(Decide(p)) /\ WF_vars(EndAttempt(p))
                         /\ WF_vars(TimerFires(p)) /\ WF_vars(OnOnline(p))
  /\ WF_vars(Restart)

FairSpec == Spec /\ Fairness

(***************************************************************************)
(* Properties.                                                             *)
(***************************************************************************)
\* The type invariant of every variable.
TypeOK ==
  /\ up \in BOOLEAN
  /\ row \in [Ops -> Row]
  /\ exec \in [Ops -> ExecPc]
  /\ outcome \in [Ops -> Outcomes]
  /\ cmd \in [Printers -> Cmd]
  /\ att \in [Printers -> Att]
  /\ queued \in [Ops -> BOOLEAN]
  /\ timer \in [Printers -> BOOLEAN]
  /\ hook \in [Printers -> BOOLEAN]
  /\ printer \in [Printers -> Printer]
  /\ net \in [Ops -> NetState]
  /\ sends \in [Ops -> Nat]
  /\ host \in [Endpoints -> Host]
  /\ settled \in [Ops -> BOOLEAN]
  /\ shown \in [Ops -> BOOLEAN]
  /\ budget \in [Bounded -> Nat]

\* A Printer has at most one unresolved Host Operation: a second write never
\* starts while an earlier one may still take effect (0007's partial unique index
\* is only the backstop; the code must never run into it).
OneUnresolved ==
  \A o1, o2 \in Ops :
    /\ row[o1].state \in Unresolved /\ row[o2].state \in Unresolved
    /\ row[o1].printer = row[o2].printer
    => o1 = o2

\* Write-ahead: whatever reached the network was committed as sent before, and was
\* sent once, through every panic, storage failure, crash and restart.
SentOnce == \A o \in Ops : sends[o] <= 1 /\ (sends[o] = 1 => row[o].sent)

\* `failed` is a promise: nothing of a failed operation can still reach its host,
\* and a failed start, pause, resume or cancel never took effect (D5: no "not
\* applied" path for control or start).
FailedIsQuiet ==
  \A o \in Ops : row[o].state = "failed" =>
    /\ net[o] # "flying"
    /\ row[o].kind # "upload" => net[o] \in {"none", "refused", "lost"}

\* D7: while an operation is unresolved, no edit takes the endpoint out from under
\* it: its Printer stays active, on the Connection the row records.
EndpointKept ==
  \A o \in Ops : row[o].state \in Unresolved =>
    LET p == printer[row[o].printer] IN p.life = "active" /\ p.conn = row[o].endpoint

\* `succeeded` is proved, never assumed: after dispatched_at the host showed the effect
\* asked for, or, for a start, its history has a job for the file above the mark
\* (an earlier print of the same file, or a lost answer, is no proof).
SuccessHasEvidence ==
  \A o \in Ops : row[o].state = "succeeded" =>
    \/ shown[o]
    \/ row[o].kind = "start" /\ host[row[o].endpoint].ours > row[o].mark

\* 0007's trigger: a terminal row never changes (deleting its Printer deletes it).
TerminalIsFinal ==
  [][\A o \in Ops : row[o].state \in Terminal =>
       row'[o] \in {row[o], [row[o] EXCEPT !.state = "deleted"]}]_vars

\* D3: a dispatch always ends, by itself, when its executor panics, or at the latest by the
\* restart after a crash.
DispatchEnds ==
  \A o \in Ops : (row[o].state = "dispatching") ~> (row[o].state # "dispatching")

\* D5: the checks of an uncertain row never stop while its Printer stays Online.
ChecksGoOn ==
  \A o \in Ops :
    <>[](LET p == printer[row[o].printer] IN
         up /\ row[o].state \in {"uncertain", "reconciling"} /\ p.online /\ p.supported)
      => []<>(\E p \in Printers : att[p].op = o)
=============================================================================

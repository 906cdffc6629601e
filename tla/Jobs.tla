-------------------------------- MODULE Jobs --------------------------------
(***************************************************************************)
(* Jobs (src/src-tauri/src/jobs): a queue entry is assigned to a Printer,  *)
(* which makes a Job.  The Job's file is staged and started by Host        *)
(* Operations linked to it, its print is tracked in the host's history     *)
(* until it ends, and the filament it used is settled once.                *)
(*                                                                         *)
(* Host Operations are the abstract writes of HostWrites (HostOps          *)
(* implements them).  A Job is named by its queue entry: an entry has at   *)
(* most one Job.  Job commands of the operator and of the driver (cmd)     *)
(* hold the Printer's lock from their checks to their transaction; the     *)
(* driver, one task, also applies outcomes and polls history (poll), which *)
(* it reads without the lock.  All the Jobs print the same file, the one   *)
(* case where a print can be taken for another's.                          *)
(***************************************************************************)
EXTENDS Naturals, Sequences, FiniteSetsExt

CONSTANTS
  Jobs,        \* numbers of queue entries and of their Jobs
  Ops,         \* numbers of Host Operations, used in order
  Printers,    \* Printer ids
  Endpoints,   \* host endpoints; two Printers never share one
  Operators,   \* command callers that are operators
  Driver,      \* the driver task
  Verbs,       \* the controls operators use
  Limit,       \* JobTimings.inconclusive_limit
  PageSize,    \* HostOpsTimings.history_query_limit
  MaxPrints,   \* bound on prints a host's history records
  Budgets      \* bounds: the entries, operations, prints and operators there are, and how
               \* often other people act at the hosts, a Connection, Spool or start-safety
               \* edit is made, a Printer goes offline and the app crashes; each
               \* behaviour draws one

None == 0
Controls == {"pause", "resume", "cancel"}
Callers == Operators \cup {Driver}

ASSUME IdsAssumption == Jobs \subseteq Nat \ {0} /\ Ops \subseteq Nat \ {0}
ASSUME CallersAssumption == Driver \notin Operators
ASSUME VerbsAssumption == Verbs \subseteq Controls
ASSUME JobBoundsAssumption ==
  Limit \in Nat \ {0} /\ PageSize \in Nat \ {0} /\ MaxPrints \in Nat

Budget == [jobs: Nat, ops: Nat, prints: Nat, operators: SUBSET Operators,
           outside: Nat, edits: Nat, flaps: Nat, crashes: Nat]
ASSUME BudgetsAssumption == Budgets \subseteq Budget

VARIABLES
  status, owner, effect, again,  \* the Host Operations, as HostWrites has them
  link,     \* what each Host Operation is for, and what it was checked against
  job,      \* the `jobs` table
  entry,    \* the `queue_entries` table, without positions
  account,  \* per Job, its reservation, its requirements, and the ledger's consumption rows
  cmd,      \* per caller, the Job command it is in
  poll,     \* the history read the driver has not applied yet
  host,     \* per endpoint, its print history and print state
  printer,  \* the `printers` rows, their live status, whether the Job's Spool is loaded
  budget    \* what is left of the bounds

W == INSTANCE HostWrites

writes == <<status, owner, effect, again>>
durable == <<job, entry, account>>
vars == <<writes, link, durable, cmd, poll, host, printer, budget>>

(***************************************************************************)
(* Values.                                                                 *)
(***************************************************************************)
JobState == {"absent", "assigned", "staging", "awaitingStart", "starting", "printing",
             "paused", "outcomeUnknown", "completed", "failed", "cancelled"}
Terminal == {"completed", "failed", "cancelled"}
OnHost == {"printing", "paused"}
OpIds == Ops \cup {None}

\* reason: cancel_reason.  upload, active, start: the *_host_operation_id columns.
\* pin: host_job_id.  unreachable: host_unreachable_since, and whether it is
\* unreachable_declare_after ago.  failed: last_failure is set.
Job == [state: JobState, printer: Printers,
        reason: {"none", "released", "beforeStart", "operator", "host", "declared"},
        settlement: {"open", "notRequired", "pending", "deferred", "settled"},
        upload: OpIds, active: OpIds, start: OpIds, pin: 0..MaxPrints,
        checks: 0..Limit, unreachable: {"no", "since", "long"},
        failed: BOOLEAN, corrected: BOOLEAN]

Entry == [state: {"absent", "queued", "assigned", "closed"},
          closed: {"none", "completed", "failed", "cancelled", "released", "removed"},
          origin: Jobs \cup {None}]

Account == [rsv: {"none", "active", "unresolved", "released", "consumed"},
            material: {"none", "pending", "deferred", "resolved"},
            unknown: {"none", "pending", "resolved"},
            uses: 0..2]

\* mark: history_mark.  source: source_host_operation_id.  before: the prints the
\* history recorded when the write was sent.
Link == [kind: {"upload", "start"} \cup Controls, job: Jobs \cup {None},
         caller: Callers, conn: Endpoints, mark: 0..MaxPrints,
         source: OpIds, before: 0..MaxPrints]

Cmd == [pc: {"idle", "asked", "checked", "refused"},
        kind: {"upload", "start"} \cup Controls, job: Jobs \cup {None},
        source: OpIds, conn: Endpoints, mark: 0..MaxPrints, ours: BOOLEAN]

\* by: the Host Operation that started the print, or None; late: it was resolved before.
\* ender: the one that ended it.
PrintRow == [file: {"ours", "other"},
          status: {"running", "completed", "cancelled", "failed", "other"},
          by: OpIds, late: BOOLEAN, ender: OpIds]
History == UNION {[1..n -> PrintRow] : n \in 0..MaxPrints}

Poll == [job: Jobs \cup {None}, read: BOOLEAN, conn: Endpoints, page: History]

Host == [prints: History,
         print: {"standby", "printing", "paused", "complete", "cancelled", "error"}]

Printer == [conn: Endpoints, online: BOOLEAN, loaded: BOOLEAN, unattended: BOOLEAN]

(***************************************************************************)
(* The Job state machine (state.rs): where an event is legal, where it     *)
(* leads, and the settlement state it sets.                                *)
(***************************************************************************)
BeforeStart == {"assigned", "awaitingStart"}

Sources ==
  [stageHandedOff |-> BeforeStart, stageSucceeded |-> {"staging"}, stageFailed |-> {"staging"},
   startHandedOff |-> {"awaitingStart"}, startSucceeded |-> {"starting"},
   startFailed |-> {"starting"}, startAbandoned |-> {"starting"}, hostJobPinned |-> OnHost,
   pauseHandedOff |-> {"printing"}, resumeHandedOff |-> {"paused"}, cancelHandedOff |-> OnHost,
   controlFailed |-> OnHost, paused |-> {"printing"}, resumed |-> {"paused"},
   completed |-> OnHost, failed |-> OnHost, cancelled |-> OnHost, outcomeUnknown |-> OnHost,
   declaredCompleted |-> OnHost \cup {"outcomeUnknown"},
   declaredFailed |-> OnHost \cup {"outcomeUnknown"},
   declaredCancelled |-> OnHost \cup {"outcomeUnknown"},
   released |-> BeforeStart, cancelledBeforeStart |-> BeforeStart,
   materialSettled |-> {"failed", "cancelled"}, materialDeferred |-> {"failed", "cancelled"},
   materialCorrected |-> {"completed"}]

StateAfter(s, event) ==
  CASE event = "stageHandedOff" -> "staging"
    [] event \in {"stageSucceeded", "startFailed"} -> "awaitingStart"
    [] event = "stageFailed" -> "assigned"
    [] event = "startHandedOff" -> "starting"
    [] event \in {"startSucceeded", "resumed"} -> "printing"
    [] event = "paused" -> "paused"
    [] event \in {"startAbandoned", "outcomeUnknown"} -> "outcomeUnknown"
    [] event \in {"completed", "declaredCompleted"} -> "completed"
    [] event \in {"failed", "declaredFailed"} -> "failed"
    [] event \in {"cancelled", "declaredCancelled", "released", "cancelledBeforeStart"} -> "cancelled"
    [] OTHER -> s

Legal(j, event) == job[j].state \in Sources[event]

SettlementAfter(event, old) ==
  CASE event \in {"released", "cancelledBeforeStart"} -> "notRequired"
    [] event \in {"completed", "declaredCompleted", "materialSettled"} -> "settled"
    [] event \in {"failed", "cancelled", "declaredFailed", "declaredCancelled"} -> "pending"
    [] event = "materialDeferred" -> "deferred"
    [] OTHER -> old

\* repository.rs transition, write_row: leaving printing/paused clears unreachable.
Moved(r, event) ==
  LET to == StateAfter(r.state, event) IN
  [r EXCEPT !.state = to,
            !.settlement = SettlementAfter(event, @),
            !.unreachable = IF to \in OnHost THEN @ ELSE "no"]

(***************************************************************************)
(* Helpers.                                                                *)
(***************************************************************************)
NoCmd == [pc |-> "idle", kind |-> "upload", job |-> None, source |-> None,
          conn |-> CHOOSE e \in Endpoints : TRUE, mark |-> 0, ours |-> FALSE]
NoPoll == [job |-> None, read |-> FALSE, conn |-> CHOOSE e \in Endpoints : TRUE, page |-> <<>>]

Spend(what) == /\ budget[what] > 0
               /\ budget' = [budget EXCEPT ![what] = @ - 1]

\* services.rs Driver::run: one wake at a time.
DriverIdle == cmd[Driver].pc = "idle" /\ poll.job = None

\* host_ops/services.rs printer_lock: only the commands hold it across an await.
LockFree(p) == \A c \in Callers : ~(cmd[c].pc = "checked" /\ job[cmd[c].job].printer = p)

Active(j) == job[j].state \notin {"absent"} \cup Terminal

HandedOff(j, k) == \E o \in Ops : status[o] # "none" /\ link[o].job = j /\ link[o].kind = k

HasOpen(p) == \E o \in Ops : status[o] = "open" /\ owner[o] = p

Prints(e) == host[e].prints
Busy(e) == host[e].print \in {"printing", "paused"}
Last(e) == Prints(e)[Len(Prints(e))]

Fresh(S, taken) == {n \in S : ~taken[n] /\ \A m \in S : m < n => taken[m]}
FreshEntries == {e \in Fresh(Jobs, [e \in Jobs |-> entry[e].state # "absent"]) : e <= budget.jobs}
FreshOps == {o \in Fresh(Ops, [o \in Ops |-> status[o] # "none"]) : o <= budget.ops}

(***************************************************************************)
(* The initial state: an empty queue; what a host's history holds is an    *)
(* earlier print of the same file, or nothing.                             *)
(***************************************************************************)
NoJob(p) == [state |-> "absent", printer |-> p, reason |-> "none", settlement |-> "open",
             upload |-> None, active |-> None, start |-> None, pin |-> 0, checks |-> 0,
             unreachable |-> "no", failed |-> FALSE, corrected |-> FALSE]

Earlier == [file |-> "ours", status |-> "completed", by |-> None, late |-> FALSE, ender |-> None]

Init ==
  /\ W!Init
  /\ link \in [Ops -> {[kind |-> "upload", job |-> None, caller |-> Driver, conn |-> e, mark |-> 0,
                        source |-> None, before |-> 0] : e \in {NoCmd.conn}}]
  /\ \E p \in Printers : job = [j \in Jobs |-> NoJob(p)] /\ owner = [o \in Ops |-> p]
  /\ again = [o \in Ops |-> FALSE]
  /\ entry = [j \in Jobs |-> [state |-> "absent", closed |-> "none", origin |-> None]]
  /\ account = [j \in Jobs |-> [rsv |-> "none", material |-> "none", unknown |-> "none", uses |-> 0]]
  /\ cmd = [c \in Callers |-> NoCmd]
  /\ poll = NoPoll
  /\ host \in [Endpoints -> {[prints |-> <<>>, print |-> "standby"],
                             [prints |-> <<Earlier>>, print |-> "complete"]}]
  /\ \A e \in Endpoints : Len(Prints(e)) <= MaxPrints
  /\ printer \in [Printers -> [conn: Endpoints, online: {FALSE}, loaded: {TRUE}, unattended: BOOLEAN]]
  /\ \A p, q \in Printers : p # q => printer[p].conn # printer[q].conn
  /\ budget \in Budgets

(***************************************************************************)
(* The queue and assignment (queue/repository.rs, assign.rs).  Eligibility *)
(* only refuses and is left out.                                           *)
(***************************************************************************)
CreateEntry(e) ==
  /\ e \in FreshEntries
  /\ entry' = [entry EXCEPT ![e].state = "queued"]
  /\ UNCHANGED <<writes, link, job, account, cmd, poll, host, printer, budget>>

RemoveEntry(e) ==
  /\ entry[e].state = "queued"
  /\ entry' = [entry EXCEPT ![e] = [@ EXCEPT !.state = "closed", !.closed = "removed"]]
  /\ UNCHANGED <<writes, link, job, account, cmd, poll, host, printer, budget>>

Assign(e, p) ==
  /\ LockFree(p)
  /\ entry[e].state = "queued"
  /\ \A j \in Jobs : ~(Active(j) /\ job[j].printer = p)
  /\ entry' = [entry EXCEPT ![e].state = "assigned"]
  /\ job' = [job EXCEPT ![e] = [NoJob(p) EXCEPT !.state = "assigned"]]
  /\ account' = [account EXCEPT ![e].rsv = "active"]
  /\ UNCHANGED <<writes, link, cmd, poll, host, printer, budget>>

\* queue/repository.rs apply: the entry of a Job that ends leaves the queue.
Closed(e, why) == [entry[e] EXCEPT !.state = "closed", !.closed = why]

\* The Job ends before it started: nothing was used.
EndBeforeStart(j, event, reason) ==
  /\ LockFree(job[j].printer)
  /\ Legal(j, event)
  /\ job' = [job EXCEPT ![j] = [Moved(@, event) EXCEPT !.reason = reason]]
  /\ account' = [account EXCEPT ![j].rsv = "released"]
  /\ UNCHANGED <<writes, link, cmd, poll, host, printer, budget>>

\* queue/repository.rs create_linked: one successor per entry.
Successor(e) == {f \in Jobs : entry[f].origin = e}

Release(j) ==
  /\ EndBeforeStart(j, "released", "released")
  /\ \E f \in FreshEntries :
       entry' = [entry EXCEPT ![j] = Closed(j, "released"),
                              ![f] = [state |-> "queued", closed |-> "none", origin |-> j]]

CancelBeforeStart(j) ==
  /\ EndBeforeStart(j, "cancelledBeforeStart", "beforeStart")
  /\ entry' = [entry EXCEPT ![j] = Closed(j, "cancelled")]

\* Mutant: a released Job can be retried too.
RetriesReleased(j) ==
  /\ job[j].state \in Terminal
  /\ \E f \in FreshEntries :
       entry' = [entry EXCEPT ![f] = [state |-> "queued", closed |-> "none", origin |-> j]]
  /\ UNCHANGED <<writes, link, job, account, cmd, poll, host, printer, budget>>

Retry(j) ==
  /\ job[j].state \in Terminal /\ job[j].reason # "released"
  /\ Successor(j) = {}
  /\ \E f \in FreshEntries :
       entry' = [entry EXCEPT ![f] = [state |-> "queued", closed |-> "none", origin |-> j]]
  /\ UNCHANGED <<writes, link, job, account, cmd, poll, host, printer, budget>>

(***************************************************************************)
(* Job commands that hand off a Host Operation (dispatch.rs stage_job,     *)
(* start_job, control_job; services.rs for the driver's).                  *)
(***************************************************************************)
EventOf(k) == CASE k = "upload" -> "stageHandedOff" [] k = "start" -> "startHandedOff"
                [] k = "pause" -> "pauseHandedOff" [] k = "resume" -> "resumeHandedOff"
                [] OTHER -> "cancelHandedOff"

\* The committed Job and its upload are read before the lock is taken.
Ask(c, j, k) ==
  /\ cmd[c].pc = "idle"
  /\ Legal(j, EventOf(k))
  /\ k = "start" => /\ printer[job[j].printer].loaded
                    /\ ~HasOpen(job[j].printer)
  /\ cmd' = [cmd EXCEPT ![c] = [NoCmd EXCEPT !.pc = "asked", !.kind = k, !.job = j,
                                             !.source = IF k = "start" THEN job[j].upload ELSE None]]
  /\ UNCHANGED <<writes, link, durable, poll, host, printer, budget>>

OperatorAsks(c, j, k) == c \in budget.operators /\ k \in {"upload", "start"} \cup Verbs /\ Ask(c, j, k)

\* services.rs stage_by_driver.
DriverStages(j) ==
  /\ DriverIdle
  /\ job[j].state = "assigned" /\ ~job[j].failed /\ ~HandedOff(j, "upload")
  /\ Ask(Driver, j, "upload")

\* services.rs maybe_start_unattended.
DriverStarts(j) ==
  /\ DriverIdle
  /\ printer[job[j].printer].unattended /\ printer[job[j].printer].online
  /\ ~job[j].failed /\ ~HandedOff(j, "start")
  /\ Ask(Driver, j, "start")

\* host_ops/api.rs stage, start, control, under the lock, before the transaction.
Check(c) ==
  LET m == cmd[c]  p == job[m.job].printer  e == printer[p].conn IN
  /\ m.pc = "asked"
  /\ LockFree(p)
  /\ ~HasOpen(p)
  /\ printer[p].online
  /\ m.kind = "start" =>
       /\ m.source # None /\ status[m.source] = "succeeded"
       /\ host[e].print \in (IF c = Driver THEN {"standby"}
                                           ELSE {"standby", "complete", "cancelled"})
  /\ m.kind = "pause" => host[e].print = "printing"
  /\ m.kind = "resume" => host[e].print = "paused"
  /\ m.kind = "cancel" => Busy(e)
  /\ cmd' = [cmd EXCEPT ![c] = [@ EXCEPT !.pc = "checked", !.conn = e,
                                         !.mark = IF m.kind = "start" THEN Len(Prints(e)) ELSE 0,
                                         !.ours = Busy(e) /\ Last(e).file = "ours"]]
  /\ UNCHANGED <<writes, link, durable, poll, host, printer, budget>>

\* dispatch.rs claim_and_recheck, the links of stage, start and control, and
\* recheck_start_world; api.rs write_ahead compares the Connection.
\* Mutant: the link no longer requires the staged upload to be the Job's own.
AnyUploadDoes(c) ==
  LET m == cmd[c]  p == job[m.job].printer IN
  /\ Legal(m.job, EventOf(m.kind))
  /\ printer[p].conn = m.conn
  /\ m.kind = "start" => /\ printer[p].loaded
                         /\ c = Driver => printer[p].unattended
  /\ m.kind \in Controls => m.ours

MayCommit(c) ==
  LET m == cmd[c]  p == job[m.job].printer IN
  /\ Legal(m.job, EventOf(m.kind))
  /\ printer[p].conn = m.conn
  /\ m.kind = "start" => /\ job[m.job].upload = m.source
                         /\ printer[p].loaded
                         /\ c = Driver => printer[p].unattended
  /\ m.kind \in Controls => m.ours

Commit(c) ==
  LET m == cmd[c] IN
  /\ m.pc = "checked" /\ MayCommit(c)
  /\ \E o \in FreshOps :
       /\ W!Open(o, job[m.job].printer)
       /\ again'[o] = (m.kind = "upload")
       /\ link' = [link EXCEPT ![o] = [kind |-> m.kind, job |-> m.job, caller |-> c, conn |-> m.conn,
                                       mark |-> m.mark, source |-> m.source, before |-> 0]]
       /\ job' = [job EXCEPT ![m.job] = [Moved(job[m.job], EventOf(m.kind)) EXCEPT
                    !.active = o, !.start = IF m.kind = "start" THEN o ELSE @]]
  /\ cmd' = [cmd EXCEPT ![c] = NoCmd]
  /\ UNCHANGED <<entry, account, poll, host, printer, budget>>

\* A check or the transaction refuses, or a host read fails.  What the driver is
\* refused for good it then records; `not yet` it forgets (is_not_yet).
Refuse(c) ==
  /\ cmd[c].pc \in {"asked", "checked"}
  /\ \/ cmd' = [cmd EXCEPT ![c] = NoCmd]
     \/ c = Driver /\ cmd' = [cmd EXCEPT ![c].pc = "refused"]
  /\ UNCHANGED <<writes, link, durable, poll, host, printer, budget>>

\* services.rs record_refusal.
RecordRefusal ==
  LET m == cmd[Driver]  j == m.job IN
  /\ m.pc = "refused"
  /\ LockFree(job[j].printer)
  /\ LET expected == IF m.kind = "upload" THEN "assigned" ELSE "awaitingStart"
         records == job[j].state = expected /\ ~job[j].failed /\ ~HandedOff(j, m.kind)
     IN job' = [job EXCEPT ![j].failed = @ \/ records]
  /\ cmd' = [cmd EXCEPT ![Driver] = NoCmd]
  /\ UNCHANGED <<writes, link, entry, account, poll, host, printer, budget>>

(***************************************************************************)
(* Host Operations as the Jobs see them.  Only an operation whose effect   *)
(* is known or given up closes; HostOps' SuccessHasEvidence says what a    *)
(* succeeded start rests on.                                               *)
(***************************************************************************)
Dispatch(o) ==
  /\ W!Dispatch(o)
  /\ link' = [link EXCEPT ![o].before = Len(Prints(link[o].conn))]
  /\ UNCHANGED <<durable, cmd, poll, host, printer, budget>>

\* Lost on the way, or refused by the host.
Vanish(o) ==
  /\ W!Vanish(o)
  /\ UNCHANGED <<link, durable, cmd, poll, host, printer, budget>>

End(prints, s, o) ==
  LET n == Len(prints) IN
  IF n > 0 /\ prints[n].status = "running"
    THEN [prints EXCEPT ![n].status = s, ![n].ender = o] ELSE prints

\* The host starts a print of f.  Klipper starts over a paused print, which
\* history then records as cancelled.
StartPrint(e, f, o) ==
  /\ host[e].print # "printing"
  /\ Len(Prints(e)) < MaxPrints /\ Len(Prints(e)) < budget.prints
  /\ host' = [host EXCEPT ![e] =
       [prints |-> Append(End(@.prints, "cancelled", o),
                          [file |-> f, status |-> "running", by |-> o,
                           late |-> o # None /\ status[o] # "open", ender |-> None]),
        print |-> "printing"]]

\* What a control does to the host's print; one that does not fit does nothing.
Control(h, k, o) ==
  CASE k = "pause" /\ h.print = "printing" -> [h EXCEPT !.print = "paused"]
    [] k = "resume" /\ h.print = "paused" -> [h EXCEPT !.print = "printing"]
    [] k = "cancel" /\ h.print \in {"printing", "paused"} ->
         [prints |-> End(h.prints, "cancelled", o), print |-> "cancelled"]
    [] OTHER -> h

Happen(o) ==
  LET e == link[o].conn  k == link[o].kind IN
  /\ W!Happen(o)
  /\ CASE k = "start" -> StartPrint(e, "ours", o)
       [] k = "upload" -> UNCHANGED host
       [] OTHER -> host' = [host EXCEPT ![e] = Control(@, k, o)]
  /\ UNCHANGED <<link, durable, cmd, poll, printer, budget>>

\* A print of our file newer than the start's mark, or the file printing now.
ShowsStart(o) ==
  LET e == link[o].conn IN
  \/ \E i \in 1..Len(Prints(e)) : i > link[o].mark /\ Prints(e)[i].file = "ours"
  \/ Busy(e) /\ Last(e).file = "ours"

Succeed(o) ==
  /\ W!Close(o, "succeeded")
  /\ effect[o] # "unsent"
  /\ link[o].kind = "start" => effect[o] = "happened" \/ ShowsStart(o)
  /\ UNCHANGED <<link, durable, cmd, poll, host, printer, budget>>

Abandon(o) ==
  /\ W!Close(o, "abandoned")
  /\ UNCHANGED <<link, durable, cmd, poll, host, printer, budget>>

Fail(o) ==
  /\ W!Fail({o})
  /\ UNCHANGED <<link, durable, cmd, poll, host, printer, budget>>

(***************************************************************************)
(* Outcomes (dispatch.rs event_for, apply_host_outcome).                   *)
(***************************************************************************)
\* Mutant: an abandoned start counts as one that failed.
AbandonedFails(st) == IF st = "succeeded" THEN "startSucceeded" ELSE "startFailed"

StartEvent(st) == CASE st = "succeeded" -> "startSucceeded" [] st = "failed" -> "startFailed"
                    [] OTHER -> "startAbandoned"

ControlEvent(s, k, st) ==
  CASE st # "succeeded" /\ s \in OnHost -> "controlFailed"
    [] st = "succeeded" /\ k = "pause" /\ s = "printing" -> "paused"
    [] st = "succeeded" /\ k = "resume" /\ s = "paused" -> "resumed"
    [] OTHER -> "none"

EventFor(s, k, st) ==
  CASE k = "upload" /\ s = "staging" ->
         IF st = "succeeded" THEN "stageSucceeded" ELSE "stageFailed"
    [] k = "start" /\ s = "starting" -> StartEvent(st)
    [] k \in Controls -> ControlEvent(s, k, st)
    [] OTHER -> "none"

\* Row r of a Job after the outcome st of its active operation.
Applied(r, event) ==
  LET moved == IF event = "none" THEN r ELSE Moved(r, event) IN
  [moved EXCEPT
     !.active = None,
     !.upload = CASE event = "stageSucceeded" -> r.active [] event = "stageFailed" -> None [] OTHER -> @,
     !.failed = CASE event = "stageSucceeded" -> FALSE
                  [] event \in {"stageFailed", "startFailed"} -> TRUE [] OTHER -> @]

\* open_outcome_unknown_requirement: at most one per Job.
AskUnknown(a) == [a EXCEPT !.unknown = IF @ = "none" THEN "pending" ELSE @]

\* The Jobs in S take the outcomes their active operations have under st.
\* Mutant: an operation that is still open counts as failed.
AnyActive(S, st) == {j \in S : job[j].active # None}

Resolved(S, st) == {j \in S : job[j].active # None /\ st[job[j].active] \in W!Closed}
ApplyTo(S, st) ==
  LET event(j) == EventFor(job[j].state, link[job[j].active].kind, st[job[j].active]) IN
  /\ job' = [j \in Jobs |-> IF j \in Resolved(S, st) THEN Applied(job[j], event(j)) ELSE job[j]]
  /\ account' = [j \in Jobs |-> IF j \in Resolved(S, st) /\ event(j) = "startAbandoned"
                                  THEN AskUnknown(account[j]) ELSE account[j]]

\* services.rs on_host_operation, resync; the driver under the Printer's lock.
\* Mutant: the outcome is applied by a task of its own.
AppliesAnyTime(j) ==
  /\ LockFree(job[j].printer)
  /\ Resolved({j}, status) # {}
  /\ ApplyTo({j}, status)
  /\ UNCHANGED <<writes, link, entry, cmd, poll, host, printer, budget>>

\* Mutant: outcomes are applied to the Jobs a restart looks at (recovery.rs) only.
SkipsUnknown(j) ==
  /\ DriverIdle
  /\ job[j].state # "outcomeUnknown"
  /\ LockFree(job[j].printer)
  /\ Resolved({j}, status) # {}
  /\ ApplyTo({j}, status)
  /\ UNCHANGED <<writes, link, entry, cmd, poll, host, printer, budget>>

ApplyOutcome(j) ==
  /\ DriverIdle
  /\ LockFree(job[j].printer)
  /\ Resolved({j}, status) # {}
  /\ ApplyTo({j}, status)
  /\ UNCHANGED <<writes, link, entry, cmd, poll, host, printer, budget>>

\* A crash and the next start: what ran is lost, unsent operations fail
\* (host_ops recovery), then the Jobs catch up (recovery.rs).
Restart ==
  /\ Spend("crashes")
  /\ \E S \in SUBSET {o \in Ops : status[o] = "open" /\ effect[o] = "unsent"} : W!Fail(S)
  /\ ApplyTo({j \in Jobs : job[j].state \in {"staging", "starting"} \cup OnHost}, status')
  /\ cmd' = [c \in Callers |-> NoCmd]
  /\ poll' = NoPoll
  /\ printer' = [p \in Printers |-> [printer[p] EXCEPT !.online = FALSE]]
  /\ UNCHANGED <<link, entry, host>>

(***************************************************************************)
(* Tracking (tracker.rs).                                                  *)
(***************************************************************************)
\* observe_status: our file in the other state.  What the cached status says is an
\* input here; only the guards that keep it from reversing an operation are code.
Follow(j) ==
  /\ DriverIdle
  /\ LockFree(job[j].printer)
  /\ job[j].state \in OnHost /\ job[j].active = None /\ printer[job[j].printer].online
  /\ \E i \in 1..Len(Prints(printer[job[j].printer].conn)) :
       Prints(printer[job[j].printer].conn)[i].file = "ours"
  /\ job' = [job EXCEPT ![j] = Moved(@, IF @.state = "printing" THEN "paused" ELSE "resumed")]
  /\ UNCHANGED <<writes, link, entry, account, cmd, poll, host, printer, budget>>

\* check: one read of the history of the Printer's current Connection, or none.
ReadHistory(j) ==
  LET q == printer[job[j].printer] IN
  /\ DriverIdle
  /\ job[j].state \in OnHost
  /\ \E ok \in BOOLEAN :
       /\ ok => q.online
       /\ poll' = [job |-> j, read |-> ok, conn |-> q.conn,
                   page |-> IF ok THEN Prints(q.conn) ELSE <<>>]
  /\ UNCHANGED <<writes, link, durable, cmd, host, printer, budget>>

\* The newest PageSize prints of the history read.
OnPage(i) == i > Len(poll.page) - PageSize /\ i <= Len(poll.page)

\* Mutant: prints before the start's mark count.
FromTheStart(low) == {i \in 1..Len(poll.page) : OnPage(i) /\ poll.page[i].file = "ours"}

\* pin_candidate: our file, above the mark, started no earlier than the dispatch
\* less the clocks' tolerance; low, from the mark to the dispatch, is what that lets in.
Candidates(low) ==
  {i \in 1..Len(poll.page) : OnPage(i) /\ poll.page[i].file = "ours" /\ i > low}

\* Mutant: history of another host counts.
AnyHost(r) == TRUE

SameEndpoint(r) == link[r.start].conn = poll.conn

PinOf(r, low) ==
  IF ~SameEndpoint(r) THEN 0
  ELSE IF r.pin # 0 THEN r.pin
  ELSE IF Candidates(low) = {} THEN 0 ELSE Min(Candidates(low))

\* Mutant: a print history calls neither completed, cancelled nor failed is running.
StillRunning(pin, reports, same) ==
  IF pin # 0 THEN (CASE ~OnPage(pin) -> "inconclusive"
                     [] poll.page[pin].status = "other" -> "running"
                     [] OTHER -> poll.page[pin].status)
  ELSE IF same /\ reports THEN "running" ELSE "inconclusive"

\* verdict_from_history, verdict_of.
Verdict(pin, reports, same) ==
  IF pin # 0 THEN (IF OnPage(pin) /\ poll.page[pin].status # "other"
                     THEN poll.page[pin].status ELSE "inconclusive")
  ELSE IF same /\ reports THEN "running" ELSE "inconclusive"

\* Mutant: a cancel counts as the operator's only once it is known to have succeeded.
OnlySucceeded(j) ==
  IF \E o \in Ops : status[o] = "succeeded" /\ link[o].job = j /\ link[o].kind = "cancel"
    THEN "operator" ELSE "host"

CancelReason(j) ==
  IF \E o \in Ops : /\ status[o] \notin {"none", "failed"}
                    /\ link[o].job = j /\ link[o].kind = "cancel"
    THEN "operator" ELSE "host"

\* end_job and settlement.rs on_completed, on_failed_or_cancelled: the entry
\* closes and the material is consumed, or asked for.
Consumed(a) == [a EXCEPT !.rsv = "consumed", !.uses = @ + 1]
Questioned(a) == [a EXCEPT !.rsv = "unresolved", !.material = "pending"]
EndAccount(a, state) == IF state = "completed" THEN Consumed(a) ELSE Questioned(a)
EntryEnds(j, state) == entry' = [entry EXCEPT ![j] = Closed(j, state)]

\* apply_poll of a history read: what it shows of Job j, and what follows.
Reading(j, low, reports) ==
  LET r == job[j]
      pin == PinOf(r, low)
      verdict == Verdict(pin, reports, SameEndpoint(r))
      checks == IF verdict = "inconclusive" THEN r.checks + 1 ELSE 0
      seen == [r EXCEPT !.unreachable = "no", !.checks = checks,
                        !.pin = IF pin # 0 THEN pin ELSE @]
  IN \/ /\ verdict \in Terminal
        /\ job' = [job EXCEPT ![j] = [Moved(seen, verdict) EXCEPT
             !.reason = IF verdict = "cancelled" THEN CancelReason(j) ELSE @]]
        /\ account' = [account EXCEPT ![j] = EndAccount(@, verdict)]
        /\ EntryEnds(j, verdict)
     \/ /\ verdict = "inconclusive" /\ checks >= Limit
        /\ job' = [job EXCEPT ![j] = Moved(seen, "outcomeUnknown")]
        /\ account' = [account EXCEPT ![j] = AskUnknown(@)]
        /\ UNCHANGED entry
     \/ /\ verdict = "running" \/ (verdict = "inconclusive" /\ checks < Limit)
        /\ job' = [job EXCEPT ![j] = seen]
        /\ UNCHANGED <<entry, account>>

\* The poll is applied under the Printer's lock, to the Job as it is now.
ApplyPoll ==
  LET j == poll.job  r == job[j] IN
  /\ j # None
  /\ LockFree(r.printer)
  /\ poll' = NoPoll
  /\ \/ /\ r.state \notin OnHost
        /\ UNCHANGED <<job, entry, account>>
     \/ /\ r.state \in OnHost /\ ~poll.read
        /\ job' = [job EXCEPT ![j].unreachable = IF @ = "no" THEN "since" ELSE @]
        /\ UNCHANGED <<entry, account>>
     \/ /\ r.state \in OnHost /\ poll.read
        /\ \E low \in link[r.start].mark .. link[r.start].before, reports \in BOOLEAN :
             Reading(j, low, reports)
  /\ UNCHANGED <<writes, link, cmd, host, printer, budget>>

\* unreachable_declare_after passes.
UnreachableLong(j) ==
  /\ job[j].unreachable = "since"
  /\ job' = [job EXCEPT ![j].unreachable = "long"]
  /\ UNCHANGED <<writes, link, entry, account, cmd, poll, host, printer, budget>>

(***************************************************************************)
(* Declaring, settling, correcting (tracker.rs declare, settlement.rs).    *)
(***************************************************************************)
MayDeclare(j) ==
  \/ job[j].state = "outcomeUnknown"
  \/ job[j].state \in OnHost /\ job[j].unreachable = "long"

DeclaredEvent(state) == CASE state = "completed" -> "declaredCompleted"
                          [] state = "failed" -> "declaredFailed"
                          [] OTHER -> "declaredCancelled"

Declare(j, state) ==
  /\ LockFree(job[j].printer)
  /\ MayDeclare(j)
  /\ job' = [job EXCEPT ![j] = [Moved(job[j], DeclaredEvent(state)) EXCEPT
               !.reason = IF state = "cancelled" THEN "declared" ELSE @]]
  /\ account' = [account EXCEPT ![j] =
       [EndAccount(account[j], state) EXCEPT !.unknown = IF @ = "none" THEN @ ELSE "resolved"]]
  /\ EntryEnds(j, state)
  /\ UNCHANGED <<writes, link, cmd, poll, host, printer, budget>>

\* Mutant: any Job that has ended can be settled, whatever was settled before.
SettlesAgain(j) == job[j].settlement # "open"

\* check_settleable, for the estimate or a measurement.
Settleable(j) == job[j].settlement \in {"pending", "deferred"}

Settle(j) ==
  /\ LockFree(job[j].printer)
  /\ Settleable(j) /\ Legal(j, "materialSettled")
  /\ job' = [job EXCEPT ![j] = Moved(@, "materialSettled")]
  /\ account' = [account EXCEPT ![j] = [Consumed(@) EXCEPT !.material = "resolved"]]
  /\ UNCHANGED <<writes, link, entry, cmd, poll, host, printer, budget>>

Defer(j) ==
  /\ LockFree(job[j].printer)
  /\ job[j].settlement = "pending" /\ Legal(j, "materialDeferred")
  /\ job' = [job EXCEPT ![j] = Moved(@, "materialDeferred")]
  /\ account' = [account EXCEPT ![j].material = "deferred"]
  /\ UNCHANGED <<writes, link, entry, cmd, poll, host, printer, budget>>

\* A measurement in the ledger; the consumption stays what it was.
Correct(j) ==
  /\ LockFree(job[j].printer)
  /\ ~job[j].corrected /\ Legal(j, "materialCorrected")
  /\ job' = [job EXCEPT ![j] = [Moved(@, "materialCorrected") EXCEPT !.corrected = TRUE]]
  /\ UNCHANGED <<writes, link, entry, account, cmd, poll, host, printer, budget>>

(***************************************************************************)
(* Printers, hosts, and the people at them.                                *)
(***************************************************************************)
\* host_ops/guards.rs check_connection_change: an unresolved operation blocks it.
SetConnection(p, e) ==
  /\ Spend("edits")
  /\ e # printer[p].conn /\ \A q \in Printers : printer[q].conn # e
  /\ ~HasOpen(p)
  /\ printer' = [printer EXCEPT ![p].conn = e, ![p].online = FALSE]
  /\ UNCHANGED <<writes, link, durable, cmd, poll, host>>

MoveSpool(p) ==
  /\ Spend("edits")
  /\ printer' = [printer EXCEPT ![p].loaded = ~@]
  /\ UNCHANGED <<writes, link, durable, cmd, poll, host>>

SetStartSafety(p) ==
  /\ Spend("edits")
  /\ printer' = [printer EXCEPT ![p].unattended = ~@]
  /\ UNCHANGED <<writes, link, durable, cmd, poll, host>>

GoOnline(p) ==
  /\ ~printer[p].online
  /\ printer' = [printer EXCEPT ![p].online = TRUE]
  /\ UNCHANGED <<writes, link, durable, cmd, poll, host, budget>>

GoOffline(p) ==
  /\ Spend("flaps")
  /\ printer[p].online
  /\ printer' = [printer EXCEPT ![p].online = FALSE]
  /\ UNCHANGED <<writes, link, durable, cmd, poll, host>>

Shown(s) == CASE s = "completed" -> "complete" [] s = "cancelled" -> "cancelled" [] OTHER -> "error"

PrintEnds(e, s) ==
  /\ Busy(e)
  /\ host' = [host EXCEPT ![e] = [prints |-> End(@.prints, s, None), print |-> Shown(s)]]
  /\ UNCHANGED <<writes, link, durable, cmd, poll, printer, budget>>

\* Somebody at the host prints a file, works its controls, or clears the last print.
Outside(e) ==
  /\ Spend("outside")
  /\ \/ \E f \in {"ours", "other"} : ~Busy(e) /\ StartPrint(e, f, None)
     \/ \E k \in Controls : host' = [host EXCEPT ![e] = Control(@, k, None)]
     \/ /\ host[e].print \in {"complete", "cancelled", "error"}
        /\ host' = [host EXCEPT ![e].print = "standby"]
  /\ UNCHANGED <<writes, link, durable, cmd, poll, printer>>

(***************************************************************************)
(* The specification.                                                      *)
(***************************************************************************)
QueueStep == \E e \in Jobs :
  \/ CreateEntry(e) \/ RemoveEntry(e) \/ Retry(e) \/ \E p \in Printers : Assign(e, p)

JobCommand == \E j \in Jobs :
  \/ Release(j) \/ CancelBeforeStart(j) \/ Settle(j) \/ Defer(j) \/ Correct(j)
  \/ \E s \in Terminal : Declare(j, s)

HandOff ==
  \/ \E c \in Callers : Check(c) \/ Commit(c) \/ Refuse(c)
  \/ \E c \in Operators, j \in Jobs, k \in {"upload", "start"} \cup Verbs : OperatorAsks(c, j, k)
  \/ \E j \in Jobs : DriverStages(j) \/ DriverStarts(j)
  \/ RecordRefusal

DriverStep ==
  \/ \E j \in Jobs : ApplyOutcome(j) \/ Follow(j) \/ ReadHistory(j)
  \/ ApplyPoll

HostOperation == \E o \in Ops :
  Dispatch(o) \/ Vanish(o) \/ Happen(o) \/ Succeed(o) \/ Abandon(o) \/ Fail(o)

World ==
  \/ \E p \in Printers : \/ MoveSpool(p) \/ SetStartSafety(p) \/ GoOnline(p) \/ GoOffline(p)
                         \/ \E e \in Endpoints : SetConnection(p, e)
  \/ \E e \in Endpoints : Outside(e) \/ \E s \in Terminal \cup {"other"} : PrintEnds(e, s)
  \/ \E j \in Jobs : UnreachableLong(j)

Next == QueueStep \/ JobCommand \/ HandOff \/ DriverStep \/ HostOperation \/ World \/ Restart

Spec == Init /\ [][Next]_vars

\* The driver never stops on its own, and the Printer's lock is a fair queue: a command
\* that holds it answers, and the driver, once it waits for it, gets its turn.  Every poll
\* interval resync reads the active Jobs again, so what a lost broadcast or a failed write
\* missed is applied to them; to a Job that ended only one broadcast applies an outcome, and
\* nothing is assumed of that.  Nor of operators or hosts, nor that an operation is resolved.
Fairness ==
  /\ \A c \in Callers : WF_vars(Commit(c) \/ Refuse(c))
  /\ SF_vars(RecordRefusal) /\ SF_vars(ApplyPoll)
  /\ \A j \in Jobs : SF_vars(Active(j) /\ ApplyOutcome(j)) /\ SF_vars(ReadHistory(j))

LiveSpec == Spec /\ Fairness

(***************************************************************************)
(* Properties.                                                             *)
(***************************************************************************)
\* Every table row and every operation in flight has values the code can write.
TypeOK ==
  /\ status \in [Ops -> {"none", "open"} \cup W!Closed]
  /\ owner \in [Ops -> Printers]
  /\ effect \in [Ops -> {"unsent", "pending", "happened", "void"}]
  /\ again \in [Ops -> BOOLEAN]
  /\ link \in [Ops -> Link]
  /\ job \in [Jobs -> Job]
  /\ entry \in [Jobs -> Entry]
  /\ account \in [Jobs -> Account]
  /\ cmd \in [Callers -> Cmd]
  /\ poll \in Poll
  /\ host \in [Endpoints -> Host]
  /\ printer \in [Printers -> Printer]
  /\ budget \in Budget

\* What the reservation, the question and the ledger of a Job row r hold.
Counted(r, a) ==
  /\ r.settlement = "open" <=> r.state \notin Terminal
  /\ r.settlement = "notRequired" <=> r.reason \in {"released", "beforeStart"}
  /\ a.rsv = (CASE r.settlement = "open" -> "active" [] r.settlement = "notRequired" -> "released"
                [] r.settlement = "settled" -> "consumed" [] OTHER -> "unresolved")
  /\ a.uses = (IF r.settlement = "settled" THEN 1 ELSE 0)
  /\ r.settlement \in {"pending", "deferred"} <=> a.material \in {"pending", "deferred"}
  /\ r.settlement \in {"pending", "deferred"} => a.material = r.settlement

\* The filament of a Job is counted exactly once, whichever of tracking, declaring,
\* settling and releasing ends it: the settlement state, the reservation, the pending
\* question and the ledger's consumption always tell the same story.
MaterialOnce == \A j \in Jobs : job[j].state # "absent" => Counted(job[j], account[j])

StartOf(o, j) == status[o] # "none" /\ link[o].kind = "start" /\ link[o].job = j
PrintsBy(e, j) == {i \in 1..Len(Prints(e)) : Prints(e)[i].by # None /\ StartOf(Prints(e)[i].by, j)}

\* A print one of a Job's own starts made is never forgotten, however the start was
\* answered, retried or abandoned: that Job is not back before its start (so it never
\* prints twice), and was not ended as one that used no filament.
PrintsAccounted == \A e \in Endpoints, j \in Jobs : PrintsBy(e, j) # {} =>
  /\ job[j].state \notin {"absent", "assigned", "staging", "awaitingStart"}
  /\ job[j].settlement # "notRequired"

\* An open operation of a Job is the one the Job waits for, and the Job's state is
\* one in which its outcome will be understood; no two operations of a Job are open.
LinkedOps == \A o \in Ops : status[o] = "open" =>
  LET r == job[link[o].job] IN
  /\ r.active = o
  /\ link[o].kind = "upload" <=> r.state = "staging"
  /\ link[o].kind = "start" <=> r.state = "starting"
  /\ link[o].kind \in Controls => r.state \in OnHost \cup {"outcomeUnknown"} \cup Terminal

\* The print a Job is tracked by began after the Job's start was checked, and is the
\* one that start made, or one nobody can tell from it: started at the host by
\* somebody else, by a start that took effect after it was resolved, or for another
\* Printer that had this host in between.
PinIsOurs == \A j \in Jobs : job[j].pin # 0 =>
  LET o == job[j].start  print == Prints(link[o].conn)[job[j].pin] IN
  /\ job[j].pin > link[o].mark
  /\ print.by \in {o, None} \/ print.late \/ owner[print.by] # owner[o]

\* Two Jobs of a Printer are never tracked by one print.
PinsDistinct == \A i, j \in Jobs :
  i # j /\ job[i].pin # 0 /\ job[j].pin # 0 /\ job[i].printer = job[j].printer =>
    \/ job[i].pin # job[j].pin
    \/ link[job[i].start].conn # link[job[j].start].conn

\* What the tracker ends on its own, it ends as the host its start went to recorded
\* it, even when the Printer's Connection has since been changed to another host.
EndIsProved ==
  [][\A j \in Jobs : poll.job = j /\ poll' = NoPoll /\ job[j].state \in OnHost
                     /\ job'[j].state \in Terminal =>
       Prints(link[job[j].start].conn)[job'[j].pin].status = job'[j].state]_vars

\* A Job that is said to have been cancelled at the host was not cancelled by an
\* operation of its own whose answer had not come in yet.
CancelReasonTrue == \A j \in Jobs : job[j].state = "cancelled" /\ job[j].reason = "host" =>
  LET ender == Prints(link[job[j].start].conn)[job[j].pin].ender IN
  ender = None \/ link[ender].job # j \/ link[ender].kind # "cancel"

\* Nobody watching: the driver starts a Job at most once, and never one whose start
\* was tried before.
UnattendedOnce == \A o, q \in Ops, j \in Jobs :
  StartOf(o, j) /\ link[o].caller = Driver /\ StartOf(q, j) => o <= q

\* A start names a file its own Job staged, and the Job staged nothing since.
StartsOwnUpload == \A o \in Ops : status[o] # "none" /\ link[o].kind = "start" =>
  LET u == link[o].source IN
  /\ u # None /\ status[u] = "succeeded" /\ link[u].kind = "upload" /\ link[u].job = link[o].job
  /\ \A q \in Ops : u < q /\ q < o => link[q].kind # "upload" \/ link[q].job # link[o].job

\* What a start names and what it is tracked by are its Job's own.
StartIsOwn == StartsOwnUpload /\ PinIsOurs

\* Of the entries that follow one another by release and retry only the newest can
\* be open: no work is in the queue twice.
OneOpenPerLineage == \A e \in Jobs : Successor(e) # {} =>
  entry[e].state = "closed" /\ Cardinality(Successor(e)) = 1

\* No print stands for two Jobs and no work for two entries.
NothingTwice == PinsDistinct /\ OneOpenPerLineage

\* A late outcome, poll or command changes nothing of how a Job ended, and its
\* settlement only moves on.
TerminalFinal ==
  [][\A j \in Jobs : job[j].state \in Terminal =>
       /\ job'[j].state = job[j].state /\ job'[j].reason = job[j].reason
       /\ job'[j].pin = job[j].pin /\ job'[j].start = job[j].start
       /\ job'[j].settlement # job[j].settlement =>
            <<job[j].settlement, job'[j].settlement>> \in
              {<<"pending", "deferred">>, <<"pending", "settled">>, <<"deferred", "settled">>}]_vars

\* An operation that is resolved stops being one its Job waits for, unless the Job ends.
OutcomeApplied == \A j \in Jobs, o \in Ops :
  status[o] \in W!Closed /\ job[j].active = o ~> job[j].active # o \/ ~Active(j)

\* A Job whose own print has ended does not stay on the host: it ends, its outcome
\* becomes unknown, or it is marked unreachable, so that an operator can declare it.
Tracked == \A j \in Jobs :
  (/\ job[j].state \in OnHost
   /\ \E i \in PrintsBy(printer[job[j].printer].conn, j) :
        Prints(printer[job[j].printer].conn)[i].status # "running")
  ~> (job[j].state \notin OnHost \/ job[j].unreachable # "no")

\* No active Job waits for an operation that is resolved, nor prints for ever at a host that
\* is done, also when the app restarts meanwhile.
NothingHangs == OutcomeApplied /\ Tracked
=============================================================================

----------------------------- MODULE Attention -----------------------------
(***************************************************************************)
(* What needs a person's attention on one Printer (src/src-tauri/src/      *)
(* attention/, incidents/): passes that compare what the farm's tables and *)
(* the live status show (observe.rs) with the Events already raised        *)
(* (plan.rs), and raise, acknowledge and resolve Events and open, reopen   *)
(* and close Incidents in one transaction (projector.rs); what wakes a     *)
(* pass (services.rs); the startup backfill; and the operator's commands.  *)
(*                                                                         *)
(* The Jobs, their material requirements, the status and the Printer's     *)
(* lifecycle change under the projector's feet: they are its inputs.  A    *)
(* change is committed first and announced afterwards, by Announce.        *)
(***************************************************************************)
EXTENDS Integers, Sequences, FiniteSets, FiniteSetsExt, SequencesExt

CONSTANTS
    Prints,   \* the Printer's Jobs, numbered in the order they are created
    Spends    \* bounds: changes of the status, of the Printer and by commands, failed passes, crashes

ASSUME AttentionAssumption ==
    /\ Prints \subseteq Nat \ {0} /\ IsFiniteSet(Prints)
    /\ Spends \subseteq [shows : Nat, prints : Nat, lives : Nat, asks : Nat, faults : Nat, crashes : Nat]

VARIABLES
    printJob,   \* jobs: where each Job is
    material,   \* its materialReconciliation requirement
    live,       \* the supervisor's status of the Printer
    life,       \* the printers row: active, archived or deleted
    unattended, \* its start_safety: a Job may start with nobody there
    refused,    \* Jobs that carry a last_failure of their start
    event,      \* attention_events
    incident,   \* incidents, each named by the Event that opened it
    watch,      \* PrinterWatch: unreachable, and whether for longer than the grace
    proj,       \* the projector task
    unsaid,     \* a committed change is not announced yet
    woken,      \* a wake waits for the projector
    spend       \* what is left of the bounds

safety == <<unattended, refused>>
inputs == <<printJob, material, live, life, safety>>
projection == <<event, incident>>
attention == <<inputs, projection, watch, proj, unsaid, woken, spend>>

Nobody == 0
Ended == {"completed", "failed", "hostCancelled", "closed"}   \* closed: any other end
Reaches == {"unknown", "unreachable", "misconfigured", "reachable"}
NoLive == [reach |-> "unknown", op |-> "unknown", file |-> Nobody]
Idle == [pc |-> "idle", seen |-> NoLive, late |-> FALSE, armed |-> FALSE, failed |-> FALSE]
---------------------------------------------------------------------------
(* ConditionKind::spec: the catalogue.  spool.low, which has the lifecycle *)
(* of printer.connectionError and no Incident, is left out.                *)

PrinterKinds == {"offline", "connectionError", "hostFailed"}
Recurring == PrinterKinds \cup {"startConfirmation"}
Manual == {"jobFailed", "hostCancelled"}
OpensOrLinksJob == Manual \cup {"outcomeUnknown"}
LinksJob == {"startConfirmation", "material"}
Informs == {"jobCompleted"}

OpenEvents == {e \in DOMAIN event : event[e].open}
About(key) == {e \in DOMAIN event : event[e].key = key}
IncidentOf(j) == {i \in DOMAIN incident : incident[i].job = j}
Latest == Max({j \in Prints : printJob[j] # "none"} \cup {Nobody})
---------------------------------------------------------------------------
(* observe.rs: what a pass sees                                            *)

Applicable == life = "active"

(* A Job that still carries, or carried, the failure its host shows.       *)
Covered(s) == /\ s.file # Nobody /\ s.file = Latest
              /\ printJob[s.file] \in {"running", "outcomeUnknown", "failed"}

(* A Job that waits for a person: on an unattended Printer, only one whose *)
(* start was refused or failed.                                            *)
Confirms(j) == printJob[j] = "awaitingStart" /\ (~unattended \/ j \in refused)

Finished(s, j) == s.op = "finished" /\ s.file = j

\* Mutant: a failure is only looked at while its Job is the Printer's latest.
InViewLatest(j) ==
  /\ printJob[j] # "none"
  /\ printJob[j] \notin Ended \/ j = Latest \/ material[j] \in {"pending", "deferred"}

(* read_view: the Jobs a pass looks at; a failure without an Event is      *)
(* looked at however old.                                                  *)
InView(j) ==
  /\ printJob[j] # "none"
  /\ \/ printJob[j] \notin Ended \/ j = Latest
     \/ material[j] \in {"pending", "deferred"}
     \/ \E e \in OpenEvents : event[e].key[2] = j
     \/ printJob[j] = "failed" /\ About(<<"jobFailed", j>>) = {}
     \/ printJob[j] = "hostCancelled" /\ About(<<"hostCancelled", j>>) = {}

PrinterPresent(s, over) ==
  {<<k, Nobody>> : k \in {k \in PrinterKinds :
     /\ Applicable
     /\ \/ k = "offline" /\ s.reach = "unreachable" /\ over
        \/ k = "connectionError" /\ s.reach = "misconfigured"
        \/ k = "hostFailed" /\ s.reach = "reachable" /\ s.op = "failed" /\ ~Covered(s)}}

PrinterAbsent(s) ==
  {<<k, Nobody>> : k \in {k \in PrinterKinds :
     \/ life = "archived"
     \/ /\ Applicable
        /\ \/ k = "offline" /\ s.reach \in {"misconfigured", "reachable"}
           \/ k = "connectionError" /\ s.reach = "reachable"
           \/ /\ k = "hostFailed" /\ s.reach = "reachable"
              /\ s.op # "unknown" /\ (s.op = "failed" => Covered(s))}}

JobPresent(s, j) ==
  {<<k, j>> : k \in {k \in Manual \cup LinksJob \cup {"outcomeUnknown", "jobCompleted"} :
     \/ k = "startConfirmation" /\ Confirms(j)
     \/ k = "jobFailed" /\ printJob[j] = "failed"
     \/ k = "hostCancelled" /\ printJob[j] = "hostCancelled"
     \/ k = "outcomeUnknown" /\ printJob[j] = "outcomeUnknown"
     \/ k = "material" /\ material[j] \in {"pending", "deferred"}
     \/ /\ k = "jobCompleted" /\ printJob[j] = "completed" /\ j = Latest /\ life # "archived"
        /\ s.reach = "reachable" /\ Finished(s, j)}}

JobAbsent(s, j) ==
  {<<k, j>> : k \in {k \in Manual \cup LinksJob \cup {"outcomeUnknown", "jobCompleted"} :
     \/ k = "startConfirmation" /\ ~Confirms(j)
     \/ k = "jobFailed" /\ printJob[j] # "failed"
     \/ k = "hostCancelled" /\ printJob[j] # "hostCancelled"
     \/ k = "outcomeUnknown" /\ printJob[j] # "outcomeUnknown"
     \/ k = "material" /\ material[j] = "resolved"
     \/ /\ k = "jobCompleted"
        /\ \/ printJob[j] # "completed" \/ j # Latest \/ life = "archived"
           \/ s.reach = "reachable" /\ s.op # "unknown" /\ ~Finished(s, j)}}

Present(s, over) == PrinterPresent(s, over) \cup UNION {JobPresent(s, j) : j \in {j \in Prints : InView(j)}}
Absent(s) == PrinterAbsent(s) \cup UNION {JobAbsent(s, j) : j \in {j \in Prints : InView(j)}}
---------------------------------------------------------------------------
(* plan: what a pass does about it                                         *)

\* Mutant: what a person resolved is raised again while its cause is there.
InsertedAgain(s, over) == {key \in Present(s, over) : About(key) \cap OpenEvents = {}}

Inserted(s, over) ==
  {key \in Present(s, over) : About(key) \cap OpenEvents = {} /\ (key[1] \in Recurring \/ About(key) = {})}

Resolved(s) == {e \in OpenEvents : event[e].key \in Absent(s) /\ event[e].key[1] \notin Manual}

Acknowledged == {e \in OpenEvents : event[e].key[1] = "material" /\ material[event[e].key[2]] = "deferred"
                                    /\ ~event[e].acked}
---------------------------------------------------------------------------
(* close_if_settled: an open Incident has an open Event that asks for      *)
(* something.                                                              *)
Unsettled(rows, i) == \E e \in DOMAIN rows : rows[e].incident = i /\ rows[e].open /\ rows[e].key[1] \notin Informs

(* apply: one transaction.  opened are the Incidents this pass opens, each *)
(* named by its Event; home is the Incident an inserted Event is put in.   *)

OpensIncident(key) == key[1] = "hostFailed" \/ (key[1] \in OpensOrLinksJob /\ IncidentOf(key[2]) = {})

Apply(s, over) ==
  LET new == SetToSeq(Inserted(s, over))
      old == Len(event)
      Key(e) == new[e - old]
      inserts == old + 1..old + Len(new)
      opened == {e \in inserts : OpensIncident(Key(e))}
      JobsHome(j) == IncidentOf(j) \cup {e \in opened : Key(e)[2] = j}
      Home(e) == CASE e \in opened -> e
                   [] e \notin opened /\ Key(e)[1] \in OpensOrLinksJob \cup LinksJob ->
                        Max(JobsHome(Key(e)[2]) \cup {Nobody})
                   [] OTHER -> Nobody
      resolved == Resolved(s)
      acked == Acknowledged
      rows == [e \in 1..old |-> [event[e] EXCEPT !.open = @ /\ e \notin resolved,
                                                 !.acked = @ \/ e \in acked]]
              \o [n \in 1..Len(new) |->
                    [key |-> new[n], open |-> TRUE, incident |-> Home(old + n),
                     acked |-> new[n][1] = "material" /\ material[new[n][2]] = "deferred",
                     recurs |-> Max(About(new[n]) \cup {Nobody})]]
      linked == {Home(e) : e \in inserts}
      touched == linked \cup {event[e].incident : e \in resolved \cup acked}
  IN /\ event' = rows
     /\ incident' = [i \in DOMAIN incident \cup opened |->
          [job |-> IF i \in opened THEN Key(i)[2] ELSE incident[i].job,
           open |-> /\ i \in linked \/ incident[i].open
                    /\ i \in touched => Unsettled(rows, i)]]
---------------------------------------------------------------------------
(* The inputs: the Jobs (jobs/state.rs), their settlement, the status, the *)
(* Printer's lifecycle.  Each says so after its commit.                    *)

Spending(what) == spend[what] > 0 /\ spend' = [spend EXCEPT ![what] = @ - 1]
Serving == proj.pc \in {"ready", "idle", "drained", "read"}
Goes == [none |-> {"assigned"}, assigned |-> {"awaitingStart", "closed"},
         awaitingStart |-> {"assigned", "running", "closed"},
         running |-> {"awaitingStart", "outcomeUnknown"} \cup Ended, outcomeUnknown |-> {"closed"}]

(* A Job moves; a failed or cancelled print leaves its material to settle. *)
(* A start that failed leaves its failure, an upload that succeeded clears *)
(* it.                                                                     *)
JobMoves(j, to) ==
  /\ printJob[j] \notin Ended /\ to \in Goes[printJob[j]]
  /\ printJob[j] = "none" => /\ \A k \in Prints : k < j => printJob[k] \in Ended
                             /\ life = "active"
  /\ printJob' = [printJob EXCEPT ![j] = to]
  /\ refused' = IF to # "awaitingStart" THEN refused
                ELSE IF printJob[j] = "running" THEN refused \cup {j} ELSE refused \ {j}
  /\ \E m \in {"none", "pending"} :
       /\ m = "pending" => to \in Ended \ {"completed"} /\ printJob[j] \in {"running", "outcomeUnknown"}
       /\ m = "none" => to \notin {"failed", "hostCancelled"}
       /\ material' = [material EXCEPT ![j] = m]

(* jobs::recover_after_restart runs before the backfill and tells nobody.  *)
JobChanges ==
  \E j \in Prints, to \in Ended \cup {"assigned", "awaitingStart", "running", "outcomeUnknown"} :
    /\ Spending("prints") /\ JobMoves(j, to)
    /\ \/ Serving /\ unsaid' = TRUE
       \/ proj.pc = "down" /\ printJob[j] = "running" /\ to = "outcomeUnknown" /\ UNCHANGED unsaid
    /\ UNCHANGED <<live, life, unattended, projection, watch, proj, woken>>

(* record_refusal: the driver may not start the Job by itself.             *)
StartRefused ==
  /\ Serving /\ Spending("prints")
  /\ \E j \in Prints : printJob[j] = "awaitingStart" /\ j \notin refused /\ refused' = refused \cup {j}
  /\ unsaid' = TRUE /\ UNCHANGED <<printJob, material, live, life, unattended, projection, watch, proj, woken>>

MaterialChanges ==
  /\ Serving /\ Spending("asks")
  /\ \E j \in Prints, to \in {"deferred", "resolved"} :
       /\ material[j] = "pending" \/ (material[j] = "deferred" /\ to = "resolved")
       /\ material' = [material EXCEPT ![j] = to]
  /\ unsaid' = TRUE /\ UNCHANGED <<printJob, live, life, safety, projection, watch, proj, woken>>

(* A status names a file only of a Job that was sent to the host.          *)
Statuses ==
  {[reach |-> r, op |-> "unknown", file |-> Nobody] : r \in Reaches}
  \cup {[reach |-> "reachable", op |-> "busy", file |-> Nobody]}
  \cup [reach : {"reachable"}, op : {"finished", "failed"},
        file : {Nobody} \cup {j \in Prints : printJob[j] \in {"running", "outcomeUnknown"} \cup Ended}]

StatusChanges ==
  /\ Serving /\ life = "active" /\ Spending("shows")
  /\ \E s \in Statuses : s # live /\ live' = s
  /\ unsaid' = TRUE /\ UNCHANGED <<printJob, material, life, safety, projection, watch, proj, woken>>

(* update_printer                                                          *)
EditStartSafety ==
  /\ Serving /\ life # "deleted" /\ Spending("lives")
  /\ unattended' = ~unattended
  /\ unsaid' = TRUE /\ UNCHANGED <<printJob, material, live, life, refused, projection, watch, proj, woken>>

ArchiveOrUnarchive ==
  /\ Serving /\ Spending("lives")
  /\ life' = IF life = "active" THEN "archived" ELSE "active"
  /\ life = "active" => \A j \in Prints : printJob[j] \in Ended \cup {"none"}
  /\ life # "deleted" /\ live' = NoLive
  /\ unsaid' = TRUE /\ UNCHANGED <<printJob, material, safety, projection, watch, proj, woken>>

(* resolve_printer_events, in the deletion's transaction: IncidentBlockers *)
(* and the Jobs' history stop it when there is anything to lose.           *)
DeletePrinter ==
  /\ Serving /\ life # "deleted" /\ Spending("lives")
  /\ incident = <<>> /\ \A j \in Prints : printJob[j] = "none"
  /\ life' = "deleted" /\ live' = NoLive
  /\ event' = [e \in DOMAIN event |-> [event[e] EXCEPT !.open = FALSE]]
  /\ unsaid' = TRUE /\ UNCHANGED <<printJob, material, safety, incident, watch, proj, woken>>

Announce ==
  /\ Serving /\ unsaid /\ unsaid' = FALSE
  /\ woken' = (proj.pc # "ready" \/ woken)
  /\ UNCHANGED <<inputs, projection, watch, proj, spend>>
---------------------------------------------------------------------------
(* commands.rs: acknowledge_attention_event, resolve_attention_event       *)

AcknowledgeEvent ==
  /\ Serving /\ Spending("asks")
  /\ \E e \in OpenEvents : ~event[e].acked /\ event' = [event EXCEPT ![e].acked = TRUE]
  /\ UNCHANGED <<inputs, incident, watch, proj, unsaid, woken>>

\* Mutant: the Incident is settled by the Events as they were before the command.
CloseAsBefore(rows, i) ==
  [n \in DOMAIN incident |-> IF n = i THEN [incident[n] EXCEPT !.open = @ /\ Unsettled(event, n)] ELSE incident[n]]

CloseIfSettled(rows, i) ==
  [n \in DOMAIN incident |-> IF n = i THEN [incident[n] EXCEPT !.open = @ /\ Unsettled(rows, n)] ELSE incident[n]]

ResolveEvent ==
  /\ Serving /\ Spending("asks")
  /\ \E e \in OpenEvents :
       /\ event[e].key[1] \in Manual
       /\ event' = [event EXCEPT ![e].open = FALSE]
       /\ incident' = CloseIfSettled(event', event[e].incident)
  /\ UNCHANGED <<inputs, watch, proj, unsaid, woken>>
---------------------------------------------------------------------------
(* The projector task: drain the wakes, read the clock and the status,     *)
(* then one transaction over the tables.                                   *)

(* What wakes it: an announcement, the deadline, or the safety tick, which *)
(* may come whenever it is idle.                                           *)
Drain ==
  /\ proj.pc = "idle" /\ proj' = [proj EXCEPT !.pc = "drained"]
  /\ woken' = FALSE /\ UNCHANGED <<inputs, projection, watch, unsaid, spend>>

ReadStatus ==
  /\ proj.pc = "drained"
  /\ proj' = [proj EXCEPT !.pc = "read", !.seen = live, !.late = (watch = "over")]
  /\ UNCHANGED <<inputs, projection, watch, unsaid, woken, spend>>

UpdateWatch(s) ==
  CASE ~Applicable \/ s.reach \in {"misconfigured", "reachable"} -> "clear"
    [] Applicable /\ s.reach = "unreachable" /\ watch = "clear" -> "within"
    [] OTHER -> watch

(* next_deadline: a grace that had not passed when the clock was read; one *)
(* that has passed since wakes the task at once.                           *)
Waits(s, over) == Applicable /\ s.reach = "unreachable" /\ ~over

RunPass ==
  /\ proj.pc = "read"
  /\ LET s == proj.seen
         over == proj.late /\ watch = "over"
     IN /\ watch' = UpdateWatch(s)
        /\ Apply(s, over)
        /\ proj' = [Idle EXCEPT !.armed = Waits(s, over)]
        /\ woken' = (woken \/ (Waits(s, over) /\ watch' = "over"))
  /\ UNCHANGED <<inputs, unsaid, spend>>

(* Both attempts fail: nothing is written, but the watch in memory moved.  *)
PassFails ==
  /\ proj.pc = "read" /\ Spending("faults")
  /\ watch' = UpdateWatch(proj.seen)
  /\ proj' = [proj EXCEPT !.pc = "idle", !.failed = TRUE]
  /\ UNCHANGED <<inputs, projection, unsaid, woken>>

GraceEnds ==
  /\ Serving /\ watch = "within" /\ watch' = "over"
  /\ woken' = (woken \/ proj.armed) /\ proj' = [proj EXCEPT !.armed = FALSE]
  /\ UNCHANGED <<inputs, projection, unsaid, spend>>

Crash ==
  /\ Serving /\ Spending("crashes")
  /\ proj' = [Idle EXCEPT !.pc = "down"] /\ watch' = "clear" /\ live' = NoLive
  /\ unsaid' = FALSE /\ woken' = FALSE
  /\ UNCHANGED <<printJob, material, life, safety, projection>>

(* projector.rs backfill, before any command is served: no live status.    *)
Backfill ==
  /\ proj.pc = "down" /\ Apply(NoLive, FALSE)
  /\ proj' = [proj EXCEPT !.pc = "ready"]
  /\ UNCHANGED <<inputs, watch, unsaid, woken, spend>>

(* start: it subscribes, and its first action is a pass.                   *)
StartProjector ==
  /\ proj.pc = "ready" /\ proj' = [proj EXCEPT !.pc = "drained"]
  /\ UNCHANGED <<inputs, projection, watch, unsaid, woken, spend>>

AttentionInit ==
  /\ printJob = [j \in Prints |-> "none"] /\ material = [j \in Prints |-> "none"]
  /\ live = NoLive /\ life = "active" /\ unattended \in BOOLEAN /\ refused = {}
  /\ event = <<>> /\ incident = <<>> /\ watch = "clear"
  /\ proj = [Idle EXCEPT !.pc = "down"] /\ unsaid = FALSE /\ woken = FALSE
  /\ spend \in Spends

Projecting == Drain \/ ReadStatus \/ RunPass \/ PassFails \/ GraceEnds \/ Crash \/ Backfill \/ StartProjector

AttentionNext ==
  \/ JobChanges \/ StartRefused \/ MaterialChanges \/ StatusChanges
  \/ EditStartSafety \/ ArchiveOrUnarchive \/ DeletePrinter
  \/ Announce \/ AcknowledgeEvent \/ ResolveEvent \/ Projecting

AttentionSpec == AttentionInit /\ [][AttentionNext]_attention
---------------------------------------------------------------------------
(* Properties                                                              *)

Named(kind, j) == About(<<kind, j>>)
IsOpen(kind, j) == Named(kind, j) \cap OpenEvents # {}

(* When nothing wakes the projector and its last pass did not fail, every  *)
(* end a person must see is an Event, whatever was missed meanwhile, and   *)
(* what is open is still so: each uncertain outcome, each unsettled        *)
(* material (acknowledged once deferred), each start a person must confirm *)
(* or put right, a host's failure unless the Printer's latest Job carries  *)
(* it, a lost host once the grace is over.                                 *)
Reported ==
  proj.pc = "idle" /\ ~proj.failed /\ ~woken /\ ~unsaid =>
    /\ \A j \in Prints :
         /\ printJob[j] = "failed" => Named("jobFailed", j) # {}
         /\ printJob[j] = "hostCancelled" => Named("hostCancelled", j) # {}
         /\ IsOpen("outcomeUnknown", j) <=> printJob[j] = "outcomeUnknown"
         /\ IsOpen("startConfirmation", j) <=> Confirms(j)
         /\ IsOpen("material", j) <=> material[j] \in {"pending", "deferred"}
         /\ \A e \in Named("material", j) : material[j] = "deferred" => event[e].acked
         /\ IsOpen("jobCompleted", j) => printJob[j] = "completed" /\ j = Latest
    /\ live.reach = "reachable" /\ live.op = "failed" /\ life = "active" =>
         IsOpen("hostFailed", Nobody) \/ Covered(live)
    /\ live.reach = "unreachable" /\ watch = "over" /\ life = "active" => IsOpen("offline", Nobody)
    /\ live.reach = "reachable" \/ life # "active" =>
         ~IsOpen("offline", Nobody) /\ ~IsOpen("connectionError", Nobody)

(* An Incident is open exactly while an Event in it still asks for         *)
(* something, however passes and commands interleave; a Job has at most    *)
(* one, and every Event about how it ended is in it.                       *)
IncidentsFollow ==
  /\ \A i \in DOMAIN incident : incident[i].open <=> Unsettled(event, i)
  /\ \A i, k \in DOMAIN incident : incident[i].job = incident[k].job /\ incident[i].job # Nobody => i = k
  /\ \A e \in DOMAIN event :
       /\ event[e].key[1] \in OpensOrLinksJob \cup {"hostFailed"} => event[e].incident # Nobody
       /\ event[e].incident # Nobody => /\ event[e].incident \in DOMAIN incident
                                        /\ incident[event[e].incident].job = event[e].key[2]

(* No condition has two open Events; one that is reported once per source  *)
(* is never reported again, not after it was resolved and not after a      *)
(* restart; a recurrence names the Event it follows.                       *)
RaisedOnce ==
  \A e, f \in DOMAIN event : e < f /\ event[e].key = event[f].key =>
    /\ ~event[e].open /\ event[e].key[1] \in Recurring
    /\ event[f].recurs # Nobody /\ event[f].recurs >= e

Consistent == IncidentsFollow /\ RaisedOnce
=============================================================================

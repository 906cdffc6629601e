------------------------------- MODULE Queue -------------------------------
(***************************************************************************)
(* The Queue and its automatic evaluator: the entries and their dense      *)
(* positions (queue/repository.rs), the gates an assignment passes         *)
(* (queue/eligibility.rs), the assignment itself (jobs/assign.rs) and the  *)
(* task that assigns Automatic entries (queue/evaluator.rs).               *)
(*                                                                         *)
(* A command is one transaction, then one poke of the evaluator; the       *)
(* evaluator reads, proposes and assigns in separate steps.  A pass and an *)
(* assignment copy the live statuses before the transaction that reads the *)
(* rows, so what they see of a status may be old.  Left out: the           *)
(* ranking of candidates (any may be the top one), the summaries and their *)
(* wording, stale revisions and replays (such a command writes nothing).   *)
(***************************************************************************)
EXTENDS Integers, Sequences, FiniteSets, FiniteSetsExt, Functions

CONSTANTS
    MaxEntries,   \* bound: entries ever created
    Slices, Printers, Spools,
    None, Storage,
    Estimate,     \* [Slices -> Nat]: the material one copy needs
    Absent,       \* the Slices that lack a profile or a material fact
    Fits,         \* the <<Slice, Printer>> whose profile and capabilities match
    Suits,        \* the <<Slice, Spool>> whose material matches
    Proven,       \* the Printers whose adapter evidence is first tier
    Park,         \* 1 000 000, the parking offset
    MaxMg,        \* bound: what a Spool holds
    PumpKeepsUp,  \* bound: a status changes only once its last change is handled
    Asked,        \* bound: the <<Slice, policy, pin>> that entries are added with
    Plans         \* bounds: how many calls of each kind are made

Kinds == {"add", "edit", "move", "remove", "assign", "release", "end", "retry",
          "status", "foreign", "archive", "spool", "fault", "restart"}
Policies == {"automatic", "recommended", "manual"}
Statuses == {"ready", "printing", "stale", "offline"}
Entries == 1..MaxEntries

ASSUME QueueAssumption ==
    /\ MaxEntries \in Nat \ {0} /\ Park \in Nat /\ Park > MaxEntries
    /\ Estimate \in [Slices -> Nat \ {0}]
    /\ Absent \subseteq Slices /\ Proven \subseteq Printers
    /\ Fits \subseteq Slices \X Printers /\ Suits \subseteq Slices \X Spools
    /\ None \notin Printers \cup Spools \cup Slices /\ Storage \notin Printers
    /\ PumpKeepsUp \in BOOLEAN /\ MaxMg \in Nat
    /\ Asked \subseteq Slices \X Policies \X (Printers \cup {None})
    /\ Plans \subseteq [Kinds -> Nat]

VARIABLES
    entry,     \* the queue_entries rows; an assigned entry is its active Job too
    printer,   \* what gate 1 reads of each Printer
    spool,     \* where each Spool is, what it holds, whether it is Active
    chan,      \* the trigger channel, of capacity one
    due,       \* a change is committed and its poke not delivered yet
    heard,     \* Printers whose status notification the pump has not handled
    seen,      \* the facts the pump last compared with
    ev,        \* the evaluator task, with its copy of the statuses
    asked,     \* the operator's assignment under way: its Printer, and its copy of the status
    strikes,   \* runs in a row that asked for another (history, up to 2)
    last,      \* the last assignment (history)
    budget     \* calls left, by kind

rows == <<entry, printer, spool>>
vars == <<rows, chan, due, heard, seen, ev, strikes, last, asked, budget>>

NoEntry == [state |-> "absent", pos |-> 0, policy |-> "manual", pin |-> None, slice |-> None,
            origin |-> 0, printer |-> None, spool |-> None, end |-> "none"]
Off == [pc |-> "off", claimed |-> {}, refused |-> {}, pick |-> <<>>, repoked |-> FALSE,
        shown |-> [p \in Printers |-> "offline"]]
Nobody == [printer |-> None, status |-> "offline"]

Open == {e \in Entries : entry[e].state \in {"queued", "assigned"}}
Queued == {e \in Entries : entry[e].state = "queued"}
Spend(kind) == budget[kind] > 0 /\ budget' = [budget EXCEPT ![kind] = @ - 1]
---------------------------------------------------------------------------
(* Positions.  A statement maps every open entry's position to a new one.  *)

Positions == [e \in Open |-> entry[e].pos]

\* Mutant: the range is shifted in place, with no parking.
ShiftUnparked(pos, lo, hi, up) ==
    <<[e \in DOMAIN pos |-> IF pos[e] \in lo..hi THEN IF up THEN pos[e] + 1 ELSE pos[e] - 1
                                                ELSE pos[e]]>>

(* shift_range: lo..hi is parked, then written one up or one down.         *)
ShiftRange(pos, lo, hi, up) ==
    LET parked == [e \in DOMAIN pos |-> IF pos[e] \in lo..hi THEN pos[e] + Park ELSE pos[e]]
        written == [e \in DOMAIN pos |->
                      IF parked[e] \in Park + 1..2 * Park - 1
                      THEN IF up THEN parked[e] - Park + 1 ELSE parked[e] - Park - 1
                      ELSE parked[e]]
    IN IF lo > hi THEN <<>> ELSE <<parked, written>>

Final(pos, steps) == IF steps = <<>> THEN pos ELSE steps[Len(steps)]

\* Mutant: the mover and the entry at its target change places.
SwapSteps(e, to) ==
    <<[x \in Open |-> IF x = e THEN to ELSE IF entry[x].pos = to THEN entry[e].pos ELSE entry[x].pos]>>

(* move_entry: the mover parks beyond the range, which shifts over its     *)
(* place, and is written to its new position.                              *)
MoveSteps(e, to) ==
    LET from == entry[e].pos
        parked == [Positions EXCEPT ![e] = @ + 2 * Park]
        shift == IF to > from THEN ShiftRange(parked, from + 1, to, FALSE)
                              ELSE ShiftRange(parked, to, from - 1, TRUE)
    IN IF from = to THEN <<>>
       ELSE <<parked>> \o shift \o <<[Final(parked, shift) EXCEPT ![e] = to]>>

(* close_and_renumber: the row leaves the order, every later one moves     *)
(* down one place.                                                         *)
CloseSteps(e) ==
    LET left == [x \in Open \ {e} |-> entry[x].pos]
        top == Max({left[x] : x \in DOMAIN left} \cup {0})
    IN IF entry[e].pos < top THEN ShiftRange(left, entry[e].pos + 1, top, FALSE) ELSE <<>>

\* Position is UNIQUE, and SQLite checks it as each row of a statement is written, in
\* any order: a row may take neither a position another keeps nor one another gives up.
Collides(old, new) ==
    \E x, y \in DOMAIN old : x # y /\ new[x] # old[x] /\ new[x] \in {old[y], new[y]}
StepsCollide(pos, steps) ==
    \E i \in DOMAIN steps : Collides(IF i = 1 THEN pos ELSE steps[i - 1], steps[i])

At(pos) == [e \in Entries |-> IF e \in DOMAIN pos THEN [entry[e] EXCEPT !.pos = pos[e]] ELSE entry[e]]
Top == Max({entry[e].pos : e \in Open} \cup {0})
Closed(e, end) == [entry[e] EXCEPT !.state = "closed", !.pos = 0, !.end = end]

(* apply with Remove or JobTerminal                                        *)
CloseAndRenumber(e, end) ==
    LET left == [x \in Open \ {e} |-> entry[x].pos]
    IN [At(Final(left, CloseSteps(e))) EXCEPT ![e] = Closed(e, end)]

New == Min(Entries \ {e \in Entries : entry[e].state # "absent"})
CanCreate == \E e \in Entries : entry[e].state = "absent"

(* create_linked: the replacement keeps the origin's Slice and choices.    *)
Linked(e, pos) ==
    [NoEntry EXCEPT !.state = "queued", !.pos = pos, !.policy = entry[e].policy,
                    !.pin = entry[e].pin, !.slice = entry[e].slice, !.origin = e]
---------------------------------------------------------------------------
(* The gates                                                               *)

HasJob(p) == \E e \in Entries : entry[e].state = "assigned" /\ entry[e].printer = p
Holders(s) == {e \in Entries : entry[e].state = "assigned" /\ entry[e].spool = s}
Reserved(s) == SumFunction([e \in Holders(s) |-> Estimate[entry[e].slice]])
Enough(s, need) == spool[s].mg >= Reserved(s) + need

(* LiveWorld: the supervisor's statuses as they are when they are copied.  *)
LiveWorld == [p \in Printers |-> printer[p].status]

(* gate1: the Printer, whose status was copied as this one, can be         *)
(* scheduled.                                                              *)
Schedulable(p, status, automatic, claimed) ==
    /\ ~printer[p].archived
    /\ status # "offline"
    /\ ~HasJob(p) /\ p \notin claimed
    /\ ~printer[p].foreign
    /\ status # "printing"
    /\ automatic => status = "ready"

(* gate2, gate3: the Slice's profile and the Printer's capabilities.       *)
Compatible(slice, p, automatic, tolerant) ==
    /\ slice \in Absent => tolerant
    /\ <<slice, p>> \in Fits
    /\ automatic => p \in Proven

(* is_relevant_to, spool_is_active_and_material_matches                    *)
Relevant(p, s) == spool[s].at \in {p, Storage}
Usable(slice, s) == spool[s].active /\ <<slice, s>> \in Suits

\* Mutant: the options of a Printer include what is loaded on another.
OptionsAnywhere(e, p) ==
    {s \in Spools : Usable(entry[e].slice, s) /\ Enough(s, Estimate[entry[e].slice])}

(* gate4: the Spools it offers.                                            *)
Options(e, p) ==
    {s \in Spools : /\ Relevant(p, s) /\ Usable(entry[e].slice, s)
                    /\ Enough(s, Estimate[entry[e].slice])
                    /\ entry[e].policy = "automatic" => spool[s].at = p}

(* evaluate, evaluate_printer: the Printers offered to an entry.           *)
Candidates(e, shown, claimed) ==
    LET automatic == entry[e].policy = "automatic"
        tolerant == entry[e].policy = "manual"
    IN {p \in Printers : /\ entry[e].pin \in {None, p}
                         /\ Schedulable(p, shown[p], automatic, claimed)
                         /\ Compatible(entry[e].slice, p, automatic, tolerant)
                         /\ Options(e, p) # {}}

\* Mutant: the re-check leaves the Printer's state to the pass.
CheckSpoolOnly(e, p, s, status, automatic, acknowledged) ==
    /\ ~HasJob(p)
    /\ Relevant(p, s) /\ Usable(entry[e].slice, s) /\ Enough(s, Estimate[entry[e].slice])

(* check_assignment: every gate again, for one Printer and one Spool.      *)
CheckAssignment(e, p, s, status, automatic, acknowledged) ==
    LET tolerant == entry[e].policy = "manual" /\ ~automatic /\ acknowledged
    IN /\ entry[e].pin \in {None, p}
       /\ Schedulable(p, status, automatic, {})
       /\ Compatible(entry[e].slice, p, automatic, tolerant)
       /\ Relevant(p, s) /\ Usable(entry[e].slice, s)
       /\ Enough(s, Estimate[entry[e].slice])
       /\ automatic => spool[s].at = p

(* assign: the entry becomes assigned and its Job reserves the Spool.      *)
Assigned(e, p, s) == [entry EXCEPT ![e] = [@ EXCEPT !.state = "assigned", !.printer = p, !.spool = s]]
Assignable(e, p, s, status, automatic, acknowledged) ==
    entry[e].state = "queued" /\ CheckAssignment(e, p, s, status, automatic, acknowledged)

(* host_ops.printer_lock, as far as it orders these steps: an assignment   *)
(* holds it from before it copies the statuses.                            *)
LockFree(p) == asked.printer # p /\ ~(ev.pc = "committing" /\ ev.pick[2] = p)
---------------------------------------------------------------------------
(* Pokes                                                                   *)

(* EvaluatorHandle::poke: a full channel drops the trigger.                *)
Deliver ==
    /\ due /\ due' = FALSE /\ chan' = 1
    /\ UNCHANGED <<rows, heard, seen, ev, strikes, last, asked, budget>>

\* publish after the commit: the poke follows, from the committing task.
PokeAfter == due' = TRUE

\* Commands come once the bootstrap is ready, after evaluator::start.
Ready == ev.pc \notin {"off", "subscribing"}
Quiet == UNCHANGED <<chan, heard, seen, ev, strikes>>
Command(kind) == Ready /\ Spend(kind) /\ PokeAfter /\ Quiet /\ UNCHANGED asked
Queueing(kind) == Command(kind) /\ UNCHANGED <<printer, spool, last>>
---------------------------------------------------------------------------
(* The Queue's commands                                                    *)

(* add_to_queue, one copy: an absent fact needs Manual and a pinned        *)
(* Printer, and only Manual may pin (check_policy).                        *)
AddToQueue(slice, policy, pin) ==
    /\ CanCreate /\ Queueing("add")
    /\ slice \in Absent => policy = "manual" /\ pin # None
    /\ pin # None => policy = "manual"
    /\ entry' = [entry EXCEPT ![New] = [NoEntry EXCEPT !.state = "queued", !.pos = Top + 1,
                                           !.policy = policy, !.pin = pin, !.slice = slice]]

(* update_queue_entry: a pinned entry stays Manual.                        *)
UpdateQueueEntry(e, policy) ==
    /\ entry[e].state = "queued" /\ policy # entry[e].policy
    /\ entry[e].pin = None /\ entry[e].slice \notin Absent
    /\ entry' = [entry EXCEPT ![e].policy = policy]
    /\ Queueing("edit")

MoveQueueEntry(e, to) ==
    /\ e \in Open /\ to \in 1..Cardinality(Open) /\ to # entry[e].pos
    /\ entry' = At(Final(Positions, MoveSteps(e, to)))
    /\ Queueing("move")

RemoveQueueEntry(e) ==
    /\ entry[e].state = "queued"
    /\ entry' = CloseAndRenumber(e, "removed")
    /\ Queueing("remove")

(* assign_queue_entry: under the Printer's lock the statuses are copied;   *)
(* then a transaction assigns the operator's choice, or refuses it.        *)
AskToAssign(p) ==
    /\ Ready /\ Spend("assign") /\ asked = Nobody /\ LockFree(p)
    /\ asked' = [printer |-> p, status |-> LiveWorld[p]]
    /\ Quiet /\ UNCHANGED <<rows, due, last>>
AssignQueueEntry(e, p, s, acknowledged) ==
    /\ asked.printer = p /\ Assignable(e, p, s, asked.status, FALSE, acknowledged)
    /\ entry' = Assigned(e, p, s)
    /\ last' = [entry |-> e, by |-> "operator", policy |-> entry[e].policy]
    /\ asked' = Nobody /\ PokeAfter /\ Quiet /\ UNCHANGED <<printer, spool, budget>>
RefuseToAssign ==
    /\ asked # Nobody /\ asked' = Nobody
    /\ Quiet /\ UNCHANGED <<rows, due, last, budget>>

(* release: the entry closes, and its replacement takes its place.         *)
ReleaseJob(e) ==
    /\ entry[e].state = "assigned" /\ LockFree(entry[e].printer) /\ CanCreate
    /\ entry' = [entry EXCEPT ![e] = Closed(e, "released"), ![New] = Linked(e, entry[e].pos)]
    /\ Queueing("release")

(* cancel_before_start, and a Job's end in the tracker and the settlement: *)
(* the Spool is charged with what was used, up to what it holds.           *)
JobEnds(e, used) ==
    /\ entry[e].state = "assigned" /\ LockFree(entry[e].printer)
    /\ used \in {0, Estimate[entry[e].slice]}
    /\ entry' = CloseAndRenumber(e, "ended")
    /\ spool' = [spool EXCEPT ![entry[e].spool].mg = IF @ < used THEN 0 ELSE @ - used]
    /\ Spend("end") /\ PokeAfter /\ Quiet /\ UNCHANGED <<printer, last, asked>>

(* retry: once, for a Job that ended otherwise than by a release.          *)
RetryJob(e) ==
    /\ entry[e].state = "closed" /\ entry[e].end = "ended" /\ CanCreate
    /\ ~\E x \in Entries : entry[x].origin = e
    /\ entry' = [entry EXCEPT ![New] = Linked(e, Top + 1)]
    /\ Queueing("retry")
---------------------------------------------------------------------------
(* What else eligibility reads                                             *)

Elsewhere == UNCHANGED <<chan, due, seen, ev, strikes, last, asked>>

(* The supervisor publishes a status and notifies whoever is subscribed.   *)
StatusChanges(p, status) ==
    /\ Spend("status") /\ ~printer[p].archived /\ status # printer[p].status
    /\ PumpKeepsUp => p \notin heard /\ ev.pc # "subscribing"
    /\ printer' = [printer EXCEPT ![p].status = status]
    /\ heard' = IF Ready THEN heard \cup {p} ELSE heard
    /\ Elsewhere /\ UNCHANGED <<entry, spool>>

(* An operation of the Printer's own is dispatched; when it resolves, the  *)
(* evaluator hears of it.                                                  *)
ForeignOperation(p) ==
    /\ printer' = [printer EXCEPT ![p].foreign = ~@]
    /\ Spend("foreign") /\ due' = (due \/ printer[p].foreign)
    /\ Quiet /\ UNCHANGED <<entry, spool, last, asked>>

(* archive_with_outcome, unarchive: no active Job, no unresolved operation *)
(* and no Spool left in its slots.  Dropping the status of an archived     *)
(* Printer notifies nobody; supervising it again starts from connecting.   *)
ArchivePrinter(p) ==
    /\ printer[p].archived \/ (~HasJob(p) /\ ~printer[p].foreign)
    /\ printer' = [printer EXCEPT ![p].archived = ~@, ![p].status = "offline"]
    /\ spool' = [s \in Spools |-> IF spool[s].at = p THEN [spool[s] EXCEPT !.at = Storage] ELSE spool[s]]
    /\ PumpKeepsUp => p \notin heard
    /\ heard' = IF printer[p].archived THEN heard \cup {p} ELSE heard
    /\ Ready /\ Spend("archive") /\ PokeAfter
    /\ UNCHANGED <<entry, chan, seen, ev, strikes, last, asked>>

(* A Spool is moved or measured.  It is marked empty or archived only when *)
(* nothing is reserved (ensure_unreserved).                                *)
SpoolChanges(s, to) ==
    /\ to # spool[s] /\ to.at \in Printers => ~printer[to.at].archived
    /\ \A t \in Spools : spool[t].at = to.at /\ to.at # Storage => t = s
    /\ to.active # spool[s].active => Holders(s) = {}
    /\ spool' = [spool EXCEPT ![s] = to]
    /\ Command("spool") /\ UNCHANGED <<entry, printer, last>>
---------------------------------------------------------------------------
(* The evaluator                                                           *)

Inside == UNCHANGED <<rows, last, asked, budget>>

(* evaluator::start: the facts the status pump compares with are read      *)
(* before it subscribes.                                                   *)
ReadStatuses ==
    /\ ev.pc = "off"
    /\ seen' = [p \in Printers |-> printer[p].status]
    /\ ev' = [ev EXCEPT !.pc = "subscribing"]
    /\ Inside /\ UNCHANGED <<chan, due, heard, strikes>>
Subscribe ==
    /\ ev.pc = "subscribing"
    /\ ev' = [ev EXCEPT !.pc = "gated"] /\ chan' = 1
    /\ Inside /\ UNCHANGED <<due, heard, seen, strikes>>

(* run_task waits for the driver's first pass and the host-operation one.  *)
GatesOpen ==
    /\ ev.pc = "gated" /\ ev' = [ev EXCEPT !.pc = "idle"]
    /\ Inside /\ UNCHANGED <<chan, due, heard, seen, strikes>>

(* pump, status_trigger: what is compared is the status now.               *)
StatusTrigger(p) ==
    /\ p \in heard /\ heard' = heard \ {p}
    /\ seen' = [seen EXCEPT ![p] = printer[p].status]
    /\ due' = (due \/ printer[p].status # seen[p])
    /\ Inside /\ UNCHANGED <<chan, ev, strikes>>

(* The task takes a trigger, then the ones that came meanwhile.            *)
Take ==
    /\ ev.pc = "idle" /\ chan = 1 /\ chan' = 0
    /\ ev' = [ev EXCEPT !.pc = "draining", !.claimed = {}, !.refused = {}]
    /\ Inside /\ UNCHANGED <<due, heard, seen, strikes>>
Drain ==
    /\ ev.pc = "draining" /\ chan' = 0 /\ ev' = [ev EXCEPT !.pc = "reading"]
    /\ Inside /\ UNCHANGED <<due, heard, seen, strikes>>

(* read_pass copies the statuses, then reads the rows in one transaction.  *)
LookAround ==
    /\ ev.pc = "reading" /\ ev' = [ev EXCEPT !.pc = "passing", !.shown = LiveWorld]
    /\ Inside /\ UNCHANGED <<chan, due, heard, seen, strikes>>

(* evaluate_pass: the first Automatic entry with a candidate, its          *)
(* candidate and one of that candidate's Spools.                           *)
Offered(e) == Candidates(e, ev.shown, ev.claimed)
Proposable == {e \in Queued \ ev.refused : entry[e].policy = "automatic" /\ Offered(e) # {}}
Proposals ==
    {pick \in Proposable \X Printers \X Spools :
        /\ \A x \in Proposable : entry[pick[1]].pos <= entry[x].pos
        /\ pick[2] \in Offered(pick[1]) /\ pick[3] \in Options(pick[1], pick[2])}

\* Mutant: a run that needs another look never asks for it.
NoRetry(needed) ==
    /\ ev' = [Off EXCEPT !.pc = "idle", !.repoked = needed]
    /\ UNCHANGED chan /\ strikes' = IF needed THEN Min({strikes + 1, 2}) ELSE 0

(* The run ends; Retry::after_run pokes once more after one that was       *)
(* refused or failed, not after the second in a row.                       *)
EndRun(needed) ==
    /\ ev' = [Off EXCEPT !.pc = "idle", !.repoked = needed]
    /\ chan' = IF needed /\ ~ev.repoked THEN 1 ELSE chan
    /\ strikes' = IF needed THEN Min({strikes + 1, 2}) ELSE 0

(* run_once: a pass over what one transaction reads.                       *)
Pass ==
    /\ ev.pc = "passing" /\ UNCHANGED <<due, heard, seen>> /\ Inside
    /\ IF Proposals = {} THEN EndRun(ev.refused # {})
       ELSE /\ \E pick \in Proposals : ev' = [ev EXCEPT !.pc = "assigning", !.pick = pick]
            /\ UNCHANGED <<chan, strikes>>

(* assign_proposal: under the Printer's lock the statuses are copied       *)
(* again; then everything is checked again, the rows inside the            *)
(* transaction.  Its changes wake the evaluator through the inventory      *)
(* broadcast.                                                              *)
LookAgain ==
    /\ ev.pc = "assigning" /\ LockFree(ev.pick[2])
    /\ ev' = [ev EXCEPT !.pc = "committing", !.shown = LiveWorld]
    /\ Inside /\ UNCHANGED <<chan, due, heard, seen, strikes>>
AssignProposal ==
    LET e == ev.pick[1]  p == ev.pick[2]  s == ev.pick[3]
        next == [ev EXCEPT !.pc = "reading", !.pick = <<>>]
    IN /\ ev.pc = "committing"
       /\ UNCHANGED <<printer, spool, chan, heard, seen, strikes, asked, budget>>
       /\ IF Assignable(e, p, s, ev.shown[p], TRUE, FALSE)
          THEN /\ entry' = Assigned(e, p, s)
               /\ last' = [entry |-> e, by |-> "evaluator", policy |-> entry[e].policy]
               /\ ev' = [next EXCEPT !.claimed = @ \cup {p}]
               /\ due' = TRUE
          ELSE /\ ev' = IF entry[e].state = "queued" THEN [next EXCEPT !.refused = @ \cup {e}] ELSE next
               /\ UNCHANGED <<entry, last, due>>

(* A storage error in either transaction ends the run.                     *)
RunFails ==
    /\ ev.pc \in {"passing", "committing"} /\ Spend("fault") /\ EndRun(TRUE)
    /\ UNCHANGED <<rows, due, heard, seen, last, asked>>

(* The app restarts: what was not persisted is gone.                       *)
Restart ==
    /\ Spend("restart") /\ ev' = Off /\ chan' = 0 /\ due' = FALSE /\ heard' = {} /\ strikes' = 0
    /\ asked' = Nobody /\ UNCHANGED <<rows, seen, last>>
---------------------------------------------------------------------------
Init ==
    /\ entry = [e \in Entries |-> NoEntry]
    /\ printer = [p \in Printers |-> [archived |-> FALSE, status |-> "ready", foreign |-> FALSE]]
    /\ spool \in [Spools -> [at : Printers \cup {Storage}, mg : {MaxMg}, active : {TRUE}]]
    /\ \A s, t \in Spools : s # t /\ spool[s].at = spool[t].at => spool[s].at = Storage
    /\ chan = 0 /\ due = FALSE /\ heard = {} /\ seen = [p \in Printers |-> "offline"]
    /\ ev = Off /\ asked = Nobody /\ strikes = 0 /\ last = [entry |-> 0, by |-> "nobody", policy |-> "automatic"]
    /\ budget \in Plans

Operator ==
    \/ \E ask \in Asked : AddToQueue(ask[1], ask[2], ask[3])
    \/ \E e \in Entries :
         \/ \E policy \in Policies : UpdateQueueEntry(e, policy)
         \/ \E to \in Entries : MoveQueueEntry(e, to)
         \/ RemoveQueueEntry(e) \/ ReleaseJob(e) \/ RetryJob(e)
         \/ \E used \in {0} \cup Range(Estimate) : JobEnds(e, used)
         \/ \E p \in Printers, s \in Spools, acknowledged \in BOOLEAN : AssignQueueEntry(e, p, s, acknowledged)
World ==
    \/ \E p \in Printers : \/ \E status \in Statuses : StatusChanges(p, status)
                            \/ ForeignOperation(p) \/ ArchivePrinter(p)
    \/ \E s \in Spools, at \in Printers \cup {Storage}, mg \in 0..MaxMg, active \in BOOLEAN :
         SpoolChanges(s, [at |-> at, mg |-> mg, active |-> active])
Asking == RefuseToAssign \/ \E p \in Printers : AskToAssign(p)
Evaluator ==
    \/ ReadStatuses \/ Subscribe \/ GatesOpen \/ Take \/ Drain
    \/ LookAround \/ Pass \/ LookAgain \/ AssignProposal
    \/ \E p \in Printers : StatusTrigger(p)

Next == Operator \/ Asking \/ World \/ Evaluator \/ Deliver \/ RunFails \/ Restart
Spec == Init /\ [][Next]_vars
---------------------------------------------------------------------------
(* Properties                                                              *)

\* The open entries hold exactly the positions 1..n, and no move or close
\* that a command may ask for next makes one of its statements meet the
\* UNIQUE constraint half way (D2's parking order).
PositionsDense ==
    /\ {entry[e].pos : e \in Open} = 1..Cardinality(Open)
    /\ \A e \in Open :
         /\ \A to \in 1..Cardinality(Open) : ~StepsCollide(Positions, MoveSteps(e, to))
         /\ ~StepsCollide([x \in Open \ {e} |-> entry[x].pos], CloseSteps(e))

\* One command changes the place of at most one entry: every other pair keeps
\* its order, and a released entry's replacement stands where it stood.
OrderKept ==
    [][/\ \E m \in Entries : \A x, y \in (Open \cap Open') \ {m} :
             entry[x].pos < entry[y].pos => entry'[x].pos < entry'[y].pos
       /\ \A x \in Open' \ Open : entry'[x].origin # 0 /\ entry'[entry'[x].origin].end = "released" =>
             \A y \in Open \cap Open' :
                entry[entry'[x].origin].pos < entry[y].pos <=> entry'[x].pos < entry'[y].pos]_vars

\* The status of p that the assignment about to commit has copied.
Copied(by, p) == IF by = "evaluator" THEN ev.shown[p] ELSE asked.status

\* An assignment, however old the proposal it came from, puts the only active Job
\* on a Printer that is neither archived nor busy with a write of its own, never
\* promises more of a Spool than it holds, and rests on a status, copied under the
\* Printer's lock before the rows were read, in which the Printer can be scheduled
\* (and is idle, its Spool loaded there, when the evaluator assigns).  What the
\* status has become since, nothing looks at.
AssignedSoundly ==
    [][\A e \in Entries, p \in Printers, s \in Spools :
         /\ entry[e].state = "queued" /\ entry'[e].state = "assigned"
         /\ p = entry'[e].printer /\ s = entry'[e].spool
         =>
         /\ {x \in Entries : entry'[x].state = "assigned" /\ entry'[x].printer = p} = {e}
         /\ Reserved(s)' <= spool[s].mg /\ spool[s].active /\ spool[s].at \in {p, Storage}
         /\ ~printer[p].archived /\ ~printer[p].foreign
         /\ Copied(last'.by, p) \in IF last'.by = "evaluator" THEN {"ready"} ELSE {"ready", "stale"}
         /\ last'.by = "evaluator" => spool[s].at = p /\ entry[e].slice \notin Absent
         /\ last'.by = "operator" => asked.printer = p
         /\ entry[e].pin \in {None, p}]_vars

\* What evaluate offers, check_assignment accepts: a proposal is refused only
\* because something changed after the pass read it, and an operator who picks any
\* offered Printer and Spool (acknowledging what is unconfirmed) is not turned down.
OffersHold ==
    \A e \in Queued : \A p \in Candidates(e, LiveWorld, {}) : \A s \in Options(e, p) :
        /\ CheckAssignment(e, p, s, LiveWorld[p], FALSE, TRUE)
        /\ entry[e].policy = "automatic" => CheckAssignment(e, p, s, LiveWorld[p], TRUE, FALSE)

\* No ready Automatic entry is left waiting for an unrelated change: when the
\* evaluator is idle with no trigger on its way, every queued Automatic entry has
\* no candidate, unless the last two runs in a row failed or were refused.
Unstranded ==
    ev.pc = "idle" /\ chan = 0 /\ ~due /\ heard = {} /\ strikes < 2 =>
        \A e \in Queued : entry[e].policy = "automatic" => Candidates(e, LiveWorld, {}) = {}
=============================================================================

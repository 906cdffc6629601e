------------------------------- MODULE Spools -------------------------------
(***************************************************************************)
(* Spools, the slots they are loaded in and the filament Jobs reserve on   *)
(* them (src/src-tauri/src/spools, printers/repository.rs).                *)
(*                                                                         *)
(* A command is one transaction.  A client composes it from the rows it    *)
(* sees and it arrives later, once, several times or never: it carries the *)
(* revisions it saw, and most carry an operation id that is claimed with   *)
(* the write.  Left out: the fields of a Spool, tares, slot names, the     *)
(* host's and the Jobs' own objections to archiving a Printer.             *)
(***************************************************************************)
EXTENDS Integers, FiniteSets, FiniteSetsExt, Functions, SequencesExt

CONSTANTS
    Spools, Printers, Slots,
    PrinterOf,    \* [Slots -> Printers]
    Shelves,      \* the labels of places in storage
    Ids,          \* operation ids a client draws
    Jobs,
    Estimate,     \* what a Job reserves, in mg
    MaxMg,        \* bound: what a Spool may hold
    Usages        \* bounds: what kinds of request are composed and how many, and which Jobs run

Kinds == {"move", "lifecycle", "archive", "unarchive", "create", "layout", "amount"}
LifecycleActions == {"markEmpty", "reactivate", "archive", "unarchive"}
NoId == 0
Places == Slots \cup Shelves

ASSUME SpoolsAssumption ==
    /\ PrinterOf \in [Slots -> Printers] /\ Slots \cap Shelves = {} /\ Shelves # {}
    /\ Ids \subseteq Nat \ {NoId} /\ Estimate \in Nat \ {0} /\ MaxMg \in Nat
    /\ IsFiniteSet(Jobs) /\ IsFiniteSet(Spools) /\ Spools # {} /\ Printers # {}
    /\ Usages \subseteq [kinds : SUBSET Kinds, sent : Nat, jobs : SUBSET Jobs]

VARIABLES
    spool,     \* the spools rows
    slot,      \* material_slots: not made yet, live or removed
    printer,   \* the printers rows
    job,       \* each Job's reservation and how it was settled
    claimed,   \* the operations ledger
    sent,      \* requests composed, with the number of times each took effect (history)
    usage      \* what is composed in this behaviour (bound)

rows == <<spool, slot, printer, job, claimed>>
vars == <<rows, sent, usage>>

Loaded(p) == {s \in Spools : spool[s].loc \in Slots /\ PrinterOf[spool[s].loc] = p}
Live(p) == {l \in Slots : PrinterOf[l] = p /\ slot[l] = "live"}
Occupants(l) == {s \in Spools : spool[s].loc = l}
---------------------------------------------------------------------------
(* Reservations                                                            *)

Open(j) == job[j].rsv \in {"active", "unresolved"}

\* Mutant: what a Job left unresolved no longer counts.
ActiveOnly(s) == Estimate * Cardinality({j \in Jobs : job[j].spool = s /\ job[j].rsv = "active"})

Reserved(s) == Estimate * Cardinality({j \in Jobs : job[j].spool = s /\ Open(j)})
Available(s) == spool[s].mg - Reserved(s)
Unreserved(s) == Reserved(s) = 0

\* The amount ledger's last row is the amount of the Spool; only a person's command
\* changes its revision.
AppendAmount(s, mg) == spool' = [spool EXCEPT ![s].mg = mg]

(* reserve                                                                 *)
Reserve(j, s) ==
  /\ j \in usage.jobs /\ job[j].rsv = "none"
  /\ spool[s].lifecycle = "active" /\ Estimate <= Available(s)
  /\ job' = [job EXCEPT ![j] = [@ EXCEPT !.rsv = "active", !.spool = s]]
  /\ UNCHANGED <<spool, slot, printer, claimed, sent, usage>>

(* release                                                                 *)
Release(j) ==
  /\ Open(j)
  /\ job' = [job EXCEPT ![j].rsv = "released"]
  /\ UNCHANGED <<spool, slot, printer, claimed, sent, usage>>

(* on_failed_or_cancelled: mark_unresolved                                 *)
MarkUnresolved(j) ==
  /\ job[j].rsv = "active"
  /\ job' = [job EXCEPT ![j].rsv = "unresolved"]
  /\ UNCHANGED <<spool, slot, printer, claimed, sent, usage>>

(* consume: the amount used comes off the Spool, down to nothing.          *)
Consume(j, used, ended) ==
  /\ Open(j)
  /\ AppendAmount(job[j].spool, Max({0, spool[job[j].spool].mg - used}))
  /\ job' = [job EXCEPT ![j] = [@ EXCEPT !.rsv = "consumed", !.how = "estimated", !.completed = ended]]
  /\ UNCHANGED <<slot, printer, claimed, sent, usage>>

(* on_completed takes the whole estimate; a settlement by estimate takes   *)
(* what the progress says.                                                 *)
Completed(j) == job[j].rsv = "active" /\ Consume(j, Estimate, TRUE)
SettleEstimated(j, used) == job[j].rsv = "unresolved" /\ Consume(j, used, FALSE)

(* consume_measured: the Spool holds what was measured.                    *)
SettleMeasured(j, mg) ==
  /\ job[j].rsv = "unresolved"
  /\ AppendAmount(job[j].spool, mg)
  /\ job' = [job EXCEPT ![j] = [@ EXCEPT !.rsv = "consumed", !.how = "measured"]]
  /\ UNCHANGED <<slot, printer, claimed, sent, usage>>

(* correct                                                                 *)
Correct(j, mg) ==
  /\ job[j].completed /\ ~job[j].corrected
  /\ AppendAmount(job[j].spool, mg)
  /\ job' = [job EXCEPT ![j].corrected = TRUE]
  /\ UNCHANGED <<slot, printer, claimed, sent, usage>>
---------------------------------------------------------------------------
(* Movements.  The two tables a move writes are a record, so that several  *)
(* can follow each other; a refused move is the empty sequence.            *)

Tables == [spool |-> spool, slot |-> slot, printer |-> printer]

\* Mutant: the Spool that is displaced keeps its revision.
DisplaceQuietly(row, shelf) == [row EXCEPT !.loc = shelf]

(* set_location of a displaced occupant                                    *)
Displace(row, shelf) == [row EXCEPT !.loc = shelf, !.rev = @ + 1]

\* Mutant: a live slot will do, of whatever Printer.
LiveSlot(t, l) == t.slot[l] = "live"

(* loadable_slot_printer                                                   *)
Loadable(t, l) == t.slot[l] = "live" /\ t.printer[PrinterOf[l]].state = "active"

(* apply_one_move: m asks for a place, names the occupant it expects there *)
(* and says where that one goes.                                           *)
ApplyOneMove(t, m) ==
  LET row == t.spool[m.spool]
      there == {o \in Spools : t.spool[o].loc = m.to}
      intoSlot == m.to \in Slots
      touched == {PrinterOf[l] : l \in {row.loc, m.to} \cap Slots}
      refused == \/ row.rev # m.rev \/ row.loc = m.to
                 \/ /\ intoSlot
                    /\ row.lifecycle = "archived" \/ there # m.occupant \/ ~Loadable(t, m.to)
      moved(s) == IF s = m.spool THEN [row EXCEPT !.loc = m.to, !.rev = @ + 1]
                  ELSE IF intoSlot /\ s \in there THEN Displace(t.spool[s], m.spare) ELSE t.spool[s]
  IN IF refused THEN <<>>
     ELSE <<[t EXCEPT !.spool = [s \in Spools |-> moved(s)],
                      !.printer = [p \in Printers |-> IF p \in touched THEN [t.printer[p] EXCEPT !.rev = @ + 1]
                                                      ELSE t.printer[p]]]>>

(* apply_moves: in order, each under its own checks; one refusal refuses   *)
(* them all.                                                               *)
ApplyMoves(t, ms) ==
  LET after[i \in 0..Len(ms)] ==
        IF i = 0 THEN <<t>>
        ELSE IF after[i - 1] = <<>> THEN <<>> ELSE ApplyOneMove(after[i - 1][1], ms[i])
  IN after[Len(ms)]
---------------------------------------------------------------------------
(* Lifecycle.  Each says when the action is allowed and what becomes of    *)
(* the row, whose revision the command has checked.                        *)

CanMarkEmpty(s) == spool[s].lifecycle = "active" /\ Unreserved(s)
Emptied(row) == [row EXCEPT !.lifecycle = "empty", !.mg = 0]

\* Mutant: a Spool with an open reservation may be archived.
ArchivesReserved(s, action) ==
  CASE action = "markEmpty" -> CanMarkEmpty(s)
    [] action = "reactivate" -> spool[s].lifecycle = "empty"
    [] action = "archive" -> spool[s].lifecycle \in {"active", "empty"} /\ spool[s].loc \in Shelves
    [] action = "unarchive" -> spool[s].lifecycle = "archived"

(* apply_lifecycle                                                         *)
Allowed(s, action) ==
  CASE action = "markEmpty" -> CanMarkEmpty(s)
    [] action = "reactivate" -> spool[s].lifecycle = "empty"
    [] action = "archive" -> /\ spool[s].lifecycle \in {"active", "empty"}
                             /\ spool[s].loc \in Shelves /\ Unreserved(s)
    [] action = "unarchive" -> spool[s].lifecycle = "archived"

Aged(row, action) ==
  LET next == [row EXCEPT !.rev = @ + 1] IN
  CASE action = "reactivate" -> [next EXCEPT !.lifecycle = "active"]
    [] action = "archive" -> [next EXCEPT !.lifecycle = "archived", !.was = row.lifecycle]
    [] action = "unarchive" -> [next EXCEPT !.lifecycle = row.was, !.was = "active"]
    [] action = "markEmpty" -> Emptied(next)
---------------------------------------------------------------------------
(* The commands, as they arrive.  Each says what one that is fresh writes. *)

Move(r) ==
  LET after == ApplyMoves(Tables, <<r.move>>) IN
  /\ after # <<>>
  /\ spool' = after[1].spool /\ printer' = after[1].printer
  /\ UNCHANGED <<slot, job>>

SetLifecycle(r) ==
  LET s == r.move.spool
      unload == ApplyMoves(Tables, <<r.move>>)
  IN /\ spool[s].rev = r.move.rev /\ Allowed(s, r.action)
     /\ IF r.action = "markEmpty" /\ spool[s].loc \in Slots
        THEN /\ spool' = [unload[1].spool EXCEPT ![s] = Emptied(@)]
             /\ printer' = unload[1].printer
        ELSE /\ spool' = [spool EXCEPT ![s] = Aged(@, r.action)]
             /\ UNCHANGED printer
     /\ UNCHANGED <<slot, job>>

(* apply_dispositions: if any, they name each loaded Spool once.            *)
NamesLoaded(p, ms) ==
  ms = <<>> \/ ({ms[i].spool : i \in DOMAIN ms} = Loaded(p) /\ Len(ms) = Cardinality(Loaded(p)))

(* archive_with_outcome: the dispositions, then the Printer                *)
ArchivePrinter(r) ==
  LET p == r.printer
      ms == r.moves
      after == ApplyMoves(Tables, ms)
      inside(l) == l \in Slots /\ PrinterOf[l] = p
      emptied == {ms[i].spool : i \in {k \in DOMAIN ms : ms[k].empties}}
  IN /\ printer[p].state = "active" /\ printer[p].rev = r.rev
     /\ NamesLoaded(p, ms)
     /\ \A i \in DOMAIN ms : ~inside(ms[i].to) /\ (ms[i].empties => CanMarkEmpty(ms[i].spool))
     /\ after # <<>>
     /\ \A s \in Spools : ~inside(after[1].spool[s].loc)
     /\ spool' = [s \in Spools |-> IF s \in emptied THEN Emptied(after[1].spool[s]) ELSE after[1].spool[s]]
     /\ printer' = [after[1].printer EXCEPT ![p] = [state |-> "archived", rev |-> @.rev + 1]]
     /\ UNCHANGED <<slot, job>>

UnarchivePrinter(r) ==
  /\ printer[r.printer].state = "archived" /\ printer[r.printer].rev = r.rev
  /\ printer' = [printer EXCEPT ![r.printer] = [state |-> "active", rev |-> @.rev + 1]]
  /\ UNCHANGED <<spool, slot, job>>

(* create_with_layout: a Printer with its first slots, and, by             *)
(* apply_initial_loads, a Spool in each of some of them.                   *)
CreatePrinter(r) ==
  LET made == [Tables EXCEPT !.slot = [l \in Slots |-> IF l \in r.slots THEN "live" ELSE slot[l]],
                             !.printer = [printer EXCEPT ![r.printer].state = "active"]]
      after == ApplyMoves(made, r.moves)
  IN /\ printer[r.printer].state = "unmade"
     /\ after # <<>>
     /\ spool' = after[1].spool /\ slot' = made.slot /\ printer' = after[1].printer
     /\ UNCHANGED job

(* set_layout drops no slot that holds a Spool.                            *)
SetLayout(r) ==
  LET p == r.printer
      dropped == Live(p) \ r.slots
  IN /\ printer[p].state # "unmade" /\ printer[p].rev = r.rev
     /\ \A l \in r.slots : slot[l] # "removed"
     /\ \A l \in dropped : Occupants(l) = {}
     /\ slot' = [l \in Slots |-> IF l \in dropped THEN "removed" ELSE IF l \in r.slots THEN "live" ELSE slot[l]]
     /\ printer' = [printer EXCEPT ![p].rev = @ + 1]
     /\ UNCHANGED <<spool, job>>

(* record_spool_amount                                                     *)
Weighed(row, mg) == [row EXCEPT !.mg = mg, !.rev = @ + 1]

RecordAmount(r) ==
  /\ spool[r.move.spool].rev = r.move.rev
  /\ spool' = [spool EXCEPT ![r.move.spool] = Weighed(@, r.mg)]
  /\ UNCHANGED <<slot, printer, job>>

\* Mutant: an id is taken only for another command of its kind.
ClaimsByKind(r) == \A q \in DOMAIN sent : q.kind = r.kind /\ q.id = r.id /\ q.id # NoId => sent[q] = 0

(* claim: an id that is taken is a replay, or was used for something else; *)
(* neither writes.                                                         *)
Claim(r) == r.id \notin claimed

Deliver(r) ==
  /\ r \in DOMAIN sent
  /\ Claim(r)
  /\ CASE r.kind = "move" -> Move(r)
       [] r.kind = "lifecycle" -> SetLifecycle(r)
       [] r.kind = "archive" -> ArchivePrinter(r)
       [] r.kind = "unarchive" -> UnarchivePrinter(r)
       [] r.kind = "create" -> CreatePrinter(r)
       [] r.kind = "layout" -> SetLayout(r)
       [] r.kind = "amount" -> RecordAmount(r)
  /\ claimed' = claimed \cup ({r.id} \ {NoId})
  /\ sent' = [sent EXCEPT ![r] = @ + 1]
  /\ UNCHANGED usage
---------------------------------------------------------------------------
(* What a client composes, from the rows as they are: a request of each    *)
(* kind, with a new id (the next number) or, by its own mistake, one it    *)
(* has drawn before.                                                       *)

To(s, place, shelf) ==
  [spool |-> s, rev |-> spool[s].rev, to |-> place, spare |-> shelf, empties |-> FALSE,
   occupant |-> IF place \in Slots THEN Occupants(place) ELSE {}]

Request(kind, id, p, s) ==
  [kind |-> kind, id |-> id, printer |-> p, rev |-> printer[p].rev, slots |-> {}, moves |-> <<>>,
   move |-> To(s, spool[s].loc, spool[s].loc), action |-> "none", mg |-> 0, saw |-> {spool[s].loc}]

Compose(r) ==
  /\ r.kind \in usage.kinds
  /\ Cardinality(DOMAIN sent) < usage.sent /\ r \notin DOMAIN sent
  /\ \A id \in Ids : id < r.id => \E q \in DOMAIN sent : q.id = id
  /\ sent' = [q \in DOMAIN sent \cup {r} |-> IF q = r THEN 0 ELSE sent[q]]
  /\ UNCHANGED <<rows, usage>>

AskSpool(p, s) ==
  \/ \E id \in Ids, place \in Shelves \cup {l \in Slots : slot[l] = "live"}, shelf \in Shelves :
       /\ place # spool[s].loc
       /\ (place \in Shelves \/ Occupants(place) = {}) => shelf = CHOOSE x \in Shelves : TRUE
       /\ Compose([Request("move", id, p, s) EXCEPT !.move = To(s, place, shelf)])
  \/ \E id \in Ids, action \in LifecycleActions, shelf \in Shelves :
       Compose([Request("lifecycle", id, p, s) EXCEPT !.action = action, !.move = To(s, shelf, shelf)])
  \/ \E mg \in 0..MaxMg : Compose([Request("amount", NoId, p, s) EXCEPT !.mg = mg])

\* Where a loaded Spool of p may go, and whether it is emptied.
Disposals(p, s) ==
  LET targets == Shelves \cup {l \in Slots : slot[l] = "live" /\ PrinterOf[l] # p}
      first == CHOOSE x \in Shelves : TRUE
  IN {[To(s, place, first) EXCEPT !.empties = e] :
        place \in targets, e \in {b \in BOOLEAN : b => spool[s].lifecycle = "active"}}

\* Dispositions of the Spools loaded in p, in some order.
Dispositions(p) ==
  {ms \in [1..Cardinality(Loaded(p)) -> UNION {Disposals(p, s) : s \in Loaded(p)}] :
     /\ \A i \in DOMAIN ms : ms[i].empties => ms[i].to \in Shelves
     /\ \A i, k \in DOMAIN ms : i # k => ms[i].spool # ms[k].spool}

AskPrinter(p, s) ==
  \/ \E id \in Ids, ms \in Dispositions(p) :
       Compose([Request("archive", id, p, s) EXCEPT !.moves = ms, !.saw = Loaded(p)])
  \/ Compose([Request("unarchive", NoId, p, s) EXCEPT !.saw = {}])
  \/ \E new \in SUBSET {l \in Slots : PrinterOf[l] = p /\ slot[l] # "removed"} :
       /\ new # {}
       /\ Compose([Request("layout", NoId, p, s) EXCEPT !.slots = new, !.saw = {}])
  \/ \E l \in {x \in Slots : PrinterOf[x] = p}, t \in Spools :
       /\ printer[p].state = "unmade"
       /\ Compose([Request("create", NoId, p, s) EXCEPT !.slots = {l}, !.saw = {},
                                 !.moves = <<[To(t, l, CHOOSE x \in Shelves : TRUE) EXCEPT !.occupant = {}]>>])

Init ==
  /\ printer \in [Printers -> [state : {"unmade", "active"}, rev : {1}]]
  /\ slot \in [Slots -> {"unmade", "live"}]
  /\ \A l \in Slots : slot[l] = "live" => printer[PrinterOf[l]].state = "active"
  /\ spool \in [Spools -> [lifecycle : {"active"}, was : {"active"}, loc : Places, rev : {1}, mg : {MaxMg}]]
  /\ \A s, t \in Spools : spool[s].loc \in Slots =>
        slot[spool[s].loc] = "live" /\ (s # t => spool[s].loc # spool[t].loc)
  /\ job = [j \in Jobs |-> [rsv |-> "none", spool |-> CHOOSE s \in Spools : TRUE, how |-> "none",
                             completed |-> FALSE, corrected |-> FALSE]]
  /\ claimed = {} /\ sent = <<>> /\ usage \in Usages

\* The rows a request does not name stand for any.
Client ==
  \/ \E s \in Spools : AskSpool(CHOOSE p \in Printers : TRUE, s)
  \/ \E p \in Printers : AskPrinter(p, CHOOSE s \in Spools : TRUE)

JobStep == \E j \in Jobs :
  \/ \E s \in Spools : Reserve(j, s)
  \/ Release(j) \/ MarkUnresolved(j) \/ Completed(j)
  \/ \E used \in 0..Estimate : SettleEstimated(j, used)
  \/ \E mg \in 0..MaxMg : SettleMeasured(j, mg) \/ Correct(j, mg)

Next == Client \/ JobStep \/ \E r \in DOMAIN sent : Deliver(r)
Spec == Init /\ [][Next]_vars
---------------------------------------------------------------------------
(* Properties                                                              *)

LoadedSoundly == \A s \in Spools : spool[s].loc \in Slots =>
  /\ slot[spool[s].loc] = "live" /\ printer[PrinterOf[spool[s].loc]].state = "active"
  /\ spool[s].lifecycle # "archived"
  /\ Occupants(spool[s].loc) = {s}

Promised(s) == Estimate * Cardinality({j \in Jobs : job[j].spool = s /\ job[j].rsv \in {"active", "unresolved"}})

ReservedStaysActive == \A s \in Spools : Promised(s) > 0 => spool[s].lifecycle = "active"

\* A loaded Spool is in a live slot of a Printer in use, alone there, and not archived, and
\* a Spool with an unsettled reservation is active: a move names a slot it saw, and the
\* Printer may be archived or the slot dropped or taken before it arrives; a Printer is
\* emptied and Spools are marked empty or archived while Jobs hold filament on them.
StillUsable == LoadedSoundly /\ ReservedStaysActive

\* Jobs never promise more of a Spool than it holds: only an amount a person records,
\* measures or corrects can leave a Spool short.
NeverOverPromised == [][\A s \in Spools :
  spool[s].mg >= Promised(s) /\ spool'[s].mg < Promised(s)' =>
    \/ \E r \in DOMAIN sent : r.kind = "amount" /\ r.move.spool = s /\ sent'[r] > sent[r]
    \/ \E j \in Jobs : /\ job[j].spool = s /\ job'[j] # job[j]
                       /\ (job'[j].how = "measured" \/ job'[j].corrected)]_vars

\* However often a request arrives it takes effect at most once, and of the requests that
\* carry one id only one does.  A Spool is moved, changed or displaced only as its requester
\* saw it: where it was and who was in the slot it takes; a Printer is archived with the
\* Spools it was seen to hold.
NoSurprise == [][\A r \in DOMAIN sent : sent'[r] > sent[r] =>
  /\ \A q \in DOMAIN sent : q = r \/ (q.id = r.id /\ r.id # NoId) => sent[q] = 0
  /\ r.kind \in {"move", "lifecycle", "amount"} => {spool[r.move.spool].loc} = r.saw
  /\ r.kind = "move" /\ r.move.to \in Slots => Occupants(r.move.to) = r.move.occupant
  /\ r.kind = "archive" => Loaded(r.printer) = r.saw]_vars
=============================================================================

------------------------------ MODULE JobsInv ------------------------------
(***************************************************************************)
(* The inductive invariants of Jobs, each of which uses the ones before    *)
(* it: MaterialInv is behind MaterialOnce; OperationsInv behind LinkedOps  *)
(* and StartsOwnUpload; PrintsInv behind PrintsAccounted, CancelReasonTrue *)
(* and EndIsProved; PinsInv behind PinIsOurs and PinsDistinct; LineageInv  *)
(* and AloneInv behind OneOpenPerLineage and UnattendedOnce.               *)
(***************************************************************************)
EXTENDS Jobs

\* A command in progress is about a Job.
CommandsName == \A c \in Callers : cmd[c].pc # "idle" => cmd[c].job \in Jobs

NothingBooked == [rsv |-> "none", material |-> "none", unknown |-> "none", uses |-> 0]

\* Job row r, its account a and its entry n: what has not been assigned has no Job, what
\* has no Job holds no filament, what has one is counted, and a Job that has reached
\* the limit of inconclusive polls has left the tracker.
Sound(r, a, n) ==
  /\ n.state \in {"absent", "queued"} => r.state = "absent"
  /\ r.state = "absent" => a = NothingBooked /\ r.settlement = "open" /\ r.reason = "none"
  /\ r.state # "absent" => Counted(r, a)
  /\ r.state \notin {"outcomeUnknown"} \cup Terminal => r.checks < Limit

Books == \A j \in Jobs : Sound(job[j], account[j], entry[j])

MaterialInv == TypeOK /\ CommandsName /\ Books

(***************************************************************************)
(* Jobs and the Host Operations linked to them.                            *)
(***************************************************************************)
Used(o) == status[o] # "none"
Of(o, j, k) == Used(o) /\ link[o].job = j /\ link[o].kind = k
Back == {"absent", "assigned", "staging", "awaitingStart"}

\* Operations are numbered as they are opened; one belongs to the Printer of its Job.
Numbered == \A o \in Ops :
  /\ ~Used(o) => link[o].job = None /\ effect[o] = "unsent"
  /\ Used(o) => /\ \A q \in Ops : q < o => Used(q)
                /\ link[o].job \in Jobs /\ job[link[o].job].state # "absent"
                /\ owner[o] = job[link[o].job].printer
                /\ again[o] <=> link[o].kind = "upload"

\* A Printer's open operation is its last one; one that failed, and could not be
\* repeated, did nothing.
OpenIsLast == \A o, q \in Ops : status[q] = "open" /\ Used(o) /\ owner[o] = owner[q] => o <= q
FailedDidNothing == \A o \in Ops :
  status[o] = "failed" /\ link[o].kind # "upload" => effect[o] \in {"unsent", "void"}

\* A command that was checked holds its Printer's lock, and no operation is open there.
Asking(c) == cmd[c].pc # "idle"
Checked(c) == cmd[c].pc = "checked"
PrinterOf(c) == job[cmd[c].job].printer
Locked ==
  /\ \A c \in Callers : Asking(c) => job[cmd[c].job].state # "absent"
  /\ \A c \in Callers : Checked(c) => ~HasOpen(PrinterOf(c)) /\ (cmd[c].kind = "start" => cmd[c].source # None)
  /\ \A c, d \in Callers : Checked(c) /\ Checked(d) /\ PrinterOf(c) = PrinterOf(d) => c = d

\* A start that did not fail is the Job's only one, and the Job is past its start.
StartStands == \A j \in Jobs :
  /\ job[j].start # None => Of(job[j].start, j, "start")
  /\ job[j].state = "starting" => job[j].start # None /\ job[j].active = job[j].start
  /\ job[j].state \in OnHost => job[j].start # None
  /\ \A o \in Ops : Of(o, j, "start") /\ status[o] # "failed" =>
       job[j].start = o /\ job[j].state \notin Back /\ job[j].settlement # "notRequired"

\* u is an upload of Job j, and the last.
LastUpload(u, j) == u \in Ops /\ Of(u, j, "upload") /\ \A q \in Ops : q > u => ~Of(q, j, "upload")
Staged == \A j \in Jobs :
  /\ job[j].state = "staging" => LastUpload(job[j].active, j)
  /\ job[j].state # "staging" /\ job[j].upload # None =>
       LastUpload(job[j].upload, j) /\ status[job[j].upload] = "succeeded"

OperationsInv ==
  /\ Numbered /\ OpenIsLast /\ FailedDidNothing /\ Locked
  /\ LinkedOps /\ StartStands /\ Staged /\ StartsOwnUpload

(***************************************************************************)
(* What the hosts' histories say of the operations.                        *)
(***************************************************************************)
\* A print is made by a start that took effect, and ended by an operation that did.
MadeByEffects == \A e \in Endpoints : \A i \in 1..Len(Prints(e)) :
  LET print == Prints(e)[i] IN
  /\ print.by # None => /\ Used(print.by) /\ effect[print.by] = "happened"
                        /\ link[print.by].kind = "start" /\ link[print.by].conn = e
  /\ print.ender # None => Used(print.ender) /\ effect[print.ender] = "happened"

\* A history read is still what the history says of the prints it has, except that one
\* that was running may have ended.
StillTrue(page, prints) ==
  /\ Len(page) <= Len(prints)
  /\ \A i \in 1..Len(page) :
       /\ page[i].file = prints[i].file /\ page[i].by = prints[i].by /\ page[i].late = prints[i].late
       /\ page[i].status # "running" => page[i] = prints[i]
PollTrue == StillTrue(poll.page, Prints(poll.conn))

PinOn(j) == job[j].pin <= Len(Prints(link[job[j].start].conn))
PinnedPrint(j) == Prints(link[job[j].start].conn)[job[j].pin]
PinFits == \A j \in Jobs : job[j].pin # 0 =>
  job[j].start # None /\ job[j].state \notin Back \cup {"starting"} /\ PinOn(j)
CancelledThere == \A j \in Jobs : job[j].state = "cancelled" /\ job[j].reason = "host" =>
  job[j].pin # 0 /\ PinnedPrint(j).status = "cancelled"

PrintsInv == MadeByEffects /\ PollTrue /\ PinFits /\ CancelledThere /\ CancelReasonTrue

(***************************************************************************)
(* Which prints a Job can be tracked by.                                   *)
(***************************************************************************)
OneActive == \A i, j \in Jobs : Active(i) /\ Active(j) /\ job[i].printer = job[j].printer => i = j

\* While a Job is underway, its Printer starts nothing after the Job's start.
NewestStart == \A j \in Jobs, q \in Ops : Active(j) /\ job[j].start # None =>
  (Used(q) /\ link[q].kind = "start" /\ owner[q] = job[j].printer => q <= job[j].start)

\* Above a start's mark, the Printer's own prints are that start's, a later one's, or late.
NoneEarlier(e, mark, p, o) == \A i \in 1..Len(Prints(e)) :
  LET print == Prints(e)[i] IN
  i > mark /\ print.by # None /\ ~print.late /\ owner[print.by] = p => print.by >= o
MarksFit ==
  /\ \A o \in Ops : Used(o) /\ link[o].kind = "start" => NoneEarlier(link[o].conn, link[o].mark, owner[o], o)
  /\ \A c \in Callers : Checked(c) /\ cmd[c].kind = "start" =>
       \A i \in 1..Len(Prints(cmd[c].conn)) : LET print == Prints(cmd[c].conn)[i] IN
         i > cmd[c].mark /\ print.by # None /\ owner[print.by] = PrinterOf(c) => print.late

\* What other Jobs of the Printer are tracked by is below the mark.
MarkAbove(e, mark, j) == \A i \in Jobs :
  i # j /\ job[i].printer = job[j].printer /\ job[i].pin # 0 /\ link[job[i].start].conn = e => job[i].pin <= mark
MarksAbove ==
  /\ \A j \in Jobs : Active(j) /\ job[j].start # None =>
       MarkAbove(link[job[j].start].conn, link[job[j].start].mark, j)
  /\ \A c \in Callers : Checked(c) /\ cmd[c].kind = "start" => MarkAbove(cmd[c].conn, cmd[c].mark, cmd[c].job)

PinsInv == OneActive /\ NewestStart /\ MarksFit /\ MarksAbove /\ PinIsOurs /\ PinsDistinct

(***************************************************************************)
(* Entries that follow one another, and starts with nobody watching.       *)
(***************************************************************************)
LineageInv ==
  /\ \A f \in Jobs : entry[f].origin # None => entry[f].state # "absent" /\ entry[entry[f].origin].state = "closed"
  /\ \A f, g \in Jobs : entry[f].origin # None /\ entry[f].origin = entry[g].origin => f = g
  /\ \A j \in Jobs : /\ Active(j) <=> entry[j].state = "assigned"
                     /\ job[j].state \in Terminal => entry[j].state = "closed"

AloneInv ==
  /\ \A o \in Ops : Asking(Driver) /\ cmd[Driver].pc # "refused" /\ cmd[Driver].kind = "start"
                     /\ Of(o, cmd[Driver].job, "start") => job[cmd[Driver].job].state \notin Back
  /\ UnattendedOnce
=============================================================================

----------------------------- MODULE JobsProofs -----------------------------
(***************************************************************************)
(* Theorems of Jobs, for any Jobs, operations, Printers, endpoints,        *)
(* operators and bounds.                                                   *)
(***************************************************************************)
EXTENDS JobsInv, FiniteSetTheorems, SequenceTheorems, WellFoundedInduction, TLAPS

(***************************************************************************)
(* Job rows and their accounts.                                            *)
(***************************************************************************)
\* An event writes the state and the settlement state of a row, and nothing else
\* an account is compared with.
LEMMA MovedRow ==
  ASSUME NEW r \in Job, NEW event
  PROVE  /\ Moved(r, event) \in Job
         /\ Moved(r, event).state = StateAfter(r.state, event)
         /\ Moved(r, event).settlement = SettlementAfter(event, r.settlement)
         /\ Moved(r, event).reason = r.reason
         /\ Moved(r, event).checks = r.checks
         /\ Moved(r, event).active = r.active
<1>1. StateAfter(r.state, event) \in JobState
  BY DEF StateAfter, Job, JobState
<1>2. SettlementAfter(event, r.settlement) \in {"open", "notRequired", "pending", "deferred", "settled"}
  BY DEF SettlementAfter, Job
<1> QED  BY <1>1, <1>2 DEF Moved, Job

\* A row that does not end, and is not settled, keeps its account.
LEMMA StillSound ==
  ASSUME NEW r \in Job, NEW s \in Job, NEW a \in Account, NEW n \in Entry, Sound(r, a, n),
         s.state = "absent" <=> r.state = "absent",
         s.state \in Terminal <=> r.state \in Terminal,
         s.settlement = r.settlement, s.reason = r.reason,
         s.state \notin {"outcomeUnknown"} \cup Terminal => s.checks < Limit
  PROVE  Sound(s, a, n)
BY DEF Sound, Counted

LEMMA AskedSound ==
  ASSUME NEW r \in Job, NEW a \in Account, NEW n \in Entry, Sound(r, a, n), r.state # "absent"
  PROVE  AskUnknown(a) \in Account /\ Sound(r, AskUnknown(a), n)
BY DEF Sound, Counted, AskUnknown, Account

\* What an outcome does to a row: it never ends one, and moves none that has ended.
LEMMA OutcomeFits ==
  ASSUME NEW s \in JobState, NEW k, NEW st, NEW x
  PROVE  LET event == EventFor(s, k, st) IN
         /\ StateAfter(s, event) = "absent" <=> s = "absent"
         /\ StateAfter(s, event) \in Terminal <=> s \in Terminal
         /\ s \in {"outcomeUnknown"} \cup Terminal => StateAfter(s, event) = s
         /\ SettlementAfter(event, x) = x
         /\ event = "startAbandoned" => s = "starting"
BY DEF EventFor, StartEvent, ControlEvent, StateAfter, SettlementAfter, JobState, Terminal, OnHost, Controls

(***************************************************************************)
(* Print histories.                                                        *)
(***************************************************************************)
LEMMA HistorySeq ==
  /\ \A h \in History : h \in Seq(PrintRow) /\ Len(h) \in 0..MaxPrints
  /\ \A h \in Seq(PrintRow) : Len(h) <= MaxPrints => h \in History
<1> USE JobBoundsAssumption
<1>1. ASSUME NEW h \in History  PROVE h \in Seq(PrintRow) /\ Len(h) \in 0..MaxPrints
  <2>1. PICK n \in 0..MaxPrints : h \in [1..n -> PrintRow]
    BY DEF History
  <2> QED  BY <2>1
<1>2. ASSUME NEW h \in Seq(PrintRow), Len(h) <= MaxPrints  PROVE h \in History
  <2>1. Len(h) \in 0..MaxPrints /\ h \in [1..Len(h) -> PrintRow]
    BY <1>2, LenProperties
  <2> QED  BY <2>1 DEF History
<1> QED  BY <1>1, <1>2

\* Ending the last print keeps the history's length.
LEMMA EndTyped ==
  ASSUME NEW h \in History, NEW s \in Terminal \cup {"other"}, NEW o \in OpIds
  PROVE  End(h, s, o) \in History /\ Len(End(h, s, o)) = Len(h)
<1>1. h \in Seq(PrintRow) /\ Len(h) \in 0..MaxPrints
  BY HistorySeq
<1>2. CASE End(h, s, o) = h
  BY <1>1, <1>2
<1>3. CASE Len(h) > 0 /\ h[Len(h)].status = "running"
  <2> DEFINE n == Len(h)
             last == [h[n] EXCEPT !.status = s, !.ender = o]
  <2>1. n \in 1..Len(h) /\ h[n] \in PrintRow
    BY <1>1, <1>3, ElementOfSeq
  <2>2. last \in PrintRow
    BY <2>1 DEF PrintRow, Terminal
  <2>3. End(h, s, o) = [h EXCEPT ![n] = last]
    <3>1. End(h, s, o) = [h EXCEPT ![n].status = s, ![n].ender = o]
      BY <1>3 DEF End
    <3>2. h \in [1..n -> PrintRow]
      BY <1>1, LenProperties
    <3> QED  BY <2>1, <3>1, <3>2 DEF PrintRow
  <2>4. [h EXCEPT ![n] = last] \in Seq(PrintRow) /\ Len([h EXCEPT ![n] = last]) = Len(h)
    BY <1>1, <2>1, <2>2, ExceptSeq
  <2>5. Len([h EXCEPT ![n] = last]) <= MaxPrints
    BY <1>1, <2>4, JobBoundsAssumption
  <2> QED  BY <2>3, <2>4, <2>5, HistorySeq
<1> QED  BY <1>2, <1>3 DEF End

LEMMA StartPrintTyped ==
  ASSUME host \in [Endpoints -> Host], NEW e \in Endpoints, NEW f \in {"ours", "other"},
         NEW o \in OpIds, StartPrint(e, f, o)
  PROVE  host' \in [Endpoints -> Host]
<1> DEFINE begun == [file |-> f, status |-> "running", by |-> o,
                     late |-> o # None /\ status[o] # "open", ender |-> None]
           ended == End(host[e].prints, "cancelled", o)
<1>1. host[e].prints \in History
  BY DEF Host
<1>2. ended \in History /\ Len(ended) = Len(host[e].prints)
  BY <1>1, EndTyped DEF Terminal
<1>3. begun \in PrintRow
  BY DEF PrintRow, OpIds
<1>4. ended \in Seq(PrintRow) /\ Len(ended) + 1 <= MaxPrints
  BY <1>1, <1>2, HistorySeq, JobBoundsAssumption DEF StartPrint, Prints
<1>5. Append(ended, begun) \in History
  <2>1. Append(ended, begun) \in Seq(PrintRow) /\ Len(Append(ended, begun)) = Len(ended) + 1
    BY <1>3, <1>4
  <2> QED  BY <1>4, <2>1, HistorySeq
<1>6. [prints |-> Append(ended, begun), print |-> "printing"] \in Host
  BY <1>5 DEF Host
<1> QED  BY <1>6 DEF StartPrint

LEMMA ControlTyped ==
  ASSUME NEW h \in Host, NEW k, NEW o \in OpIds
  PROVE  Control(h, k, o) \in Host
<1>1. End(h.prints, "cancelled", o) \in History
  BY EndTyped DEF Host, Terminal
<1> QED  BY <1>1 DEF Control, Host

LEMMA MinIn ==
  ASSUME NEW S, S \subseteq Nat, S # {}
  PROVE  Min(S) \in S
<1> DEFINE R == OpToRel(<, Nat)
<1>1. PICK x \in S : \A y \in S : <<y, x>> \notin R
  <2>1. IsWellFoundedOn(R, Nat)
    BY NatLessThanWellFounded
  <2> HIDE DEF R
  <2> QED  BY <2>1, WFMin
<1>2. ASSUME NEW y \in S  PROVE x =< y
  <2>1. R = {ss \in Nat \X Nat : ss[1] < ss[2]}
    BY Zenon DEF OpToRel
  <2> HIDE DEF R
  <2>2. y < x => <<y, x>> \in R
    BY <2>1
  <2> QED  BY <1>1, <2>2
<1> QED  BY <1>2, Zenon DEF Min

LEMMA PinTyped ==
  ASSUME NEW r \in Job, NEW low, poll \in Poll
  PROVE  PinOf(r, low) \in 0..MaxPrints
<1>1. poll.page \in History
  BY DEF Poll
<1>2. Len(poll.page) \in 0..MaxPrints
  BY <1>1, HistorySeq
<1>3. Candidates(low) \subseteq 1..Len(poll.page)
  BY DEF Candidates
<1>4. Candidates(low) # {} => Min(Candidates(low)) \in 1..MaxPrints
  BY <1>2, <1>3, MinIn, JobBoundsAssumption
<1> QED  BY <1>4, JobBoundsAssumption DEF PinOf, Job

LEMMA VerdictTyped ==
  ASSUME NEW pin \in 0..MaxPrints, NEW reports, NEW same, poll \in Poll
  PROVE  Verdict(pin, reports, same) \in Terminal \cup {"running", "inconclusive"}
<1>1. poll.page \in Seq(PrintRow)
  BY HistorySeq DEF Poll
<1>2. CASE pin # 0 /\ OnPage(pin)
  <2>1. poll.page[pin] \in PrintRow
    BY <1>1, <1>2, ElementOfSeq, JobBoundsAssumption DEF OnPage
  <2> QED  BY <1>2, <2>1 DEF Verdict, PrintRow, Terminal
<1> QED  BY <1>2 DEF Verdict, Terminal

(***************************************************************************)
(* Each group of actions keeps MaterialInv.                                *)
(***************************************************************************)
\* What MaterialInv says of the tables.
LEMMA RowOf ==
  ASSUME MaterialInv, NEW j \in Jobs
  PROVE  job[j] \in Job /\ account[j] \in Account /\ entry[j] \in Entry
         /\ Sound(job[j], account[j], entry[j])
BY DEF MaterialInv, TypeOK, Books

\* A step that changes neither the tables nor the commands.
LEMMA TablesKeep ==
  ASSUME MaterialInv, TypeOK', UNCHANGED <<job, entry, account, cmd>>
  PROVE  MaterialInv'
BY DEF MaterialInv, CommandsName, Books

\* A step of Job j, whose new row, account and entry fit together, that at most queues
\* other entries.
LEMMA RowAndQueueKeep ==
  ASSUME MaterialInv, NEW j \in Jobs, NEW r \in Job, NEW a \in Account,
         job' = [job EXCEPT ![j] = r], account' = [account EXCEPT ![j] = a],
         entry' \in [Jobs -> Entry], Sound(r, a, entry'[j]),
         \A i \in Jobs \ {j} :
           entry'[i] = entry[i] \/ (entry[i].state = "absent" /\ entry'[i].state = "queued")
  PROVE  Books' /\ job' \in [Jobs -> Job] /\ account' \in [Jobs -> Account]
<1>1. job \in [Jobs -> Job] /\ account \in [Jobs -> Account]
  BY DEF MaterialInv, TypeOK
<1>2. job' \in [Jobs -> Job] /\ account' \in [Jobs -> Account]
  BY <1>1
<1>3. ASSUME NEW i \in Jobs  PROVE Sound(job'[i], account'[i], entry'[i])
  <2>1. CASE i = j  BY <1>1, <2>1
  <2>2. CASE i # j
    <3>1. Sound(job[i], account[i], entry[i]) /\ job'[i] = job[i] /\ account'[i] = account[i]
      BY <1>1, <2>2 DEF MaterialInv, Books
    <3> QED  BY <2>2, <3>1 DEF Sound
  <2> QED  BY <2>1, <2>2
<1> QED  BY <1>2, <1>3 DEF Books

LEMMA RowKeeps ==
  ASSUME MaterialInv, NEW j \in Jobs, NEW r \in Job, NEW a \in Account, NEW n \in Entry,
         Sound(r, a, n), job' = [job EXCEPT ![j] = r], account' = [account EXCEPT ![j] = a],
         entry' = [entry EXCEPT ![j] = n]
  PROVE  /\ Books'
         /\ job' \in [Jobs -> Job] /\ account' \in [Jobs -> Account] /\ entry' \in [Jobs -> Entry]
<1>1. entry \in [Jobs -> Entry]
  BY DEF MaterialInv, TypeOK
<1>2. entry' \in [Jobs -> Entry] /\ entry'[j] = n /\ \A i \in Jobs \ {j} : entry'[i] = entry[i]
  BY <1>1
<1> QED  BY <1>2, RowAndQueueKeep

\* A step that changes only the tables, and those soundly.
LEMMA OnlyTables ==
  ASSUME MaterialInv, Books', UNCHANGED <<writes, link, cmd, poll, host, printer, budget>>,
         job' \in [Jobs -> Job], account' \in [Jobs -> Account], entry' \in [Jobs -> Entry]
  PROVE  MaterialInv'
BY DEF MaterialInv, TypeOK, CommandsName, writes

LEMMA AbsentTyped ==
  ASSUME NEW p \in Printers
  PROVE  NoJob(p) \in Job
BY JobBoundsAssumption DEF NoJob, Job, JobState, OpIds

LEMMA QueueKeeps ==
  ASSUME MaterialInv, QueueStep
  PROVE  MaterialInv'
<1>1. PICK e \in Jobs :
        CreateEntry(e) \/ RemoveEntry(e) \/ Retry(e) \/ \E p \in Printers : Assign(e, p)
  BY DEF QueueStep
<1>2. job[e] \in Job /\ account[e] \in Account /\ entry[e] \in Entry
      /\ Sound(job[e], account[e], entry[e])
  BY RowOf
<1>3. \A f \in FreshEntries : f \in Jobs /\ entry[f].state = "absent"
  BY DEF FreshEntries, Fresh
<1>4. ASSUME NEW f \in Jobs, NEW n \in Entry, entry' = [entry EXCEPT ![f] = n],
             entry[f].state \in {"absent", "queued"},
             UNCHANGED <<writes, link, job, account, cmd, poll, host, printer, budget>>
      PROVE  MaterialInv'
  <2>1. job[f] \in Job /\ account[f] \in Account /\ Sound(job[f], account[f], n)
    BY <1>4, RowOf DEF Sound
  <2>2. Books' /\ entry' \in [Jobs -> Entry]
    <3>1. job' = [job EXCEPT ![f] = job[f]] /\ account' = [account EXCEPT ![f] = account[f]]
      BY <1>4 DEF MaterialInv, TypeOK
    <3> QED  BY <1>4, <2>1, <3>1, RowKeeps
  <2> QED  BY <1>4, <2>2, OnlyTables DEF MaterialInv, TypeOK
<1>5. CASE CreateEntry(e)
  <2>1. [entry[e] EXCEPT !.state = "queued"] \in Entry
    BY <1>2 DEF Entry
  <2>2. entry' = [entry EXCEPT ![e] = [entry[e] EXCEPT !.state = "queued"]]
    BY <1>5 DEF CreateEntry
  <2> QED  BY <1>3, <1>4, <1>5, <2>1, <2>2 DEF CreateEntry
<1>6. CASE RemoveEntry(e)
  <2>1. [entry[e] EXCEPT !.state = "closed", !.closed = "removed"] \in Entry
    BY <1>2 DEF Entry
  <2> QED  BY <1>4, <1>6, <2>1 DEF RemoveEntry
<1>7. CASE Retry(e)
  <2>1. [state |-> "queued", closed |-> "none", origin |-> e] \in Entry
    BY DEF Entry
  <2> QED  BY <1>3, <1>4, <1>7, <2>1 DEF Retry
<1>8. ASSUME NEW p \in Printers, Assign(e, p)  PROVE MaterialInv'
  <2> DEFINE r == [NoJob(p) EXCEPT !.state = "assigned"]
             a == [account[e] EXCEPT !.rsv = "active"]
             n == [entry[e] EXCEPT !.state = "assigned"]
  <2>1. r \in Job /\ a \in Account /\ n \in Entry
    <3>1. r \in Job  BY AbsentTyped DEF Job, JobState, NoJob
    <3> QED  BY <1>2, <3>1 DEF Account, Entry
  <2>2. account[e] = NothingBooked
    BY <1>2, <1>8 DEF Assign, Sound
  <2>3. Sound(r, a, n)
    BY <2>2, JobBoundsAssumption DEF NoJob, Sound, Counted, NothingBooked, Terminal, n
  <2>4. job' = [job EXCEPT ![e] = r] /\ account' = [account EXCEPT ![e] = a]
        /\ entry' = [entry EXCEPT ![e] = n]
    BY <1>8 DEF Assign
  <2> HIDE DEF r, a, n
  <2>5. Books' /\ job' \in [Jobs -> Job] /\ account' \in [Jobs -> Account] /\ entry' \in [Jobs -> Entry]
    BY <2>1, <2>3, <2>4, RowKeeps
  <2> QED  BY <1>8, <2>5, OnlyTables DEF Assign
<1> QED  BY <1>1, <1>5, <1>6, <1>7, <1>8

\* The end of a Job that used nothing.
LEMMA ReleasedSound ==
  ASSUME NEW r \in Job, NEW a \in Account, NEW n \in Entry, NEW m \in Entry, Sound(r, a, n),
         m.state = "closed", r.state \in BeforeStart,
         NEW event \in {"released", "cancelledBeforeStart"}, NEW why \in {"released", "beforeStart"}
  PROVE  LET s == [Moved(r, event) EXCEPT !.reason = why]
             b == [a EXCEPT !.rsv = "released"]
         IN s \in Job /\ b \in Account /\ Sound(s, b, m)
<1> DEFINE s == [Moved(r, event) EXCEPT !.reason = why]
           b == [a EXCEPT !.rsv = "released"]
<1>1. s \in Job /\ b \in Account
  BY MovedRow DEF Job, Account
<1>2. s.state = "cancelled" /\ s.settlement = "notRequired" /\ s.reason = why
  <2>1. Moved(r, event) \in Job /\ Moved(r, event).state = "cancelled"
        /\ Moved(r, event).settlement = "notRequired"
    BY MovedRow DEF StateAfter, SettlementAfter
  <2> QED  BY <2>1 DEF Job
<1>3. a.uses = 0 /\ a.material \notin {"pending", "deferred"}
  BY DEF Sound, Counted, BeforeStart, Terminal
<1>4. b.rsv = "released" /\ b.uses = 0 /\ b.material \notin {"pending", "deferred"}
  BY <1>3 DEF Account
<1> HIDE DEF s, b
<1>5. Sound(s, b, m)
  BY <1>2, <1>4 DEF Sound, Counted, Terminal
<1> QED  BY <1>1, <1>5 DEF s, b

LEMMA ConsumedRow ==
  ASSUME NEW a \in Account, a.uses = 0
  PROVE  Consumed(a) \in Account /\ Consumed(a).rsv = "consumed" /\ Consumed(a).uses = 1
         /\ Consumed(a).material = a.material
<1> DEFINE n == a.uses + 1
<1>1. n \in 0..2 /\ n = 1
  OBVIOUS
<1>2. Consumed(a) = [a EXCEPT !.rsv = "consumed", !.uses = n]
  BY Zenon DEF Consumed
<1> HIDE DEF n
<1>3. Consumed(a) \in Account
  BY <1>1, <1>2 DEF Account
<1>4. Consumed(a).uses = n /\ Consumed(a).rsv = "consumed" /\ Consumed(a).material = a.material
  BY <1>2 DEF Account
<1> QED  BY <1>1, <1>3, <1>4

\* The end of a Job that may have used some: consumed, or asked for.
LEMMA EndedSound ==
  ASSUME NEW r \in Job, NEW a \in Account, NEW n \in Entry, NEW m \in Entry, Sound(r, a, n),
         m.state = "closed", NEW s \in Job, NEW state \in Terminal,
         r.state \notin {"absent"} \cup Terminal, s.state = state,
         s.settlement = (IF state = "completed" THEN "settled" ELSE "pending"),
         s.reason \notin {"released", "beforeStart"}
  PROVE  EndAccount(a, state) \in Account /\ Sound(s, EndAccount(a, state), m)
<1> DEFINE b == EndAccount(a, state)
<1>1. a.uses = 0 /\ a.material \notin {"pending", "deferred"}
  BY DEF Sound, Counted
<1>2. b \in Account
  <2>1. Questioned(a) \in Account  BY DEF Questioned, Account
  <2>2. Consumed(a) \in Account  BY <1>1, ConsumedRow
  <2> QED  BY <2>1, <2>2 DEF EndAccount
<1>3. CASE state = "completed"
  <2>1. b.rsv = "consumed" /\ b.uses = 1 /\ b.material = a.material
    BY <1>1, <1>3, ConsumedRow DEF EndAccount
  <2> HIDE DEF b
  <2>2. Sound(s, b, m)
    BY <1>1, <1>3, <2>1 DEF Sound, Counted, Terminal
  <2> QED  BY <1>2, <2>2 DEF b
<1>4. CASE state # "completed"
  <2>1. b.rsv = "unresolved" /\ b.uses = 0 /\ b.material = "pending"
    BY <1>1, <1>4 DEF EndAccount, Questioned, Account
  <2> HIDE DEF b
  <2>2. Sound(s, b, m)
    BY <1>4, <2>1 DEF Sound, Counted, Terminal
  <2> QED  BY <1>2, <2>2 DEF b
<1> QED  BY <1>3, <1>4

\* What Closed does to an entry.
LEMMA ClosedTyped ==
  ASSUME NEW j, entry[j] \in Entry,
         NEW why \in {"none", "completed", "failed", "cancelled", "released", "removed"}
  PROVE  Closed(j, why) \in Entry /\ Closed(j, why).state = "closed"
BY DEF Closed, Entry

LEMMA JobCommandKeeps ==
  ASSUME MaterialInv, JobCommand
  PROVE  MaterialInv'
<1>1. PICK j \in Jobs :
        \/ Release(j) \/ CancelBeforeStart(j) \/ Settle(j) \/ Defer(j) \/ Correct(j)
        \/ \E s \in Terminal : Declare(j, s)
  BY DEF JobCommand
<1> DEFINE r == job[j]
           a == account[j]
           n == entry[j]
<1>2. r \in Job /\ a \in Account /\ n \in Entry /\ Sound(r, a, n) /\ entry \in [Jobs -> Entry]
  BY RowOf DEF MaterialInv, TypeOK
<1>3. ASSUME NEW s \in Job, NEW b \in Account, Sound(s, b, n),
             job' = [job EXCEPT ![j] = s], account' = [account EXCEPT ![j] = b],
             UNCHANGED <<writes, link, entry, cmd, poll, host, printer, budget>>
      PROVE  MaterialInv'
  <2>1. entry' = [entry EXCEPT ![j] = n]
    BY <1>2, <1>3
  <2> QED  BY <1>2, <1>3, <2>1, RowKeeps, OnlyTables
<1>4. CASE Release(j)
  <2> DEFINE s == [Moved(r, "released") EXCEPT !.reason = "released"]
             b == [a EXCEPT !.rsv = "released"]
             m == Closed(j, "released")
  <2>1. PICK f \in FreshEntries :
          entry' = [entry EXCEPT ![j] = m, ![f] = [state |-> "queued", closed |-> "none", origin |-> j]]
    BY <1>4 DEF Release
  <2>2. f \in Jobs /\ entry[f].state = "absent"
    BY DEF FreshEntries, Fresh
  <2>3. r.state \in BeforeStart
    BY <1>4 DEF Release, EndBeforeStart, Legal, Sources
  <2>4. f # j
    BY <1>2, <2>2, <2>3 DEF Sound, BeforeStart
  <2>5. m \in Entry /\ m.state = "closed"
    BY <1>2, ClosedTyped
  <2>6. s \in Job /\ b \in Account /\ Sound(s, b, m)
    BY <1>2, <2>3, <2>5, ReleasedSound
  <2>7. job' = [job EXCEPT ![j] = s] /\ account' = [account EXCEPT ![j] = b]
    BY <1>4 DEF Release, EndBeforeStart
  <2>8. [state |-> "queued", closed |-> "none", origin |-> j] \in Entry
    BY DEF Entry
  <2> HIDE DEF s, b, m
  <2>9. /\ entry' \in [Jobs -> Entry] /\ entry'[j] = m
        /\ \A i \in Jobs \ {j} :
             entry'[i] = entry[i] \/ (entry[i].state = "absent" /\ entry'[i].state = "queued")
    BY <1>2, <2>1, <2>2, <2>4, <2>5, <2>8
  <2>10. Books' /\ job' \in [Jobs -> Job] /\ account' \in [Jobs -> Account]
    BY <2>6, <2>7, <2>9, RowAndQueueKeep
  <2> QED  BY <1>4, <2>9, <2>10, OnlyTables DEF Release, EndBeforeStart
<1>5. CASE CancelBeforeStart(j)
  <2> DEFINE s == [Moved(r, "cancelledBeforeStart") EXCEPT !.reason = "beforeStart"]
             b == [a EXCEPT !.rsv = "released"]
             m == Closed(j, "cancelled")
  <2>1. r.state \in BeforeStart
    BY <1>5 DEF CancelBeforeStart, EndBeforeStart, Legal, Sources
  <2>2. m \in Entry /\ m.state = "closed"
    BY <1>2, ClosedTyped
  <2>3. s \in Job /\ b \in Account /\ Sound(s, b, m)
    BY <1>2, <2>1, <2>2, ReleasedSound
  <2>4. job' = [job EXCEPT ![j] = s] /\ account' = [account EXCEPT ![j] = b]
        /\ entry' = [entry EXCEPT ![j] = m]
    BY <1>5 DEF CancelBeforeStart, EndBeforeStart
  <2> HIDE DEF s, b, m
  <2> QED  BY <1>5, <2>2, <2>3, <2>4, RowKeeps, OnlyTables DEF CancelBeforeStart, EndBeforeStart
<1>6. CASE Settle(j)
  <2> DEFINE s == Moved(r, "materialSettled")
             b == [Consumed(a) EXCEPT !.material = "resolved"]
  <2>1. r.state \in {"failed", "cancelled"} /\ r.settlement \in {"pending", "deferred"}
    BY <1>6 DEF Settle, Settleable, Legal, Sources
  <2>2. s \in Job /\ s.state = r.state /\ s.settlement = "settled" /\ s.reason = r.reason
    BY <1>2, MovedRow DEF StateAfter, SettlementAfter
  <2>3. a.uses = 0 /\ r.reason \notin {"released", "beforeStart"}
    BY <1>2, <2>1 DEF Sound, Counted
  <2>4. b \in Account /\ b.rsv = "consumed" /\ b.uses = 1 /\ b.material = "resolved"
    <3>1. Consumed(a) \in Account /\ Consumed(a).rsv = "consumed" /\ Consumed(a).uses = 1
      BY <1>2, <2>3, ConsumedRow
    <3> HIDE DEF a
    <3> QED  BY <3>1 DEF Account
  <2>5. job' = [job EXCEPT ![j] = s] /\ account' = [account EXCEPT ![j] = b]
    BY <1>6 DEF Settle
  <2> HIDE DEF s, b
  <2>6. Sound(s, b, n)
    BY <1>2, <2>1, <2>2, <2>3, <2>4 DEF Sound, Counted, Terminal
  <2> QED  BY <1>3, <1>6, <2>2, <2>4, <2>5, <2>6 DEF Settle
<1>7. CASE Defer(j)
  <2> DEFINE s == Moved(r, "materialDeferred")
             b == [a EXCEPT !.material = "deferred"]
  <2>1. r.state \in {"failed", "cancelled"} /\ r.settlement = "pending"
    BY <1>7 DEF Defer, Legal, Sources
  <2>2. s \in Job /\ s.state = r.state /\ s.settlement = "deferred" /\ s.reason = r.reason
    BY <1>2, MovedRow DEF StateAfter, SettlementAfter
  <2>3. b \in Account /\ b.rsv = a.rsv /\ b.uses = a.uses /\ b.material = "deferred"
    BY <1>2 DEF Account
  <2>4. job' = [job EXCEPT ![j] = s] /\ account' = [account EXCEPT ![j] = b]
    BY <1>7 DEF Defer
  <2> HIDE DEF s, b
  <2>5. Sound(s, b, n)
    BY <1>2, <2>1, <2>2, <2>3 DEF Sound, Counted, Terminal
  <2> QED  BY <1>3, <1>7, <2>2, <2>3, <2>4, <2>5 DEF Defer
<1>8. CASE Correct(j)
  <2> DEFINE s == [Moved(r, "materialCorrected") EXCEPT !.corrected = TRUE]
  <2>1. s \in Job /\ s.state = r.state /\ s.settlement = r.settlement /\ s.reason = r.reason
        /\ s.checks = r.checks
    <3>1. Moved(r, "materialCorrected") \in Job /\ Moved(r, "materialCorrected").state = r.state
          /\ Moved(r, "materialCorrected").settlement = r.settlement
          /\ Moved(r, "materialCorrected").reason = r.reason
          /\ Moved(r, "materialCorrected").checks = r.checks
      BY <1>2, MovedRow DEF StateAfter, SettlementAfter
    <3> QED  BY <3>1 DEF Job
  <2>2. job' = [job EXCEPT ![j] = s] /\ account' = [account EXCEPT ![j] = a]
    BY <1>8 DEF Correct, MaterialInv, TypeOK
  <2> HIDE DEF s
  <2>3. Sound(s, a, n)
    BY <1>2, <2>1, StillSound DEF Sound
  <2> QED  BY <1>2, <1>3, <1>8, <2>1, <2>2, <2>3 DEF Correct
<1>9. ASSUME NEW state \in Terminal, Declare(j, state)  PROVE MaterialInv'
  <2> DEFINE moved == Moved(r, DeclaredEvent(state))
             s == [moved EXCEPT !.reason = IF state = "cancelled" THEN "declared" ELSE @]
             c == EndAccount(a, state)
             b == [c EXCEPT !.unknown = IF @ = "none" THEN @ ELSE "resolved"]
             m == Closed(j, state)
  <2>1. r.state \in {"outcomeUnknown", "printing", "paused"}
    BY <1>9 DEF Declare, MayDeclare, OnHost
  <2>2. moved \in Job /\ moved.state = state /\ moved.reason = r.reason
        /\ moved.settlement = (IF state = "completed" THEN "settled" ELSE "pending")
    BY <1>2, MovedRow DEF DeclaredEvent, StateAfter, SettlementAfter, Terminal
  <2>3. r.reason \notin {"released", "beforeStart"}
    BY <1>2, <2>1 DEF Sound, Counted, Terminal
  <2>4. s \in Job /\ s.state = state /\ s.settlement = moved.settlement
        /\ s.reason \notin {"released", "beforeStart"}
    BY <2>2, <2>3 DEF Job
  <2>5. m \in Entry /\ m.state = "closed"
    BY <1>2, ClosedTyped DEF Terminal
  <2>6. job' = [job EXCEPT ![j] = s] /\ account' = [account EXCEPT ![j] = b]
        /\ entry' = [entry EXCEPT ![j] = m]
    <3>1. job' = [job EXCEPT ![j] = s]  BY <1>9, Zenon DEF Declare
    <3>2. account' = [account EXCEPT ![j] = b]  BY <1>9, Zenon DEF Declare
    <3>3. entry' = [entry EXCEPT ![j] = m]  BY <1>9 DEF Declare, EntryEnds
    <3> HIDE DEF s, b, m
    <3> QED  BY <3>1, <3>2, <3>3
  <2> HIDE DEF s, m, moved
  <2>7. c \in Account /\ Sound(s, c, m)
    BY <1>2, <2>1, <2>2, <2>4, <2>5, EndedSound DEF Terminal
  <2> HIDE DEF c
  <2>8. b \in Account /\ b.rsv = c.rsv /\ b.uses = c.uses /\ b.material = c.material
    BY <2>7 DEF Account
  <2> HIDE DEF b
  <2>9. Sound(s, b, m)
    BY <2>4, <2>7, <2>8 DEF Sound, Counted, Terminal
  <2> QED  BY <1>9, <2>4, <2>5, <2>6, <2>8, <2>9, RowKeeps, OnlyTables DEF Declare
<1> QED  BY <1>1, <1>4, <1>5, <1>6, <1>7, <1>8, <1>9

LEMMA IdleTyped ==
  ASSUME Endpoints # {}
  PROVE  NoCmd \in Cmd /\ NoCmd.pc = "idle" /\ NoPoll \in Poll
<1>1. (CHOOSE e \in Endpoints : TRUE) \in Endpoints
  OBVIOUS
<1>2. <<>> \in History
  <2> DEFINE none == <<>>
  <2>1. none \in Seq(PrintRow) /\ Len(none) = 0
    BY EmptySeq
  <2> HIDE DEF none
  <2>2. Len(none) <= MaxPrints
    BY <2>1, JobBoundsAssumption
  <2>3. none \in History
    BY <2>1, <2>2, HistorySeq
  <2> QED  BY <2>3 DEF none
<1>3. NoCmd \in Cmd /\ NoCmd.pc = "idle"
  BY <1>1, JobBoundsAssumption DEF NoCmd, Cmd, OpIds
<1>4. NoPoll \in Poll
  BY <1>1, <1>2 DEF NoPoll, Poll
<1> QED  BY <1>3, <1>4

LEMMA EndpointsExist == ASSUME MaterialInv  PROVE Endpoints # {}
BY DEF MaterialInv, TypeOK, Callers, Cmd

\* Handing off moves a Job that is underway to a state in which it is underway.
LEMMA HandOffFits ==
  ASSUME NEW k \in {"upload", "start"} \cup Controls, NEW s \in JobState, s \in Sources[EventOf(k)], NEW x
  PROVE  /\ s \notin {"absent", "outcomeUnknown"} \cup Terminal
         /\ StateAfter(s, EventOf(k)) \notin {"absent", "outcomeUnknown"} \cup Terminal
         /\ SettlementAfter(EventOf(k), x) = x
BY DEF EventOf, Sources, StateAfter, SettlementAfter, BeforeStart, OnHost, Terminal, Controls, JobState

LEMMA HandOffKeeps ==
  ASSUME MaterialInv, HandOff
  PROVE  MaterialInv'
<1>1. ASSUME NEW c \in Callers, NEW d \in Cmd, d.pc # "idle" => d.job \in Jobs,
             cmd' = [cmd EXCEPT ![c] = d],
             UNCHANGED <<writes, link, durable, poll, host, printer, budget>>
      PROVE  MaterialInv'
  BY <1>1 DEF MaterialInv, TypeOK, CommandsName, Books, writes, durable
<1>2. NoCmd \in Cmd /\ NoCmd.pc = "idle"
  BY IdleTyped, EndpointsExist
<1>3. \A c \in Callers : cmd[c] \in Cmd /\ (cmd[c].pc # "idle" => cmd[c].job \in Jobs)
  BY DEF MaterialInv, TypeOK, CommandsName
<1>4. ASSUME NEW c \in Callers, NEW j \in Jobs, NEW k \in {"upload", "start"} \cup Controls, Ask(c, j, k)
      PROVE  MaterialInv'
  <2> DEFINE u == IF k = "start" THEN job[j].upload ELSE None
             d == [NoCmd EXCEPT !.pc = "asked", !.kind = k, !.job = j, !.source = u]
  <2>1. u \in OpIds
    BY RowOf DEF Job, OpIds
  <2>2. cmd' = [cmd EXCEPT ![c] = d]
    BY <1>4 DEF Ask
  <2> HIDE DEF u
  <2>3. d \in Cmd /\ d.job = j
    BY <1>2, <2>1 DEF Cmd
  <2> HIDE DEF d
  <2> QED  BY <1>1, <1>4, <2>2, <2>3 DEF Ask
<1>5. ASSUME NEW c \in Callers, Check(c)  PROVE MaterialInv'
  <2> DEFINE m == cmd[c]
             e == printer[job[m.job].printer].conn
             mark == IF m.kind = "start" THEN Len(Prints(e)) ELSE 0
             ours == Busy(e) /\ Last(e).file = "ours"
             d == [m EXCEPT !.pc = "checked", !.conn = e, !.mark = mark, !.ours = ours]
  <2>1. m \in Cmd /\ m.job \in Jobs
    BY <1>3, <1>5 DEF Check
  <2>2. e \in Endpoints
    BY <2>1, RowOf DEF MaterialInv, TypeOK, Job, Printer
  <2>3. mark \in 0..MaxPrints
    <3>1. Prints(e) \in History
      BY <2>2 DEF MaterialInv, TypeOK, Host, Prints
    <3> QED  BY <3>1, HistorySeq, JobBoundsAssumption
  <2>4. ours \in BOOLEAN
    OBVIOUS
  <2>5. cmd' = [cmd EXCEPT ![c] = d]
    BY <1>5 DEF Check
  <2> HIDE DEF m, e, mark, ours
  <2>6. d \in Cmd /\ d.job = m.job
    BY <2>1, <2>2, <2>3, <2>4 DEF Cmd
  <2> QED  BY <1>1, <1>5, <2>1, <2>5, <2>6 DEF Check
<1>6. ASSUME NEW c \in Callers, Refuse(c)  PROVE MaterialInv'
  <2>1. cmd[c] \in Cmd /\ cmd[c].job \in Jobs
    BY <1>3, <1>6 DEF Refuse
  <2>2. CASE cmd' = [cmd EXCEPT ![c] = NoCmd]
    BY <1>1, <1>2, <1>6, <2>2 DEF Refuse
  <2>3. CASE c = Driver /\ cmd' = [cmd EXCEPT ![c].pc = "refused"]
    <3>1. [cmd[c] EXCEPT !.pc = "refused"] \in Cmd /\ [cmd[c] EXCEPT !.pc = "refused"].job = cmd[c].job
      BY <2>1 DEF Cmd
    <3>2. cmd' = [cmd EXCEPT ![c] = [cmd[c] EXCEPT !.pc = "refused"]]
      BY <2>3
    <3> QED  BY <1>1, <1>6, <2>1, <3>1, <3>2 DEF Refuse
  <2> QED  BY <1>6, <2>2, <2>3 DEF Refuse
<1>7. CASE RecordRefusal
  <2> DEFINE j == cmd[Driver].job
  <2>1. Driver \in Callers /\ j \in Jobs
    BY <1>3, <1>7 DEF RecordRefusal, Callers
  <2>2. PICK b \in BOOLEAN : job' = [job EXCEPT ![j].failed = b]
    <3>1. PICK b : job' = [job EXCEPT ![j].failed = @ \/ b]
      BY <1>7 DEF RecordRefusal
    <3>2. (job[j].failed \/ b) \in BOOLEAN
      OBVIOUS
    <3> QED  BY <3>1, <3>2
  <2> DEFINE s == [job[j] EXCEPT !.failed = b]
  <2>3. job[j] \in Job /\ account[j] \in Account /\ entry[j] \in Entry
        /\ Sound(job[j], account[j], entry[j])
    BY <2>1, RowOf
  <2>4. job' = [job EXCEPT ![j] = s] /\ account' = [account EXCEPT ![j] = account[j]]
        /\ entry' = [entry EXCEPT ![j] = entry[j]]
    BY <1>7, <2>2 DEF RecordRefusal, MaterialInv, TypeOK
  <2> HIDE DEF j
  <2>5. s \in Job /\ s.state = job[j].state /\ s.settlement = job[j].settlement
        /\ s.reason = job[j].reason /\ s.checks = job[j].checks
    BY <2>2, <2>3 DEF Job
  <2> HIDE DEF s
  <2>6. Sound(s, account[j], entry[j])
    BY <2>3, <2>5 DEF Sound, Counted
  <2>7. Books' /\ job' \in [Jobs -> Job] /\ account' \in [Jobs -> Account] /\ entry' \in [Jobs -> Entry]
    BY <2>1, <2>3, <2>4, <2>5, <2>6, RowKeeps
  <2>8. cmd' \in [Callers -> Cmd] /\ CommandsName'
    BY <1>2, <1>7 DEF RecordRefusal, MaterialInv, TypeOK, CommandsName
  <2> QED  BY <1>7, <2>7, <2>8 DEF RecordRefusal, MaterialInv, TypeOK, writes
<1>8. ASSUME NEW c \in Callers, Commit(c)  PROVE MaterialInv'
  <2> DEFINE m == cmd[c]
             r == job[m.job]
             event == EventOf(m.kind)
  <2>1. m \in Cmd /\ m.job \in Jobs /\ m.kind \in {"upload", "start"} \cup Controls
        /\ m.source \in OpIds /\ m.conn \in Endpoints /\ m.mark \in 0..MaxPrints
    BY <1>3, <1>8 DEF Commit, Cmd
  <2>2. r \in Job /\ account[m.job] \in Account /\ entry[m.job] \in Entry
        /\ Sound(r, account[m.job], entry[m.job])
    BY <2>1, RowOf
  <2>3. r.state \in Sources[event]
    BY <1>8 DEF Commit, MayCommit, Legal
  <2>4. PICK o \in FreshOps :
          /\ W!Open(o, r.printer)
          /\ link' = [link EXCEPT ![o] = [kind |-> m.kind, job |-> m.job, caller |-> c, conn |-> m.conn,
                                          mark |-> m.mark, source |-> m.source, before |-> 0]]
          /\ job' = [job EXCEPT ![m.job] = [Moved(r, event) EXCEPT
                       !.active = o, !.start = IF m.kind = "start" THEN o ELSE @]]
    BY <1>8 DEF Commit
  <2>5. o \in Ops /\ o \in OpIds
    BY DEF FreshOps, Fresh, OpIds
  <2> DEFINE moved == Moved(r, event)
             s == [moved EXCEPT !.active = o, !.start = IF m.kind = "start" THEN o ELSE @]
             l == [kind |-> m.kind, job |-> m.job, caller |-> c, conn |-> m.conn,
                   mark |-> m.mark, source |-> m.source, before |-> 0]
  <2>6. moved \in Job /\ moved.state = StateAfter(r.state, event) /\ moved.reason = r.reason
        /\ moved.settlement = SettlementAfter(event, r.settlement) /\ moved.checks = r.checks
    BY <2>2, MovedRow
  <2>7. job' = [job EXCEPT ![m.job] = s] /\ account' = [account EXCEPT ![m.job] = account[m.job]]
        /\ entry' = [entry EXCEPT ![m.job] = entry[m.job]]
    BY <1>8, <2>4 DEF Commit, MaterialInv, TypeOK
  <2>8. r.state \in JobState
    BY <2>2 DEF Job
  <2>9. l \in Link
    BY <2>1, JobBoundsAssumption DEF Link
  <2> HIDE DEF moved, m, event, r
  <2>10. s \in Job /\ s.state = moved.state /\ s.reason = moved.reason
         /\ s.settlement = moved.settlement /\ s.checks = moved.checks
    BY <2>5, <2>6 DEF Job
  <2> HIDE DEF s, l
  <2>11. Sound(s, account[m.job], entry[m.job])
    <3>1. /\ r.state \notin {"absent", "outcomeUnknown"} \cup Terminal
          /\ s.state \notin {"absent", "outcomeUnknown"} \cup Terminal
          /\ s.settlement = r.settlement /\ s.reason = r.reason /\ s.checks = r.checks
      <4>1. /\ r.state \notin {"absent", "outcomeUnknown"} \cup Terminal
            /\ StateAfter(r.state, event) \notin {"absent", "outcomeUnknown"} \cup Terminal
            /\ SettlementAfter(event, r.settlement) = r.settlement
        BY <2>1, <2>3, <2>8, HandOffFits, Zenon DEF event
      <4> QED  BY <2>6, <2>10, <4>1
    <3> QED  BY <2>2, <2>10, <3>1, StillSound DEF Sound
  <2>12. Books' /\ job' \in [Jobs -> Job] /\ account' \in [Jobs -> Account] /\ entry' \in [Jobs -> Entry]
    BY <2>1, <2>2, <2>7, <2>10, <2>11, RowKeeps
  <2>13. cmd' \in [Callers -> Cmd] /\ CommandsName'
    BY <1>2, <1>8 DEF Commit, MaterialInv, TypeOK, CommandsName
  <2>14. link' \in [Ops -> Link]
    BY <2>4, <2>5, <2>9 DEF MaterialInv, TypeOK, l
  <2>15. /\ status' \in [Ops -> {"none", "open"} \cup W!Closed] /\ owner' \in [Ops -> Printers]
         /\ effect' \in [Ops -> {"unsent", "pending", "happened", "void"}] /\ again' \in [Ops -> BOOLEAN]
    <3>1. r.printer \in Printers
      BY <2>2 DEF Job
    <3> QED  BY <2>4, <2>5, <3>1 DEF W!Open, MaterialInv, TypeOK
  <2> QED  BY <1>8, <2>12, <2>13, <2>14, <2>15 DEF Commit, MaterialInv, TypeOK
<1>9. Driver \in Callers /\ Operators \subseteq Callers /\ {"upload", "start"} \cup Verbs \subseteq {"upload", "start"} \cup Controls
  BY VerbsAssumption DEF Callers
<1> QED
  BY <1>4, <1>5, <1>6, <1>7, <1>8, <1>9 DEF HandOff, OperatorAsks, DriverStages, DriverStarts

\* What an outcome leaves a row as.
LEMMA AppliedRow ==
  ASSUME NEW r \in Job, NEW event
  PROVE  LET t == Applied(r, event) IN
         /\ t \in Job /\ t.reason = r.reason /\ t.checks = r.checks
         /\ t.state = (IF event = "none" THEN r.state ELSE StateAfter(r.state, event))
         /\ t.settlement = (IF event = "none" THEN r.settlement ELSE SettlementAfter(event, r.settlement))
<1> DEFINE moved == IF event = "none" THEN r ELSE Moved(r, event)
           u == CASE event = "stageSucceeded" -> r.active [] event = "stageFailed" -> None
                  [] OTHER -> moved.upload
           b == CASE event = "stageSucceeded" -> FALSE [] event \in {"stageFailed", "startFailed"} -> TRUE
                  [] OTHER -> moved.failed
           t == [moved EXCEPT !.active = None, !.upload = u, !.failed = b]
<1>1. /\ moved \in Job /\ moved.reason = r.reason /\ moved.checks = r.checks
      /\ moved.state = (IF event = "none" THEN r.state ELSE StateAfter(r.state, event))
      /\ moved.settlement = (IF event = "none" THEN r.settlement ELSE SettlementAfter(event, r.settlement))
  BY MovedRow
<1>2. Applied(r, event) = t
  BY Zenon DEF Applied
<1> HIDE DEF moved
<1>3. u \in OpIds /\ b \in BOOLEAN
  <2>1. moved.upload \in OpIds /\ moved.failed \in BOOLEAN /\ r.active \in OpIds /\ None \in OpIds
    BY <1>1 DEF Job, OpIds
  <2> QED  BY <2>1
<1> HIDE DEF u, b
<1>4. t \in Job /\ t.reason = moved.reason /\ t.checks = moved.checks /\ t.state = moved.state
      /\ t.settlement = moved.settlement
  BY <1>1, <1>3 DEF Job, OpIds
<1> HIDE DEF t
<1> QED  BY <1>1, <1>2, <1>4

\* Applying outcomes, of one Job or of all that catch up at a start.
LEMMA OutcomesKeep ==
  ASSUME MaterialInv, NEW S, NEW st, ApplyTo(S, st), UNCHANGED entry
  PROVE  Books' /\ job' \in [Jobs -> Job] /\ account' \in [Jobs -> Account]
<1>1. ASSUME NEW i \in Jobs
      PROVE  job'[i] \in Job /\ account'[i] \in Account /\ Sound(job'[i], account'[i], entry[i])
  <2>1. job[i] \in Job /\ account[i] \in Account /\ entry[i] \in Entry
        /\ Sound(job[i], account[i], entry[i])
    BY RowOf
  <2>2. CASE i \notin Resolved(S, st)
    <3>1. job'[i] = job[i] /\ account'[i] = account[i]
      BY <2>2 DEF ApplyTo
    <3> QED  BY <2>1, <3>1
  <2>3. CASE i \in Resolved(S, st)
    <3> DEFINE k == link[job[i].active].kind
               x == st[job[i].active]
               ev == EventFor(job[i].state, k, x)
               s == Applied(job[i], ev)
    <3>1. job'[i] = s
      BY <2>3 DEF ApplyTo
    <3>2. account'[i] = IF ev = "startAbandoned" THEN AskUnknown(account[i]) ELSE account[i]
      BY <2>3 DEF ApplyTo
    <3>3. job[i].state \in JobState
      BY <2>1 DEF Job
    <3>4. /\ StateAfter(job[i].state, ev) = "absent" <=> job[i].state = "absent"
          /\ StateAfter(job[i].state, ev) \in Terminal <=> job[i].state \in Terminal
          /\ job[i].state \in {"outcomeUnknown"} \cup Terminal => StateAfter(job[i].state, ev) = job[i].state
          /\ SettlementAfter(ev, job[i].settlement) = job[i].settlement
          /\ ev = "startAbandoned" => job[i].state = "starting"
      <4> HIDE DEF k, x
      <4> QED  BY <3>3, OutcomeFits
    <3> HIDE DEF ev
    <3>5. /\ s \in Job /\ s.reason = job[i].reason /\ s.checks = job[i].checks
          /\ s.state = (IF ev = "none" THEN job[i].state ELSE StateAfter(job[i].state, ev))
          /\ s.settlement = (IF ev = "none" THEN job[i].settlement
                                ELSE SettlementAfter(ev, job[i].settlement))
      BY <2>1, AppliedRow, Zenon
    <3> HIDE DEF s
    <3>6. Sound(s, account[i], entry[i])
      <4>1. s.state \notin {"outcomeUnknown"} \cup Terminal => s.checks < Limit
        BY <2>1, <3>4, <3>5 DEF Sound
      <4>2. /\ s.state = "absent" <=> job[i].state = "absent"
            /\ s.state \in Terminal <=> job[i].state \in Terminal
            /\ s.settlement = job[i].settlement
        BY <3>4, <3>5
      <4> QED  BY <2>1, <3>5, <4>1, <4>2, StillSound
    <3>7. CASE ev = "startAbandoned"
      <4>1. s.state # "absent"
        BY <3>4, <3>5, <3>7
      <4> QED  BY <2>1, <3>1, <3>2, <3>5, <3>6, <3>7, <4>1, AskedSound
    <3> QED  BY <2>1, <3>1, <3>2, <3>5, <3>6, <3>7
  <2> QED  BY <2>2, <2>3
<1>2. job' \in [Jobs -> Job] /\ account' \in [Jobs -> Account]
  BY <1>1 DEF ApplyTo
<1> QED  BY <1>1, <1>2 DEF Books

\* Applying a poll: the Job keeps its account, asks for its outcome, or ends.
LEMMA ApplyPollKeeps ==
  ASSUME MaterialInv, ApplyPoll
  PROVE  MaterialInv'
<1> DEFINE j == poll.job
           r == job[j]
           a == account[j]
           n == entry[j]
<1>1. j \in Jobs /\ poll \in Poll /\ poll' = NoPoll /\ NoPoll \in Poll
  BY IdleTyped, EndpointsExist DEF ApplyPoll, MaterialInv, TypeOK, Poll
<1>2. r \in Job /\ a \in Account /\ n \in Entry /\ Sound(r, a, n)
  BY <1>1, RowOf
<1>3. /\ job = [job EXCEPT ![j] = r] /\ account = [account EXCEPT ![j] = a]
      /\ entry = [entry EXCEPT ![j] = n]
  BY DEF MaterialInv, TypeOK
<1>4. ASSUME NEW s \in Job, NEW b \in Account, NEW m \in Entry, Sound(s, b, m),
             job' = [job EXCEPT ![j] = s], account' = [account EXCEPT ![j] = b],
             entry' = [entry EXCEPT ![j] = m]
      PROVE  MaterialInv'
  <2>1. Books' /\ job' \in [Jobs -> Job] /\ account' \in [Jobs -> Account] /\ entry' \in [Jobs -> Entry]
    BY <1>1, <1>4, RowKeeps
  <2>2. UNCHANGED <<writes, link, cmd, host, printer, budget>>
    BY DEF ApplyPoll
  <2> QED  BY <1>1, <2>1, <2>2 DEF MaterialInv, TypeOK, CommandsName, writes
<1>5. CASE UNCHANGED <<job, entry, account>>
  BY <1>2, <1>3, <1>4, <1>5
<1>6. CASE r.state \in OnHost /\ job' = [job EXCEPT ![j].unreachable = IF @ = "no" THEN "since" ELSE @]
           /\ UNCHANGED <<entry, account>>
  <2> DEFINE u == IF r.unreachable = "no" THEN "since" ELSE r.unreachable
             s == [r EXCEPT !.unreachable = u]
  <2>1. job' = [job EXCEPT ![j] = s]
    BY <1>6
  <2>2. u \in {"no", "since", "long"}
    BY <1>2 DEF Job
  <2> HIDE DEF u, r
  <2>3. s \in Job /\ s.state = r.state /\ s.settlement = r.settlement /\ s.reason = r.reason
        /\ s.checks = r.checks
    BY <1>2, <2>2 DEF Job
  <2> HIDE DEF s
  <2>4. Sound(s, a, n)
    BY <1>2, <2>3, StillSound DEF Sound
  <2> QED  BY <1>2, <1>3, <1>4, <1>6, <2>1, <2>3, <2>4
<1>7. ASSUME r.state \in OnHost, NEW low, NEW reports \in BOOLEAN, Reading(j, low, reports)
      PROVE  MaterialInv'
  <2> DEFINE pin == PinOf(r, low)
             verdict == Verdict(pin, reports, SameEndpoint(r))
             checks == IF verdict = "inconclusive" THEN r.checks + 1 ELSE 0
             newpin == IF pin # 0 THEN pin ELSE r.pin
             seen == [r EXCEPT !.unreachable = "no", !.checks = checks, !.pin = newpin]
             ended == Moved(seen, verdict)
             s == [ended EXCEPT !.reason = IF verdict = "cancelled" THEN CancelReason(j) ELSE @]
  <2>1. \/ /\ verdict \in Terminal
           /\ job' = [job EXCEPT ![j] = s]
           /\ account' = [account EXCEPT ![j] = EndAccount(a, verdict)]
           /\ entry' = [entry EXCEPT ![j] = Closed(j, verdict)]
        \/ /\ verdict = "inconclusive" /\ checks >= Limit
           /\ job' = [job EXCEPT ![j] = Moved(seen, "outcomeUnknown")]
           /\ account' = [account EXCEPT ![j] = AskUnknown(a)]
           /\ UNCHANGED entry
        \/ /\ verdict = "running" \/ (verdict = "inconclusive" /\ checks < Limit)
           /\ job' = [job EXCEPT ![j] = seen]
           /\ UNCHANGED <<entry, account>>
    BY <1>7, Zenon DEF Reading, EntryEnds
  <2>2. pin \in 0..MaxPrints /\ newpin \in 0..MaxPrints
    <3>1. pin \in 0..MaxPrints  BY <1>1, <1>2, PinTyped
    <3> HIDE DEF pin
    <3> QED  BY <1>2, <3>1 DEF Job
  <2> HIDE DEF pin
  <2>3. verdict \in Terminal \cup {"running", "inconclusive"}
    BY <1>1, <2>2, VerdictTyped
  <2> HIDE DEF verdict, newpin
  <2>4. r.checks \in 0..Limit /\ r.checks < Limit
    BY <1>2, <1>7 DEF Sound, Job, OnHost, Terminal
  <2>5. checks \in 0..Limit
    BY <2>4, JobBoundsAssumption
  <2> HIDE DEF checks, r
  <2>6. seen \in Job /\ seen.state = r.state /\ seen.settlement = r.settlement
        /\ seen.reason = r.reason /\ seen.checks = checks
    BY <1>2, <2>2, <2>5 DEF Job
  <2> HIDE DEF seen
  <2>7. r.state \notin {"absent", "outcomeUnknown"} \cup Terminal
    BY <1>7 DEF OnHost, Terminal
  <2>8. CASE verdict \in Terminal
    <3>1. ended \in Job /\ ended.state = verdict /\ ended.reason = r.reason
          /\ ended.settlement = (IF verdict = "completed" THEN "settled" ELSE "pending")
      BY <2>6, <2>8, MovedRow DEF StateAfter, SettlementAfter, Terminal
    <3>2. r.reason \notin {"released", "beforeStart"}
      BY <1>2, <2>7 DEF Sound, Counted
    <3>3. CancelReason(j) \in {"operator", "host"}
      BY DEF CancelReason
    <3> HIDE DEF ended
    <3>4. s \in Job /\ s.state = verdict /\ s.settlement = ended.settlement
          /\ s.reason \notin {"released", "beforeStart"}
      BY <3>1, <3>2, <3>3 DEF Job
    <3> HIDE DEF s
    <3>5. Closed(j, verdict) \in Entry /\ Closed(j, verdict).state = "closed"
      BY <1>2, <2>8, ClosedTyped DEF Terminal
    <3>6. EndAccount(a, verdict) \in Account /\ Sound(s, EndAccount(a, verdict), Closed(j, verdict))
      BY <1>2, <2>7, <2>8, <3>1, <3>4, <3>5, EndedSound
    <3>7. /\ job' = [job EXCEPT ![j] = s] /\ account' = [account EXCEPT ![j] = EndAccount(a, verdict)]
          /\ entry' = [entry EXCEPT ![j] = Closed(j, verdict)]
      BY <2>1, <2>8 DEF Terminal
    <3> QED  BY <1>4, <3>4, <3>5, <3>6, <3>7
  <2>9. CASE /\ verdict = "inconclusive" /\ job' = [job EXCEPT ![j] = Moved(seen, "outcomeUnknown")]
             /\ account' = [account EXCEPT ![j] = AskUnknown(a)] /\ UNCHANGED entry
    <3> DEFINE t == Moved(seen, "outcomeUnknown")
    <3>1. t \in Job /\ t.state = "outcomeUnknown" /\ t.reason = r.reason /\ t.settlement = r.settlement
      BY <2>6, MovedRow DEF StateAfter, SettlementAfter
    <3> HIDE DEF t
    <3>2. AskUnknown(a) \in Account /\ Sound(r, AskUnknown(a), n)
      BY <1>2, <2>7, AskedSound
    <3>3. Sound(t, AskUnknown(a), n)
      BY <1>2, <2>7, <3>1, <3>2, StillSound DEF Terminal
    <3> QED  BY <1>2, <1>3, <1>4, <2>9, <3>1, <3>2, <3>3 DEF t
  <2>10. CASE /\ verdict = "running" \/ (verdict = "inconclusive" /\ checks < Limit)
              /\ job' = [job EXCEPT ![j] = seen] /\ UNCHANGED <<entry, account>>
    <3>1. checks < Limit
      BY <2>10, JobBoundsAssumption DEF checks
    <3>2. Sound(seen, a, n)
      BY <1>2, <2>6, <3>1, StillSound
    <3> QED  BY <1>2, <1>3, <1>4, <2>6, <2>10, <3>2
  <2> QED  BY <2>1, <2>8, <2>9, <2>10
<1>8. CASE r.state \in OnHost /\ \E low : \E reports \in BOOLEAN : Reading(j, low, reports)
  BY <1>7, <1>8
<1> QED  BY <1>5, <1>6, <1>8, Zenon DEF ApplyPoll

LEMMA DriverKeeps ==
  ASSUME MaterialInv, DriverStep
  PROVE  MaterialInv'
<1>1. ASSUME NEW j \in Jobs, ApplyOutcome(j)  PROVE MaterialInv'
  <2>1. Books' /\ job' \in [Jobs -> Job] /\ account' \in [Jobs -> Account] /\ UNCHANGED entry
    BY <1>1, OutcomesKeep DEF ApplyOutcome
  <2> QED  BY <1>1, <2>1, OnlyTables DEF ApplyOutcome, MaterialInv, TypeOK
<1>2. ASSUME NEW j \in Jobs, Follow(j)  PROVE MaterialInv'
  <2> DEFINE r == job[j]
             event == IF r.state = "printing" THEN "paused" ELSE "resumed"
             s == Moved(r, event)
  <2>1. r \in Job /\ account[j] \in Account /\ entry[j] \in Entry /\ Sound(r, account[j], entry[j])
    BY RowOf
  <2>2. r.state \in OnHost
    BY <1>2 DEF Follow
  <2>3. s \in Job /\ s.state \in OnHost /\ s.settlement = r.settlement /\ s.reason = r.reason
        /\ s.checks = r.checks
    BY <2>1, MovedRow DEF StateAfter, SettlementAfter, OnHost
  <2>4. job' = [job EXCEPT ![j] = s] /\ account' = [account EXCEPT ![j] = account[j]]
        /\ entry' = [entry EXCEPT ![j] = entry[j]]
    BY <1>2 DEF Follow, MaterialInv, TypeOK
  <2> HIDE DEF s, r
  <2>5. Sound(s, account[j], entry[j])
    <3>1. s.checks < Limit
      BY <2>1, <2>2, <2>3 DEF Sound, OnHost, Terminal
    <3> QED  BY <2>1, <2>2, <2>3, <3>1, StillSound DEF OnHost, Terminal
  <2>6. Books' /\ job' \in [Jobs -> Job] /\ account' \in [Jobs -> Account] /\ entry' \in [Jobs -> Entry]
    BY <2>1, <2>3, <2>4, <2>5, RowKeeps
  <2> QED  BY <1>2, <2>6, OnlyTables DEF Follow
<1>3. ASSUME NEW j \in Jobs, ReadHistory(j)  PROVE MaterialInv'
  <2> DEFINE e == printer[job[j].printer].conn
  <2>1. PICK ok \in BOOLEAN :
          poll' = [job |-> j, read |-> ok, conn |-> e, page |-> IF ok THEN Prints(e) ELSE <<>>]
    BY <1>3 DEF ReadHistory
  <2>2. e \in Endpoints
    BY RowOf DEF MaterialInv, TypeOK, Job, Printer
  <2>3. Prints(e) \in History
    BY <2>2 DEF MaterialInv, TypeOK, Host, Prints
  <2>4. <<>> \in History
    BY IdleTyped, EndpointsExist DEF NoPoll, Poll
  <2> HIDE DEF e
  <2>5. poll' \in Poll
    BY <2>1, <2>2, <2>3, <2>4 DEF Poll
  <2> QED
    BY <1>3, <2>5 DEF ReadHistory, MaterialInv, TypeOK, CommandsName, Books, writes, durable
<1> QED  BY <1>1, <1>2, <1>3, ApplyPollKeeps DEF DriverStep

LEMMA HostOperationKeeps ==
  ASSUME MaterialInv, HostOperation
  PROVE  MaterialInv'
<1>1. PICK o \in Ops : Dispatch(o) \/ Vanish(o) \/ Happen(o) \/ Succeed(o) \/ Abandon(o) \/ Fail(o)
  BY DEF HostOperation
<1>2. UNCHANGED <<job, entry, account, cmd>>
  BY <1>1 DEF Dispatch, Vanish, Happen, Succeed, Abandon, Fail, durable
<1>3. link[o] \in Link /\ link[o].conn \in Endpoints
  BY DEF MaterialInv, TypeOK, Link
<1>4. CASE Dispatch(o)
  <2> DEFINE n == Len(Prints(link[o].conn))
             l == [link[o] EXCEPT !.before = n]
  <2>1. n \in 0..MaxPrints
    <3>1. Prints(link[o].conn) \in History
      BY <1>3 DEF MaterialInv, TypeOK, Host, Prints
    <3> QED  BY <3>1, HistorySeq
  <2>2. link' = [link EXCEPT ![o] = l]
    BY <1>4 DEF Dispatch
  <2> HIDE DEF n
  <2>3. l \in Link
    BY <1>3, <2>1 DEF Link
  <2> HIDE DEF l
  <2>4. link' \in [Ops -> Link]
    BY <2>2, <2>3 DEF MaterialInv, TypeOK
  <2> QED  BY <1>2, <1>4, <2>4, TablesKeep DEF Dispatch, W!Dispatch, MaterialInv, TypeOK, durable
<1>5. CASE Vanish(o)
  BY <1>2, <1>5, TablesKeep DEF Vanish, W!Vanish, MaterialInv, TypeOK, durable
<1>6. CASE Happen(o)
  <2> DEFINE e == link[o].conn
             k == link[o].kind
  <2>1. o \in OpIds /\ host \in [Endpoints -> Host]
    BY DEF OpIds, MaterialInv, TypeOK
  <2>2. host' \in [Endpoints -> Host]
    <3>1. CASE k = "start"
      <4>1. StartPrint(e, "ours", o)
        BY <1>6, <3>1 DEF Happen
      <4> QED  BY <1>3, <2>1, <4>1, StartPrintTyped
    <3>2. CASE k = "upload"
      BY <1>6, <2>1, <3>2 DEF Happen
    <3>3. CASE k \notin {"start", "upload"}
      <4>1. host' = [host EXCEPT ![e] = Control(host[e], k, o)]
        BY <1>6, <3>3 DEF Happen
      <4>2. Control(host[e], k, o) \in Host
        BY <1>3, <2>1, ControlTyped
      <4> QED  BY <2>1, <4>1, <4>2
    <3> QED  BY <3>1, <3>2, <3>3
  <2> QED  BY <1>2, <1>6, <2>2, TablesKeep DEF Happen, W!Happen, MaterialInv, TypeOK, durable
<1>7. CASE Succeed(o)
  BY <1>2, <1>7, TablesKeep DEF Succeed, W!Close, W!Closed, MaterialInv, TypeOK, durable
<1>8. CASE Abandon(o)
  BY <1>2, <1>8, TablesKeep DEF Abandon, W!Close, W!Closed, MaterialInv, TypeOK, durable
<1>9. CASE Fail(o)
  BY <1>2, <1>9, TablesKeep DEF Fail, W!Fail, W!Closed, MaterialInv, TypeOK, durable
<1> QED  BY <1>1, <1>4, <1>5, <1>6, <1>7, <1>8, <1>9

LEMMA SpendTyped ==
  ASSUME TypeOK, NEW what \in {"outside", "edits", "flaps", "crashes"}, Spend(what)
  PROVE  budget' \in Budget
BY DEF TypeOK, Spend, Budget

LEMMA WorldKeeps ==
  ASSUME MaterialInv, World
  PROVE  MaterialInv'
<1>1. ASSUME NEW p \in Printers, NEW q \in Printer, printer' = [printer EXCEPT ![p] = q],
             UNCHANGED <<writes, link, durable, cmd, poll, host>>,
             budget' \in Budget
      PROVE  MaterialInv'
  BY <1>1, TablesKeep DEF MaterialInv, TypeOK, writes, durable
<1>2. TypeOK
  BY DEF MaterialInv
<1>3. ASSUME NEW p \in Printers,
             MoveSpool(p) \/ SetStartSafety(p) \/ GoOnline(p) \/ GoOffline(p)
               \/ \E e \in Endpoints : SetConnection(p, e)
      PROVE  MaterialInv'
  <2>1. printer[p] \in Printer
    BY <1>2 DEF TypeOK
  <2>2. CASE MoveSpool(p)
    <3>1. [printer[p] EXCEPT !.loaded = ~@] \in Printer  BY <2>1 DEF Printer
    <3>2. printer' = [printer EXCEPT ![p] = [printer[p] EXCEPT !.loaded = ~@]]
      BY <2>2 DEF MoveSpool
    <3> QED  BY <1>1, <1>2, <2>2, <3>1, <3>2, SpendTyped DEF MoveSpool
  <2>3. CASE SetStartSafety(p)
    <3>1. [printer[p] EXCEPT !.unattended = ~@] \in Printer  BY <2>1 DEF Printer
    <3>2. printer' = [printer EXCEPT ![p] = [printer[p] EXCEPT !.unattended = ~@]]
      BY <2>3 DEF SetStartSafety
    <3> QED  BY <1>1, <1>2, <2>3, <3>1, <3>2, SpendTyped DEF SetStartSafety
  <2>4. CASE GoOnline(p)
    <3>1. [printer[p] EXCEPT !.online = TRUE] \in Printer  BY <2>1 DEF Printer
    <3>2. printer' = [printer EXCEPT ![p] = [printer[p] EXCEPT !.online = TRUE]]
      BY <2>4 DEF GoOnline
    <3> QED  BY <1>1, <1>2, <2>4, <3>1, <3>2 DEF GoOnline, TypeOK
  <2>5. CASE GoOffline(p)
    <3>1. [printer[p] EXCEPT !.online = FALSE] \in Printer  BY <2>1 DEF Printer
    <3>2. printer' = [printer EXCEPT ![p] = [printer[p] EXCEPT !.online = FALSE]]
      BY <2>5 DEF GoOffline
    <3> QED  BY <1>1, <1>2, <2>5, <3>1, <3>2, SpendTyped DEF GoOffline
  <2>6. ASSUME NEW e \in Endpoints, SetConnection(p, e)  PROVE MaterialInv'
    <3>1. [printer[p] EXCEPT !.conn = e, !.online = FALSE] \in Printer  BY <2>1 DEF Printer
    <3>2. printer' = [printer EXCEPT ![p] = [printer[p] EXCEPT !.conn = e, !.online = FALSE]]
      BY <2>6 DEF SetConnection
    <3> QED  BY <1>1, <1>2, <2>6, <3>1, <3>2, SpendTyped DEF SetConnection
  <2> QED  BY <1>3, <2>2, <2>3, <2>4, <2>5, <2>6
<1>4. ASSUME NEW e \in Endpoints, Outside(e)  PROVE MaterialInv'
  <2>1. None \in OpIds /\ host[e] \in Host /\ host \in [Endpoints -> Host]
    BY <1>2 DEF OpIds, TypeOK
  <2>2. host' \in [Endpoints -> Host]
    <3>1. ASSUME NEW k \in Controls, host' = [host EXCEPT ![e] = Control(@, k, None)]
          PROVE  host' \in [Endpoints -> Host]
      BY <2>1, <3>1, ControlTyped
    <3>2. CASE host' = [host EXCEPT ![e].print = "standby"]
      <4>1. [host[e] EXCEPT !.print = "standby"] \in Host  BY <2>1 DEF Host
      <4> QED  BY <2>1, <3>2, <4>1
    <3>3. CASE \E f \in {"ours", "other"} : ~Busy(e) /\ StartPrint(e, f, None)
      BY <2>1, <3>3, StartPrintTyped
    <3> QED  BY <1>4, <3>1, <3>2, <3>3 DEF Outside
  <2> QED
    BY <1>2, <1>4, <2>2, SpendTyped, TablesKeep DEF Outside, TypeOK, writes, durable
<1>5. ASSUME NEW e \in Endpoints, NEW s \in Terminal \cup {"other"}, PrintEnds(e, s)
      PROVE  MaterialInv'
  <2>1. host[e] \in Host /\ host \in [Endpoints -> Host]
    BY <1>2 DEF TypeOK
  <2>2. End(host[e].prints, s, None) \in History
    BY <2>1, EndTyped DEF Host, OpIds
  <2>3. [prints |-> End(host[e].prints, s, None), print |-> Shown(s)] \in Host
    BY <2>2 DEF Host, Shown
  <2>4. host' \in [Endpoints -> Host]
    BY <1>5, <2>1, <2>3 DEF PrintEnds
  <2> QED  BY <1>2, <1>5, <2>4, TablesKeep DEF PrintEnds, TypeOK, writes, durable
<1>6. ASSUME NEW j \in Jobs, UnreachableLong(j)  PROVE MaterialInv'
  <2> DEFINE r == job[j]
             s == [r EXCEPT !.unreachable = "long"]
  <2>1. r \in Job /\ account[j] \in Account /\ entry[j] \in Entry /\ Sound(r, account[j], entry[j])
    BY RowOf
  <2>2. job' = [job EXCEPT ![j] = s] /\ account' = [account EXCEPT ![j] = account[j]]
        /\ entry' = [entry EXCEPT ![j] = entry[j]]
    BY <1>2, <1>6 DEF UnreachableLong, TypeOK
  <2> HIDE DEF r
  <2>3. s \in Job /\ s.state = r.state /\ s.settlement = r.settlement /\ s.reason = r.reason
        /\ s.checks = r.checks
    BY <2>1 DEF Job
  <2> HIDE DEF s
  <2>4. Sound(s, account[j], entry[j])
    BY <2>1, <2>3, StillSound DEF Sound
  <2>5. Books' /\ job' \in [Jobs -> Job] /\ account' \in [Jobs -> Account] /\ entry' \in [Jobs -> Entry]
    BY <2>1, <2>2, <2>3, <2>4, RowKeeps
  <2> QED  BY <1>6, <2>5, OnlyTables DEF UnreachableLong
<1> QED  BY <1>3, <1>4, <1>5, <1>6 DEF World

LEMMA RestartKeeps ==
  ASSUME MaterialInv, Restart
  PROVE  MaterialInv'
<1>1. Books' /\ job' \in [Jobs -> Job] /\ account' \in [Jobs -> Account]
  BY OutcomesKeep DEF Restart
<1>2. status' \in [Ops -> {"none", "open"} \cup W!Closed] /\ UNCHANGED <<owner, effect, again>>
  BY DEF Restart, W!Fail, W!Closed, MaterialInv, TypeOK
<1>3. NoCmd \in Cmd /\ NoCmd.pc = "idle" /\ NoPoll \in Poll
  BY IdleTyped, EndpointsExist
<1>4. printer' \in [Printers -> Printer]
  <2>1. ASSUME NEW p \in Printers  PROVE [printer[p] EXCEPT !.online = FALSE] \in Printer
    BY DEF MaterialInv, TypeOK, Printer
  <2> QED  BY <2>1 DEF Restart
<1>5. cmd' \in [Callers -> Cmd] /\ CommandsName'
  BY <1>3 DEF Restart, CommandsName
<1> QED  BY <1>1, <1>2, <1>3, <1>4, <1>5, SpendTyped DEF Restart, MaterialInv, TypeOK

(***************************************************************************)
(* The theorems.                                                           *)
(***************************************************************************)
LEMMA MaterialInit == Init => MaterialInv
<1> SUFFICES ASSUME Init  PROVE MaterialInv
  OBVIOUS
<1>1. Endpoints # {}
  BY DEF Init
<1>2. NoCmd \in Cmd /\ NoCmd.pc = "idle" /\ NoPoll \in Poll /\ NoCmd.conn \in Endpoints
  BY <1>1, IdleTyped DEF Cmd
<1>3. PICK p \in Printers : job = [j \in Jobs |-> NoJob(p)] /\ owner = [o \in Ops |-> p]
  BY DEF Init
<1>4. NoJob(p) \in Job
  BY AbsentTyped
<1>5. job \in [Jobs -> Job] /\ owner \in [Ops -> Printers]
  BY <1>3, <1>4
<1>6. entry \in [Jobs -> Entry] /\ account \in [Jobs -> Account]
  BY DEF Init, Entry, Account
<1>7. host \in [Endpoints -> Host]
  <2>1. ASSUME NEW e \in Endpoints  PROVE host[e] \in Host
    <3>1. Earlier \in PrintRow
      BY DEF Earlier, PrintRow, OpIds
    <3>2. <<>> \in History
      BY <1>2 DEF NoPoll, Poll
    <3> DEFINE one == <<Earlier>>
    <3>3. one \in Seq(PrintRow)
      BY <3>1
    <3>4. CASE host[e] = [prints |-> <<>>, print |-> "standby"]
      BY <3>2, <3>4 DEF Host
    <3>5. CASE host[e] = [prints |-> one, print |-> "complete"]
      <4> HIDE DEF one
      <4>1. Prints(e) = one
        BY <3>5 DEF Prints
      <4>2. one \in History
        BY <3>3, <4>1, HistorySeq DEF Init
      <4> QED  BY <3>5, <4>2 DEF Host
    <3> QED  BY <3>4, <3>5 DEF Init
  <2> QED  BY <2>1 DEF Init
<1>8. link \in [Ops -> Link]
  BY <1>2, JobBoundsAssumption DEF Init, Link, OpIds, Callers
<1>9. printer \in [Printers -> Printer]
  BY DEF Init, Printer
<1>10. budget \in Budget
  BY BudgetsAssumption DEF Init
<1>11. TypeOK
  BY <1>2, <1>5, <1>6, <1>7, <1>8, <1>9, <1>10 DEF Init, W!Init, TypeOK
<1>12. Books
  <2>1. NoJob(p).state = "absent" /\ NoJob(p).settlement = "open" /\ NoJob(p).reason = "none"
        /\ NoJob(p).checks = 0
    BY DEF NoJob
  <2>2. \A j \in Jobs : job[j] = NoJob(p) /\ account[j] = NothingBooked /\ entry[j].state = "absent"
    BY <1>3 DEF Init, NothingBooked
  <2>3. 0 < Limit
    BY JobBoundsAssumption
  <2> QED  BY <2>1, <2>2, <2>3 DEF Books, Sound
<1>13. CommandsName
  BY <1>2 DEF Init, CommandsName
<1> QED  BY <1>11, <1>12, <1>13 DEF MaterialInv

LEMMA MaterialNext == MaterialInv /\ [Next]_vars => MaterialInv'
<1> SUFFICES ASSUME MaterialInv, [Next]_vars  PROVE MaterialInv'
  OBVIOUS
<1>1. CASE UNCHANGED vars
  BY <1>1 DEF vars, writes, durable, MaterialInv, TypeOK, CommandsName, Books
<1>2. CASE Next
  BY <1>2, QueueKeeps, JobCommandKeeps, HandOffKeeps, DriverKeeps, HostOperationKeeps, WorldKeeps,
     RestartKeeps DEF Next
<1> QED  BY <1>1, <1>2

\* The tables, the operations and the commands only ever hold what the code can write:
\* TypeOK, whatever the numbers of Jobs, operations, Printers, hosts and prints.
THEOREM JobsTyped == Spec => []TypeOK
<1>1. MaterialInv => TypeOK
  BY DEF MaterialInv
<1> QED  BY <1>1, MaterialInit, MaterialNext, PTL DEF Spec

\* The filament of a Job is counted exactly once, however its end comes about and
\* whatever else goes on: MaterialOnce.
THEOREM JobsMaterialOnce == Spec => []MaterialOnce
<1>1. MaterialInv => MaterialOnce
  BY DEF MaterialInv, Books, Sound, MaterialOnce
<1> QED  BY <1>1, MaterialInit, MaterialNext, PTL DEF Spec

(***************************************************************************)
(* The Host Operations of Jobs, the prints they make and the entries of    *)
(* the queue.                                                              *)
(*                                                                         *)
(* Every step but a hand-off (Commit) is first shown to fit a few shapes,  *)
(* StepFits; the invariants of JobsInv are then proved from the shapes.    *)
(***************************************************************************)
(***************************************************************************)
(* The shapes of a step.                                                   *)
(***************************************************************************)
SameLinks(r, s) == s.printer = r.printer /\ s.upload = r.upload /\ s.active = r.active /\ s.start = r.start
MovesOn(old, new) == <<old, new>> \in {<<"pending", "deferred">>, <<"pending", "settled">>, <<"deferred", "settled">>}

\* Row r becomes s: nothing the operations or prints depend on changes;
Minor(r, s) ==
  /\ SameLinks(r, s) /\ s.state = r.state /\ s.pin = r.pin /\ s.reason = r.reason
  /\ s.settlement = r.settlement \/ MovesOn(r.settlement, s.settlement)

\* a Job is assigned;
Assigned(j) ==
  LET r == job[j]  s == job'[j] IN
  /\ r.state = "absent" /\ s.state = "assigned" /\ s.upload = None /\ s.active = None /\ s.start = None /\ s.pin = 0
  /\ s.reason = "none" /\ s.settlement = "open"
  /\ \A i \in Jobs : ~(Active(i) /\ job[i].printer = s.printer)
  /\ \A i \in Jobs \ {j} : job'[i] = job[i]

\* it ends before its start;
Drops(r, s) ==
  /\ SameLinks(r, s) /\ s.pin = r.pin
  /\ r.state \in BeforeStart /\ s.state = "cancelled" /\ s.reason \in {"released", "beforeStart"}

\* it moves on the host, or its end is declared;
Tracks(r, s) ==
  /\ SameLinks(r, s) /\ s.pin = r.pin /\ s.reason \in {r.reason, "declared"}
  /\ r.state \in OnHost \cup {"outcomeUnknown"} /\ s.state \in OnHost \cup {"outcomeUnknown"} \cup Terminal
  /\ s.state \in OnHost => r.state \in OnHost
  /\ s.state \in Terminal => poll' = poll
  /\ s.state = "cancelled" => s.reason = "declared"
  /\ s.settlement = r.settlement \/ s.settlement # "notRequired"

\* the history read says something of it;
ReadsStatus(r, s, status1) ==
  /\ s.pin # 0 /\ poll.conn = link[r.start].conn /\ s.pin <= Len(poll.page) /\ poll.page[s.pin].status = status1
Reads(r, s, j) ==
  /\ SameLinks(r, s) /\ r.state \in OnHost /\ s.state \in OnHost \cup {"outcomeUnknown"} \cup Terminal
  /\ s.settlement = r.settlement \/ s.settlement # "notRequired"
  /\ \/ s.pin = r.pin
     \/ /\ r.pin = 0 /\ poll.conn = link[r.start].conn
        /\ s.pin \in 1..Len(poll.page) /\ s.pin > link[r.start].mark
  /\ s.state \in Terminal => ReadsStatus(r, s, s.state)
  /\ s.state = "cancelled" => s.reason = CancelReason(j)
  /\ s.state # "cancelled" => s.reason = r.reason
  /\ LockFree(r.printer)

\* it takes the outcome of its active operation.
Answers(r, s) ==
  LET k == link[r.active].kind  st == status'[r.active] IN
  /\ r.active # None /\ st \in W!Closed /\ s.active = None
  /\ s.printer = r.printer /\ s.start = r.start /\ s.pin = r.pin /\ s.reason = r.reason
  /\ s.settlement = r.settlement /\ cmd'[Driver].pc = "idle"
  /\ \/ r.state = "staging" /\ k = "upload" /\ st = "succeeded" /\ s.state = "awaitingStart" /\ s.upload = r.active
     \/ r.state = "staging" /\ k = "upload" /\ st # "succeeded" /\ s.state = "assigned" /\ s.upload = None
     \/ r.state = "starting" /\ k = "start" /\ st = "failed" /\ s.state = "awaitingStart" /\ s.upload = r.upload
     \/ /\ r.state = "starting" /\ k = "start" /\ st # "failed" /\ s.upload = r.upload
        /\ s.state \in {"printing", "outcomeUnknown"}
     \/ /\ r.state = "staging" => k # "upload"
        /\ r.state = "starting" => k # "start"
        /\ s.upload = r.upload /\ (s.state = r.state \/ (r.state \in OnHost /\ s.state \in OnHost))

RowFits(j) ==
  LET r == job[j]  s == job'[j] IN
  Minor(r, s) \/ Assigned(j) \/ Drops(r, s) \/ Tracks(r, s) \/ Reads(r, s, j) \/ Answers(r, s)

\* Operation o stays what it is; it may be sent, take effect or be resolved.
OpFits(o) ==
  /\ owner'[o] = owner[o] /\ again'[o] = again[o]
  /\ \E b \in 0..MaxPrints : link'[o] = [link[o] EXCEPT !.before = b]
  /\ \/ status'[o] = status[o]
     \/ /\ status[o] = "open" /\ status'[o] \in W!Closed /\ effect'[o] = effect[o]
        /\ status'[o] = "failed" /\ link[o].kind # "upload" => effect[o] \in {"unsent", "void"}
  /\ \/ effect'[o] = effect[o]
     \/ status[o] = "open" /\ status'[o] = "open" /\ effect[o] = "unsent" /\ effect'[o] = "pending"
     \/ status'[o] = status[o] /\ effect[o] = "pending" /\ effect'[o] \in {"happened", "void"}

\* Caller c goes on with its command, or gives it up.
Begins(c) ==
  LET m == cmd'[c] IN
  /\ m.pc = "asked" /\ m.job \in Jobs /\ job[m.job].state \notin {"absent"} \cup Terminal
  /\ c = Driver /\ m.kind = "start" => ~HandedOff(m.job, "start")
CmdFits(c) ==
  \/ cmd'[c] = cmd[c] \/ cmd'[c].pc = "idle" \/ Begins(c) \/ Check(c)
  \/ Asking(c) /\ cmd'[c].pc = "refused" /\ cmd'[c].job = cmd[c].job

\* The history of host e grows by a print, and its last print may end.
PrintsFit(e) ==
  LET h == Prints(e)  g == Prints(e)' IN
  /\ Len(h) <= Len(g)
  /\ \A i \in 1..Len(h) :
       \/ g[i] = h[i]
       \/ /\ h[i].status = "running" /\ g[i].file = h[i].file /\ g[i].by = h[i].by /\ g[i].late = h[i].late
          /\ g[i].ender # None => g[i].ender \in Ops /\ Used(g[i].ender) /\ effect'[g[i].ender] = "happened"
  /\ \A i \in 1..Len(g) : i > Len(h) =>
       /\ g[i].ender = None
       /\ g[i].by # None => /\ g[i].by \in Ops /\ Used(g[i].by) /\ link[g[i].by].kind = "start"
                            /\ link[g[i].by].conn = e /\ effect'[g[i].by] = "happened"
                            /\ effect[g[i].by] = "pending" /\ g[i].late = (status[g[i].by] # "open")

PollFits == \/ poll' = poll
            \/ poll'.page = <<>>
            \/ UNCHANGED <<host, job>> /\ poll'.page = Prints(poll'.conn)

StepFits ==
  /\ \A j \in Jobs : RowFits(j)
  /\ \A o \in Ops : OpFits(o)
  /\ \A c \in Callers : CmdFits(c)
  /\ \A e \in Endpoints : PrintsFit(e)
  /\ PollFits

(***************************************************************************)
(* Steps that leave a part alone.                                          *)
(***************************************************************************)
LEMMA Types ==
  ASSUME MaterialInv
  PROVE  /\ \A j \in Jobs : job[j] \in Job
         /\ \A o \in Ops : link[o] \in Link /\ status[o] \in {"none", "open"} \cup W!Closed
         /\ \A e \in Endpoints : Prints(e) \in Seq(PrintRow) /\ Len(Prints(e)) \in 0..MaxPrints
         /\ \A c \in Callers : cmd[c] \in Cmd
         /\ poll \in Poll /\ poll.page \in Seq(PrintRow)
<1>1. ASSUME NEW e \in Endpoints  PROVE Prints(e) \in History
  BY DEF MaterialInv, TypeOK, Host, Prints
<1>2. poll.page \in History
  BY DEF MaterialInv, TypeOK, Poll
<1> QED  BY <1>1, <1>2, HistorySeq DEF MaterialInv, TypeOK

LEMMA NoneIsNot == None \notin Ops /\ None \notin Jobs /\ Ops \subseteq Nat /\ Jobs \subseteq Nat
BY IdsAssumption DEF None

LEMMA RowsStay == ASSUME UNCHANGED job, NEW j \in Jobs  PROVE RowFits(j)
BY DEF RowFits, Minor, SameLinks

LEMMA OpsStay ==
  ASSUME MaterialInv, UNCHANGED <<writes, link>>, NEW o \in Ops
  PROVE  OpFits(o)
<1>1. link[o].before \in 0..MaxPrints /\ link[o] = [link[o] EXCEPT !.before = link[o].before]
  BY Types DEF Link
<1> QED  BY <1>1 DEF OpFits, writes

LEMMA PrintsStay ==
  ASSUME MaterialInv, NEW e \in Endpoints, host'[e] = host[e]
  PROVE  PrintsFit(e)
BY Types DEF PrintsFit, Prints

\* A row changes and the others do not.
LEMMA OneRow ==
  ASSUME MaterialInv, NEW j \in Jobs, NEW s, job' = [job EXCEPT ![j] = s],
         \/ Minor(job[j], s) \/ Drops(job[j], s) \/ Tracks(job[j], s) \/ Reads(job[j], s, j)
  PROVE  \A i \in Jobs : RowFits(i)
<1>1. job'[j] = s /\ \A i \in Jobs \ {j} : job'[i] = job[i]
  BY DEF MaterialInv, TypeOK
<1>2. RowFits(j)
  BY <1>1 DEF RowFits
<1>3. ASSUME NEW i \in Jobs \ {j}  PROVE RowFits(i)
  BY <1>1 DEF RowFits, Minor, SameLinks
<1> QED  BY <1>2, <1>3

\* A step of the tables alone.
LEMMA TablesFit ==
  ASSUME MaterialInv, UNCHANGED <<writes, link, cmd, host>>, \A i \in Jobs : RowFits(i),
         poll' = poll \/ poll'.page = <<>>
  PROVE  StepFits
BY OpsStay, PrintsStay DEF StepFits, CmdFits, PollFits

(***************************************************************************)
(* Every step but a hand-off fits the shapes.                              *)
(***************************************************************************)
LEMMA MovedFields ==
  ASSUME NEW r \in Job, NEW event
  PROVE  LET s == Moved(r, event) IN
         /\ s \in Job /\ SameLinks(r, s) /\ s.pin = r.pin /\ s.reason = r.reason
         /\ s.state = StateAfter(r.state, event) /\ s.settlement = SettlementAfter(event, r.settlement)
<1>1. SettlementAfter(event, r.settlement) \in {"open", "notRequired", "pending", "deferred", "settled"}
  BY DEF SettlementAfter, Job
<1>2. StateAfter(r.state, event) \in JobState
  BY DEF StateAfter, Job, JobState
<1> QED  BY <1>1, <1>2 DEF Moved, Job, SameLinks

LEMMA QueueFits ==
  ASSUME MaterialInv, QueueStep
  PROVE  StepFits
<1>1. PICK e \in Jobs : CreateEntry(e) \/ RemoveEntry(e) \/ Retry(e) \/ \E p \in Printers : Assign(e, p)
  BY DEF QueueStep
<1>2. CASE UNCHANGED job /\ UNCHANGED <<writes, link, cmd, poll, host>>
  BY <1>2, RowsStay, TablesFit
<1>3. ASSUME NEW p \in Printers, Assign(e, p)  PROVE StepFits
  <2>1. job[e].state = "absent"
    BY <1>3, RowOf DEF Assign, Sound
  <2>2. \A i \in Jobs \ {e} : job'[i] = job[i]
    BY <1>3 DEF Assign, MaterialInv, TypeOK
  <2>3. job'[e] = [NoJob(p) EXCEPT !.state = "assigned"]
    BY <1>3 DEF Assign, MaterialInv, TypeOK
  <2>4. Assigned(e)
    BY <1>3, <2>1, <2>2, <2>3 DEF Assigned, Assign, NoJob
  <2>5. \A i \in Jobs : RowFits(i)
    BY <2>2, <2>4 DEF RowFits, Minor, SameLinks
  <2> QED  BY <1>3, <2>5, TablesFit DEF Assign
<1> QED  BY <1>1, <1>2, <1>3 DEF CreateEntry, RemoveEntry, Retry

LEMMA JobCommandFits ==
  ASSUME MaterialInv, JobCommand
  PROVE  StepFits
<1>1. PICK j \in Jobs :
        \/ Release(j) \/ CancelBeforeStart(j) \/ Settle(j) \/ Defer(j) \/ Correct(j)
        \/ \E s \in Terminal : Declare(j, s)
  BY DEF JobCommand
<1> DEFINE r == job[j]
<1>2. r \in Job /\ Sound(r, account[j], entry[j])
  BY RowOf
<1>3. UNCHANGED <<writes, link, cmd, host, poll>>
  BY <1>1 DEF Release, CancelBeforeStart, EndBeforeStart, Settle, Defer, Correct, Declare
<1>4. ASSUME NEW event \in {"released", "cancelledBeforeStart"}, NEW why \in {"released", "beforeStart"},
             EndBeforeStart(j, event, why)
      PROVE  StepFits
  <2> DEFINE moved == Moved(r, event)
             s == [moved EXCEPT !.reason = why]
  <2>1. job' = [job EXCEPT ![j] = s] /\ r.state \in BeforeStart
    BY <1>4 DEF EndBeforeStart, Legal, Sources
  <2>2. SameLinks(r, moved) /\ moved \in Job /\ moved.pin = r.pin /\ moved.state = "cancelled"
    BY <1>2, MovedFields DEF StateAfter
  <2> HIDE DEF moved
  <2>3. SameLinks(moved, s) /\ s.pin = moved.pin /\ s.reason = why /\ s.state = moved.state
    BY <2>2 DEF Job, SameLinks
  <2> HIDE DEF s
  <2>4. Drops(r, s)
    BY <2>1, <2>2, <2>3 DEF Drops, SameLinks
  <2>5. \A i \in Jobs : RowFits(i)
    BY <2>1, <2>4, OneRow
  <2> QED  BY <1>3, <2>5, TablesFit
<1>5. ASSUME NEW event \in {"materialSettled", "materialDeferred"},
             job' = [job EXCEPT ![j] = Moved(r, event)],
             r.settlement = "pending" \/ (r.settlement = "deferred" /\ event = "materialSettled")
      PROVE  StepFits
  <2> DEFINE s == Moved(r, event)
  <2>1. Minor(r, s)
    BY <1>2, <1>5, MovedFields DEF Minor, MovesOn, StateAfter, SettlementAfter
  <2>2. \A i \in Jobs : RowFits(i)
    BY <1>5, <2>1, OneRow
  <2> QED  BY <1>3, <2>2, TablesFit
<1>6. CASE Correct(j)
  <2> DEFINE moved == Moved(r, "materialCorrected")
             s == [moved EXCEPT !.corrected = TRUE]
  <2>1. job' = [job EXCEPT ![j] = s]
    BY <1>6 DEF Correct
  <2>2. Minor(r, moved) /\ moved \in Job
    BY <1>2, MovedFields DEF Minor, StateAfter, SettlementAfter
  <2>3. Minor(r, s)
    BY <2>2 DEF Minor, Job, SameLinks
  <2>4. \A i \in Jobs : RowFits(i)
    BY <2>1, <2>3, OneRow
  <2> QED  BY <1>3, <2>4, TablesFit
<1>7. ASSUME NEW state \in Terminal, Declare(j, state)  PROVE StepFits
  <2> DEFINE moved == Moved(r, DeclaredEvent(state))
             why == IF state = "cancelled" THEN "declared" ELSE moved.reason
             s == [moved EXCEPT !.reason = why]
  <2>1. job' = [job EXCEPT ![j] = s]
    BY <1>7, Zenon DEF Declare
  <2>2. r.state \in OnHost \cup {"outcomeUnknown"}
    BY <1>7 DEF Declare, MayDeclare
  <2>3. SameLinks(r, moved) /\ moved \in Job /\ moved.pin = r.pin /\ moved.state = state
        /\ moved.reason = r.reason /\ moved.settlement # "notRequired"
    BY <1>2, MovedFields DEF DeclaredEvent, StateAfter, SettlementAfter, Terminal
  <2> HIDE DEF moved
  <2>4. SameLinks(moved, s) /\ s.pin = moved.pin /\ s.reason \in {r.reason, "declared"}
        /\ (state = "cancelled" => s.reason = "declared")
        /\ s.state = state /\ s.settlement = moved.settlement
    <3>1. why \in {r.reason, "declared"} /\ (state = "cancelled" => why = "declared") /\ r.reason \in {"none", "released", "beforeStart", "operator", "host", "declared"}
      BY <1>2, <2>3 DEF Job
    <3> HIDE DEF why
    <3>2. SameLinks(moved, s) /\ s.pin = moved.pin /\ s.reason = why
          /\ s.state = moved.state /\ s.settlement = moved.settlement
      BY <2>3, <3>1 DEF Job, SameLinks
    <3> QED  BY <2>3, <3>1, <3>2
  <2> HIDE DEF s
  <2>5. Tracks(r, s)
    BY <1>3, <2>2, <2>3, <2>4 DEF Tracks, SameLinks, OnHost, Terminal
  <2>6. \A i \in Jobs : RowFits(i)
    BY <2>1, <2>5, OneRow
  <2> QED  BY <1>3, <2>6, TablesFit
<1> QED
  BY <1>1, <1>4, <1>5, <1>6, <1>7 DEF Release, CancelBeforeStart, Settle, Settleable, Defer

LEMMA UnreachableFits ==
  ASSUME MaterialInv, NEW j \in Jobs, UnreachableLong(j)
  PROVE  StepFits
<1> DEFINE s == [job[j] EXCEPT !.unreachable = "long"]
<1>1. job' = [job EXCEPT ![j] = s] /\ job[j] \in Job
  BY RowOf DEF UnreachableLong
<1>2. Minor(job[j], s)
  BY <1>1 DEF Minor, SameLinks, Job
<1>3. \A i \in Jobs : RowFits(i)
  BY <1>1, <1>2, OneRow
<1> QED  BY <1>3, TablesFit DEF UnreachableLong

\* A step of one caller.
LEMMA CommandFits ==
  ASSUME MaterialInv, NEW c \in Callers, CmdFits(c), \A d \in Callers \ {c} : cmd'[d] = cmd[d],
         UNCHANGED <<writes, link, job, poll, host>>
  PROVE  StepFits
BY RowsStay, OpsStay, PrintsStay DEF StepFits, CmdFits, PollFits

LEMMA AskFits ==
  ASSUME MaterialInv, NEW c \in Callers, NEW j \in Jobs, NEW k \in {"upload", "start"} \cup Controls, Ask(c, j, k),
         c = Driver /\ k = "start" => ~HandedOff(j, "start")
  PROVE  StepFits
<1> DEFINE u == IF k = "start" THEN job[j].upload ELSE None
           d == [NoCmd EXCEPT !.pc = "asked", !.kind = k, !.job = j, !.source = u]
<1>1. cmd'[c] = d /\ \A b \in Callers \ {c} : cmd'[b] = cmd[b]
  BY DEF Ask, MaterialInv, TypeOK
<1>2. NoCmd \in Cmd
  BY IdleTyped, EndpointsExist
<1>3. d.pc = "asked" /\ d.kind = k /\ d.job = j
  BY <1>2 DEF Cmd
<1>4. job[j].state \notin {"absent"} \cup Terminal
  <2>1. job[j].state \in JobState /\ job[j].state \in Sources[EventOf(k)]
    BY RowOf DEF Job, Ask, Legal
  <2> QED  BY <2>1, HandOffFits
<1> HIDE DEF d
<1>5. CmdFits(c)
  BY <1>1, <1>3, <1>4 DEF CmdFits, Begins
<1> QED  BY <1>1, <1>5, CommandFits DEF Ask, durable

LEMMA HandOffStepFits ==
  ASSUME MaterialInv, HandOff
  PROVE  StepFits \/ \E c \in Callers : Commit(c)
<1>1. NoCmd.pc = "idle"
  BY IdleTyped, EndpointsExist
<1>2. \A c \in Callers : cmd[c] \in Cmd
  BY Types
<1>3. Driver \in Callers /\ Operators \subseteq Callers /\ Driver \notin Operators
      /\ {"upload", "start"} \cup Verbs \subseteq {"upload", "start"} \cup Controls
  BY VerbsAssumption, CallersAssumption DEF Callers
<1>4. ASSUME NEW c \in Callers, Check(c)  PROVE StepFits
  <2>1. \A d \in Callers \ {c} : cmd'[d] = cmd[d]
    BY <1>4 DEF Check, MaterialInv, TypeOK
  <2> QED  BY <1>4, <2>1, CommandFits DEF CmdFits, Check, durable
<1>5. ASSUME NEW c \in Callers, Refuse(c)  PROVE StepFits
  <2>1. \A d \in Callers \ {c} : cmd'[d] = cmd[d]
    BY <1>5 DEF Refuse, MaterialInv, TypeOK
  <2>2. cmd'[c].pc = "idle" \/ (cmd'[c].pc = "refused" /\ cmd'[c].job = cmd[c].job)
    <3>1. cmd'[c] = NoCmd \/ cmd'[c] = [cmd[c] EXCEPT !.pc = "refused"]
      BY <1>5 DEF Refuse, MaterialInv, TypeOK
    <3> QED  BY <1>1, <1>2, <3>1 DEF Cmd
  <2>3. CmdFits(c)
    BY <1>5, <2>2 DEF CmdFits, Refuse, Asking
  <2> QED  BY <1>5, <2>1, <2>3, CommandFits DEF Refuse, durable
<1>6. CASE RecordRefusal
  <2> DEFINE j == cmd[Driver].job
  <2>1. j \in Jobs
    BY <1>3, <1>6 DEF RecordRefusal, MaterialInv, CommandsName
  <2>2. PICK b : job' = [job EXCEPT ![j].failed = b]
    <3>1. PICK x : job' = [job EXCEPT ![j].failed = @ \/ x]
      BY <1>6 DEF RecordRefusal
    <3> QED  BY <3>1
  <2> HIDE DEF j
  <2>3. \A i \in Jobs : RowFits(i)
    <3> DEFINE s == [job[j] EXCEPT !.failed = b]
    <3>1. job[j] \in Job /\ job' = [job EXCEPT ![j] = s]
      BY <2>1, <2>2, RowOf
    <3>2. Minor(job[j], s)
      BY <3>1 DEF Minor, SameLinks, Job
    <3> QED  BY <2>1, <3>1, <3>2, OneRow
  <2>4. \A c \in Callers : CmdFits(c)
    <3>1. ASSUME NEW c \in Callers  PROVE cmd'[c] = cmd[c] \/ cmd'[c] = NoCmd
      BY <1>6 DEF RecordRefusal, MaterialInv, TypeOK
    <3> QED  BY <1>1, <3>1 DEF CmdFits
  <2> QED  BY <1>6, <2>3, <2>4, OpsStay, PrintsStay DEF StepFits, PollFits, RecordRefusal
<1>7. ASSUME NEW c \in Operators, NEW j \in Jobs, NEW k \in {"upload", "start"} \cup Verbs, OperatorAsks(c, j, k)
      PROVE  StepFits
  BY <1>3, <1>7, AskFits DEF OperatorAsks
<1>8. ASSUME NEW j \in Jobs, DriverStages(j) \/ DriverStarts(j)  PROVE StepFits
  BY <1>3, <1>8, AskFits DEF DriverStages, DriverStarts
<1> QED  BY <1>4, <1>5, <1>6, <1>7, <1>8 DEF HandOff

LEMMA AppliedLinks ==
  ASSUME NEW r \in Job, NEW event
  PROVE  LET t == Applied(r, event) IN
         /\ t.printer = r.printer /\ t.start = r.start /\ t.pin = r.pin /\ t.active = None
         /\ t.upload = CASE event = "stageSucceeded" -> r.active [] event = "stageFailed" -> None
                         [] OTHER -> r.upload
<1> DEFINE moved == IF event = "none" THEN r ELSE Moved(r, event)
           u == CASE event = "stageSucceeded" -> r.active [] event = "stageFailed" -> None
                  [] OTHER -> moved.upload
           b == CASE event = "stageSucceeded" -> FALSE [] event \in {"stageFailed", "startFailed"} -> TRUE
                  [] OTHER -> moved.failed
           t == [moved EXCEPT !.active = None, !.upload = u, !.failed = b]
<1>1. moved \in Job /\ SameLinks(r, moved) /\ moved.pin = r.pin
  <2>1. r.pin = r.pin /\ SameLinks(r, r)
    BY DEF SameLinks
  <2> QED  BY <2>1, MovedFields
<1>2. Applied(r, event) = t
  BY Zenon DEF Applied
<1> HIDE DEF moved
<1>3. u = CASE event = "stageSucceeded" -> r.active [] event = "stageFailed" -> None
            [] OTHER -> r.upload
  BY <1>1 DEF SameLinks
<1> HIDE DEF u, b
<1>4. t.printer = moved.printer /\ t.start = moved.start /\ t.pin = moved.pin /\ t.active = None /\ t.upload = u
  BY <1>1 DEF Job
<1> HIDE DEF t
<1> QED  BY <1>1, <1>2, <1>3, <1>4 DEF SameLinks

LEMMA OutcomeAnswers ==
  ASSUME NEW r \in Job, r.active # None, status'[r.active] \in W!Closed, cmd'[Driver].pc = "idle"
  PROVE  Answers(r, Applied(r, EventFor(r.state, link[r.active].kind, status'[r.active])))
<1> DEFINE k == link[r.active].kind
           st == status'[r.active]
           event == EventFor(r.state, k, st)
           t == Applied(r, event)
<1>1. /\ t.printer = r.printer /\ t.start = r.start /\ t.pin = r.pin /\ t.active = None
      /\ t.upload = CASE event = "stageSucceeded" -> r.active [] event = "stageFailed" -> None
                      [] OTHER -> r.upload
  BY AppliedLinks
<1>2. /\ t.reason = r.reason
      /\ t.state = (IF event = "none" THEN r.state ELSE StateAfter(r.state, event))
      /\ t.settlement = (IF event = "none" THEN r.settlement ELSE SettlementAfter(event, r.settlement))
  BY AppliedRow
<1> HIDE DEF t
<1>3. r.state \in JobState /\ st \in W!Closed
  BY DEF Job
<1> HIDE DEF k, st
<1>4. t.settlement = r.settlement
  BY <1>2, <1>3, OutcomeFits
<1>5. CASE k = "upload" /\ r.state = "staging"
  <2>1. event = (IF st = "succeeded" THEN "stageSucceeded" ELSE "stageFailed")
    BY <1>5 DEF EventFor, Controls
  <2> HIDE DEF event
  <2>2. t.state = (IF st = "succeeded" THEN "awaitingStart" ELSE "assigned")
    BY <1>2, <2>1 DEF StateAfter
  <2> QED  BY <1>1, <1>2, <1>3, <1>4, <1>5, <2>1, <2>2 DEF Answers, k, st, t, event
<1>6. CASE k = "start" /\ r.state = "starting"
  <2>1. event = (CASE st = "succeeded" -> "startSucceeded" [] st = "failed" -> "startFailed"
                   [] OTHER -> "startAbandoned")
    BY <1>6 DEF EventFor, StartEvent, Controls
  <2> HIDE DEF event
  <2>2. t.state = (CASE st = "succeeded" -> "printing" [] st = "failed" -> "awaitingStart"
                     [] OTHER -> "outcomeUnknown") /\ t.upload = r.upload
    BY <1>1, <1>2, <1>3, <2>1 DEF StateAfter, W!Closed
  <2> QED  BY <1>1, <1>2, <1>3, <1>4, <1>6, <2>2 DEF Answers, k, st, t, event, W!Closed
<1>7. CASE (r.state = "staging" => k # "upload") /\ (r.state = "starting" => k # "start")
  <2>1. event \in {"none", "controlFailed", "paused", "resumed"}
        /\ (event = "paused" => r.state = "printing") /\ (event = "resumed" => r.state = "paused")
    BY <1>7 DEF EventFor, ControlEvent
  <2> HIDE DEF event
  <2>2. t.upload = r.upload /\ (t.state = r.state \/ (r.state \in OnHost /\ t.state \in OnHost))
    BY <1>1, <1>2, <2>1 DEF StateAfter, OnHost
  <2> QED  BY <1>1, <1>2, <1>3, <1>4, <1>7, <2>2 DEF Answers, k, st, t, event
<1> QED  BY <1>5, <1>6, <1>7

LEMMA OutcomesFit ==
  ASSUME MaterialInv, NEW S, ApplyTo(S, status'), cmd'[Driver].pc = "idle", NEW i \in Jobs
  PROVE  RowFits(i)
<1>1. job[i] \in Job
  BY RowOf
<1>2. CASE i \in Resolved(S, status')
  <2>1. job'[i] = Applied(job[i], EventFor(job[i].state, link[job[i].active].kind, status'[job[i].active]))
    BY <1>2 DEF ApplyTo
  <2>2. Answers(job[i], job'[i])
    BY <1>1, <1>2, <2>1, OutcomeAnswers DEF Resolved
  <2> QED  BY <2>2 DEF RowFits
<1>3. CASE i \notin Resolved(S, status')
  <2>1. job'[i] = job[i]
    BY <1>3 DEF ApplyTo
  <2> QED  BY <2>1 DEF RowFits, Minor, SameLinks
<1> QED  BY <1>2, <1>3

LEMMA RestartFits ==
  ASSUME MaterialInv, Restart
  PROVE  StepFits
<1>1. NoCmd.pc = "idle" /\ NoPoll.page = <<>>
  BY IdleTyped, EndpointsExist DEF NoPoll
<1>2. \A c \in Callers : cmd'[c].pc = "idle"
  BY <1>1 DEF Restart
<1>3. \A i \in Jobs : RowFits(i)
  BY <1>2, OutcomesFit DEF Restart, Callers
<1>4. PICK S \in SUBSET {o \in Ops : status[o] = "open" /\ effect[o] = "unsent"} : W!Fail(S)
  BY DEF Restart
<1>5. ASSUME NEW o \in Ops  PROVE OpFits(o)
  <2>1. link[o].before \in 0..MaxPrints /\ link[o] = [link[o] EXCEPT !.before = link[o].before]
    BY Types DEF Link
  <2> QED  BY <1>4, <2>1 DEF OpFits, W!Fail, W!Closed, Restart
<1> QED  BY <1>1, <1>2, <1>3, <1>5, PrintsStay DEF StepFits, CmdFits, PollFits, Restart

\* What a history read shows of a Job.
LEMMA ReadingFits ==
  ASSUME MaterialInv, OperationsInv, NEW j \in Jobs, job[j].state \in OnHost, LockFree(job[j].printer),
         NEW low \in link[job[j].start].mark .. link[job[j].start].before, NEW reports \in BOOLEAN,
         Reading(j, low, reports)
  PROVE  \E s : job' = [job EXCEPT ![j] = s] /\ Reads(job[j], s, j)
<1> DEFINE r == job[j]
           pin == PinOf(r, low)
           verdict == Verdict(pin, reports, SameEndpoint(r))
           checks == IF verdict = "inconclusive" THEN r.checks + 1 ELSE 0
           newpin == IF pin # 0 THEN pin ELSE r.pin
           seen == [r EXCEPT !.unreachable = "no", !.checks = checks, !.pin = newpin]
           ended == Moved(seen, verdict)
           why == IF verdict = "cancelled" THEN CancelReason(j) ELSE ended.reason
           s == [ended EXCEPT !.reason = why]
<1>1. r \in Job /\ poll \in Poll /\ Len(poll.page) \in 0..MaxPrints
  <2>1. poll.page \in History
    BY Types DEF Poll
  <2> QED  BY <2>1, HistorySeq, RowOf, Types
<1>2. \/ verdict \in Terminal /\ job' = [job EXCEPT ![j] = s]
      \/ verdict = "inconclusive" /\ job' = [job EXCEPT ![j] = Moved(seen, "outcomeUnknown")]
      \/ verdict \notin Terminal /\ job' = [job EXCEPT ![j] = seen]
  BY Zenon DEF Reading, Terminal
<1>3. r.start \in Ops /\ link[r.start].mark \in Nat
  <2>1. r.start \in Ops
    BY <1>1 DEF OperationsInv, StartStands, Job, OpIds
  <2>2. link[r.start].mark \in 0..MaxPrints
    BY <2>1, Types DEF Link
  <2> QED  BY <2>1, <2>2, JobBoundsAssumption
<1>4. \/ pin = 0
      \/ poll.conn = link[r.start].conn /\ pin = r.pin
      \/ /\ r.pin = 0 /\ poll.conn = link[r.start].conn
         /\ pin \in 1..Len(poll.page) /\ pin > link[r.start].mark
  <2>1. Candidates(low) \subseteq {i \in 1..Len(poll.page) : i > low}
    BY DEF Candidates
  <2>2. Candidates(low) # {} => Min(Candidates(low)) \in 1..Len(poll.page) /\ Min(Candidates(low)) > low
    BY <1>1, <2>1, MinIn
  <2>3. low \in Int /\ low >= link[r.start].mark
    BY <1>3
  <2>4. Candidates(low) # {} => Min(Candidates(low)) > link[r.start].mark
    BY <1>1, <1>3, <2>2, <2>3
  <2> HIDE DEF r
  <2> QED  BY <2>2, <2>4 DEF PinOf, SameEndpoint
<1>5. pin \in 0..MaxPrints /\ newpin \in 0..MaxPrints
  <2>1. pin \in 0..MaxPrints  BY <1>1, PinTyped
  <2> HIDE DEF pin
  <2> QED  BY <1>1, <2>1 DEF Job
<1>6. verdict \in Terminal => pin # 0 /\ pin <= Len(poll.page) /\ poll.page[pin].status = verdict
  BY DEF Verdict, OnPage, Terminal
<1>7. verdict \in Terminal \cup {"running", "inconclusive"}
  BY <1>1, <1>5, VerdictTyped
<1> HIDE DEF pin
<1>8. newpin = r.pin \/ (r.pin = 0 /\ poll.conn = link[r.start].conn
                          /\ newpin \in 1..Len(poll.page) /\ newpin > link[r.start].mark)
  BY <1>4
<1>9. pin # 0 => newpin = pin /\ poll.conn = link[r.start].conn
  BY <1>4
<1> HIDE DEF newpin, verdict
<1>10. checks \in 0..Limit
  <2>1. r.checks \in 0..Limit /\ r.checks < Limit
    BY <1>1, RowOf DEF Sound, Job, OnHost, Terminal
  <2> QED  BY <2>1, JobBoundsAssumption
<1> HIDE DEF checks, r
<1>11. seen \in Job /\ SameLinks(r, seen) /\ seen.pin = newpin /\ seen.state = r.state
       /\ seen.reason = r.reason /\ seen.settlement = r.settlement
  BY <1>1, <1>5, <1>10 DEF Job, SameLinks
<1> HIDE DEF seen
<1>12. r.state \in OnHost /\ LockFree(r.printer)
  BY DEF r
<1>13. ASSUME verdict \in Terminal  PROVE Reads(r, s, j)
  <2>1. ended \in Job /\ SameLinks(r, ended) /\ ended.pin = newpin /\ ended.state = verdict
        /\ ended.reason = r.reason /\ ended.settlement # "notRequired"
    BY <1>11, <1>13, MovedFields DEF StateAfter, SettlementAfter, Terminal, SameLinks
  <2> HIDE DEF ended
  <2>2. why \in {"none", "released", "beforeStart", "operator", "host", "declared"}
    BY <2>1 DEF CancelReason, Job
  <2> HIDE DEF why
  <2>3. SameLinks(ended, s) /\ s.pin = newpin /\ s.state = verdict /\ s.reason = why
        /\ s.settlement = ended.settlement
    BY <2>1, <2>2 DEF Job, SameLinks
  <2>4. verdict = "cancelled" => why = CancelReason(j)
    BY DEF why
  <2>5. verdict # "cancelled" => why = r.reason
    BY <2>1 DEF why
  <2> HIDE DEF s
  <2>6. ReadsStatus(r, s, s.state)
    BY <1>5, <1>6, <1>9, <1>13, <2>3 DEF ReadsStatus
  <2> QED  BY <1>8, <1>12, <1>13, <2>1, <2>3, <2>4, <2>5, <2>6 DEF Reads, SameLinks
<1>14. ASSUME NEW t, SameLinks(r, t), t.pin = newpin, t.state \in OnHost \cup {"outcomeUnknown"},
              t.reason = r.reason, t.settlement = r.settlement
       PROVE  Reads(r, t, j)
  BY <1>8, <1>12, <1>14 DEF Reads, OnHost, Terminal
<1>15. Reads(r, Moved(seen, "outcomeUnknown"), j)
  <2> DEFINE t == Moved(seen, "outcomeUnknown")
  <2>1. SameLinks(r, t) /\ t.pin = newpin /\ t.state = "outcomeUnknown" /\ t.reason = r.reason
        /\ t.settlement = r.settlement
    BY <1>11, MovedFields DEF StateAfter, SettlementAfter, SameLinks
  <2> HIDE DEF t
  <2>2. Reads(r, t, j)
    BY <1>14, <2>1
  <2> QED  BY <2>2 DEF t
<1>16. Reads(r, seen, j)
  BY <1>11, <1>12, <1>14
<1> HIDE DEF s
<1> QED  BY <1>2, <1>13, <1>15, <1>16 DEF r

LEMMA ApplyPollFits ==
  ASSUME MaterialInv, OperationsInv, ApplyPoll
  PROVE  StepFits
<1> DEFINE j == poll.job
<1>1. j \in Jobs /\ poll'.page = <<>> /\ UNCHANGED <<writes, link, cmd, host>> /\ LockFree(job[j].printer)
  BY DEF ApplyPoll, MaterialInv, TypeOK, Poll, NoPoll
<1>2. \A i \in Jobs : RowFits(i)
  <2>1. CASE UNCHANGED job
    BY <2>1, RowsStay
  <2>2. CASE job' = [job EXCEPT ![j].unreachable = IF @ = "no" THEN "since" ELSE @]
    <3> DEFINE u == IF job[j].unreachable = "no" THEN "since" ELSE job[j].unreachable
               s == [job[j] EXCEPT !.unreachable = u]
    <3>1. job' = [job EXCEPT ![j] = s]
      BY <2>2
    <3>2. job[j] \in Job
      BY <1>1, RowOf
    <3> HIDE DEF u
    <3>3. Minor(job[j], s)
      BY <3>2 DEF Minor, SameLinks, Job
    <3> HIDE DEF s
    <3> QED  BY <1>1, <3>1, <3>3, OneRow
  <2>3. ASSUME job[j].state \in OnHost, NEW low \in link[job[j].start].mark .. link[job[j].start].before,
               NEW reports \in BOOLEAN, Reading(j, low, reports)
        PROVE  \A i \in Jobs : RowFits(i)
    BY <1>1, <2>3, ReadingFits, OneRow
  <2>4. \/ UNCHANGED job
        \/ job' = [job EXCEPT ![j].unreachable = IF @ = "no" THEN "since" ELSE @]
        \/ /\ job[j].state \in OnHost
           /\ \E low \in link[job[j].start].mark .. link[job[j].start].before, reports \in BOOLEAN :
                Reading(j, low, reports)
    BY Zenon DEF ApplyPoll
  <2> QED  BY <2>1, <2>2, <2>3, <2>4
<1> QED  BY <1>1, <1>2, TablesFit

LEMMA DriverFits ==
  ASSUME MaterialInv, OperationsInv, DriverStep
  PROVE  StepFits
<1>1. ASSUME NEW j \in Jobs, ApplyOutcome(j)  PROVE StepFits
  <2>1. ApplyTo({j}, status') /\ cmd'[Driver].pc = "idle"
    BY <1>1 DEF ApplyOutcome, DriverIdle, writes
  <2>2. \A i \in Jobs : RowFits(i)
    BY <2>1, OutcomesFit
  <2> QED  BY <1>1, <2>2, TablesFit DEF ApplyOutcome
<1>2. ASSUME NEW j \in Jobs, Follow(j)  PROVE StepFits
  <2> DEFINE r == job[j]
             event == IF r.state = "printing" THEN "paused" ELSE "resumed"
             s == Moved(r, event)
  <2>1. r \in Job /\ r.state \in OnHost /\ job' = [job EXCEPT ![j] = s]
    BY <1>2, RowOf DEF Follow
  <2> HIDE DEF r
  <2>2. Tracks(r, s)
    BY <2>1, MovedFields DEF Tracks, StateAfter, SettlementAfter, OnHost, Terminal
  <2> HIDE DEF s
  <2>3. \A i \in Jobs : RowFits(i)
    BY <2>1, <2>2, OneRow DEF r
  <2> QED  BY <1>2, <2>3, TablesFit DEF Follow
<1>3. ASSUME NEW j \in Jobs, ReadHistory(j)  PROVE StepFits
  <2>1. PollFits
    BY <1>3 DEF ReadHistory, PollFits, durable
  <2> QED  BY <1>3, <2>1, RowsStay, OpsStay, PrintsStay DEF ReadHistory, StepFits, CmdFits, durable
<1> QED  BY <1>1, <1>2, <1>3, ApplyPollFits DEF DriverStep

\* Ending the last print, by operation o or by nobody farm3d knows.
LEMMA EndFits ==
  ASSUME NEW h \in Seq(PrintRow), NEW s \in Terminal \cup {"other"}, NEW o \in OpIds
  PROVE  /\ End(h, s, o) \in Seq(PrintRow) /\ Len(End(h, s, o)) = Len(h)
         /\ \A i \in 1..Len(h) : LET g == End(h, s, o) IN
              \/ g[i] = h[i]
              \/ /\ h[i].status = "running" /\ g[i].file = h[i].file /\ g[i].by = h[i].by
                 /\ g[i].late = h[i].late /\ g[i].ender = o
<1> DEFINE n == Len(h)
           last == [h[n] EXCEPT !.status = s, !.ender = o]
<1>1. CASE End(h, s, o) = h
  BY <1>1
<1>2. CASE n > 0 /\ h[n].status = "running"
  <2>1. n \in 1..Len(h) /\ h[n] \in PrintRow /\ h \in [1..n -> PrintRow]
    BY <1>2, ElementOfSeq, LenProperties
  <2>2. last \in PrintRow /\ last.file = h[n].file /\ last.by = h[n].by /\ last.late = h[n].late /\ last.ender = o
    BY <2>1 DEF PrintRow, Terminal
  <2>3. End(h, s, o) = [h EXCEPT ![n] = last]
    <3>1. End(h, s, o) = [h EXCEPT ![n].status = s, ![n].ender = o]
      BY <1>2 DEF End
    <3> QED  BY <2>1, <3>1 DEF PrintRow
  <2> HIDE DEF last
  <2>4. [h EXCEPT ![n] = last] \in Seq(PrintRow) /\ Len([h EXCEPT ![n] = last]) = Len(h)
    BY <2>1, <2>2, ExceptSeq
  <2>5. ASSUME NEW i \in 1..n  PROVE [h EXCEPT ![n] = last][i] = IF i = n THEN last ELSE h[i]
    BY <2>1
  <2> QED  BY <1>2, <2>2, <2>3, <2>4, <2>5
<1> QED  BY <1>1, <1>2 DEF End

\* o is nobody, or an operation at host e that has just taken effect.
Acts(o, e) == o # None => /\ o \in Ops /\ Used(o) /\ link[o].conn = e
                          /\ effect[o] = "pending" /\ effect'[o] = "happened"

\* Ending the last print of a host.
LEMMA EndedFits ==
  ASSUME MaterialInv, NEW e \in Endpoints, NEW s \in Terminal \cup {"other"}, NEW o \in OpIds, Acts(o, e),
         NEW p, host' = [host EXCEPT ![e] = [prints |-> End(host[e].prints, s, o), print |-> p]]
  PROVE  \A x \in Endpoints : PrintsFit(x)
<1>1. ASSUME NEW x \in Endpoints, x # e  PROVE PrintsFit(x)
  BY <1>1, PrintsStay DEF MaterialInv, TypeOK
<1>2. PrintsFit(e)
  <2>1. Prints(e) \in Seq(PrintRow) /\ Prints(e)' = End(Prints(e), s, o)
    BY Types DEF Prints, MaterialInv, TypeOK
  <2>2. /\ Prints(e)' \in Seq(PrintRow) /\ Len(Prints(e)') = Len(Prints(e))
        /\ \A i \in 1..Len(Prints(e)) :
             \/ Prints(e)'[i] = Prints(e)[i]
             \/ /\ Prints(e)[i].status = "running" /\ Prints(e)'[i].file = Prints(e)[i].file
                /\ Prints(e)'[i].by = Prints(e)[i].by
                /\ Prints(e)'[i].late = Prints(e)[i].late /\ Prints(e)'[i].ender = o
    BY <2>1, EndFits
  <2>3. Len(Prints(e)) \in Nat
    BY <2>1
  <2> QED  BY <2>2, <2>3 DEF PrintsFit, Acts
<1> QED  BY <1>1, <1>2

LEMMA StartPrintFits ==
  ASSUME MaterialInv, NEW e \in Endpoints, NEW f \in {"ours", "other"}, NEW o \in OpIds, StartPrint(e, f, o),
         Acts(o, e), o # None => link[o].kind = "start"
  PROVE  \A x \in Endpoints : PrintsFit(x)
<1>1. ASSUME NEW x \in Endpoints, x # e  PROVE PrintsFit(x)
  BY <1>1, PrintsStay DEF StartPrint, MaterialInv, TypeOK
<1>2. PrintsFit(e)
  <2> DEFINE h == Prints(e)
             late == o # None /\ status[o] # "open"
             begun == [file |-> f, status |-> "running", by |-> o, late |-> late, ender |-> None]
             ended == End(h, "cancelled", o)
             g == Append(ended, begun)
  <2>1. h \in Seq(PrintRow) /\ Prints(e)' = g /\ Len(h) \in Nat
    <3>1. h \in Seq(PrintRow)
      BY Types
    <3> QED  BY <3>1 DEF Prints, StartPrint, MaterialInv, TypeOK
  <2>2. /\ ended \in Seq(PrintRow) /\ Len(ended) = Len(h)
        /\ \A i \in 1..Len(h) :
             \/ ended[i] = h[i]
             \/ /\ h[i].status = "running" /\ ended[i].file = h[i].file /\ ended[i].by = h[i].by
                /\ ended[i].late = h[i].late /\ ended[i].ender = o
    BY <2>1, EndFits DEF Terminal
  <2>3. begun.by = o /\ begun.ender = None /\ begun.late = late /\ begun \in PrintRow
    BY DEF PrintRow, OpIds
  <2> HIDE DEF ended, begun
  <2>4. Len(g) = Len(h) + 1 /\ (\A i \in 1..Len(h) : g[i] = ended[i]) /\ g[Len(h) + 1] = begun
    BY <2>1, <2>2, <2>3
  <2> HIDE DEF g, h, late
  <2>5. \A i \in 1..Len(h) :
          \/ g[i] = h[i]
          \/ /\ h[i].status = "running" /\ g[i].file = h[i].file /\ g[i].by = h[i].by /\ g[i].late = h[i].late
             /\ g[i].ender # None => g[i].ender \in Ops /\ Used(g[i].ender) /\ effect'[g[i].ender] = "happened"
    BY <2>2, <2>4 DEF Acts
  <2>6. \A i \in 1..Len(g) : i > Len(h) => g[i] = begun
    BY <2>1, <2>4
  <2>7. o # None => late = (status[o] # "open")
    BY DEF late
  <2>8. /\ begun.ender = None
        /\ begun.by # None => /\ begun.by \in Ops /\ Used(begun.by) /\ link[begun.by].kind = "start"
                              /\ link[begun.by].conn = e /\ effect'[begun.by] = "happened"
                              /\ effect[begun.by] = "pending" /\ begun.late = (status[begun.by] # "open")
    BY <2>3, <2>7 DEF Acts
  <2> QED  BY <2>1, <2>4, <2>5, <2>6, <2>8 DEF PrintsFit, h
<1> QED  BY <1>1, <1>2

LEMMA ControlFits ==
  ASSUME MaterialInv, NEW e \in Endpoints, NEW k, NEW o \in OpIds, Acts(o, e),
         host' = [host EXCEPT ![e] = Control(@, k, o)]
  PROVE  \A x \in Endpoints : PrintsFit(x)
<1>1. host[e] \in Host
  BY DEF MaterialInv, TypeOK
<1>2. CASE host' = [host EXCEPT ![e] = [prints |-> End(host[e].prints, "cancelled", o), print |-> "cancelled"]]
  BY <1>2, EndedFits DEF Terminal
<1>3. CASE host'[e].prints = host[e].prints /\ \A x \in Endpoints \ {e} : host'[x] = host[x]
  BY <1>3, Types DEF PrintsFit, Prints
<1>4. \/ Control(host[e], k, o).prints = host[e].prints
      \/ Control(host[e], k, o) = [prints |-> End(host[e].prints, "cancelled", o), print |-> "cancelled"]
  BY <1>1 DEF Control, Host
<1>5. host'[e] = Control(host[e], k, o) /\ \A x \in Endpoints \ {e} : host'[x] = host[x]
  BY DEF MaterialInv, TypeOK
<1> QED  BY <1>2, <1>3, <1>4, <1>5

LEMMA HostOperationFits ==
  ASSUME MaterialInv, OperationsInv, HostOperation
  PROVE  StepFits
<1>1. PICK o \in Ops : Dispatch(o) \/ Vanish(o) \/ Happen(o) \/ Succeed(o) \/ Abandon(o) \/ Fail(o)
  BY DEF HostOperation
<1>2. UNCHANGED <<job, cmd, poll>>
  BY <1>1 DEF Dispatch, Vanish, Happen, Succeed, Abandon, Fail, durable
<1>3. link[o] \in Link /\ link[o].conn \in Endpoints
  BY Types DEF Link
<1>4. ASSUME \A q \in Ops : OpFits(q), \A e \in Endpoints : PrintsFit(e)  PROVE StepFits
  BY <1>2, <1>4, RowsStay DEF StepFits, CmdFits, PollFits
<1>5. UNCHANGED host => \A e \in Endpoints : PrintsFit(e)
  BY PrintsStay
<1>6. \A q \in Ops : link[q].before \in 0..MaxPrints /\ link[q] = [link[q] EXCEPT !.before = link[q].before]
  BY Types DEF Link
<1>7. ASSUME UNCHANGED <<owner, again, link>>, NEW q \in Ops,
             \/ status'[q] = status[q]
             \/ /\ status[q] = "open" /\ status'[q] \in W!Closed /\ effect'[q] = effect[q]
                /\ status'[q] = "failed" /\ link[q].kind # "upload" => effect[q] \in {"unsent", "void"},
             \/ effect'[q] = effect[q]
             \/ status'[q] = status[q] /\ effect[q] = "pending" /\ effect'[q] \in {"happened", "void"}
      PROVE  OpFits(q)
  <2>1. \E b \in 0..MaxPrints : link'[q] = [link[q] EXCEPT !.before = b]
    BY <1>6, <1>7
  <2> QED  BY <1>7, <2>1 DEF OpFits
<1>8. status \in [Ops -> {"none", "open"} \cup W!Closed] /\ effect \in [Ops -> {"unsent", "pending", "happened", "void"}]
      /\ link \in [Ops -> Link]
  BY DEF MaterialInv, TypeOK
<1>9. CASE Dispatch(o)
  <2> DEFINE n == Len(Prints(link[o].conn))
  <2>1. n \in 0..MaxPrints
    BY <1>3, Types
  <2>2. UNCHANGED <<status, owner, again, host>> /\ status[o] = "open" /\ effect[o] = "unsent"
        /\ effect'[o] = "pending" /\ \A q \in Ops \ {o} : effect'[q] = effect[q]
    BY <1>8, <1>9 DEF Dispatch, W!Dispatch
  <2>3. link'[o] = [link[o] EXCEPT !.before = n] /\ \A q \in Ops \ {o} : link'[q] = link[q]
    BY <1>8, <1>9 DEF Dispatch
  <2> HIDE DEF n
  <2>4. OpFits(o)
    BY <2>1, <2>2, <2>3 DEF OpFits
  <2>5. ASSUME NEW q \in Ops \ {o}  PROVE OpFits(q)
    BY <1>6, <2>2, <2>3 DEF OpFits
  <2> QED  BY <1>4, <1>5, <2>2, <2>4, <2>5
<1>10. CASE Vanish(o)
  <2>1. UNCHANGED <<status, owner, again, link, host>> /\ effect[o] = "pending" /\ effect'[o] = "void"
        /\ \A q \in Ops \ {o} : effect'[q] = effect[q]
    BY <1>8, <1>10 DEF Vanish, W!Vanish
  <2>2. ASSUME NEW q \in Ops  PROVE OpFits(q)
    BY <1>7, <2>1
  <2> QED  BY <1>4, <1>5, <2>1, <2>2
<1>11. CASE Happen(o)
  <2>1. UNCHANGED <<status, owner, again, link>> /\ effect[o] = "pending" /\ effect'[o] = "happened"
        /\ \A q \in Ops \ {o} : effect'[q] = effect[q]
    BY <1>8, <1>11 DEF Happen, W!Happen
  <2>2. ASSUME NEW q \in Ops  PROVE OpFits(q)
    BY <1>7, <2>1
  <2>3. Acts(o, link[o].conn) /\ o \in OpIds
    BY <2>1 DEF Acts, OperationsInv, Numbered, OpIds
  <2>4. \A e \in Endpoints : PrintsFit(e)
    <3>1. CASE link[o].kind = "start"
      <4>1. StartPrint(link[o].conn, "ours", o)
        BY <1>11, <3>1 DEF Happen
      <4> QED  BY <1>3, <2>3, <3>1, <4>1, StartPrintFits
    <3>2. CASE link[o].kind = "upload"
      BY <1>5, <1>11, <3>2 DEF Happen
    <3>3. CASE link[o].kind \notin {"start", "upload"}
      <4>1. host' = [host EXCEPT ![link[o].conn] = Control(@, link[o].kind, o)]
        BY <1>11, <3>3 DEF Happen
      <4> QED  BY <1>3, <2>3, <4>1, ControlFits
    <3> QED  BY <3>1, <3>2, <3>3
  <2> QED  BY <1>4, <2>2, <2>4
<1>12. ASSUME NEW s \in {"succeeded", "abandoned"}, W!Close(o, s), UNCHANGED <<link, host>>  PROVE StepFits
  <2>1. UNCHANGED <<owner, effect, again, link>> /\ status[o] = "open" /\ status'[o] = s
        /\ \A q \in Ops \ {o} : status'[q] = status[q]
    BY <1>8, <1>12 DEF W!Close
  <2>2. ASSUME NEW q \in Ops  PROVE OpFits(q)
    BY <1>7, <2>1 DEF W!Closed
  <2> QED  BY <1>4, <1>5, <1>12, <2>2
<1>13. CASE Fail(o)
  <2>1. UNCHANGED <<owner, effect, again, link, host>> /\ status[o] = "open" /\ W!Harmless(o)
        /\ status'[o] = "failed" /\ \A q \in Ops \ {o} : status'[q] = status[q]
    BY <1>8, <1>13 DEF Fail, W!Fail
  <2>2. link[o].kind # "upload" => effect[o] \in {"unsent", "void"}
    BY <1>8, <2>1 DEF W!Harmless, OperationsInv, Numbered, Used
  <2>3. ASSUME NEW q \in Ops  PROVE OpFits(q)
    BY <1>7, <2>1, <2>2 DEF W!Closed
  <2> QED  BY <1>4, <1>5, <2>1, <2>3
<1> QED  BY <1>1, <1>9, <1>10, <1>11, <1>12, <1>13 DEF Succeed, Abandon

LEMMA WorldFits ==
  ASSUME MaterialInv, World
  PROVE  StepFits
<1>1. ASSUME UNCHANGED <<writes, link, durable, cmd, poll>>, \A e \in Endpoints : PrintsFit(e)
      PROVE  StepFits
  BY <1>1, RowsStay, OpsStay DEF StepFits, CmdFits, PollFits, durable
<1>2. ASSUME NEW p \in Printers,
             MoveSpool(p) \/ SetStartSafety(p) \/ GoOnline(p) \/ GoOffline(p)
               \/ \E e \in Endpoints : SetConnection(p, e)
      PROVE  StepFits
  BY <1>1, <1>2, PrintsStay DEF MoveSpool, SetStartSafety, GoOnline, GoOffline, SetConnection
<1>3. None \in OpIds /\ \A e \in Endpoints : Acts(None, e)
  BY DEF OpIds, Acts
<1>4. ASSUME NEW e \in Endpoints, Outside(e)  PROVE StepFits
  <2>1. \A x \in Endpoints : PrintsFit(x)
    <3>1. CASE \E f \in {"ours", "other"} : ~Busy(e) /\ StartPrint(e, f, None)
      BY <1>3, <3>1, StartPrintFits
    <3>2. CASE \E k \in Controls : host' = [host EXCEPT ![e] = Control(@, k, None)]
      BY <1>3, <3>2, ControlFits
    <3>3. CASE host' = [host EXCEPT ![e].print = "standby"]
      <4>1. host[e] \in Host /\ host \in [Endpoints -> Host]
        BY DEF MaterialInv, TypeOK
      <4>2. \A x \in Endpoints : host'[x].prints = host[x].prints
        BY <3>3, <4>1 DEF Host
      <4> QED  BY <4>2, Types DEF PrintsFit, Prints
    <3> QED  BY <1>4, <3>1, <3>2, <3>3 DEF Outside
  <2> QED  BY <1>1, <1>4, <2>1 DEF Outside
<1>5. ASSUME NEW e \in Endpoints, NEW s \in Terminal \cup {"other"}, PrintEnds(e, s)  PROVE StepFits
  <2>1. host' = [host EXCEPT ![e] = [prints |-> End(host[e].prints, s, None), print |-> Shown(s)]]
    BY <1>5 DEF PrintEnds
  <2>2. \A x \in Endpoints : PrintsFit(x)
    BY <1>3, <2>1, EndedFits
  <2> QED  BY <1>1, <1>5, <2>2 DEF PrintEnds
<1> QED  BY <1>2, <1>4, <1>5, UnreachableFits DEF World

LEMMA StepsFit ==
  ASSUME MaterialInv, OperationsInv, [Next]_vars
  PROVE  StepFits \/ \E c \in Callers : Commit(c)
<1>1. CASE UNCHANGED vars
  BY <1>1, RowsStay, TablesFit DEF vars, durable
<1> QED
  BY <1>1, QueueFits, JobCommandFits, HandOffStepFits, DriverFits, HostOperationFits, WorldFits, RestartFits DEF Next

(***************************************************************************)
(* Jobs and their Host Operations.                                         *)
(***************************************************************************)
\* What a step that fits leaves of an operation: it is sent and resolved at most once.
LEMMA OpSteps ==
  ASSUME MaterialInv, NEW o \in Ops, OpFits(o)
  PROVE  /\ Used(o)' <=> Used(o)
         /\ link'[o].kind = link[o].kind /\ link'[o].job = link[o].job /\ link'[o].caller = link[o].caller
         /\ link'[o].conn = link[o].conn /\ link'[o].mark = link[o].mark /\ link'[o].source = link[o].source
         /\ owner'[o] = owner[o]
         /\ status'[o] = "open" => status[o] = "open"
         /\ status[o] \in W!Closed => status'[o] = status[o]
         /\ status[o] # "failed" /\ status'[o] = "failed" => status[o] = "open"
<1>1. PICK b : link'[o] = [link[o] EXCEPT !.before = b]
  BY DEF OpFits
<1>2. link[o] \in Link
  BY Types
<1>3. /\ link'[o].kind = link[o].kind /\ link'[o].job = link[o].job /\ link'[o].caller = link[o].caller
      /\ link'[o].conn = link[o].conn /\ link'[o].mark = link[o].mark /\ link'[o].source = link[o].source
  BY <1>1, <1>2 DEF Link
<1> QED  BY <1>3 DEF OpFits, Used, W!Closed

\* A Job that has been assigned stays on its Printer.
LEMMA RowSteps ==
  ASSUME NEW j \in Jobs, RowFits(j), job[j].state # "absent"
  PROVE  job'[j].state # "absent" /\ job'[j].printer = job[j].printer /\ ~Assigned(j)
BY DEF RowFits, Minor, Assigned, Drops, Tracks, Reads, Answers, SameLinks, OnHost, Terminal

LEMMA NumberedFits ==
  ASSUME MaterialInv, OperationsInv, StepFits
  PROVE  Numbered' /\ OpenIsLast' /\ FailedDidNothing'
<1>1. \A o \in Ops : OpFits(o)
  BY DEF StepFits
<1>2. \A j \in Jobs : job[j].state # "absent" => job'[j].state # "absent" /\ job'[j].printer = job[j].printer
  BY RowSteps DEF StepFits
<1>3. ASSUME NEW o \in Ops, ~Used(o)'  PROVE link'[o].job = None /\ effect'[o] = "unsent"
  BY <1>1, <1>3, OpSteps DEF OperationsInv, Numbered, OpFits, Used
<1>4. ASSUME NEW o \in Ops, Used(o)'
      PROVE  /\ \A q \in Ops : q < o => Used(q)'
             /\ link'[o].job \in Jobs /\ job'[link'[o].job].state # "absent"
             /\ owner'[o] = job'[link'[o].job].printer
             /\ again'[o] <=> link'[o].kind = "upload"
  <2>1. Used(o) /\ link'[o].job = link[o].job /\ link'[o].kind = link[o].kind
    BY <1>1, <1>4, OpSteps
  <2>2. \A q \in Ops : Used(q) => Used(q)'
    BY <1>1, OpSteps
  <2> QED  BY <1>1, <1>2, <2>1, <2>2 DEF OperationsInv, Numbered, OpFits
<1>5. Numbered'
  BY <1>3, <1>4 DEF Numbered
<1>6. OpenIsLast'
  BY <1>1, OpSteps DEF OperationsInv, OpenIsLast
<1>7. FailedDidNothing'
  <2>1. ASSUME NEW o \in Ops, status'[o] = "failed", link'[o].kind # "upload"
        PROVE  effect'[o] \in {"unsent", "void"}
    <3>1. link[o].kind # "upload"
      BY <1>1, <2>1, OpSteps
    <3>2. CASE status[o] = "failed"
      BY <1>1, <3>1, <3>2 DEF OperationsInv, FailedDidNothing, OpFits
    <3>3. CASE status[o] # "failed"
      BY <1>1, <2>1, <3>1, <3>3 DEF OpFits
    <3> QED  BY <3>2, <3>3
  <2> QED  BY <2>1 DEF FailedDidNothing
<1> QED  BY <1>5, <1>6, <1>7

LEMMA LockedFits ==
  ASSUME MaterialInv, OperationsInv, StepFits
  PROVE  Locked'
<1>1. \A c \in Callers : CmdFits(c) /\ (Asking(c) => cmd[c].job \in Jobs)
  BY DEF StepFits, MaterialInv, CommandsName, Asking
<1>2. \A j \in Jobs : job[j].state # "absent" => job'[j].state # "absent" /\ job'[j].printer = job[j].printer
  BY RowSteps DEF StepFits
<1>3. ASSUME NEW p, HasOpen(p)'  PROVE HasOpen(p)
  BY <1>3, OpSteps DEF HasOpen, StepFits
<1>4. \A c \in Callers : Asking(c) => job[cmd[c].job].state # "absent"
  BY DEF OperationsInv, Locked
<1>5. ASSUME NEW c \in Callers, Check(c)
      PROVE  /\ Asking(c) /\ cmd'[c].job = cmd[c].job /\ cmd'[c].kind = cmd[c].kind /\ cmd'[c].source = cmd[c].source
             /\ \A d \in Callers \ {c} : cmd'[d] = cmd[d]
  <2>1. cmd[c] \in Cmd
    BY Types
  <2> QED  BY <1>5, <2>1 DEF Check, Asking, MaterialInv, TypeOK, Cmd
<1>6. ASSUME NEW c \in Callers, Asking(c)'
      PROVE  /\ job'[cmd'[c].job].state # "absent"
             /\ Begins(c) \/ (Asking(c) /\ cmd'[c].job = cmd[c].job)
  <2>1. CASE Begins(c)
    BY <1>2, <2>1 DEF Begins
  <2>2. CASE Asking(c) /\ cmd'[c].job = cmd[c].job
    BY <1>1, <1>2, <1>4, <2>2
  <2> QED  BY <1>1, <1>5, <1>6, <2>1, <2>2 DEF CmdFits, Asking
<1>7. ASSUME NEW c \in Callers, Checked(c)'
      PROVE  /\ Asking(c) /\ cmd[c].job \in Jobs /\ PrinterOf(c)' = PrinterOf(c)
             /\ Check(c) \/ cmd'[c] = cmd[c]
  <2>1. Check(c) \/ cmd'[c] = cmd[c]
    BY <1>1, <1>7 DEF CmdFits, Checked, Begins
  <2>2. Asking(c) /\ cmd'[c].job = cmd[c].job
    BY <1>5, <1>7, <2>1 DEF Checked, Asking
  <2> QED  BY <1>1, <1>2, <1>4, <2>1, <2>2 DEF PrinterOf
<1>8. ASSUME NEW c \in Callers, Checked(c)'
      PROVE  ~HasOpen(PrinterOf(c))' /\ (cmd'[c].kind = "start" => cmd'[c].source # None)
  <2>1. ~HasOpen(PrinterOf(c)) /\ (cmd'[c].kind = "start" => cmd'[c].source # None)
    <3>1. CASE Check(c)
      BY <1>5, <3>1 DEF Check, PrinterOf
    <3>2. CASE cmd'[c] = cmd[c]
      BY <1>8, <3>2 DEF OperationsInv, Locked, Checked
    <3> QED  BY <1>7, <1>8, <3>1, <3>2
  <2> QED  BY <1>3, <1>7, <1>8, <2>1
<1>9. ASSUME NEW c \in Callers, NEW d \in Callers, Checked(c)', Checked(d)', PrinterOf(c)' = PrinterOf(d)', c # d
      PROVE  FALSE
  <2>1. PrinterOf(c) = PrinterOf(d)
    BY <1>7, <1>9
  <2>2. ASSUME NEW x \in Callers, NEW y \in Callers, x # y, Check(x), Checked(y)', PrinterOf(x) = PrinterOf(y)
        PROVE  FALSE
    <3>1. Checked(y)
      BY <1>5, <2>2 DEF Checked
    <3> QED  BY <2>2, <3>1 DEF Check, LockFree, PrinterOf, Checked
  <2>3. CASE cmd'[c] = cmd[c] /\ cmd'[d] = cmd[d]
    BY <1>9, <2>1, <2>3 DEF OperationsInv, Locked, Checked
  <2> QED  BY <1>7, <1>9, <2>1, <2>2, <2>3
<1> QED  BY <1>6, <1>8, <1>9 DEF Locked

LEMMA LinkedFits ==
  ASSUME MaterialInv, OperationsInv, StepFits
  PROVE  LinkedOps'
<1> SUFFICES ASSUME NEW o \in Ops, status'[o] = "open"
             PROVE  LET s == job'[link'[o].job] IN
                    /\ s.active = o
                    /\ link'[o].kind = "upload" <=> s.state = "staging"
                    /\ link'[o].kind = "start" <=> s.state = "starting"
                    /\ link'[o].kind \in Controls => s.state \in OnHost \cup {"outcomeUnknown"} \cup Terminal
  BY DEF LinkedOps
<1> DEFINE j == link[o].job
           r == job[j]
           s == job'[j]
           k == link[o].kind
<1>1. status[o] = "open" /\ link'[o].job = j /\ link'[o].kind = k
  BY OpSteps DEF StepFits
<1>2. j \in Jobs /\ r.state # "absent" /\ o # None
  BY <1>1, NoneIsNot DEF OperationsInv, Numbered, Used
<1>3. /\ r.active = o
      /\ k = "upload" <=> r.state = "staging"
      /\ k = "start" <=> r.state = "starting"
      /\ k \in Controls => r.state \in OnHost \cup {"outcomeUnknown"} \cup Terminal
  BY <1>1 DEF OperationsInv, LinkedOps
<1>4. k \in {"upload", "start"} \cup Controls
  BY Types DEF Link
<1>5. RowFits(j) /\ ~Assigned(j)
  BY <1>2, RowSteps DEF StepFits
<1> HIDE DEF r, s, k
<1>6. /\ s.active = o
      /\ k = "upload" <=> s.state = "staging"
      /\ k = "start" <=> s.state = "starting"
      /\ k \in Controls => s.state \in OnHost \cup {"outcomeUnknown"} \cup Terminal
  <2>1. CASE Minor(r, s)
    BY <1>3, <2>1 DEF Minor, SameLinks
  <2>2. CASE Drops(r, s)
    BY <1>3, <1>4, <2>2 DEF Drops, BeforeStart, OnHost, Terminal
  <2>3. CASE Tracks(r, s) \/ Reads(r, s, j)
    BY <1>3, <1>4, <2>3 DEF Tracks, Reads, SameLinks, OnHost, Terminal
  <2>4. CASE Answers(r, s)
    BY <1>3, <2>4 DEF Answers, W!Closed
  <2> QED  BY <1>5, <2>1, <2>2, <2>3, <2>4 DEF RowFits, r, s
<1> QED  BY <1>1, <1>6 DEF s, k

LEMMA StartStandsFits ==
  ASSUME MaterialInv, OperationsInv, StepFits
  PROVE  StartStands'
<1>1. \A o \in Ops : OpFits(o)
  BY DEF StepFits
<1>2. ASSUME NEW o \in Ops, NEW j, NEW k  PROVE Of(o, j, k)' <=> Of(o, j, k)
  BY <1>1, OpSteps DEF Of
<1> SUFFICES
      ASSUME NEW j \in Jobs
      PROVE  LET s == job'[j] IN
             /\ s.start # None =>
                  status'[s.start] # "none" /\ link'[s.start].job = j /\ link'[s.start].kind = "start"
             /\ s.state = "starting" => s.start # None /\ s.active = s.start
             /\ s.state \in OnHost => s.start # None
             /\ \A o \in Ops : Of(o, j, "start")' /\ status'[o] # "failed" =>
                  s.start = o /\ s.state \notin Back /\ s.settlement # "notRequired"
  BY DEF StartStands, Of, Used
<1> DEFINE r == job[j]
           s == job'[j]
<1>3. /\ r.start # None => Of(r.start, j, "start")
      /\ r.state = "starting" => r.start # None /\ r.active = r.start
      /\ r.state \in OnHost => r.start # None
      /\ \A o \in Ops : Of(o, j, "start") /\ status[o] # "failed" =>
           r.start = o /\ r.state \notin Back /\ r.settlement # "notRequired"
  BY DEF OperationsInv, StartStands
<1>4. RowFits(j) /\ r \in Job
  BY RowOf DEF StepFits
<1>5. ASSUME NEW o \in Ops, Of(o, j, "start")', status'[o] # "failed"
      PROVE  Of(o, j, "start") /\ status[o] # "failed"
  BY <1>1, <1>2, <1>5, OpSteps DEF W!Closed
<1>6. r.start \in Ops \cup {None}
  BY <1>4 DEF Job, OpIds
<1>7. r.state = "starting" => link[r.active].kind = "start"
  BY <1>3 DEF Of
<1> HIDE DEF r
<1>8. s.start = r.start \/ s.start = None
  BY <1>4 DEF RowFits, Minor, Assigned, Drops, Tracks, Reads, Answers, SameLinks, r
<1>9. s.start # None => status'[s.start] # "none" /\ link'[s.start].job = j /\ link'[s.start].kind = "start"
  <2>1. ASSUME NEW o \in Ops, r.start = o, Of(o, j, "start")
        PROVE  status'[o] # "none" /\ link'[o].job = j /\ link'[o].kind = "start"
    BY <1>1, <2>1, OpSteps DEF Of, Used
  <2> QED  BY <1>3, <1>6, <1>8, <2>1, NoneIsNot
<1> HIDE DEF s
<1>10. /\ s.state = "starting" => s.start # None /\ s.active = s.start
       /\ s.state \in OnHost => s.start # None
  <2>1. CASE Minor(r, s)
    BY <1>3, <2>1 DEF Minor, SameLinks
  <2>2. CASE Drops(r, s) \/ Assigned(j)
    BY <2>2 DEF Drops, Assigned, OnHost, s
  <2>3. CASE Tracks(r, s) \/ Reads(r, s, j)
    BY <1>3, <2>3 DEF Tracks, Reads, SameLinks, OnHost, Terminal
  <2>4. CASE Answers(r, s)
    BY <1>3, <1>7, <2>4 DEF Answers, OnHost
  <2> QED  BY <1>4, <2>1, <2>2, <2>3, <2>4 DEF RowFits, r, s
<1>11. ASSUME NEW o \in Ops, Of(o, j, "start")', status'[o] # "failed"
       PROVE  s.start = o /\ s.state \notin Back /\ s.settlement # "notRequired"
  <2>1. r.start = o /\ r.state \notin Back /\ r.settlement # "notRequired"
    BY <1>3, <1>5, <1>11
  <2>2. CASE Minor(r, s)
    BY <2>1, <2>2 DEF Minor, SameLinks, MovesOn
  <2>3. CASE Drops(r, s) \/ Assigned(j)
    BY <2>1, <2>3 DEF Drops, Assigned, Back, BeforeStart, r
  <2>4. CASE Tracks(r, s) \/ Reads(r, s, j)
    BY <2>1, <2>4 DEF Tracks, Reads, SameLinks, OnHost, Terminal, Back
  <2>5. CASE Answers(r, s)
    BY <1>3, <1>11, <2>1, <2>5 DEF Answers, OnHost, Back
  <2> QED  BY <1>4, <2>2, <2>3, <2>4, <2>5 DEF RowFits, r, s
<1> QED  BY <1>9, <1>10, <1>11 DEF s

LEMMA StagedFits ==
  ASSUME MaterialInv, OperationsInv, StepFits
  PROVE  Staged'
<1>1. \A o \in Ops : OpFits(o)
  BY DEF StepFits
<1>2. ASSUME NEW o \in Ops, NEW j, NEW k  PROVE Of(o, j, k)' <=> Of(o, j, k)
  BY <1>1, OpSteps DEF Of
<1>3. ASSUME NEW u, NEW j, LastUpload(u, j)  PROVE LastUpload(u, j)'
  BY <1>2, <1>3 DEF LastUpload
<1>4. ASSUME NEW u \in Ops, status[u] = "succeeded"  PROVE status'[u] = "succeeded"
  BY <1>1, <1>4, OpSteps DEF W!Closed
<1> SUFFICES
      ASSUME NEW j \in Jobs
      PROVE  /\ job'[j].state = "staging" => LastUpload(job[j].active, j)'
             /\ job'[j].state # "staging" /\ job'[j].upload # None =>
                  LastUpload(job[j].upload, j)' /\ status'[job'[j].upload] = "succeeded"
  BY DEF Staged
<1> DEFINE r == job[j]
           s == job'[j]
<1>5. /\ r.state = "staging" => LastUpload(r.active, j)
      /\ r.state # "staging" /\ r.upload # None => LastUpload(r.upload, j) /\ status[r.upload] = "succeeded"
  BY DEF OperationsInv, Staged
<1>6. LastUpload(r.active, j) => r.active \in Ops /\ link[r.active].kind = "upload"
  BY DEF LastUpload, Of
<1>7. RowFits(j)
  BY DEF StepFits
<1> HIDE DEF r, s
<1>8. ASSUME s.state = "staging"  PROVE s.active = r.active /\ r.state = "staging"
  <2>1. CASE Minor(r, s)
    BY <1>8, <2>1 DEF Minor, SameLinks
  <2>2. CASE Assigned(j) \/ Drops(r, s) \/ Tracks(r, s) \/ Reads(r, s, j)
    BY <1>8, <2>2 DEF Assigned, Drops, Tracks, Reads, OnHost, Terminal, s
  <2>3. CASE Answers(r, s)
    BY <1>5, <1>6, <1>8, <2>3 DEF Answers, OnHost
  <2> QED  BY <1>7, <2>1, <2>2, <2>3 DEF RowFits, r, s
<1>9. ASSUME s.state # "staging", s.upload # None
      PROVE  \/ r.state # "staging" /\ s.upload = r.upload
             \/ r.state = "staging" /\ s.upload = r.active /\ status'[r.active] = "succeeded"
  <2>1. CASE Minor(r, s)
    BY <1>9, <2>1 DEF Minor, SameLinks
  <2>2. CASE Assigned(j)
    BY <1>9, <2>2 DEF Assigned, s
  <2>3. CASE Drops(r, s) \/ Tracks(r, s) \/ Reads(r, s, j)
    BY <1>9, <2>3 DEF Drops, Tracks, Reads, SameLinks, OnHost, BeforeStart
  <2>4. CASE Answers(r, s)
    BY <1>5, <1>6, <1>9, <2>4 DEF Answers, OnHost
  <2> QED  BY <1>7, <2>1, <2>2, <2>3, <2>4 DEF RowFits, r, s
<1>10. ASSUME s.state = "staging"  PROVE \A u : s.active = u => LastUpload(u, j)'
  BY <1>3, <1>5, <1>8, <1>10
<1>11. ASSUME s.state # "staging", s.upload # None
       PROVE  \A u : s.upload = u => LastUpload(u, j)' /\ status'[u] = "succeeded"
  <2>1. \A u : LastUpload(u, j) => u \in Ops
    BY DEF LastUpload
  <2> QED  BY <1>3, <1>4, <1>5, <1>9, <1>11, <2>1
<1> QED  BY <1>10, <1>11 DEF s

LEMMA OwnUploadFits ==
  ASSUME MaterialInv, OperationsInv, StepFits
  PROVE  StartsOwnUpload'
<1>1. \A o \in Ops : OpFits(o)
  BY DEF StepFits
<1>2. ASSUME NEW o \in Ops
      PROVE  /\ Used(o)' <=> Used(o)
             /\ link'[o].kind = link[o].kind /\ link'[o].job = link[o].job /\ link'[o].source = link[o].source
             /\ status[o] = "succeeded" => status'[o] = "succeeded"
  BY <1>1, OpSteps DEF W!Closed
<1> SUFFICES ASSUME NEW o \in Ops, status'[o] # "none", link'[o].kind = "start"
             PROVE  LET u == link'[o].source IN
                    /\ u # None /\ status'[u] = "succeeded" /\ link'[u].kind = "upload"
                    /\ link'[u].job = link'[o].job
                    /\ \A q \in Ops : u < q /\ q < o => link'[q].kind # "upload" \/ link'[q].job # link'[o].job
  BY DEF StartsOwnUpload
<1> DEFINE u == link[o].source
<1>3. status[o] # "none" /\ link[o].kind = "start"
  BY <1>2 DEF Used
<1>4. /\ u # None /\ status[u] = "succeeded" /\ link[u].kind = "upload" /\ link[u].job = link[o].job
      /\ \A q \in Ops : u < q /\ q < o => link[q].kind # "upload" \/ link[q].job # link[o].job
  BY <1>3 DEF OperationsInv, StartsOwnUpload
<1>5. u \in Ops
  BY <1>4, Types DEF Link, OpIds
<1> HIDE DEF u
<1>6. link'[o].source = u /\ link'[o].job = link[o].job
  BY <1>2 DEF u
<1> QED  BY <1>2, <1>4, <1>5, <1>6

(***************************************************************************)
(* A hand-off.                                                             *)
(***************************************************************************)
\* Operation o is opened for Job j by command c, and is the last there is.
HandsOff(c, o, j) ==
  LET m == cmd[c]  r == job[j]  s == job'[j] IN
  /\ o \in Ops /\ j \in Jobs /\ m.job = j /\ Checked(c)
  /\ \A q \in Ops : Used(q) <=> q < o
  /\ status[o] = "none" /\ status'[o] = "open" /\ owner'[o] = r.printer
  /\ effect'[o] = "unsent" /\ again'[o] = (m.kind = "upload")
  /\ link'[o].kind = m.kind /\ link'[o].job = j /\ link'[o].caller = c /\ link'[o].conn = m.conn
  /\ link'[o].mark = m.mark /\ link'[o].source = m.source
  /\ \A q \in Ops \ {o} :
       status'[q] = status[q] /\ owner'[q] = owner[q] /\ effect'[q] = effect[q] /\ again'[q] = again[q] /\ link'[q] = link[q]
  /\ \A i \in Jobs \ {j} : job'[i] = job[i]
  /\ s.printer = r.printer /\ s.upload = r.upload /\ s.pin = r.pin /\ s.reason = r.reason
  /\ s.settlement = r.settlement /\ s.settlement # "notRequired" /\ s.active = o
  /\ s.start = IF m.kind = "start" THEN o ELSE r.start
  /\ \/ m.kind = "upload" /\ r.state \in BeforeStart /\ s.state = "staging"
     \/ m.kind = "start" /\ r.state = "awaitingStart" /\ s.state = "starting" /\ r.upload = m.source
     \/ m.kind \in Controls /\ r.state \in OnHost /\ s.state = r.state
  /\ cmd'[c].pc = "idle" /\ \A d \in Callers \ {c} : cmd'[d] = cmd[d]
  /\ UNCHANGED <<poll, host>>

LEMMA CommitHandsOff ==
  ASSUME MaterialInv, OperationsInv, NEW c \in Callers, Commit(c)
  PROVE  \E o \in Ops : HandsOff(c, o, cmd[c].job)
<1> DEFINE m == cmd[c]
           j == m.job
           r == job[j]
           event == EventOf(m.kind)
           moved == Moved(r, event)
<1>1. m \in Cmd /\ j \in Jobs /\ m.pc = "checked" /\ m.kind \in {"upload", "start"} \cup Controls
  BY Types DEF Commit, MaterialInv, CommandsName, Cmd
<1>2. r \in Job /\ Sound(r, account[j], entry[j])
  BY <1>1, RowOf
<1>3. r.state \in Sources[event] /\ (m.kind = "start" => r.upload = m.source)
  BY DEF Commit, MayCommit, Legal
<1>4. PICK o \in FreshOps :
        /\ W!Open(o, r.printer) /\ again'[o] = (m.kind = "upload")
        /\ link' = [link EXCEPT ![o] = [kind |-> m.kind, job |-> j, caller |-> c, conn |-> m.conn,
                                        mark |-> m.mark, source |-> m.source, before |-> 0]]
        /\ job' = [job EXCEPT ![j] = [moved EXCEPT !.active = o, !.start = IF m.kind = "start" THEN o ELSE @]]
  BY DEF Commit
<1>5. o \in Ops /\ status[o] = "none" /\ \A q \in Ops : q < o => Used(q)
  <2>1. DOMAIN [x \in Ops |-> status[x] # "none"] = Ops
    OBVIOUS
  <2> QED  BY DEF FreshOps, Fresh, Used
<1>6. \A q \in Ops : Used(q) <=> q < o
  <2>1. ASSUME NEW q \in Ops, Used(q), ~(q < o)  PROVE FALSE
    <3>1. q # o
      BY <1>5, <2>1 DEF Used
    <3>2. o < q
      BY <1>5, <2>1, <3>1, NoneIsNot
    <3>3. Used(o)
      BY <1>5, <2>1, <3>2 DEF OperationsInv, Numbered
    <3> QED  BY <1>5, <3>3 DEF Used
  <2> QED  BY <1>5, <2>1
<1>7. /\ status'[o] = "open" /\ owner'[o] = r.printer /\ effect'[o] = "unsent"
      /\ \A q \in Ops \ {o} :
           status'[q] = status[q] /\ owner'[q] = owner[q] /\ effect'[q] = effect[q] /\ again'[q] = again[q]
  <2>1. effect[o] = "unsent"
    BY <1>5 DEF OperationsInv, Numbered, Used
  <2> QED  BY <1>4, <1>5, <2>1 DEF W!Open, MaterialInv, TypeOK
<1>8. /\ link'[o].kind = m.kind /\ link'[o].job = j /\ link'[o].caller = c /\ link'[o].conn = m.conn
      /\ link'[o].mark = m.mark /\ link'[o].source = m.source
      /\ \A q \in Ops \ {o} : link'[q] = link[q]
  BY <1>4, <1>5 DEF MaterialInv, TypeOK
<1>9. moved \in Job /\ SameLinks(r, moved) /\ moved.pin = r.pin /\ moved.reason = r.reason
      /\ moved.state = StateAfter(r.state, event) /\ moved.settlement = SettlementAfter(event, r.settlement)
  BY <1>2, MovedFields
<1>10. /\ moved.settlement = r.settlement /\ r.settlement # "notRequired"
       /\ \/ m.kind = "upload" /\ r.state \in BeforeStart /\ moved.state = "staging"
          \/ m.kind = "start" /\ r.state = "awaitingStart" /\ moved.state = "starting" /\ r.upload = m.source
          \/ m.kind \in Controls /\ r.state \in OnHost /\ moved.state = r.state
  <2>1. r.state \in JobState
    BY <1>2 DEF Job
  <2>2. \/ m.kind = "upload" /\ event = "stageHandedOff"
        \/ m.kind = "start" /\ event = "startHandedOff"
        \/ m.kind \in Controls /\ event \in {"pauseHandedOff", "resumeHandedOff", "cancelHandedOff"}
    BY <1>1 DEF EventOf, Controls
  <2> HIDE DEF event, moved, r, m
  <2>3. r.settlement # "notRequired"
    <3>1. r.state \notin {"absent"} \cup Terminal
      BY <1>1, <1>3, <2>1, HandOffFits DEF event
    <3> QED  BY <1>2, <3>1 DEF Sound, Counted
  <2> QED  BY <1>3, <1>9, <2>1, <2>2, <2>3 DEF Sources, StateAfter, SettlementAfter, BeforeStart, OnHost
<1>11. LET s == job'[j] IN
       /\ s.printer = r.printer /\ s.upload = r.upload /\ s.pin = r.pin /\ s.reason = r.reason
       /\ s.settlement = moved.settlement /\ s.active = o /\ s.state = moved.state
       /\ s.start = IF m.kind = "start" THEN o ELSE r.start
  <2> DEFINE st == IF m.kind = "start" THEN o ELSE moved.start
             s == [moved EXCEPT !.active = o, !.start = st]
  <2>1. job'[j] = s
    BY <1>1, <1>4 DEF MaterialInv, TypeOK
  <2>2. st = IF m.kind = "start" THEN o ELSE r.start
    BY <1>9 DEF SameLinks
  <2> HIDE DEF moved, st, m, r
  <2>3. s.printer = moved.printer /\ s.upload = moved.upload /\ s.pin = moved.pin /\ s.reason = moved.reason
        /\ s.settlement = moved.settlement /\ s.active = o /\ s.state = moved.state /\ s.start = st
    BY <1>9 DEF Job
  <2> HIDE DEF s
  <2> QED  BY <1>9, <2>1, <2>2, <2>3 DEF SameLinks
<1>12. \A i \in Jobs \ {j} : job'[i] = job[i]
  BY <1>1, <1>4 DEF MaterialInv, TypeOK
<1>13. cmd'[c].pc = "idle" /\ (\A d \in Callers \ {c} : cmd'[d] = cmd[d]) /\ UNCHANGED <<poll, host>>
  <2>1. NoCmd.pc = "idle"
    BY IdleTyped, EndpointsExist
  <2> QED  BY <2>1 DEF Commit, MaterialInv, TypeOK
<1> HIDE DEF moved, event
<1>14. HandsOff(c, o, j)
  BY <1>1, <1>4, <1>5, <1>6, <1>7, <1>8, <1>10, <1>11, <1>12, <1>13 DEF HandsOff, Checked
<1> QED  BY <1>5, <1>14

LEMMA HandOffOperations ==
  ASSUME MaterialInv, OperationsInv, NEW c \in Callers, NEW o, NEW j, HandsOff(c, o, j)
  PROVE  OperationsInv'
<1>1. o \in Ops /\ j \in Jobs /\ o # None /\ Checked(c) /\ cmd[c].job = j
  BY NoneIsNot DEF HandsOff
<1>2. \A q \in Ops : (Used(q) <=> q < o) /\ (Used(q)' <=> q <= o)
  <2>1. \A q \in Ops : q \in Nat
    BY NoneIsNot
  <2> QED  BY <1>1, <2>1 DEF HandsOff, Used
<1>3. \A q \in Ops \ {o} :
        status'[q] = status[q] /\ owner'[q] = owner[q] /\ effect'[q] = effect[q] /\ again'[q] = again[q] /\ link'[q] = link[q]
  BY DEF HandsOff
<1>4. job[j].state \notin {"absent"} \cup Terminal /\ job'[j].state # "absent" /\ job'[j].printer = job[j].printer
  BY DEF HandsOff, BeforeStart, OnHost, Terminal
<1>5. \A i \in Jobs : job[i].state # "absent" => job'[i].state # "absent" /\ job'[i].printer = job[i].printer
  BY <1>4 DEF HandsOff
<1>6. ~HasOpen(job[j].printer)
  BY <1>1 DEF OperationsInv, Locked, PrinterOf
<1>7. Numbered'
  <2>1. ASSUME NEW q \in Ops, ~Used(q)'  PROVE link'[q].job = None /\ effect'[q] = "unsent"
    BY <1>1, <1>2, <1>3, <2>1, NoneIsNot DEF OperationsInv, Numbered
  <2>2. ASSUME NEW q \in Ops, Used(q)'
        PROVE  /\ \A x \in Ops : x < q => Used(x)'
               /\ link'[q].job \in Jobs /\ job'[link'[q].job].state # "absent"
               /\ owner'[q] = job'[link'[q].job].printer
               /\ again'[q] <=> link'[q].kind = "upload"
    <3>1. \A x \in Ops : x < q => Used(x)'
      BY <1>1, <1>2, <2>2, NoneIsNot
    <3>2. CASE q = o
      BY <1>4, <3>1, <3>2 DEF HandsOff
    <3>3. CASE q # o
      <4>1. Used(q)
        BY <1>3, <2>2, <3>3 DEF Used
      <4> QED  BY <1>3, <1>5, <3>1, <3>3, <4>1 DEF OperationsInv, Numbered
    <3> QED  BY <3>2, <3>3
  <2> QED  BY <2>1, <2>2 DEF Numbered
<1>8. OpenIsLast'
  <2>1. ASSUME NEW x \in Ops, NEW q \in Ops, status'[q] = "open", Used(x)', owner'[x] = owner'[q]  PROVE x <= q
    <3>1. CASE q = o
      BY <1>2, <2>1, <3>1
    <3>2. CASE q # o /\ x = o
      BY <1>3, <1>6, <2>1, <3>2 DEF HandsOff, HasOpen
    <3>3. CASE q # o /\ x # o
      BY <1>3, <2>1, <3>3 DEF OperationsInv, OpenIsLast, Used
    <3> QED  BY <3>1, <3>2, <3>3
  <2> QED  BY <2>1 DEF OpenIsLast
<1>9. FailedDidNothing'
  BY <1>3 DEF OperationsInv, FailedDidNothing, HandsOff
<1>10. Locked'
  <2>1. \A d \in Callers : Asking(d)' => Asking(d) /\ cmd'[d] = cmd[d] /\ d # c
    BY DEF HandsOff, Asking
  <2>2. \A d \in Callers : Checked(d)' => Checked(d) /\ Asking(d)'
    BY <2>1 DEF Checked, Asking
  <2>3. \A d \in Callers : Asking(d)' => job'[cmd'[d].job].state # "absent" /\ PrinterOf(d)' = PrinterOf(d)
    <3>1. \A d \in Callers : Asking(d) => cmd[d].job \in Jobs /\ job[cmd[d].job].state # "absent"
      BY DEF OperationsInv, Locked, MaterialInv, CommandsName, Asking
    <3> QED  BY <1>5, <2>1, <3>1 DEF PrinterOf
  <2>4. ASSUME NEW d \in Callers, Checked(d)'
        PROVE  ~HasOpen(PrinterOf(d))' /\ (cmd'[d].kind = "start" => cmd'[d].source # None)
    <3>1. PrinterOf(d) # job[j].printer /\ ~HasOpen(PrinterOf(d))
      BY <1>1, <2>1, <2>2, <2>4 DEF OperationsInv, Locked, PrinterOf
    <3>2. ~HasOpen(PrinterOf(d))'
      <4>1. PrinterOf(d)' = PrinterOf(d)
        BY <2>2, <2>3, <2>4
      <4> QED  BY <1>3, <3>1, <4>1 DEF HasOpen, HandsOff
    <3> QED  BY <2>1, <2>2, <2>4, <3>2 DEF OperationsInv, Locked
  <2> QED  BY <2>1, <2>2, <2>3, <2>4 DEF Locked, OperationsInv
<1>11. LinkedOps'
  <2> SUFFICES ASSUME NEW q \in Ops, status'[q] = "open"
               PROVE  LET s == job'[link'[q].job] IN
                      /\ s.active = q
                      /\ link'[q].kind = "upload" <=> s.state = "staging"
                      /\ link'[q].kind = "start" <=> s.state = "starting"
                      /\ link'[q].kind \in Controls => s.state \in OnHost \cup {"outcomeUnknown"} \cup Terminal
    BY DEF LinkedOps
  <2>1. CASE q = o
    BY <2>1 DEF HandsOff, OnHost, Controls
  <2>2. CASE q # o
    <3>1. status[q] = "open" /\ link'[q] = link[q]
      BY <1>3, <2>2
    <3>2. link[q].job \in Jobs /\ link[q].job # j
      BY <1>6, <3>1 DEF OperationsInv, Numbered, Used, HasOpen
    <3> QED  BY <3>1, <3>2 DEF HandsOff, OperationsInv, LinkedOps
  <2> QED  BY <2>1, <2>2
<1>12. ASSUME NEW q \in Ops \ {o}, NEW i, NEW k  PROVE Of(q, i, k)' <=> Of(q, i, k)
  BY <1>3 DEF Of, Used
<1>13. ASSUME NEW i, NEW k  PROVE Of(o, i, k)' <=> i = j /\ k = cmd[c].kind
  BY DEF Of, Used, HandsOff
<1>14. \A i \in Jobs : job[i].start \in Ops \cup {None} /\ job[i].upload \in Ops \cup {None}
  BY Types DEF Job, OpIds
<1>15. StartStands'
  <2> SUFFICES
        ASSUME NEW i \in Jobs
        PROVE  LET s == job'[i] IN
               /\ \A q : s.start = q /\ q # None => Of(q, i, "start")'
               /\ s.state = "starting" => s.start # None /\ s.active = s.start
               /\ s.state \in OnHost => s.start # None
               /\ \A q \in Ops : Of(q, i, "start")' /\ status'[q] # "failed" =>
                    s.start = q /\ s.state \notin Back /\ s.settlement # "notRequired"
    BY DEF StartStands
  <2>1. /\ job[i].start # None => Of(job[i].start, i, "start") /\ job[i].start \in Ops /\ job[i].start # o
        /\ job[i].state = "starting" => job[i].start # None /\ job[i].active = job[i].start
        /\ job[i].state \in OnHost => job[i].start # None
        /\ \A q \in Ops : Of(q, i, "start") /\ status[q] # "failed" =>
             job[i].start = q /\ job[i].state \notin Back /\ job[i].settlement # "notRequired"
    <3>1. ~Used(o)
      BY <1>1, <1>2, NoneIsNot
    <3> QED  BY <1>14, <3>1 DEF OperationsInv, StartStands, Of
  <2>2. \A q : job[i].start = q /\ q # None => Of(q, i, "start")'
    BY <1>12, <1>14, <2>1
  <2>3. CASE i # j
    <3>1. job'[i] = job[i] /\ \A q \in Ops : Of(q, i, "start")' => Of(q, i, "start") /\ q # o
      BY <1>12, <1>13, <2>3 DEF HandsOff
    <3> QED  BY <1>3, <2>1, <2>2, <3>1
  <2>4. CASE i = j
    <3>1. ASSUME NEW q \in Ops \ {o}, Of(q, j, "start")', status'[q] # "failed"
          PROVE  job[j].start = q /\ job[j].state \notin Back
      BY <1>3, <1>12, <2>1, <2>4, <3>1
    <3>2. \A q : job'[j].start = q /\ q # None => Of(q, j, "start")'
      BY <1>13, <2>2, <2>4 DEF HandsOff
    <3>3. /\ job'[j].state = "starting" => job'[j].start # None /\ job'[j].active = job'[j].start
          /\ job'[j].state \in OnHost => job'[j].start # None
      BY <1>1, <2>1, <2>4 DEF HandsOff, OnHost, Controls
    <3>4. ASSUME NEW q \in Ops, Of(q, j, "start")', status'[q] # "failed"
          PROVE  job'[j].start = q /\ job'[j].state \notin Back /\ job'[j].settlement # "notRequired"
      <4>1. CASE q = o
        BY <1>13, <3>4, <4>1 DEF HandsOff, Controls, Back
      <4>2. CASE q # o
        BY <3>1, <3>4, <4>2 DEF HandsOff, Back, BeforeStart, OnHost, Controls
      <4> QED  BY <4>1, <4>2
    <3> QED  BY <2>4, <3>2, <3>3, <3>4
  <2> QED  BY <2>3, <2>4
<1>16. ASSUME NEW u, NEW i \in Jobs, LastUpload(u, i), i # j \/ cmd[c].kind # "upload"
       PROVE  LastUpload(u, i)' /\ u # o
  <2>1. u # o
    BY <1>1, <1>2, <1>16, NoneIsNot DEF LastUpload, Of
  <2>2. \A q \in Ops : Of(q, i, "upload")' <=> Of(q, i, "upload")
    <3>1. ~Of(o, i, "upload")' /\ ~Of(o, i, "upload")
      BY <1>1, <1>2, <1>13, <1>16, NoneIsNot DEF Of
    <3> QED  BY <1>12, <3>1
  <2> QED  BY <1>16, <2>1, <2>2 DEF LastUpload
<1>17. Staged'
  <2> SUFFICES
        ASSUME NEW i \in Jobs
        PROVE  /\ job'[i].state = "staging" => \A u : u = job'[i].active => LastUpload(u, i)'
               /\ job'[i].state # "staging" /\ job'[i].upload # None =>
                    \A u : u = job'[i].upload => LastUpload(u, i)' /\ status'[u] = "succeeded"
    BY DEF Staged
  <2>1. /\ job[i].state = "staging" => LastUpload(job[i].active, i)
        /\ job[i].state # "staging" /\ job[i].upload # None =>
             LastUpload(job[i].upload, i) /\ status[job[i].upload] = "succeeded"
    BY DEF OperationsInv, Staged
  <2>2. \A u : LastUpload(u, i) => u \in Ops
    BY DEF LastUpload
  <2>3. CASE i # j
    <3>1. job'[i] = job[i]
      BY <2>3 DEF HandsOff
    <3> QED  BY <1>3, <1>16, <2>1, <2>2, <2>3, <3>1
  <2>4. CASE i = j /\ cmd[c].kind # "upload"
    <3>1. job'[j].state # "staging" /\ job[j].state # "staging" /\ job'[j].upload = job[j].upload
      BY <2>4 DEF HandsOff, BeforeStart, OnHost
    <3> QED  BY <1>3, <1>16, <2>1, <2>2, <2>4, <3>1
  <2>5. CASE i = j /\ cmd[c].kind = "upload"
    <3>1. job'[j].state = "staging" /\ job'[j].active = o
      BY <2>5 DEF HandsOff, Controls
    <3>2. LastUpload(o, j)'
      <4>1. Of(o, j, "upload")'
        BY <1>13, <2>5
      <4>2. \A q \in Ops : q > o => ~Of(q, j, "upload")'
        BY <1>1, <1>2, NoneIsNot DEF Of
      <4> QED  BY <1>1, <4>1, <4>2 DEF LastUpload
    <3> QED  BY <2>5, <3>1, <3>2
  <2> QED  BY <2>3, <2>4, <2>5
<1>18. StartsOwnUpload'
  <2> SUFFICES ASSUME NEW x \in Ops, status'[x] # "none", link'[x].kind = "start"
               PROVE  LET u == link'[x].source IN
                      /\ u # None /\ status'[u] = "succeeded" /\ link'[u].kind = "upload"
                      /\ link'[u].job = link'[x].job
                      /\ \A q \in Ops : u < q /\ q < x => link'[q].kind # "upload" \/ link'[q].job # link'[x].job
    BY DEF StartsOwnUpload
  <2> DEFINE u == link'[x].source
  <2>1. x <= o
    BY <1>2 DEF Used
  <2>2. /\ u \in Ops \ {o} /\ status[u] = "succeeded" /\ link[u].kind = "upload" /\ link[u].job = link'[x].job
        /\ \A q \in Ops : u < q /\ q < x => link[q].kind # "upload" \/ link[q].job # link'[x].job
    <3>1. CASE x = o
      <4>1. cmd[c].kind = "start" /\ u = job[j].upload /\ u # None /\ job[j].state = "awaitingStart" /\ link'[x].job = j
        BY <1>1, <3>1 DEF HandsOff, Controls, OperationsInv, Locked
      <4>2. LastUpload(u, j) /\ status[u] = "succeeded"
        BY <1>1, <4>1 DEF OperationsInv, Staged
      <4>3. u \in Ops /\ Of(u, j, "upload") /\ u # o
        BY <1>1, <1>2, <4>2, NoneIsNot DEF LastUpload, Of
      <4>4. \A q \in Ops : u < q /\ q < o => link[q].kind # "upload" \/ link[q].job # j
        <5>1. ASSUME NEW q \in Ops, u < q, q < o  PROVE link[q].kind # "upload" \/ link[q].job # j
          <6>1. Used(q) /\ q > u
            BY <1>2, <4>3, <5>1, NoneIsNot
          <6> QED  BY <4>2, <6>1 DEF LastUpload, Of
        <5> QED  BY <5>1
      <4> QED  BY <3>1, <4>1, <4>2, <4>3, <4>4 DEF Of
    <3>2. CASE x # o
      <4>1. status[x] # "none" /\ link[x].kind = "start" /\ link'[x] = link[x]
        BY <1>3, <3>2
      <4>2. u # None /\ u \in OpIds
        BY <4>1, Types DEF OperationsInv, StartsOwnUpload, Link
      <4>3. status[u] = "succeeded" /\ u \in Ops
        BY <4>1, <4>2 DEF OperationsInv, StartsOwnUpload, OpIds
      <4>4. u # o
        BY <4>3 DEF HandsOff
      <4> QED  BY <4>1, <4>3, <4>4 DEF OperationsInv, StartsOwnUpload
    <3> QED  BY <3>1, <3>2
  <2>3. link'[u] = link[u] /\ status'[u] = status[u]
    BY <1>3, <2>2
  <2>4. \A q \in Ops : u < q /\ q < x => link'[q] = link[q]
    BY <1>1, <1>3, <2>1, <2>2, NoneIsNot
  <2> HIDE DEF u
  <2>5. u # None
    BY <2>2, NoneIsNot
  <2>6. link'[x].source = u
    BY DEF u
  <2> QED  BY <2>2, <2>3, <2>4, <2>5, <2>6
<1> QED  BY <1>7, <1>8, <1>9, <1>10, <1>11, <1>15, <1>17, <1>18 DEF OperationsInv

LEMMA OperationsInit == Init => OperationsInv
<1> SUFFICES ASSUME Init  PROVE OperationsInv
  OBVIOUS
<1>1. \A o \in Ops : status[o] = "none" /\ effect[o] = "unsent" /\ link[o].job = None
  BY DEF Init, W!Init
<1>2. \A c \in Callers : cmd[c] = NoCmd
  BY DEF Init
<1>3. \A c \in Callers : ~Asking(c) /\ ~Checked(c)
  <2>1. NoCmd.pc = "idle"
    BY DEF NoCmd
  <2> QED  BY <1>2, <2>1 DEF Asking, Checked
<1>4. \A j \in Jobs : job[j].state = "absent" /\ job[j].upload = None /\ job[j].start = None
  <2>1. PICK p \in Printers : job = [j \in Jobs |-> NoJob(p)]
    BY DEF Init
  <2> QED  BY <2>1 DEF NoJob
<1>5. Numbered /\ OpenIsLast /\ FailedDidNothing /\ LinkedOps /\ StartsOwnUpload
  BY <1>1 DEF Numbered, OpenIsLast, FailedDidNothing, LinkedOps, StartsOwnUpload, Used
<1>6. Locked
  BY <1>3 DEF Locked
<1>7. StartStands /\ Staged
  BY <1>1, <1>4 DEF StartStands, Staged, Of, Used, OnHost
<1> QED  BY <1>5, <1>6, <1>7 DEF OperationsInv

LEMMA OperationsNext == MaterialInv /\ OperationsInv /\ [Next]_vars => OperationsInv'
<1> SUFFICES ASSUME MaterialInv, OperationsInv, [Next]_vars  PROVE OperationsInv'
  OBVIOUS
<1>1. CASE StepFits
  BY <1>1, NumberedFits, LockedFits, LinkedFits, StartStandsFits, StagedFits, OwnUploadFits DEF OperationsInv
<1>2. ASSUME NEW c \in Callers, Commit(c)  PROVE OperationsInv'
  BY <1>2, CommitHandsOff, HandOffOperations
<1> QED  BY <1>1, <1>2, StepsFit

LEMMA OperationsAlways == Spec => [](MaterialInv /\ OperationsInv)
<1>1. Init => MaterialInv /\ OperationsInv
  BY MaterialInit, OperationsInit
<1>2. (MaterialInv /\ OperationsInv) /\ [Next]_vars => (MaterialInv /\ OperationsInv)'
  BY MaterialNext, OperationsNext
<1> QED  BY <1>1, <1>2, PTL DEF Spec

\* An open operation is the one its Job waits for, in a state that understands its
\* outcome (dispatch.rs links them in one transaction; nothing else moves such a Job).
THEOREM JobsLinkedOps == Spec => []LinkedOps
<1>1. MaterialInv /\ OperationsInv => LinkedOps
  BY DEF OperationsInv
<1> QED  BY <1>1, OperationsAlways, PTL

(***************************************************************************)
(* What the hosts' histories say of the operations.                        *)
(***************************************************************************)
\* A print stays what it is, and for good once it has ended.
LEMMA PrintSteps ==
  ASSUME MaterialInv, NEW e \in Endpoints, PrintsFit(e), NEW i \in 1..Len(Prints(e)), MaterialInv'
  PROVE  /\ i \in 1..Len(Prints(e)')
         /\ Prints(e)'[i].file = Prints(e)[i].file /\ Prints(e)'[i].by = Prints(e)[i].by
         /\ Prints(e)'[i].late = Prints(e)[i].late
         /\ Prints(e)[i].status # "running" => Prints(e)'[i] = Prints(e)[i]
<1>1. Len(Prints(e)) \in Nat
  BY Types
<1>2. Len(Prints(e)') \in Nat
  <2>1. Prints(e)' \in History
    BY DEF MaterialInv, TypeOK, Host, Prints
  <2> QED  BY <2>1, HistorySeq
<1> QED  BY <1>1, <1>2 DEF PrintsFit

LEMMA PrintTyped ==
  ASSUME NEW h \in History, NEW i \in 1..Len(h)
  PROVE  h[i] \in PrintRow /\ h[i].by \in Ops \cup {None} /\ h[i].ender \in Ops \cup {None}
<1>1. h[i] \in PrintRow
  BY HistorySeq, ElementOfSeq
<1> QED  BY <1>1 DEF PrintRow, OpIds

LEMMA HistoryTyped ==
  /\ MaterialInv => \A e \in Endpoints : Prints(e) \in History
  /\ MaterialInv' => \A e \in Endpoints : Prints(e)' \in History
BY DEF MaterialInv, TypeOK, Host, Prints

LEMMA MadeFits ==
  ASSUME MaterialInv, MaterialInv', OperationsInv, PrintsInv, StepFits
  PROVE  MadeByEffects'
<1>1. ASSUME NEW o \in Ops, Used(o)
      PROVE  /\ Used(o)' /\ link'[o].kind = link[o].kind /\ link'[o].conn = link[o].conn
             /\ effect[o] = "happened" => effect'[o] = "happened"
  <2>1. OpFits(o)
    BY DEF StepFits
  <2> QED  BY <1>1, <2>1, OpSteps DEF OpFits
<1>2. ASSUME NEW e \in Endpoints, NEW i \in 1..Len(Prints(e)'), NEW o \in Ops
      PROVE  /\ Prints(e)'[i].by = o => /\ Used(o)' /\ effect'[o] = "happened"
                                        /\ link'[o].kind = "start" /\ link'[o].conn = e
             /\ Prints(e)'[i].ender = o => Used(o)' /\ effect'[o] = "happened"
  <2>1. o # None /\ PrintsFit(e)
    BY NoneIsNot DEF StepFits
  <2>2. CASE i \in 1..Len(Prints(e))
    <3> DEFINE print == Prints(e)[i]
    <3>1. /\ print.by = o => /\ Used(o) /\ effect[o] = "happened" /\ link[o].kind = "start" /\ link[o].conn = e
          /\ print.ender = o => Used(o) /\ effect[o] = "happened"
      BY <2>1, <2>2 DEF PrintsInv, MadeByEffects
    <3>2. Prints(e)'[i].by = print.by
      BY <2>1, <2>2, PrintSteps
    <3>3. \/ Prints(e)'[i] = print
          \/ Prints(e)'[i].ender = o => Used(o) /\ effect'[o] = "happened"
      BY <2>1, <2>2 DEF PrintsFit
    <3> HIDE DEF print
    <3> QED  BY <1>1, <3>1, <3>2, <3>3 DEF print
  <2>3. CASE i \notin 1..Len(Prints(e))
    <3>1. i > Len(Prints(e))
      BY <2>3, HistoryTyped, HistorySeq
    <3>2. /\ Prints(e)'[i].ender # o
          /\ Prints(e)'[i].by = o => Used(o) /\ link[o].kind = "start" /\ link[o].conn = e /\ effect'[o] = "happened"
      BY <2>1, <3>1 DEF PrintsFit
    <3> QED  BY <1>1, <3>2
  <2> QED  BY <2>2, <2>3
<1>3. ASSUME NEW e \in Endpoints, NEW i \in 1..Len(Prints(e)')
      PROVE  Prints(e)'[i].by \in Ops \cup {None} /\ Prints(e)'[i].ender \in Ops \cup {None}
  BY HistoryTyped, PrintTyped
<1> QED  BY <1>2, <1>3 DEF MadeByEffects, Used

\* A history read grows old, and stays true.
LEMMA PollFitsTrue ==
  ASSUME MaterialInv, MaterialInv', PrintsInv, StepFits
  PROVE  PollTrue'
<1>1. poll \in Poll /\ poll.conn \in Endpoints /\ poll' \in Poll /\ poll'.conn \in Endpoints
  BY DEF MaterialInv, TypeOK, Poll
<1>2. CASE poll' = poll
  <2> DEFINE e == poll.conn
             page == poll.page
  <2>1. /\ Len(page) <= Len(Prints(e))
        /\ \A i \in 1..Len(page) :
             /\ page[i].file = Prints(e)[i].file /\ page[i].by = Prints(e)[i].by /\ page[i].late = Prints(e)[i].late
             /\ page[i].status # "running" => page[i] = Prints(e)[i]
    BY DEF PrintsInv, PollTrue, StillTrue
  <2>2. PollTrue' <=>
          /\ Len(page) <= Len(host'[e].prints)
          /\ \A i \in 1..Len(page) :
               /\ page[i].file = host'[e].prints[i].file /\ page[i].by = host'[e].prints[i].by
               /\ page[i].late = host'[e].prints[i].late
               /\ page[i].status # "running" => page[i] = host'[e].prints[i]
    BY <1>2, Zenon DEF PollTrue, StillTrue, Prints
  <2>3. e \in Endpoints
    BY <1>1
  <2>4. Len(page) \in Nat /\ Len(Prints(e)) \in Nat /\ Len(host'[e].prints) \in Nat
    <3>1. page \in History /\ Prints(e) \in History
      BY <1>1, HistoryTyped DEF Poll
    <3>2. host'[e].prints \in History
      BY <1>1, HistoryTyped DEF Prints
    <3> QED  BY <3>1, <3>2, HistorySeq
  <2> HIDE DEF e, page
  <2>5. \A i \in 1..Len(Prints(e)) : LET g == host'[e].prints IN
           /\ i \in 1..Len(g) /\ g[i].file = Prints(e)[i].file /\ g[i].by = Prints(e)[i].by
           /\ g[i].late = Prints(e)[i].late
           /\ Prints(e)[i].status # "running" => g[i] = Prints(e)[i]
    <3>1. ASSUME NEW x \in Endpoints, x = e, NEW i \in 1..Len(Prints(x))
          PROVE  LET g == host'[x].prints IN
           /\ i \in 1..Len(g) /\ g[i].file = Prints(x)[i].file /\ g[i].by = Prints(x)[i].by
           /\ g[i].late = Prints(x)[i].late
           /\ Prints(x)[i].status # "running" => g[i] = Prints(x)[i]
      <4>1. PrintsFit(x) /\ Prints(x)' = host'[x].prints
        BY DEF StepFits, Prints
      <4> QED  BY <4>1, PrintSteps
    <3> QED  BY <2>3, <3>1
  <2>6. \A i \in 1..Len(page) : i \in 1..Len(Prints(e))
    BY <2>1, <2>4
  <2>7. Len(page) <= Len(host'[e].prints)
    <3>1. CASE Len(Prints(e)) = 0
      BY <2>1, <2>4, <3>1
    <3>2. CASE Len(Prints(e)) # 0
      <4>1. Len(Prints(e)) \in 1..Len(Prints(e))
        BY <2>4, <3>2
      <4> QED  BY <2>1, <2>4, <2>5, <4>1
    <3> QED  BY <3>1, <3>2
  <2> QED  BY <2>1, <2>2, <2>5, <2>6, <2>7
<1>3. CASE poll'.page = <<>>
  <2>1. PollTrue' <=> StillTrue(<<>>, host'[poll'.conn].prints)
    BY <1>3, Zenon DEF PollTrue, Prints, StillTrue
  <2>2. host'[poll'.conn].prints \in History
    BY <1>1, HistoryTyped DEF Prints
  <2>3. Len(host'[poll'.conn].prints) \in Nat
    BY <2>2, HistorySeq
  <2> QED  BY <2>1, <2>3 DEF StillTrue
<1>4. CASE UNCHANGED host /\ poll'.page = Prints(poll'.conn)
  <2> DEFINE h == host[poll'.conn].prints
  <2>1. PollTrue' <=> StillTrue(h, h)
    BY <1>4, Zenon DEF PollTrue, Prints, StillTrue
  <2>2. h \in History
    BY <1>1, HistoryTyped DEF Prints
  <2>3. Len(h) \in Nat
    BY <2>2, HistorySeq
  <2> HIDE DEF h
  <2> QED  BY <2>1, <2>3 DEF StillTrue
<1> QED  BY <1>2, <1>3, <1>4 DEF StepFits, PollFits

\* What a Job is tracked by is a print of the host its start went to.
LEMMA PinOfRow ==
  ASSUME MaterialInv, OperationsInv, PrintsInv, NEW j \in Jobs, job[j].pin # 0
  PROVE  /\ job[j].start \in Ops /\ Used(job[j].start) /\ link[job[j].start].conn \in Endpoints
         /\ job[j].pin \in 1..Len(Prints(link[job[j].start].conn))
         /\ job[j].state \notin Back \cup {"starting"}
<1>1. job[j] \in Job
  BY RowOf
<1>2. job[j].start \in Ops /\ Used(job[j].start)
  BY <1>1 DEF PrintsInv, PinFits, OperationsInv, StartStands, Of, Job, OpIds
<1>3. link[job[j].start].conn \in Endpoints
  BY <1>2, Types DEF Link
<1>4. Prints(link[job[j].start].conn) \in History /\ job[j].pin \in 0..MaxPrints
  BY <1>1, <1>3, HistoryTyped DEF Job
<1>5. Len(Prints(link[job[j].start].conn)) \in Nat
  BY <1>4, HistorySeq
<1> QED  BY <1>2, <1>3, <1>4, <1>5, JobBoundsAssumption DEF PrintsInv, PinFits, PinOn

\* What a history read newly shows of a Job is so.
LEMMA ReadIsTrue ==
  ASSUME MaterialInv, OperationsInv, PrintsInv, NEW j \in Jobs, NEW s, Reads(job[j], s, j), s.pin # 0
  PROVE  /\ job[j].start \in Ops /\ Used(job[j].start) /\ link[job[j].start].conn \in Endpoints
         /\ s.pin \in 1..Len(Prints(link[job[j].start].conn))
         /\ s.state \in Terminal => Prints(link[job[j].start].conn)[s.pin].status = s.state
<1> DEFINE o == job[j].start
           e == link[o].conn
<1>1. job[j] \in Job /\ job[j].state \in OnHost /\ poll \in Poll
  BY RowOf, Types DEF Reads
<1>2. o \in Ops /\ Used(o)
  BY <1>1 DEF OperationsInv, StartStands, Of, Job, OpIds
<1>3. e \in Endpoints
  BY <1>2, Types DEF Link
<1>4. poll.page \in History /\ Prints(e) \in History
  BY <1>1, <1>3, HistoryTyped DEF Poll
<1>5. Len(poll.page) \in Nat /\ Len(Prints(e)) \in Nat
  BY <1>4, HistorySeq
<1>6. s.pin \in 1..Len(Prints(e))
  <2>1. CASE s.pin = job[j].pin
    BY <2>1, PinOfRow
  <2>2. CASE poll.conn = e /\ s.pin \in 1..Len(poll.page)
    BY <1>5, <2>2 DEF PrintsInv, PollTrue, StillTrue
  <2> QED  BY <2>1, <2>2 DEF Reads
<1>7. ASSUME s.state \in Terminal  PROVE Prints(e)[s.pin].status = s.state
  <2>1. poll.conn = e /\ s.pin \in 1..Len(poll.page) /\ poll.page[s.pin].status = s.state
    BY <1>5, <1>6, <1>7 DEF Reads, ReadsStatus
  <2> QED  BY <1>7, <2>1 DEF PrintsInv, PollTrue, StillTrue, Terminal
<1> QED  BY <1>2, <1>3, <1>6, <1>7

\* After a step that fits, a Job that is tracked by a print was started by the same
\* operation before, and the print was there.
LEMMA PinSteps ==
  ASSUME MaterialInv, OperationsInv, PrintsInv, StepFits, NEW j \in Jobs, job'[j].pin # 0
  PROVE  /\ job'[j].start = job[j].start /\ job'[j].state \notin Back \cup {"starting"}
         /\ job[j].start \in Ops /\ Used(job[j].start)
         /\ link[job[j].start].conn \in Endpoints /\ link'[job[j].start].conn = link[job[j].start].conn
         /\ job'[j].pin \in 1..Len(Prints(link[job[j].start].conn))
         /\ job'[j].pin = job[j].pin \/ Reads(job[j], job'[j], j)
<1> DEFINE r == job[j]
           s == job'[j]
<1>1. RowFits(j) /\ ~Assigned(j)
  BY DEF StepFits, Assigned
<1>2. s.start = r.start /\ (s.pin = r.pin \/ Reads(r, s, j))
  BY <1>1 DEF RowFits, Minor, Drops, Tracks, Reads, Answers, SameLinks
<1>3. /\ r.start \in Ops /\ Used(r.start) /\ link[r.start].conn \in Endpoints
      /\ s.pin \in 1..Len(Prints(link[r.start].conn))
  BY <1>2, PinOfRow, ReadIsTrue
<1>4. link'[r.start].conn = link[r.start].conn
  BY <1>3, OpSteps DEF StepFits
<1>5. s.state \notin Back \cup {"starting"}
  <2>1. CASE s.pin = r.pin
    <3>1. r.state \notin Back \cup {"starting"}
      BY <2>1, PinOfRow
    <3>2. CASE Minor(r, s)
      BY <3>1, <3>2 DEF Minor
    <3>3. CASE Drops(r, s)
      BY <3>1, <3>3 DEF Drops, Back, BeforeStart
    <3>4. CASE Tracks(r, s) \/ Reads(r, s, j)
      BY <3>4 DEF Tracks, Reads, OnHost, Terminal, Back
    <3>5. CASE Answers(r, s)
      BY <3>1, <3>5 DEF Answers, OnHost, Back
    <3> QED  BY <1>1, <3>2, <3>3, <3>4, <3>5 DEF RowFits
  <2>2. CASE Reads(r, s, j)
    BY <2>2 DEF Reads, OnHost, Terminal, Back
  <2> QED  BY <1>2, <2>1, <2>2
<1> QED  BY <1>2, <1>3, <1>4, <1>5

LEMMA PinFitsFits ==
  ASSUME MaterialInv, MaterialInv', OperationsInv, PrintsInv, StepFits
  PROVE  PinFits'
<1> SUFFICES ASSUME NEW j \in Jobs, job'[j].pin # 0
             PROVE  /\ job'[j].start # None /\ job'[j].state \notin Back \cup {"starting"}
                    /\ job'[j].pin <= Len(host'[link'[job'[j].start].conn].prints)
  BY Zenon DEF PinFits, PinOn, Prints
<1> DEFINE e == link[job[j].start].conn
<1>1. /\ job'[j].start = job[j].start /\ job'[j].state \notin Back \cup {"starting"}
      /\ job[j].start \in Ops /\ e \in Endpoints /\ link'[job[j].start].conn = e
      /\ job'[j].pin \in 1..Len(Prints(e))
  BY PinSteps
<1>2. job'[j].pin \in 1..Len(host'[e].prints)
  <2>1. ASSUME NEW x \in Endpoints, NEW i \in 1..Len(Prints(x))  PROVE i \in 1..Len(host'[x].prints)
    <3>1. PrintsFit(x) /\ Prints(x)' = host'[x].prints
      BY DEF StepFits, Prints
    <3> QED  BY <3>1, PrintSteps
  <2> QED  BY <1>1, <2>1
<1>3. Len(host'[e].prints) \in Nat
  <2>1. host'[e].prints \in History
    BY <1>1, HistoryTyped DEF Prints
  <2> QED  BY <2>1, HistorySeq
<1> QED  BY <1>1, <1>2, <1>3, NoneIsNot

\* A Job that was cancelled at the host: its print ended so, and no cancel of its own did that.
LEMMA CancelledFits ==
  ASSUME MaterialInv, MaterialInv', OperationsInv, PrintsInv, StepFits
  PROVE  CancelledThere' /\ CancelReasonTrue'
<1> SUFFICES ASSUME NEW j \in Jobs, job'[j].state = "cancelled", job'[j].reason = "host"
             PROVE  LET print == host'[link'[job'[j].start].conn].prints[job'[j].pin] IN
                    /\ job'[j].pin # 0 /\ print.status = "cancelled"
                    /\ print.ender = None \/ link'[print.ender].job # j \/ link'[print.ender].kind # "cancel"
  BY Zenon DEF CancelledThere, CancelReasonTrue, PinnedPrint, Prints
<1> DEFINE r == job[j]
           s == job'[j]
           e == link[r.start].conn
           print == Prints(e)[s.pin]
<1>1. RowFits(j) /\ r \in Job
  BY RowOf DEF StepFits
<1>2. \/ r.state = "cancelled" /\ r.reason = "host" /\ s.pin = r.pin
      \/ Reads(r, s, j)
  <2>1. CASE Minor(r, s)
    BY <2>1 DEF Minor
  <2>2. CASE Assigned(j) \/ Drops(r, s) \/ Tracks(r, s)
    BY <2>2 DEF Assigned, Drops, Tracks
  <2>3. CASE Answers(r, s)
    BY <2>3 DEF Answers, OnHost
  <2> QED  BY <1>1, <2>1, <2>2, <2>3 DEF RowFits
<1>3. ASSUME NEW o \in Ops, Used(o)  PROVE link'[o].job = link[o].job /\ link'[o].kind = link[o].kind
  BY <1>3, OpSteps DEF StepFits
<1>4. s.pin # 0 /\ print.status = "cancelled"
      /\ (print.ender = None \/ link[print.ender].job # j \/ link[print.ender].kind # "cancel")
  <2>1. CASE r.state = "cancelled" /\ r.reason = "host" /\ s.pin = r.pin
    BY <2>1 DEF PrintsInv, CancelledThere, CancelReasonTrue, PinnedPrint
  <2>2. CASE Reads(r, s, j)
    <3>1. s.pin # 0 /\ CancelReason(j) = "host"
      BY <2>2 DEF Reads, ReadsStatus, Terminal
    <3>2. /\ e \in Endpoints /\ s.pin \in 1..Len(Prints(e)) /\ print.status = "cancelled"
      BY <2>2, <3>1, ReadIsTrue DEF Terminal
    <3>3. ASSUME NEW o \in Ops, print.ender = o  PROVE link[o].job # j \/ link[o].kind # "cancel"
      <4>1. Used(o) /\ effect[o] = "happened"
        BY <3>2, <3>3, NoneIsNot DEF PrintsInv, MadeByEffects
      <4>2. status[o] = "failed" => link[o].kind = "upload"
        BY <4>1 DEF OperationsInv, FailedDidNothing
      <4> QED  BY <3>1, <4>1, <4>2 DEF CancelReason, Used
    <3>4. print.ender \in Ops \cup {None}
      BY <3>2, HistoryTyped, PrintTyped
    <3> QED  BY <3>1, <3>2, <3>3, <3>4
  <2> QED  BY <1>2, <2>1, <2>2
<1>5. s.start = r.start /\ link'[r.start].conn = e /\ e \in Endpoints /\ s.pin \in 1..Len(Prints(e))
  BY <1>4, PinSteps
<1>6. host'[e].prints[s.pin] = print
  <2>1. ASSUME NEW x \in Endpoints, NEW i \in 1..Len(Prints(x)), Prints(x)[i].status # "running"
        PROVE  host'[x].prints[i] = Prints(x)[i]
    <3>1. PrintsFit(x) /\ Prints(x)' = host'[x].prints
      BY DEF StepFits, Prints
    <3> QED  BY <2>1, <3>1, PrintSteps
  <2> QED  BY <1>4, <1>5, <2>1
<1>7. print.ender \in Ops \cup {None} /\ \A o \in Ops : print.ender = o => Used(o)
  <2>1. print.ender \in Ops \cup {None}
    BY <1>5, HistoryTyped, PrintTyped
  <2> QED  BY <1>5, <2>1, NoneIsNot DEF PrintsInv, MadeByEffects
<1> HIDE DEF print, s
<1>8. print.ender = None \/ link'[print.ender].job # j \/ link'[print.ender].kind # "cancel"
  BY <1>3, <1>4, <1>7
<1> QED  BY <1>4, <1>5, <1>6, <1>8 DEF s

LEMMA HandOffPrints ==
  ASSUME MaterialInv, OperationsInv, PrintsInv, NEW c \in Callers, NEW o, NEW j, HandsOff(c, o, j)
  PROVE  PrintsInv'
<1>1. o \in Ops /\ ~Used(o) /\ UNCHANGED <<poll, host>>
  BY NoneIsNot DEF HandsOff, Used
<1>2. ASSUME NEW q \in Ops, Used(q)
      PROVE  q # o /\ status'[q] = status[q] /\ effect'[q] = effect[q] /\ link'[q] = link[q]
  BY <1>1, <1>2 DEF HandsOff
<1>3. ASSUME NEW e \in Endpoints, NEW i \in 1..Len(Prints(e))
      PROVE  /\ Prints(e)[i].by \in Ops \cup {None} /\ (Prints(e)[i].by # None => Used(Prints(e)[i].by))
             /\ Prints(e)[i].ender \in Ops \cup {None} /\ (Prints(e)[i].ender # None => Used(Prints(e)[i].ender))
  BY HistoryTyped, PrintTyped DEF PrintsInv, MadeByEffects
<1>4. MadeByEffects'
  <2> SUFFICES ASSUME NEW e \in Endpoints, NEW i \in 1..Len(Prints(e))
               PROVE  LET print == Prints(e)[i] IN
                      /\ print.by # None => /\ status'[print.by] # "none" /\ effect'[print.by] = "happened"
                                            /\ link'[print.by].kind = "start" /\ link'[print.by].conn = e
                      /\ print.ender # None => status'[print.ender] # "none" /\ effect'[print.ender] = "happened"
    BY <1>1 DEF MadeByEffects, Used, Prints
  <2> QED  BY <1>2, <1>3 DEF PrintsInv, MadeByEffects, Used
<1>5. PollTrue'
  BY <1>1 DEF PrintsInv, PollTrue, Prints
<1>6. ASSUME NEW i \in Jobs, job[i].pin # 0 \/ job'[i].pin # 0
      PROVE  /\ job'[i].pin = job[i].pin /\ job'[i].start = job[i].start /\ job'[i].state = job[i].state
             /\ job'[i].reason = job[i].reason
             /\ job[i].start \in Ops /\ link'[job[i].start] = link[job[i].start]
             /\ link[job[i].start].conn \in Endpoints /\ job[i].pin \in 1..Len(Prints(link[job[i].start].conn))
  <2>1. job'[i].pin = job[i].pin /\ job[i].pin # 0
    BY <1>6 DEF HandsOff
  <2>2. /\ job[i].start \in Ops /\ Used(job[i].start) /\ job[i].state \notin Back \cup {"starting"}
        /\ link[job[i].start].conn \in Endpoints /\ job[i].pin \in 1..Len(Prints(link[job[i].start].conn))
    BY <2>1, PinOfRow
  <2>3. job'[i].start = job[i].start /\ job'[i].state = job[i].state /\ job'[i].reason = job[i].reason
    BY <2>2 DEF HandsOff, Back, BeforeStart, Controls
  <2> QED  BY <1>2, <2>1, <2>2, <2>3
<1>7. PinFits'
  <2> SUFFICES ASSUME NEW i \in Jobs, job'[i].pin # 0
               PROVE  /\ job'[i].start # None /\ job'[i].state \notin Back \cup {"starting"}
                      /\ job'[i].pin <= Len(host[link'[job'[i].start].conn].prints)
    BY <1>1, Zenon DEF PinFits, PinOn, Prints
  <2> QED  BY <1>6 DEF PrintsInv, PinFits, PinOn, Prints
<1>8. CancelledThere' /\ CancelReasonTrue'
  <2> SUFFICES ASSUME NEW i \in Jobs, job'[i].state = "cancelled", job'[i].reason = "host"
               PROVE  LET print == host[link'[job'[i].start].conn].prints[job'[i].pin] IN
                      /\ job'[i].pin # 0 /\ print.status = "cancelled"
                      /\ print.ender = None \/ link'[print.ender].job # i \/ link'[print.ender].kind # "cancel"
    BY <1>1, Zenon DEF CancelledThere, CancelReasonTrue, PinnedPrint, Prints
  <2>1. job'[i] = job[i]
    BY DEF HandsOff, OnHost
  <2>2. /\ job[i].pin # 0 /\ PinnedPrint(i).status = "cancelled"
        /\ LET ender == PinnedPrint(i).ender IN ender = None \/ link[ender].job # i \/ link[ender].kind # "cancel"
    BY <2>1 DEF PrintsInv, CancelledThere, CancelReasonTrue, PinnedPrint
  <2>3. /\ link'[job[i].start] = link[job[i].start]
        /\ PinnedPrint(i).ender = None \/ link'[PinnedPrint(i).ender] = link[PinnedPrint(i).ender]
    BY <1>2, <1>3, <1>6, <2>2 DEF PinnedPrint
  <2>4. host[link'[job'[i].start].conn].prints[job'[i].pin] = PinnedPrint(i)
    BY <2>1, <2>3 DEF PinnedPrint, Prints
  <2> QED  BY <2>1, <2>2, <2>3, <2>4
<1> QED  BY <1>4, <1>5, <1>7, <1>8 DEF PrintsInv

LEMMA PrintsInit == Init => PrintsInv
<1> SUFFICES ASSUME Init  PROVE PrintsInv
  OBVIOUS
<1>1. MaterialInv
  BY MaterialInit
<1>2. \A j \in Jobs : job[j].state = "absent" /\ job[j].pin = 0
  <2>1. PICK p \in Printers : job = [j \in Jobs |-> NoJob(p)]
    BY DEF Init
  <2> QED  BY <2>1 DEF NoJob
<1>3. ASSUME NEW e \in Endpoints  PROVE Prints(e) = <<>> \/ Prints(e) = <<Earlier>>
  BY DEF Init, Prints
<1>4. MadeByEffects
  <2>1. ASSUME NEW e \in Endpoints, NEW i \in 1..Len(Prints(e))
        PROVE  Prints(e)[i].by = None /\ Prints(e)[i].ender = None
    <3>1. Len(<<>>) = 0 /\ Len(<<Earlier>>) = 1 /\ <<Earlier>>[1] = Earlier
      BY DEF Earlier
    <3>2. Prints(e) # <<>>
      BY <3>1
    <3>3. Prints(e) = <<Earlier>>
      BY <1>3, <3>2
    <3>4. Len(Prints(e)) = 1 /\ Prints(e)[1] = Earlier
      BY <3>1, <3>3, Zenon
    <3>5. i = 1
      BY <3>4
    <3> QED  BY <3>4, <3>5 DEF Earlier
  <2> QED  BY <2>1 DEF MadeByEffects
<1>5. PollTrue
  <2>1. poll.page = <<>> /\ poll.conn \in Endpoints
    BY <1>1 DEF Init, NoPoll, MaterialInv, TypeOK, Poll
  <2>2. Prints(poll.conn) \in History
    BY <1>1, <2>1, HistoryTyped
  <2>3. Len(Prints(poll.conn)) \in Nat
    BY <2>2, HistorySeq
  <2> QED  BY <2>1, <2>3 DEF PollTrue, StillTrue
<1> QED  BY <1>2, <1>4, <1>5 DEF PrintsInv, PinFits, CancelledThere, CancelReasonTrue

LEMMA PrintsNext ==
  (MaterialInv /\ OperationsInv /\ PrintsInv) /\ [Next]_vars => PrintsInv'
<1> SUFFICES ASSUME MaterialInv, OperationsInv, PrintsInv, [Next]_vars  PROVE PrintsInv'
  OBVIOUS
<1>1. MaterialInv'
  BY MaterialNext
<1>2. CASE StepFits
  BY <1>1, <1>2, MadeFits, PollFitsTrue, PinFitsFits, CancelledFits DEF PrintsInv
<1>3. ASSUME NEW c \in Callers, Commit(c)  PROVE PrintsInv'
  BY <1>3, CommitHandsOff, HandOffPrints
<1> QED  BY <1>2, <1>3, StepsFit

LEMMA PrintsAlways == Spec => [](MaterialInv /\ OperationsInv /\ PrintsInv)
<1>1. Init => MaterialInv /\ OperationsInv /\ PrintsInv
  BY MaterialInit, OperationsInit, PrintsInit
<1>2. (MaterialInv /\ OperationsInv /\ PrintsInv) /\ [Next]_vars => (MaterialInv /\ OperationsInv /\ PrintsInv)'
  BY MaterialNext, OperationsNext, PrintsNext
<1> QED  BY <1>1, <1>2, PTL DEF Spec

\* A print that one of a Job's own starts made is never forgotten: a start that took
\* effect did not fail, and stands as the Job's start (dispatch.rs start_job, event_for).
THEOREM JobsPrintsAccounted == Spec => []PrintsAccounted
<1>1. MaterialInv /\ OperationsInv /\ PrintsInv => PrintsAccounted
  <2> SUFFICES ASSUME MaterialInv, OperationsInv, PrintsInv, NEW e \in Endpoints, NEW j \in Jobs,
                      NEW i \in PrintsBy(e, j)
               PROVE  job[j].state \notin Back /\ job[j].settlement # "notRequired"
    BY DEF PrintsAccounted, Back
  <2> DEFINE o == Prints(e)[i].by
  <2>1. i \in 1..Len(Prints(e)) /\ o # None /\ StartOf(o, j)
    BY DEF PrintsBy
  <2>2. effect[o] = "happened" /\ o \in Ops
    BY <2>1, HistoryTyped, PrintTyped DEF PrintsInv, MadeByEffects
  <2> HIDE DEF o
  <2>3. Of(o, j, "start") /\ status[o] # "failed"
    BY <2>1, <2>2 DEF StartOf, Of, Used, OperationsInv, FailedDidNothing
  <2> QED  BY <2>2, <2>3 DEF OperationsInv, StartStands
<1> QED  BY <1>1, PrintsAlways, PTL

\* A Job that is said to have been cancelled at the host was not cancelled by an operation
\* of its own: one that did was sent, so it did not fail (tracker.rs cancel_reason).
THEOREM JobsCancelReasonTrue == Spec => []CancelReasonTrue
<1>1. MaterialInv /\ OperationsInv /\ PrintsInv => CancelReasonTrue
  BY DEF PrintsInv
<1> QED  BY <1>1, PrintsAlways, PTL

(***************************************************************************)
(* Which prints a Job can be tracked by.                                   *)
(***************************************************************************)
\* No step but an assignment makes a Job active, and only reading a history pins a print.
LEMMA ActiveSteps ==
  ASSUME NEW j \in Jobs, RowFits(j), ~Assigned(j)
  PROVE  /\ Active(j)' => Active(j)
         /\ job'[j].start = job[j].start /\ job'[j].printer = job[j].printer
         /\ job'[j].pin = job[j].pin \/ Reads(job[j], job'[j], j)
         /\ Reads(job[j], job'[j], j) => Active(j) /\ job[j].state \in OnHost
BY DEF RowFits, Minor, Drops, Tracks, Reads, Answers, SameLinks, Active, OnHost, Terminal, BeforeStart

LEMMA OneActiveFits ==
  ASSUME MaterialInv, PinsInv, StepFits
  PROVE  OneActive'
<1> SUFFICES ASSUME NEW i \in Jobs, NEW j \in Jobs, Active(i)', Active(j)', job'[i].printer = job'[j].printer
             PROVE  i = j
  BY DEF OneActive
<1>1. \A k \in Jobs : Assigned(k) \/ (Active(k)' => Active(k) /\ job'[k].printer = job[k].printer)
  BY ActiveSteps, RowSteps DEF StepFits, Active
<1>2. ASSUME NEW k \in Jobs, NEW x \in Jobs, Assigned(k), Active(x)', x # k, job'[x].printer = job'[k].printer
      PROVE  FALSE
  BY <1>2 DEF Assigned, Active
<1> QED  BY <1>1, <1>2 DEF PinsInv, OneActive

LEMMA NewestStartFits ==
  ASSUME MaterialInv, OperationsInv, PinsInv, StepFits
  PROVE  NewestStart'
<1> SUFFICES ASSUME NEW j \in Jobs, NEW q \in Ops, Active(j)', job'[j].start # None,
                    Used(q)', link'[q].kind = "start", owner'[q] = job'[j].printer
             PROVE  q <= job'[j].start
  BY DEF NewestStart
<1>1. RowFits(j) /\ ~Assigned(j)
  BY DEF StepFits, Assigned
<1>2. Active(j) /\ job'[j].start = job[j].start /\ job'[j].printer = job[j].printer
  BY <1>1, ActiveSteps, RowSteps DEF Active
<1>3. Used(q) /\ link[q].kind = "start" /\ owner[q] = owner'[q]
  BY OpSteps DEF StepFits
<1> QED  BY <1>2, <1>3 DEF PinsInv, NewestStart

\* A print a step adds was made by an operation that is open or makes it late.
LEMMA NewPrints ==
  ASSUME MaterialInv, MaterialInv', StepFits, NEW e \in Endpoints, NEW i \in 1..Len(Prints(e)'),
         NEW o \in Ops, Prints(e)'[i].by = o, ~Prints(e)'[i].late
  PROVE  /\ owner'[o] = owner[o]
         /\ \/ i \in 1..Len(Prints(e)) /\ Prints(e)[i].by = o /\ ~Prints(e)[i].late
            \/ i > Len(Prints(e)) /\ status[o] = "open"
<1>1. PrintsFit(e) /\ owner'[o] = owner[o] /\ o # None
  BY NoneIsNot, OpSteps DEF StepFits
<1>2. CASE i \in 1..Len(Prints(e))
  BY <1>1, <1>2, PrintSteps
<1>3. CASE i \notin 1..Len(Prints(e))
  <2>1. i > Len(Prints(e))
    BY <1>3, HistoryTyped, HistorySeq
  <2> QED  BY <1>1, <2>1 DEF PrintsFit
<1> QED  BY <1>1, <1>2, <1>3

LEMMA MarksFitFits ==
  ASSUME MaterialInv, MaterialInv', OperationsInv, PinsInv, StepFits
  PROVE  MarksFit'
<1>1. ASSUME NEW e \in Endpoints, NEW i \in 1..Len(Prints(e)')
      PROVE  Prints(e)'[i].by # None => Prints(e)'[i].by \in Ops
  BY HistoryTyped, PrintTyped
<1>2. ASSUME NEW o \in Ops, Used(o)', link'[o].kind = "start", NEW e \in Endpoints, e = link'[o].conn,
             NEW i \in 1..Len(Prints(e)'), i > link'[o].mark, NEW q \in Ops, Prints(e)'[i].by = q,
             ~Prints(e)'[i].late, owner'[q] = owner'[o]
      PROVE  q >= o
  <2>1. Used(o) /\ link[o].kind = "start" /\ link[o].conn = e /\ link[o].mark = link'[o].mark /\ owner'[o] = owner[o]
    BY <1>2, OpSteps DEF StepFits
  <2>2. owner[q] = owner[o] /\ q # None
    BY <1>2, <2>1, NewPrints, NoneIsNot
  <2>3. CASE i \in 1..Len(Prints(e)) /\ Prints(e)[i].by = q /\ ~Prints(e)[i].late
    BY <1>2, <2>1, <2>2, <2>3 DEF PinsInv, MarksFit, NoneEarlier
  <2>4. CASE status[q] = "open"
    BY <2>1, <2>2, <2>4, NoneIsNot DEF OperationsInv, OpenIsLast
  <2> QED  BY <1>2, <2>3, <2>4, NewPrints
<1>3. ASSUME NEW c \in Callers, Checked(c)', cmd'[c].kind = "start", NEW e \in Endpoints, e = cmd'[c].conn,
             NEW i \in 1..Len(Prints(e)'), i > cmd'[c].mark, NEW q \in Ops, Prints(e)'[i].by = q,
             owner'[q] = PrinterOf(c)'
      PROVE  Prints(e)'[i].late
  <2> SUFFICES ASSUME ~Prints(e)'[i].late  PROVE FALSE
    OBVIOUS
  <2>1. CmdFits(c)
    BY DEF StepFits
  <2>2. CASE Check(c)
    <3>1. UNCHANGED host /\ cmd'[c].conn = printer[PrinterOf(c)].conn
          /\ (cmd[c].kind = "start" => cmd'[c].mark = Len(Prints(cmd'[c].conn))) /\ cmd'[c].kind = cmd[c].kind
      <4>1. cmd[c] \in Cmd
        BY Types
      <4> QED  BY <2>2, <4>1 DEF Check, MaterialInv, TypeOK, Cmd, PrinterOf
    <3>2. Prints(e)' = Prints(e) /\ cmd'[c].mark = Len(Prints(e))
      BY <1>3, <3>1 DEF Prints
    <3> QED  BY <1>3, <3>2, HistoryTyped, HistorySeq
  <2>3. CASE cmd'[c] = cmd[c]
    <3>1. Checked(c) /\ cmd[c].job \in Jobs /\ job[cmd[c].job].state # "absent"
      BY <1>3, <2>3 DEF Checked, OperationsInv, Locked, Asking, MaterialInv, CommandsName
    <3>2. PrinterOf(c)' = PrinterOf(c)
      BY <2>3, <3>1, RowSteps DEF StepFits, PrinterOf
    <3>3. owner[q] = PrinterOf(c) /\ q # None
      BY <1>3, <3>2, NewPrints, NoneIsNot
    <3>4. status[q] # "open"
      BY <3>1, <3>3 DEF OperationsInv, Locked, HasOpen
    <3>5. i \in 1..Len(Prints(e)) /\ Prints(e)[i].by = q /\ ~Prints(e)[i].late
      BY <1>3, <3>4, NewPrints
    <3> QED  BY <1>3, <2>3, <3>1, <3>3, <3>5 DEF PinsInv, MarksFit
  <2> QED  BY <1>3, <2>1, <2>2, <2>3 DEF CmdFits, Checked, Begins
<1>4. \A o \in Ops : link'[o].conn \in Endpoints
  BY DEF MaterialInv, TypeOK, Link
<1>5. \A c \in Callers : cmd'[c].conn \in Endpoints
  BY DEF MaterialInv, TypeOK, Cmd
<1>6. \A o \in Ops : Used(o)' /\ link'[o].kind = "start" =>
        \A i \in 1..Len(host'[link'[o].conn].prints) : LET print == host'[link'[o].conn].prints[i] IN
          i > link'[o].mark /\ print.by # None /\ ~print.late /\ owner'[print.by] = owner'[o] => print.by >= o
  BY <1>1, <1>2, <1>4 DEF Prints
<1>7. \A c \in Callers : Checked(c)' /\ cmd'[c].kind = "start" =>
        \A i \in 1..Len(host'[cmd'[c].conn].prints) : LET print == host'[cmd'[c].conn].prints[i] IN
          i > cmd'[c].mark /\ print.by # None /\ owner'[print.by] = PrinterOf(c)' => print.late
  BY <1>1, <1>3, <1>5 DEF Prints
<1> QED  BY <1>6, <1>7, Zenon DEF MarksFit, NoneEarlier, Prints


LEMMA MarksAboveFits ==
  ASSUME MaterialInv, MaterialInv', OperationsInv, PrintsInv, PinsInv, StepFits
  PROVE  MarksAbove'
<1>1. ASSUME NEW i \in Jobs, job'[i].pin # 0
      PROVE  /\ RowFits(i) /\ ~Assigned(i) /\ job'[i].printer = job[i].printer /\ job'[i].start = job[i].start
             /\ link'[job'[i].start].conn = link[job[i].start].conn
             /\ job'[i].pin = job[i].pin \/ (Active(i) /\ LockFree(job[i].printer))
  <2>1. RowFits(i) /\ ~Assigned(i)
    BY <1>1 DEF StepFits, Assigned
  <2>2. Reads(job[i], job'[i], i) => LockFree(job[i].printer)
    BY DEF Reads
  <2> QED  BY <1>1, <2>1, <2>2, ActiveSteps, PinSteps
<1>2. ASSUME NEW j \in Jobs, Active(j)', job'[j].start # None, NEW i \in Jobs, i # j,
             job'[i].printer = job'[j].printer, job'[i].pin # 0,
             link'[job'[i].start].conn = link'[job'[j].start].conn
      PROVE  job'[i].pin <= link'[job'[j].start].mark
  <2>1. RowFits(j) /\ ~Assigned(j) /\ job[j] \in Job
    BY <1>2, RowOf DEF StepFits, Assigned
  <2>2. Active(j) /\ job'[j].start = job[j].start /\ job'[j].printer = job[j].printer
    BY <1>2, <2>1, ActiveSteps
  <2>3. job[j].start \in Ops
    BY <1>2, <2>1, <2>2 DEF Job, OpIds
  <2>4. link'[job[j].start].conn = link[job[j].start].conn /\ link'[job[j].start].mark = link[job[j].start].mark
    BY <2>3, OpSteps DEF StepFits
  <2>5. job'[i].pin = job[i].pin
    BY <1>1, <1>2, <2>2 DEF PinsInv, OneActive
  <2> QED  BY <1>1, <1>2, <2>2, <2>4, <2>5 DEF PinsInv, MarksAbove, MarkAbove
<1>3. ASSUME NEW c \in Callers, Checked(c)', cmd'[c].kind = "start", NEW i \in Jobs, i # cmd'[c].job,
             job'[i].printer = job'[cmd'[c].job].printer, job'[i].pin # 0,
             link'[job'[i].start].conn = cmd'[c].conn
      PROVE  job'[i].pin <= cmd'[c].mark
  <2>1. CmdFits(c) /\ cmd[c] \in Cmd
    BY Types DEF StepFits
  <2>2. CASE Check(c)
    <3>1. cmd'[c].conn = printer[PrinterOf(c)].conn /\ cmd'[c].kind = cmd[c].kind
          /\ (cmd[c].kind = "start" => cmd'[c].mark = Len(Prints(cmd'[c].conn)))
      BY <2>1, <2>2 DEF Check, MaterialInv, TypeOK, Cmd, PrinterOf
    <3>2. UNCHANGED <<job, link>>
      BY <2>2 DEF Check, durable
    <3>3. job[i].pin \in 1..Len(Prints(link[job[i].start].conn))
      BY <1>3, <3>2, PinOfRow
    <3> QED  BY <1>3, <3>1, <3>2, <3>3
  <2>3. CASE cmd'[c] = cmd[c]
    <3>1. Checked(c) /\ cmd[c].job \in Jobs /\ job[cmd[c].job].state # "absent"
      BY <1>3, <2>3 DEF Checked, OperationsInv, Locked, Asking, MaterialInv, CommandsName
    <3>2. job'[cmd[c].job].printer = job[cmd[c].job].printer
      BY <2>3, <3>1, RowSteps DEF StepFits
    <3>3. ~LockFree(job[i].printer)
      BY <1>1, <1>3, <2>3, <3>1, <3>2 DEF LockFree, Checked
    <3>4. job'[i].pin = job[i].pin
      BY <1>1, <1>3, <3>3
    <3> QED  BY <1>1, <1>3, <2>3, <3>1, <3>2, <3>4 DEF PinsInv, MarksAbove, MarkAbove
  <2> QED  BY <1>3, <2>1, <2>2, <2>3 DEF CmdFits, Checked, Begins
<1>4. \A j \in Jobs : Active(j)' /\ job'[j].start # None =>
        \A i \in Jobs : i # j /\ job'[i].printer = job'[j].printer /\ job'[i].pin # 0
                          /\ link'[job'[i].start].conn = link'[job'[j].start].conn =>
                        job'[i].pin <= link'[job'[j].start].mark
  BY <1>2
<1>5. \A c \in Callers : Checked(c)' /\ cmd'[c].kind = "start" =>
        \A i \in Jobs : i # cmd'[c].job /\ job'[i].printer = job'[cmd'[c].job].printer /\ job'[i].pin # 0
                          /\ link'[job'[i].start].conn = cmd'[c].conn =>
                        job'[i].pin <= cmd'[c].mark
  BY <1>3
<1> QED  BY <1>4, <1>5, Zenon DEF MarksAbove, MarkAbove

\* The print a Job is newly tracked by is above its start's mark; if it was made by an
\* operation of the Job's Printer, and not late, by an earlier one or by the start.
LEMMA PinIsOursFits ==
  ASSUME MaterialInv, MaterialInv', OperationsInv, PrintsInv, PinsInv, StepFits
  PROVE  PinIsOurs'
<1> SUFFICES ASSUME NEW j \in Jobs, job'[j].pin # 0
             PROVE  LET o == job'[j].start  print == host'[link'[o].conn].prints[job'[j].pin] IN
                    /\ job'[j].pin > link'[o].mark
                    /\ print.by \in {o, None} \/ print.late \/ owner'[print.by] # owner'[o]
  BY Zenon DEF PinIsOurs, Prints
<1> DEFINE o == job[j].start
           e == link[o].conn
           n == job'[j].pin
           print == Prints(e)[n]
<1>1. /\ job'[j].start = o /\ o \in Ops /\ Used(o) /\ e \in Endpoints /\ link'[o].conn = e
      /\ n \in 1..Len(Prints(e)) /\ (n = job[j].pin \/ Reads(job[j], job'[j], j))
  BY PinSteps
<1>2. link'[o].mark = link[o].mark /\ owner'[o] = owner[o] /\ \A q \in Ops : owner'[q] = owner[q]
  BY <1>1, OpSteps DEF StepFits
<1>3. print.by \in Ops \cup {None} /\ (print.by # None => Used(print.by) /\ link[print.by].kind = "start")
  <2>1. print.by \in Ops \cup {None}
    BY <1>1, HistoryTyped, PrintTyped
  <2> QED  BY <1>1, <2>1 DEF PrintsInv, MadeByEffects
<1>4. host'[e].prints[n].by = print.by /\ host'[e].prints[n].late = print.late
  <2>1. ASSUME NEW x \in Endpoints, NEW i \in 1..Len(Prints(x))
        PROVE  host'[x].prints[i].by = Prints(x)[i].by /\ host'[x].prints[i].late = Prints(x)[i].late
    <3>1. PrintsFit(x) /\ Prints(x)' = host'[x].prints
      BY DEF StepFits, Prints
    <3> QED  BY <3>1, PrintSteps
  <2> QED  BY <1>1, <2>1
<1>5. n > link[o].mark /\ (print.by \in {o, None} \/ print.late \/ owner[print.by] # owner[o])
  <2>1. CASE n = job[j].pin
    BY <2>1 DEF PinsInv, PinIsOurs
  <2>2. CASE Reads(job[j], job'[j], j) /\ n # job[j].pin
    <3>1. n > link[o].mark /\ job[j].state \in OnHost
      BY <2>2 DEF Reads
    <3>2. Active(j) /\ link[o].kind = "start" /\ link[o].job = j /\ owner[o] = job[j].printer
      BY <1>1, <3>1 DEF Active, OnHost, Terminal, OperationsInv, StartStands, Of, Numbered
    <3>3. ASSUME print.by # None, ~print.late, owner[print.by] = owner[o]  PROVE print.by = o
      <4>1. print.by >= o
        BY <1>1, <3>1, <3>2, <3>3 DEF PinsInv, MarksFit, NoneEarlier
      <4>2. print.by <= o
        BY <1>1, <1>3, <3>2, <3>3, NoneIsNot DEF PinsInv, NewestStart
      <4>3. print.by \in Nat /\ o \in Nat
        BY <1>1, <1>3, <3>3, NoneIsNot
      <4> QED  BY <4>1, <4>2, <4>3
    <3> QED  BY <3>1, <3>3
  <2> QED  BY <1>1, <2>1, <2>2
<1> HIDE DEF print, n
<1> QED  BY <1>1, <1>2, <1>3, <1>4, <1>5 DEF n

LEMMA PinsDistinctFits ==
  ASSUME MaterialInv, MaterialInv', OperationsInv, PrintsInv, PinsInv, StepFits
  PROVE  PinsDistinct'
<1>1. ASSUME NEW i \in Jobs, job'[i].pin # 0
      PROVE  /\ job'[i].printer = job[i].printer /\ job'[i].start = job[i].start
             /\ link'[job'[i].start].conn = link[job[i].start].conn
             /\ \/ job'[i].pin = job[i].pin
                \/ Active(i) /\ job[i].start # None /\ job'[i].pin > link[job[i].start].mark
  <2>1. RowFits(i) /\ ~Assigned(i)
    BY <1>1 DEF StepFits, Assigned
  <2>2. Reads(job[i], job'[i], i) => job'[i].pin = job[i].pin \/ job'[i].pin > link[job[i].start].mark
    BY DEF Reads
  <2> QED  BY <1>1, <2>1, <2>2, ActiveSteps, PinSteps, NoneIsNot
<1>2. ASSUME NEW i \in Jobs, NEW j \in Jobs, i # j, job'[i].pin # 0, job'[j].pin # 0,
             job'[i].printer = job'[j].printer, link'[job'[i].start].conn = link'[job'[j].start].conn,
             job'[i].pin # job[i].pin
      PROVE  job'[i].pin # job'[j].pin
  <2>1. Active(i) /\ job[i].start # None /\ job'[i].pin > link[job[i].start].mark
    BY <1>1, <1>2
  <2>2. job'[j].pin = job[j].pin
    BY <1>1, <1>2, <2>1 DEF PinsInv, OneActive
  <2>3. job[j].pin <= link[job[i].start].mark
    BY <1>1, <1>2, <2>1, <2>2 DEF PinsInv, MarksAbove, MarkAbove
  <2>4. link[job[i].start].mark \in Nat /\ job[j].pin \in Nat /\ job'[i].pin \in Nat
    <3>1. job[i] \in Job /\ job[j] \in Job /\ job'[i] \in Job
      BY RowOf DEF MaterialInv, TypeOK
    <3>2. job[i].start \in Ops
      BY <2>1, <3>1 DEF Job, OpIds
    <3> QED  BY <3>1, <3>2, Types, JobBoundsAssumption DEF Job, Link
  <2> QED  BY <2>1, <2>2, <2>3, <2>4
<1> SUFFICES ASSUME NEW i \in Jobs, NEW j \in Jobs, i # j, job'[i].pin # 0, job'[j].pin # 0,
                    job'[i].printer = job'[j].printer, link'[job'[i].start].conn = link'[job'[j].start].conn
             PROVE  job'[i].pin # job'[j].pin
  BY DEF PinsDistinct
<1>3. CASE job'[i].pin # job[i].pin \/ job'[j].pin # job[j].pin
  BY <1>2, <1>3
<1>4. CASE job'[i].pin = job[i].pin /\ job'[j].pin = job[j].pin
  BY <1>1, <1>4 DEF PinsInv, PinsDistinct
<1> QED  BY <1>3, <1>4


\* A hand-off keeps every row's Printer and whether it is active, and starts only its own Job.
LEMMA HandOffRows ==
  ASSUME MaterialInv, OperationsInv, NEW c \in Callers, NEW o, NEW j, HandsOff(c, o, j), NEW i \in Jobs
  PROVE  /\ job'[i].printer = job[i].printer /\ (Active(i)' <=> Active(i))
         /\ \/ i = j /\ cmd[c].kind = "start" /\ job'[i].start = o
            \/ job'[i].start = job[i].start
         /\ job[i].start # None => job[i].start \in Ops /\ Used(job[i].start) /\ link'[job[i].start] = link[job[i].start]
                                   /\ link[job[i].start].conn \in Endpoints
<1>1. job[i] \in Job
  BY RowOf
<1>2. ASSUME job[i].start # None
      PROVE  job[i].start \in Ops /\ Used(job[i].start) /\ link'[job[i].start] = link[job[i].start]
             /\ link[job[i].start].conn \in Endpoints
  <2>1. job[i].start \in Ops /\ Used(job[i].start)
    BY <1>1, <1>2 DEF OperationsInv, StartStands, Of, Job, OpIds
  <2> QED  BY <2>1, Types DEF HandsOff, Used, Link
<1> QED  BY <1>2 DEF HandsOff, Active, BeforeStart, OnHost, Terminal

LEMMA HandOffPins ==
  ASSUME MaterialInv, OperationsInv, PrintsInv, PinsInv, NEW c \in Callers, NEW o, NEW j, HandsOff(c, o, j)
  PROVE  PinsInv'
<1> DEFINE m == cmd[c]
<1>1. o \in Ops /\ ~Used(o) /\ UNCHANGED <<poll, host>> /\ j \in Jobs /\ m.job = j /\ Checked(c)
      /\ \A q \in Ops : (Used(q) => q < o) /\ q \in Nat
  BY NoneIsNot DEF HandsOff, Used
<1>2. ASSUME NEW q \in Ops, q # o
      PROVE  (Used(q)' <=> Used(q)) /\ owner'[q] = owner[q] /\ link'[q] = link[q]
  BY <1>2 DEF HandsOff, Used
<1>3. ASSUME NEW e \in Endpoints, NEW i \in 1..Len(Prints(e)), Prints(e)[i].by # None
      PROVE  Prints(e)[i].by \in Ops /\ Prints(e)[i].by # o /\ owner'[Prints(e)[i].by] = owner[Prints(e)[i].by]
  <2>1. Prints(e)[i].by \in Ops /\ Used(Prints(e)[i].by)
    BY <1>3, HistoryTyped, PrintTyped DEF PrintsInv, MadeByEffects
  <2> QED  BY <1>1, <1>2, <2>1
<1>4. ASSUME NEW i \in Jobs, job[i].pin # 0 \/ job'[i].pin # 0
      PROVE  /\ job'[i].pin = job[i].pin /\ job'[i].start = job[i].start /\ job'[i].printer = job[i].printer
             /\ job[i].start \in Ops /\ Used(job[i].start) /\ link'[job[i].start] = link[job[i].start]
             /\ link[job[i].start].conn \in Endpoints /\ job[i].pin \in 1..Len(Prints(link[job[i].start].conn))
  <2>1. job'[i].pin = job[i].pin /\ job[i].pin # 0
    BY <1>4 DEF HandsOff
  <2>2. /\ job[i].start \in Ops /\ Used(job[i].start) /\ job[i].state \notin Back \cup {"starting"}
        /\ link[job[i].start].conn \in Endpoints /\ job[i].pin \in 1..Len(Prints(link[job[i].start].conn))
    BY <2>1, PinOfRow
  <2>3. job'[i].start = job[i].start /\ job'[i].printer = job[i].printer
    BY <2>2 DEF HandsOff, Back, BeforeStart, Controls
  <2> QED  BY <1>1, <1>2, <2>1, <2>2, <2>3
<1>5. OneActive'
  BY HandOffRows DEF PinsInv, OneActive
<1>6. NewestStart'
  <2> SUFFICES ASSUME NEW k \in Jobs, NEW q \in Ops, Active(k)', job'[k].start # None,
                      Used(q)', link'[q].kind = "start", owner'[q] = job'[k].printer
               PROVE  q <= job'[k].start
    BY DEF NewestStart
  <2>1. Active(k) /\ job'[k].printer = job[k].printer
    BY HandOffRows
  <2>2. CASE q = o
    <3>1. m.kind = "start" /\ job[k].printer = job[j].printer /\ Active(j) /\ job'[j].start = o
      BY <2>1, <2>2 DEF HandsOff, Active, BeforeStart, OnHost, Terminal
    <3>2. k = j
      BY <1>1, <2>1, <3>1 DEF PinsInv, OneActive
    <3> QED  BY <1>1, <2>2, <3>1, <3>2
  <2>3. CASE q # o /\ job'[k].start = o
    BY <1>1, <1>2, <2>3
  <2>4. CASE q # o /\ job'[k].start = job[k].start
    BY <1>2, <2>1, <2>4 DEF PinsInv, NewestStart
  <2> QED  BY <2>2, <2>3, <2>4, HandOffRows
<1>7. ASSUME NEW x \in Ops, Used(x)', link'[x].kind = "start", NEW i \in 1..Len(Prints(link'[x].conn)),
             i > link'[x].mark, Prints(link'[x].conn)[i].by # None, ~Prints(link'[x].conn)[i].late,
             owner'[Prints(link'[x].conn)[i].by] = owner'[x]
      PROVE  Prints(link'[x].conn)[i].by >= x
  <2>1. CASE x = o
    <3>1. link'[o].conn = m.conn /\ link'[o].mark = m.mark /\ m.kind = "start" /\ owner'[o] = PrinterOf(c)
      BY <1>1, <1>7, <2>1 DEF HandsOff, PrinterOf
    <3>2. m.conn \in Endpoints
      BY Types DEF Cmd
    <3> QED  BY <1>1, <1>3, <1>7, <2>1, <3>1, <3>2 DEF PinsInv, MarksFit
  <2>2. CASE x # o
    <3>1. link[x].conn \in Endpoints
      BY Types DEF Link
    <3> QED  BY <1>2, <1>3, <1>7, <2>2, <3>1 DEF PinsInv, MarksFit, NoneEarlier
  <2> QED  BY <2>1, <2>2
<1>8. ASSUME NEW d \in Callers, Checked(d)'
      PROVE  Checked(d) /\ cmd'[d] = cmd[d] /\ cmd[d].job \in Jobs /\ PrinterOf(d)' = PrinterOf(d)
             /\ cmd[d].conn \in Endpoints
  <2>1. Checked(d) /\ cmd'[d] = cmd[d]
    BY <1>8 DEF HandsOff, Checked
  <2>2. cmd[d].job \in Jobs
    BY <2>1 DEF Checked, MaterialInv, CommandsName
  <2> QED  BY <2>1, <2>2, HandOffRows, Types DEF PrinterOf, Cmd
<1>9. ASSUME NEW d \in Callers, Checked(d)', cmd'[d].kind = "start", NEW i \in 1..Len(Prints(cmd'[d].conn)),
             i > cmd'[d].mark, Prints(cmd'[d].conn)[i].by # None,
             owner'[Prints(cmd'[d].conn)[i].by] = PrinterOf(d)'
      PROVE  Prints(cmd'[d].conn)[i].late
  BY <1>3, <1>8, <1>9 DEF PinsInv, MarksFit
<1>10. MarksFit'
  <2>1. \A x \in Ops : Used(x)' /\ link'[x].kind = "start" =>
          \A i \in 1..Len(host'[link'[x].conn].prints) : LET print == host'[link'[x].conn].prints[i] IN
            i > link'[x].mark /\ print.by # None /\ ~print.late /\ owner'[print.by] = owner'[x] => print.by >= x
    BY <1>1, <1>7 DEF Prints
  <2>2. \A d \in Callers : Checked(d)' /\ cmd'[d].kind = "start" =>
          \A i \in 1..Len(host'[cmd'[d].conn].prints) : LET print == host'[cmd'[d].conn].prints[i] IN
            i > cmd'[d].mark /\ print.by # None /\ owner'[print.by] = PrinterOf(d)' => print.late
    BY <1>1, <1>9 DEF Prints
  <2> QED  BY <2>1, <2>2, Zenon DEF MarksFit, NoneEarlier, Prints
<1>11. ASSUME NEW k \in Jobs, Active(k)', job'[k].start # None, NEW i \in Jobs, i # k,
              job'[i].printer = job'[k].printer, job'[i].pin # 0,
              link'[job'[i].start].conn = link'[job'[k].start].conn
       PROVE  job'[i].pin <= link'[job'[k].start].mark
  <2>1. Active(k) /\ job'[k].printer = job[k].printer
    BY <1>11, HandOffRows
  <2>2. CASE k = j /\ m.kind = "start" /\ job'[k].start = o
    <3>1. link'[o].conn = m.conn /\ link'[o].mark = m.mark
      BY DEF HandsOff
    <3> QED  BY <1>1, <1>4, <1>11, <2>1, <2>2, <3>1 DEF PinsInv, MarksAbove, MarkAbove
  <2>3. CASE job'[k].start = job[k].start
    <3>1. link'[job[k].start] = link[job[k].start]
      BY <1>11, <2>3, HandOffRows
    <3> QED  BY <1>4, <1>11, <2>1, <2>3, <3>1 DEF PinsInv, MarksAbove, MarkAbove
  <2> QED  BY <2>2, <2>3, HandOffRows
<1>12. ASSUME NEW d \in Callers, Checked(d)', cmd'[d].kind = "start", NEW i \in Jobs, i # cmd'[d].job,
              job'[i].printer = job'[cmd'[d].job].printer, job'[i].pin # 0,
              link'[job'[i].start].conn = cmd'[d].conn
       PROVE  job'[i].pin <= cmd'[d].mark
  <2>1. job'[cmd[d].job].printer = job[cmd[d].job].printer
    BY <1>8, <1>12, HandOffRows
  <2> QED  BY <1>4, <1>8, <1>12, <2>1 DEF PinsInv, MarksAbove, MarkAbove
<1>13. MarksAbove'
  <2>1. \A k \in Jobs : Active(k)' /\ job'[k].start # None =>
          \A i \in Jobs : i # k /\ job'[i].printer = job'[k].printer /\ job'[i].pin # 0
                            /\ link'[job'[i].start].conn = link'[job'[k].start].conn =>
                          job'[i].pin <= link'[job'[k].start].mark
    BY <1>11
  <2>2. \A d \in Callers : Checked(d)' /\ cmd'[d].kind = "start" =>
          \A i \in Jobs : i # cmd'[d].job /\ job'[i].printer = job'[cmd'[d].job].printer /\ job'[i].pin # 0
                            /\ link'[job'[i].start].conn = cmd'[d].conn =>
                          job'[i].pin <= cmd'[d].mark
    BY <1>12
  <2> QED  BY <2>1, <2>2, Zenon DEF MarksAbove, MarkAbove
<1>14. PinIsOurs'
  <2> SUFFICES ASSUME NEW i \in Jobs, job'[i].pin # 0
               PROVE  LET q == job'[i].start  print == host[link'[q].conn].prints[job'[i].pin] IN
                      /\ job'[i].pin > link'[q].mark
                      /\ print.by \in {q, None} \/ print.late \/ owner'[print.by] # owner'[q]
    BY <1>1, Zenon DEF PinIsOurs, Prints
  <2> DEFINE q == job[i].start
             print == host[link[q].conn].prints[job[i].pin]
  <2>1. /\ job'[i].pin = job[i].pin /\ job'[i].start = q /\ link'[q] = link[q] /\ owner'[q] = owner[q]
    BY <1>1, <1>2, <1>4
  <2>2. print.by # None => owner'[print.by] = owner[print.by]
    BY <1>3, <1>4 DEF Prints
  <2>3. job[i].pin > link[q].mark /\ (print.by \in {q, None} \/ print.late \/ owner[print.by] # owner[q])
    BY <1>4 DEF PinsInv, PinIsOurs, Prints
  <2> HIDE DEF print, q
  <2> QED  BY <2>1, <2>2, <2>3 DEF print
<1>15. PinsDistinct'
  BY <1>4 DEF PinsInv, PinsDistinct
<1> QED  BY <1>5, <1>6, <1>10, <1>13, <1>14, <1>15 DEF PinsInv

LEMMA PinsInit == Init => PinsInv
<1> SUFFICES ASSUME Init  PROVE PinsInv
  OBVIOUS
<1>1. \A j \in Jobs : ~Active(j) /\ job[j].pin = 0
  <2>1. PICK p \in Printers : job = [j \in Jobs |-> NoJob(p)]
    BY DEF Init
  <2> QED  BY <2>1 DEF NoJob, Active
<1>2. \A o \in Ops : ~Used(o)
  BY DEF Init, W!Init, Used
<1>3. \A c \in Callers : ~Checked(c)
  <2>1. NoCmd.pc = "idle"
    BY MaterialInit, IdleTyped, EndpointsExist
  <2> QED  BY <2>1 DEF Init, Checked
<1> QED  BY <1>1, <1>2, <1>3 DEF PinsInv, OneActive, NewestStart, MarksFit, MarksAbove, PinIsOurs, PinsDistinct

LEMMA PinsNext ==
  (MaterialInv /\ OperationsInv /\ PrintsInv /\ PinsInv) /\ [Next]_vars => PinsInv'
<1> SUFFICES ASSUME MaterialInv, OperationsInv, PrintsInv, PinsInv, [Next]_vars  PROVE PinsInv'
  OBVIOUS
<1>1. MaterialInv'
  BY MaterialNext
<1>2. CASE StepFits
  BY <1>1, <1>2, OneActiveFits, NewestStartFits, MarksFitFits, MarksAboveFits, PinIsOursFits, PinsDistinctFits
     DEF PinsInv
<1>3. ASSUME NEW c \in Callers, Commit(c)  PROVE PinsInv'
  BY <1>3, CommitHandsOff, HandOffPins
<1> QED  BY <1>2, <1>3, StepsFit

LEMMA PinsAlways == Spec => [](MaterialInv /\ OperationsInv /\ PrintsInv /\ PinsInv)
<1>1. Init => MaterialInv /\ OperationsInv /\ PrintsInv /\ PinsInv
  BY MaterialInit, OperationsInit, PrintsInit, PinsInit
<1>2. (MaterialInv /\ OperationsInv /\ PrintsInv /\ PinsInv) /\ [Next]_vars
        => (MaterialInv /\ OperationsInv /\ PrintsInv /\ PinsInv)'
  BY MaterialNext, OperationsNext, PrintsNext, PinsNext
<1> QED  BY <1>1, <1>2, PTL DEF Spec

\* A start names the file its own Job staged last, and what a Job is tracked by is the print
\* its start made, or one nobody can tell from it (dispatch.rs start_job, tracker.rs
\* pin_candidate with the start's history mark).
THEOREM JobsStartIsOwn == Spec => []StartIsOwn
<1>1. OperationsInv /\ PinsInv => StartIsOwn
  BY DEF OperationsInv, PinsInv, StartIsOwn
<1> QED  BY <1>1, PinsAlways, PTL

\* Two Jobs of a Printer are never tracked by one print: a start's mark is above every print
\* another Job of the Printer is tracked by (host_ops/api.rs start, tracker.rs pin_candidate).
THEOREM JobsPinsDistinct == Spec => []PinsDistinct
<1>1. PinsInv => PinsDistinct
  BY DEF PinsInv
<1> QED  BY <1>1, PinsAlways, PTL

\* What a step ends on the host, it ends by declaration with the poll left alone, or as the
\* history read says the pinned print ended.
LEMMA EndsAsRead ==
  ASSUME MaterialInv, OperationsInv, PrintsInv, StepFits, NEW j \in Jobs,
         poll.job = j, poll' = NoPoll, job[j].state \in OnHost, job'[j].state \in Terminal
  PROVE  Prints(link[job[j].start].conn)[job'[j].pin].status = job'[j].state
<1> DEFINE r == job[j]
           s == job'[j]
<1>1. poll' # poll
  BY NoneIsNot DEF NoPoll
<1>2. RowFits(j)
  BY DEF StepFits
<1>3. Reads(r, s, j)
  BY <1>1, <1>2 DEF RowFits, Minor, Assigned, Drops, Tracks, Answers, OnHost, Terminal, BeforeStart
<1>4. s.pin # 0
  BY <1>3 DEF Reads, ReadsStatus
<1> QED  BY <1>3, <1>4, ReadIsTrue

\* What the tracker ends on its own, it ends as the host its start went to recorded it
\* (tracker.rs apply_poll, verdict_from_history, end_job).
THEOREM JobsEndIsProved == Spec => EndIsProved
<1> DEFINE Proved == \A j \in Jobs :
             poll.job = j /\ poll' = NoPoll /\ job[j].state \in OnHost /\ job'[j].state \in Terminal =>
               Prints(link[job[j].start].conn)[job'[j].pin].status = job'[j].state
<1>1. MaterialInv /\ OperationsInv /\ PrintsInv /\ [Next]_vars => Proved
  <2> SUFFICES ASSUME MaterialInv, OperationsInv, PrintsInv, [Next]_vars  PROVE Proved
    OBVIOUS
  <2>1. CASE StepFits
    BY <2>1, EndsAsRead
  <2>2. ASSUME NEW c \in Callers, Commit(c)  PROVE Proved
    <3>1. poll' = poll
      BY <2>2 DEF Commit
    <3>2. NoPoll.job = None
      BY DEF NoPoll
    <3> QED  BY <3>1, <3>2, NoneIsNot
  <2> QED  BY <2>1, <2>2, StepsFit
<1> QED  BY <1>1, PrintsAlways, PTL DEF Spec, EndIsProved


\* A late outcome, poll or command changes nothing of how a Job ended, and its settlement only
\* moves on (dispatch.rs event_for, tracker.rs apply_poll, settlement.rs check_settleable).
THEOREM JobsTerminalFinal == Spec => TerminalFinal
<1> DEFINE Final == \A j \in Jobs : job[j].state \in Terminal =>
             /\ job'[j].state = job[j].state /\ job'[j].reason = job[j].reason
             /\ job'[j].pin = job[j].pin /\ job'[j].start = job[j].start
             /\ job'[j].settlement # job[j].settlement =>
                  <<job[j].settlement, job'[j].settlement>> \in
                    {<<"pending", "deferred">>, <<"pending", "settled">>, <<"deferred", "settled">>}
<1>1. MaterialInv /\ OperationsInv /\ [Next]_vars => Final
  <2> SUFFICES ASSUME MaterialInv, OperationsInv, [Next]_vars  PROVE Final
    OBVIOUS
  <2>1. CASE StepFits
    <3>1. \A j \in Jobs : RowFits(j)
      BY <2>1 DEF StepFits
    <3>2. ASSUME NEW j \in Jobs, job[j].state \in Terminal
          PROVE  Minor(job[j], job'[j]) \/ Answers(job[j], job'[j])
      BY <3>1, <3>2 DEF RowFits, Assigned, Drops, Tracks, Reads, OnHost, Terminal, BeforeStart
    <3> QED  BY <3>2 DEF Minor, SameLinks, MovesOn, Answers, Terminal, OnHost
  <2>2. ASSUME NEW c \in Callers, Commit(c)  PROVE Final
    <3>1. PICK o \in Ops : HandsOff(c, o, cmd[c].job)
      BY <2>2, CommitHandsOff
    <3> QED  BY <3>1 DEF HandsOff, OnHost, Terminal, BeforeStart
  <2> QED  BY <2>1, <2>2, StepsFit
<1> QED  BY <1>1, OperationsAlways, PTL DEF Spec, TerminalFinal

(***************************************************************************)
(* Starts with nobody watching.                                            *)
(***************************************************************************)
LEMMA AloneFits ==
  ASSUME MaterialInv, OperationsInv, AloneInv, StepFits
  PROVE  AloneInv'
<1>1. Driver \in Callers
  BY DEF Callers
<1>2. ASSUME NEW o \in Ops, NEW j \in Jobs
      PROVE  (StartOf(o, j)' <=> StartOf(o, j)) /\ (Of(o, j, "start")' <=> Of(o, j, "start"))
             /\ link'[o].caller = link[o].caller
  BY OpSteps DEF StepFits, StartOf, Of, Used
<1>3. UnattendedOnce'
  BY <1>2 DEF AloneInv, UnattendedOnce
<1>4. ASSUME NEW o \in Ops, Asking(Driver)', cmd'[Driver].pc # "refused", cmd'[Driver].kind = "start",
             Used(o)', link'[o].job = cmd'[Driver].job, link'[o].kind = "start"
      PROVE  job'[cmd'[Driver].job].state \notin Back
  <2> DEFINE j == cmd'[Driver].job
  <2>1. CmdFits(Driver)
    BY <1>1 DEF StepFits
  <2>2. Of(o, j, "start") /\ j \in Jobs
    <3>1. link'[o].job = link[o].job /\ Used(o) /\ link[o].kind = "start"
      BY <1>4, OpSteps DEF StepFits
    <3> QED  BY <1>4, <3>1 DEF Of, OperationsInv, Numbered
  <2>3. ~Begins(Driver)
    BY <1>4, <2>2 DEF Begins, HandedOff, Of, Used
  <2>4. Asking(Driver) /\ cmd[Driver].pc # "refused" /\ cmd[Driver].kind = "start" /\ cmd[Driver].job = j
    <3>1. CASE cmd'[Driver] = cmd[Driver]
      BY <1>4, <3>1 DEF Asking
    <3>2. CASE Check(Driver)
      <4>1. cmd[Driver] \in Cmd
        BY <1>1, Types
      <4> QED  BY <1>1, <1>4, <3>2, <4>1 DEF Check, Asking, MaterialInv, TypeOK, Cmd
    <3> QED  BY <1>4, <2>1, <2>3, <3>1, <3>2 DEF CmdFits, Asking
  <2>5. job[j].state \notin Back
    BY <2>2, <2>4 DEF AloneInv
  <2>6. RowFits(j) /\ cmd'[Driver].pc # "idle"
    BY <1>4, <2>2 DEF StepFits, Asking
  <2> HIDE DEF j
  <2> QED  BY <2>5, <2>6 DEF RowFits, Minor, Assigned, Drops, Tracks, Reads, Answers, Back, BeforeStart, OnHost, Terminal, j
<1> QED  BY <1>3, <1>4 DEF AloneInv, Of

LEMMA HandOffAlone ==
  ASSUME MaterialInv, OperationsInv, AloneInv, NEW c \in Callers, NEW o, NEW j, HandsOff(c, o, j)
  PROVE  AloneInv'
<1>1. /\ o \in Ops /\ j \in Jobs /\ cmd[c].job = j /\ Checked(c) /\ cmd'[c].pc = "idle"
      /\ link'[o].kind = cmd[c].kind /\ link'[o].job = j /\ link'[o].caller = c
      /\ \A q \in Ops : (Used(q) => q < o) /\ q \in Nat
  BY NoneIsNot DEF HandsOff
<1>2. ASSUME NEW q \in Ops, q # o, NEW i
      PROVE  (StartOf(q, i)' <=> StartOf(q, i)) /\ (Of(q, i, "start")' <=> Of(q, i, "start")) /\ link'[q] = link[q]
             /\ (Used(q)' <=> Used(q))
  BY <1>2 DEF HandsOff, StartOf, Of, Used
<1>3. cmd[c].kind = "start" => job[j].state = "awaitingStart" /\ job'[j].state = "starting"
  BY DEF HandsOff, Controls
<1>4. ASSUME NEW q \in Ops, NEW x \in Ops, NEW i \in Jobs, StartOf(q, i)', link'[q].caller = Driver, StartOf(x, i)'
      PROVE  q <= x
  <2>1. CASE q # o /\ x # o
    BY <1>2, <1>4, <2>1 DEF AloneInv, UnattendedOnce
  <2>2. CASE q # o /\ x = o
    BY <1>1, <1>2, <1>4, <2>2 DEF StartOf, Used
  <2>3. CASE q = o /\ x # o
    <3>1. c = Driver /\ i = j /\ cmd[c].kind = "start"
      BY <1>1, <1>4, <2>3 DEF StartOf
    <3>2. Of(x, j, "start")
      BY <1>2, <1>4, <2>3, <3>1 DEF StartOf, Of, Used
    <3>3. job[j].state \notin Back
      BY <1>1, <3>1, <3>2 DEF AloneInv, Asking, Checked
    <3> QED  BY <1>3, <3>1, <3>3 DEF Back
  <2>4. CASE q = o /\ x = o
    BY <1>1, <2>4
  <2> QED  BY <2>1, <2>2, <2>3, <2>4
<1>5. ASSUME NEW q \in Ops, Asking(Driver)', cmd'[Driver].pc # "refused", cmd'[Driver].kind = "start",
             Used(q)', link'[q].job = cmd'[Driver].job, link'[q].kind = "start"
      PROVE  job'[cmd'[Driver].job].state \notin Back
  <2>1. c # Driver /\ cmd'[Driver] = cmd[Driver]
    BY <1>1, <1>5 DEF HandsOff, Asking, Callers
  <2>2. CASE q = o
    <3>1. cmd[Driver].job = j /\ cmd[c].kind = "start"
      BY <1>1, <1>5, <2>1, <2>2
    <3> QED  BY <1>3, <2>1, <3>1 DEF Back
  <2>3. CASE q # o
    <3>1. job[cmd[Driver].job].state \notin Back /\ cmd[Driver].job \in Jobs
      BY <1>2, <1>5, <2>1, <2>3 DEF AloneInv, Of, Asking, MaterialInv, CommandsName, Callers
    <3>2. \/ job'[cmd[Driver].job].state = job[cmd[Driver].job].state
          \/ cmd[Driver].job = j /\ job[j].state \in BeforeStart
      BY <3>1 DEF HandsOff, BeforeStart
    <3> QED  BY <2>1, <3>1, <3>2 DEF Back, BeforeStart
  <2> QED  BY <2>2, <2>3
<1>6. UnattendedOnce'
  BY <1>4 DEF UnattendedOnce
<1> QED  BY <1>5, <1>6 DEF AloneInv, Of

LEMMA AloneAlways == Spec => [](MaterialInv /\ OperationsInv /\ AloneInv)
<1>1. Init => AloneInv
  <2> SUFFICES ASSUME Init  PROVE AloneInv
    OBVIOUS
  <2>1. \A o \in Ops : status[o] = "none"
    BY DEF Init, W!Init
  <2> QED  BY <2>1 DEF AloneInv, UnattendedOnce, StartOf, Of, Used
<1>2. MaterialInv /\ OperationsInv /\ AloneInv /\ [Next]_vars => AloneInv'
  <2> SUFFICES ASSUME MaterialInv, OperationsInv, AloneInv, [Next]_vars  PROVE AloneInv'
    OBVIOUS
  <2>1. CASE StepFits
    BY <2>1, AloneFits
  <2>2. ASSUME NEW c \in Callers, Commit(c)  PROVE AloneInv'
    BY <2>2, CommitHandsOff, HandOffAlone
  <2> QED  BY <2>1, <2>2, StepsFit
<1>3. (MaterialInv /\ OperationsInv /\ AloneInv) /\ [Next]_vars => (MaterialInv /\ OperationsInv /\ AloneInv)'
  BY <1>2, MaterialNext, OperationsNext
<1> QED  BY <1>1, <1>3, MaterialInit, OperationsInit, PTL DEF Spec

\* Nobody watching: the driver starts a Job at most once, and never one whose start was
\* tried before (services.rs maybe_start_unattended; dispatch.rs start_job).
THEOREM JobsUnattendedOnce == Spec => []UnattendedOnce
<1>1. AloneInv => UnattendedOnce
  BY DEF AloneInv
<1> QED  BY <1>1, AloneAlways, PTL


(***************************************************************************)
(* Entries that follow one another.                                        *)
(***************************************************************************)
Over == {"released", "consumed", "unresolved"}

\* The reservation tells how far a Job is.
LEMMA ReservationTells ==
  ASSUME MaterialInv, NEW j \in Jobs
  PROVE  (Active(j) <=> account[j].rsv = "active") /\ (job[j].state \in Terminal <=> account[j].rsv \in Over)
<1>1. job[j] \in Job /\ Sound(job[j], account[j], entry[j])
  BY RowOf
<1>2. job[j].settlement \in {"open", "notRequired", "pending", "deferred", "settled"}
  BY <1>1 DEF Job
<1>3. CASE job[j].state = "absent"
  BY <1>1, <1>3 DEF Sound, NothingBooked, Active, Over, Terminal
<1>4. CASE job[j].state # "absent"
  <2>1. Counted(job[j], account[j])
    BY <1>1, <1>4 DEF Sound
  <2> QED  BY <1>2, <1>4, <2>1 DEF Counted, Active, Over
<1> QED  BY <1>3, <1>4

\* Entry x newly follows one that is closed and that nothing followed.
Follows(x) ==
  LET e == entry'[x].origin IN
  /\ entry[x].state = "absent" /\ entry'[x].state # "absent"
  /\ e \in Jobs /\ Successor(e) = {} /\ entry'[e].state = "closed"
  /\ \A y \in Jobs \ {x} : entry'[y].origin = entry[y].origin

\* What a step does to the entries.
EntriesFit ==
  /\ \A x \in Jobs : entry[x].state = "closed" => entry'[x].state = "closed"
  /\ \A x \in Jobs : entry[x].state # "absent" => entry'[x].state # "absent"
  /\ \A x \in Jobs : entry'[x].origin = entry[x].origin \/ Follows(x)
  /\ \A x \in Jobs : /\ account'[x].rsv = "active" <=> entry'[x].state = "assigned"
                     /\ account'[x].rsv \in Over => entry'[x].state = "closed"

LEMMA LineageFits ==
  ASSUME MaterialInv, MaterialInv', LineageInv, EntriesFit
  PROVE  LineageInv'
<1>1. \A x \in Jobs : entry[x].origin \in Jobs \cup {None} /\ entry'[x].origin \in Jobs \cup {None}
  BY DEF MaterialInv, TypeOK, Entry
<1>2. ASSUME NEW f \in Jobs, entry'[f].origin # None
      PROVE  entry'[f].state # "absent" /\ entry'[entry'[f].origin].state = "closed"
  <2>1. CASE entry'[f].origin = entry[f].origin
    <3>1. entry[f].state # "absent" /\ entry[entry[f].origin].state = "closed" /\ entry[f].origin \in Jobs
      BY <1>1, <1>2, <2>1 DEF LineageInv
    <3> QED  BY <2>1, <3>1 DEF EntriesFit
  <2>2. CASE Follows(f)
    BY <2>2 DEF Follows
  <2> QED  BY <2>1, <2>2 DEF EntriesFit
<1>3. ASSUME NEW f \in Jobs, NEW g \in Jobs, f # g, Follows(f)  PROVE entry'[g].origin # entry'[f].origin
  BY <1>3 DEF Follows, Successor
<1>4. ASSUME NEW f \in Jobs, NEW g \in Jobs, entry'[f].origin # None, entry'[f].origin = entry'[g].origin
      PROVE  f = g
  BY <1>3, <1>4 DEF EntriesFit, LineageInv
<1>5. ASSUME NEW j \in Jobs
      PROVE  /\ Active(j)' <=> entry'[j].state = "assigned"
             /\ job'[j].state \in Terminal => entry'[j].state = "closed"
  <2>1. /\ Active(j)' <=> account'[j].rsv = "active"
        /\ job'[j].state \in Terminal <=> account'[j].rsv \in Over
    <3>1. (MaterialInv => (Active(j) <=> account[j].rsv = "active")
                          /\ (job[j].state \in Terminal <=> account[j].rsv \in Over))'
      BY ReservationTells, PTL
    <3> QED  BY <3>1
  <2> QED  BY <2>1 DEF EntriesFit
<1> QED  BY <1>2, <1>4, <1>5 DEF LineageInv

\* What the reservations say of the entries before a step.
LEMMA EntryOf ==
  ASSUME MaterialInv, LineageInv, NEW x \in Jobs
  PROVE  /\ entry[x] \in Entry
         /\ account[x].rsv = "active" <=> entry[x].state = "assigned"
         /\ account[x].rsv \in Over => entry[x].state = "closed"
BY RowOf, ReservationTells DEF LineageInv

LEMMA StillFits ==
  ASSUME MaterialInv, LineageInv, UNCHANGED entry,
         \A x \in Jobs : account'[x].rsv = account[x].rsv \/ {account[x].rsv, account'[x].rsv} \subseteq Over
  PROVE  EntriesFit
BY EntryOf DEF EntriesFit, Over

\* One entry, and with it one reservation, changes.
LEMMA OneEntry ==
  ASSUME MaterialInv, LineageInv, NEW e \in Jobs, NEW n, NEW b,
         entry' = [entry EXCEPT ![e] = n], account' = [account EXCEPT ![e] = b],
         n.origin = entry[e].origin, n.state # "absent", entry[e].state = "closed" => n.state = "closed",
         b.rsv = "active" <=> n.state = "assigned", b.rsv \in Over => n.state = "closed"
  PROVE  EntriesFit
<1>1. entry'[e] = n /\ account'[e] = b
  BY DEF MaterialInv, TypeOK
<1>2. \A x \in Jobs \ {e} : entry'[x] = entry[x] /\ account'[x] = account[x]
  BY DEF MaterialInv, TypeOK
<1> QED  BY <1>1, <1>2, EntryOf DEF EntriesFit

\* A fresh entry follows e, which is closed and has no successor.
LEMMA OneFollows ==
  ASSUME MaterialInv, LineageInv, NEW e \in Jobs, NEW f \in FreshEntries, Successor(e) = {},
         f # e, entry'[e].state = "closed", entry'[e].origin = entry[e].origin,
         account'[e].rsv \in Over,
         entry'[f] = [state |-> "queued", closed |-> "none", origin |-> e],
         \A x \in Jobs \ {e, f} : entry'[x] = entry[x], \A x \in Jobs \ {e} : account'[x] = account[x]
  PROVE  EntriesFit
<1>1. f \in Jobs /\ entry[f].state = "absent"
  <2>1. \A x \in Jobs : [y \in Jobs |-> entry[y].state # "absent"][x] = (entry[x].state # "absent")
    OBVIOUS
  <2> QED  BY <2>1 DEF FreshEntries, Fresh
<1>2. entry'[f].origin = e /\ entry'[f].state = "queued"
  OBVIOUS
<1>3. Follows(f)
  <2>1. \A y \in Jobs \ {f} : entry'[y].origin = entry[y].origin
    OBVIOUS
  <2> QED  BY <1>1, <1>2, <2>1 DEF Follows
<1>4. ASSUME NEW x \in Jobs  PROVE entry'[x].origin = entry[x].origin \/ Follows(x)
  BY <1>3
<1>5. ASSUME NEW x \in Jobs
      PROVE  /\ entry[x].state = "closed" => entry'[x].state = "closed"
             /\ entry[x].state # "absent" => entry'[x].state # "absent"
             /\ account'[x].rsv = "active" <=> entry'[x].state = "assigned"
             /\ account'[x].rsv \in Over => entry'[x].state = "closed"
  <2>1. CASE x = e
    BY <2>1 DEF Over
  <2>2. CASE x = f
    <3>1. account[f].rsv # "active" /\ account[f].rsv \notin Over
      BY <1>1, EntryOf
    <3> QED  BY <1>1, <1>2, <2>2, <3>1
  <2>3. CASE x \notin {e, f}
    BY <2>3, EntryOf
  <2> QED  BY <2>1, <2>2, <2>3
<1> QED  BY <1>4, <1>5 DEF EntriesFit

LEMMA ReservationEnds ==
  ASSUME NEW a \in Account
  PROVE  /\ Consumed(a).rsv = "consumed" /\ Questioned(a).rsv = "unresolved" /\ AskUnknown(a).rsv = a.rsv
         /\ \A state \in Terminal : EndAccount(a, state).rsv \in Over
<1>1. Consumed(a).rsv = "consumed" /\ Questioned(a).rsv = "unresolved" /\ AskUnknown(a).rsv = a.rsv
  BY DEF Consumed, Questioned, AskUnknown, Account
<1>2. \A state : EndAccount(a, state) = Consumed(a) \/ EndAccount(a, state) = Questioned(a)
  BY Zenon DEF EndAccount
<1> QED  BY <1>1, <1>2 DEF Over

LEMMA ClosedEntry ==
  ASSUME MaterialInv, NEW e \in Jobs, NEW why
  PROVE  Closed(e, why).state = "closed" /\ Closed(e, why).origin = entry[e].origin
BY RowOf DEF Closed, Entry


LEMMA FreshIsAbsent == ASSUME NEW f \in FreshEntries  PROVE f \in Jobs /\ entry[f].state = "absent"
<1>1. \A x \in Jobs : [y \in Jobs |-> entry[y].state # "absent"][x] = (entry[x].state # "absent")
  OBVIOUS
<1> QED  BY <1>1 DEF FreshEntries, Fresh

LEMMA QueueEntriesFit ==
  ASSUME MaterialInv, LineageInv, QueueStep
  PROVE  EntriesFit
<1>1. PICK e \in Jobs : CreateEntry(e) \/ RemoveEntry(e) \/ Retry(e) \/ \E p \in Printers : Assign(e, p)
  BY DEF QueueStep
<1>2. /\ entry[e] \in Entry /\ account[e] \in Account
      /\ account[e].rsv = "active" <=> entry[e].state = "assigned"
      /\ account[e].rsv \in Over => entry[e].state = "closed"
  BY RowOf, EntryOf
<1>3. account = [account EXCEPT ![e] = account[e]]
  BY DEF MaterialInv, TypeOK
<1>4. CASE CreateEntry(e)
  <2> DEFINE n == [entry[e] EXCEPT !.state = "queued"]
  <2>1. entry[e].state = "absent"
    BY <1>4, FreshIsAbsent DEF CreateEntry
  <2>2. n.origin = entry[e].origin /\ n.state = "queued"
    BY <1>2 DEF Entry
  <2>3. entry' = [entry EXCEPT ![e] = n] /\ account' = [account EXCEPT ![e] = account[e]]
    BY <1>3, <1>4 DEF CreateEntry
  <2> HIDE DEF n
  <2> QED  BY <1>2, <2>1, <2>2, <2>3, OneEntry
<1>5. CASE RemoveEntry(e)
  <2> DEFINE n == [entry[e] EXCEPT !.state = "closed", !.closed = "removed"]
  <2>1. n.origin = entry[e].origin /\ n.state = "closed"
    BY <1>2 DEF Entry
  <2>2. entry' = [entry EXCEPT ![e] = n] /\ account' = [account EXCEPT ![e] = account[e]] /\ entry[e].state = "queued"
    BY <1>3, <1>5 DEF RemoveEntry
  <2> HIDE DEF n
  <2> QED  BY <1>2, <2>1, <2>2, OneEntry
<1>6. ASSUME NEW p \in Printers, Assign(e, p)  PROVE EntriesFit
  <2> DEFINE n == [entry[e] EXCEPT !.state = "assigned"]
             b == [account[e] EXCEPT !.rsv = "active"]
  <2>1. n.origin = entry[e].origin /\ n.state = "assigned" /\ b.rsv = "active"
    BY <1>2 DEF Entry, Account
  <2>2. entry' = [entry EXCEPT ![e] = n] /\ account' = [account EXCEPT ![e] = b] /\ entry[e].state = "queued"
    BY <1>6 DEF Assign
  <2> HIDE DEF n, b
  <2> QED  BY <2>1, <2>2, OneEntry DEF Over
<1>7. CASE Retry(e)
  <2>1. PICK f \in FreshEntries : entry' = [entry EXCEPT ![f] = [state |-> "queued", closed |-> "none", origin |-> e]]
    BY <1>7 DEF Retry
  <2>2. f \in Jobs /\ entry[f].state = "absent"
    BY FreshIsAbsent
  <2>3. Successor(e) = {} /\ account' = account /\ account[e].rsv \in Over
    BY <1>7, ReservationTells DEF Retry
  <2>4. entry[e].state = "closed" /\ f # e
    BY <1>2, <2>2, <2>3
  <2>5. /\ entry'[f] = [state |-> "queued", closed |-> "none", origin |-> e]
        /\ \A x \in Jobs \ {f} : entry'[x] = entry[x]
    BY <2>1, <2>2 DEF MaterialInv, TypeOK
  <2> QED  BY <2>3, <2>4, <2>5, OneFollows
<1> QED  BY <1>1, <1>4, <1>5, <1>6, <1>7

\* A Job that ends takes its entry out of the queue.
LEMMA JobEnds ==
  ASSUME MaterialInv, LineageInv, NEW j \in Jobs, NEW b, b.rsv \in Over, NEW why,
         account' = [account EXCEPT ![j] = b], entry' = [entry EXCEPT ![j] = Closed(j, why)]
  PROVE  EntriesFit
<1>1. Closed(j, why).state = "closed" /\ Closed(j, why).origin = entry[j].origin
  BY ClosedEntry
<1> QED  BY <1>1, OneEntry DEF Over

LEMMA CommandEntriesFit ==
  ASSUME MaterialInv, LineageInv, JobCommand
  PROVE  EntriesFit
<1>1. PICK j \in Jobs :
        \/ Release(j) \/ CancelBeforeStart(j) \/ Settle(j) \/ Defer(j) \/ Correct(j)
        \/ \E s \in Terminal : Declare(j, s)
  BY DEF JobCommand
<1>2. account[j] \in Account /\ entry[j] \in Entry /\ account \in [Jobs -> Account]
  BY RowOf DEF MaterialInv, TypeOK
<1>3. [account[j] EXCEPT !.rsv = "released"].rsv = "released"
  BY <1>2 DEF Account
<1>4. CASE Release(j)
  <2> DEFINE b == [account[j] EXCEPT !.rsv = "released"]
  <2>1. PICK f \in FreshEntries :
          entry' = [entry EXCEPT ![j] = Closed(j, "released"),
                                 ![f] = [state |-> "queued", closed |-> "none", origin |-> j]]
    BY <1>4 DEF Release
  <2>2. f \in Jobs /\ entry[f].state = "absent"
    BY FreshIsAbsent
  <2>3. account' = [account EXCEPT ![j] = b] /\ job[j].state \in BeforeStart
    BY <1>4 DEF Release, EndBeforeStart, Legal, Sources
  <2>4. entry[j].state = "assigned" /\ f # j
    BY <2>2, <2>3 DEF LineageInv, Active, BeforeStart, Terminal
  <2>5. Successor(j) = {}
    BY <2>4, NoneIsNot DEF Successor, LineageInv
  <2>6. /\ entry'[j] = Closed(j, "released") /\ entry'[f] = [state |-> "queued", closed |-> "none", origin |-> j]
        /\ \A x \in Jobs \ {j, f} : entry'[x] = entry[x]
    BY <2>1, <2>2, <2>4 DEF MaterialInv, TypeOK
  <2>7. entry'[j].state = "closed" /\ entry'[j].origin = entry[j].origin
    BY <2>6, ClosedEntry
  <2>8. account'[j].rsv \in Over /\ \A x \in Jobs \ {j} : account'[x] = account[x]
    BY <1>2, <1>3, <2>3 DEF Over
  <2> QED  BY <2>4, <2>5, <2>6, <2>7, <2>8, OneFollows
<1>5. CASE CancelBeforeStart(j)
  <2> DEFINE b == [account[j] EXCEPT !.rsv = "released"]
  <2>1. account' = [account EXCEPT ![j] = b] /\ entry' = [entry EXCEPT ![j] = Closed(j, "cancelled")]
    BY <1>5 DEF CancelBeforeStart, EndBeforeStart
  <2>2. b.rsv \in Over
    BY <1>3 DEF Over
  <2> HIDE DEF b
  <2> QED  BY <2>1, <2>2, JobEnds
<1>6. ASSUME NEW s \in Terminal, Declare(j, s)  PROVE EntriesFit
  <2> DEFINE c == EndAccount(account[j], s)
             u == IF c.unknown = "none" THEN c.unknown ELSE "resolved"
             b == [c EXCEPT !.unknown = u]
  <2>1. account' = [account EXCEPT ![j] = b] /\ entry' = [entry EXCEPT ![j] = Closed(j, s)]
    BY <1>6 DEF Declare, EntryEnds
  <2>2. c.rsv \in Over
    BY <1>2, ReservationEnds
  <2>3. c = Consumed(account[j]) \/ c = Questioned(account[j])
    BY Zenon DEF EndAccount
  <2> HIDE DEF u
  <2>4. [Consumed(account[j]) EXCEPT !.unknown = u].rsv = Consumed(account[j]).rsv
        /\ [Questioned(account[j]) EXCEPT !.unknown = u].rsv = Questioned(account[j]).rsv
    BY <1>2 DEF Consumed, Questioned, Account
  <2>5. b.rsv \in Over
    BY <2>2, <2>3, <2>4
  <2> HIDE DEF b
  <2> QED  BY <2>1, <2>5, JobEnds
<1>7. CASE Settle(j)
  <2>1. account' = [account EXCEPT ![j] = [Consumed(account[j]) EXCEPT !.material = "resolved"]] /\ UNCHANGED entry
        /\ job[j].state \in Terminal
    BY <1>7 DEF Settle, Legal, Sources, Terminal
  <2>2. [Consumed(account[j]) EXCEPT !.material = "resolved"].rsv = "consumed"
    BY <1>2 DEF Consumed, Account
  <2>3. account[j].rsv \in Over
    BY <2>1, ReservationTells
  <2>4. account'[j].rsv = "consumed" /\ \A x \in Jobs \ {j} : account'[x] = account[x]
    BY <1>2, <2>1, <2>2
  <2> QED  BY <2>1, <2>3, <2>4, StillFits DEF Over
<1>8. CASE Defer(j)
  <2>1. account' = [account EXCEPT ![j].material = "deferred"] /\ UNCHANGED entry
    BY <1>8 DEF Defer
  <2>2. [account[j] EXCEPT !.material = "deferred"].rsv = account[j].rsv
    BY <1>2 DEF Account
  <2>3. \A x \in Jobs : account'[x].rsv = account[x].rsv
    BY <1>2, <2>1, <2>2
  <2> QED  BY <2>1, <2>3, StillFits
<1>9. CASE Correct(j)
  BY <1>9, StillFits DEF Correct
<1> QED  BY <1>1, <1>4, <1>5, <1>6, <1>7, <1>8, <1>9

LEMMA OutcomeEntriesFit ==
  ASSUME MaterialInv, LineageInv, NEW S, NEW st, ApplyTo(S, st), UNCHANGED entry
  PROVE  EntriesFit
<1>1. \A x \in Jobs : account'[x] = account[x] \/ account'[x] = AskUnknown(account[x])
  BY DEF ApplyTo
<1>2. \A x \in Jobs : account'[x].rsv = account[x].rsv
  BY <1>1, RowOf, ReservationEnds
<1> QED  BY <1>2, StillFits

LEMMA PollEntriesFit ==
  ASSUME MaterialInv, LineageInv, ApplyPoll
  PROVE  EntriesFit
<1> DEFINE j == poll.job
<1>1. j \in Jobs /\ account[j] \in Account /\ account \in [Jobs -> Account]
  <2>1. j \in Jobs
    BY DEF ApplyPoll, MaterialInv, TypeOK, Poll
  <2> QED  BY <2>1, RowOf DEF MaterialInv, TypeOK
<1>2. CASE UNCHANGED <<entry, account>>
  BY <1>2, StillFits
<1>3. ASSUME NEW low, NEW reports, Reading(j, low, reports)  PROVE EntriesFit
  <2>1. \/ \E verdict \in Terminal : /\ account' = [account EXCEPT ![j] = EndAccount(account[j], verdict)]
                                     /\ entry' = [entry EXCEPT ![j] = Closed(j, verdict)]
        \/ account' = [account EXCEPT ![j] = AskUnknown(account[j])] /\ UNCHANGED entry
        \/ UNCHANGED <<entry, account>>
    BY <1>3 DEF Reading, EntryEnds
  <2>2. ASSUME NEW verdict \in Terminal, account' = [account EXCEPT ![j] = EndAccount(account[j], verdict)],
               entry' = [entry EXCEPT ![j] = Closed(j, verdict)]
        PROVE  EntriesFit
    BY <1>1, <2>2, ReservationEnds, JobEnds
  <2>3. CASE account' = [account EXCEPT ![j] = AskUnknown(account[j])] /\ UNCHANGED entry
    <3>1. \A x \in Jobs : account'[x].rsv = account[x].rsv
      BY <1>1, <2>3, ReservationEnds
    <3> QED  BY <2>3, <3>1, StillFits
  <2> QED  BY <1>2, <2>1, <2>2, <2>3
<1> QED  BY <1>2, <1>3 DEF ApplyPoll

LEMMA LineageNext == (MaterialInv /\ LineageInv) /\ [Next]_vars => LineageInv'
<1> SUFFICES ASSUME MaterialInv, LineageInv, [Next]_vars  PROVE LineageInv'
  OBVIOUS
<1>1. ASSUME UNCHANGED <<entry, account>>  PROVE EntriesFit
  BY <1>1, StillFits
<1>2. ASSUME HandOff  PROVE UNCHANGED <<entry, account>>
  BY <1>2 DEF HandOff, Check, Commit, Refuse, OperatorAsks, DriverStages, DriverStarts, Ask, RecordRefusal, durable
<1>3. ASSUME HostOperation  PROVE UNCHANGED <<entry, account>>
  BY <1>3 DEF HostOperation, Dispatch, Vanish, Happen, Succeed, Abandon, Fail, durable
<1>4. ASSUME World  PROVE UNCHANGED <<entry, account>>
  BY <1>4 DEF World, MoveSpool, SetStartSafety, GoOnline, GoOffline, SetConnection, Outside, PrintEnds, UnreachableLong, durable
<1>5. ASSUME DriverStep  PROVE EntriesFit
  <2>1. ASSUME NEW j \in Jobs, ApplyOutcome(j)  PROVE EntriesFit
    BY <2>1, OutcomeEntriesFit DEF ApplyOutcome
  <2>2. ASSUME NEW j \in Jobs, Follow(j) \/ ReadHistory(j)  PROVE UNCHANGED <<entry, account>>
    BY <2>2 DEF Follow, ReadHistory, durable
  <2> QED  BY <1>1, <1>5, <2>1, <2>2, StillFits, PollEntriesFit DEF DriverStep
<1>6. ASSUME Restart  PROVE EntriesFit
  BY <1>6, OutcomeEntriesFit DEF Restart
<1>7. EntriesFit
  <2>1. CASE UNCHANGED vars
    BY <2>1, StillFits DEF vars, durable
  <2> QED  BY <1>2, <1>3, <1>4, <1>5, <1>6, <2>1, StillFits, QueueEntriesFit, CommandEntriesFit DEF Next
<1> QED  BY <1>7, MaterialNext, LineageFits

LEMMA LineageAlways == Spec => [](MaterialInv /\ LineageInv)
<1>1. Init => LineageInv
  <2> SUFFICES ASSUME Init  PROVE LineageInv
    OBVIOUS
  <2>1. \A x \in Jobs : entry[x].state = "absent" /\ entry[x].origin = None
    BY DEF Init
  <2>2. \A x \in Jobs : job[x].state = "absent"
    <3>1. PICK p \in Printers : job = [j \in Jobs |-> NoJob(p)]
      BY DEF Init
    <3> QED  BY <3>1 DEF NoJob
  <2> QED  BY <2>1, <2>2 DEF LineageInv, Active, Terminal
<1>2. (MaterialInv /\ LineageInv) /\ [Next]_vars => (MaterialInv /\ LineageInv)'
  BY MaterialNext, LineageNext
<1> QED  BY <1>1, <1>2, MaterialInit, PTL DEF Spec

\* No print stands for two Jobs and no work for two entries: of the entries that follow one
\* another only the newest can be open (queue/repository.rs create_linked, apply).
THEOREM JobsNothingTwice == Spec => []NothingTwice
<1>1. LineageInv => OneOpenPerLineage
  <2> SUFFICES ASSUME LineageInv, NEW e \in Jobs, Successor(e) # {}
               PROVE  entry[e].state = "closed" /\ Cardinality(Successor(e)) = 1
    BY DEF OneOpenPerLineage
  <2>1. PICK f \in Jobs : entry[f].origin = e
    BY DEF Successor
  <2>2. Successor(e) = {f}
    BY <2>1, NoneIsNot DEF Successor, LineageInv
  <2>3. Cardinality({f}) = 1
    BY FS_Singleton
  <2> QED  BY <2>1, <2>2, <2>3, NoneIsNot DEF LineageInv
<1>2. PinsInv /\ LineageInv => NothingTwice
  BY <1>1 DEF NothingTwice, PinsInv
<1> QED  BY <1>2, PinsAlways, LineageAlways, PTL
=============================================================================

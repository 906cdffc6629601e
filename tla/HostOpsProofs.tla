--------------------------- MODULE HostOpsProofs ---------------------------
(***************************************************************************)
(* Theorems of the Host Operations, for any Printers, operations,          *)
(* endpoints and bounds.                                                   *)
(***************************************************************************)
EXTENDS HostOpsInv, HostOpsRefinement, TLAPS

\* Somebody's change at a host leaves a host.
LEMMA OutsideTyped ==
  ASSUME NEW h \in Host, NEW k \in OutsideChanges(h)
  PROVE  k \in Host
<1> USE BoundsAssumption
<1>1. CASE \E f \in Paths : h.jobs < MaxJobs /\ k = StartPrint(h, f)
  BY <1>1 DEF StartPrint, Host, Paths
<1>2. CASE \E c \in Control : k = Effect(c, h)
  BY <1>2 DEF Effect, Host, Control
<1>3. CASE k = [h EXCEPT !.print = "standby"]
  BY <1>3 DEF Host
<1>4. CASE \E d \in {"absent", "different"} : k = [h EXCEPT !.disk = d]
  BY <1>4 DEF Host
<1> QED  BY <1>1, <1>2, <1>3, <1>4 DEF OutsideChanges

\* An accepted write leaves a host.
LEMMA EffectTyped ==
  ASSUME NEW e \in Endpoints, NEW k \in AllKinds, host[e] \in Host, HostAccepts(k, e)
  PROVE  Effect(k, host[e]) \in Host
BY BoundsAssumption DEF Effect, StartPrint, HostAccepts, Host, AllKinds, Control, Paths

\* Moving a row to a state, and what the status edges change of a Printer.
LEMMA RowTyped ==
  ASSUME NEW r \in Row, NEW s \in RowState
  PROVE  [r EXCEPT !.state = s] \in Row
BY DEF Row

LEMMA AttemptRowTyped ==
  ASSUME NEW r \in Row, NEW s \in RowState, NEW b \in BOOLEAN
  PROVE  [r EXCEPT !.state = s, !.tried = b] \in Row
BY DEF Row

LEMMA ConnectionTyped ==
  ASSUME NEW q \in Printer, NEW c \in Endpoints \cup {None}, NEW b \in BOOLEAN
  PROVE  [q EXCEPT !.conn = c, !.online = FALSE, !.supported = b] \in Printer
BY DEF Printer

LEMMA DeletedTyped ==
  ASSUME NEW q \in Printer
  PROVE  [q EXCEPT !.life = "deleted", !.online = FALSE] \in Printer
BY DEF Printer

LEMMA ArchivedTyped ==
  ASSUME NEW q \in Printer
  PROVE  [q EXCEPT !.life = "archived"] \in Printer
BY DEF Printer

LEMMA OnlineTyped ==
  ASSUME NEW q \in Printer, NEW b \in BOOLEAN
  PROVE  [q EXCEPT !.online = b] \in Printer
BY DEF Printer

LEMMA UnarchivedTyped ==
  ASSUME NEW q \in Printer
  PROVE  [q EXCEPT !.life = "active"] \in Printer
BY DEF Printer

LEMMA DownTyped ==
  ASSUME NEW q \in Printer
  PROVE  [q EXCEPT !.online = FALSE, !.supported = FALSE] \in Printer
BY DEF Printer

LEMMA SupportedTyped ==
  ASSUME NEW q \in Printer, NEW b \in BOOLEAN
  PROVE  [q EXCEPT !.supported = b] \in Printer
BY DEF Printer

LEMMA MarkedTyped ==
  ASSUME NEW r \in Row
  PROVE  [r EXCEPT !.sent = TRUE] \in Row
BY DEF Row

LEMMA SpendTyped ==
  ASSUME NEW B, budget \in [B -> Nat], NEW what \in B, Spend(what)
  PROVE  budget' \in [B -> Nat]
BY DEF Spend

LEMMA InitTyped == Init => TypeOK
BY BoundsAssumption
   DEF Init, TypeOK, NoRow, Row, RowState, Unresolved, Terminal, AllKinds, Control, Paths, ExecPc,
       Outcomes, IdleCmd, Cmd, IdleAtt, Att, Decisions, NetState

LEMMA ExecutorTyped ==
  ASSUME TypeOK, NEW o \in Ops, ExecutorStep(o)
  PROVE  TypeOK'
<1> USE DEF TypeOK, ExecTo
<1>1. CASE PrepareFails(o)  BY <1>1 DEF PrepareFails, durable, world, ExecPc, Outcomes
<1>2. CASE MarkSent(o)
  <2>1. row' \in [Ops -> Row]
    BY <1>2, MarkedTyped DEF MarkSent
  <2> QED  BY <1>2, <2>1 DEF MarkSent, ExecPc, Outcomes, Shows
<1>3. CASE MarkSentFails(o)
  BY <1>3 DEF MarkSentFails, Spend, Bounded, durable, world, ExecPc, Outcomes
<1>4. CASE Send(o)  BY <1>4 DEF Send, durable, ExecPc, Outcomes, NetState
<1>5. CASE Answered(o)  BY <1>5 DEF Answered, durable, world, ExecPc, Outcomes
<1>6. CASE Verify(o)  BY <1>6 DEF Verify, durable, world, ExecPc, Outcomes
<1>7. CASE Panic(o)
  BY <1>7 DEF Panic, PanicOutcome, Spend, Bounded, durable, world, ExecPc, Outcomes
<1>8. CASE CommitOutcome(o)
  <2>1. outcome[o] \in RowState
    BY <1>8 DEF CommitOutcome, Edge, RowState, Unresolved, Terminal
  <2>2. row' \in [Ops -> Row]
    BY <1>8, <2>1, RowTyped DEF CommitOutcome, SetState
  <2>3. timer' \in [Printers -> BOOLEAN]
    BY <1>8 DEF CommitOutcome, ScheduleRetry, Printer
  <2> QED  BY <1>8, <2>2, <2>3 DEF CommitOutcome, world, ExecPc
<1>9. CASE CommitOutcomeFails(o)
  BY <1>9 DEF CommitOutcomeFails, Spend, Bounded, durable, world, ExecPc
<1> QED
  BY <1>1, <1>2, <1>3, <1>4, <1>5, <1>6, <1>7, <1>8, <1>9 DEF ExecutorStep

LEMMA ReconcilerTyped ==
  ASSUME TypeOK, ReconcilerStep
  PROVE  TypeOK'
<1> USE DEF TypeOK
<1>1. ASSUME NEW o \in Ops, BeginAttempt(o)  PROVE TypeOK'
  <2>1. row' \in [Ops -> Row]
    <3>1. "reconciling" \in RowState
      BY DEF RowState, Unresolved
    <3> QED  BY <1>1, <3>1, RowTyped DEF BeginAttempt, SetState
  <2>2. att' \in [Printers -> Att]
    <3>1. [op |-> o, decision |-> "none"] \in Att
      BY DEF Att, Decisions
    <3> QED  BY <1>1, <3>1 DEF BeginAttempt
  <2> QED  BY <1>1, <2>1, <2>2 DEF BeginAttempt, world
<1>2. ASSUME NEW o \in Ops, BeginAttemptFails(o)  PROVE TypeOK'
  BY <1>2 DEF BeginAttemptFails, Spend, Bounded, durable, world
<1>3. ASSUME NEW o \in Ops, CheckAgain(o)  PROVE TypeOK'
  BY <1>3 DEF CheckAgain, durable, world, Row
<1>4. ASSUME NEW o \in Ops, Abandon(o)  PROVE TypeOK'
  <2>1. row' \in [Ops -> Row]
    BY <1>4, RowTyped DEF Abandon, SetState, RowState, Terminal
  <2> QED  BY <1>4, <2>1 DEF Abandon, world
<1>5. ASSUME NEW p \in Printers, Decide(p)  PROVE TypeOK'
  BY <1>5 DEF Decide, durable, world, Att
<1>6. ASSUME NEW p \in Printers, EndAttempt(p)  PROVE TypeOK'
  <2>1. att[p].op \in Ops  BY <1>6 DEF EndAttempt, Att
  <2>2. row' \in [Ops -> Row]
    <3> DEFINE r == row[att[p].op]
               s == AttemptTarget(att[p].decision)
    <3>1. s \in RowState
      BY DEF AttemptTarget, RowState, Unresolved, Terminal
    <3>2. [r EXCEPT !.state = s, !.tried = @ \/ s = "uncertain"] \in Row
      <4>1. (r.tried \/ s = "uncertain") \in BOOLEAN  BY <2>1 DEF Row
      <4> HIDE DEF s
      <4> QED  BY <2>1, <3>1, <4>1, AttemptRowTyped
    <3>3. row' = [row EXCEPT ![att[p].op] =
                    [r EXCEPT !.state = s, !.tried = @ \/ s = "uncertain"]]
      BY <1>6, <2>1 DEF EndAttempt
    <3> QED  BY <3>2, <3>3
  <2>3. timer' \in [Printers -> BOOLEAN]
    BY <1>6 DEF EndAttempt, ScheduleRetry, Printer
  <2>4. att' \in [Printers -> Att]
    BY <1>6 DEF EndAttempt, IdleAtt, Att, Decisions
  <2> QED  BY <1>6, <2>2, <2>3, <2>4 DEF EndAttempt, world
<1>7. ASSUME NEW p \in Printers, EndAttemptFails(p)  PROVE TypeOK'
  BY <1>7 DEF EndAttemptFails, Spend, Bounded, durable, world, IdleAtt, Att, Decisions
<1>8. ASSUME NEW p \in Printers, TimerFires(p)  PROVE TypeOK'
  BY <1>8 DEF TimerFires, QueueUncertain, Uncertain, durable, world
<1>9. ASSUME NEW p \in Printers, OnOnline(p)  PROVE TypeOK'
  <2>1. PICK s \in BOOLEAN :
          printer' = [printer EXCEPT ![p].supported = s /\ printer[p].conn # None]
    BY <1>9 DEF OnOnline
  <2>2. [printer[p] EXCEPT !.supported = s /\ printer[p].conn # None] \in Printer
    BY SupportedTyped
  <2> QED  BY <1>9, <2>1, <2>2 DEF OnOnline, QueueUncertain, Uncertain, world
<1> QED
  BY <1>1, <1>2, <1>3, <1>4, <1>5, <1>6, <1>7, <1>8, <1>9 DEF ReconcilerStep

LEMMA CommandTyped ==
  ASSUME TypeOK, NEW p \in Printers, CommandStep(p)
  PROVE  TypeOK'
<1> USE DEF TypeOK
<1>1. ASSUME NEW o \in Ops, NEW k \in AllKinds, CheckWrite(p, o, k)  PROVE TypeOK'
  <2> DEFINE e == printer[p].conn
             c == [op |-> o, kind |-> k, conn |-> e,
                   mark |-> IF k = "start" THEN host[e].jobs ELSE 0,
                   path |-> IF k \in Control THEN host[e].file ELSE "ours"]
  <2>1. e \in Endpoints
    BY <1>1 DEF CheckWrite, Writable, Printer
  <2>2. host[e].jobs \in 0..MaxJobs /\ host[e].file \in Paths
    BY <2>1 DEF Host
  <2>3. c \in Cmd
    BY <2>1, <2>2, BoundsAssumption DEF Cmd, Paths
  <2>4. cmd' = [cmd EXCEPT ![p] = c]
    BY <1>1 DEF CheckWrite
  <2> QED  BY <1>1, <2>3, <2>4 DEF CheckWrite, durable, world
<1>2. CASE WriteAhead(p)
  <2>1. IdleCmd \in Cmd
    BY BoundsAssumption DEF IdleCmd, Cmd, AllKinds, Paths
  <2>2. row' \in [Ops -> Row] /\ exec' \in [Ops -> ExecPc]
    <3> DEFINE c == cmd[p]
               r == [state |-> "dispatching", printer |-> p, kind |-> c.kind, sent |-> FALSE,
                     tried |-> FALSE, endpoint |-> c.conn, mark |-> c.mark, path |-> c.path]
    <3>1. r \in Row
      BY DEF Cmd, Row, RowState, Unresolved
    <3>2. row' = row \/ row' = [row EXCEPT ![c.op] = r]
      BY <1>2 DEF WriteAhead
    <3>3. exec' = exec \/ exec' = [exec EXCEPT ![c.op] = "ready"]
      BY <1>2 DEF WriteAhead
    <3> QED  BY <3>1, <3>2, <3>3 DEF ExecPc
  <2> QED  BY <1>2, <2>1, <2>2 DEF WriteAhead, world
<1>3. CASE CommandFails(p)
  BY <1>3, BoundsAssumption DEF CommandFails, durable, world, Cmd, IdleCmd, AllKinds, Paths
<1> QED  BY <1>1, <1>2, <1>3 DEF CommandStep

LEMMA PrinterTyped ==
  ASSUME TypeOK, NEW p \in Printers, PrinterStep(p)
  PROVE  TypeOK'
<1> USE DEF TypeOK, tasks, world, Spend, Bounded
<1>1. ASSUME NEW c \in Endpoints \cup {None}, SetConnection(p, c)  PROVE TypeOK'
  <2>1. PICK s \in BOOLEAN :
          printer' = [printer EXCEPT ![p].conn = c, ![p].online = FALSE,
                                     ![p].supported = s /\ c # None]
    BY <1>1 DEF SetConnection
  <2>2. printer' = [printer EXCEPT ![p] = [@ EXCEPT !.conn = c, !.online = FALSE,
                                                    !.supported = s /\ c # None]]
    BY <2>1
  <2>3. [printer[p] EXCEPT !.conn = c, !.online = FALSE, !.supported = s /\ c # None] \in Printer
    BY ConnectionTyped
  <2>4. printer' \in [Printers -> Printer]
    BY <2>2, <2>3
  <2> QED  BY <1>1, <2>4 DEF SetConnection
<1>2. CASE Archive(p)
  <2>1. [printer[p] EXCEPT !.life = "archived"] \in Printer  BY ArchivedTyped
  <2> QED  BY <1>2, <2>1 DEF Archive
<1>3. CASE Unarchive(p)
  <2>1. [printer[p] EXCEPT !.life = "active"] \in Printer  BY UnarchivedTyped
  <2> QED  BY <1>3, <2>1 DEF Unarchive
<1>4. CASE DeletePrinter(p)
  <2>1. row' \in [Ops -> Row]
    BY <1>4, RowTyped DEF DeletePrinter, RowState
  <2>2. printer' = [printer EXCEPT ![p] = [@ EXCEPT !.life = "deleted", !.online = FALSE]]
    BY <1>4 DEF DeletePrinter
  <2>3. [printer[p] EXCEPT !.life = "deleted", !.online = FALSE] \in Printer
    BY DeletedTyped
  <2> QED  BY <1>4, <2>1, <2>2, <2>3 DEF DeletePrinter
<1>5. CASE GoOnline(p)
  <2>1. [printer[p] EXCEPT !.online = TRUE] \in Printer  BY OnlineTyped
  <2> QED  BY <1>5, <2>1 DEF GoOnline
<1>6. CASE GoOffline(p)
  <2>1. [printer[p] EXCEPT !.online = FALSE] \in Printer  BY OnlineTyped
  <2> QED  BY <1>6, <2>1 DEF GoOffline
<1> QED  BY <1>1, <1>2, <1>3, <1>4, <1>5, <1>6 DEF PrinterStep

LEMMA WorldTyped ==
  ASSUME TypeOK, WorldStep
  PROVE  TypeOK'
<1> USE DEF TypeOK, durable, tasks
<1>1. ASSUME NEW o \in Ops, Land(o)  PROVE TypeOK'
  <2> DEFINE e == row[o].endpoint
  <2>1. host' \in [Endpoints -> Host]
    BY <1>1, EffectTyped, NoneAssumption DEF Land, HostBecomes, Row
  <2>2. shown' \in [Ops -> BOOLEAN]
    BY <1>1 DEF Land, HostBecomes, Shows
  <2> QED  BY <1>1, <2>1, <2>2 DEF Land, NetState
<1>2. ASSUME NEW o \in Ops, Drop(o)  PROVE TypeOK'
  BY <1>2 DEF Drop, NetState
<1>3. ASSUME NEW o \in Ops, SettlePasses(o)  PROVE TypeOK'
  BY <1>3 DEF SettlePasses
<1>4. ASSUME NEW e \in Endpoints, PrintEnds(e)  PROVE TypeOK'
  BY SMTT(30), <1>4 DEF PrintEnds, HostBecomes, Shows, Host
<1>5. ASSUME NEW e \in Endpoints, Outside(e)  PROVE TypeOK'
  <2>1. PICK h \in OutsideChanges(host[e]) \ {host[e]} : HostBecomes(e, h)
    BY <1>5 DEF Outside
  <2>2. h \in Host  BY <2>1, OutsideTyped
  <2> QED  BY <1>5, <2>1, <2>2 DEF Outside, HostBecomes, Shows, Spend, Bounded
<1> QED  BY <1>1, <1>2, <1>3, <1>4, <1>5 DEF WorldStep

LEMMA CrashTyped == TypeOK /\ (Crash \/ Restart) => TypeOK'
<1> SUFFICES ASSUME TypeOK, Crash \/ Restart PROVE TypeOK'
  OBVIOUS
<1> USE DEF TypeOK, world
<1>1. CASE Crash
  <2>1. IdleCmd \in Cmd /\ IdleAtt \in Att
    BY BoundsAssumption DEF IdleCmd, Cmd, AllKinds, Paths, IdleAtt, Att, Decisions
  <2>2. \A p \in Printers :
          [printer[p] EXCEPT !.online = FALSE, !.supported = FALSE] \in Printer
    BY DownTyped
  <2>3. printer' \in [Printers -> Printer]
    BY <1>1, <2>2 DEF Crash
  <2>4. exec' \in [Ops -> ExecPc] /\ outcome' \in [Ops -> Outcomes]
    BY <1>1 DEF Crash, ExecPc, Outcomes
  <2>5. cmd' \in [Printers -> Cmd] /\ att' \in [Printers -> Att]
    BY <1>1, <2>1 DEF Crash
  <2>6. budget' \in [Bounded -> Nat]
    BY <1>1, SpendTyped DEF Crash, Bounded
  <2> QED  BY <1>1, <2>3, <2>4, <2>5, <2>6 DEF Crash
<1>2. CASE Restart
  <2>1. row' \in [Ops -> Row]
    BY <1>2, RowTyped DEF Restart, Recovered, RowState, Unresolved, Terminal
  <2>2. printer' \in [Printers -> Printer]
    <3>1. PICK S \in SUBSET {p \in Printers : printer[p].conn # None} :
            printer' = [p \in Printers |-> [printer[p] EXCEPT !.supported = p \in S]]
      BY <1>2 DEF Restart
    <3>2. \A p \in Printers : [printer[p] EXCEPT !.supported = p \in S] \in Printer
      <4> TAKE p \in Printers
      <4>1. (p \in S) \in BOOLEAN  OBVIOUS
      <4> QED  BY <4>1, SupportedTyped
    <3> QED  BY <3>1, <3>2
  <2> QED  BY <1>2, <2>1, <2>2 DEF Restart
<1> QED  BY <1>1, <1>2

LEMMA StepTyped == TypeOK /\ [Next]_vars => TypeOK'
<1> SUFFICES ASSUME TypeOK, [Next]_vars PROVE TypeOK'
  OBVIOUS
<1>1. CASE UNCHANGED vars
  BY <1>1 DEF vars, durable, tasks, world, TypeOK
<1> QED
  BY <1>1, ExecutorTyped, ReconcilerTyped, CommandTyped, PrinterTyped, WorldTyped, CrashTyped
     DEF Next

\* Every variable keeps its type.
THEOREM TypeCorrect == Spec => []TypeOK
BY InitTyped, StepTyped, PTL DEF Spec

(***************************************************************************)
(* The safety of the dispatch and of the reconciliation.                   *)
(***************************************************************************)
\* Moving a row to a state changes nothing else of the table.
LEMMA RowMoves ==
  ASSUME row \in [Ops -> Row], NEW o \in Ops, NEW s, SetState(o, s)
  PROVE  /\ DOMAIN row' = Ops
         /\ \A q \in Ops : /\ row'[q].state = IF q = o THEN s ELSE row[q].state
                           /\ row'[q].printer = row[q].printer
                           /\ row'[q].kind = row[q].kind
                           /\ row'[q].sent = row[q].sent
                           /\ row'[q].endpoint = row[q].endpoint
BY DEF SetState, Row

LEMMA InitInductive == Init => Inductive
BY NoneAssumption
   DEF Init, Inductive, DownIsIdle, SentIsRecorded, ExecutorKnows, AttemptKnows, SettledIsOver,
       OneUnresolved, EndpointKept, FailedIsQuiet, NoRow, Unresolved, IdleAtt

LEMMA ExecutorInductive ==
  ASSUME TypeOK, Inductive, NEW o \in Ops, ExecutorStep(o)
  PROVE  Inductive'
<1> USE DEF Inductive, DownIsIdle, SentIsRecorded, ExecutorKnows, AttemptKnows, SettledIsOver,
            OneUnresolved, EndpointKept, FailedIsQuiet, TypeOK, Unresolved, ExecTo
<1>1. CASE PrepareFails(o)  BY <1>1 DEF PrepareFails, durable, world
<1>2. CASE MarkSent(o)  BY <1>2 DEF MarkSent
<1>3. CASE MarkSentFails(o)  BY <1>3 DEF MarkSentFails, durable, world
<1>4. CASE Send(o)  BY <1>4 DEF Send, durable
<1>5. CASE Answered(o)
  <2>1. PICK a \in Answers(net[o]) :
          \/ a = "definitive" /\ ExecTo(o, "commit", "failed")
          \/ a = "indeterminate" /\ ExecTo(o, "commit", "uncertain")
          \/ a = "ok" /\ row[o].kind = "start" /\ ExecTo(o, "commit", "succeeded")
          \/ a = "ok" /\ row[o].kind # "start" /\ ExecTo(o, "verifying", "none")
    BY <1>5 DEF Answered
  <2>2. a = "definitive" => net[o] = "refused"
    BY DEF Answers
  <2>3. exec[o] = "sending" /\ UNCHANGED <<row, printer, net, sends, settled>>
    BY <1>5 DEF Answered, durable, world
  <2> QED  BY <2>1, <2>2, <2>3
<1>6. CASE Verify(o)
  <2>1. PICK out \in {"succeeded", "uncertain"} : ExecTo(o, "commit", out)
    BY <1>6 DEF Verify
  <2>2. exec[o] = "verifying" /\ UNCHANGED <<row, printer, net, sends, settled>>
    BY <1>6 DEF Verify, durable, world
  <2> QED  BY <2>1, <2>2
<1>7. CASE Panic(o)  BY <1>7 DEF Panic, PanicOutcome, durable, world
<1>8. CASE CommitOutcome(o)  BY <1>8 DEF CommitOutcome, SetState, Edge, LockFree, world
<1>9. CASE CommitOutcomeFails(o)  BY <1>9 DEF CommitOutcomeFails, durable, world
<1> QED
  BY <1>1, <1>2, <1>3, <1>4, <1>5, <1>6, <1>7, <1>8, <1>9 DEF ExecutorStep

LEMMA ReconcilerInductive ==
  ASSUME TypeOK, Inductive, ReconcilerStep
  PROVE  Inductive'
<1> USE DEF Inductive, DownIsIdle, SentIsRecorded, ExecutorKnows, AttemptKnows, SettledIsOver,
            OneUnresolved, EndpointKept, FailedIsQuiet, TypeOK, Unresolved
<1>1. ASSUME NEW o \in Ops, BeginAttempt(o)  PROVE Inductive'
  <2>1. CASE UNCHANGED <<row, att>>
    BY <1>1, <2>1 DEF BeginAttempt, world
  <2>2. CASE /\ row[o].state = "uncertain"
             /\ SetState(o, "reconciling")
             /\ att' = [att EXCEPT ![row[o].printer] = [op |-> o, decision |-> "none"]]
    <3>1. att[row[o].printer].op = None /\ row[o].printer \in Printers
      BY <1>1 DEF BeginAttempt, LockFree, Row
    <3>2. /\ up /\ queued' = [queued EXCEPT ![o] = FALSE]
          /\ UNCHANGED <<up, printer, exec, outcome, cmd, net, sends, settled>>
      BY <1>1 DEF BeginAttempt, world
    <3>3. \A q \in Ops : /\ row'[q].state = IF q = o THEN "reconciling" ELSE row[q].state
                         /\ row'[q].printer = row[q].printer
                         /\ row'[q].kind = row[q].kind
                         /\ row'[q].sent = row[q].sent
                         /\ row'[q].endpoint = row[q].endpoint
      BY <2>2, RowMoves
    <3>4. AttemptKnows'
      <4> SUFFICES ASSUME NEW p \in Printers, att'[p].op # None
                   PROVE  /\ row'[att'[p].op].state = "reconciling"
                          /\ row'[att'[p].op].printer = p
                          /\ att'[p].decision = "notApplied" =>
                               row'[att'[p].op].kind = "upload" /\ settled'[att'[p].op]
        OBVIOUS
      <4>1. CASE p = row[o].printer
        BY <2>2, <3>1, <3>3, <4>1
      <4>2. CASE p # row[o].printer
        <5>1. att'[p] = att[p] /\ att[p].op \in Ops
          BY <2>2, <4>2 DEF Att
        <5> QED  BY <2>2, <3>2, <3>3, <5>1
      <4> QED  BY <4>1, <4>2
    <3>5. SentIsRecorded'
      BY <3>2, <3>3
    <3> HIDE DEF TypeOK
    <3>0. row[o].state = "uncertain"
      BY <2>2
    <3>6. SettledIsOver'
      BY SMTT(20), <3>0, <3>2, <3>3
    <3>7. FailedIsQuiet'
      BY SMTT(20), <3>0, <3>2, <3>3
    <3>8. ExecutorKnows'
      BY SMTT(20), <3>0, <3>2, <3>3
    <3>9. OneUnresolved'
      BY SMTT(20), <3>0, <3>2, <3>3
    <3>10. EndpointKept'
      BY SMTT(20), <3>0, <3>2, <3>3
    <3>11. DownIsIdle'
      BY <3>2
    <3> QED  BY <3>4, <3>5, <3>6, <3>7, <3>8, <3>9, <3>10, <3>11
  <2> QED  BY <1>1, <2>1, <2>2 DEF BeginAttempt
<1>2. ASSUME NEW o \in Ops, BeginAttemptFails(o)  PROVE Inductive'
  BY <1>2 DEF BeginAttemptFails, durable, world
<1>3. ASSUME NEW o \in Ops, CheckAgain(o)  PROVE Inductive'
  BY <1>3 DEF CheckAgain, durable, world
<1>4. ASSUME NEW o \in Ops, Abandon(o)  PROVE Inductive'
  BY <1>4 DEF Abandon, SetState, world
<1>5. ASSUME NEW p \in Printers, Decide(p)  PROVE Inductive'
  BY <1>5 DEF Decide, MayDecide, durable, world
<1>6. ASSUME NEW p \in Printers, EndAttempt(p)  PROVE Inductive'
  <2> DEFINE o == att[p].op
  <2>1. /\ up /\ o \in Ops /\ att[p].decision # "none"
        /\ UNCHANGED <<up, printer, exec, outcome, cmd, queued, net, sends, settled>>
    BY <1>6 DEF EndAttempt, Att, world
  <2>2. row[o].state = "reconciling" /\ row[o].printer = p
    BY <1>6, NoneAssumption DEF EndAttempt
  <2>3. /\ row' = [row EXCEPT ![o].state = AttemptTarget(att[p].decision),
                              ![o].tried = @ \/ AttemptTarget(att[p].decision) = "uncertain"]
        /\ att' = [att EXCEPT ![p] = IdleAtt]
    BY <1>6 DEF EndAttempt
  <2>4. /\ AttemptTarget(att[p].decision) \in {"succeeded", "failed", "uncertain"}
        /\ AttemptTarget(att[p].decision) = "failed" => att[p].decision = "notApplied"
    BY <2>1 DEF AttemptTarget, Att, Decisions
  <2>5. /\ row'[o].state \in {"succeeded", "failed", "uncertain"}
        /\ row'[o].state = "failed" => att[p].decision = "notApplied"
        /\ row'[o].kind = row[o].kind /\ row'[o].printer = row[o].printer
        /\ row'[o].endpoint = row[o].endpoint /\ row'[o].sent = row[o].sent
    BY <2>1, <2>3, <2>4 DEF Row
  <2>6. \A q \in Ops : q # o => row'[q] = row[q]
    BY <2>1, <2>3
  <2>7. /\ att'[p].op = None
        /\ \A q \in Printers : q # p => att'[q] = att[q]
    BY <2>3 DEF IdleAtt
  <2> HIDE DEF o
  <2>8. DownIsIdle'  BY <2>1
  <2>9. SentIsRecorded'
    <3>1. sends' = sends /\ net' = net
      BY <2>1
    <3>2. \A q \in Ops : row'[q].sent = row[q].sent
      BY <2>5, <2>6
    <3>3. \A q \in Ops : row'[q].state = "absent" => row[q].state = "absent"
      BY <2>5, <2>6
    <3> QED  BY <3>1, <3>2, <3>3
  <2>10. ExecutorKnows'  BY <2>1, <2>2, <2>5, <2>6
  <2>11. AttemptKnows'
    <3> SUFFICES ASSUME NEW q \in Printers, att'[q].op # None
                 PROVE  /\ row'[att'[q].op].state = "reconciling"
                        /\ row'[att'[q].op].printer = q
                        /\ att'[q].decision = "notApplied" =>
                             row'[att'[q].op].kind = "upload" /\ settled'[att'[q].op]
      OBVIOUS
    <3>1. q # p /\ att'[q] = att[q] /\ att[q].op # None
      BY <2>7
    <3>2. att[q].op \in Ops /\ row[att[q].op].printer = q /\ row[att[q].op].state = "reconciling"
      BY <3>1 DEF Att
    <3>3. att[q].op # o
      BY <2>2, <3>1, <3>2
    <3> QED  BY <2>1, <2>6, <3>1, <3>2, <3>3
  <2>12. SettledIsOver'  BY <2>1, <2>2, <2>5, <2>6
  <2>13. OneUnresolved'  BY <2>1, <2>2, <2>5, <2>6
  <2>14. EndpointKept'  BY <2>1, <2>2, <2>5, <2>6
  <2>15. FailedIsQuiet'
    <3>1. row'[o].state = "failed" => row[o].kind = "upload" /\ settled[o]
      BY <1>6, <2>5, NoneAssumption DEF EndAttempt, o
    <3> QED  BY <2>1, <2>2, <2>5, <2>6, <3>1
  <2> QED  BY <2>8, <2>9, <2>10, <2>11, <2>12, <2>13, <2>14, <2>15
<1>7. ASSUME NEW p \in Printers, EndAttemptFails(p)  PROVE Inductive'
  BY <1>7 DEF EndAttemptFails, IdleAtt, durable, world
<1>8. ASSUME NEW p \in Printers, TimerFires(p)  PROVE Inductive'
  BY <1>8 DEF TimerFires, QueueUncertain, Uncertain, durable, world
<1>9. ASSUME NEW p \in Printers, OnOnline(p)  PROVE Inductive'
  BY <1>9 DEF OnOnline, QueueUncertain, Uncertain, world
<1> QED
  BY <1>1, <1>2, <1>3, <1>4, <1>5, <1>6, <1>7, <1>8, <1>9 DEF ReconcilerStep

\* A write-ahead transaction writes its own fresh row, as not sent, or no row.
LEMMA WriteAheadRow ==
  ASSUME TypeOK, NEW p \in Printers, WriteAhead(p)
  PROVE  /\ \A o \in Ops : o # cmd[p].op => row'[o] = row[o]
         /\ \/ row' = row
            \/ /\ row[cmd[p].op].state = "absent"
               /\ row'[cmd[p].op].state = "dispatching" /\ ~row'[cmd[p].op].sent
         /\ UNCHANGED <<net, sends>>
<1>1. row \in [Ops -> Row] /\ cmd[p].op \in Ops
  BY DEF TypeOK, WriteAhead, Cmd
<1> QED  BY <1>1 DEF WriteAhead, WriteAheadAllowed, world

LEMMA CommandInductive ==
  ASSUME TypeOK, Inductive, NEW p \in Printers, CommandStep(p)
  PROVE  Inductive'
<1> USE DEF Inductive, DownIsIdle, SentIsRecorded, ExecutorKnows, AttemptKnows, SettledIsOver,
            OneUnresolved, EndpointKept, FailedIsQuiet, TypeOK, Unresolved
<1>1. ASSUME NEW o \in Ops, NEW k \in AllKinds, CheckWrite(p, o, k)  PROVE Inductive'
  BY <1>1 DEF CheckWrite, durable, world
<1>2. CASE WriteAhead(p)
  <2>1. DownIsIdle'  BY <1>2 DEF WriteAhead, WriteAheadAllowed, HasUnresolved, IdleCmd, Cmd, world
  <2>2. SentIsRecorded'  BY <1>2, WriteAheadRow
  <2>3. ExecutorKnows'  BY <1>2 DEF WriteAhead, WriteAheadAllowed, HasUnresolved, IdleCmd, Cmd, world
  <2>4. AttemptKnows'
    <3> DEFINE c == cmd[p].op
    <3>1. /\ \A o \in Ops : o # c => row'[o] = row[o]
          /\ row'[c] = row[c] \/ row[c].state = "absent"
          /\ UNCHANGED <<att, settled>>
      BY <1>2 DEF WriteAhead, WriteAheadAllowed, world
    <3>2. \A q \in Printers : att[q].op \in Ops \cup {None}
      BY DEF Att
    <3> QED  BY SMTT(30), <3>1, <3>2
  <2>5. SettledIsOver'  BY SMTT(30), <1>2 DEF WriteAhead, WriteAheadAllowed, HasUnresolved, IdleCmd, Cmd, world
  <2>6. OneUnresolved'  BY SMTT(30), <1>2 DEF WriteAhead, WriteAheadAllowed, HasUnresolved, IdleCmd, Cmd, world
  <2>7. EndpointKept'
    <3> DEFINE c == cmd[p].op
    <3>1. /\ \A o \in Ops : o # c => row'[o] = row[o]
          /\ \/ row'[c] = row[c]
             \/ /\ row'[c].printer = p /\ row'[c].endpoint = printer[p].conn
                /\ printer[p].life = "active"
          /\ UNCHANGED printer
      BY <1>2 DEF WriteAhead, WriteAheadAllowed, Cmd
    <3> QED  BY <3>1
  <2>8. FailedIsQuiet'
    <3> DEFINE c == cmd[p].op
    <3>1. /\ \A o \in Ops : o # c => row'[o] = row[o]
          /\ c \in Ops
          /\ row'[c] = row[c] \/ row'[c].state = "dispatching"
          /\ UNCHANGED net
      BY <1>2 DEF WriteAhead, Cmd, world
    <3> QED  BY <3>1
  <2> QED  BY <2>1, <2>2, <2>3, <2>4, <2>5, <2>6, <2>7, <2>8
<1>3. CASE CommandFails(p)
  BY <1>3 DEF CommandFails, IdleCmd, durable, world
<1> QED  BY <1>1, <1>2, <1>3 DEF CommandStep

LEMMA PrinterInductive ==
  ASSUME TypeOK, Inductive, NEW p \in Printers, PrinterStep(p)
  PROVE  Inductive'
<1> USE DEF Inductive, DownIsIdle, SentIsRecorded, ExecutorKnows, AttemptKnows, SettledIsOver,
            OneUnresolved, EndpointKept, FailedIsQuiet, TypeOK, Unresolved, tasks, world
<1>1. ASSUME NEW c \in Endpoints \cup {None}, SetConnection(p, c)  PROVE Inductive'
  <2>1. DownIsIdle'  BY <1>1 DEF SetConnection, ConnectionChangeAllowed, HasUnresolved
  <2>2. SentIsRecorded'  BY <1>1 DEF SetConnection, ConnectionChangeAllowed, HasUnresolved
  <2>3. ExecutorKnows'  BY <1>1 DEF SetConnection, ConnectionChangeAllowed, HasUnresolved
  <2>4. AttemptKnows'  BY <1>1 DEF SetConnection, ConnectionChangeAllowed, HasUnresolved
  <2>5. SettledIsOver'  BY <1>1 DEF SetConnection, ConnectionChangeAllowed, HasUnresolved
  <2>6. OneUnresolved'  BY <1>1 DEF SetConnection, ConnectionChangeAllowed, HasUnresolved
  <2>7. EndpointKept'
    <3>1. \A o \in Ops : row[o].state \in Unresolved => row[o].printer # p
      BY <1>1 DEF SetConnection, ConnectionChangeAllowed, HasUnresolved
    <3>2. \A q \in Printers : q # p => printer'[q] = printer[q]
      BY <1>1 DEF SetConnection
    <3>3. \A o \in Ops : row[o].printer \in Printers
      BY DEF Row
    <3> QED  BY <1>1, <3>1, <3>2, <3>3 DEF SetConnection
  <2>8. FailedIsQuiet'  BY <1>1 DEF SetConnection, ConnectionChangeAllowed, HasUnresolved
  <2> QED  BY <2>1, <2>2, <2>3, <2>4, <2>5, <2>6, <2>7, <2>8
<1>2. CASE Archive(p)  BY <1>2 DEF Archive, HasUnresolved
<1>3. CASE Unarchive(p)  BY <1>3 DEF Unarchive
<1>4. CASE DeletePrinter(p)  <2>1. DownIsIdle'  BY <1>4 DEF DeletePrinter, HasUnresolved, Terminal
  <2>2. SentIsRecorded'  BY <1>4 DEF DeletePrinter, HasUnresolved, Terminal
  <2>3. ExecutorKnows'  BY <1>4 DEF DeletePrinter, HasUnresolved, Terminal
  <2>4. AttemptKnows'
    <3>1. \A o \in Ops : row[o].state \in Unresolved => row'[o] = row[o]
      BY <1>4 DEF DeletePrinter, Terminal
    <3>2. UNCHANGED <<att, settled>>
      BY <1>4 DEF DeletePrinter
    <3>3. \A q \in Printers : att[q].op \in Ops \cup {None}
      BY DEF Att
    <3> QED  BY <3>1, <3>2, <3>3
  <2>5. SettledIsOver'  BY <1>4 DEF DeletePrinter, HasUnresolved, Terminal
  <2>6. OneUnresolved'  BY <1>4 DEF DeletePrinter, HasUnresolved, Terminal
  <2>7. EndpointKept'
    <3>1. \A o \in Ops : row'[o].state \in Unresolved =>
            row'[o] = row[o] /\ row[o].printer # p /\ row[o].printer \in Printers
      BY <1>4 DEF DeletePrinter, HasUnresolved, Row
    <3>2. \A q \in Printers : q # p => printer'[q] = printer[q]
      BY <1>4 DEF DeletePrinter
    <3> QED  BY <3>1, <3>2
  <2>8. FailedIsQuiet'  BY <1>4 DEF DeletePrinter, HasUnresolved, Terminal
  <2> QED  BY <2>1, <2>2, <2>3, <2>4, <2>5, <2>6, <2>7, <2>8
<1>5. CASE GoOnline(p)  BY <1>5 DEF GoOnline
<1>6. CASE GoOffline(p)  BY <1>6 DEF GoOffline
<1> QED  BY <1>1, <1>2, <1>3, <1>4, <1>5, <1>6 DEF PrinterStep

LEMMA WorldInductive ==
  ASSUME TypeOK, Inductive, WorldStep
  PROVE  Inductive'
<1> USE DEF Inductive, DownIsIdle, SentIsRecorded, ExecutorKnows, AttemptKnows, SettledIsOver,
            OneUnresolved, EndpointKept, FailedIsQuiet, TypeOK, Unresolved, durable, tasks
<1>1. ASSUME NEW o \in Ops, Land(o)  PROVE Inductive'
  BY <1>1 DEF Land
<1>2. ASSUME NEW o \in Ops, Drop(o)  PROVE Inductive'
  BY <1>2 DEF Drop
<1>3. ASSUME NEW o \in Ops, SettlePasses(o)  PROVE Inductive'
  BY <1>3 DEF SettlePasses
<1>4. ASSUME NEW e \in Endpoints, PrintEnds(e)  PROVE Inductive'
  BY <1>4 DEF PrintEnds
<1>5. ASSUME NEW e \in Endpoints, Outside(e)  PROVE Inductive'
  BY <1>5 DEF Outside
<1> QED  BY <1>1, <1>2, <1>3, <1>4, <1>5 DEF WorldStep

LEMMA CrashInductive ==
  ASSUME TypeOK, Inductive, Crash \/ Restart
  PROVE  Inductive'
<1> USE DEF TypeOK
<1>1. \A q \in Printers : printer'[q].life = printer[q].life /\ printer'[q].conn = printer[q].conn
  <2>1. CASE Crash  BY <2>1 DEF Crash, Printer
  <2>2. CASE Restart  BY <2>2 DEF Restart, Printer
  <2> QED  BY <2>1, <2>2
<1>2. \A o \in Ops : /\ row'[o].printer = row[o].printer
                     /\ row'[o].endpoint = row[o].endpoint
                     /\ row'[o].kind = row[o].kind
                     /\ row'[o].sent = row[o].sent
                     /\ row[o].printer \in Printers
                     /\ row'[o].state \in Unresolved => row[o].state \in Unresolved
                     /\ row'[o].state \in {"absent", "dispatching"} => row'[o].state = row[o].state
                     /\ row'[o].state = "absent" <=> row[o].state = "absent"
                     /\ row'[o].state = "failed" =>
                          \/ row[o].state = "failed"
                          \/ row[o].state = "dispatching" /\ ~row[o].sent
  <2>1. CASE Crash
    <3>1. row' = row  BY <2>1 DEF Crash
    <3> QED  BY <3>1 DEF Row
  <2>2. CASE Restart  BY <2>2 DEF Restart, Recovered, Row, Unresolved
  <2> QED  BY <2>1, <2>2
<1>3. /\ up' => Restart
      /\ \A o \in Ops : exec'[o] = "none" /\ (~up' => ~queued'[o])
      /\ \A p \in Printers : cmd'[p].op = None /\ att'[p].op = None
  <2>1. CASE Crash  BY <2>1 DEF Crash, IdleAtt, IdleCmd
  <2>2. CASE Restart  BY <2>2 DEF Inductive, DownIsIdle, Restart
  <2> QED  BY <2>1, <2>2
<1>4. DownIsIdle'
  BY <1>3 DEF DownIsIdle
<1>5. UNCHANGED <<net, sends, settled>>
  BY DEF Crash, Restart, world
<1>6. SentIsRecorded'
  BY <1>2, <1>5 DEF Inductive, SentIsRecorded
<1>7. ExecutorKnows'
  BY <1>3 DEF ExecutorKnows
<1>8. AttemptKnows'
  BY <1>3 DEF AttemptKnows
<1>9. SettledIsOver'
  BY <1>2, <1>5 DEF Inductive, SettledIsOver
<1>10. OneUnresolved'
  BY <1>2 DEF Inductive, OneUnresolved
<1>11. EndpointKept'
  BY <1>1, <1>2 DEF Inductive, EndpointKept
<1>12. FailedIsQuiet'
  BY <1>2, <1>5 DEF Inductive, FailedIsQuiet, SentIsRecorded
<1> QED
  BY <1>4, <1>6, <1>7, <1>8, <1>9, <1>10, <1>11, <1>12 DEF Inductive

LEMMA StepInductive == TypeOK /\ Inductive /\ [Next]_vars => Inductive'
<1> SUFFICES ASSUME TypeOK, Inductive, [Next]_vars PROVE Inductive'
  OBVIOUS
<1>1. CASE UNCHANGED vars
  BY <1>1 DEF vars, durable, tasks, world, Inductive, DownIsIdle, SentIsRecorded, ExecutorKnows,
              AttemptKnows, SettledIsOver, OneUnresolved, EndpointKept, FailedIsQuiet
<1> QED
  BY <1>1, ExecutorInductive, ReconcilerInductive, CommandInductive, PrinterInductive,
     WorldInductive, CrashInductive
     DEF Next

\* What each task knows of its row, and each row of its request, always holds.
THEOREM InductiveHolds == Spec => []Inductive
BY InitInductive, StepInductive, TypeCorrect, PTL DEF Spec

\* A Printer never has two unresolved operations.
THEOREM AtMostOneUnresolved == Spec => []OneUnresolved
<1>1. Inductive => OneUnresolved  BY DEF Inductive
<1> QED  BY <1>1, InductiveHolds, PTL

\* A write is sent at most once, and only after it was committed as sent.
THEOREM NeverSentTwice == Spec => []SentOnce
<1>1. Inductive => SentOnce
  BY DEF Inductive, SentIsRecorded, SentOnce
<1> QED  BY <1>1, InductiveHolds, PTL

\* A failed operation can no longer take effect.
THEOREM FailedStaysQuiet == Spec => []FailedIsQuiet
<1>1. Inductive => FailedIsQuiet  BY DEF Inductive
<1> QED  BY <1>1, InductiveHolds, PTL

\* An unresolved operation keeps its Printer active and on its endpoint.
THEOREM EndpointIsKept == Spec => []EndpointKept
<1>1. Inductive => EndpointKept  BY DEF Inductive
<1> QED  BY <1>1, InductiveHolds, PTL

(***************************************************************************)
(* Terminal rows.                                                          *)
(***************************************************************************)
\* Every step leaves a row alone, moves one that is not terminal, or deletes it.
LEMMA RowSteps ==
  ASSUME TypeOK, Inductive, [Next]_vars, NEW o \in Ops
  PROVE  \/ row'[o] = row[o]
         \/ row[o].state \notin Terminal
         \/ row'[o] = [row[o] EXCEPT !.state = "deleted"]
<1> USE DEF TypeOK, Terminal
<1>1. CASE row' = row
  BY <1>1
<1>2. ASSUME NEW q \in Ops, ExecutorStep(q), row' # row
      PROVE  row[o].state \in Terminal => row'[o] = row[o]
  <2>1. row[q].state = "dispatching" /\ (q # o => row'[o] = row[o])
    BY <1>2 DEF ExecutorStep, PrepareFails, MarkSent, MarkSentFails, Send, Answered, Verify,
                Panic, CommitOutcome, CommitOutcomeFails, SetState, durable, Inductive,
                ExecutorKnows
  <2> QED  BY <2>1
<1>3. ASSUME ReconcilerStep, row' # row
      PROVE  row[o].state \in Terminal => row'[o] = row[o]
  <2>1. PICK q \in Ops : /\ row[q].state \in {"uncertain", "reconciling"}
                         /\ q # o => row'[o] = row[o]
    <3>1. CASE \E q \in Ops : BeginAttempt(q) \/ Abandon(q)
      BY <1>3, <3>1 DEF BeginAttempt, Abandon, SetState
    <3>2. ASSUME NEW p \in Printers, EndAttempt(p)
          PROVE  \E q \in Ops : /\ row[q].state \in {"uncertain", "reconciling"}
                                /\ q # o => row'[o] = row[o]
      <4>1. att[p].op \in Ops /\ row[att[p].op].state = "reconciling"
        BY <3>2 DEF EndAttempt, Att, Inductive, AttemptKnows
      <4> QED  BY <3>2, <4>1 DEF EndAttempt
    <3> QED
      BY <1>3, <3>1, <3>2 DEF ReconcilerStep, BeginAttemptFails, CheckAgain, Decide,
         EndAttemptFails, TimerFires, OnOnline, durable
  <2> QED  BY <2>1
<1>4. ASSUME NEW p \in Printers, CommandStep(p), row' # row
      PROVE  row[o].state \in Terminal => row'[o] = row[o]
  BY <1>4 DEF CommandStep, CheckWrite, WriteAhead, WriteAheadAllowed, CommandFails, durable
<1>5. ASSUME NEW p \in Printers, PrinterStep(p), row' # row
      PROVE  \/ row'[o] = row[o]
             \/ row'[o] = [row[o] EXCEPT !.state = "deleted"]
  BY <1>5 DEF PrinterStep, SetConnection, Archive, Unarchive, DeletePrinter, GoOnline, GoOffline
<1>6. CASE WorldStep
  BY <1>6 DEF WorldStep, Land, Drop, SettlePasses, PrintEnds, Outside, durable
<1>7. CASE Crash
  BY <1>7 DEF Crash
<1>8. CASE Restart
  BY <1>8 DEF Restart, Recovered
<1>9. CASE UNCHANGED vars
  BY <1>9 DEF vars, durable
<1> QED
  BY <1>1, <1>2, <1>3, <1>4, <1>5, <1>6, <1>7, <1>8, <1>9 DEF Next

\* A terminal row never changes, until its Printer is deleted.
THEOREM TerminalRowsAreFinal == Spec => TerminalIsFinal
<1>1. TypeOK /\ Inductive /\ [Next]_vars =>
        [\A o \in Ops : row[o].state \in Terminal =>
           row'[o] \in {row[o], [row[o] EXCEPT !.state = "deleted"]}]_vars
  BY RowSteps
<1> QED  BY <1>1, TypeCorrect, InductiveHolds, PTL DEF Spec, TerminalIsFinal

(***************************************************************************)
(* Success is proved, never assumed.                                       *)
(***************************************************************************)

LEMMA InitEvident == Init => Evident
<1> SUFFICES ASSUME Init PROVE Evident
  OBVIOUS
<1>1. HistoryOrdered
  <2> SUFFICES ASSUME NEW e \in Endpoints PROVE host[e].ours <= host[e].jobs
    BY DEF HistoryOrdered
  <2>1. host[e].jobs \in 0..1 /\ host[e].ours \in {0, host[e].jobs}
    BY DEF Init
  <2> QED  BY <2>1
<1>2. /\ \A o \in Ops : /\ row[o].state = "absent" /\ ~row[o].sent
                        /\ exec[o] = "none" /\ net[o] = "none"
      /\ \A p \in Printers : cmd[p].op = None /\ att[p].op = None
  BY DEF Init, NoRow, IdleCmd, IdleAtt
<1> QED
  BY <1>1, <1>2 DEF Evident, EndpointNamed, Noticed, CheckedWasSent, Checkable, SuccessKnows,
                    SuccessHasEvidence

\* A host's newest job for the staged file never goes back, and is one of its jobs.
LEMMA OutsideGrows ==
  ASSUME NEW h \in Host, h.ours <= h.jobs, NEW k \in OutsideChanges(h)
  PROVE  h.ours <= k.ours /\ k.ours <= k.jobs
<1>1. CASE \E f \in Paths : k = StartPrint(h, f)
  BY <1>1, BoundsAssumption DEF StartPrint, Host, Paths
<1>2. CASE \E c \in Control : k = Effect(c, h)
  BY <1>2, BoundsAssumption DEF Effect, Host, Control
<1>3. CASE k = [h EXCEPT !.print = "standby"]
  BY <1>3, BoundsAssumption DEF Host
<1>4. CASE \E d \in {"absent", "different"} : k = [h EXCEPT !.disk = d]
  BY <1>4, BoundsAssumption DEF Host
<1> QED  BY <1>1, <1>2, <1>3, <1>4 DEF OutsideChanges

LEMMA EffectGrows ==
  ASSUME NEW h \in Host, h.ours <= h.jobs, NEW k \in AllKinds
  PROVE  h.ours <= Effect(k, h).ours /\ Effect(k, h).ours <= Effect(k, h).jobs
BY BoundsAssumption DEF Effect, StartPrint, Host, AllKinds, Control

\* A step changes one host and no row, or it changes no host.
LEMMA HostSteps ==
  ASSUME TypeOK, Inductive, Evident, [Next]_vars
  PROVE  \/ /\ UNCHANGED <<row, exec, outcome, att, cmd>>
            /\ \E e \in Endpoints, h \in Host :
                 /\ HostBecomes(e, h)
                 /\ host[e].ours <= h.ours /\ h.ours <= h.jobs
         \/ /\ UNCHANGED host
            /\ \A o \in Ops : MarkSent(o) \/ shown'[o] = shown[o]
<1>1. ASSUME NEW o \in Ops, Land(o)
      PROVE  /\ UNCHANGED <<row, exec, outcome, att, cmd>>
             /\ \E e \in Endpoints, h \in Host : /\ HostBecomes(e, h)
                                                 /\ host[e].ours <= h.ours /\ h.ours <= h.jobs
  <2> DEFINE e == row[o].endpoint
             h == Effect(row[o].kind, host[e])
  <2>1. row[o].state # "absent" /\ row[o].kind \in AllKinds
    BY <1>1 DEF Land, Inductive, SentIsRecorded, TypeOK, Row
  <2>2. e \in Endpoints /\ host[e] \in Host /\ host[e].ours <= host[e].jobs
    BY <2>1 DEF Evident, EndpointNamed, HistoryOrdered, TypeOK
  <2>3. h \in Host /\ HostBecomes(e, h)
    BY <1>1, <2>1, <2>2, EffectTyped DEF Land
  <2>4. host[e].ours <= h.ours /\ h.ours <= h.jobs
    BY <2>1, <2>2, EffectGrows
  <2>5. UNCHANGED <<row, exec, outcome, att, cmd>>
    BY <1>1 DEF Land, durable, tasks
  <2> HIDE DEF e, h
  <2> QED  BY <2>2, <2>3, <2>4, <2>5
<1>2. ASSUME NEW e \in Endpoints, PrintEnds(e)
      PROVE  /\ UNCHANGED <<row, exec, outcome, att, cmd>>
             /\ \E d \in Endpoints, h \in Host : /\ HostBecomes(d, h)
                                                 /\ host[d].ours <= h.ours /\ h.ours <= h.jobs
  <2> DEFINE h == [host[e] EXCEPT !.print = "complete"]
  <2>1. host[e] \in Host /\ host[e].ours <= host[e].jobs
    BY DEF Evident, HistoryOrdered, TypeOK
  <2>2. h \in Host /\ host[e].ours <= h.ours /\ h.ours <= h.jobs
    BY <2>1, BoundsAssumption DEF Host
  <2>3. HostBecomes(e, h) /\ UNCHANGED <<row, exec, outcome, att, cmd>>
    BY <1>2 DEF PrintEnds, durable, tasks
  <2> HIDE DEF h
  <2> QED  BY <2>2, <2>3
<1>3. ASSUME NEW e \in Endpoints, Outside(e)
      PROVE  /\ UNCHANGED <<row, exec, outcome, att, cmd>>
             /\ \E d \in Endpoints, h \in Host : /\ HostBecomes(d, h)
                                                 /\ host[d].ours <= h.ours /\ h.ours <= h.jobs
  <2>1. host[e] \in Host /\ host[e].ours <= host[e].jobs
    BY DEF Evident, HistoryOrdered, TypeOK
  <2>2. PICK h \in OutsideChanges(host[e]) : HostBecomes(e, h)
    BY <1>3 DEF Outside
  <2>3. h \in Host /\ host[e].ours <= h.ours /\ h.ours <= h.jobs
    BY <2>1, <2>2, OutsideTyped, OutsideGrows
  <2> QED  BY <1>3, <2>2, <2>3 DEF Outside, durable, tasks
<1>4. CASE UNCHANGED <<host, shown>>
  BY <1>4
<1>5. ASSUME NEW o \in Ops, MarkSent(o)
      PROVE  UNCHANGED host /\ \A q \in Ops : MarkSent(q) \/ shown'[q] = shown[q]
  BY <1>5 DEF MarkSent, TypeOK
<1>6. ASSUME NEW o \in Ops, ExecutorStep(o), ~MarkSent(o)
      PROVE  UNCHANGED <<host, shown>>
  BY <1>6 DEF ExecutorStep, PrepareFails, MarkSentFails, Send, Answered, Verify, Panic,
              CommitOutcome, CommitOutcomeFails, world
<1>7. ASSUME ReconcilerStep
      PROVE  UNCHANGED <<host, shown>>
  BY <1>7 DEF ReconcilerStep, BeginAttempt, BeginAttemptFails, CheckAgain, Abandon, Decide,
              EndAttempt, EndAttemptFails, TimerFires, OnOnline, world
<1>8. ASSUME NEW p \in Printers, CommandStep(p) \/ PrinterStep(p)
      PROVE  UNCHANGED <<host, shown>>
  BY <1>8 DEF CommandStep, CheckWrite, WriteAhead, CommandFails, PrinterStep, SetConnection,
              Archive, Unarchive, DeletePrinter, GoOnline, GoOffline, world
<1>9. CASE Crash \/ Restart \/ UNCHANGED vars \/ \E o \in Ops : Drop(o) \/ SettlePasses(o)
  BY <1>9 DEF Crash, Restart, Drop, SettlePasses, vars, world
<1> QED
  BY <1>1, <1>2, <1>3, <1>4, <1>5, <1>6, <1>7, <1>8, <1>9 DEF Next, WorldStep

\* A row keeps what it was written with, and only mark_sent marks it sent.
LEMMA RowKept ==
  ASSUME TypeOK, Inductive, [Next]_vars, NEW o \in Ops
  PROVE  /\ row[o].state # "absent" =>
              /\ row'[o].state # "absent"
              /\ row'[o].kind = row[o].kind /\ row'[o].mark = row[o].mark
              /\ row'[o].endpoint = row[o].endpoint /\ row'[o].path = row[o].path
              /\ row[o].sent => row'[o].sent
         /\ row'[o].sent => row[o].sent \/ MarkSent(o)
<1> USE DEF TypeOK
<1>1. CASE row' = row
  BY <1>1
<1>2. ASSUME NEW q \in Ops, MarkSent(q)
      PROVE  /\ row'[o].state = row[o].state
             /\ row'[o].kind = row[o].kind /\ row'[o].mark = row[o].mark
             /\ row'[o].endpoint = row[o].endpoint /\ row'[o].path = row[o].path
             /\ row'[o].sent = (row[o].sent \/ q = o)
  <2>1. row' = [row EXCEPT ![q].sent = TRUE]
    BY <1>2 DEF MarkSent
  <2>2. row[o] \in Row
    OBVIOUS
  <2>3. q # o => row'[o] = row[o]
    BY <2>1
  <2>4. q = o => row'[o] = [row[o] EXCEPT !.sent = TRUE]
    BY <2>1
  <2> HIDE DEF TypeOK
  <2>5. CASE q # o
    BY <2>2, <2>3, <2>5 DEF Row
  <2>6. CASE q = o
    BY <2>2, <2>4, <2>6 DEF Row
  <2> QED  BY <2>5, <2>6
<1>3. ASSUME NEW q \in Ops, NEW s, s # "absent", SetState(q, s)
      PROVE  /\ row[o].state # "absent" => row'[o].state # "absent"
             /\ row'[o].kind = row[o].kind /\ row'[o].mark = row[o].mark
             /\ row'[o].endpoint = row[o].endpoint /\ row'[o].path = row[o].path
             /\ row'[o].sent = row[o].sent
  BY <1>3 DEF SetState, Row
<1>4. ASSUME NEW q \in Ops, CommitOutcome(q) \/ BeginAttempt(q) \/ Abandon(q)
      PROVE  UNCHANGED row \/ \E s : s # "absent" /\ SetState(q, s)
  BY <1>4 DEF CommitOutcome, BeginAttempt, Abandon, Edge
<1>5. ASSUME NEW p \in Printers, EndAttempt(p)
      PROVE  /\ row[o].state # "absent" => row'[o].state # "absent"
             /\ row'[o].kind = row[o].kind /\ row'[o].mark = row[o].mark
             /\ row'[o].endpoint = row[o].endpoint /\ row'[o].path = row[o].path
             /\ row'[o].sent = row[o].sent
  BY <1>5 DEF EndAttempt, AttemptTarget, Row
<1>6. ASSUME NEW p \in Printers, WriteAhead(p)
      PROVE  row'[o] = row[o] \/ (row[o].state = "absent" /\ ~row'[o].sent)
  BY <1>6 DEF WriteAhead, WriteAheadAllowed
<1>7. ASSUME NEW p \in Printers, DeletePrinter(p)
      PROVE  /\ row[o].state # "absent" => row'[o].state # "absent"
             /\ row'[o].kind = row[o].kind /\ row'[o].mark = row[o].mark
             /\ row'[o].endpoint = row[o].endpoint /\ row'[o].path = row[o].path
             /\ row'[o].sent = row[o].sent
  BY <1>7 DEF DeletePrinter, Row
<1>8. ASSUME Restart
      PROVE  /\ row[o].state # "absent" => row'[o].state # "absent"
             /\ row'[o].kind = row[o].kind /\ row'[o].mark = row[o].mark
             /\ row'[o].endpoint = row[o].endpoint /\ row'[o].path = row[o].path
             /\ row'[o].sent = row[o].sent
  BY <1>8 DEF Restart, Recovered, Row
<1>9. ASSUME NEW q \in Ops, ExecutorStep(q), ~MarkSent(q), ~CommitOutcome(q)
      PROVE  UNCHANGED row
  BY <1>9 DEF ExecutorStep, PrepareFails, MarkSentFails, Send, Answered, Verify, Panic,
              CommitOutcomeFails, durable
<1>10. ASSUME ReconcilerStep, \A q \in Ops : ~BeginAttempt(q) /\ ~Abandon(q),
              \A p \in Printers : ~EndAttempt(p)
       PROVE  UNCHANGED row
  BY <1>10 DEF ReconcilerStep, BeginAttemptFails, CheckAgain, Decide, EndAttemptFails,
               TimerFires, OnOnline, durable
<1>11. ASSUME NEW p \in Printers, CommandStep(p) \/ PrinterStep(p), ~WriteAhead(p),
              ~DeletePrinter(p)
       PROVE  UNCHANGED row
  BY <1>11 DEF CommandStep, CheckWrite, CommandFails, PrinterStep, SetConnection, Archive,
               Unarchive, GoOnline, GoOffline, durable
<1>12. CASE WorldStep \/ Crash \/ UNCHANGED vars
  BY <1>1, <1>12 DEF WorldStep, Land, Drop, SettlePasses, PrintEnds, Outside, Crash, vars,
                     durable
<1>13. CASE \E q \in Ops : ExecutorStep(q)
  BY <1>1, <1>2, <1>3, <1>4, <1>9, <1>13
<1>14. CASE ReconcilerStep
  BY <1>1, <1>3, <1>4, <1>5, <1>10, <1>14
<1>15. CASE \E p \in Printers : CommandStep(p) \/ PrinterStep(p)
  BY <1>1, <1>6, <1>7, <1>11, <1>15
<1> QED  BY <1>8, <1>12, <1>13, <1>14, <1>15 DEF Next

\* Evidence, once there, stays.
LEMMA EvidencePersists ==
  ASSUME TypeOK, Inductive, Evident, [Next]_vars, NEW o \in Ops, row[o].sent, Evidence(o)
  PROVE  Evidence(o)'
<1>1. ~MarkSent(o)
  BY DEF MarkSent
<1>2. row[o].state # "absent" /\ row[o].endpoint \in Endpoints /\ row[o].mark \in 0..MaxJobs
  BY DEF Inductive, SentIsRecorded, Evident, EndpointNamed, TypeOK, Row
<1>3. /\ row'[o].kind = row[o].kind /\ row'[o].mark = row[o].mark
      /\ row'[o].endpoint = row[o].endpoint
  BY <1>2, RowKept
<1>4. CASE /\ UNCHANGED host
           /\ shown'[o] = shown[o]
  BY <1>3, <1>4 DEF Evidence
<1>5. ASSUME NEW e \in Endpoints, NEW h \in Host, HostBecomes(e, h), host[e].ours <= h.ours
      PROVE  Evidence(o)'
  <2>1. shown[o] => shown'[o]
    BY <1>5 DEF HostBecomes
  <2>2. host[row[o].endpoint].ours <= host'[row[o].endpoint].ours
    BY <1>2, <1>5, BoundsAssumption DEF HostBecomes, TypeOK, Host
  <2>3. /\ host[row[o].endpoint].ours \in Nat
        /\ host'[row[o].endpoint].ours \in Nat
    BY <1>2, <1>5, BoundsAssumption DEF HostBecomes, TypeOK, Host
  <2> QED  BY <1>2, <1>3, <2>1, <2>2, <2>3, BoundsAssumption DEF Evidence
<1> QED  BY <1>1, <1>4, <1>5, HostSteps

\* What the host shows of a sent operation, and its history, is evidence.
LEMMA ObservedIsEvidence ==
  ASSUME Noticed, NEW o \in Ops, row[o].sent, Observed(o)
  PROVE  Evidence(o)
BY DEF Observed, Noticed, Evidence

LEMMA EndpointStays ==
  ASSUME TypeOK, Inductive, Evident, [Next]_vars
  PROVE  EndpointNamed'
<1>1. ASSUME NEW p \in Printers
      PROVE  cmd'[p].op # None =>
               cmd'[p].conn \in Endpoints /\ (cmd'[p].kind = "start" => cmd'[p].path = "ours")
  <2>1. ASSUME NEW q \in Printers, NEW o \in Ops, NEW k \in AllKinds, CheckWrite(q, o, k)
        PROVE  /\ p # q => cmd'[p] = cmd[p]
               /\ p = q => cmd'[p].conn \in Endpoints
                           /\ (cmd'[p].kind = "start" => cmd'[p].path = "ours")
    BY <2>1 DEF CheckWrite, Writable, Control, TypeOK, Printer
  <2>2. ASSUME NEW q \in Printers, WriteAhead(q) \/ CommandFails(q)
        PROVE  cmd'[p] = cmd[p] \/ cmd'[p].op = None
    BY <2>2 DEF WriteAhead, CommandFails, IdleCmd, TypeOK
  <2>3. CASE UNCHANGED cmd
    BY <2>3 DEF Evident, EndpointNamed
  <2>4. ASSUME Crash
        PROVE  cmd'[p].op = None
    <3>1. cmd' = [q \in Printers |-> IdleCmd]
      BY <2>4 DEF Crash
    <3> QED  BY <3>1 DEF IdleCmd
  <2>5. ASSUME NEW o \in Ops, ExecutorStep(o)
        PROVE  UNCHANGED cmd
    BY <2>5 DEF ExecutorStep, PrepareFails, MarkSent, MarkSentFails, Send, Answered, Verify,
                Panic, CommitOutcome, CommitOutcomeFails, ExecTo
  <2>6. ReconcilerStep => UNCHANGED cmd
    BY DEF ReconcilerStep, BeginAttempt, BeginAttemptFails, CheckAgain, Abandon, Decide,
           EndAttempt, EndAttemptFails, TimerFires, OnOnline
  <2>7. ASSUME NEW q \in Printers, PrinterStep(q)
        PROVE  UNCHANGED cmd
    BY <2>7 DEF PrinterStep, SetConnection, Archive, Unarchive, DeletePrinter, GoOnline,
                GoOffline, tasks
  <2>8. WorldStep \/ Restart \/ UNCHANGED vars => UNCHANGED cmd
    BY DEF WorldStep, Land, Drop, SettlePasses, PrintEnds, Outside, Restart, vars, tasks
  <2> QED
    BY <2>1, <2>2, <2>3, <2>4, <2>5, <2>6, <2>7, <2>8
       DEF Next, CommandStep, Evident, EndpointNamed
<1>2. ASSUME NEW o \in Ops, row'[o].state # "absent"
      PROVE  row'[o].endpoint \in Endpoints /\ (row'[o].kind = "start" => row'[o].path = "ours")
  <2>1. CASE row[o].state # "absent"
    BY <2>1, RowKept DEF Evident, EndpointNamed
  <2>2. CASE row[o].state = "absent"
    <3>1. ASSUME NEW p \in Printers, WriteAhead(p)
          PROVE  /\ row'[o].endpoint \in Endpoints
                 /\ row'[o].kind = "start" => row'[o].path = "ours"
      BY <1>2, <2>2, <3>1 DEF WriteAhead, TypeOK, Evident, EndpointNamed, Cmd
    <3>2. CASE UNCHANGED row
      BY <1>2, <2>2, <3>2
    <3>3. ASSUME NEW q \in Ops, ExecutorStep(q)
          PROVE  row'[o].state = "absent"
      BY <2>2, <3>3 DEF ExecutorStep, PrepareFails, MarkSent, MarkSentFails, Send, Answered,
                  Verify, Panic, CommitOutcome, CommitOutcomeFails, SetState, Edge, durable,
                  TypeOK
    <3>4. ReconcilerStep => row'[o].state = "absent"
      <4>1. ASSUME NEW p \in Printers, EndAttempt(p)
            PROVE  row'[o].state = "absent"
        <5>1. att[p].op \in Ops /\ row[att[p].op].state = "reconciling"
          BY <4>1 DEF EndAttempt, TypeOK, Att, Inductive, AttemptKnows
        <5> QED  BY <2>2, <4>1, <5>1 DEF EndAttempt, TypeOK
      <4> QED
        BY <2>2, <4>1 DEF ReconcilerStep, BeginAttempt, BeginAttemptFails, CheckAgain, Abandon,
           Decide, EndAttemptFails, TimerFires, OnOnline, SetState, durable, TypeOK
    <3>5. ASSUME NEW q \in Printers, PrinterStep(q)
          PROVE  row'[o].state = "absent"
      BY <2>2, <3>5 DEF PrinterStep, SetConnection, Archive, Unarchive, DeletePrinter, GoOnline,
                        GoOffline, Terminal
    <3>6. WorldStep \/ Crash \/ UNCHANGED vars => UNCHANGED row
      BY DEF WorldStep, Land, Drop, SettlePasses, PrintEnds, Outside, Crash, vars, durable
    <3>7. Restart => row'[o].state = "absent"
      BY <2>2 DEF Restart, Recovered
    <3>8. ASSUME NEW p \in Printers, CommandStep(p), ~WriteAhead(p)
          PROVE  UNCHANGED row
      BY <3>8 DEF CommandStep, CheckWrite, CommandFails, durable
    <3> QED
      BY <1>2, <3>1, <3>2, <3>3, <3>4, <3>5, <3>6, <3>7, <3>8 DEF Next
  <2> QED  BY <2>1, <2>2
<1> QED  BY <1>1, <1>2 DEF EndpointNamed

LEMMA HistoryStays ==
  ASSUME TypeOK, Inductive, Evident, [Next]_vars
  PROVE  HistoryOrdered'
<1>1. CASE UNCHANGED host
  BY <1>1 DEF Evident, HistoryOrdered
<1>2. ASSUME NEW e \in Endpoints, NEW h \in Host, HostBecomes(e, h), h.ours <= h.jobs
      PROVE  HistoryOrdered'
  BY <1>2 DEF HostBecomes, Evident, HistoryOrdered, TypeOK
<1> QED  BY <1>1, <1>2, HostSteps

LEMMA NoticedStays ==
  ASSUME TypeOK, Inductive, Evident, [Next]_vars
  PROVE  Noticed'
<1> SUFFICES ASSUME NEW o \in Ops, row'[o].sent, Shows(row'[o], host'[row'[o].endpoint])
             PROVE  shown'[o]
  BY DEF Noticed
<1>1. row[o].sent \/ MarkSent(o)
  BY RowKept
<1>2. row[o].state # "absent" /\ row[o].endpoint \in Endpoints
  BY <1>1 DEF MarkSent, Inductive, SentIsRecorded, Evident, EndpointNamed
<1>3. /\ row'[o].kind = row[o].kind /\ row'[o].endpoint = row[o].endpoint
      /\ row'[o].path = row[o].path
  BY <1>2, RowKept
<1>4. Shows(row[o], host'[row[o].endpoint])
  BY <1>3 DEF Shows
<1>5. CASE MarkSent(o)
  BY <1>4, <1>5 DEF MarkSent, TypeOK
<1>6. CASE ~MarkSent(o) /\ UNCHANGED host /\ shown'[o] = shown[o]
  BY <1>1, <1>4, <1>6 DEF Evident, Noticed
<1>7. ASSUME NEW e \in Endpoints, NEW h \in Host, HostBecomes(e, h), UNCHANGED row
      PROVE  shown'[o]
  <2>1. CASE row[o].endpoint = e
    BY <1>2, <1>4, <1>7, <2>1 DEF HostBecomes, TypeOK
  <2>2. CASE row[o].endpoint # e
    BY <1>2, <1>4, <1>7, <2>2 DEF HostBecomes, TypeOK, Evident, Noticed
  <2> QED  BY <2>1, <2>2
<1> QED  BY <1>5, <1>6, <1>7, HostSteps

LEMMA CheckedStays ==
  ASSUME TypeOK, Inductive, Evident, [Next]_vars
  PROVE  CheckedWasSent'
<1> USE DEF Checkable
<1> SUFFICES ASSUME NEW o \in Ops
             PROVE  /\ row'[o].state \in Checkable => row'[o].sent
                    /\ exec'[o] \in {"sending", "verifying"} => row'[o].sent
                    /\ exec'[o] = "commit" /\ outcome'[o] # "failed" => row'[o].sent
  BY DEF CheckedWasSent
<1>1. /\ row[o].state \in Checkable => row[o].sent
      /\ exec[o] \in {"marked", "sending", "verifying"} => row[o].sent
      /\ exec[o] = "commit" /\ outcome[o] # "failed" => row[o].sent
      /\ exec[o] = "commit" => row[o].state = "dispatching"
  BY DEF Evident, CheckedWasSent, Inductive, ExecutorKnows
<1>2. row[o].sent => row'[o].sent
  BY RowKept DEF Inductive, SentIsRecorded
<1>3. CASE row[o].sent
  BY <1>2, <1>3
<1>4. CASE ~row[o].sent
  <2>1. CASE UNCHANGED <<row, exec, outcome>>
    BY <1>1, <2>1
  <2>2. ASSUME NEW q \in Ops, ExecutorStep(q)
        PROVE  /\ row'[o].state \in Checkable => row'[o].sent
               /\ exec'[o] \in {"sending", "verifying"} => row'[o].sent
               /\ exec'[o] = "commit" /\ outcome'[o] # "failed" => row'[o].sent
    <3>1. CASE q # o
      <4>1. row'[o] = row[o] /\ exec'[o] = exec[o] /\ outcome'[o] = outcome[o]
        BY <2>2, <3>1 DEF ExecutorStep, PrepareFails, MarkSent, MarkSentFails, Send, Answered,
           Verify, Panic, CommitOutcome, CommitOutcomeFails, ExecTo, SetState, durable, TypeOK
      <4> QED  BY <1>1, <4>1
    <3>2. CASE q = o
      <4>1. ~Send(o) /\ ~Answered(o) /\ ~Verify(o)
        BY <1>1, <1>4 DEF Send, Answered, Verify
      <4>2. CASE MarkSent(o) \/ CommitOutcome(o) \/ CommitOutcomeFails(o)
        BY <1>1, <1>4, <4>2 DEF MarkSent, CommitOutcome, CommitOutcomeFails, ExecTo, SetState,
           durable, TypeOK, Row
      <4>3. CASE PrepareFails(o) \/ MarkSentFails(o) \/ Panic(o)
        BY <1>1, <1>4, <4>3 DEF PrepareFails, MarkSentFails, Panic, PanicOutcome, ExecTo,
           durable, TypeOK
      <4> QED  BY <2>2, <3>2, <4>1, <4>2, <4>3 DEF ExecutorStep
    <3> QED  BY <3>1, <3>2
  <2>3. ASSUME UNCHANGED <<exec, outcome>>,
               row'[o].state \in Checkable =>
                 row[o].state \in Checkable
        PROVE  /\ row'[o].state \in Checkable => row'[o].sent
               /\ exec'[o] \in {"sending", "verifying"} => row'[o].sent
               /\ exec'[o] = "commit" /\ outcome'[o] # "failed" => row'[o].sent
    BY <1>1, <1>2, <2>3
  <2>4. ASSUME ReconcilerStep
        PROVE  /\ UNCHANGED <<exec, outcome>>
               /\ row'[o].state \in Checkable =>
                    row[o].state \in Checkable
    <3>1. ASSUME NEW p \in Printers, EndAttempt(p)
          PROVE  /\ UNCHANGED <<exec, outcome>>
                 /\ row'[o].state \in Checkable =>
                      row[o].state \in Checkable
      <4>1. att[p].op \in Ops /\ row[att[p].op].state = "reconciling"
        BY <3>1 DEF EndAttempt, TypeOK, Att, Inductive, AttemptKnows
      <4> QED  BY <3>1, <4>1 DEF EndAttempt, TypeOK
    <3> QED
      BY <2>4, <3>1 DEF ReconcilerStep, BeginAttempt, BeginAttemptFails, CheckAgain, Abandon,
         Decide, EndAttemptFails, TimerFires, OnOnline, SetState, durable, TypeOK
  <2>5. ASSUME NEW p \in Printers, WriteAhead(p)
        PROVE  /\ row'[o].state \in Checkable => row'[o].sent
               /\ exec'[o] \in {"sending", "verifying"} => row'[o].sent
               /\ exec'[o] = "commit" /\ outcome'[o] # "failed" => row'[o].sent
    <3>1. /\ row'[o].state = row[o].state \/ row'[o].state = "dispatching"
          /\ exec'[o] = exec[o] \/ exec'[o] = "ready"
          /\ outcome' = outcome
      BY <2>5 DEF WriteAhead, TypeOK
    <3> QED  BY <1>1, <1>2, <3>1
  <2>6. ASSUME NEW p \in Printers, CommandStep(p) \/ PrinterStep(p), ~WriteAhead(p)
        PROVE  /\ UNCHANGED <<exec, outcome>>
               /\ row'[o].state \in Checkable =>
                    row[o].state \in Checkable
    <3>1. CASE DeletePrinter(p)
      <4>1. row'[o].state \in {row[o].state, "deleted"}
        BY <3>1 DEF DeletePrinter, TypeOK, Row
      <4> QED  BY <3>1, <4>1 DEF DeletePrinter, tasks
    <3>2. CASE ~DeletePrinter(p)
      <4>1. UNCHANGED <<row, exec, outcome>>
        BY <2>6, <3>2 DEF CommandStep, CheckWrite, CommandFails, PrinterStep, SetConnection,
           Archive, Unarchive, GoOnline, GoOffline, durable, tasks
      <4> QED  BY <4>1
    <3> QED  BY <3>1, <3>2
  <2>7. CASE WorldStep \/ UNCHANGED vars
    <3>1. UNCHANGED <<row, exec, outcome>>
      BY <2>7 DEF WorldStep, Land, Drop, SettlePasses, PrintEnds, Outside, vars, durable, tasks
    <3> QED  BY <2>1, <3>1
  <2>8. CASE Crash
    BY <1>1, <1>2, <2>8 DEF Crash
  <2>9. CASE Restart
    BY <1>1, <1>4, <2>9 DEF Restart, Recovered
  <2> QED
    BY <2>2, <2>3, <2>4, <2>5, <2>6, <2>7, <2>8, <2>9 DEF Next
<1> QED  BY <1>3, <1>4

\* A start that landed started a print of the file its row names.
LEMMA LandedIsNoticed ==
  ASSUME TypeOK, Inductive, Evident, NEW o \in Ops, Land(o), row[o].kind = "start"
  PROVE  shown'[o]
<1> DEFINE e == row[o].endpoint
           h == Effect("start", host[e])
<1>1. row[o].sent /\ row[o].path = "ours"
  BY DEF Land, Inductive, SentIsRecorded, Evident, EndpointNamed
<1>2. HostBecomes(e, h)
  BY DEF Land
<1>3. h.print = "printing" /\ h.file = "ours"
  BY DEF Effect, StartPrint
<1>4. Shows(row[o], h)
  BY <1>1, <1>3 DEF Shows
<1> HIDE DEF h
<1> QED  BY <1>1, <1>2, <1>4 DEF HostBecomes

LEMMA SuccessStays ==
  ASSUME TypeOK, Inductive, Evident, [Next]_vars
  PROVE  SuccessKnows' /\ SuccessHasEvidence'
<1>1. \A o \in Ops : row[o].sent /\ Evidence(o) => Evidence(o)'
  BY EvidencePersists
<1>2. ASSUME NEW o \in Ops, row'[o].kind = "start", net'[o] = "applied"
      PROVE  Evidence(o)'
  <2>1. CASE net[o] = "applied"
    <3>1. row[o].sent /\ row[o].kind = "start"
      BY <1>2, <2>1, RowKept DEF Inductive, SentIsRecorded
    <3> QED  BY <1>1, <2>1, <3>1 DEF Evident, SuccessKnows
  <2>2. CASE Land(o)
    <3>1. row[o].kind = "start"
      BY <1>2, <2>2 DEF Land, durable
    <3> QED  BY <2>2, <3>1, LandedIsNoticed DEF Evidence
  <2>3. ASSUME net'[o] # net[o], ~Land(o)
        PROVE  net'[o] # "applied"
    <3>1. ASSUME NEW q \in Ops, ExecutorStep(q)
          PROVE  net'[o] # "applied"
      BY <2>3, <3>1 DEF ExecutorStep, PrepareFails, MarkSent, MarkSentFails, Send, Answered,
         Verify, Panic, CommitOutcome, CommitOutcomeFails, world, TypeOK
    <3>2. CASE \E q \in Ops : Land(q) \/ Drop(q)
      BY <2>3, <3>2 DEF Land, Drop, TypeOK
    <3>3. ReconcilerStep => UNCHANGED net
      BY DEF ReconcilerStep, BeginAttempt, BeginAttemptFails, CheckAgain, Abandon, Decide,
             EndAttempt, EndAttemptFails, TimerFires, OnOnline, world
    <3>4. ASSUME NEW p \in Printers, CommandStep(p) \/ PrinterStep(p)
          PROVE  UNCHANGED net
      BY <3>4 DEF CommandStep, CheckWrite, WriteAhead, CommandFails, PrinterStep, SetConnection,
                  Archive, Unarchive, DeletePrinter, GoOnline, GoOffline, world
    <3>5. Crash \/ Restart \/ UNCHANGED vars => UNCHANGED net
      BY DEF Crash, Restart, vars, world
    <3>6. ASSUME WorldStep, \A q \in Ops : ~Land(q) /\ ~Drop(q)
          PROVE  UNCHANGED net
      BY <3>6 DEF WorldStep, SettlePasses, PrintEnds, Outside
    <3> QED  BY <2>3, <3>1, <3>2, <3>3, <3>4, <3>5, <3>6 DEF Next
  <2> QED  BY <1>2, <2>1, <2>2, <2>3
<1>3. ASSUME NEW o \in Ops, exec'[o] = "commit", outcome'[o] = "succeeded"
      PROVE  Evidence(o)'
  <2>1. CASE exec[o] = "commit" /\ outcome[o] = "succeeded"
    BY <1>1, <2>1 DEF Evident, CheckedWasSent, SuccessKnows
  <2>2. CASE Answered(o)
    <3>1. net[o] = "applied" /\ row[o].kind = "start"
      BY <1>3, <2>2 DEF Answered, Answers, ExecTo, TypeOK
    <3> QED
      BY <1>1, <2>2, <3>1 DEF Answered, Evident, CheckedWasSent, SuccessKnows
  <2>3. CASE Verify(o)
    <3>1. Observed(o)
      BY <1>3, <2>3 DEF Verify, ExecTo, TypeOK
    <3>2. row[o].sent
      BY <2>3 DEF Verify, Evident, CheckedWasSent
    <3> QED  BY <1>1, <3>1, <3>2, ObservedIsEvidence DEF Evident
  <2>4. CASE exec'[o] = exec[o] /\ outcome'[o] = outcome[o]
    BY <1>3, <2>1, <2>4
  <2>5. ASSUME NEW q \in Ops, ExecutorStep(q), ~Answered(o), ~Verify(o)
        PROVE  exec'[o] = exec[o] /\ outcome'[o] = outcome[o]
    <3>1. CASE q # o
      BY <2>5, <3>1 DEF ExecutorStep, PrepareFails, MarkSent, MarkSentFails, Send, Answered,
         Verify, Panic, CommitOutcome, CommitOutcomeFails, ExecTo, TypeOK
    <3>2. CASE q = o
      BY <1>3, <2>5, <3>2 DEF ExecutorStep, PrepareFails, MarkSent, MarkSentFails, Send, Panic,
         PanicOutcome, CommitOutcome, CommitOutcomeFails, ExecTo, TypeOK
    <3> QED  BY <3>1, <3>2
  <2>6. ReconcilerStep => UNCHANGED <<exec, outcome>>
    BY DEF ReconcilerStep, BeginAttempt, BeginAttemptFails, CheckAgain, Abandon, Decide,
           EndAttempt, EndAttemptFails, TimerFires, OnOnline
  <2>7. ASSUME NEW p \in Printers, CommandStep(p) \/ PrinterStep(p)
        PROVE  exec'[o] = exec[o] /\ outcome'[o] = outcome[o]
    BY <1>3, <2>7 DEF CommandStep, CheckWrite, WriteAhead, CommandFails, PrinterStep,
       SetConnection, Archive, Unarchive, DeletePrinter, GoOnline, GoOffline, tasks, TypeOK
  <2>8. WorldStep \/ Restart \/ UNCHANGED vars => UNCHANGED <<exec, outcome>>
    BY DEF WorldStep, Land, Drop, SettlePasses, PrintEnds, Outside, Restart, vars, tasks
  <2>9. ~Crash
    BY <1>3 DEF Crash
  <2> QED
    BY <2>2, <2>3, <2>4, <2>5, <2>6, <2>7, <2>8, <2>9 DEF Next
<1>4. ASSUME NEW p \in Printers, NEW o \in Ops, att'[p].op = o, att'[p].decision = "applied"
      PROVE  Evidence(o)'
  <2>1. CASE att'[p] = att[p]
    <3>1. row[o].state = "reconciling" /\ Evidence(o)
      BY <1>4, <2>1, NoneAssumption DEF Inductive, AttemptKnows, Evident, SuccessKnows
    <3> QED  BY <1>1, <3>1 DEF Evident, CheckedWasSent, Checkable
  <2>2. CASE Decide(p)
    <3>1. att[p].op = o /\ row[o].state = "reconciling" /\ MayDecide(o, "applied")
      BY <1>4, <2>2 DEF Decide, TypeOK, Att, Inductive, AttemptKnows
    <3>2. row[o].sent /\ Observed(o)
      BY <3>1 DEF Evident, CheckedWasSent, Checkable, MayDecide
    <3> QED  BY <1>1, <3>2, ObservedIsEvidence DEF Evident
  <2>3. ASSUME ~Decide(p)
        PROVE  att'[p] = att[p]
    <3>1. ASSUME NEW q \in Ops, BeginAttempt(q)
          PROVE  att'[p] = att[p] \/ att'[p].decision = "none"
      BY <3>1 DEF BeginAttempt, TypeOK
    <3>2. ASSUME NEW q \in Printers, EndAttempt(q) \/ EndAttemptFails(q)
          PROVE  att'[p] = att[p] \/ att'[p].decision = "none"
      BY <3>2 DEF EndAttempt, EndAttemptFails, IdleAtt, TypeOK
    <3>3. ASSUME NEW q \in Printers, Decide(q)
          PROVE  att'[p] = att[p]
      BY <2>3, <3>3 DEF Decide, TypeOK
    <3>4. ASSUME ReconcilerStep
          PROVE  att'[p] = att[p]
      <4>1. CASE UNCHANGED att
        BY <4>1
      <4> QED
        BY <1>4, <3>1, <3>2, <3>3, <3>4, <4>1 DEF ReconcilerStep, BeginAttemptFails, CheckAgain,
           Abandon, TimerFires, OnOnline
    <3>5. ASSUME NEW q \in Ops, ExecutorStep(q)
          PROVE  UNCHANGED att
      BY <3>5 DEF ExecutorStep, PrepareFails, MarkSent, MarkSentFails, Send, Answered, Verify,
                  Panic, CommitOutcome, CommitOutcomeFails, ExecTo
    <3>6. ASSUME NEW q \in Printers, CommandStep(q) \/ PrinterStep(q)
          PROVE  UNCHANGED att
      BY <3>6 DEF CommandStep, CheckWrite, WriteAhead, CommandFails, PrinterStep, SetConnection,
                  Archive, Unarchive, DeletePrinter, GoOnline, GoOffline, tasks
    <3>7. WorldStep \/ Restart \/ UNCHANGED vars => UNCHANGED att
      BY DEF WorldStep, Land, Drop, SettlePasses, PrintEnds, Outside, Restart, vars, tasks
    <3>8. ASSUME Crash
          PROVE  FALSE
      <4>1. att'[p] = IdleAtt
        BY <3>8 DEF Crash
      <4> QED  BY <1>4, <4>1 DEF IdleAtt
    <3> QED  BY <3>4, <3>5, <3>6, <3>7, <3>8 DEF Next
  <2> QED  BY <2>1, <2>2, <2>3
<1>5. ASSUME NEW o \in Ops, row'[o].state = "succeeded"
      PROVE  Evidence(o)'
  <2>1. CASE row[o].state = "succeeded"
    BY <1>1, <2>1 DEF Evident, CheckedWasSent, Checkable, SuccessHasEvidence, Evidence
  <2>2. CASE CommitOutcome(o)
    <3>1. exec[o] = "commit" /\ outcome[o] = "succeeded"
      BY <1>5, <2>2 DEF CommitOutcome, SetState, TypeOK, Row
    <3> QED  BY <1>1, <3>1 DEF Evident, CheckedWasSent, SuccessKnows
  <2>3. ASSUME NEW p \in Printers, EndAttempt(p), att[p].op = o
        PROVE  Evidence(o)'
    <3>1. att[p].decision = "applied" /\ row[o].state = "reconciling"
      BY <1>5, <2>3, NoneAssumption
         DEF EndAttempt, AttemptTarget, TypeOK, Row, Inductive, AttemptKnows
    <3> QED
      BY <1>1, <2>3, <3>1, NoneAssumption
         DEF Evident, CheckedWasSent, Checkable, SuccessKnows
  <2>4. ASSUME row[o].state # "succeeded", ~CommitOutcome(o),
               \A p \in Printers : EndAttempt(p) => att[p].op # o
        PROVE  FALSE
    <3>1. row' # row
      BY <1>5, <2>4
    <3>2. ASSUME NEW q \in Ops, ExecutorStep(q)
          PROVE  row'[o].state # "succeeded"
      <4>1. CASE UNCHANGED row
        BY <2>4, <4>1
      <4>2. CASE MarkSent(q)
        <5>1. row' = [row EXCEPT ![q].sent = TRUE]
          BY <4>2 DEF MarkSent
        <5> QED  BY <2>4, <5>1 DEF TypeOK, Row
      <4>3. CASE CommitOutcome(q)
        <5>1. q # o
          BY <2>4, <4>3
        <5>2. row' = [row EXCEPT ![q].state = outcome[q]]
          BY <4>3 DEF CommitOutcome, SetState
        <5> QED  BY <2>4, <5>1, <5>2 DEF TypeOK, Row
      <4> QED
        BY <3>2, <4>1, <4>2, <4>3 DEF ExecutorStep, PrepareFails, MarkSentFails, Send, Answered,
           Verify, Panic, CommitOutcomeFails, durable
    <3>3. ASSUME ReconcilerStep
          PROVE  row'[o].state # "succeeded"
      <4>1. CASE UNCHANGED row
        BY <2>4, <4>1
      <4>2. ASSUME NEW q \in Ops, NEW s \in {"reconciling", "abandoned"}, SetState(q, s)
            PROVE  row'[o].state # "succeeded"
        BY <2>4, <4>2 DEF SetState, TypeOK, Row
      <4>3. ASSUME NEW p \in Printers, EndAttempt(p)
            PROVE  row'[o].state # "succeeded"
        <5> DEFINE q == att[p].op
                   t == AttemptTarget(att[p].decision)
        <5>1. q # o
          BY <2>4, <4>3
        <5>2. row' = [row EXCEPT ![q].state = t, ![q].tried = @ \/ t = "uncertain"]
          BY <4>3 DEF EndAttempt
        <5>3. row'[o] = row[o]
          <6> HIDE DEF q, t
          <6> QED  BY <5>1, <5>2 DEF TypeOK
        <5> QED  BY <2>4, <5>3
      <4> QED
        BY <3>3, <4>1, <4>2, <4>3 DEF ReconcilerStep, BeginAttempt, BeginAttemptFails, CheckAgain,
           Abandon, Decide, EndAttemptFails, TimerFires, OnOnline, durable
    <3>4. ASSUME NEW p \in Printers, CommandStep(p)
          PROVE  row'[o].state # "succeeded"
      BY <2>4, <3>4 DEF CommandStep, CheckWrite, WriteAhead, CommandFails, durable, TypeOK
    <3>5. ASSUME NEW p \in Printers, PrinterStep(p)
          PROVE  row'[o].state # "succeeded"
      <4>1. CASE UNCHANGED row
        BY <2>4, <4>1
      <4>2. CASE DeletePrinter(p)
        <5>1. row'[o].state \in {row[o].state, "deleted"}
          BY <4>2 DEF DeletePrinter, TypeOK, Row
        <5> QED  BY <2>4, <5>1
      <4> QED
        BY <3>5, <4>1, <4>2 DEF PrinterStep, SetConnection, Archive, Unarchive, GoOnline, GoOffline
    <3>6. WorldStep \/ Crash \/ UNCHANGED vars => UNCHANGED row
      BY DEF WorldStep, Land, Drop, SettlePasses, PrintEnds, Outside, Crash, vars, durable
    <3>7. Restart => row'[o].state # "succeeded"
      BY <2>4 DEF Restart, Recovered, TypeOK, Row
    <3> QED  BY <1>5, <3>1, <3>2, <3>3, <3>4, <3>5, <3>6, <3>7 DEF Next
  <2> QED  BY <2>1, <2>2, <2>3, <2>4
<1>6. \A p \in Printers : att'[p].op \in Ops \cup {None}
  BY StepTyped DEF TypeOK, Att
<1>7. SuccessHasEvidence'
  BY <1>5 DEF SuccessHasEvidence, Evidence
<1>8. SuccessKnows'
  BY <1>2, <1>3, <1>4, <1>6 DEF SuccessKnows
<1> QED  BY <1>7, <1>8

LEMMA StepEvident == TypeOK /\ Inductive /\ Evident /\ [Next]_vars => Evident'
BY EndpointStays, HistoryStays, NoticedStays, CheckedStays, SuccessStays DEF Evident

\* An operation is `succeeded` only on evidence: the host showed its effect after it
\* was marked sent, or has a newer job for the started file.
THEOREM SuccessIsProved == Spec => []SuccessHasEvidence
<1>1. Evident => SuccessHasEvidence
  BY DEF Evident
<1> QED
  BY <1>1, InitEvident, StepEvident, TypeCorrect, InductiveHolds, PTL DEF Spec

(***************************************************************************)
(* The Host Operations implement HostWrites.                               *)
(***************************************************************************)
Status == [o \in Ops |-> StatusOf(row[o].state)]
Owner == [o \in Ops |-> row[o].printer]
Fate == [o \in Ops |-> EffectOf(net[o])]
Again == [o \in Ops |-> row[o].kind = "upload"]

\* A step that keeps each row's part of the mapping, and the requests, is a stutter.
LEMMA Stutter ==
  ASSUME UNCHANGED net,
         \A o \in Ops : /\ StatusOf(row'[o].state) = StatusOf(row[o].state)
                        /\ row'[o].printer = row[o].printer
                        /\ row'[o].kind = row[o].kind
  PROVE  UNCHANGED Writes!vars
BY DEF Writes!vars

\* A step of a request alone.
LEMMA RequestStep ==
  ASSUME TypeOK, UNCHANGED row, NEW o \in Ops, NEW n, net' = [net EXCEPT ![o] = n]
  PROVE  /\ Status' = Status /\ Owner' = Owner /\ Again' = Again
         /\ Fate' = [Fate EXCEPT ![o] = EffectOf(n)]
BY DEF TypeOK, Status, Owner, Again, Fate

\* A row that moves to a state moves its operation's status and nothing else.
LEMMA StateStep ==
  ASSUME TypeOK, UNCHANGED net, NEW o \in Ops, NEW s, SetState(o, s)
  PROVE  /\ Status' = [Status EXCEPT ![o] = StatusOf(s)]
         /\ Owner' = Owner /\ Again' = Again /\ Fate' = Fate
  <1>1. \A q \in Ops : /\ row'[q].state = IF q = o THEN s ELSE row[q].state
                       /\ row'[q].printer = row[q].printer
                       /\ row'[q].kind = row[q].kind
    BY RowMoves DEF TypeOK
  <1> QED  BY <1>1 DEF Status, Owner, Again, Fate

\* What the mapped operations are.
LEMMA Mapped ==
  /\ Writes!vars = <<Status, Owner, Fate, Again>>
  /\ \A o \in Ops : /\ Status[o] = StatusOf(row[o].state)
                    /\ Owner[o] = row[o].printer
                    /\ Fate[o] = EffectOf(net[o])
                    /\ Again[o] = (row[o].kind = "upload")
BY DEF Writes!vars, Status, Owner, Fate, Again

LEMMA InitMaps == Init => Writes!Init
BY DEF Init, NoRow, StatusOf, EffectOf, Unresolved, Writes!Init

LEMMA ExecutorMaps ==
  ASSUME TypeOK, Inductive, NEW o \in Ops, ExecutorStep(o)
  PROVE  Writes!Next \/ UNCHANGED Writes!vars
<1>1. CASE UNCHANGED <<row, net>>
  BY <1>1, Stutter
<1>2. CASE MarkSent(o)
  <2>1. \A q \in Ops : /\ row'[q].state = row[q].state
                       /\ row'[q].printer = row[q].printer
                       /\ row'[q].kind = row[q].kind
    BY <1>2 DEF MarkSent, TypeOK, Row
  <2> QED  BY <1>2, <2>1, Stutter DEF MarkSent
<1>3. CASE Send(o)
  <2>1. StatusOf(row[o].state) = "open" /\ EffectOf(net[o]) = "unsent"
    BY <1>3 DEF Send, Inductive, ExecutorKnows, StatusOf, EffectOf, Unresolved
  <2>2. /\ Status' = Status /\ Owner' = Owner /\ Again' = Again
        /\ Fate' = [Fate EXCEPT ![o] = "pending"]
    BY <1>3, RequestStep DEF Send, durable, EffectOf
  <2>3. Writes!Dispatch(o)
    BY <2>1, <2>2 DEF Writes!Dispatch, Status, Owner, Again, Fate
  <2> QED  BY <2>3 DEF Writes!Next
<1>4. CASE CommitOutcome(o)
  <2>1. /\ SetState(o, outcome[o]) /\ UNCHANGED net
        /\ StatusOf(row[o].state) = "open"
        /\ outcome[o] \in {"succeeded", "failed", "uncertain"}
        /\ outcome[o] = "failed" => net[o] \in {"none", "refused"}
    BY <1>4 DEF CommitOutcome, world, Inductive, ExecutorKnows, TypeOK, Outcomes, StatusOf,
                Unresolved
  <2>2. /\ Status' = [Status EXCEPT ![o] = StatusOf(outcome[o])]
        /\ Owner' = Owner /\ Again' = Again /\ Fate' = Fate
    BY <2>1, StateStep
  <2>3. CASE outcome[o] = "uncertain"
    <3>1. Status' = Status
      BY <2>1, <2>2, <2>3 DEF Status, StatusOf, Unresolved
    <3> QED  BY <2>2, <3>1, Mapped DEF Writes!vars, Status, Owner, Fate, Again
  <2>4. CASE outcome[o] = "succeeded"
    <3>1. Writes!Close(o, "succeeded")
      BY <2>1, <2>2, <2>4 DEF Writes!Close, Status, Owner, Fate, Again, StatusOf, Unresolved
    <3> QED  BY <3>1 DEF Writes!Next
  <2>5. CASE outcome[o] = "failed"
    <3>1. EffectOf(net[o]) \in {"unsent", "void"}
      BY <2>1, <2>5 DEF EffectOf
    <3>2. Writes!Fail({o})
      BY <2>1, <2>2, <2>5, <3>1
         DEF Writes!Fail, Writes!Harmless, Status, Owner, Fate, Again, StatusOf, Unresolved
    <3> QED  BY <3>2 DEF Writes!Next
  <2> QED  BY <2>1, <2>3, <2>4, <2>5
<1> QED
  BY <1>1, <1>2, <1>3, <1>4 DEF ExecutorStep, PrepareFails, MarkSentFails, Answered, Verify,
     Panic, CommitOutcomeFails, ExecTo, durable, world

LEMMA AbandonMaps ==
  ASSUME TypeOK, NEW o \in Ops, Abandon(o)
  PROVE  Writes!Next
<1>1. SetState(o, "abandoned") /\ UNCHANGED net /\ StatusOf(row[o].state) = "open"
  BY DEF Abandon, world, StatusOf, Unresolved
<1>2. /\ Status' = [Status EXCEPT ![o] = StatusOf("abandoned")]
      /\ Owner' = Owner /\ Again' = Again /\ Fate' = Fate
  BY <1>1, StateStep
<1>3. Writes!Close(o, "abandoned")
  BY <1>1, <1>2 DEF Writes!Close, Status, Owner, Fate, Again, StatusOf, Unresolved
<1> QED  BY <1>3 DEF Writes!Next

LEMMA EndAttemptMaps ==
  ASSUME TypeOK, Inductive, NEW p \in Printers, EndAttempt(p)
  PROVE  Writes!Next \/ UNCHANGED Writes!vars
<1> DEFINE o == att[p].op
           d == att[p].decision
           s == AttemptTarget(d)
<1>1. /\ o \in Ops /\ StatusOf(row[o].state) = "open" /\ UNCHANGED net
      /\ d = "notApplied" => /\ row[o].kind = "upload" /\ net[o] # "flying"
                             /\ s = "failed"
      /\ d # "notApplied" => s \in {"succeeded", "uncertain"}
  BY DEF EndAttempt, Att, TypeOK, Inductive, AttemptKnows, SettledIsOver, AttemptTarget,
         StatusOf, Unresolved, world
<1>2. /\ Status' = [Status EXCEPT ![o] = StatusOf(s)]
      /\ Owner' = Owner /\ Again' = Again /\ Fate' = Fate
  <2>1. \A q \in Ops : /\ row'[q].state = IF q = o THEN s ELSE row[q].state
                       /\ row'[q].printer = row[q].printer
                       /\ row'[q].kind = row[q].kind
    BY DEF EndAttempt, TypeOK, Row
  <2> QED  BY <1>1, <2>1 DEF Status, Owner, Fate, Again
<1> HIDE DEF o, d, s
<1>3. CASE s = "uncertain"
  <2>1. Status' = Status
    BY <1>1, <1>2, <1>3 DEF Status, StatusOf, Unresolved
  <2> QED  BY <1>2, <2>1, Mapped DEF Writes!vars, Status, Owner, Fate, Again
<1>4. CASE s = "succeeded"
  <2>1. Writes!Close(o, "succeeded")
    BY <1>1, <1>2, <1>4 DEF Writes!Close, Status, Owner, Fate, Again, StatusOf, Unresolved
  <2> QED  BY <1>1, <2>1 DEF Writes!Next
<1>5. CASE d = "notApplied"
  <2>1. EffectOf(net[o]) # "pending"
    BY <1>1, <1>5 DEF EffectOf, TypeOK, NetState
  <2>2. Writes!Fail({o})
    BY <1>1, <1>2, <1>5, <2>1
       DEF Writes!Fail, Writes!Harmless, Status, Owner, Fate, Again, StatusOf, Unresolved
  <2> QED  BY <1>1, <2>2 DEF Writes!Next
<1> QED  BY <1>1, <1>3, <1>4, <1>5

LEMMA ReconcilerMaps ==
  ASSUME TypeOK, Inductive, ReconcilerStep
  PROVE  Writes!Next \/ UNCHANGED Writes!vars
<1>1. ASSUME NEW o \in Ops, BeginAttempt(o)
      PROVE  UNCHANGED Writes!vars
  <2>1. CASE UNCHANGED row
    BY <1>1, <2>1, Stutter DEF BeginAttempt, world
  <2>2. CASE row[o].state = "uncertain" /\ SetState(o, "reconciling")
    <3>1. \A q \in Ops : /\ row'[q].state = IF q = o THEN "reconciling" ELSE row[q].state
                         /\ row'[q].printer = row[q].printer
                         /\ row'[q].kind = row[q].kind
      BY <2>2, RowMoves DEF TypeOK
    <3>2. StatusOf("reconciling") = StatusOf("uncertain")
      BY DEF StatusOf, Unresolved
    <3> QED  BY <1>1, <2>2, <3>1, <3>2, Stutter DEF BeginAttempt, world
  <2> QED  BY <1>1, <2>1, <2>2 DEF BeginAttempt
<1>2. CASE UNCHANGED <<row, net>>
  BY <1>2, Stutter
<1> QED
  BY <1>1, <1>2, AbandonMaps, EndAttemptMaps
     DEF ReconcilerStep, BeginAttemptFails, CheckAgain, Decide, EndAttemptFails, TimerFires,
         OnOnline, durable, world

LEMMA CommandMaps ==
  ASSUME TypeOK, Inductive, NEW p \in Printers, CommandStep(p)
  PROVE  Writes!Next \/ UNCHANGED Writes!vars
<1>1. CASE UNCHANGED <<row, net>>
  BY <1>1, Stutter
<1>2. CASE WriteAhead(p) /\ row' # row
  <2> DEFINE c == cmd[p]
  <2>1. /\ c.op \in Ops /\ UNCHANGED net
        /\ row[c.op].state = "absent"
        /\ \A q \in Ops : ~(row[q].state \in Unresolved /\ row[q].printer = p)
        /\ row'[c.op].state = "dispatching" /\ row'[c.op].printer = p
        /\ \A q \in Ops : q # c.op => row'[q] = row[q]
    BY <1>2 DEF WriteAhead, WriteAheadAllowed, HasUnresolved, TypeOK, Cmd, world
  <2>2. /\ Status[c.op] = "none" /\ Status' = [Status EXCEPT ![c.op] = "open"]
        /\ Owner' = [Owner EXCEPT ![c.op] = p]
        /\ Again' = [Again EXCEPT ![c.op] = (row'[c.op].kind = "upload")]
        /\ Fate' = Fate
    <3> HIDE DEF c
    <3>1. StatusOf("absent") = "none" /\ StatusOf("dispatching") = "open"
      BY DEF StatusOf, Unresolved
    <3>2. Status[c.op] = "none" /\ Status' = [Status EXCEPT ![c.op] = "open"]
      BY <2>1, <3>1 DEF Status
    <3>3. Owner' = [Owner EXCEPT ![c.op] = p]
      BY <2>1 DEF Owner
    <3>4. Again' = [Again EXCEPT ![c.op] = (row'[c.op].kind = "upload")]
      <4>1. \A q \in Ops : q # c.op => row'[q].kind = row[q].kind
        BY <2>1
      <4> QED  BY <4>1 DEF Again
    <3>5. Fate' = Fate
      BY <2>1 DEF Fate
    <3> QED  BY <3>2, <3>3, <3>4, <3>5
  <2>3. \A q \in Ops : ~(Status[q] = "open" /\ Owner[q] = p)
    BY <2>1 DEF Status, Owner, StatusOf, TypeOK, Row, RowState, Terminal
  <2>4. Writes!Open(c.op, p)
    BY <2>1, <2>2, <2>3 DEF Writes!Open, Status, Owner, Again, Fate
  <2> QED  BY <2>1, <2>4 DEF Writes!Next
<1> QED
  BY <1>1, <1>2 DEF CommandStep, CheckWrite, CommandFails, WriteAhead, durable, world

LEMMA PrinterMaps ==
  ASSUME TypeOK, NEW p \in Printers, PrinterStep(p)
  PROVE  Writes!Next \/ UNCHANGED Writes!vars
<1>1. CASE UNCHANGED <<row, net>>
  BY <1>1, Stutter
<1>2. CASE DeletePrinter(p)
  <2>1. UNCHANGED net
    BY <1>2 DEF DeletePrinter, world
  <2>2. \A q \in Ops :
          /\ row'[q].printer = row[q].printer /\ row'[q].kind = row[q].kind
          /\ row'[q].state = IF row[q].printer = p /\ row[q].state \in Terminal
                               THEN "deleted" ELSE row[q].state
    BY <1>2 DEF DeletePrinter, TypeOK, Row
  <2>3. \A q \in Ops : ~(row[q].state \in Unresolved /\ row[q].printer = p)
    BY <1>2 DEF DeletePrinter, HasUnresolved
  <2>4. \A s \in RowState : /\ StatusOf(s) = "open" <=> s \in Unresolved
                            /\ StatusOf(s) \in Writes!Closed <=> s \in Terminal
    BY DEF StatusOf, RowState, Unresolved, Terminal, Writes!Closed
  <2>5. \A q \in Ops : row[q].state \in RowState
    BY DEF TypeOK, Row
  <2>6. StatusOf("deleted") = "gone"
    BY DEF StatusOf, Unresolved
  <2>7. Owner' = Owner /\ Again' = Again /\ Fate' = Fate
    BY <2>1, <2>2 DEF Owner, Again, Fate
  <2>8. Status' = [q \in Ops |-> IF Owner[q] = p /\ Status[q] \in Writes!Closed
                                   THEN "gone" ELSE Status[q]]
    BY <2>2, <2>4, <2>5, <2>6 DEF Status, Owner
  <2>9. \A q \in Ops : ~(Status[q] = "open" /\ Owner[q] = p)
    BY <2>3, <2>4, <2>5 DEF Status, Owner
  <2>10. Writes!Forget(p)
    BY <2>7, <2>8, <2>9 DEF Writes!Forget, Status, Owner, Again, Fate
  <2> QED  BY <2>10 DEF Writes!Next
<1> QED
  BY <1>1, <1>2 DEF PrinterStep, SetConnection, Archive, Unarchive, GoOnline, GoOffline, world

LEMMA WorldMaps ==
  ASSUME TypeOK, Inductive, WorldStep
  PROVE  Writes!Next \/ UNCHANGED Writes!vars
<1>1. ASSUME NEW o \in Ops, Land(o)
      PROVE  Writes!Next
  <2>1. EffectOf("flying") = "pending" /\ EffectOf("applied") = "happened"
    BY DEF EffectOf
  <2>2. Fate[o] = "pending"
    BY <1>1, <2>1 DEF Land, Fate
  <2>3. /\ Status' = Status /\ Owner' = Owner /\ Again' = Again
        /\ Fate' = [Fate EXCEPT ![o] = "happened"]
    BY <1>1, <2>1, RequestStep DEF Land, durable
  <2>4. Writes!Happen(o)
    BY <2>2, <2>3 DEF Writes!Happen, Status, Owner, Again, Fate
  <2> QED  BY <2>4 DEF Writes!Next
<1>2. ASSUME NEW o \in Ops, Drop(o)
      PROVE  Writes!Next
  <2>1. PICK n \in {"refused", "lost"} : net' = [net EXCEPT ![o] = n]
    BY <1>2 DEF Drop
  <2>2. EffectOf("flying") = "pending" /\ EffectOf(n) = "void"
    BY DEF EffectOf
  <2>3. Fate[o] = "pending"
    BY <1>2, <2>2 DEF Drop, Fate
  <2>4. /\ Status' = Status /\ Owner' = Owner /\ Again' = Again
        /\ Fate' = [Fate EXCEPT ![o] = "void"]
    <3>1. UNCHANGED row
      BY <1>2 DEF Drop, durable
    <3>2. /\ Status' = Status /\ Owner' = Owner /\ Again' = Again
          /\ Fate' = [Fate EXCEPT ![o] = EffectOf(n)]
      BY <2>1, <3>1, RequestStep
    <3> QED  BY <2>2, <3>2
  <2>5. Writes!Vanish(o)
    BY <2>3, <2>4 DEF Writes!Vanish, Status, Owner, Again, Fate
  <2> QED  BY <2>5 DEF Writes!Next
<1>3. CASE UNCHANGED <<row, net>>
  BY <1>3, Stutter
<1> QED
  BY <1>1, <1>2, <1>3 DEF WorldStep, SettlePasses, PrintEnds, Outside, durable

LEMMA RestartMaps ==
  ASSUME TypeOK, Inductive, Restart
  PROVE  Writes!Next
<1> DEFINE S == {o \in Ops : row[o].state = "dispatching" /\ ~row[o].sent}
<1>1. \A o \in Ops : /\ row'[o].printer = row[o].printer /\ row'[o].kind = row[o].kind
                     /\ StatusOf(row'[o].state) =
                          IF o \in S THEN "failed" ELSE StatusOf(row[o].state)
                     /\ o \in S => StatusOf(row[o].state) = "open"
  BY DEF Restart, Recovered, TypeOK, Row, StatusOf, Unresolved
<1>2. UNCHANGED net /\ \A o \in S : EffectOf(net[o]) = "unsent"
  BY DEF Restart, world, Inductive, SentIsRecorded, EffectOf
<1> HIDE DEF S
<1>3. /\ Status' = [o \in Ops |-> IF o \in S THEN "failed" ELSE Status[o]]
      /\ Owner' = Owner /\ Again' = Again /\ Fate' = Fate
  BY <1>1, <1>2 DEF Status, Owner, Again, Fate
<1>4. S \subseteq Ops
  BY DEF S
<1>5. Writes!Fail(S)
  BY <1>1, <1>2, <1>3, <1>4 DEF Writes!Fail, Writes!Harmless, Status, Owner, Again, Fate
<1> QED  BY <1>4, <1>5 DEF Writes!Next

\* Every step of the Host Operations is a step of HostWrites, or stutters there.
THEOREM Refinement == Spec => ImplementsWrites
<1>1. TypeOK /\ Inductive /\ [Next]_vars => [Writes!Next]_(Writes!vars)
  <2> SUFFICES ASSUME TypeOK, Inductive, [Next]_vars
               PROVE  Writes!Next \/ UNCHANGED Writes!vars
    OBVIOUS
  <2>1. CASE UNCHANGED vars \/ Crash
    BY <2>1, Stutter DEF vars, durable, world, Crash
  <2> QED
    BY <2>1, ExecutorMaps, ReconcilerMaps, CommandMaps, PrinterMaps, WorldMaps, RestartMaps
       DEF Next
<1> QED
  BY <1>1, InitMaps, TypeCorrect, InductiveHolds, PTL DEF Spec, ImplementsWrites, Writes!Spec
=============================================================================

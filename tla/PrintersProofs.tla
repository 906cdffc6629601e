--------------------------- MODULE PrintersProofs ---------------------------
(***************************************************************************)
(* Theorems of the supervision of a Printer, for any hosts, commands,      *)
(* depth of the status channel and bounds; of the camera images, for any   *)
(* captures, subjects, requests, cap and bounds; and of what is raised     *)
(* about a Printer, for any Jobs and bounds.                               *)
(***************************************************************************)
EXTENDS Supervisor, Media, Attention, FiniteSetTheorems, SequenceTheorems, WellFoundedInduction, TLAPS

AnyHost == Hosts \cup {NoHost}
Stored == [state : {"active", "archived", "deleted"}, conn : AnyHost]
Shown == [shown : BOOLEAN, state : {"offline", "online", "error", "connecting"}, by : Nat,
          from : AnyHost, fresh : BOOLEAN, cached : BOOLEAN]
Supervised == [pc : {"none", "subscribed", "draining", "failing", "waiting", "ended"}, host : AnyHost,
               stop : BOOLEAN, outcome : {"none", "closed", "failed", "stopped"},
               buf : Seq(Observations), held : Shown]
Commanding == [pc : {"idle", "waiting", "joining", "acting"},
               kind : {"none", "set", "clear", "archive", "unarchive", "delete"}, copy : Stored,
               what : {"none", "start", "reconcile", "stop", "discard", "clear"},
               host : AnyHost, task : Epochs \cup {0}]
Limiting == [edits : Nat, reads : Nat, forces : Nat, restarts : Nat]

SupTyped ==
    /\ row \in Stored /\ snapshot \in AnyHost /\ status \in Shown /\ epoch \in Nat
    /\ entry \in Epochs \cup {0} /\ task \in [Epochs -> Supervised] /\ cmd \in [Cmds -> Commanding]
    /\ forced \in BOOLEAN /\ limit \in Limiting

Guards(c) == cmd[c].pc \in {"joining", "acting"}
WaitsTurn(c) == cmd[c].pc = "waiting"
Wanted == row.state = "active" /\ row.conn # NoHost

\* One command has the guard; it took the task out of the map unless it only reconciles.
Guarded ==
    /\ \A c, d \in Cmds : Guards(c) /\ Guards(d) => c = d
    /\ \A c \in Cmds : Guards(c) => cmd[c].what # "none" /\ (cmd[c].what # "reconcile" => entry = 0)
    /\ \A c \in Cmds : cmd[c].pc = "joining" => /\ cmd[c].what # "reconcile" /\ cmd[c].task # 0
                                                /\ task[cmd[c].task].stop

Deletions ==
    /\ row.state = "deleted" => row.conn = NoHost /\ snapshot = NoHost
    /\ \A c \in Cmds : WaitsTurn(c) /\ cmd[c].kind = "delete" => row.state = "deleted"

\* The task in the map is the last supervision, goes on, and is the only one that does,
\* but for the one a command waits for.
Observed ==
    /\ entry # 0 => entry = epoch /\ Running(entry) /\ ~task[entry].stop /\ task[entry].outcome # "stopped"
    /\ \A e \in Epochs : Running(e) => e = entry \/ \E c \in Cmds : cmd[c].pc = "joining" /\ cmd[c].task = e
    /\ \A e \in Epochs : e > epoch => task[e] = NoTask

\* What a forwarder holds is of its own supervision; one that was not left behind by a forced
\* stop ends before its task goes on.
Forwarded ==
    /\ \A e \in Epochs : task[e].held.shown => task[e].held.by = e
    /\ ~forced => \A e \in Epochs : Forwarding(task[e]) => task[e].pc \in {"subscribed", "draining"}

\* A task that observes a Printer without a Connection, or is about to, has a command coming
\* that stops it.
Cleaning == row.conn = NoHost /\ (entry # 0 \/ \E c \in Cmds : Guards(c) /\ cmd[c].what = "start") =>
    \E c \in Cmds : WaitsTurn(c) /\ cmd[c].kind \in {"clear", "delete"}

\* What the command with the guard is about to do is what the row asks for, or another waits.
Fitting(c) ==
    IF Wanted THEN cmd[c].what = "start" /\ cmd[c].host = row.conn
    ELSE IF row.state = "active" THEN cmd[c].what \in {"reconcile", "clear"}
    ELSE cmd[c].what \in {"stop", "discard"}
Acts == \A c \in Cmds : Guards(c) => Fitting(c) \/ \E d \in Cmds : WaitsTurn(d)

\* Once every command is done: the task and the status are what the row asks for.
Rest == Settled =>
    /\ IF Wanted THEN entry # 0 /\ task[entry].host = row.conn ELSE entry = 0
    /\ row.state # "active" \/ row.conn # NoHost \/ ~forced =>
         (status.shown <=> row.state = "active") /\ (row.state = "active" => status.by = entry)
    /\ row.state # "active" /\ epoch \in Epochs => task[epoch] = NoTask

\* The inductive invariant.
SupervisorInv == SupTyped /\ Guarded /\ Deletions /\ Observed /\ Forwarded /\ Cleaning /\ Acts /\ Rest

(***************************************************************************)
(* A supervision's steps.                                                  *)
(***************************************************************************)
\* A step of one task or its forwarder: what it may change of itself and of the status.
LEMMA TaskMoves ==
  ASSUME SupervisorInv, NEW e \in Epochs, NEW t \in Supervised, SetTask(e, t), task[e] # NoTask,
         UNCHANGED <<row, epoch, entry, cmd, forced>>,
         limit' \in Limiting, snapshot' \in AnyHost, row.state = "deleted" => snapshot' = snapshot,
         t.host = task[e].host, t.stop = task[e].stop,
         t.pc \notin {"none", "ended"} => Running(e),
         ~t.stop /\ Running(e) /\ task[e].outcome # "stopped" =>
            t.pc \notin {"none", "ended"} /\ t.outcome # "stopped",
         t.held.shown => t.held.by = e,
         ~forced /\ Forwarding(t) => t.pc \in {"subscribed", "draining"},
         \/ status' = status
         \/ /\ status' \in Shown /\ status'.shown /\ status'.by = e
            /\ e = epoch \/ Running(e)
            /\ forced \/ Running(e)
  PROVE  SupervisorInv'
<1>1. /\ task' \in [Epochs -> Supervised] /\ task'[e] = t /\ \A x \in Epochs \ {e} : task'[x] = task[x]
  BY DEF SupervisorInv, SupTyped, SetTask
<1>2. e <= epoch /\ e # 0 /\ e \in Nat /\ epoch \in Nat /\ entry \in Nat
  BY SupervisorAssumption DEF SupervisorInv, Observed, SupTyped, Epochs
<1>3. \A x \in Epochs : /\ Running(x)' => Running(x)
                        /\ (x = entry => Running(x)' /\ ~task'[x].stop /\ task'[x].outcome # "stopped" /\ task'[x].host = task[x].host)
  <2> SUFFICES ASSUME NEW x \in Epochs
               PROVE  /\ Running(x)' => Running(x)
                      /\ (x = entry => Running(x)' /\ ~task'[x].stop /\ task'[x].outcome # "stopped" /\ task'[x].host = task[x].host)
    OBVIOUS
  <2>1. x = entry => x # 0 /\ Running(x) /\ ~task[x].stop /\ task[x].outcome # "stopped"
    BY SupervisorAssumption DEF SupervisorInv, Observed, Epochs
  <2>2. CASE x = e
    BY <1>1, <2>1, <2>2 DEF Running
  <2>3. CASE x # e
    BY <1>1, <2>1, <2>3 DEF Running
  <2> QED  BY <2>2, <2>3
<1>4. SupTyped'
  BY <1>1 DEF SupervisorInv, SupTyped
<1>5. Guarded'
  <2>1. \A x \in Epochs : task'[x].stop = task[x].stop
    BY <1>1
  <2>2. \A c \in Cmds : cmd[c].task \in Epochs \cup {0}
    BY DEF SupervisorInv, SupTyped, Commanding
  <2> QED  BY <2>1, <2>2 DEF SupervisorInv, Guarded, Guards
<1>6. Deletions' /\ Cleaning' /\ Acts'
  BY DEF SupervisorInv, Deletions, Cleaning, Acts, Fitting, Guards, WaitsTurn, Wanted
<1>7. Observed'
  <2>1. entry # 0 => entry \in Epochs
    BY DEF SupervisorInv, SupTyped
  <2>2. entry # 0 => entry = epoch
    BY DEF SupervisorInv, Observed
  <2>3. \A x \in Epochs : x > epoch => task'[x] = NoTask
    BY <1>1, <1>2 DEF SupervisorInv, Observed
  <2>4. \A x \in Epochs : Running(x)' => x = entry \/ \E c \in Cmds : cmd[c].pc = "joining" /\ cmd[c].task = x
    BY <1>3 DEF SupervisorInv, Observed
  <2> QED  BY <1>3, <2>1, <2>2, <2>3, <2>4 DEF Observed
<1>8. Forwarded'
  BY <1>1 DEF SupervisorInv, Forwarded
<1>9. Rest'
  <2> SUFFICES ASSUME Settled
               PROVE  /\ IF Wanted THEN entry # 0 /\ task'[entry].host = row.conn ELSE entry = 0
                      /\ row.state # "active" \/ row.conn # NoHost \/ ~forced =>
                           (status'.shown <=> row.state = "active") /\ (row.state = "active" => status'.by = entry)
                      /\ row.state # "active" /\ epoch \in Epochs => task'[epoch] = NoTask
    BY DEF Rest, Settled, Wanted
  <2>1. /\ IF Wanted THEN entry # 0 /\ task[entry].host = row.conn ELSE entry = 0
        /\ row.state # "active" \/ row.conn # NoHost \/ ~forced =>
             (status.shown <=> row.state = "active") /\ (row.state = "active" => status.by = entry)
        /\ row.state # "active" /\ epoch \in Epochs => task[epoch] = NoTask
    BY DEF SupervisorInv, Rest
  <2>2. entry # 0 => entry \in Epochs /\ task'[entry].host = task[entry].host
    BY <1>3 DEF SupervisorInv, SupTyped
  <2>3. row.state # "active" /\ epoch \in Epochs => e # epoch /\ task'[epoch] = NoTask
    BY <1>1, <2>1
  <2>4. Running(e) => e = entry /\ Wanted
    BY <1>2, <2>1 DEF SupervisorInv, Observed, Settled
  <2>5. entry # 0 => entry = epoch
    BY DEF SupervisorInv, Observed
  <2>6. CASE status' = status
    BY <2>1, <2>2, <2>3, <2>6
  <2>7. CASE status'.shown /\ status'.by = e /\ (e = epoch \/ Running(e)) /\ (forced \/ Running(e))
    BY <2>1, <2>2, <2>3, <2>4, <2>5, <2>7 DEF Wanted
  <2> QED  BY <2>6, <2>7
<1> QED  BY <1>4, <1>5, <1>6, <1>7, <1>8, <1>9 DEF SupervisorInv

\* What merge_status and its like show.
LEMMA MergeTyped ==
  ASSUME NEW previous \in Shown, NEW seen \in Observations \cup {"connecting"}, NEW host \in AnyHost, NEW by \in Nat
  PROVE  LET next == MergeStatus(previous, seen, host, by) IN next \in Shown /\ next.shown /\ next.by = by
<1> DEFINE shown == [previous EXCEPT !.shown = TRUE]
           next == [shown EXCEPT !.by = by]
           up == [next EXCEPT !.state = "online"]
           ours == [up EXCEPT !.from = host]
           fresh == [ours EXCEPT !.fresh = TRUE]
           told == [fresh EXCEPT !.cached = FALSE]
           health == [next EXCEPT !.state = seen]
           kept == [health EXCEPT !.fresh = health.fresh \/ (seen = "online" /\ ~previous.cached)]
<1>1. shown \in Shown /\ shown.shown
  BY DEF Shown
<1>2. [previous EXCEPT !.shown = TRUE, !.by = by] = next
  BY DEF Shown
<1> HIDE DEF shown
<1>3. next \in Shown /\ next.shown /\ next.by = by
  BY <1>1 DEF Shown
<1>4. /\ [next EXCEPT !.state = "online", !.from = host, !.fresh = TRUE, !.cached = FALSE] = told
      /\ [next EXCEPT !.state = seen, !.fresh = @ \/ (seen = "online" /\ ~previous.cached)] = kept
  BY <1>3 DEF Shown
<1> HIDE DEF next
<1>5. up \in Shown /\ up.shown /\ up.by = by
  BY <1>3 DEF Shown
<1> HIDE DEF up
<1>6. ours \in Shown /\ ours.shown /\ ours.by = by
  BY <1>5 DEF Shown
<1> HIDE DEF ours
<1>7. fresh \in Shown /\ fresh.shown /\ fresh.by = by
  BY <1>6 DEF Shown
<1> HIDE DEF fresh
<1>8. told \in Shown /\ told.shown /\ told.by = by
  BY <1>7 DEF Shown
<1> HIDE DEF told
<1>9. seen # "telemetry" => health \in Shown /\ health.shown /\ health.by = by
  BY <1>3 DEF Shown, Observations
<1> HIDE DEF health
<1>10. seen # "telemetry" => kept \in Shown /\ kept.shown /\ kept.by = by
  BY <1>9 DEF Shown
<1> HIDE DEF kept
<1>11. MergeStatus(previous, seen, host, by) = IF seen = "telemetry" THEN told ELSE kept
  BY <1>2, <1>4, Zenon DEF MergeStatus
<1> QED  BY <1>8, <1>10, <1>11

LEMMA RetainTyped ==
  ASSUME status \in Shown, NEW state \in {"offline", "error"}, NEW by \in Nat
  PROVE  Retain(state, by) \in Shown /\ Retain(state, by).shown /\ Retain(state, by).by = by
<1> DEFINE shown == [status EXCEPT !.shown = TRUE]
           told == [shown EXCEPT !.state = state]
           next == [told EXCEPT !.by = by]
<1>1. shown \in Shown /\ shown.shown
  BY DEF Shown
<1>2. Retain(state, by) = next
  BY DEF Shown, Retain
<1> HIDE DEF shown
<1>3. told \in Shown /\ told.shown
  BY <1>1 DEF Shown
<1> HIDE DEF told
<1>4. next \in Shown /\ next.shown /\ next.by = by
  BY <1>3 DEF Shown
<1> QED  BY <1>2, <1>4

LEMMA ObserveKeeps ==
  ASSUME SupervisorInv, NEW e \in Epochs, NEW seen \in Observations, Observe(e, seen)
  PROVE  SupervisorInv'
<1> DEFINE old == task[e]
           t == [old EXCEPT !.buf = Append(@, seen)]
<1>1. /\ old \in Supervised /\ old.pc = "subscribed" /\ SetTask(e, t)
      /\ old.held.shown => old.held.by = e
      /\ UNCHANGED <<row, snapshot, status, epoch, entry, cmd, forced>>
  BY DEF Observe, SupervisorInv, SupTyped, Forwarded
<1>2. limit' \in Limiting
  <2>1. limit \in Limiting /\ limit.reads > 0 /\ limit' = [limit EXCEPT !.reads = @ - 1]
    BY DEF Observe, SupervisorInv, SupTyped
  <2> QED  BY <2>1 DEF Limiting
<1>3. snapshot \in AnyHost
  BY DEF SupervisorInv, SupTyped
<1>4. task[e] # NoTask /\ Running(e)
  BY <1>1 DEF NoTask, Running
<1> HIDE DEF old
<1>5. /\ t \in Supervised /\ t.pc = "subscribed" /\ t.host = old.host /\ t.stop = old.stop /\ t.outcome = old.outcome
      /\ t.held = old.held
  <2>1. Append(old.buf, seen) \in Seq(Observations)
    BY <1>1 DEF Supervised
  <2> QED  BY <1>1, <2>1 DEF Supervised
<1> HIDE DEF t
<1> QED  BY <1>1, <1>2, <1>3, <1>4, <1>5, TaskMoves DEF old

\* The forwarder of a supervision.
LEMMA TakeKeeps ==
  ASSUME SupervisorInv, NEW e \in Epochs, Take(e)
  PROVE  SupervisorInv'
<1> DEFINE old == task[e]
           next == MergeStatus(status, Head(old.buf), old.host, e)
           rest == [old EXCEPT !.buf = Tail(@)]
           t == [rest EXCEPT !.held = next]
<1>1. /\ old \in Supervised /\ old.buf # <<>> /\ SetTask(e, [old EXCEPT !.buf = Tail(@), !.held = next])
      /\ UNCHANGED <<row, status, epoch, entry, cmd, forced, limit>>
      /\ \/ row.state # "deleted" /\ snapshot' = old.host
         \/ UNCHANGED snapshot
  BY DEF Take, SupervisorInv, SupTyped
<1>2. old.buf \in Seq(Observations) /\ Head(old.buf) \in Observations /\ Tail(old.buf) \in Seq(Observations)
  BY <1>1 DEF Supervised
<1>3. next \in Shown /\ next.by = e
  <2>1. status \in Shown /\ old.host \in AnyHost /\ e \in Nat
    BY <1>1 DEF SupervisorInv, SupTyped, Supervised, Epochs
  <2> HIDE DEF old
  <2> QED  BY <1>2, <2>1, MergeTyped
<1>4. limit' \in Limiting /\ snapshot' \in AnyHost /\ (row.state = "deleted" => snapshot' = snapshot)
  BY <1>1 DEF SupervisorInv, SupTyped, Supervised
<1>5. task[e] # NoTask /\ (~forced => old.pc \in {"subscribed", "draining"})
  BY <1>1 DEF NoTask, SupervisorInv, Forwarded, Forwarding
<1>6. Running(e) <=> old.pc \notin {"none", "ended"}
  BY DEF Running
<1>7. [old EXCEPT !.buf = Tail(@), !.held = next] = t
  BY <1>1 DEF Supervised
<1> HIDE DEF old, next
<1>8. rest \in Supervised /\ rest.pc = old.pc /\ rest.host = old.host /\ rest.stop = old.stop /\ rest.outcome = old.outcome
  BY <1>1, <1>2 DEF Supervised
<1> HIDE DEF rest
<1>9. /\ t \in Supervised /\ t.pc = old.pc /\ t.host = old.host /\ t.stop = old.stop /\ t.outcome = old.outcome
      /\ t.held = next
  BY <1>3, <1>8 DEF Supervised
<1>10. SetTask(e, t)
  BY <1>1, <1>7
<1> HIDE DEF t
<1> QED  BY <1>1, <1>3, <1>4, <1>5, <1>6, <1>9, <1>10, TaskMoves DEF old

LEMMA NothingShown == NoStatus \in Shown /\ NoStatus.shown = FALSE /\ NoStatus.by = 0
BY DEF NoStatus, Shown, AnyHost

LEMMA PublishKeeps ==
  ASSUME SupervisorInv, NEW e \in Epochs, Publish(e)
  PROVE  SupervisorInv'
<1> DEFINE old == task[e]
           t == [old EXCEPT !.held = NoStatus]
<1>1. /\ old \in Supervised /\ old.held.shown /\ SetTask(e, t) /\ status' = (IF epoch = e THEN old.held ELSE status)
      /\ UNCHANGED <<row, snapshot, epoch, entry, cmd, forced, limit>>
  BY DEF Publish, PublishIfCurrent, SupervisorInv, SupTyped
<1>2. old.held.by = e /\ old.held \in Shown
  BY <1>1 DEF SupervisorInv, Forwarded, Supervised
<1>3. limit' \in Limiting /\ snapshot' \in AnyHost
  BY <1>1 DEF SupervisorInv, SupTyped
<1>4. task[e] # NoTask /\ (~forced => old.pc \in {"subscribed", "draining"})
  BY <1>1, NothingShown DEF NoTask, SupervisorInv, Forwarded, Forwarding
<1>5. Running(e) <=> old.pc \notin {"none", "ended"}
  BY DEF Running
<1>6. forced \in BOOLEAN
  BY DEF SupervisorInv, SupTyped
<1> HIDE DEF old
<1>7. /\ t \in Supervised /\ t.pc = old.pc /\ t.host = old.host /\ t.stop = old.stop /\ t.outcome = old.outcome
      /\ t.held = NoStatus
  BY <1>1, NothingShown DEF Supervised
<1> HIDE DEF t
<1> QED  BY <1>1, <1>2, <1>3, <1>4, <1>5, <1>6, <1>7, NothingShown, TaskMoves DEF old

\* A step of the task itself, which leaves its forwarder and the rest alone.
LEMMA PhaseKeeps ==
  ASSUME SupervisorInv, NEW e \in Epochs,
         NEW pc \in {"subscribed", "draining", "failing", "waiting", "ended"},
         NEW how \in {"none", "closed", "failed", "stopped"},
         SetTask(e, [task[e] EXCEPT !.pc = pc, !.outcome = how]),
         Running(e), pc = "ended" \/ how = "stopped" => task[e].stop \/ task[e].outcome = "stopped",
         ~forced /\ pc \notin {"subscribed", "draining"} => ~Forwarding(task[e]),
         UNCHANGED <<row, snapshot, epoch, entry, cmd, forced, limit>>,
         status' = status \/ (status' \in Shown /\ status'.shown /\ status'.by = e)
  PROVE  SupervisorInv'
<1> DEFINE old == task[e]
           s == [old EXCEPT !.pc = pc]
           t == [s EXCEPT !.outcome = how]
<1>1. old \in Supervised /\ (old.held.shown => old.held.by = e) /\ limit' \in Limiting /\ snapshot' \in AnyHost
  BY DEF SupervisorInv, SupTyped, Forwarded
<1>2. SetTask(e, [old EXCEPT !.pc = pc, !.outcome = how])
  OBVIOUS
<1>3. task[e] # NoTask
  BY DEF Running, NoTask
<1>4. [old EXCEPT !.pc = pc, !.outcome = how] = t
  BY <1>1 DEF Supervised
<1> HIDE DEF old
<1>5. /\ s \in Supervised /\ s.pc = pc /\ s.host = old.host /\ s.stop = old.stop
      /\ s.held = old.held /\ s.buf = old.buf
  BY <1>1 DEF Supervised
<1> HIDE DEF s
<1>6. /\ t \in Supervised /\ t.pc = pc /\ t.host = old.host /\ t.stop = old.stop /\ t.outcome = how
      /\ t.held = old.held /\ t.buf = old.buf
  BY <1>1, <1>5 DEF Supervised
<1>7. SetTask(e, t)
  BY <1>2, <1>4
<1> HIDE DEF t
<1>8. Forwarding(t) <=> Forwarding(task[e])
  BY <1>6 DEF Forwarding, old
<1> QED  BY <1>1, <1>3, <1>6, <1>7, <1>8, TaskMoves DEF old

\* A task that does not subscribe any more has nothing left to forward, unless a stop was forced.
LEMMA TaskStepKeeps ==
  ASSUME SupervisorInv, TaskStep
  PROVE  SupervisorInv'
<1>1. PICK e \in Epochs :
        \/ \E seen \in Observations : Observe(e, seen)
        \/ \E how \in {"closed", "failed", "stopped"} : Unsubscribe(e, how)
        \/ Take(e) \/ Publish(e) \/ Drained(e) \/ ReportError(e) \/ Backoff(e)
  BY DEF TaskStep
<1>2. task[e] \in Supervised
  BY DEF SupervisorInv, SupTyped
<1>3. ASSUME NEW how \in {"closed", "failed", "stopped"}, Unsubscribe(e, how)  PROVE SupervisorInv'
  BY <1>3, PhaseKeeps DEF Unsubscribe, Running
<1>4. CASE Drained(e)
  <2> DEFINE pc == IF task[e].outcome = "stopped" \/ task[e].stop THEN "ended"
                   ELSE IF task[e].outcome = "failed" THEN "failing" ELSE "waiting"
  <2>1. /\ task[e].pc = "draining" /\ ~Forwarding(task[e]) /\ SetTask(e, [task[e] EXCEPT !.pc = pc])
        /\ UNCHANGED <<row, snapshot, status, epoch, entry, cmd, forced, limit>>
    BY <1>4, Zenon DEF Drained
  <2>2. [task[e] EXCEPT !.pc = pc] = [task[e] EXCEPT !.pc = pc, !.outcome = task[e].outcome]
    BY <1>2 DEF Supervised
  <2>3. SetTask(e, [task[e] EXCEPT !.pc = pc, !.outcome = task[e].outcome])
    BY <2>1, <2>2
  <2>4. task[e].outcome \in {"none", "closed", "failed", "stopped"} /\ pc \in {"failing", "waiting", "ended"}
    BY <1>2 DEF Supervised
  <2>5. pc = "ended" => task[e].stop \/ task[e].outcome = "stopped"
    OBVIOUS
  <2> HIDE DEF pc
  <2> QED  BY <2>1, <2>3, <2>4, <2>5, PhaseKeeps DEF Running
<1>5. CASE ReportError(e)
  <2>1. /\ task[e].pc = "failing" /\ SetTask(e, [task[e] EXCEPT !.pc = "waiting"]) /\ status' = Retain("error", e)
        /\ UNCHANGED <<row, snapshot, epoch, entry, cmd, forced, limit>>
    BY <1>5 DEF ReportError
  <2>2. [task[e] EXCEPT !.pc = "waiting"] = [task[e] EXCEPT !.pc = "waiting", !.outcome = task[e].outcome]
    BY <1>2 DEF Supervised
  <2>3. SetTask(e, [task[e] EXCEPT !.pc = "waiting", !.outcome = task[e].outcome])
    BY <2>1, <2>2
  <2>4. task[e].outcome \in {"none", "closed", "failed", "stopped"}
    BY <1>2 DEF Supervised
  <2>5. status' \in Shown /\ status'.shown /\ status'.by = e
    <3>1. status \in Shown /\ e \in Nat
      BY DEF SupervisorInv, SupTyped, Epochs
    <3> QED  BY <2>1, <3>1, RetainTyped
  <2>6. Running(e) /\ (~forced => ~Forwarding(task[e]))
    BY <2>1 DEF SupervisorInv, Forwarded, Running
  <2> QED  BY <2>1, <2>3, <2>4, <2>5, <2>6, PhaseKeeps
<1>6. CASE Backoff(e)
  <2>1. /\ task[e].pc = "waiting" /\ UNCHANGED <<row, snapshot, status, epoch, entry, cmd, forced, limit>>
        /\ \/ SetTask(e, [task[e] EXCEPT !.pc = "subscribed", !.outcome = "none"])
           \/ task[e].stop /\ SetTask(e, [task[e] EXCEPT !.pc = "ended"])
    BY <1>6 DEF Backoff
  <2>2. Running(e) /\ (~forced => ~Forwarding(task[e]))
    BY <2>1 DEF SupervisorInv, Forwarded, Running
  <2>3. CASE SetTask(e, [task[e] EXCEPT !.pc = "subscribed", !.outcome = "none"])
    BY <2>1, <2>2, <2>3, PhaseKeeps
  <2>4. CASE task[e].stop /\ SetTask(e, [task[e] EXCEPT !.pc = "ended"])
    <3>1. [task[e] EXCEPT !.pc = "ended"] = [task[e] EXCEPT !.pc = "ended", !.outcome = task[e].outcome]
      BY <1>2 DEF Supervised
    <3>2. SetTask(e, [task[e] EXCEPT !.pc = "ended", !.outcome = task[e].outcome])
      BY <2>4, <3>1
    <3>3. task[e].outcome \in {"none", "closed", "failed", "stopped"}
      BY <1>2 DEF Supervised
    <3> QED  BY <2>1, <2>2, <2>4, <3>2, <3>3, PhaseKeeps
  <2> QED  BY <2>1, <2>3, <2>4
<1>7. CASE \E seen \in Observations : Observe(e, seen)
  BY <1>7, ObserveKeeps
<1> QED  BY <1>1, <1>3, <1>4, <1>5, <1>6, <1>7, TakeKeeps, PublishKeeps

(***************************************************************************)
(* The commands.                                                           *)
(***************************************************************************)
LEMMA Fresh ==
  /\ NoCmd \in Commanding /\ NoCmd.pc = "idle"
  /\ NoTask \in Supervised /\ NoTask.pc = "none" /\ ~NoTask.held.shown /\ NoTask.buf = <<>>
BY DEF NoCmd, Commanding, Stored, AnyHost, NoTask, Supervised, NoStatus, Shown

LEMMA EditTyped ==
  ASSUME row \in Stored, row.state # "deleted", NEW host \in AnyHost,
         NEW kind \in {"set", "clear", "archive", "unarchive", "delete"}, kind = "set" => host # NoHost
  PROVE  /\ Edited(kind, host) \in Stored
         /\ Edited(kind, host).state = "deleted" <=> kind = "delete"
         /\ kind = "delete" => Edited(kind, host).conn = NoHost
         /\ Edited(kind, host).conn = NoHost => row.conn = NoHost \/ kind \in {"clear", "delete"}
BY DEF Edited, Stored, AnyHost

LEMMA CommitKeeps ==
  ASSUME SupervisorInv, NEW c \in Cmds, NEW host \in AnyHost,
         NEW kind \in {"set", "clear", "archive", "unarchive", "delete"}, kind = "set" => host # NoHost,
         Commit(c, kind, host)
  PROVE  SupervisorInv'
<1> DEFINE next == [NoCmd EXCEPT !.pc = "waiting", !.kind = kind, !.copy = row']
<1>1. /\ cmd[c].pc = "idle" /\ row.state # "deleted" /\ limit.edits > 0
      /\ row' = Edited(kind, host) /\ snapshot' = (IF kind = "delete" THEN NoHost ELSE snapshot)
      /\ cmd' = [cmd EXCEPT ![c] = next] /\ limit' = [limit EXCEPT !.edits = @ - 1]
      /\ UNCHANGED <<status, epoch, entry, task, forced>>
  BY DEF Commit
<1>2. /\ row' \in Stored /\ (row'.state = "deleted" <=> kind = "delete")
      /\ kind = "delete" => row'.conn = NoHost
      /\ row'.conn = NoHost => row.conn = NoHost \/ kind \in {"clear", "delete"}
  BY <1>1, EditTyped DEF SupervisorInv, SupTyped
<1>3. next \in Commanding /\ next.pc = "waiting" /\ next.kind = kind
  BY <1>2 DEF NoCmd, Commanding, AnyHost
<1> HIDE DEF next
<1>4. /\ cmd' \in [Cmds -> Commanding] /\ cmd'[c] = next /\ \A d \in Cmds \ {c} : cmd'[d] = cmd[d]
  BY <1>1, <1>3 DEF SupervisorInv, SupTyped
<1>5. SupTyped'
  <2>1. limit' \in Limiting
    BY <1>1 DEF SupervisorInv, SupTyped, Limiting
  <2> QED  BY <1>1, <1>2, <1>4, <2>1 DEF SupervisorInv, SupTyped, AnyHost
<1>6. /\ \A d \in Cmds : Guards(d)' => d # c /\ Guards(d) /\ cmd'[d] = cmd[d]
      /\ \A d \in Cmds : WaitsTurn(d) => d # c /\ WaitsTurn(d)' /\ cmd'[d] = cmd[d]
      /\ WaitsTurn(c)'
  BY <1>1, <1>3, <1>4 DEF Guards, WaitsTurn
<1>7. Guarded'
  BY <1>1, <1>3, <1>4, <1>6 DEF SupervisorInv, Guarded
<1>8. Deletions'
  BY <1>1, <1>2, <1>3, <1>4 DEF SupervisorInv, Deletions, WaitsTurn
<1>9. Observed' /\ Forwarded'
  BY <1>1, <1>3, <1>4 DEF SupervisorInv, Observed, Forwarded, Running, Forwarding
<1>10. Cleaning'
  BY <1>1, <1>2, <1>3, <1>4, <1>6 DEF SupervisorInv, Cleaning
<1>11. Acts' /\ Rest'
  BY <1>3, <1>4, <1>6 DEF Acts, Rest, Settled
<1> QED  BY <1>5, <1>7, <1>8, <1>9, <1>10, <1>11 DEF SupervisorInv

\* What a command that takes the guard is to do fits the row it reads.
LEMMA TakeGuardKeeps ==
  ASSUME SupervisorInv, NEW c \in Cmds, TakeGuard(c)
  PROVE  SupervisorInv'
<1> DEFINE what == CASE cmd[c].kind = "delete" -> "stop"
                     [] cmd[c].kind = "clear" -> Cleared(row)
                     [] OTHER -> Supervise(row)
           joins == what # "reconcile" /\ entry # 0
           next == [cmd[c] EXCEPT !.pc = IF joins THEN "joining" ELSE "acting", !.what = what,
                                  !.host = row.conn, !.task = IF joins THEN entry ELSE 0]
<1>1. /\ cmd[c].pc = "waiting" /\ GuardFree /\ cmd' = [cmd EXCEPT ![c] = next]
      /\ entry' = (IF joins THEN 0 ELSE entry)
      /\ task' = (IF joins THEN [task EXCEPT ![entry].stop = TRUE] ELSE task)
      /\ UNCHANGED <<row, snapshot, status, epoch, forced, limit>>
  BY DEF TakeGuard, Persisted
<1>2. /\ row \in Stored /\ cmd \in [Cmds -> Commanding] /\ task \in [Epochs -> Supervised] /\ entry \in Epochs \cup {0}
  BY DEF SupervisorInv, SupTyped
<1>3. /\ what \in {"start", "reconcile", "stop", "discard", "clear"}
      /\ IF Wanted THEN what = "start"
         ELSE IF row.state = "active" THEN what \in {"reconcile", "clear"} ELSE what \in {"stop", "discard"}
      /\ cmd[c].kind \in {"clear", "delete"} /\ row.conn = NoHost => what # "reconcile"
  <2>1. cmd[c].kind = "delete" => row.state = "deleted"
    BY <1>1 DEF SupervisorInv, Deletions, WaitsTurn
  <2>2. row.state \in {"active", "archived", "deleted"}
    BY <1>2 DEF Stored
  <2> QED  BY <2>1, <2>2 DEF Cleared, Supervise, Wanted
<1> HIDE DEF what
<1>4. /\ next \in Commanding /\ next.pc = (IF joins THEN "joining" ELSE "acting") /\ next.what = what
      /\ next.host = row.conn /\ (joins => next.task = entry)
  <2> DEFINE a == [cmd[c] EXCEPT !.pc = IF joins THEN "joining" ELSE "acting"]
             b == [a EXCEPT !.what = what]
             d == [b EXCEPT !.host = row.conn]
             f == [d EXCEPT !.task = IF joins THEN entry ELSE 0]
  <2>1. row.conn \in AnyHost /\ cmd[c] \in Commanding /\ (IF joins THEN entry ELSE 0) \in Epochs \cup {0}
    BY <1>2 DEF Stored
  <2>2. a \in Commanding /\ a.pc = (IF joins THEN "joining" ELSE "acting")
    BY <2>1 DEF Commanding
  <2>3. next = f
    BY <2>1 DEF Commanding
  <2> HIDE DEF a
  <2>4. b \in Commanding /\ b.pc = a.pc /\ b.what = what
    BY <1>3, <2>2 DEF Commanding
  <2> HIDE DEF b
  <2>5. d \in Commanding /\ d.pc = a.pc /\ d.what = what /\ d.host = row.conn
    BY <2>1, <2>4 DEF Commanding
  <2> HIDE DEF d
  <2>6. /\ f \in Commanding /\ f.pc = a.pc /\ f.what = what /\ f.host = row.conn
        /\ f.task = (IF joins THEN entry ELSE 0)
    BY <2>1, <2>5 DEF Commanding
  <2> HIDE DEF f
  <2> QED  BY <2>2, <2>3, <2>6
<1> HIDE DEF next
<1>5. cmd' \in [Cmds -> Commanding] /\ cmd'[c] = next /\ \A d \in Cmds \ {c} : cmd'[d] = cmd[d]
  BY <1>1, <1>2, <1>4
<1>6. /\ \A d \in Cmds : ~Guards(d) /\ (Guards(d)' <=> d = c) /\ (WaitsTurn(d)' <=> WaitsTurn(d) /\ d # c)
      /\ WaitsTurn(c)
  BY <1>1, <1>4, <1>5 DEF GuardFree, Guards, WaitsTurn
<1>7. /\ task' \in [Epochs -> Supervised]
      /\ \A e \in Epochs : /\ task'[e].pc = task[e].pc /\ task'[e].held = task[e].held /\ task'[e].buf = task[e].buf
                           /\ ~joins \/ e # entry => task'[e] = task[e]
      /\ joins => entry \in Epochs /\ task'[entry].stop
  <2>1. CASE ~joins
    BY <1>1, <1>2, <2>1
  <2>2. CASE joins
    <3>1. entry \in Epochs /\ task' = [task EXCEPT ![entry] = [task[entry] EXCEPT !.stop = TRUE]]
      BY <1>1, <1>2, <2>2
    <3>2. /\ [task[entry] EXCEPT !.stop = TRUE] \in Supervised
          /\ [task[entry] EXCEPT !.stop = TRUE].pc = task[entry].pc
          /\ [task[entry] EXCEPT !.stop = TRUE].held = task[entry].held
          /\ [task[entry] EXCEPT !.stop = TRUE].buf = task[entry].buf
          /\ [task[entry] EXCEPT !.stop = TRUE].stop
      <4>1. task[entry] \in Supervised
        BY <1>2, <3>1
      <4> QED  BY <4>1 DEF Supervised
    <3> DEFINE told == [task[entry] EXCEPT !.stop = TRUE]
    <3> HIDE DEF told
    <3>3. task' \in [Epochs -> Supervised] /\ task'[entry] = told /\ \A e \in Epochs \ {entry} : task'[e] = task[e]
      BY <1>2, <3>1, <3>2 DEF told
    <3>4. /\ told.pc = task[entry].pc /\ told.held = task[entry].held /\ told.buf = task[entry].buf /\ told.stop
      BY <3>2 DEF told
    <3> QED  BY <2>2, <3>1, <3>3, <3>4
  <2> QED  BY <2>1, <2>2
<1>8. SupTyped'
  BY <1>1, <1>2, <1>5, <1>7 DEF SupervisorInv, SupTyped
<1>9. Guarded'
  BY <1>1, <1>2, <1>3, <1>4, <1>5, <1>6, <1>7 DEF Guarded, Guards
<1>10. Deletions'
  BY <1>1, <1>5, <1>6 DEF SupervisorInv, Deletions
<1>11. Observed'
  <2>1. \A e \in Epochs : Running(e)' => e = entry
    BY <1>6, <1>7 DEF SupervisorInv, Observed, Running, Guards
  <2>2. entry' # 0 => ~joins /\ entry' = entry
    BY <1>1
  <2>3. \A e \in Epochs : e > epoch => task'[e] = NoTask
    <3>1. joins => entry = epoch
      BY DEF SupervisorInv, Observed
    <3>2. joins => entry \in Nat
      BY <1>7 DEF Epochs
    <3> QED  BY <1>7, <3>1, <3>2 DEF SupervisorInv, Observed
  <2>4. entry' # 0 => entry' \in Epochs /\ task'[entry'] = task[entry]
    BY <1>2, <1>7, <2>2
  <2> QED  BY <1>1, <1>2, <1>4, <1>5, <1>6, <2>1, <2>2, <2>3, <2>4 DEF SupervisorInv, Observed, Running, Guards
<1>12. Forwarded'
  BY <1>1, <1>7 DEF SupervisorInv, Forwarded, Forwarding
<1>13. Cleaning'
  <2> SUFFICES ASSUME row.conn = NoHost, entry' # 0 \/ what = "start"
               PROVE  \E d \in Cmds : WaitsTurn(d)' /\ cmd'[d].kind \in {"clear", "delete"}
    BY <1>1, <1>4, <1>5, <1>6 DEF Cleaning
  <2>1. what # "start"
    BY <1>3 DEF Wanted
  <2>2. what = "reconcile" /\ entry # 0
    BY <1>1, <2>1
  <2>3. PICK d \in Cmds : WaitsTurn(d) /\ cmd[d].kind \in {"clear", "delete"}
    BY <2>2 DEF SupervisorInv, Cleaning
  <2>4. d # c
    BY <1>3, <2>2, <2>3
  <2> QED  BY <1>5, <1>6, <2>3, <2>4
<1>14. Acts'
  BY <1>1, <1>3, <1>4, <1>5, <1>6 DEF Acts, Fitting, Wanted
<1>15. Rest'
  BY <1>4, <1>5 DEF Rest, Settled
<1> QED  BY <1>8, <1>9, <1>10, <1>11, <1>12, <1>13, <1>14, <1>15 DEF SupervisorInv

\* A task that was joined, or aborted, does not run any more.
LEMMA JoinKeeps ==
  ASSUME SupervisorInv, NEW c \in Cmds, Join(c)
  PROVE  SupervisorInv'
<1>1. /\ cmd[c].pc = "joining" /\ task[cmd[c].task].pc = "ended" /\ cmd' = [cmd EXCEPT ![c].pc = "acting"]
      /\ UNCHANGED <<row, snapshot, status, epoch, entry, task, forced, limit>>
  BY DEF Join
<1>2. /\ cmd'[c] = [cmd[c] EXCEPT !.pc = "acting"] /\ [cmd[c] EXCEPT !.pc = "acting"] \in Commanding
      /\ cmd' \in [Cmds -> Commanding] /\ \A d \in Cmds \ {c} : cmd'[d] = cmd[d]
  <2>1. cmd \in [Cmds -> Commanding] /\ cmd[c] \in Commanding
    BY DEF SupervisorInv, SupTyped
  <2>2. [cmd[c] EXCEPT !.pc = "acting"] \in Commanding
    BY <2>1 DEF Commanding
  <2> QED  BY <1>1, <2>1, <2>2
<1>3. \A d \in Cmds : /\ Guards(d)' <=> Guards(d)
                      /\ WaitsTurn(d)' <=> WaitsTurn(d)
                      /\ cmd'[d].what = cmd[d].what /\ cmd'[d].host = cmd[d].host /\ cmd'[d].task = cmd[d].task
                      /\ cmd'[d].kind = cmd[d].kind /\ (cmd'[d].pc = "joining" => d # c /\ cmd[d].pc = "joining")
  <2> SUFFICES ASSUME NEW d \in Cmds
               PROVE  /\ Guards(d)' <=> Guards(d)
                      /\ WaitsTurn(d)' <=> WaitsTurn(d)
                      /\ cmd'[d].what = cmd[d].what /\ cmd'[d].host = cmd[d].host /\ cmd'[d].task = cmd[d].task
                      /\ cmd'[d].kind = cmd[d].kind /\ (cmd'[d].pc = "joining" => d # c /\ cmd[d].pc = "joining")
    OBVIOUS
  <2>1. CASE d # c
    BY <1>2, <2>1 DEF Guards, WaitsTurn
  <2>2. CASE d = c
    <3>1. cmd[c] \in Commanding /\ cmd'[c] = [cmd[c] EXCEPT !.pc = "acting"]
      BY <1>2 DEF SupervisorInv, SupTyped
    <3>2. /\ cmd'[c].pc = "acting" /\ cmd'[c].what = cmd[c].what /\ cmd'[c].host = cmd[c].host
          /\ cmd'[c].task = cmd[c].task /\ cmd'[c].kind = cmd[c].kind
      BY <3>1 DEF Commanding
    <3> QED  BY <1>1, <2>2, <3>2 DEF Guards, WaitsTurn
  <2> QED  BY <2>1, <2>2
<1>4. SupTyped' /\ Guarded' /\ Deletions' /\ Forwarded' /\ Cleaning'
  <2>1. SupTyped'
    BY <1>1, <1>2 DEF SupervisorInv, SupTyped
  <2>2. Guarded'
    BY <1>1, <1>3 DEF SupervisorInv, Guarded
  <2> QED  BY <1>1, <1>3, <2>1, <2>2 DEF SupervisorInv, Deletions, Forwarded, Cleaning, Forwarding
<1>5. Observed'
  <2>1. \A e \in Epochs, d \in Cmds : Running(e) /\ cmd[d].pc = "joining" /\ cmd[d].task = e =>
          cmd'[d].pc = "joining" /\ cmd'[d].task = e
    BY <1>1, <1>2 DEF Running
  <2> QED  BY <1>1, <2>1 DEF SupervisorInv, Observed, Running
<1>6. Acts'
  BY <1>1, <1>3 DEF SupervisorInv, Acts, Fitting, Wanted
<1>7. Rest'
  <2>1. Guards(c)'
    BY <1>1, <1>3 DEF Guards
  <2> QED  BY <2>1 DEF Rest, Settled, Guards
<1> QED  BY <1>4, <1>5, <1>6, <1>7 DEF SupervisorInv

LEMMA AbortKeeps ==
  ASSUME SupervisorInv, NEW c \in Cmds, Abort(c)
  PROVE  SupervisorInv'
<1> DEFINE e == cmd[c].task
           t == [task[e] EXCEPT !.pc = "ended"]
<1>1. /\ cmd[c].pc = "joining" /\ limit.forces > 0 /\ task[e].pc \in {"subscribed", "draining", "waiting"}
      /\ task' = [task EXCEPT ![e] = t] /\ forced' = TRUE /\ limit' = [limit EXCEPT !.forces = @ - 1]
      /\ UNCHANGED <<row, snapshot, status, epoch, entry, cmd>>
  BY DEF Abort, SetTask
<1>2. e \in Epochs /\ entry = 0 /\ task \in [Epochs -> Supervised] /\ task[e] \in Supervised /\ task[e].stop
  <2>1. e \in Epochs \cup {0} /\ task \in [Epochs -> Supervised]
    BY DEF SupervisorInv, SupTyped, Commanding
  <2>2. e # 0 /\ entry = 0 /\ task[e].stop
    BY <1>1 DEF SupervisorInv, Guarded, Guards
  <2> QED  BY <2>1, <2>2
<1> HIDE DEF e
<1>3. t \in Supervised /\ t.pc = "ended" /\ t.stop = task[e].stop /\ t.held = task[e].held
  BY <1>2 DEF Supervised
<1> HIDE DEF t
<1>4. task' \in [Epochs -> Supervised] /\ task'[e] = t /\ \A x \in Epochs \ {e} : task'[x] = task[x]
  BY <1>1, <1>2, <1>3
<1>5. SupTyped'
  <2>1. limit' \in Limiting
    BY <1>1 DEF SupervisorInv, SupTyped, Limiting
  <2> QED  BY <1>1, <1>4, <2>1 DEF SupervisorInv, SupTyped
<1>6. Guarded'
  <2>1. \A x \in Epochs : task'[x].stop = task[x].stop
    BY <1>3, <1>4
  <2>2. \A d \in Cmds : cmd[d].task \in Epochs \cup {0}
    BY DEF SupervisorInv, SupTyped, Commanding
  <2> QED  BY <1>1, <2>1, <2>2 DEF SupervisorInv, Guarded, Guards
<1>7. Deletions' /\ Cleaning' /\ Acts'
  BY <1>1 DEF SupervisorInv, Deletions, Cleaning, Acts, Fitting, Guards, WaitsTurn, Wanted
<1>8. Observed'
  <2>1. \A x \in Epochs : Running(x)' => Running(x)
    BY <1>3, <1>4 DEF Running
  <2>2. \A x \in Epochs : x > epoch => task'[x] = NoTask
    BY <1>1, <1>4, Fresh DEF SupervisorInv, Observed
  <2> QED  BY <1>1, <1>2, <2>1, <2>2 DEF SupervisorInv, Observed
<1>9. Forwarded'
  BY <1>1, <1>3, <1>4 DEF SupervisorInv, Forwarded
<1>10. Rest'
  BY <1>1 DEF Rest, Settled
<1> QED  BY <1>5, <1>6, <1>7, <1>8, <1>9, <1>10 DEF SupervisorInv

\* The command that has the guard does what it is to do and lets the guard go.
LEMMA ActFrame ==
  ASSUME SupervisorInv, NEW c \in Cmds, Act(c)
  PROVE  /\ cmd[c].pc = "acting" /\ cmd' = [cmd EXCEPT ![c] = NoCmd] /\ UNCHANGED <<row, forced, limit>>
         /\ cmd' \in [Cmds -> Commanding]
         /\ \A d \in Cmds : /\ ~Guards(d)' /\ (WaitsTurn(d)' <=> WaitsTurn(d)) /\ (WaitsTurn(d) => cmd'[d] = cmd[d])
                            /\ cmd[d].pc # "joining" /\ cmd'[d].pc # "joining"
         /\ Settled' => \A d \in Cmds : ~WaitsTurn(d)
         /\ cmd[c].what # "reconcile" => entry = 0
         /\ \A e \in Epochs : Running(e) => e = entry
<1>1. /\ cmd[c].pc = "acting" /\ cmd' = [cmd EXCEPT ![c] = NoCmd] /\ UNCHANGED <<row, forced, limit>>
  BY DEF Act
<1>2. cmd \in [Cmds -> Commanding]
  BY DEF SupervisorInv, SupTyped
<1>3. cmd' \in [Cmds -> Commanding] /\ cmd'[c] = NoCmd /\ \A d \in Cmds \ {c} : cmd'[d] = cmd[d]
  BY <1>1, <1>2, Fresh
<1>4. Guards(c) /\ \A d \in Cmds : Guards(d) => d = c
  BY <1>1 DEF SupervisorInv, Guarded, Guards
<1>5. \A d \in Cmds : /\ ~Guards(d)' /\ (WaitsTurn(d)' <=> WaitsTurn(d)) /\ (WaitsTurn(d) => cmd'[d] = cmd[d])
                      /\ cmd[d].pc # "joining" /\ cmd'[d].pc # "joining"
  BY <1>1, <1>3, <1>4, Fresh DEF Guards, WaitsTurn
<1>6. Settled' => \A d \in Cmds : ~WaitsTurn(d)
  BY <1>5 DEF Settled, WaitsTurn
<1>7. cmd[c].what # "reconcile" => entry = 0
  BY <1>4 DEF SupervisorInv, Guarded
<1>8. \A e \in Epochs : Running(e) => e = entry
  BY <1>5 DEF SupervisorInv, Observed
<1> QED  BY <1>1, <1>3, <1>5, <1>6, <1>7, <1>8

\* What an act that starts nothing has to show to keep the invariant.
LEMMA ActMoves ==
  ASSUME SupervisorInv, NEW c \in Cmds, Act(c), UNCHANGED <<entry, task>>,
         status' \in Shown, epoch' \in {epoch, epoch + 1}, snapshot' \in {snapshot, NoHost},
         entry # 0 => epoch' = epoch,
         (\A d \in Cmds : ~WaitsTurn(d)) =>
            /\ ~Wanted /\ entry = 0
            /\ status'.shown <=> row.state = "active"
            /\ row.state = "active" => status'.by = 0
            /\ row.state # "active" => epoch' = epoch + 1
  PROVE  SupervisorInv'
<1>1. epoch \in Nat /\ epoch' \in Nat /\ epoch' >= epoch
  BY DEF SupervisorInv, SupTyped
<1>2. /\ cmd[c].pc = "acting" /\ cmd' = [cmd EXCEPT ![c] = NoCmd] /\ UNCHANGED <<row, forced, limit>>
      /\ cmd' \in [Cmds -> Commanding]
      /\ \A d \in Cmds : /\ ~Guards(d)' /\ (WaitsTurn(d)' <=> WaitsTurn(d)) /\ (WaitsTurn(d) => cmd'[d] = cmd[d])
                         /\ cmd[d].pc # "joining" /\ cmd'[d].pc # "joining"
      /\ Settled' => \A d \in Cmds : ~WaitsTurn(d)
      /\ \A e \in Epochs : Running(e) => e = entry
  BY ActFrame
<1>3. SupTyped'
  BY <1>1, <1>2 DEF SupervisorInv, SupTyped, AnyHost
<1>4. Guarded' /\ Forwarded'
  BY <1>2 DEF SupervisorInv, Guarded, Forwarded, Forwarding
<1>5. Deletions'
  BY <1>2 DEF SupervisorInv, Deletions
<1>6. Observed'
  <2>1. \A e \in Epochs : e > epoch' => task'[e] = NoTask
    BY <1>1 DEF SupervisorInv, Observed, Epochs
  <2>2. \A e \in Epochs : Running(e)' => e = entry'
    BY <1>2 DEF Running
  <2>3. entry' # 0 => entry' = epoch' /\ Running(entry)' /\ ~task'[entry'].stop /\ task'[entry'].outcome # "stopped"
    BY DEF SupervisorInv, Observed, Running
  <2> QED  BY <2>1, <2>2, <2>3 DEF Observed
<1>7. Cleaning' /\ Acts'
  BY <1>2 DEF SupervisorInv, Cleaning, Acts
<1>8. Rest'
  <2> SUFFICES ASSUME Settled'
               PROVE  Rest'
    BY DEF Rest
  <2>1. /\ ~Wanted /\ entry = 0 /\ (status'.shown <=> row.state = "active")
        /\ row.state = "active" => status'.by = 0
        /\ row.state # "active" => epoch' = epoch + 1
    BY <1>2
  <2>2. row.state # "active" /\ epoch' \in Epochs => task'[epoch'] = NoTask
    BY <1>1, <2>1 DEF SupervisorInv, Observed
  <2> QED  BY <1>2, <2>1, <2>2 DEF Rest, Wanted
<1> QED  BY <1>3, <1>4, <1>5, <1>6, <1>7, <1>8 DEF SupervisorInv

LEMMA StartKeeps ==
  ASSUME SupervisorInv, NEW c \in Cmds, Act(c), cmd[c].what = "start"
  PROVE  SupervisorInv'
<1> DEFINE e == epoch + 1
           host == cmd[c].host
           a == [NoTask EXCEPT !.pc = "subscribed"]
           t == [a EXCEPT !.host = host]
<1>1. /\ e \in Epochs /\ epoch' = e /\ entry' = e /\ status' = MergeStatus(status, "connecting", host, e)
      /\ task' = [task EXCEPT ![e] = [NoTask EXCEPT !.pc = "subscribed", !.host = host]]
      /\ UNCHANGED snapshot
  BY DEF Act, Start, SetTask
<1>2. /\ cmd[c].pc = "acting" /\ cmd' = [cmd EXCEPT ![c] = NoCmd] /\ UNCHANGED <<row, forced, limit>>
      /\ cmd' \in [Cmds -> Commanding]
      /\ \A d \in Cmds : /\ ~Guards(d)' /\ (WaitsTurn(d)' <=> WaitsTurn(d)) /\ (WaitsTurn(d) => cmd'[d] = cmd[d])
                         /\ cmd[d].pc # "joining" /\ cmd'[d].pc # "joining"
      /\ Settled' => \A d \in Cmds : ~WaitsTurn(d)
      /\ entry = 0
      /\ \A x \in Epochs : Running(x) => x = entry
  BY ActFrame
<1>3. epoch \in Nat /\ host \in AnyHost /\ e \in Nat /\ e # 0 /\ e > epoch
  BY DEF SupervisorInv, SupTyped, Commanding
<1>4. Guards(c)
  BY <1>2 DEF Guards
<1> HIDE DEF host
<1>5. /\ t \in Supervised /\ t.pc = "subscribed" /\ t.host = host /\ ~t.held.shown /\ t.buf = <<>>
      /\ ~t.stop /\ t.outcome = "none" /\ [NoTask EXCEPT !.pc = "subscribed", !.host = host] = t
  <2>1. /\ a \in Supervised /\ a.pc = "subscribed" /\ ~a.held.shown /\ a.buf = <<>> /\ ~a.stop /\ a.outcome = "none"
    BY Fresh DEF Supervised, NoTask, NoStatus
  <2>2. [NoTask EXCEPT !.pc = "subscribed", !.host = host] = t
    BY DEF NoTask
  <2> HIDE DEF a
  <2> QED  BY <1>3, <2>1, <2>2 DEF Supervised
<1> HIDE DEF t
<1>6. status' \in Shown /\ status'.shown /\ status'.by = e
  <2>1. status \in Shown
    BY DEF SupervisorInv, SupTyped
  <2> HIDE DEF e
  <2> QED  BY <1>1, <1>3, <2>1, MergeTyped
<1> HIDE DEF e
<1>7. task' \in [Epochs -> Supervised] /\ task'[e] = t /\ \A x \in Epochs \ {e} : task'[x] = task[x]
  BY <1>1, <1>5 DEF SupervisorInv, SupTyped
<1>8. SupTyped'
  BY <1>1, <1>2, <1>3, <1>6, <1>7 DEF SupervisorInv, SupTyped
<1>9. Guarded'
  BY <1>2 DEF Guarded
<1>10. Deletions'
  BY <1>1, <1>2 DEF SupervisorInv, Deletions
<1>11. Observed'
  <2>1. \A x \in Epochs : Running(x)' => x = e
    <3>1. \A x \in Epochs : x # 0
      BY DEF Epochs
    <3> QED  BY <1>2, <1>7, <3>1 DEF Running
  <2>2. \A x \in Epochs : x > e => task'[x] = NoTask
    <3>1. \A x \in Epochs : x > e => x # e /\ x > epoch
      BY <1>3 DEF Epochs
    <3> QED  BY <1>7, <3>1 DEF SupervisorInv, Observed
  <2>3. task'[e].pc \notin {"none", "ended"} /\ ~task'[e].stop /\ task'[e].outcome # "stopped"
    BY <1>5, <1>7
  <2>4. epoch' = e /\ entry' = e
    BY <1>1
  <2>5. entry' # 0 => entry' = epoch' /\ Running(entry)' /\ ~task'[entry'].stop /\ task'[entry'].outcome # "stopped"
    BY <2>3, <2>4 DEF Running
  <2>6. \A x \in Epochs : Running(x)' => x = entry' \/ \E d \in Cmds : cmd'[d].pc = "joining" /\ cmd'[d].task = x
    BY <2>1, <2>4
  <2>7. \A x \in Epochs : x > epoch' => task'[x] = NoTask
    BY <2>2, <2>4
  <2> QED  BY <2>5, <2>6, <2>7, Zenon DEF Observed
<1>12. Forwarded'
  <2>1. /\ \A x \in Epochs : task[x].held.shown => task[x].held.by = x
        /\ ~forced => \A x \in Epochs : Forwarding(task[x]) => task[x].pc \in {"subscribed", "draining"}
    BY DEF SupervisorInv, Forwarded
  <2>2. ~t.held.shown /\ ~Forwarding(t) /\ forced' = forced
    BY <1>2, <1>5 DEF Forwarding
  <2>3. \A x \in Epochs : task'[x].held.shown => task'[x].held.by = x
    BY <1>7, <2>1, <2>2
  <2>4. ~forced' => \A x \in Epochs : Forwarding(task'[x]) => task'[x].pc \in {"subscribed", "draining"}
    BY <1>7, <2>1, <2>2
  <2> QED  BY <2>3, <2>4 DEF Forwarded
<1>13. Cleaning' /\ Acts'
  BY <1>2, <1>4 DEF SupervisorInv, Cleaning, Acts
<1>14. Rest'
  <2> SUFFICES ASSUME Settled'
               PROVE  Rest'
    BY DEF Rest
  <2>1. Wanted /\ host = row.conn
    BY <1>2, <1>4 DEF SupervisorInv, Acts, Fitting, host
  <2> QED  BY <1>1, <1>2, <1>3, <1>5, <1>6, <1>7, <2>1 DEF Rest, Wanted
<1> QED  BY <1>8, <1>9, <1>10, <1>11, <1>12, <1>13, <1>14 DEF SupervisorInv

LEMMA ActKeeps ==
  ASSUME SupervisorInv, NEW c \in Cmds, Act(c)
  PROVE  SupervisorInv'
<1>1. /\ Guards(c) /\ cmd[c].what \in {"none", "start", "reconcile", "stop", "discard", "clear"}
      /\ status \in Shown /\ epoch \in Nat
  BY DEF SupervisorInv, SupTyped, Commanding, Act, Guards
<1>2. cmd[c].what # "reconcile" => entry = 0
  BY ActFrame
<1>3. (\A d \in Cmds : ~WaitsTurn(d)) => Fitting(c) /\ (~Wanted /\ row.state = "active" => entry = 0)
  BY <1>1 DEF SupervisorInv, Acts, Cleaning, Wanted
<1>4. row.state \in {"active", "archived", "deleted"}
  BY DEF SupervisorInv, SupTyped, Stored
<1>5. CASE cmd[c].what = "start"
  BY <1>5, StartKeeps
<1>6. CASE cmd[c].what = "reconcile"
  <2>1. status' = Retain("offline", 0) /\ UNCHANGED <<snapshot, epoch, entry, task>>
    BY <1>6 DEF Act
  <2>2. status' \in Shown /\ status'.shown /\ status'.by = 0
    BY <1>1, <2>1, RetainTyped
  <2>3. (\A d \in Cmds : ~WaitsTurn(d)) => ~Wanted /\ row.state = "active" /\ entry = 0
    BY <1>3, <1>6 DEF Fitting
  <2> QED  BY <2>1, <2>2, <2>3, ActMoves
<1>7. CASE cmd[c].what \in {"stop", "discard"}
  <2>1. status' = NoStatus /\ epoch' = epoch + 1 /\ snapshot' \in {snapshot, NoHost} /\ UNCHANGED <<entry, task>>
    BY <1>7 DEF Act, PublishRemoved
  <2>2. (\A d \in Cmds : ~WaitsTurn(d)) => ~Wanted /\ row.state # "active"
    BY <1>3, <1>7 DEF Fitting
  <2> QED  BY <1>2, <1>7, <2>1, <2>2, NothingShown, ActMoves
<1>8. CASE cmd[c].what = "clear"
  <2>1. status' = [NoStatus EXCEPT !.shown = TRUE] /\ snapshot' = NoHost /\ UNCHANGED <<epoch, entry, task>>
    BY <1>8 DEF Act
  <2>2. status' \in Shown /\ status'.shown /\ status'.by = 0
    BY <2>1, NothingShown DEF Shown
  <2>3. (\A d \in Cmds : ~WaitsTurn(d)) => ~Wanted /\ row.state = "active" /\ entry = 0
    BY <1>2, <1>3, <1>8 DEF Fitting
  <2> QED  BY <2>1, <2>2, <2>3, ActMoves
<1>9. cmd[c].what # "none"
  BY <1>1 DEF SupervisorInv, Guarded
<1> QED  BY <1>1, <1>5, <1>6, <1>7, <1>8, <1>9

LEMMA ExpireKeeps ==
  ASSUME SupervisorInv, Expire
  PROVE  SupervisorInv'
<1>1. status' = [status EXCEPT !.fresh = FALSE] /\ UNCHANGED <<row, snapshot, epoch, entry, task, cmd, forced, limit>>
  BY DEF Expire
<1>2. status' \in Shown /\ status'.shown = status.shown /\ status'.by = status.by
  <2>1. status \in Shown
    BY DEF SupervisorInv, SupTyped
  <2> QED  BY <1>1, <2>1 DEF Shown
<1>3. SupTyped'
  BY <1>1, <1>2 DEF SupervisorInv, SupTyped
<1>4. Guarded' /\ Deletions' /\ Forwarded' /\ Cleaning' /\ Acts'
  BY <1>1 DEF SupervisorInv, Guarded, Deletions, Forwarded, Forwarding, Cleaning, Acts, Fitting, Guards, WaitsTurn, Wanted
<1>5. Observed' /\ Rest'
  BY <1>1, <1>2 DEF SupervisorInv, Observed, Running, Rest, Settled, Wanted
<1> QED  BY <1>3, <1>4, <1>5 DEF SupervisorInv

\* An app that starts has no command open and at most one supervision, the first.
LEMMA Starts ==
  ASSUME row' \in Stored, snapshot' \in AnyHost, status' \in Shown, limit' \in Limiting,
         cmd' = [c \in Cmds |-> NoCmd], forced' = FALSE,
         row'.state = "deleted" => row'.conn = NoHost /\ snapshot' = NoHost,
         \/ /\ row'.state = "active" /\ row'.conn # NoHost
            /\ entry' = 1 /\ epoch' = 1 /\ status'.by = 1
            /\ task' = [[e \in Epochs |-> NoTask] EXCEPT ![1] = [NoTask EXCEPT !.pc = "subscribed", !.host = row'.conn]]
         \/ /\ row'.state # "active" \/ row'.conn = NoHost
            /\ entry' = 0 /\ epoch' \in {0, 1} /\ (row'.state = "active" => status'.by = 0)
            /\ task' = [e \in Epochs |-> NoTask],
         status'.shown <=> row'.state = "active"
  PROVE  SupervisorInv'
<1> DEFINE t == [NoTask EXCEPT !.pc = "subscribed", !.host = row'.conn]
<1>1. /\ t \in Supervised /\ t.pc = "subscribed" /\ t.host = row'.conn /\ ~t.held.shown /\ t.buf = <<>>
      /\ ~t.stop /\ t.outcome = "none"
  <2> DEFINE a == [NoTask EXCEPT !.pc = "subscribed"]
  <2>1. /\ a \in Supervised /\ a.pc = "subscribed" /\ ~a.held.shown /\ a.buf = <<>> /\ ~a.stop /\ a.outcome = "none"
    BY Fresh DEF Supervised, NoTask, NoStatus
  <2>2. t = [a EXCEPT !.host = row'.conn]
    BY DEF NoTask
  <2>3. row'.conn \in AnyHost
    BY DEF Stored
  <2> HIDE DEF a
  <2> QED  BY <2>1, <2>2, <2>3 DEF Supervised
<1> HIDE DEF t
<1>2. 1 \in Epochs /\ \A e \in Epochs : e \in Nat /\ e # 0
  BY SupervisorAssumption DEF Epochs
<1>3. /\ task' \in [Epochs -> Supervised] /\ entry' \in {0, 1}
      /\ \A e \in Epochs : task'[e] = IF e = entry' THEN t ELSE NoTask
  BY <1>1, <1>2, Fresh DEF t
<1>4. /\ entry' \in Epochs \cup {0} /\ epoch' \in Nat /\ (entry' # 0 => entry' = epoch')
      /\ entry' # 0 <=> row'.state = "active" /\ row'.conn # NoHost
      /\ row'.state = "active" => status'.by = entry'
  BY <1>2
<1>5. cmd' \in [Cmds -> Commanding] /\ \A c \in Cmds : cmd'[c].pc = "idle"
  BY Fresh
<1>6. SupTyped'
  BY <1>3, <1>4, <1>5 DEF SupTyped
<1>7. Guarded' /\ Deletions' /\ Cleaning' /\ Acts'
  BY <1>4, <1>5 DEF Guarded, Deletions, Cleaning, Acts, Guards, WaitsTurn
<1>8. Observed'
  <2>1. \A e \in Epochs : e > epoch' => e # entry'
    BY <1>2, <1>4
  <2>2. \A e \in Epochs : task'[e].pc \notin {"none", "ended"} => e = entry'
    BY <1>3, Fresh
  <2> QED  BY <1>1, <1>2, <1>3, <1>4, <2>1, <2>2 DEF Observed, Running
<1>9. Forwarded'
  BY <1>1, <1>3, Fresh DEF Forwarded, Forwarding
<1>10. Rest'
  BY <1>1, <1>3, <1>4 DEF Rest, Settled, Wanted
<1> QED  BY <1>6, <1>7, <1>8, <1>9, <1>10 DEF SupervisorInv

LEMMA HydratedTyped ==
  ASSUME snapshot \in AnyHost
  PROVE  /\ Hydrated \in Shown /\ Hydrated.by = 0 /\ (snapshot = NoHost => Hydrated = NoStatus)
         /\ LET hydrated == [Hydrated EXCEPT !.shown = TRUE]
            IN hydrated \in Shown /\ hydrated.shown /\ hydrated.by = 0
<1> DEFINE a == [NoStatus EXCEPT !.shown = TRUE]
           b == [a EXCEPT !.from = snapshot]
           d == [b EXCEPT !.cached = TRUE]
<1>1. a \in Shown /\ a.by = 0 /\ [NoStatus EXCEPT !.shown = TRUE, !.from = snapshot, !.cached = TRUE] = d
  BY NothingShown DEF Shown, NoStatus
<1> HIDE DEF a
<1>2. b \in Shown /\ b.by = 0
  BY <1>1 DEF Shown
<1> HIDE DEF b
<1>3. d \in Shown /\ d.by = 0
  BY <1>2 DEF Shown
<1> HIDE DEF d
<1>4. Hydrated = IF snapshot = NoHost THEN NoStatus ELSE d
  BY <1>1 DEF Hydrated
<1>5. Hydrated \in Shown /\ Hydrated.by = 0 /\ (snapshot = NoHost => Hydrated = NoStatus)
  BY <1>3, <1>4, NothingShown
<1> QED  BY <1>5 DEF Shown

LEMMA RestartKeeps ==
  ASSUME SupervisorInv, Restart
  PROVE  SupervisorInv'
<1> DEFINE what == IF row.state = "deleted" THEN "none" ELSE Supervise(row)
<1>1. /\ limit.restarts > 0 /\ limit' = [limit EXCEPT !.restarts = @ - 1]
      /\ cmd' = [c \in Cmds |-> NoCmd] /\ forced' = FALSE /\ UNCHANGED <<row, snapshot>>
      /\ task' = (IF what = "start"
                  THEN [[e \in Epochs |-> NoTask] EXCEPT ![1] = [NoTask EXCEPT !.pc = "subscribed", !.host = row.conn]]
                  ELSE [e \in Epochs |-> NoTask])
      /\ entry' = (IF what = "start" THEN 1 ELSE 0)
      /\ epoch' = (IF what \in {"start", "stop"} THEN 1 ELSE 0)
      /\ status' = (CASE what = "start" -> MergeStatus(Hydrated, "connecting", row.conn, 1)
                      [] what = "reconcile" -> [Hydrated EXCEPT !.shown = TRUE]
                      [] what = "stop" -> NoStatus
                      [] what = "none" -> Hydrated)
  BY DEF Restart, Restore
<1>2. /\ row \in Stored /\ row.state \in {"active", "archived", "deleted"} /\ row.conn \in AnyHost
      /\ snapshot \in AnyHost /\ limit' \in Limiting
      /\ row.state = "deleted" => row.conn = NoHost /\ snapshot = NoHost
  <2>1. limit' \in Limiting
    BY <1>1 DEF SupervisorInv, SupTyped, Limiting
  <2> QED  BY <2>1 DEF SupervisorInv, SupTyped, Stored, Deletions
<1>3. what = IF row.state = "deleted" THEN "none" ELSE IF row.state = "archived" THEN "stop"
             ELSE IF row.conn = NoHost THEN "reconcile" ELSE "start"
  BY <1>2 DEF Supervise
<1> HIDE DEF what
<1>4. /\ Hydrated \in Shown /\ Hydrated.by = 0 /\ (snapshot = NoHost => Hydrated = NoStatus)
      /\ LET hydrated == [Hydrated EXCEPT !.shown = TRUE]
         IN hydrated \in Shown /\ hydrated.shown /\ hydrated.by = 0
  BY <1>2, HydratedTyped
<1>5. /\ MergeStatus(Hydrated, "connecting", row.conn, 1) \in Shown
      /\ MergeStatus(Hydrated, "connecting", row.conn, 1).shown
      /\ MergeStatus(Hydrated, "connecting", row.conn, 1).by = 1
  <2>1. "connecting" \in Observations \cup {"connecting"} /\ 1 \in Nat /\ row.conn \in AnyHost /\ Hydrated \in Shown
    BY <1>2, <1>4
  <2> DEFINE previous == Hydrated
             host == row.conn
  <2> HIDE DEF previous, host
  <2>2. LET next == MergeStatus(previous, "connecting", host, 1) IN next \in Shown /\ next.shown /\ next.by = 1
    BY <2>1, MergeTyped DEF previous, host
  <2> QED  BY <2>2 DEF previous, host
<1>6. CASE what = "start"
  BY <1>1, <1>2, <1>3, <1>5, <1>6, Starts
<1>7. CASE what = "reconcile"
  BY <1>1, <1>2, <1>3, <1>4, <1>7, Starts
<1>8. CASE what = "stop"
  BY <1>1, <1>2, <1>3, <1>8, NothingShown, Starts
<1>9. CASE what = "none"
  BY <1>1, <1>2, <1>3, <1>4, <1>9, NothingShown, Starts
<1> QED  BY <1>2, <1>3, <1>6, <1>7, <1>8, <1>9

LEMMA SupervisorStep ==
  ASSUME SupervisorInv, [SupervisorNext]_supervision
  PROVE  SupervisorInv'
<1>1. CASE TaskStep
  BY <1>1, TaskStepKeeps
<1>2. CASE Command
  <2>1. PICK c \in Cmds :
          \/ \E kind \in {"clear", "archive", "unarchive", "delete"} : Commit(c, kind, NoHost)
          \/ \E host \in Hosts : Commit(c, "set", host)
          \/ TakeGuard(c) \/ Join(c) \/ Abort(c) \/ Act(c)
    BY <1>2 DEF Command
  <2>2. CASE \E kind \in {"clear", "archive", "unarchive", "delete"} : Commit(c, kind, NoHost)
    BY <2>2, CommitKeeps DEF AnyHost
  <2>3. CASE \E host \in Hosts : Commit(c, "set", host)
    <3>1. \A host \in Hosts : host \in AnyHost /\ host # NoHost
      BY SupervisorAssumption DEF AnyHost
    <3> QED  BY <2>3, <3>1, CommitKeeps
  <2> QED  BY <2>1, <2>2, <2>3, TakeGuardKeeps, JoinKeeps, AbortKeeps, ActKeeps
<1>3. CASE Expire
  BY <1>3, ExpireKeeps
<1>4. CASE Restart
  BY <1>4, RestartKeeps
<1>5. CASE UNCHANGED supervision
  <2>1. UNCHANGED <<row, snapshot, status, epoch, entry, task, cmd, forced, limit>>
    BY <1>5 DEF supervision
  <2>2. SupTyped' /\ Guarded' /\ Deletions' /\ Forwarded' /\ Cleaning' /\ Acts'
    BY <2>1 DEF SupervisorInv, SupTyped, Guarded, Deletions, Forwarded, Forwarding, Cleaning, Acts, Fitting, Guards,
                WaitsTurn, Wanted
  <2>3. Observed' /\ Rest'
    BY <2>1 DEF SupervisorInv, Observed, Running, Rest, Settled, Wanted
  <2> QED  BY <2>2, <2>3 DEF SupervisorInv
<1> QED  BY <1>1, <1>2, <1>3, <1>4, <1>5 DEF SupervisorNext

LEMMA SupervisorStarts == SupervisorInit => SupervisorInv
<1> SUFFICES ASSUME SupervisorInit
             PROVE  SupervisorInv
  OBVIOUS
<1>1. /\ row.state = "active" /\ row.conn = NoHost /\ row \in Stored
      /\ snapshot = NoHost /\ status.shown /\ status.by = 0 /\ status \in Shown
      /\ epoch = 0 /\ entry = 0 /\ forced = FALSE /\ limit \in Limiting
  BY SupervisorAssumption, NothingShown DEF SupervisorInit, Stored, AnyHost, Shown, Limiting
<1>2. /\ task \in [Epochs -> Supervised] /\ \A e \in Epochs : task[e] = NoTask /\ e # 0
      /\ cmd \in [Cmds -> Commanding] /\ \A c \in Cmds : cmd[c].pc = "idle"
  BY Fresh DEF SupervisorInit, Epochs
<1>3. SupTyped
  BY <1>1, <1>2 DEF SupTyped, AnyHost
<1>4. Guarded /\ Deletions /\ Cleaning /\ Acts
  BY <1>1, <1>2 DEF Guarded, Deletions, Cleaning, Acts, Guards, WaitsTurn
<1>5. Observed /\ Forwarded /\ Rest
  BY <1>1, <1>2, Fresh DEF Observed, Running, Forwarded, Forwarding, Rest, Wanted, Epochs
<1> QED  BY <1>3, <1>4, <1>5 DEF SupervisorInv

\* The commands of a Printer, each of which commits its row outside the manager's guard and then
\* stops, waits for and starts the supervision under it, leave at most one task in the map, the
\* last one begun, and keep a command waiting for as long as the supervision is not what the row
\* asks for (ConnectionManager: supervise_persisted, stop_task_and_wait, start).
THEOREM SupervisorOrdered == SupervisorSpec => []SupervisorInv
<1>1. SupervisorInit => SupervisorInv
  BY SupervisorStarts
<1>2. SupervisorInv /\ [SupervisorNext]_supervision => SupervisorInv'
  BY SupervisorStep
<1> QED  BY <1>1, <1>2, PTL DEF SupervisorSpec

\* Once every command is done, an active Printer with a Connection is observed by exactly one task,
\* at that Connection, any other by none, and what is shown is of the supervision it has now
\* (supervise_persisted re-reads the row under the guard; publish_changed_if_current).
THEOREM SupervisorFollowsRow == SupervisorSpec => []FollowsRow
<1>1. SupervisorInv => FollowsRow
  <2> SUFFICES ASSUME SupervisorInv, Settled
               PROVE  FollowsRow
    BY DEF FollowsRow, ObservedAsStored, ShownIsCurrent
  <2>1. \A e \in Epochs : Running(e) => e = entry
    BY DEF SupervisorInv, Observed, Settled
  <2>2. \A e \in Epochs : e # 0
    BY DEF Epochs
  <2>3. /\ entry \in Epochs \cup {0} /\ (entry # 0 => Running(entry))
        /\ IF Wanted THEN entry # 0 /\ task[entry].host = row.conn ELSE entry = 0
        /\ row.state # "active" \/ row.conn # NoHost \/ ~forced =>
             (status.shown <=> row.state = "active") /\ (row.state = "active" => status.by = entry)
    BY DEF SupervisorInv, SupTyped, Observed, Rest
  <2>4. ObservedAsStored
    <3>1. CASE Wanted
      <4>1. {e \in Epochs : Running(e)} = {entry}
        BY <2>1, <2>3, <3>1
      <4> QED  BY <2>3, <3>1, <4>1 DEF ObservedAsStored, Wanted
    <3>2. CASE ~Wanted
      BY <2>1, <2>2, <2>3, <3>2 DEF ObservedAsStored, Wanted
    <3> QED  BY <3>1, <3>2
  <2>5. ShownIsCurrent
    BY <2>3 DEF ShownIsCurrent
  <2> QED  BY <2>4, <2>5 DEF FollowsRow
<1> QED  BY <1>1, SupervisorOrdered, PTL

---------------------------------------------------------------------------

Links == Subjects \cup Requests \cup {"none"}
Reasons == {"plan", "missingFile", "reset"}
Picture == [state : {"none", "kept", "pruned", "gone"}, pinned : BOOLEAN, old : BOOLEAN,
            link : Links, reason : {"none"} \cup Reasons]
Shot == [pc : {"off", "fetched", "planned", "written", "unlinking"}, link : Links,
         plan : SUBSET Shots, fits : BOOLEAN]
Lease == [held : {"no", "waiting", "copied", "reset"}, copied : SUBSET Shots, queued : SUBSET Shots]
Allowance == [shots : SUBSET Shots, pins : Nat, ages : Nat, deletes : Nat, leases : Nat,
              losses : Nat, faults : Nat, crashes : Nat]

Typed ==
    /\ picture \in [Shots -> Picture] /\ shot \in [Shots -> Shot] /\ lease \in Lease
    /\ onDisk \subseteq Shots /\ lostFiles \subseteq Shots /\ janitor \subseteq Shots
    /\ outcome \in [Subjects -> Nat] /\ usable \in BOOLEAN /\ allowance \in Allowance

Blank == {n \in Shots : picture[n].state = "none"}
Gone == {n \in Shots : picture[n].state = "gone"}
Doomed == {n \in Shots : picture[n].state \in {"pruned", "gone"}}

Rows ==
    /\ \A n \in Blank : picture[n].link = "none"
    /\ \A n \in Kept : picture[n].reason = "none"

\* A capture that has not stored its image has no row yet, and works under the lock.
Turns ==
    /\ \A n \in Shots : shot[n].pc \in {"planned", "written"} => turn = n
    /\ \A n \in Shots : shot[n].pc \in {"fetched", "planned", "written"} => n \in Blank
    /\ \A n \in Shots : n \in allowance.shots => n \in Blank /\ shot[n].pc = "off"

\* Whoever unlinks files unlinks those of rows that are not kept, and never of a row again.
Unlinks ==
    /\ \A n \in Shots : shot[n].pc = "unlinking" => shot[n].plan \subseteq Doomed
    /\ janitor \subseteq Doomed /\ lease.queued \subseteq Doomed

Leases ==
    /\ lease.held # "copied" => lease.copied = {}
    /\ lease.copied \cap Blank = {}
    /\ lease.held \in {"copied", "reset"} => janitor = {}

Images ==
    /\ Kept \subseteq onDisk \cup lostFiles
    /\ \A n \in Shots : shot[n].pc = "written" => n \in onDisk
    /\ lease.copied \subseteq Gone \cup onDisk \cup lostFiles

\* An image without a kept row is in somebody's hands.
Unlinking(n) == \E m \in Shots : shot[m].pc = "unlinking" /\ n \in shot[m].plan
Extra == usable => \A n \in onDisk :
    \/ n \in Kept \/ n \in janitor \/ n \in lease.queued
    \/ shot[n].pc = "written" \/ Unlinking(n)
    \/ removed = "unlinking" /\ n \in Rowless

Once ==
    /\ \A l \in Subjects : outcome[l] \in {0, 1} /\ (Linked(l) # {} => outcome[l] = 1)
    /\ \A l \in Subjects \cup Requests : \A m, n \in Linked(l) : m = n

\* What a capture planned makes room for its image, as long as it has the lock.
Room == \A n \in Shots :
    /\ shot[n].pc = "written" => shot[n].fits
    /\ shot[n].pc \in {"planned", "written"} /\ shot[n].fits => Cardinality(Kept \ shot[n].plan) + 1 <= Cap

\* The inductive invariant.
MediaInv == Typed /\ Rows /\ Turns /\ Unlinks /\ Leases /\ Images /\ Extra /\ Once /\ Room

(***************************************************************************)
(* Plans.                                                                  *)
(***************************************************************************)
\* The least number of a set of numbers.
LEMMA Smallest ==
  ASSUME NEW S, S \subseteq Nat, S # {}
  PROVE  \E x \in S : \A y \in S : x <= y
<1> DEFINE R == OpToRel(<, Nat)
<1>1. PICK x \in S : \A y \in S : <<y, x>> \notin R
  <2>1. IsWellFoundedOn(R, Nat)
    BY NatLessThanWellFounded
  <2> HIDE DEF R
  <2> QED  BY <2>1, WFMin
<1>2. R = {ss \in Nat \X Nat : ss[1] < ss[2]}
  BY Zenon DEF OpToRel
<1> HIDE DEF R
<1>3. ASSUME NEW y \in S  PROVE x <= y
  <2>1. x \in Nat /\ y \in Nat /\ <<y, x>> \notin R
    BY <1>1
  <2> QED  BY <1>2, <2>1
<1> QED  BY <1>3

\* The oldest k of a set of images are k at least.
LEMMA OldestCount ==
  ASSUME NEW S, S \subseteq Nat, IsFiniteSet(S), NEW k \in Nat, k <= Cardinality(S)
  PROVE  Cardinality({n \in S : Cardinality({m \in S : m <= n}) <= k}) >= k
<1> DEFINE Upto(n) == {m \in S : m <= n}
           F == {n \in S : Cardinality(Upto(n)) <= k}
<1>1. IsFiniteSet(F) /\ Cardinality(F) \in Nat /\ F \subseteq S
  BY FS_Subset, FS_CardinalityType
<1> SUFFICES ASSUME Cardinality(F) < k  PROVE FALSE
  BY <1>1
<1>2. S \ F # {}
  <2>1. F # S
    <3> HIDE DEF F
    <3> QED  BY FS_CardinalityType
  <2> QED  BY <1>1, <2>1
<1>3. PICK x \in S \ F : \A y \in S \ F : x <= y
  <2> HIDE DEF F
  <2> QED  BY <1>2, Smallest
<1>4. Upto(x) \subseteq F \cup {x}
  <2> SUFFICES ASSUME NEW m \in S, m <= x, m \notin F  PROVE m = x
    OBVIOUS
  <2> HIDE DEF F
  <2>1. x <= m /\ x \in Nat /\ m \in Nat
    BY <1>3
  <2> QED  BY <2>1
<1>5. Cardinality(Upto(x)) <= k
  <2> DEFINE U == F \cup {x}
  <2>1. IsFiniteSet(U) /\ Cardinality(U) = Cardinality(F) + 1
    <3> HIDE DEF F
    <3> QED  BY <1>1, <1>3, FS_AddElement
  <2>2. Upto(x) \subseteq U
    BY <1>4
  <2> HIDE DEF U, F, Upto
  <2>3. Cardinality(Upto(x)) <= Cardinality(U) /\ IsFiniteSet(Upto(x))
    BY <2>1, <2>2, FS_Subset
  <2>4. Cardinality(Upto(x)) \in Nat
    BY <2>3, FS_CardinalityType
  <2> QED  BY <1>1, <2>1, <2>3, <2>4
<1> QED  BY <1>3, <1>5

LEMMA LargerIn == ASSUME NEW v \in Int  PROVE Max({0, v}) \in Nat /\ Max({0, v}) >= v
<1>1. \E x \in {0, v} : \A y \in {0, v} : x >= y
  <2>1. CASE v >= 0
    BY <2>1
  <2>2. CASE v < 0
    BY <2>2
  <2> QED  BY <2>1, <2>2
<1>2. Max({0, v}) \in {0, v} /\ \A y \in {0, v} : Max({0, v}) >= y
  BY <1>1, Zenon DEF Max
<1> QED  BY <1>2

\* A plan that fits makes room for what comes in.
LEMMA PlanMakesRoom ==
  ASSUME Fits(1)
  PROVE  Cardinality(Kept \ Plan(1)) + 1 <= Cap
<1> DEFINE K == Kept \ PastAge
           Y == Younger
           k == Over(1)
           Old == Oldest(k)
<1>1. /\ IsFiniteSet(K) /\ IsFiniteSet(Y) /\ Y \subseteq K /\ Y \subseteq Nat
      /\ Cap \in Nat
  <2>1. K \subseteq Shots /\ Y \subseteq Shots /\ Y \subseteq K
    BY DEF Kept, Younger
  <2> QED  BY <2>1, MediaAssumption, FS_Subset
<1>2. Cardinality(K) \in Nat /\ Cardinality(Y) \in Nat
  BY <1>1, FS_CardinalityType
<1>3. k \in Nat /\ k >= Cardinality(K) + 1 - Cap /\ k <= Cardinality(Y)
  <2>1. Cardinality(K) + 1 - Cap \in Int
    BY <1>1, <1>2
  <2>2. k = Max({0, Cardinality(K) + 1 - Cap})
    BY DEF Over
  <2> HIDE DEF K, Y, k
  <2> QED  BY <1>2, <2>1, <2>2, LargerIn DEF Fits, k, Y
<1>4. Old = {n \in Y : Cardinality({m \in Y : m <= n}) <= k}
  BY DEF Oldest
<1> HIDE DEF k, Y, Old
<1>5. Cardinality(Old) >= k /\ Old \subseteq Y
  BY <1>1, <1>2, <1>3, <1>4, OldestCount
<1>6. Kept \ Plan(1) = K \ Old
  BY DEF Plan, Old, k
<1> HIDE DEF K
<1>7. K \cap Old = Old
  BY <1>1, <1>5
<1>8. Cardinality(K \ Old) = Cardinality(K) - Cardinality(Old)
  BY <1>1, <1>7, FS_Difference
<1>9. IsFiniteSet(Old) /\ Cardinality(Old) \in Nat
  BY <1>1, <1>5, FS_Subset, FS_CardinalityType
<1>10. Cardinality(K \ Old) + 1 <= Cap
  <2> DEFINE c == Cardinality(K)
             o == Cardinality(Old)
             d == Cardinality(K \ Old)
  <2>1. c \in Nat /\ o \in Nat /\ k \in Nat /\ Cap \in Nat /\ d = c - o /\ o >= k /\ k >= c + 1 - Cap
    BY <1>1, <1>2, <1>3, <1>5, <1>8, <1>9
  <2> HIDE DEF c, o, d
  <2>2. d + 1 <= Cap
    BY <2>1
  <2> QED  BY <2>2 DEF d
<1> QED  BY <1>6, <1>10, Zenon

(***************************************************************************)
(* What may happen to the rows.                                            *)
(***************************************************************************)
\* mark_pruned takes rows from the kept ones for good.
LEMMA PrunedRows ==
  ASSUME Typed, Rows, NEW planned, NEW reason \in Reasons, picture' = Pruned(planned, reason)
  PROVE  /\ picture' \in [Shots -> Picture] /\ Rows'
         /\ Kept' = Kept \ Prunable(planned, reason) /\ Doomed' = Doomed \cup Prunable(planned, reason)
         /\ Blank' = Blank /\ Gone' = Gone /\ Rowless' = Rowless
         /\ \A l : Linked(l)' = Linked(l)
         /\ \A n \in Shots : picture'[n].pinned = picture[n].pinned
         /\ \A n \in Prunable(planned, reason) : picture'[n].state = "pruned" /\ picture'[n].reason = reason
<1>1. ASSUME NEW n \in Shots, n \in Prunable(planned, reason)
      PROVE  /\ picture'[n] \in Picture /\ picture'[n].state = "pruned" /\ picture'[n].reason = reason
             /\ picture'[n].link = picture[n].link /\ picture'[n].pinned = picture[n].pinned
  <2> DEFINE pic == [picture[n] EXCEPT !.state = "pruned"]
  <2>1. picture[n] \in Picture
    BY DEF Typed
  <2>2. pic \in Picture /\ pic.state = "pruned" /\ pic.link = picture[n].link /\ pic.pinned = picture[n].pinned
    BY <2>1 DEF Picture
  <2>3. picture'[n] = [picture[n] EXCEPT !.state = "pruned", !.reason = reason]
    BY <1>1 DEF Pruned
  <2>4. picture'[n] = [pic EXCEPT !.reason = reason]
    BY <2>1, <2>3 DEF Picture
  <2> HIDE DEF pic
  <2> QED  BY <2>2, <2>4 DEF Picture
<1>2. ASSUME NEW n \in Shots, n \notin Prunable(planned, reason)  PROVE picture'[n] = picture[n]
  BY <1>2 DEF Pruned
<1>3. Prunable(planned, reason) \subseteq Kept
  BY DEF Prunable
<1>4. picture' \in [Shots -> Picture]
  <2>1. \A n \in Shots : picture'[n] \in Picture
    BY <1>1, <1>2 DEF Typed
  <2> QED  BY <2>1 DEF Pruned
<1> HIDE DEF Prunable
<1>5. Blank' = Blank /\ Gone' = Gone /\ Rowless' = Rowless
  BY <1>1, <1>2, <1>3 DEF Blank, Gone, Rowless, Kept
<1>6. Kept' = Kept \ Prunable(planned, reason) /\ Doomed' = Doomed \cup Prunable(planned, reason)
  BY <1>1, <1>2, <1>3 DEF Kept, Doomed
<1>7. \A l : Linked(l)' = Linked(l)
  BY <1>1, <1>2, <1>3 DEF Linked, Kept
<1>8. Rows'
  BY <1>1, <1>2, <1>3, <1>5, <1>6 DEF Rows, Blank, Kept
<1> QED  BY <1>1, <1>2, <1>3, <1>4, <1>5, <1>6, <1>7, <1>8 DEF Kept

\* The sets a row can be in.
LEMMA RowSets ==
  ASSUME Typed
  PROVE  /\ Shots = Kept \cup Doomed \cup Blank /\ Kept \cap Doomed = {} /\ Kept \cap Blank = {} /\ Doomed \cap Blank = {}
         /\ Gone \subseteq Doomed /\ Rowless \subseteq Gone
BY DEF Typed, Picture, Kept, Doomed, Blank, Gone, Rowless

\* What nothing but the rows' states, links and reasons decides stays as they do.
LEMMA RowsStay ==
  ASSUME Typed, Rows,
         \A n \in Shots : /\ picture'[n].state = picture[n].state /\ picture'[n].link = picture[n].link
                          /\ picture'[n].reason = picture[n].reason
  PROVE  /\ Rows' /\ Kept' = Kept /\ Doomed' = Doomed /\ Blank' = Blank /\ Gone' = Gone /\ Rowless' = Rowless
         /\ \A l : Linked(l)' = Linked(l)
<1>1. Kept' = Kept /\ Doomed' = Doomed /\ Blank' = Blank /\ Gone' = Gone /\ Rowless' = Rowless
  BY DEF Kept, Doomed, Blank, Gone, Rowless
<1>2. \A l : Linked(l)' = Linked(l)
  BY DEF Linked
<1>3. Rows'
  BY <1>1 DEF Rows, Blank, Kept
<1> QED  BY <1>1, <1>2, <1>3

LEMMA AllowanceStays ==
  ASSUME Typed, NEW what \in {"pins", "ages", "deletes", "leases", "losses", "faults", "crashes"}, Allows(what)
  PROVE  allowance' \in Allowance /\ allowance'.shots = allowance.shots
BY DEF Typed, Allows, Allowance

LEMMA ShotGoes ==
  ASSUME Typed, NEW n \in Shots, NEW s \in Shot, SetShot(n, s)
  PROVE  shot' \in [Shots -> Shot] /\ shot'[n] = s /\ \A m \in Shots \ {n} : shot'[m] = shot[m]
BY DEF Typed, SetShot

LEMMA SkipTyped ==
  ASSUME Typed, Once, NEW l, RecordSkip(l)
  PROVE  /\ outcome' \in [Subjects -> Nat]
         /\ \A x \in Subjects : outcome'[x] \in {0, 1} /\ (outcome[x] = 1 => outcome'[x] = 1)
<1>1. outcome \in [Subjects -> Nat] /\ \A x \in Subjects : outcome[x] \in {0, 1}
  BY DEF Typed, Once
<1> QED  BY <1>1 DEF RecordSkip

\* A capture at a stage without a plan.
LEMMA ShotTyped ==
  /\ NoShot \in Shot /\ NoShot.pc = "off"
  /\ \A l \in Subjects \cup Requests :
        [NoShot EXCEPT !.pc = "fetched", !.link = l] \in Shot /\ [NoShot EXCEPT !.pc = "fetched", !.link = l].pc = "fetched"
<1>1. NoShot \in Shot /\ NoShot.pc = "off"
  BY DEF NoShot, Shot, Links
<1>2. ASSUME NEW l \in Subjects \cup Requests
      PROVE  [NoShot EXCEPT !.pc = "fetched", !.link = l] \in Shot /\ [NoShot EXCEPT !.pc = "fetched", !.link = l].pc = "fetched"
  <2> DEFINE fetched == [NoShot EXCEPT !.pc = "fetched"]
  <2>1. fetched \in Shot /\ fetched.pc = "fetched"
    BY <1>1 DEF Shot
  <2>2. [NoShot EXCEPT !.pc = "fetched", !.link = l] = [fetched EXCEPT !.link = l]
    BY <1>1 DEF Shot
  <2> HIDE DEF fetched
  <2> QED  BY <2>1, <2>2 DEF Shot, Links
<1> QED  BY <1>1, <1>2

(***************************************************************************)
(* A capture's steps.                                                      *)
(***************************************************************************)
\* A step of a capture that touches no row, no lease and no other task.
LEMMA CaptureMoves ==
  ASSUME MediaInv, NEW n \in Shots, NEW s \in Shot, SetShot(n, s),
         UNCHANGED <<picture, lostFiles, janitor, usable, lease, removed>>,
         onDisk' = onDisk \/ (onDisk' = onDisk \ {n} /\ n \in Blank) \/ (onDisk' = onDisk \cup {n} /\ s.pc = "written"),
         outcome' \in [Subjects -> Nat],
         \A x \in Subjects : outcome'[x] \in {0, 1} /\ (outcome[x] = 1 => outcome'[x] = 1),
         allowance' \in Allowance, allowance'.shots \subseteq allowance.shots,
         s.pc \in {"planned", "written"} => turn' = n,
         s.pc \in {"fetched", "planned", "written"} => n \in Blank,
         n \in allowance'.shots => s.pc = "off",
         \A m \in Shots \ {n} : shot[m].pc \in {"planned", "written"} => turn' = turn,
         s.pc # "unlinking" /\ shot[n].pc # "unlinking",
         shot[n].pc = "written" => n \notin onDisk',
         s.pc = "written" => s.fits /\ n \in onDisk',
         s.pc \in {"planned", "written"} /\ s.fits => Cardinality(Kept \ s.plan) + 1 <= Cap
  PROVE  MediaInv'
<1>1. /\ Rows' /\ Kept' = Kept /\ Doomed' = Doomed /\ Blank' = Blank /\ Gone' = Gone /\ Rowless' = Rowless
      /\ \A l : Linked(l)' = Linked(l)
  BY RowsStay DEF MediaInv
<1>2. shot' \in [Shots -> Shot] /\ shot'[n] = s /\ \A m \in Shots \ {n} : shot'[m] = shot[m]
  BY ShotGoes DEF MediaInv
<1>3. Typed'
  BY <1>2 DEF MediaInv, Typed
<1>4. Turns'
  BY <1>1, <1>2 DEF MediaInv, Turns
<1>5. Unlinks' /\ Leases'
  BY <1>1, <1>2 DEF MediaInv, Unlinks, Leases
<1>6. Images'
  <2>1. Blank \cap Kept = {} /\ Blank \cap lease.copied = {} /\ (onDisk \subseteq onDisk' \/ (onDisk' = onDisk \ {n} /\ n \in Blank))
    BY RowSets DEF MediaInv, Leases
  <2> QED  BY <1>1, <1>2, <2>1 DEF MediaInv, Images
<1>7. Extra'
  <2>1. \A x \in Shots : (Unlinking(x) => Unlinking(x)') /\ (x # n => shot'[x].pc = shot[x].pc)
    BY <1>2 DEF Unlinking
  <2>2. Extra /\ usable' = usable /\ onDisk \subseteq Shots
    BY DEF MediaInv, Typed
  <2> SUFFICES ASSUME usable, NEW x \in onDisk'
               PROVE  \/ x \in Kept \/ x \in janitor \/ x \in lease.queued
                      \/ shot'[x].pc = "written" \/ Unlinking(x)'
                      \/ removed = "unlinking" /\ x \in Rowless
    BY <1>1, <2>2 DEF Extra
  <2>3. x \in Shots /\ (x \in onDisk \/ (x = n /\ shot'[n].pc = "written"))
    BY <1>2, <2>2
  <2>4. CASE x \in onDisk
    BY <1>2, <2>1, <2>2, <2>3, <2>4 DEF Extra
  <2> QED  BY <2>3, <2>4
<1>8. Once'
  BY <1>1 DEF MediaInv, Once
<1>9. Room'
  BY <1>1, <1>2 DEF MediaInv, Room
<1> QED  BY <1>1, <1>3, <1>4, <1>5, <1>6, <1>7, <1>8, <1>9 DEF MediaInv

LEMMA PlanTyped == Plan(1) \subseteq Kept /\ Fits(1) \in BOOLEAN
BY DEF Plan, PastAge, Oldest, Younger, Fits

LEMMA ShootKeeps ==
  ASSUME MediaInv, NEW n \in Shots, Shoot(n)
  PROVE  MediaInv'
<1>1. /\ n \in allowance.shots /\ allowance' = [allowance EXCEPT !.shots = @ \ {n}] /\ allowance \in Allowance
      /\ UNCHANGED <<picture, onDisk, lostFiles, janitor, turn, usable, lease, removed>>
  BY DEF Shoot, MediaInv, Typed
<1>2. allowance' \in Allowance /\ allowance'.shots = allowance.shots \ {n}
  BY <1>1 DEF Allowance
<1>3. n \in Blank /\ shot[n].pc = "off" /\ shot[n] \in Shot
  BY <1>1 DEF MediaInv, Turns, Typed
<1>4. PICK l \in Subjects \cup Requests :
        \/ SetShot(n, [NoShot EXCEPT !.pc = "fetched", !.link = l]) /\ UNCHANGED outcome
        \/ RecordSkip(l) /\ UNCHANGED shot
  BY DEF Shoot
<1>5. CASE SetShot(n, [NoShot EXCEPT !.pc = "fetched", !.link = l]) /\ UNCHANGED outcome
  <2> DEFINE s == [NoShot EXCEPT !.pc = "fetched", !.link = l]
  <2>1. s \in Shot /\ s.pc = "fetched" /\ SetShot(n, s)
    BY <1>5, ShotTyped
  <2> HIDE DEF s
  <2>2. outcome' \in [Subjects -> Nat] /\ \A x \in Subjects : outcome'[x] \in {0, 1} /\ (outcome[x] = 1 => outcome'[x] = 1)
    BY <1>5 DEF MediaInv, Typed, Once
  <2> QED  BY <1>1, <1>2, <1>3, <2>1, <2>2, CaptureMoves
<1>6. CASE RecordSkip(l) /\ UNCHANGED shot
  <2>1. SetShot(n, shot[n])
    BY <1>6 DEF SetShot, MediaInv, Typed
  <2>2. outcome' \in [Subjects -> Nat] /\ \A x \in Subjects : outcome'[x] \in {0, 1} /\ (outcome[x] = 1 => outcome'[x] = 1)
    BY <1>6, SkipTyped DEF MediaInv
  <2> QED  BY <1>1, <1>2, <1>3, <2>1, <2>2, CaptureMoves
<1> QED  BY <1>4, <1>5, <1>6

LEMMA CameraFailsKeeps ==
  ASSUME MediaInv, NEW n \in Shots, CameraFails(n)
  PROVE  MediaInv'
<1>1. /\ shot[n].pc = "fetched" /\ SetShot(n, NoShot) /\ RecordSkip(shot[n].link)
      /\ UNCHANGED <<picture, onDisk, lostFiles, janitor, turn, usable, lease, removed, allowance>>
  BY DEF CameraFails
<1>2. outcome' \in [Subjects -> Nat] /\ \A x \in Subjects : outcome'[x] \in {0, 1} /\ (outcome[x] = 1 => outcome'[x] = 1)
  BY <1>1, SkipTyped DEF MediaInv
<1>3. allowance' \in Allowance
  BY <1>1 DEF MediaInv, Typed
<1> QED  BY <1>1, <1>2, <1>3, ShotTyped, CaptureMoves

LEMMA PlanShotKeeps ==
  ASSUME MediaInv, NEW n \in Shots, PlanShot(n)
  PROVE  MediaInv'
<1> DEFINE old == shot[n]
           planning == [old EXCEPT !.pc = "planned"]
           planned == [planning EXCEPT !.plan = Plan(1)]
           s == [planned EXCEPT !.fits = Fits(1)]
<1>1. old \in Shot /\ Plan(1) \subseteq Shots /\ Fits(1) \in BOOLEAN
  BY PlanTyped DEF MediaInv, Typed, Kept
<1>2. shot[n].pc = "fetched" /\ turn = Free /\ turn' = n
      /\ UNCHANGED <<picture, onDisk, lostFiles, outcome, janitor, usable, lease, removed, allowance>>
  BY DEF PlanShot
<1>3. SetShot(n, [old EXCEPT !.pc = "planned", !.plan = Plan(1), !.fits = Fits(1)])
  BY DEF PlanShot
<1>4. [old EXCEPT !.pc = "planned", !.plan = Plan(1), !.fits = Fits(1)] = s
  BY <1>1 DEF Shot
<1> HIDE DEF old
<1>5. planning \in Shot /\ planning.pc = "planned"
  BY <1>1 DEF Shot
<1> HIDE DEF planning
<1>6. planned \in Shot /\ planned.pc = "planned" /\ planned.plan = Plan(1)
  BY <1>1, <1>5 DEF Shot
<1> HIDE DEF planned
<1>7. s \in Shot /\ s.pc = "planned" /\ s.plan = Plan(1) /\ s.fits = Fits(1)
  BY <1>1, <1>6 DEF Shot
<1>8. SetShot(n, s)
  BY <1>3, <1>4
<1> HIDE DEF s
<1>9. \A m \in Shots : shot[m].pc \notin {"planned", "written"}
  BY <1>2, MediaAssumption DEF MediaInv, Turns, Free
<1>10. s.fits => Cardinality(Kept \ s.plan) + 1 <= Cap
  BY <1>7, PlanMakesRoom
<1>11. n \in Blank /\ n \notin allowance.shots
  BY <1>2 DEF MediaInv, Turns
<1>12. /\ outcome' \in [Subjects -> Nat] /\ \A x \in Subjects : outcome'[x] \in {0, 1} /\ (outcome[x] = 1 => outcome'[x] = 1)
       /\ allowance' \in Allowance
  BY <1>2 DEF MediaInv, Typed, Once
<1> QED  BY <1>2, <1>7, <1>8, <1>9, <1>10, <1>11, <1>12, CaptureMoves

LEMMA WriteImageKeeps ==
  ASSUME MediaInv, NEW n \in Shots, WriteImage(n)
  PROVE  MediaInv'
<1> DEFINE old == shot[n]
           s == [old EXCEPT !.pc = "written"]
<1>1. old \in Shot /\ old.pc = "planned" /\ old.fits /\ onDisk' = onDisk \cup {n} /\ SetShot(n, s)
      /\ UNCHANGED <<picture, lostFiles, outcome, janitor, turn, usable, lease, removed, allowance>>
  BY DEF WriteImage, MediaInv, Typed
<1>2. turn = n /\ n \in Blank /\ n \notin allowance.shots
  BY <1>1 DEF MediaInv, Turns
<1>3. Cardinality(Kept \ old.plan) + 1 <= Cap
  BY <1>1 DEF MediaInv, Room
<1>4. /\ outcome' \in [Subjects -> Nat] /\ \A x \in Subjects : outcome'[x] \in {0, 1} /\ (outcome[x] = 1 => outcome'[x] = 1)
      /\ allowance' \in Allowance
  BY <1>1 DEF MediaInv, Typed, Once
<1> HIDE DEF old
<1>5. s \in Shot /\ s.pc = "written" /\ s.plan = old.plan /\ s.fits = old.fits
  BY <1>1 DEF Shot
<1> HIDE DEF s
<1>6. shot[n].pc = "planned"
  BY <1>1 DEF old
<1> QED  BY <1>1, <1>2, <1>3, <1>4, <1>5, <1>6, CaptureMoves

\* A capture that gives up, from either stage.
LEMMA GivesUpKeeps ==
  ASSUME MediaInv, NEW n \in Shots, shot[n].pc \in {"planned", "written"}, GivesUp(n),
         UNCHANGED <<picture, lostFiles, janitor, usable, lease, removed>>,
         outcome' = outcome \/ \E l : RecordSkip(l),
         allowance' \in Allowance, allowance'.shots = allowance.shots
  PROVE  MediaInv'
<1>1. turn = n /\ n \in Blank /\ n \notin allowance.shots
  BY DEF MediaInv, Turns
<1>2. \A m \in Shots \ {n} : shot[m].pc \notin {"planned", "written"}
  BY <1>1 DEF MediaInv, Turns
<1>3. outcome' \in [Subjects -> Nat] /\ \A x \in Subjects : outcome'[x] \in {0, 1} /\ (outcome[x] = 1 => outcome'[x] = 1)
  <2>1. CASE outcome' = outcome
    BY <2>1 DEF MediaInv, Typed, Once
  <2>2. CASE \E l : RecordSkip(l)
    BY <2>2, SkipTyped DEF MediaInv
  <2> QED  BY <2>1, <2>2
<1>4. onDisk' = onDisk \ {n} /\ SetShot(n, NoShot)
  BY DEF GivesUp
<1> QED  BY <1>1, <1>2, <1>3, <1>4, ShotTyped, CaptureMoves

\* The plan of a commit: what it marked, whose files it then unlinks.
LEMMA CommitTyped ==
  ASSUME Typed, NEW n \in Shots, NEW rows, Commits(n, rows)
  PROVE  /\ picture' = rows /\ turn' = Free
         /\ shot' \in [Shots -> Shot] /\ shot'[n].pc = "unlinking"
         /\ shot'[n].plan = Prunable(shot[n].plan, "plan")
         /\ \A m \in Shots \ {n} : shot'[m] = shot[m]
<1> DEFINE old == shot[n]
           P == Prunable(shot[n].plan, "plan")
           done == [old EXCEPT !.pc = "unlinking"]
           s == [done EXCEPT !.plan = P]
<1>1. old \in Shot /\ P \subseteq Shots /\ picture' = rows /\ turn' = Free
  BY DEF Typed, Prunable, Kept, Commits
<1>2. SetShot(n, [old EXCEPT !.pc = "unlinking", !.plan = P])
  BY DEF Commits
<1> HIDE DEF P
<1>3. [old EXCEPT !.pc = "unlinking", !.plan = P] = s
  BY <1>1 DEF Shot
<1> HIDE DEF old
<1>4. done \in Shot /\ done.pc = "unlinking"
  BY <1>1 DEF Shot
<1> HIDE DEF done
<1>5. s \in Shot /\ s.pc = "unlinking" /\ s.plan = P
  BY <1>1, <1>4 DEF Shot
<1>6. SetShot(n, s)
  BY <1>2, <1>3
<1> HIDE DEF s
<1>7. shot' \in [Shots -> Shot] /\ shot'[n] = s /\ \A m \in Shots \ {n} : shot'[m] = shot[m]
  BY <1>5, <1>6, ShotGoes
<1> QED  BY <1>1, <1>5, <1>7 DEF P

LEMMA RefuseKeeps ==
  ASSUME MediaInv, NEW n \in Shots, Refuse(n)
  PROVE  MediaInv'
<1> DEFINE P == Prunable(shot[n].plan, "plan")
<1>1. /\ shot[n].pc = "planned" /\ Commits(n, Pruned(shot[n].plan, "plan")) /\ RecordSkip(shot[n].link)
      /\ UNCHANGED <<onDisk, lostFiles, janitor, usable, lease, removed, allowance>>
  BY DEF Refuse
<1>2. /\ picture' \in [Shots -> Picture] /\ Rows' /\ Kept' = Kept \ P /\ Doomed' = Doomed \cup P
      /\ Blank' = Blank /\ Gone' = Gone /\ Rowless' = Rowless /\ \A l : Linked(l)' = Linked(l)
  BY <1>1, CommitTyped, PrunedRows DEF MediaInv, Reasons
<1>3. /\ turn' = Free /\ shot' \in [Shots -> Shot] /\ shot'[n].pc = "unlinking" /\ shot'[n].plan = P
      /\ \A m \in Shots \ {n} : shot'[m] = shot[m]
  BY <1>1, CommitTyped DEF MediaInv
<1> HIDE DEF P
<1>4. /\ outcome' \in [Subjects -> Nat]
      /\ \A x \in Subjects : outcome'[x] \in {0, 1} /\ (outcome[x] = 1 => outcome'[x] = 1)
  BY <1>1, SkipTyped DEF MediaInv
<1>5. \A m \in Shots \ {n} : shot[m].pc \notin {"planned", "written"}
  BY <1>1 DEF MediaInv, Turns
<1>6. Typed'
  BY <1>1, <1>2, <1>3, <1>4 DEF MediaInv, Typed
<1>7. Turns'
  BY <1>1, <1>2, <1>3, <1>5 DEF MediaInv, Turns
<1>8. Unlinks' /\ Leases'
  BY <1>1, <1>2, <1>3 DEF MediaInv, Unlinks, Leases
<1>9. Images'
  BY <1>1, <1>2, <1>3 DEF MediaInv, Images
<1>10. Extra'
  <2>1. \A x \in Shots : (Unlinking(x) => Unlinking(x)') /\ (x \in P => Unlinking(x)') /\ (x # n => shot'[x].pc = shot[x].pc)
    BY <1>1, <1>3 DEF Unlinking
  <2> QED  BY <1>1, <1>2, <2>1 DEF MediaInv, Extra, Typed
<1>11. Once'
  BY <1>2, <1>4 DEF MediaInv, Once
<1>12. Room'
  BY <1>3, <1>5 DEF MediaInv, Room
<1> QED  BY <1>2, <1>6, <1>7, <1>8, <1>9, <1>10, <1>11, <1>12 DEF MediaInv

\* The row a capture stores, and what else is in the transaction.
LEMMA StoredRows ==
  ASSUME MediaInv, NEW n \in Shots, StoreShot(n)
  PROVE  LET P == Prunable(shot[n].plan, "plan") IN
         /\ picture' \in [Shots -> Picture] /\ Rows' /\ Kept' = (Kept \ P) \cup {n} /\ Doomed' = Doomed \cup P
         /\ Blank' = Blank \ {n} /\ Gone' = Gone /\ Rowless' = Rowless /\ n \in Blank
         /\ \A m \in Shots \ {n} : picture'[m].pinned = picture[m].pinned
         /\ \A l : l # "none" => Linked(l)' = IF l = shot[n].link THEN Linked(l) \cup {n} ELSE Linked(l)
<1> DEFINE rows == Pruned(shot[n].plan, "plan")
           l == shot[n].link
           P == Prunable(shot[n].plan, "plan")
           new == [NoPicture EXCEPT !.state = "kept", !.link = l]
<1>1. n \in Blank /\ P \subseteq Kept /\ l \in Links
  BY DEF StoreShot, MediaInv, Turns, Prunable, Typed, Shot
<1>2. picture' = [rows EXCEPT ![n] = new]
  BY CommitTyped DEF StoreShot, MediaInv
<1> DEFINE kept == [NoPicture EXCEPT !.state = "kept"]
<1>3. kept \in Picture /\ kept.state = "kept" /\ kept.reason = "none" /\ new = [kept EXCEPT !.link = l]
  <2>1. NoPicture \in Picture /\ NoPicture.reason = "none"
    BY DEF NoPicture, Picture, Links
  <2> QED  BY <2>1 DEF Picture
<1> HIDE DEF new, l, kept
<1>4. new \in Picture /\ new.state = "kept" /\ new.link = l /\ new.reason = "none"
  BY <1>1, <1>3 DEF Picture
<1>5. ASSUME NEW m \in Shots
      PROVE  /\ picture'[m] = IF m = n THEN new ELSE rows[m]
             /\ m \in P => /\ rows[m] \in Picture /\ rows[m].state = "pruned" /\ rows[m].link = picture[m].link
                           /\ rows[m].pinned = picture[m].pinned
             /\ m \notin P => rows[m] = picture[m]
  <2>1. picture[m] \in Picture
    BY DEF MediaInv, Typed
  <2>2. picture'[m] = IF m = n THEN new ELSE rows[m]
    BY <1>2 DEF Pruned
  <2>3. m \in P => rows[m] = [picture[m] EXCEPT !.state = "pruned", !.reason = "plan"]
    BY DEF Pruned
  <2>4. m \notin P => rows[m] = picture[m]
    BY DEF Pruned
  <2> DEFINE half == [picture[m] EXCEPT !.state = "pruned"]
             pic == [half EXCEPT !.reason = "plan"]
  <2>5. [picture[m] EXCEPT !.state = "pruned", !.reason = "plan"] = pic
    BY <2>1 DEF Picture
  <2>6. half \in Picture /\ half.state = "pruned" /\ half.link = picture[m].link /\ half.pinned = picture[m].pinned
    BY <2>1 DEF Picture
  <2> HIDE DEF half
  <2>7. pic \in Picture /\ pic.state = "pruned" /\ pic.link = picture[m].link /\ pic.pinned = picture[m].pinned
    BY <2>6 DEF Picture, Reasons
  <2> HIDE DEF pic, P, rows
  <2> QED  BY <2>2, <2>3, <2>4, <2>5, <2>7
<1>6. picture' \in [Shots -> Picture]
  <2>1. \A m \in Shots : picture'[m] \in Picture
    BY <1>4, <1>5 DEF MediaInv, Typed
  <2> QED  BY <1>2, <2>1 DEF Pruned
<1> HIDE DEF P, rows
<1>7. Kept' = (Kept \ P) \cup {n} /\ Doomed' = Doomed \cup P /\ Blank' = Blank \ {n}
  BY <1>1, <1>4, <1>5 DEF Kept, Doomed, Blank
<1>8. Gone' = Gone /\ Rowless' = Rowless
  BY <1>1, <1>4, <1>5 DEF Kept, Gone, Rowless, Blank
<1>9. Rows'
  BY <1>1, <1>4, <1>5, <1>7 DEF MediaInv, Rows, Kept, Blank
<1>10. \A m \in Shots \ {n} : picture'[m].pinned = picture[m].pinned
  BY <1>5
<1>11. ASSUME NEW k, k # "none"  PROVE Linked(k)' = IF k = l THEN Linked(k) \cup {n} ELSE Linked(k)
  BY <1>1, <1>4, <1>5, <1>11 DEF Linked, Kept, Blank
<1> QED  BY <1>1, <1>6, <1>7, <1>8, <1>9, <1>10, <1>11 DEF P, l

LEMMA StoreShotKeeps ==
  ASSUME MediaInv, NEW n \in Shots, StoreShot(n)
  PROVE  MediaInv'
<1> DEFINE P == Prunable(shot[n].plan, "plan")
           l == shot[n].link
<1>1. /\ shot[n].pc = "written" /\ ~AlreadyRecorded(l) /\ ~PrinterGone(l) /\ l \in Links
      /\ outcome' = IF l \in Subjects THEN [outcome EXCEPT ![l] = @ + 1] ELSE outcome
      /\ UNCHANGED <<onDisk, lostFiles, janitor, usable, lease, removed, allowance>>
  BY DEF StoreShot, MediaInv, Typed, Shot
<1>2. /\ picture' \in [Shots -> Picture] /\ Rows' /\ Kept' = (Kept \ P) \cup {n} /\ Doomed' = Doomed \cup P
      /\ Blank' = Blank \ {n} /\ Gone' = Gone /\ Rowless' = Rowless /\ n \in Blank
      /\ \A x : x # "none" => Linked(x)' = IF x = l THEN Linked(x) \cup {n} ELSE Linked(x)
  BY StoredRows
<1>3. /\ turn' = Free /\ shot' \in [Shots -> Shot] /\ shot'[n].pc = "unlinking" /\ shot'[n].plan = P
      /\ \A m \in Shots \ {n} : shot'[m] = shot[m]
  BY CommitTyped DEF StoreShot, MediaInv
<1> HIDE DEF P
<1>4. /\ \A m \in Shots \ {n} : shot[m].pc \notin {"planned", "written"}
      /\ n \notin allowance.shots
  BY <1>1 DEF MediaInv, Turns
<1>5. /\ outcome' \in [Subjects -> Nat] /\ \A x \in Subjects : outcome'[x] = IF x = l THEN 1 ELSE outcome[x]
      /\ l \in Subjects => outcome[l] = 0
  <2>1. outcome \in [Subjects -> Nat] /\ \A x \in Subjects : outcome[x] \in {0, 1}
    BY DEF MediaInv, Typed, Once
  <2>2. l \in Subjects => outcome[l] = 0
    BY <1>1, <2>1 DEF AlreadyRecorded
  <2> QED  BY <1>1, <2>1, <2>2
<1>6. Typed'
  BY <1>1, <1>2, <1>3, <1>5 DEF MediaInv, Typed
<1>7. Turns'
  BY <1>1, <1>2, <1>3, <1>4 DEF MediaInv, Turns
<1>8. Unlinks'
  BY <1>1, <1>2, <1>3 DEF MediaInv, Unlinks
<1>9. Leases'
  BY <1>1, <1>2 DEF MediaInv, Leases
<1>10. Images'
  <2>1. n \in onDisk
    BY <1>1 DEF MediaInv, Images
  <2> QED  BY <1>1, <1>2, <1>3, <2>1 DEF MediaInv, Images
<1>11. Extra'
  <2>1. \A x \in Shots : (Unlinking(x) => Unlinking(x)') /\ (x \in P => Unlinking(x)') /\ (x # n => shot'[x].pc = shot[x].pc)
    BY <1>1, <1>3 DEF Unlinking
  <2> QED  BY <1>1, <1>2, <2>1 DEF MediaInv, Extra, Typed
<1>12. Once'
  <2>1. /\ \A x \in Subjects : outcome[x] \in {0, 1} /\ (Linked(x) # {} => outcome[x] = 1)
        /\ \A x \in Subjects \cup Requests : \A m, k \in Linked(x) : m = k
    BY DEF MediaInv, Once
  <2>2. \A x \in Subjects \cup Requests : Linked(x)' = IF x = l THEN Linked(x) \cup {n} ELSE Linked(x)
    BY <1>2, MediaAssumption
  <2>3. l \in Subjects \cup Requests => Linked(l) = {}
    BY <1>1, <1>5, <2>1 DEF AlreadyRecorded
  <2>4. \A x \in Subjects : outcome'[x] \in {0, 1} /\ (Linked(x)' # {} => outcome'[x] = 1)
    BY <1>5, <2>1, <2>2
  <2>5. \A x \in Subjects \cup Requests : \A m, k \in Linked(x)' : m = k
    BY <2>1, <2>2, <2>3
  <2> QED  BY <2>4, <2>5 DEF Once
<1>13. Room'
  BY <1>3, <1>4 DEF MediaInv, Room
<1> QED  BY <1>2, <1>6, <1>7, <1>8, <1>9, <1>10, <1>11, <1>12, <1>13 DEF MediaInv

LEMMA UnlinkPrunedKeeps ==
  ASSUME MediaInv, NEW n \in Shots, UnlinkPruned(n)
  PROVE  MediaInv'
<1> DEFINE F == shot[n].plan
<1>1. /\ shot[n].pc = "unlinking" /\ UnlinkOrDefer(F) /\ SetShot(n, NoShot)
      /\ UNCHANGED <<picture, lostFiles, outcome, janitor, turn, usable, removed, allowance>>
      /\ F \subseteq Doomed /\ F \subseteq Shots
  BY DEF UnlinkPruned, MediaInv, Unlinks, Doomed
<1>2. /\ Rows' /\ Kept' = Kept /\ Doomed' = Doomed /\ Blank' = Blank /\ Gone' = Gone /\ Rowless' = Rowless
      /\ \A l : Linked(l)' = Linked(l)
  BY <1>1, RowsStay DEF MediaInv
<1>3. shot' \in [Shots -> Shot] /\ shot'[n] = NoShot /\ NoShot.pc = "off" /\ \A m \in Shots \ {n} : shot'[m] = shot[m]
  BY <1>1, ShotGoes, ShotTyped DEF MediaInv
<1>4. /\ lease' \in Lease /\ lease'.held = lease.held /\ lease'.copied = lease.copied
      /\ \/ onDisk' = onDisk \ F /\ lease' = lease /\ lease.held = "no"
         \/ onDisk' = onDisk /\ lease'.queued = lease.queued \cup F
  <2>1. lease \in Lease
    BY DEF MediaInv, Typed
  <2>2. CASE lease.held = "no"
    BY <1>1, <2>1, <2>2 DEF UnlinkOrDefer
  <2>3. CASE lease.held # "no"
    <3>1. lease' = [lease EXCEPT !.queued = @ \cup F] /\ onDisk' = onDisk
      BY <1>1, <2>3 DEF UnlinkOrDefer
    <3> HIDE DEF F
    <3> QED  BY <1>1, <2>1, <3>1 DEF Lease
  <2> QED  BY <2>2, <2>3
<1>5. \A x \in Shots : Unlinking(x) => Unlinking(x)' \/ x \in F
  BY <1>3 DEF Unlinking
<1> HIDE DEF F
<1>6. Typed'
  BY <1>1, <1>3, <1>4 DEF MediaInv, Typed
<1>7. Turns'
  BY <1>1, <1>2, <1>3 DEF MediaInv, Turns
<1>8. Unlinks' /\ Leases'
  BY <1>1, <1>2, <1>3, <1>4 DEF MediaInv, Unlinks, Leases
<1>9. Images'
  <2>1. F \cap Kept = {} /\ F \cap Blank = {}
    BY <1>1, RowSets DEF MediaInv
  <2>2. \A m \in Shots : shot'[m].pc = "written" => shot[m].pc = "written" /\ m \in Blank
    BY <1>3 DEF MediaInv, Turns
  <2>3. lease.held = "no" => lease.copied = {}
    BY DEF MediaInv, Leases
  <2> QED  BY <1>1, <1>2, <1>4, <2>1, <2>2, <2>3 DEF MediaInv, Images
<1>10. Extra'
  <2>1. \A x \in Shots : shot[x].pc = "written" => shot'[x].pc = "written"
    BY <1>1, <1>3
  <2>2. Extra /\ onDisk \subseteq Shots
    BY DEF MediaInv, Typed
  <2> SUFFICES ASSUME usable, NEW x \in onDisk'
               PROVE  \/ x \in Kept \/ x \in janitor \/ x \in lease'.queued
                      \/ shot'[x].pc = "written" \/ Unlinking(x)'
                      \/ removed = "unlinking" /\ x \in Rowless
    BY <1>1, <1>2 DEF Extra
  <2>3. x \in Shots /\ x \in onDisk /\ (x \in F => x \in lease'.queued) /\ (x \in lease.queued => x \in lease'.queued)
    BY <1>4, <2>2
  <2> QED  BY <1>5, <2>1, <2>2, <2>3 DEF Extra
<1>11. Once'
  BY <1>1, <1>2 DEF MediaInv, Once
<1>12. Room'
  BY <1>2, <1>3 DEF MediaInv, Room
<1> QED  BY <1>2, <1>6, <1>7, <1>8, <1>9, <1>10, <1>11, <1>12 DEF MediaInv

LEMMA CaptureKeeps ==
  ASSUME MediaInv, NEW n \in Shots, Capture(n)
  PROVE  MediaInv'
<1>1. CASE NotStored(n)
  <2>1. allowance' \in Allowance /\ allowance' = allowance
    BY <1>1 DEF NotStored, MediaInv, Typed
  <2> QED  BY <1>1, <2>1, GivesUpKeeps DEF NotStored
<1>2. CASE StoreFails(n)
  <2>1. allowance' \in Allowance /\ allowance'.shots = allowance.shots
    BY <1>2, AllowanceStays DEF StoreFails, MediaInv
  <2> QED  BY <1>2, <2>1, GivesUpKeeps DEF StoreFails
<1> QED  BY <1>1, <1>2, ShootKeeps, CameraFailsKeeps, PlanShotKeeps, RefuseKeeps, WriteImageKeeps, StoreShotKeeps,
            UnlinkPrunedKeeps DEF Capture

(***************************************************************************)
(* The janitor, people and disks.                                          *)
(***************************************************************************)
\* A step that leaves the rows' states, the captures and their subjects alone.
LEMMA FilesMove ==
  ASSUME MediaInv, UNCHANGED <<shot, outcome, usable, turn>>, picture' \in [Shots -> Picture],
         \A n \in Shots : /\ picture'[n].state = picture[n].state /\ picture'[n].link = picture[n].link
                          /\ picture'[n].reason = picture[n].reason,
         onDisk' \subseteq onDisk, lostFiles' \subseteq Shots, lostFiles \subseteq lostFiles',
         janitor' \subseteq janitor, lease' \in Lease, lease'.queued \subseteq lease.queued,
         allowance' \in Allowance, allowance'.shots = allowance.shots,
         Leases',
         Kept \subseteq onDisk' \cup lostFiles', onDisk \cap Blank \subseteq onDisk',
         lease'.copied \subseteq Gone \cup onDisk' \cup lostFiles',
         \A n \in onDisk' : /\ n \in janitor => n \in janitor'
                            /\ n \in lease.queued => n \in lease'.queued
                            /\ removed = "unlinking" /\ n \in Rowless => removed' = "unlinking"
  PROVE  MediaInv'
<1>1. /\ Rows' /\ Kept' = Kept /\ Doomed' = Doomed /\ Blank' = Blank /\ Gone' = Gone /\ Rowless' = Rowless
      /\ \A l : Linked(l)' = Linked(l)
  BY RowsStay DEF MediaInv
<1>2. Typed'
  BY DEF MediaInv, Typed
<1>3. Turns'
  BY <1>1 DEF MediaInv, Turns
<1>4. Unlinks'
  BY <1>1 DEF MediaInv, Unlinks
<1>5. Images'
  <2>1. \A n \in Shots : shot'[n].pc = "written" => n \in onDisk \cap Blank
    BY DEF MediaInv, Images, Turns
  <2> QED  BY <1>1, <2>1 DEF Images
<1>6. Extra'
  <2>1. \A n : Unlinking(n)' = Unlinking(n)
    BY DEF Unlinking
  <2>2. onDisk \subseteq Shots /\ Extra
    BY DEF MediaInv, Typed
  <2> QED  BY <1>1, <2>1, <2>2 DEF Extra
<1>7. Once' /\ Room'
  BY <1>1 DEF MediaInv, Once, Room
<1> QED  BY <1>1, <1>2, <1>3, <1>4, <1>5, <1>6, <1>7 DEF MediaInv

LEMMA JanitorKeeps ==
  ASSUME MediaInv, JanitorUnlinks
  PROVE  MediaInv'
<1>1. /\ onDisk' = onDisk \ janitor /\ janitor' = {} /\ janitor # {}
      /\ UNCHANGED <<picture, lostFiles, outcome, shot, turn, usable, lease, removed, allowance>>
  BY DEF JanitorUnlinks
<1>2. janitor \cap Kept = {} /\ janitor \cap Blank = {}
  BY RowSets DEF MediaInv, Unlinks
<1>3. lease.copied = {} /\ Leases'
  BY <1>1 DEF MediaInv, Leases, Blank
<1>4. picture \in [Shots -> Picture] /\ lease \in Lease /\ allowance \in Allowance /\ lostFiles \subseteq Shots /\ Images
  BY DEF MediaInv, Typed
<1> QED  BY <1>1, <1>2, <1>3, <1>4, FilesMove DEF Images

LEMMA FlagsKeep ==
  ASSUME MediaInv, SetPinned \/ GrowsOld
  PROVE  MediaInv'
<1>1. PICK n \in Shots :
        \/ picture' = [picture EXCEPT ![n].pinned = ~picture[n].pinned]
        \/ picture' = [picture EXCEPT ![n].old = TRUE]
  BY Zenon DEF SetPinned, GrowsOld, Kept
<1>2. UNCHANGED <<onDisk, lostFiles, outcome, shot, janitor, turn, usable, lease, removed>>
  BY DEF SetPinned, GrowsOld
<1>3. allowance' \in Allowance /\ allowance'.shots = allowance.shots
  <2>1. Allows("pins") \/ Allows("ages")
    BY DEF SetPinned, GrowsOld
  <2> QED  BY <2>1, AllowanceStays DEF MediaInv
<1>4. picture \in [Shots -> Picture] /\ lease \in Lease /\ lostFiles \subseteq Shots /\ Images
  BY DEF MediaInv, Typed
<1>5. /\ picture' \in [Shots -> Picture]
      /\ \A m \in Shots : /\ picture'[m].state = picture[m].state /\ picture'[m].link = picture[m].link
                          /\ picture'[m].reason = picture[m].reason
  <2>1. ASSUME NEW x \in BOOLEAN, picture' = [picture EXCEPT ![n].pinned = x]
        PROVE  /\ picture' \in [Shots -> Picture]
               /\ \A m \in Shots : /\ picture'[m].state = picture[m].state /\ picture'[m].link = picture[m].link
                                   /\ picture'[m].reason = picture[m].reason
    BY <1>4, <2>1 DEF Picture
  <2>2. ASSUME NEW x \in BOOLEAN, picture' = [picture EXCEPT ![n].old = x]
        PROVE  /\ picture' \in [Shots -> Picture]
               /\ \A m \in Shots : /\ picture'[m].state = picture[m].state /\ picture'[m].link = picture[m].link
                                   /\ picture'[m].reason = picture[m].reason
    BY <1>4, <2>2 DEF Picture
  <2>3. TRUE \in BOOLEAN /\ (~picture[n].pinned) \in BOOLEAN
    OBVIOUS
  <2> QED  BY <1>1, <2>1, <2>2, <2>3
<1>6. Leases'
  <2>1. Blank' = Blank
    BY <1>5 DEF Blank
  <2> QED  BY <1>2, <2>1 DEF MediaInv, Leases
<1> QED  BY <1>2, <1>3, <1>4, <1>5, <1>6, FilesMove DEF Images

LEMMA FileLostKeeps ==
  ASSUME MediaInv, FileLost
  PROVE  MediaInv'
<1>1. PICK n \in Kept \cap onDisk : onDisk' = onDisk \ {n} /\ lostFiles' = lostFiles \cup {n}
  BY DEF FileLost
<1>2. UNCHANGED <<picture, outcome, shot, janitor, turn, usable, lease, removed>>
  BY DEF FileLost
<1>3. allowance' \in Allowance /\ allowance'.shots = allowance.shots
  BY AllowanceStays DEF MediaInv, FileLost
<1>4. picture \in [Shots -> Picture] /\ lease \in Lease /\ lostFiles \subseteq Shots /\ Images /\ n \in Shots /\ n \notin Blank
  BY DEF MediaInv, Typed, Kept, Blank
<1>5. Leases'
  BY <1>2 DEF MediaInv, Leases, Blank
<1> QED  BY <1>1, <1>2, <1>3, <1>4, <1>5, FilesMove DEF Images

LEMMA DeletionKeeps ==
  ASSUME MediaInv, DeletionUnlinks
  PROVE  MediaInv'
<1>1. /\ removed = "unlinking" /\ removed' = "done" /\ onDisk' = onDisk \ Rowless
      /\ UNCHANGED <<picture, lostFiles, outcome, shot, janitor, turn, usable, lease, allowance>>
  BY DEF DeletionUnlinks
<1>2. picture \in [Shots -> Picture] /\ lease \in Lease /\ lostFiles \subseteq Shots /\ Images /\ allowance \in Allowance
  BY DEF MediaInv, Typed
<1>3. Rowless \cap Kept = {} /\ Rowless \cap Blank = {} /\ Rowless \subseteq Gone
  BY RowSets DEF MediaInv
<1>4. Leases'
  BY <1>1 DEF MediaInv, Leases, Blank
<1> QED  BY <1>1, <1>2, <1>3, <1>4, FilesMove DEF Images

LEMMA LeaseKeeps ==
  ASSUME MediaInv, TakeLease \/ CopyRows \/ ReleaseLease
  PROVE  MediaInv'
<1>1. /\ picture \in [Shots -> Picture] /\ lease \in Lease /\ lostFiles \subseteq Shots /\ Images /\ allowance \in Allowance
      /\ lease.queued \cap Kept = {} /\ lease.queued \cap Blank = {} /\ Kept \subseteq Shots /\ Kept \cap Blank = {}
      /\ Leases
  BY RowSets DEF MediaInv, Typed, Unlinks
<1>2. UNCHANGED <<picture, lostFiles, outcome, shot, janitor, turn, usable, removed>> /\ Blank' = Blank
  BY DEF TakeLease, CopyRows, ReleaseLease, Blank
<1>3. CASE TakeLease
  <2>1. allowance' \in Allowance /\ allowance'.shots = allowance.shots
    BY <1>3, AllowanceStays DEF MediaInv, TakeLease
  <2>2. lease' \in Lease /\ lease'.held = "waiting" /\ lease'.copied = lease.copied /\ lease'.queued = lease.queued
        /\ lease.held = "no" /\ onDisk' = onDisk
    BY <1>1, <1>3 DEF TakeLease, Lease
  <2>3. Leases'
    BY <1>1, <1>2, <2>2 DEF Leases
  <2> QED  BY <1>1, <1>2, <2>1, <2>2, <2>3, FilesMove DEF Images
<1>4. CASE CopyRows
  <2> DEFINE l == [lease EXCEPT !.held = "copied"]
  <2>1. l \in Lease /\ l.held = "copied" /\ l.queued = lease.queued
    BY <1>1 DEF Lease
  <2>2. lease' = [l EXCEPT !.copied = Kept] /\ onDisk' = onDisk /\ allowance' = allowance /\ janitor = {}
    BY <1>1, <1>4 DEF CopyRows, Lease
  <2> HIDE DEF l
  <2>3. lease' \in Lease /\ lease'.held = "copied" /\ lease'.queued = lease.queued /\ lease'.copied = Kept
    BY <1>1, <2>1, <2>2 DEF Lease
  <2>4. Leases'
    BY <1>1, <1>2, <2>2, <2>3 DEF Leases
  <2> QED  BY <1>1, <1>2, <2>2, <2>3, <2>4, FilesMove DEF Images
<1>5. CASE ReleaseLease
  <2>1. lease' \in Lease /\ lease'.held = "no" /\ lease'.queued = {} /\ lease'.copied = {}
        /\ onDisk' = onDisk \ lease.queued /\ allowance' = allowance
    BY <1>5 DEF ReleaseLease, NoLease, Lease
  <2>2. Leases'
    BY <2>1 DEF Leases
  <2> QED  BY <1>1, <1>2, <2>1, <2>2, FilesMove DEF Images
<1> QED  BY <1>3, <1>4, <1>5

\* Rows pruned by another hand than a capture's, whose files that hand has to unlink.
LEMMA PruneKeeps ==
  ASSUME MediaInv, NEW planned, NEW reason \in Reasons, picture' = Pruned(planned, reason),
         UNCHANGED <<onDisk, lostFiles, outcome, shot, turn, usable, removed, allowance>>,
         turn = Free, janitor' \subseteq Shots, lease' \in Lease,
         janitor' = janitor \/ janitor' = Prunable(planned, reason), janitor \subseteq janitor',
         lease'.copied = lease.copied, lease'.held # "copied" => lease.copied = {},
         lease'.held \in {"copied", "reset"} => janitor' = {},
         lease.queued \subseteq lease'.queued, lease'.queued \subseteq lease.queued \cup (planned \cap Prunable(planned, reason)),
         \A n \in Prunable(planned, reason) : n \in janitor' \/ n \in lease'.queued \/ n \notin onDisk
  PROVE  MediaInv'
<1> DEFINE P == Prunable(planned, reason)
<1>1. /\ picture' \in [Shots -> Picture] /\ Rows' /\ Kept' = Kept \ P /\ Doomed' = Doomed \cup P
      /\ Blank' = Blank /\ Gone' = Gone /\ Rowless' = Rowless /\ \A l : Linked(l)' = Linked(l)
  BY PrunedRows DEF MediaInv
<1> HIDE DEF P
<1>2. Typed'
  BY <1>1 DEF MediaInv, Typed
<1>3. \A n \in Shots : shot[n].pc \notin {"planned", "written"}
  BY MediaAssumption DEF MediaInv, Turns, Free
<1>4. Turns'
  BY <1>1 DEF MediaInv, Turns
<1>5. Unlinks'
  BY <1>1 DEF MediaInv, Unlinks, P
<1>6. Leases'
  BY <1>1 DEF MediaInv, Leases
<1>7. Images'
  BY <1>1 DEF MediaInv, Images
<1>8. Extra'
  <2>1. \A n : Unlinking(n)' = Unlinking(n)
    BY DEF Unlinking
  <2>2. \A n \in P : n \in janitor' \/ n \in lease'.queued \/ n \notin onDisk
    BY DEF P
  <2> QED  BY <1>1, <2>1, <2>2 DEF MediaInv, Extra
<1>9. Once' /\ Room'
  BY <1>1, <1>3 DEF MediaInv, Once, Room
<1> QED  BY <1>1, <1>2, <1>4, <1>5, <1>6, <1>7, <1>8, <1>9 DEF MediaInv

LEMMA PrunePassKeeps ==
  ASSUME MediaInv, PrunePass
  PROVE  MediaInv'
<1>1. /\ picture' = Pruned(Plan(0), "plan") /\ janitor' = Prunable(Plan(0), "plan") /\ turn = Free /\ janitor = {}
      /\ lease.held = "no" /\ UNCHANGED <<onDisk, lostFiles, outcome, shot, turn, usable, lease, removed, allowance>>
  BY DEF PrunePass
<1>2. janitor' \subseteq Shots /\ "plan" \in Reasons
  BY <1>1 DEF Prunable, Kept, Reasons
<1>3. lease \in Lease /\ lease.copied = {}
  BY <1>1 DEF MediaInv, Typed, Leases
<1> QED  BY <1>1, <1>2, <1>3, PruneKeeps

LEMMA ReadImageKeeps ==
  ASSUME MediaInv, ReadImage
  PROVE  MediaInv'
<1>1. PICK n \in Kept \ onDisk : picture' = Pruned({n}, "missingFile")
  BY DEF ReadImage
<1>2. turn = Free /\ UNCHANGED <<onDisk, lostFiles, outcome, shot, janitor, turn, usable, lease, removed, allowance>>
  BY DEF ReadImage
<1>3. lease \in Lease /\ janitor \subseteq Shots /\ Leases /\ "missingFile" \in Reasons
  BY DEF MediaInv, Typed, Reasons
<1>4. \A x \in Prunable({n}, "missingFile") : x \notin onDisk
  BY DEF Prunable
<1> QED  BY <1>1, <1>2, <1>3, <1>4, PruneKeeps DEF Leases

LEMMA ResetKeeps ==
  ASSUME MediaInv, Reset
  PROVE  MediaInv'
<1>1. PICK all \in {Kept, Younger \cup PastAge} :
        /\ picture' = Pruned(all, "reset")
        /\ lease' = [lease EXCEPT !.held = "reset", !.queued = @ \cup all]
  BY DEF Reset
<1>2. /\ lease.held = "waiting" /\ janitor = {} /\ turn = Free
      /\ UNCHANGED <<onDisk, lostFiles, outcome, shot, janitor, turn, usable, removed, allowance>>
  BY DEF Reset
<1>3. all \subseteq Kept /\ all \subseteq Shots
  BY DEF Younger, PastAge, Kept
<1>4. Prunable(all, "reset") = all
  BY <1>3 DEF Prunable
<1>5. lease \in Lease /\ lease.copied = {} /\ "reset" \in Reasons
  BY <1>2 DEF MediaInv, Typed, Leases, Reasons
<1> DEFINE l == [lease EXCEPT !.held = "reset"]
<1>6. l \in Lease /\ l.held = "reset" /\ l.copied = {} /\ l.queued = lease.queued /\ lease' = [l EXCEPT !.queued = l.queued \cup all]
  BY <1>1, <1>5 DEF Lease
<1> HIDE DEF l
<1>7. lease' \in Lease /\ lease'.held = "reset" /\ lease'.copied = {} /\ lease'.queued = lease.queued \cup all
  BY <1>3, <1>6 DEF Lease
<1> QED  BY <1>1, <1>2, <1>4, <1>5, <1>7, PruneKeeps

LEMMA DeleteKeeps ==
  ASSUME MediaInv, DeletePhotographed
  PROVE  MediaInv'
<1> DEFINE D == {n \in Shots : picture[n].link \in Requests}
<1>1. /\ turn = Free /\ removed = "off" /\ removed' = "unlinking"
      /\ picture' = [n \in Shots |-> IF picture[n].link \in Requests
                                     THEN [picture[n] EXCEPT !.state = "gone"] ELSE picture[n]]
      /\ UNCHANGED <<onDisk, lostFiles, outcome, shot, janitor, turn, usable, lease>>
  BY DEF DeletePhotographed
<1>2. allowance' \in Allowance /\ allowance'.shots = allowance.shots
  BY AllowanceStays DEF MediaInv, DeletePhotographed
<1>3. ASSUME NEW n \in Shots
      PROVE  /\ picture'[n] \in Picture /\ picture'[n].link = picture[n].link /\ picture'[n].reason = picture[n].reason
             /\ n \in D => picture'[n].state = "gone"
             /\ n \notin D => picture'[n].state = picture[n].state
  <2>1. picture[n] \in Picture
    BY DEF MediaInv, Typed
  <2> QED  BY <1>1, <2>1 DEF Picture
<1>4. picture' \in [Shots -> Picture]
  BY <1>1, <1>3
<1>5. D \cap Blank = {} /\ D \subseteq Shots
  BY MediaAssumption DEF MediaInv, Rows
<1> HIDE DEF D
<1>6. /\ Kept' = Kept \ D /\ Doomed \subseteq Doomed' /\ Blank' = Blank /\ Gone' = Gone \cup D
      /\ Rowless \subseteq Rowless'
  BY <1>3, <1>5 DEF Kept, Doomed, Blank, Gone, Rowless
<1>7. Kept \cap D \subseteq Rowless'
  BY <1>3 DEF MediaInv, Rows, Kept, Rowless
<1>8. \A l : Linked(l)' = Linked(l)
  BY <1>3, <1>5 DEF Linked, Blank
<1>9. Rows'
  <2>1. Kept' \subseteq Kept /\ Kept \subseteq Shots /\ Blank \subseteq Shots
    BY <1>6 DEF Kept, Blank
  <2> QED  BY <1>3, <1>6, <2>1 DEF MediaInv, Rows
<1>10. Typed'
  BY <1>1, <1>2, <1>4 DEF MediaInv, Typed
<1>11. Turns' /\ Unlinks' /\ Leases'
  BY <1>1, <1>2, <1>6 DEF MediaInv, Turns, Unlinks, Leases
<1>12. Images'
  BY <1>1, <1>6 DEF MediaInv, Images
<1>13. Extra'
  <2>1. \A n : Unlinking(n)' = Unlinking(n)
    BY <1>1 DEF Unlinking
  <2> QED  BY <1>1, <1>6, <1>7, <2>1 DEF MediaInv, Extra
<1>14. Once'
  BY <1>1, <1>8 DEF MediaInv, Once
<1>15. Room'
  <2>1. \A n \in Shots : shot'[n].pc \notin {"planned", "written"}
    BY <1>1, MediaAssumption DEF MediaInv, Turns, Free
  <2> QED  BY <2>1 DEF Room
<1> QED  BY <1>9, <1>10, <1>11, <1>12, <1>13, <1>14, <1>15 DEF MediaInv

\* A sweep, while no capture has an image of its own and no backup a copy.
LEMMA SweepKeeps ==
  ASSUME MediaInv, Sweep, UNCHANGED <<lostFiles, outcome>>,
         shot' \in [Shots -> Shot], janitor' \subseteq janitor, lease' \in Lease,
         allowance' \in Allowance, allowance'.shots = allowance.shots,
         \A n \in Shots : /\ shot'[n].pc \notin {"planned", "written"}
                          /\ shot'[n] = shot[n] \/ shot'[n].pc = "off",
         lease'.copied = {}, lease'.queued \subseteq lease.queued,
         lease'.held \in {"copied", "reset"} => janitor' = {}
  PROVE  MediaInv'
<1> DEFINE planned == Kept \ onDisk
           P == Prunable(planned, "missingFile")
<1>1. P = Kept \ onDisk
  BY DEF Prunable
<1>2. /\ picture' \in [Shots -> Picture] /\ Rows' /\ Kept' \subseteq Kept /\ Doomed \subseteq Doomed'
      /\ Blank' = Blank /\ \A l : Linked(l)' = Linked(l)
      /\ \/ Kept' = Kept \cap onDisk /\ onDisk' = Kept \cap onDisk /\ usable' = TRUE
         \/ onDisk' = onDisk /\ usable' = FALSE
  <2>1. CASE picture' = Pruned(planned, "missingFile")
    <3>1. /\ picture' \in [Shots -> Picture] /\ Rows' /\ Kept' = Kept \ P /\ Doomed' = Doomed \cup P
          /\ Blank' = Blank /\ \A l : Linked(l)' = Linked(l)
      BY <2>1, PrunedRows DEF MediaInv, Reasons
    <3>2. Kept \ P = Kept \cap onDisk
      BY <1>1
    <3>3. \/ onDisk' = Kept \cap onDisk /\ usable' = TRUE
          \/ onDisk' = onDisk /\ usable' = FALSE
      BY DEF Sweep
    <3> HIDE DEF P
    <3> QED  BY <3>1, <3>2, <3>3
  <2>2. CASE picture' = picture /\ onDisk' = onDisk /\ usable' = FALSE
    <3>1. Rows' /\ Kept' = Kept /\ Doomed' = Doomed /\ Blank' = Blank /\ \A l : Linked(l)' = Linked(l)
      BY <2>2, RowsStay DEF MediaInv
    <3> QED  BY <2>2, <3>1 DEF MediaInv, Typed
  <2> QED  BY <2>1, <2>2 DEF Sweep
<1>3. Typed'
  BY <1>2 DEF MediaInv, Typed
<1>4. Turns'
  BY <1>2 DEF MediaInv, Turns
<1>5. Unlinks' /\ Leases'
  BY <1>2 DEF MediaInv, Unlinks, Leases
<1>6. Images'
  BY <1>2 DEF MediaInv, Images
<1>7. Extra'
  BY <1>2 DEF Extra
<1>8. Once' /\ Room'
  BY <1>2 DEF MediaInv, Once, Room
<1> QED  BY <1>2, <1>3, <1>4, <1>5, <1>6, <1>7, <1>8 DEF MediaInv

LEMMA RetrySweepKeeps ==
  ASSUME MediaInv, RetrySweep
  PROVE  MediaInv'
<1>1. /\ turn = Free /\ lease.held = "no" /\ Sweep
      /\ UNCHANGED <<lostFiles, outcome, shot, janitor, turn, lease, removed, allowance>>
  BY DEF RetrySweep
<1>2. \A n \in Shots : shot[n].pc \notin {"planned", "written"}
  BY <1>1, MediaAssumption DEF MediaInv, Turns, Free
<1>3. shot \in [Shots -> Shot] /\ lease \in Lease /\ allowance \in Allowance /\ lease.copied = {}
  BY <1>1 DEF MediaInv, Typed, Leases
<1> QED  BY <1>1, <1>2, <1>3, SweepKeeps

LEMMA MediaRestartKeeps ==
  ASSUME MediaInv, MediaRestart
  PROVE  MediaInv'
<1>1. /\ shot' = [n \in Shots |-> NoShot] /\ janitor' = {} /\ lease' = NoLease /\ Sweep /\ UNCHANGED <<lostFiles, outcome>>
  BY DEF MediaRestart
<1>2. allowance' \in Allowance /\ allowance'.shots = allowance.shots
  BY AllowanceStays DEF MediaInv, MediaRestart
<1>3. NoLease \in Lease /\ NoLease.copied = {} /\ NoLease.queued = {} /\ NoLease.held = "no"
  BY DEF NoLease, Lease
<1>4. shot' \in [Shots -> Shot] /\ \A n \in Shots : shot'[n].pc = "off"
  BY <1>1, ShotTyped
<1> QED  BY <1>1, <1>2, <1>3, <1>4, SweepKeeps

LEMMA MediaStart == MediaInit => MediaInv
<1> SUFFICES ASSUME MediaInit  PROVE MediaInv
  OBVIOUS
<1>1. /\ picture = [n \in Shots |-> NoPicture] /\ onDisk = {} /\ lostFiles = {}
      /\ outcome = [l \in Subjects |-> 0] /\ shot = [n \in Shots |-> NoShot]
      /\ janitor = {} /\ usable = TRUE /\ lease = NoLease /\ allowance \in Allowances
  BY DEF MediaInit
<1>2. NoPicture \in Picture /\ NoPicture.state = "none" /\ NoPicture.link = "none"
  BY DEF NoPicture, Picture, Links
<1>3. NoLease \in Lease /\ NoLease.copied = {} /\ NoLease.queued = {} /\ NoLease.held = "no"
  BY DEF NoLease, Lease
<1>4. allowance \in Allowance
  BY <1>1, MediaAssumption DEF Allowance
<1>5. /\ \A n \in Shots : picture[n] \in Picture /\ picture[n].state = "none" /\ picture[n].link = "none"
      /\ \A n \in Shots : shot[n] \in Shot /\ shot[n].pc = "off"
  BY <1>1, <1>2, ShotTyped
<1>6. Kept = {} /\ Blank = Shots /\ \A l : Linked(l) = {}
  BY <1>5 DEF Kept, Blank, Linked
<1>7. Typed
  <2>1. picture \in [Shots -> Picture] /\ shot \in [Shots -> Shot] /\ outcome \in [Subjects -> Nat]
    BY <1>1, <1>5
  <2> QED  BY <1>1, <1>3, <1>4, <2>1 DEF Typed
<1>8. Rows /\ Turns /\ Unlinks /\ Leases
  BY <1>1, <1>3, <1>4, <1>5, <1>6 DEF Rows, Turns, Unlinks, Leases, Allowance
<1>9. Images /\ Extra /\ Once /\ Room
  BY <1>1, <1>3, <1>5, <1>6 DEF Images, Extra, Once, Room
<1> QED  BY <1>7, <1>8, <1>9 DEF MediaInv

LEMMA MediaKeep == MediaInv /\ [MediaNext]_pictures => MediaInv'
<1> SUFFICES ASSUME MediaInv, [MediaNext]_pictures  PROVE MediaInv'
  OBVIOUS
<1>1. CASE UNCHANGED pictures
  <2>1. UNCHANGED <<picture, onDisk, lostFiles, outcome, shot, janitor, turn, usable, lease, removed, allowance>>
    BY <1>1 DEF pictures
  <2>2. Typed' /\ Rows' /\ Turns' /\ Unlinks'
    BY <2>1 DEF MediaInv, Typed, Rows, Turns, Unlinks, Blank, Kept, Doomed
  <2>3. Leases' /\ Images' /\ Room'
    BY <2>1 DEF MediaInv, Leases, Images, Room, Blank, Gone, Kept
  <2>4. Extra' /\ Once'
    BY <2>1 DEF MediaInv, Extra, Once, Linked, Kept, Rowless, Unlinking
  <2> QED  BY <2>2, <2>3, <2>4 DEF MediaInv
<1>2. CASE \E n \in Shots : Capture(n)
  BY <1>2, CaptureKeeps
<1>3. CASE PrunePass \/ ReadImage \/ Reset \/ DeletePhotographed \/ RetrySweep \/ MediaRestart
  BY <1>3, PrunePassKeeps, ReadImageKeeps, ResetKeeps, DeleteKeeps, RetrySweepKeeps, MediaRestartKeeps
<1>4. CASE JanitorUnlinks \/ DeletionUnlinks
  BY <1>4, JanitorKeeps, DeletionKeeps
<1>5. CASE SetPinned \/ GrowsOld \/ FileLost
  BY <1>5, FlagsKeep, FileLostKeeps
<1>6. CASE TakeLease \/ CopyRows \/ ReleaseLease
  BY <1>6, LeaseKeeps
<1> QED  BY <1>1, <1>2, <1>3, <1>4, <1>5, <1>6 DEF MediaNext

\* The inductive invariant: captures plan and store one at a time, under the janitor's lock
\* (capture.rs store_frame); whoever unlinks files unlinks those of rows that left the kept ones
\* for good (media.rs, lease.rs); and a plan that fits makes room (retention.rs plan_prune).
THEOREM MediaOrdered == MediaSpec => []MediaInv
<1> QED  BY MediaStart, MediaKeep, PTL DEF MediaSpec

\* A row that was not pruned has its image, and so has every row a backup copied, until the lease
\* is released; an image with no such row is one that somebody still removes (media.rs
\* mark_pruned, lease.rs unlink_or_defer); and a subject or a request is captured once at most
\* (capture.rs already_recorded).
THEOREM MediaEvidenceHolds == MediaSpec => []EvidenceHolds
<1>1. MediaInv => ImagesKept
  <2> SUFFICES ASSUME MediaInv  PROVE ImagesKept
    OBVIOUS
  <2> DEFINE Working == {n \in Shots : shot[n].pc \in {"written", "unlinking"}}
             Theirs == UNION {shot[n].plan \cup {n} : n \in Working}
  <2>1. Kept \subseteq onDisk \cup lostFiles
    BY DEF MediaInv, Images
  <2>2. \A n \in lease.copied : picture[n].state # "gone" => n \in onDisk \cup lostFiles
    BY DEF MediaInv, Images, Gone
  <2>3. ASSUME usable, NEW x \in onDisk
        PROVE  x \in Kept \cup janitor \cup lease.queued \cup Theirs
                 \cup IF removed = "unlinking" THEN Rowless ELSE {}
    <3>1. x \in Shots
      BY DEF MediaInv, Typed
    <3>2. shot[x].pc = "written" => x \in Theirs
      BY <3>1
    <3>3. Unlinking(x) => x \in Theirs
      BY DEF Unlinking
    <3> HIDE DEF Theirs
    <3> QED  BY <2>3, <3>2, <3>3 DEF MediaInv, Extra
  <2>4. usable => onDisk \subseteq Kept \cup janitor \cup lease.queued \cup Theirs
                      \cup IF removed = "unlinking" THEN Rowless ELSE {}
    <3> HIDE DEF Theirs
    <3> QED  BY <2>3
  <2> QED  BY <2>1, <2>2, <2>4, Zenon DEF ImagesKept, Theirs, Working
<1>2. MediaInv => OutcomeOnce
  <2> SUFFICES ASSUME MediaInv  PROVE OutcomeOnce
    OBVIOUS
  <2>1. ASSUME NEW l \in Subjects \cup Requests
        PROVE  /\ Linked(l) = {} => Cardinality(Linked(l)) = 0
               /\ Linked(l) # {} => Cardinality(Linked(l)) = 1
    <3>1. CASE Linked(l) = {}
      BY <3>1, FS_EmptySet
    <3>2. CASE Linked(l) # {}
      <4>1. PICK n : Linked(l) = {n}
        BY <3>2 DEF MediaInv, Once
      <4> QED  BY <3>2, <4>1, FS_Singleton
    <3> QED  BY <3>1, <3>2
  <2>2. ASSUME NEW l \in Subjects  PROVE outcome[l] <= 1 /\ Cardinality(Linked(l)) <= outcome[l]
    BY <2>1 DEF MediaInv, Once
  <2>3. ASSUME NEW r \in Requests  PROVE Cardinality(Linked(r)) <= 1
    BY <2>1
  <2> QED  BY <2>2, <2>3 DEF OutcomeOnce
<1>3. MediaInv => EvidenceHolds
  BY <1>1, <1>2 DEF EvidenceHolds
<1> QED  BY <1>3, MediaOrdered, PTL

(***************************************************************************)
(* What prunes take.                                                       *)
(***************************************************************************)
\* A pinned row is marked only for its missing file or by a reset.
LEMMA PinsHold ==
  ASSUME Typed, Rows, NEW planned, NEW reason \in Reasons, picture' = Pruned(planned, reason),
         NEW n \in Kept, picture[n].pinned, picture'[n].state # "kept"
  PROVE  n \in planned /\ reason # "plan" /\ picture'[n].reason = reason
<1>1. n \in Shots /\ picture[n].state = "kept"
  BY DEF Kept
<1>2. n \in Prunable(planned, reason)
  BY <1>1 DEF Pruned
<1>3. picture'[n].reason = reason
  BY <1>2, PrunedRows
<1> QED  BY <1>2, <1>3 DEF Prunable

\* Every step but the storing of a row: no row appears, and a pinned one goes only as it may.
LEMMA OtherSteps ==
  ASSUME MediaInv, [MediaNext]_pictures, \A n \in Shots : ~StoreShot(n), NEW n \in Shots
  PROVE  /\ n \in Blank => n \in Blank'
         /\ n \in Kept /\ picture[n].pinned /\ picture'[n].state # "kept" =>
              picture'[n].reason = "reset" \/ n \in lostFiles
<1>1. CASE UNCHANGED picture
  BY <1>1 DEF Blank, Kept
<1>2. CASE \E reason \in Reasons : \E planned :
             picture' = Pruned(planned, reason) /\ (reason = "missingFile" => planned \subseteq Kept \ onDisk)
  <2>0. PICK reason \in Reasons : \E planned :
             picture' = Pruned(planned, reason) /\ (reason = "missingFile" => planned \subseteq Kept \ onDisk)
    BY <1>2
  <2>1. PICK planned :
             picture' = Pruned(planned, reason) /\ (reason = "missingFile" => planned \subseteq Kept \ onDisk)
    BY <2>0
  <2>2. Blank' = Blank
    BY <2>1, PrunedRows DEF MediaInv
  <2>3. Kept \ onDisk \subseteq lostFiles
    BY DEF MediaInv, Images
  <2>4. n \in Kept /\ picture[n].pinned /\ picture'[n].state # "kept" =>
          n \in planned /\ reason # "plan" /\ picture'[n].reason = reason
    BY <2>1, PinsHold DEF MediaInv
  <2> QED  BY <2>1, <2>2, <2>3, <2>4 DEF Reasons
<1>3. CASE SetPinned \/ GrowsOld
  <2>1. picture'[n].state = picture[n].state
    BY <1>3 DEF SetPinned, GrowsOld, MediaInv, Typed, Picture
  <2> QED  BY <2>1 DEF Blank, Kept
<1>4. CASE DeletePhotographed
  <2>1. /\ picture'[n] = IF picture[n].link \in Requests THEN [picture[n] EXCEPT !.state = "gone"] ELSE picture[n]
        /\ n \in Kept /\ picture[n].link \in Requests => ~picture[n].pinned
    BY <1>4 DEF DeletePhotographed
  <2>2. n \in Blank => picture[n].link \notin Requests
    BY MediaAssumption DEF MediaInv, Rows
  <2> QED  BY <2>1, <2>2 DEF Blank, Kept
<1>5. CASE Sweep
  BY <1>1, <1>2, <1>5 DEF Sweep, Reasons
<1>6. CASE \E m \in Shots : Refuse(m)
  <2>1. PICK m \in Shots : picture' = Pruned(shot[m].plan, "plan")
    BY <1>6 DEF Refuse, Commits
  <2> QED  BY <1>2, <2>1 DEF Reasons
<1>7. CASE PrunePass \/ ReadImage \/ Reset
  <2>1. PrunePass => picture' = Pruned(Plan(0), "plan")
    BY DEF PrunePass
  <2>2. ReadImage => \E m \in Kept \ onDisk : picture' = Pruned({m}, "missingFile")
    BY DEF ReadImage
  <2>3. Reset => \E all : picture' = Pruned(all, "reset")
    BY DEF Reset
  <2> QED  BY <1>2, <1>7, <2>1, <2>2, <2>3 DEF Reasons
<1>8. CASE \E m \in Shots : Capture(m) /\ ~Refuse(m)
  BY <1>1, <1>8 DEF Capture, Shoot, CameraFails, PlanShot, WriteImage, NotStored, StoreFails, UnlinkPruned
<1>9. CASE JanitorUnlinks \/ DeletionUnlinks \/ FileLost \/ TakeLease \/ CopyRows \/ ReleaseLease
  BY <1>1, <1>9 DEF JanitorUnlinks, DeletionUnlinks, FileLost, TakeLease, CopyRows, ReleaseLease
<1>10. CASE RetrySweep \/ MediaRestart
  BY <1>5, <1>10 DEF RetrySweep, MediaRestart
<1>11. CASE UNCHANGED pictures
  BY <1>1, <1>11 DEF pictures
<1> QED  BY <1>3, <1>4, <1>6, <1>7, <1>8, <1>9, <1>10, <1>11 DEF MediaNext

\* A stored row leaves at most Cap unpinned ones, whatever was pinned since its plan.
LEMMA StoreFits ==
  ASSUME MediaInv, NEW n \in Shots, StoreShot(n)
  PROVE  Cardinality({m \in Shots : picture'[m].state = "kept" /\ ~picture'[m].pinned}) <= Cap
<1> DEFINE P == Prunable(shot[n].plan, "plan")
           left == Kept \ shot[n].plan
           U == {m \in Shots : picture'[m].state = "kept" /\ ~picture'[m].pinned}
<1>1. Kept' = (Kept \ P) \cup {n} /\ n \in Blank /\ \A m \in Shots \ {n} : picture'[m].pinned = picture[m].pinned
  BY StoredRows
<1>2. U \subseteq left \cup {n}
  <2> SUFFICES ASSUME NEW m \in U, m # n  PROVE m \in left
    OBVIOUS
  <2>1. m \in Kept \ P /\ ~picture[m].pinned
    BY <1>1 DEF Kept
  <2> QED  BY <2>1 DEF Prunable
<1>3. Cardinality(left) + 1 <= Cap
  BY DEF StoreShot, MediaInv, Room
<1>4. left \subseteq Shots /\ n \notin left
  BY <1>1, RowSets DEF Kept, MediaInv
<1> HIDE DEF U, left, P
<1>5. IsFiniteSet(left)
  BY <1>4, MediaAssumption, FS_Subset
<1>6. IsFiniteSet(left \cup {n}) /\ Cardinality(left \cup {n}) = Cardinality(left) + 1
  BY <1>4, <1>5, FS_AddElement
<1>7. IsFiniteSet(U) /\ Cardinality(U) <= Cardinality(left \cup {n})
  BY <1>2, <1>6, FS_Subset
<1>8. Cardinality(U) \in Nat /\ Cardinality(left) \in Nat /\ Cap \in Nat
  BY <1>5, <1>7, FS_CardinalityType, MediaAssumption
<1>9. Cardinality(U) <= Cap
  BY <1>3, <1>6, <1>7, <1>8
<1> QED  BY <1>9 DEF U

\* A pin made at any moment saves an image from age and the cap (retention.rs mark_pruned passes
\* over it): only a reset takes a pinned one, or the loss of its file; and a stored image never
\* leaves more unpinned ones than the cap (plan_prune, under the janitor's lock).
THEOREM MediaPruneRules == MediaSpec => PruneRules
<1> DEFINE Step == \A n \in Shots :
             /\ picture[n].state = "kept" /\ picture[n].pinned /\ picture'[n].state # "kept" =>
                  picture'[n].reason = "reset" \/ n \in lostFiles
             /\ picture[n].state = "none" /\ picture'[n].state = "kept" =>
                  Cardinality({m \in Shots : picture'[m].state = "kept" /\ ~picture'[m].pinned}) <= Cap
<1>1. MediaInv /\ [MediaNext]_pictures => Step
  <2> SUFFICES ASSUME MediaInv, [MediaNext]_pictures  PROVE Step
    OBVIOUS
  <2>1. CASE \A n \in Shots : ~StoreShot(n)
    <3> SUFFICES ASSUME NEW n \in Shots
                 PROVE  /\ picture[n].state = "kept" /\ picture[n].pinned /\ picture'[n].state # "kept" =>
                             picture'[n].reason = "reset" \/ n \in lostFiles
                        /\ ~(picture[n].state = "none" /\ picture'[n].state = "kept")
      OBVIOUS
    <3>1. /\ n \in Blank => n \in Blank'
          /\ n \in Kept /\ picture[n].pinned /\ picture'[n].state # "kept" =>
               picture'[n].reason = "reset" \/ n \in lostFiles
      BY <2>1, OtherSteps
    <3> QED  BY <3>1 DEF Blank, Kept
  <2>2. ASSUME NEW x \in Shots, StoreShot(x)  PROVE Step
    <3>1. Cardinality({m \in Shots : picture'[m].state = "kept" /\ ~picture'[m].pinned}) <= Cap
      BY <2>2, StoreFits
    <3>2. ASSUME NEW n \in Kept, picture[n].pinned  PROVE n \in Kept'
      <4>1. Kept' = (Kept \ Prunable(shot[x].plan, "plan")) \cup {x}
        BY <2>2, StoredRows
      <4>2. n \notin Prunable(shot[x].plan, "plan")
        BY <3>2 DEF Prunable
      <4> QED  BY <4>1, <4>2
    <3>3. \A n \in Shots : picture[n].state = "kept" /\ picture[n].pinned => picture'[n].state = "kept"
      BY <3>2 DEF Kept
    <3> QED  BY <3>1, <3>3
  <2> QED  BY <2>1, <2>2
<1> QED  BY <1>1, MediaOrdered, PTL DEF MediaSpec, PruneRules

---------------------------------------------------------------------------
(* What is raised about the Printer.                                       *)

JobKinds == Manual \cup LinksJob \cup {"outcomeUnknown", "jobCompleted"}
Conditions == (PrinterKinds \X {Nobody}) \cup (JobKinds \X Prints)
Row == [key : Conditions, open : BOOLEAN, incident : Nat, acked : BOOLEAN, recurs : Nat]
IncidentRow == [job : Prints \cup {Nobody}, open : BOOLEAN]

Projected ==
    /\ event \in Seq(Row)
    /\ incident \in [DOMAIN incident -> IncidentRow] /\ DOMAIN incident \subseteq DOMAIN event

\* What one transaction of a pass writes, part by part.
New(s, over) == SetToSeq(Inserted(s, over))
Inserts(s, over) == Len(event) + 1..Len(event) + Len(New(s, over))
KeyOf(s, over, e) == New(s, over)[e - Len(event)]
Opened(s, over) == {e \in Inserts(s, over) : OpensIncident(KeyOf(s, over, e))}
Homes(s, over, j) == IncidentOf(j) \cup {e \in Opened(s, over) : KeyOf(s, over, e)[2] = j}
HomeOf(s, over, e) ==
    CASE e \in Opened(s, over) -> e
      [] e \notin Opened(s, over) /\ KeyOf(s, over, e)[1] \in OpensOrLinksJob \cup LinksJob ->
           Max(Homes(s, over, KeyOf(s, over, e)[2]) \cup {Nobody})
      [] OTHER -> Nobody
LinkedBy(s, over) == {HomeOf(s, over, e) : e \in Inserts(s, over)}
Touched(s, over) == LinkedBy(s, over) \cup {event[e].incident : e \in Resolved(s) \cup Acknowledged}
LastAbout(key) == Max(About(key) \cup {Nobody})
OldRow(s, e) == [event[e] EXCEPT !.open = @ /\ e \notin Resolved(s), !.acked = @ \/ e \in Acknowledged]
NewRow(s, over, n) ==
    [key |-> New(s, over)[n], open |-> TRUE, incident |-> HomeOf(s, over, Len(event) + n),
     acked |-> New(s, over)[n][1] = "material" /\ material[New(s, over)[n][2]] = "deferred",
     recurs |-> LastAbout(New(s, over)[n])]
RowsAfter(s, over) == [e \in 1..Len(event) |-> OldRow(s, e)] \o [n \in 1..Len(New(s, over)) |-> NewRow(s, over, n)]
NextIncident(s, over, rows, i) ==
    [job |-> IF i \in Opened(s, over) THEN KeyOf(s, over, i)[2] ELSE incident[i].job,
     open |-> /\ i \in LinkedBy(s, over) \/ incident[i].open
              /\ i \in Touched(s, over) => Unsettled(rows, i)]

LEMMA ApplyIs ==
  ASSUME NEW s, NEW over, Apply(s, over)
  PROVE  /\ event' = RowsAfter(s, over)
         /\ incident' = [i \in DOMAIN incident \cup Opened(s, over) |-> NextIncident(s, over, RowsAfter(s, over), i)]
  BY DEF Apply, RowsAfter, NextIncident, NewRow, OldRow, LastAbout, Touched, LinkedBy, HomeOf, Homes, Opened, KeyOf, Inserts, New

LEMMA SeqOfSet ==
  ASSUME NEW S, IsFiniteSet(S)
  PROVE  /\ SetToSeq(S) \in Seq(S)
         /\ \A x \in S : \E n \in 1..Len(SetToSeq(S)) : SetToSeq(S)[n] = x
         /\ \A m, n \in 1..Len(SetToSeq(S)) : SetToSeq(S)[m] = SetToSeq(S)[n] => m = n
<1> DEFINE k == Cardinality(S)
           F == {f \in [1..k -> S] : IsInjective(f)}
           g == SetToSeq(S)
<1>1. k \in Nat /\ ExistsBijection(1..k, S)
  BY FS_CardinalityType
<1>2. PICK f : f \in Bijection(1..k, S)
  BY <1>1 DEF ExistsBijection
<1>3. f \in [1..k -> S] /\ IsInjective(f)
  BY <1>2 DEF Bijection, Injection, Surjection, IsInjective
<1>4. g \in [1..k -> S] /\ IsInjective(g)
  <2>1. g = CHOOSE h \in [1..k -> S] : IsInjective(h)
    BY DEF SetToSeq
  <2> HIDE DEF g, k
  <2> QED  BY <1>3, <2>1
<1>5. g \in Seq(S) /\ Len(g) = k
  <2> HIDE DEF g, k
  <2> QED  BY <1>1, <1>4
<1>6. g \in Surjection(1..k, S)
  <2>1. Cardinality(1..k) = k
    <3>1. IsFiniteSet(1..k) /\ Cardinality(1..k) = IF 1 > k THEN 0 ELSE k - 1 + 1
      <4> HIDE DEF k
      <4> QED  BY <1>1, FS_Interval
    <3> HIDE DEF k
    <3> QED  BY <1>1, <3>1
  <2>2. g \in Injection(1..k, S)
    <3> HIDE DEF g, k
    <3> QED  BY <1>4 DEF Injection, IsInjective
  <2> HIDE DEF g
  <2> QED  BY <2>1, <2>2, FS_Injection
<1>7. \A x \in S : \E n \in 1..k : g[n] = x
  <2> HIDE DEF g, k
  <2> QED  BY Zenon, <1>6 DEF Surjection
<1>8. \A m, n \in 1..k : g[m] = g[n] => m = n
  <2> HIDE DEF g, k
  <2> QED  BY <1>4 DEF IsInjective
<1> HIDE DEF g, k
<1>9. /\ g \in Seq(S) /\ \A x \in S : \E n \in 1..Len(g) : g[n] = x
      /\ \A m, n \in 1..Len(g) : g[m] = g[n] => m = n
  BY <1>5, <1>7, <1>8
<1> USE DEF g
<1> QED  BY <1>9

LEMMA InsertedTyped ==
  ASSUME NEW s, NEW over
  PROVE  Present(s, over) \subseteq Conditions /\ Inserted(s, over) \subseteq Present(s, over)
  BY DEF Present, Conditions, PrinterPresent, JobPresent, JobKinds, Inserted

LEMMA ConditionsFinite ==
  IsFiniteSet(Conditions)
<1>1. IsFiniteSet(Prints) /\ IsFiniteSet({Nobody})
  BY AttentionAssumption, FS_Singleton
<1>2. IsFiniteSet(PrinterKinds)
  <2>1. PrinterKinds = {"offline"} \cup {"connectionError"} \cup {"hostFailed"}
    BY DEF PrinterKinds
  <2> QED  BY <2>1, FS_Singleton, FS_Union
<1>3. IsFiniteSet(JobKinds)
  <2>1. JobKinds = (({"jobFailed"} \cup {"hostCancelled"}) \cup ({"startConfirmation"} \cup {"material"}))
                   \cup ({"outcomeUnknown"} \cup {"jobCompleted"})
    BY DEF JobKinds, Manual, LinksJob
  <2> QED  BY <2>1, FS_Singleton, FS_Union
<1>4. IsFiniteSet(PrinterKinds \X {Nobody}) /\ IsFiniteSet(JobKinds \X Prints)
  BY <1>1, <1>2, <1>3, FS_Product
<1> QED  BY <1>4, FS_Union DEF Conditions

\* The keys a pass inserts, in some order, each once.
LEMMA NewKeys ==
  ASSUME NEW s, NEW over
  PROVE  /\ New(s, over) \in Seq(Conditions) /\ New(s, over) \in Seq(Inserted(s, over))
         /\ \A n \in 1..Len(New(s, over)) : New(s, over)[n] \in Inserted(s, over) /\ New(s, over)[n] \in Conditions
         /\ \A m, n \in 1..Len(New(s, over)) : New(s, over)[m] = New(s, over)[n] => m = n
         /\ \A key \in Inserted(s, over) : \E n \in 1..Len(New(s, over)) : New(s, over)[n] = key
<1> DEFINE S == Inserted(s, over)
           f == New(s, over)
<1>1. S \subseteq Conditions
  BY InsertedTyped
<1>2. IsFiniteSet(S)
  <2> HIDE DEF S
  <2> QED  BY <1>1, ConditionsFinite, FS_Subset
<1>3. /\ f \in Seq(S) /\ \A x \in S : \E n \in 1..Len(f) : f[n] = x
      /\ \A m, n \in 1..Len(f) : f[m] = f[n] => m = n
  <2>1. f = SetToSeq(S)
    BY Zenon DEF New
  <2> HIDE DEF S, f
  <2> QED  BY <1>2, <2>1, SeqOfSet
<1> HIDE DEF S, f
<1>4. f \in Seq(Conditions)
  BY <1>1, <1>3
<1>5. \A n \in 1..Len(f) : f[n] \in S /\ f[n] \in Conditions
  BY <1>1, <1>3
<1> USE DEF S, f
<1> QED  BY <1>3, <1>4, <1>5

\* The largest number of a set of numbers.
LEMMA LargestIs ==
  ASSUME NEW S, NEW n \in Nat, S \subseteq 0..n, S # {}
  PROVE  Max(S) \in S /\ \A y \in S : Max(S) >= y
<1>1. \E x \in S : \A y \in S : x >= y
  <2> DEFINE T == {n - x : x \in S}
  <2>1. T \subseteq Nat /\ T # {}
    <3>1. \A x \in S : n - x \in Nat
      OBVIOUS
    <3> QED  BY Zenon, <3>1
  <2>2. PICK t \in T : \A u \in T : t <= u
    <3> HIDE DEF T
    <3> QED  BY <2>1, Smallest
  <2>3. PICK x \in S : t = n - x
    BY <2>2
  <2>4. \A y \in S : n - x <= n - y
    BY <2>2, <2>3
  <2> QED  BY <2>3, <2>4
<1>2. Max(S) = CHOOSE x \in S : \A y \in S : x >= y
  BY DEF Max
<1> QED  BY <1>1, <1>2

(***************************************************************************)
(* What a pass writes.                                                     *)
(***************************************************************************)
\* The Incident an inserted Event is put in: its own, one of its Job, or none.
LEMMA HomeIs ==
  ASSUME Projected, NEW s, NEW over, NEW e \in Inserts(s, over)
  PROVE  /\ KeyOf(s, over, e) \in Conditions /\ KeyOf(s, over, e) \in Inserted(s, over)
         /\ HomeOf(s, over, e) \in Nat
         /\ e \in Opened(s, over) => HomeOf(s, over, e) = e
         /\ HomeOf(s, over, e) # Nobody =>
              \/ HomeOf(s, over, e) \in IncidentOf(KeyOf(s, over, e)[2])
              \/ /\ HomeOf(s, over, e) \in Opened(s, over)
                 /\ KeyOf(s, over, HomeOf(s, over, e))[2] = KeyOf(s, over, e)[2]
         /\ KeyOf(s, over, e)[1] \in OpensOrLinksJob \cup {"hostFailed"} => HomeOf(s, over, e) # Nobody
<1> DEFINE old == Len(event)
           new == New(s, over)
           key == KeyOf(s, over, e)
           opened == Opened(s, over)
           home == HomeOf(s, over, e)
           homes == Homes(s, over, key[2])
           top == old + Len(new)
<1>1. old \in Nat /\ Len(new) \in Nat /\ DOMAIN event = 1..old
  BY NewKeys DEF Projected
<1>2. e \in old + 1..top /\ e - old \in 1..Len(new) /\ e \in Nat /\ e # Nobody /\ top \in Nat
  <2>1. e \in old + 1..top
    BY Zenon DEF Inserts
  <2> HIDE DEF old, new
  <2> QED  BY <1>1, <2>1 DEF Nobody
<1>3. key \in Conditions /\ key \in Inserted(s, over)
  <2>1. key = new[e - old]
    BY Zenon DEF KeyOf
  <2>2. \A n \in 1..Len(new) : new[n] \in Inserted(s, over) /\ new[n] \in Conditions
    BY NewKeys
  <2> HIDE DEF new, key, old
  <2> QED  BY <1>2, <2>1, <2>2
<1>4. opened \subseteq old + 1..top
  <2>1. opened \subseteq Inserts(s, over)
    BY Zenon DEF Opened
  <2> QED  BY <2>1 DEF Inserts
<1>5. homes \cup {Nobody} \subseteq 0..top /\ Nobody \notin homes
  <2>1. IncidentOf(key[2]) \subseteq 1..old
    BY <1>1 DEF IncidentOf, Projected
  <2>2. homes \subseteq IncidentOf(key[2]) \cup opened
    BY DEF Homes
  <2>3. homes \subseteq (1..old) \cup (old + 1..top)
    <3> HIDE DEF old, new, homes, opened, key, top
    <3> QED  BY <1>4, <2>1, <2>2
  <2>4. 1..old \subseteq 1..top /\ old + 1..top \subseteq 1..top
    <3>1. old <= top
      <4> HIDE DEF old, new
      <4> QED  BY <1>1 DEF top
    <3> HIDE DEF old, top
    <3> QED  BY <1>1, <1>2, <3>1
  <2> HIDE DEF old, new, homes, opened, key, top
  <2>5. homes \subseteq 1..top
    BY <2>3, <2>4
  <2> QED  BY <1>2, <2>5 DEF Nobody
<1>6. /\ Max(homes \cup {Nobody}) \in homes \cup {Nobody}
      /\ \A y \in homes \cup {Nobody} : Max(homes \cup {Nobody}) >= y
  <2> HIDE DEF homes, top
  <2> QED  BY <1>2, <1>5, LargestIs
<1>7. home = CASE e \in opened -> e
               [] e \notin opened /\ key[1] \in OpensOrLinksJob \cup LinksJob -> Max(homes \cup {Nobody})
               [] OTHER -> Nobody
  BY Zenon DEF HomeOf
<1>8. \A h \in homes : \/ h \in IncidentOf(key[2])
                       \/ h \in opened /\ KeyOf(s, over, h)[2] = key[2]
  BY DEF Homes
<1>9. e \in opened <=> key[1] = "hostFailed" \/ (key[1] \in OpensOrLinksJob /\ IncidentOf(key[2]) = {})
  BY DEF Opened, OpensIncident
<1>10. IncidentOf(key[2]) \subseteq homes
  BY DEF Homes
<1>11. CASE e \in opened
  <2>1. home = e
    <3> HIDE DEF home, opened, key, homes
    <3> QED  BY <1>7, <1>11
  <2> HIDE DEF home, opened, key, homes
  <2>2. KeyOf(s, over, home)[2] = key[2]
    BY <2>1 DEF key
  <2> USE DEF home, opened, key
  <2> QED  BY <1>2, <1>3, <1>11, <2>1, <2>2
<1>12. CASE e \notin opened /\ key[1] \in OpensOrLinksJob \cup LinksJob
  <2>1. home = Max(homes \cup {Nobody})
    <3> HIDE DEF home, opened, key, homes
    <3> QED  BY <1>7, <1>12
  <2>2. home \in homes \cup {Nobody} /\ \A y \in homes \cup {Nobody} : home >= y
    <3> HIDE DEF home, homes
    <3> QED  BY <1>6, <2>1
  <2>3. home \in Nat
    <3> HIDE DEF home, homes, top
    <3> QED  BY <1>5, <2>2
  <2>4. key[1] \in OpensOrLinksJob \cup {"hostFailed"} => home # Nobody
    <3> SUFFICES ASSUME key[1] \in OpensOrLinksJob \cup {"hostFailed"}  PROVE home # Nobody
      OBVIOUS
    <3>1. PICK i \in homes : TRUE
      <4> HIDE DEF home, homes, opened, key
      <4> QED  BY <1>9, <1>10, <1>12
    <3>2. i \in 0..top /\ i # Nobody /\ home >= i
      <4> HIDE DEF home, homes, top
      <4> QED  BY <1>5, <2>2, <3>1
    <3> HIDE DEF home, homes, top
    <3> QED  BY <1>2, <2>3, <3>2 DEF Nobody
  <2>5. home # Nobody => \/ home \in IncidentOf(key[2])
                         \/ home \in opened /\ KeyOf(s, over, home)[2] = key[2]
    <3> HIDE DEF home, homes, opened, key
    <3> QED  BY <1>8, <2>2
  <2> QED  BY <1>3, <1>12, <2>3, <2>4, <2>5
<1>13. CASE e \notin opened /\ key[1] \notin OpensOrLinksJob \cup LinksJob
  <2>1. home = Nobody
    <3> HIDE DEF home, opened, key, homes
    <3> QED  BY <1>7, <1>13
  <2>2. key[1] \notin OpensOrLinksJob \cup {"hostFailed"}
    <3> HIDE DEF home, opened, key, homes
    <3> QED  BY <1>9, <1>13
  <2> QED  BY <1>3, <1>13, <2>1, <2>2 DEF Nobody
<1> QED  BY <1>11, <1>12, <1>13

LEMMA OldRowIs ==
  ASSUME NEW s, NEW e, event[e] \in Row
  PROVE  OldRow(s, e) = [key |-> event[e].key, open |-> event[e].open /\ e \notin Resolved(s),
                         incident |-> event[e].incident, acked |-> event[e].acked \/ e \in Acknowledged,
                         recurs |-> event[e].recurs]
<1> DEFINE r == event[e]
           o == r.open /\ e \notin Resolved(s)
           a == r.acked \/ e \in Acknowledged
           r1 == [r EXCEPT !.open = o]
           r2 == [r1 EXCEPT !.acked = a]
<1>1. OldRow(s, e) = r2
  BY Zenon DEF OldRow
<1>2. r \in Row /\ o \in BOOLEAN /\ a \in BOOLEAN
  OBVIOUS
<1> HIDE DEF r, o, a
<1>3. r1 = [key |-> r.key, open |-> o, incident |-> r.incident, acked |-> r.acked, recurs |-> r.recurs]
  BY <1>2 DEF Row
<1> HIDE DEF r1
<1>4. r2 = [key |-> r.key, open |-> o, incident |-> r.incident, acked |-> a, recurs |-> r.recurs]
  BY <1>3
<1> QED  BY Zenon, <1>1, <1>4 DEF r, o, a

\* The rows a pass leaves: those of before, closed or acknowledged, and the inserted ones.
LEMMA RowsAre ==
  ASSUME Projected, NEW s, NEW over
  PROVE  /\ Len(event) \in Nat /\ Len(New(s, over)) \in Nat /\ DOMAIN event = 1..Len(event)
         /\ RowsAfter(s, over) \in Seq(Row) /\ DOMAIN RowsAfter(s, over) = 1..Len(event) + Len(New(s, over))
         /\ \A e \in 1..Len(event) : RowsAfter(s, over)[e] = OldRow(s, e)
         /\ \A n \in 1..Len(New(s, over)) : RowsAfter(s, over)[Len(event) + n] = NewRow(s, over, n)
<1> DEFINE old == Len(event)
           new == New(s, over)
           k == Len(new)
           A == [e \in 1..old |-> OldRow(s, e)]
           B == [n \in 1..k |-> NewRow(s, over, n)]
<1>1. old \in Nat /\ k \in Nat /\ DOMAIN event = 1..old /\ \A e \in 1..old : event[e] \in Row
  BY NewKeys DEF Projected
<1>2. \A e \in 1..old : OldRow(s, e) \in Row
  <2> SUFFICES ASSUME NEW e \in 1..old  PROVE OldRow(s, e) \in Row
    OBVIOUS
  <2>1. event[e] \in Row
    BY <1>1
  <2>2. OldRow(s, e) = [key |-> event[e].key, open |-> event[e].open /\ e \notin Resolved(s),
                        incident |-> event[e].incident, acked |-> event[e].acked \/ e \in Acknowledged,
                        recurs |-> event[e].recurs]
    BY <2>1, OldRowIs
  <2>3. (event[e].open /\ e \notin Resolved(s)) \in BOOLEAN /\ (event[e].acked \/ e \in Acknowledged) \in BOOLEAN
    OBVIOUS
  <2> QED  BY <2>1, <2>2, <2>3 DEF Row
<1>3. \A n \in 1..k : NewRow(s, over, n) \in Row
  <2> SUFFICES ASSUME NEW n \in 1..k  PROVE NewRow(s, over, n) \in Row
    OBVIOUS
  <2>1. old + n \in Inserts(s, over)
    <3>1. old + n \in old + 1..old + k
      <4> HIDE DEF old, k
      <4> QED  BY <1>1
    <3> QED  BY <3>1 DEF Inserts
  <2>2. HomeOf(s, over, old + n) \in Nat
    <3> HIDE DEF old
    <3> QED  BY <2>1, HomeIs
  <2>3. new[n] \in Conditions
    BY NewKeys
  <2>4. LastAbout(new[n]) \in Nat
    <3>1. About(new[n]) \cup {Nobody} \subseteq 0..old /\ About(new[n]) \cup {Nobody} # {}
      <4>1. About(new[n]) \subseteq 1..old
        BY <1>1 DEF About
      <4> HIDE DEF old, new
      <4> QED  BY <1>1, <4>1 DEF Nobody
    <3> DEFINE T == About(new[n]) \cup {Nobody}
    <3>2. Max(T) \in T
      <4> HIDE DEF T, old
      <4> QED  BY <1>1, <3>1, LargestIs DEF T
    <3>3. Max(T) \in 0..old
      <4> HIDE DEF T, old
      <4> QED  BY <3>1, <3>2 DEF T
    <3>4. LastAbout(new[n]) = Max(T)
      BY Zenon DEF LastAbout
    <3> HIDE DEF old, T
    <3> QED  BY <1>1, <3>3, <3>4
  <2>5. (new[n][1] = "material" /\ material[new[n][2]] = "deferred") \in BOOLEAN
    OBVIOUS
  <2> DEFINE home == HomeOf(s, over, old + n)
             last == LastAbout(new[n])
             acks == new[n][1] = "material" /\ material[new[n][2]] = "deferred"
  <2>6. NewRow(s, over, n) = [key |-> new[n], open |-> TRUE, incident |-> home, acked |-> acks, recurs |-> last]
    BY Zenon DEF NewRow
  <2>7. home \in Nat /\ last \in Nat /\ acks \in BOOLEAN
    BY <2>2, <2>4, <2>5
  <2> HIDE DEF home, last, acks, new
  <2> QED  BY <2>3, <2>6, <2>7 DEF Row
<1>4. A \in Seq(Row) /\ Len(A) = old /\ B \in Seq(Row) /\ Len(B) = k
  <2> HIDE DEF old, k
  <2> QED  BY <1>1, <1>2, <1>3
<1>5. RowsAfter(s, over) = A \o B
  BY Zenon DEF RowsAfter
<1>6. /\ \A e \in 1..old : A[e] = OldRow(s, e)
      /\ \A n \in 1..k : B[n] = NewRow(s, over, n)
  <2> HIDE DEF old, k
  <2> QED  OBVIOUS
<1>7. /\ A \o B \in Seq(Row) /\ Len(A \o B) = old + k /\ DOMAIN (A \o B) = 1..old + k
      /\ \A e \in 1..old : (A \o B)[e] = A[e]
      /\ \A n \in 1..k : (A \o B)[old + n] = B[n]
  <2> HIDE DEF A, B, old, k
  <2>1. A \o B \in Seq(Row) /\ Len(A \o B) = old + k
    BY <1>1, <1>4
  <2>2. \A e \in 1..old : (A \o B)[e] = A[e]
    BY <1>1, <1>4
  <2>3. \A n \in 1..k : (A \o B)[old + n] = B[n]
    BY <1>1, <1>4
  <2>4. DOMAIN (A \o B) = 1..Len(A \o B)
    BY <2>1
  <2> QED  BY <2>1, <2>2, <2>3, <2>4
<1> HIDE DEF A, B, old, k
<1>8. /\ RowsAfter(s, over) \in Seq(Row) /\ DOMAIN RowsAfter(s, over) = 1..old + k
      /\ \A e \in 1..old : RowsAfter(s, over)[e] = OldRow(s, e)
      /\ \A n \in 1..k : RowsAfter(s, over)[old + n] = NewRow(s, over, n)
  BY <1>5, <1>6, <1>7
<1> USE DEF old, k
<1> QED  BY <1>1, <1>8

\* The same, for an Event of before and for an inserted one.
LEMMA RowNumbers ==
  ASSUME Projected, NEW s, NEW over
  PROVE  /\ DOMAIN RowsAfter(s, over) = DOMAIN event \cup Inserts(s, over)
         /\ \A e \in DOMAIN event : \A f \in Inserts(s, over) : e \in Nat /\ f \in Nat /\ e < f /\ e # Nobody
<1> DEFINE old == Len(event)
           new == New(s, over)
           k == Len(new)
           rows == RowsAfter(s, over)
<1>1. /\ old \in Nat /\ k \in Nat /\ DOMAIN event = 1..old /\ DOMAIN rows = 1..old + k
      /\ \A e \in 1..old : rows[e] = OldRow(s, e)
      /\ \A n \in 1..k : rows[old + n] = NewRow(s, over, n)
  BY RowsAre
<1>2. Inserts(s, over) = old + 1..old + k
  BY Zenon DEF Inserts
<1>3. \A e \in DOMAIN event : \A f \in Inserts(s, over) : e \in Nat /\ f \in Nat /\ e < f /\ e # Nobody
  <2> HIDE DEF old, k
  <2> QED  BY <1>1, <1>2 DEF Nobody
<1>4. DOMAIN rows = DOMAIN event \cup Inserts(s, over)
  <2> HIDE DEF old, k, rows
  <2> QED  BY <1>1, <1>2
<1> QED  BY <1>3, <1>4

LEMMA OldFields ==
  ASSUME Projected, NEW s, NEW over, NEW e \in DOMAIN event
  PROVE  /\ RowsAfter(s, over)[e].key = event[e].key /\ RowsAfter(s, over)[e].incident = event[e].incident
         /\ RowsAfter(s, over)[e].recurs = event[e].recurs
         /\ RowsAfter(s, over)[e].open <=> event[e].open /\ e \notin Resolved(s)
         /\ RowsAfter(s, over)[e].acked <=> event[e].acked \/ e \in Acknowledged
<1> DEFINE old == Len(event)
           new == New(s, over)
           k == Len(new)
           rows == RowsAfter(s, over)
<1>1. /\ old \in Nat /\ k \in Nat /\ DOMAIN event = 1..old /\ DOMAIN rows = 1..old + k
      /\ \A i \in 1..old : rows[i] = OldRow(s, i)
  BY RowsAre
<1>2. rows[e] = OldRow(s, e)
  <2> HIDE DEF old, k, rows
  <2> QED  BY <1>1
<1>3. event[e] \in Row
  BY DEF Projected
<1> DEFINE r == event[e]
           o == r.open /\ e \notin Resolved(s)
           a == r.acked \/ e \in Acknowledged
<1>4. rows[e] = [key |-> r.key, open |-> o, incident |-> r.incident, acked |-> a, recurs |-> r.recurs]
  BY <1>2, <1>3, OldRowIs
<1>5. r \in Row /\ o \in BOOLEAN /\ a \in BOOLEAN
  BY <1>3
<1> HIDE DEF rows, r, o, a
<1>6. /\ rows[e].key = r.key /\ rows[e].incident = r.incident /\ rows[e].recurs = r.recurs
      /\ rows[e].open = o /\ rows[e].acked = a
  BY <1>4, <1>5 DEF Row
<1> USE DEF rows, r, o, a
<1> QED  BY <1>6

LEMMA NewFields ==
  ASSUME Projected, NEW s, NEW over, NEW e \in Inserts(s, over)
  PROVE  /\ RowsAfter(s, over)[e].key = KeyOf(s, over, e) /\ RowsAfter(s, over)[e].open
         /\ RowsAfter(s, over)[e].incident = HomeOf(s, over, e)
         /\ RowsAfter(s, over)[e].acked <=> KeyOf(s, over, e)[1] = "material"
                                       /\ material[KeyOf(s, over, e)[2]] = "deferred"
         /\ RowsAfter(s, over)[e].recurs = LastAbout(KeyOf(s, over, e))
<1> DEFINE old == Len(event)
           new == New(s, over)
           k == Len(new)
           rows == RowsAfter(s, over)
<1>1. /\ old \in Nat /\ k \in Nat /\ DOMAIN event = 1..old /\ DOMAIN rows = 1..old + k
      /\ \A h \in 1..old : rows[h] = OldRow(s, h)
      /\ \A m \in 1..k : rows[old + m] = NewRow(s, over, m)
  BY RowsAre
<1>2. Inserts(s, over) = old + 1..old + k
  BY Zenon DEF Inserts
<1> DEFINE n == e - old
<1>3. n \in 1..k /\ old + n = e
  <2> HIDE DEF old, k
  <2> QED  BY <1>1, <1>2 DEF n
<1>4. rows[e] = NewRow(s, over, n)
  <2> HIDE DEF old, k, rows, n
  <2> QED  BY <1>1, <1>3
<1>5. KeyOf(s, over, e) = new[n]
  BY Zenon DEF KeyOf
<1>6. rows[e] = [key |-> new[n], open |-> TRUE, incident |-> HomeOf(s, over, e),
                 acked |-> new[n][1] = "material" /\ material[new[n][2]] = "deferred",
                 recurs |-> LastAbout(new[n])]
  <2>1. NewRow(s, over, n) =
          [key |-> new[n], open |-> TRUE, incident |-> HomeOf(s, over, old + n),
           acked |-> new[n][1] = "material" /\ material[new[n][2]] = "deferred",
           recurs |-> LastAbout(new[n])]
    BY Zenon DEF NewRow
  <2> HIDE DEF old, k, rows, n, new
  <2> QED  BY <1>3, <1>4, <2>1
<1> DEFINE key == KeyOf(s, over, e)
           home == HomeOf(s, over, e)
           acks == key[1] = "material" /\ material[key[2]] = "deferred"
           last == LastAbout(key)
<1>7. rows[e] = [key |-> key, open |-> TRUE, incident |-> home, acked |-> acks, recurs |-> last]
  <2> HIDE DEF old, k, rows, n, new
  <2> QED  BY Zenon, <1>5, <1>6
<1> HIDE DEF rows, key, home, acks, last
<1>8. rows[e].key = key /\ rows[e].open /\ rows[e].incident = home /\ (rows[e].acked <=> acks)
      /\ rows[e].recurs = last
  BY <1>7
<1> USE DEF rows, key, home, acks, last
<1> QED  BY <1>8

LEMMA ConditionIs ==
  ASSUME NEW key \in Conditions
  PROVE  key = <<key[1], key[2]>> /\ key[2] \in Prints \cup {Nobody} /\ (key[1] = "hostFailed" => key[2] = Nobody)
         /\ (key[1] \in OpensOrLinksJob => key[2] \in Prints)
  BY DEF Conditions, JobKinds, PrinterKinds, Manual, LinksJob, OpensOrLinksJob

\* No key is inserted twice.
LEMMA KeysOnce ==
  ASSUME Projected, NEW s, NEW over
  PROVE  \A e, f \in Inserts(s, over) : KeyOf(s, over, e) = KeyOf(s, over, f) => e = f
<1> SUFFICES ASSUME NEW e \in Inserts(s, over), NEW f \in Inserts(s, over), KeyOf(s, over, e) = KeyOf(s, over, f)
             PROVE  e = f
  OBVIOUS
<1> DEFINE old == Len(event)
           new == New(s, over)
           m == e - old
           n == f - old
<1>1. m \in 1..Len(new) /\ n \in 1..Len(new) /\ e = old + m /\ f = old + n
  <2>1. old \in Nat /\ Len(new) \in Nat
    BY RowsAre
  <2>2. e \in old + 1..old + Len(new) /\ f \in old + 1..old + Len(new)
    BY DEF Inserts
  <2> HIDE DEF old, new
  <2> QED  BY <2>1, <2>2
<1>2. new[m] = new[n]
  BY Zenon DEF KeyOf
<1>3. m = n
  <2> HIDE DEF m, n, old
  <2> QED  BY <1>1, <1>2, NewKeys
<1> HIDE DEF m, n, old
<1> QED  BY <1>1, <1>3

\* Two ends of one Job are never inserted together.
LEMMA OneEnd ==
  ASSUME NEW s, NEW over, NEW key \in Inserted(s, over), NEW other \in Inserted(s, over),
         key[1] \in OpensOrLinksJob, other[1] \in OpensOrLinksJob, key[2] = other[2]
  PROVE  key = other
  BY DEF Inserted, Present, PrinterPresent, JobPresent, OpensOrLinksJob, Manual, LinksJob, PrinterKinds

LEMMA ApplyTyped ==
  ASSUME Projected, NEW s, NEW over, Apply(s, over)
  PROVE  /\ Projected'
         /\ DOMAIN event' = DOMAIN event \cup Inserts(s, over)
         /\ DOMAIN incident' = DOMAIN incident \cup Opened(s, over)
         /\ Opened(s, over) \subseteq Inserts(s, over)
<1> DEFINE rows == RowsAfter(s, over)
           D == DOMAIN incident \cup Opened(s, over)
<1>1. event' = rows /\ incident' = [i \in D |-> NextIncident(s, over, rows, i)]
  BY Zenon, ApplyIs
<1>2. rows \in Seq(Row) /\ DOMAIN rows = DOMAIN event \cup Inserts(s, over)
  BY RowsAre, RowNumbers
<1>3. Opened(s, over) \subseteq Inserts(s, over)
  BY DEF Opened
<1>4. \A i \in D : NextIncident(s, over, rows, i) \in IncidentRow
  <2> SUFFICES ASSUME NEW i \in D  PROVE NextIncident(s, over, rows, i) \in IncidentRow
    OBVIOUS
  <2> DEFINE j == IF i \in Opened(s, over) THEN KeyOf(s, over, i)[2] ELSE incident[i].job
             o == /\ i \in LinkedBy(s, over) \/ incident[i].open
                  /\ i \in Touched(s, over) => Unsettled(rows, i)
  <2>1. j \in Prints \cup {Nobody}
    <3>1. CASE i \in Opened(s, over)
      <4>1. KeyOf(s, over, i) \in Conditions
        BY <1>3, <3>1, HomeIs
      <4> QED  BY <3>1, <4>1, ConditionIs
    <3>2. CASE i \notin Opened(s, over)
      BY <3>2 DEF Projected, IncidentRow
    <3> QED  BY <3>1, <3>2
  <2>2. o \in BOOLEAN
    OBVIOUS
  <2>3. NextIncident(s, over, rows, i) = [job |-> j, open |-> o]
    BY Zenon DEF NextIncident
  <2> HIDE DEF j, o
  <2> QED  BY <2>1, <2>2, <2>3 DEF IncidentRow
<1> HIDE DEF rows
<1> QED  BY <1>1, <1>2, <1>3, <1>4 DEF Projected

LEMMA ApplyFollows ==
  ASSUME Projected, IncidentsFollow, NEW s, NEW over, Apply(s, over)
  PROVE  IncidentsFollow'
<1> DEFINE rows == RowsAfter(s, over)
           I == Inserts(s, over)
           O == Opened(s, over)
           L == LinkedBy(s, over)
           T == Touched(s, over)
           Key(e) == KeyOf(s, over, e)
           Home(e) == HomeOf(s, over, e)
<1>1. /\ event' = rows /\ DOMAIN incident' = DOMAIN incident \cup O
      /\ \A i \in DOMAIN incident \cup O :
           /\ incident'[i].job = IF i \in O THEN Key(i)[2] ELSE incident[i].job
           /\ incident'[i].open <=> /\ i \in L \/ incident[i].open
                                    /\ i \in T => Unsettled(rows, i)
  <2> DEFINE F == [i \in DOMAIN incident \cup O |-> NextIncident(s, over, rows, i)]
  <2>1. event' = rows /\ incident' = F
    BY Zenon, ApplyIs
  <2>2. DOMAIN F = DOMAIN incident \cup O /\ \A i \in DOMAIN incident \cup O : F[i] = NextIncident(s, over, rows, i)
    <3> HIDE DEF O, rows
    <3> QED  OBVIOUS
  <2>3. ASSUME NEW i
        PROVE  /\ NextIncident(s, over, rows, i).job = IF i \in O THEN Key(i)[2] ELSE incident[i].job
               /\ NextIncident(s, over, rows, i).open <=> /\ i \in L \/ incident[i].open
                                                          /\ i \in T => Unsettled(rows, i)
    BY DEF NextIncident
  <2> HIDE DEF F, rows, O, L, T
  <2> QED  BY <2>1, <2>2, <2>3
<1>2. /\ DOMAIN rows = DOMAIN event \cup I
      /\ \A e \in DOMAIN event : \A f \in I : e < f /\ e # Nobody
      /\ \A e \in DOMAIN event :
           /\ rows[e].key = event[e].key /\ rows[e].incident = event[e].incident
           /\ rows[e].open <=> event[e].open /\ e \notin Resolved(s)
      /\ \A e \in I : rows[e].key = Key(e) /\ rows[e].open /\ rows[e].incident = Home(e)
  <2>1. /\ DOMAIN RowsAfter(s, over) = DOMAIN event \cup Inserts(s, over)
        /\ \A e \in DOMAIN event : \A f \in Inserts(s, over) : e \in Nat /\ f \in Nat /\ e < f /\ e # Nobody
    BY RowNumbers
  <2>2. \A e \in DOMAIN event :
          /\ RowsAfter(s, over)[e].key = event[e].key /\ RowsAfter(s, over)[e].incident = event[e].incident
          /\ RowsAfter(s, over)[e].recurs = event[e].recurs
          /\ RowsAfter(s, over)[e].open <=> event[e].open /\ e \notin Resolved(s)
    BY OldFields
  <2>3. \A e \in Inserts(s, over) :
          /\ RowsAfter(s, over)[e].key = KeyOf(s, over, e) /\ RowsAfter(s, over)[e].open
          /\ RowsAfter(s, over)[e].incident = HomeOf(s, over, e)
          /\ RowsAfter(s, over)[e].recurs = LastAbout(KeyOf(s, over, e))
    BY NewFields
  <2> QED  BY <2>1, <2>2, <2>3
<1>3. O \subseteq I /\ DOMAIN incident \subseteq DOMAIN event /\ DOMAIN incident \cap O = {}
  <2>1. O \subseteq I
    BY DEF Opened
  <2>2. DOMAIN event \cap I = {}
    <3> SUFFICES ASSUME NEW e \in DOMAIN event, e \in I  PROVE FALSE
      OBVIOUS
    <3>1. e \in Nat /\ e < e
      BY RowNumbers
    <3> QED  BY <3>1
  <2> HIDE DEF O, I
  <2> QED  BY <2>1, <2>2 DEF Projected
<1>4. \A e \in I : /\ Key(e) \in Conditions /\ Key(e) \in Inserted(s, over)
                   /\ e \in O => Home(e) = e
                   /\ Home(e) # Nobody => \/ Home(e) \in IncidentOf(Key(e)[2])
                                          \/ Home(e) \in O /\ Key(Home(e))[2] = Key(e)[2]
                   /\ Key(e)[1] \in OpensOrLinksJob \cup {"hostFailed"} => Home(e) # Nobody
  BY HomeIs
<1>5. L = {Home(e) : e \in I} /\ T = L \cup {event[e].incident : e \in Resolved(s) \cup Acknowledged}
  BY Zenon DEF LinkedBy, Touched
<1>6. Resolved(s) \subseteq DOMAIN event
  BY DEF Resolved, OpenEvents
<1>7. \A e \in O : Key(e)[1] = "hostFailed" \/ (Key(e)[1] \in OpensOrLinksJob /\ IncidentOf(Key(e)[2]) = {})
  BY DEF Opened, OpensIncident
<1>8. \A e, f \in I : Key(e) = Key(f) => e = f
  BY KeysOnce
<1>9. /\ \A i \in DOMAIN incident : incident[i].open <=> Unsettled(event, i)
      /\ \A i, k \in DOMAIN incident : incident[i].job = incident[k].job /\ incident[i].job # Nobody => i = k
      /\ \A e \in DOMAIN event :
           /\ event[e].key[1] \in OpensOrLinksJob \cup {"hostFailed"} => event[e].incident # Nobody
           /\ event[e].incident # Nobody => /\ event[e].incident \in DOMAIN incident
                                            /\ incident[event[e].incident].job = event[e].key[2]
  BY Zenon DEF IncidentsFollow
<1> HIDE DEF rows, I, O, L, T
<1>10. ASSUME NEW i \in DOMAIN incident'  PROVE incident'[i].open <=> Unsettled(event', i)
  <2>1. i \in DOMAIN incident \cup O
    BY <1>1
  <2>2. CASE i \notin T
    <3>1. i \notin L /\ i \in DOMAIN incident
      BY <1>3, <1>4, <1>5, <2>1, <2>2
    <3>2. incident'[i].open <=> incident[i].open
      BY <1>1, <2>1, <2>2, <3>1
    <3>3. \A e \in DOMAIN rows : rows[e].incident = i => e \in DOMAIN event /\ (rows[e].open <=> event[e].open)
      BY <1>2, <1>5, <2>2, <3>1
    <3>4. Unsettled(rows, i) <=> Unsettled(event, i)
      BY <1>2, <3>3 DEF Unsettled
    <3> QED  BY <1>1, <1>9, <3>1, <3>2, <3>4
  <2>3. CASE i \in T
    <3>1. incident'[i].open <=> (i \in L \/ incident[i].open) /\ Unsettled(rows, i)
      BY <1>1, <2>1, <2>3
    <3>2. ASSUME Unsettled(rows, i)  PROVE i \in L \/ incident[i].open
      <4>1. PICK e \in DOMAIN rows : rows[e].incident = i /\ rows[e].open /\ rows[e].key[1] \notin Informs
        BY <3>2 DEF Unsettled
      <4>2. CASE e \in I
        BY <1>2, <1>5, <4>1, <4>2
      <4>3. CASE e \in DOMAIN event
        <5>1. Unsettled(event, i)
          BY <1>2, <4>1, <4>3 DEF Unsettled
        <5>2. CASE i \in O
          BY <1>3, <1>4, <1>5, <5>2
        <5>3. CASE i \in DOMAIN incident
          BY <1>9, <5>1, <5>3
        <5> QED  BY <2>1, <5>2, <5>3
      <4> QED  BY <1>2, <4>1, <4>2, <4>3
    <3> QED  BY <1>1, <3>1, <3>2
  <2> QED  BY <2>2, <2>3
<1>11. ASSUME NEW i \in DOMAIN incident', NEW k \in DOMAIN incident',
              incident'[i].job = incident'[k].job, incident'[i].job # Nobody
       PROVE  i = k
  <2>1. \A h \in O : incident'[h].job = Key(h)[2] /\ h \in I
    BY <1>1, <1>3
  <2>2. \A h \in O : incident'[h].job # Nobody => Key(h)[1] \in OpensOrLinksJob /\ IncidentOf(Key(h)[2]) = {}
    <3> SUFFICES ASSUME NEW h \in O, incident'[h].job # Nobody
                 PROVE  Key(h)[1] \in OpensOrLinksJob /\ IncidentOf(Key(h)[2]) = {}
      OBVIOUS
    <3> DEFINE key == Key(h)
    <3>1. key \in Conditions /\ key[2] # Nobody
      BY <1>4, <2>1
    <3>2. key[1] # "hostFailed"
      <4> HIDE DEF key
      <4> QED  BY <3>1, ConditionIs
    <3> QED  BY <1>7, <3>2
  <2>3. \A h \in DOMAIN incident : h \notin O /\ incident'[h].job = incident[h].job
    BY <1>1, <1>3
  <2>4. CASE i \in O /\ k \in O
    <3> DEFINE key == Key(i)
               other == Key(k)
    <3>1. /\ key \in Inserted(s, over) /\ other \in Inserted(s, over)
          /\ key[1] \in OpensOrLinksJob /\ other[1] \in OpensOrLinksJob /\ key[2] = other[2]
      BY <1>4, <1>11, <2>1, <2>2, <2>4
    <3>2. key = other
      <4> HIDE DEF key, other
      <4> QED  BY <3>1, OneEnd
    <3> QED  BY <1>3, <1>8, <2>4, <3>2
  <2>5. CASE i \in O /\ k \in DOMAIN incident
    <3>1. IncidentOf(Key(i)[2]) = {} /\ incident[k].job = Key(i)[2]
      BY <1>11, <2>1, <2>2, <2>3, <2>5
    <3> QED  BY <2>5, <3>1 DEF IncidentOf
  <2>6. CASE k \in O /\ i \in DOMAIN incident
    <3>1. IncidentOf(Key(k)[2]) = {} /\ incident[i].job = Key(k)[2]
      BY <1>11, <2>1, <2>2, <2>3, <2>6
    <3> QED  BY <2>6, <3>1 DEF IncidentOf
  <2>7. CASE i \in DOMAIN incident /\ k \in DOMAIN incident
    BY <1>9, <1>11, <2>3, <2>7
  <2> QED  BY <1>1, <1>11, <2>4, <2>5, <2>6, <2>7
<1>12. ASSUME NEW e \in DOMAIN event'
       PROVE  /\ event'[e].key[1] \in OpensOrLinksJob \cup {"hostFailed"} => event'[e].incident # Nobody
              /\ event'[e].incident # Nobody => /\ event'[e].incident \in DOMAIN incident'
                                                /\ incident'[event'[e].incident].job = event'[e].key[2]
  <2>1. e \in DOMAIN event \cup I
    BY <1>1, <1>2
  <2>2. CASE e \in DOMAIN event
    <3>1. event'[e].key = event[e].key /\ event'[e].incident = event[e].incident
      BY <1>1, <1>2, <2>2
    <3>2. \A h \in DOMAIN incident : h \in DOMAIN incident' /\ incident'[h].job = incident[h].job
      BY <1>1, <1>3
    <3> QED  BY <1>9, <2>2, <3>1, <3>2
  <2>3. CASE e \in I
    <3> DEFINE h == Home(e)
               j == Key(e)[2]
    <3>1. event'[e].key = Key(e) /\ event'[e].incident = h
      BY <1>1, <1>2, <2>3
    <3>2. h # Nobody => h \in IncidentOf(j) \/ (h \in O /\ Key(h)[2] = j)
      BY <1>4, <2>3
    <3>3. h \in IncidentOf(j) => h \in DOMAIN incident' /\ incident'[h].job = j
      <4> HIDE DEF h, j
      <4> QED  BY <1>1, <1>3 DEF IncidentOf
    <3>4. h \in O => h \in DOMAIN incident' /\ incident'[h].job = Key(h)[2]
      <4> HIDE DEF h, j
      <4> QED  BY <1>1
    <3>5. Key(e)[1] \in OpensOrLinksJob \cup {"hostFailed"} => h # Nobody
      BY <1>4, <2>3
    <3> HIDE DEF h
    <3> QED  BY <3>1, <3>2, <3>3, <3>4, <3>5
  <2> QED  BY <2>1, <2>2, <2>3
<1> QED  BY <1>10, <1>11, <1>12 DEF IncidentsFollow

LEMMA ApplyRaisesOnce ==
  ASSUME Projected, RaisedOnce, NEW s, NEW over, Apply(s, over)
  PROVE  RaisedOnce'
<1> DEFINE rows == RowsAfter(s, over)
           I == Inserts(s, over)
           Key(e) == KeyOf(s, over, e)
<1>1. event' = rows
  BY Zenon, ApplyIs
<1>2. /\ DOMAIN rows = DOMAIN event \cup I
      /\ \A e \in DOMAIN event : \A f \in I : e \in Nat /\ f \in Nat /\ e < f /\ e # Nobody
      /\ \A e \in DOMAIN event :
           /\ rows[e].key = event[e].key /\ rows[e].recurs = event[e].recurs
           /\ rows[e].open <=> event[e].open /\ e \notin Resolved(s)
      /\ \A e \in I : rows[e].key = Key(e) /\ rows[e].recurs = LastAbout(Key(e))
  <2>1. /\ DOMAIN RowsAfter(s, over) = DOMAIN event \cup Inserts(s, over)
        /\ \A e \in DOMAIN event : \A f \in Inserts(s, over) : e \in Nat /\ f \in Nat /\ e < f /\ e # Nobody
    BY RowNumbers
  <2>2. \A e \in DOMAIN event :
          /\ RowsAfter(s, over)[e].key = event[e].key /\ RowsAfter(s, over)[e].incident = event[e].incident
          /\ RowsAfter(s, over)[e].recurs = event[e].recurs
          /\ RowsAfter(s, over)[e].open <=> event[e].open /\ e \notin Resolved(s)
    BY OldFields
  <2>3. \A e \in Inserts(s, over) :
          /\ RowsAfter(s, over)[e].key = KeyOf(s, over, e) /\ RowsAfter(s, over)[e].open
          /\ RowsAfter(s, over)[e].incident = HomeOf(s, over, e)
          /\ RowsAfter(s, over)[e].recurs = LastAbout(KeyOf(s, over, e))
    BY NewFields
  <2> QED  BY <2>1, <2>2, <2>3
<1>3. \A e \in I : Key(e) \in Inserted(s, over)
  BY HomeIs
<1>4. \A e, f \in I : Key(e) = Key(f) => e = f
  BY KeysOnce
<1>5. \A e, f \in DOMAIN event : e < f /\ event[e].key = event[f].key =>
        /\ ~event[e].open /\ event[e].key[1] \in Recurring
        /\ event[f].recurs # Nobody /\ event[f].recurs >= e
  BY Zenon DEF RaisedOnce
<1>6. SUFFICES ASSUME NEW e \in DOMAIN rows, NEW f \in DOMAIN rows, e < f, rows[e].key = rows[f].key
               PROVE  /\ ~rows[e].open /\ rows[e].key[1] \in Recurring
                      /\ rows[f].recurs # Nobody /\ rows[f].recurs >= e
  BY Zenon, <1>1 DEF RaisedOnce
<1>7. \A g \in DOMAIN rows : g \in Nat
  BY RowsAre
<1> HIDE DEF rows, I
<1>8. CASE e \in DOMAIN event /\ f \in DOMAIN event
  BY <1>2, <1>5, <1>6, <1>8
<1>9. CASE e \in DOMAIN event /\ f \in I
  <2> DEFINE key == Key(f)
             past == About(key)
  <2>1. event[e].key = key /\ key \in Inserted(s, over)
    BY <1>2, <1>3, <1>6, <1>9
  <2>2. e \in past /\ past \cap OpenEvents = {} /\ key[1] \in Recurring
    <3>1. e \in past
      BY <1>9, <2>1 DEF About
    <3>2. past \cap OpenEvents = {} /\ (key[1] \in Recurring \/ past = {})
      <4> HIDE DEF key
      <4> QED  BY <2>1 DEF Inserted
    <3> QED  BY <3>1, <3>2
  <2>3. ~event[e].open
    BY <1>9, <2>2 DEF OpenEvents
  <2> DEFINE T == past \cup {Nobody}
             old == Len(event)
  <2>4. T \subseteq 0..old /\ T # {} /\ old \in Nat
    <3>1. past \subseteq DOMAIN event /\ DOMAIN event = 1..old /\ old \in Nat
      BY RowsAre DEF About
    <3> HIDE DEF past, old, key
    <3> QED  BY <3>1 DEF Nobody
  <2>5. Max(T) \in T /\ \A y \in T : Max(T) >= y
    <3> HIDE DEF T, old
    <3> QED  BY <2>4, LargestIs
  <2>6. Max(T) >= e /\ e \in Nat /\ Max(T) \in Nat /\ e # Nobody
    <3>1. e \in T
      BY <2>2
    <3>2. e \in Nat /\ e # Nobody
      BY <1>2, <1>9
    <3>3. Max(T) \in T /\ Max(T) >= e
      BY Zenon, <2>5, <3>1
    <3> DEFINE m == Max(T)
    <3>4. m \in 0..old /\ m >= e
      BY Zenon, <2>4, <3>3
    <3> HIDE DEF m, T, old
    <3>5. m >= e /\ e \in Nat /\ m \in Nat
      BY <2>4, <3>2, <3>4
    <3> USE DEF m
    <3> QED  BY <3>2, <3>5
  <2>7. rows[f].recurs = Max(T)
    <3>1. rows[f].recurs = LastAbout(key)
      BY <1>2, <1>9
    <3>2. LastAbout(key) = Max(T)
      BY Zenon DEF LastAbout
    <3> HIDE DEF T, key
    <3> QED  BY <3>1, <3>2
  <2>8. Max(T) # Nobody
    <3> HIDE DEF T
    <3> QED  BY <2>6 DEF Nobody
  <2>9. ~rows[e].open /\ rows[e].key[1] \in Recurring
    BY <1>2, <1>9, <2>1, <2>2, <2>3
  <2> HIDE DEF T
  <2> QED  BY <2>6, <2>7, <2>8, <2>9
<1>10. CASE e \in I /\ f \in DOMAIN event
  <2>1. f < e /\ f \in Nat /\ e \in Nat
    BY <1>2, <1>10
  <2> QED  BY <1>6, <2>1
<1>11. CASE e \in I /\ f \in I
  <2>1. e = f
    BY <1>2, <1>4, <1>6, <1>11
  <2> QED  BY <1>6, <1>7, <2>1
<1> QED  BY <1>2, <1>6, <1>8, <1>9, <1>10, <1>11

LEMMA ApplyKeeps ==
  ASSUME Projected, Consistent, NEW s, NEW over, Apply(s, over)
  PROVE  Projected' /\ Consistent'
<1>1. Projected'
  BY ApplyTyped
<1>2. IncidentsFollow'
  BY ApplyFollows DEF Consistent
<1>3. RaisedOnce'
  BY ApplyRaisesOnce DEF Consistent
<1> QED  BY <1>1, <1>2, <1>3 DEF Consistent

(***************************************************************************)
(* What a command writes.                                                  *)
(***************************************************************************)
LEMMA AcknowledgeKeeps ==
  ASSUME Projected, Consistent, AcknowledgeEvent
  PROVE  Projected' /\ Consistent'
<1>1. PICK n \in OpenEvents : event' = [event EXCEPT ![n].acked = TRUE]
  BY DEF AcknowledgeEvent
<1>2. incident' = incident
  BY DEF AcknowledgeEvent
<1>3. n \in DOMAIN event /\ event[n] \in Row
  BY DEF OpenEvents, Projected
<1>4. event' \in Seq(Row) /\ DOMAIN event' = DOMAIN event
  <2>1. [event[n] EXCEPT !.acked = TRUE] \in Row
    BY <1>3 DEF Row
  <2> QED  BY <1>1, <1>3, <2>1 DEF Projected
<1>5. \A e \in DOMAIN event : /\ event'[e].key = event[e].key /\ event'[e].open = event[e].open
                              /\ event'[e].incident = event[e].incident /\ event'[e].recurs = event[e].recurs
  BY <1>1, <1>3 DEF Projected, Row
<1>6. Projected'
  BY <1>2, <1>4 DEF Projected
<1>7. IncidentsFollow'
  <2>1. \A i : Unsettled(event', i) <=> Unsettled(event, i)
    BY <1>4, <1>5 DEF Unsettled
  <2> QED  BY <1>2, <1>4, <1>5, <2>1 DEF Consistent, IncidentsFollow
<1>8. RaisedOnce'
  BY <1>4, <1>5 DEF Consistent, RaisedOnce
<1> QED  BY <1>6, <1>7, <1>8 DEF Consistent

LEMMA ResolveKeeps ==
  ASSUME Projected, Consistent, ResolveEvent
  PROVE  Projected' /\ Consistent'
<1>1. PICK n \in OpenEvents : /\ event' = [event EXCEPT ![n].open = FALSE]
                              /\ incident' = CloseIfSettled(event', event[n].incident)
  BY DEF ResolveEvent
<1> DEFINE h == event[n].incident
<1>2. n \in DOMAIN event /\ event[n] \in Row
  BY DEF OpenEvents, Projected
<1>3. event' \in Seq(Row) /\ DOMAIN event' = DOMAIN event
  <2>1. [event[n] EXCEPT !.open = FALSE] \in Row
    BY <1>2 DEF Row
  <2> QED  BY <1>1, <1>2, <2>1 DEF Projected
<1>4. \A e \in DOMAIN event : /\ event'[e].key = event[e].key
                              /\ event'[e].open = (event[e].open /\ e # n)
                              /\ event'[e].incident = event[e].incident /\ event'[e].recurs = event[e].recurs
  <2> SUFFICES ASSUME NEW e \in DOMAIN event
               PROVE  /\ event'[e].key = event[e].key
                      /\ event'[e].open = (event[e].open /\ e # n)
                      /\ event'[e].incident = event[e].incident /\ event'[e].recurs = event[e].recurs
    OBVIOUS
  <2>0. event[e] \in Row
    BY DEF Projected
  <2>1. event[e] \in Row /\ event[e].open \in BOOLEAN
    BY <2>0 DEF Row
  <2>2. event'[e] = IF e = n THEN [event[e] EXCEPT !.open = FALSE] ELSE event[e]
    BY <1>1, <1>2 DEF Projected
  <2>3. CASE e = n
    BY <2>1, <2>2, <2>3 DEF Row
  <2>4. CASE e # n
    BY <2>1, <2>2, <2>4
  <2> QED  BY <2>3, <2>4
<1>5. /\ DOMAIN incident' = DOMAIN incident
      /\ \A i \in DOMAIN incident :
           incident'[i] = IF i = h THEN [incident[i] EXCEPT !.open = @ /\ Unsettled(event', i)] ELSE incident[i]
  <2> HIDE DEF h
  <2>1. incident' = [i \in DOMAIN incident |->
                       IF i = h THEN [incident[i] EXCEPT !.open = @ /\ Unsettled(event', i)] ELSE incident[i]]
    BY <1>1 DEF CloseIfSettled, h
  <2> QED  BY <2>1
<1>6. \A i \in DOMAIN incident :
        /\ incident'[i] \in IncidentRow /\ incident'[i].job = incident[i].job
        /\ incident'[i].open = (incident[i].open /\ (i = h => Unsettled(event', i)))
  <2> SUFFICES ASSUME NEW i \in DOMAIN incident
               PROVE  /\ incident'[i] \in IncidentRow /\ incident'[i].job = incident[i].job
                      /\ incident'[i].open = (incident[i].open /\ (i = h => Unsettled(event', i)))
    OBVIOUS
  <2> DEFINE u == Unsettled(event', i)
  <2>1. incident[i] \in IncidentRow /\ u \in BOOLEAN
    BY DEF Projected, Unsettled
  <2>2. incident'[i] = IF i = h THEN [incident[i] EXCEPT !.open = @ /\ u] ELSE incident[i]
    BY <1>5
  <2> HIDE DEF u, h
  <2>3. /\ incident'[i] \in IncidentRow /\ incident'[i].job = incident[i].job
        /\ incident'[i].open = (incident[i].open /\ (i = h => u))
    BY <2>1, <2>2 DEF IncidentRow
  <2> QED  BY <2>3 DEF u
<1>7. Projected'
  <2>1. incident' \in [DOMAIN incident' -> IncidentRow]
    <3>1. incident' = [i \in DOMAIN incident' |-> incident'[i]]
      BY <1>1 DEF CloseIfSettled
    <3> QED  BY <1>5, <1>6, <3>1
  <2> QED  BY <1>3, <1>5, <2>1 DEF Projected
<1>8. IncidentsFollow'
  <2>1. \A i \in DOMAIN incident : Unsettled(event', i) => Unsettled(event, i)
    BY <1>3, <1>4 DEF Unsettled
  <2>2. \A i \in DOMAIN incident : i # h => (Unsettled(event', i) <=> Unsettled(event, i))
    BY <1>3, <1>4 DEF Unsettled
  <2>3. \A i \in DOMAIN incident : incident[i].open <=> Unsettled(event, i)
    BY DEF Consistent, IncidentsFollow
  <2>4. \A i \in DOMAIN incident' : incident'[i].open <=> Unsettled(event', i)
    <3> HIDE DEF h
    <3> QED  BY <1>5, <1>6, <2>1, <2>2, <2>3
  <2> HIDE DEF h
  <2>5. \A i, k \in DOMAIN incident' :
          incident'[i].job = incident'[k].job /\ incident'[i].job # Nobody => i = k
    BY <1>5, <1>6 DEF Consistent, IncidentsFollow
  <2>6. \A e \in DOMAIN event' :
          /\ event'[e].key[1] \in OpensOrLinksJob \cup {"hostFailed"} => event'[e].incident # Nobody
          /\ event'[e].incident # Nobody => /\ event'[e].incident \in DOMAIN incident'
                                            /\ incident'[event'[e].incident].job = event'[e].key[2]
    BY <1>3, <1>4, <1>5, <1>6 DEF Consistent, IncidentsFollow
  <2> QED  BY <2>4, <2>5, <2>6 DEF IncidentsFollow
<1>9. RaisedOnce'
  BY <1>3, <1>4 DEF Consistent, RaisedOnce
<1> QED  BY <1>7, <1>8, <1>9 DEF Consistent

LEMMA PrinterDeletionKeeps ==
  ASSUME Projected, Consistent, DeletePrinter
  PROVE  Projected' /\ Consistent'
<1>1. /\ event' = [e \in DOMAIN event |-> [event[e] EXCEPT !.open = FALSE]]
      /\ incident' = incident /\ incident = <<>>
  BY DEF DeletePrinter
<1>2. /\ DOMAIN event' = DOMAIN event
      /\ \A e \in DOMAIN event : event[e] \in Row /\ event'[e] = [event[e] EXCEPT !.open = FALSE]
  BY <1>1 DEF Projected
<1>3. \A e \in DOMAIN event : /\ event'[e] \in Row /\ event'[e].key = event[e].key /\ ~event'[e].open
                              /\ event'[e].incident = event[e].incident /\ event'[e].recurs = event[e].recurs
  BY <1>2 DEF Row
<1>4. event' \in Seq(Row)
  <2>1. Len(event) \in Nat /\ DOMAIN event = 1..Len(event)
    BY DEF Projected
  <2>2. event' = [e \in 1..Len(event) |-> event'[e]]
    BY <1>1, <2>1
  <2> QED  BY <1>2, <1>3, <2>1, <2>2
<1>5. Projected'
  BY <1>1, <1>2, <1>4 DEF Projected
<1>6. IncidentsFollow'
  <2>1. DOMAIN incident = {}
    BY <1>1
  <2> QED  BY <1>1, <1>2, <1>3, <2>1 DEF Consistent, IncidentsFollow
<1>7. RaisedOnce'
  BY <1>2, <1>3 DEF Consistent, RaisedOnce
<1> QED  BY <1>5, <1>6, <1>7 DEF Consistent

LEMMA ConsistentInit == AttentionInit => Projected /\ Consistent
<1> SUFFICES ASSUME AttentionInit  PROVE Projected /\ Consistent
  OBVIOUS
<1>1. event = <<>> /\ incident = <<>> /\ DOMAIN event = {} /\ DOMAIN incident = {}
  BY DEF AttentionInit
<1>2. event \in Seq(Row)
  BY <1>1
<1>3. incident \in [DOMAIN incident -> IncidentRow]
  BY <1>1
<1>4. Consistent
  BY <1>1 DEF Consistent, IncidentsFollow, RaisedOnce
<1> QED  BY <1>1, <1>2, <1>3, <1>4 DEF Projected

LEMMA ConsistentStep ==
  ASSUME Projected, Consistent, [AttentionNext]_attention
  PROVE  Projected' /\ Consistent'
<1>1. ASSUME UNCHANGED <<event, incident>>  PROVE Projected' /\ Consistent'
  BY <1>1 DEF Projected, Consistent, IncidentsFollow, RaisedOnce, Unsettled
<1>2. CASE JobChanges \/ StartRefused \/ MaterialChanges \/ StatusChanges \/ EditStartSafety \/ ArchiveOrUnarchive
           \/ Announce
  BY <1>1, <1>2 DEF JobChanges, StartRefused, MaterialChanges, StatusChanges, EditStartSafety, ArchiveOrUnarchive,
                    Announce, projection
<1>3. CASE DeletePrinter
  BY <1>3, PrinterDeletionKeeps
<1>4. CASE AcknowledgeEvent
  BY <1>4, AcknowledgeKeeps
<1>5. CASE ResolveEvent
  BY <1>5, ResolveKeeps
<1>6. CASE Drain \/ ReadStatus \/ PassFails \/ GraceEnds \/ Crash \/ StartProjector
  BY <1>1, <1>6 DEF Drain, ReadStatus, PassFails, GraceEnds, Crash, StartProjector, projection
<1>7. CASE RunPass
  <2> DEFINE s == proj.seen
             over == proj.late /\ watch = "over"
  <2>1. Apply(s, over)
    BY <1>7 DEF RunPass
  <2> HIDE DEF s, over
  <2> QED  BY <2>1, ApplyKeeps
<1>8. CASE Backfill
  <2>1. Apply(NoLive, FALSE)
    BY <1>8 DEF Backfill
  <2> QED  BY <2>1, ApplyKeeps
<1>9. CASE UNCHANGED attention
  BY <1>1, <1>9 DEF attention, projection
<1> QED  BY <1>2, <1>3, <1>4, <1>5, <1>6, <1>7, <1>8, <1>9 DEF AttentionNext, Projecting

\* However passes and commands interleave (observe.rs, plan.rs, projector.rs, commands.rs): an
\* Incident is open exactly while an Event in it asks for something, a Job has at most one, the
\* Events of its end are in it, no condition is raised twice, and one that is reported once per
\* source is never reported again.
THEOREM AttentionConsistent == AttentionSpec => []Consistent
<1>1. AttentionInit => Projected /\ Consistent
  BY ConsistentInit
<1>2. (Projected /\ Consistent) /\ [AttentionNext]_attention => (Projected /\ Consistent)'
  BY ConsistentStep
<1> QED  BY <1>1, <1>2, PTL DEF AttentionSpec

(***************************************************************************)
(* What quiet hours have told.                                             *)
(***************************************************************************)
Places == {"none", "assigned", "awaitingStart", "running", "outcomeUnknown"} \cup Ended
Statused == [reach : Reaches, op : {"unknown", "busy", "finished", "failed"}, file : Prints \cup {Nobody}]
Projector == [pc : {"down", "ready", "idle", "drained", "read"}, seen : Statused, late : BOOLEAN,
              armed : BOOLEAN, failed : BOOLEAN]

Observes ==
    /\ printJob \in [Prints -> Places]
    /\ material \in [Prints -> {"none", "pending", "deferred", "resolved"}]
    /\ live \in Statused /\ life \in {"active", "archived", "deleted"}
    /\ watch \in {"clear", "within", "over"} /\ proj \in Projector
    /\ unsaid \in BOOLEAN /\ woken \in BOOLEAN

\* What an Event says of its Job's past, and a resolved one of what cannot come back.
Past ==
    /\ \A j \in Prints : material[j] # "none" => printJob[j] \in Ended
    /\ \A e \in DOMAIN event : event[e].key[2] # Nobody => printJob[event[e].key[2]] # "none"
    /\ \A e \in DOMAIN event : event[e].key[1] = "outcomeUnknown" =>
         /\ printJob[event[e].key[2]] \in {"outcomeUnknown"} \cup Ended
         /\ ~event[e].open => printJob[event[e].key[2]] \in Ended
    /\ \A e \in DOMAIN event : event[e].key[1] = "material" =>
         /\ material[event[e].key[2]] # "none"
         /\ ~event[e].open => material[event[e].key[2]] = "resolved"
    /\ life = "deleted" => /\ \A e \in DOMAIN event : ~event[e].open
                           /\ \A j \in Prints : printJob[j] = "none"

\* A pass that nothing disturbs reads the status there is, and the deadline of a grace is armed.
Awake == woken \/ unsaid
Staged ==
    /\ proj.pc = "read" /\ ~Awake => proj.seen = live
    /\ proj.pc = "idle" /\ ~proj.failed /\ ~Awake /\ life = "active" /\ live.reach = "unreachable"
       /\ watch = "within" => proj.armed

Lit(key) == \E e \in DOMAIN event : event[e].key = key /\ event[e].open
Raised(key) == \E e \in DOMAIN event : event[e].key = key

LEMMA OpenIsLit ==
  ASSUME NEW k, NEW j
  PROVE  /\ IsOpen(k, j) <=> Lit(<<k, j>>)
         /\ Named(k, j) # {} <=> Raised(<<k, j>>)
  BY DEF IsOpen, Named, About, OpenEvents, Lit, Raised

\* What a pass sees of a Job's condition, and of a Printer's.
LEMMA JobSeen ==
  ASSUME NEW s, NEW over, NEW j \in Prints, NEW k \in JobKinds
  PROVE  /\ <<k, j>> \in Conditions
         /\ <<k, j>> \in Present(s, over) <=> InView(j) /\ <<k, j>> \in JobPresent(s, j)
         /\ <<k, j>> \in Absent(s) <=> InView(j) /\ <<k, j>> \in JobAbsent(s, j)
<1> DEFINE key == <<k, j>>
<1>1. key \in Conditions /\ k \notin PrinterKinds
  BY DEF Conditions, JobKinds, PrinterKinds, Manual, LinksJob
<1>2. key \notin PrinterPresent(s, over) /\ key \notin PrinterAbsent(s)
  BY <1>1 DEF PrinterPresent, PrinterAbsent
<1>3. \A i : key \in JobPresent(s, i) => i = j
  BY DEF JobPresent
<1>4. \A i : key \in JobAbsent(s, i) => i = j
  BY DEF JobAbsent
<1> HIDE DEF key
<1>5. key \in Present(s, over) <=> InView(j) /\ key \in JobPresent(s, j)
  BY <1>2, <1>3 DEF Present
<1>6. key \in Absent(s) <=> InView(j) /\ key \in JobAbsent(s, j)
  BY <1>2, <1>4 DEF Absent
<1> QED  BY <1>1, <1>5, <1>6 DEF key

LEMMA PrinterSeen ==
  ASSUME NEW s, NEW over, NEW k \in PrinterKinds
  PROVE  /\ <<k, Nobody>> \in Conditions
         /\ <<k, Nobody>> \in Present(s, over) <=> <<k, Nobody>> \in PrinterPresent(s, over)
         /\ <<k, Nobody>> \in Absent(s) <=> <<k, Nobody>> \in PrinterAbsent(s)
<1> DEFINE key == <<k, Nobody>>
<1>1. key \in Conditions /\ k \notin JobKinds
  BY DEF Conditions, JobKinds, PrinterKinds, Manual, LinksJob
<1>2. \A i : key \notin JobPresent(s, i) /\ key \notin JobAbsent(s, i)
  BY <1>1 DEF JobPresent, JobAbsent, JobKinds
<1> HIDE DEF key
<1>3. key \in Present(s, over) <=> key \in PrinterPresent(s, over)
  BY <1>2 DEF Present
<1>4. key \in Absent(s) <=> key \in PrinterAbsent(s)
  BY <1>2 DEF Absent
<1> QED  BY <1>1, <1>3, <1>4 DEF key

\* What is open or was ever raised about one condition after a pass.
LEMMA AppliedKey ==
  ASSUME Projected, NEW s, NEW over, Apply(s, over), NEW key \in Conditions
  PROVE  /\ Raised(key)' <=> Raised(key) \/ key \in Inserted(s, over)
         /\ Lit(key)' <=> \/ key \in Inserted(s, over)
                          \/ Lit(key) /\ (key \in Absent(s) => key[1] \in Manual)
         /\ \A e \in DOMAIN event' : event'[e].key = key =>
              \/ /\ e \in DOMAIN event /\ event[e].key = key
                 /\ event'[e].acked <=> event[e].acked \/ e \in Acknowledged
                 /\ event'[e].open <=> event[e].open /\ (key \in Absent(s) => key[1] \in Manual)
              \/ /\ e \in Inserts(s, over) /\ key \in Inserted(s, over) /\ event'[e].open
                 /\ event'[e].acked <=> key[1] = "material" /\ material[key[2]] = "deferred"
<1>1. event' = RowsAfter(s, over) /\ DOMAIN RowsAfter(s, over) = DOMAIN event \cup Inserts(s, over)
  BY ApplyIs, RowNumbers
<1>2. ASSUME NEW e \in DOMAIN event
      PROVE  /\ event'[e].key = event[e].key
             /\ event'[e].acked <=> event[e].acked \/ e \in Acknowledged
             /\ event'[e].open <=> event[e].open /\ (event[e].key \in Absent(s) => event[e].key[1] \in Manual)
  <2>1. /\ event'[e].key = event[e].key
        /\ event'[e].acked <=> event[e].acked \/ e \in Acknowledged
        /\ event'[e].open <=> event[e].open /\ e \notin Resolved(s)
    BY <1>1, OldFields
  <2>2. event[e].open => (e \in Resolved(s) <=> event[e].key \in Absent(s) /\ event[e].key[1] \notin Manual)
    BY DEF Resolved, OpenEvents
  <2> QED  BY <2>1, <2>2
<1>3. ASSUME NEW e \in Inserts(s, over)
      PROVE  /\ event'[e].key = KeyOf(s, over, e) /\ event'[e].open
             /\ KeyOf(s, over, e) \in Inserted(s, over)
             /\ event'[e].acked <=> KeyOf(s, over, e)[1] = "material"
                                    /\ material[KeyOf(s, over, e)[2]] = "deferred"
  <2>1. KeyOf(s, over, e) \in Inserted(s, over)
    BY HomeIs
  <2>2. /\ RowsAfter(s, over)[e].key = KeyOf(s, over, e) /\ RowsAfter(s, over)[e].open
        /\ RowsAfter(s, over)[e].acked <=> KeyOf(s, over, e)[1] = "material"
                                      /\ material[KeyOf(s, over, e)[2]] = "deferred"
    BY NewFields
  <2> QED  BY <1>1, <2>1, <2>2
<1>4. ASSUME key \in Inserted(s, over)
      PROVE  \E e \in Inserts(s, over) : KeyOf(s, over, e) = key
  <2> DEFINE new == New(s, over)
             old == Len(event)
  <2>1. PICK n \in 1..Len(new) : new[n] = key
    BY <1>4, NewKeys
  <2>2. old \in Nat /\ Len(new) \in Nat
    BY RowsAre
  <2>3. old + n \in old + 1..old + Len(new) /\ (old + n) - old = n
    <3> HIDE DEF old, new
    <3> QED  BY <2>1, <2>2
  <2>4. old + n \in Inserts(s, over)
    BY <2>3 DEF Inserts
  <2>5. KeyOf(s, over, old + n) = new[(old + n) - old]
    BY Zenon DEF KeyOf
  <2> HIDE DEF old, new
  <2> QED  BY <2>1, <2>3, <2>4, <2>5
<1>5. Raised(key)' <=> Raised(key) \/ key \in Inserted(s, over)
  <2>1. Raised(key)' <=> \E e \in DOMAIN event' : event'[e].key = key
    BY DEF Raised
  <2>2. DOMAIN event' = DOMAIN event \cup Inserts(s, over)
    BY <1>1
  <2> QED  BY <1>2, <1>3, <1>4, <2>1, <2>2 DEF Raised
<1>6. Lit(key)' <=> \/ key \in Inserted(s, over)
                    \/ Lit(key) /\ (key \in Absent(s) => key[1] \in Manual)
  <2>1. Lit(key)' <=> \E e \in DOMAIN event' : event'[e].key = key /\ event'[e].open
    BY DEF Lit
  <2>2. DOMAIN event' = DOMAIN event \cup Inserts(s, over)
    BY <1>1
  <2> QED  BY <1>2, <1>3, <1>4, <2>1, <2>2 DEF Lit
<1>7. ASSUME NEW e \in DOMAIN event', event'[e].key = key
      PROVE  \/ /\ e \in DOMAIN event /\ event[e].key = key
                /\ event'[e].acked <=> event[e].acked \/ e \in Acknowledged
                /\ event'[e].open <=> event[e].open /\ (key \in Absent(s) => key[1] \in Manual)
             \/ /\ e \in Inserts(s, over) /\ key \in Inserted(s, over) /\ event'[e].open
                /\ event'[e].acked <=> key[1] = "material" /\ material[key[2]] = "deferred"
  <2>1. DOMAIN event' = DOMAIN event \cup Inserts(s, over)
    BY <1>1
  <2>2. CASE e \in DOMAIN event
    BY <1>2, <1>7, <2>2
  <2>3. CASE e \in Inserts(s, over)
    BY <1>3, <1>7, <2>3
  <2> QED  BY <2>1, <2>2, <2>3
<1> QED  BY <1>5, <1>6, <1>7

LEMMA InsertedIs ==
  ASSUME NEW s, NEW over, NEW key
  PROVE  key \in Inserted(s, over) <=>
           key \in Present(s, over) /\ ~Lit(key) /\ (key[1] \in Recurring \/ ~Raised(key))
  BY DEF Inserted, Lit, Raised, About, OpenEvents

\* The parts of Reported.
JobTold(j) ==
    /\ printJob[j] = "failed" => Raised(<<"jobFailed", j>>)
    /\ printJob[j] = "hostCancelled" => Raised(<<"hostCancelled", j>>)
    /\ Lit(<<"outcomeUnknown", j>>) <=> printJob[j] = "outcomeUnknown"
    /\ Lit(<<"startConfirmation", j>>) <=> Confirms(j)
    /\ Lit(<<"material", j>>) <=> material[j] \in {"pending", "deferred"}
    /\ \A e \in DOMAIN event : event[e].key = <<"material", j>> /\ material[j] = "deferred" => event[e].acked
    /\ Lit(<<"jobCompleted", j>>) => printJob[j] = "completed" /\ j = Latest

PrinterTold ==
    /\ live.reach = "reachable" /\ live.op = "failed" /\ life = "active" =>
         Lit(<<"hostFailed", Nobody>>) \/ Covered(live)
    /\ live.reach = "unreachable" /\ watch = "over" /\ life = "active" => Lit(<<"offline", Nobody>>)
    /\ live.reach = "reachable" \/ life # "active" =>
         ~Lit(<<"offline", Nobody>>) /\ ~Lit(<<"connectionError", Nobody>>)

Quiet == proj.pc = "idle" /\ ~proj.failed /\ ~woken /\ ~unsaid
Told == (\A j \in Prints : JobTold(j)) /\ PrinterTold

LEMMA ReportedIs == Reported <=> (Quiet => Told)
<1>1. ASSUME NEW j \in Prints
      PROVE  JobTold(j) <=>
               /\ printJob[j] = "failed" => Named("jobFailed", j) # {}
               /\ printJob[j] = "hostCancelled" => Named("hostCancelled", j) # {}
               /\ IsOpen("outcomeUnknown", j) <=> printJob[j] = "outcomeUnknown"
               /\ IsOpen("startConfirmation", j) <=> Confirms(j)
               /\ IsOpen("material", j) <=> material[j] \in {"pending", "deferred"}
               /\ \A e \in Named("material", j) : material[j] = "deferred" => event[e].acked
               /\ IsOpen("jobCompleted", j) => printJob[j] = "completed" /\ j = Latest
  <2>1. \A k : (IsOpen(k, j) <=> Lit(<<k, j>>)) /\ (Named(k, j) # {} <=> Raised(<<k, j>>))
    BY OpenIsLit
  <2>2. (\A e \in Named("material", j) : material[j] = "deferred" => event[e].acked) <=>
        (\A e \in DOMAIN event : event[e].key = <<"material", j>> /\ material[j] = "deferred" => event[e].acked)
    BY DEF Named, About
  <2> QED  BY <2>1, <2>2 DEF JobTold
<1>2. PrinterTold <=>
        /\ live.reach = "reachable" /\ live.op = "failed" /\ life = "active" =>
             IsOpen("hostFailed", Nobody) \/ Covered(live)
        /\ live.reach = "unreachable" /\ watch = "over" /\ life = "active" => IsOpen("offline", Nobody)
        /\ live.reach = "reachable" \/ life # "active" =>
             ~IsOpen("offline", Nobody) /\ ~IsOpen("connectionError", Nobody)
  <2>1. \A k : IsOpen(k, Nobody) <=> Lit(<<k, Nobody>>)
    BY OpenIsLit
  <2> QED  BY <2>1 DEF PrinterTold
<1>3. Quiet <=> proj.pc = "idle" /\ ~proj.failed /\ ~woken /\ ~unsaid
  BY Zenon DEF Quiet
<1> QED  BY <1>1, <1>2, <1>3 DEF Reported, Told

\* A Job with an open Event is looked at.
LEMMA LitInView ==
  ASSUME Past, NEW j \in Prints, NEW k, Lit(<<k, j>>)
  PROVE  InView(j) /\ Raised(<<k, j>>)
<1>1. PICK e \in DOMAIN event : event[e].key = <<k, j>> /\ event[e].open
  BY DEF Lit
<1>2. j # Nobody /\ event[e].key[2] = j
  BY <1>1, AttentionAssumption DEF Nobody
<1>3. printJob[j] # "none"
  BY <1>1, <1>2 DEF Past
<1>4. \E f \in OpenEvents : event[f].key[2] = j
  BY <1>1, <1>2 DEF OpenEvents
<1> QED  BY <1>1, <1>3, <1>4 DEF InView, Raised

\* After a pass, a condition of a Job that people do not resolve is open exactly while it is
\* there, if what was resolved is not there any more.
LEMMA JobLit ==
  ASSUME Projected, Past, NEW s, NEW over, Apply(s, over), NEW j \in Prints, NEW k \in JobKinds \ Manual
  PROVE  /\ Lit(<<k, j>>)' => <<k, j>> \in JobPresent(s, j) \/ <<k, j>> \notin JobAbsent(s, j)
         /\ Lit(<<k, j>>)' => <<k, j>> \in JobPresent(s, j) \/ Raised(<<k, j>>)
         /\ /\ InView(j) /\ <<k, j>> \in JobPresent(s, j) /\ <<k, j>> \notin JobAbsent(s, j)
            /\ k \in Recurring \/ ~Raised(<<k, j>>) \/ Lit(<<k, j>>)
            => Lit(<<k, j>>)'
<1> DEFINE key == <<k, j>>
<1>1. /\ key \in Present(s, over) <=> InView(j) /\ key \in JobPresent(s, j)
      /\ key \in Absent(s) <=> InView(j) /\ key \in JobAbsent(s, j)
  BY JobSeen
<1>2. key[1] = k /\ k \notin Manual
  OBVIOUS
<1>3. Lit(key) => InView(j) /\ Raised(key)
  BY LitInView
<1>4. Lit(key)' <=> \/ key \in Inserted(s, over)
                    \/ Lit(key) /\ (key \in Absent(s) => key[1] \in Manual)
  <2>1. key \in Conditions
    BY JobSeen
  <2> HIDE DEF key
  <2> QED  BY <2>1, AppliedKey
<1>5. key \in Inserted(s, over) <=>
        key \in Present(s, over) /\ ~Lit(key) /\ (key[1] \in Recurring \/ ~Raised(key))
  <2> HIDE DEF key
  <2> QED  BY InsertedIs
<1> HIDE DEF key
<1>6. /\ Lit(key)' => key \in JobPresent(s, j) \/ key \notin JobAbsent(s, j)
      /\ Lit(key)' => key \in JobPresent(s, j) \/ Raised(key)
      /\ /\ InView(j) /\ key \in JobPresent(s, j) /\ key \notin JobAbsent(s, j)
         /\ k \in Recurring \/ ~Raised(key) \/ Lit(key)
         => Lit(key)'
  BY <1>1, <1>2, <1>3, <1>4, <1>5
<1> QED  BY Zenon, <1>6 DEF key

LEMMA PassTellsJob ==
  ASSUME Observes, Projected, Past, NEW s, NEW over, Apply(s, over),
         UNCHANGED <<printJob, material, life, safety>>, NEW j \in Prints
  PROVE  JobTold(j)'
<1> DEFINE here == printJob[j]
           owed == material[j]
<1>1. here' = here /\ owed' = owed
  OBVIOUS
<1>2. Latest' = Latest /\ (Confirms(j)' <=> Confirms(j))
  BY DEF Latest, Confirms, safety
<1>3. j # Nobody
  BY AttentionAssumption DEF Nobody
<1>4. ASSUME NEW k \in Manual,
             (k = "jobFailed" /\ here = "failed") \/ (k = "hostCancelled" /\ here = "hostCancelled")
      PROVE  Raised(<<k, j>>)'
  <2> DEFINE key == <<k, j>>
  <2>1. key \in Conditions /\ k \in JobKinds
    BY JobSeen DEF JobKinds
  <2>2. key \in Present(s, over) <=> InView(j) /\ key \in JobPresent(s, j)
    BY <2>1, JobSeen
  <2>3. key \in JobPresent(s, j)
    BY <1>4 DEF JobPresent
  <2>4. ~Raised(key) => InView(j)
    BY <1>4 DEF InView, Raised, About
  <2>5. ~Raised(key) => ~Lit(key)
    BY DEF Raised, Lit
  <2> HIDE DEF key
  <2>6. Raised(key)' <=> Raised(key) \/ key \in Inserted(s, over)
    BY <2>1, AppliedKey
  <2>7. key \in Inserted(s, over) <=>
          key \in Present(s, over) /\ ~Lit(key) /\ (key[1] \in Recurring \/ ~Raised(key))
    BY InsertedIs
  <2>8. Raised(key)'
    BY <2>2, <2>3, <2>4, <2>5, <2>6, <2>7
  <2> QED  BY Zenon, <2>8 DEF key
<1>5. (here = "failed" => Raised(<<"jobFailed", j>>)') /\ (here = "hostCancelled" => Raised(<<"hostCancelled", j>>)')
  BY <1>4 DEF Manual
<1>6. Lit(<<"outcomeUnknown", j>>)' <=> here = "outcomeUnknown"
  <2> DEFINE k == "outcomeUnknown"
             key == <<k, j>>
  <2>1. k \in JobKinds \ Manual
    BY DEF JobKinds, Manual
  <2>2. key \in JobPresent(s, j) <=> here = "outcomeUnknown"
    BY DEF JobPresent, Manual, LinksJob
  <2>3. key \in JobAbsent(s, j) <=> here # "outcomeUnknown"
    BY DEF JobAbsent, Manual, LinksJob
  <2>4. here = "outcomeUnknown" => InView(j)
    BY DEF InView, Ended
  <2>5. here = "outcomeUnknown" => ~Raised(key) \/ Lit(key)
    <3> SUFFICES ASSUME here = "outcomeUnknown", NEW e \in DOMAIN event, event[e].key = key  PROVE event[e].open
      BY DEF Raised, Lit
    <3>1. event[e].key[1] = "outcomeUnknown" /\ event[e].key[2] = j
      OBVIOUS
    <3>2. ~event[e].open => here \in Ended
      BY <3>1 DEF Past
    <3> QED  BY <3>2 DEF Ended
  <2>6. /\ Lit(key)' => key \in JobPresent(s, j) \/ key \notin JobAbsent(s, j)
        /\ /\ InView(j) /\ key \in JobPresent(s, j) /\ key \notin JobAbsent(s, j)
           /\ k \in Recurring \/ ~Raised(key) \/ Lit(key)
           => Lit(key)'
    BY <2>1, JobLit
  <2> QED  BY <2>2, <2>3, <2>4, <2>5, <2>6
<1>7. Lit(<<"startConfirmation", j>>)' <=> Confirms(j)
  <2> DEFINE k == "startConfirmation"
             key == <<k, j>>
  <2>1. k \in JobKinds \ Manual /\ k \in Recurring
    BY DEF JobKinds, Manual, LinksJob, Recurring
  <2>2. key \in JobPresent(s, j) <=> Confirms(j)
    BY DEF JobPresent, Manual, LinksJob
  <2>3. key \in JobAbsent(s, j) <=> ~Confirms(j)
    BY DEF JobAbsent, Manual, LinksJob
  <2>4. Confirms(j) => InView(j)
    BY DEF Confirms, InView, Ended
  <2>5. /\ Lit(key)' => key \in JobPresent(s, j) \/ key \notin JobAbsent(s, j)
        /\ /\ InView(j) /\ key \in JobPresent(s, j) /\ key \notin JobAbsent(s, j)
           /\ k \in Recurring \/ ~Raised(key) \/ Lit(key)
           => Lit(key)'
    BY <2>1, JobLit
  <2> QED  BY <2>1, <2>2, <2>3, <2>4, <2>5
<1>8. Lit(<<"material", j>>)' <=> owed \in {"pending", "deferred"}
  <2> DEFINE k == "material"
             key == <<k, j>>
  <2>1. k \in JobKinds \ Manual
    BY DEF JobKinds, Manual, LinksJob
  <2>2. key \in JobPresent(s, j) <=> owed \in {"pending", "deferred"}
    BY DEF JobPresent, Manual, LinksJob
  <2>3. key \in JobAbsent(s, j) <=> owed = "resolved"
    BY DEF JobAbsent, Manual, LinksJob
  <2>4. owed \in {"pending", "deferred"} => InView(j)
    BY DEF InView, Ended, Past
  <2>5. \A e \in DOMAIN event : event[e].key = key => owed # "none" /\ (~event[e].open => owed = "resolved")
    <3> SUFFICES ASSUME NEW e \in DOMAIN event, event[e].key = key
                 PROVE  owed # "none" /\ (~event[e].open => owed = "resolved")
      OBVIOUS
    <3>1. event[e].key[1] = "material" /\ event[e].key[2] = j
      OBVIOUS
    <3> QED  BY <3>1 DEF Past
  <2>6. owed \in {"pending", "deferred"} => ~Raised(key) \/ Lit(key)
    BY <2>5 DEF Raised, Lit
  <2>7. Raised(key) => owed # "none"
    BY <2>5 DEF Raised
  <2>8. /\ Lit(key)' => key \in JobPresent(s, j) \/ key \notin JobAbsent(s, j)
        /\ Lit(key)' => key \in JobPresent(s, j) \/ Raised(key)
        /\ /\ InView(j) /\ key \in JobPresent(s, j) /\ key \notin JobAbsent(s, j)
           /\ k \in Recurring \/ ~Raised(key) \/ Lit(key)
           => Lit(key)'
    BY <2>1, JobLit
  <2>9. owed \in {"none", "pending", "deferred", "resolved"}
    BY DEF Observes
  <2> HIDE DEF key, owed
  <2>10. Lit(key)' <=> owed \in {"pending", "deferred"}
    BY <2>2, <2>3, <2>4, <2>6, <2>7, <2>8, <2>9
  <2> QED  BY Zenon, <2>10 DEF key
<1>9. \A e \in DOMAIN event' : event'[e].key = <<"material", j>> /\ owed = "deferred" => event'[e].acked
  <2> DEFINE key == <<"material", j>>
  <2> SUFFICES ASSUME NEW e \in DOMAIN event', event'[e].key = key, owed = "deferred"  PROVE event'[e].acked
    OBVIOUS
  <2>1. key \in Conditions
    BY JobSeen DEF JobKinds, LinksJob
  <2>2. \/ /\ e \in DOMAIN event /\ event[e].key = key
           /\ event'[e].acked <=> event[e].acked \/ e \in Acknowledged
        \/ event'[e].acked <=> key[1] = "material" /\ material[key[2]] = "deferred"
    <3> HIDE DEF key
    <3> QED  BY <2>1, AppliedKey
  <2>3. CASE e \in DOMAIN event /\ event[e].key = key /\ (event'[e].acked <=> event[e].acked \/ e \in Acknowledged)
    <3>1. event[e].key[1] = "material" /\ event[e].key[2] = j
      BY <2>3
    <3>2. event[e].open
      BY <2>3, <3>1 DEF Past
    <3>3. event[e].acked \/ e \in Acknowledged
      BY <2>3, <3>1, <3>2 DEF Acknowledged, OpenEvents
    <3> QED  BY <2>3, <3>3
  <2> QED  BY <2>2, <2>3
<1>10. Lit(<<"jobCompleted", j>>)' => here = "completed" /\ j = Latest
  <2> DEFINE k == "jobCompleted"
             key == <<k, j>>
  <2>1. k \in JobKinds \ Manual
    BY DEF JobKinds, Manual, LinksJob
  <2>2. key \in JobPresent(s, j) => here = "completed" /\ j = Latest
    BY DEF JobPresent, Manual, LinksJob
  <2>3. here # "completed" \/ j # Latest => key \in JobAbsent(s, j)
    BY DEF JobAbsent, Manual, LinksJob
  <2>4. Lit(key)' => key \in JobPresent(s, j) \/ key \notin JobAbsent(s, j)
    BY <2>1, JobLit
  <2> QED  BY <2>2, <2>3, <2>4
<1>11. JobTold(j)' <=>
          /\ here = "failed" => Raised(<<"jobFailed", j>>)'
          /\ here = "hostCancelled" => Raised(<<"hostCancelled", j>>)'
          /\ Lit(<<"outcomeUnknown", j>>)' <=> here = "outcomeUnknown"
          /\ Lit(<<"startConfirmation", j>>)' <=> Confirms(j)
          /\ Lit(<<"material", j>>)' <=> owed \in {"pending", "deferred"}
          /\ \A e \in DOMAIN event' : event'[e].key = <<"material", j>> /\ owed = "deferred" => event'[e].acked
          /\ Lit(<<"jobCompleted", j>>)' => here = "completed" /\ j = Latest
  BY <1>1, <1>2 DEF JobTold
<1> QED  BY <1>5, <1>6, <1>7, <1>8, <1>9, <1>10, <1>11

LEMMA PrinterLit ==
  ASSUME Projected, NEW s, NEW over, Apply(s, over), NEW k \in PrinterKinds
  PROVE  /\ Lit(<<k, Nobody>>)' => \/ <<k, Nobody>> \in PrinterPresent(s, over)
                                   \/ Lit(<<k, Nobody>>) /\ <<k, Nobody>> \notin PrinterAbsent(s)
         /\ <<k, Nobody>> \in PrinterPresent(s, over) /\ <<k, Nobody>> \notin PrinterAbsent(s)
            => Lit(<<k, Nobody>>)'
<1> DEFINE key == <<k, Nobody>>
<1>1. /\ key \in Present(s, over) <=> key \in PrinterPresent(s, over)
      /\ key \in Absent(s) <=> key \in PrinterAbsent(s)
  BY PrinterSeen
<1>2. key[1] = k /\ k \notin Manual /\ k \in Recurring
  BY DEF PrinterKinds, Manual, Recurring
<1>3. key \in Conditions
  BY PrinterSeen
<1> HIDE DEF key
<1>4. Lit(key)' <=> \/ key \in Inserted(s, over)
                    \/ Lit(key) /\ (key \in Absent(s) => key[1] \in Manual)
  BY <1>3, AppliedKey
<1>5. key \in Inserted(s, over) <=>
        key \in Present(s, over) /\ ~Lit(key) /\ (key[1] \in Recurring \/ ~Raised(key))
  BY InsertedIs
<1>6. /\ Lit(key)' => \/ key \in PrinterPresent(s, over)
                      \/ Lit(key) /\ key \notin PrinterAbsent(s)
      /\ key \in PrinterPresent(s, over) /\ key \notin PrinterAbsent(s) => Lit(key)'
  BY <1>1, <1>2, <1>4, <1>5
<1> QED  BY Zenon, <1>6 DEF key

LEMMA PassTellsPrinter ==
  ASSUME Observes, Projected, Past, RunPass, ~woken', proj.seen = live
  PROVE  PrinterTold'
<1> DEFINE s == live
           over == proj.late /\ watch = "over"
           Key(k) == <<k, Nobody>>
<1>1. /\ Apply(s, over) /\ watch' = UpdateWatch(s) /\ ~(Waits(s, over) /\ watch' = "over")
      /\ UNCHANGED <<printJob, material, live, life>>
  BY DEF RunPass, inputs
<1>2. Covered(live)' <=> Covered(live)
  <2>1. Latest' = Latest
    BY <1>1 DEF Latest
  <2> QED  BY <1>1, <2>1 DEF Covered
<1>3. watch' = "over" => watch = "over"
  BY <1>1 DEF UpdateWatch
<1> HIDE DEF over
<1>4. \A k \in PrinterKinds :
        /\ Lit(Key(k))' => Key(k) \in PrinterPresent(s, over) \/ (Lit(Key(k)) /\ Key(k) \notin PrinterAbsent(s))
        /\ Key(k) \in PrinterPresent(s, over) /\ Key(k) \notin PrinterAbsent(s) => Lit(Key(k))'
  BY <1>1, PrinterLit
<1>5. ASSUME live.reach = "reachable", live.op = "failed", life = "active", ~Covered(live)
      PROVE  Lit(Key("hostFailed"))'
  <2>1. Key("hostFailed") \in PrinterPresent(s, over)
    BY <1>5 DEF PrinterPresent, PrinterKinds, Applicable
  <2>2. Key("hostFailed") \notin PrinterAbsent(s)
    BY <1>5 DEF PrinterAbsent
  <2> QED  BY <1>4, <2>1, <2>2 DEF PrinterKinds
<1>6. ASSUME live.reach = "unreachable", watch' = "over", life = "active"
      PROVE  Lit(Key("offline"))'
  <2>1. over
    BY <1>1, <1>6 DEF Waits, Applicable
  <2>2. Key("offline") \in PrinterPresent(s, over)
    BY <1>6, <2>1 DEF PrinterPresent, PrinterKinds, Applicable
  <2>3. Key("offline") \notin PrinterAbsent(s)
    BY <1>6 DEF PrinterAbsent
  <2> QED  BY <1>4, <2>2, <2>3 DEF PrinterKinds
<1>7. ASSUME live.reach = "reachable" \/ life # "active", NEW k \in {"offline", "connectionError"}
      PROVE  ~Lit(Key(k))'
  <2>1. k \in PrinterKinds
    BY DEF PrinterKinds
  <2>2. Key(k) \notin PrinterPresent(s, over)
    BY <1>7 DEF PrinterPresent, Applicable
  <2>3. CASE life = "deleted"
    <3>1. ~Lit(Key(k))
      BY <2>3 DEF Past, Lit
    <3> QED  BY <1>4, <2>1, <2>2, <3>1
  <2>4. CASE life # "deleted"
    <3>1. Key(k) \in PrinterAbsent(s)
      BY <1>7, <2>1, <2>4 DEF PrinterAbsent, Applicable, Observes
    <3> QED  BY <1>4, <2>1, <2>2, <3>1
  <2> QED  BY <2>3, <2>4
<1>8. live.reach = "reachable" \/ life # "active" => ~Lit(Key("offline"))' /\ ~Lit(Key("connectionError"))'
  BY <1>7
<1> QED  BY <1>1, <1>2, <1>5, <1>6, <1>8 DEF PrinterTold

(***************************************************************************)
(* The steps.                                                              *)
(***************************************************************************)
LEMMA ObservedStep ==
  ASSUME Observes, [AttentionNext]_attention
  PROVE  Observes'
<1>1. NoLive \in Statused /\ Idle \in Projector
  BY DEF NoLive, Idle, Statused, Projector, Reaches, Nobody
<1>2. CASE JobChanges
  <2>1. PICK j \in Prints, to \in Ended \cup {"assigned", "awaitingStart", "running", "outcomeUnknown"} :
          /\ JobMoves(j, to) /\ unsaid' \in BOOLEAN /\ UNCHANGED <<live, life, watch, proj, woken>>
    BY <1>2 DEF JobChanges, Observes
  <2>2. printJob' \in [Prints -> Places]
    BY <2>1 DEF JobMoves, Observes, Places
  <2>3. material' \in [Prints -> {"none", "pending", "deferred", "resolved"}]
    BY <2>1 DEF JobMoves, Observes
  <2> QED  BY <2>1, <2>2, <2>3 DEF Observes
<1>3. CASE MaterialChanges \/ StartRefused \/ EditStartSafety
  <2>1. material' \in [Prints -> {"none", "pending", "deferred", "resolved"}]
    BY <1>3 DEF MaterialChanges, StartRefused, EditStartSafety, Observes
  <2> QED  BY <1>3, <2>1 DEF MaterialChanges, StartRefused, EditStartSafety, Observes
<1>4. CASE StatusChanges
  <2>1. live' \in Statused
    BY <1>4 DEF StatusChanges, Statuses, Statused, Reaches, Nobody
  <2> QED  BY <1>4, <2>1 DEF StatusChanges, Observes
<1>5. CASE ArchiveOrUnarchive
  BY <1>1, <1>5 DEF ArchiveOrUnarchive, Observes
<1>6. CASE DeletePrinter
  BY <1>1, <1>6 DEF DeletePrinter, Observes
<1>7. CASE Announce
  BY <1>7 DEF Announce, Observes, inputs
<1>8. CASE AcknowledgeEvent \/ ResolveEvent
  BY <1>8 DEF AcknowledgeEvent, ResolveEvent, Observes, inputs
<1>9. CASE Drain
  <2>1. proj' \in Projector
    BY <1>9 DEF Drain, Observes, Projector
  <2> QED  BY <1>9, <2>1 DEF Drain, Observes, inputs
<1>10. CASE ReadStatus
  <2> DEFINE p1 == [proj EXCEPT !.pc = "read"]
             p2 == [p1 EXCEPT !.seen = live]
             p3 == [p2 EXCEPT !.late = (watch = "over")]
  <2>1. proj' = p3
    BY Zenon, <1>10 DEF ReadStatus
  <2>2. p1 \in Projector
    BY DEF Observes, Projector
  <2> HIDE DEF p1
  <2>3. p2 \in Projector
    BY <2>2 DEF Observes, Projector
  <2> HIDE DEF p2
  <2>4. p3 \in Projector
    BY <2>3 DEF Projector
  <2> HIDE DEF p3
  <2> QED  BY <1>10, <2>1, <2>4 DEF ReadStatus, Observes, inputs
<1>11. ASSUME NEW s  PROVE UpdateWatch(s) \in {"clear", "within", "over"}
  BY DEF UpdateWatch, Observes
<1>12. CASE RunPass
  <2> DEFINE over == proj.late /\ watch = "over"
             w == Waits(proj.seen, over)
  <2>1. w \in BOOLEAN
    BY DEF Waits
  <2>2. proj' = [Idle EXCEPT !.armed = w] /\ watch' = UpdateWatch(proj.seen)
        /\ woken' = (woken \/ (w /\ watch' = "over")) /\ UNCHANGED <<printJob, material, live, life, unsaid>>
    BY <1>12 DEF RunPass, inputs
  <2> HIDE DEF w
  <2>3. proj' \in Projector
    BY <1>1, <2>1, <2>2 DEF Projector
  <2>4. woken' \in BOOLEAN
    BY <2>2
  <2> QED  BY <1>11, <2>2, <2>3, <2>4 DEF Observes
<1>13. CASE PassFails
  <2> DEFINE p1 == [proj EXCEPT !.pc = "idle"]
             p2 == [p1 EXCEPT !.failed = TRUE]
  <2>1. proj' = p2
    BY Zenon, <1>13 DEF PassFails
  <2>2. p1 \in Projector
    BY DEF Observes, Projector
  <2> HIDE DEF p1
  <2>3. p2 \in Projector
    BY <2>2 DEF Projector
  <2> HIDE DEF p2
  <2> QED  BY <1>11, <1>13, <2>1, <2>3 DEF PassFails, Observes, inputs
<1>14. CASE GraceEnds
  <2>1. proj' \in Projector
    BY <1>14 DEF GraceEnds, Observes, Projector
  <2>2. woken' \in BOOLEAN
    BY <1>14 DEF GraceEnds
  <2> QED  BY <1>14, <2>1, <2>2 DEF GraceEnds, Observes, inputs
<1>15. CASE Crash
  <2>1. proj' \in Projector
    BY <1>1, <1>15 DEF Crash, Projector
  <2> QED  BY <1>1, <1>15, <2>1 DEF Crash, Observes
<1>16. CASE Backfill
  <2>1. proj' \in Projector
    BY <1>16 DEF Backfill, Observes, Projector
  <2> QED  BY <1>16, <2>1 DEF Backfill, Observes, inputs
<1>17. CASE StartProjector
  <2>1. proj' \in Projector
    BY <1>17 DEF StartProjector, Observes, Projector
  <2> QED  BY <1>17, <2>1 DEF StartProjector, Observes, inputs
<1>18. CASE UNCHANGED attention
  BY <1>18 DEF attention, inputs, Observes
<1> QED  BY <1>2, <1>3, <1>4, <1>5, <1>6, <1>7, <1>8, <1>9, <1>10, <1>12, <1>13, <1>14, <1>15, <1>16, <1>17, <1>18
         DEF AttentionNext, Projecting

LEMMA CommandRows ==
  ASSUME Projected, AcknowledgeEvent \/ ResolveEvent
  PROVE  /\ DOMAIN event' = DOMAIN event
         /\ \A e \in DOMAIN event : /\ event'[e].key = event[e].key
                                    /\ event'[e].open => event[e].open
                                    /\ event[e].open => event'[e].open \/ event[e].key[1] \in Manual
                                    /\ event[e].acked => event'[e].acked
<1>1. CASE AcknowledgeEvent
  <2>1. PICK n \in OpenEvents : event' = [event EXCEPT ![n].acked = TRUE]
    BY <1>1 DEF AcknowledgeEvent
  <2>2. n \in DOMAIN event /\ \A e \in DOMAIN event : event[e] \in Row
    BY DEF OpenEvents, Projected
  <2>3. DOMAIN event' = DOMAIN event /\ \A e \in DOMAIN event :
          event'[e] = IF e = n THEN [event[e] EXCEPT !.acked = TRUE] ELSE event[e]
    BY <2>1, <2>2 DEF Projected
  <2>4. ASSUME NEW e \in DOMAIN event
        PROVE  /\ event'[e].key = event[e].key /\ event'[e].open = event[e].open
               /\ event[e].acked => event'[e].acked
    <3>1. event[e] \in Row
      BY <2>2
    <3>2. CASE e = n
      <4>1. event'[e] = [event[e] EXCEPT !.acked = TRUE]
        BY <2>3, <3>2
      <4> QED  BY <3>1, <4>1 DEF Row
    <3>3. CASE e # n
      BY <2>3, <3>3
    <3> QED  BY <3>2, <3>3
  <2> QED  BY <2>3, <2>4
<1>2. CASE ResolveEvent
  <2>1. PICK n \in OpenEvents : event[n].key[1] \in Manual /\ event' = [event EXCEPT ![n].open = FALSE]
    BY <1>2 DEF ResolveEvent
  <2>2. n \in DOMAIN event /\ \A e \in DOMAIN event : event[e] \in Row
    BY DEF OpenEvents, Projected
  <2>3. DOMAIN event' = DOMAIN event /\ \A e \in DOMAIN event :
          event'[e] = IF e = n THEN [event[e] EXCEPT !.open = FALSE] ELSE event[e]
    BY <2>1, <2>2 DEF Projected
  <2>4. \A r \in Row : LET q == [r EXCEPT !.open = FALSE] IN q.key = r.key /\ ~q.open /\ q.acked = r.acked
    BY DEF Row
  <2> QED  BY <2>1, <2>2, <2>3, <2>4
<1> QED  BY <1>1, <1>2

LEMMA PastAfterPass ==
  ASSUME Observes, Projected, Past, NEW s, NEW over, Apply(s, over), UNCHANGED <<printJob, material, life>>
  PROVE  Past'
<1>1. \A e \in DOMAIN event' : event'[e].key \in Conditions
  <2>1. event' \in Seq(Row)
    BY ApplyTyped DEF Projected
  <2>2. \A e \in DOMAIN event' : event'[e] \in Row
    BY <2>1
  <2> QED  BY <2>2 DEF Row
<1>2. ASSUME NEW e \in DOMAIN event'
      PROVE  \/ /\ e \in DOMAIN event /\ event[e].key = event'[e].key
                /\ event'[e].open <=> event[e].open /\ (event'[e].key \in Absent(s) => event'[e].key[1] \in Manual)
             \/ event'[e].key \in Present(s, over) /\ event'[e].open
  <2> DEFINE key == event'[e].key
  <2>1. key \in Conditions /\ event'[e].key = key
    BY <1>1
  <2>2. Inserted(s, over) \subseteq Present(s, over)
    BY InsertedTyped
  <2> HIDE DEF key
  <2>3. \/ /\ e \in DOMAIN event /\ event[e].key = key
           /\ event'[e].open <=> event[e].open /\ (key \in Absent(s) => key[1] \in Manual)
        \/ key \in Inserted(s, over) /\ event'[e].open
    BY <2>1, AppliedKey
  <2> QED  BY <2>1, <2>2, <2>3
<1>3. ASSUME NEW e \in DOMAIN event', event'[e].key[2] # Nobody
      PROVE  /\ event'[e].key[2] \in Prints /\ event'[e].key[1] \in JobKinds
             /\ event'[e].key = <<event'[e].key[1], event'[e].key[2]>>
  BY <1>1, <1>3 DEF Conditions
<1>4. ASSUME NEW e \in DOMAIN event', event'[e].key[2] # Nobody  PROVE printJob[event'[e].key[2]] # "none"
  <2> DEFINE k == event'[e].key[1]
             j == event'[e].key[2]
  <2>1. j \in Prints /\ k \in JobKinds /\ event'[e].key = <<k, j>>
    BY <1>3, <1>4
  <2>2. CASE <<k, j>> \in Present(s, over)
    <3>1. InView(j)
      <4> HIDE DEF k, j
      <4> QED  BY <2>1, <2>2, JobSeen
    <3> QED  BY <3>1 DEF InView
  <2>3. CASE e \in DOMAIN event /\ event[e].key = event'[e].key
    BY <1>4, <2>3 DEF Past
  <2> HIDE DEF k, j
  <2>4. (e \in DOMAIN event /\ event[e].key = event'[e].key) \/ <<k, j>> \in Present(s, over)
    BY <1>2, <2>1
  <2> QED  BY <2>2, <2>3, <2>4
<1>5. ASSUME NEW e \in DOMAIN event', event'[e].key[1] \in {"outcomeUnknown", "material"}
      PROVE  event'[e].key[2] \in Prints /\ event'[e].key[2] # Nobody
  BY <1>1, <1>5, AttentionAssumption DEF Conditions, PrinterKinds, Nobody
<1>6. ASSUME NEW e \in DOMAIN event', event'[e].key[1] = "outcomeUnknown"
      PROVE  /\ printJob[event'[e].key[2]] \in {"outcomeUnknown"} \cup Ended
             /\ ~event'[e].open => printJob[event'[e].key[2]] \in Ended
  <2> DEFINE k == "outcomeUnknown"
             j == event'[e].key[2]
  <2>1. j \in Prints /\ k \in JobKinds /\ event'[e].key = <<k, j>>
    BY <1>3, <1>5, <1>6
  <2>2. CASE <<k, j>> \in Present(s, over) /\ event'[e].open
    <3>1. <<k, j>> \in JobPresent(s, j)
      BY <2>1, <2>2, JobSeen
    <3>2. printJob[j] = "outcomeUnknown"
      BY <3>1 DEF JobPresent
    <3> QED  BY <2>2, <3>2
  <2>3. CASE /\ e \in DOMAIN event /\ event[e].key = event'[e].key
             /\ event'[e].open <=> event[e].open /\ (event'[e].key \in Absent(s) => event'[e].key[1] \in Manual)
    <3>1. /\ printJob[j] \in {"outcomeUnknown"} \cup Ended
          /\ ~event[e].open => printJob[j] \in Ended
      BY <1>6, <2>3 DEF Past
    <3>2. <<k, j>> \in Absent(s) => printJob[j] # "outcomeUnknown"
      <4>1. <<k, j>> \in Absent(s) => <<k, j>> \in JobAbsent(s, j)
        BY <2>1, JobSeen
      <4>2. <<k, j>> \in JobAbsent(s, j) => printJob[j] # "outcomeUnknown"
        BY DEF JobAbsent
      <4> QED  BY <4>1, <4>2
    <3> QED  BY <2>1, <2>3, <3>1, <3>2
  <2> QED  BY <1>2, <2>1, <2>2, <2>3
<1>7. ASSUME NEW e \in DOMAIN event', event'[e].key[1] = "material"
      PROVE  /\ material[event'[e].key[2]] # "none"
             /\ ~event'[e].open => material[event'[e].key[2]] = "resolved"
  <2> DEFINE k == "material"
             j == event'[e].key[2]
  <2>1. j \in Prints /\ k \in JobKinds /\ event'[e].key = <<k, j>>
    BY <1>3, <1>5, <1>7
  <2>2. CASE <<k, j>> \in Present(s, over) /\ event'[e].open
    <3>1. <<k, j>> \in JobPresent(s, j)
      BY <2>1, <2>2, JobSeen
    <3>2. material[j] \in {"pending", "deferred"}
      BY <3>1 DEF JobPresent
    <3> QED  BY <2>2, <3>2
  <2>3. CASE /\ e \in DOMAIN event /\ event[e].key = event'[e].key
             /\ event'[e].open <=> event[e].open /\ (event'[e].key \in Absent(s) => event'[e].key[1] \in Manual)
    <3>1. material[j] # "none" /\ (~event[e].open => material[j] = "resolved")
      BY <1>7, <2>3 DEF Past
    <3>2. <<k, j>> \in Absent(s) => material[j] = "resolved"
      <4>1. <<k, j>> \in Absent(s) => <<k, j>> \in JobAbsent(s, j)
        BY <2>1, JobSeen
      <4>2. <<k, j>> \in JobAbsent(s, j) => material[j] = "resolved"
        BY DEF JobAbsent
      <4> QED  BY <4>1, <4>2
    <3> QED  BY <2>1, <2>3, <3>1, <3>2
  <2> QED  BY <1>2, <2>1, <2>2, <2>3
<1>8. ASSUME life = "deleted"
      PROVE  /\ \A e \in DOMAIN event' : ~event'[e].open
             /\ \A j \in Prints : printJob[j] = "none"
  <2>1. (\A e \in DOMAIN event : ~event[e].open) /\ \A j \in Prints : printJob[j] = "none"
    BY <1>8 DEF Past
  <2>2. Present(s, over) = {}
    <3>1. \A j \in Prints : ~InView(j)
      BY <2>1 DEF InView
    <3>2. PrinterPresent(s, over) = {}
      BY <1>8 DEF PrinterPresent, Applicable
    <3> QED  BY <3>1, <3>2 DEF Present
  <2> QED  BY <1>2, <2>1, <2>2
<1>9. \A j \in Prints : material[j] # "none" => printJob[j] \in Ended
  BY DEF Past
<1>10. UNCHANGED <<printJob, material, life>>
  OBVIOUS
<1> QED  BY <1>4, <1>6, <1>7, <1>8, <1>9, <1>10 DEF Past

LEMMA PastStep ==
  ASSUME Observes, Projected, Past, [AttentionNext]_attention
  PROVE  Past'
<1>1. \A e \in DOMAIN event : event[e].key \in Conditions
  <2>1. \A e \in DOMAIN event : event[e] \in Row
    BY DEF Projected
  <2> QED  BY <2>1 DEF Row
<1>2. ASSUME NEW e \in DOMAIN event, event[e].key[1] \in {"outcomeUnknown", "material"}
      PROVE  event[e].key[2] \in Prints /\ event[e].key[2] # Nobody
  BY <1>1, <1>2, AttentionAssumption DEF Conditions, PrinterKinds, Nobody
<1>3. ASSUME NEW e \in DOMAIN event, event[e].key[2] # Nobody  PROVE event[e].key[2] \in Prints
  BY <1>1, <1>3 DEF Conditions
<1>4. CASE JobChanges
  <2>1. PICK j \in Prints, to \in Ended \cup {"assigned", "awaitingStart", "running", "outcomeUnknown"} :
          JobMoves(j, to) /\ UNCHANGED <<event, life>>
    BY <1>4 DEF JobChanges, projection
  <2>2. printJob[j] \notin Ended /\ to # "none" /\ to \in Goes[printJob[j]]
    BY <2>1 DEF JobMoves, Ended
  <2>3. \A i \in Prints : printJob'[i] = IF i = j THEN to ELSE printJob[i]
    BY <2>1 DEF JobMoves, Observes
  <2>4. PICK m \in {"none", "pending"} : /\ material' = [material EXCEPT ![j] = m]
                                         /\ m = "pending" => to \in Ended
    BY <2>1 DEF JobMoves
  <2>5. \A i \in Prints : material'[i] = IF i = j THEN m ELSE material[i]
    BY <2>4 DEF Observes
  <2>6. printJob[j] = "outcomeUnknown" => to \in Ended
    BY <2>2 DEF Goes, Ended
  <2>7. printJob[j] = "none" => life # "deleted"
    BY <2>1 DEF JobMoves
  <2>8. \A i \in Prints : material'[i] # "none" => printJob'[i] \in Ended
    BY <2>3, <2>4, <2>5 DEF Past
  <2>9. \A e \in DOMAIN event : event[e].key[2] # Nobody => printJob'[event[e].key[2]] # "none"
    BY <1>3, <2>2, <2>3 DEF Past
  <2>10. \A e \in DOMAIN event : event[e].key[1] = "outcomeUnknown" =>
           /\ printJob'[event[e].key[2]] \in {"outcomeUnknown"} \cup Ended
           /\ ~event[e].open => printJob'[event[e].key[2]] \in Ended
    BY <1>2, <2>2, <2>3, <2>6 DEF Past
  <2>11. \A e \in DOMAIN event : event[e].key[1] = "material" =>
           /\ material'[event[e].key[2]] # "none"
           /\ ~event[e].open => material'[event[e].key[2]] = "resolved"
    BY <1>2, <2>2, <2>5 DEF Past
  <2>12. life # "deleted"
    BY <2>7 DEF Past
  <2> QED  BY <2>1, <2>8, <2>9, <2>10, <2>11, <2>12 DEF Past
<1>5. CASE MaterialChanges
  <2>1. PICK j \in Prints, to \in {"deferred", "resolved"} :
          /\ material[j] = "pending" \/ (material[j] = "deferred" /\ to = "resolved")
          /\ material' = [material EXCEPT ![j] = to]
    BY <1>5 DEF MaterialChanges
  <2>2. UNCHANGED <<event, life, printJob>>
    BY <1>5 DEF MaterialChanges, projection
  <2>3. \A i \in Prints : material'[i] = IF i = j THEN to ELSE material[i]
    BY <2>1 DEF Observes
  <2>4. \A i \in Prints : material'[i] # "none" => printJob[i] \in Ended
    BY <2>1, <2>3 DEF Past
  <2>5. \A e \in DOMAIN event : event[e].key[1] = "material" =>
           /\ material'[event[e].key[2]] # "none"
           /\ ~event[e].open => material'[event[e].key[2]] = "resolved"
    BY <1>2, <2>1, <2>3 DEF Past
  <2> QED  BY <2>2, <2>4, <2>5 DEF Past
<1>6. CASE StartRefused \/ EditStartSafety \/ StatusChanges \/ Announce \/ Drain \/ ReadStatus \/ PassFails
           \/ GraceEnds \/ Crash \/ StartProjector
  <2>1. UNCHANGED <<event, life, printJob, material>>
    BY <1>6 DEF StartRefused, EditStartSafety, StatusChanges, Announce, Drain, ReadStatus, PassFails, GraceEnds, Crash, StartProjector,
                inputs, projection
  <2> QED  BY <2>1 DEF Past
<1>7. CASE ArchiveOrUnarchive
  <2>1. UNCHANGED <<event, printJob, material>> /\ life' # "deleted"
    BY <1>7 DEF ArchiveOrUnarchive, projection
  <2> QED  BY <2>1 DEF Past
<1>8. CASE DeletePrinter
  <2>1. /\ DOMAIN event' = DOMAIN event /\ UNCHANGED <<printJob, material>>
        /\ \A j \in Prints : printJob[j] = "none"
        /\ \A e \in DOMAIN event : event'[e] = [event[e] EXCEPT !.open = FALSE]
    BY <1>8 DEF DeletePrinter
  <2>2. \A e \in DOMAIN event : event[e] \in Row
    BY DEF Projected
  <2>3. \A e \in DOMAIN event : event'[e].key = event[e].key /\ ~event'[e].open
    BY <2>1, <2>2 DEF Row
  <2>4. \A e \in DOMAIN event : event[e].key[2] = Nobody
    BY <1>3, <2>1 DEF Past
  <2>5. \A e \in DOMAIN event : event[e].key[1] \notin {"outcomeUnknown", "material"}
    BY <1>2, <2>4
  <2> QED  BY <2>1, <2>3, <2>4, <2>5 DEF Past
<1>9. CASE AcknowledgeEvent \/ ResolveEvent
  <2>1. UNCHANGED <<printJob, material, life>>
    BY <1>9 DEF AcknowledgeEvent, ResolveEvent, inputs
  <2>2. DOMAIN event' = DOMAIN event /\ \A e \in DOMAIN event :
          /\ event'[e].key = event[e].key /\ (event'[e].open => event[e].open)
          /\ event[e].open => event'[e].open \/ event[e].key[1] \in Manual
    BY <1>9, CommandRows
  <2>3. "outcomeUnknown" \notin Manual /\ "material" \notin Manual
    BY DEF Manual
  <2> QED  BY <2>1, <2>2, <2>3 DEF Past
<1>10. CASE RunPass \/ Backfill
  <2>1. UNCHANGED <<printJob, material, life>>
    BY <1>10 DEF RunPass, Backfill, inputs
  <2>2. \E s, over : Apply(s, over)
    BY <1>10 DEF RunPass, Backfill
  <2> QED  BY <2>1, <2>2, PastAfterPass
<1>11. CASE UNCHANGED attention
  <2>1. UNCHANGED <<event, life, printJob, material>>
    BY <1>11 DEF attention, inputs, projection
  <2> QED  BY <2>1 DEF Past
<1> QED  BY <1>4, <1>5, <1>6, <1>7, <1>8, <1>9, <1>10, <1>11 DEF AttentionNext, Projecting

LEMMA StagedStep ==
  ASSUME Observes, Staged, [AttentionNext]_attention
  PROVE  Staged'
<1>1. ASSUME Awake' \/ proj'.pc \notin {"read", "idle"}  PROVE Staged'
  BY <1>1 DEF Staged, Awake
<1>2. CASE JobChanges
  BY <1>1, <1>2 DEF JobChanges, Awake
<1>3. CASE StartRefused \/ MaterialChanges \/ StatusChanges \/ EditStartSafety \/ ArchiveOrUnarchive \/ DeletePrinter
  BY <1>1, <1>3 DEF StartRefused, MaterialChanges, StatusChanges, EditStartSafety, ArchiveOrUnarchive, DeletePrinter,
                    Awake
<1>4. CASE Announce
  BY <1>1, <1>4 DEF Announce, Awake
<1>5. CASE AcknowledgeEvent \/ ResolveEvent \/ UNCHANGED attention
  <2>1. UNCHANGED <<live, life, watch, proj, unsaid, woken>>
    BY <1>5 DEF AcknowledgeEvent, ResolveEvent, attention, inputs
  <2> QED  BY <2>1 DEF Staged, Awake
<1>6. CASE Drain \/ Crash \/ Backfill \/ StartProjector
  <2>1. proj'.pc \notin {"read", "idle"}
    BY <1>6 DEF Drain, Crash, Backfill, StartProjector, Observes, Projector, Idle
  <2> QED  BY <1>1, <2>1
<1>7. CASE ReadStatus
  <2> DEFINE p1 == [proj EXCEPT !.pc = "read"]
             p2 == [p1 EXCEPT !.seen = live]
             p3 == [p2 EXCEPT !.late = (watch = "over")]
  <2>1. proj' = p3 /\ live' = live
    BY Zenon, <1>7 DEF ReadStatus, inputs
  <2>2. p1 \in Projector /\ p1.pc = "read"
    BY DEF Observes, Projector
  <2> HIDE DEF p1
  <2>3. p2 \in Projector /\ p2.pc = "read" /\ p2.seen = live
    BY <2>2 DEF Observes, Projector
  <2> HIDE DEF p2
  <2>4. p3.pc = "read" /\ p3.seen = live
    BY <2>3 DEF Projector
  <2> HIDE DEF p3
  <2> QED  BY <2>1, <2>4 DEF Staged
<1>8. CASE RunPass
  <2> DEFINE over == proj.late /\ watch = "over"
             w == Waits(proj.seen, over)
  <2>1. proj' = [Idle EXCEPT !.armed = w] /\ watch' = UpdateWatch(proj.seen) /\ proj.pc = "read"
        /\ woken' = (woken \/ (w /\ watch' = "over")) /\ UNCHANGED <<live, life, unsaid>>
    BY <1>8 DEF RunPass, inputs
  <2>2. proj'.pc = "idle" /\ proj'.armed = w
    <3> HIDE DEF w
    <3> QED  BY <2>1 DEF Idle
  <2>3. ASSUME ~Awake', life = "active", live.reach = "unreachable", watch' = "within"  PROVE w
    <3>1. ~woken /\ ~unsaid
      <4> HIDE DEF w
      <4> QED  BY Zenon, <2>1, <2>3 DEF Awake
    <3>2. proj.seen = live
      BY <2>1, <3>1 DEF Staged, Awake
    <3>3. watch # "over"
      BY <2>1, <2>3 DEF UpdateWatch
    <3> QED  BY <2>3, <3>2, <3>3 DEF Waits, Applicable
  <2> HIDE DEF w
  <2> QED  BY <2>1, <2>2, <2>3 DEF Staged
<1>9. CASE PassFails
  <2>1. proj'.pc = "idle" /\ proj'.failed
    BY <1>9 DEF PassFails, Observes, Projector
  <2> QED  BY <2>1 DEF Staged
<1>10. CASE GraceEnds
  <2>1. /\ proj'.pc = proj.pc /\ proj'.seen = proj.seen /\ watch' = "over" /\ UNCHANGED <<live, unsaid>>
        /\ ~woken' => ~woken
    BY <1>10 DEF GraceEnds, Observes, Projector, inputs
  <2> QED  BY <2>1 DEF Staged, Awake
<1> QED  BY <1>2, <1>3, <1>4, <1>5, <1>6, <1>7, <1>8, <1>9, <1>10 DEF AttentionNext, Projecting

LEMMA ToldStep ==
  ASSUME Observes, Projected, Past, Staged, Quiet => Told, [AttentionNext]_attention, Quiet'
  PROVE  Told'
<1>1. proj'.pc = "idle" /\ ~proj'.failed /\ ~woken' /\ ~unsaid'
  BY DEF Quiet
<1>2. CASE JobChanges \/ StartRefused \/ MaterialChanges \/ StatusChanges \/ EditStartSafety \/ ArchiveOrUnarchive
           \/ DeletePrinter \/ Announce
  BY <1>1, <1>2 DEF JobChanges, StartRefused, MaterialChanges, StatusChanges, EditStartSafety, ArchiveOrUnarchive,
                    DeletePrinter, Announce
<1>3. CASE Drain \/ ReadStatus \/ PassFails \/ Crash \/ Backfill \/ StartProjector
  <2>1. proj'.pc # "idle" \/ proj'.failed
    <3>1. CASE Drain
      BY <3>1 DEF Drain, Observes, Projector
    <3>2. CASE ReadStatus
      <4> DEFINE p1 == [proj EXCEPT !.pc = "read"]
                 p2 == [p1 EXCEPT !.seen = live]
                 p3 == [p2 EXCEPT !.late = (watch = "over")]
      <4>1. proj' = p3
        BY Zenon, <3>2 DEF ReadStatus
      <4>2. p1 \in Projector /\ p1.pc = "read"
        BY DEF Observes, Projector
      <4> HIDE DEF p1
      <4>3. p2 \in Projector /\ p2.pc = "read"
        BY <4>2 DEF Observes, Projector
      <4> HIDE DEF p2
      <4>4. p3.pc = "read"
        BY <4>3 DEF Projector
      <4> HIDE DEF p3
      <4> QED  BY <4>1, <4>4
    <3>3. CASE PassFails
      BY <3>3 DEF PassFails, Observes, Projector
    <3>4. CASE Crash \/ Backfill \/ StartProjector
      BY <3>4 DEF Crash, Backfill, StartProjector, Observes, Projector, Idle
    <3> QED  BY <1>3, <3>1, <3>2, <3>3, <3>4
  <2> QED  BY <1>1, <2>1
<1>4. CASE AcknowledgeEvent \/ ResolveEvent
  <2>1. UNCHANGED <<printJob, material, live, life, safety, watch, proj, unsaid, woken>>
    BY <1>4 DEF AcknowledgeEvent, ResolveEvent, inputs
  <2>2. Told
    BY <1>1, <2>1 DEF Quiet
  <2>3. DOMAIN event' = DOMAIN event /\ \A e \in DOMAIN event :
          /\ event'[e].key = event[e].key /\ (event'[e].open => event[e].open)
          /\ event[e].open => event'[e].open \/ event[e].key[1] \in Manual
          /\ event[e].acked => event'[e].acked
    BY <1>4, CommandRows
  <2>4. \A key : Raised(key)' <=> Raised(key)
    BY <2>3 DEF Raised
  <2>5. \A key : key[1] \notin Manual => (Lit(key)' <=> Lit(key))
    BY <2>3 DEF Lit
  <2>6. \A k, j : k \notin Manual => (Lit(<<k, j>>)' <=> Lit(<<k, j>>))
    <3> SUFFICES ASSUME NEW k, NEW j, k \notin Manual  PROVE Lit(<<k, j>>)' <=> Lit(<<k, j>>)
      OBVIOUS
    <3> DEFINE key == <<k, j>>
    <3>1. key[1] = k
      OBVIOUS
    <3> HIDE DEF key
    <3>2. Lit(key)' <=> Lit(key)
      BY <2>5, <3>1
    <3> QED  BY Zenon, <3>2 DEF key
  <2>7. Latest' = Latest /\ \A j \in Prints : Confirms(j)' <=> Confirms(j)
    BY <2>1 DEF Latest, Confirms, safety
  <2>8. /\ "outcomeUnknown" \notin Manual /\ "startConfirmation" \notin Manual /\ "material" \notin Manual
        /\ "jobCompleted" \notin Manual /\ "hostFailed" \notin Manual /\ "offline" \notin Manual
        /\ "connectionError" \notin Manual
    BY DEF Manual
  <2>9. ASSUME NEW j \in Prints  PROVE JobTold(j)'
    <3>1. JobTold(j)
      BY <2>2 DEF Told
    <3>2. \A e \in DOMAIN event' : event'[e].key = <<"material", j>> /\ material[j] = "deferred" => event'[e].acked
      BY <2>3, <3>1 DEF JobTold
    <3> QED  BY <2>1, <2>4, <2>6, <2>7, <2>8, <3>1, <3>2 DEF JobTold
  <2>10. PrinterTold'
    <3>1. Covered(live)' <=> Covered(live)
      BY <2>1, <2>7 DEF Covered
    <3>2. PrinterTold
      BY <2>2 DEF Told
    <3> QED  BY <2>1, <2>6, <2>8, <3>1, <3>2 DEF PrinterTold
  <2> QED  BY <2>9, <2>10 DEF Told
<1>5. CASE RunPass
  <2>1. proj.pc = "read" /\ unsaid' = unsaid /\ (~woken' => ~woken) /\ UNCHANGED <<printJob, material, life, safety>>
    BY <1>5 DEF RunPass, inputs
  <2>2. proj.seen = live
    BY <1>1, <2>1 DEF Staged, Awake
  <2>3. PrinterTold'
    BY <1>1, <1>5, <2>2, PassTellsPrinter
  <2>4. \E s, over : Apply(s, over)
    BY <1>5 DEF RunPass
  <2>5. \A j \in Prints : JobTold(j)'
    BY <2>1, <2>4, PassTellsJob
  <2> QED  BY <2>3, <2>5 DEF Told
<1>6. CASE GraceEnds
  <2>1. /\ proj'.pc = proj.pc /\ proj'.failed = proj.failed /\ watch = "within"
        /\ UNCHANGED <<printJob, material, live, life, safety, event, unsaid>>
        /\ ~woken' => ~woken /\ ~proj.armed
    BY <1>6 DEF GraceEnds, Observes, Projector, inputs, projection
  <2>2. Quiet /\ ~proj.armed
    BY <1>1, <2>1 DEF Quiet
  <2>3. Told
    BY <2>2
  <2>4. Latest' = Latest /\ \A j \in Prints : Confirms(j)' <=> Confirms(j)
    BY <2>1 DEF Latest, Confirms, safety
  <2>5. \A key : (Raised(key)' <=> Raised(key)) /\ (Lit(key)' <=> Lit(key))
    BY <2>1 DEF Raised, Lit
  <2>6. \A j \in Prints : JobTold(j)'
    BY <2>1, <2>3, <2>4, <2>5 DEF Told, JobTold
  <2>7. ~(life = "active" /\ live.reach = "unreachable")
    BY <2>1, <2>2 DEF Staged, Quiet, Awake
  <2>8. Covered(live)' <=> Covered(live)
    BY <2>1, <2>4 DEF Covered
  <2>9. PrinterTold'
    BY <2>1, <2>3, <2>5, <2>7, <2>8 DEF Told, PrinterTold
  <2> QED  BY <2>6, <2>9 DEF Told
<1>7. CASE UNCHANGED attention
  <2>1. UNCHANGED <<printJob, material, live, life, safety, event, watch, proj, unsaid, woken>>
    BY <1>7 DEF attention, inputs, projection
  <2>2. Told
    BY <1>1, <2>1 DEF Quiet
  <2>3. Latest' = Latest /\ \A j \in Prints : Confirms(j)' <=> Confirms(j)
    BY <2>1 DEF Latest, Confirms, safety
  <2>4. \A key : (Raised(key)' <=> Raised(key)) /\ (Lit(key)' <=> Lit(key))
    BY <2>1 DEF Raised, Lit
  <2>5. Covered(live)' <=> Covered(live)
    BY <2>1, <2>3 DEF Covered
  <2> QED  BY <2>1, <2>2, <2>3, <2>4, <2>5 DEF Told, JobTold, PrinterTold
<1> QED  BY <1>2, <1>3, <1>4, <1>5, <1>6, <1>7 DEF AttentionNext, Projecting

AttentionInv == Observes /\ Projected /\ Past /\ Staged /\ Reported

LEMMA AttentionInvInit == AttentionInit => AttentionInv
<1> SUFFICES ASSUME AttentionInit  PROVE AttentionInv
  OBVIOUS
<1>1. /\ printJob = [j \in Prints |-> "none"] /\ material = [j \in Prints |-> "none"]
      /\ live = NoLive /\ life = "active" /\ event = <<>> /\ watch = "clear"
      /\ proj = [Idle EXCEPT !.pc = "down"] /\ unsaid = FALSE /\ woken = FALSE
  BY DEF AttentionInit
<1>2. NoLive \in Statused
  BY DEF NoLive, Statused, Reaches, Nobody
<1>3. proj \in Projector /\ proj.pc = "down"
  BY <1>1, <1>2 DEF Projector, Idle
<1>4. Observes
  BY <1>1, <1>2, <1>3 DEF Observes, Places
<1>5. Projected
  BY ConsistentInit
<1>6. Past
  BY <1>1 DEF Past
<1>7. Staged /\ Reported
  BY <1>3 DEF Staged, Reported
<1> QED  BY <1>4, <1>5, <1>6, <1>7 DEF AttentionInv

\* Whatever was missed while a pass ran, failed or the app was down (services.rs, projector.rs,
\* observe.rs): once nothing wakes the projector and its last pass did not fail, every end a person
\* must see was raised, and what is open is still so.
THEOREM AttentionReported == AttentionSpec => []Reported
<1>1. AttentionInit => AttentionInv /\ Consistent
  BY AttentionInvInit, ConsistentInit
<1>2. (AttentionInv /\ Consistent) /\ [AttentionNext]_attention => (AttentionInv /\ Consistent)'
  <2> SUFFICES ASSUME AttentionInv, Consistent, [AttentionNext]_attention
               PROVE  AttentionInv' /\ Consistent'
    OBVIOUS
  <2>1. Observes /\ Projected /\ Past /\ Staged /\ (Quiet => Told)
    BY ReportedIs DEF AttentionInv
  <2>2. Observes' /\ Past' /\ Staged'
    BY <2>1, ObservedStep, PastStep, StagedStep
  <2>3. Projected' /\ Consistent'
    BY <2>1, ConsistentStep
  <2>4. Quiet' => Told'
    BY <2>1, ToldStep
  <2>5. Reported' <=> (Quiet' => Told')
    BY ReportedIs, PTL
  <2> QED  BY <2>2, <2>3, <2>4, <2>5 DEF AttentionInv
<1>3. AttentionInv => Reported
  BY DEF AttentionInv
<1> QED  BY <1>1, <1>2, <1>3, PTL DEF AttentionSpec
=============================================================================

----------------------------- MODULE HostOpsInv -----------------------------
(***************************************************************************)
(* The inductive invariant of HostOps: what each task in progress knows of *)
(* its row, and what each row says of its request.                         *)
(***************************************************************************)
EXTENDS HostOps

\* A process that is down runs no task and holds no lock.
DownIsIdle ==
  ~up => /\ \A o \in Ops : exec[o] = "none" /\ ~queued[o]
         /\ \A p \in Printers : cmd[p].op = None /\ att[p].op = None

\* The request was sent when its fate is not "none", and never before dispatched_at.
SentIsRecorded ==
  \A o \in Ops : /\ sends[o] = IF net[o] = "none" THEN 0 ELSE 1
                 /\ net[o] # "none" => row[o].sent
                 /\ row[o].sent => row[o].state # "absent"

\* An executor task's row is `dispatching` until the task commits; before the send
\* nothing was sent, and it fails only what cannot take effect.
ExecutorKnows ==
  \A o \in Ops :
    /\ exec[o] \in {"ready", "marked", "sending", "verifying", "commit"}
         => row[o].state = "dispatching"
    /\ exec[o] = "ready" => ~row[o].sent
    /\ exec[o] = "marked" => row[o].sent /\ net[o] = "none"
    /\ exec[o] \in {"sending", "verifying"} => net[o] # "none"
    /\ exec[o] = "commit" => /\ outcome[o] # "none"
                             /\ outcome[o] = "failed" => net[o] \in {"none", "refused"}

\* An attempt's row is `reconciling` on the Printer it locked, and only a settled
\* upload is decided not applied.
AttemptKnows ==
  \A p \in Printers :
    LET o == att[p].op IN
    o # None => /\ row[o].state = "reconciling" /\ row[o].printer = p
                /\ att[p].decision = "notApplied" => row[o].kind = "upload" /\ settled[o]

\* A settle deadline only passes over a request that is over.
SettledIsOver ==
  \A o \in Ops : settled[o] => /\ net[o] # "flying"
                               /\ row[o].state \notin {"absent", "dispatching"}

\* The inductive invariant of the dispatch and of the reconciliation.
Inductive ==
  /\ DownIsIdle /\ SentIsRecorded /\ ExecutorKnows /\ AttemptKnows /\ SettledIsOver
  /\ OneUnresolved /\ EndpointKept /\ FailedIsQuiet

(***************************************************************************)
(* What success rests on.                                                  *)
(***************************************************************************)
Evidence(o) ==
  \/ shown[o]
  \/ row[o].kind = "start" /\ host[row[o].endpoint].ours > row[o].mark

\* Requests and rows name an endpoint, and a start is for the staged file.
EndpointNamed ==
  /\ \A p \in Printers : cmd[p].op # None =>
       cmd[p].conn \in Endpoints /\ (cmd[p].kind = "start" => cmd[p].path = "ours")
  /\ \A o \in Ops : row[o].state # "absent" =>
       row[o].endpoint \in Endpoints /\ (row[o].kind = "start" => row[o].path = "ours")

HistoryOrdered == \A e \in Endpoints : host[e].ours <= host[e].jobs

\* The host's effect on a sent operation's file has been noticed.
Noticed ==
  \A o \in Ops : row[o].sent /\ Shows(row[o], host[row[o].endpoint]) => shown[o]

\* What was or may still be resolved by a look at the host was sent.
Checkable == {"uncertain", "reconciling", "succeeded"}

CheckedWasSent ==
  \A o \in Ops : /\ row[o].state \in Checkable => row[o].sent
                 /\ exec[o] \in {"sending", "verifying"} => row[o].sent
                 /\ exec[o] = "commit" /\ outcome[o] # "failed" => row[o].sent

\* An applied start, a classified success and a decision to succeed have evidence.
SuccessKnows ==
  /\ \A o \in Ops : /\ row[o].kind = "start" /\ net[o] = "applied" => Evidence(o)
                    /\ exec[o] = "commit" /\ outcome[o] = "succeeded" => Evidence(o)
  /\ \A p \in Printers : att[p].op # None /\ att[p].decision = "applied" => Evidence(att[p].op)

\* The inductive invariant of the evidence.
Evident ==
  /\ EndpointNamed /\ HistoryOrdered /\ Noticed /\ CheckedWasSent /\ SuccessKnows
  /\ SuccessHasEvidence
=============================================================================

------------------------------- MODULE MCJobs -------------------------------
(***************************************************************************)
(* Values for the constants of Jobs, and later starts of two runs.         *)
(***************************************************************************)
EXTENDS JobsInv, TLC

OneJob == {1}
ThreeJobs == {1, 2, 3}
ThreeOps == {1, 2, 3}
FourOps == {1, 2, 3, 4}
NoControls == {}
CancelOnly == {"cancel"}
PauseCancel == {"pause", "cancel"}
Symmetry == Permutations(Operators)

Limits(jobs, ops, prints, operators) ==
  [jobs |-> jobs, ops |-> ops, prints |-> prints, operators |-> operators,
   outside |-> 0, edits |-> 0, flaps |-> 0, crashes |-> 0]

\* From an empty queue: somebody prints at the host, before or meanwhile, where the
\* driver or an operator prints; two operators and the driver hand one Job off against one
\* another; or the app restarts.
Handing ==
  {[Limits(1, 2, 2, o) EXCEPT !.outside = 1] : o \in {{}} \cup {{c} : c \in Operators}}
    \cup {[Limits(1, 3, 0, {c}) EXCEPT !.crashes = 1] : c \in Operators}
    \cup {Limits(1, 3, 0, Operators)}
Handed ==
  /\ \A e \in Endpoints : /\ Len(Prints(e)) <= budget.prints
                          /\ budget.operators # {} => Prints(e) = <<>>
  /\ \A p \in Printers : printer[p].unattended <=> Cardinality(budget.operators) # 1
HandedInit == Init /\ Handed
HandedSpec == HandedInit /\ [][Next]_vars

\* Job 1 was staged by operation 1 and started by operation 2, the history has not
\* been read since, and there is no other entry.  Another host has an earlier print.
Started(statuses, alone) ==
  LET done(o) == o \in {1, 2} IN
  \E p \in Printers, e \in Endpoints, s \in statuses :
    /\ status = [o \in Ops |-> IF done(o) THEN "succeeded" ELSE "none"]
    /\ owner = [o \in Ops |-> p]
    /\ effect = [o \in Ops |-> IF done(o) THEN "happened" ELSE "unsent"]
    /\ again = [o \in Ops |-> o = 1]
    /\ link = [o \in Ops |-> [kind |-> IF o = 2 THEN "start" ELSE "upload", job |-> IF done(o) THEN 1 ELSE None,
                              caller |-> Driver, conn |-> e, mark |-> 0,
                              source |-> IF o = 2 THEN 1 ELSE None, before |-> 0]]
    /\ job = [j \in Jobs |-> IF j = 1 THEN [NoJob(p) EXCEPT !.state = "printing", !.upload = 1, !.start = 2]
                                      ELSE NoJob(p)]
    /\ entry = [j \in Jobs |-> [state |-> IF j = 1 THEN "assigned" ELSE "absent",
                                closed |-> "none", origin |-> None]]
    /\ account = [j \in Jobs |-> [rsv |-> IF j = 1 THEN "active" ELSE "none", material |-> "none",
                                  unknown |-> "none", uses |-> 0]]
    /\ cmd = [c \in Callers |-> NoCmd]
    /\ poll = NoPoll
    /\ host = [f \in Endpoints |-> IF f = e
         THEN [prints |-> <<[file |-> "ours", status |-> s, by |-> 2, late |-> FALSE,
                           ender |-> None]>>,
               print |-> IF s = "running" THEN "printing" ELSE "standby"]
         ELSE [prints |-> <<Earlier>>, print |-> "complete"]]
    /\ printer = [q \in Printers |-> [conn |-> e, online |-> TRUE, loaded |-> TRUE, unattended |-> alone]]
    /\ budget \in Budgets

\* The print of Job 1 is running: the Printer goes offline once, or the app restarts.
Flapping == {[Limits(1, 3, 1, Operators) EXCEPT !.flaps = 1], [Limits(1, 3, 1, Operators) EXCEPT !.crashes = 1]}
PrintingInit == Started({"running"}, FALSE)
PrintingLiveSpec == PrintingInit /\ [][Next]_vars /\ Fairness

\* The print of Job 1 runs, operators control it and the Printer changes host; or it
\* has ended, and the driver alone starts a second Job or two entries follow.
Controlling == {[Limits(1, 3, 1, Operators) EXCEPT !.edits = 1]}
Following == {Limits(2, 4, 2, {}), Limits(3, 3, 2, {})}
ControllingOrFollowing == Controlling \cup Following

First == CHOOSE e \in Endpoints : TRUE
Printed ==
  /\ IF budget \in Following THEN Started({"completed"}, TRUE) ELSE Started({"running"}, FALSE)
  /\ \A p \in Printers : printer[p].conn = First
PrintedInit == budget \in Budgets /\ Printed
PrintedSpec == PrintedInit /\ [][Next]_vars
=============================================================================

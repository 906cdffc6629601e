----------------------------- MODULE MCHostOps -----------------------------
(***************************************************************************)
(* HostOps for TLC: one Printer (a Printer's lock, rows, timers and host   *)
(* are its own; precheck_duplicate_host keeps two Printers off one host),  *)
(* small sets of operations, and the budgets a behaviour draws one of.     *)
(***************************************************************************)
EXTENDS HostOpsRefinement, HostOpsInv, TLC

Budget(kinds, meets) ==
  [b \in Bounded |-> IF b \in kinds THEN 1 ELSE IF b \in DOMAIN meets THEN meets[b] ELSE 0]

UploadAndStart == {"upload", "start"}
Controls == {"pause", "cancel"}

\* A crash and a storage failure or a panic; or the operator edits the Printer.
Troubles == {Budget(UploadAndStart, [crashes |-> 1, faults |-> 1]),
             Budget(UploadAndStart, [crashes |-> 1, panics |-> 1]), Budget({"upload"}, [edits |-> 2])}
\* Somebody else acts at the host while farm3d prints, or controls a print.
Outsiders == {Budget(k, [crashes |-> 1, outside |-> 1]) : k \in {UploadAndStart, Controls}}
\* The Printer goes offline, the app crashes and somebody else acts at the host; or the
\* executor panics.
Retries == {Budget(UploadAndStart, [outside |-> 1, flaps |-> 2, crashes |-> 1]),
            Budget(UploadAndStart, [panics |-> 1, flaps |-> 1])}

\* Only a Connection edit leads to a second host, and only a start to a print.
First == CHOOSE e \in Endpoints : TRUE
OneHost == budget["edits"] = 0 => /\ \A p \in Printers : printer[p].conn \in {None, First}
                                  /\ \A e \in Endpoints \ {First} : host[e].jobs = 0 /\ host[e].disk = "absent"
NoPrints == budget["edits"] > 0 => \A e \in Endpoints : host[e].jobs = 0
MCInit == Init /\ OneHost /\ NoPrints
MCSpec == MCInit /\ [][Next]_vars

OpSymmetry == Permutations(Ops)
=============================================================================

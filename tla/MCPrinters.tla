----------------------------- MODULE MCPrinters -----------------------------
(***************************************************************************)
(* Spools, Supervisor, Attention and Media for TLC.  They share nothing,   *)
(* so each behaviour is of one of them and the others stay where they      *)
(* start.                                                                  *)
(***************************************************************************)
EXTENDS MCSpools, Supervisor, Attention, Media, TLC

VARIABLE part

Limit(edits, reads, forces, restarts) ==
  [edits |-> edits, reads |-> reads, forces |-> forces, restarts |-> restarts]

\* Commands race each other and a forced stop; or the app restarts.
MCLimits == {Limit(3, 1, 0, 0), Limit(2, 2, 1, 0), Limit(2, 1, 1, 1)}

\* The host of a Printer is changed, with no stop forced.
Repoint == {Limit(2, 3, 0, 0)}

Spend(prints, shows, asks, lives, faults, crashes) ==
  [shows |-> shows, prints |-> prints, lives |-> lives, asks |-> asks, faults |-> faults, crashes |-> crashes]

\* A Job runs to its end while the status changes, people answer and the app
\* crashes; a pass fails; a second Job follows; or the Printer goes, with no Job.
MCSpends == {Spend(4, 1, 2, 0, 0, 0), Spend(3, 1, 1, 0, 0, 1), Spend(3, 1, 1, 0, 1, 0),
             Spend(5, 0, 1, 0, 0, 1), Spend(3, 1, 2, 1, 0, 0), Spend(0, 3, 0, 1, 1, 1)}

Allow(shots, pins, ages, deletes, leases, losses, faults, crashes) ==
  [shots |-> 1..shots, pins |-> pins, ages |-> ages, deletes |-> deletes, leases |-> leases,
   losses |-> losses, faults |-> faults, crashes |-> crashes]

\* Pins race prunes; a lease is held meanwhile; the Printer is deleted; images age and
\* are lost, writes fail and the app crashes.
MCAllowances == {Allow(3, 2, 0, 0, 0, 0, 0, 0), Allow(3, 1, 0, 0, 1, 0, 0, 0),
                 Allow(2, 1, 0, 1, 1, 0, 0, 0), Allow(2, 0, 1, 0, 1, 1, 1, 0), Allow(2, 1, 1, 0, 0, 1, 0, 1)}

Rests(others) ==
  /\ "spools" \in others => MCInit /\ usage = CHOOSE u \in Usages : TRUE
  /\ "supervisor" \in others => SupervisorInit /\ limit = CHOOSE l \in Limits : TRUE
  /\ "attention" \in others => AttentionInit /\ ~unattended /\ spend = CHOOSE x \in Spends : TRUE
  /\ "media" \in others => MediaInit /\ allowance = CHOOSE x \in Allowances : TRUE

PrintersInit ==
  \/ part = "spools" /\ MCInit /\ Rests({"supervisor", "attention", "media"})
  \/ part = "supervisor" /\ SupervisorInit /\ Rests({"spools", "attention", "media"})
  \/ part = "attention" /\ AttentionInit /\ Rests({"spools", "supervisor", "media"})
  \/ part = "media" /\ MediaInit /\ Rests({"spools", "supervisor", "attention"})

PrintersNext ==
  \/ part = "spools" /\ Next /\ UNCHANGED <<supervision, attention, pictures, part>>
  \/ part = "supervisor" /\ SupervisorNext /\ UNCHANGED <<vars, attention, pictures, part>>
  \/ part = "attention" /\ AttentionNext /\ UNCHANGED <<vars, supervision, pictures, part>>
  \/ part = "media" /\ MediaNext /\ UNCHANGED <<vars, supervision, attention, part>>

PrintersSpec == PrintersInit /\ [][PrintersNext]_<<vars, supervision, attention, pictures, part>>

RepointInit == part = "supervisor" /\ PrintersInit
RepointSpec == RepointInit /\ [][PrintersNext]_<<vars, supervision, attention, pictures, part>>
=============================================================================

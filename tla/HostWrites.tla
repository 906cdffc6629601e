----------------------------- MODULE HostWrites -----------------------------
(***************************************************************************)
(* What the Host Operations promise to the Jobs built on them, with the    *)
(* executor, the reconciler, the locks and the crashes abstracted away.    *)
(*                                                                         *)
(* Each operation is a write to the host of one Printer.  It is open until *)
(* it is resolved, a Printer has at most one open operation, the write is  *)
(* sent at most once and only while the operation is open, and what was    *)
(* sent takes effect at most once, at any later moment, or never.  An      *)
(* operation may be declared failed only when its write can no longer take *)
(* effect, and, unless it is repeatable (an upload of the same bytes),     *)
(* when it never did.                                                      *)
(***************************************************************************)
CONSTANTS Printers, Ops

VARIABLES
  status,   \* of each operation: none, open, resolved, or gone with its Printer
  owner,    \* the Printer of each operation
  effect,   \* of each operation: unsent, pending, happened, or void
  again     \* whether the effect of an operation may happen again unnoticed

vars == <<status, owner, effect, again>>

Closed == {"succeeded", "failed", "abandoned"}

Init ==
  /\ status = [o \in Ops |-> "none"]
  /\ owner \in [Ops -> Printers]
  /\ effect = [o \in Ops |-> "unsent"]
  /\ again \in [Ops -> BOOLEAN]

Open(o, p) ==
  /\ status[o] = "none"
  /\ \A other \in Ops : ~(status[other] = "open" /\ owner[other] = p)
  /\ status' = [status EXCEPT ![o] = "open"]
  /\ owner' = [owner EXCEPT ![o] = p]
  /\ \E b \in BOOLEAN : again' = [again EXCEPT ![o] = b]
  /\ UNCHANGED effect

Dispatch(o) ==
  /\ status[o] = "open" /\ effect[o] = "unsent"
  /\ effect' = [effect EXCEPT ![o] = "pending"]
  /\ UNCHANGED <<status, owner, again>>

Happen(o) ==
  /\ effect[o] = "pending"
  /\ effect' = [effect EXCEPT ![o] = "happened"]
  /\ UNCHANGED <<status, owner, again>>

Vanish(o) ==
  /\ effect[o] = "pending"
  /\ effect' = [effect EXCEPT ![o] = "void"]
  /\ UNCHANGED <<status, owner, again>>

Close(o, s) ==
  /\ status[o] = "open"
  /\ status' = [status EXCEPT ![o] = s]
  /\ UNCHANGED <<owner, effect, again>>

Harmless(o) ==
  /\ effect[o] # "pending"
  /\ effect[o] = "happened" => again[o]

\* A restart can fail operations of several Printers at once.
Fail(S) ==
  /\ \A o \in S : status[o] = "open" /\ Harmless(o)
  /\ status' = [o \in Ops |-> IF o \in S THEN "failed" ELSE status[o]]
  /\ UNCHANGED <<owner, effect, again>>

\* Deleting a Printer takes its closed operations with it.
Forget(p) ==
  /\ \A o \in Ops : ~(status[o] = "open" /\ owner[o] = p)
  /\ status' = [o \in Ops |-> IF owner[o] = p /\ status[o] \in Closed THEN "gone" ELSE status[o]]
  /\ UNCHANGED <<owner, effect, again>>

Next ==
  \/ \E o \in Ops : \/ Dispatch(o) \/ Happen(o) \/ Vanish(o)
                    \/ \E p \in Printers : Open(o, p)
                    \/ \E s \in {"succeeded", "abandoned"} : Close(o, s)
  \/ \E S \in SUBSET Ops : Fail(S)
  \/ \E p \in Printers : Forget(p)

Spec == Init /\ [][Next]_vars
=============================================================================

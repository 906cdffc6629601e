------------------------- MODULE HostOpsRefinement -------------------------
(***************************************************************************)
(* The Host Operations implement HostWrites: an unresolved row is an open  *)
(* operation, and what became of the request on the network is its effect. *)
(***************************************************************************)
EXTENDS HostOps

StatusOf(s) == CASE s = "absent" -> "none"
                 [] s \in Unresolved -> "open"
                 [] s = "deleted" -> "gone"
                 [] OTHER -> s

EffectOf(n) == CASE n = "none" -> "unsent"
                 [] n = "flying" -> "pending"
                 [] n = "applied" -> "happened"
                 [] OTHER -> "void"

Writes == INSTANCE HostWrites WITH
  status <- [o \in Ops |-> StatusOf(row[o].state)],
  owner <- [o \in Ops |-> row[o].printer],
  effect <- [o \in Ops |-> EffectOf(net[o])],
  again <- [o \in Ops |-> row[o].kind = "upload"]

\* Every behaviour of the Host Operations is one of HostWrites: at most one open
\* write per Printer, each sent at most once, and none declared failed that has
\* happened or can still happen.
ImplementsWrites == Writes!Spec
=============================================================================

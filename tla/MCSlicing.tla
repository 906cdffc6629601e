----------------------------- MODULE MCSlicing -----------------------------
(* Slicing for TLC: two Models with the same bytes, operations that share  *)
(* one log text, and an owner per log and per revision.                    *)
EXTENDS Slicing
TwoModels == {<<"model", "a">>, <<"model", "b">>}
OneModel == {<<"model", "a">>}
MCLog == [o \in Ops |-> <<"log", o>>]
MCRev == [o \in Ops |-> <<"rev", o>>]
MCModelOf == [o \in Ops |-> <<"model", "a">>]
MCOwners == TwoModels \cup {MCLog[o] : o \in Ops} \cup {MCRev[o] : o \in Ops}
\* What the users do, by plan.
Asks(start, cancel, model, preparation, revision, import, copy, clear) ==
    [start |-> start, cancel |-> cancel, model |-> model, preparation |-> preparation,
     revision |-> revision, import |-> import, copy |-> copy, clear |-> clear]
MCPlans == {Asks(2, 2, 0, 0, 0, 0, 0, 0),   \* cancels race starts and the worker
            Asks(1, 1, 1, 0, 0, 0, 0, 0),   \* a Model goes under its slices
            Asks(1, 0, 1, 0, 0, 1, 0, 0),   \* and comes back
            Asks(1, 0, 0, 0, 1, 0, 1, 0),   \* a backup meets deletions
            Asks(2, 0, 0, 1, 0, 0, 0, 1),   \* unpublished logs are pruned and swept
            Asks(0, 0, 1, 0, 0, 2, 1, 1)}   \* imports of the same bytes race their cleanup
MCContentOf == [x \in MCOwners |-> CASE x[1] = "model" -> {"m"} [] x[1] = "log" -> {"log"}
                                      [] OTHER -> {"gcode", "log"}]
=============================================================================

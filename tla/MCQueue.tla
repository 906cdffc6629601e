------------------------------ MODULE MCQueue ------------------------------
(* Queue for TLC: two Printers, a Slice any of them prints and one with    *)
(* unconfirmed facts, and what the operator and the farm do, by plan.      *)
EXTENDS Queue, TLC
CONSTANTS plain, unsure
MCAsked == {<<plain, "automatic", None>>, <<plain, "recommended", None>>}
               \cup {<<unsure, "manual", p>> : p \in Printers}
Symmetry == Permutations(Printers) \cup Permutations(Spools)
MCEstimate == [x \in Slices |-> 1]
MCFits == Slices \X Printers
MCSuits == Slices \X Spools
Does(add, edit, move, remove, assign, release, end, retry) ==
    [add |-> add, edit |-> edit, move |-> move, remove |-> remove, assign |-> assign,
     release |-> release, end |-> end, retry |-> retry]
Meets(status, foreign, archive, reel, fault, restart) ==
    [status |-> status, foreign |-> foreign, archive |-> archive, spool |-> reel,
     fault |-> fault, restart |-> restart]
Plan(does, meets) == [k \in Kinds |-> IF k \in DOMAIN does THEN does[k] ELSE meets[k]]
MCPlans == {Plan(Does(3, 0, 1, 1, 0, 0, 1, 0), Meets(0, 0, 0, 0, 0, 0)),   \* the order
            Plan(Does(2, 0, 0, 0, 0, 1, 2, 1), Meets(0, 0, 0, 0, 0, 0)),   \* lineages
            Plan(Does(2, 1, 0, 1, 1, 0, 0, 0), Meets(0, 0, 0, 0, 1, 0)),   \* races with a run
            Plan(Does(1, 0, 0, 0, 1, 0, 0, 0), Meets(1, 0, 0, 0, 0, 0)),   \* a copied status
            Plan(Does(1, 0, 0, 0, 0, 0, 0, 0), Meets(2, 1, 0, 0, 0, 1)),   \* a busy Printer
            Plan(Does(1, 0, 0, 0, 0, 0, 0, 0), Meets(0, 0, 2, 1, 0, 0)),   \* loads and archives
            Plan(Does(1, 0, 0, 0, 0, 0, 0, 0), Meets(2, 0, 0, 0, 2, 0))}   \* failing runs
Flaps == {Plan(Does(1, 0, 0, 0, 0, 0, 0, 0), Meets(2, 0, 0, 0, 0, 0))}
=============================================================================

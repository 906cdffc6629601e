------------------------------ MODULE MCSpools ------------------------------
(* Values for the constants of Spools, and where its tables start.         *)
EXTENDS Spools

CONSTANTS p1, p2, a, b, c, s1, s2, s3

OwnerOf == [l \in Slots |-> IF l = c THEN p2 ELSE p1]
Usage(kinds, many, jobs) == [kinds |-> kinds, sent |-> many, jobs |-> jobs]

\* Spools move between Printers that are archived; slots and Printers come and go; and
\* Jobs reserve what people move, measure, empty and archive.
AllUsages ==
  {Usage({"move", "archive", "unarchive"}, 3, {}), Usage({"move", "layout", "create"}, 3, {}),
   Usage({"lifecycle", "amount"}, 2, Jobs), Usage({"lifecycle", "archive"}, 2, {1})}

\* s1 is in a; the second Printer is there, with its slot, unless Printers are created.
MCInit ==
  /\ Init
  /\ \A s \in Spools : spool[s].loc = a <=> s = s1
  /\ \A s \in Spools \ {s1} : spool[s].loc \in Shelves
  /\ printer[p1].state = "active" /\ slot[a] = "live"
  /\ slot[b] = "live" <=> "layout" \notin usage.kinds
  /\ printer[p2].state = "active" <=> "create" \notin usage.kinds
  /\ slot[c] = "live" <=> "create" \notin usage.kinds
MCSpec == MCInit /\ [][Next]_vars
=============================================================================

------------------------------ MODULE MCFiles -------------------------------
(***************************************************************************)
(* Installer, Links and Legacy for TLC.  They share nothing, so each       *)
(* behaviour is of one of them and the others stay where they start.       *)
(***************************************************************************)
EXTENDS Installer, Links, Legacy

CONSTANTS m1, m2, top, mid, low, below, above

VARIABLE part

MCBlobsOf == [x \in Farms |-> IF x = 0 THEN {"b1"} ELSE {"b1", "b2"}]
MCRefsOf == [x \in Farms |-> IF x = 0 THEN {"r1"} ELSE {"r2"}]

\* below lies at the end of a chain of folders, above one folder up.
MCFolderOf == [x \in Paths |-> IF x = below THEN low ELSE mid]
MCAncestors == [x \in Folders |-> CASE x = low -> <<low, mid, top>> [] x = mid -> <<mid, top>> [] OTHER -> <<top>>]

Trying(edits, folders, links, ends, checks, faultsToo, restarts) ==
  [edits |-> edits, folders |-> folders, links |-> links, ends |-> ends, checks |-> checks,
   faults |-> faultsToo, restarts |-> restarts]

\* Files change while one Model is linked, or two are; folders come and go, under one Model
\* or two; commands and changes during the pass of a start, and restarts; failed checks.
MCEfforts ==
  {Trying(1, 0, 1, 0, 1, 0, 0), Trying(1, 0, 2, 0, 0, 0, 0), Trying(1, 3, 0, 0, 0, 0, 0),
   Trying(0, 3, 0, 1, 0, 0, 0), Trying(1, 0, 1, 0, 0, 0, 1), Trying(1, 1, 0, 0, 0, 0, 1),
   Trying(1, 1, 1, 0, 0, 0, 0), Trying(2, 1, 0, 0, 0, 1, 0), Trying(2, 0, 0, 0, 1, 0, 0)}

\* m1 is linked to below, and m2 to above where links end.
MCLinksInit ==
  /\ disk = [folders |-> Folders, file |-> [x \in Paths |-> IF x = below THEN 1 ELSE 2],
             made |-> <<[path |-> below, content |-> "x"], [path |-> above, content |-> "x"]>>]
  /\ LinksInit
  /\ linkRow[m1].path = below /\ linkRow[m2].path = IF effort.ends > 0 THEN above ELSE Nothing
  /\ pass.pc = "list" <=> effort.restarts > 0

\* A crash or an error at two starts, edits of the files, or both.
MCChances == {[edits |-> 1, faults |-> 1, starts |-> 3], [edits |-> 0, faults |-> 2, starts |-> 3],
              [edits |-> 2, faults |-> 0, starts |-> 2]}
MCLegacyInit ==
  /\ LegacyInit
  /\ "x" \in {place[Settings], place[Printers]}
  /\ IF chance.edits = 1 THEN "y" \notin {place[Settings], place[Printers]}
     ELSE place[Settings] = "x" /\ place[Printers] # "new"

MCInit ==
  /\ part \in {"installer", "links", "legacy"} /\ Init /\ MCLinksInit /\ MCLegacyInit
  /\ part # "installer" => root.wal = NoFarm /\ media.live = NoFarm /\ store = RefsOf[0]
  /\ part # "links" => effort = CHOOSE e \in Efforts : TRUE
  /\ part # "legacy" => chance.edits = 2 /\ place[Printers] = "x"

MCNext ==
  \/ part = "installer" /\ Next /\ UNCHANGED <<linked, legacy, part>>
  \/ part = "links" /\ LinksNext /\ UNCHANGED <<vars, legacy, part>>
  \/ part = "legacy" /\ LegacyNext /\ UNCHANGED <<vars, linked, part>>

\* Installer's Fairness, which asks nothing of the others.
MCFairness == /\ WF_vars(part = "installer" /\ Step)
              /\ WF_vars(part = "installer" /\ Waiting(journal) /\ Quit)
MCSpec == MCInit /\ [][MCNext]_<<vars, linked, legacy, part>> /\ MCFairness
=============================================================================

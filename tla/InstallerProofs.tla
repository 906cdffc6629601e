-------------------------- MODULE InstallerProofs --------------------------
(***************************************************************************)
(* Theorems of the installer, for any credential references, blobs and     *)
(* backups, any number of restores and resets, and any number of crashes   *)
(* and I/O errors.                                                         *)
(***************************************************************************)
EXTENDS Installer, FiniteSetTheorems, TLAPS

Kinds == {"restore", "reset"}
StepNames == Steps("restore") \cup Steps("reset") \cup {"none", "recheckBlockers", "markInstalling", "markDone"}
AnyFarm == Farms \cup {NoFarm}
Markers == [from : -1..8, mediaRestored : BOOLEAN, candidateCleared : BOOLEAN]
Journals == [id : Farms, kind : Kinds, phase : Phases, step : StepNames, attempts : Nat,
             swap : {"none", "absent", "existed"}, rollback : Markers,
             failure : {"none", "blocked", "stagingExpired", "backupInvalid", "restoreFailed"},
             carry : SUBSET Refs, orphans : SUBSET Refs]
FarmRow == [used : SUBSET Refs, auto : SUBSET Refs, orphan : SUBSET Refs, blobs : SUBSET Blobs, tree : BOOLEAN]

FilesTyped ==
    /\ root \in [main : AnyFarm, wal : AnyFarm, partial : AnyFarm]
    /\ aside \in [main : AnyFarm, wal : AnyFarm]
    /\ staging \in [candidate : AnyFarm, blobs : SUBSET Blobs, media : AnyFarm]
    /\ media \in [live : AnyFarm, previous : AnyFarm, aside : AnyFarm, moved : Farms]
    /\ content \in [stored : SUBSET Blobs, aside : SUBSET Blobs, moved : Farms]
    /\ db \in [Farms -> FarmRow] /\ store \in SUBSET Refs

InstallerTyped ==
    /\ journal \in Journals \cup {NoJournal} /\ mem \in Journals \cup {NoJournal}
    /\ cause \in {"crash", "io", "invalid"}
    /\ FilesTyped /\ late \in SUBSET Refs
    /\ before \in Farms /\ round \in Farms /\ faults \in Nat

Tree(f) == IF db[f].tree THEN f ELSE NoFarm
Known(f) == store \subseteq db[f].used \cup db[f].auto \cup db[f].orphan \cup late

Whole(f) ==
    /\ root.main = f /\ root.wal \in {NoFarm, f} /\ root.partial = NoFarm /\ aside = NoFiles
    /\ media.live = Tree(f) /\ media.previous = NoFarm
    /\ db[f].blobs \subseteq content.stored
    /\ Known(f)

\* The old database and its log, each in the root or aside.
Split ==
    /\ \/ root.main = before /\ aside.main = NoFarm
       \/ root.main = NoFarm /\ aside.main = before
    /\ \/ root.wal \in {NoFarm, before} /\ aside.wal = NoFarm
       \/ root.wal = NoFarm /\ aside.wal = before
    /\ root.partial = NoFarm
\* Both aside, and in the root what is installed.
Apart ==
    /\ aside.main = before /\ aside.wal \in {NoFarm, before}
    /\ root.main \in {NoFarm, round} /\ root.wal \in {NoFarm, round} /\ root.partial \in {NoFarm, round}
\* The trees while they are swapped, by what the journal says there was.
Swapping(swap) ==
    LET now(live, previous, staged) ==
          media.live = live /\ media.previous = previous /\ staging.media = staged
    IN \/ swap # "existed" /\ now(Tree(before), NoFarm, round)
       \/ swap = "absent" /\ ~db[before].tree
            /\ now(round, NoFarm, NoFarm)
       \/ swap = "existed" /\ db[before].tree
            /\ \/ now(before, NoFarm, round) \/ now(NoFarm, before, round) \/ now(round, before, NoFarm)

\* The first of the steps whose effects a rollback takes back.
From(j) == IF j.rollback = NoMarker THEN Place("restore", j.step) ELSE j.rollback.from

New(f) ==
    /\ root.main = f /\ root.wal = NoFarm /\ root.partial = NoFarm
    /\ aside.main \in {NoFarm, before} /\ aside.wal \in {NoFarm, before}
    /\ media.live = Tree(f) /\ db[f].blobs \subseteq content.stored /\ Known(f)

RestoreHolds(j) ==
    /\ db[before].blobs \subseteq content.stored /\ Known(before)
    /\ staging.candidate = round /\ Swapping(j.swap)
    /\ j.swap = "absent" => ~db[before].tree
    /\ j.rollback.mediaRestored => j.swap = "none"
    /\ IF From(j) < 2 \/ j.rollback.candidateCleared THEN Split ELSE Apart
ResetHolds(j) ==
    LET s == Place("reset", j.step)
    IN /\ root.partial = NoFarm
       /\ s <= 1 => Split
       /\ s \in 2..3 => Apart
       /\ s = 2 => root.main = NoFarm /\ root.wal = NoFarm
       /\ s >= 4 => /\ root.main = round /\ root.wal = NoFarm
                    /\ aside.main \in {NoFarm, before} /\ aside.wal \in {NoFarm, before}
       /\ media.moved = round \/ s >= 3 => media.live = NoFarm
       /\ s = 5 => Known(round)

\* What a start that finds j can go on from.
Recoverable(j) ==
    /\ store \subseteq j.orphans \cup db[round].used \cup late
    /\ j.carry \subseteq j.orphans
    /\ CASE j.phase = "pending" -> Whole(before) /\ j.swap = "none" /\ j.rollback = NoMarker
                                   /\ (j.kind = "reset" => media.moved # round)
                                   /\ (j.kind = "restore" => /\ staging.candidate \in {NoFarm, round}
                                                              /\ staging.media \in {NoFarm, round})
         [] j.phase = "installed" -> New(round) /\ j.kind = "restore" /\ j.rollback = NoMarker
         [] j.phase = "installing" /\ j.kind = "restore" -> RestoreHolds(j)
         [] OTHER -> ResetHolds(j)

Sound ==
    /\ Waiting(journal) => Recoverable(journal)
    /\ ~Waiting(journal) => Whole(Owed)

Running == pc \notin Down \cup {Up, Opening}

\* The run's copy is what is on disk, but for a restore whose record of a step failed.
Ahead ==
    /\ pc \in {Loop, <<"rollback", 0>>, <<"removePrevious", 0>>}
    /\ journal.kind = "restore" /\ journal.phase = "installing" /\ mem.phase \in {"installing", "installed"}
    /\ mem.id = journal.id /\ mem.kind = journal.kind /\ mem.attempts = journal.attempts
    /\ mem.carry = journal.carry /\ mem.orphans = journal.orphans
    /\ journal.rollback = NoMarker /\ mem.rollback = NoMarker
    /\ Recoverable(mem)

\* What a journal says and the tables hold besides.
Tied ==
    /\ before <= round /\ media.moved <= round
    /\ Waiting(journal) => /\ journal.id = round /\ before < round
                           /\ db[round].tree = (journal.kind = "restore")
                           /\ (journal.kind = "reset" => db[round].blobs = {})
Durable == InstallerTyped /\ Sound /\ Tied

Ordered ==
    /\ pc \in Down \cup {Up} => mem = NoJournal
    /\ Waiting(journal) => pc # Opening /\ (pc = Up => journal.phase = "pending" /\ journal.attempts = 0)
    /\ ~Waiting(journal) => ~Running \/ pc = <<"discard", 0>>
    /\ Running => mem # NoJournal /\ (mem = journal \/ Ahead)

Forward == {"moveDatabaseAside", "placeCandidate", "carryLocalState", "extractContent",
            "swapMedia", "validate", "markInstalled"}
Back == {"rollback", "restoreMedia", "clearCandidate", "moveBack"}

\* Faults and attempts.
Counted ==
    /\ journal.phase = "failed" /\ journal.failure = "restoreFailed" => faults >= 2
    /\ Waiting(journal) /\ journal.kind = "restore" =>
          /\ faults + 1 >= journal.attempts
          /\ journal.phase = "pending" \/ pc \in Down => faults >= journal.attempts
          /\ pc[1] \in Back \cup {"loop"} /\ cause # "invalid" => faults >= journal.attempts

\* Where the run of a restore is, and of a reset: each point adds what its next step relies on.
Late == {"carryLocalState", "extractContent", "swapMedia", "validate", "markInstalled"}
RestoreAt ==
    LET p == pc[1]
        n == pc[2]
    IN /\ p \in {"loop", "recheckBlockers", "markInstalling", "removePrevious", "markDone", "discard"}
             \cup Forward \cup Back
       /\ p \in {"recheckBlockers", "markInstalling"} => mem.phase = "pending"
       /\ p = "markInstalling" => staging.candidate = round /\ staging.media = round
       /\ p \in Forward =>
            /\ mem.phase = "installing" /\ mem.rollback = NoMarker
            /\ n > 0 => mem.step = p
            /\ p \notin {"swapMedia", "validate", "markInstalled"} => mem.swap = "none"
            /\ IF p = "moveDatabaseAside" THEN Split ELSE Apart
            /\ p \in Late => root.main = round /\ root.partial = NoFarm
       /\ p = "moveDatabaseAside" /\ n = 2 => root.main = NoFarm
       /\ p = "placeCandidate" /\ n = 2 => root.partial = round
       /\ p = "swapMedia" =>
            /\ n < 2 => mem.swap = "none"
            /\ n >= 2 => mem.swap # "none" /\ staging.media = round
            /\ n = 2 => media.live = Tree(before) /\ media.previous = NoFarm
                        /\ (mem.swap = "existed" => db[before].tree)
            /\ n = 3 => media.live = NoFarm
       /\ p \in {"validate", "markInstalled"} => media.live = round
       /\ p = "markInstalled" => New(round)
       /\ p = "removePrevious" => mem.phase = "installed"
       /\ p \in Back =>
            /\ mem.phase = "installing"
            /\ p # "rollback" => mem.rollback # NoMarker
            /\ p \in {"clearCandidate", "moveBack"} => mem.rollback.mediaRestored
            /\ p = "moveBack" => mem.rollback.candidateCleared
       /\ p = "restoreMedia" =>
            /\ n > 0 => ~mem.rollback.mediaRestored
            /\ n = 1 /\ media.live # NoFarm =>
                  mem.swap # "absent" /\ (mem.swap = "existed" => media.previous = NoFarm)
            /\ n = 2 => media.live = Tree(before) /\ media.previous = NoFarm /\ staging.media = round
       /\ p = "clearCandidate" =>
            /\ n > 0 => ~mem.rollback.candidateCleared
            /\ n \in 1..3 => From(mem) >= 2
            /\ n \in 2..3 => root.main = NoFarm
            /\ n = 3 => root.wal = NoFarm
            /\ n = 4 => Split
       /\ p = "moveBack" =>
            /\ n > 0 => aside.main = NoFarm
            /\ n = 2 => aside.wal = NoFarm
       /\ p = "discard" => mem.phase = "failed"

ResetAt ==
    LET p == pc[1]
        n == pc[2]
        s == Place("reset", p)
    IN /\ p \in Steps("reset") \cup {"markInstalling", "markDone"}
       /\ mem.phase = IF p = "markInstalling" THEN "pending" ELSE "installing"
       /\ p \in Steps("reset") =>
            /\ n > 0 => mem.step = p
            /\ s = 1 => Split
            /\ s \in 2..3 => Apart
            /\ s = 2 => root.main = NoFarm /\ root.wal = NoFarm
            /\ s >= 3 => media.live = NoFarm
            /\ s >= 4 => root.main = round /\ root.wal = NoFarm
            /\ s = 5 => Known(round)
       /\ p = "moveDatabaseAside" /\ n = 2 => root.main = NoFarm
       /\ p = "createFreshDatabase" =>
            /\ n \in 2..3 => root.main = NoFarm
            /\ n = 3 => root.wal = NoFarm
            /\ n = 4 => root.main = round

Ending ==
    LET p == pc[1]
        n == pc[2]
    IN /\ p = "removePrevious" /\ n = 2 => aside = NoFiles
       /\ p = "markDone" =>
            /\ aside = NoFiles /\ media.previous = NoFarm
            /\ mem.phase = IF mem.kind = "restore" THEN "installed" ELSE "installing"
            /\ New(round)

Staged == Running => /\ mem.kind = "restore" => RestoreAt
                     /\ mem.kind = "reset" => ResetAt
                     /\ Ending

InstallerInv == Durable /\ Ordered /\ Counted /\ Staged

---------------------------------------------------------------------------
(* Steps and their places.                                                 *)

LEMMA StepsAre ==
  /\ Steps("restore") = {"moveDatabaseAside", "placeCandidate", "carryLocalState", "extractContent",
                         "swapMedia", "validate", "markInstalled", "removePrevious"}
  /\ Steps("reset") = {"moveDatabaseAside", "moveRootsAside", "createFreshDatabase",
                       "deleteCredentials", "removePrevious"}
<1>1. /\ DOMAIN StepsOf("restore") = 1..8 /\ DOMAIN StepsOf("reset") = 1..5
      /\ StepsOf("restore") = <<"moveDatabaseAside", "placeCandidate", "carryLocalState", "extractContent",
                                "swapMedia", "validate", "markInstalled", "removePrevious">>
      /\ StepsOf("reset") = <<"moveDatabaseAside", "moveRootsAside", "createFreshDatabase",
                              "deleteCredentials", "removePrevious">>
  BY DEF StepsOf
<1>2. /\ 1..8 = {1, 2, 3, 4, 5, 6, 7, 8} /\ 1..5 = {1, 2, 3, 4, 5}
  OBVIOUS
<1>3. Steps("restore") = {StepsOf("restore")[i] : i \in {1, 2, 3, 4, 5, 6, 7, 8}}
  BY <1>1, <1>2, Zenon DEF Steps
<1>4. Steps("reset") = {StepsOf("reset")[i] : i \in {1, 2, 3, 4, 5}}
  BY <1>1, <1>2, Zenon DEF Steps
<1> QED  BY <1>1, <1>3, <1>4

LEMMA PlaceOf ==
  ASSUME NEW kind \in Kinds, NEW i \in DOMAIN StepsOf(kind)
  PROVE  Place(kind, StepsOf(kind)[i]) = i
<1>1. \A m, n \in DOMAIN StepsOf(kind) : StepsOf(kind)[m] = StepsOf(kind)[n] => m = n
  <2>1. CASE kind = "restore"
    BY <2>1 DEF StepsOf
  <2>2. CASE kind = "reset"
    BY <2>2 DEF StepsOf
  <2> QED  BY <2>1, <2>2 DEF Kinds
<1>2. StepsOf(kind)[i] \in Steps(kind)
  BY Zenon DEF Steps
<1>3. Place(kind, StepsOf(kind)[i]) = CHOOSE m \in DOMAIN StepsOf(kind) : StepsOf(kind)[m] = StepsOf(kind)[i]
  BY <1>2, Zenon DEF Place
<1> QED  BY <1>1, <1>3, Zenon

LEMMA PlacesAre ==
  /\ Place("restore", "moveDatabaseAside") = 1 /\ Place("restore", "placeCandidate") = 2
  /\ Place("restore", "carryLocalState") = 3 /\ Place("restore", "extractContent") = 4
  /\ Place("restore", "swapMedia") = 5 /\ Place("restore", "validate") = 6
  /\ Place("restore", "markInstalled") = 7 /\ Place("restore", "removePrevious") = 8
  /\ Place("reset", "moveDatabaseAside") = 1 /\ Place("reset", "moveRootsAside") = 2
  /\ Place("reset", "createFreshDatabase") = 3 /\ Place("reset", "deleteCredentials") = 4
  /\ Place("reset", "removePrevious") = 5
  /\ \A s : s \notin Steps("restore") => Place("restore", s) = 0
  /\ \A s : s \notin Steps("reset") => Place("reset", s) = 0
<1>1. \A i \in 1..8 : Place("restore", StepsOf("restore")[i]) = i
  BY PlaceOf DEF Kinds, StepsOf
<1>2. \A i \in 1..5 : Place("reset", StepsOf("reset")[i]) = i
  BY PlaceOf DEF Kinds, StepsOf
<1>3. /\ StepsOf("restore")[1] = "moveDatabaseAside" /\ StepsOf("restore")[2] = "placeCandidate"
      /\ StepsOf("restore")[3] = "carryLocalState" /\ StepsOf("restore")[4] = "extractContent"
      /\ StepsOf("restore")[5] = "swapMedia" /\ StepsOf("restore")[6] = "validate"
      /\ StepsOf("restore")[7] = "markInstalled" /\ StepsOf("restore")[8] = "removePrevious"
  BY DEF StepsOf
<1>4. /\ StepsOf("reset")[1] = "moveDatabaseAside" /\ StepsOf("reset")[2] = "moveRootsAside"
      /\ StepsOf("reset")[3] = "createFreshDatabase" /\ StepsOf("reset")[4] = "deleteCredentials"
      /\ StepsOf("reset")[5] = "removePrevious"
  BY DEF StepsOf
<1>5. /\ \A s : s \notin Steps("restore") => Place("restore", s) = 0
      /\ \A s : s \notin Steps("reset") => Place("reset", s) = 0
  BY Zenon DEF Place
<1>6. /\ 1 \in 1..8 /\ 2 \in 1..8 /\ 3 \in 1..8 /\ 4 \in 1..8 /\ 5 \in 1..8 /\ 6 \in 1..8 /\ 7 \in 1..8 /\ 8 \in 1..8
      /\ 1 \in 1..5 /\ 2 \in 1..5 /\ 3 \in 1..5 /\ 4 \in 1..5 /\ 5 \in 1..5
  OBVIOUS
<1> HIDE DEF Place
<1> QED  BY <1>1, <1>2, <1>3, <1>4, <1>5, <1>6

LEMMA NextSteps ==
  /\ mem.kind = "restore" =>
       /\ StepAt(mem.kind, 1) = <<"moveDatabaseAside", 0>>
       /\ Next1("moveDatabaseAside") = <<"placeCandidate", 0>>
       /\ Next1("placeCandidate") = <<"carryLocalState", 0>>
       /\ Next1("carryLocalState") = <<"extractContent", 0>>
       /\ Next1("extractContent") = <<"swapMedia", 0>>
       /\ Next1("swapMedia") = <<"validate", 0>>
       /\ Next1("validate") = <<"markInstalled", 0>>
       /\ Next1("markInstalled") = <<"removePrevious", 0>>
  /\ mem.kind = "reset" =>
       /\ StepAt(mem.kind, 1) = <<"moveDatabaseAside", 0>>
       /\ Next1("moveDatabaseAside") = <<"moveRootsAside", 0>>
       /\ Next1("moveRootsAside") = <<"createFreshDatabase", 0>>
       /\ Next1("createFreshDatabase") = <<"deleteCredentials", 0>>
       /\ Next1("deleteCredentials") = <<"removePrevious", 0>>
<1>1. /\ StepAt("restore", 1) = <<"moveDatabaseAside", 0>> /\ StepAt("restore", 2) = <<"placeCandidate", 0>>
      /\ StepAt("restore", 3) = <<"carryLocalState", 0>> /\ StepAt("restore", 4) = <<"extractContent", 0>>
      /\ StepAt("restore", 5) = <<"swapMedia", 0>> /\ StepAt("restore", 6) = <<"validate", 0>>
      /\ StepAt("restore", 7) = <<"markInstalled", 0>> /\ StepAt("restore", 8) = <<"removePrevious", 0>>
  BY DEF StepAt, StepsOf
<1>2. /\ StepAt("reset", 1) = <<"moveDatabaseAside", 0>> /\ StepAt("reset", 2) = <<"moveRootsAside", 0>>
      /\ StepAt("reset", 3) = <<"createFreshDatabase", 0>> /\ StepAt("reset", 4) = <<"deleteCredentials", 0>>
      /\ StepAt("reset", 5) = <<"removePrevious", 0>>
  BY DEF StepAt, StepsOf
<1>3. 1 + 1 = 2 /\ 2 + 1 = 3 /\ 3 + 1 = 4 /\ 4 + 1 = 5 /\ 5 + 1 = 6 /\ 6 + 1 = 7 /\ 7 + 1 = 8
  OBVIOUS
<1>4. CASE mem.kind = "restore"
  BY <1>1, <1>3, <1>4, PlacesAre, Zenon DEF Next1
<1>5. CASE mem.kind = "reset"
  BY <1>2, <1>3, <1>5, PlacesAre, Zenon DEF Next1
<1> QED  BY <1>4, <1>5

---------------------------------------------------------------------------
(* What holds at a step, and after a fault.                                *)

LEMMA WaitingTyped ==
  ASSUME InstallerTyped
  PROVE  /\ Waiting(journal) => journal \in Journals
         /\ mem # NoJournal => mem \in Journals
         /\ NoJournal \notin Journals /\ ~Waiting(NoJournal)
  BY DEF InstallerTyped, FilesTyped, Waiting, Unfinished, NoJournal, Journals, Phases

\* A run that is going on, at a step whose record is on disk.
InStep == Running /\ mem = journal /\ pc[1] # "discard"

LEMMA StepHolds ==
  ASSUME InstallerInv, InStep
  PROVE  /\ Waiting(mem) /\ mem \in Journals /\ mem.kind \in Kinds /\ mem.id = round
         /\ Recoverable(mem) /\ before < round /\ before \in Farms /\ round \in Farms
         /\ db[round].tree = (mem.kind = "restore")
         /\ mem.kind = "reset" => db[round].blobs = {}
         /\ mem.kind = "restore" => RestoreAt
         /\ mem.kind = "reset" => ResetAt
         /\ Ending
<1>1. Waiting(journal)
  BY DEF InstallerInv, Ordered, InStep
<1>2. journal \in Journals
  BY <1>1, WaitingTyped DEF InstallerInv, Durable
<1> QED  BY <1>1, <1>2 DEF InstallerInv, Durable, Sound, Tied, Staged, InStep, InstallerTyped, FilesTyped, Journals

LEMMA AtStep ==
  ASSUME InstallerInv, NEW p, NEW n, At(p, n),
         p \in {"recheckBlockers", "markInstalling", "restoreMedia", "clearCandidate", "moveBack", "markDone"}
               \cup Forward \cup Steps("reset"),
         p = "removePrevious" => n # 0
  PROVE  InStep /\ pc[1] = p /\ pc[2] = n
<1>1. pc = <<p, n>> /\ pc[1] = p /\ pc[2] = n
  BY DEF At
<1>2. Running
  BY <1>1, StepsAre DEF Running, Down, Off, Stopped, Up, Opening, Forward
<1>3. pc \notin {Loop, <<"rollback", 0>>, <<"removePrevious", 0>>} /\ p # "discard"
  BY <1>1, StepsAre DEF Loop, Forward
<1> QED  BY <1>1, <1>2, <1>3 DEF InstallerInv, Ordered, Ahead, InStep

LEMMA StopKeeps ==
  ASSUME InstallerInv, Durable', pc' = Stopped, mem' = NoJournal,
         journal'.phase = "failed" /\ journal'.failure = "restoreFailed" => faults' >= 2,
         Waiting(journal') /\ journal'.kind = "restore" => faults' >= journal'.attempts
  PROVE  InstallerInv'
<1>1. ~Running' /\ pc' # Opening /\ pc' # Up /\ pc'[1] = "stopped"
  BY DEF Running, Down, Off, Stopped, Up, Opening
<1>2. Ordered'
  BY <1>1 DEF Ordered, Running, Down
<1>3. Counted'
  <2>1. Waiting(journal') => journal' \in Journals
    BY DEF Durable, InstallerTyped, FilesTyped, Waiting, Unfinished, NoJournal
  <2>2. faults' \in Nat
    BY DEF Durable, InstallerTyped, FilesTyped
  <2> QED  BY <1>1, <2>1, <2>2 DEF Counted, Waiting, Back, Journals
<1>4. Staged'
  BY <1>1 DEF Staged
<1> QED  BY <1>2, <1>3, <1>4 DEF InstallerInv

LEMMA LoopKeeps ==
  ASSUME InstallerInv, Durable', pc' = Loop, mem'.kind = "restore", mem' # NoJournal, mem' = journal' \/ Ahead',
         Waiting(journal'), journal'.kind = "restore", cause' # "invalid" => faults' >= journal'.attempts,
         faults' + 1 >= journal'.attempts, journal'.phase = "pending" => faults' >= journal'.attempts
  PROVE  InstallerInv'
<1>1. Running' /\ pc' # Opening /\ pc' # Up /\ pc'[1] = "loop" /\ pc' \notin Down
  BY DEF Running, Down, Off, Stopped, Up, Opening, Loop
<1>2. Ordered'
  BY <1>1 DEF Ordered
<1>3. Counted'
  BY <1>1 DEF Counted, Waiting, Unfinished
<1>4. Staged'
  BY <1>1 DEF Staged, RestoreAt, Ending, Forward, Back
<1> QED  BY <1>2, <1>3, <1>4 DEF InstallerInv

\* The error of a step that writes no journal.
LEMMA ErrorKeeps ==
  ASSUME InstallerInv, InStep, journal' = journal, Durable', faults' = faults + 1, ErrorTo(mem)
  PROVE  InstallerInv'
<1>1. /\ Waiting(mem) /\ mem \in Journals
  BY StepHolds
<1>2. faults \in Nat /\ journal.phase # "failed"
  BY <1>1 DEF InstallerInv, Durable, InstallerTyped, FilesTyped, InStep, Waiting, Unfinished
<1>3. journal.kind = "restore" => faults + 1 >= journal.attempts /\ (journal.phase = "pending" => faults >= journal.attempts)
  BY <1>1 DEF InstallerInv, Counted, InStep
<1>4. journal.attempts \in Nat /\ mem = journal
  BY <1>1 DEF Journals, InStep
<1>5. CASE RollsBack
  <2>1. pc' = Loop /\ mem' = mem /\ mem.kind = "restore"
    BY <1>5 DEF ErrorTo, RollsBack
  <2>2. mem # NoJournal
    BY <1>1, WaitingTyped DEF InstallerInv, Durable
  <2> QED  BY <1>1, <1>2, <1>3, <1>4, <2>1, <2>2, LoopKeeps
<1>6. CASE ~RollsBack
  <2>1. pc' = Stopped /\ mem' = NoJournal
    BY <1>6 DEF ErrorTo
  <2> QED  BY <1>2, <1>3, <1>4, <2>1, StopKeeps
<1> QED  BY <1>5, <1>6

\* A step of a run that writes no journal and goes on, or fails.
LEMMA MoveKeeps ==
  ASSUME InstallerInv, InStep, journal' = journal, Durable', NEW next,
         \/ pc' = next /\ UNCHANGED <<mem, cause, faults>>
         \/ Faulty /\ ErrorTo(mem),
         pc' = next /\ mem' = mem => Staged' /\ Running' /\ pc'[1] # "discard",
         next[1] \in Back \cup {"loop"} => pc[1] \in Back \cup {"loop"}
  PROVE  InstallerInv'
<1>1. CASE Faulty /\ ErrorTo(mem)
  BY <1>1, ErrorKeeps DEF Faulty
<1>2. CASE pc' = next /\ UNCHANGED <<mem, cause, faults>>
  <2>1. Waiting(mem) /\ mem \in Journals
    BY StepHolds
  <2>2. mem # NoJournal
    BY <2>1, WaitingTyped DEF InstallerInv, Durable
  <2>3. Ordered'
    BY <1>2, <2>1, <2>2 DEF Ordered, Running, InStep
  <2>4. Counted'
    BY <1>2 DEF InstallerInv, Counted, Running
  <2> QED  BY <1>2, <2>3, <2>4 DEF InstallerInv
<1> QED  BY <1>1, <1>2

LEMMA SameFiles ==
  ASSUME NEW j, UNCHANGED <<files, rest>>, Recoverable(j)
  PROVE  /\ journal' = j => Recoverable(journal)'
         /\ mem' = j => Recoverable(mem)'
<1>1. UNCHANGED <<root, aside, staging, media, content, db, store, late, before, defect, round>>
  BY DEF files, rest
<1> QED  BY <1>1, Zenon DEF Recoverable, Whole, New, RestoreHolds, ResetHolds, Known, Tree, Split, Apart, Swapping, From

\* journal j says what the one on disk says of its round.
Follows(j) ==
    /\ j \in Journals /\ j.id = mem.id /\ j.kind = mem.kind /\ j.carry = mem.carry /\ j.orphans = mem.orphans

\* A journal written on the way, or an error while it is.
LEMMA SaveDurable ==
  ASSUME InstallerInv, NEW copy, UNCHANGED <<files, rest>>, Running, Waiting(journal),
         journal' \in {journal, copy}, mem' \in {copy, NoJournal}, Follows(copy), Waiting(copy), Recoverable(copy),
         faults' \in Nat, cause' \in {"crash", "io", "invalid"}
  PROVE  Durable'
<1>1. /\ mem = journal \/ Ahead
      /\ Waiting(journal) /\ journal \in Journals /\ Recoverable(journal)
  BY WaitingTyped DEF InstallerInv, Durable, Ordered, Sound
<1>2. journal' \in Journals /\ Waiting(journal') /\ journal'.id = journal.id /\ journal'.kind = journal.kind
  BY <1>1 DEF Follows, Ahead
<1>3. Recoverable(journal)'
  BY <1>1, SameFiles
<1>4. InstallerTyped'
  BY <1>2 DEF InstallerInv, Durable, InstallerTyped, FilesTyped, Follows, files, rest
<1>5. Sound'
  BY <1>2, <1>3 DEF Sound
<1>6. Tied'
  BY <1>1, <1>2 DEF InstallerInv, Durable, Tied, files, rest
<1> QED  BY <1>4, <1>5, <1>6 DEF Durable

LEMMA SaveKeeps ==
  ASSUME InstallerInv, Running, Waiting(journal), NEW copy, NEW next, Save(copy, next),
         Follows(copy), Waiting(copy), Recoverable(copy),
         copy.kind = "restore" => faults + 1 >= copy.attempts,
         RollsBack => /\ mem = journal /\ journal.phase = "installing" /\ journal.rollback = NoMarker
                      /\ copy.attempts = journal.attempts /\ copy.phase \in {"installing", "installed"}
                      /\ copy.rollback = NoMarker,
         UNCHANGED <<files, rest>> /\ mem' = copy /\ pc' = next => Running' /\ pc'[1] # "discard" /\ Staged',
         copy.kind = "restore" /\ (copy.phase = "pending" \/ (next[1] \in Back \cup {"loop"} /\ cause # "invalid"))
            => faults >= copy.attempts
  PROVE  InstallerInv'
<1>1. /\ journal \in Journals /\ faults \in Nat /\ mem # NoJournal /\ copy # NoJournal
      /\ cause \in {"crash", "io", "invalid"}
  BY WaitingTyped DEF InstallerInv, Durable, InstallerTyped, FilesTyped, Ordered, Follows
<1>2. journal.attempts \in Nat /\ copy.attempts \in Nat
  BY <1>1 DEF Journals, Follows
<1>3. UNCHANGED <<files, rest>>
  BY DEF Save
<1>4. journal.kind = "restore" => faults + 1 >= journal.attempts
  BY DEF InstallerInv, Counted
<1>5. CASE journal' = copy /\ mem' = copy /\ pc' = next /\ UNCHANGED <<cause, faults>>
  <2>1. Durable'
    BY <1>1, <1>3, <1>5, SaveDurable
  <2>2. Running' /\ pc'[1] # "discard" /\ Staged'
    BY <1>3, <1>5
  <2>3. Ordered'
    BY <1>1, <1>5, <2>2 DEF Ordered, Running
  <2>4. Counted'
    BY <1>1, <1>2, <1>5, <2>2 DEF Counted, Running, Waiting, Unfinished
  <2> QED  BY <2>1, <2>2, <2>3, <2>4 DEF InstallerInv
<1>6. CASE journal' \in {journal, copy} /\ Faulty /\ ErrorTo(copy)
  <2>1. faults' = faults + 1 /\ journal'.phase # "failed"
    BY <1>6 DEF Faulty, Waiting, Unfinished
  <2>2. Waiting(journal') /\ (journal'.kind = "restore" => faults' >= journal'.attempts)
    BY <1>1, <1>2, <1>4, <1>6, <2>1
  <2>3. CASE RollsBack
    <3>1. pc' = Loop /\ cause' = "io" /\ mem' = copy /\ mem.kind = "restore" /\ mem = journal
      BY <1>6, <2>3 DEF ErrorTo, RollsBack
    <3>2. Durable'
      BY <1>1, <1>3, <1>6, <2>1, <3>1, SaveDurable
    <3>3. mem' = journal' \/ Ahead'
      <4>1. CASE journal' = copy
        BY <3>1, <4>1
      <4>2. CASE journal' = journal
        <5>1. Recoverable(mem)'
          BY <1>3, <3>1, SameFiles
        <5> QED  BY <2>3, <3>1, <4>2, <5>1 DEF Ahead, Follows
      <4> QED  BY <1>6, <4>1, <4>2
    <3>4. journal'.kind = "restore" /\ mem'.kind = "restore" /\ mem' # NoJournal
      BY <1>1, <1>6, <3>1 DEF Follows
    <3>5. faults' \in Nat /\ journal'.attempts \in Nat /\ faults' + 1 >= journal'.attempts
      BY <1>1, <1>2, <1>6, <2>1, <2>2, <3>4
    <3> QED  BY <2>2, <3>1, <3>2, <3>3, <3>4, <3>5, LoopKeeps
  <2>4. CASE ~RollsBack
    <3>1. pc' = Stopped /\ cause' = "crash" /\ mem' = NoJournal
      BY <1>6, <2>4 DEF ErrorTo
    <3>2. Durable'
      BY <1>1, <1>3, <1>6, <2>1, <3>1, SaveDurable
    <3> QED  BY <2>1, <2>2, <3>1, <3>2, StopKeeps
  <2> QED  BY <2>3, <2>4
<1> QED  BY <1>5, <1>6 DEF Save

\* A journal that is finished.
LEMMA EndKeeps ==
  ASSUME InstallerInv, Running, Waiting(journal), ~RollsBack, NEW copy, NEW next, Save(copy, next),
         Follows(copy), copy.phase \in {"done", "failed"},
         Whole(IF copy.phase = "failed" THEN before ELSE round),
         copy.phase = "failed" /\ copy.failure = "restoreFailed" => faults >= 2,
         next # Opening => next = <<"discard", 0>> /\ copy.phase = "failed" /\ copy.kind = "restore"
  PROVE  InstallerInv'
<1>1. /\ journal \in Journals /\ faults \in Nat /\ mem # NoJournal /\ copy # NoJournal /\ copy \in Journals
      /\ cause \in {"crash", "io", "invalid"} /\ Recoverable(journal) /\ journal.attempts \in Nat
  BY WaitingTyped DEF InstallerInv, Durable, InstallerTyped, FilesTyped, Ordered, Follows, Sound, Journals
<1>2. /\ UNCHANGED <<files, rest>>
      /\ UNCHANGED <<root, aside, staging, media, content, db, store, late, before, defect, round>>
  BY DEF Save, files, rest
<1>3. journal.kind = "restore" => faults + 1 >= journal.attempts
  BY DEF InstallerInv, Counted
<1>4. ASSUME journal' \in {journal, copy}, mem' \in {NoJournal, copy}, faults' \in Nat, cause' \in {"crash", "io", "invalid"}
      PROVE  Durable'
  <2>1. InstallerTyped'
    BY <1>1, <1>2, <1>4 DEF InstallerInv, Durable, InstallerTyped, FilesTyped
  <2>2. CASE journal' = journal
    <3>1. Recoverable(journal)'
      BY <1>1, <1>2, <2>2, SameFiles
    <3>2. Sound'
      BY <2>2, <3>1 DEF Sound
    <3>3. Tied'
      BY <1>2, <2>2 DEF InstallerInv, Durable, Tied
    <3> QED  BY <2>1, <3>2, <3>3 DEF Durable
  <2>3. CASE journal' = copy
    <3>1. ~Waiting(journal') /\ ~Waiting(copy)
      BY <2>3 DEF Waiting, Unfinished
    <3>2. Owed' = IF copy.phase = "failed" THEN before ELSE round
      BY <1>2, <2>3 DEF Owed
    <3>3. Whole(Owed)'
      BY <1>2, <3>2 DEF Whole, Tree, Known
    <3>4. Sound' /\ Tied'
      BY <1>2, <3>1, <3>3 DEF Sound, Tied, InstallerInv, Durable
    <3> QED  BY <2>1, <3>4 DEF Durable
  <2> QED  BY <1>4, <2>2, <2>3
<1>5. CASE journal' = copy /\ mem' = copy /\ pc' = next /\ UNCHANGED <<cause, faults>>
  <2>1. Durable'
    BY <1>1, <1>4, <1>5
  <2>2. ~Waiting(journal') /\ pc' \notin Down \cup {Up} /\ (Running' => pc' = <<"discard", 0>>)
        /\ (pc' # Opening => pc'[1] = "discard")
    BY <1>5 DEF Waiting, Unfinished, Running, Opening, Down, Off, Stopped, Up
  <2>3. Ordered' /\ Counted'
    BY <1>1, <1>5, <2>2 DEF Ordered, Counted, Waiting, Unfinished
  <2>4. Staged'
    BY <1>5, <2>2 DEF Staged, RestoreAt, Ending, Running, Forward, Back
  <2> QED  BY <2>1, <2>3, <2>4 DEF InstallerInv
<1>6. CASE journal' \in {journal, copy} /\ Faulty /\ ErrorTo(copy)
  <2>1. faults' = faults + 1 /\ pc' = Stopped /\ cause' = "crash" /\ mem' = NoJournal
    BY <1>6 DEF Faulty, ErrorTo
  <2>2. Durable'
    BY <1>1, <1>4, <1>6, <2>1
  <2>3. /\ journal'.phase = "failed" /\ journal'.failure = "restoreFailed" => faults' >= 2
        /\ Waiting(journal') /\ journal'.kind = "restore" => faults' >= journal'.attempts
    BY <1>1, <1>3, <1>6, <2>1 DEF Waiting, Unfinished
  <2> QED  BY <2>1, <2>2, <2>3, StopKeeps
<1> QED  BY <1>5, <1>6 DEF Save

---------------------------------------------------------------------------
(* The commands, starts and stops.                                         *)

LEMMA InstallerInvInit == Init => InstallerInv
<1> SUFFICES ASSUME Init  PROVE InstallerInv
  OBVIOUS
<1>1. /\ journal = NoJournal /\ mem = NoJournal /\ pc = Up /\ cause = "crash"
      /\ aside = NoFiles /\ staging = NoStaging /\ content = [stored |-> BlobsOf[0], aside |-> {}, moved |-> 0]
      /\ late = {} /\ before = 0 /\ defect = "none" /\ round = 0 /\ faults = 0
  BY DEF Init
<1>2. PICK wal \in {NoFarm, 0}, tree \in BOOLEAN, queued \in SUBSET (Refs \ RefsOf[0]) :
          /\ root = [main |-> 0, wal |-> wal, partial |-> NoFarm]
          /\ media = [live |-> IF tree THEN 0 ELSE NoFarm, previous |-> NoFarm, aside |-> NoFarm, moved |-> 0]
          /\ db = [f \in Farms |-> [used |-> RefsOf[f], auto |-> IF f = 0 THEN queued ELSE {},
                                    orphan |-> {}, blobs |-> BlobsOf[f], tree |-> tree]]
          /\ store = RefsOf[0] \cup queued
  BY Zenon DEF Init
<1>3. 0 \in Farms /\ 0 \in AnyFarm /\ NoFarm \in AnyFarm
  BY InstallerAssumption DEF Farms, AnyFarm, NoFarm
<1>4. \A f \in Farms : BlobsOf[f] \in SUBSET Blobs /\ RefsOf[f] \in SUBSET Refs
  BY InstallerAssumption
<1>5. /\ db \in [Farms -> FarmRow] /\ db[0].used = RefsOf[0] /\ db[0].auto = queued /\ db[0].orphan = {}
      /\ db[0].blobs = BlobsOf[0] /\ db[0].tree = tree
  BY <1>2, <1>3, <1>4 DEF FarmRow
<1>6. InstallerTyped
  <2>1. root \in [main : AnyFarm, wal : AnyFarm, partial : AnyFarm]
    BY <1>2, <1>3
  <2>2. media \in [live : AnyFarm, previous : AnyFarm, aside : AnyFarm, moved : Farms]
    BY <1>2, <1>3
  <2>3. aside \in [main : AnyFarm, wal : AnyFarm] /\ staging \in [candidate : AnyFarm, blobs : SUBSET Blobs, media : AnyFarm]
    BY <1>1, <1>3 DEF NoFiles, NoStaging
  <2>4. content \in [stored : SUBSET Blobs, aside : SUBSET Blobs, moved : Farms]
    BY <1>1, <1>3, <1>4
  <2>5. store \in SUBSET Refs
    BY <1>2, <1>3, <1>4
  <2> QED  BY <1>1, <1>3, <1>5, <2>1, <2>2, <2>3, <2>4, <2>5 DEF InstallerTyped, FilesTyped
<1>7. ~Waiting(journal) /\ Owed = 0 /\ journal.phase = "none"
  BY <1>1 DEF Waiting, Unfinished, NoJournal, Owed
<1>8. Whole(0)
  BY <1>1, <1>2, <1>5 DEF Whole, Tree, Known
<1>9. Durable
  BY <1>1, <1>2, <1>6, <1>7, <1>8 DEF Durable, Sound, Tied
<1>10. ~Running
  BY <1>1 DEF Running
<1> QED  BY <1>1, <1>7, <1>9, <1>10 DEF InstallerInv, Ordered, Counted, Staged

\* Where no run is going on, the durable state and a few facts of its journal are all.
LEMMA RestKeeps ==
  ASSUME Durable', ~Running', mem' = NoJournal \/ pc' = Opening,
         Waiting(journal') => /\ pc' # Opening /\ (pc' = Up => journal'.phase = "pending" /\ journal'.attempts = 0)
                              /\ (journal'.kind = "restore" => faults' >= journal'.attempts),
         journal'.phase = "failed" /\ journal'.failure = "restoreFailed" => faults' >= 2
  PROVE  InstallerInv'
<1>1. Ordered'
  BY DEF Ordered, Down, Up, Opening, Off, Stopped
<1>2. Counted'
  <2>1. Waiting(journal') => journal' \in Journals
    BY DEF Durable, InstallerTyped, FilesTyped, Waiting, Unfinished, NoJournal
  <2>2. faults' \in Nat /\ pc'[1] \notin Back \cup {"loop"}
    BY DEF Durable, InstallerTyped, FilesTyped, Running, Down, Off, Stopped, Up, Opening, Back
  <2> QED  BY <2>1, <2>2 DEF Counted, Waiting, Journals
<1> QED  BY <1>1, <1>2 DEF InstallerInv, Staged

\* A Farm that is running is the one it should be.
LEMMA UpIs ==
  ASSUME InstallerInv, pc \in {Up, Opening}
  PROVE  /\ Whole(Live) /\ Live = Owed /\ Live \in Farms /\ Live <= round /\ ~Running
         /\ Waiting(journal) => Live = before /\ before < round
         /\ pc = Up => mem = NoJournal
         /\ pc = Opening => ~Waiting(journal)
<1>1. Whole(Owed) /\ (Waiting(journal) => Owed = before)
  BY DEF InstallerInv, Ordered, Durable, Sound, Recoverable, Owed, Waiting, Unfinished, Up, Opening
<1>2. Owed \in Farms /\ Owed <= round
  BY DEF InstallerInv, Durable, InstallerTyped, FilesTyped, Tied, Owed, Farms
<1> QED  BY <1>1, <1>2 DEF Live, Whole, InstallerInv, Durable, Tied, Ordered, Running

LEMMA AskKeeps ==
  ASSUME InstallerInv, NEW kind \in Kinds, Ask(kind)
  PROVE  InstallerInv'
<1> DEFINE k == round + 1
           used == IF kind = "restore" THEN RefsOf[k] ELSE {}
           blobs == IF kind = "restore" THEN BlobsOf[k] ELSE {}
           r == [used |-> used, auto |-> {}, orphan |-> {}, blobs |-> blobs, tree |-> kind = "restore"]
<1>1. /\ pc = Up /\ ~Waiting(journal) /\ round < MaxRounds /\ round' = k /\ journal' = NewJournal(kind, used)
      /\ db' = [db EXCEPT ![k] = r]
      /\ staging' = IF kind = "restore" THEN [candidate |-> k, blobs |-> blobs, media |-> k] ELSE staging
      /\ before' = Live /\ late' = late \ LocalRefs
      /\ UNCHANGED <<mem, pc, cause, root, aside, media, content, store, faults>>
  BY Zenon DEF Ask
<1>2. Whole(Live) /\ Live \in Farms /\ Live <= round /\ mem = NoJournal
  BY <1>1, UpIs
<1>3. k \in Farms /\ round \in Farms /\ round < k /\ Live # k
  BY <1>1, <1>2, InstallerAssumption DEF InstallerInv, Durable, InstallerTyped, FilesTyped, Farms
<1>4. used \in SUBSET Refs /\ blobs \in SUBSET Blobs
  BY <1>3, InstallerAssumption
<1>5. r \in FarmRow /\ r.used = used /\ r.tree = (kind = "restore") /\ (kind = "reset" => r.blobs = {})
  BY <1>4 DEF Kinds, FarmRow
<1> HIDE DEF used, blobs, r
<1>6. db' \in [Farms -> FarmRow] /\ db'[k] = r /\ \A f \in Farms \ {k} : db'[f] = db[f]
  BY <1>1, <1>3, <1>5 DEF InstallerInv, Durable, InstallerTyped, FilesTyped
<1>7. LocalRefs \in SUBSET Refs /\ db[Live].auto \in SUBSET Refs /\ LocalRefs = db[Live].used \cup db[Live].auto \cup db[Live].orphan
  BY <1>2 DEF LocalRefs, InstallerInv, Durable, InstallerTyped, FilesTyped, FarmRow
<1>8. journal' = [id |-> k, kind |-> kind, phase |-> "pending", step |-> "none", attempts |-> 0, swap |-> "none",
                  rollback |-> NoMarker, failure |-> "none",
                  carry |-> IF kind = "restore" THEN db[Live].auto \ used ELSE {}, orphans |-> LocalRefs \ used]
  BY <1>1, Zenon DEF NewJournal
<1> HIDE DEF k
<1>9. /\ journal' \in Journals /\ journal'.phase = "pending" /\ journal'.kind = kind /\ journal'.attempts = 0
      /\ journal'.orphans = LocalRefs \ used /\ journal'.carry \subseteq LocalRefs \ used
      /\ journal'.id = k /\ journal'.swap = "none" /\ journal'.rollback = NoMarker
  <2>1. NoMarker \in Markers
    BY DEF NoMarker, Markers
  <2> QED  BY <1>3, <1>7, <1>8, <2>1 DEF Journals, Phases, StepNames
<1>10. InstallerTyped'
  <2>1. staging' \in [candidate : AnyFarm, blobs : SUBSET Blobs, media : AnyFarm]
    BY <1>1, <1>3, <1>4 DEF InstallerInv, Durable, InstallerTyped, FilesTyped, AnyFarm
  <2>2. late' \in SUBSET Refs
    BY <1>1 DEF InstallerInv, Durable, InstallerTyped, FilesTyped
  <2> QED  BY <1>1, <1>2, <1>3, <1>6, <1>9, <2>1, <2>2 DEF InstallerInv, Durable, InstallerTyped, FilesTyped
<1>11. Whole(before)'
  <2>1. db'[Live] = db[Live]
    BY <1>2, <1>3, <1>6
  <2>2. Known(Live)
    BY <1>2 DEF Whole
  <2>3. store' \subseteq db'[before'].used \cup db'[before'].auto \cup db'[before'].orphan \cup late'
    BY <1>1, <1>7, <2>1, <2>2 DEF Known
  <2> QED  BY <1>1, <1>2, <2>1, <2>3 DEF Whole, Tree, Known
<1>12. Waiting(journal') /\ Recoverable(journal)'
  <2>1. store \subseteq LocalRefs \cup late
    BY <1>2, <1>7 DEF Whole, Known
  <2>4. kind = "restore" => staging'.candidate = round' /\ staging'.media = round'
    BY <1>1
  <2>2. store' \subseteq journal'.orphans \cup db'[round'].used \cup late'
    BY <1>1, <1>5, <1>6, <1>9, <2>1
  <2>3. media.moved # k
    BY <1>3 DEF InstallerInv, Durable, Tied, InstallerTyped, FilesTyped, Farms
  <2> QED  BY <1>1, <1>9, <1>11, <2>2, <2>3, <2>4 DEF Recoverable, Waiting, Unfinished
<1>13. Tied'
  <2>1. Live <= k /\ Live < k /\ media.moved <= k
    BY <1>2, <1>3 DEF InstallerInv, Durable, Tied, InstallerTyped, FilesTyped, Farms
  <2> QED  BY <1>1, <1>5, <1>6, <1>9, <2>1 DEF Tied
<1>14. Durable'
  BY <1>10, <1>12, <1>13 DEF Durable, Sound
<1>15. ~Running' /\ pc' = Up /\ pc' # Opening /\ mem' = NoJournal /\ faults' >= 0
  BY <1>1, <1>2 DEF Running, Up, Opening, InstallerInv, Durable, InstallerTyped, FilesTyped
<1> QED  BY <1>9, <1>14, <1>15, RestKeeps

LEMMA AcknowledgeKeeps ==
  ASSUME InstallerInv, Acknowledge
  PROVE  InstallerInv'
<1>1. /\ pc = Up /\ ~Waiting(journal) /\ journal' = NoJournal /\ before' = Live
      /\ root' = root /\ aside' = NoFiles /\ UNCHANGED <<staging, media, content>>
      /\ UNCHANGED <<mem, pc, cause, db, store, late, defect, round, faults>>
  BY DEF Acknowledge, Database
<1>2. Whole(Live) /\ Live \in Farms /\ Live <= round /\ mem = NoJournal
  BY <1>1, UpIs
<1>3. InstallerTyped'
  BY <1>1, <1>2 DEF InstallerInv, Durable, InstallerTyped, FilesTyped, NoFiles, AnyFarm
<1>4. ~Waiting(journal') /\ Owed' = Live /\ journal'.phase = "none"
  BY <1>1 DEF Waiting, Unfinished, NoJournal, Owed
<1>5. Whole(Owed)'
  BY <1>1, <1>2, <1>4 DEF Whole, Tree, Known
<1>6. Durable'
  BY <1>1, <1>2, <1>3, <1>4, <1>5 DEF Durable, Sound, Tied, InstallerInv
<1>7. ~Running'
  BY <1>1 DEF Running
<1> QED  BY <1>1, <1>2, <1>4, <1>6, <1>7, RestKeeps

\* What is changed of one Farm's rows.
LEMMA UsedSet ==
  ASSUME NEW d \in [Farms -> FarmRow], NEW f \in Farms, NEW S \in SUBSET Refs, NEW e, e = [d EXCEPT ![f].used = S]
  PROVE  /\ e \in [Farms -> FarmRow] /\ \A g \in Farms \ {f} : e[g] = d[g]
         /\ e[f].used = S /\ e[f].auto = d[f].auto /\ e[f].orphan = d[f].orphan
         /\ e[f].blobs = d[f].blobs /\ e[f].tree = d[f].tree
<1>1. e = [d EXCEPT ![f] = [d[f] EXCEPT !.used = S]]
  OBVIOUS
<1>2. DEFINE r == [d[f] EXCEPT !.used = S]
<1>3. d[f] \in FarmRow
  OBVIOUS
<1>4. /\ r \in FarmRow /\ r.used = S /\ r.auto = d[f].auto /\ r.orphan = d[f].orphan /\ r.blobs = d[f].blobs
      /\ r.tree = d[f].tree
  BY <1>3 DEF FarmRow
<1> HIDE DEF r
<1>5. e = [d EXCEPT ![f] = r]
  BY <1>1 DEF r
<1> QED  BY <1>4, <1>5

LEMMA AutoSet ==
  ASSUME NEW d \in [Farms -> FarmRow], NEW f \in Farms, NEW S \in SUBSET Refs, NEW e, e = [d EXCEPT ![f].auto = S]
  PROVE  /\ e \in [Farms -> FarmRow] /\ \A g \in Farms \ {f} : e[g] = d[g]
         /\ e[f].auto = S /\ e[f].used = d[f].used /\ e[f].orphan = d[f].orphan
         /\ e[f].blobs = d[f].blobs /\ e[f].tree = d[f].tree
<1>1. e = [d EXCEPT ![f] = [d[f] EXCEPT !.auto = S]]
  OBVIOUS
<1>2. DEFINE r == [d[f] EXCEPT !.auto = S]
<1>3. d[f] \in FarmRow
  OBVIOUS
<1>4. /\ r \in FarmRow /\ r.auto = S /\ r.used = d[f].used /\ r.orphan = d[f].orphan /\ r.blobs = d[f].blobs
      /\ r.tree = d[f].tree
  BY <1>3 DEF FarmRow
<1> HIDE DEF r
<1>5. e = [d EXCEPT ![f] = r]
  BY <1>1 DEF r
<1> QED  BY <1>4, <1>5

LEMMA OrphanSet ==
  ASSUME NEW d \in [Farms -> FarmRow], NEW f \in Farms, NEW S \in SUBSET Refs, NEW e, e = [d EXCEPT ![f].orphan = S]
  PROVE  /\ e \in [Farms -> FarmRow] /\ \A g \in Farms \ {f} : e[g] = d[g]
         /\ e[f].orphan = S /\ e[f].used = d[f].used /\ e[f].auto = d[f].auto
         /\ e[f].blobs = d[f].blobs /\ e[f].tree = d[f].tree
<1>1. e = [d EXCEPT ![f] = [d[f] EXCEPT !.orphan = S]]
  OBVIOUS
<1>2. DEFINE r == [d[f] EXCEPT !.orphan = S]
<1>3. d[f] \in FarmRow
  OBVIOUS
<1>4. /\ r \in FarmRow /\ r.orphan = S /\ r.used = d[f].used /\ r.auto = d[f].auto /\ r.blobs = d[f].blobs
      /\ r.tree = d[f].tree
  BY <1>3 DEF FarmRow
<1> HIDE DEF r
<1>5. e = [d EXCEPT ![f] = r]
  BY <1>1 DEF r
<1> QED  BY <1>4, <1>5

\* Two columns of a Farm's rows that change together.
LEMMA TwoSet ==
  ASSUME NEW d \in [Farms -> FarmRow], NEW f \in Farms, NEW S \in SUBSET Refs, NEW T \in SUBSET Refs
  PROVE  /\ [d EXCEPT ![f].used = S, ![f].auto = T] = [[d EXCEPT ![f].used = S] EXCEPT ![f].auto = T]
         /\ [d EXCEPT ![f].auto = S, ![f].orphan = T] = [[d EXCEPT ![f].auto = S] EXCEPT ![f].orphan = T]
  OBVIOUS

LEMMA LocalSet ==
  ASSUME NEW d \in [Farms -> FarmRow], NEW f \in Farms, NEW S \in SUBSET Refs, NEW T \in SUBSET Refs,
         NEW e, e = [d EXCEPT ![f].auto = S, ![f].orphan = T]
  PROVE  /\ e \in [Farms -> FarmRow] /\ \A g \in Farms \ {f} : e[g] = d[g]
         /\ e[f].auto = S /\ e[f].orphan = T /\ e[f].used = d[f].used
         /\ e[f].blobs = d[f].blobs /\ e[f].tree = d[f].tree
<1>1. [d EXCEPT ![f].auto = S] \in [Farms -> FarmRow]
  BY AutoSet
<1>2. PICK b \in [Farms -> FarmRow] : b = [d EXCEPT ![f].auto = S]
  BY <1>1
<1>3. PICK c : c = [b EXCEPT ![f].orphan = T]
  OBVIOUS
<1>4. c = e
  BY <1>2, <1>3, TwoSet
<1>5. /\ b \in [Farms -> FarmRow] /\ (\A g \in Farms \ {f} : b[g] = d[g])
      /\ b[f].auto = S /\ b[f].used = d[f].used /\ b[f].blobs = d[f].blobs /\ b[f].tree = d[f].tree
  BY <1>2, AutoSet
<1>6. c \in [Farms -> FarmRow]
  BY <1>3, OrphanSet
<1>7. \A g \in Farms \ {f} : c[g] = b[g]
  BY <1>3, OrphanSet
<1>8. /\ c[f].orphan = T /\ c[f].used = b[f].used /\ c[f].auto = b[f].auto
      /\ c[f].blobs = b[f].blobs /\ c[f].tree = b[f].tree
  BY <1>3, OrphanSet
<1> QED  BY <1>4, <1>5, <1>6, <1>7, <1>8

LEMMA LocalTyped ==
  ASSUME NEW d \in [Farms -> FarmRow], NEW f \in Farms, NEW S \in SUBSET Refs, NEW T \in SUBSET Refs
  PROVE  [d EXCEPT ![f].auto = S, ![f].orphan = T] \in [Farms -> FarmRow]
<1>1. [d EXCEPT ![f].auto = S] \in [Farms -> FarmRow]
  BY AutoSet
<1>2. PICK b \in [Farms -> FarmRow] : b = [d EXCEPT ![f].auto = S]
  BY <1>1
<1>3. PICK c : c = [b EXCEPT ![f].orphan = T]
  OBVIOUS
<1>4. c = [d EXCEPT ![f].auto = S, ![f].orphan = T]
  BY <1>2, <1>3, TwoSet
<1>5. c \in [Farms -> FarmRow]
  BY <1>3, OrphanSet
<1> QED  BY <1>4, <1>5, Zenon

LEMMA AddKeeps ==
  ASSUME InstallerInv, NEW r \in Refs, AddCredential(r)
  PROVE  InstallerInv'
<1>1. /\ pc = Up /\ Waiting(journal) /\ store' = store \cup {r} /\ late' = late \cup {r}
      /\ db' = [db EXCEPT ![Live].used = @ \cup {r}]
      /\ UNCHANGED <<journal, mem, pc, cause, files, before, defect, round, faults>>
  BY DEF AddCredential, Changing
<1>2. /\ Whole(Live) /\ Live \in Farms /\ Live = before /\ before < round /\ mem = NoJournal
  BY <1>1, UpIs
<1>3. db[Live].used \cup {r} \in SUBSET Refs /\ db \in [Farms -> FarmRow] /\ round \in Farms /\ round # Live
  BY <1>2 DEF InstallerInv, Durable, InstallerTyped, FilesTyped, FarmRow, Farms
<1>4. /\ db' \in [Farms -> FarmRow] /\ db'[round] = db[round] /\ db'[before].used = db[before].used \cup {r}
      /\ db'[before].auto = db[before].auto /\ db'[before].orphan = db[before].orphan
      /\ db'[before].blobs = db[before].blobs /\ db'[before].tree = db[before].tree
  <2>1. PICK f \in Farms : f = Live
    BY <1>2
  <2>2. PICK S \in SUBSET Refs : S = db[f].used \cup {r}
    BY <1>3, <2>1
  <2>3. PICK row : row = [db[f] EXCEPT !.used = S]
    OBVIOUS
  <2>4. db[f] \in FarmRow
    BY <1>3
  <2>5. /\ row \in FarmRow /\ row.used = S /\ row.auto = db[f].auto /\ row.orphan = db[f].orphan
        /\ row.blobs = db[f].blobs /\ row.tree = db[f].tree
    BY <2>3, <2>4 DEF FarmRow
  <2>6. db' = [db EXCEPT ![f] = row]
    BY <1>1, <2>1, <2>2, <2>3
  <2>7. db' \in [Farms -> FarmRow] /\ db'[f] = row /\ db'[round] = db[round]
    BY <1>3, <2>1, <2>5, <2>6
  <2> QED  BY <1>2, <2>1, <2>2, <2>5, <2>7
<1>5. InstallerTyped'
  BY <1>1, <1>4 DEF InstallerInv, Durable, InstallerTyped, FilesTyped, files
<1>6. Whole(before)'
  BY <1>1, <1>2, <1>4 DEF Whole, Tree, Known, files
<1>7. journal.phase = "pending" /\ journal.attempts = 0 /\ Recoverable(journal)
  BY <1>1 DEF InstallerInv, Ordered, Durable, Sound
<1>8. Recoverable(journal)'
  BY <1>1, <1>4, <1>6, <1>7 DEF Recoverable, files
<1>9. Durable'
  BY <1>1, <1>4, <1>5, <1>8 DEF Durable, Sound, Tied, InstallerInv, files
<1>10. ~Running' /\ pc' # Opening /\ faults >= 0
  BY <1>1 DEF Running, Up, Opening, InstallerInv, Durable, InstallerTyped, FilesTyped
<1> QED  BY <1>1, <1>2, <1>7, <1>9, <1>10, RestKeeps

LEMMA QueueKeeps ==
  ASSUME InstallerInv, NEW r \in Refs, QueueCredential(r)
  PROVE  InstallerInv'
<1>1. /\ pc = Up /\ Waiting(journal) /\ r \in db[Live].used
      /\ db' = [db EXCEPT ![Live].used = @ \ {r}, ![Live].auto = @ \cup {r}]
      /\ UNCHANGED <<journal, mem, pc, cause, files, store, late, before, defect, round, faults>>
  BY DEF QueueCredential, Changing
<1>2. /\ Whole(Live) /\ Live \in Farms /\ Live = before /\ before < round /\ mem = NoJournal
  BY <1>1, UpIs
<1>3. /\ db[Live].used \ {r} \in SUBSET Refs /\ db[Live].auto \cup {r} \in SUBSET Refs
      /\ db \in [Farms -> FarmRow] /\ round \in Farms /\ round # Live
  BY <1>2 DEF InstallerInv, Durable, InstallerTyped, FilesTyped, FarmRow, Farms
<1>4. /\ db' \in [Farms -> FarmRow] /\ db'[round] = db[round] /\ db'[before].used = db[before].used \ {r}
      /\ db'[before].auto = db[before].auto \cup {r} /\ db'[before].orphan = db[before].orphan
      /\ db'[before].blobs = db[before].blobs /\ db'[before].tree = db[before].tree
  <2> DEFINE d == [db EXCEPT ![Live].used = db[Live].used \ {r}]
         S == db[Live].used \ {r}
         T == db[Live].auto \cup {r}
  <2> S \in SUBSET Refs /\ T \in SUBSET Refs
    BY <1>3
  <2>1. d \in [Farms -> FarmRow] /\ d[Live].auto = db[Live].auto /\ (\A g \in Farms \ {Live} : d[g] = db[g])
        /\ d[Live].used = db[Live].used \ {r} /\ d[Live].orphan = db[Live].orphan
        /\ d[Live].blobs = db[Live].blobs /\ d[Live].tree = db[Live].tree
    <3>1. d = [db EXCEPT ![Live].used = S]
      OBVIOUS
    <3> HIDE DEF d, S
    <3>2. /\ d \in [Farms -> FarmRow] /\ \A g \in Farms \ {Live} : d[g] = db[g]
          /\ d[Live].used = S /\ d[Live].auto = db[Live].auto /\ d[Live].orphan = db[Live].orphan
          /\ d[Live].blobs = db[Live].blobs /\ d[Live].tree = db[Live].tree
      BY <1>2, <1>3, <3>1, UsedSet
    <3> QED  BY <3>2 DEF S
  <2>2. db' = [db EXCEPT ![Live].used = db[Live].used \ {r}, ![Live].auto = db[Live].auto \cup {r}]
    BY <1>1, <1>2, <1>3
  <2>3. db' = [d EXCEPT ![Live].auto = db[Live].auto \cup {r}]
    BY <1>2, <1>3, <2>2, TwoSet
  <2> HIDE DEF d
  <2>4. /\ db' \in [Farms -> FarmRow] /\ (\A g \in Farms \ {Live} : db'[g] = d[g]) /\ db'[Live].used = d[Live].used
        /\ db'[Live].auto = db[Live].auto \cup {r} /\ db'[Live].orphan = d[Live].orphan
        /\ db'[Live].blobs = d[Live].blobs /\ db'[Live].tree = d[Live].tree
    <3>1. db' = [d EXCEPT ![Live].auto = T]
      BY <2>3
    <3> HIDE DEF T
    <3>2. /\ db' \in [Farms -> FarmRow] /\ \A g \in Farms \ {Live} : db'[g] = d[g]
          /\ db'[Live].auto = T /\ db'[Live].used = d[Live].used /\ db'[Live].orphan = d[Live].orphan
          /\ db'[Live].blobs = d[Live].blobs /\ db'[Live].tree = d[Live].tree
      BY <1>2, <1>3, <2>1, <3>1, AutoSet
    <3> QED  BY <3>2 DEF T
  <2> QED  BY <1>2, <1>3, <2>1, <2>4
<1>5. InstallerTyped'
  BY <1>1, <1>4 DEF InstallerInv, Durable, InstallerTyped, FilesTyped, files
<1>6. Whole(before)'
  <2>1. store \subseteq db[before].used \cup db[before].auto \cup db[before].orphan \cup late
    BY <1>2 DEF Whole, Known
  <2>2. Known(before)'
    BY <1>1, <1>4, <2>1 DEF Known
  <2> QED  BY <1>1, <1>2, <1>4, <2>2 DEF Whole, Tree, files
<1>7. journal.phase = "pending" /\ journal.attempts = 0 /\ Recoverable(journal)
  BY <1>1 DEF InstallerInv, Ordered, Durable, Sound
<1>8. Recoverable(journal)'
  BY <1>1, <1>4, <1>6, <1>7 DEF Recoverable, files
<1>9. Durable'
  BY <1>1, <1>4, <1>5, <1>8 DEF Durable, Sound, Tied, InstallerInv, files
<1>10. ~Running' /\ pc' # Opening /\ faults >= 0
  BY <1>1 DEF Running, Up, Opening, InstallerInv, Durable, InstallerTyped, FilesTyped
<1> QED  BY <1>1, <1>2, <1>7, <1>9, <1>10, RestKeeps

LEMMA QuitKeeps ==
  ASSUME InstallerInv, Quit
  PROVE  InstallerInv'
<1>1. PICK wal \in {NoFarm, Live} : root' = [root EXCEPT !.wal = wal]
  BY DEF Quit, Root, Database
<1>2. /\ pc = Up /\ pc' = Off
      /\ UNCHANGED <<journal, mem, cause, aside, staging, media, content, db, store, late, before, defect, round, faults>>
  BY DEF Quit, Root, Database, rest
<1>3. /\ Whole(Live) /\ Live \in Farms /\ Live = Owed /\ (Waiting(journal) => Live = before) /\ mem = NoJournal
  BY <1>2, UpIs
<1>4. root' \in [main : AnyFarm, wal : AnyFarm, partial : AnyFarm] /\ root'.main = root.main /\ root'.wal = wal /\ root'.partial = root.partial
  BY <1>1, <1>3 DEF InstallerInv, Durable, InstallerTyped, FilesTyped, AnyFarm
<1>5. InstallerTyped'
  BY <1>2, <1>4 DEF InstallerInv, Durable, InstallerTyped, FilesTyped
<1>6. Owed' = Owed /\ (Waiting(journal) => Whole(before)') /\ Whole(Owed)'
  BY <1>1, <1>2, <1>3, <1>4 DEF Owed, Whole, Tree, Known
<1>7. Waiting(journal) => journal.phase = "pending" /\ journal.attempts = 0 /\ Recoverable(journal)
  BY <1>2 DEF InstallerInv, Ordered, Durable, Sound
<1>8. Waiting(journal) => Recoverable(journal)'
  BY <1>2, <1>6, <1>7 DEF Recoverable
<1>9. Durable'
  BY <1>2, <1>5, <1>6, <1>8 DEF Durable, Sound, Tied, InstallerInv
<1>10. /\ ~Running' /\ pc' # Opening /\ pc' # Up /\ faults >= 0
       /\ (journal.phase = "failed" /\ journal.failure = "restoreFailed" => faults >= 2)
  BY <1>2 DEF Running, Up, Opening, Down, Off, InstallerInv, Durable, InstallerTyped, FilesTyped, Counted
<1> QED  BY <1>2, <1>3, <1>7, <1>9, <1>10, RestKeeps

LEMMA CrashKeeps ==
  ASSUME InstallerInv, Crash
  PROVE  InstallerInv'
<1>1. /\ faults' = faults + 1 /\ pc' = Off /\ mem' = NoJournal /\ UNCHANGED <<journal, cause, files, rest>>
  BY DEF Crash, Faulty
<1>2. UNCHANGED <<root, aside, staging, media, content, db, store, late, before, defect, round>>
  BY <1>1 DEF files, rest
<1>3. faults \in Nat /\ InstallerTyped'
  BY <1>1, <1>2 DEF InstallerInv, Durable, InstallerTyped, FilesTyped
<1>4. Sound'
  <2>1. Waiting(journal) => Recoverable(journal)'
    BY <1>1, SameFiles DEF InstallerInv, Durable, Sound
  <2>2. ~Waiting(journal) => Whole(Owed)'
    BY <1>1, <1>2 DEF InstallerInv, Durable, Sound, Owed, Whole, Tree, Known
  <2> QED  BY <1>1, <2>1, <2>2 DEF Sound
<1>5. Durable'
  BY <1>1, <1>2, <1>3, <1>4 DEF Durable, Tied, InstallerInv
<1>6. ~Running' /\ pc' # Opening /\ pc' # Up
  BY <1>1 DEF Running, Up, Opening, Down, Off
<1>7. /\ Waiting(journal) /\ journal.kind = "restore" => faults + 1 >= journal.attempts
      /\ journal.phase = "failed" /\ journal.failure = "restoreFailed" => faults + 1 >= 2
  BY <1>3 DEF InstallerInv, Counted
<1> QED  BY <1>1, <1>5, <1>6, <1>7, RestKeeps

LEMMA OpenKeeps ==
  ASSUME InstallerInv, Open
  PROVE  InstallerInv'
<1>1. PICK gone \in SUBSET CleanupDue :
          /\ store' = store \ gone
          /\ db' = [db EXCEPT ![Live].auto = @ \ gone]
          /\ \/ gone = CleanupDue /\ pc' = Up /\ UNCHANGED faults
             \/ gone # CleanupDue /\ pc' = Stopped /\ Faulty
  BY Zenon DEF Open
<1>2. /\ pc = Opening /\ mem' = NoJournal /\ staging' = NoStaging /\ root' = [root EXCEPT !.wal = NoFarm]
      /\ content' = [content EXCEPT !.stored = Swept]
      /\ UNCHANGED <<journal, cause, aside, media, late, before, defect, round>>
  BY DEF Open
<1>3. /\ Whole(Live) /\ Live \in Farms /\ Live = Owed /\ ~Waiting(journal)
  BY <1>2, UpIs
<1>4. root' \in [main : AnyFarm, wal : AnyFarm, partial : AnyFarm] /\ root'.main = root.main /\ root'.wal = NoFarm /\ root'.partial = root.partial
  BY <1>2 DEF InstallerInv, Durable, InstallerTyped, FilesTyped, AnyFarm
<1>5. content' \in [stored : SUBSET Blobs, aside : SUBSET Blobs, moved : Farms] /\ content'.stored = content.stored \cap db[Live].blobs
  BY <1>2 DEF InstallerInv, Durable, InstallerTyped, FilesTyped, Swept
<1>6. db \in [Farms -> FarmRow] /\ db[Live].auto \ gone \in SUBSET Refs /\ db' = [db EXCEPT ![Live].auto = db[Live].auto \ gone]
  BY <1>1, <1>3 DEF InstallerInv, Durable, InstallerTyped, FilesTyped, FarmRow
<1>7. /\ db' \in [Farms -> FarmRow] /\ db'[Live].auto = db[Live].auto \ gone
      /\ db'[Live].used = db[Live].used /\ db'[Live].orphan = db[Live].orphan
      /\ db'[Live].blobs = db[Live].blobs /\ db'[Live].tree = db[Live].tree
  <2>1. PICK S \in SUBSET Refs : S = db[Live].auto \ gone
    BY <1>6
  <2>2. PICK f \in Farms : f = Live
    BY <1>3
  <2>3. db' = [db EXCEPT ![f].auto = S] /\ db \in [Farms -> FarmRow]
    BY <1>6, <2>1, <2>2
  <2>4. /\ db' \in [Farms -> FarmRow] /\ db'[f].auto = S /\ db'[f].used = db[f].used
        /\ db'[f].orphan = db[f].orphan /\ db'[f].blobs = db[f].blobs /\ db'[f].tree = db[f].tree
    BY <2>3, AutoSet
  <2> QED  BY <2>1, <2>2, <2>4
<1>8. InstallerTyped'
  <2>1. staging' \in [candidate : AnyFarm, blobs : SUBSET Blobs, media : AnyFarm]
    BY <1>2 DEF NoStaging, AnyFarm
  <2>2. faults' \in Nat
    BY <1>1 DEF InstallerInv, Durable, InstallerTyped, FilesTyped, Faulty
  <2>3. store' \in SUBSET Refs
    BY <1>1 DEF InstallerInv, Durable, InstallerTyped, FilesTyped
  <2> QED  BY <1>2, <1>4, <1>5, <1>7, <2>1, <2>2, <2>3 DEF InstallerInv, Durable, InstallerTyped, FilesTyped
<1>9. Owed' = Owed
  BY <1>2 DEF Owed
<1>10. Whole(Owed)'
  <2>1. store' \subseteq db'[Live].used \cup db'[Live].auto \cup db'[Live].orphan \cup late'
    BY <1>1, <1>2, <1>3, <1>7 DEF Whole, Known
  <2> QED  BY <1>2, <1>3, <1>4, <1>5, <1>7, <1>9, <2>1 DEF Whole, Tree, Known
<1>11. Durable'
  BY <1>2, <1>3, <1>8, <1>10 DEF Durable, Sound, Tied, InstallerInv
<1>12. ~Running'
  BY <1>1 DEF Running, Down
<1>13. journal.phase = "failed" /\ journal.failure = "restoreFailed" => faults' >= 2
  BY <1>1 DEF Faulty, InstallerInv, Counted, Durable, InstallerTyped, FilesTyped
<1> QED  BY <1>2, <1>3, <1>11, <1>12, <1>13, RestKeeps

LEMMA DurableSame ==
  ASSUME InstallerInv, UNCHANGED <<journal, files, rest>>, mem' \in {mem, journal, NoJournal},
         cause' \in {"crash", "io", "invalid"}, faults' \in Nat
  PROVE  /\ Durable'
         /\ Waiting(journal) => Recoverable(journal)'
         /\ mem' = mem /\ Ahead /\ pc' \in {<<"rollback", 0>>, <<"removePrevious", 0>>} => Ahead'
<1>1. UNCHANGED <<root, aside, staging, media, content, db, store, late, before, defect, round>>
  BY DEF files, rest
<1>2. Waiting(journal) => Recoverable(journal)'
  BY SameFiles DEF InstallerInv, Durable, Sound
<1>3. ~Waiting(journal) => Whole(Owed)'
  BY <1>1 DEF InstallerInv, Durable, Sound, Owed, Whole, Tree, Known
<1>4. InstallerTyped'
  BY <1>1 DEF InstallerInv, Durable, InstallerTyped, FilesTyped
<1>5. mem' = mem /\ Ahead => Recoverable(mem)'
  BY SameFiles DEF Ahead
<1> QED  BY <1>1, <1>2, <1>3, <1>4, <1>5 DEF Durable, Sound, Tied, InstallerInv, Ahead

\* Only where the run is changes.
LEMMA GoKeeps ==
  ASSUME InstallerInv, Running, Waiting(journal), NEW next, Goes(next), Running', pc'[1] # "discard", Staged',
         mem = journal \/ next \in {<<"rollback", 0>>, <<"removePrevious", 0>>},
         next[1] \in Back \cup {"loop"} => pc[1] \in Back \cup {"loop"}
  PROVE  InstallerInv'
<1>1. pc' = next /\ UNCHANGED <<journal, mem, cause, files, rest, faults>>
  BY DEF Goes
<1>2. cause \in {"crash", "io", "invalid"} /\ faults \in Nat
  BY DEF InstallerInv, Durable, InstallerTyped, FilesTyped
<1>3. /\ Durable'
      /\ Ahead /\ pc' \in {<<"rollback", 0>>, <<"removePrevious", 0>>} => Ahead'
  BY <1>1, <1>2, DurableSame
<1>4. Ordered'
  BY <1>1, <1>3 DEF InstallerInv, Ordered, Running
<1>5. Counted'
  BY <1>1 DEF InstallerInv, Counted, Running
<1> QED  BY <1>3, <1>4, <1>5 DEF InstallerInv

LEMMA StartKeeps ==
  ASSUME InstallerInv, Start
  PROVE  InstallerInv'
<1>1. /\ pc \in Down /\ mem = NoJournal /\ UNCHANGED <<journal, files, rest, faults>>
      /\ cause \in {"crash", "io", "invalid"} /\ faults \in Nat
  BY DEF Start, InstallerInv, Ordered, Durable, InstallerTyped, FilesTyped
<1>2. /\ UNCHANGED <<root, aside, staging, media, content, db, store, late, before, defect, round>>
  BY <1>1 DEF files, rest
<1>3. /\ Waiting(journal) /\ journal.kind = "restore" => faults >= journal.attempts
      /\ journal.phase = "failed" /\ journal.failure = "restoreFailed" => faults >= 2
  BY <1>1 DEF InstallerInv, Counted
<1>4. CASE ~Waiting(journal)
  <2>1. pc' = Opening /\ UNCHANGED <<mem, cause>>
    BY <1>4 DEF Start
  <2>2. Durable'
    BY <1>1, <2>1, DurableSame
  <2>3. ~Running'
    BY <2>1 DEF Running
  <2> QED  BY <1>1, <1>3, <1>4, <2>1, <2>2, <2>3, RestKeeps
<1>5. CASE Waiting(journal)
  <2>1. /\ mem' = journal /\ cause' = "crash"
        /\ pc' = IF journal.kind = "restore" THEN Loop
                 ELSE IF journal.phase = "pending" THEN <<"markInstalling", 0>>
                 ELSE IF Place("reset", journal.step) = 0 THEN StepAt("reset", 1)
                 ELSE <<journal.step, 0>>
    BY <1>5 DEF Start
  <2>2. Durable' /\ Recoverable(journal) /\ journal \in Journals /\ journal # NoJournal
    BY <1>1, <1>5, <2>1, DurableSame, WaitingTyped DEF InstallerInv, Durable, Sound
  <2>3. journal.attempts \in Nat /\ journal.kind \in Kinds
    BY <2>2 DEF Journals
  <2>4. CASE journal.kind = "restore"
    <3>1. pc' = Loop /\ mem' = journal' /\ mem'.kind = "restore" /\ mem' # NoJournal /\ Waiting(journal')
      BY <1>1, <1>5, <2>1, <2>2, <2>4
    <3>2. faults' >= journal'.attempts /\ faults' + 1 >= journal'.attempts /\ journal'.kind = "restore"
      BY <1>1, <1>3, <1>5, <2>3, <2>4
    <3> QED  BY <2>2, <3>1, <3>2, LoopKeeps
  <2>5. CASE journal.kind = "reset"
    <3>1. StepAt("reset", 1) = <<"moveDatabaseAside", 0>>
      BY DEF StepAt, StepsOf
    <3>2. journal.phase # "pending" => journal.phase = "installing" /\ ResetHolds(journal)
      BY <1>5, <2>2, <2>5 DEF Recoverable, Waiting, Unfinished
    <3>3. \/ pc' = <<"markInstalling", 0>> /\ journal.phase = "pending"
          \/ pc' = <<"moveDatabaseAside", 0>> /\ journal.phase = "installing" /\ Place("reset", journal.step) <= 1
          \/ pc' = <<journal.step, 0>> /\ journal.phase = "installing" /\ journal.step \in Steps("reset")
      <4>1. Place("reset", journal.step) = 0 \/ journal.step \in Steps("reset")
        BY PlacesAre
      <4> QED  BY <2>1, <2>5, <3>1, <3>2, <4>1
    <3>4. /\ Running' /\ pc'[1] \in Steps("reset") \cup {"markInstalling"} /\ pc'[2] = 0
          /\ pc' \notin Down \cup {Up, Opening}
      BY <3>3, StepsAre DEF Running, Down, Off, Stopped, Up, Opening
    <3>5. ResetAt'
      <4>1. CASE pc' = <<"markInstalling", 0>> /\ journal.phase = "pending"
        BY <2>1, <4>1, StepsAre DEF ResetAt
      <4>2. CASE pc' = <<"moveDatabaseAside", 0>> /\ journal.phase = "installing" /\ Place("reset", journal.step) <= 1
        <5>1. Split
          BY <3>2, <4>2 DEF ResetHolds
        <5> QED  BY <1>2, <2>1, <4>2, <5>1, PlacesAre, StepsAre DEF ResetAt, Split
      <4>3. CASE pc' = <<journal.step, 0>> /\ journal.phase = "installing" /\ journal.step \in Steps("reset")
        <5>1. /\ pc'[1] = journal.step /\ pc'[2] = 0 /\ Place("reset", journal.step) \in 1..5
              /\ mem'.phase = "installing"
          BY <2>1, <4>3, PlacesAre, StepsAre
        <5>2. /\ Place("reset", journal.step) = 1 => Split'
              /\ Place("reset", journal.step) \in 2..3 => Apart'
              /\ Place("reset", journal.step) = 2 => root'.main = NoFarm /\ root'.wal = NoFarm
              /\ Place("reset", journal.step) >= 3 => media'.live = NoFarm
              /\ Place("reset", journal.step) >= 4 => root'.main = round' /\ root'.wal = NoFarm
              /\ Place("reset", journal.step) = 5 => Known(round)'
          BY <1>2, <3>2, <4>3 DEF ResetHolds, Split, Apart, Known
        <5>3. pc'[1] \in Steps("reset") /\ pc'[1] # "markInstalling"
          BY <4>3, StepsAre
        <5> HIDE DEF Place
        <5> QED  BY <5>1, <5>2, <5>3 DEF ResetAt
      <4> QED  BY <3>3, <4>1, <4>2, <4>3
    <3>6. Staged'
      <4>1. mem'.kind = "reset"
        BY <2>1, <2>5
      <4>2. Ending'
        BY <3>4, StepsAre DEF Ending
      <4> QED  BY <3>5, <4>1, <4>2 DEF Staged
    <3>7. Ordered'
      BY <1>1, <1>5, <2>1, <2>2, <3>4 DEF Ordered
    <3>8. Counted'
      BY <1>1, <1>5, <2>1, <2>5 DEF Counted, Waiting, Unfinished
    <3> QED  BY <2>2, <3>6, <3>7, <3>8 DEF InstallerInv
  <2> QED  BY <2>3, <2>4, <2>5 DEF Kinds
<1> QED  BY <1>4, <1>5

LEMMA ResumeKeeps ==
  ASSUME InstallerInv, Resume
  PROVE  InstallerInv'
<1>1. /\ pc = Loop /\ pc[1] = "loop"
      /\ Goes(IF mem.phase = "installing" \/ mem.rollback # NoMarker THEN <<"rollback", 0>>
              ELSE IF mem.phase = "pending" THEN <<"recheckBlockers", 0>> ELSE <<"removePrevious", 0>>)
  BY DEF Resume, Loop
<1>2. Running /\ Waiting(journal) /\ mem # NoJournal /\ (mem = journal \/ Ahead)
  BY <1>1 DEF InstallerInv, Ordered, Running, Loop, Down, Off, Stopped, Up, Opening
<1>3. mem \in Journals /\ mem.kind = "restore" /\ Recoverable(mem) /\ Waiting(mem)
  <2>1. mem \in Journals /\ Recoverable(mem) /\ Waiting(mem)
    BY <1>2, WaitingTyped DEF InstallerInv, Durable, Sound, Ahead, Waiting, Unfinished
  <2>2. mem.kind # "reset"
    BY <1>1, <1>2, StepsAre DEF InstallerInv, Staged, ResetAt
  <2> QED  BY <2>1, <2>2 DEF Journals, Kinds
<1>4. CASE mem.phase = "installing" \/ mem.rollback # NoMarker
  <2>1. mem.phase = "installing" /\ Goes(<<"rollback", 0>>)
    BY <1>1, <1>3, <1>4 DEF Recoverable, Waiting, Unfinished
  <2>2. pc' = <<"rollback", 0>> /\ mem' = mem
    BY <2>1 DEF Goes
  <2>3. Running' /\ pc'[1] = "rollback"
    BY <2>2 DEF Running, Down, Off, Stopped, Up, Opening
  <2>4. Staged'
    BY <1>3, <2>1, <2>2, <2>3 DEF Staged, RestoreAt, Ending, Forward, Back
  <2> QED  BY <1>1, <1>2, <2>1, <2>3, <2>4, GoKeeps DEF Back
<1>5. CASE ~(mem.phase = "installing" \/ mem.rollback # NoMarker) /\ mem.phase = "pending"
  <2>1. mem = journal /\ Goes(<<"recheckBlockers", 0>>)
    BY <1>1, <1>2, <1>5 DEF Ahead
  <2>2. pc' = <<"recheckBlockers", 0>> /\ mem' = mem
    BY <2>1 DEF Goes
  <2>3. Running' /\ pc'[1] = "recheckBlockers"
    BY <2>2 DEF Running, Down, Off, Stopped, Up, Opening
  <2>4. Staged'
    BY <1>3, <1>5, <2>2, <2>3 DEF Staged, RestoreAt, Ending, Forward, Back
  <2> QED  BY <1>1, <1>2, <2>1, <2>3, <2>4, GoKeeps DEF Back
<1>6. CASE ~(mem.phase = "installing" \/ mem.rollback # NoMarker) /\ mem.phase # "pending"
  <2>1. mem.phase = "installed" /\ Goes(<<"removePrevious", 0>>)
    BY <1>1, <1>3, <1>6 DEF Waiting, Unfinished
  <2>2. pc' = <<"removePrevious", 0>> /\ mem' = mem
    BY <2>1 DEF Goes
  <2>3. Running' /\ pc'[1] = "removePrevious" /\ pc'[2] = 0
    BY <2>2 DEF Running, Down, Off, Stopped, Up, Opening
  <2>4. Staged'
    BY <1>3, <2>1, <2>2, <2>3 DEF Staged, RestoreAt, Ending, Forward, Back
  <2> QED  BY <1>1, <1>2, <2>1, <2>3, <2>4, GoKeeps DEF Back
<1> QED  BY <1>4, <1>5, <1>6

LEMMA DiscardKeeps ==
  ASSUME InstallerInv, Discard
  PROVE  InstallerInv'
<1>1. /\ pc = <<"discard", 0>> /\ pc[1] = "discard" /\ staging' \in {staging, NoStaging} /\ pc' = Opening
      /\ UNCHANGED <<journal, mem, cause, root, aside, media, content, rest, faults>>
  BY DEF Discard, At
<1>2. Running /\ mem # NoJournal /\ mem = journal
  BY <1>1 DEF InstallerInv, Ordered, Ahead, Running, Loop, Down, Off, Stopped, Up, Opening
<1>3. ~Waiting(journal)
  <2>1. mem \in Journals /\ mem.kind \in Kinds
    BY <1>2, WaitingTyped DEF InstallerInv, Durable, Journals
  <2>2. mem.kind # "reset"
    BY <1>1, <1>2, StepsAre DEF InstallerInv, Staged, ResetAt
  <2>3. mem.phase = "failed"
    BY <1>1, <1>2, <2>1, <2>2 DEF InstallerInv, Staged, RestoreAt, Kinds
  <2> QED  BY <1>2, <2>3 DEF Waiting, Unfinished
<1>4. InstallerTyped'
  <2>1. staging' \in [candidate : AnyFarm, blobs : SUBSET Blobs, media : AnyFarm]
    BY <1>1 DEF NoStaging, AnyFarm, InstallerInv, Durable, InstallerTyped, FilesTyped
  <2> QED  BY <1>1, <2>1 DEF InstallerInv, Durable, InstallerTyped, FilesTyped, rest
<1>5. Durable'
  BY <1>1, <1>3, <1>4 DEF InstallerInv, Durable, Sound, Tied, Owed, Whole, Tree, Known, rest
<1>6. ~Running' /\ (journal.phase = "failed" /\ journal.failure = "restoreFailed" => faults >= 2)
  BY <1>1 DEF Running, InstallerInv, Counted
<1> QED  BY <1>1, <1>3, <1>5, <1>6, RestKeeps

---------------------------------------------------------------------------
(* What a step of a run has to keep.                                       *)

LEMMA FaultKeeps ==
  ASSUME InstallerInv, InStep, UNCHANGED <<files, db, store>>, UNCHANGED <<journal, late, before, defect, round>>,
         Faulty, ErrorTo(mem)
  PROVE  InstallerInv'
<1>1. UNCHANGED <<journal, files, rest>> /\ mem' \in {mem, NoJournal} /\ cause' \in {"crash", "io", "invalid"}
      /\ faults' = faults + 1 /\ faults' \in Nat
  BY DEF rest, ErrorTo, Faulty, InstallerInv, Durable, InstallerTyped
<1>2. Durable'
  BY <1>1, DurableSame
<1> QED  BY <1>1, <1>2, ErrorKeeps

LEMMA EffectKeeps ==
  ASSUME InstallerInv, InStep, NEW next,
         UNCHANGED <<journal, late, before, defect, round>>,
         FilesTyped', media'.moved <= round, db'[round].tree = db[round].tree, db'[round].blobs = db[round].blobs,
         Recoverable(journal)',
         (pc' = next /\ UNCHANGED <<mem, cause, faults>>) \/ (Faulty /\ ErrorTo(mem)),
         pc' = next /\ mem' = mem => Staged' /\ Running' /\ pc'[1] # "discard",
         next[1] \in Back \cup {"loop"} => pc[1] \in Back \cup {"loop"}
  PROVE  InstallerInv'
<1>1. mem' \in {mem, NoJournal} /\ cause' \in {"crash", "io", "invalid"} /\ faults' \in Nat
  BY DEF ErrorTo, Faulty, InstallerInv, Durable, InstallerTyped
<1>2. Durable'
  <2>1. Waiting(journal) /\ mem = journal
    BY StepHolds DEF InStep
  <2>2. InstallerTyped'
    BY <1>1 DEF InstallerInv, Durable, InstallerTyped
  <2> QED  BY <2>1, <2>2 DEF InstallerInv, Durable, Sound, Tied
<1> QED  BY <1>2, MoveKeeps

\* A restore being installed.
LEMMA RestoreIs ==
  ASSUME InstallerInv, InStep, mem.kind = "restore", mem.phase = "installing"
  PROVE  /\ RestoreHolds(mem) /\ mem.swap \in {"none", "absent", "existed"}
         /\ store \subseteq mem.orphans \cup db[round].used \cup late /\ mem.carry \subseteq mem.orphans
         /\ FilesTyped /\ mem.rollback \in Markers
  BY StepHolds DEF Recoverable, Journals, InstallerInv, Durable, InstallerTyped

LEMMA RestoreOn ==
  ASSUME InstallerInv, InStep, mem.kind = "restore", mem.phase = "installing", journal' = journal,
         UNCHANGED <<late, round>>, store' = store, db'[round].used = db[round].used, RestoreHolds(journal)'
  PROVE  Recoverable(journal)'
<1>1. store \subseteq mem.orphans \cup db[round].used \cup late /\ mem.carry \subseteq mem.orphans /\ mem = journal
  BY RestoreIs DEF InStep
<1> QED  BY <1>1 DEF Recoverable

\* Its database files are moved.
LEMMA RootHolds ==
  ASSUME RestoreHolds(mem), mem = journal, journal' = journal,
         UNCHANGED <<staging, media, content, db, store, late, before, round>>,
         From(mem) < 2 \/ mem.rollback.candidateCleared => Split',
         ~(From(mem) < 2 \/ mem.rollback.candidateCleared) => Apart'
  PROVE  RestoreHolds(journal)'
<1>1. From(journal)' = From(mem)
  BY DEF From
<1> QED  BY <1>1 DEF RestoreHolds, Known, Swapping, Tree

\* A reset being installed.
LEMMA ResetIs ==
  ASSUME InstallerInv, InStep, mem.kind = "reset", mem.phase = "installing"
  PROVE  /\ ResetHolds(mem) /\ store \subseteq mem.orphans \cup db[round].used \cup late /\ mem.carry \subseteq mem.orphans
         /\ FilesTyped
  BY StepHolds DEF Recoverable, InstallerInv, Durable, InstallerTyped

LEMMA ResetOn ==
  ASSUME InstallerInv, InStep, mem.kind = "reset", mem.phase = "installing", journal' = journal,
         UNCHANGED <<late, round>>, store' \subseteq store, db'[round].used = db[round].used, ResetHolds(journal)'
  PROVE  Recoverable(journal)'
<1>1. store \subseteq mem.orphans \cup db[round].used \cup late /\ mem.carry \subseteq mem.orphans /\ mem = journal
  BY ResetIs DEF InStep
<1> QED  BY <1>1 DEF Recoverable

\* A field of a journal is set.
LEMMA PhaseSet ==
  ASSUME NEW j \in Journals, NEW x \in Phases, NEW k, k = [j EXCEPT !.phase = x]
  PROVE  /\ k \in Journals /\ k.phase = x
         /\ k.id = j.id /\ k.kind = j.kind /\ k.step = j.step /\ k.attempts = j.attempts
         /\ k.swap = j.swap /\ k.rollback = j.rollback /\ k.failure = j.failure /\ k.carry = j.carry /\ k.orphans = j.orphans
  BY DEF Journals

LEMMA StepSet ==
  ASSUME NEW j \in Journals, NEW x \in StepNames, NEW k, k = [j EXCEPT !.step = x]
  PROVE  /\ k \in Journals /\ k.step = x
         /\ k.id = j.id /\ k.kind = j.kind /\ k.phase = j.phase /\ k.attempts = j.attempts
         /\ k.swap = j.swap /\ k.rollback = j.rollback /\ k.failure = j.failure /\ k.carry = j.carry /\ k.orphans = j.orphans
  BY DEF Journals

LEMMA AttemptsSet ==
  ASSUME NEW j \in Journals, NEW x \in Nat, NEW k, k = [j EXCEPT !.attempts = x]
  PROVE  /\ k \in Journals /\ k.attempts = x
         /\ k.id = j.id /\ k.kind = j.kind /\ k.phase = j.phase /\ k.step = j.step
         /\ k.swap = j.swap /\ k.rollback = j.rollback /\ k.failure = j.failure /\ k.carry = j.carry /\ k.orphans = j.orphans
  BY DEF Journals

LEMMA SwapSet ==
  ASSUME NEW j \in Journals, NEW x \in {"none", "absent", "existed"}, NEW k, k = [j EXCEPT !.swap = x]
  PROVE  /\ k \in Journals /\ k.swap = x
         /\ k.id = j.id /\ k.kind = j.kind /\ k.phase = j.phase /\ k.step = j.step
         /\ k.attempts = j.attempts /\ k.rollback = j.rollback /\ k.failure = j.failure /\ k.carry = j.carry /\ k.orphans = j.orphans
  BY DEF Journals

LEMMA MarkSet ==
  ASSUME NEW j \in Journals, NEW x \in Markers, NEW k, k = [j EXCEPT !.rollback = x]
  PROVE  /\ k \in Journals /\ k.rollback = x
         /\ k.id = j.id /\ k.kind = j.kind /\ k.phase = j.phase /\ k.step = j.step
         /\ k.attempts = j.attempts /\ k.swap = j.swap /\ k.failure = j.failure /\ k.carry = j.carry /\ k.orphans = j.orphans
  BY DEF Journals

LEMMA FailureSet ==
  ASSUME NEW j \in Journals, NEW x \in {"none", "blocked", "stagingExpired", "backupInvalid", "restoreFailed"}, NEW k, k = [j EXCEPT !.failure = x]
  PROVE  /\ k \in Journals /\ k.failure = x
         /\ k.id = j.id /\ k.kind = j.kind /\ k.phase = j.phase /\ k.step = j.step
         /\ k.attempts = j.attempts /\ k.swap = j.swap /\ k.rollback = j.rollback /\ k.carry = j.carry /\ k.orphans = j.orphans
  BY DEF Journals

---------------------------------------------------------------------------
(* The steps both kinds have.                                              *)

LEMMA RestorePhases ==
  ASSUME InstallerInv, InStep
  PROVE  /\ mem.phase \in {"pending", "installing", "installed"} /\ (mem.phase = "installed" => mem.kind = "restore")
         /\ mem.phase = "pending" => Whole(before) /\ mem.swap = "none" /\ mem.rollback = NoMarker
                                     /\ (mem.kind = "reset" => media.moved # round)
                                     /\ (mem.kind = "restore" => /\ staging.candidate \in {NoFarm, round}
                                                                 /\ staging.media \in {NoFarm, round})
         /\ mem.phase = "installed" => New(round) /\ mem.rollback = NoMarker
         /\ store \subseteq mem.orphans \cup db[round].used \cup late /\ mem.carry \subseteq mem.orphans
  BY StepHolds DEF Recoverable, Waiting, Unfinished

LEMMA RecheckKeeps ==
  ASSUME InstallerInv, RecheckBlockers
  PROVE  InstallerInv'
<1>1. PICK n \in 0..2 : At("recheckBlockers", n)
  BY DEF RecheckBlockers
<1>2. InStep /\ pc[1] = "recheckBlockers"
  BY <1>1, AtStep
<1>3. /\ Waiting(mem) /\ mem \in Journals /\ Running /\ mem = journal /\ Waiting(journal) /\ Recoverable(mem)
      /\ mem.kind = "restore" /\ mem.phase = "pending" /\ faults >= mem.attempts /\ faults \in Nat /\ mem.attempts \in Nat
  <2>1. mem.kind = "restore"
    BY <1>2, StepHolds, StepsAre DEF ResetAt, Kinds
  <2>2. mem.phase = "pending"
    BY <1>2, <2>1, StepHolds DEF RestoreAt
  <2> QED  BY <1>2, <2>1, <2>2, StepHolds DEF InStep, InstallerInv, Counted, Durable, InstallerTyped, Journals
<1>4. ~RollsBack
  BY <1>2, PlacesAre, StepsAre DEF RollsBack
<1>5. ASSUME Save([mem EXCEPT !.step = "recheckBlockers"], <<"recheckBlockers", 1>>)  PROVE InstallerInv'
  <2>1. PICK copy : copy = [mem EXCEPT !.step = "recheckBlockers"]
    OBVIOUS
  <2>2. /\ copy \in Journals /\ copy.phase = mem.phase /\ copy.attempts = mem.attempts /\ copy.kind = mem.kind
        /\ copy.id = mem.id /\ copy.carry = mem.carry /\ copy.orphans = mem.orphans
        /\ copy.swap = mem.swap /\ copy.rollback = mem.rollback
    <3>1. "recheckBlockers" \in StepNames
      BY DEF StepNames
    <3> QED  BY <1>3, <2>1, <3>1, StepSet
  <2>3. Follows(copy) /\ Waiting(copy) /\ Recoverable(copy)
    BY <1>3, <2>2 DEF Follows, Waiting, Recoverable
  <2>4. mem' = copy /\ pc' = <<"recheckBlockers", 1>> => Running' /\ pc'[1] # "discard" /\ Staged'
    BY <1>3, <2>2 DEF Running, Down, Off, Stopped, Up, Opening, Staged, RestoreAt, Ending, Forward, Back
  <2>5. Save(copy, <<"recheckBlockers", 1>>)
    BY <1>5, <2>1
  <2> QED  BY <1>3, <1>4, <2>2, <2>3, <2>4, <2>5, SaveKeeps DEF Back
<1>6. ASSUME NEW code \in {"blocked", "stagingExpired"}, FailBeforeInstall(code)  PROVE InstallerInv'
  <2>1. PICK a : a = [mem EXCEPT !.phase = "failed"]
    OBVIOUS
  <2>2. PICK copy : copy = [a EXCEPT !.failure = code]
    OBVIOUS
  <2>3. Save(copy, <<"discard", 0>>)
    BY <1>6, <2>1, <2>2 DEF FailBeforeInstall, SetPhase
  <2>4. "failed" \in Phases /\ a \in Journals /\ a.phase = "failed" /\ a.id = mem.id /\ a.kind = mem.kind
        /\ a.carry = mem.carry /\ a.orphans = mem.orphans
    BY <1>3, <2>1, PhaseSet DEF Phases
  <2>5. Follows(copy) /\ copy.phase = "failed" /\ copy.failure = code /\ copy.kind = "restore"
    BY <1>3, <2>2, <2>4, FailureSet DEF Follows
  <2>6. Whole(before)
    BY <1>2, <1>3, RestorePhases
  <2> QED  BY <1>3, <1>4, <2>3, <2>5, <2>6, EndKeeps
<1>7. ASSUME Complete, Move(UNCHANGED files, <<"markInstalling", 0>>)  PROVE InstallerInv'
  <2>1. UNCHANGED <<journal, late, before, defect, round>> /\ UNCHANGED <<files, db, store>>
    BY <1>7 DEF Move, Do
  <2>2. (pc' = <<"markInstalling", 0>> /\ UNCHANGED <<mem, cause, faults>>) \/ (Faulty /\ ErrorTo(mem))
    BY <1>7 DEF Move, Do
  <2>3. CASE Faulty /\ ErrorTo(mem)
    BY <1>2, <2>1, <2>3, FaultKeeps
  <2>4. CASE pc' = <<"markInstalling", 0>> /\ UNCHANGED <<mem, cause, faults>>
    <3>1. Durable'
      <4>1. cause' \in {"crash", "io", "invalid"} /\ faults' \in Nat
        BY <2>4 DEF InstallerInv, Durable, InstallerTyped
      <4> QED  BY <2>1, <2>4, <4>1, DurableSame DEF rest
    <3>2. staging'.candidate = round' /\ staging'.media = round'
      BY <1>2, <1>3, <1>7, <2>1, RestorePhases DEF Complete, files
    <3>3. Staged' /\ Running' /\ pc'[1] # "discard"
      BY <1>3, <2>4, <3>2 DEF Running, Down, Off, Stopped, Up, Opening, Staged, RestoreAt, Ending, Forward, Back
    <3>4. <<"markInstalling", 0>>[1] \notin Back \cup {"loop"}
      BY DEF Back
    <3> QED  BY <1>2, <2>1, <2>4, <3>1, <3>3, <3>4, MoveKeeps
  <2> QED  BY <2>2, <2>3, <2>4
<1>8. ASSUME Misread(<<"recheckBlockers", 2>>, cause)  PROVE InstallerInv'
  <2>1. PICK next : next = <<"recheckBlockers", 2>>
    OBVIOUS
  <2>2. pc' = next /\ UNCHANGED <<journal, mem, cause, files, rest, faults>>
    BY <1>8, <2>1 DEF Misread
  <2>3. Durable'
    <3>1. cause' \in {"crash", "io", "invalid"} /\ faults' \in Nat
      BY <2>2 DEF InstallerInv, Durable, InstallerTyped
    <3> QED  BY <2>2, <3>1, DurableSame
  <2>4. Staged' /\ Running' /\ pc'[1] # "discard"
    BY <1>3, <2>1, <2>2 DEF Running, Down, Off, Stopped, Up, Opening, Staged, RestoreAt, Ending, Forward, Back
  <2>5. next[1] \notin Back \cup {"loop"}
    BY <2>1 DEF Back
  <2> QED  BY <1>2, <2>2, <2>3, <2>4, <2>5, MoveKeeps
<1> QED  BY <1>5, <1>6, <1>7, <1>8 DEF RecheckBlockers

LEMMA MarkInstallingKeeps ==
  ASSUME InstallerInv, MarkInstalling
  PROVE  InstallerInv'
<1>1. At("markInstalling", 0)
  BY DEF MarkInstalling
<1>2. InStep /\ pc[1] = "markInstalling" /\ pc[2] = 0
  BY <1>1, AtStep
<1>3. /\ Waiting(mem) /\ mem \in Journals /\ Running /\ mem = journal /\ Waiting(journal) /\ mem.kind \in Kinds
      /\ mem.phase = "pending" /\ faults \in Nat /\ mem.attempts \in Nat
      /\ mem.kind = "restore" => faults >= mem.attempts /\ staging.candidate = round /\ staging.media = round
  <2>1. mem.phase = "pending" /\ (mem.kind = "restore" => staging.candidate = round /\ staging.media = round)
    BY <1>2, StepHolds DEF RestoreAt, ResetAt, Kinds
  <2> QED  BY <1>2, <2>1, StepHolds DEF InStep, InstallerInv, Counted, Durable, InstallerTyped, Journals
<1>4. ~RollsBack
  BY <1>2, PlacesAre, StepsAre DEF RollsBack
<1>5. PICK a : a = [mem EXCEPT !.phase = "installing"]
  OBVIOUS
<1>6. PICK b : b = [a EXCEPT !.attempts = a.attempts + 1]
  OBVIOUS
<1>7. PICK copy : copy = [b EXCEPT !.step = "markInstalling"]
  OBVIOUS
<1>8. /\ a \in Journals /\ a.phase = "installing" /\ a.id = mem.id /\ a.kind = mem.kind /\ a.carry = mem.carry
      /\ a.orphans = mem.orphans /\ a.swap = mem.swap /\ a.rollback = mem.rollback /\ a.attempts = mem.attempts
  <2>1. "installing" \in Phases
    BY DEF Phases
  <2> QED  BY <1>3, <1>5, <2>1, PhaseSet
<1>9. /\ b \in Journals /\ b.attempts = mem.attempts + 1 /\ b.id = a.id /\ b.kind = a.kind /\ b.carry = a.carry
      /\ b.orphans = a.orphans /\ b.swap = a.swap /\ b.rollback = a.rollback /\ b.phase = a.phase
  <2>1. a.attempts + 1 \in Nat
    BY <1>3, <1>8
  <2> QED  BY <1>3, <1>6, <1>8, <2>1, AttemptsSet
<1>10. /\ copy \in Journals /\ copy.step = "markInstalling" /\ copy.phase = "installing" /\ copy.attempts = mem.attempts + 1
       /\ copy.id = mem.id /\ copy.kind = mem.kind /\ copy.carry = mem.carry /\ copy.orphans = mem.orphans
       /\ copy.swap = mem.swap /\ copy.rollback = mem.rollback
  <2>1. "markInstalling" \in StepNames
    BY DEF StepNames
  <2> QED  BY <1>7, <1>8, <1>9, <2>1, StepSet
<1>11. Save(copy, StepAt(mem.kind, 1))
  <2>1. copy = [SetPhase("installing") EXCEPT !.attempts = @ + 1, !.step = "markInstalling"]
    <3>1. a \in [id : Farms, kind : Kinds, phase : Phases, step : StepNames, attempts : Nat,
             swap : {"none", "absent", "existed"}, rollback : Markers,
             failure : {"none", "blocked", "stagingExpired", "backupInvalid", "restoreFailed"},
             carry : SUBSET Refs, orphans : SUBSET Refs]
      BY <1>8 DEF Journals
    <3>2. [a EXCEPT !.attempts = @ + 1, !.step = "markInstalling"] = [[a EXCEPT !.attempts = a.attempts + 1] EXCEPT !.step = "markInstalling"]
      BY <3>1
    <3>3. SetPhase("installing") = a
      BY <1>5 DEF SetPhase
    <3> QED  BY <1>6, <1>7, <3>2, <3>3, Zenon
  <2> QED  BY <2>1 DEF MarkInstalling
<1>12. /\ StepAt(mem.kind, 1) = <<"moveDatabaseAside", 0>>
  BY <1>3, NextSteps DEF Kinds
<1>13. /\ Whole(before) /\ mem.swap = "none" /\ mem.rollback = NoMarker
       /\ (mem.kind = "reset" => media.moved # round)
       /\ store \subseteq mem.orphans \cup db[round].used \cup late /\ mem.carry \subseteq mem.orphans
  BY <1>2, <1>3, RestorePhases
<1>14. Split
  BY <1>13 DEF Whole, Split, NoFiles
<1>15. Recoverable(copy)
  <2>1. Place("restore", "markInstalling") = 0 /\ Place("reset", "markInstalling") = 0
    BY PlacesAre, StepsAre
  <2>2. CASE mem.kind = "restore"
    <3>1. RestoreHolds(copy)
      BY <1>3, <1>10, <1>13, <1>14, <2>1, <2>2 DEF RestoreHolds, Whole, Swapping, From, NoMarker
    <3> QED  BY <1>10, <1>13, <2>2, <3>1 DEF Recoverable
  <2>3. CASE mem.kind = "reset"
    <3>1. ResetHolds(copy)
      BY <1>10, <1>13, <1>14, <2>1, <2>3 DEF ResetHolds, Whole
    <3> QED  BY <1>10, <1>13, <2>3, <3>1 DEF Recoverable
  <2> QED  BY <1>3, <2>2, <2>3 DEF Kinds
<1>16. Follows(copy) /\ Waiting(copy)
  BY <1>10 DEF Follows, Waiting, Unfinished
<1>17. ASSUME UNCHANGED <<files, rest>>, mem' = copy, pc' = <<"moveDatabaseAside", 0>>
       PROVE  Running' /\ pc'[1] # "discard" /\ Staged'
  <2>1. Split'
    BY <1>14, <1>17 DEF Split, files, rest
  <2>2. "moveDatabaseAside" \in Steps("reset") /\ Place("reset", "moveDatabaseAside") = 1
    BY PlacesAre, StepsAre
  <2>3. mem.kind = "restore" => RestoreAt'
    BY <1>10, <1>13, <1>17, <2>1 DEF RestoreAt, Forward, Back, Late
  <2>4. mem.kind = "reset" => ResetAt'
    BY <1>10, <1>17, <2>1, <2>2 DEF ResetAt
  <2> QED  BY <1>10, <1>17, <2>3, <2>4 DEF Running, Down, Off, Stopped, Up, Opening, Staged, Ending
<1>18. <<"moveDatabaseAside", 0>>[1] \notin Back \cup {"loop"} /\ (copy.kind = "restore" => faults + 1 >= copy.attempts)
  BY <1>3, <1>10 DEF Back
<1> QED  BY <1>3, <1>4, <1>10, <1>11, <1>12, <1>15, <1>16, <1>17, <1>18, SaveKeeps

LEMMA ResetPlaces ==
  \A s : Place("reset", s) \in 0..5 /\ Place("restore", s) \in 0..8
BY PlacesAre, StepsAre

LEMMA RecordKeeps ==
  ASSUME InstallerInv, Record
  PROVE  InstallerInv'
<1>1. /\ mem # NoJournal /\ pc[1] \in Steps(mem.kind) /\ pc[2] = 0 /\ Save([mem EXCEPT !.step = pc[1]], <<pc[1], 1>>)
  BY DEF Record
<1>2. PICK p : p = pc[1]
  OBVIOUS
<1>3. mem \in Journals /\ mem.kind \in Kinds /\ mem.attempts \in Nat /\ faults \in Nat
  BY <1>1, WaitingTyped DEF InstallerInv, Durable, InstallerTyped, Journals
<1>4. /\ p \in Steps("restore") \cup Steps("reset") /\ p \in StepNames /\ p # "discard"
  BY <1>1, <1>2, <1>3, StepsAre DEF Kinds, StepNames
<1>5. Running
  BY <1>1, <1>2, <1>4, StepsAre DEF Running, Down, Off, Stopped, Up, Opening
<1>6. /\ Waiting(journal) /\ (mem = journal \/ Ahead) /\ (p # "removePrevious" => mem = journal /\ InStep)
  <2>1. Waiting(journal) /\ (mem = journal \/ Ahead)
    BY <1>1, <1>2, <1>4, <1>5 DEF InstallerInv, Ordered
  <2>2. p # "removePrevious" /\ Ahead => FALSE
    BY <1>2, <1>4, StepsAre DEF Ahead, Loop
  <2> QED  BY <1>2, <1>4, <1>5, <2>1, <2>2 DEF InStep
<1>7. PICK copy : copy = [mem EXCEPT !.step = p]
  OBVIOUS
<1>8. /\ copy \in Journals /\ copy.step = p /\ copy.phase = mem.phase /\ copy.attempts = mem.attempts /\ copy.kind = mem.kind
      /\ copy.id = mem.id /\ copy.carry = mem.carry /\ copy.orphans = mem.orphans
      /\ copy.swap = mem.swap /\ copy.rollback = mem.rollback
  BY <1>3, <1>4, <1>7, StepSet
<1>9. Save(copy, <<p, 1>>) /\ Follows(copy)
  BY <1>1, <1>2, <1>7, <1>8 DEF Follows
<1>10. /\ Recoverable(mem) /\ Waiting(mem) /\ mem.attempts = journal.attempts /\ mem.kind = journal.kind
  BY <1>6 DEF InstallerInv, Durable, Sound, Ahead, Waiting, Unfinished
<1>11. copy.kind = "restore" => faults + 1 >= copy.attempts
  BY <1>6, <1>8, <1>10 DEF InstallerInv, Counted
<1>12. /\ mem.kind = "restore" => RestoreAt
       /\ mem.kind = "reset" => ResetAt
  BY <1>5 DEF InstallerInv, Staged
<1>13. pc' = <<p, 1>> => Running' /\ pc'[1] = p /\ pc'[2] = 1 /\ Ending'
  BY <1>4, StepsAre DEF Running, Down, Off, Stopped, Up, Opening, Ending
<1>14. <<p, 1>>[1] \notin Back \cup {"loop"} /\ Waiting(copy)
  BY <1>4, <1>8, <1>10, StepsAre DEF Back, Waiting
<1>15. CASE mem.kind = "restore" /\ p = "removePrevious"
  <2>1. mem.phase = "installed"
    BY <1>2, <1>12, <1>15 DEF RestoreAt
  <2>2. Recoverable(copy)
    BY <1>8, <1>10, <2>1 DEF Recoverable
  <2>3. ~RollsBack
    BY <1>2, <1>15, PlacesAre DEF RollsBack
  <2>4. mem' = copy /\ pc' = <<p, 1>> => Staged'
    BY <1>8, <1>13, <1>15, <2>1 DEF Staged, RestoreAt, Forward, Back
  <2>5. copy.phase # "pending"
    BY <1>8, <2>1
  <2> QED  BY <1>4, <1>5, <1>6, <1>9, <1>11, <1>13, <1>14, <2>2, <2>3, <2>4, <2>5, SaveKeeps
<1>16. CASE mem.kind = "restore" /\ p # "removePrevious"
  <2>1. p \in Forward
    BY <1>1, <1>2, <1>16, StepsAre DEF Forward
  <2>2. /\ mem.phase = "installing" /\ mem.rollback = NoMarker /\ InStep /\ mem = journal
        /\ IF p = "moveDatabaseAside" THEN Split ELSE Apart
    BY <1>2, <1>6, <1>12, <1>16, <2>1 DEF RestoreAt
  <2>3. RestoreHolds(copy)
    <3>1. RestoreHolds(mem)
      BY <1>16, <2>2, RestoreIs
    <3>2. IF From(copy) < 2 \/ copy.rollback.candidateCleared THEN Split ELSE Apart
      <4>1. From(copy) = Place("restore", p) /\ ~copy.rollback.candidateCleared
        BY <1>8, <2>2 DEF From, NoMarker
      <4>2. IF p = "moveDatabaseAside" THEN Place("restore", p) = 1 ELSE Place("restore", p) >= 2
        BY <2>1, PlacesAre DEF Forward
      <4>3. CASE p = "moveDatabaseAside"
        <5>1. Split /\ From(copy) < 2
          BY <2>2, <4>1, <4>2, <4>3
        <5> QED  BY <5>1
      <4>4. CASE p # "moveDatabaseAside"
        <5>1. Apart /\ ~(From(copy) < 2)
          BY <2>2, <4>1, <4>2, <4>4, ResetPlaces
        <5> QED  BY <4>1, <5>1
      <4> QED  BY <4>3, <4>4
    <3> QED  BY <1>8, <3>1, <3>2 DEF RestoreHolds
  <2>4. Recoverable(copy)
    BY <1>8, <1>10, <1>16, <2>2, <2>3 DEF Recoverable
  <2>5. ASSUME UNCHANGED <<files, rest>>, mem' = copy, pc' = <<p, 1>>  PROVE Staged'
    <3>1. RestoreAt'
      <4>1. UNCHANGED <<root, aside, staging, media, content, db, store, late, before, defect, round>>
        BY <2>5 DEF files, rest
      <4>2. /\ p \notin {"swapMedia", "validate", "markInstalled"} => mem.swap = "none"
            /\ p \in Late => root.main = round /\ root.partial = NoFarm
            /\ p = "swapMedia" => mem.swap = "none"
            /\ p \in {"validate", "markInstalled"} => media.live = round
            /\ p = "markInstalled" => New(round)
        BY <1>1, <1>2, <1>12, <1>16, <2>1 DEF RestoreAt
      <4>3. /\ IF p = "moveDatabaseAside" THEN Split' ELSE Apart'
            /\ p = "markInstalled" => New(round)'
        BY <2>2, <4>1, <4>2 DEF Split, Apart, New, Known, Tree
      <4> QED  BY <1>8, <1>13, <2>1, <2>2, <2>5, <4>1, <4>2, <4>3 DEF RestoreAt, Forward, Back, Late
    <3> QED  BY <1>8, <1>13, <1>16, <2>5, <3>1 DEF Staged
  <2> QED  BY <1>4, <1>5, <1>6, <1>8, <1>9, <1>11, <1>13, <1>14, <2>2, <2>4, <2>5, SaveKeeps
<1>17. CASE mem.kind = "reset"
  <2>1. /\ p \in Steps("reset") /\ mem = journal /\ InStep
    BY <1>1, <1>2, <1>4, <1>5, <1>6, <1>17 DEF Ahead, InStep
  <2>2. mem.phase = "installing"
    BY <1>2, <1>12, <1>17, <2>1, StepsAre DEF ResetAt
  <2>3. ResetHolds(copy)
    <3>1. ResetHolds(mem)
      BY <1>17, <2>1, <2>2, ResetIs
    <3>2. PICK s \in 0..5 : s = Place("reset", p)
      BY ResetPlaces
    <3>3. PICK m \in 0..5 : m = Place("reset", mem.step)
      BY ResetPlaces
    <3>4. /\ s = 1 => Split
          /\ s \in 2..3 => Apart
          /\ s = 2 => root.main = NoFarm /\ root.wal = NoFarm
          /\ s >= 3 => media.live = NoFarm
          /\ s >= 4 => root.main = round /\ root.wal = NoFarm
          /\ s = 5 => Known(round)
          /\ s >= 1
      BY <1>2, <1>12, <1>17, <2>1, <3>2, PlacesAre, StepsAre DEF ResetAt
    <3>5. /\ root.partial = NoFarm /\ (media.moved = round => media.live = NoFarm)
          /\ aside.main \in {NoFarm, before} /\ aside.wal \in {NoFarm, before}
      BY <3>1, <3>3 DEF ResetHolds, Split, Apart
    <3> QED  BY <1>8, <3>2, <3>4, <3>5 DEF ResetHolds
  <2>4. Recoverable(copy)
    BY <1>8, <1>10, <1>17, <2>2, <2>3 DEF Recoverable
  <2>5. ASSUME UNCHANGED <<files, rest>>, mem' = copy, pc' = <<p, 1>>  PROVE Staged'
    <3>1. ResetAt'
      <4>1. UNCHANGED <<root, aside, staging, media, content, db, store, late, before, defect, round>>
        BY <2>5 DEF files, rest
      <4>2. PICK s \in 0..5 : s = Place("reset", p)
        BY ResetPlaces
      <4>3. /\ s = 1 => Split
            /\ s \in 2..3 => Apart
            /\ s = 2 => root.main = NoFarm /\ root.wal = NoFarm
            /\ s >= 3 => media.live = NoFarm
            /\ s >= 4 => root.main = round /\ root.wal = NoFarm
            /\ s = 5 => Known(round)
        BY <1>2, <1>12, <1>17, <2>1, <4>2 DEF ResetAt
      <4>4. /\ s = 1 => Split'
            /\ s \in 2..3 => Apart'
            /\ s = 5 => Known(round)'
        BY <4>1, <4>3 DEF Split, Apart, Known
      <4>5. p # "markInstalling"
        BY <2>1, StepsAre
      <4> HIDE DEF Place
      <4> QED  BY <1>8, <1>13, <2>1, <2>2, <2>5, <4>1, <4>2, <4>3, <4>4, <4>5 DEF ResetAt
    <3> QED  BY <1>8, <1>13, <1>17, <2>5, <3>1 DEF Staged
  <2>6. ~RollsBack
    BY <1>17 DEF RollsBack
  <2> QED  BY <1>4, <1>5, <1>6, <1>8, <1>9, <1>11, <1>13, <1>14, <1>17, <2>4, <2>5, <2>6, SaveKeeps
<1> QED  BY <1>3, <1>15, <1>16, <1>17 DEF Kinds

---------------------------------------------------------------------------
(* The database files are moved.                                           *)

\* The effect of a step happened, with or without an error after it.
Did(next) == (pc' = next /\ UNCHANGED <<mem, cause, faults>>) \/ (Faulty /\ ErrorTo(mem))

LEMMA RootMoves ==
  ASSUME InstallerInv, InStep, NEW r, NEW a, NEW next, Move(Database(r, a), next)
  PROVE  \/ InstallerInv'
         \/ /\ root' = r /\ aside' = a /\ Did(next)
            /\ UNCHANGED <<journal, late, before, defect, round, staging, media, content, db, store>>
<1>1. CASE UNCHANGED <<files, db, store>> /\ Faulty /\ ErrorTo(mem)
  BY <1>1, FaultKeeps DEF Move, Do
<1>2. CASE Database(r, a) /\ UNCHANGED <<db, store>> /\ Did(next)
  BY <1>2 DEF Move, Do, Database
<1> QED  BY <1>1, <1>2 DEF Move, Do, Did

LEMMA RootKeeps ==
  ASSUME InstallerInv, InStep, mem.phase = "installing", NEW next, Did(next),
         UNCHANGED <<journal, late, before, defect, round, staging, media, content, db, store>>,
         root' \in [main : AnyFarm, wal : AnyFarm, partial : AnyFarm], aside' \in [main : AnyFarm, wal : AnyFarm],
         mem.kind = "restore" /\ (From(mem) < 2 \/ mem.rollback.candidateCleared) => Split',
         mem.kind = "restore" /\ ~(From(mem) < 2 \/ mem.rollback.candidateCleared) => Apart',
         mem.kind = "reset" => ResetHolds(journal)',
         pc' = next /\ mem' = mem => Staged' /\ Running' /\ pc'[1] # "discard",
         next[1] \in Back \cup {"loop"} => pc[1] \in Back \cup {"loop"}
  PROVE  InstallerInv'
<1>1. /\ mem.kind \in Kinds /\ mem = journal /\ media.moved <= round
  BY StepHolds DEF InStep, InstallerInv, Durable, Tied
<1>2. FilesTyped'
  BY DEF InstallerInv, Durable, InstallerTyped, FilesTyped
<1>3. Recoverable(journal)'
  <2>1. CASE mem.kind = "restore"
    <3>1. RestoreHolds(mem)
      BY <2>1, RestoreIs
    <3>2. RestoreHolds(journal)'
      BY <1>1, <2>1, <3>1, RootHolds
    <3> QED  BY <2>1, <3>2, RestoreOn
  <2>2. CASE mem.kind = "reset"
    BY <2>2, ResetOn
  <2> QED  BY <1>1, <2>1, <2>2 DEF Kinds
<1> QED  BY <1>1, <1>2, <1>3, EffectKeeps DEF Did

\* A step of a restore on its way.
LEMMA ForwardIs ==
  ASSUME InstallerInv, NEW p \in Forward, NEW n \in Nat \ {0}, At(p, n), mem.kind = "restore"
  PROVE  /\ InStep /\ pc[1] = p /\ pc[2] = n /\ Running /\ mem = journal /\ Waiting(journal)
         /\ mem.phase = "installing" /\ mem.rollback = NoMarker /\ mem.step = p
         /\ From(mem) = Place("restore", p) /\ ~mem.rollback.candidateCleared /\ ~mem.rollback.mediaRestored
         /\ RestoreHolds(mem) /\ RestoreAt /\ FilesTyped /\ mem.id = round /\ before < round
         /\ before \in Farms /\ round \in Farms /\ mem \in Journals
         /\ IF p = "moveDatabaseAside" THEN Split ELSE Apart
<1>1. p # "removePrevious"
  BY DEF Forward
<1>2. InStep /\ pc[1] = p /\ pc[2] = n
  BY <1>1, AtStep
<1>3. RestoreAt /\ mem.phase = "installing" /\ mem.rollback = NoMarker /\ mem.step = p
      /\ IF p = "moveDatabaseAside" THEN Split ELSE Apart
  BY <1>2, StepHolds DEF RestoreAt
<1>4. From(mem) = Place("restore", p) /\ ~mem.rollback.candidateCleared /\ ~mem.rollback.mediaRestored
  <2>1. From(mem) = Place("restore", p)
    BY <1>3, Zenon DEF From
  <2> QED  BY <1>3, <2>1 DEF NoMarker
<1> QED  BY <1>2, <1>3, <1>4, StepHolds, RestoreIs DEF InStep

\* A step of a reset.
LEMMA ResetStepIs ==
  ASSUME InstallerInv, NEW p \in Steps("reset"), NEW n \in Nat \ {0}, At(p, n), mem.kind = "reset"
  PROVE  /\ InStep /\ pc[1] = p /\ pc[2] = n /\ Running /\ mem = journal /\ Waiting(journal)
         /\ mem.phase = "installing" /\ mem.step = p
         /\ ResetHolds(mem) /\ ResetAt /\ FilesTyped /\ mem.id = round /\ before < round
         /\ before \in Farms /\ round \in Farms /\ mem \in Journals
<1>1. InStep /\ pc[1] = p /\ pc[2] = n
  BY AtStep
<1>2. ResetAt /\ mem.phase = "installing" /\ mem.step = p
  BY <1>1, StepHolds, StepsAre DEF ResetAt
<1> QED  BY <1>1, <1>2, StepHolds, ResetIs DEF InStep


\* A file is set.
LEMMA FileSet ==
  ASSUME NEW t \in [main : AnyFarm, wal : AnyFarm, partial : AnyFarm], NEW x \in AnyFarm, NEW u
  PROVE  /\ u = [t EXCEPT !.main = x] => /\ u \in [main : AnyFarm, wal : AnyFarm, partial : AnyFarm]
                                         /\ u.main = x /\ u.wal = t.wal /\ u.partial = t.partial
         /\ u = [t EXCEPT !.wal = x] => /\ u \in [main : AnyFarm, wal : AnyFarm, partial : AnyFarm]
                                        /\ u.wal = x /\ u.main = t.main /\ u.partial = t.partial
         /\ u = [t EXCEPT !.partial = x] => /\ u \in [main : AnyFarm, wal : AnyFarm, partial : AnyFarm]
                                            /\ u.partial = x /\ u.main = t.main /\ u.wal = t.wal
  OBVIOUS

LEMMA AsideSet ==
  ASSUME NEW t \in [main : AnyFarm, wal : AnyFarm], NEW x \in AnyFarm, NEW u
  PROVE  /\ u = [t EXCEPT !.main = x] => u \in [main : AnyFarm, wal : AnyFarm] /\ u.main = x /\ u.wal = t.wal
         /\ u = [t EXCEPT !.wal = x] => u \in [main : AnyFarm, wal : AnyFarm] /\ u.wal = x /\ u.main = t.main
  OBVIOUS

\* Where a run is when it goes on.
LEMMA OnItsWay ==
  ASSUME NEW p \in {"placeCandidate", "carryLocalState", "extractContent", "swapMedia", "validate", "markInstalled",
                    "moveDatabaseAside", "moveRootsAside", "createFreshDatabase", "deleteCredentials",
                    "removePrevious", "markDone", "rollback", "restoreMedia", "clearCandidate", "moveBack"},
         NEW n, NEW next, next = <<p, n>>, pc' = next
  PROVE  Running' /\ pc'[1] # "discard" /\ pc'[1] = p /\ pc'[2] = n
  BY DEF Running, Down, Off, Stopped, Up, Opening

LEMMA MoveDatabaseKeeps ==
  ASSUME InstallerInv, MoveDatabaseAside
  PROVE  InstallerInv'
<1>1. PICK file \in {"main", "wal"} :
        /\ At("moveDatabaseAside", IF file = "main" THEN 1 ELSE 2)
        /\ Move(IF root[file] = NoFarm THEN UNCHANGED files
                ELSE Database([root EXCEPT ![file] = NoFarm], [aside EXCEPT ![file] = root[file]]),
                IF file = "main" THEN <<"moveDatabaseAside", 2>> ELSE Next1("moveDatabaseAside"))
  BY DEF MoveDatabaseAside
<1>2. PICK n \in {1, 2} : n = IF file = "main" THEN 1 ELSE 2
  OBVIOUS
<1>3. InStep /\ pc[1] = "moveDatabaseAside" /\ pc[2] = n
  BY <1>1, <1>2, StepsAre, AtStep
<1>4. mem.kind \in Kinds
  BY <1>3, StepHolds
<1>5. /\ mem.phase = "installing" /\ mem = journal /\ FilesTyped /\ mem.step = "moveDatabaseAside" /\ Split
      /\ (n = 2 => root.main = NoFarm) /\ mem.id = round
      /\ mem.kind = "restore" => /\ mem.rollback = NoMarker /\ mem.swap = "none" /\ From(mem) < 2
      /\ mem.kind = "reset" => (media.moved = round => media.live = NoFarm)
  <2>1. CASE mem.kind = "restore"
    BY <1>1, <1>2, <1>3, <2>1, ForwardIs, PlacesAre DEF Forward, RestoreAt
  <2>2. CASE mem.kind = "reset"
    <3>1. ResetAt /\ ResetHolds(mem) /\ mem.phase = "installing" /\ mem = journal /\ FilesTyped
          /\ mem.step = "moveDatabaseAside" /\ mem.id = round
      BY <1>1, <1>2, <2>2, ResetStepIs, StepsAre
    <3> QED  BY <1>3, <2>2, <3>1, PlacesAre, StepsAre DEF ResetAt, ResetHolds
  <2> QED  BY <1>4, <2>1, <2>2 DEF Kinds
<1>6. PICK next : next = IF file = "main" THEN <<"moveDatabaseAside", 2>> ELSE Next1("moveDatabaseAside")
  OBVIOUS
<1>7. PICK r : r = IF root[file] = NoFarm THEN root ELSE [root EXCEPT ![file] = NoFarm]
  OBVIOUS
<1>8. PICK a : a = IF root[file] = NoFarm THEN aside ELSE [aside EXCEPT ![file] = root[file]]
  OBVIOUS
<1>9. Move(Database(r, a), next)
  <2>1. CASE root[file] = NoFarm
    BY <1>1, <1>6, <1>7, <1>8, <2>1 DEF Move, Do, Database, files
  <2>2. CASE root[file] # NoFarm
    BY <1>1, <1>6, <1>7, <1>8, <2>2 DEF Move, Do, Database, files
  <2> QED  BY <2>1, <2>2
<1>10. /\ r \in [main : AnyFarm, wal : AnyFarm, partial : AnyFarm] /\ a \in [main : AnyFarm, wal : AnyFarm]
       /\ r.main = NoFarm /\ a.main = before /\ r.partial = NoFarm
       /\ (n = 1 => r.wal = root.wal /\ a.wal = aside.wal) /\ (n = 2 => r.wal = NoFarm /\ a.wal \in {NoFarm, before})
  <2>1. root \in [main : AnyFarm, wal : AnyFarm, partial : AnyFarm] /\ aside \in [main : AnyFarm, wal : AnyFarm]
        /\ NoFarm \in AnyFarm /\ root.main \in AnyFarm /\ root.wal \in AnyFarm
    BY <1>5 DEF FilesTyped, AnyFarm
  <2>2. CASE file = "main"
    <3>1. n = 1 /\ root[file] = root.main
      BY <1>2, <2>2
    <3>2. CASE root.main = NoFarm
      BY <1>5, <1>7, <1>8, <2>1, <3>1, <3>2 DEF Split
    <3>3. CASE root.main # NoFarm
      <4>1. r = [root EXCEPT !.main = NoFarm] /\ a = [aside EXCEPT !.main = root.main]
        BY <1>7, <1>8, <2>2, <3>3
      <4>2. /\ r \in [main : AnyFarm, wal : AnyFarm, partial : AnyFarm]
            /\ r.main = NoFarm /\ r.wal = root.wal /\ r.partial = root.partial
        BY <2>1, <4>1, FileSet
      <4>3. a \in [main : AnyFarm, wal : AnyFarm] /\ a.main = root.main /\ a.wal = aside.wal
        BY <2>1, <4>1, AsideSet
      <4> QED  BY <1>5, <3>1, <3>3, <4>2, <4>3 DEF Split
    <3> QED  BY <3>2, <3>3
  <2>3. CASE file = "wal"
    <3>1. n = 2 /\ root[file] = root.wal
      BY <1>2, <2>3
    <3>2. CASE root.wal = NoFarm
      BY <1>5, <1>7, <1>8, <2>1, <3>1, <3>2 DEF Split
    <3>3. CASE root.wal # NoFarm
      <4>1. r = [root EXCEPT !.wal = NoFarm] /\ a = [aside EXCEPT !.wal = root.wal]
        BY <1>7, <1>8, <2>3, <3>3
      <4>2. /\ r \in [main : AnyFarm, wal : AnyFarm, partial : AnyFarm]
            /\ r.wal = NoFarm /\ r.main = root.main /\ r.partial = root.partial
        BY <2>1, <4>1, FileSet
      <4>3. a \in [main : AnyFarm, wal : AnyFarm] /\ a.wal = root.wal /\ a.main = aside.main
        BY <2>1, <4>1, AsideSet
      <4> QED  BY <1>5, <3>1, <3>3, <4>2, <4>3 DEF Split
    <3> QED  BY <3>2, <3>3
  <2> QED  BY <2>2, <2>3
<1>11. CASE InstallerInv'
  BY <1>11
<1>12. CASE /\ root' = r /\ aside' = a /\ Did(next)
            /\ UNCHANGED <<journal, late, before, defect, round, staging, media, content, db, store>>
  <2>1. Split'
    BY <1>5, <1>10, <1>12 DEF Split
  <2>2. n = 2 => Apart'
    BY <1>10, <1>12 DEF Apart
  <2>3. mem.kind = "reset" => ResetHolds(journal)'
    BY <1>5, <1>10, <1>12, <2>1, PlacesAre DEF ResetHolds
  <2>4. ASSUME pc' = next, mem' = mem  PROVE Staged' /\ Running' /\ pc'[1] # "discard"
    <3>1. CASE n = 1
      <4>1. next = <<"moveDatabaseAside", 2>>
        BY <1>2, <1>6, <3>1
      <4>2. Running' /\ pc'[1] # "discard" /\ pc'[1] = "moveDatabaseAside" /\ pc'[2] = 2
        BY <2>4, <4>1, OnItsWay
      <4>3. mem.kind = "restore" => RestoreAt'
        BY <1>5, <1>10, <1>12, <2>1, <2>4, <4>2 DEF RestoreAt, Forward, Back, Late
      <4>4. mem.kind = "reset" => ResetAt'
        BY <1>5, <1>10, <1>12, <2>1, <2>4, <4>2, PlacesAre, StepsAre DEF ResetAt
      <4> QED  BY <2>4, <4>2, <4>3, <4>4 DEF Staged, Ending
    <3>2. CASE n = 2 /\ mem.kind = "restore"
      <4>1. next = <<"placeCandidate", 0>>
        BY <1>2, <1>6, <3>2, NextSteps
      <4>2. Running' /\ pc'[1] # "discard" /\ pc'[1] = "placeCandidate" /\ pc'[2] = 0
        BY <2>4, <4>1, OnItsWay
      <4>3. RestoreAt'
        BY <1>5, <1>10, <1>12, <2>2, <2>4, <3>2, <4>2 DEF RestoreAt, Forward, Back, Late
      <4> QED  BY <2>4, <3>2, <4>2, <4>3 DEF Staged, Ending
    <3>3. CASE n = 2 /\ mem.kind = "reset"
      <4>1. next = <<"moveRootsAside", 0>>
        BY <1>2, <1>6, <3>3, NextSteps
      <4>2. Running' /\ pc'[1] # "discard" /\ pc'[1] = "moveRootsAside" /\ pc'[2] = 0
        BY <2>4, <4>1, OnItsWay
      <4>3. ResetAt'
        BY <1>5, <1>10, <1>12, <2>2, <2>4, <3>3, <4>2, PlacesAre, StepsAre DEF ResetAt
      <4> QED  BY <2>4, <3>3, <4>2, <4>3 DEF Staged, Ending
    <3> QED  BY <1>4, <3>1, <3>2, <3>3 DEF Kinds
  <2>5. next[1] \notin Back \cup {"loop"}
    BY <1>4, <1>6, NextSteps DEF Back, Kinds
  <2> QED  BY <1>3, <1>5, <1>10, <1>12, <2>1, <2>3, <2>4, <2>5, RootKeeps
<1> QED  BY <1>3, <1>9, <1>11, <1>12, RootMoves

---------------------------------------------------------------------------
(* The candidate is placed and what is local is carried over.              *)

LEMMA CandidateKeeps ==
  ASSUME InstallerInv, InStep, mem.phase = "installing", mem.kind = "restore", NEW next, Did(next),
         UNCHANGED <<journal, late, before, defect, round, staging, media, content, store>>,
         root' \in [main : AnyFarm, wal : AnyFarm, partial : AnyFarm], aside' \in [main : AnyFarm, wal : AnyFarm],
         db' \in [Farms -> FarmRow], \A g \in Farms \ {round} : db'[g] = db[g],
         db'[round].used = db[round].used, db'[round].blobs = db[round].blobs, db'[round].tree = db[round].tree,
         From(mem) >= 2, ~mem.rollback.candidateCleared, Apart',
         pc' = next /\ mem' = mem => Staged' /\ Running' /\ pc'[1] # "discard",
         next[1] \notin Back \cup {"loop"}
  PROVE  InstallerInv'
<1>1. /\ mem = journal /\ media.moved <= round /\ before < round /\ before \in Farms /\ round \in Farms
  BY StepHolds DEF InStep, InstallerInv, Durable, Tied
<1>2. FilesTyped'
  BY DEF InstallerInv, Durable, InstallerTyped, FilesTyped
<1>3. RestoreHolds(mem)
  BY RestoreIs
<1>4. before \in Int /\ round \in Int
  BY <1>1, InstallerAssumption DEF Farms
<1>5. db'[before] = db[before]
  BY <1>1, <1>4
<1>6. From(journal)' = From(mem) /\ journal'.rollback = mem.rollback /\ journal'.swap = mem.swap
  BY <1>1 DEF From
<1>7. Swapping(journal.swap)' /\ Known(before)' /\ db'[before].blobs \subseteq content'.stored
  BY <1>1, <1>3, <1>5 DEF RestoreHolds, Swapping, Tree, Known
<1>8. From(mem) \in Int
  BY <1>1, StepHolds, ResetPlaces DEF From, Journals, Markers
<1>9. RestoreHolds(journal)'
  BY <1>1, <1>3, <1>5, <1>6, <1>7, <1>8 DEF RestoreHolds
<1>10. Recoverable(journal)'
  BY <1>9, RestoreOn
<1> QED  BY <1>1, <1>2, <1>10, EffectKeeps DEF Did

LEMMA PlaceCandidateKeeps ==
  ASSUME InstallerInv, PlaceCandidate
  PROVE  InstallerInv'
<1>1. PICK n \in {1, 2} : At("placeCandidate", n)
  BY DEF PlaceCandidate
<1>2. InStep /\ pc[1] = "placeCandidate" /\ pc[2] = n
  BY <1>1, AtStep DEF Forward
<1>3. mem.kind = "restore"
  BY <1>2, StepHolds, StepsAre DEF ResetAt, Kinds
<1>4. /\ mem.phase = "installing" /\ mem.rollback = NoMarker /\ mem.step = "placeCandidate" /\ mem = journal
      /\ From(mem) = 2 /\ ~mem.rollback.candidateCleared /\ RestoreHolds(mem) /\ RestoreAt /\ FilesTyped
      /\ mem.id = round /\ round \in Farms /\ Apart /\ mem.swap = "none" /\ (n = 2 => root.partial = round)
  <2>1. /\ mem.phase = "installing" /\ mem.rollback = NoMarker /\ mem.step = "placeCandidate" /\ mem = journal
        /\ From(mem) = 2 /\ ~mem.rollback.candidateCleared /\ RestoreHolds(mem) /\ RestoreAt /\ FilesTyped
        /\ mem.id = round /\ round \in Farms /\ Apart
    BY <1>1, <1>3, ForwardIs, PlacesAre DEF Forward
  <2> QED  BY <1>2, <2>1 DEF RestoreAt, Forward
<1>5. /\ root \in [main : AnyFarm, wal : AnyFarm, partial : AnyFarm] /\ aside \in [main : AnyFarm, wal : AnyFarm]
      /\ NoFarm \in AnyFarm /\ round \in AnyFarm /\ staging.candidate = round
  BY <1>4 DEF FilesTyped, AnyFarm, RestoreHolds
<1>6. ASSUME n = 1, Move(Root("partial", staging.candidate), <<"placeCandidate", 2>>)
      PROVE  InstallerInv'
  <2>1. PICK r : r = [root EXCEPT !.partial = round]
    OBVIOUS
  <2>2. /\ r \in [main : AnyFarm, wal : AnyFarm, partial : AnyFarm]
        /\ r.partial = round /\ r.main = root.main /\ r.wal = root.wal
    BY <1>5, <2>1, FileSet
  <2>3. Move(Database(r, aside), <<"placeCandidate", 2>>)
    BY <1>5, <1>6, <2>1 DEF Root
  <2>4. CASE InstallerInv'
    BY <2>4
  <2>5. CASE /\ root' = r /\ aside' = aside /\ Did(<<"placeCandidate", 2>>)
             /\ UNCHANGED <<journal, late, before, defect, round, staging, media, content, db, store>>
    <3>1. Apart'
      BY <1>4, <2>2, <2>5 DEF Apart
    <3>2. ASSUME pc' = <<"placeCandidate", 2>>, mem' = mem  PROVE Staged' /\ Running' /\ pc'[1] # "discard"
      <4>1. Running' /\ pc'[1] # "discard" /\ pc'[1] = "placeCandidate" /\ pc'[2] = 2
        BY <3>2, OnItsWay
      <4>2. RestoreAt'
        BY <1>4, <2>2, <2>5, <3>1, <3>2, <4>1 DEF RestoreAt, Forward, Back, Late
      <4> QED  BY <1>3, <3>2, <4>1, <4>2 DEF Staged, Ending
    <3>3. <<"placeCandidate", 2>>[1] \notin Back \cup {"loop"}
      BY DEF Back
    <3> QED  BY <1>2, <1>3, <1>4, <1>5, <2>2, <2>5, <3>1, <3>2, <3>3, RootKeeps
  <2> QED  BY <1>2, <2>3, <2>4, <2>5, RootMoves
<1>7. ASSUME n = 2,
             Do(/\ Database([root EXCEPT !.main = root.partial, !.partial = NoFarm], aside)
                /\ db' = [db EXCEPT ![mem.id].auto = {}, ![mem.id].orphan = {}]
                /\ UNCHANGED store,
                Next1("placeCandidate"))
      PROVE  InstallerInv'
  <2>1. PICK q : q = [root EXCEPT !.main = round]
    OBVIOUS
  <2>2. PICK r : r = [q EXCEPT !.partial = NoFarm]
    OBVIOUS
  <2>3. /\ r \in [main : AnyFarm, wal : AnyFarm, partial : AnyFarm]
        /\ r.partial = NoFarm /\ r.main = round /\ r.wal = root.wal
        /\ [root EXCEPT !.main = root.partial, !.partial = NoFarm] = r
    <3>1. q \in [main : AnyFarm, wal : AnyFarm, partial : AnyFarm] /\ q.main = round /\ q.wal = root.wal
      BY <1>5, <2>1, FileSet
    <3>2. [root EXCEPT !.main = root.partial, !.partial = NoFarm] = [[root EXCEPT !.main = root.partial] EXCEPT !.partial = NoFarm]
      BY <1>5
    <3>3. root.partial = round
      BY <1>4, <1>7
    <3> QED  BY <1>5, <2>1, <2>2, <3>1, <3>2, <3>3, FileSet
  <2>4. PICK S \in SUBSET Refs : S = {}
    OBVIOUS
  <2>5. PICK f \in Farms : f = round
    BY <1>4
  <2>6. PICK e : e = [db EXCEPT ![f].auto = S, ![f].orphan = S]
    OBVIOUS
  <2>12. /\ e \in [Farms -> FarmRow] /\ (\A g \in Farms \ {round} : e[g] = db[g])
         /\ e[round].used = db[round].used /\ e[round].blobs = db[round].blobs /\ e[round].tree = db[round].tree
    <3>1. db \in [Farms -> FarmRow]
      BY <1>4 DEF FilesTyped
    <3>2. e \in [Farms -> FarmRow]
      BY <2>6, <3>1, LocalTyped, Zenon
    <3>3. \A g \in Farms \ {f} : e[g] = db[g]
      BY <2>6, <3>1, LocalSet
    <3>4. e[f].used = db[f].used /\ e[f].blobs = db[f].blobs /\ e[f].tree = db[f].tree
      BY <2>6, <3>1, LocalSet
    <3> QED  BY <2>5, <3>2, <3>3, <3>4
  <2>13. [db EXCEPT ![mem.id].auto = {}, ![mem.id].orphan = {}] = e
    BY <1>4, <2>4, <2>5, <2>6
  <2>7. PICK next : next = <<"carryLocalState", 0>>
    OBVIOUS
  <2>8. Next1("placeCandidate") = next
    BY <1>3, <2>7, NextSteps
  <2>9. /\ UNCHANGED <<journal, late, before, defect, round>>
        /\ \/ Faulty /\ ErrorTo(mem) /\ UNCHANGED <<files, db, store>>
           \/ /\ root' = r /\ aside' = aside /\ db' = e /\ Did(next) /\ UNCHANGED <<staging, media, content, store>>
    BY <1>4, <1>7, <2>3, <2>8, <2>13 DEF Do, Database, Did
  <2>10. CASE Faulty /\ ErrorTo(mem) /\ UNCHANGED <<files, db, store>>
    BY <1>2, <2>9, <2>10, FaultKeeps
  <2>11. CASE root' = r /\ aside' = aside /\ db' = e /\ Did(next) /\ UNCHANGED <<staging, media, content, store>>
    <3>1. Apart'
      BY <1>4, <2>3, <2>9, <2>11 DEF Apart
    <3>2. ASSUME pc' = next, mem' = mem  PROVE Staged' /\ Running' /\ pc'[1] # "discard"
      <4>1. Running' /\ pc'[1] # "discard" /\ pc'[1] = "carryLocalState" /\ pc'[2] = 0
        BY <2>7, <3>2, OnItsWay
      <4>2. RestoreAt'
        BY <1>4, <2>3, <2>9, <2>11, <3>1, <3>2, <4>1 DEF RestoreAt, Forward, Back, Late
      <4> QED  BY <1>3, <3>2, <4>1, <4>2 DEF Staged, Ending
    <3>3. next[1] \notin Back \cup {"loop"}
      BY <2>7 DEF Back
    <3> QED  BY <1>2, <1>3, <1>4, <1>5, <2>3, <2>9, <2>12, <2>11, <3>1, <3>2, <3>3, CandidateKeeps
  <2> QED  BY <2>9, <2>10, <2>11
<1>8. /\ At("placeCandidate", 1) => pc[2] = 1
      /\ At("placeCandidate", 2) => pc[2] = 2
  BY DEF At
<1> QED  BY <1>2, <1>6, <1>7, <1>8 DEF PlaceCandidate

\* The candidate is opened, or closed.
LEMMA LogKeeps ==
  ASSUME InstallerInv, mem.kind = "restore", NEW p \in {"carryLocalState", "validate"}, NEW n \in 1..3, At(p, n),
         NEW x, x \in {NoFarm, round}, NEW q \in {"carryLocalState", "extractContent", "validate", "markInstalled"},
         NEW m \in Nat, Move(Root("wal", x), <<q, m>>), q = p \/ m = 0,
         q \in {"validate", "markInstalled"} <=> p = "validate",
         q = "markInstalled" => /\ media.live = Tree(round) /\ db[round].blobs \subseteq content.stored
                                /\ Known(round) /\ x = NoFarm
  PROVE  InstallerInv'
<1>1. /\ InStep /\ pc[1] = p /\ pc[2] = n /\ mem.phase = "installing" /\ mem.rollback = NoMarker /\ mem.step = p
      /\ From(mem) = Place("restore", p) /\ ~mem.rollback.candidateCleared
      /\ RestoreAt /\ FilesTyped /\ round \in Farms /\ Apart /\ mem = journal
  BY ForwardIs DEF Forward
<1>2. /\ root.main = round /\ root.partial = NoFarm /\ From(mem) >= 2
      /\ (p = "carryLocalState" => mem.swap = "none") /\ (p = "validate" => media.live = round)
  BY <1>1, PlacesAre DEF RestoreAt, Forward, Late
<1>3. PICK r : r = [root EXCEPT !.wal = x]
  OBVIOUS
<1>4. r \in [main : AnyFarm, wal : AnyFarm, partial : AnyFarm] /\ r.wal = x /\ r.main = round /\ r.partial = NoFarm
      /\ aside \in [main : AnyFarm, wal : AnyFarm]
  <2>1. root \in [main : AnyFarm, wal : AnyFarm, partial : AnyFarm] /\ x \in AnyFarm /\ aside \in [main : AnyFarm, wal : AnyFarm]
    BY <1>1 DEF FilesTyped, AnyFarm
  <2> QED  BY <1>2, <1>3, <2>1, FileSet
<1>5. PICK next : next = <<q, m>>
  OBVIOUS
<1>6. Move(Database(r, aside), next)
  BY <1>3, <1>5 DEF Root
<1>7. CASE InstallerInv'
  BY <1>7
<1>8. CASE /\ root' = r /\ aside' = aside /\ Did(next)
           /\ UNCHANGED <<journal, late, before, defect, round, staging, media, content, db, store>>
  <2>1. Apart'
    BY <1>1, <1>4, <1>8 DEF Apart
  <2>2. ASSUME pc' = next, mem' = mem  PROVE Staged' /\ Running' /\ pc'[1] # "discard"
    <3>1. Running' /\ pc'[1] # "discard" /\ pc'[1] = q /\ pc'[2] = m
      BY <1>5, <2>2, OnItsWay
    <3>2. q = "markInstalled" => New(round)'
      BY <1>1, <1>4, <1>8 DEF New, Known, Tree, Apart
    <3>3. RestoreAt'
      BY <1>1, <1>2, <1>4, <1>8, <2>1, <2>2, <3>1, <3>2 DEF RestoreAt, Forward, Back, Late
    <3> QED  BY <2>2, <3>1, <3>3 DEF Staged, Ending
  <2>3. next[1] \notin Back \cup {"loop"}
    BY <1>5 DEF Back
  <2>4. ~(From(mem) < 2)
    BY <1>2, <1>1, PlacesAre
  <2> QED  BY <1>1, <1>2, <1>4, <1>8, <2>1, <2>2, <2>3, <2>4, RootKeeps
<1> QED  BY <1>1, <1>6, <1>7, <1>8, RootMoves

LEMMA CarryKeeps ==
  ASSUME InstallerInv, CarryLocalState
  PROVE  InstallerInv'
<1>1. PICK n \in 1..3 : At("carryLocalState", n)
  <2>1. At("carryLocalState", 1) \/ At("carryLocalState", 2) \/ At("carryLocalState", 3)
    BY Zenon DEF CarryLocalState
  <2> QED  BY <2>1
<1>2. InStep /\ pc[1] = "carryLocalState" /\ pc[2] = n
  BY <1>1, AtStep DEF Forward
<1>3. mem.kind = "restore" /\ mem.id = round
  BY <1>2, StepHolds, StepsAre DEF ResetAt, Kinds
<1>4. /\ At("carryLocalState", 1) => n = 1
      /\ At("carryLocalState", 2) => n = 2
      /\ At("carryLocalState", 3) => n = 3
  BY <1>2 DEF At
<1>5. ASSUME n = 1, Move(Root("wal", mem.id), <<"carryLocalState", 2>>)  PROVE InstallerInv'
  BY <1>1, <1>3, <1>5, LogKeeps
<1>6. ASSUME n = 3, Move(Root("wal", NoFarm), Next1("carryLocalState"))  PROVE InstallerInv'
  <2>1. Move(Root("wal", NoFarm), <<"extractContent", 0>>)
    BY <1>3, <1>6, NextSteps
  <2> QED  BY <1>1, <1>3, <2>1, LogKeeps
<1>7. ASSUME n = 2,
             Do(/\ db' = [db EXCEPT ![mem.id].auto = @ \cup mem.carry,
                                    ![mem.id].orphan = @ \cup (mem.orphans \ mem.carry)]
                /\ UNCHANGED <<files, store>>,
                <<"carryLocalState", 3>>)
      PROVE  InstallerInv'
  <2>1. /\ mem.phase = "installing" /\ mem.rollback = NoMarker /\ mem.step = "carryLocalState" /\ mem = journal
        /\ From(mem) = 3 /\ ~mem.rollback.candidateCleared /\ RestoreAt /\ FilesTyped
        /\ round \in Farms /\ Apart /\ mem \in Journals
    BY <1>1, <1>3, ForwardIs, PlacesAre DEF Forward
  <2>2. root.main = round /\ root.partial = NoFarm /\ mem.swap = "none"
    BY <1>2, <2>1 DEF RestoreAt, Forward, Late
  <2>3. db \in [Farms -> FarmRow] /\ db[round] \in FarmRow /\ mem.carry \in SUBSET Refs /\ mem.orphans \in SUBSET Refs
    BY <2>1 DEF FilesTyped, Journals
  <2>4. PICK f \in Farms : f = round
    BY <2>1
  <2>5. PICK S \in SUBSET Refs : S = db[f].auto \cup mem.carry
    <3>1. db[f].auto \cup mem.carry \in SUBSET Refs
      BY <2>3, <2>4 DEF FarmRow
    <3> QED  BY <3>1
  <2>6. PICK T \in SUBSET Refs : T = db[f].orphan \cup (mem.orphans \ mem.carry)
    <3>1. db[f].orphan \cup (mem.orphans \ mem.carry) \in SUBSET Refs
      BY <2>3, <2>4 DEF FarmRow
    <3> QED  BY <3>1
  <2>7. PICK e : e = [db EXCEPT ![f].auto = S, ![f].orphan = T]
    OBVIOUS
  <2>8. /\ e \in [Farms -> FarmRow] /\ (\A g \in Farms \ {round} : e[g] = db[g])
        /\ e[round].used = db[round].used /\ e[round].blobs = db[round].blobs /\ e[round].tree = db[round].tree
    <3>2. e \in [Farms -> FarmRow]
      BY <2>3, <2>7, LocalTyped, Zenon
    <3>3. \A g \in Farms \ {f} : e[g] = db[g]
      BY <2>3, <2>7, LocalSet
    <3>4. e[f].used = db[f].used /\ e[f].blobs = db[f].blobs /\ e[f].tree = db[f].tree
      BY <2>3, <2>7, LocalSet
    <3> QED  BY <2>4, <3>2, <3>3, <3>4
  <2>9. [db EXCEPT ![mem.id].auto = @ \cup mem.carry, ![mem.id].orphan = @ \cup (mem.orphans \ mem.carry)] = e
    BY <1>3, <2>4, <2>5, <2>6, <2>7
  <2>10. PICK next : next = <<"carryLocalState", 3>>
    OBVIOUS
  <2>11. /\ UNCHANGED <<journal, late, before, defect, round>>
         /\ \/ Faulty /\ ErrorTo(mem) /\ UNCHANGED <<files, db, store>>
            \/ /\ root' = root /\ aside' = aside /\ db' = e /\ Did(next) /\ UNCHANGED <<staging, media, content, store>>
    BY <1>7, <2>9, <2>10 DEF Do, Did, files
  <2>12. CASE Faulty /\ ErrorTo(mem) /\ UNCHANGED <<files, db, store>>
    BY <1>2, <2>11, <2>12, FaultKeeps
  <2>13. CASE root' = root /\ aside' = aside /\ db' = e /\ Did(next) /\ UNCHANGED <<staging, media, content, store>>
    <3>1. Apart'
      BY <2>1, <2>11, <2>13 DEF Apart
    <3>2. ASSUME pc' = next, mem' = mem  PROVE Staged' /\ Running' /\ pc'[1] # "discard"
      <4>1. Running' /\ pc'[1] # "discard" /\ pc'[1] = "carryLocalState" /\ pc'[2] = 3
        BY <2>10, <3>2, OnItsWay
      <4>2. RestoreAt'
        BY <2>1, <2>2, <2>11, <2>13, <3>1, <3>2, <4>1 DEF RestoreAt, Forward, Back, Late
      <4> QED  BY <1>3, <3>2, <4>1, <4>2 DEF Staged, Ending
    <3>3. next[1] \notin Back \cup {"loop"}
      BY <2>10 DEF Back
    <3>4. root' \in [main : AnyFarm, wal : AnyFarm, partial : AnyFarm] /\ aside' \in [main : AnyFarm, wal : AnyFarm]
      BY <2>1, <2>13 DEF FilesTyped
    <3> QED  BY <1>2, <1>3, <2>1, <2>8, <2>11, <2>13, <3>1, <3>2, <3>3, <3>4, CandidateKeeps
  <2> QED  BY <2>11, <2>12, <2>13
<1> QED  BY <1>4, <1>5, <1>6, <1>7, Zenon DEF CarryLocalState

---------------------------------------------------------------------------
(* The content, the camera images and the check of what was installed.     *)

LEMMA RefuseKeeps ==
  ASSUME InstallerInv, InStep, mem.kind = "restore", mem.phase = "installing", Refuse \/ Misread(Loop, "invalid")
  PROVE  InstallerInv'
<1>1. pc' = Loop /\ cause' = "invalid" /\ UNCHANGED <<journal, mem, files, rest, faults>>
  BY DEF Refuse, Misread
<1>2. Waiting(mem) /\ mem \in Journals /\ mem = journal /\ faults \in Nat /\ mem # NoJournal
  BY StepHolds, WaitingTyped DEF InStep, InstallerInv, Durable, InstallerTyped
<1>3. faults + 1 >= mem.attempts
  BY <1>2 DEF InstallerInv, Counted
<1>4. Durable'
  BY <1>1, <1>2, DurableSame
<1> QED  BY <1>1, <1>2, <1>3, <1>4, LoopKeeps DEF Waiting

LEMMA MediaSet ==
  ASSUME NEW t \in [live : AnyFarm, previous : AnyFarm, aside : AnyFarm, moved : Farms], NEW x \in AnyFarm, NEW u
  PROVE  /\ u = [t EXCEPT !.live = x] =>
              /\ u \in [live : AnyFarm, previous : AnyFarm, aside : AnyFarm, moved : Farms]
              /\ u.live = x /\ u.previous = t.previous /\ u.aside = t.aside /\ u.moved = t.moved
         /\ u = [t EXCEPT !.previous = x] =>
              /\ u \in [live : AnyFarm, previous : AnyFarm, aside : AnyFarm, moved : Farms]
              /\ u.previous = x /\ u.live = t.live /\ u.aside = t.aside /\ u.moved = t.moved
         /\ u = [t EXCEPT !.aside = x] =>
              /\ u \in [live : AnyFarm, previous : AnyFarm, aside : AnyFarm, moved : Farms]
              /\ u.aside = x /\ u.live = t.live /\ u.previous = t.previous /\ u.moved = t.moved
  OBVIOUS

LEMMA StagingSet ==
  ASSUME NEW t \in [candidate : AnyFarm, blobs : SUBSET Blobs, media : AnyFarm], NEW x, NEW u
  PROVE  /\ x \in AnyFarm /\ u = [t EXCEPT !.media = x] =>
              /\ u \in [candidate : AnyFarm, blobs : SUBSET Blobs, media : AnyFarm]
              /\ u.media = x /\ u.candidate = t.candidate /\ u.blobs = t.blobs
         /\ x \in SUBSET Blobs /\ u = [t EXCEPT !.blobs = x] =>
              /\ u \in [candidate : AnyFarm, blobs : SUBSET Blobs, media : AnyFarm]
              /\ u.blobs = x /\ u.candidate = t.candidate /\ u.media = t.media
  OBVIOUS

LEMMA TreeMoves ==
  ASSUME InstallerInv, InStep, NEW t, NEW g, NEW next, Move(Trees(t, g), next)
  PROVE  \/ InstallerInv'
         \/ /\ media' = t /\ staging' = [staging EXCEPT !.media = g] /\ Did(next)
            /\ UNCHANGED <<journal, late, before, defect, round, root, aside, content, db, store>>
<1>1. CASE UNCHANGED <<files, db, store>> /\ Faulty /\ ErrorTo(mem)
  BY <1>1, FaultKeeps DEF Move, Do
<1>2. CASE Trees(t, g) /\ UNCHANGED <<db, store>> /\ Did(next)
  BY <1>2 DEF Move, Do, Trees
<1> QED  BY <1>1, <1>2 DEF Move, Do, Did

\* A step of a restore that leaves the database files alone.
LEMMA TreeKeeps ==
  ASSUME InstallerInv, InStep, mem.phase = "installing", mem.kind = "restore", NEW next, Did(next),
         UNCHANGED <<journal, late, before, defect, round, root, aside, db, store>>,
         media' \in [live : AnyFarm, previous : AnyFarm, aside : AnyFarm, moved : Farms], media'.moved = media.moved,
         staging' \in [candidate : AnyFarm, blobs : SUBSET Blobs, media : AnyFarm],
         staging'.candidate = staging.candidate,
         content' \in [stored : SUBSET Blobs, aside : SUBSET Blobs, moved : Farms],
         content.stored \subseteq content'.stored, Swapping(journal.swap)',
         pc' = next /\ mem' = mem => Staged' /\ Running' /\ pc'[1] # "discard",
         next[1] \in Back \cup {"loop"} => pc[1] \in Back \cup {"loop"}
  PROVE  InstallerInv'
<1>1. mem = journal /\ media.moved <= round
  BY DEF InStep, InstallerInv, Durable, Tied
<1>2. FilesTyped'
  BY DEF InstallerInv, Durable, InstallerTyped, FilesTyped
<1>3. RestoreHolds(mem)
  BY RestoreIs
<1>4. From(journal)' = From(mem) /\ journal'.rollback = mem.rollback /\ journal'.swap = mem.swap
  BY <1>1 DEF From
<1>5. Swapping(journal.swap)'
  OBVIOUS
<1>6. IF From(mem) < 2 \/ mem.rollback.candidateCleared THEN Split' ELSE Apart'
  BY <1>3 DEF RestoreHolds, Split, Apart
<1>7. RestoreHolds(journal)'
  BY <1>1, <1>3, <1>4, <1>5, <1>6 DEF RestoreHolds, Known
<1>8. Recoverable(journal)'
  BY <1>7, RestoreOn
<1> QED  BY <1>1, <1>2, <1>8, EffectKeeps DEF Did

LEMMA ExtractKeeps ==
  ASSUME InstallerInv, ExtractContent
  PROVE  InstallerInv'
<1>1. At("extractContent", 1)
  BY DEF ExtractContent
<1>2. InStep /\ pc[1] = "extractContent" /\ pc[2] = 1
  BY <1>1, AtStep DEF Forward
<1>3. mem.kind = "restore" /\ mem.id = round
  BY <1>2, StepHolds, StepsAre DEF ResetAt, Kinds
<1>4. /\ mem.phase = "installing" /\ mem.rollback = NoMarker /\ mem.step = "extractContent" /\ mem = journal
      /\ RestoreHolds(mem) /\ RestoreAt /\ FilesTyped /\ round \in Farms /\ Apart /\ Running /\ Waiting(journal)
  BY <1>1, <1>3, ForwardIs DEF Forward
<1>5. root.main = round /\ root.partial = NoFarm /\ mem.swap = "none"
  BY <1>2, <1>4 DEF RestoreAt, Forward, Late
<1>6. ASSUME Goes(Next1("extractContent"))  PROVE InstallerInv'
  <2>1. PICK next : next = <<"swapMedia", 0>>
    OBVIOUS
  <2>2. Goes(next)
    BY <1>3, <1>6, <2>1, NextSteps
  <2>3. pc' = next /\ UNCHANGED <<journal, mem, cause, files, rest, faults>>
    BY <2>2 DEF Goes
  <2>4. Running' /\ pc'[1] # "discard" /\ pc'[1] = "swapMedia" /\ pc'[2] = 0
    BY <2>1, <2>3, OnItsWay
  <2>5. Apart'
    BY <1>4, <2>3 DEF Apart, files, rest
  <2>6. RestoreAt'
    BY <1>4, <1>5, <2>3, <2>4, <2>5 DEF RestoreAt, Forward, Back, Late, files, rest
  <2>7. Staged'
    BY <1>3, <2>3, <2>4, <2>6 DEF Staged, Ending
  <2>8. next[1] \notin Back \cup {"loop"}
    BY <2>1 DEF Back
  <2> QED  BY <1>4, <2>2, <2>4, <2>7, <2>8, GoKeeps
<1>7. ASSUME NEW b \in db[mem.id].blobs \ content.stored,
             Move(/\ content' = [content EXCEPT !.stored = @ \cup {b}]
                  /\ staging' = [staging EXCEPT !.blobs = @ \ {b}]
                  /\ UNCHANGED <<root, aside, media>>,
                  <<"extractContent", 1>>)
      PROVE  InstallerInv'
  <2>1. PICK next : next = <<"extractContent", 1>>
    OBVIOUS
  <2>2. /\ UNCHANGED <<journal, late, before, defect, round>>
        /\ \/ Faulty /\ ErrorTo(mem) /\ UNCHANGED <<files, db, store>>
           \/ /\ content' = [content EXCEPT !.stored = @ \cup {b}]
              /\ staging' = [staging EXCEPT !.blobs = @ \ {b}]
              /\ UNCHANGED <<root, aside, media, db, store>> /\ Did(next)
    BY <1>7, <2>1 DEF Move, Do, Did
  <2>3. CASE Faulty /\ ErrorTo(mem) /\ UNCHANGED <<files, db, store>>
    BY <1>2, <2>2, <2>3, FaultKeeps
  <2>4. CASE /\ content' = [content EXCEPT !.stored = @ \cup {b}]
             /\ staging' = [staging EXCEPT !.blobs = @ \ {b}]
             /\ UNCHANGED <<root, aside, media, db, store>> /\ Did(next)
    <3>1. /\ staging \in [candidate : AnyFarm, blobs : SUBSET Blobs, media : AnyFarm]
          /\ content \in [stored : SUBSET Blobs, aside : SUBSET Blobs, moved : Farms]
          /\ media \in [live : AnyFarm, previous : AnyFarm, aside : AnyFarm, moved : Farms]
          /\ b \in Blobs /\ staging.blobs \ {b} \in SUBSET Blobs
      BY <1>3, <1>4 DEF FilesTyped, FarmRow
    <3>2. /\ content' \in [stored : SUBSET Blobs, aside : SUBSET Blobs, moved : Farms]
          /\ content'.stored = content.stored \cup {b}
      BY <2>4, <3>1
    <3>3. /\ staging' \in [candidate : AnyFarm, blobs : SUBSET Blobs, media : AnyFarm]
          /\ staging'.candidate = staging.candidate /\ staging'.media = staging.media
      <4>1. PICK B \in SUBSET Blobs : B = staging.blobs \ {b}
        BY <3>1
      <4>2. PICK g : g = staging'
        OBVIOUS
      <4>3. g = [staging EXCEPT !.blobs = B]
        BY <2>4, <4>1, <4>2
      <4> QED  BY <3>1, <4>2, <4>3, StagingSet
    <3>4. Swapping(journal.swap)'
      <4>1. media.live = Tree(before) /\ media.previous = NoFarm /\ staging.media = round
        BY <1>4, <1>5 DEF RestoreHolds, Swapping
      <4>2. mem.swap = "none" /\ journal'.swap = "none"
        BY <1>4, <1>5, <2>2
      <4>3. Swapping("none")'
        BY <2>2, <2>4, <3>3, <4>1 DEF Swapping, Tree
      <4> QED  BY <4>2, <4>3
    <3>5. ASSUME pc' = next, mem' = mem  PROVE Staged' /\ Running' /\ pc'[1] # "discard"
      <4>1. Running' /\ pc'[1] # "discard" /\ pc'[1] = "extractContent" /\ pc'[2] = 1
        BY <2>1, <3>5, OnItsWay
      <4>2. Apart'
        BY <1>4, <2>2, <2>4 DEF Apart
      <4>3. RestoreAt'
        BY <1>4, <1>5, <2>2, <2>4, <3>3, <3>5, <4>1, <4>2 DEF RestoreAt, Forward, Back, Late
      <4> QED  BY <1>3, <3>5, <4>1, <4>3 DEF Staged, Ending
    <3>6. next[1] \notin Back \cup {"loop"}
      BY <2>1 DEF Back
    <3>7. content.stored \subseteq content'.stored
      BY <3>2
    <3> QED  BY <1>2, <1>3, <1>4, <2>2, <2>4, <3>1, <3>2, <3>3, <3>4, <3>5, <3>6, <3>7, TreeKeeps
  <2> QED  BY <2>2, <2>3, <2>4
<1>8. CASE Goes(Next1("extractContent"))
  BY <1>6, <1>8
<1>9. CASE \E b \in db[mem.id].blobs \ content.stored :
              IF b \notin staging.blobs \/ defect = "extractContent" THEN Refuse
              ELSE Move(/\ content' = [content EXCEPT !.stored = @ \cup {b}]
                        /\ staging' = [staging EXCEPT !.blobs = @ \ {b}]
                        /\ UNCHANGED <<root, aside, media>>,
                        <<"extractContent", 1>>)
  <2>1. PICK b \in db[mem.id].blobs \ content.stored :
              IF b \notin staging.blobs \/ defect = "extractContent" THEN Refuse
              ELSE Move(/\ content' = [content EXCEPT !.stored = @ \cup {b}]
                        /\ staging' = [staging EXCEPT !.blobs = @ \ {b}]
                        /\ UNCHANGED <<root, aside, media>>,
                        <<"extractContent", 1>>)
    BY <1>9
  <2>2. CASE Refuse
    BY <1>2, <1>3, <1>4, <2>2, RefuseKeeps
  <2>3. CASE Move(/\ content' = [content EXCEPT !.stored = @ \cup {b}]
                  /\ staging' = [staging EXCEPT !.blobs = @ \ {b}]
                  /\ UNCHANGED <<root, aside, media>>,
                  <<"extractContent", 1>>)
    BY <1>7, <2>3
  <2> QED  BY <2>1, <2>2, <2>3
<1>10. CASE Misread(Loop, "invalid")
  BY <1>2, <1>3, <1>4, <1>10, RefuseKeeps
<1> QED  BY <1>8, <1>9, <1>10, Zenon DEF ExtractContent

LEMMA ValidateKeeps ==
  ASSUME InstallerInv, Validate
  PROVE  InstallerInv'
<1>1. PICK n \in 1..2 : At("validate", n)
  <2>1. At("validate", 1) \/ At("validate", 2)
    BY Zenon DEF Validate
  <2> QED  BY <2>1
<1>2. InStep /\ pc[1] = "validate" /\ pc[2] = n
  BY <1>1, AtStep DEF Forward
<1>3. mem.kind = "restore" /\ mem.id = round /\ Recoverable(mem) /\ db[round].tree
  BY <1>2, StepHolds, StepsAre DEF ResetAt, Kinds
<1>4. /\ At("validate", 1) => n = 1
      /\ At("validate", 2) => n = 2
  BY <1>2 DEF At
<1>5. ASSUME n = 1, Move(Root("wal", mem.id), <<"validate", 2>>)  PROVE InstallerInv'
  BY <1>1, <1>3, <1>5, LogKeeps
<1>6. ASSUME Refuse \/ Misread(Loop, "invalid")  PROVE InstallerInv'
  <2>1. mem.phase = "installing"
    BY <1>1, <1>3, ForwardIs DEF Forward
  <2> QED  BY <1>2, <1>3, <1>6, <2>1, RefuseKeeps
<1>7. ASSUME n = 2, Valid, Move(Root("wal", NoFarm), Next1("validate"))  PROVE InstallerInv'
  <2>1. Move(Root("wal", NoFarm), <<"markInstalled", 0>>)
    BY <1>3, <1>7, NextSteps
  <2>2. media.live = round /\ db[round].blobs \subseteq content.stored
        /\ mem.carry \cup mem.orphans \subseteq db[round].auto \cup db[round].orphan
    BY <1>3, <1>7 DEF Valid
  <2>3. Known(round)
    BY <1>3, <2>2 DEF Known, Recoverable
  <2>4. media.live = Tree(round)
    BY <1>3, <2>2 DEF Tree
  <2> QED  BY <1>1, <1>3, <1>7, <2>1, <2>2, <2>3, <2>4, LogKeeps
<1> QED  BY <1>4, <1>5, <1>6, <1>7, Zenon DEF Validate

LEMMA MarkInstalledKeeps ==
  ASSUME InstallerInv, MarkInstalled
  PROVE  InstallerInv'
<1>1. At("markInstalled", 1) /\ Save(SetPhase("installed"), Next1("markInstalled"))
  BY DEF MarkInstalled
<1>2. InStep /\ pc[1] = "markInstalled" /\ pc[2] = 1
  BY <1>1, AtStep DEF Forward
<1>3. mem.kind = "restore" /\ mem.id = round /\ Recoverable(mem)
  BY <1>2, StepHolds, StepsAre DEF ResetAt, Kinds
<1>4. /\ mem.phase = "installing" /\ mem.rollback = NoMarker /\ mem = journal
      /\ RestoreAt /\ FilesTyped /\ Running /\ Waiting(journal) /\ mem \in Journals
  BY <1>1, <1>3, ForwardIs DEF Forward
<1>5. New(round)
  BY <1>2, <1>4 DEF RestoreAt
<1>6. PICK copy : copy = [mem EXCEPT !.phase = "installed"]
  OBVIOUS
<1>7. /\ copy \in Journals /\ copy.phase = "installed" /\ copy.kind = "restore" /\ copy.id = mem.id
      /\ copy.attempts = mem.attempts /\ copy.rollback = NoMarker /\ copy.carry = mem.carry /\ copy.orphans = mem.orphans
  <2>1. "installed" \in Phases
    BY DEF Phases
  <2> QED  BY <1>3, <1>4, <1>6, <2>1, PhaseSet
<1>8. PICK next : next = <<"removePrevious", 0>>
  OBVIOUS
<1>9. Save(copy, next)
  BY <1>1, <1>3, <1>6, <1>8, NextSteps DEF SetPhase
<1>10. Follows(copy) /\ Waiting(copy)
  BY <1>3, <1>7 DEF Follows, Waiting, Unfinished
<1>11. Recoverable(copy)
  BY <1>3, <1>5, <1>7 DEF Recoverable
<1>12. ASSUME mem' = copy, pc' = next  PROVE Running' /\ pc'[1] # "discard" /\ Staged'
  <2>1. Running' /\ pc'[1] # "discard" /\ pc'[1] = "removePrevious" /\ pc'[2] = 0
    BY <1>8, <1>12, OnItsWay
  <2>2. RestoreAt'
    BY <1>7, <1>12, <2>1 DEF RestoreAt, Forward, Back
  <2> QED  BY <1>7, <1>12, <2>1, <2>2 DEF Staged, Ending
<1>13. faults + 1 >= copy.attempts
  BY <1>3, <1>4, <1>7 DEF InstallerInv, Counted
<1>14. next[1] \notin Back \cup {"loop"}
  BY <1>8 DEF Back
<1> QED  BY <1>4, <1>7, <1>9, <1>10, <1>11, <1>12, <1>13, <1>14, SaveKeeps

LEMMA SwapRecorded ==
  ASSUME InstallerInv, At("swapMedia", 1), mem.kind = "restore",
         IF staging.media = NoFarm \/ defect = "swapMedia" THEN Refuse
         ELSE IF media.previous # NoFarm THEN Fails
         ELSE Save([mem EXCEPT !.swap = IF media.live = NoFarm THEN "absent" ELSE "existed"], <<"swapMedia", 2>>)
  PROVE  InstallerInv'
<1>1. /\ InStep /\ pc[1] = "swapMedia" /\ pc[2] = 1
      /\ mem.phase = "installing" /\ mem.rollback = NoMarker /\ mem.step = "swapMedia" /\ mem = journal
      /\ RestoreHolds(mem) /\ RestoreAt /\ FilesTyped /\ Running /\ Waiting(journal) /\ mem \in Journals /\ Apart
      /\ before \in Farms /\ round \in Farms /\ mem.id = round
  BY ForwardIs DEF Forward
<1>2. mem.swap = "none" /\ root.main = round /\ root.partial = NoFarm
  BY <1>1 DEF RestoreAt, Forward, Late
<1>3. media.live = Tree(before) /\ media.previous = NoFarm /\ staging.media = round
  BY <1>1, <1>2 DEF RestoreHolds, Swapping
<1>4. NoFarm \notin Farms
  BY InstallerAssumption DEF NoFarm, Farms
<1> SUFFICES ASSUME ~Refuse  PROVE InstallerInv'
  BY <1>1, RefuseKeeps
<1>5. PICK swap \in {"absent", "existed"} : swap = IF media.live = NoFarm THEN "absent" ELSE "existed"
  OBVIOUS
<1>6. /\ swap = "absent" => ~db[before].tree
      /\ swap = "existed" => db[before].tree
  BY <1>1, <1>3, <1>4, <1>5 DEF Tree
<1>7. PICK copy : copy = [mem EXCEPT !.swap = swap]
  OBVIOUS
<1>8. PICK next : next = <<"swapMedia", 2>>
  OBVIOUS
<1>9. Save(copy, next)
  BY <1>1, <1>3, <1>4, <1>5, <1>7, <1>8
<1>10. /\ copy \in Journals /\ copy.swap = swap /\ copy.id = mem.id /\ copy.kind = mem.kind /\ copy.phase = mem.phase
       /\ copy.step = mem.step /\ copy.attempts = mem.attempts /\ copy.rollback = mem.rollback
       /\ copy.carry = mem.carry /\ copy.orphans = mem.orphans
  BY <1>1, <1>7, SwapSet
<1>11. Follows(copy) /\ Waiting(copy)
  BY <1>1, <1>10 DEF Follows, Waiting
<1>12. Swapping(copy.swap)
  <2>1. CASE swap = "absent"
    BY <1>3, <1>10, <2>1 DEF Swapping
  <2>2. CASE swap = "existed"
    BY <1>3, <1>6, <1>10, <2>2 DEF Swapping, Tree
  <2> QED  BY <2>1, <2>2
<1>13. From(copy) = From(mem)
  BY <1>10, Zenon DEF From
<1>14. RestoreHolds(copy)
  BY <1>1, <1>6, <1>10, <1>12, <1>13 DEF RestoreHolds, NoMarker
<1>15. Recoverable(copy)
  <2>1. store \subseteq mem.orphans \cup db[round].used \cup late /\ mem.carry \subseteq mem.orphans
    BY <1>1, StepHolds DEF Recoverable
  <2> QED  BY <1>1, <1>10, <1>14, <2>1 DEF Recoverable
<1>16. ASSUME UNCHANGED <<files, rest>>, mem' = copy, pc' = next  PROVE Running' /\ pc'[1] # "discard" /\ Staged'
  <2>1. Running' /\ pc'[1] # "discard" /\ pc'[1] = "swapMedia" /\ pc'[2] = 2
    BY <1>8, <1>16, OnItsWay
  <2>2. UNCHANGED <<root, aside, staging, media, content, db, store, late, before, round>>
    BY <1>16 DEF files, rest
  <2>3. Apart'
    BY <1>1, <2>2 DEF Apart
  <2>4. RestoreAt'
    BY <1>1, <1>2, <1>3, <1>6, <1>10, <1>16, <2>1, <2>2, <2>3 DEF RestoreAt, Forward, Back, Late, Tree
  <2> QED  BY <1>10, <1>16, <2>1, <2>4 DEF Staged, Ending
<1>17. faults + 1 >= copy.attempts
  BY <1>1, <1>10 DEF InstallerInv, Counted
<1>18. next[1] \notin Back \cup {"loop"}
  BY <1>8 DEF Back
<1> QED  BY <1>1, <1>9, <1>10, <1>11, <1>15, <1>16, <1>17, <1>18, SaveKeeps

LEMMA SwapKeeps ==
  ASSUME InstallerInv, SwapMedia
  PROVE  InstallerInv'
<1>1. PICK n \in 1..3 : At("swapMedia", n)
  <2>1. At("swapMedia", 1) \/ At("swapMedia", 2) \/ At("swapMedia", 3)
    BY Zenon DEF SwapMedia
  <2> QED  BY <2>1
<1>2. InStep /\ pc[1] = "swapMedia" /\ pc[2] = n
  BY <1>1, AtStep DEF Forward
<1>3. mem.kind = "restore" /\ mem.id = round
  BY <1>2, StepHolds, StepsAre DEF ResetAt, Kinds
<1>4. /\ At("swapMedia", 1) => n = 1
      /\ At("swapMedia", 2) => n = 2
      /\ At("swapMedia", 3) => n = 3
  BY <1>2 DEF At
<1>5. /\ mem.phase = "installing" /\ mem.rollback = NoMarker /\ mem.step = "swapMedia" /\ mem = journal
      /\ RestoreHolds(mem) /\ RestoreAt /\ FilesTyped /\ Running /\ Waiting(journal) /\ mem \in Journals /\ Apart
      /\ before \in Farms /\ round \in Farms
  BY <1>1, <1>3, ForwardIs DEF Forward
<1>6. root.main = round /\ root.partial = NoFarm
  BY <1>2, <1>5 DEF RestoreAt, Forward, Late
<1>7. NoFarm \notin Farms /\ NoFarm \in AnyFarm /\ round \in AnyFarm
  BY <1>5, InstallerAssumption DEF NoFarm, Farms, AnyFarm
<1>8. /\ media \in [live : AnyFarm, previous : AnyFarm, aside : AnyFarm, moved : Farms]
      /\ staging \in [candidate : AnyFarm, blobs : SUBSET Blobs, media : AnyFarm]
      /\ content \in [stored : SUBSET Blobs, aside : SUBSET Blobs, moved : Farms]
  BY <1>5 DEF FilesTyped
<1>9. ASSUME n = 2, mem.swap = "absent", Goes(<<"swapMedia", 3>>)  PROVE InstallerInv'
  <2>1. PICK next : next = <<"swapMedia", 3>>
    OBVIOUS
  <2>2. Goes(next)
    BY <1>9, <2>1
  <2>3. /\ pc' = next /\ UNCHANGED <<journal, mem, cause, files, rest, faults>>
        /\ UNCHANGED <<root, aside, staging, media, content, db, store, late, before, round>>
    BY <2>2 DEF Goes, files, rest
  <2>4. Running' /\ pc'[1] # "discard" /\ pc'[1] = "swapMedia" /\ pc'[2] = 3
    BY <2>1, <2>3, OnItsWay
  <2>5. Apart'
    BY <1>5, <2>3 DEF Apart
  <2>6. media.live = NoFarm /\ staging.media = round
    BY <1>2, <1>5, <1>9 DEF RestoreAt, RestoreHolds, Tree
  <2>7. RestoreAt'
    BY <1>5, <1>6, <1>9, <2>3, <2>4, <2>5, <2>6 DEF RestoreAt, Forward, Back, Late
  <2>8. Staged'
    BY <1>3, <2>3, <2>4, <2>7 DEF Staged, Ending
  <2>9. next[1] \notin Back \cup {"loop"}
    BY <2>1 DEF Back
  <2> QED  BY <1>5, <2>2, <2>4, <2>8, <2>9, GoKeeps
<1>10. ASSUME n = 2, mem.swap # "absent",
              Move(Trees([media EXCEPT !.previous = media.live, !.live = NoFarm], staging.media), <<"swapMedia", 3>>)
       PROVE  InstallerInv'
  <2>1. /\ mem.swap = "existed" /\ db[before].tree /\ media.live = before /\ media.previous = NoFarm
        /\ staging.media = round
    <3>1. mem.swap # "none" /\ media.live = Tree(before) /\ media.previous = NoFarm /\ staging.media = round
          /\ (mem.swap = "existed" => db[before].tree)
      BY <1>2, <1>5, <1>10 DEF RestoreAt
    <3>2. mem.swap \in {"none", "absent", "existed"}
      BY <1>5 DEF Journals
    <3> QED  BY <1>10, <3>1, <3>2 DEF Tree
  <2>2. PICK s : s = [media EXCEPT !.previous = before]
    OBVIOUS
  <2>3. PICK t : t = [s EXCEPT !.live = NoFarm]
    OBVIOUS
  <2>4. /\ t \in [live : AnyFarm, previous : AnyFarm, aside : AnyFarm, moved : Farms]
        /\ t.live = NoFarm /\ t.previous = before /\ t.moved = media.moved
    <3>1. before \in AnyFarm
      BY <1>5 DEF AnyFarm
    <3>2. s \in [live : AnyFarm, previous : AnyFarm, aside : AnyFarm, moved : Farms]
          /\ s.previous = before /\ s.moved = media.moved
      BY <1>8, <2>2, <3>1, MediaSet
    <3> QED  BY <1>7, <2>3, <3>2, MediaSet
  <2>5. [media EXCEPT !.previous = media.live, !.live = NoFarm] = t
    <3>1. [media EXCEPT !.previous = media.live, !.live = NoFarm] = [[media EXCEPT !.previous = media.live] EXCEPT !.live = NoFarm]
      BY <1>8
    <3> QED  BY <2>1, <2>2, <2>3, <3>1, Zenon
  <2>6. PICK next : next = <<"swapMedia", 3>>
    OBVIOUS
  <2>7. Move(Trees(t, round), next)
    BY <1>10, <2>1, <2>5, <2>6
  <2>8. CASE InstallerInv'
    BY <2>8
  <2>9. CASE /\ media' = t /\ staging' = [staging EXCEPT !.media = round] /\ Did(next)
             /\ UNCHANGED <<journal, late, before, defect, round, root, aside, content, db, store>>
    <3>1. /\ staging' \in [candidate : AnyFarm, blobs : SUBSET Blobs, media : AnyFarm]
          /\ staging'.candidate = staging.candidate /\ staging'.media = round
      BY <1>7, <1>8, <2>9, StagingSet
    <3>2. Swapping(journal.swap)'
      BY <1>5, <2>1, <2>4, <2>9, <3>1 DEF Swapping
    <3>3. Apart'
      BY <1>5, <2>9 DEF Apart
    <3>4. ASSUME pc' = next, mem' = mem  PROVE Staged' /\ Running' /\ pc'[1] # "discard"
      <4>1. Running' /\ pc'[1] # "discard" /\ pc'[1] = "swapMedia" /\ pc'[2] = 3
        BY <2>6, <3>4, OnItsWay
      <4>2. RestoreAt'
        BY <1>5, <1>6, <2>1, <2>4, <2>9, <3>1, <3>3, <3>4, <4>1 DEF RestoreAt, Forward, Back, Late
      <4> QED  BY <1>3, <3>4, <4>1, <4>2 DEF Staged, Ending
    <3>5. next[1] \notin Back \cup {"loop"}
      BY <2>6 DEF Back
    <3> QED  BY <1>2, <1>3, <1>5, <1>8, <2>4, <2>9, <3>1, <3>2, <3>4, <3>5, TreeKeeps
  <2> QED  BY <1>2, <2>7, <2>8, <2>9, TreeMoves
<1>11. ASSUME n = 3, Move(Trees([media EXCEPT !.live = staging.media], NoFarm), Next1("swapMedia"))
       PROVE  InstallerInv'
  <2>1. mem.swap \in {"absent", "existed"} /\ staging.media = round /\ media.live = NoFarm
    BY <1>2, <1>5, <1>11 DEF RestoreAt, Journals
  <2>2. Swapping(mem.swap) /\ (mem.swap = "absent" => ~db[before].tree)
    BY <1>5 DEF RestoreHolds
  <2>3. /\ mem.swap = "absent" => media.previous = NoFarm /\ ~db[before].tree
        /\ mem.swap = "existed" => media.previous = before /\ db[before].tree
    BY <1>5, <1>7, <2>1, <2>2 DEF Swapping
  <2>4. PICK t : t = [media EXCEPT !.live = round]
    OBVIOUS
  <2>5. /\ t \in [live : AnyFarm, previous : AnyFarm, aside : AnyFarm, moved : Farms]
        /\ t.live = round /\ t.previous = media.previous /\ t.moved = media.moved
    BY <1>7, <1>8, <2>4, MediaSet
  <2>6. PICK next : next = <<"validate", 0>>
    OBVIOUS
  <2>7. Move(Trees(t, NoFarm), next)
    BY <1>3, <1>11, <2>1, <2>4, <2>6, NextSteps
  <2>8. CASE InstallerInv'
    BY <2>8
  <2>9. CASE /\ media' = t /\ staging' = [staging EXCEPT !.media = NoFarm] /\ Did(next)
             /\ UNCHANGED <<journal, late, before, defect, round, root, aside, content, db, store>>
    <3>1. /\ staging' \in [candidate : AnyFarm, blobs : SUBSET Blobs, media : AnyFarm]
          /\ staging'.candidate = staging.candidate /\ staging'.media = NoFarm
      BY <1>7, <1>8, <2>9, StagingSet
    <3>2. Swapping(journal.swap)'
      BY <1>5, <2>1, <2>3, <2>5, <2>9, <3>1 DEF Swapping
    <3>3. Apart'
      BY <1>5, <2>9 DEF Apart
    <3>4. ASSUME pc' = next, mem' = mem  PROVE Staged' /\ Running' /\ pc'[1] # "discard"
      <4>1. Running' /\ pc'[1] # "discard" /\ pc'[1] = "validate" /\ pc'[2] = 0
        BY <2>6, <3>4, OnItsWay
      <4>2. RestoreAt'
        BY <1>5, <1>6, <2>1, <2>5, <2>9, <3>1, <3>3, <3>4, <4>1 DEF RestoreAt, Forward, Back, Late
      <4> QED  BY <1>3, <3>4, <4>1, <4>2 DEF Staged, Ending
    <3>5. next[1] \notin Back \cup {"loop"}
      BY <2>6 DEF Back
    <3> QED  BY <1>2, <1>3, <1>5, <1>8, <2>5, <2>9, <3>1, <3>2, <3>4, <3>5, TreeKeeps
  <2> QED  BY <1>2, <2>7, <2>8, <2>9, TreeMoves
<1>12. CASE At("swapMedia", 1) /\ IF staging.media = NoFarm \/ defect = "swapMedia" THEN Refuse
             ELSE IF media.previous # NoFarm THEN Fails
             ELSE Save([mem EXCEPT !.swap = IF media.live = NoFarm THEN "absent" ELSE "existed"], <<"swapMedia", 2>>)
  BY <1>3, <1>12, SwapRecorded
<1>13. CASE At("swapMedia", 2) /\ IF mem.swap = "absent" THEN Goes(<<"swapMedia", 3>>)
             ELSE Move(Trees([media EXCEPT !.previous = media.live, !.live = NoFarm], staging.media), <<"swapMedia", 3>>)
  <2>1. CASE mem.swap = "absent"
    BY <1>4, <1>9, <1>13, <2>1, Zenon
  <2>2. CASE mem.swap # "absent"
    BY <1>4, <1>10, <1>13, <2>2, Zenon
  <2> QED  BY <2>1, <2>2
<1>14. CASE At("swapMedia", 3) /\ Move(Trees([media EXCEPT !.live = staging.media], NoFarm), Next1("swapMedia"))
  BY <1>4, <1>11, <1>14
<1>15. CASE Misread(Loop, "invalid")
  BY <1>2, <1>3, <1>5, <1>15, RefuseKeeps
<1> QED  BY <1>12, <1>13, <1>14, <1>15, Zenon DEF SwapMedia

---------------------------------------------------------------------------
(* What was kept aside goes, and the journal is done.                      *)

\* A restore that is installed, or a reset at its last step.
LEMMA LastStep ==
  ASSUME InstallerInv, NEW n \in 1..2, At("removePrevious", n)
  PROVE  /\ InStep /\ pc[1] = "removePrevious" /\ pc[2] = n /\ Running /\ mem = journal /\ Waiting(journal)
         /\ mem.kind \in Kinds /\ FilesTyped /\ mem.id = round /\ round \in Farms /\ mem \in Journals
         /\ Recoverable(mem) /\ New(round) /\ (n = 2 => aside = NoFiles) /\ media.moved <= round
         /\ mem.phase = IF mem.kind = "restore" THEN "installed" ELSE "installing"
         /\ mem.kind = "reset" => mem.step = "removePrevious" /\ ResetHolds(mem) /\ media.live = NoFarm
<1>1. InStep /\ pc[1] = "removePrevious" /\ pc[2] = n
  BY AtStep, StepsAre
<1>2. /\ mem.kind \in Kinds /\ mem.id = round /\ round \in Farms /\ mem \in Journals /\ Recoverable(mem)
      /\ db[round].tree = (mem.kind = "restore") /\ (mem.kind = "reset" => db[round].blobs = {}) /\ Ending
  BY <1>1, StepHolds
<1>3. Running /\ mem = journal /\ Waiting(journal) /\ media.moved <= round /\ FilesTyped
  BY <1>1, StepHolds DEF InStep, InstallerInv, Durable, Tied, InstallerTyped
<1>4. CASE mem.kind = "restore"
  <2>1. mem.phase = "installed"
    BY <1>1, <1>4, StepHolds DEF RestoreAt
  <2> QED  BY <1>1, <1>2, <1>3, <1>4, <2>1 DEF Recoverable, Ending
<1>5. CASE mem.kind = "reset"
  <2>1. ResetAt /\ ResetHolds(mem) /\ mem.step = "removePrevious" /\ mem.phase = "installing"
    BY <1>5, StepsAre, ResetStepIs
  <2>2. media.live = NoFarm /\ root.main = round /\ root.wal = NoFarm /\ Known(round) /\ root.partial = NoFarm
        /\ aside.main \in {NoFarm, before} /\ aside.wal \in {NoFarm, before}
    BY <2>1, PlacesAre DEF ResetHolds
  <2>3. New(round)
    BY <1>2, <1>5, <2>2 DEF New, Tree
  <2> QED  BY <1>1, <1>2, <1>3, <1>5, <2>1, <2>2, <2>3 DEF Ending
<1> QED  BY <1>2, <1>4, <1>5 DEF Kinds

\* Only what is kept aside changes.
LEMMA LastKeeps ==
  ASSUME InstallerInv, NEW n \in 1..2, At("removePrevious", n), NEW next, Did(next),
         UNCHANGED <<journal, late, before, defect, round, root, db, store>>, FilesTyped',
         aside' \in {aside, NoFiles}, media'.live = media.live, media'.moved = media.moved,
         content'.stored = content.stored,
         pc' = next /\ mem' = mem => Staged' /\ Running' /\ pc'[1] # "discard",
         next[1] \notin Back \cup {"loop"}
  PROVE  InstallerInv'
<1>1. /\ InStep /\ mem = journal /\ mem.kind \in Kinds /\ Recoverable(mem) /\ New(round) /\ media.moved <= round
      /\ mem.phase = IF mem.kind = "restore" THEN "installed" ELSE "installing"
      /\ mem.kind = "reset" => mem.step = "removePrevious" /\ ResetHolds(mem) /\ media.live = NoFarm
  BY LastStep
<1>2. CASE mem.kind = "restore"
  <2>1. New(round)'
    BY <1>1 DEF New, Tree, Known, NoFiles
  <2>2. Recoverable(journal)'
    BY <1>1, <1>2, <2>1 DEF Recoverable
  <2> QED  BY <1>1, <2>2, EffectKeeps DEF Did
<1>3. CASE mem.kind = "reset"
  <2>1. ResetHolds(journal)'
    BY <1>1, <1>3, PlacesAre DEF ResetHolds, Known, NoFiles
  <2>2. Recoverable(journal)'
    BY <1>1, <1>3, <2>1, ResetOn
  <2> QED  BY <1>1, <2>2, EffectKeeps DEF Did
<1> QED  BY <1>1, <1>2, <1>3 DEF Kinds

LEMMA RemovePreviousKeeps ==
  ASSUME InstallerInv, RemovePrevious
  PROVE  InstallerInv'
<1>1. PICK n \in 1..2 : At("removePrevious", n)
  <2>1. At("removePrevious", 1) \/ At("removePrevious", 2)
    BY Zenon DEF RemovePrevious
  <2> QED  BY <2>1
<1>2. /\ InStep /\ pc[1] = "removePrevious" /\ pc[2] = n /\ mem = journal
      /\ mem.kind \in Kinds /\ FilesTyped /\ round \in Farms /\ New(round) /\ (n = 2 => aside = NoFiles)
      /\ mem.phase = IF mem.kind = "restore" THEN "installed" ELSE "installing"
      /\ mem.kind = "reset" => mem.step = "removePrevious" /\ ResetHolds(mem) /\ media.live = NoFarm
  BY <1>1, LastStep
<1>3. /\ At("removePrevious", 1) => n = 1
      /\ At("removePrevious", 2) => n = 2
  BY <1>2 DEF At
<1>4. root.main = round /\ root.wal = NoFarm /\ Known(round)
  BY <1>2 DEF New
<1>5. NoFarm \in AnyFarm /\ NoFiles \in [main : AnyFarm, wal : AnyFarm] /\ NoStaging \in [candidate : AnyFarm, blobs : SUBSET Blobs, media : AnyFarm]
  BY DEF AnyFarm, NoFiles, NoStaging
<1>6. ASSUME n = 1, Move(Database(root, NoFiles), <<"removePrevious", 2>>)  PROVE InstallerInv'
  <2>1. PICK next : next = <<"removePrevious", 2>>
    OBVIOUS
  <2>2. PICK r : r = root
    OBVIOUS
  <2>3. PICK a : a = NoFiles
    OBVIOUS
  <2>4. Move(Database(r, a), next)
    BY <1>6, <2>1, <2>2, <2>3
  <2>5. CASE InstallerInv'
    BY <2>5
  <2>6. CASE /\ root' = r /\ aside' = a /\ Did(next)
             /\ UNCHANGED <<journal, late, before, defect, round, staging, media, content, db, store>>
    <3>1. FilesTyped'
      BY <1>2, <1>5, <2>2, <2>3, <2>6 DEF FilesTyped
    <3>2. ASSUME pc' = next, mem' = mem  PROVE Staged' /\ Running' /\ pc'[1] # "discard"
      <4>1. Running' /\ pc'[1] # "discard" /\ pc'[1] = "removePrevious" /\ pc'[2] = 2
        BY <2>1, <3>2, OnItsWay
      <4>2. mem.kind = "restore" => RestoreAt'
        BY <1>2, <3>2, <4>1 DEF RestoreAt, Forward, Back
      <4>3. mem.kind = "reset" => ResetAt'
        <5>1. Known(round)'
          BY <1>4, <2>6 DEF Known
        <5> QED  BY <1>2, <1>4, <2>2, <2>6, <3>2, <4>1, <5>1, PlacesAre, StepsAre DEF ResetAt
      <4>4. Ending'
        BY <2>3, <2>6, <4>1 DEF Ending
      <4> QED  BY <3>2, <4>1, <4>2, <4>3, <4>4 DEF Staged
    <3>3. next[1] \notin Back \cup {"loop"}
      BY <2>1 DEF Back
    <3> QED  BY <1>1, <2>2, <2>3, <2>6, <3>1, <3>2, <3>3, LastKeeps
  <2> QED  BY <1>2, <2>4, <2>5, <2>6, RootMoves
<1>7. ASSUME n = 2,
             Move(/\ staging' = IF mem.kind = "restore" THEN NoStaging ELSE staging
                  /\ media' = [media EXCEPT !.previous = NoFarm, !.aside = NoFarm]
                  /\ content' = [content EXCEPT !.aside = {}]
                  /\ UNCHANGED <<root, aside>>,
                  <<"markDone", 0>>)
      PROVE  InstallerInv'
  <2>1. PICK next : next = <<"markDone", 0>>
    OBVIOUS
  <2>2. /\ UNCHANGED <<journal, late, before, defect, round>>
        /\ \/ Faulty /\ ErrorTo(mem) /\ UNCHANGED <<files, db, store>>
           \/ /\ staging' = IF mem.kind = "restore" THEN NoStaging ELSE staging
              /\ media' = [media EXCEPT !.previous = NoFarm, !.aside = NoFarm]
              /\ content' = [content EXCEPT !.aside = {}]
              /\ UNCHANGED <<root, aside, db, store>> /\ Did(next)
    BY <1>7, <2>1 DEF Move, Do, Did
  <2>3. CASE Faulty /\ ErrorTo(mem) /\ UNCHANGED <<files, db, store>>
    BY <1>2, <2>2, <2>3, FaultKeeps
  <2>4. CASE /\ staging' = IF mem.kind = "restore" THEN NoStaging ELSE staging
             /\ media' = [media EXCEPT !.previous = NoFarm, !.aside = NoFarm]
             /\ content' = [content EXCEPT !.aside = {}]
             /\ UNCHANGED <<root, aside, db, store>> /\ Did(next)
    <3>1. /\ media \in [live : AnyFarm, previous : AnyFarm, aside : AnyFarm, moved : Farms]
          /\ staging \in [candidate : AnyFarm, blobs : SUBSET Blobs, media : AnyFarm]
          /\ content \in [stored : SUBSET Blobs, aside : SUBSET Blobs, moved : Farms]
      BY <1>2 DEF FilesTyped
    <3>2. PICK s : s = [media EXCEPT !.previous = NoFarm]
      OBVIOUS
    <3>3. PICK t : t = [s EXCEPT !.aside = NoFarm]
      OBVIOUS
    <3>4. /\ t \in [live : AnyFarm, previous : AnyFarm, aside : AnyFarm, moved : Farms]
          /\ t.live = media.live /\ t.moved = media.moved /\ t.previous = NoFarm
      <4>1. /\ s \in [live : AnyFarm, previous : AnyFarm, aside : AnyFarm, moved : Farms]
            /\ s.live = media.live /\ s.moved = media.moved /\ s.previous = NoFarm
        BY <1>5, <3>1, <3>2, MediaSet
      <4> QED  BY <1>5, <3>3, <4>1, MediaSet
    <3>5. media' = t
      <4>1. [media EXCEPT !.previous = NoFarm, !.aside = NoFarm] = [[media EXCEPT !.previous = NoFarm] EXCEPT !.aside = NoFarm]
        BY <3>1
      <4> QED  BY <2>4, <3>2, <3>3, <4>1, Zenon
    <3>6. content' \in [stored : SUBSET Blobs, aside : SUBSET Blobs, moved : Farms] /\ content'.stored = content.stored
      BY <2>4, <3>1
    <3>7. staging' \in [candidate : AnyFarm, blobs : SUBSET Blobs, media : AnyFarm]
      BY <1>5, <2>4, <3>1
    <3>8. FilesTyped'
      BY <1>2, <2>4, <3>4, <3>5, <3>6, <3>7 DEF FilesTyped
    <3>9. ASSUME pc' = next, mem' = mem  PROVE Staged' /\ Running' /\ pc'[1] # "discard"
      <4>1. Running' /\ pc'[1] # "discard" /\ pc'[1] = "markDone" /\ pc'[2] = 0
        BY <2>1, <3>9, OnItsWay
      <4>2. mem.kind = "restore" => RestoreAt'
        BY <1>2, <3>9, <4>1 DEF RestoreAt, Forward, Back
      <4>3. mem.kind = "reset" => ResetAt'
        BY <1>2, <3>9, <4>1, StepsAre DEF ResetAt
      <4>4. New(round)'
        BY <1>2, <2>2, <2>4, <3>4, <3>5, <3>6 DEF New, Tree, Known
      <4>5. Ending'
        BY <1>2, <1>7, <2>4, <3>4, <3>5, <3>9, <4>1, <4>4 DEF Ending
      <4> QED  BY <3>9, <4>1, <4>2, <4>3, <4>5 DEF Staged
    <3>10. next[1] \notin Back \cup {"loop"}
      BY <2>1 DEF Back
    <3> QED  BY <1>1, <2>2, <2>4, <3>4, <3>5, <3>6, <3>8, <3>9, <3>10, LastKeeps
  <2> QED  BY <2>2, <2>3, <2>4
<1> QED  BY <1>3, <1>6, <1>7, Zenon DEF RemovePrevious

LEMMA MarkDoneKeeps ==
  ASSUME InstallerInv, MarkDone
  PROVE  InstallerInv'
<1>1. At("markDone", 0) /\ Save([SetPhase("done") EXCEPT !.step = "markDone"], Opening)
  BY DEF MarkDone
<1>2. InStep /\ pc[1] = "markDone" /\ pc[2] = 0
  BY <1>1, AtStep
<1>3. /\ Running /\ mem = journal /\ Waiting(journal) /\ mem \in Journals /\ Ending
  BY <1>2, StepHolds DEF InStep
<1>4. ~RollsBack
  BY <1>2, PlacesAre, StepsAre DEF RollsBack
<1>5. PICK a : a = [mem EXCEPT !.phase = "done"]
  OBVIOUS
<1>6. PICK copy : copy = [a EXCEPT !.step = "markDone"]
  OBVIOUS
<1>7. /\ a \in Journals /\ a.phase = "done" /\ a.id = mem.id /\ a.kind = mem.kind /\ a.carry = mem.carry
      /\ a.orphans = mem.orphans
  <2>1. "done" \in Phases
    BY DEF Phases
  <2> QED  BY <1>3, <1>5, <2>1, PhaseSet
<1>8. /\ copy \in Journals /\ copy.phase = "done" /\ copy.id = mem.id /\ copy.kind = mem.kind
      /\ copy.carry = mem.carry /\ copy.orphans = mem.orphans
  <2>1. "markDone" \in StepNames
    BY DEF StepNames
  <2> QED  BY <1>6, <1>7, <2>1, StepSet
<1>9. Whole(round)
  BY <1>2, <1>3 DEF Ending, New, Whole
<1>10. Save(copy, Opening)
  BY <1>1, <1>5, <1>6 DEF SetPhase
<1> QED  BY <1>3, <1>4, <1>8, <1>9, <1>10, EndKeeps DEF Follows

---------------------------------------------------------------------------
(* The reset's own steps.                                                  *)

LEMMA ResetKeeps ==
  ASSUME InstallerInv, InStep, mem.phase = "installing", mem.kind = "reset", NEW next, Did(next),
         UNCHANGED <<journal, late, before, defect, round>>, FilesTyped', media'.moved <= round,
         db'[round].used = db[round].used, db'[round].tree = db[round].tree, db'[round].blobs = db[round].blobs,
         store' \subseteq store, ResetHolds(journal)',
         pc' = next /\ mem' = mem => Staged' /\ Running' /\ pc'[1] # "discard",
         next[1] \notin Back \cup {"loop"}
  PROVE  InstallerInv'
<1>1. Recoverable(journal)'
  BY ResetOn
<1> QED  BY <1>1, EffectKeeps DEF Did

LEMMA MoveRootsKeeps ==
  ASSUME InstallerInv, MoveRootsAside
  PROVE  InstallerInv'
<1>1. PICK n \in 1..2 : At("moveRootsAside", n)
  <2>1. At("moveRootsAside", 1) \/ At("moveRootsAside", 2)
    BY Zenon DEF MoveRootsAside
  <2> QED  BY <2>1
<1>2. InStep /\ pc[1] = "moveRootsAside" /\ pc[2] = n
  BY <1>1, StepsAre, AtStep
<1>3. mem.kind = "reset"
  BY <1>2, StepHolds DEF RestoreAt, Forward, Back, Kinds
<1>4. /\ At("moveRootsAside", 1) => n = 1
      /\ At("moveRootsAside", 2) => n = 2
  BY <1>2 DEF At
<1>5. /\ mem.phase = "installing" /\ mem.step = "moveRootsAside" /\ ResetHolds(mem) /\ ResetAt /\ FilesTyped
      /\ mem.id = round /\ round \in Farms /\ mem = journal
  BY <1>1, <1>3, StepsAre, ResetStepIs
<1>6. Apart /\ root.main = NoFarm /\ root.wal = NoFarm /\ root.partial = NoFarm
      /\ (media.moved = round => media.live = NoFarm)
  BY <1>5, PlacesAre DEF ResetHolds
<1>7. media.moved <= round /\ round <= round
  BY <1>5, InstallerAssumption DEF InstallerInv, Durable, Tied, Farms
<1>8. /\ media \in [live : AnyFarm, previous : AnyFarm, aside : AnyFarm, moved : Farms]
      /\ staging \in [candidate : AnyFarm, blobs : SUBSET Blobs, media : AnyFarm]
      /\ content \in [stored : SUBSET Blobs, aside : SUBSET Blobs, moved : Farms] /\ NoFarm \in AnyFarm
  BY <1>5 DEF FilesTyped, AnyFarm
<1>9. ASSUME n = 1,
             Move(/\ content' = IF content.moved = mem.id THEN content
                                ELSE [stored |-> {}, aside |-> content.stored, moved |-> mem.id]
                  /\ UNCHANGED <<root, aside, staging, media>>,
                  <<"moveRootsAside", 2>>)
      PROVE  InstallerInv'
  <2>1. PICK next : next = <<"moveRootsAside", 2>>
    OBVIOUS
  <2>2. /\ UNCHANGED <<journal, late, before, defect, round>>
        /\ \/ Faulty /\ ErrorTo(mem) /\ UNCHANGED <<files, db, store>>
           \/ /\ content' = IF content.moved = mem.id THEN content
                            ELSE [stored |-> {}, aside |-> content.stored, moved |-> mem.id]
              /\ UNCHANGED <<root, aside, staging, media, db, store>> /\ Did(next)
    BY <1>9, <2>1 DEF Move, Do, Did
  <2>3. CASE Faulty /\ ErrorTo(mem) /\ UNCHANGED <<files, db, store>>
    BY <1>2, <2>2, <2>3, FaultKeeps
  <2>4. CASE /\ content' = IF content.moved = mem.id THEN content
                           ELSE [stored |-> {}, aside |-> content.stored, moved |-> mem.id]
             /\ UNCHANGED <<root, aside, staging, media, db, store>> /\ Did(next)
    <3>1. content' \in [stored : SUBSET Blobs, aside : SUBSET Blobs, moved : Farms]
      BY <1>5, <1>8, <2>4
    <3>2. FilesTyped'
      BY <1>5, <2>4, <3>1 DEF FilesTyped
    <3>3. Apart'
      BY <1>6, <2>2, <2>4 DEF Apart
    <3>4. ResetHolds(journal)'
      BY <1>5, <1>6, <2>2, <2>4, <3>3, PlacesAre DEF ResetHolds
    <3>5. ASSUME pc' = next, mem' = mem  PROVE Staged' /\ Running' /\ pc'[1] # "discard"
      <4>1. Running' /\ pc'[1] # "discard" /\ pc'[1] = "moveRootsAside" /\ pc'[2] = 2
        BY <2>1, <3>5, OnItsWay
      <4>2. ResetAt'
        BY <1>5, <1>6, <2>4, <3>3, <3>5, <4>1, PlacesAre, StepsAre DEF ResetAt
      <4> QED  BY <1>3, <3>5, <4>1, <4>2 DEF Staged, Ending
    <3>6. next[1] \notin Back \cup {"loop"}
      BY <2>1 DEF Back
    <3> QED  BY <1>2, <1>3, <1>5, <1>7, <2>2, <2>4, <3>2, <3>4, <3>5, <3>6, ResetKeeps
  <2> QED  BY <2>2, <2>3, <2>4
<1>10. ASSUME n = 2,
              Move(Trees(IF media.moved = mem.id THEN media
                         ELSE [media EXCEPT !.live = NoFarm, !.aside = media.live, !.moved = mem.id],
                         staging.media), Next1("moveRootsAside"))
       PROVE  InstallerInv'
  <2>1. PICK t : t = IF media.moved = mem.id THEN media
                     ELSE [media EXCEPT !.live = NoFarm, !.aside = media.live, !.moved = mem.id]
    OBVIOUS
  <2>2. /\ t \in [live : AnyFarm, previous : AnyFarm, aside : AnyFarm, moved : Farms]
        /\ t.live = NoFarm /\ t.moved = round
    <3>1. CASE media.moved = mem.id
      BY <1>5, <1>6, <1>8, <2>1, <3>1
    <3>2. CASE media.moved # mem.id
      <4>1. t = [live |-> NoFarm, previous |-> media.previous, aside |-> media.live, moved |-> round]
        BY <1>5, <1>8, <2>1, <3>2
      <4> QED  BY <1>5, <1>8, <4>1
    <3> QED  BY <3>1, <3>2
  <2>3. PICK next : next = <<"createFreshDatabase", 0>>
    OBVIOUS
  <2>4. Move(Trees(t, staging.media), next)
    BY <1>3, <1>10, <2>1, <2>3, NextSteps, Zenon
  <2>5. PICK g : g = staging.media
    OBVIOUS
  <2>6. Move(Trees(t, g), next)
    BY <2>4, <2>5
  <2>7. CASE InstallerInv'
    BY <2>7
  <2>8. CASE /\ media' = t /\ staging' = [staging EXCEPT !.media = g] /\ Did(next)
             /\ UNCHANGED <<journal, late, before, defect, round, root, aside, content, db, store>>
    <3>1. staging' \in [candidate : AnyFarm, blobs : SUBSET Blobs, media : AnyFarm]
      BY <1>8, <2>5, <2>8, StagingSet
    <3>2. FilesTyped'
      BY <1>5, <2>2, <2>8, <3>1 DEF FilesTyped
    <3>3. Apart'
      BY <1>6, <2>8 DEF Apart
    <3>4. ResetHolds(journal)'
      BY <1>5, <1>6, <2>2, <2>8, <3>3, PlacesAre DEF ResetHolds
    <3>5. ASSUME pc' = next, mem' = mem  PROVE Staged' /\ Running' /\ pc'[1] # "discard"
      <4>1. Running' /\ pc'[1] # "discard" /\ pc'[1] = "createFreshDatabase" /\ pc'[2] = 0
        BY <2>3, <3>5, OnItsWay
      <4>2. ResetAt'
        BY <1>5, <1>6, <2>2, <2>8, <3>3, <3>5, <4>1, PlacesAre, StepsAre DEF ResetAt
      <4> QED  BY <1>3, <3>5, <4>1, <4>2 DEF Staged, Ending
    <3>6. next[1] \notin Back \cup {"loop"}
      BY <2>3 DEF Back
    <3> QED  BY <1>2, <1>3, <1>5, <1>7, <2>2, <2>8, <3>2, <3>4, <3>5, <3>6, ResetKeeps
  <2> QED  BY <1>2, <2>6, <2>7, <2>8, TreeMoves
<1> QED  BY <1>4, <1>9, <1>10, Zenon DEF MoveRootsAside

LEMMA CreateFreshKeeps ==
  ASSUME InstallerInv, CreateFreshDatabase
  PROVE  InstallerInv'
<1>1. PICK n \in 1..4 : At("createFreshDatabase", n)
  <2>1. At("createFreshDatabase", 1) \/ At("createFreshDatabase", 2) \/ At("createFreshDatabase", 3) \/ At("createFreshDatabase", 4)
    BY Zenon DEF CreateFreshDatabase
  <2> QED  BY <2>1
<1>2. InStep /\ pc[1] = "createFreshDatabase" /\ pc[2] = n
  BY <1>1, StepsAre, AtStep
<1>3. mem.kind = "reset"
  BY <1>2, StepHolds DEF RestoreAt, Forward, Back, Kinds
<1>4. /\ At("createFreshDatabase", 1) => n = 1
      /\ At("createFreshDatabase", 2) => n = 2
      /\ At("createFreshDatabase", 3) => n = 3
      /\ At("createFreshDatabase", 4) => n = 4
  BY <1>2 DEF At
<1>5. /\ mem.phase = "installing" /\ mem.step = "createFreshDatabase" /\ ResetHolds(mem) /\ ResetAt /\ FilesTyped
      /\ mem.id = round /\ round \in Farms /\ mem = journal
  BY <1>1, <1>3, StepsAre, ResetStepIs
<1>6. Apart /\ root.partial = NoFarm /\ media.live = NoFarm
  BY <1>5, PlacesAre DEF ResetHolds
<1>7. (n \in 2..3 => root.main = NoFarm) /\ (n = 4 => root.main = round)
  BY <1>2, <1>5 DEF ResetAt
<1>8. /\ root \in [main : AnyFarm, wal : AnyFarm, partial : AnyFarm] /\ aside \in [main : AnyFarm, wal : AnyFarm]
      /\ NoFarm \in AnyFarm /\ round \in AnyFarm
  BY <1>5 DEF FilesTyped, AnyFarm
<1>9. ASSUME NEW r \in [main : AnyFarm, wal : AnyFarm, partial : AnyFarm], NEW next, Move(Database(r, aside), next),
             r.main \in {NoFarm, round}, r.wal \in {NoFarm, round}, r.partial = NoFarm,
             NEW m \in 2..5, next = IF m = 5 THEN <<"deleteCredentials", 0>> ELSE <<"createFreshDatabase", m>>,
             m \in 2..3 => r.main = NoFarm, m = 3 => r.wal = NoFarm, m >= 4 => r.main = round, m = 5 => r.wal = NoFarm
      PROVE  InstallerInv'
  <2>1. CASE InstallerInv'
    BY <2>1
  <2>2. CASE /\ root' = r /\ aside' = aside /\ Did(next)
             /\ UNCHANGED <<journal, late, before, defect, round, staging, media, content, db, store>>
    <3>1. Apart'
      BY <1>6, <1>9, <2>2 DEF Apart
    <3>2. ResetHolds(journal)'
      BY <1>5, <1>6, <1>9, <2>2, <3>1, PlacesAre DEF ResetHolds
    <3>3. ASSUME pc' = next, mem' = mem  PROVE Staged' /\ Running' /\ pc'[1] # "discard"
      <4>1. CASE m < 5
        <5>1. next = <<"createFreshDatabase", m>>
          BY <1>9, <4>1
        <5>2. Running' /\ pc'[1] # "discard" /\ pc'[1] = "createFreshDatabase" /\ pc'[2] = m
          BY <3>3, <5>1, OnItsWay
        <5>3. ResetAt'
          BY <1>5, <1>6, <1>9, <2>2, <3>1, <3>3, <4>1, <5>2, PlacesAre, StepsAre DEF ResetAt
        <5> QED  BY <1>3, <3>3, <5>2, <5>3 DEF Staged, Ending
      <4>2. CASE m = 5
        <5>1. next = <<"deleteCredentials", 0>>
          BY <1>9, <4>2
        <5>2. Running' /\ pc'[1] # "discard" /\ pc'[1] = "deleteCredentials" /\ pc'[2] = 0
          BY <3>3, <5>1, OnItsWay
        <5>3. ResetAt'
          BY <1>5, <1>6, <1>9, <2>2, <3>1, <3>3, <4>2, <5>2, PlacesAre, StepsAre DEF ResetAt
        <5> QED  BY <1>3, <3>3, <5>2, <5>3 DEF Staged, Ending
      <4> QED  BY <4>1, <4>2
    <3>4. next[1] \notin Back \cup {"loop"}
      BY <1>9 DEF Back
    <3> QED  BY <1>2, <1>3, <1>5, <1>8, <1>9, <2>2, <3>2, <3>3, <3>4, RootKeeps
  <2> QED  BY <1>2, <1>9, <2>1, <2>2, RootMoves
<1>10. ASSUME n = 1, Move(Root("main", NoFarm), <<"createFreshDatabase", 2>>)  PROVE InstallerInv'
  <2>1. PICK r : r = [root EXCEPT !.main = NoFarm]
    OBVIOUS
  <2>2. r \in [main : AnyFarm, wal : AnyFarm, partial : AnyFarm] /\ r.main = NoFarm /\ r.wal = root.wal /\ r.partial = root.partial
    BY <1>8, <2>1, FileSet
  <2>3. PICK next : next = <<"createFreshDatabase", 2>>
    OBVIOUS
  <2>4. Move(Database(r, aside), next)
    BY <1>10, <2>1, <2>3 DEF Root
  <2>5. r.wal \in {NoFarm, round} /\ r.partial = NoFarm
    BY <1>6, <2>2 DEF Apart
  <2> QED  BY <1>9, <2>2, <2>3, <2>4, <2>5
<1>11. ASSUME n = 2, Move(Root("wal", NoFarm), <<"createFreshDatabase", 3>>)  PROVE InstallerInv'
  <2>1. PICK r : r = [root EXCEPT !.wal = NoFarm]
    OBVIOUS
  <2>2. r \in [main : AnyFarm, wal : AnyFarm, partial : AnyFarm] /\ r.wal = NoFarm /\ r.main = root.main /\ r.partial = root.partial
    BY <1>8, <2>1, FileSet
  <2>3. PICK next : next = <<"createFreshDatabase", 3>>
    OBVIOUS
  <2>4. Move(Database(r, aside), next)
    BY <1>11, <2>1, <2>3 DEF Root
  <2>5. r.main = NoFarm /\ r.partial = NoFarm
    BY <1>6, <1>7, <1>11, <2>2
  <2> QED  BY <1>9, <2>2, <2>3, <2>4, <2>5
<1>12. ASSUME n = 3, Move(Database([root EXCEPT !.main = mem.id, !.wal = mem.id], aside), <<"createFreshDatabase", 4>>)
       PROVE InstallerInv'
  <2>1. PICK q : q = [root EXCEPT !.main = round]
    OBVIOUS
  <2>6. PICK r : r = [q EXCEPT !.wal = round]
    OBVIOUS
  <2>7. /\ q \in [main : AnyFarm, wal : AnyFarm, partial : AnyFarm] /\ q.main = round /\ q.partial = NoFarm
    BY <1>6, <1>8, <2>1, FileSet
  <2>3. r \in [main : AnyFarm, wal : AnyFarm, partial : AnyFarm] /\ r.wal = round /\ r.main = round /\ r.partial = NoFarm
    BY <1>8, <2>6, <2>7, FileSet
  <2>2. [root EXCEPT !.main = mem.id, !.wal = mem.id] = r
    <3>1. [root EXCEPT !.main = mem.id, !.wal = mem.id] = [[root EXCEPT !.main = mem.id] EXCEPT !.wal = mem.id]
      BY <1>8
    <3> QED  BY <1>5, <2>1, <2>6, <3>1, Zenon
  <2>4. PICK next : next = <<"createFreshDatabase", 4>>
    OBVIOUS
  <2>5. Move(Database(r, aside), next)
    BY <1>12, <2>2, <2>4, Zenon
  <2> QED  BY <1>9, <2>3, <2>4, <2>5
<1>13. ASSUME n = 4, Move(Root("wal", NoFarm), Next1("createFreshDatabase"))  PROVE InstallerInv'
  <2>1. PICK r : r = [root EXCEPT !.wal = NoFarm]
    OBVIOUS
  <2>2. r \in [main : AnyFarm, wal : AnyFarm, partial : AnyFarm] /\ r.wal = NoFarm /\ r.main = root.main /\ r.partial = root.partial
    BY <1>8, <2>1, FileSet
  <2>3. PICK next : next = <<"deleteCredentials", 0>>
    OBVIOUS
  <2>4. Move(Database(r, aside), next)
    BY <1>3, <1>13, <2>1, <2>3, NextSteps DEF Root
  <2>5. r.main = round /\ r.partial = NoFarm
    BY <1>6, <1>7, <1>13, <2>2
  <2> QED  BY <1>9, <2>2, <2>3, <2>4, <2>5
<1> QED  BY <1>4, <1>10, <1>11, <1>12, <1>13, Zenon DEF CreateFreshDatabase

LEMMA DeleteKeeps ==
  ASSUME InstallerInv, DeleteCredentials
  PROVE  InstallerInv'
<1>1. PICK n \in 1..2 : At("deleteCredentials", n)
  <2>1. At("deleteCredentials", 1) \/ At("deleteCredentials", 2)
    BY Zenon DEF DeleteCredentials
  <2> QED  BY <2>1
<1>2. InStep /\ pc[1] = "deleteCredentials" /\ pc[2] = n
  BY <1>1, StepsAre, AtStep
<1>3. mem.kind = "reset"
  BY <1>2, StepHolds DEF RestoreAt, Forward, Back, Kinds
<1>4. /\ At("deleteCredentials", 1) => n = 1
      /\ At("deleteCredentials", 2) => n = 2
  BY <1>2 DEF At
<1>5. /\ mem.phase = "installing" /\ mem.step = "deleteCredentials" /\ ResetHolds(mem) /\ ResetAt /\ FilesTyped
      /\ mem.id = round /\ round \in Farms /\ mem = journal
  BY <1>1, <1>3, StepsAre, ResetStepIs
<1>6. /\ root.partial = NoFarm /\ media.live = NoFarm /\ root.main = round /\ root.wal = NoFarm
      /\ aside.main \in {NoFarm, before} /\ aside.wal \in {NoFarm, before}
  BY <1>5, PlacesAre DEF ResetHolds
<1>7. media.moved <= round /\ store \subseteq mem.orphans \cup db[round].used \cup late
  BY <1>2, <1>3, <1>5, ResetIs DEF InstallerInv, Durable, Tied
<1>8. ASSUME n = 1,
             Do(/\ \E gone \in SUBSET (mem.orphans \cap store) : store' = store \ gone
                /\ UNCHANGED <<files, db>>,
                <<"deleteCredentials", 2>>)
      PROVE  InstallerInv'
  <2>1. PICK next : next = <<"deleteCredentials", 2>>
    OBVIOUS
  <2>2. /\ UNCHANGED <<journal, late, before, defect, round>>
        /\ \/ Faulty /\ ErrorTo(mem) /\ UNCHANGED <<files, db, store>>
           \/ /\ \E gone \in SUBSET (mem.orphans \cap store) : store' = store \ gone
              /\ UNCHANGED <<root, aside, staging, media, content, db>> /\ Did(next)
    BY <1>8, <2>1 DEF Do, Did, files
  <2>3. CASE Faulty /\ ErrorTo(mem) /\ UNCHANGED <<files, db, store>>
    BY <1>2, <2>2, <2>3, FaultKeeps
  <2>4. CASE /\ \E gone \in SUBSET (mem.orphans \cap store) : store' = store \ gone
             /\ UNCHANGED <<root, aside, staging, media, content, db>> /\ Did(next)
    <3>1. store' \subseteq store
      BY <2>4
    <3>2. FilesTyped'
      BY <1>5, <2>4, <3>1 DEF FilesTyped
    <3>3. ResetHolds(journal)'
      BY <1>5, <1>6, <2>2, <2>4, PlacesAre DEF ResetHolds
    <3>4. ASSUME pc' = next, mem' = mem  PROVE Staged' /\ Running' /\ pc'[1] # "discard"
      <4>1. Running' /\ pc'[1] # "discard" /\ pc'[1] = "deleteCredentials" /\ pc'[2] = 2
        BY <2>1, <3>4, OnItsWay
      <4>2. ResetAt'
        BY <1>5, <1>6, <2>2, <2>4, <3>4, <4>1, PlacesAre, StepsAre DEF ResetAt
      <4> QED  BY <1>3, <3>4, <4>1, <4>2 DEF Staged, Ending
    <3>5. next[1] \notin Back \cup {"loop"}
      BY <2>1 DEF Back
    <3> QED  BY <1>2, <1>3, <1>5, <1>7, <2>2, <2>4, <3>1, <3>2, <3>3, <3>4, <3>5, ResetKeeps
  <2> QED  BY <2>2, <2>3, <2>4
<1>9. ASSUME n = 2,
             Do(/\ db' = [db EXCEPT ![mem.id].auto = @ \cup (mem.orphans \cap store)]
                /\ UNCHANGED <<files, store>>,
                Next1("deleteCredentials"))
      PROVE  InstallerInv'
  <2>1. PICK next : next = <<"removePrevious", 0>>
    OBVIOUS
  <2>2. PICK d \in [Farms -> FarmRow] : d = db
    BY <1>5 DEF FilesTyped
  <2>3. PICK f \in Farms : f = round
    BY <1>5
  <2>4. PICK S \in SUBSET Refs : S = d[f].auto \cup (mem.orphans \cap store)
    <3>1. store \in SUBSET Refs /\ d[f].auto \in SUBSET Refs
      BY <1>5 DEF FilesTyped, FarmRow
    <3> QED  BY <3>1
  <2>5. PICK e : e = [d EXCEPT ![f].auto = S]
    OBVIOUS
  <2>6. e \in [Farms -> FarmRow]
    BY <2>5, AutoSet
  <2>7. e[f].auto = S /\ e[f].used = d[f].used /\ e[f].orphan = d[f].orphan /\ e[f].blobs = d[f].blobs /\ e[f].tree = d[f].tree
    BY <2>5, AutoSet
  <2>8. [db EXCEPT ![mem.id].auto = @ \cup (mem.orphans \cap store)] = e
    BY <1>5, <2>2, <2>3, <2>4, <2>5
  <2>9. /\ UNCHANGED <<journal, late, before, defect, round>>
        /\ \/ Faulty /\ ErrorTo(mem) /\ UNCHANGED <<files, db, store>>
           \/ db' = e /\ UNCHANGED <<root, aside, staging, media, content, store>> /\ Did(next)
    BY <1>3, <1>9, <2>1, <2>8, NextSteps DEF Do, Did, files
  <2>10. CASE Faulty /\ ErrorTo(mem) /\ UNCHANGED <<files, db, store>>
    BY <1>2, <2>9, <2>10, FaultKeeps
  <2>11. CASE db' = e /\ UNCHANGED <<root, aside, staging, media, content, store>> /\ Did(next)
    <3>1. FilesTyped'
      BY <1>5, <2>6, <2>11 DEF FilesTyped
    <3>2. ResetHolds(journal)'
      BY <1>5, <1>6, <2>9, <2>11, PlacesAre DEF ResetHolds
    <3>3. /\ db'[round].auto = db[round].auto \cup (mem.orphans \cap store) /\ db'[round].used = db[round].used
          /\ db'[round].blobs = db[round].blobs /\ db'[round].tree = db[round].tree
      BY <2>2, <2>3, <2>4, <2>7, <2>11
    <3>4. Known(round)'
      BY <1>7, <2>9, <2>11, <3>3 DEF Known
    <3>5. ASSUME pc' = next, mem' = mem  PROVE Staged' /\ Running' /\ pc'[1] # "discard"
      <4>1. Running' /\ pc'[1] # "discard" /\ pc'[1] = "removePrevious" /\ pc'[2] = 0
        BY <2>1, <3>5, OnItsWay
      <4>2. ResetAt'
        BY <1>5, <1>6, <2>9, <2>11, <3>4, <3>5, <4>1, PlacesAre, StepsAre DEF ResetAt
      <4> QED  BY <1>3, <3>5, <4>1, <4>2 DEF Staged, Ending
    <3>6. next[1] \notin Back \cup {"loop"}
      BY <2>1 DEF Back
    <3> QED  BY <1>2, <1>3, <1>5, <1>7, <2>9, <2>11, <3>1, <3>2, <3>3, <3>5, <3>6, ResetKeeps
  <2> QED  BY <2>9, <2>10, <2>11
<1> QED  BY <1>4, <1>8, <1>9, Zenon DEF DeleteCredentials

---------------------------------------------------------------------------
(* The rollback.                                                           *)

LEMMA MarkerSet ==
  ASSUME NEW t \in Markers, NEW u
  PROVE  /\ u = [t EXCEPT !.mediaRestored = TRUE] =>
              u \in Markers /\ u.mediaRestored /\ u.from = t.from /\ u.candidateCleared = t.candidateCleared /\ u # NoMarker
         /\ u = [t EXCEPT !.candidateCleared = TRUE] =>
              u \in Markers /\ u.candidateCleared /\ u.from = t.from /\ u.mediaRestored = t.mediaRestored /\ u # NoMarker
<1>1. NoMarker.mediaRestored = FALSE /\ NoMarker.candidateCleared = FALSE
  BY DEF NoMarker
<1>2. u = [t EXCEPT !.mediaRestored = TRUE] =>
         u \in Markers /\ u.mediaRestored = TRUE /\ u.from = t.from /\ u.candidateCleared = t.candidateCleared
  BY DEF Markers
<1>3. u = [t EXCEPT !.candidateCleared = TRUE] =>
         u \in Markers /\ u.candidateCleared = TRUE /\ u.from = t.from /\ u.mediaRestored = t.mediaRestored
  BY DEF Markers
<1> QED  BY <1>1, <1>2, <1>3

LEMMA BackIs ==
  ASSUME InstallerInv, NEW p \in {"restoreMedia", "clearCandidate", "moveBack"}, NEW n, At(p, n)
  PROVE  /\ InStep /\ pc[1] = p /\ pc[2] = n /\ Running /\ mem = journal /\ Waiting(journal)
         /\ mem.kind = "restore" /\ mem.phase = "installing" /\ mem.rollback # NoMarker /\ mem.rollback \in Markers
         /\ From(mem) = mem.rollback.from /\ RestoreHolds(mem) /\ RestoreAt /\ FilesTyped /\ mem.id = round
         /\ before \in Farms /\ round \in Farms /\ mem \in Journals /\ Recoverable(mem) /\ ~RollsBack
         /\ faults \in Nat /\ mem.attempts \in Nat /\ faults + 1 >= mem.attempts
         /\ cause # "invalid" => faults >= mem.attempts
<1>1. InStep /\ pc[1] = p /\ pc[2] = n
  BY AtStep
<1>2. mem.kind = "restore"
  BY <1>1, StepHolds, StepsAre DEF ResetAt, Kinds
<1>3. RestoreAt /\ mem.phase = "installing" /\ mem.rollback # NoMarker
  BY <1>1, <1>2, StepHolds DEF RestoreAt, Back
<1>4. RestoreHolds(mem) /\ mem.rollback \in Markers /\ FilesTyped
  BY <1>1, <1>2, <1>3, RestoreIs
<1>5. From(mem) = mem.rollback.from
  BY <1>3, Zenon DEF From
<1>6. ~RollsBack
  BY <1>1, PlacesAre, StepsAre DEF RollsBack
<1>7. /\ Running /\ mem = journal /\ Waiting(journal) /\ mem \in Journals /\ faults \in Nat /\ mem.id = round
      /\ before \in Farms /\ round \in Farms /\ Recoverable(mem)
  BY <1>1, StepHolds DEF InStep, InstallerInv, Durable, InstallerTyped
<1>8. /\ mem.attempts \in Nat /\ faults + 1 >= mem.attempts
      /\ cause # "invalid" => faults >= mem.attempts
  BY <1>1, <1>2, <1>7 DEF InstallerInv, Counted, Back, Journals
<1> QED  BY <1>1, <1>2, <1>3, <1>4, <1>5, <1>6, <1>7, <1>8

LEMMA RollBackKeeps ==
  ASSUME InstallerInv, RollBack
  PROVE  InstallerInv'
<1>1. /\ pc = <<"rollback", 0>> /\ pc[1] = "rollback" /\ pc[2] = 0
      /\ IF Marker = NoMarker
         THEN Save(Mark([NoMarker EXCEPT !.from = Place("restore", mem.step)]), <<"restoreMedia", 0>>)
         ELSE Goes(<<"restoreMedia", 0>>)
  BY Zenon DEF RollBack, At
<1>2. Running
  BY <1>1 DEF Running, Down, Off, Stopped, Up, Opening
<1>3. Waiting(journal) /\ mem # NoJournal /\ (mem = journal \/ Ahead)
  BY <1>1, <1>2 DEF InstallerInv, Ordered
<1>4. /\ mem \in Journals /\ Recoverable(mem) /\ mem.attempts = journal.attempts /\ mem.kind = journal.kind
      /\ mem.attempts \in Nat /\ faults \in Nat
  BY <1>3, WaitingTyped DEF InstallerInv, Durable, InstallerTyped, Sound, Ahead, Journals
<1>5. mem.kind = "restore"
  BY <1>1, <1>2, <1>4, StepsAre DEF InstallerInv, Staged, ResetAt, Journals, Kinds
<1>6. mem.phase = "installing"
  BY <1>1, <1>2, <1>5 DEF InstallerInv, Staged, RestoreAt, Back
<1>7. RestoreHolds(mem) /\ store \subseteq mem.orphans \cup db[round].used \cup late /\ mem.carry \subseteq mem.orphans
  BY <1>4, <1>5, <1>6 DEF Recoverable
<1>8. PICK next : next = <<"restoreMedia", 0>>
  OBVIOUS
<1>9. ~RollsBack
  BY <1>1, PlacesAre, StepsAre DEF RollsBack
<1>10. CASE Marker = NoMarker
  <2>1. PICK from \in 0..8 : from = Place("restore", mem.step)
    BY ResetPlaces
  <2>2. PICK z \in Markers : z = NoMarker
    <3>1. -1 \in -1..8 /\ FALSE \in BOOLEAN
      OBVIOUS
    <3>2. NoMarker \in Markers
      BY <3>1 DEF Markers, NoMarker
    <3> QED  BY <3>2
  <2>14. PICK m : m = [z EXCEPT !.from = from]
    OBVIOUS
  <2>15. z.from = -1 /\ z.mediaRestored = FALSE /\ z.candidateCleared = FALSE
    BY <2>2 DEF NoMarker
  <2>16. m \in Markers /\ m.from = from /\ m.mediaRestored = FALSE /\ m.candidateCleared = FALSE
    BY <2>14, <2>15 DEF Markers
  <2>3. m \in Markers /\ m # NoMarker /\ m.from = from /\ ~m.mediaRestored /\ ~m.candidateCleared
    BY <2>2, <2>15, <2>16
  <2>4. [NoMarker EXCEPT !.from = Place("restore", mem.step)] = m
    BY <2>1, <2>2, <2>14, Zenon
  <2>5. PICK copy : copy = [mem EXCEPT !.rollback = m]
    OBVIOUS
  <2>6. /\ copy \in Journals /\ copy.rollback = m /\ copy.id = mem.id /\ copy.kind = mem.kind /\ copy.phase = mem.phase
        /\ copy.step = mem.step /\ copy.attempts = mem.attempts /\ copy.swap = mem.swap
        /\ copy.carry = mem.carry /\ copy.orphans = mem.orphans
    BY <1>4, <2>3, <2>5, MarkSet
  <2>7. Save(copy, next)
    <3>1. Mark([NoMarker EXCEPT !.from = Place("restore", mem.step)]) = copy
      BY <2>4, <2>5, Zenon DEF Mark
    <3> QED  BY <1>1, <1>8, <1>10, <3>1, Zenon
  <2>8. From(copy) = from /\ From(mem) = from
    <3>1. From(copy) = m.from
      BY <2>3, <2>6, Zenon DEF From
    <3>2. From(mem) = Place("restore", mem.step)
      BY <1>10, Zenon DEF From, Marker
    <3> QED  BY <2>1, <2>3, <3>1, <3>2
  <2>9. RestoreHolds(copy)
    <3>1. ~mem.rollback.candidateCleared
      BY <1>10 DEF Marker, NoMarker
    <3> QED  BY <1>7, <2>3, <2>6, <2>8, <3>1 DEF RestoreHolds
  <2>10. Recoverable(copy) /\ Follows(copy) /\ Waiting(copy)
    BY <1>5, <1>6, <1>7, <2>6, <2>9 DEF Recoverable, Follows, Waiting, Unfinished
  <2>11. ASSUME mem' = copy, pc' = next  PROVE Running' /\ pc'[1] # "discard" /\ Staged'
    <3>1. Running' /\ pc'[1] # "discard" /\ pc'[1] = "restoreMedia" /\ pc'[2] = 0
      BY <1>8, <2>11, OnItsWay
    <3>2. RestoreAt'
      BY <1>5, <1>6, <2>3, <2>6, <2>11, <3>1 DEF RestoreAt, Forward, Back
    <3> QED  BY <1>5, <2>6, <2>11, <3>1, <3>2 DEF Staged, Ending
  <2>12. /\ faults + 1 >= copy.attempts
         /\ cause # "invalid" => faults >= copy.attempts
    BY <1>1, <1>3, <1>4, <1>5, <2>6 DEF InstallerInv, Counted, Back
  <2>13. copy.phase # "pending"
    BY <1>6, <2>6
  <2> QED  BY <1>2, <1>3, <1>9, <2>7, <2>10, <2>11, <2>12, <2>13, SaveKeeps
<1>11. CASE Marker # NoMarker
  <2>1. mem = journal /\ mem.rollback # NoMarker
    BY <1>3, <1>11 DEF Ahead, Marker
  <2>2. Goes(next)
    BY <1>1, <1>8, <1>11
  <2>3. pc' = next /\ mem' = mem
    BY <2>2 DEF Goes
  <2>4. Running' /\ pc'[1] # "discard" /\ pc'[1] = "restoreMedia" /\ pc'[2] = 0
    BY <1>8, <2>3, OnItsWay
  <2>5. RestoreAt'
    BY <1>5, <1>6, <2>1, <2>3, <2>4 DEF RestoreAt, Forward, Back
  <2>6. Staged'
    BY <1>5, <2>3, <2>4, <2>5 DEF Staged, Ending
  <2>7. pc[1] \in Back
    BY <1>1 DEF Back
  <2> QED  BY <1>2, <1>3, <2>1, <2>2, <2>4, <2>6, <2>7, GoKeeps
<1> QED  BY <1>10, <1>11

LEMMA RestoreMediaKeeps ==
  ASSUME InstallerInv, RestoreMedia
  PROVE  InstallerInv'
<1>1. PICK n \in 0..2 : At("restoreMedia", n)
  <2>1. At("restoreMedia", 0) \/ At("restoreMedia", 1) \/ At("restoreMedia", 2)
    BY Zenon DEF RestoreMedia
  <2> QED  BY <2>1
<1>2. /\ InStep /\ pc[1] = "restoreMedia" /\ pc[2] = n /\ Running /\ mem = journal /\ Waiting(journal)
      /\ mem.kind = "restore" /\ mem.phase = "installing" /\ mem.rollback # NoMarker /\ mem.rollback \in Markers
      /\ From(mem) = mem.rollback.from /\ RestoreHolds(mem) /\ RestoreAt /\ FilesTyped /\ mem.id = round
      /\ before \in Farms /\ round \in Farms /\ mem \in Journals /\ Recoverable(mem) /\ ~RollsBack
      /\ faults \in Nat /\ mem.attempts \in Nat /\ faults + 1 >= mem.attempts
      /\ cause # "invalid" => faults >= mem.attempts
  BY <1>1, BackIs
<1>3. /\ At("restoreMedia", 0) => n = 0
      /\ At("restoreMedia", 1) => n = 1
      /\ At("restoreMedia", 2) => n = 2
  BY <1>2 DEF At
<1>4. /\ n > 0 => ~mem.rollback.mediaRestored
      /\ n = 1 /\ media.live # NoFarm => mem.swap # "absent" /\ (mem.swap = "existed" => media.previous = NoFarm)
      /\ n = 2 => media.live = Tree(before) /\ media.previous = NoFarm /\ staging.media = round
  BY <1>2 DEF RestoreAt
<1>5. NoFarm \notin Farms /\ NoFarm \in AnyFarm /\ round \in AnyFarm /\ before \in AnyFarm /\ pc[1] \in Back
  BY <1>2, InstallerAssumption DEF NoFarm, Farms, AnyFarm, Back
<1>6. /\ media \in [live : AnyFarm, previous : AnyFarm, aside : AnyFarm, moved : Farms]
      /\ staging \in [candidate : AnyFarm, blobs : SUBSET Blobs, media : AnyFarm]
      /\ content \in [stored : SUBSET Blobs, aside : SUBSET Blobs, moved : Farms]
  BY <1>2 DEF FilesTyped
<1>7. Swapping(mem.swap) /\ (mem.swap = "absent" => ~db[before].tree) /\ mem.swap \in {"none", "absent", "existed"}
  BY <1>2 DEF RestoreHolds, Journals
\* Nothing is moved.
<1>8. ASSUME NEW q \in {"restoreMedia", "clearCandidate"}, NEW m \in 0..2, Goes(<<q, m>>),
             q = "restoreMedia" => ~mem.rollback.mediaRestored,
             q = "restoreMedia" /\ m = 1 /\ media.live # NoFarm =>
                mem.swap # "absent" /\ (mem.swap = "existed" => media.previous = NoFarm),
             q = "restoreMedia" /\ m = 2 => media.live = Tree(before) /\ media.previous = NoFarm /\ staging.media = round,
             q = "clearCandidate" => m = 0 /\ mem.rollback.mediaRestored
      PROVE  InstallerInv'
  <2>1. PICK next : next = <<q, m>>
    OBVIOUS
  <2>2. Goes(next)
    BY <1>8, <2>1
  <2>3. /\ pc' = next /\ UNCHANGED <<journal, mem, cause, files, rest, faults>>
        /\ UNCHANGED <<root, aside, staging, media, content, db, store, late, before, round>>
    BY <2>2 DEF Goes, files, rest
  <2>4. Running' /\ pc'[1] # "discard" /\ pc'[1] = q /\ pc'[2] = m
    BY <2>1, <2>3, OnItsWay
  <2>5. RestoreAt'
    BY <1>2, <1>8, <2>3, <2>4 DEF RestoreAt, Forward, Back, Tree
  <2>6. Staged'
    BY <1>2, <1>8, <2>3, <2>4, <2>5 DEF Staged, Ending
  <2> QED  BY <1>2, <1>5, <2>2, <2>4, <2>6, GoKeeps
\* A tree is moved.
<1>9. ASSUME NEW t \in [live : AnyFarm, previous : AnyFarm, aside : AnyFarm, moved : Farms], t.moved = media.moved,
             NEW g \in AnyFarm, NEW m \in 1..2, Move(Trees(t, g), <<"restoreMedia", m>>),
             ~mem.rollback.mediaRestored, g = round,
             \/ mem.swap = "absent" /\ ~db[before].tree /\ t.live = NoFarm /\ t.previous = NoFarm
             \/ /\ mem.swap = "existed" /\ db[before].tree
                /\ \/ t.live = NoFarm /\ t.previous = before
                   \/ t.live = before /\ t.previous = NoFarm,
             m = 1 => t.live = NoFarm, m = 2 => t.live = before
      PROVE  InstallerInv'
  <2>1. PICK next : next = <<"restoreMedia", m>>
    OBVIOUS
  <2>2. Move(Trees(t, g), next)
    BY <1>9, <2>1
  <2>3. CASE InstallerInv'
    BY <2>3
  <2>4. CASE /\ media' = t /\ staging' = [staging EXCEPT !.media = g] /\ Did(next)
             /\ UNCHANGED <<journal, late, before, defect, round, root, aside, content, db, store>>
    <3>1. /\ staging' \in [candidate : AnyFarm, blobs : SUBSET Blobs, media : AnyFarm]
          /\ staging'.candidate = staging.candidate /\ staging'.media = round
      BY <1>6, <1>9, <2>4, StagingSet
    <3>2. Swapping(journal.swap)'
      BY <1>2, <1>9, <2>4, <3>1 DEF Swapping, Tree
    <3>3. ASSUME pc' = next, mem' = mem  PROVE Staged' /\ Running' /\ pc'[1] # "discard"
      <4>1. Running' /\ pc'[1] # "discard" /\ pc'[1] = "restoreMedia" /\ pc'[2] = m
        BY <2>1, <3>3, OnItsWay
      <4>2. m = 2 => media'.live = Tree(before)' /\ media'.previous = NoFarm
        BY <1>2, <1>5, <1>9, <2>4 DEF Tree
      <4>3. RestoreAt'
        BY <1>2, <1>9, <2>4, <3>1, <3>3, <4>1, <4>2 DEF RestoreAt, Forward, Back
      <4> QED  BY <1>2, <3>3, <4>1, <4>3 DEF Staged, Ending
    <3> QED  BY <1>2, <1>5, <1>6, <1>9, <2>4, <3>1, <3>2, <3>3, TreeKeeps
  <2> QED  BY <1>2, <2>2, <2>3, <2>4, TreeMoves
<1>10. CASE At("restoreMedia", 0) /\ Marker.mediaRestored /\ Goes(<<"clearCandidate", 0>>)
  BY <1>8, <1>10 DEF Marker
<1>11. CASE At("restoreMedia", 0) /\ ~Marker.mediaRestored
            /\ IF media.live # NoFarm /\ (mem.swap = "absent" \/ (mem.swap = "existed" /\ media.previous # NoFarm))
               THEN Move(Trees([media EXCEPT !.live = NoFarm], media.live), <<"restoreMedia", 1>>)
               ELSE Goes(<<"restoreMedia", 1>>)
  <2>1. CASE media.live # NoFarm /\ (mem.swap = "absent" \/ (mem.swap = "existed" /\ media.previous # NoFarm))
    <3>1. /\ mem.swap = "absent" => ~db[before].tree /\ media.live = round /\ media.previous = NoFarm
          /\ mem.swap = "existed" => db[before].tree /\ media.live = round /\ media.previous = before
      BY <1>5, <1>7, <2>1 DEF Swapping, Tree
    <3>2. PICK t : t = [media EXCEPT !.live = NoFarm]
      OBVIOUS
    <3>3. /\ t \in [live : AnyFarm, previous : AnyFarm, aside : AnyFarm, moved : Farms]
          /\ t.live = NoFarm /\ t.previous = media.previous /\ t.moved = media.moved
      BY <1>5, <1>6, <3>2, MediaSet
    <3>4. media.live = round
      BY <2>1, <3>1
    <3>5. PICK g \in AnyFarm : g = round
      BY <1>5
    <3>6. Move(Trees(t, g), <<"restoreMedia", 1>>)
      BY <1>11, <2>1, <3>2, <3>4, <3>5, Zenon
    <3> QED  BY <1>9, <1>11, <2>1, <3>1, <3>3, <3>5, <3>6 DEF Marker
  <2>2. CASE ~(media.live # NoFarm /\ (mem.swap = "absent" \/ (mem.swap = "existed" /\ media.previous # NoFarm)))
    <3>1. Goes(<<"restoreMedia", 1>>)
      BY <1>11, <2>2, Zenon
    <3> QED  BY <1>8, <1>11, <2>2, <3>1 DEF Marker
  <2> QED  BY <2>1, <2>2
<1>12. CASE At("restoreMedia", 1)
            /\ IF mem.swap = "existed" /\ media.previous # NoFarm
               THEN Move(Trees([media EXCEPT !.live = media.previous, !.previous = NoFarm], staging.media), <<"restoreMedia", 2>>)
               ELSE Goes(<<"restoreMedia", 2>>)
  <2>1. CASE mem.swap = "existed" /\ media.previous # NoFarm
    <3>1. media.live = NoFarm /\ media.previous = before /\ staging.media = round /\ db[before].tree
      BY <1>3, <1>4, <1>7, <1>12, <2>1 DEF Swapping
    <3>2. PICK s : s = [media EXCEPT !.live = before]
      OBVIOUS
    <3>3. PICK t : t = [s EXCEPT !.previous = NoFarm]
      OBVIOUS
    <3>4. s \in [live : AnyFarm, previous : AnyFarm, aside : AnyFarm, moved : Farms] /\ s.live = before /\ s.moved = media.moved
      BY <1>5, <1>6, <3>2, MediaSet
    <3>5. /\ t \in [live : AnyFarm, previous : AnyFarm, aside : AnyFarm, moved : Farms]
          /\ t.live = before /\ t.previous = NoFarm /\ t.moved = media.moved
      BY <1>5, <3>3, <3>4, MediaSet
    <3>6. [media EXCEPT !.live = media.previous, !.previous = NoFarm] = t
      <4>1. [media EXCEPT !.live = media.previous, !.previous = NoFarm] = [[media EXCEPT !.live = media.previous] EXCEPT !.previous = NoFarm]
        BY <1>6
      <4> QED  BY <3>1, <3>2, <3>3, <4>1, Zenon
    <3>7. PICK g \in AnyFarm : g = round
      BY <1>5
    <3>8. Move(Trees(t, g), <<"restoreMedia", 2>>)
      BY <1>12, <2>1, <3>1, <3>6, <3>7, Zenon
    <3> QED  BY <1>3, <1>4, <1>9, <1>12, <2>1, <3>1, <3>5, <3>7, <3>8
  <2>2. CASE ~(mem.swap = "existed" /\ media.previous # NoFarm)
    <3>1. Goes(<<"restoreMedia", 2>>)
      BY <1>12, <2>2, Zenon
    <3>2. media.live = Tree(before) /\ media.previous = NoFarm /\ staging.media = round
      BY <1>2, <1>3, <1>4, <1>5, <1>7, <1>12, <2>2 DEF Swapping, Tree
    <3> QED  BY <1>3, <1>4, <1>8, <1>12, <3>1, <3>2
  <2> QED  BY <2>1, <2>2
<1>13. CASE At("restoreMedia", 2)
            /\ Save([Mark([Marker EXCEPT !.mediaRestored = TRUE]) EXCEPT !.swap = "none"], <<"clearCandidate", 0>>)
  <2>1. n = 2 /\ media.live = Tree(before) /\ media.previous = NoFarm /\ staging.media = round
    BY <1>3, <1>4, <1>13
  <2>2. PICK m : m = [mem.rollback EXCEPT !.mediaRestored = TRUE]
    OBVIOUS
  <2>3. m \in Markers /\ m.mediaRestored /\ m.from = mem.rollback.from /\ m.candidateCleared = mem.rollback.candidateCleared /\ m # NoMarker
    BY <1>2, <2>2, MarkerSet
  <2>4. PICK a : a = [mem EXCEPT !.rollback = m]
    OBVIOUS
  <2>5. PICK copy : copy = [a EXCEPT !.swap = "none"]
    OBVIOUS
  <2>6. /\ a \in Journals /\ a.rollback = m /\ a.id = mem.id /\ a.kind = mem.kind /\ a.phase = mem.phase
        /\ a.attempts = mem.attempts /\ a.carry = mem.carry /\ a.orphans = mem.orphans
    BY <1>2, <2>3, <2>4, MarkSet
  <2>7. /\ copy \in Journals /\ copy.rollback = m /\ copy.swap = "none" /\ copy.id = mem.id /\ copy.kind = mem.kind
        /\ copy.phase = mem.phase /\ copy.attempts = mem.attempts /\ copy.carry = mem.carry /\ copy.orphans = mem.orphans
    BY <2>5, <2>6, SwapSet
  <2>8. PICK next : next = <<"clearCandidate", 0>>
    OBVIOUS
  <2>9. Save(copy, next)
    BY <1>13, <2>2, <2>4, <2>5, <2>8, Zenon DEF Mark, Marker
  <2>10. From(copy) = From(mem)
    <3>1. From(copy) = m.from
      BY <2>3, <2>7, Zenon DEF From
    <3> QED  BY <1>2, <2>3, <3>1
  <2>11. RestoreHolds(copy)
    BY <1>2, <2>1, <2>3, <2>7, <2>10 DEF RestoreHolds, Swapping
  <2>12. Recoverable(copy) /\ Follows(copy) /\ Waiting(copy)
    <3>1. store \subseteq mem.orphans \cup db[round].used \cup late /\ mem.carry \subseteq mem.orphans
      BY <1>2 DEF Recoverable
    <3> QED  BY <1>2, <2>7, <2>11, <3>1 DEF Recoverable, Follows, Waiting, Unfinished
  <2>13. ASSUME mem' = copy, pc' = next  PROVE Running' /\ pc'[1] # "discard" /\ Staged'
    <3>1. Running' /\ pc'[1] # "discard" /\ pc'[1] = "clearCandidate" /\ pc'[2] = 0
      BY <2>8, <2>13, OnItsWay
    <3>2. RestoreAt'
      BY <1>2, <2>3, <2>7, <2>13, <3>1 DEF RestoreAt, Forward, Back
    <3> QED  BY <1>2, <2>7, <2>13, <3>1, <3>2 DEF Staged, Ending
  <2>14. /\ faults + 1 >= copy.attempts /\ copy.phase # "pending"
         /\ cause # "invalid" => faults >= copy.attempts
    BY <1>2, <2>7
  <2> QED  BY <1>2, <2>9, <2>12, <2>13, <2>14, SaveKeeps
<1> QED  BY <1>10, <1>11, <1>12, <1>13, Zenon DEF RestoreMedia

LEMMA ClearCandidateKeeps ==
  ASSUME InstallerInv, ClearCandidate
  PROVE  InstallerInv'
<1>1. PICK n \in 0..4 : At("clearCandidate", n)
  <2>1. \E i \in 0..4 : At("clearCandidate", i)
    <3>1. At("clearCandidate", 0) \/ (\E i \in 1..3 : At("clearCandidate", i)) \/ At("clearCandidate", 4)
      BY Zenon DEF ClearCandidate
    <3> QED  BY <3>1
  <2> QED  BY <2>1
<1>2. /\ InStep /\ pc[1] = "clearCandidate" /\ pc[2] = n /\ Running /\ mem = journal /\ Waiting(journal)
      /\ mem.kind = "restore" /\ mem.phase = "installing" /\ mem.rollback # NoMarker /\ mem.rollback \in Markers
      /\ From(mem) = mem.rollback.from /\ RestoreHolds(mem) /\ RestoreAt /\ FilesTyped /\ mem.id = round
      /\ before \in Farms /\ round \in Farms /\ mem \in Journals /\ Recoverable(mem) /\ ~RollsBack
      /\ faults \in Nat /\ mem.attempts \in Nat /\ faults + 1 >= mem.attempts
      /\ cause # "invalid" => faults >= mem.attempts
  BY <1>1, BackIs
<1>3. ASSUME NEW i \in 0..4, At("clearCandidate", i)  PROVE n = i
  BY <1>2, <1>3 DEF At
<1>4. /\ mem.rollback.mediaRestored
      /\ n > 0 => ~mem.rollback.candidateCleared
      /\ n \in 1..3 => From(mem) >= 2
      /\ n \in 2..3 => root.main = NoFarm
      /\ n = 3 => root.wal = NoFarm
      /\ n = 4 => Split
  BY <1>2 DEF RestoreAt
<1>5. NoFarm \in AnyFarm /\ pc[1] \in Back /\ "clearCandidate" \in Back
  BY <1>2 DEF AnyFarm, Back
<1>6. root \in [main : AnyFarm, wal : AnyFarm, partial : AnyFarm] /\ aside \in [main : AnyFarm, wal : AnyFarm]
  BY <1>2 DEF FilesTyped
\* Nothing is moved.
<1>7. ASSUME NEW q \in {"clearCandidate", "moveBack"}, NEW m \in 0..4, Goes(<<q, m>>),
             q = "moveBack" => m = 0 /\ mem.rollback.candidateCleared,
             q = "clearCandidate" => ~mem.rollback.candidateCleared /\ m \in {1, 4},
             q = "clearCandidate" /\ m = 1 => From(mem) >= 2,
             q = "clearCandidate" /\ m = 4 => Split
      PROVE  InstallerInv'
  <2>1. PICK next : next = <<q, m>>
    OBVIOUS
  <2>2. Goes(next)
    BY <1>7, <2>1
  <2>3. /\ pc' = next /\ UNCHANGED <<journal, mem, cause, files, rest, faults>>
        /\ UNCHANGED <<root, aside, staging, media, content, db, store, late, before, round>>
    BY <2>2 DEF Goes, files, rest
  <2>4. Running' /\ pc'[1] # "discard" /\ pc'[1] = q /\ pc'[2] = m
    BY <2>1, <2>3, OnItsWay
  <2>5. Split => Split'
    BY <2>3 DEF Split
  <2>6. From(mem)' = From(mem)
    BY <2>3 DEF From
  <2>7. RestoreAt'
    BY <1>2, <1>4, <1>7, <2>3, <2>4, <2>5, <2>6 DEF RestoreAt, Forward, Back
  <2>8. Staged'
    BY <1>2, <1>7, <2>3, <2>4, <2>7 DEF Staged, Ending
  <2> QED  BY <1>2, <1>5, <2>2, <2>4, <2>8, GoKeeps
<1>8. CASE At("clearCandidate", 0) /\ Marker.candidateCleared /\ Goes(<<"moveBack", 0>>)
  BY <1>7, <1>8 DEF Marker
<1>9. CASE At("clearCandidate", 0) /\ ~Marker.candidateCleared
           /\ Goes(<<"clearCandidate", IF Marker.from >= ClearsFrom THEN 1 ELSE 4>>)
  <2>1. ClearsFrom = 2
    BY PlacesAre DEF ClearsFrom
  <2>2. mem.rollback.from \in Int /\ ~mem.rollback.candidateCleared
    BY <1>2, <1>9 DEF Markers, Marker
  <2>3. CASE mem.rollback.from >= 2
    <3>1. Goes(<<"clearCandidate", 1>>)
      BY <1>9, <2>1, <2>3 DEF Marker
    <3> QED  BY <1>2, <1>7, <2>2, <2>3, <3>1
  <2>4. CASE ~(mem.rollback.from >= 2)
    <3>1. Goes(<<"clearCandidate", 4>>)
      BY <1>9, <2>1, <2>4 DEF Marker
    <3>2. Split
      BY <1>2, <2>2, <2>4 DEF RestoreHolds
    <3> QED  BY <1>7, <2>2, <3>1, <3>2
  <2> QED  BY <2>3, <2>4
<1>10. ASSUME NEW i \in 1..3, At("clearCandidate", i),
              Move(Root(<<"main", "wal", "partial">>[i], NoFarm), <<"clearCandidate", i + 1>>)
       PROVE  InstallerInv'
  <2>1. n = i /\ Apart /\ From(mem) >= 2 /\ ~mem.rollback.candidateCleared /\ mem.rollback.from \in Int
    <3>1. n = i
      BY <1>3, <1>10
    <3>2. mem.rollback.from \in Int
      BY <1>2 DEF Markers
    <3> QED  BY <1>2, <1>4, <3>1, <3>2 DEF RestoreHolds
  <2>2. PICK r : r = [root EXCEPT ![<<"main", "wal", "partial">>[i]] = NoFarm]
    OBVIOUS
  <2>3. PICK next : next = <<"clearCandidate", i + 1>>
    OBVIOUS
  <2>4. Move(Database(r, aside), next)
    BY <1>10, <2>2, <2>3, Zenon DEF Root
  <2>5. /\ r \in [main : AnyFarm, wal : AnyFarm, partial : AnyFarm] /\ r.main = NoFarm
        /\ r.wal \in {NoFarm, round} /\ r.partial \in {NoFarm, round}
        /\ n \in 2..3 => r.wal = NoFarm
        /\ n = 3 => r.partial = NoFarm
    <3>1. CASE i = 1
      <4>1. r = [root EXCEPT !.main = NoFarm]
        BY <2>2, <3>1
      <4> QED  BY <1>5, <1>6, <2>1, <3>1, <4>1, FileSet DEF Apart
    <3>2. CASE i = 2
      <4>1. r = [root EXCEPT !.wal = NoFarm]
        BY <2>2, <3>2
      <4> QED  BY <1>4, <1>5, <1>6, <2>1, <3>2, <4>1, FileSet DEF Apart
    <3>3. CASE i = 3
      <4>1. r = [root EXCEPT !.partial = NoFarm]
        BY <2>2, <3>3
      <4> QED  BY <1>4, <1>5, <1>6, <2>1, <3>3, <4>1, FileSet DEF Apart
    <3> QED  BY <3>1, <3>2, <3>3
  <2>6. CASE InstallerInv'
    BY <2>6
  <2>7. CASE /\ root' = r /\ aside' = aside /\ Did(next)
             /\ UNCHANGED <<journal, late, before, defect, round, staging, media, content, db, store>>
    <3>1. Apart'
      BY <2>1, <2>5, <2>7 DEF Apart
    <3>2. n = 3 => Split'
      BY <2>1, <2>5, <2>7 DEF Apart, Split
    <3>3. ASSUME pc' = next, mem' = mem  PROVE Staged' /\ Running' /\ pc'[1] # "discard"
      <4>1. Running' /\ pc'[1] # "discard" /\ pc'[1] = "clearCandidate" /\ pc'[2] = n + 1
        BY <2>1, <2>3, <3>3, OnItsWay
      <4>2. From(mem)' = From(mem)
        BY <3>3 DEF From
      <4>3. RestoreAt'
        BY <1>2, <1>4, <2>1, <2>5, <2>7, <3>2, <3>3, <4>1, <4>2 DEF RestoreAt, Forward, Back
      <4> QED  BY <1>2, <3>3, <4>1, <4>3 DEF Staged, Ending
    <3>4. aside' \in [main : AnyFarm, wal : AnyFarm] /\ root' \in [main : AnyFarm, wal : AnyFarm, partial : AnyFarm]
      BY <1>6, <2>5, <2>7
    <3>5. ~(From(mem) < 2 \/ mem.rollback.candidateCleared)
      BY <1>2, <2>1
    <3> QED  BY <1>2, <1>5, <2>7, <3>1, <3>3, <3>4, <3>5, RootKeeps
  <2> QED  BY <1>2, <2>4, <2>6, <2>7, RootMoves
<1>11. CASE At("clearCandidate", 4) /\ Save(Mark([Marker EXCEPT !.candidateCleared = TRUE]), <<"moveBack", 0>>)
  <2>1. n = 4 /\ Split
    BY <1>3, <1>4, <1>11
  <2>2. PICK m : m = [mem.rollback EXCEPT !.candidateCleared = TRUE]
    OBVIOUS
  <2>3. m \in Markers /\ m.candidateCleared /\ m.from = mem.rollback.from /\ m.mediaRestored = mem.rollback.mediaRestored /\ m # NoMarker
    BY <1>2, <2>2, MarkerSet
  <2>4. PICK copy : copy = [mem EXCEPT !.rollback = m]
    OBVIOUS
  <2>5. /\ copy \in Journals /\ copy.rollback = m /\ copy.swap = mem.swap /\ copy.id = mem.id /\ copy.kind = mem.kind
        /\ copy.phase = mem.phase /\ copy.attempts = mem.attempts /\ copy.carry = mem.carry /\ copy.orphans = mem.orphans
    BY <1>2, <2>3, <2>4, MarkSet
  <2>6. PICK next : next = <<"moveBack", 0>>
    OBVIOUS
  <2>7. Save(copy, next)
    BY <1>11, <2>2, <2>4, <2>6, Zenon DEF Mark, Marker
  <2>8. From(copy) = From(mem)
    <3>1. From(copy) = m.from
      BY <2>3, <2>5, Zenon DEF From
    <3> QED  BY <1>2, <2>3, <3>1
  <2>9. RestoreHolds(copy)
    BY <1>2, <2>1, <2>3, <2>5, <2>8 DEF RestoreHolds
  <2>10. Recoverable(copy) /\ Follows(copy) /\ Waiting(copy)
    <3>1. store \subseteq mem.orphans \cup db[round].used \cup late /\ mem.carry \subseteq mem.orphans
      BY <1>2 DEF Recoverable
    <3> QED  BY <1>2, <2>5, <2>9, <3>1 DEF Recoverable, Follows, Waiting, Unfinished
  <2>11. ASSUME mem' = copy, pc' = next  PROVE Running' /\ pc'[1] # "discard" /\ Staged'
    <3>1. Running' /\ pc'[1] # "discard" /\ pc'[1] = "moveBack" /\ pc'[2] = 0
      BY <2>6, <2>11, OnItsWay
    <3>3. m.mediaRestored /\ m.candidateCleared /\ m # NoMarker
      <4>1. m.mediaRestored
        BY <1>4, <2>3, Zenon
      <4> QED  BY <2>3, <4>1
    <3>4. mem'.rollback.mediaRestored /\ mem'.rollback.candidateCleared /\ mem'.rollback # NoMarker
      BY <2>5, <2>11, <3>3, Zenon
    <3>5. mem'.phase = "installing"
      BY <1>2, <2>5, <2>11
    <3>2. RestoreAt'
      BY <3>1, <3>4, <3>5 DEF RestoreAt, Forward, Back
    <3> QED  BY <1>2, <2>5, <2>11, <3>1, <3>2 DEF Staged, Ending
  <2>12. /\ faults + 1 >= copy.attempts /\ copy.phase # "pending"
         /\ cause # "invalid" => faults >= copy.attempts
    BY <1>2, <2>5
  <2> QED  BY <1>2, <2>7, <2>10, <2>11, <2>12, SaveKeeps
<1> QED  BY <1>8, <1>9, <1>10, <1>11, Zenon DEF ClearCandidate

LEMMA MoveBackKeeps ==
  ASSUME InstallerInv, MoveBack
  PROVE  InstallerInv'
<1>1. PICK i \in 0..1 :
        /\ At("moveBack", i)
        /\ Move(IF aside[<<"main", "wal">>[i + 1]] = NoFarm THEN UNCHANGED files
                ELSE Database([root EXCEPT ![<<"main", "wal">>[i + 1]] = aside[<<"main", "wal">>[i + 1]]],
                              [aside EXCEPT ![<<"main", "wal">>[i + 1]] = NoFarm]),
                <<"moveBack", i + 1>>)
  BY Zenon DEF MoveBack
<1>2. /\ InStep /\ pc[1] = "moveBack" /\ pc[2] = i /\ Running /\ mem = journal /\ Waiting(journal)
      /\ mem.kind = "restore" /\ mem.phase = "installing" /\ mem.rollback # NoMarker /\ mem.rollback \in Markers
      /\ RestoreHolds(mem) /\ RestoreAt /\ FilesTyped /\ before \in Farms
  BY <1>1, BackIs
<1>3. /\ mem.rollback.mediaRestored /\ mem.rollback.candidateCleared /\ Split
      /\ i = 1 => aside.main = NoFarm
  BY <1>2 DEF RestoreAt, RestoreHolds
<1>4. NoFarm \in AnyFarm /\ before \in AnyFarm /\ pc[1] \in Back /\ NoFarm # before
  BY <1>2, InstallerAssumption DEF AnyFarm, Back, NoFarm, Farms
<1>5. root \in [main : AnyFarm, wal : AnyFarm, partial : AnyFarm] /\ aside \in [main : AnyFarm, wal : AnyFarm]
  BY <1>2 DEF FilesTyped
<1>6. PICK file \in {"main", "wal"} : file = <<"main", "wal">>[i + 1]
  OBVIOUS
<1>7. PICK next : next = <<"moveBack", i + 1>>
  OBVIOUS
<1>8. PICK r : r = IF aside[file] = NoFarm THEN root ELSE [root EXCEPT ![file] = aside[file]]
  OBVIOUS
<1>9. PICK a : a = IF aside[file] = NoFarm THEN aside ELSE [aside EXCEPT ![file] = NoFarm]
  OBVIOUS
<1>10. Move(IF aside[file] = NoFarm THEN UNCHANGED files
            ELSE Database([root EXCEPT ![file] = aside[file]], [aside EXCEPT ![file] = NoFarm]), next)
  BY <1>1, <1>6, <1>7, Zenon
<1>11. Move(Database(r, a), next)
  <2>1. CASE aside[file] = NoFarm
    BY <1>8, <1>9, <1>10, <2>1 DEF Move, Do, Database, files
  <2>2. CASE aside[file] # NoFarm
    BY <1>8, <1>9, <1>10, <2>2 DEF Move, Do, Database, files
  <2> QED  BY <2>1, <2>2
<1>12. /\ r \in [main : AnyFarm, wal : AnyFarm, partial : AnyFarm] /\ a \in [main : AnyFarm, wal : AnyFarm]
       /\ r.partial = NoFarm /\ r.main = before /\ a.main = NoFarm
       /\ i = 0 => r.wal = root.wal /\ a.wal = aside.wal
       /\ i = 1 => r.wal \in {NoFarm, before} /\ a.wal = NoFarm
  <2>1. CASE i = 0
    <3>1. file = "main" /\ aside[file] = aside.main
      BY <1>6, <2>1
    <3>2. CASE aside.main = NoFarm
      BY <1>3, <1>4, <1>5, <1>8, <1>9, <2>1, <3>1, <3>2 DEF Split
    <3>3. CASE aside.main # NoFarm
      <4>1. r = [root EXCEPT !.main = before] /\ a = [aside EXCEPT !.main = NoFarm]
        BY <1>3, <1>8, <1>9, <3>1, <3>3 DEF Split
      <4>2. r \in [main : AnyFarm, wal : AnyFarm, partial : AnyFarm] /\ r.main = before /\ r.wal = root.wal /\ r.partial = root.partial
        BY <1>4, <1>5, <4>1, FileSet
      <4>3. a \in [main : AnyFarm, wal : AnyFarm] /\ a.main = NoFarm /\ a.wal = aside.wal
        BY <1>4, <1>5, <4>1, AsideSet
      <4> QED  BY <1>3, <2>1, <4>2, <4>3 DEF Split
    <3> QED  BY <3>2, <3>3
  <2>2. CASE i = 1
    <3>1. file = "wal" /\ aside[file] = aside.wal /\ root.main = before
      BY <1>3, <1>4, <1>6, <2>2 DEF Split
    <3>2. CASE aside.wal = NoFarm
      BY <1>3, <1>4, <1>5, <1>8, <1>9, <2>2, <3>1, <3>2 DEF Split
    <3>3. CASE aside.wal # NoFarm
      <4>1. r = [root EXCEPT !.wal = before] /\ a = [aside EXCEPT !.wal = NoFarm]
        BY <1>3, <1>8, <1>9, <3>1, <3>3 DEF Split
      <4>2. r \in [main : AnyFarm, wal : AnyFarm, partial : AnyFarm] /\ r.wal = before /\ r.main = root.main /\ r.partial = root.partial
        BY <1>4, <1>5, <4>1, FileSet
      <4>3. a \in [main : AnyFarm, wal : AnyFarm] /\ a.wal = NoFarm /\ a.main = aside.main
        BY <1>4, <1>5, <4>1, AsideSet
      <4> QED  BY <1>3, <2>2, <3>1, <4>2, <4>3 DEF Split
    <3> QED  BY <3>2, <3>3
  <2> QED  BY <2>1, <2>2
<1>13. CASE InstallerInv'
  BY <1>13
<1>14. CASE /\ root' = r /\ aside' = a /\ Did(next)
            /\ UNCHANGED <<journal, late, before, defect, round, staging, media, content, db, store>>
  <2>1. Split'
    <3>1. /\ root'.main = before' /\ aside'.main = NoFarm /\ root'.partial = NoFarm
      BY <1>12, <1>14
    <3>2. \/ root'.wal \in {NoFarm, before} /\ aside'.wal = NoFarm
          \/ root'.wal = NoFarm /\ aside'.wal = before
      BY <1>3, <1>12, <1>14 DEF Split
    <3> QED  BY <1>14, <3>1, <3>2 DEF Split
  <2>2. ASSUME pc' = next, mem' = mem  PROVE Staged' /\ Running' /\ pc'[1] # "discard"
    <3>1. Running' /\ pc'[1] # "discard" /\ pc'[1] = "moveBack" /\ pc'[2] = i + 1
      BY <1>7, <2>2, OnItsWay
    <3>2. RestoreAt'
      BY <1>2, <1>3, <1>12, <1>14, <2>2, <3>1 DEF RestoreAt, Forward, Back
    <3> QED  BY <1>2, <2>2, <3>1, <3>2 DEF Staged, Ending
  <2>3. aside' \in [main : AnyFarm, wal : AnyFarm] /\ root' \in [main : AnyFarm, wal : AnyFarm, partial : AnyFarm]
    BY <1>12, <1>14
  <2> QED  BY <1>2, <1>3, <1>4, <1>14, <2>1, <2>2, <2>3, RootKeeps
<1> QED  BY <1>2, <1>11, <1>13, <1>14, RootMoves

LEMMA FinishRollbackKeeps ==
  ASSUME InstallerInv, FinishRollback
  PROVE  InstallerInv'
<1>1. /\ At("moveBack", 2)
      /\ IF cause # "invalid" /\ mem.attempts < MaxAttempts
         THEN Save([SetPhase("pending") EXCEPT !.rollback = NoMarker], Loop)
         ELSE Save([SetPhase("failed") EXCEPT !.rollback = NoMarker,
                       !.failure = IF cause = "invalid" THEN "backupInvalid" ELSE "restoreFailed"],
                   <<"discard", 0>>)
  BY Zenon DEF FinishRollback
<1>2. /\ InStep /\ pc[1] = "moveBack" /\ pc[2] = 2 /\ Running /\ mem = journal /\ Waiting(journal)
      /\ mem.kind = "restore" /\ mem.phase = "installing" /\ mem.rollback # NoMarker /\ mem.rollback \in Markers
      /\ RestoreHolds(mem) /\ RestoreAt /\ FilesTyped /\ before \in Farms /\ ~RollsBack
      /\ mem \in Journals /\ Recoverable(mem)
      /\ faults \in Nat /\ mem.attempts \in Nat /\ faults + 1 >= mem.attempts
      /\ cause # "invalid" => faults >= mem.attempts
  BY <1>1, BackIs
<1>3. /\ mem.rollback.mediaRestored /\ mem.rollback.candidateCleared /\ Split
      /\ aside.main = NoFarm /\ aside.wal = NoFarm /\ mem.swap = "none"
  BY <1>2 DEF RestoreAt, RestoreHolds
<1>4. NoFarm # before
  BY <1>2, InstallerAssumption DEF NoFarm, Farms
<1>5. Whole(before) /\ staging.candidate = round /\ staging.media = round
  <2>1. aside = NoFiles
    BY <1>2, <1>3 DEF FilesTyped, NoFiles
  <2>2. root.main = before /\ root.wal \in {NoFarm, before} /\ root.partial = NoFarm
    BY <1>3, <1>4 DEF Split
  <2>3. /\ media.live = Tree(before) /\ media.previous = NoFarm /\ staging.media = round /\ staging.candidate = round
        /\ db[before].blobs \subseteq content.stored /\ Known(before)
    BY <1>2, <1>3 DEF RestoreHolds, Swapping
  <2> QED  BY <2>1, <2>2, <2>3 DEF Whole
<1>6. store \subseteq mem.orphans \cup db[round].used \cup late /\ mem.carry \subseteq mem.orphans
  BY <1>2 DEF Recoverable
<1>7. PICK z \in Markers : z = NoMarker
  <2>1. -1 \in -1..8 /\ FALSE \in BOOLEAN
    OBVIOUS
  <2>2. NoMarker \in Markers
    BY <2>1 DEF Markers, NoMarker
  <2> QED  BY <2>2
<1>8. MaxAttempts = 2
  BY DEF MaxAttempts
<1>9. CASE cause # "invalid" /\ mem.attempts < MaxAttempts
  <2>1. PICK a : a = [mem EXCEPT !.phase = "pending"]
    OBVIOUS
  <2>2. PICK copy : copy = [a EXCEPT !.rollback = z]
    OBVIOUS
  <2>3. /\ "pending" \in Phases /\ a \in Journals /\ a.phase = "pending" /\ a.id = mem.id /\ a.kind = mem.kind
        /\ a.attempts = mem.attempts /\ a.swap = mem.swap /\ a.carry = mem.carry /\ a.orphans = mem.orphans
    BY <1>2, <2>1, PhaseSet DEF Phases
  <2>4. /\ copy \in Journals /\ copy.rollback = z /\ copy.phase = "pending" /\ copy.id = mem.id /\ copy.kind = mem.kind
        /\ copy.attempts = mem.attempts /\ copy.swap = mem.swap /\ copy.carry = mem.carry /\ copy.orphans = mem.orphans
    BY <2>2, <2>3, MarkSet
  <2>5. PICK next : next = Loop
    OBVIOUS
  <2>6. Save(copy, next)
    BY <1>1, <1>7, <1>9, <2>1, <2>2, <2>5, Zenon DEF SetPhase
  <2>7. Recoverable(copy) /\ Follows(copy) /\ Waiting(copy)
    BY <1>2, <1>3, <1>5, <1>6, <1>7, <2>4 DEF Recoverable, Follows, Waiting, Unfinished
  <2>8. ASSUME mem' = copy, pc' = next  PROVE Running' /\ pc'[1] # "discard" /\ Staged'
    <3>1. Running' /\ pc'[1] = "loop"
      BY <2>5, <2>8 DEF Running, Down, Off, Stopped, Up, Opening, Loop
    <3>2. RestoreAt'
      BY <2>8, <3>1 DEF RestoreAt, Forward, Back
    <3> QED  BY <1>2, <2>4, <2>8, <3>1, <3>2 DEF Staged, Ending
  <2>9. faults + 1 >= copy.attempts /\ faults >= copy.attempts
    BY <1>2, <1>9, <2>4
  <2> QED  BY <1>2, <2>6, <2>7, <2>8, <2>9, SaveKeeps
<1>10. CASE ~(cause # "invalid" /\ mem.attempts < MaxAttempts)
  <2>1. PICK code \in {"none", "blocked", "stagingExpired", "backupInvalid", "restoreFailed"} :
          code = IF cause = "invalid" THEN "backupInvalid" ELSE "restoreFailed"
    OBVIOUS
  <2>2. PICK a : a = [mem EXCEPT !.phase = "failed"]
    OBVIOUS
  <2>3. PICK b : b = [a EXCEPT !.rollback = z]
    OBVIOUS
  <2>4. PICK copy : copy = [b EXCEPT !.failure = code]
    OBVIOUS
  <2>5. /\ "failed" \in Phases /\ a \in Journals /\ a.phase = "failed" /\ a.id = mem.id /\ a.kind = mem.kind
        /\ a.carry = mem.carry /\ a.orphans = mem.orphans
    BY <1>2, <2>2, PhaseSet DEF Phases
  <2>6. /\ b \in Journals /\ b.phase = "failed" /\ b.id = mem.id /\ b.kind = mem.kind
        /\ b.carry = mem.carry /\ b.orphans = mem.orphans
    BY <2>3, <2>5, MarkSet
  <2>7. /\ copy \in Journals /\ copy.failure = code /\ copy.phase = "failed" /\ copy.id = mem.id /\ copy.kind = mem.kind
        /\ copy.carry = mem.carry /\ copy.orphans = mem.orphans
    BY <2>4, <2>6, FailureSet
  <2>8. PICK next : next = <<"discard", 0>>
    OBVIOUS
  <2>9. Save(copy, next)
    <3>1. [a EXCEPT !.rollback = z, !.failure = code] = copy
      <4>1. [a EXCEPT !.rollback = z, !.failure = code] = [[a EXCEPT !.rollback = z] EXCEPT !.failure = code]
        BY <2>5
      <4> QED  BY <2>3, <2>4, <4>1, Zenon
    <3>2. Save([SetPhase("failed") EXCEPT !.rollback = NoMarker,
                    !.failure = IF cause = "invalid" THEN "backupInvalid" ELSE "restoreFailed"], <<"discard", 0>>)
      BY <1>1, <1>10, Zenon
    <3> QED  BY <1>7, <2>1, <2>2, <2>8, <3>1, <3>2, Zenon DEF SetPhase
  <2>10. copy.failure = "restoreFailed" => faults >= 2
    BY <1>2, <1>8, <1>10, <2>1, <2>7
  <2>11. Follows(copy) /\ copy.phase \in {"done", "failed"} /\ Whole(IF copy.phase = "failed" THEN before ELSE round)
    BY <1>5, <2>7 DEF Follows
  <2> QED  BY <1>2, <2>7, <2>8, <2>9, <2>10, <2>11, EndKeeps
<1> QED  BY <1>9, <1>10

---------------------------------------------------------------------------
(* Every step.                                                             *)

LEMMA IdleKeeps ==
  ASSUME InstallerInv, UNCHANGED vars
  PROVE  InstallerInv'
<1>1. UNCHANGED <<journal, mem, pc, cause, root, aside, staging, media, content, db, store, late, before, defect,
                  round, faults>>
  BY DEF vars, files, rest
<1>2. Durable'
  BY <1>1, DurableSame DEF InstallerInv, Durable, InstallerTyped, files, rest
<1>3. Ordered'
  BY <1>1, <1>2 DEF InstallerInv, Ordered, Running, Ahead, Waiting, Recoverable, Whole, New, RestoreHolds, ResetHolds,
                    From, Swapping, Split, Apart, Tree, Known
<1>4. Counted'
  BY <1>1 DEF InstallerInv, Counted, Waiting
<1>5. Staged'
  BY <1>1 DEF InstallerInv, Staged, RestoreAt, ResetAt, Ending, Running, New, From, Split, Apart, Tree, Known
<1> QED  BY <1>2, <1>3, <1>4, <1>5 DEF InstallerInv

LEMMA InstallerStep ==
  ASSUME InstallerInv, [Next]_vars
  PROVE  InstallerInv'
<1>1. CASE Step
  <2>1. CASE Start \/ Resume \/ RecheckBlockers \/ MarkInstalling \/ Record
    BY <2>1, StartKeeps, ResumeKeeps, RecheckKeeps, MarkInstallingKeeps, RecordKeeps
  <2>2. CASE MoveDatabaseAside \/ PlaceCandidate \/ CarryLocalState \/ ExtractContent
    BY <2>2, MoveDatabaseKeeps, PlaceCandidateKeeps, CarryKeeps, ExtractKeeps
  <2>3. CASE SwapMedia \/ Validate \/ MarkInstalled \/ RemovePrevious \/ MarkDone
    BY <2>3, SwapKeeps, ValidateKeeps, MarkInstalledKeeps, RemovePreviousKeeps, MarkDoneKeeps
  <2>4. CASE RollBack \/ RestoreMedia \/ ClearCandidate \/ MoveBack \/ FinishRollback \/ Discard
    BY <2>4, RollBackKeeps, RestoreMediaKeeps, ClearCandidateKeeps, MoveBackKeeps, FinishRollbackKeeps, DiscardKeeps
  <2>5. CASE MoveRootsAside \/ CreateFreshDatabase \/ DeleteCredentials \/ Open
    BY <2>5, MoveRootsKeeps, CreateFreshKeeps, DeleteKeeps, OpenKeeps
  <2> QED  BY <1>1, <2>1, <2>2, <2>3, <2>4, <2>5, Zenon DEF Step
<1>2. CASE \E kind \in {"restore", "reset"} : Ask(kind)
  BY <1>2, AskKeeps DEF Kinds
<1>3. CASE \E r \in Refs : AddCredential(r) \/ QueueCredential(r)
  BY <1>3, AddKeeps, QueueKeeps
<1>4. CASE Acknowledge \/ Quit \/ Crash
  BY <1>4, AcknowledgeKeeps, QuitKeeps, CrashKeeps
<1>5. CASE UNCHANGED vars
  BY <1>5, IdleKeeps
<1> QED  BY <1>1, <1>2, <1>3, <1>4, <1>5, Zenon DEF Next

\* What the installer's state always satisfies: whatever the process stopped in, the journal on disk says what the
\* next start can go on from, and a run that is going on stands where its next step needs it.  For every set of
\* references and blobs, every content of the backups, every number of rounds and every number of crashes and errors
\* (installer.rs, installer/rollback.rs, installer/reset.rs, journal.rs).
THEOREM InstallerOrdered == Spec => []InstallerInv
<1>1. Init => InstallerInv
  BY InstallerInvInit
<1>2. InstallerInv /\ [Next]_vars => InstallerInv'
  BY InstallerStep
<1> QED  BY <1>1, <1>2, PTL DEF Spec

LEMMA LogStays ==
  ASSUME InstallerInv
  PROVE  /\ (root.wal # NoFarm /\ root.main # NoFarm) => root.wal = root.main
         /\ (aside.wal # NoFarm /\ aside.main # NoFarm) => aside.wal = aside.main
<1>1. /\ journal \in Journals \cup {NoJournal} /\ FilesTyped /\ before \in Farms /\ round \in Farms
      /\ NoFarm \notin Farms
  BY InstallerAssumption DEF InstallerInv, Durable, InstallerTyped, NoFarm, Farms
<1>2. CASE ~Waiting(journal)
  BY <1>2 DEF InstallerInv, Durable, Sound, Whole, NoFiles
<1>3. CASE Waiting(journal)
  <2>1. Recoverable(journal) /\ journal \in Journals
    BY <1>3, WaitingTyped DEF InstallerInv, Durable, Sound
  <2>2. CASE Split \/ Apart
    BY <2>2 DEF Split, Apart
  <2>3. CASE journal.phase = "pending"
    BY <2>1, <2>3 DEF Recoverable, Whole, NoFiles
  <2>4. CASE journal.phase = "installed"
    BY <2>1, <2>4 DEF Recoverable, New
  <2>5. CASE journal.phase = "installing" /\ journal.kind = "restore"
    BY <2>1, <2>2, <2>5 DEF Recoverable, RestoreHolds
  <2>6. CASE journal.phase = "installing" /\ journal.kind = "reset"
    <3>1. ResetHolds(journal)
      BY <2>1, <2>6 DEF Recoverable
    <3>2. PICK s \in 0..5 : s = Place("reset", journal.step)
      BY ResetPlaces
    <3>3. CASE s <= 3
      <4>1. Split \/ Apart
        BY <3>1, <3>2, <3>3 DEF ResetHolds
      <4> QED  BY <2>2, <4>1
    <3>4. CASE s >= 4
      BY <3>1, <3>2, <3>4 DEF ResetHolds
    <3> QED  BY <3>2, <3>3, <3>4
  <2> QED  BY <1>3, <2>1, <2>3, <2>4, <2>5, <2>6 DEF Waiting, Unfinished, Journals, Kinds
<1> QED  BY <1>2, <1>3

LEMMA OpensItsOwn ==
  ASSUME InstallerInv, pc[1] \in {"opening", "up", "carryLocalState", "validate"}
  PROVE  aside.wal # root.main
<1>1. CASE pc[1] \in {"carryLocalState", "validate"}
  <2>1. Running /\ pc[1] # "loop"
    BY <1>1 DEF Running, Down, Off, Stopped, Up, Opening
  <2>2. mem = journal /\ mem # NoJournal /\ Waiting(journal)
    BY <1>1, <2>1 DEF InstallerInv, Ordered, Ahead, Loop
  <2>3. InStep
    BY <1>1, <2>1, <2>2 DEF InStep
  <2>4. mem.kind = "restore"
    BY <1>1, <2>3, StepHolds, StepsAre DEF ResetAt, Kinds
  <2>5. Apart /\ root.main = round
    BY <1>1, <2>3, <2>4, StepHolds DEF RestoreAt, Forward, Late
  <2>6. before < round /\ before \in Farms /\ round \in Farms
    BY <2>3, StepHolds
  <2> QED  BY <2>5, <2>6, InstallerAssumption DEF Apart, Farms, NoFarm
<1>2. CASE pc[1] \in {"opening", "up"}
  <2>1. journal \in Journals \cup {NoJournal} /\ before \in Farms /\ round \in Farms
    BY DEF InstallerInv, Durable, InstallerTyped
  <2>2. pc \in {Up, Opening}
    <3>1. SUFFICES ASSUME pc \notin {Up, Opening}  PROVE FALSE
      OBVIOUS
    <3>2. Running /\ pc[1] # "loop"
      BY <1>2, <3>1 DEF Running, Down, Off, Stopped
    <3>3. mem # NoJournal /\ mem.kind \in Kinds
      BY <3>2, WaitingTyped DEF InstallerInv, Ordered, Durable, Journals
    <3>4. RestoreAt \/ ResetAt
      BY <3>2, <3>3 DEF InstallerInv, Staged, Kinds
    <3> QED  BY <1>2, <3>4, StepsAre DEF RestoreAt, ResetAt, Forward, Back
  <2> QED  BY <2>1, <2>2, UpIs, InstallerAssumption DEF Whole, NoFiles, NoFarm, Farms
<1> QED  BY <1>1, <1>2

\* Whenever farm3d opens its storage, its database, log, images and content are of one Farm, the one the journal's end
\* calls for; and no write-ahead log ever lies beside another Farm's database.  Whatever crashed or failed before, and
\* however often (installer.rs, installer/rollback.rs, installer/reset.rs).
THEOREM FarmIsWholeAlways == Spec => []FarmIsWhole
<1>1. InstallerInv => FarmIsWhole
  <2> SUFFICES ASSUME InstallerInv  PROVE FarmIsWhole
    OBVIOUS
  <2>1. OldOrNew
    <3>1. CASE pc \in {Opening, Up}
      BY <3>1, UpIs DEF OldOrNew, Whole, Tree, Live
    <3> QED  BY <3>1 DEF OldOrNew
  <2> QED  BY <2>1, LogStays, OpensItsOwn DEF FarmIsWhole, LogStaysWithItsDatabase
<1> QED  BY <1>1, InstallerOrdered, PTL

\* Every stored credential is used by a Printer of the running Farm, listed for cleanup in its database, or was stored
\* while a restart was awaited: no restore, reset, rollback or retry loses track of one (apply.rs, installer.rs,
\* installer/reset.rs).
THEOREM CredentialsStayAccounted == Spec => []CredentialsAccounted
<1>1. InstallerInv => CredentialsAccounted
  BY UpIs DEF CredentialsAccounted, Whole, Known, LocalRefs
<1> QED  BY <1>1, InstallerOrdered, PTL

---------------------------------------------------------------------------
(* Why a restore fails.                                                    *)

Blamed == defect # "none" \/ unread > 0

\* The database that was placed names what the journal carries.
Carried == mem.carry \cup mem.orphans \subseteq db[round].auto \cup db[round].orphan

\* Every blob of the restored Farm is stored or still staged, and an attempt starts with all that is staged.
Supplied ==
    Waiting(journal) /\ journal.kind = "restore" =>
        /\ db[round].blobs \subseteq content.stored \cup staging.blobs
        /\ journal.phase = "pending" => staging.candidate = round /\ staging.media = round
\* What the points of a restore's run add.
Reached(at) ==
    /\ at[1] \in {"swapMedia", "validate"} => db[round].blobs \subseteq content.stored
    /\ at[1] \in {"extractContent", "swapMedia", "validate"} \/ at = <<"carryLocalState", 3>> => Carried
    /\ at = <<"recheckBlockers", 2>> => unread > 0
Attempt == Running /\ mem.kind = "restore" => Reached(pc) /\ (cause = "invalid" => Blamed)
Judged ==
    journal.phase = "failed" =>
        /\ journal.failure = "backupInvalid" => Blamed
        /\ journal.failure = "stagingExpired" => unread > 0
Fit == unread \in Nat /\ Supplied /\ Attempt /\ Judged

LEMMA ReachedNot ==
  ASSUME NEW at, at[1] \notin {"extractContent", "swapMedia", "validate", "carryLocalState", "recheckBlockers"}
  PROVE  Reached(at)
<1>1. at # <<"carryLocalState", 3>> /\ at # <<"recheckBlockers", 2>>
  OBVIOUS
<1> QED  BY <1>1 DEF Reached

LEMMA NotRunning ==
  /\ pc' \in {Stopped, Off, Up, Opening} => ~Running'
  /\ pc' = Loop => pc'[1] = "loop" /\ (Reached(pc))'
  BY ReachedNot DEF Running, Down, Off, Stopped, Up, Opening, Loop, Reached

\* A journal is written, or could not be.
LEMMA SaveFits ==
  ASSUME InstallerInv, Fit, Running, Waiting(journal), NEW copy, NEW next, Save(copy, next), Follows(copy),
         copy.phase = "pending" /\ copy.kind = "restore" => staging.candidate = round /\ staging.media = round,
         copy.phase = "failed" => /\ copy.failure = "backupInvalid" => Blamed
                                  /\ copy.failure = "stagingExpired" => unread > 0,
         mem.kind = "restore" => Reached(next)
  PROVE  Fit'
<1>1. /\ UNCHANGED <<root, aside, staging, media, content, db, store, late, before, defect, round, unread>>
      /\ journal' \in {journal, copy}
      /\ \/ mem' = copy /\ pc' = next /\ cause' = cause
         \/ mem' = copy /\ pc' = Loop /\ cause' = "io"
         \/ pc' = Stopped
  BY DEF Save, files, rest, ErrorTo
<1>2. mem = journal \/ Ahead
  BY DEF InstallerInv, Ordered
<1>3. copy.kind = journal.kind /\ copy.kind = mem.kind /\ copy.carry = mem.carry /\ copy.orphans = mem.orphans
  BY <1>2 DEF Follows, Ahead
<1>4. Supplied'
  BY <1>1, <1>3 DEF Fit, Supplied, Waiting
<1>5. Judged'
  BY <1>1 DEF Fit, Judged, Blamed, Waiting, Unfinished
<1>6. Blamed' = Blamed
  BY <1>1 DEF Blamed
<1>7. Attempt'
  <2>1. CASE mem' = copy /\ pc' = next /\ cause' = cause
    <3>1. mem.kind = "restore" => (Reached(pc))'
      BY <1>1, <1>3, <2>1 DEF Reached, Carried
    <3> QED  BY <1>3, <1>6, <2>1, <3>1 DEF Fit, Attempt
  <2>2. CASE mem' = copy /\ pc' = Loop /\ cause' = "io"
    BY <2>2, NotRunning DEF Attempt
  <2>3. CASE pc' = Stopped
    BY <2>3, NotRunning DEF Attempt
  <2> QED  BY <1>1, <2>1, <2>2, <2>3
<1> QED  BY <1>1, <1>4, <1>5, <1>7 DEF Fit

\* A step writes no journal and leaves the tables, the staging and the content alone, or an error stops it.
LEMMA MoveFits ==
  ASSUME InstallerInv, Fit, InStep, NEW next,
         UNCHANGED <<journal, defect, unread, round>>, Supplied',
         \/ pc' = next /\ UNCHANGED <<mem, cause>>
         \/ ErrorTo(mem),
         pc' = next /\ mem' = mem /\ mem.kind = "restore" => (Reached(pc))'
  PROVE  Fit'
<1>1. mem = journal /\ mem # NoJournal /\ Waiting(journal)
  BY DEF InStep, InstallerInv, Ordered
<1>2. Blamed' = Blamed
  BY DEF Blamed
<1>3. Judged'
  BY <1>2 DEF Fit, Judged
<1>4. Attempt'
  <2>1. CASE pc' = next /\ UNCHANGED <<mem, cause>>
    BY <1>2, <2>1 DEF Fit, Attempt, InStep
  <2>2. CASE ErrorTo(mem)
    <3>1. (pc' = Loop /\ cause' = "io") \/ pc' = Stopped
      BY <2>2 DEF ErrorTo
    <3> QED  BY <3>1, NotRunning DEF Attempt
  <2> QED  BY <2>1, <2>2
<1> QED  BY <1>3, <1>4 DEF Fit

LEMMA SuppliedSame ==
  ASSUME Supplied, UNCHANGED <<journal, round>>, db'[round].blobs = db[round].blobs,
         content.stored \subseteq content'.stored, staging.blobs \subseteq staging'.blobs \cup content'.stored,
         staging'.candidate = staging.candidate, staging'.media = staging.media \/ journal.phase # "pending"
  PROVE  Supplied'
  BY DEF Supplied, Waiting

\* The effect of a reset's step.
LEMMA ResetFits ==
  ASSUME InstallerInv, Fit, InStep, mem.kind = "reset", NEW effect, NEW next, Do(effect, next)
  PROVE  Fit'
<1>1. /\ UNCHANGED <<journal, defect, unread, round>>
      /\ (pc' = next /\ UNCHANGED <<mem, cause>>) \/ ErrorTo(mem)
  BY DEF Do
<1>2. Supplied'
  BY <1>1 DEF Supplied, InStep
<1> QED  BY <1>1, <1>2, MoveFits

\* A step moves database files.
LEMMA RootFits ==
  ASSUME InstallerInv, Fit, InStep, NEW r, NEW a, NEW next,
         Move(Database(r, a), next) \/ Move(UNCHANGED files, next),
         mem.kind = "restore" => Reached(next)
  PROVE  Fit'
<1>1. /\ UNCHANGED <<journal, defect, unread, round, staging, content, db>>
      /\ (pc' = next /\ UNCHANGED <<mem, cause>>) \/ ErrorTo(mem)
  BY DEF Do, Move, Database, files
<1>2. Supplied'
  BY <1>1, SuppliedSame DEF Fit
<1>3. pc' = next /\ mem' = mem /\ mem.kind = "restore" => (Reached(pc))'
  BY <1>1 DEF Reached, Carried
<1> QED  BY <1>1, <1>2, <1>3, MoveFits

\* A step moves the camera images.
LEMMA TreeFits ==
  ASSUME InstallerInv, Fit, InStep, NEW t, NEW g, NEW next, Move(Trees(t, g), next),
         mem.phase # "pending", mem.kind = "restore" => Reached(next)
  PROVE  Fit'
<1>1. /\ UNCHANGED <<journal, defect, unread, round, content, db>>
      /\ (pc' = next /\ UNCHANGED <<mem, cause>>) \/ ErrorTo(mem)
      /\ staging' = staging \/ staging' = [staging EXCEPT !.media = g]
  BY DEF Do, Move, Trees, files
<1>2. staging'.candidate = staging.candidate /\ staging'.blobs = staging.blobs
  BY <1>1 DEF InstallerInv, Durable, InstallerTyped, FilesTyped
<1>3. Supplied'
  BY <1>1, <1>2, SuppliedSame DEF Fit, InStep
<1>4. pc' = next /\ mem' = mem /\ mem.kind = "restore" => (Reached(pc))'
  BY <1>1 DEF Reached, Carried
<1> QED  BY <1>1, <1>3, <1>4, MoveFits

\* A step only goes on.
LEMMA GoFits ==
  ASSUME InstallerInv, Fit, Running, NEW next, Goes(next), mem.kind = "restore" => Reached(next)
  PROVE  Fit'
<1>1. pc' = next /\ UNCHANGED <<journal, mem, cause, staging, content, db, defect, round, unread>>
  BY DEF Goes, files, rest
<1>2. Supplied' /\ Judged'
  BY <1>1 DEF Fit, Supplied, Judged, Blamed, Waiting
<1>3. mem.kind = "restore" => (Reached(pc))'
  BY <1>1 DEF Reached, Carried
<1>4. Attempt'
  BY <1>1, <1>3 DEF Fit, Attempt, Blamed
<1> QED  BY <1>1, <1>2, <1>4 DEF Fit

\* A read fails, or what was read is refused.
LEMMA BlameFits ==
  ASSUME InstallerInv, Fit, UNCHANGED <<journal, mem, files, rest>>, NEW next, pc' = next,
         unread' \in {unread, unread + 1}, next = Loop \/ (next = <<"recheckBlockers", 2>> /\ unread' = unread + 1),
         cause' = cause \/ Blamed', Running
  PROVE  Fit'
<1>1. UNCHANGED <<staging, content, db, defect, round>> /\ unread \in Nat /\ unread' \in Nat /\ unread' >= unread
  BY DEF files, rest, Fit
<1>2. Supplied'
  BY <1>1 DEF Fit, Supplied, Waiting
<1>3. Blamed => Blamed'
  BY <1>1 DEF Blamed
<1>4. Judged'
  BY <1>1, <1>3 DEF Fit, Judged
<1>5. (Reached(pc))'
  <2>1. CASE next = Loop
    BY <2>1, NotRunning
  <2>2. CASE next = <<"recheckBlockers", 2>> /\ unread' = unread + 1
    BY <1>1, <2>2 DEF Reached
  <2> QED  BY <2>1, <2>2
<1>6. Attempt'
  BY <1>3, <1>5 DEF Fit, Attempt
<1> QED  BY <1>1, <1>2, <1>4, <1>6 DEF Fit

LEMMA FitInit == Init => Fit
<1> SUFFICES ASSUME Init  PROVE Fit
  OBVIOUS
<1>1. journal = NoJournal /\ pc = Up /\ unread = 0
  BY DEF Init
<1> QED  BY <1>1 DEF Fit, Supplied, Attempt, Judged, Waiting, Unfinished, NoJournal, Running

LEMMA AskFits ==
  ASSUME InstallerInv, Fit, NEW kind \in Kinds, Ask(kind)
  PROVE  Fit'
<1> DEFINE k == round + 1
           used == IF kind = "restore" THEN RefsOf[k] ELSE {}
           blobs == IF kind = "restore" THEN BlobsOf[k] ELSE {}
           r == [used |-> used, auto |-> {}, orphan |-> {}, blobs |-> blobs, tree |-> kind = "restore"]
<1>1. /\ pc = Up /\ pc' = pc /\ round' = k /\ journal' = NewJournal(kind, used) /\ unread' = 0
      /\ round < MaxRounds /\ db' = [db EXCEPT ![k] = r]
      /\ staging' = IF kind = "restore" THEN [candidate |-> k, blobs |-> blobs, media |-> k] ELSE staging
  BY Zenon DEF Ask
<1>2. k \in Farms /\ db \in [Farms -> FarmRow]
  BY <1>1, InstallerAssumption DEF InstallerInv, Durable, InstallerTyped, FilesTyped, Farms
<1>3. db'[k].blobs = blobs
  BY <1>1, <1>2
<1>4. journal'.phase = "pending" /\ journal'.kind = kind
  BY <1>1 DEF NewJournal
<1>5. kind = "restore" => staging'.candidate = round' /\ staging'.media = round' /\ staging'.blobs = db'[round'].blobs
  BY <1>1, <1>3
<1> HIDE DEF k, used, blobs, r
<1>6. Supplied' /\ Judged'
  BY <1>4, <1>5 DEF Supplied, Judged
<1>7. Attempt'
  BY <1>1 DEF Attempt, Running
<1> QED  BY <1>1, <1>6, <1>7 DEF Fit

\* The commands of a running farm3d, and its end.
LEMMA IdleFits ==
  ASSUME InstallerInv, Fit, ~Running', UNCHANGED <<journal, staging, content, round, defect, unread>>,
         db'[round].blobs = db[round].blobs
  PROVE  Fit'
  BY DEF Fit, Supplied, Attempt, Judged, Blamed, Waiting

LEMMA CommandFits ==
  ASSUME InstallerInv, Fit, (\E r \in Refs : AddCredential(r) \/ QueueCredential(r)) \/ Quit \/ Crash
  PROVE  Fit'
<1>1. UNCHANGED <<journal, staging, content, round, defect, unread>>
  BY DEF AddCredential, QueueCredential, Quit, Crash, Root, Database, files, rest
<1>2. ~Running'
  BY DEF AddCredential, QueueCredential, Changing, Quit, Crash, Running, Down, Up, Off
<1>3. db'[round].blobs = db[round].blobs
  <2>1. CASE UNCHANGED db
    BY <2>1
  <2>2. ASSUME NEW r \in Refs, db' = [db EXCEPT ![Live].used = @ \cup {r}]
        PROVE  db'[round].blobs = db[round].blobs
    BY <2>2 DEF InstallerInv, Durable, InstallerTyped, FilesTyped, FarmRow
  <2>3. ASSUME NEW r \in Refs, db' = [db EXCEPT ![Live].used = @ \ {r}, ![Live].auto = @ \cup {r}]
        PROVE  db'[round].blobs = db[round].blobs
    <3>1. PICK e : e = [db EXCEPT ![Live].used = @ \ {r}]
      OBVIOUS
    <3>2. db' = [e EXCEPT ![Live].auto = @ \cup {r}]
      BY <2>3, <3>1
    <3>3. DOMAIN e = Farms /\ round \in Farms /\ \A f \in Farms : e[f].blobs = db[f].blobs
      BY <3>1 DEF InstallerInv, Durable, InstallerTyped, FilesTyped, FarmRow
    <3>4. db'[round].blobs = e[round].blobs
      BY <3>2, <3>3
    <3> QED  BY <3>3, <3>4
  <2> QED  BY <2>1, <2>2, <2>3 DEF AddCredential, QueueCredential, Quit, Crash, files, rest
<1> QED  BY <1>1, <1>2, <1>3, IdleFits

LEMMA AcknowledgeFits ==
  ASSUME InstallerInv, Fit, Acknowledge
  PROVE  Fit'
<1>1. pc = Up /\ pc' = pc /\ journal' = NoJournal /\ unread' = unread
  BY DEF Acknowledge
<1> QED  BY <1>1 DEF Fit, Supplied, Attempt, Judged, Waiting, Unfinished, NoJournal, Running

LEMMA StartFits ==
  ASSUME InstallerInv, Fit, Start
  PROVE  Fit'
<1>1. UNCHANGED <<journal, staging, content, db, round, defect, unread>>
  BY DEF Start, files, rest
<1>2. Supplied' /\ Judged'
  BY <1>1 DEF Fit, Supplied, Judged, Blamed, Waiting
<1>3. Attempt'
  <2>1. CASE ~Waiting(journal)
    BY <2>1, NotRunning DEF Start, Attempt
  <2>2. CASE Waiting(journal) /\ journal.kind = "restore"
    <3>1. cause' = "crash" /\ pc' = Loop
      BY <2>2 DEF Start
    <3> QED  BY <3>1, NotRunning DEF Attempt
  <2>3. CASE Waiting(journal) /\ journal.kind # "restore"
    <3>1. mem'.kind # "restore"
      BY <2>3 DEF Start
    <3> QED  BY <3>1 DEF Attempt
  <2> QED  BY <2>1, <2>2, <2>3
<1> QED  BY <1>1, <1>2, <1>3 DEF Fit

LEMMA ResumeFits ==
  ASSUME InstallerInv, Fit, Resume
  PROVE  Fit'
<1>1. PICK next \in {<<"rollback", 0>>, <<"recheckBlockers", 0>>, <<"removePrevious", 0>>} : Goes(next)
  BY DEF Resume
<1>2. Reached(next)
  BY <1>1 DEF Reached
<1>3. Running
  BY DEF Resume, Running, Loop, Down, Off, Stopped, Up, Opening
<1> QED  BY <1>1, <1>2, <1>3, GoFits

LEMMA DiscardFits ==
  ASSUME InstallerInv, Fit, Discard
  PROVE  Fit'
<1>1. pc = <<"discard", 0>> /\ pc' = Opening /\ UNCHANGED <<journal, round, defect, unread>>
  BY DEF Discard, At, rest
<1>2. ~Waiting(journal)
  <2>1. mem = journal /\ mem # NoJournal /\ Running
    BY <1>1 DEF InstallerInv, Ordered, Ahead, Running, Loop, Down, Off, Stopped, Up, Opening
  <2>2. mem \in Journals /\ mem.kind \in Kinds
    BY <2>1, WaitingTyped DEF InstallerInv, Durable, Journals
  <2>3. mem.kind # "reset"
    BY <1>1, <2>1, StepsAre DEF InstallerInv, Staged, ResetAt
  <2>4. mem.phase = "failed"
    BY <1>1, <2>1, <2>2, <2>3 DEF InstallerInv, Staged, RestoreAt, Kinds
  <2> QED  BY <2>1, <2>4 DEF Waiting, Unfinished
<1> QED  BY <1>1, <1>2, NotRunning DEF Fit, Supplied, Attempt, Judged, Blamed, Waiting

LEMMA OpenFits ==
  ASSUME InstallerInv, Fit, Open
  PROVE  Fit'
<1>1. pc = Opening /\ pc' \in {Up, Stopped} /\ UNCHANGED <<journal, round, defect, unread>>
  BY DEF Open
<1>2. ~Waiting(journal)
  BY <1>1, UpIs
<1> QED  BY <1>1, <1>2, NotRunning DEF Fit, Supplied, Attempt, Judged, Blamed, Waiting

LEMMA RecheckFits ==
  ASSUME InstallerInv, Fit, RecheckBlockers
  PROVE  Fit'
<1>1. PICK n \in 0..2 : At("recheckBlockers", n)
  BY DEF RecheckBlockers
<1>2. InStep /\ pc[1] = "recheckBlockers" /\ pc[2] = n /\ pc = <<"recheckBlockers", n>>
  BY <1>1, AtStep DEF At
<1>3. /\ mem \in Journals /\ Running /\ mem = journal /\ Waiting(journal) /\ mem.kind = "restore" /\ mem.phase = "pending"
  <2>1. mem.kind = "restore"
    BY <1>2, StepHolds, StepsAre DEF ResetAt, Kinds
  <2> QED  BY <1>2, <2>1, StepHolds DEF InStep, RestoreAt
<1>4. staging.candidate = round /\ staging.media = round
  BY <1>3 DEF Fit, Supplied
<1>5. ASSUME Save([mem EXCEPT !.step = "recheckBlockers"], <<"recheckBlockers", 1>>)  PROVE Fit'
  <2>1. PICK copy : copy = [mem EXCEPT !.step = "recheckBlockers"]
    OBVIOUS
  <2>2. "recheckBlockers" \in StepNames
    BY DEF StepNames
  <2>3. Follows(copy) /\ copy.phase = mem.phase
    BY <1>3, <2>1, <2>2, StepSet DEF Follows
  <2>4. PICK next : next = <<"recheckBlockers", 1>>
    OBVIOUS
  <2>5. Reached(next) /\ Save(copy, next)
    BY <1>5, <2>1, <2>4 DEF Reached
  <2> QED  BY <1>3, <1>4, <2>3, <2>5, SaveFits
<1>6. ASSUME NEW code \in {"blocked", "stagingExpired"}, FailBeforeInstall(code), code = "stagingExpired" => unread > 0
      PROVE Fit'
  <2>1. PICK a : a = [mem EXCEPT !.phase = "failed"]
    OBVIOUS
  <2>2. PICK copy : copy = [a EXCEPT !.failure = code]
    OBVIOUS
  <2>3. PICK next : next = <<"discard", 0>>
    OBVIOUS
  <2>4. Save(copy, next) /\ Reached(next)
    BY <1>6, <2>1, <2>2, <2>3 DEF FailBeforeInstall, SetPhase, Reached
  <2>5. "failed" \in Phases /\ a \in Journals /\ a.phase = "failed" /\ a.id = mem.id /\ a.kind = mem.kind
        /\ a.carry = mem.carry /\ a.orphans = mem.orphans
    BY <1>3, <2>1, PhaseSet DEF Phases
  <2>6. Follows(copy) /\ copy.phase = "failed" /\ copy.failure = code
    BY <1>3, <2>2, <2>5, FailureSet DEF Follows
  <2> QED  BY <1>3, <1>6, <2>4, <2>6, SaveFits
<1>7. ASSUME Move(UNCHANGED files, <<"markInstalling", 0>>)  PROVE Fit'
  <2>1. PICK next : next = <<"markInstalling", 0>>
    OBVIOUS
  <2>2. Reached(next) /\ Move(UNCHANGED files, next)
    BY <1>7, <2>1 DEF Reached
  <2> QED  BY <1>2, <2>2, RootFits
<1>8. ASSUME Misread(<<"recheckBlockers", 2>>, cause)  PROVE Fit'
  BY <1>3, <1>8, BlameFits DEF Misread
<1>9. CASE At("recheckBlockers", 1) /\ FailBeforeInstall(IF Complete THEN "blocked" ELSE "stagingExpired")
  <2>1. Complete
    BY <1>4, StepHolds, <1>2, InstallerAssumption DEF Complete, NoFarm, Farms
  <2> QED  BY <1>6, <1>9, <2>1
<1>10. CASE At("recheckBlockers", 2) /\ FailBeforeInstall("stagingExpired")
  <2>1. unread > 0
    BY <1>2, <1>3, <1>10 DEF Fit, Attempt, Reached, At
  <2> QED  BY <1>6, <1>10, <2>1
<1> QED  BY <1>5, <1>7, <1>8, <1>9, <1>10, Zenon DEF RecheckBlockers

LEMMA MarkInstallingFits ==
  ASSUME InstallerInv, Fit, MarkInstalling
  PROVE  Fit'
<1>1. At("markInstalling", 0)
  BY DEF MarkInstalling
<1>2. InStep /\ pc[1] = "markInstalling" /\ pc[2] = 0
  BY <1>1, AtStep
<1>3. mem \in Journals /\ mem.kind \in Kinds /\ mem.attempts \in Nat /\ Running /\ Waiting(journal)
  BY <1>2, StepHolds DEF InStep, Journals
<1>4. PICK a : a = [mem EXCEPT !.phase = "installing"]
  OBVIOUS
<1>5. PICK b : b = [a EXCEPT !.attempts = a.attempts + 1]
  OBVIOUS
<1>6. PICK copy : copy = [b EXCEPT !.step = "markInstalling"]
  OBVIOUS
<1>7. a \in Journals /\ a.phase = "installing" /\ a.id = mem.id /\ a.kind = mem.kind /\ a.carry = mem.carry
      /\ a.orphans = mem.orphans /\ a.attempts = mem.attempts
  <2>1. "installing" \in Phases
    BY DEF Phases
  <2> QED  BY <1>3, <1>4, <2>1, PhaseSet
<1>8. b \in Journals /\ b.phase = "installing" /\ b.id = mem.id /\ b.kind = mem.kind /\ b.carry = mem.carry
      /\ b.orphans = mem.orphans
  <2>1. PICK i \in Nat : i = a.attempts + 1
    BY <1>3, <1>7
  <2> QED  BY <1>5, <1>7, <2>1, AttemptsSet
<1>9. Follows(copy) /\ copy.phase = "installing"
  <2>1. "markInstalling" \in StepNames
    BY DEF StepNames
  <2> QED  BY <1>3, <1>6, <1>8, <2>1, StepSet DEF Follows
<1>10. PICK next : next = <<"moveDatabaseAside", 0>>
  OBVIOUS
<1>11. StepAt(mem.kind, 1) = next
  BY <1>3, <1>10, NextSteps DEF Kinds
<1>12. [SetPhase("installing") EXCEPT !.attempts = @ + 1, !.step = "markInstalling"] = copy
  <2>1. [a EXCEPT !.attempts = @ + 1, !.step = "markInstalling"] = [[a EXCEPT !.attempts = @ + 1] EXCEPT !.step = "markInstalling"]
    BY <1>7
  <2> QED  BY <1>4, <1>5, <1>6, <2>1 DEF SetPhase
<1>13. Save(copy, next)
  BY <1>11, <1>12, Zenon DEF MarkInstalling
<1>14. Reached(next)
  BY <1>10 DEF Reached
<1> QED  BY <1>3, <1>9, <1>13, <1>14, SaveFits

LEMMA RecordFits ==
  ASSUME InstallerInv, Fit, Record
  PROVE  Fit'
<1>1. mem # NoJournal /\ pc[1] \in Steps(mem.kind) /\ pc[2] = 0 /\ Save([mem EXCEPT !.step = pc[1]], <<pc[1], 1>>)
  BY DEF Record
<1>2. Running
  <2>1. mem # NoJournal => pc \notin Down \cup {Up}
    BY DEF InstallerInv, Ordered
  <2>2. mem \in Journals /\ mem.kind \in Kinds
    BY <1>1, WaitingTyped DEF InstallerInv, Durable, Journals
  <2>3. pc # Opening
    BY <1>1, <2>2, StepsAre DEF Opening, Kinds
  <2> QED  BY <1>1, <2>1, <2>3 DEF Running
<1>3. pc[1] # "discard" /\ mem \in Journals /\ mem.kind \in Kinds
  <2>1. mem \in Journals /\ mem.kind \in Kinds
    BY <1>1, WaitingTyped DEF InstallerInv, Durable, Journals
  <2> QED  BY <1>1, <2>1, StepsAre DEF Kinds
<1>4. Waiting(journal)
  <2>1. pc # <<"discard", 0>>
    BY <1>3
  <2> QED  BY <1>2, <2>1 DEF InstallerInv, Ordered
<1>5. PICK copy : copy = [mem EXCEPT !.step = pc[1]]
  OBVIOUS
<1>6. pc[1] \in StepNames
  BY <1>1, <1>3 DEF StepNames, Kinds
<1>7. Follows(copy) /\ copy.phase = mem.phase
  BY <1>3, <1>5, <1>6, StepSet DEF Follows
<1>8. PICK next : next = <<pc[1], 1>>
  OBVIOUS
<1>9. Save(copy, next)
  BY <1>1, <1>5, <1>8
<1>10. mem.kind = "restore" => Reached(next)
  BY <1>2, <1>8 DEF Fit, Attempt, Reached
<1>11. mem.phase \in {"installing", "installed"}
  <2>1. CASE mem.kind = "restore"
    <3>1. RestoreAt
      BY <1>1, <1>2, <2>1 DEF InstallerInv, Staged
    <3> QED  BY <1>1, <2>1, <3>1, StepsAre DEF RestoreAt, Forward
  <2>2. CASE mem.kind = "reset"
    <3>1. ResetAt
      BY <1>1, <1>2, <2>2 DEF InstallerInv, Staged
    <3> QED  BY <1>1, <2>2, <3>1, StepsAre DEF ResetAt
  <2> QED  BY <1>3, <2>1, <2>2 DEF Kinds
<1> QED  BY <1>2, <1>4, <1>7, <1>9, <1>10, <1>11, SaveFits

LEMMA MoveDatabaseFits ==
  ASSUME InstallerInv, Fit, MoveDatabaseAside
  PROVE  Fit'
<1>1. PICK file \in {"main", "wal"} :
        /\ At("moveDatabaseAside", IF file = "main" THEN 1 ELSE 2)
        /\ Move(IF root[file] = NoFarm THEN UNCHANGED files
                ELSE Database([root EXCEPT ![file] = NoFarm], [aside EXCEPT ![file] = root[file]]),
                IF file = "main" THEN <<"moveDatabaseAside", 2>> ELSE Next1("moveDatabaseAside"))
  BY DEF MoveDatabaseAside
<1>2. InStep
  BY <1>1, AtStep DEF Forward
<1>3. PICK next : next = IF file = "main" THEN <<"moveDatabaseAside", 2>> ELSE Next1("moveDatabaseAside")
  OBVIOUS
<1>4. mem.kind = "restore" => Reached(next)
  <2>1. mem.kind = "restore" => next \in {<<"moveDatabaseAside", 2>>, <<"placeCandidate", 0>>}
    BY <1>3, NextSteps
  <2> QED  BY <2>1 DEF Reached
<1>5. CASE root[file] = NoFarm
  BY <1>1, <1>2, <1>3, <1>4, <1>5, RootFits
<1>6. CASE root[file] # NoFarm
  BY <1>1, <1>2, <1>3, <1>4, <1>6, RootFits
<1> QED  BY <1>5, <1>6

LEMMA PlaceCandidateFits ==
  ASSUME InstallerInv, Fit, PlaceCandidate
  PROVE  Fit'
<1>1. At("placeCandidate", 1) \/ At("placeCandidate", 2)
  BY Zenon DEF PlaceCandidate
<1>2. InStep /\ mem.kind = "restore" /\ mem.id = round /\ pc[1] = "placeCandidate"
  <2>1. InStep /\ pc[1] = "placeCandidate"
    BY <1>1, AtStep DEF Forward
  <2> QED  BY <2>1, StepHolds, StepsAre DEF ResetAt, Kinds
<1>3. ASSUME Move(Root("partial", staging.candidate), <<"placeCandidate", 2>>)  PROVE Fit'
  <2>1. PICK next : next = <<"placeCandidate", 2>>
    OBVIOUS
  <2>2. PICK r : r = [root EXCEPT !["partial"] = staging.candidate]
    OBVIOUS
  <2>3. Reached(next) /\ Move(Database(r, aside), next)
    BY <1>3, <2>1, <2>2 DEF Reached, Root
  <2> QED  BY <1>2, <2>3, RootFits
<1>4. ASSUME Do(/\ Database([root EXCEPT !.main = root.partial, !.partial = NoFarm], aside)
                /\ db' = [db EXCEPT ![mem.id].auto = {}, ![mem.id].orphan = {}]
                /\ UNCHANGED store, Next1("placeCandidate"))
      PROVE Fit'
  <2>1. PICK next : next = <<"carryLocalState", 0>>
    OBVIOUS
  <2>2. Next1("placeCandidate") = next
    BY <1>2, <2>1, NextSteps
  <2>3. /\ UNCHANGED <<journal, defect, unread, round, staging, content>>
        /\ (pc' = next /\ UNCHANGED <<mem, cause>>) \/ ErrorTo(mem)
        /\ db' = db \/ db' = [db EXCEPT ![round].auto = {}, ![round].orphan = {}]
    BY <1>2, <1>4, <2>2 DEF Do, Database, files
  <2>4. db'[round].blobs = db[round].blobs
    <3>1. PICK e : e = [db EXCEPT ![round].auto = {}]
      OBVIOUS
    <3>2. DOMAIN e = Farms /\ round \in Farms /\ e[round].blobs = db[round].blobs
      BY <3>1 DEF InstallerInv, Durable, InstallerTyped, FilesTyped, FarmRow
    <3>3. CASE db' = [db EXCEPT ![round].auto = {}, ![round].orphan = {}]
      <4>1. db' = [e EXCEPT ![round].orphan = {}]
        BY <3>1, <3>3
      <4> QED  BY <3>2, <4>1
    <3> QED  BY <2>3, <3>3
  <2>5. Supplied'
    BY <2>3, <2>4, SuppliedSame DEF Fit
  <2>6. pc' = next => (Reached(pc))'
    BY <2>1 DEF Reached
  <2> QED  BY <1>2, <2>3, <2>5, <2>6, MoveFits
<1> QED  BY <1>3, <1>4, Zenon DEF PlaceCandidate

LEMMA CarryFits ==
  ASSUME InstallerInv, Fit, CarryLocalState
  PROVE  Fit'
<1>1. PICK n \in 1..3 : At("carryLocalState", n)
  <2>1. At("carryLocalState", 1) \/ At("carryLocalState", 2) \/ At("carryLocalState", 3)
    BY Zenon DEF CarryLocalState
  <2> QED  BY <2>1
<1>2. InStep /\ mem.kind = "restore" /\ mem.id = round /\ pc[1] = "carryLocalState" /\ pc[2] = n
  <2>1. InStep /\ pc[1] = "carryLocalState" /\ pc[2] = n
    BY <1>1, AtStep DEF Forward
  <2> QED  BY <2>1, StepHolds, StepsAre DEF ResetAt, Kinds
<1>3. ASSUME Move(Root("wal", mem.id), <<"carryLocalState", 2>>)  PROVE Fit'
  <2>1. PICK next : next = <<"carryLocalState", 2>>
    OBVIOUS
  <2>2. PICK r : r = [root EXCEPT !["wal"] = mem.id]
    OBVIOUS
  <2>3. Reached(next) /\ Move(Database(r, aside), next)
    BY <1>3, <2>1, <2>2 DEF Reached, Root
  <2> QED  BY <1>2, <2>3, RootFits
<1>4. ASSUME Do(/\ db' = [db EXCEPT ![mem.id].auto = @ \cup mem.carry,
                                    ![mem.id].orphan = @ \cup (mem.orphans \ mem.carry)]
                /\ UNCHANGED <<files, store>>, <<"carryLocalState", 3>>)
      PROVE Fit'
  <2>1. PICK next : next = <<"carryLocalState", 3>>
    OBVIOUS
  <2>2. PICK e : e = [db EXCEPT ![round].auto = @ \cup mem.carry]
    OBVIOUS
  <2>3. /\ UNCHANGED <<journal, defect, unread, round, staging, content>>
        /\ \/ /\ pc' = next /\ UNCHANGED <<mem, cause>>
              /\ db' = [db EXCEPT ![mem.id].auto = @ \cup mem.carry,
                                  ![mem.id].orphan = @ \cup (mem.orphans \ mem.carry)]
           \/ /\ ErrorTo(mem)
              /\ \/ db' = db
                 \/ db' = [db EXCEPT ![mem.id].auto = @ \cup mem.carry,
                                     ![mem.id].orphan = @ \cup (mem.orphans \ mem.carry)]
    BY <1>4, <2>1 DEF Do, files
  <2>4. /\ DOMAIN e = Farms /\ round \in Farms /\ e[round].blobs = db[round].blobs
        /\ e[round].orphan = db[round].orphan /\ e[round].auto = db[round].auto \cup mem.carry
        /\ e[round] \in FarmRow \cup {[db[round] EXCEPT !.auto = @ \cup mem.carry]}
    BY <2>2 DEF InstallerInv, Durable, InstallerTyped, FilesTyped, FarmRow
  <2>5. ASSUME db' = [db EXCEPT ![mem.id].auto = @ \cup mem.carry,
                                ![mem.id].orphan = @ \cup (mem.orphans \ mem.carry)]
        PROVE  db'[round].blobs = db[round].blobs /\ db'[round].auto = db[round].auto \cup mem.carry
               /\ db'[round].orphan = db[round].orphan \cup (mem.orphans \ mem.carry)
    <3>1. PICK x : x = mem.orphans \ mem.carry
      OBVIOUS
    <3>2. db' = [e EXCEPT ![round].orphan = @ \cup x]
      BY <1>2, <2>2, <2>5, <3>1
    <3>3. db'[round] = [e[round] EXCEPT !.orphan = @ \cup x]
      BY <2>4, <3>2
    <3>4. e[round] = [db[round] EXCEPT !.auto = @ \cup mem.carry] /\ db[round] \in FarmRow
      BY <2>2, <2>4 DEF InstallerInv, Durable, InstallerTyped, FilesTyped
    <3> QED  BY <2>4, <3>1, <3>3, <3>4 DEF FarmRow
  <2>6. db'[round].blobs = db[round].blobs
    BY <2>3, <2>5
  <2>7. Supplied'
    BY <2>3, <2>6, SuppliedSame DEF Fit
  <2>8. pc' = next /\ mem' = mem => (Reached(pc))'
    <3>1. CASE pc' = next /\ mem' = mem /\ ErrorTo(mem)
      <4>1. pc' = Loop \/ pc' = Stopped
        BY <3>1 DEF ErrorTo
      <4> QED  BY <2>1, <3>1, <4>1 DEF Loop, Stopped
    <3>2. CASE /\ pc' = next /\ mem' = mem
               /\ db' = [db EXCEPT ![mem.id].auto = @ \cup mem.carry,
                                   ![mem.id].orphan = @ \cup (mem.orphans \ mem.carry)]
      <4>1. Carried'
        BY <2>3, <2>5, <3>2 DEF Carried
      <4> QED  BY <2>1, <3>2, <4>1 DEF Reached
    <3> QED  BY <2>3, <3>1, <3>2
  <2>9. (pc' = next /\ UNCHANGED <<mem, cause>>) \/ ErrorTo(mem)
    BY <2>3
  <2> QED  BY <1>2, <2>3, <2>7, <2>8, <2>9, MoveFits
<1>5. ASSUME n = 3, Move(Root("wal", NoFarm), Next1("carryLocalState"))  PROVE Fit'
  <2>1. PICK next : next = <<"extractContent", 0>>
    OBVIOUS
  <2>2. PICK r : r = [root EXCEPT !["wal"] = NoFarm]
    OBVIOUS
  <2>3. pc = <<"carryLocalState", 3>> /\ Running
    BY <1>1, <1>2, <1>5 DEF At, InStep
  <2>4. Carried
    BY <1>2, <2>3 DEF Fit, Attempt, Reached
  <2>5. Reached(next)
    BY <2>1, <2>4 DEF Reached
  <2>6. Move(Database(r, aside), next)
    BY <1>2, <1>5, <2>1, <2>2, NextSteps DEF Root
  <2> QED  BY <1>2, <2>5, <2>6, RootFits
<1>6. At("carryLocalState", 3) => n = 3
  BY <1>1 DEF At
<1> QED  BY <1>3, <1>4, <1>5, <1>6, Zenon DEF CarryLocalState

LEMMA ExtractFits ==
  ASSUME InstallerInv, Fit, ExtractContent
  PROVE  Fit'
<1>1. At("extractContent", 1)
  BY DEF ExtractContent
<1>2. /\ InStep /\ mem.kind = "restore" /\ mem.id = round /\ pc[1] = "extractContent" /\ mem = journal /\ Running
      /\ Waiting(journal) /\ FilesTyped /\ round \in Farms
  <2>1. InStep /\ pc[1] = "extractContent"
    BY <1>1, AtStep DEF Forward
  <2>2. mem.kind = "restore"
    BY <2>1, StepHolds, StepsAre DEF ResetAt, Kinds
  <2> QED  BY <1>1, <2>2, ForwardIs DEF Forward
<1>3. Carried /\ db[round].blobs \subseteq content.stored \cup staging.blobs
  BY <1>2 DEF Fit, Attempt, Reached, Supplied
<1>4. CASE db[mem.id].blobs \ content.stored = {} /\ Goes(Next1("extractContent"))
  <2>1. PICK next : next = <<"swapMedia", 0>>
    OBVIOUS
  <2>2. Goes(next) /\ Reached(next)
    BY <1>2, <1>3, <1>4, <2>1, NextSteps DEF Reached
  <2> QED  BY <1>2, <2>2, GoFits
<1>5. CASE Misread(Loop, "invalid")
  BY <1>2, <1>5, BlameFits DEF Misread, Blamed, Fit
<1>6. ASSUME NEW b \in db[mem.id].blobs \ content.stored,
             IF b \notin staging.blobs \/ defect = "extractContent" THEN Refuse
             ELSE Move(/\ content' = [content EXCEPT !.stored = @ \cup {b}]
                       /\ staging' = [staging EXCEPT !.blobs = @ \ {b}]
                       /\ UNCHANGED <<root, aside, media>>,
                       <<"extractContent", 1>>)
      PROVE  Fit'
  <2>1. b \in staging.blobs
    BY <1>2, <1>3
  <2>2. CASE defect = "extractContent" /\ Refuse
    <3>1. Blamed'
      BY <2>2 DEF Blamed, Refuse, rest
    <3> QED  BY <1>2, <2>2, <3>1, BlameFits DEF Refuse
  <2>3. CASE Move(/\ content' = [content EXCEPT !.stored = @ \cup {b}]
                  /\ staging' = [staging EXCEPT !.blobs = @ \ {b}]
                  /\ UNCHANGED <<root, aside, media>>,
                  <<"extractContent", 1>>)
    <3>1. PICK next : next = <<"extractContent", 1>>
      OBVIOUS
    <3>2. /\ UNCHANGED <<journal, defect, unread, round, db>>
          /\ (pc' = next /\ UNCHANGED <<mem, cause>>) \/ ErrorTo(mem)
          /\ \/ UNCHANGED <<content, staging>>
             \/ content' = [content EXCEPT !.stored = @ \cup {b}] /\ staging' = [staging EXCEPT !.blobs = @ \ {b}]
      BY <2>3, <3>1 DEF Move, Do, files
    <3>3. content.stored \subseteq content'.stored /\ staging.blobs \subseteq staging'.blobs \cup content'.stored
          /\ staging'.candidate = staging.candidate /\ staging'.media = staging.media
      BY <1>2, <3>2 DEF FilesTyped
    <3>4. Supplied'
      BY <3>2, <3>3, SuppliedSame DEF Fit
    <3>5. pc' = next /\ mem' = mem => (Reached(pc))'
      BY <1>3, <3>1, <3>2 DEF Reached, Carried
    <3> QED  BY <1>2, <3>2, <3>4, <3>5, MoveFits
  <2> QED  BY <1>6, <2>1, <2>2, <2>3
<1>7. CASE \E b \in db[mem.id].blobs \ content.stored :
              IF b \notin staging.blobs \/ defect = "extractContent" THEN Refuse
              ELSE Move(/\ content' = [content EXCEPT !.stored = @ \cup {b}]
                        /\ staging' = [staging EXCEPT !.blobs = @ \ {b}]
                        /\ UNCHANGED <<root, aside, media>>,
                        <<"extractContent", 1>>)
  BY <1>6, <1>7
<1> QED  BY <1>4, <1>5, <1>7, Zenon DEF ExtractContent

LEMMA SwapFits ==
  ASSUME InstallerInv, Fit, SwapMedia
  PROVE  Fit'
<1>1. PICK n \in 1..3 : At("swapMedia", n)
  <2>1. At("swapMedia", 1) \/ At("swapMedia", 2) \/ At("swapMedia", 3)
    BY Zenon DEF SwapMedia
  <2> QED  BY <2>1
<1>2. /\ InStep /\ mem.kind = "restore" /\ mem.id = round /\ pc[1] = "swapMedia" /\ pc[2] = n /\ mem = journal
      /\ Running /\ Waiting(journal) /\ FilesTyped /\ round \in Farms /\ mem.phase = "installing" /\ mem \in Journals
      /\ RestoreAt /\ RestoreHolds(mem)
  <2>1. InStep /\ pc[1] = "swapMedia"
    BY <1>1, AtStep DEF Forward
  <2>2. mem.kind = "restore"
    BY <2>1, StepHolds, StepsAre DEF ResetAt, Kinds
  <2> QED  BY <1>1, <2>2, ForwardIs DEF Forward
<1>3. Carried /\ db[round].blobs \subseteq content.stored
  BY <1>2 DEF Fit, Attempt, Reached
<1>4. \A m \in 2..3 : Reached(<<"swapMedia", m>>)
  BY <1>3 DEF Reached
<1>5. CASE Misread(Loop, "invalid")
  BY <1>2, <1>5, BlameFits DEF Misread, Blamed, Fit
<1>6. CASE At("swapMedia", 1) /\ IF staging.media = NoFarm \/ defect = "swapMedia" THEN Refuse
             ELSE IF media.previous # NoFarm THEN Fails
             ELSE Save([mem EXCEPT !.swap = IF media.live = NoFarm THEN "absent" ELSE "existed"], <<"swapMedia", 2>>)
  <2>1. n = 1
    BY <1>2, <1>6 DEF At
  <2>2. staging.media = round /\ staging.media # NoFarm /\ media.previous = NoFarm
    <3>1. mem.swap = "none"
      BY <1>2, <2>1 DEF RestoreAt
    <3> QED  BY <1>2, <3>1, InstallerAssumption DEF RestoreHolds, Swapping, NoFarm, Farms
  <2>3. CASE defect = "swapMedia" /\ Refuse
    <3>1. Blamed'
      BY <2>3 DEF Blamed, Refuse, rest
    <3> QED  BY <1>2, <2>3, <3>1, BlameFits DEF Refuse
  <2>4. CASE Save([mem EXCEPT !.swap = IF media.live = NoFarm THEN "absent" ELSE "existed"], <<"swapMedia", 2>>)
    <3>1. PICK swap \in {"none", "absent", "existed"} : swap = IF media.live = NoFarm THEN "absent" ELSE "existed"
      OBVIOUS
    <3>2. PICK copy : copy = [mem EXCEPT !.swap = swap]
      OBVIOUS
    <3>3. PICK next : next = <<"swapMedia", 2>>
      OBVIOUS
    <3>4. Save(copy, next)
      BY <2>4, <3>1, <3>2, <3>3
    <3>5. Follows(copy) /\ copy.phase = mem.phase
      BY <1>2, <3>2, SwapSet DEF Follows
    <3> QED  BY <1>2, <1>4, <3>3, <3>4, <3>5, SaveFits
  <2> QED  BY <1>6, <2>2, <2>3, <2>4
<1>7. ASSUME Goes(<<"swapMedia", 3>>)  PROVE Fit'
  <2>1. PICK next : next = <<"swapMedia", 3>>
    OBVIOUS
  <2> QED  BY <1>2, <1>4, <1>7, <2>1, GoFits
<1>8. ASSUME NEW t, NEW g, Move(Trees(t, g), <<"swapMedia", 3>>)  PROVE Fit'
  <2>1. PICK next : next = <<"swapMedia", 3>>
    OBVIOUS
  <2> QED  BY <1>2, <1>4, <1>8, <2>1, TreeFits
<1>9. ASSUME NEW t, NEW g, Move(Trees(t, g), Next1("swapMedia"))  PROVE Fit'
  <2>1. PICK next : next = <<"validate", 0>>
    OBVIOUS
  <2>2. Move(Trees(t, g), next) /\ Reached(next)
    BY <1>2, <1>3, <1>9, <2>1, NextSteps DEF Reached
  <2> QED  BY <1>2, <2>2, TreeFits
<1>10. CASE At("swapMedia", 2) /\ IF mem.swap = "absent" THEN Goes(<<"swapMedia", 3>>)
             ELSE Move(Trees([media EXCEPT !.previous = media.live, !.live = NoFarm], staging.media), <<"swapMedia", 3>>)
  <2>1. PICK t : t = [media EXCEPT !.previous = media.live, !.live = NoFarm]
    OBVIOUS
  <2> QED  BY <1>7, <1>8, <1>10, <2>1
<1>11. CASE At("swapMedia", 3) /\ Move(Trees([media EXCEPT !.live = staging.media], NoFarm), Next1("swapMedia"))
  <2>1. PICK t : t = [media EXCEPT !.live = staging.media]
    OBVIOUS
  <2> QED  BY <1>9, <1>11, <2>1
<1> QED  BY <1>5, <1>6, <1>10, <1>11, Zenon DEF SwapMedia

LEMMA ValidateFits ==
  ASSUME InstallerInv, Fit, Validate
  PROVE  Fit'
<1>1. PICK n \in 1..2 : At("validate", n)
  <2>1. At("validate", 1) \/ At("validate", 2)
    BY Zenon DEF Validate
  <2> QED  BY <2>1
<1>2. /\ InStep /\ mem.kind = "restore" /\ mem.id = round /\ pc[1] = "validate" /\ Running /\ RestoreAt
  <2>1. InStep /\ pc[1] = "validate"
    BY <1>1, AtStep DEF Forward
  <2>2. mem.kind = "restore"
    BY <2>1, StepHolds, StepsAre DEF ResetAt, Kinds
  <2> QED  BY <1>1, <2>2, ForwardIs, <2>1 DEF Forward
<1>3. Carried /\ db[round].blobs \subseteq content.stored
  BY <1>2 DEF Fit, Attempt, Reached
<1>4. CASE Misread(Loop, "invalid")
  BY <1>2, <1>4, BlameFits DEF Misread, Blamed, Fit
<1>5. CASE ~Valid /\ Refuse
  <2>1. root.main = round /\ media.live = round
    BY <1>2 DEF RestoreAt, Forward, Late
  <2>2. defect = "validate"
    BY <1>2, <1>3, <1>5, <2>1 DEF Valid, Carried
  <2>3. Blamed'
    BY <1>5, <2>2 DEF Blamed, Refuse, rest
  <2> QED  BY <1>2, <1>5, <2>3, BlameFits DEF Refuse
<1>6. CASE Move(Root("wal", mem.id), <<"validate", 2>>)
  <2>1. PICK next : next = <<"validate", 2>>
    OBVIOUS
  <2>2. PICK r : r = [root EXCEPT !["wal"] = mem.id]
    OBVIOUS
  <2>3. Reached(next) /\ Move(Database(r, aside), next)
    BY <1>3, <1>6, <2>1, <2>2 DEF Reached, Root
  <2> QED  BY <1>2, <2>3, RootFits
<1>7. CASE Move(Root("wal", NoFarm), Next1("validate"))
  <2>1. PICK next : next = <<"markInstalled", 0>>
    OBVIOUS
  <2>2. PICK r : r = [root EXCEPT !["wal"] = NoFarm]
    OBVIOUS
  <2>3. Reached(next) /\ Move(Database(r, aside), next)
    BY <1>2, <1>7, <2>1, <2>2, NextSteps DEF Reached, Root
  <2> QED  BY <1>2, <2>3, RootFits
<1> QED  BY <1>4, <1>5, <1>6, <1>7, Zenon DEF Validate

LEMMA MarkInstalledFits ==
  ASSUME InstallerInv, Fit, MarkInstalled
  PROVE  Fit'
<1>1. At("markInstalled", 1) /\ Save(SetPhase("installed"), Next1("markInstalled"))
  BY DEF MarkInstalled
<1>2. InStep /\ pc[1] = "markInstalled"
  BY <1>1, AtStep DEF Forward
<1>3. mem.kind = "restore" /\ mem \in Journals /\ Running /\ Waiting(journal)
  BY <1>2, StepHolds, StepsAre DEF ResetAt, Kinds, InStep
<1>4. PICK copy : copy = [mem EXCEPT !.phase = "installed"]
  OBVIOUS
<1>5. Follows(copy) /\ copy.phase = "installed"
  <2>1. "installed" \in Phases
    BY DEF Phases
  <2> QED  BY <1>3, <1>4, <2>1, PhaseSet DEF Follows
<1>6. PICK next : next = <<"removePrevious", 0>>
  OBVIOUS
<1>7. Save(copy, next) /\ Reached(next)
  BY <1>1, <1>3, <1>4, <1>6, NextSteps DEF SetPhase, Reached
<1> QED  BY <1>3, <1>5, <1>7, SaveFits

LEMMA RemovePreviousFits ==
  ASSUME InstallerInv, Fit, RemovePrevious
  PROVE  Fit'
<1>1. PICK n \in 1..2 : At("removePrevious", n)
  <2>1. At("removePrevious", 1) \/ At("removePrevious", 2)
    BY Zenon DEF RemovePrevious
  <2> QED  BY <2>1
<1>2. /\ InStep /\ mem = journal /\ mem.kind \in Kinds /\ FilesTyped /\ New(round)
      /\ mem.phase = IF mem.kind = "restore" THEN "installed" ELSE "installing"
  BY <1>1, LastStep
<1>3. CASE Move(Database(root, NoFiles), <<"removePrevious", 2>>)
  <2>1. PICK next : next = <<"removePrevious", 2>>
    OBVIOUS
  <2>2. Reached(next)
    BY <2>1 DEF Reached
  <2>3. PICK r : r = root
    OBVIOUS
  <2>4. PICK a : a = NoFiles
    OBVIOUS
  <2> QED  BY <1>2, <1>3, <2>1, <2>2, <2>3, <2>4, RootFits
<1>4. CASE Move(/\ staging' = IF mem.kind = "restore" THEN NoStaging ELSE staging
                /\ media' = [media EXCEPT !.previous = NoFarm, !.aside = NoFarm]
                /\ content' = [content EXCEPT !.aside = {}]
                /\ UNCHANGED <<root, aside>>,
                <<"markDone", 0>>)
  <2>1. PICK next : next = <<"markDone", 0>>
    OBVIOUS
  <2>2. /\ UNCHANGED <<journal, defect, unread, round, db>>
        /\ (pc' = next /\ UNCHANGED <<mem, cause>>) \/ ErrorTo(mem)
        /\ content' = content \/ content' = [content EXCEPT !.aside = {}]
    BY <1>4, <2>1 DEF Move, Do, files
  <2>3. content'.stored = content.stored
    BY <1>2, <2>2 DEF FilesTyped
  <2>4. Supplied'
    BY <1>2, <2>2, <2>3 DEF Supplied, New
  <2>5. pc' = next => (Reached(pc))'
    BY <2>1 DEF Reached
  <2> QED  BY <1>2, <2>2, <2>4, <2>5, MoveFits
<1> QED  BY <1>3, <1>4, Zenon DEF RemovePrevious

LEMMA MarkDoneFits ==
  ASSUME InstallerInv, Fit, MarkDone
  PROVE  Fit'
<1>1. At("markDone", 0) /\ Save([SetPhase("done") EXCEPT !.step = "markDone"], Opening)
  BY DEF MarkDone
<1>2. InStep
  BY <1>1, AtStep
<1>3. mem \in Journals /\ Running /\ Waiting(journal)
  BY <1>2, StepHolds DEF InStep
<1>4. PICK a : a = [mem EXCEPT !.phase = "done"]
  OBVIOUS
<1>5. PICK copy : copy = [a EXCEPT !.step = "markDone"]
  OBVIOUS
<1>6. a \in Journals /\ a.phase = "done" /\ a.id = mem.id /\ a.kind = mem.kind /\ a.carry = mem.carry
      /\ a.orphans = mem.orphans
  <2>1. "done" \in Phases
    BY DEF Phases
  <2> QED  BY <1>3, <1>4, <2>1, PhaseSet
<1>7. Follows(copy) /\ copy.phase = "done"
  <2>1. "markDone" \in StepNames
    BY DEF StepNames
  <2> QED  BY <1>5, <1>6, <2>1, StepSet DEF Follows
<1>8. Save(copy, Opening) /\ Reached(Opening)
  BY <1>1, <1>4, <1>5 DEF SetPhase, Reached, Opening
<1> QED  BY <1>3, <1>7, <1>8, SaveFits

LEMMA RollBackFits ==
  ASSUME InstallerInv, Fit, RollBack
  PROVE  Fit'
<1>1. /\ pc = <<"rollback", 0>> /\ pc[1] = "rollback"
      /\ IF Marker = NoMarker
         THEN Save(Mark([NoMarker EXCEPT !.from = Place("restore", mem.step)]), <<"restoreMedia", 0>>)
         ELSE Goes(<<"restoreMedia", 0>>)
  BY Zenon DEF RollBack, At
<1>2. Running
  BY <1>1 DEF Running, Down, Off, Stopped, Up, Opening
<1>3. Waiting(journal) /\ mem # NoJournal /\ (mem = journal \/ Ahead)
  BY <1>1, <1>2 DEF InstallerInv, Ordered
<1>4. mem \in Journals
  BY <1>3, WaitingTyped DEF InstallerInv, Durable, InstallerTyped, Sound, Ahead
<1>5. mem.kind = "restore"
  BY <1>1, <1>2, <1>4, StepsAre DEF InstallerInv, Staged, ResetAt, Journals, Kinds
<1>6. mem.phase = "installing"
  BY <1>1, <1>2, <1>5 DEF InstallerInv, Staged, RestoreAt, Back
<1>7. PICK next : next = <<"restoreMedia", 0>>
  OBVIOUS
<1>8. Reached(next)
  BY <1>7 DEF Reached
<1>9. CASE Marker = NoMarker
  <2>1. PICK from \in 0..8 : from = Place("restore", mem.step)
    BY ResetPlaces
  <2>2. PICK m : m = [NoMarker EXCEPT !.from = from]
    OBVIOUS
  <2>3. m \in Markers
    <3>1. -1 \in -1..8 /\ FALSE \in BOOLEAN
      OBVIOUS
    <3>2. NoMarker \in Markers
      BY <3>1 DEF Markers, NoMarker
    <3> QED  BY <2>1, <2>2, <3>2 DEF Markers
  <2>4. PICK copy : copy = [mem EXCEPT !.rollback = m]
    OBVIOUS
  <2>5. Follows(copy) /\ copy.phase = "installing"
    BY <1>4, <1>6, <2>3, <2>4, MarkSet DEF Follows
  <2>6. Mark([NoMarker EXCEPT !.from = Place("restore", mem.step)]) = copy
    BY <2>1, <2>2, <2>4, Zenon DEF Mark
  <2>7. Save(copy, next)
    BY <1>1, <1>7, <1>9, <2>6, Zenon
  <2> QED  BY <1>2, <1>3, <1>8, <2>5, <2>7, SaveFits
<1>10. CASE Marker # NoMarker
  <2>1. Goes(next)
    BY <1>1, <1>7, <1>10
  <2> QED  BY <1>2, <1>8, <2>1, GoFits
<1> QED  BY <1>9, <1>10

\* The steps of a rollback move files, go on, or record their marker.
LEMMA BackFits ==
  ASSUME InstallerInv, Fit, NEW p \in {"restoreMedia", "clearCandidate", "moveBack"}, NEW n, At(p, n),
         NEW q \in {"restoreMedia", "clearCandidate", "moveBack"}, NEW m
  PROVE  /\ Goes(<<q, m>>) => Fit'
         /\ \A t, g : Move(Trees(t, g), <<q, m>>) => Fit'
         /\ \A r, a : Move(Database(r, a), <<q, m>>) => Fit'
         /\ Move(UNCHANGED files, <<q, m>>) => Fit'
<1>1. InStep /\ Running /\ mem.phase = "installing"
  BY BackIs
<1>2. PICK next : next = <<q, m>>
  OBVIOUS
<1>3. Reached(next)
  BY <1>2 DEF Reached
<1>4. ASSUME Goes(<<q, m>>)  PROVE Fit'
  BY <1>1, <1>2, <1>3, <1>4, GoFits
<1>5. ASSUME NEW t, NEW g, Move(Trees(t, g), <<q, m>>)  PROVE Fit'
  BY <1>1, <1>2, <1>3, <1>5, TreeFits
<1>6. ASSUME NEW r, NEW a, Move(Database(r, a), <<q, m>>)  PROVE Fit'
  BY <1>1, <1>2, <1>3, <1>6, RootFits
<1>7. ASSUME Move(UNCHANGED files, <<q, m>>)  PROVE Fit'
  BY <1>1, <1>2, <1>3, <1>7, RootFits
<1> QED  BY <1>4, <1>5, <1>6, <1>7

\* A rollback records its marker.
LEMMA MarkFits ==
  ASSUME InstallerInv, Fit, NEW p \in {"restoreMedia", "clearCandidate", "moveBack"}, NEW n, At(p, n),
         NEW copy, NEW q \in {"clearCandidate", "moveBack"}, Save(copy, <<q, 0>>), copy \in Journals,
         copy.phase = mem.phase, copy.id = mem.id, copy.kind = mem.kind,
         copy.carry = mem.carry, copy.orphans = mem.orphans
  PROVE  Fit'
<1>1. InStep /\ Running /\ mem.phase = "installing" /\ Waiting(journal)
  BY BackIs
<1>2. PICK next : next = <<q, 0>>
  OBVIOUS
<1>3. Reached(next) /\ Save(copy, next)
  BY <1>2 DEF Reached
<1>4. Follows(copy)
  BY DEF Follows
<1> QED  BY <1>1, <1>3, <1>4, SaveFits

LEMMA RestoreMediaFits ==
  ASSUME InstallerInv, Fit, RestoreMedia
  PROVE  Fit'
<1>1. CASE At("restoreMedia", 0) /\ Marker.mediaRestored /\ Goes(<<"clearCandidate", 0>>)
  BY <1>1, BackFits
<1>2. CASE At("restoreMedia", 0) /\ ~Marker.mediaRestored
            /\ IF media.live # NoFarm /\ (mem.swap = "absent" \/ (mem.swap = "existed" /\ media.previous # NoFarm))
               THEN Move(Trees([media EXCEPT !.live = NoFarm], media.live), <<"restoreMedia", 1>>)
               ELSE Goes(<<"restoreMedia", 1>>)
  <2>1. PICK t : t = [media EXCEPT !.live = NoFarm]
    OBVIOUS
  <2>2. Move(Trees(t, media.live), <<"restoreMedia", 1>>) \/ Goes(<<"restoreMedia", 1>>)
    BY <1>2, <2>1, Zenon
  <2> QED  BY <1>2, <2>2, BackFits
<1>3. CASE At("restoreMedia", 1)
            /\ IF mem.swap = "existed" /\ media.previous # NoFarm
               THEN Move(Trees([media EXCEPT !.live = media.previous, !.previous = NoFarm], staging.media), <<"restoreMedia", 2>>)
               ELSE Goes(<<"restoreMedia", 2>>)
  <2>1. PICK t : t = [media EXCEPT !.live = media.previous, !.previous = NoFarm]
    OBVIOUS
  <2>2. Move(Trees(t, staging.media), <<"restoreMedia", 2>>) \/ Goes(<<"restoreMedia", 2>>)
    BY <1>3, <2>1, Zenon
  <2> QED  BY <1>3, <2>2, BackFits
<1>4. CASE At("restoreMedia", 2)
            /\ Save([Mark([Marker EXCEPT !.mediaRestored = TRUE]) EXCEPT !.swap = "none"], <<"clearCandidate", 0>>)
  <2>1. mem \in Journals /\ mem.rollback \in Markers
    BY <1>4, BackIs
  <2>2. PICK m : m = [mem.rollback EXCEPT !.mediaRestored = TRUE]
    OBVIOUS
  <2>3. PICK a : a = [mem EXCEPT !.rollback = m]
    OBVIOUS
  <2>4. PICK copy : copy = [a EXCEPT !.swap = "none"]
    OBVIOUS
  <2>5. m \in Markers
    BY <2>1, <2>2, MarkerSet
  <2>6. /\ a \in Journals /\ a.id = mem.id /\ a.kind = mem.kind /\ a.phase = mem.phase
        /\ a.carry = mem.carry /\ a.orphans = mem.orphans
    BY <2>1, <2>3, <2>5, MarkSet
  <2>7. /\ copy \in Journals /\ copy.id = mem.id /\ copy.kind = mem.kind /\ copy.phase = mem.phase
        /\ copy.carry = mem.carry /\ copy.orphans = mem.orphans
    BY <2>4, <2>6, SwapSet
  <2>8. Save(copy, <<"clearCandidate", 0>>)
    BY <1>4, <2>2, <2>3, <2>4, Zenon DEF Mark, Marker
  <2> QED  BY <1>4, <2>7, <2>8, MarkFits
<1> QED  BY <1>1, <1>2, <1>3, <1>4, Zenon DEF RestoreMedia

LEMMA ClearCandidateFits ==
  ASSUME InstallerInv, Fit, ClearCandidate
  PROVE  Fit'
<1>1. CASE At("clearCandidate", 0) /\ Marker.candidateCleared /\ Goes(<<"moveBack", 0>>)
  BY <1>1, BackFits
<1>2. CASE At("clearCandidate", 0) /\ ~Marker.candidateCleared
            /\ Goes(<<"clearCandidate", IF Marker.from >= ClearsFrom THEN 1 ELSE 4>>)
  BY <1>2, BackFits
<1>3. CASE \E i \in 1..3 : At("clearCandidate", i)
             /\ Move(Root(<<"main", "wal", "partial">>[i], NoFarm), <<"clearCandidate", i + 1>>)
  <2>1. PICK i \in 1..3 : At("clearCandidate", i)
          /\ Move(Root(<<"main", "wal", "partial">>[i], NoFarm), <<"clearCandidate", i + 1>>)
    BY <1>3
  <2>2. PICK r : r = [root EXCEPT ![<<"main", "wal", "partial">>[i]] = NoFarm]
    OBVIOUS
  <2>3. Move(Database(r, aside), <<"clearCandidate", i + 1>>)
    BY <2>1, <2>2, Zenon DEF Root
  <2> QED  BY <2>1, <2>3, BackFits
<1>4. CASE At("clearCandidate", 4)
            /\ Save(Mark([Marker EXCEPT !.candidateCleared = TRUE]), <<"moveBack", 0>>)
  <2>1. mem \in Journals /\ mem.rollback \in Markers
    BY <1>4, BackIs
  <2>2. PICK m : m = [mem.rollback EXCEPT !.candidateCleared = TRUE]
    OBVIOUS
  <2>3. PICK copy : copy = [mem EXCEPT !.rollback = m]
    OBVIOUS
  <2>4. m \in Markers
    BY <2>1, <2>2, MarkerSet
  <2>5. /\ copy \in Journals /\ copy.id = mem.id /\ copy.kind = mem.kind /\ copy.phase = mem.phase
        /\ copy.carry = mem.carry /\ copy.orphans = mem.orphans
    BY <2>1, <2>3, <2>4, MarkSet
  <2>6. Save(copy, <<"moveBack", 0>>)
    BY <1>4, <2>2, <2>3, Zenon DEF Mark, Marker
  <2> QED  BY <1>4, <2>5, <2>6, MarkFits
<1> QED  BY <1>1, <1>2, <1>3, <1>4, Zenon DEF ClearCandidate

LEMMA MoveBackFits ==
  ASSUME InstallerInv, Fit, MoveBack
  PROVE  Fit'
<1>1. PICK i \in 0..1 :
        LET file == <<"main", "wal">>[i + 1]
        IN /\ At("moveBack", i)
           /\ Move(IF aside[file] = NoFarm THEN UNCHANGED files
                   ELSE Database([root EXCEPT ![file] = aside[file]], [aside EXCEPT ![file] = NoFarm]),
                   <<"moveBack", i + 1>>)
  BY Zenon DEF MoveBack
<1>2. PICK file : file = <<"main", "wal">>[i + 1]
  OBVIOUS
<1>3. /\ At("moveBack", i)
      /\ Move(IF aside[file] = NoFarm THEN UNCHANGED files
              ELSE Database([root EXCEPT ![file] = aside[file]], [aside EXCEPT ![file] = NoFarm]),
              <<"moveBack", i + 1>>)
  BY <1>1, <1>2, Zenon
<1>4. CASE aside[file] = NoFarm
  <2>1. Move(UNCHANGED files, <<"moveBack", i + 1>>)
    BY <1>3, <1>4
  <2> QED  BY <1>3, <2>1, BackFits
<1>5. CASE aside[file] # NoFarm
  <2>1. PICK r : r = [root EXCEPT ![file] = aside[file]]
    OBVIOUS
  <2>2. PICK a : a = [aside EXCEPT ![file] = NoFarm]
    OBVIOUS
  <2>3. Move(Database(r, a), <<"moveBack", i + 1>>)
    BY <1>3, <1>5, <2>1, <2>2
  <2> QED  BY <1>3, <2>3, BackFits
<1> QED  BY <1>4, <1>5

LEMMA FinishRollbackFits ==
  ASSUME InstallerInv, Fit, FinishRollback
  PROVE  Fit'
<1>1. /\ At("moveBack", 2)
      /\ IF cause # "invalid" /\ mem.attempts < MaxAttempts
         THEN Save([SetPhase("pending") EXCEPT !.rollback = NoMarker], Loop)
         ELSE Save([SetPhase("failed") EXCEPT !.rollback = NoMarker,
                       !.failure = IF cause = "invalid" THEN "backupInvalid" ELSE "restoreFailed"],
                   <<"discard", 0>>)
  BY Zenon DEF FinishRollback
<1>2. /\ InStep /\ Running /\ Waiting(journal) /\ mem.kind = "restore" /\ RestoreHolds(mem) /\ RestoreAt
      /\ pc[1] = "moveBack" /\ pc[2] = 2 /\ mem \in Journals
  BY <1>1, BackIs
<1>3. staging.candidate = round /\ staging.media = round
  <2>1. mem.swap = "none"
    BY <1>2 DEF RestoreAt, RestoreHolds
  <2> QED  BY <1>2, <2>1 DEF RestoreHolds, Swapping
<1>4. cause = "invalid" => Blamed
  BY <1>2 DEF Fit, Attempt
<1>5. PICK z \in Markers : z = NoMarker
  <2>1. -1 \in -1..8 /\ FALSE \in BOOLEAN
    OBVIOUS
  <2>2. NoMarker \in Markers
    BY <2>1 DEF Markers, NoMarker
  <2> QED  BY <2>2
<1>6. CASE cause # "invalid" /\ mem.attempts < MaxAttempts
  <2>1. PICK a : a = [mem EXCEPT !.phase = "pending"]
    OBVIOUS
  <2>2. PICK copy : copy = [a EXCEPT !.rollback = z]
    OBVIOUS
  <2>3. /\ "pending" \in Phases /\ a \in Journals /\ a.phase = "pending" /\ a.id = mem.id /\ a.kind = mem.kind
        /\ a.carry = mem.carry /\ a.orphans = mem.orphans
    BY <1>2, <2>1, PhaseSet DEF Phases
  <2>4. Follows(copy) /\ copy.phase = "pending"
    BY <2>2, <2>3, MarkSet DEF Follows
  <2>5. Save(copy, Loop)
    BY <1>1, <1>5, <1>6, <2>1, <2>2, Zenon DEF SetPhase
  <2>6. PICK next : next = Loop
    OBVIOUS
  <2>7. Reached(next) /\ Save(copy, next)
    BY <2>5, <2>6 DEF Reached, Loop
  <2> QED  BY <1>2, <1>3, <2>4, <2>7, SaveFits
<1>7. CASE ~(cause # "invalid" /\ mem.attempts < MaxAttempts)
  <2>1. PICK code \in {"none", "blocked", "stagingExpired", "backupInvalid", "restoreFailed"} :
          code = IF cause = "invalid" THEN "backupInvalid" ELSE "restoreFailed"
    OBVIOUS
  <2>2. PICK a : a = [mem EXCEPT !.phase = "failed"]
    OBVIOUS
  <2>3. PICK b : b = [a EXCEPT !.rollback = z]
    OBVIOUS
  <2>4. PICK copy : copy = [b EXCEPT !.failure = code]
    OBVIOUS
  <2>5. /\ "failed" \in Phases /\ a \in Journals /\ a.phase = "failed" /\ a.id = mem.id /\ a.kind = mem.kind
        /\ a.carry = mem.carry /\ a.orphans = mem.orphans
    BY <1>2, <2>2, PhaseSet DEF Phases
  <2>6. /\ b \in Journals /\ b.phase = "failed" /\ b.id = mem.id /\ b.kind = mem.kind
        /\ b.carry = mem.carry /\ b.orphans = mem.orphans
    BY <2>3, <2>5, MarkSet
  <2>7. Follows(copy) /\ copy.phase = "failed" /\ copy.failure = code
    BY <2>4, <2>6, FailureSet DEF Follows
  <2>8. PICK next : next = <<"discard", 0>>
    OBVIOUS
  <2>9. Save(copy, next) /\ Reached(next)
    <3>1. [a EXCEPT !.rollback = z, !.failure = code] = copy
      <4>1. [a EXCEPT !.rollback = z, !.failure = code] = [[a EXCEPT !.rollback = z] EXCEPT !.failure = code]
        BY <2>5
      <4> QED  BY <2>3, <2>4, <4>1, Zenon
    <3>2. Save([SetPhase("failed") EXCEPT !.rollback = NoMarker,
                    !.failure = IF cause = "invalid" THEN "backupInvalid" ELSE "restoreFailed"], <<"discard", 0>>)
      BY <1>1, <1>7, Zenon
    <3>3. Save(copy, next)
      BY <1>5, <2>1, <2>2, <2>8, <3>1, <3>2, Zenon DEF SetPhase
    <3>4. Reached(next)
      BY <2>8 DEF Reached
    <3> QED  BY <3>3, <3>4
  <2>10. /\ copy.failure = "backupInvalid" => Blamed
         /\ copy.failure = "stagingExpired" => unread > 0
    BY <1>4, <2>1, <2>7
  <2> QED  BY <1>2, <2>7, <2>9, <2>10, SaveFits
<1> QED  BY <1>6, <1>7

\* The steps only a reset has.
LEMMA ResetStepsFit ==
  ASSUME InstallerInv, Fit, MoveRootsAside \/ CreateFreshDatabase \/ DeleteCredentials
  PROVE  Fit'
<1>1. PICK p \in {"moveRootsAside", "createFreshDatabase", "deleteCredentials"}, n \in 1..4 : At(p, n)
  <2>1. MoveRootsAside => At("moveRootsAside", 1) \/ At("moveRootsAside", 2)
    BY Zenon DEF MoveRootsAside
  <2>2. CreateFreshDatabase => \/ At("createFreshDatabase", 1) \/ At("createFreshDatabase", 2)
                              \/ At("createFreshDatabase", 3) \/ At("createFreshDatabase", 4)
    BY Zenon DEF CreateFreshDatabase
  <2>3. DeleteCredentials => At("deleteCredentials", 1) \/ At("deleteCredentials", 2)
    BY Zenon DEF DeleteCredentials
  <2> QED  BY <2>1, <2>2, <2>3
<1>2. InStep /\ pc[1] = p
  BY <1>1, StepsAre, AtStep
<1>3. mem.kind = "reset"
  BY <1>2, StepHolds DEF RestoreAt, Forward, Back, Kinds
<1>4. /\ UNCHANGED <<journal, defect, unread, round>>
      /\ (\E next : pc' = next /\ UNCHANGED <<mem, cause>>) \/ ErrorTo(mem)
  BY DEF MoveRootsAside, CreateFreshDatabase, DeleteCredentials, Move, Do
<1>5. PICK next : (pc' = next /\ UNCHANGED <<mem, cause>>) \/ ErrorTo(mem)
  BY <1>4
<1>6. Supplied'
  BY <1>2, <1>3, <1>4 DEF Supplied, InStep
<1> QED  BY <1>2, <1>3, <1>4, <1>5, <1>6, MoveFits

LEMMA FitStep ==
  ASSUME InstallerInv, Fit, [Next]_vars
  PROVE  Fit'
<1>1. CASE Step
  <2>1. CASE Start \/ Resume \/ RecheckBlockers \/ MarkInstalling \/ Record
    BY <2>1, StartFits, ResumeFits, RecheckFits, MarkInstallingFits, RecordFits
  <2>2. CASE MoveDatabaseAside \/ PlaceCandidate \/ CarryLocalState \/ ExtractContent
    BY <2>2, MoveDatabaseFits, PlaceCandidateFits, CarryFits, ExtractFits
  <2>3. CASE SwapMedia \/ Validate \/ MarkInstalled \/ RemovePrevious \/ MarkDone
    BY <2>3, SwapFits, ValidateFits, MarkInstalledFits, RemovePreviousFits, MarkDoneFits
  <2>4. CASE RollBack \/ RestoreMedia \/ ClearCandidate \/ MoveBack \/ FinishRollback \/ Discard
    BY <2>4, RollBackFits, RestoreMediaFits, ClearCandidateFits, MoveBackFits, FinishRollbackFits, DiscardFits
  <2>5. CASE MoveRootsAside \/ CreateFreshDatabase \/ DeleteCredentials \/ Open
    BY <2>5, ResetStepsFit, OpenFits
  <2> QED  BY <1>1, <2>1, <2>2, <2>3, <2>4, <2>5, Zenon DEF Step
<1>2. CASE \E kind \in {"restore", "reset"} : Ask(kind)
  BY <1>2, AskFits DEF Kinds
<1>3. CASE \E r \in Refs : AddCredential(r) \/ QueueCredential(r)
  BY <1>3, CommandFits
<1>4. CASE Acknowledge \/ Quit \/ Crash
  BY <1>4, AcknowledgeFits, CommandFits
<1>5. CASE UNCHANGED vars
  <2>1. UNCHANGED <<journal, mem, pc, cause, staging, content, db, defect, round, unread>>
    BY <1>5 DEF vars, files, rest
  <2> QED  BY <2>1 DEF Fit, Supplied, Attempt, Reached, Carried, Judged, Blamed, Waiting, Running
<1> QED  BY <1>1, <1>2, <1>3, <1>4, <1>5, Zenon DEF Next

\* A restore is given up for cause only: after two attempts that crashes or I/O errors ended, or because its backup is
\* damaged or a file of it could not be read.  What an attempt left half done, a retry finds again: every blob is still
\* staged or stored, the candidate is placed and carried into anew, the images are back where they were staged.  For
\* every number of faults (installer.rs, installer/rollback.rs finish_rollback, inventory.rs hash_file).
THEOREM GivenUpForCauseAlways == Spec => []GivenUpForCause
<1>1. Init => InstallerInv /\ Fit
  BY InstallerInvInit, FitInit
<1>2. InstallerInv /\ Fit /\ [Next]_vars => InstallerInv' /\ Fit'
  BY InstallerStep, FitStep
<1>3. InstallerInv /\ Fit => GivenUpForCause
  <2> SUFFICES ASSUME InstallerInv, Fit, journal.phase = "failed"
               PROVE  /\ journal.failure = "restoreFailed" => faults >= 2
                      /\ journal.failure = "backupInvalid" => defect # "none" \/ unread > 0
                      /\ journal.failure = "stagingExpired" => unread > 0
    BY DEF GivenUpForCause
  <2> QED  BY DEF InstallerInv, Counted, Fit, Judged, Blamed
<1> QED  BY <1>1, <1>2, <1>3, PTL DEF Spec

=============================================================================

----------------------------- MODULE Installer -----------------------------
(***************************************************************************)
(* The startup installer (backup/installer.rs, installer/rollback.rs,      *)
(* installer/reset.rs, journal.rs) with the two commands that write its    *)
(* journal (backup/apply.rs, diagnostics/reset.rs) and the startup steps   *)
(* after it that touch the same files: staging cleanup, content sweep and  *)
(* credential cleanup.                                                     *)
(*                                                                         *)
(* One action is one durable effect: a journal write, a rename, a          *)
(* deletion, a commit.  Between any two of them the process may die, and   *)
(* each of them may fail with an I/O error, having happened or not.  A     *)
(* read of what is restored may fail too, which the code takes for a       *)
(* damaged backup.                                                         *)
(*                                                                         *)
(* A Farm is named by the round that installs it; 0 is the one at first.   *)
(* What a file holds is the Farm it belongs to.  Left out: the -shm index, *)
(* which the rollback contract ignores, the log root, the snapshot and     *)
(* legacy roots, the Slicer paths and the safety backups.                  *)
(***************************************************************************)
EXTENDS Integers, FiniteSets, Sequences

CONSTANTS
    Refs,        \* credential references
    Blobs,       \* content blobs
    MaxRounds,   \* restores and resets asked for
    MaxFaults,   \* crashes, I/O errors and failed reads together
    BlobsOf,     \* [Farms -> SUBSET Blobs]: what the rows of each backup name
    RefsOf       \* [Farms -> SUBSET Refs]: what its Printers name

Farms == 0..MaxRounds

ASSUME InstallerAssumption ==
    /\ MaxRounds \in Nat /\ MaxFaults \in Nat
    /\ BlobsOf \in [Farms -> SUBSET Blobs]
    /\ RefsOf \in [Farms -> SUBSET Refs]

VARIABLES
    journal,   \* restore/journal.json
    mem,       \* the run's copy of it; NoJournal when no run is going on
    pc,        \* <<step, point>>: what the process does next
    cause,     \* why the last attempt stopped
    root,      \* the database files in the metadata root
    aside,     \* those in restore/<id>/previous/
    staging,   \* what the journal's stagingId names: candidate, blobs, media
    media,     \* the snapshots trees: live, previous, aside
    content,   \* the blob files: stored, aside
    db,        \* per Farm, what its database and trees hold
    store,     \* the credential store
    late,      \* refs stored after a journal was written, which it does not list
    before,    \* the Farm that ran when the last round was asked for
    defect,    \* the step that finds the last backup damaged
    round,     \* the last round asked for
    faults,    \* crashes and errors so far
    unread     \* reads of the last backup's files that failed

files == <<root, aside, staging, media, content>>
rest == <<db, store, late, before, defect, round>>
vars == <<journal, mem, pc, cause, files, rest, faults, unread>>

---------------------------------------------------------------------------
(* The journal                                                             *)

NoFarm == -1
NoJournal == [phase |-> "none"]
NoMarker == [from |-> -1, mediaRestored |-> FALSE, candidateCleared |-> FALSE]

NoFiles == [main |-> NoFarm, wal |-> NoFarm]
NoStaging == [candidate |-> NoFarm, blobs |-> {}, media |-> NoFarm]

Phases == {"pending", "installing", "installed", "done", "failed"}
Unfinished == {"pending", "installing", "installed"}
Waiting(j) == j.phase \in Unfinished

(* is_legal: the phase changes a journal of each kind may make.            *)
Legal(kind, from, to) ==
    <<from, to>> \in
        IF kind = "restore"
        THEN {<<"pending", "installing">>, <<"pending", "failed">>,
              <<"installing", "pending">>, <<"installing", "failed">>,
              <<"installing", "installed">>, <<"installed", "done">>}
        ELSE {<<"pending", "installing">>, <<"installing", "done">>}

SetPhase(phase) == [mem EXCEPT !.phase = phase]

(* The steps after markInstalling, in the order each kind runs them.       *)
StepsOf(kind) ==
    IF kind = "restore"
    THEN <<"moveDatabaseAside", "placeCandidate", "carryLocalState", "extractContent",
           "swapMedia", "validate", "markInstalled", "removePrevious">>
    ELSE <<"moveDatabaseAside", "moveRootsAside", "createFreshDatabase",
           "deleteCredentials", "removePrevious">>
Steps(kind) == {StepsOf(kind)[i] : i \in DOMAIN StepsOf(kind)}
Place(kind, step) ==
    IF step \in Steps(kind)
    THEN CHOOSE i \in DOMAIN StepsOf(kind) : StepsOf(kind)[i] = step
    ELSE 0
StepAt(kind, i) ==
    IF i \in DOMAIN StepsOf(kind) THEN <<StepsOf(kind)[i], 0>> ELSE <<"markDone", 0>>
Next1(step) == StepAt(mem.kind, Place(mem.kind, step) + 1)

---------------------------------------------------------------------------
(* Faults                                                                  *)

Off == <<"off", 0>>
Stopped == <<"stopped", 0>>
Loop == <<"loop", 0>>
Opening == <<"opening", 0>>
Up == <<"up", 0>>
Down == {Off, Stopped}

Bounded == faults + unread < MaxFaults
Faulty == Bounded /\ faults' = faults + 1

(* An error in steps 3 to 9 of a restore rolls back in the same run; any   *)
(* other stops startup, and the run's copy of the journal is gone.         *)
RollsBack == mem.kind = "restore" /\ Place("restore", pc[1]) \in 1..7
ErrorTo(copy) ==
    IF RollsBack
    THEN pc' = Loop /\ cause' = "io" /\ mem' = copy
    ELSE pc' = Stopped /\ cause' = "crash" /\ mem' = NoJournal

(* A durable effect happens, or fails before or after it did.              *)
Do(effect, next) ==
    /\ UNCHANGED <<journal, late, before, defect, unread, round>>
    /\ \/ effect /\ pc' = next /\ UNCHANGED <<mem, cause, faults>>
       \/ effect /\ Faulty /\ ErrorTo(mem)
       \/ UNCHANGED <<files, db, store>> /\ Faulty /\ ErrorTo(mem)
Move(effect, next) == Do(effect /\ UNCHANGED <<db, store>>, next)

(* An operation finds the files in a state it refuses to go on from.       *)
Fails == ErrorTo(mem) /\ UNCHANGED <<journal, files, rest, faults, unread>>

(* journal::write: a temporary file renamed over the journal, then a sync  *)
(* of the directory, whose failure leaves the new journal on disk.         *)
Save(copy, next) ==
    /\ UNCHANGED <<files, rest, unread>>
    /\ \/ journal' = copy /\ mem' = copy /\ pc' = next /\ UNCHANGED <<cause, faults>>
       \/ journal' \in {journal, copy} /\ Faulty /\ ErrorTo(copy)

Goes(next) == pc' = next /\ UNCHANGED <<journal, mem, cause, files, rest, faults, unread>>

(* A verification failed: the backup is at fault, not the disk.            *)
Refuse == /\ pc' = Loop /\ cause' = "invalid"
          /\ UNCHANGED <<journal, mem, files, rest, faults, unread>>

(* hash_file and load_staging answer None and false for a file that cannot *)
(* be read, as for one that is not there.                                  *)
Misread(next, why) ==
    /\ Bounded /\ unread' = unread + 1
    /\ pc' = next /\ cause' = why
    /\ UNCHANGED <<journal, mem, files, rest, faults>>

At(step, point) == pc = <<step, point>>
Database(now, previous) == /\ root' = now /\ aside' = previous
                           /\ UNCHANGED <<staging, media, content>>
Root(file, farm) == Database([root EXCEPT ![file] = farm], aside)
Trees(now, staged) == /\ media' = now /\ staging' = [staging EXCEPT !.media = staged]
                      /\ UNCHANGED <<root, aside, content>>

---------------------------------------------------------------------------
(* While farm3d runs                                                       *)

Live == root.main
LocalRefs == db[Live].used \cup db[Live].auto \cup db[Live].orphan

\* Mutant: a reset lists only what Printers use, and the queued rows go.
ForgetsQueued(kind, candidateRefs) ==
    [id |-> round + 1, kind |-> kind, phase |-> "pending", step |-> "none",
     attempts |-> 0, swap |-> "none", rollback |-> NoMarker, failure |-> "none",
     carry |-> IF kind = "restore" THEN db[Live].auto \ candidateRefs ELSE {},
     orphans |-> db[Live].used \ candidateRefs]

NewJournal(kind, candidateRefs) ==
    [id |-> round + 1, kind |-> kind, phase |-> "pending", step |-> "none",
     attempts |-> 0, swap |-> "none", rollback |-> NoMarker, failure |-> "none",
     carry |-> IF kind = "restore" THEN db[Live].auto \ candidateRefs ELSE {},
     orphans |-> LocalRefs \ candidateRefs]

(* run_apply_restore and reset_farm's tier (c): a finished journal is      *)
(* acknowledged, a waiting one refuses; the journal carries what the live  *)
(* Farm says about credentials.  Both then request the restart.            *)
Ask(kind) ==
    /\ pc = Up /\ ~Waiting(journal) /\ round < MaxRounds
    /\ LET k == round + 1
           used == IF kind = "restore" THEN RefsOf[k] ELSE {}
           blobs == IF kind = "restore" THEN BlobsOf[k] ELSE {}
       IN /\ round' = k
          /\ journal' = NewJournal(kind, used)
          /\ db' = [db EXCEPT ![k] = [used |-> used, auto |-> {}, orphan |-> {},
                                      blobs |-> blobs, tree |-> kind = "restore"]]
          /\ staging' = IF kind = "restore"
                        THEN [candidate |-> k, blobs |-> blobs, media |-> k]
                        ELSE staging
    /\ before' = Live /\ late' = late \ LocalRefs
    /\ defect' \in IF kind = "restore" THEN {"none", "extractContent", "swapMedia", "validate"}
                 ELSE {"none"}
    /\ unread' = 0
    /\ UNCHANGED <<mem, pc, cause, root, aside, media, content, store, faults>>

(* acknowledge_restore_status: the finished journal goes with its          *)
(* directory.                                                              *)
Acknowledge ==
    /\ pc = Up /\ journal # NoJournal /\ ~Waiting(journal)
    /\ journal' = NoJournal /\ Database(root, NoFiles) /\ before' = Live
    /\ UNCHANGED <<mem, pc, cause, db, store, late, defect, unread, round, faults>>

(* Bound: credentials change while a restart is awaited; those that waited *)
(* for cleanup before are in Init.                                         *)
Changing == pc = Up /\ Waiting(journal)

(* set_connection and its like go on while the restart is awaited.         *)
AddCredential(r) ==
    /\ Changing /\ r \notin store /\ r \notin LocalRefs
    /\ store' = store \cup {r}
    /\ db' = [db EXCEPT ![Live].used = @ \cup {r}]
    /\ late' = IF Waiting(journal) THEN late \cup {r} ELSE late
    /\ UNCHANGED <<journal, mem, pc, cause, files, before, defect, unread, round, faults>>

(* A Printer is deleted and its credential could not be.                   *)
QueueCredential(r) ==
    /\ Changing /\ r \in db[Live].used
    /\ db' = [db EXCEPT ![Live].used = @ \ {r}, ![Live].auto = @ \cup {r}]
    /\ UNCHANGED <<journal, mem, pc, cause, files, store, late, before, defect, unread, round, faults>>

(* The process ends: restart, exit or crash; a -wal may stay behind.       *)
Quit ==
    /\ pc = Up
    /\ pc' = Off
    /\ \E wal \in {NoFarm, Live} : Root("wal", wal)
    /\ UNCHANGED <<journal, mem, cause, rest, faults, unread>>

Crash ==
    /\ pc \notin Down \cup {Up}
    /\ Faulty
    /\ pc' = Off /\ mem' = NoJournal
    /\ UNCHANGED <<journal, cause, files, rest, unread>>
---------------------------------------------------------------------------
(* A run of the installer                                                  *)

(* open_storage and run: nothing to do without a waiting journal; a        *)
(* restore enters its loop, a reset resumes at the recorded step.          *)
Start ==
    /\ pc \in Down
    /\ IF ~Waiting(journal)
       THEN pc' = Opening /\ UNCHANGED <<mem, cause>>
       ELSE /\ mem' = journal /\ cause' = "crash"
            /\ pc' = IF journal.kind = "restore" THEN Loop
                     ELSE IF journal.phase = "pending" THEN <<"markInstalling", 0>>
                     ELSE IF Place("reset", journal.step) = 0 THEN StepAt("reset", 1)
                     ELSE <<journal.step, 0>>
    /\ UNCHANGED <<journal, files, rest, faults, unread>>

(* Restore::run: one turn of its loop.                                     *)
Resume ==
    /\ pc = Loop
    /\ Goes(IF mem.phase = "installing" \/ mem.rollback # NoMarker THEN <<"rollback", 0>>
            ELSE IF mem.phase = "pending" THEN <<"recheckBlockers", 0>>
            ELSE <<"removePrevious", 0>>)

Complete == staging.candidate # NoFarm /\ staging.media # NoFarm
FailBeforeInstall(code) ==
    Save([SetPhase("failed") EXCEPT !.failure = code], <<"discard", 0>>)

RecheckBlockers ==
    \/ At("recheckBlockers", 0)
          /\ Save([mem EXCEPT !.step = "recheckBlockers"], <<"recheckBlockers", 1>>)
    \/ At("recheckBlockers", 1)
          /\ FailBeforeInstall(IF Complete THEN "blocked" ELSE "stagingExpired")
    \/ At("recheckBlockers", 1) /\ Misread(<<"recheckBlockers", 2>>, cause)
    \/ At("recheckBlockers", 2) /\ FailBeforeInstall("stagingExpired")
    \/ At("recheckBlockers", 1) /\ Complete
          /\ Move(UNCHANGED files, <<"markInstalling", 0>>)

MarkInstalling ==
    /\ At("markInstalling", 0)
    /\ Save([SetPhase("installing") EXCEPT !.attempts = @ + 1, !.step = "markInstalling"],
            StepAt(mem.kind, 1))

(* Every step is recorded before it starts.                                *)
Record ==
    /\ mem # NoJournal /\ pc[1] \in Steps(mem.kind) /\ pc[2] = 0
    /\ Save([mem EXCEPT !.step = pc[1]], <<pc[1], 1>>)

MoveDatabaseAside ==
    \E file \in {"main", "wal"} :
        /\ At("moveDatabaseAside", IF file = "main" THEN 1 ELSE 2)
        /\ Move(IF root[file] = NoFarm THEN UNCHANGED files
                ELSE Database([root EXCEPT ![file] = NoFarm],
                              [aside EXCEPT ![file] = root[file]]),
                IF file = "main" THEN <<"moveDatabaseAside", 2>>
                                 ELSE Next1("moveDatabaseAside"))

(* The candidate is copied to a partial file and renamed over the main one;*)
(* the staged one stays, so a retry starts from it again.                  *)
PlaceCandidate ==
    \/ At("placeCandidate", 1) /\ Move(Root("partial", staging.candidate), <<"placeCandidate", 2>>)
    \/ /\ At("placeCandidate", 2)
       /\ Do(/\ Database([root EXCEPT !.main = root.partial, !.partial = NoFarm], aside)
             /\ db' = [db EXCEPT ![mem.id].auto = {}, ![mem.id].orphan = {}]
             /\ UNCHANGED store,
             Next1("placeCandidate"))

(* carry_local_state: one transaction; a closed database leaves no -wal.   *)
CarryLocalState ==
    \/ At("carryLocalState", 1) /\ Move(Root("wal", mem.id), <<"carryLocalState", 2>>)
    \/ /\ At("carryLocalState", 2)
       /\ Do(/\ db' = [db EXCEPT ![mem.id].auto = @ \cup mem.carry,
                                 ![mem.id].orphan = @ \cup (mem.orphans \ mem.carry)]
             /\ UNCHANGED <<files, store>>,
             <<"carryLocalState", 3>>)
    \/ At("carryLocalState", 3) /\ Move(Root("wal", NoFarm), Next1("carryLocalState"))

(* extract_content: a blob the store lacks is verified and renamed in.     *)
ExtractContent ==
    LET missing == db[mem.id].blobs \ content.stored
    IN \/ At("extractContent", 1) /\ missing = {} /\ Goes(Next1("extractContent"))
       \/ /\ At("extractContent", 1) /\ db[mem.id].blobs # {}
          /\ Misread(Loop, "invalid")
       \/ /\ At("extractContent", 1)
          /\ \E b \in missing :
                IF b \notin staging.blobs \/ defect = "extractContent" THEN Refuse
                ELSE Move(/\ content' = [content EXCEPT !.stored = @ \cup {b}]
                          /\ staging' = [staging EXCEPT !.blobs = @ \ {b}]
                          /\ UNCHANGED <<root, aside, media>>,
                          <<"extractContent", 1>>)

(* swap_media: the images are verified, then whether a live tree existed   *)
(* is recorded before it moves.                                            *)
SwapMedia ==
    \/ At("swapMedia", 1) /\ Misread(Loop, "invalid")
    \/ /\ At("swapMedia", 1)
       /\ IF staging.media = NoFarm \/ defect = "swapMedia" THEN Refuse
          ELSE IF media.previous # NoFarm THEN Fails
          ELSE Save([mem EXCEPT !.swap = IF media.live = NoFarm THEN "absent" ELSE "existed"],
                    <<"swapMedia", 2>>)
    \/ /\ At("swapMedia", 2)
       /\ IF mem.swap = "absent" THEN Goes(<<"swapMedia", 3>>)
          ELSE Move(Trees([media EXCEPT !.previous = media.live, !.live = NoFarm], staging.media),
                    <<"swapMedia", 3>>)
    \/ At("swapMedia", 3)
          /\ Move(Trees([media EXCEPT !.live = staging.media], NoFarm), Next1("swapMedia"))

(* validate: the database opens, its rows and the files they name agree,   *)
(* and every carried row is there.                                         *)
Valid == LET f == db[mem.id]
         IN /\ defect # "validate"
            /\ root.main = mem.id /\ media.live = mem.id
            /\ f.blobs \subseteq content.stored
            /\ mem.carry \cup mem.orphans \subseteq f.auto \cup f.orphan
Validate ==
    \/ At("validate", 1) /\ Move(Root("wal", mem.id), <<"validate", 2>>)
    \/ At("validate", 2) /\ Misread(Loop, "invalid")
    \/ At("validate", 2) /\ ~Valid /\ Refuse
    \/ At("validate", 2) /\ Valid /\ Move(Root("wal", NoFarm), Next1("validate"))

(* The phase is set in the run's copy first: when this write fails, the    *)
(* loop finds the copy installed and rolls forward.                        *)
MarkInstalled ==
    At("markInstalled", 1) /\ Save(SetPhase("installed"), Next1("markInstalled"))

(* roll_forward and the reset's last step.                                 *)
RemovePrevious ==
    \/ At("removePrevious", 1) /\ Move(Database(root, NoFiles), <<"removePrevious", 2>>)
    \/ /\ At("removePrevious", 2)
       /\ Move(/\ staging' = IF mem.kind = "restore" THEN NoStaging ELSE staging
               /\ media' = [media EXCEPT !.previous = NoFarm, !.aside = NoFarm]
               /\ content' = [content EXCEPT !.aside = {}]
               /\ UNCHANGED <<root, aside>>,
               <<"markDone", 0>>)
MarkDone ==
    At("markDone", 0) /\ Save([SetPhase("done") EXCEPT !.step = "markDone"], Opening)
---------------------------------------------------------------------------
(* The rollback                                                            *)

Mark(m) == [mem EXCEPT !.rollback = m]
Marker == mem.rollback

RollBack ==
    /\ At("rollback", 0)
    /\ IF Marker = NoMarker
       THEN Save(Mark([NoMarker EXCEPT !.from = Place("restore", mem.step)]), <<"restoreMedia", 0>>)
       ELSE Goes(<<"restoreMedia", 0>>)

\* Mutant: the staged images are deleted instead of put back.
DropsTree ==
    \/ At("restoreMedia", 0) /\ Marker.mediaRestored /\ Goes(<<"clearCandidate", 0>>)
    \/ /\ At("restoreMedia", 0) /\ ~Marker.mediaRestored
       /\ IF /\ media.live # NoFarm
             /\ \/ mem.swap = "absent"
                \/ mem.swap = "existed" /\ media.previous # NoFarm
          THEN Move(Trees([media EXCEPT !.live = NoFarm], NoFarm), <<"restoreMedia", 1>>)
          ELSE Goes(<<"restoreMedia", 1>>)
    \/ /\ At("restoreMedia", 1)
       /\ IF mem.swap = "existed" /\ media.previous # NoFarm
          THEN Move(Trees([media EXCEPT !.live = media.previous, !.previous = NoFarm],
                          staging.media), <<"restoreMedia", 2>>)
          ELSE Goes(<<"restoreMedia", 2>>)
    \/ At("restoreMedia", 2)
          /\ Save([Mark([Marker EXCEPT !.mediaRestored = TRUE]) EXCEPT !.swap = "none"],
                  <<"clearCandidate", 0>>)

(* restore_media: with previous-snapshots there, a live tree can only be   *)
(* the staged one; where none existed, any live tree can only be it.       *)
RestoreMedia ==
    \/ At("restoreMedia", 0) /\ Marker.mediaRestored /\ Goes(<<"clearCandidate", 0>>)
    \/ /\ At("restoreMedia", 0) /\ ~Marker.mediaRestored
       /\ IF /\ media.live # NoFarm
             /\ \/ mem.swap = "absent"
                \/ mem.swap = "existed" /\ media.previous # NoFarm
          THEN Move(Trees([media EXCEPT !.live = NoFarm], media.live), <<"restoreMedia", 1>>)
          ELSE Goes(<<"restoreMedia", 1>>)
    \/ /\ At("restoreMedia", 1)
       /\ IF mem.swap = "existed" /\ media.previous # NoFarm
          THEN Move(Trees([media EXCEPT !.live = media.previous, !.previous = NoFarm],
                          staging.media), <<"restoreMedia", 2>>)
          ELSE Goes(<<"restoreMedia", 2>>)
    \/ At("restoreMedia", 2)
          /\ Save([Mark([Marker EXCEPT !.mediaRestored = TRUE]) EXCEPT !.swap = "none"],
                  <<"clearCandidate", 0>>)

(* From placeCandidate on, what is in the root is the candidate; before,   *)
(* it is original.                                                         *)
\* Mutant: one step early, where the originals may still be in the root.
ClearsEarly == Place("restore", "moveDatabaseAside")

ClearsFrom == Place("restore", "placeCandidate")
\* Mutant: the candidate's -wal stays in the root.
LeavesLog ==
    \/ At("clearCandidate", 0) /\ Marker.candidateCleared /\ Goes(<<"moveBack", 0>>)
    \/ At("clearCandidate", 0) /\ ~Marker.candidateCleared
          /\ Goes(<<"clearCandidate", IF Marker.from >= ClearsFrom THEN 1 ELSE 4>>)
    \/ \E i \in {1, 3} :
          /\ At("clearCandidate", i)
          /\ Move(Root(<<"main", "wal", "partial">>[i], NoFarm), <<"clearCandidate", IF i = 1 THEN 3 ELSE 4>>)
    \/ At("clearCandidate", 4)
          /\ Save(Mark([Marker EXCEPT !.candidateCleared = TRUE]), <<"moveBack", 0>>)

ClearCandidate ==
    \/ At("clearCandidate", 0) /\ Marker.candidateCleared /\ Goes(<<"moveBack", 0>>)
    \/ At("clearCandidate", 0) /\ ~Marker.candidateCleared
          /\ Goes(<<"clearCandidate", IF Marker.from >= ClearsFrom THEN 1 ELSE 4>>)
    \/ \E i \in 1..3 :
          /\ At("clearCandidate", i)
          /\ Move(Root(<<"main", "wal", "partial">>[i], NoFarm), <<"clearCandidate", i + 1>>)
    \/ At("clearCandidate", 4)
          /\ Save(Mark([Marker EXCEPT !.candidateCleared = TRUE]), <<"moveBack", 0>>)

MoveBack ==
    \E i \in 0..1 :
        LET file == <<"main", "wal">>[i + 1]
        IN /\ At("moveBack", i)
           /\ Move(IF aside[file] = NoFarm THEN UNCHANGED files
                   ELSE Database([root EXCEPT ![file] = aside[file]],
                                 [aside EXCEPT ![file] = NoFarm]),
                   <<"moveBack", i + 1>>)

(* finish_rollback: a damaged backup fails at once, anything else after    *)
(* the second attempt.                                                     *)
\* Mutants: a single attempt; the marker of
\* the finished rollback stays for the next attempt.
OneAttempt == 1
KeepsMarker ==
    /\ At("moveBack", 2)
    /\ IF cause # "invalid" /\ mem.attempts < 2
       THEN Save(SetPhase("pending"), Loop)
       ELSE Save([SetPhase("failed") EXCEPT !.rollback = NoMarker,
                     !.failure = IF cause = "invalid" THEN "backupInvalid" ELSE "restoreFailed"],
                 <<"discard", 0>>)

MaxAttempts == 2
FinishRollback ==
    /\ At("moveBack", 2)
    /\ IF cause # "invalid" /\ mem.attempts < MaxAttempts
       THEN Save([SetPhase("pending") EXCEPT !.rollback = NoMarker], Loop)
       ELSE Save([SetPhase("failed") EXCEPT !.rollback = NoMarker,
                     !.failure = IF cause = "invalid" THEN "backupInvalid" ELSE "restoreFailed"],
                 <<"discard", 0>>)

(* StagingLayout::remove, best effort.                                     *)
Discard ==
    /\ At("discard", 0)
    /\ staging' \in {staging, NoStaging} /\ pc' = Opening
    /\ UNCHANGED <<journal, mem, cause, root, aside, media, content, rest, faults, unread>>
---------------------------------------------------------------------------
(* The reset's own steps                                                   *)

(* move_roots_aside: an aside that exists says the root was moved already. *)
MoveRootsAside ==
    \/ /\ At("moveRootsAside", 1)
       /\ Move(/\ content' = IF content.moved = mem.id THEN content
                             ELSE [stored |-> {}, aside |-> content.stored, moved |-> mem.id]
               /\ UNCHANGED <<root, aside, staging, media>>,
               <<"moveRootsAside", 2>>)
    \/ /\ At("moveRootsAside", 2)
       /\ Move(Trees(IF media.moved = mem.id THEN media
                     ELSE [media EXCEPT !.live = NoFarm, !.aside = media.live, !.moved = mem.id],
                     staging.media), Next1("moveRootsAside"))

(* create_fresh_database: what is in the root is a partial fresh one.      *)
CreateFreshDatabase ==
    \/ At("createFreshDatabase", 1) /\ Move(Root("main", NoFarm), <<"createFreshDatabase", 2>>)
    \/ At("createFreshDatabase", 2) /\ Move(Root("wal", NoFarm), <<"createFreshDatabase", 3>>)
    \/ At("createFreshDatabase", 3)
          /\ Move(Database([root EXCEPT !.main = mem.id, !.wal = mem.id], aside),
                  <<"createFreshDatabase", 4>>)
    \/ At("createFreshDatabase", 4) /\ Move(Root("wal", NoFarm), Next1("createFreshDatabase"))

(* delete_credentials: what could not be deleted is queued.                *)
DeleteCredentials ==
    \/ /\ At("deleteCredentials", 1)
       /\ Do(/\ \E gone \in SUBSET (mem.orphans \cap store) : store' = store \ gone
             /\ UNCHANGED <<files, db>>,
             <<"deleteCredentials", 2>>)
    \/ /\ At("deleteCredentials", 2)
       /\ Do(/\ db' = [db EXCEPT ![mem.id].auto = @ \cup (mem.orphans \cap store)]
             /\ UNCHANGED <<files, store>>,
             Next1("deleteCredentials"))
---------------------------------------------------------------------------
(* Storage::open and the startup steps after it: the staging no journal    *)
(* protects goes, then the blobs no row names, then the credentials whose  *)
(* cleanup is automatic and that no Printer uses.  One that cannot be      *)
(* deleted stops startup.                                                  *)
Swept == content.stored \cap db[Live].blobs
CleanupDue == db[Live].auto \ db[Live].used
Open ==
    /\ pc = Opening
    /\ mem' = NoJournal /\ staging' = NoStaging
    /\ root' = [root EXCEPT !.wal = NoFarm]
    /\ content' = [content EXCEPT !.stored = Swept]
    /\ \E gone \in SUBSET CleanupDue :
          /\ store' = store \ gone
          /\ db' = [db EXCEPT ![Live].auto = @ \ gone]
          /\ \/ gone = CleanupDue /\ pc' = Up /\ UNCHANGED faults
             \/ gone # CleanupDue /\ pc' = Stopped /\ Faulty
    /\ UNCHANGED <<journal, cause, aside, media, late, before, defect, unread, round>>
---------------------------------------------------------------------------
Init ==
    /\ journal = NoJournal /\ mem = NoJournal /\ pc = Up /\ cause = "crash"
    /\ \E wal \in {NoFarm, 0}, tree \in BOOLEAN, queued \in SUBSET (Refs \ RefsOf[0]) :
          /\ root = [main |-> 0, wal |-> wal, partial |-> NoFarm]
          /\ media = [live |-> IF tree THEN 0 ELSE NoFarm, previous |-> NoFarm,
                      aside |-> NoFarm, moved |-> 0]
          /\ db = [f \in Farms |-> [used |-> RefsOf[f], auto |-> IF f = 0 THEN queued ELSE {},
                                    orphan |-> {}, blobs |-> BlobsOf[f], tree |-> tree]]
          /\ store = RefsOf[0] \cup queued
    /\ aside = NoFiles /\ staging = NoStaging
    /\ content = [stored |-> BlobsOf[0], aside |-> {}, moved |-> 0]
    /\ late = {} /\ before = 0 /\ defect = "none" /\ round = 0 /\ faults = 0 /\ unread = 0

Step ==
    \/ Start \/ Resume \/ RecheckBlockers \/ MarkInstalling \/ Record
    \/ MoveDatabaseAside \/ PlaceCandidate \/ CarryLocalState \/ ExtractContent
    \/ SwapMedia \/ Validate \/ MarkInstalled \/ RemovePrevious \/ MarkDone
    \/ RollBack \/ RestoreMedia \/ ClearCandidate \/ MoveBack \/ FinishRollback \/ Discard
    \/ MoveRootsAside \/ CreateFreshDatabase \/ DeleteCredentials \/ Open

Next ==
    \/ \E kind \in {"restore", "reset"} : Ask(kind)
    \/ \E r \in Refs : AddCredential(r) \/ QueueCredential(r)
    \/ Acknowledge \/ Quit \/ Crash \/ Step

(* The restart is requested when a journal is written; farm3d is started   *)
(* again after a stop or a crash.                                          *)
Fairness == WF_vars(Step) /\ WF_vars(Waiting(journal) /\ Quit)
Spec == Init /\ [][Next]_vars /\ Fairness
---------------------------------------------------------------------------
(* What the installer promises                                             *)

TypeOK ==
    /\ journal # NoJournal => journal.phase \in Phases /\ journal.attempts \in 0..MaxAttempts
    /\ mem # NoJournal => mem.phase \in Phases
    /\ cause \in {"crash", "io", "invalid"}
    /\ root \in [{"main", "wal", "partial"} -> Farms \cup {NoFarm}]
    /\ aside \in [{"main", "wal"} -> Farms \cup {NoFarm}]
    /\ staging.blobs \subseteq Blobs /\ content.stored \subseteq Blobs
    /\ store \subseteq Refs /\ late \subseteq Refs
    /\ round \in Farms /\ before \in Farms /\ faults \in 0..MaxFaults /\ unread \in 0..MaxFaults

(* The Farm a start must find: the one asked for once its journal is done, *)
(* the one before it when it failed.                                       *)
Owed == IF journal.phase \in {"none", "pending", "failed"} THEN before ELSE round

(* Whenever farm3d opens its storage, the database, its write-ahead log,   *)
(* the camera images and the content all belong to one Farm, and it is the *)
(* restored one after a finished restore, the one before after a failed    *)
(* one, an empty one after a reset.  Installer steps, rollback and retry.  *)
OldOrNew ==
    pc \in {Opening, Up} =>
        /\ root.main = Owed /\ root.wal \in {NoFarm, Owed}
        /\ media.live = IF db[Owed].tree THEN Owed ELSE NoFarm
        /\ db[Owed].blobs \subseteq content.stored

(* A write-ahead log never lies beside another Farm's database, in the     *)
(* root or aside, and no database is opened while its own log is aside.    *)
LogStaysWithItsDatabase ==
    /\ (root.wal # NoFarm /\ root.main # NoFarm) => root.wal = root.main
    /\ (aside.wal # NoFarm /\ aside.main # NoFarm) => aside.wal = aside.main
    /\ pc[1] \in {"opening", "up", "carryLocalState", "validate"} => aside.wal # root.main

FarmIsWhole == OldOrNew /\ LogStaysWithItsDatabase

(* Every stored credential is used by a Printer of the running Farm or     *)
(* listed for cleanup in its database; those stored between the journal    *)
(* and the restart are the exception.                                      *)
CredentialsAccounted ==
    pc = Up => store \subseteq LocalRefs \cup late

(* A restore is given up for cause only: after attempts that crashes or I/O*)
(* errors ended twice, or because its backup is damaged or a file of it    *)
(* could not be read.  What an earlier attempt extracted, swapped or       *)
(* carried, and its rollback put back, never counts against the next.      *)
GivenUpForCause ==
    journal.phase = "failed" =>
        /\ journal.failure = "restoreFailed" => faults >= 2
        /\ journal.failure = "backupInvalid" => defect # "none" \/ unread > 0
        /\ journal.failure = "stagingExpired" => unread > 0

(* Each journal reaches an end.                                            *)
Settles == Waiting(journal) ~> ~Waiting(journal)
=============================================================================

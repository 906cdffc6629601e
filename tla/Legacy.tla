------------------------------- MODULE Legacy --------------------------------
(***************************************************************************)
(* The import of the JSON files of earlier versions                        *)
(* (src/src-tauri/src/persistence/legacy.rs), which every start goes       *)
(* through: settings.json and printers.json are staged, imported in one    *)
(* transaction, archived and taken out of the metadata root.               *)
(*                                                                         *)
(* A text stands for its hash, and Absent for no file.  A file is written  *)
(* atomically; a directory is removed file by file.                        *)
(***************************************************************************)
EXTENDS Naturals, Sequences, SequencesExt

CONSTANTS
    Settings, Printers,   \* the two files
    Texts,                \* what a file may hold
    Broken,               \* those of Texts that do not parse
    Newer,                \* those of Texts of a later schema version
    Absent,
    Chances               \* bounds: edits of the files, faults, starts

ASSUME LegacyAssumption ==
    /\ Settings # Printers
    /\ Broken \subseteq Texts /\ Newer \subseteq Texts \ Broken /\ Absent \notin Texts
    /\ Chances \subseteq [edits : Nat, faults : Nat, starts : Nat]

LegacyFiles == {Settings, Printers}

VARIABLES
    place,        \* the files in the metadata root
    dirs,         \* directories in legacy/.staging, in the order of their names
    archive,      \* files in legacy/
    completed,    \* whether legacy_imports is filled
    imported,     \* the texts imported
    warned,       \* migration_warnings
    migration,    \* the run of migrate_legacy
    taken,        \* texts taken out of the metadata root (history)
    calm,         \* no fault and no edit since the run began (history)
    chance        \* what is left of the bounds

legacy == <<place, dirs, archive, completed, imported, warned, migration, taken, calm, chance>>

NoTexts == [n \in LegacyFiles |-> Absent]
NoRun(pc) == [pc |-> pc, read |-> NoTexts, from |-> NoTexts, dir |-> 0, todo |-> <<>>, plan |-> <<>>,
              writes |-> FALSE, end |-> {}]
Chance(what) == chance[what] > 0 /\ chance' = [chance EXCEPT ![what] = @ - 1]
Fault == Chance("faults") /\ calm' = FALSE
Warning(code, n, text) == [code |-> code, file |-> n, text |-> text]
Archived(n, kind, text) == [file |-> n, kind |-> kind, text |-> text]
---------------------------------------------------------------------------
(* Staging                                                                 *)

\* Mutant: any complete directory will do.
ReusesAny(want) ==
    LET hits == {i \in DOMAIN dirs : dirs[i].manifest /\ dirs[i].file = dirs[i].of}
    IN IF hits = {} THEN 0 ELSE CHOOSE i \in hits : TRUE

(* reusable_staging: which directory, or 0.  The search ends at one that   *)
(* has no manifest, and at one that matches and lacks a file.              *)
Reusable(want) ==
    LET ends == {i \in DOMAIN dirs : ~dirs[i].manifest \/ dirs[i].of = want}
        hits == {i \in ends : /\ dirs[i].manifest /\ dirs[i].file = want
                              /\ \A j \in ends : i <= j}
    IN IF hits = {} THEN 0 ELSE CHOOSE i \in hits : TRUE

\* What is left of a directory whose removal stopped half way.
Partly(d) == {p \in [of : {d.of}, file : [LegacyFiles -> Texts \cup {Absent}], manifest : {FALSE, d.manifest}] :
                \A n \in LegacyFiles : p.file[n] \in {Absent, d.file[n]}}

StartLegacy ==
    /\ migration.pc \in {"off", "done"} /\ Chance("starts")
    /\ calm' = TRUE
    /\ LET i == IF completed THEN Reusable(imported) ELSE 0
       IN migration' = IF completed
                       THEN [NoRun("archive") EXCEPT !.dir = i, !.from = imported,
                                                        !.todo = IF i # 0 THEN <<Settings, Printers>> ELSE <<Printers, Settings>>]
                       ELSE NoRun("settings")
    /\ UNCHANGED <<place, dirs, archive, completed, imported, warned, taken>>

ReadFile(n) ==
    /\ migration.pc = IF n = Settings THEN "settings" ELSE "printers"
    /\ migration' = [migration EXCEPT !.pc = IF n = Settings THEN "printers" ELSE "stage", !.read[n] = place[n]]
    /\ UNCHANGED <<place, dirs, archive, completed, imported, warned, taken, calm, chance>>

(* stage_inputs: a matching directory is reused, others are removed as far *)
(* as they can be, and a new one begins.                                   *)
StageInputs ==
    LET want == migration.read  i == Reusable(want)
        new == [of |-> want, file |-> NoTexts, manifest |-> FALSE]
    IN /\ migration.pc = "stage"
       /\ \/ /\ i # 0
             /\ migration' = [migration EXCEPT !.pc = "check", !.dir = i, !.from = dirs[i].of]
             /\ UNCHANGED <<dirs, calm, chance>>
          \/ /\ i = 0
             /\ dirs' = <<new>>
             /\ migration' = [migration EXCEPT !.pc = "copy", !.dir = 1, !.from = want]
             /\ UNCHANGED <<calm, chance>>
          \/ /\ i = 0 /\ dirs # <<>> /\ Fault
             /\ \E old \in Partly(Head(dirs)), j \in {1, 2} :
                   /\ dirs' = IF j = 1 THEN <<new, old>> ELSE <<old, new>>
                   /\ migration' = [migration EXCEPT !.pc = "copy", !.dir = j, !.from = want]
       /\ UNCHANGED <<place, archive, completed, imported, warned, taken>>

(* stage_source for each, and the manifest when both are there.            *)
StageFile ==
    LET d == dirs[migration.dir]
        left == {n \in LegacyFiles : d.file[n] # d.of[n]}
    IN /\ migration.pc = "copy"
       /\ IF left = {} THEN /\ dirs' = [dirs EXCEPT ![migration.dir].manifest = TRUE]
                            /\ migration' = [migration EXCEPT !.pc = "check"]
          ELSE LET n == IF Settings \in left THEN Settings ELSE Printers
               IN dirs' = [dirs EXCEPT ![migration.dir].file[n] = d.of[n]] /\ UNCHANGED migration
       /\ UNCHANGED <<place, archive, completed, imported, warned, taken, calm, chance>>

(* migrate_legacy: broken settings become the defaults; anything else that *)
(* cannot be read stops the start.                                         *)
Stops(from) == from[Settings] \in Newer \/ from[Printers] \in Broken \cup Newer
CheckInputs ==
    /\ migration.pc = "check"
    /\ IF Stops(migration.from)
       THEN /\ migration' = NoRun("off")
            /\ warned' = warned \cup IF migration.from[Settings] \notin Newer /\ migration.from[Printers] \in Broken
                                     THEN {Warning("blocked", Printers, migration.from[Printers])} ELSE {}
       ELSE migration' = [migration EXCEPT !.pc = "commit"] /\ UNCHANGED warned
    /\ UNCHANGED <<place, dirs, archive, completed, imported, taken, calm, chance>>

CommitImport ==
    /\ migration.pc = "commit"
    /\ completed' = TRUE /\ imported' = migration.from
    /\ warned' = warned \cup IF migration.from[Settings] \in Broken
                             THEN {Warning("defaulted", Settings, migration.from[Settings])} ELSE {}
    /\ migration' = [migration EXCEPT !.pc = "archive", !.todo = <<Settings, Printers>>]
    /\ UNCHANGED <<place, dirs, archive, taken, calm, chance>>

\* An error before the import is in: the start fails.
StartFails ==
    /\ migration.pc \in {"settings", "printers", "stage", "copy", "commit"} /\ Fault
    /\ migration' = NoRun("off")
    /\ UNCHANGED <<place, dirs, archive, completed, imported, warned, taken>>
---------------------------------------------------------------------------
(* Archival                                                                *)

Item(kind, text, out) == [kind |-> kind, text |-> text, out |-> out]

\* Mutant: what was imported is not archived beside what replaced it.
ReplacedOnly(from, current) ==
    CASE from # Absent /\ current # Absent -> <<Item(IF current = from THEN "migrated" ELSE "changed", current, TRUE)>>
      [] from # Absent /\ current = Absent -> <<Item("migrated", from, FALSE)>>
      [] from = Absent /\ current # Absent -> <<Item("ignored", current, TRUE)>>
      [] OTHER -> <<>>

(* finalize_staged_import: what to archive, and whether to take it out.    *)
StagedPlan(from, current) ==
    CASE from # Absent /\ current = from -> <<Item("migrated", from, TRUE)>>
      [] from # Absent /\ current \notin {from, Absent} ->
            <<Item("migrated", from, FALSE), Item("changed", current, TRUE)>>
      [] from # Absent /\ current = Absent -> <<Item("migrated", from, FALSE)>>
      [] from = Absent /\ current # Absent -> <<Item("ignored", current, TRUE)>>
      [] OTHER -> <<>>

StagedWarnings(n, from, current) ==
    CASE from # Absent /\ current \notin {from, Absent} -> {Warning("changed", n, from)}
      [] from = Absent /\ current # Absent -> {Warning("ignored", n, current)}
      [] OTHER -> {}

(* resume_archival without a directory to go by.                           *)
PlainPlan(from, current) ==
    IF current = Absent THEN <<>>
    ELSE <<Item(IF from = Absent THEN "ignored" ELSE IF from = current THEN "migrated" ELSE "changed",
                current, TRUE)>>
PlainWarnings(n, from, current) ==
    IF current = Absent /\ from # Absent THEN {Warning("incomplete", n, from)} ELSE {}

PlanFile ==
    /\ migration.pc = "archive" /\ migration.todo # <<>>
    /\ LET n == Head(migration.todo)  from == migration.from[n]  staged == migration.dir # 0
           plan == IF staged THEN StagedPlan(from, place[n]) ELSE PlainPlan(from, place[n])
       IN migration' = [migration EXCEPT
              !.pc = "copyout", !.plan = plan, !.writes = plan # <<>>,
              !.end = IF staged THEN StagedWarnings(n, from, place[n]) ELSE PlainWarnings(n, from, place[n])]
    /\ UNCHANGED <<place, dirs, archive, completed, imported, warned, taken, calm, chance>>

(* archive_bytes_or_source: the archive first,                             *)
CopyOut ==
    /\ migration.pc = "copyout" /\ migration.plan # <<>>
    /\ LET item == Head(migration.plan)
       IN /\ archive' = archive \cup {Archived(Head(migration.todo), item.kind, item.text)}
          /\ migration' = IF item.out THEN [migration EXCEPT !.pc = "takeout"]
                          ELSE [migration EXCEPT !.plan = Tail(@)]
    /\ UNCHANGED <<place, dirs, completed, imported, warned, taken, calm, chance>>

\* Mutant: the file is removed whatever it holds by now.
TakesAnything ==
    /\ migration.pc = "takeout"
    /\ LET n == Head(migration.todo)
       IN /\ place' = [place EXCEPT ![n] = Absent]
          /\ taken' = taken \cup ({<<n, place[n]>>} \ {<<n, Absent>>})
    /\ migration' = [migration EXCEPT !.pc = "copyout", !.plan = Tail(@)]
    /\ UNCHANGED <<dirs, archive, completed, imported, warned, calm, chance>>

(* then remove_matching_source.                                            *)
TakeOut ==
    /\ migration.pc = "takeout"
    /\ LET n == Head(migration.todo)  text == Head(migration.plan).text
       IN IF place[n] = text THEN place' = [place EXCEPT ![n] = Absent] /\ taken' = taken \cup {<<n, text>>}
          ELSE UNCHANGED <<place, taken>>
    /\ migration' = [migration EXCEPT !.pc = "copyout", !.plan = Tail(@)]
    /\ UNCHANGED <<dirs, archive, completed, imported, warned, calm, chance>>

FinishFile ==
    /\ migration.pc = "copyout" /\ migration.plan = <<>>
    /\ warned' = warned \cup migration.end
    /\ migration' = [migration EXCEPT !.pc = "archive", !.todo = Tail(@), !.writes = FALSE, !.end = {}]
    /\ UNCHANGED <<place, dirs, archive, completed, imported, taken, calm, chance>>

(* An error, if only in the last sync, ends the archival of this file, and *)
(* of all with a directory.                                                *)
ArchiveFails ==
    /\ migration.pc \in {"copyout", "takeout"} /\ migration.writes /\ Fault
    /\ LET n == Head(migration.todo)
       IN warned' = warned \cup {Warning("incomplete", n, migration.from[n])}
    /\ IF migration.dir # 0 THEN migration' = NoRun("done")
       ELSE migration' = [migration EXCEPT !.pc = "archive", !.todo = Tail(@), !.plan = <<>>,
                                           !.writes = FALSE, !.end = {}]
    /\ UNCHANGED <<place, dirs, archive, completed, imported, taken>>

(* The directory goes last, if it can be removed.                          *)
RemoveStaged ==
    /\ migration.pc = "archive" /\ migration.todo = <<>>
    /\ \/ /\ dirs' = IF migration.dir = 0 THEN dirs ELSE RemoveAt(dirs, migration.dir)
          /\ UNCHANGED <<calm, chance>>
       \/ /\ migration.dir # 0 /\ Fault
          /\ \E d \in Partly(dirs[migration.dir]) : dirs' = [dirs EXCEPT ![migration.dir] = d]
    /\ migration' = NoRun("done")
    /\ UNCHANGED <<place, archive, completed, imported, warned, taken>>
---------------------------------------------------------------------------
CrashLegacy ==
    /\ migration.pc \notin {"off", "done"} /\ Fault
    /\ migration' = NoRun("off")
    /\ UNCHANGED <<place, dirs, archive, completed, imported, warned, taken>>

\* A user, or an earlier version, writes or removes a file.
EditFile(n) ==
    /\ Chance("edits") /\ calm' = FALSE
    /\ \E text \in (Texts \cup {Absent}) \ {place[n]} : place' = [place EXCEPT ![n] = text]
    /\ UNCHANGED <<dirs, archive, completed, imported, warned, migration, taken>>

LegacyInit ==
    /\ place \in [LegacyFiles -> Texts \cup {Absent}]
    /\ dirs = <<>> /\ archive = {} /\ warned = {} /\ taken = {}
    /\ completed = FALSE /\ imported = NoTexts
    /\ migration = NoRun("off") /\ calm = TRUE
    /\ chance \in Chances

LegacyNext ==
    \/ StartLegacy \/ (\E n \in LegacyFiles : ReadFile(n) \/ EditFile(n))
    \/ StageInputs \/ StageFile \/ CheckInputs \/ CommitImport \/ StartFails
    \/ PlanFile \/ CopyOut \/ TakeOut \/ FinishFile \/ ArchiveFails \/ RemoveStaged
    \/ CrashLegacy

LegacySpec == LegacyInit /\ [][LegacyNext]_legacy
---------------------------------------------------------------------------
(* Properties                                                              *)

IsArchived(n, text) == \E a \in archive : a.file = n /\ a.text = text

\* Whatever was taken out of the metadata root is archived, and what was imported is staged or
\* archived as what was migrated, whatever has become of the file.
NothingLost ==
    /\ \A t \in taken : IsArchived(t[1], t[2])
    /\ completed => \A n \in LegacyFiles : imported[n] # Absent =>
          \/ Archived(n, "migrated", imported[n]) \in archive
          \/ \E i \in DOMAIN dirs : dirs[i].file[n] = imported[n]

\* What a start imports is what it found at the place, not what an earlier one staged, and
\* nothing that stops a start is imported.
ImportsWhatItFound ==
    /\ completed /\ migration.dir # 0 /\ migration.read # NoTexts => imported = migration.read
    /\ completed => ~Stops(imported)

\* A start that nothing disturbed takes every file out of the metadata root.
StartSettles == migration.pc = "done" /\ calm => place = NoTexts

\* No crash, error or edit, wherever it comes, loses a legacy file, mixes two versions of the
\* import or leaves a file to be imported again (legacy.rs, 50-216 and 351-482).
LegacyHeld == NothingLost /\ ImportsWhatItFound /\ StartSettles
=============================================================================

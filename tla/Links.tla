------------------------------- MODULE Links -------------------------------
(***************************************************************************)
(* Linked Models (src/src-tauri/src/library/links.rs): the library_models  *)
(* rows that follow a file, the checks that bring a row in line with its   *)
(* file, the shared directory watches that ask for checks, and the         *)
(* commands and the startup pass that change what is followed.             *)
(*                                                                         *)
(* A version is what one write left at a path: its stat and its content.   *)
(* A row names the version observed.  "missing" stands for every state     *)
(* found without a readable file.  Watches are native; a directory and the *)
(* watch put on it are one step.                                           *)
(***************************************************************************)
EXTENDS Integers, FiniteSets, FiniteSetsExt, Sequences, SequencesExt

CONSTANTS
    Linkables,    \* Models that are or may become linked
    Paths,        \* source files
    Folders,      \* directories, of which Top is always there
    FolderOf,     \* [Paths -> Folders]
    Ancestors,    \* [Folders -> Seq(Folders)]: path.ancestors(), itself first
    Contents,     \* what a file may hold
    Unsuited,     \* those of Contents that do not inspect as the Models' format
    Retries,      \* Len(CHANGING_RETRY_DELAYS)
    Callers,      \* command handlers that can be open together
    Nothing,
    Efforts       \* bounds: file and folder changes, links, ends, check commands, faults, restarts

ASSUME LinksAssumption ==
    /\ Unsuited \subseteq Contents /\ Nothing \notin Paths \cup Folders \cup Contents \cup Linkables
    /\ FolderOf \in [Paths -> Folders] /\ Retries \in Nat
    /\ Efforts \subseteq [edits : Nat, folders : Nat, links : Nat, ends : Nat, checks : Nat,
                          faults : Nat, restarts : Nat]

\* The ancestors of an ancestor are the rest.
ASSUME FoldersAssumption ==
    /\ IsFiniteSet(Linkables)
    /\ Ancestors \in [Folders -> Seq(Folders)]
    /\ \A d \in Folders :
         /\ Ancestors[d] # <<>> /\ Ancestors[d][1] = d
         /\ \A i \in DOMAIN Ancestors[d] : Ancestors[Ancestors[d][i]] = SubSeq(Ancestors[d], i, Len(Ancestors[d]))

VARIABLES
    disk,         \* folders there, the version at each path (0: none), and every version made
    linkRow,      \* library_models: the link columns and the current revision's content
    watches,      \* Watches: registrations, reference counts, and the native watches alive
    heard,        \* paths the watcher has events of, not yet handled
    due,          \* per Model: in `queued`, checks waiting for the gate, retries left
    check,        \* the check that holds a Model's gate
    call,         \* the commands
    outdated,     \* the calls whose Model was written since they read its revision
    pass,         \* reconcile_all: what it does and the paths it has still to register
    misfollowed,  \* Models last registered for another path than their row's (history)
    unchecked,    \* Models whose last check failed (history)
    effort        \* what is left of the bounds

linked == <<disk, linkRow, watches, heard, due, check, call, outdated, pass, misfollowed, unchecked, effort>>

NoLink == [mode |-> "absent", path |-> Nothing, state |-> "ok", observed |-> 0, current |-> Nothing]
NoCheck == [pc |-> "off", by |-> "none", link |-> NoLink, stamp |-> 0, found |-> "none"]
NoCall == [pc |-> "idle", model |-> Nothing, path |-> Nothing, stamp |-> 0]
NoDue == [queued |-> FALSE, waiting |-> 0, retries |-> 0]
NoReg == [parent |-> Nothing, watched |-> Nothing]
NoPass(pc) == [pc |-> pc, left |-> {}, listed |-> [m \in Linkables |-> Nothing]]
NoWatches == [reg |-> [m \in Linkables |-> NoReg], refs |-> [d \in Folders |-> 0], alive |-> {}]

Following(m) == linkRow[m].mode = "linked"
Content(stamp) == disk.made[stamp].content
Linkage(path, stamp) == [mode |-> "linked", path |-> path, state |-> "ok", observed |-> stamp,
                         current |-> Content(stamp)]
Try(what) == effort[what] > 0 /\ effort' = [effort EXCEPT ![what] = @ - 1]

\* A transaction that writes m's row bumps its revision.
SaveLink(m, new) == /\ linkRow' = [linkRow EXCEPT ![m] = new]
                    /\ outdated' = outdated \cup {c \in Callers : call[c].model = m}
---------------------------------------------------------------------------
(* The watches                                                             *)

NearestExisting(d) == Ancestors[d][SelectInSeq(Ancestors[d], LAMBDA x : x \in disk.folders)]

AcquireWatch(w, d) == [w EXCEPT !.refs[d] = @ + 1, !.alive = IF w.refs[d] = 0 THEN @ \cup {d} ELSE @]
ReleaseWatch(w, d) == [w EXCEPT !.refs[d] = @ - 1, !.alive = IF w.refs[d] = 1 THEN @ \ {d} ELSE @]

Unregister(w, m) == IF w.reg[m] = NoReg THEN w
                    ELSE [ReleaseWatch(w, w.reg[m].watched) EXCEPT !.reg[m] = NoReg]
Register(w, m, path) ==
    LET d == NearestExisting(FolderOf[path])
    IN [AcquireWatch(Unregister(w, m), d) EXCEPT !.reg[m] = [parent |-> FolderOf[path], watched |-> d]]

Target(w, m) == NearestExisting(w.reg[m].parent)
Moves(w, m) == w.reg[m] # NoReg /\ Target(w, m) # w.reg[m].watched

(* move_watch for each of models, of which none moves to a directory that  *)
(* another leaves.                                                         *)
MoveWatches(w, models) ==
    LET moving == {m \in models : Moves(w, m)}
        into(d) == {m \in moving : Target(w, m) = d}
        outOf(d) == {m \in moving : w.reg[m].watched = d}
        refs == [d \in Folders |-> w.refs[d] + Cardinality(into(d)) - Cardinality(outOf(d))]
    IN [reg |-> [m \in Linkables |-> IF m \in moving THEN [w.reg[m] EXCEPT !.watched = Target(w, m)]
                                     ELSE w.reg[m]],
        refs |-> refs,
        alive |-> {d \in Folders : refs[d] > 0 /\ (d \in w.alive \/ w.refs[d] = 0)}]

(* reestablish: each watch is put on its directory again, or the Models of *)
(* a directory that is gone move to an ancestor.                           *)
Reestablish(w, directories) ==
    LET gone == directories \ disk.folders
    IN [MoveWatches(w, {m \in Linkables : w.reg[m].watched \in gone}) EXCEPT !.alive = @ \cup (directories \ gone)]

(* schedule: a check that has not started takes in what comes meanwhile.   *)
Schedule(models) == due' = [m \in Linkables |->
    IF m \in models /\ ~due[m].queued THEN [due[m] EXCEPT !.queued = TRUE, !.waiting = @ + 1] ELSE due[m]]

\* An event of p concerns those who watch directory d.
Touches(p, d) == \/ p = d
                 \/ p \in Paths /\ FolderOf[p] = d
                 \/ p \in Folders /\ Len(Ancestors[p]) > 1 /\ Ancestors[p][2] = d

(* handle: a batch of events.                                              *)
Handle(paths) ==
    LET touched == {d \in Folders : watches.refs[d] > 0 /\ \E p \in paths : Touches(p, d)}
    IN /\ paths # {}
       /\ heard' = heard \ paths
       /\ watches' = Reestablish(watches, touched \cap paths)
       /\ Schedule({m \in Linkables : watches.reg[m].watched \in touched})
       /\ UNCHANGED <<disk, linkRow, check, call, outdated, pass, misfollowed, unchecked, effort>>
---------------------------------------------------------------------------
(* The disk, changed by others                                             *)

Signal(p, watched) == heard' = IF watched \cap watches.alive # {} THEN heard \cup {p} ELSE heard
Unmoved == UNCHANGED <<linkRow, due, check, call, outdated, pass, misfollowed, unchecked>>

\* A file is written, put back as it was, or removed.
ChangeFile(p) ==
    /\ Try("edits") /\ FolderOf[p] \in disk.folders
    /\ \/ \E c \in Contents :
             disk' = [disk EXCEPT !.made = Append(@, [path |-> p, content |-> c]),
                                  !.file[p] = Len(disk.made) + 1]
       \/ \E s \in {s \in DOMAIN disk.made : disk.made[s].path = p} \cup {0} :
             s # disk.file[p] /\ disk' = [disk EXCEPT !.file[p] = s]
    /\ Signal(p, {FolderOf[p]})
    /\ Unmoved /\ UNCHANGED watches

Inside(d) == {x \in Folders : Len(Ancestors[x]) > 1 /\ Ancestors[x][2] = d}
Around(d) == {Ancestors[d][2]}

\* A folder goes with its files; the native watch on it does not survive.
RemoveFolder(d) ==
    /\ Try("folders") /\ d \in disk.folders /\ Len(Ancestors[d]) > 1 /\ Inside(d) \cap disk.folders = {}
    /\ disk' = [disk EXCEPT !.folders = @ \ {d},
                            !.file = [p \in Paths |-> IF FolderOf[p] = d THEN 0 ELSE @[p]]]
    /\ Signal(d, {d} \cup Around(d))
    /\ watches' = [watches EXCEPT !.alive = @ \ {d}]
    /\ Unmoved

\* A folder is made, empty or with the files it had before.
MakeFolder(d) ==
    /\ Try("folders") /\ d \notin disk.folders /\ Around(d) \subseteq disk.folders
    /\ LET last(p) == Max({0} \cup {s \in DOMAIN disk.made : disk.made[s].path = p})
       IN \E back \in SUBSET {p \in Paths : FolderOf[p] = d} :
             disk' = [disk EXCEPT !.folders = @ \cup {d},
                                  !.file = [p \in Paths |-> IF p \in back THEN last(p) ELSE @[p]]]
    /\ Signal(d, Around(d))
    /\ Unmoved /\ UNCHANGED watches
---------------------------------------------------------------------------
(* A check, under its Model's gate                                         *)

SetCheck(m, c) == check' = [check EXCEPT ![m] = c]

\* Mutant: the Model leaves `queued` only when its check is over.
StartsQueued(m, by) ==
    /\ check[m].pc = "off"
    /\ by = "scheduled" => due[m].waiting > 0
    /\ by = "retry" => due[m].retries > 0
    /\ due' = [due EXCEPT ![m].waiting = IF by = "scheduled" THEN @ - 1 ELSE @]
    /\ SetCheck(m, [NoCheck EXCEPT !.by = by, !.link = linkRow[m],
                                   !.pc = IF Following(m) THEN "stat" ELSE "follow"])
    /\ UNCHANGED <<disk, linkRow, watches, heard, call, outdated, pass, misfollowed, unchecked, effort>>

(* run_check once it has the gate: what comes from here on needs another   *)
(* check; LinkSnapshot::load.                                              *)
StartCheck(m, by) ==
    /\ check[m].pc = "off"
    /\ by = "scheduled" => due[m].waiting > 0
    /\ by = "retry" => due[m].retries > 0
    /\ due' = [due EXCEPT ![m].queued = FALSE, ![m].waiting = IF by = "scheduled" THEN @ - 1 ELSE @]
    /\ SetCheck(m, [NoCheck EXCEPT !.by = by, !.link = linkRow[m],
                                   !.pc = IF Following(m) THEN "stat" ELSE "follow"])
    /\ UNCHANGED <<disk, linkRow, watches, heard, call, outdated, pass, misfollowed, unchecked, effort>>

(* check_linked_source, steps 1 and 2.                                     *)
StatSource(m) ==
    LET c == check[m]  s == disk.file[c.link.path]
    IN /\ c.pc = "stat"
       /\ SetCheck(m, CASE s = 0 -> [c EXCEPT !.pc = "apply", !.found = "missing"]
                        [] s # 0 /\ c.link.state = "ok" /\ c.link.observed = s ->
                              [c EXCEPT !.pc = "follow", !.found = "ok"]
                        [] OTHER -> [c EXCEPT !.pc = "read", !.stamp = s])
       /\ UNCHANGED <<disk, linkRow, watches, heard, due, call, outdated, pass, misfollowed, unchecked, effort>>

(* stage_from_path, then steps 4 and 5.                                    *)
Staged(link, stamp) ==
    CASE disk.file[link.path] # stamp -> [found |-> "changing", stamp |-> 0]
      [] disk.file[link.path] = stamp ->
            [stamp |-> stamp, found |-> IF Content(stamp) = link.current THEN "ok"
                                        ELSE IF Content(stamp) \in Unsuited THEN "invalid" ELSE "new"]

ReadSource(m) ==
    LET c == check[m]  read == Staged(c.link, c.stamp)
    IN /\ c.pc = "read"
       /\ SetCheck(m, [c EXCEPT !.pc = "apply", !.found = read.found, !.stamp = read.stamp])
       /\ UNCHANGED <<disk, linkRow, watches, heard, due, call, outdated, pass, misfollowed, unchecked, effort>>

\* Mutant: a Model that was relinked meanwhile is taken for the one seen.
StillLinked(row, link) == row.mode = "linked" /\ row.current = link.current

LinkedAsSeen(row, link) == row.mode = "linked" /\ row.path = link.path /\ row.current = link.current

(* apply_outcome, record_link_check: a stat is written when one was taken. *)
Recorded(row, found, stamp) ==
    IF found = "new" THEN Linkage(row.path, stamp)
    ELSE [row EXCEPT !.state = found, !.observed = IF stamp = 0 THEN @ ELSE stamp]

ApplyOutcome(m) ==
    LET c == check[m]  row == linkRow[m]  new == Recorded(row, c.found, c.stamp)
    IN /\ c.pc = "apply"
       /\ IF LinkedAsSeen(row, c.link)
          THEN /\ IF new = row THEN UNCHANGED <<linkRow, outdated>> ELSE SaveLink(m, new)
               /\ SetCheck(m, [c EXCEPT !.pc = "follow"])
          ELSE /\ UNCHANGED <<linkRow, outdated>>
               /\ SetCheck(m, [c EXCEPT !.pc = "follow", !.found = "none"])
       /\ UNCHANGED <<disk, watches, heard, due, call, pass, misfollowed, unchecked, effort>>

\* farm3d's own failure ends a check, and the retries if it was one of them.
CheckFails(m) ==
    /\ check[m].pc = "apply" /\ Try("faults")
    /\ due' = [due EXCEPT ![m].retries = IF check[m].by = "retry" THEN 0 ELSE @]
    /\ SetCheck(m, NoCheck)
    /\ unchecked' = unchecked \cup {m}
    /\ UNCHANGED <<disk, linkRow, watches, heard, call, outdated, pass, misfollowed>>

(* The rest of run_check: follow_parent, a check if the watch moved,       *)
(* retry, and retry_while_changing for the retry this was.                 *)
FollowUp(m) ==
    LET c == check[m]  d == due[m]  changing == c.found = "changing"
        left == IF c.by = "retry" THEN (IF changing THEN d.retries - 1 ELSE 0)
                ELSE IF changing /\ d.retries = 0 THEN Retries ELSE d.retries
        again == Moves(watches, m) /\ ~d.queued
    IN /\ c.pc = "follow"
       /\ watches' = MoveWatches(watches, {m})
       /\ due' = [due EXCEPT ![m] = [queued |-> d.queued \/ again, retries |-> left,
                                     waiting |-> IF again THEN d.waiting + 1 ELSE d.waiting]]
       /\ SetCheck(m, NoCheck)
       /\ unchecked' = unchecked \ {m}
       /\ UNCHANGED <<disk, linkRow, heard, call, outdated, pass, misfollowed, effort>>
---------------------------------------------------------------------------
(* Commands                                                                *)

SetCall(c, new) == call' = [call EXCEPT ![c] = new]
Misfollows(m, path) == IF Following(m) /\ linkRow[m].path = path THEN misfollowed \ {m} ELSE misfollowed \cup {m}

(* import_models for a linked Model, or locate_linked_source, of a file    *)
(* the user chose: stage_from_path begins.                                 *)
Choose(c, m, p) ==
    /\ call[c].pc = "idle" /\ Try("links") /\ disk.file[p] # 0
    /\ \/ Following(m)
       \/ linkRow[m].mode = "absent" /\ \A o \in Callers : call[o].model # m
    /\ SetCall(c, [pc |-> "staging", model |-> m, path |-> p, stamp |-> disk.file[p]])
    /\ outdated' = outdated \ {c}
    /\ UNCHANGED <<disk, linkRow, watches, heard, due, check, pass, misfollowed, unchecked>>

(* It is staged and inspected, or it changed or is of another format.      *)
StageChosen(c) ==
    LET a == call[c]
    IN /\ a.pc = "staging"
       /\ SetCall(c, IF disk.file[a.path] = a.stamp /\ Content(a.stamp) \notin Unsuited
                     THEN [a EXCEPT !.pc = "staged"] ELSE NoCall)
       /\ UNCHANGED <<disk, linkRow, watches, heard, due, check, outdated, pass, misfollowed, unchecked, effort>>

(* relink_model or insert_model, in one transaction with the revision's    *)
(* check and the revision added for new content.                           *)
CommitLink(c) ==
    LET a == call[c]
    IN /\ a.pc = "staged"
       /\ IF c \in outdated THEN SetCall(c, NoCall) /\ UNCHANGED <<linkRow, outdated>>
          ELSE SetCall(c, [a EXCEPT !.pc = "committed"]) /\ SaveLink(a.model, Linkage(a.path, a.stamp))
       /\ UNCHANGED <<disk, watches, heard, due, check, pass, misfollowed, unchecked, effort>>

\* Mutant: the Model is followed and not checked.
FollowsUnchecked(c) ==
    LET a == call[c]
    IN /\ a.pc = "committed"
       /\ watches' = Register(watches, a.model, a.path)
       /\ misfollowed' = Misfollows(a.model, a.path)
       /\ SetCall(c, NoCall)
       /\ UNCHANGED <<disk, linkRow, heard, due, check, outdated, pass, unchecked, effort>>

(* follow_link: what changed since it was staged was not watched.          *)
FollowLink(c) ==
    LET a == call[c]
    IN /\ a.pc = "committed"
       /\ watches' = Register(watches, a.model, a.path)
       /\ Schedule({a.model})
       /\ misfollowed' = Misfollows(a.model, a.path)
       /\ SetCall(c, NoCall)
       /\ UNCHANGED <<disk, linkRow, heard, check, outdated, pass, unchecked, effort>>

(* convert_model_to_managed and delete_model commit                        *)
EndLink(c, m, mode) ==
    /\ call[c].pc = "idle" /\ Try("ends") /\ Following(m)
    /\ SaveLink(m, [NoLink EXCEPT !.mode = mode])
    /\ SetCall(c, [NoCall EXCEPT !.pc = "ended", !.model = m])
    /\ UNCHANGED <<disk, watches, heard, due, check, pass, misfollowed, unchecked>>

(* and the source stops being followed.                                    *)
UnfollowLink(c) ==
    /\ call[c].pc = "ended"
    /\ watches' = Unregister(watches, call[c].model)
    /\ misfollowed' = misfollowed \ {call[c].model}
    /\ SetCall(c, NoCall)
    /\ UNCHANGED <<disk, linkRow, heard, due, check, outdated, pass, unchecked, effort>>

(* check_linked_sources                                                    *)
CheckSources(models) ==
    /\ Try("checks") /\ models # {}
    /\ due' = [m \in Linkables |-> IF m \in models THEN [due[m] EXCEPT !.waiting = @ + 1] ELSE due[m]]
    /\ UNCHANGED <<disk, linkRow, watches, heard, check, call, outdated, pass, misfollowed, unchecked>>
---------------------------------------------------------------------------
(* reconcile_all, in the background of a start                             *)

ListLinked ==
    /\ pass.pc = "list"
    /\ \/ /\ pass' = [pc |-> "register", left |-> {m \in Linkables : Following(m)},
                      listed |-> [m \in Linkables |-> linkRow[m].path]]
          /\ UNCHANGED <<misfollowed, effort>>
       \/ /\ Try("faults")
          /\ pass' = NoPass("done")
          /\ misfollowed' = misfollowed \cup {m \in Linkables : Following(m)}
    /\ UNCHANGED <<disk, linkRow, watches, heard, due, check, call, outdated, unchecked>>

RegisterListed(m) ==
    /\ pass.pc = "register" /\ m \in pass.left
    /\ watches' = Register(watches, m, pass.listed[m])
    /\ misfollowed' = Misfollows(m, pass.listed[m])
    /\ pass' = [pass EXCEPT !.left = @ \ {m}]
    /\ UNCHANGED <<disk, linkRow, heard, due, check, call, outdated, unchecked, effort>>

\* The checks wait for their turns.
CheckListed ==
    /\ pass.pc = "register" /\ pass.left = {}
    /\ due' = [m \in Linkables |-> IF pass.listed[m] # Nothing THEN [due[m] EXCEPT !.waiting = @ + 1] ELSE due[m]]
    /\ pass' = NoPass("done")
    /\ UNCHANGED <<disk, linkRow, watches, heard, check, call, outdated, misfollowed, unchecked, effort>>

RestartLinks ==
    /\ Try("restarts")
    /\ watches' = NoWatches /\ heard' = {} /\ outdated' = {} /\ misfollowed' = {} /\ unchecked' = {}
    /\ due' = [m \in Linkables |-> NoDue] /\ check' = [m \in Linkables |-> NoCheck]
    /\ call' = [c \in Callers |-> NoCall]
    /\ pass' = NoPass("list")
    /\ UNCHANGED <<disk, linkRow>>

\* What lies at a path is a version made there.
DiskTyped ==
    /\ disk \in [folders : SUBSET Folders, file : [Paths -> Nat], made : Seq([path : Paths, content : Contents])]
    /\ \A p \in Paths : disk.file[p] # 0 =>
          disk.file[p] \in DOMAIN disk.made /\ disk.made[disk.file[p]].path = p

\* A folder lies in folders that are there, the outermost always.
DiskNested == \A d \in Folders :
    /\ Len(Ancestors[d]) = 1 => d \in disk.folders
    /\ Len(Ancestors[d]) > 1 /\ d \in disk.folders => Ancestors[d][2] \in disk.folders

\* Every linked Model is registered.
AllWatched ==
    LET place(m) == FolderOf[linkRow[m].path]
        reg == [m \in Linkables |-> IF Following(m)
                                    THEN [parent |-> place(m), watched |-> NearestExisting(place(m))] ELSE NoReg]
        refs == [d \in Folders |-> Cardinality({m \in Linkables : reg[m].watched = d})]
    IN [reg |-> reg, refs |-> refs, alive |-> {d \in Folders : refs[d] > 0}]

\* The disk and the rows agree; farm3d starts, or has been through its pass.
LinksInit ==
    /\ DiskTyped /\ DiskNested
    /\ linkRow \in [Linkables -> {NoLink} \cup {Linkage(p, disk.file[p]) : p \in {x \in Paths : disk.file[x] # 0}}]
    /\ \/ watches = NoWatches /\ pass = NoPass("list")
       \/ /\ watches = AllWatched
          /\ pass = NoPass("done")
    /\ heard = {} /\ outdated = {} /\ misfollowed = {} /\ unchecked = {}
    /\ due = [m \in Linkables |-> NoDue] /\ check = [m \in Linkables |-> NoCheck]
    /\ call = [c \in Callers |-> NoCall]
    /\ effort \in Efforts

DiskStep == \E p \in Paths, d \in Folders : ChangeFile(p) \/ RemoveFolder(d) \/ MakeFolder(d)

CheckStep == \E m \in Linkables :
    \/ \E by \in {"scheduled", "retry"} : StartCheck(m, by)
    \/ StatSource(m) \/ ReadSource(m) \/ ApplyOutcome(m) \/ CheckFails(m) \/ FollowUp(m)

\* Callers are alike.
IdleCallers == {c \in Callers : call[c].pc = "idle"}
CallStep ==
    \/ \E c \in Callers : StageChosen(c) \/ CommitLink(c) \/ FollowLink(c) \/ UnfollowLink(c)
    \/ /\ IdleCallers # {}
       /\ LET c == CHOOSE c \in IdleCallers : TRUE
          IN \E m \in Linkables : \/ \E p \in Paths : Choose(c, m, p)
                                  \/ \E mode \in {"managed", "deleted"} : EndLink(c, m, mode)
    \/ \E models \in SUBSET Linkables : CheckSources(models)

LinksNext ==
    \/ \E paths \in SUBSET heard : Handle(paths)
    \/ DiskStep \/ CheckStep \/ CallStep
    \/ ListLinked \/ (\E m \in Linkables : RegisterListed(m)) \/ CheckListed
    \/ RestartLinks

LinksSpec == LinksInit /\ [][LinksNext]_linked
---------------------------------------------------------------------------
(* Properties                                                              *)

\* What a Model shows as its current revision while its source is ok is what some write left at
\* the path it is linked to, and the stat beside it is of that very write: a check whose Model
\* was relinked meanwhile, or given other content, leaves nothing behind.
TruthfulLink == \A m \in Linkables :
    Following(m) /\ linkRow[m].state = "ok" =>
        disk.made[linkRow[m].observed] = [path |-> linkRow[m].path, content |-> linkRow[m].current]

\* Nothing is under way and no event is waiting to be handled.
Calm == /\ heard = {} /\ pass.pc = "done"
        /\ \A m \in Linkables : check[m].pc = "off" /\ due[m].waiting = 0
        /\ \A c \in Callers : call[c].pc = "idle"

UpToDate(m) ==
    LET row == linkRow[m]  s == disk.file[row.path]
    IN IF s = 0 THEN row.state = "missing"
       ELSE /\ row.observed = s
            /\ IF row.state = "ok" THEN row.current = Content(s)
               ELSE row.state = "invalid" /\ Content(s) \in Unsuited

Followed(m) == LET d == NearestExisting(FolderOf[linkRow[m].path])
               IN watches.reg[m].watched = d /\ d \in watches.alive

\* Once everything asked for is done, every linked Model agrees with its file as it is and its
\* folder, or the nearest one there is, is watched; Models that are no longer linked hold no
\* watch.  Not for a Model whose last check failed, or whose registrations happened in another
\* order than their commits.
NothingMissed == Calm => \A m \in Linkables \ misfollowed :
    IF Following(m) THEN m \in unchecked \/ (UpToDate(m) /\ Followed(m)) ELSE watches.reg[m] = NoReg
=============================================================================

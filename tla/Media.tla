------------------------------- MODULE Media -------------------------------
(***************************************************************************)
(* Camera images (src/src-tauri/src/cameras/media.rs, retention.rs,        *)
(* capture.rs, backup/lease.rs): the camera_snapshots rows, the image      *)
(* files they name, and the outcome a capture leaves on the Incident or    *)
(* the Event it is evidence of.  Captures and prunes take turns under the  *)
(* janitor's lock; pins, reads, deletions and backups do not wait for it   *)
(* everywhere.  An image is one unit of the cap.                           *)
(***************************************************************************)
EXTENDS Integers, FiniteSets, FiniteSetsExt

CONSTANTS
    Shots,        \* captures that may run, each of one image
    Subjects,     \* the Incidents and completed Jobs' Events to be captured
    Requests,     \* operation ids of capture_snapshot, all for one other Printer
    Cap,          \* snapshotRetention.diskCapMb, in images
    Allowances    \* bounds: captures, pins, ageing, deletions, leases, lost files, faults, crashes

ASSUME MediaAssumption ==
    /\ Shots \subseteq Nat \ {0} /\ IsFiniteSet(Shots) /\ Cap \in Nat
    /\ Subjects \cap Requests = {} /\ "none" \notin Subjects \cup Requests
    /\ Allowances \subseteq [shots : SUBSET Shots, pins : Nat, ages : Nat, deletes : Nat, leases : Nat,
                             losses : Nat, faults : Nat, crashes : Nat]

VARIABLES
    picture,    \* camera_snapshots, a row per capture
    onDisk,     \* the images under snapshots/
    lostFiles,  \* images that went missing by another hand (history)
    outcome,    \* how many evidence entries a subject has
    shot,       \* each capture
    janitor,    \* the files the janitor task still unlinks
    turn,       \* who holds the janitor's lock: a capture or nobody
    usable,     \* media_available
    lease,      \* the backup lease: what its holder does, what it copied, what waits for it
    removed,    \* the deletion of the Requests' Printer: off, unlinking or done
    allowance   \* what is left of the bounds

pictures == <<picture, onDisk, lostFiles, outcome, shot, janitor, turn, usable, lease, removed, allowance>>

NoPicture == [state |-> "none", pinned |-> FALSE, old |-> FALSE, link |-> "none", reason |-> "none"]
NoShot == [pc |-> "off", link |-> "none", plan |-> {}, fits |-> TRUE]
NoLease == [held |-> "no", copied |-> {}, queued |-> {}]
Free == 0

Allows(what) == allowance[what] > 0 /\ allowance' = [allowance EXCEPT ![what] = @ - 1]
Kept == {n \in Shots : picture[n].state = "kept"}
Linked(l) == {n \in Shots : picture[n].state # "none" /\ picture[n].link = l}
---------------------------------------------------------------------------
(* retention.rs plan_prune over the kept rows: the aged ones, then the     *)
(* oldest unpinned until the incoming images fit; when they cannot, only   *)
(* the aged ones.                                                          *)

PastAge == {n \in Kept : ~picture[n].pinned /\ picture[n].old}
Younger == {n \in Kept \ PastAge : ~picture[n].pinned}
Oldest(k) == {n \in Younger : Cardinality({m \in Younger : m <= n}) <= k}
Over(incoming) == Max({0, Cardinality(Kept \ PastAge) + incoming - Cap})
Fits(incoming) == Over(incoming) <= Cardinality(Younger)
Plan(incoming) == PastAge \cup IF Fits(incoming) THEN Oldest(Over(incoming)) ELSE {}

\* Mutant: a row pinned since it was planned is pruned all the same.
PrunableAnyway(planned, reason) == planned \cap Kept

(* mark_pruned: a row pruned or pinned since it was planned is passed over *)
(* unless its file is missing or it is being reset.                        *)
Prunable(planned, reason) ==
  {n \in planned \cap Kept : ~picture[n].pinned \/ reason \in {"missingFile", "reset"}}

Pruned(planned, reason) ==
  [n \in Shots |-> IF n \in Prunable(planned, reason)
                   THEN [picture[n] EXCEPT !.state = "pruned", !.reason = reason] ELSE picture[n]]

\* Mutant: under the lease too, the files go at once.
UnlinkAtOnce(files) == onDisk' = onDisk \ files /\ UNCHANGED lease

(* BackupLease::unlink_or_defer                                            *)
UnlinkOrDefer(files) ==
  IF lease.held = "no" THEN onDisk' = onDisk \ files /\ UNCHANGED lease
  ELSE lease' = [lease EXCEPT !.queued = @ \cup files] /\ UNCHANGED onDisk
---------------------------------------------------------------------------
(* capture.rs, commands.rs capture_snapshot: one capture                   *)

SetShot(n, s) == shot' = [shot EXCEPT ![n] = s]
Capturing(l) == \E n \in Shots : shot[n].pc # "off" /\ shot[n].link = l

\* Mutant: a subject's second outcome is recorded too.
SkipAgain(l) == outcome' = IF l \in Subjects THEN [outcome EXCEPT ![l] = @ + 1] ELSE outcome

(* record_skip: a no-op when an outcome is recorded, and for a request.    *)
RecordSkip(l) == outcome' = IF l \in Subjects THEN [outcome EXCEPT ![l] = 1] ELSE outcome

(* dispatch: an intent, sent or derived again after a lag, perhaps before  *)
(* an earlier capture of its subject recorded what came of it; a frame is  *)
(* fetched.  capture_snapshot answers a request that was stored from its   *)
(* row; the same request may run twice before that.                        *)
Shoot(n) ==
  /\ n \in allowance.shots /\ \A m \in allowance.shots : n <= m
  /\ allowance' = [allowance EXCEPT !.shots = @ \ {n}]
  /\ \E l \in Subjects \cup Requests :
       \/ /\ usable /\ (l \in Subjects => ~Capturing(l)) /\ (l \in Requests => Linked(l) = {})
          /\ SetShot(n, [NoShot EXCEPT !.pc = "fetched", !.link = l]) /\ UNCHANGED outcome
       \/ ~usable /\ l \in Subjects /\ ~Capturing(l) /\ RecordSkip(l) /\ UNCHANGED shot
  /\ UNCHANGED <<picture, onDisk, lostFiles, janitor, turn, usable, lease, removed>>

CameraFails(n) ==
  /\ shot[n].pc = "fetched" /\ SetShot(n, NoShot) /\ RecordSkip(shot[n].link)
  /\ UNCHANGED <<picture, onDisk, lostFiles, janitor, turn, usable, lease, removed, allowance>>

\* Mutant: a capture plans without waiting for the other's commit.
PlanUnlocked(n) ==
  /\ shot[n].pc = "fetched" /\ turn' = n
  /\ SetShot(n, [shot[n] EXCEPT !.pc = "planned", !.plan = Plan(1), !.fits = Fits(1)])
  /\ UNCHANGED <<picture, onDisk, lostFiles, outcome, janitor, usable, lease, removed, allowance>>

(* store_frame: under the lock, a plan from the rows as they are read.     *)
PlanShot(n) ==
  /\ shot[n].pc = "fetched" /\ turn = Free /\ removed # "unlinking" /\ turn' = n
  /\ SetShot(n, [shot[n] EXCEPT !.pc = "planned", !.plan = Plan(1), !.fits = Fits(1)])
  /\ UNCHANGED <<picture, onDisk, lostFiles, outcome, janitor, usable, lease, removed, allowance>>

(* One transaction: the rows marked, with the new row or without; then the *)
(* lock goes, and then the files of the marked rows.                       *)
Commits(n, rows) ==
  /\ picture' = rows
  /\ SetShot(n, [shot[n] EXCEPT !.pc = "unlinking", !.plan = Prunable(shot[n].plan, "plan")])
  /\ turn' = Free

Refuse(n) ==
  /\ shot[n].pc = "planned" /\ ~shot[n].fits
  /\ Commits(n, Pruned(shot[n].plan, "plan")) /\ RecordSkip(shot[n].link)
  /\ UNCHANGED <<onDisk, lostFiles, janitor, usable, lease, removed, allowance>>

WriteImage(n) ==
  /\ shot[n].pc = "planned" /\ shot[n].fits
  /\ onDisk' = onDisk \cup {n} /\ SetShot(n, [shot[n] EXCEPT !.pc = "written"])
  /\ UNCHANGED <<picture, lostFiles, outcome, janitor, turn, usable, lease, removed, allowance>>

(* already_recorded, and the claim of the request's operation id, which    *)
(* outlives the row.                                                       *)
AlreadyRecorded(l) == IF l \in Subjects THEN outcome[l] # 0 ELSE Linked(l) # {}
PrinterGone(l) == l \in Requests /\ removed # "off"

StoreShot(n) ==
  LET l == shot[n].link IN
  /\ shot[n].pc = "written" /\ ~AlreadyRecorded(l) /\ ~PrinterGone(l)
  /\ Commits(n, [Pruned(shot[n].plan, "plan") EXCEPT ![n] = [NoPicture EXCEPT !.state = "kept", !.link = l]])
  /\ outcome' = IF l \in Subjects THEN [outcome EXCEPT ![l] = @ + 1] ELSE outcome
  /\ UNCHANGED <<onDisk, lostFiles, janitor, usable, lease, removed, allowance>>

(* Nothing is stored: its own file goes.                                   *)
GivesUp(n) == onDisk' = onDisk \ {n} /\ turn' = Free /\ SetShot(n, NoShot)

NotStored(n) ==
  /\ shot[n].pc = "written" /\ (AlreadyRecorded(shot[n].link) \/ PrinterGone(shot[n].link))
  /\ GivesUp(n)
  /\ UNCHANGED <<picture, lostFiles, outcome, janitor, usable, lease, removed, allowance>>

(* The write or the transaction fails, and so may the record of it.        *)
StoreFails(n) ==
  /\ shot[n].pc \in {"planned", "written"} /\ Allows("faults") /\ GivesUp(n)
  /\ RecordSkip(shot[n].link) \/ UNCHANGED outcome
  /\ UNCHANGED <<picture, lostFiles, janitor, usable, lease, removed>>

UnlinkPruned(n) ==
  /\ shot[n].pc = "unlinking" /\ UnlinkOrDefer(shot[n].plan) /\ SetShot(n, NoShot)
  /\ UNCHANGED <<picture, lostFiles, outcome, janitor, turn, usable, removed, allowance>>
---------------------------------------------------------------------------
(* The janitor: prune_pass and, while the store is unusable, retry_sweep   *)

PrunePass ==
  /\ turn = Free /\ removed # "unlinking" /\ usable /\ lease.held = "no" /\ janitor = {} /\ Plan(0) # {}
  /\ picture' = Pruned(Plan(0), "plan") /\ janitor' = Prunable(Plan(0), "plan")
  /\ UNCHANGED <<onDisk, lostFiles, outcome, shot, turn, usable, lease, removed, allowance>>

JanitorUnlinks ==
  /\ janitor # {} /\ onDisk' = onDisk \ janitor /\ janitor' = {}
  /\ UNCHANGED <<picture, lostFiles, outcome, shot, turn, usable, lease, removed, allowance>>

(* startup_sweep: it succeeds, or it fails before or after it marked rows. *)
Sweep ==
  LET marked == Pruned(Kept \ onDisk, "missingFile") IN
  \/ picture' = marked /\ onDisk' = Kept \cap onDisk /\ usable' = TRUE
  \/ picture' \in {picture, marked} /\ UNCHANGED onDisk /\ usable' = FALSE

RetrySweep ==
  /\ ~usable /\ turn = Free /\ removed # "unlinking" /\ lease.held = "no" /\ Sweep
  /\ UNCHANGED <<lostFiles, outcome, shot, janitor, turn, lease, removed, allowance>>
---------------------------------------------------------------------------
(* What people, time and disks do                                          *)

SetPinned ==
  /\ Allows("pins")
  /\ \E n \in Kept : picture' = [picture EXCEPT ![n].pinned = ~@]
  /\ UNCHANGED <<onDisk, lostFiles, outcome, shot, janitor, turn, usable, lease, removed>>

GrowsOld ==
  /\ Allows("ages")
  /\ \E n \in Kept : ~picture[n].old /\ picture' = [picture EXCEPT ![n].old = TRUE]
  /\ UNCHANGED <<onDisk, lostFiles, outcome, shot, janitor, turn, usable, lease, removed>>

FileLost ==
  /\ Allows("losses")
  /\ \E n \in Kept \cap onDisk : onDisk' = onDisk \ {n} /\ lostFiles' = lostFiles \cup {n}
  /\ UNCHANGED <<picture, outcome, shot, janitor, turn, usable, lease, removed>>

(* snapshot_image finds the file of a kept row gone (mark_missing).        *)
ReadImage ==
  /\ turn = Free /\ removed # "unlinking"
  /\ \E n \in Kept \ onDisk : picture' = Pruned({n}, "missingFile")
  /\ UNCHANGED <<onDisk, lostFiles, outcome, shot, janitor, turn, usable, lease, removed, allowance>>

(* delete_printer, under the janitor's lock: remove_unattached_manual, and *)
(* after the commit the files, which do not wait for the lease.            *)
DeletePhotographed ==
  /\ turn = Free /\ removed = "off" /\ Allows("deletes") /\ removed' = "unlinking"
  /\ \A n \in Kept : picture[n].link \in Requests => ~picture[n].pinned
  /\ picture' = [n \in Shots |-> IF picture[n].link \in Requests
                                 THEN [picture[n] EXCEPT !.state = "gone"] ELSE picture[n]]
  /\ UNCHANGED <<onDisk, lostFiles, outcome, shot, janitor, turn, usable, lease>>

Rowless == {n \in Shots : picture[n].state = "gone" /\ picture[n].reason = "none"}
DeletionUnlinks ==
  /\ removed = "unlinking" /\ removed' = "done" /\ onDisk' = onDisk \ Rowless
  /\ UNCHANGED <<picture, lostFiles, outcome, shot, janitor, turn, usable, lease, allowance>>
---------------------------------------------------------------------------
(* backup/lease.rs: a backup, or a reset of the camera images              *)

(* The holder is set at once; then it waits for a deletion under way.      *)
TakeLease ==
  /\ lease.held = "no" /\ Allows("leases") /\ lease' = [lease EXCEPT !.held = "waiting"]
  /\ UNCHANGED <<picture, onDisk, lostFiles, outcome, shot, janitor, turn, usable, removed>>

(* The database copy a backup lists its images from.                       *)
CopyRows ==
  /\ lease.held = "waiting" /\ janitor = {}
  /\ lease' = [lease EXCEPT !.held = "copied", !.copied = Kept]
  /\ UNCHANGED <<picture, onDisk, lostFiles, outcome, shot, janitor, turn, usable, removed, allowance>>

(* mark_reset and queue_unlinks: pinned images too, or not.                *)
Reset ==
  /\ lease.held = "waiting" /\ janitor = {} /\ turn = Free /\ removed # "unlinking"
  /\ \E all \in {Kept, Younger \cup PastAge} :
       /\ picture' = Pruned(all, "reset")
       /\ lease' = [lease EXCEPT !.held = "reset", !.queued = @ \cup all]
  /\ UNCHANGED <<onDisk, lostFiles, outcome, shot, janitor, turn, usable, removed, allowance>>

ReleaseLease ==
  /\ lease.held \in {"copied", "reset"}
  /\ onDisk' = onDisk \ lease.queued /\ lease' = NoLease
  /\ UNCHANGED <<picture, lostFiles, outcome, shot, janitor, turn, usable, removed, allowance>>

(* What is in memory is lost; the next start sweeps before it serves.      *)
MediaRestart ==
  /\ Allows("crashes")
  /\ shot' = [n \in Shots |-> NoShot] /\ janitor' = {} /\ turn' = Free /\ lease' = NoLease
  /\ removed' = IF removed = "unlinking" THEN "done" ELSE removed
  /\ Sweep /\ UNCHANGED <<lostFiles, outcome>>

MediaInit ==
  /\ picture = [n \in Shots |-> NoPicture] /\ onDisk = {} /\ lostFiles = {}
  /\ outcome = [l \in Subjects |-> 0] /\ shot = [n \in Shots |-> NoShot]
  /\ janitor = {} /\ turn = Free /\ usable = TRUE /\ lease = NoLease /\ removed = "off"
  /\ allowance \in Allowances

Capture(n) ==
  \/ Shoot(n) \/ CameraFails(n) \/ PlanShot(n) \/ Refuse(n) \/ WriteImage(n) \/ StoreShot(n)
  \/ NotStored(n) \/ StoreFails(n) \/ UnlinkPruned(n)

MediaNext ==
  \/ \E n \in Shots : Capture(n)
  \/ PrunePass \/ JanitorUnlinks \/ RetrySweep \/ SetPinned \/ GrowsOld \/ FileLost \/ ReadImage
  \/ DeletePhotographed \/ DeletionUnlinks \/ TakeLease \/ CopyRows \/ Reset \/ ReleaseLease \/ MediaRestart

MediaSpec == MediaInit /\ [][MediaNext]_pictures
---------------------------------------------------------------------------
(* Properties                                                              *)

(* A row that was not pruned has its image, and so has every row a backup  *)
(* copied, until the lease is released, unless its Printer was deleted;    *)
(* an image with no such row is one that somebody still removes.           *)
ImagesKept ==
  /\ Kept \subseteq onDisk \cup lostFiles
  /\ \A n \in lease.copied : picture[n].state # "gone" => n \in onDisk \cup lostFiles
  /\ usable => onDisk \subseteq Kept \cup janitor \cup lease.queued
       \cup (UNION {shot[n].plan \cup {n} : n \in {n \in Shots : shot[n].pc \in {"written", "unlinking"}}})
       \cup IF removed = "unlinking" THEN Rowless ELSE {}

(* A subject has one outcome at most, whatever lags and repeats, and an    *)
(* image is never stored for it or for a request a second time.            *)
OutcomeOnce ==
  /\ \A l \in Subjects : outcome[l] <= 1 /\ Cardinality(Linked(l)) <= outcome[l]
  /\ \A r \in Requests : Cardinality(Linked(r)) <= 1

EvidenceHolds == ImagesKept /\ OutcomeOnce

(* A pin made at any moment saves an image from age and the cap; only a    *)
(* reset takes a pinned one, or the loss of its file; and a stored image   *)
(* never leaves more unpinned ones than the cap.                           *)
PruneRules ==
  [][\A n \in Shots :
       /\ picture[n].state = "kept" /\ picture[n].pinned /\ picture'[n].state # "kept" =>
            picture'[n].reason = "reset" \/ n \in lostFiles
       /\ picture[n].state = "none" /\ picture'[n].state = "kept" =>
            Cardinality({m \in Shots : picture'[m].state = "kept" /\ ~picture'[m].pinned}) <= Cap]_pictures
=============================================================================

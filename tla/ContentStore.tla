---------------------------- MODULE ContentStore ----------------------------
(***************************************************************************)
(* The Library's content store (library/content.rs), the lease that keeps  *)
(* deletions and backups apart (backup/lease.rs), and their clients: model *)
(* imports and deletions, the backup writer and the storage cleanup.       *)
(*                                                                         *)
(* One action is one database transaction, one file operation, or one wait *)
(* for a lock.  A blob is named by its hash; staged copies are private to  *)
(* their thread and left out.  An owner is whatever row may name blobs: a  *)
(* Model's revisions with their thumbnails, a Slice Revision, or the log   *)
(* of a slice operation.                                                   *)
(***************************************************************************)
EXTENDS Integers, FiniteSets, Sequences

CONSTANTS
    Hashes,      \* content hashes
    Owners,      \* rows that may name content
    Models,      \* the owners that are Models
    ContentOf,   \* [Owners -> SUBSET Hashes]: what each names while it exists
    Threads,     \* threads that run commands and background work
    None,        \* no thread, no owner
    MaxFaults    \* failed file operations and commits, and crashes

ASSUME ContentAssumption ==
    /\ ContentOf \in [Owners -> SUBSET Hashes]
    /\ Models \subseteq Owners
    /\ None \notin Threads \cup Owners
    /\ MaxFaults \in Nat

VARIABLES
    files,     \* blob files on disk
    rows,      \* content_blobs
    pending,   \* pending_blob_cleanup
    refs,      \* per owner, the hashes its rows name; {} when it has none
    placing,   \* who holds the placement lock
    lease,     \* who holds the backup lease
    permits,   \* the threads with a deletion permit
    thread,    \* per thread, where it is
    faults     \* failures so far

db == <<rows, pending, refs>>
store == <<files, db, placing, lease, permits, thread, faults>>

Idle == [at |-> "idle", owner |-> None, todo |-> {}]
Named(h, r) == \E o \in Owners : h \in r[o]

Takes(t, at, owner, hashes) == thread' = [thread EXCEPT ![t] = [at |-> at, owner |-> owner, todo |-> hashes]]
Does(t, at, hashes) == Takes(t, at, thread[t].owner, hashes)
GoTo(t, at) == Does(t, at, thread[t].todo)
Ends(t) == Takes(t, "idle", None, {})
At(t, at) == thread[t].at = at

Free(l) == l = None
Faulty == faults < MaxFaults /\ faults' = faults + 1
Well == UNCHANGED faults

(* One write transaction: rows for the placed blobs, the caller's change of*)
(* what is named, then mark_unreferenced_blobs for the candidates.         *)
Write(newRefs, placed, candidates) ==
    LET gone == {h \in candidates : h \in rows \cup placed /\ ~Named(h, newRefs)}
    IN /\ refs' = newRefs
       /\ rows' = (rows \cup placed) \ gone
       /\ pending' = pending \cup gone
---------------------------------------------------------------------------
(* Placing                                                                 *)

(* stage_from_path, then the wait for the placement lock.                  *)
BeginImport(t, m) ==
    /\ At(t, "idle") /\ refs[m] = {}
    /\ Takes(t, "place", m, ContentOf[m])
    /\ UNCHANGED <<files, db, placing, lease, permits, faults>>

(* place, for each staged file under the lock; the first that fails ends   *)
(* the commit and leaves those before it without a row.                    *)
PlaceTo(t, next) ==
    /\ Free(placing)
    /\ \/ placing' = t /\ files' = files \cup thread[t].todo /\ Well /\ next
       \/ /\ \E some \in SUBSET thread[t].todo : files' = files \cup some
          /\ UNCHANGED placing /\ Faulty
          /\ GoTo(t, "failed")

Place(t) ==
    /\ At(t, "place")
    /\ PlaceTo(t, GoTo(t, "commit"))
    /\ UNCHANGED <<db, lease, permits>>

(* The transaction: the blobs' rows and the Model, or nothing when the     *)
(* plan no longer holds.  The lock is released either way.                 *)
CommitImport(t) ==
    LET m == thread[t].owner
    IN /\ At(t, "commit") /\ m \in Models
       /\ placing' = None
       /\ IF refs[m] = {}
          THEN Write([refs EXCEPT ![m] = ContentOf[m]], thread[t].todo, {})
          ELSE UNCHANGED db
       /\ Ends(t)
       /\ UNCHANGED <<files, lease, permits, faults>>

ImportFails(t) ==
    /\ At(t, "failed") /\ thread[t].owner \in Models
    /\ Ends(t)
    /\ UNCHANGED <<files, db, placing, lease, permits, faults>>
---------------------------------------------------------------------------
(* Unlinking                                                               *)

(* deletion_permit: none while the lease is held.                          *)
Release(t) ==
    /\ At(t, "release")
    /\ IF Free(lease) THEN permits' = permits \cup {t} /\ GoTo(t, "list")
       ELSE UNCHANGED permits /\ GoTo(t, "released")
    /\ UNCHANGED <<files, db, placing, lease, faults>>

(* release_pending holds the placement lock for its whole loop.            *)
ListPending(t) ==
    /\ At(t, "list") /\ Free(placing)
    /\ placing' = t /\ Does(t, "each", pending)
    /\ UNCHANGED <<files, db, lease, permits, faults>>

\* Mutant: what was pending when the list was read is unlinked.
AnyPending(h) == TRUE

(* A blob that regained its row is kept; only its pending row goes.        *)
Stale(h) == h \notin rows
CheckPending(t) ==
    /\ At(t, "each")
    /\ \E h \in thread[t].todo : Takes(t, IF Stale(h) THEN "unlink" ELSE "drop", h, thread[t].todo)
    /\ UNCHANGED <<files, db, placing, lease, permits, faults>>

Unlink(t) ==
    LET h == thread[t].owner
    IN /\ At(t, "unlink")
       /\ \/ files' = files \ {h} /\ GoTo(t, "drop") /\ Well
          \/ files' = files /\ Does(t, "each", thread[t].todo \ {h}) /\ Faulty
       /\ UNCHANGED <<db, placing, lease, permits>>

DropPending(t) ==
    LET h == thread[t].owner
    IN /\ At(t, "drop")
       /\ pending' = pending \ {h} /\ Does(t, "each", thread[t].todo \ {h})
       /\ UNCHANGED <<files, rows, refs, placing, lease, permits, faults>>

EndRelease(t) ==
    /\ At(t, "each") /\ thread[t].todo = {}
    /\ placing' = None /\ permits' = permits \ {t}
    /\ GoTo(t, IF lease = t THEN "sweep" ELSE "released")
    /\ UNCHANGED <<files, db, lease, faults>>

(* remove_orphans, under the placement lock: files neither table names.    *)
Orphans == files \ (rows \cup pending)
RemoveOrphans(t) ==
    /\ At(t, "sweep") /\ Free(placing)
    /\ \/ files' = files \ Orphans /\ Well
       \/ (\E left \in SUBSET Orphans \ {{}} : files' = (files \ Orphans) \cup left) /\ Faulty
    /\ GoTo(t, "endLease")
    /\ UNCHANGED <<db, placing, lease, permits>>
---------------------------------------------------------------------------
(* The lease                                                               *)

(* try_acquire: the holder is set at once, then every deletion that had    *)
(* its permit before is waited for.                                        *)
Acquire(t, work) ==
    /\ At(t, "idle") /\ Free(lease)
    /\ lease' = t /\ GoTo(t, work)
    /\ UNCHANGED <<files, db, placing, permits, faults>>

\* Mutant: the lease does not wait.
NoDeletions == {}
Deletions == permits

(* write_backup: the database copy is its point in time; then every blob   *)
(* the copy lists is read.  A missing one is BACKUP_SOURCE_DAMAGED.        *)
CopyDatabase(t) ==
    /\ At(t, "copy") /\ Deletions = {}
    /\ Does(t, "read", rows)
    /\ UNCHANGED <<files, db, placing, lease, permits, faults>>

ReadBlob(t) ==
    /\ At(t, "read")
    /\ \/ \E h \in thread[t].todo :
             IF h \in files THEN Does(t, "read", thread[t].todo \ {h})
                            ELSE Does(t, "endLease", {})
       \/ thread[t].todo = {} /\ GoTo(t, "endLease")
    /\ UNCHANGED <<files, db, placing, lease, permits, faults>>

(* clear_unreferenced: candidates are read first, and marked under the     *)
(* placement lock, where each is checked again.                            *)
ReadCandidates(t) ==
    /\ At(t, "clear") /\ Deletions = {}
    /\ Does(t, "mark", {h \in rows : ~Named(h, refs)})
    /\ UNCHANGED <<files, db, placing, lease, permits, faults>>

MarkCandidates(t) ==
    /\ At(t, "mark") /\ Free(placing)
    /\ Write(refs, {}, thread[t].todo)
    /\ Does(t, "list", {})
    /\ UNCHANGED <<files, placing, lease, permits, faults>>

(* Dropping the guard runs the release hook on the same thread.            *)
EndLease(t) ==
    /\ At(t, "endLease")
    /\ lease' = None /\ Does(t, "release", {})
    /\ UNCHANGED <<files, db, placing, permits, faults>>
---------------------------------------------------------------------------
(* What every thread does with the store, whatever brought it there.       *)
StoreStep(t) ==
    \/ Place(t) \/ CommitImport(t) \/ ImportFails(t)
    \/ Release(t) \/ ListPending(t) \/ CheckPending(t) \/ Unlink(t) \/ DropPending(t)
    \/ EndRelease(t) \/ RemoveOrphans(t)
    \/ CopyDatabase(t) \/ ReadBlob(t) \/ ReadCandidates(t) \/ MarkCandidates(t) \/ EndLease(t)

(* A Library with the Models that were imported before.                    *)
StoreInit(have) ==
    /\ refs = [o \in Owners |-> IF o \in have THEN ContentOf[o] ELSE {}]
    /\ files = UNION {ContentOf[m] : m \in have} /\ rows = files
    /\ pending = {}
    /\ placing = None /\ lease = None /\ permits = {}
    /\ thread = [t \in Threads |-> Idle] /\ faults = 0
---------------------------------------------------------------------------
(* What the store promises                                                 *)

(* Whatever a revision or a log names has its row and its file, through    *)
(* imports, deletions, cleanups, failed unlinks and crashes in between.    *)
Stored == /\ \A o \in Owners : refs[o] \subseteq rows
          /\ rows \subseteq files

(* No blob the copy of a backup lists goes while the backup reads it,      *)
(* whoever deletes what meanwhile.                                         *)
CopiedFilesStay ==
    \A t \in Threads : At(t, "read") => thread[t].todo \subseteq files

(* Nobody's content goes while it is still named.                          *)
ContentStays == Stored /\ CopiedFilesStay
=============================================================================

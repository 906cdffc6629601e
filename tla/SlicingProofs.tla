---------------------------- MODULE SlicingProofs ----------------------------
(***************************************************************************)
(* Theorems of Slicing and of the content store under it, for any content, *)
(* owners, threads, operations and numbers of commands and faults.         *)
(***************************************************************************)
EXTENDS Slicing, FiniteSetTheorems, TLAPS

\* The stages in which a thread holds the placement lock, holds the lease, or may unlink.
Placers == {"commit", "each", "unlink", "drop", "succeed", "cancelLog", "endLog", "lastLog"}
Leased == {"copy", "read", "clear", "mark", "sweep", "endLease"}
Deleters == {"list", "each", "unlink", "drop"}
Logging == {"cancelLog", "endLog", "lastLog"}

Shaped ==
    /\ thread = [t \in Threads |-> [at |-> thread[t].at, owner |-> thread[t].owner, todo |-> thread[t].todo]]
    /\ refs \in [Owners -> SUBSET Hashes]

\* What has to be true of a thread: which lock it holds where it is, that what it has placed
\* and is about to give a row is still there, that what it is about to unlink has none, and
\* that nothing is deleted while it reads for a backup.
Fine(t) ==
    /\ thread[t].at \in Placers => placing = t
    /\ thread[t].at \in Leased => lease = t
    /\ thread[t].at \in Deleters => t \in permits \/ lease = t
    /\ thread[t].at \in {"place", "commit"} => thread[t].todo = ContentOf[thread[t].owner]
    /\ t = W /\ thread[t].at \in {"publish", "succeed"} => thread[t].todo = ContentOf[Rev[current]]
    /\ thread[t].at \in {"commit", "succeed"} => thread[t].todo \subseteq files
    /\ t = W /\ thread[t].at \in Logging => ContentOf[Log[current]] \subseteq files
    /\ thread[t].at = "unlink" => thread[t].owner \notin rows
    /\ thread[t].at = "read" => permits = {} /\ thread[t].todo \subseteq files

\* Nothing else goes on while the startup sweep unlinks.
Alone == At(W, "starting") =>
    /\ current = None /\ placing = None /\ lease = None /\ permits = {}
    /\ \A t \in Users : At(t, "idle")

\* The inductive invariant behind ContentStays.
ContentInv == Shaped /\ Stored /\ Alone /\ \A t \in Threads : Fine(t)

(***************************************************************************)
(* Moving a thread.                                                        *)
(***************************************************************************)
Others(t) == \A u \in Threads \ {t} : thread'[u] = thread[u]
ThreadShape == thread = [t \in Threads |-> [at |-> thread[t].at, owner |-> thread[t].owner, todo |-> thread[t].todo]]

LEMMA Taking ==
  ASSUME ThreadShape, NEW t \in Threads, NEW at, NEW owner, NEW hashes, Takes(t, at, owner, hashes)
  PROVE  /\ ThreadShape' /\ Others(t)
         /\ thread'[t].at = at /\ thread'[t].owner = owner /\ thread'[t].todo = hashes
BY DEF ThreadShape, Others, Takes

\* A step of t leaves the locks of the others alone, unlinks only with its right to, and gives
\* rows to blobs only under the placement lock.
Behaves(t) ==
    /\ placing' # placing => placing \in {None, t}
    /\ lease' # lease => lease \in {None, t}
    /\ permits \ {t} \subseteq permits' /\ (permits' \subseteq permits \/ lease = None)
    /\ files \subseteq files' \/ (placing \in {None, t} /\ (t \in permits \/ lease = t))
    /\ rows' \subseteq rows \/ placing = t
    /\ t # W => current' = current

LEMMA OthersFine ==
  ASSUME ContentInv, NEW t \in Threads, Others(t), Behaves(t), NEW u \in Threads \ {t}
  PROVE  Fine(u)'
<1> USE ContentAssumption
<1>1. u # None /\ thread'[u] = thread[u] /\ Fine(u)
  BY DEF Others, ContentInv
<1>2. u = W => current' = current
  BY DEF Behaves
<1>3. thread[u].at \in Placers => placing = u /\ placing' = u /\ files \subseteq files' /\ rows' \subseteq rows
  BY <1>1 DEF Fine, Behaves
<1>4. thread[u].at \in Leased => lease = u /\ lease' = u
  BY <1>1 DEF Fine, Behaves
<1>5. thread[u].at \in Deleters => u \in permits' \/ lease' = u
  BY <1>1 DEF Fine, Behaves
<1>6. thread[u].at = "read" => permits' = {} /\ files \subseteq files'
  BY <1>1, <1>4 DEF Fine, Behaves, Leased
<1> QED  BY <1>1, <1>2, <1>3, <1>4, <1>5, <1>6 DEF Fine, Placers, Logging

LEMMA StepKeeps ==
  ASSUME ContentInv, NEW t \in Threads, ThreadShape', Others(t), Behaves(t), Fine(t)',
         refs' \in [Owners -> SUBSET Hashes], Stored',
         IF t = W THEN thread'[W].at # "starting" ELSE ~At(W, "starting")
  PROVE  ContentInv'
<1>1. \A u \in Threads : Fine(u)'
  BY OthersFine
<1>2. Alone'
  BY SlicingAssumption DEF Alone, At, W, Others
<1> QED  BY <1>1, <1>2 DEF ContentInv, Shaped, ThreadShape

\* A thread that moves while the store stays as it is.
LEMMA MoveKeeps ==
  ASSUME ContentInv, NEW t \in Threads, ThreadShape', Others(t),
         UNCHANGED <<files, db, placing, lease, permits>>, t # W => current' = current, Fine(t)',
         IF t = W THEN thread'[W].at # "starting" ELSE ~At(W, "starting")
  PROVE  ContentInv'
<1>1. refs' \in [Owners -> SUBSET Hashes] /\ Stored'
  BY DEF ContentInv, Shaped, Stored, db
<1>2. Behaves(t)
  BY DEF Behaves, db
<1> QED  BY <1>1, <1>2, StepKeeps

\* One transaction: what is named afterwards had a row or was placed for it.
LEMMA Written ==
  ASSUME Stored, NEW new \in [Owners -> SUBSET Hashes], NEW placed, NEW candidates,
         Write(new, placed, candidates), placed \subseteq files, files' = files,
         \A o \in Owners : new[o] \subseteq rows \cup placed
  PROVE  refs' \in [Owners -> SUBSET Hashes] /\ Stored' /\ rows' \subseteq rows \cup placed
BY DEF Stored, Write, Named
LEMMA Transitioned ==
  ASSUME ContentInv, NEW o, NEW to, NEW logged \in BOOLEAN, NEW placed, Transition(o, to, logged, placed),
         placed \subseteq files, files' = files, logged => ContentOf[Log[o]] \subseteq placed
  PROVE  refs' \in [Owners -> SUBSET Hashes] /\ Stored' /\ rows' \subseteq rows \cup placed
<1> DEFINE named == IF logged THEN [refs EXCEPT ![Log[o]] = ContentOf[Log[o]]] ELSE refs
           order == IF to \in {"failed", "cancelled"} THEN Append(ended, o) ELSE ended
           lost == {Log[p] : p \in IF to \in {"failed", "cancelled"} THEN Pruned(order, named) ELSE {}}
           candidates == UNION {named[x] : x \in lost}
<1>1. named \in [Owners -> SUBSET Hashes] /\ \A x \in Owners : named[x] \subseteq rows \cup placed
  BY ContentAssumption DEF ContentInv, Shaped, Stored
<1>2. Write(Drop(lost, named), placed, candidates)
  BY DEF Transition
<1> HIDE DEF named, lost, candidates
<1>3. Drop(lost, named) \in [Owners -> SUBSET Hashes] /\ \A x \in Owners : Drop(lost, named)[x] \subseteq rows \cup placed
  BY <1>1 DEF Drop
<1> QED  BY <1>2, <1>3, Written DEF ContentInv

(***************************************************************************)
(* Steps after which the thread holds and owes nothing.                    *)
(***************************************************************************)
Quiet(at) == at \notin Placers \cup Leased \cup Deleters \cup {"place", "publish", "starting"}
StoreStays == UNCHANGED <<files, db, placing, lease, permits>>
Awake(t) == t # W => ~At(W, "starting") /\ current' = current

LEMMA Working ==
  ASSUME ContentInv, NEW t \in Threads, thread[t].at # "idle"
  PROVE  t # W => ~At(W, "starting")
BY DEF ContentInv, Alone, At, Users, W

LEMMA QuietMove ==
  ASSUME ContentInv, NEW t \in Threads, NEW at, NEW owner, NEW hashes, Takes(t, at, owner, hashes),
         Quiet(at), StoreStays, Awake(t)
  PROVE  ContentInv'
<1>1. ThreadShape' /\ Others(t) /\ thread'[t].at = at
  BY Taking DEF ContentInv, Shaped, ThreadShape
<1>2. Fine(t)'
  BY <1>1 DEF Fine, Quiet, Placers, Leased, Deleters, Logging
<1> QED  BY <1>1, <1>2, MoveKeeps DEF Quiet, StoreStays, Awake

LEMMA QuietWrite ==
  ASSUME ContentInv, NEW t \in Threads, NEW at, NEW owner, NEW hashes, Takes(t, at, owner, hashes), Quiet(at), Awake(t),
         UNCHANGED <<files, lease, permits>>, placing' # placing => placing = t,
         refs' \in [Owners -> SUBSET Hashes], Stored', rows' \subseteq rows \/ placing = t
  PROVE  ContentInv'
<1>1. ThreadShape' /\ Others(t) /\ thread'[t].at = at
  BY Taking DEF ContentInv, Shaped, ThreadShape
<1>2. Fine(t)' /\ Behaves(t)
  BY <1>1 DEF Fine, Behaves, Quiet, Placers, Leased, Deleters, Logging, Awake
<1> QED  BY <1>1, <1>2, StepKeeps DEF Quiet, Awake

LEMMA CommandsKeep ==
  ASSUME ContentInv, NEW t \in Users, Enqueue(t) \/ Cancel(t) \/ CancelAfterStart(t) \/ CancelUnheld(t)
  PROVE  ContentInv'
<1>1. t \in Threads /\ t # W /\ Awake(t) /\ StoreStays
  BY Working DEF Users, W, Awake, StoreStays, At, Enqueue, Cancel, CancelAfterStart, CancelUnheld, slices, sched
<1>2. CASE Enqueue(t)
  BY <1>1, <1>2, QuietMove DEF Enqueue, Ends, Quiet, Placers, Leased, Deleters
<1>3. ASSUME NEW at \in {"cancelUnstarted", "cancelAfterStart", "cancelUnheld", "idle"},
             \E owner, hashes : Takes(t, at, owner, hashes)
      PROVE  ContentInv'
  BY <1>1, <1>3, QuietMove DEF Quiet, Placers, Leased, Deleters
<1>4. CASE Cancel(t) \/ CancelAfterStart(t)
  BY <1>3, <1>4 DEF Cancel, CancelAfterStart, CancelScheduled, GoTo, Does, Ends
<1>5. CASE CancelUnheld(t)
  BY <1>3, <1>5 DEF CancelUnheld, GoTo, Does, Ends
<1> QED  BY <1>2, <1>4, <1>5

LEMMA Tried ==
  ASSUME ContentInv, NEW o, NEW to, Transition(o, to, FALSE, {}) \/ UNCHANGED db, files' = files
  PROVE  refs' \in [Owners -> SUBSET Hashes] /\ Stored' /\ rows' \subseteq rows
<1>1. CASE Transition(o, to, FALSE, {})
  <2>1. {} \subseteq files /\ FALSE \in BOOLEAN
    OBVIOUS
  <2>2. refs' \in [Owners -> SUBSET Hashes] /\ Stored' /\ rows' \subseteq rows \cup {}
    BY <1>1, <2>1, Transitioned, Zenon
  <2> QED  BY <2>2
<1>2. CASE UNCHANGED db
  BY <1>2 DEF db, ContentInv, Shaped, Stored
<1> QED  BY <1>1, <1>2

LEMMA CancelUnstartedKeeps == ASSUME ContentInv, NEW t \in Users, CancelUnstarted(t)  PROVE ContentInv'
<1>1. t \in Threads /\ Awake(t) /\ Takes(t, "release", thread[t].owner, thread[t].todo)
  BY Working DEF Users, W, Awake, At, CancelUnstarted, Try, GoTo, Does, sched
<1>2. UNCHANGED <<files, lease, permits, placing>>
      /\ (Transition(Mine(t), "cancelled", FALSE, {}) \/ UNCHANGED db)
  BY DEF CancelUnstarted, Try, Holds
<1>3. refs' \in [Owners -> SUBSET Hashes] /\ Stored' /\ rows' \subseteq rows
  BY <1>2, Tried
<1> QED  BY <1>1, <1>2, <1>3, QuietWrite DEF Quiet, Placers, Leased, Deleters

(***************************************************************************)
(* The slicer thread.                                                      *)
(***************************************************************************)
LEMMA WorkerAwake == W \in Threads /\ Awake(W)
BY SlicingAssumption DEF Awake, W

LEMMA WorkerMovesKeep ==
  ASSUME ContentInv, Pop \/ Claim \/ Spawn \/ Exit \/ FailOperation \/ Settle
  PROVE  ContentInv'
<1>1. StoreStays
  BY DEF StoreStays, Pop, Claim, Spawn, Exit, FailOperation, Settle, slices
<1>2. ASSUME NEW at \in {"claimed", "settle", "endUnstarted", "spawn", "cancelledRun", "spawned", "failedRun", "stage",
                         "failLog", "idle"},
             \E owner, hashes : Takes(W, at, owner, hashes)
      PROVE  ContentInv'
  BY <1>1, <1>2, WorkerAwake, QuietMove DEF Quiet, Placers, Leased, Deleters
<1>3. CASE Pop \/ Claim \/ Spawn
  BY <1>2, <1>3 DEF Pop, Claim, Spawn, Go, GoTo, Does
<1>4. CASE Exit \/ FailOperation \/ Settle
  BY <1>2, <1>4 DEF Exit, FailOperation, Settle, Go, GoTo, Does, Ends
<1> QED  BY <1>3, <1>4

LEMMA StageKeeps == ASSUME ContentInv, Stage  PROVE ContentInv'
<1>1. StoreStays /\ current' = current
  BY DEF Stage, StoreStays, slices, sched
<1>2. CASE Job \in flag
  BY <1>1, <1>2, WorkerAwake, QuietMove DEF Stage, Go, GoTo, Does, Quiet, Placers, Leased, Deleters
<1>3. CASE Job \notin flag
  <2>1. ThreadShape' /\ Others(W) /\ thread'[W].at = "publish" /\ thread'[W].todo = ContentOf[Rev[current]]
    BY <1>3, WorkerAwake, Taking DEF Stage, Does, Job, ContentInv, Shaped, ThreadShape
  <2>2. Fine(W)'
    BY <1>1, <2>1 DEF Fine, Placers, Leased, Deleters, Logging
  <2> QED  BY <1>1, <2>1, <2>2, WorkerAwake, MoveKeeps DEF StoreStays
<1> QED  BY <1>2, <1>3

LEMMA UnloggedEndsKeep ==
  ASSUME ContentInv, EndUnstarted \/ Spawned \/ FailPlain
  PROVE  ContentInv'
<1>1. UNCHANGED <<files, lease, permits, placing>>
  BY DEF EndUnstarted, Spawned, FailPlain, Holds
<1>2. \E to : Transition(Job, to, FALSE, {}) \/ UNCHANGED db
  BY DEF EndUnstarted, Spawned, FailPlain, Try
<1>3. refs' \in [Owners -> SUBSET Hashes] /\ Stored' /\ rows' \subseteq rows
  BY <1>1, <1>2, Tried
<1>4. \E at \in {"release", "running"} : \E owner, hashes : Takes(W, at, owner, hashes)
  BY DEF EndUnstarted, Spawned, FailPlain, Try, Go, GoTo, Does
<1> QED  BY <1>1, <1>3, <1>4, WorkerAwake, QuietWrite DEF Quiet, Placers, Leased, Deleters
\* place by a thread that waits for the lock: all its hashes under the lock, or some without it.
LEMMA PlacesKeep ==
  ASSUME ContentInv, NEW t \in Threads, Free(placing), NEW next \in {"commit", "succeed", "failed"},
         thread[t].at \notin {"idle", "starting"}, UNCHANGED <<db, lease, permits, current>>,
         \/ placing' = t /\ files' = files \cup thread[t].todo /\ GoTo(t, next) /\ next # "failed"
         \/ files \subseteq files' /\ placing' = placing /\ GoTo(t, next) /\ next = "failed",
         next = "commit" => thread[t].at = "place", next = "succeed" => t = W /\ thread[t].at = "publish"
  PROVE  ContentInv'
<1>1. ThreadShape' /\ Others(t) /\ thread'[t].at = next /\ thread'[t].owner = thread[t].owner
      /\ thread'[t].todo = thread[t].todo
  BY Taking DEF GoTo, Does, ContentInv, Shaped, ThreadShape
<1>2. refs' \in [Owners -> SUBSET Hashes] /\ Stored' /\ files \subseteq files' /\ rows' = rows
  BY DEF db, ContentInv, Shaped, Stored
<1>3. Behaves(t)
  BY <1>2 DEF Behaves, Free
<1>4. Fine(t)
  BY DEF ContentInv
<1>5. Fine(t)'
  BY <1>1, <1>2, <1>4 DEF Fine, Placers, Leased, Deleters, Logging
<1>6. IF t = W THEN thread'[W].at # "starting" ELSE ~At(W, "starting")
  BY <1>1, Working
<1> QED  BY <1>1, <1>2, <1>3, <1>5, <1>6, StepKeeps

LEMMA PlaceOutputsKeeps == ASSUME ContentInv, PlaceOutputs  PROVE ContentInv'
<1>1. /\ Free(placing) /\ thread[W].at = "publish" /\ UNCHANGED <<db, lease, permits, current>>
  BY DEF PlaceOutputs, At, slices, sched
<1>2. CASE Job \in flag
  BY <1>1, <1>2, WorkerAwake, QuietMove
     DEF PlaceOutputs, StoreStays, Go, GoTo, Does, Quiet, Placers, Leased, Deleters
<1>3. CASE Job \notin flag
  BY <1>1, <1>3, WorkerAwake, PlacesKeep DEF PlaceOutputs, PlaceTo, Go
<1> QED  BY <1>2, <1>3

LEMMA PublishKeeps == ASSUME ContentInv, Publish  PROVE ContentInv'
<1>1. /\ thread[W].at = "succeed" /\ placing = W /\ thread[W].todo = ContentOf[Rev[current]]
      /\ thread[W].todo \subseteq files /\ UNCHANGED <<files, lease, permits>>
  BY WorkerAwake DEF Publish, At, ContentInv, Fine, Placers
<1>2. \/ Write([refs EXCEPT ![Rev[current]] = ContentOf[Rev[current]]], thread[W].todo, {})
      \/ UNCHANGED db
  BY DEF Publish, Job
<1>3. refs' \in [Owners -> SUBSET Hashes] /\ Stored'
  <2> DEFINE new == [refs EXCEPT ![Rev[current]] = ContentOf[Rev[current]]]
  <2>1. new \in [Owners -> SUBSET Hashes] /\ \A o \in Owners : new[o] \subseteq rows \cup thread[W].todo
    BY <1>1, ContentAssumption DEF ContentInv, Shaped, Stored
  <2>2. CASE Write(new, thread[W].todo, {})
    <3> HIDE DEF new
    <3> QED  BY <1>1, <2>1, <2>2, Written DEF ContentInv
  <2>3. CASE UNCHANGED db
    BY <1>1, <2>3 DEF db, ContentInv, Shaped, Stored
  <2> QED  BY <1>2, <2>2, <2>3
<1>4. \E at \in {"settle", "failed"} : \E owner, hashes : Takes(W, at, owner, hashes)
  BY DEF Publish, Go, GoTo, Does
<1> QED  BY <1>1, <1>3, <1>4, WorkerAwake, QuietWrite DEF Quiet, Placers, Leased, Deleters

LEMMA PlaceLogKeeps == ASSUME ContentInv, PlaceLog  PROVE ContentInv'
<1>1. Free(placing) /\ UNCHANGED <<db, lease, permits, current>>
  BY DEF PlaceLog, slices, sched
<1>2. CASE files' = files /\ placing' = placing
  <2>1. \E at \in {"failed", "failPlain"} : \E owner, hashes : Takes(W, at, owner, hashes)
    BY <1>1, <1>2, SlicingAssumption, ContentAssumption DEF PlaceLog, Free, Go, GoTo, Does, W
  <2> QED  BY <1>1, <1>2, <2>1, WorkerAwake, QuietMove DEF StoreStays, Quiet, Placers, Leased, Deleters
<1>3. ASSUME NEW next \in Logging, placing' = W, files' = files \cup ContentOf[Log[current]], GoTo(W, next)
      PROVE  ContentInv'
  <2>1. ThreadShape' /\ Others(W) /\ thread'[W].at = next
    BY <1>3, WorkerAwake, Taking DEF GoTo, Does, ContentInv, Shaped, ThreadShape
  <2>2. refs' \in [Owners -> SUBSET Hashes] /\ Stored'
    BY <1>1, <1>3 DEF db, ContentInv, Shaped, Stored
  <2>3. Behaves(W)
    BY <1>1, <1>3 DEF Behaves, Free, db
  <2>4. Fine(W)'
    BY <1>1, <1>3, <2>1 DEF Fine, Placers, Leased, Deleters, Logging
  <2> QED  BY <2>1, <2>2, <2>3, <2>4, WorkerAwake, StepKeeps DEF Logging
<1> QED  BY <1>2, <1>3 DEF PlaceLog, Logging, Go, Job

LEMMA EndWithLogKeeps == ASSUME ContentInv, EndWithLog  PROVE ContentInv'
<1>1. /\ placing = W /\ ContentOf[Log[current]] \subseteq files /\ UNCHANGED <<files, lease, permits>>
  BY WorkerAwake DEF EndWithLog, ContentInv, Fine, Placers, Logging
<1>2. \E to : Transition(Job, to, TRUE, ContentOf[Log[Job]]) \/ UNCHANGED db
  BY DEF EndWithLog, Try
<1>3. refs' \in [Owners -> SUBSET Hashes] /\ Stored'
  <2>1. CASE UNCHANGED db
    BY <1>1, <2>1 DEF db, ContentInv, Shaped, Stored
  <2>2. ASSUME NEW to, Transition(Job, to, TRUE, ContentOf[Log[Job]])
        PROVE  refs' \in [Owners -> SUBSET Hashes] /\ Stored'
    BY <1>1, <2>2, Transitioned DEF Job
  <2> QED  BY <1>2, <2>1, <2>2
<1>4. \E at \in {"release", "failPlain", "failed"} : \E owner, hashes : Takes(W, at, owner, hashes)
  BY DEF EndWithLog, Try, Go, GoTo, Does
<1> QED  BY <1>1, <1>3, <1>4, WorkerAwake, QuietWrite DEF Quiet, Placers, Leased, Deleters

LEMMA SweepKeeps == ASSUME ContentInv, Sweep  PROVE ContentInv'
<1>1. /\ thread[W].at = "starting" /\ UNCHANGED <<rows, refs, placing, lease, permits, current>>
      /\ \E stuck, left : files' = (files \ ((pending \ rows) \cup Orphans)) \cup (stuck \cap files) \cup left
  BY DEF Sweep, At, slices, sched
<1>2. ThreadShape' /\ Others(W) /\ thread'[W].at = "recover"
  BY WorkerAwake, Taking DEF Sweep, Go, GoTo, Does, ContentInv, Shaped, ThreadShape
<1>3. refs' \in [Owners -> SUBSET Hashes] /\ Stored'
  BY <1>1 DEF Orphans, ContentInv, Shaped, Stored
<1>4. \A t \in Threads : thread'[t].at \in {"idle", "recover"}
  BY <1>1, <1>2 DEF ContentInv, Alone, At, Others, Users, W
<1>5. \A t \in Threads : Fine(t)'
  BY <1>4 DEF Fine, Placers, Leased, Deleters, Logging
<1> QED  BY <1>2, <1>3, <1>5 DEF ContentInv, Shaped, ThreadShape, Alone, At

LEMMA RecoverKeeps == ASSUME ContentInv, Recover  PROVE ContentInv'
<1> DEFINE lost == {Log[o] : o \in Pruned(ended, refs)}
<1>1. /\ UNCHANGED <<files, placing, lease, permits>> /\ Write(Drop(lost, refs), {}, Content(lost))
      /\ Takes(W, "release", thread[W].owner, {})
  BY DEF Recover, Does
<1> HIDE DEF lost
<1>2. Drop(lost, refs) \in [Owners -> SUBSET Hashes] /\ \A o \in Owners : Drop(lost, refs)[o] \subseteq rows \cup {}
  BY DEF Drop, ContentInv, Shaped, Stored
<1>3. refs' \in [Owners -> SUBSET Hashes] /\ Stored' /\ rows' \subseteq rows \cup {}
  BY <1>1, <1>2, Written DEF ContentInv
<1> QED  BY <1>1, <1>3, WorkerAwake, QuietWrite DEF Quiet, Placers, Leased, Deleters

LEMMA WorkerKeeps == ASSUME ContentInv, WorkerStep  PROVE ContentInv'
BY WorkerMovesKeep, StageKeeps, UnloggedEndsKeep, PlaceOutputsKeeps, PublishKeeps, PlaceLogKeeps, EndWithLogKeeps,
   SweepKeeps, RecoverKeeps DEF WorkerStep
(***************************************************************************)
(* The content store.                                                      *)
(***************************************************************************)
LEMMA StoreAwake ==
  ASSUME ContentInv, NEW t \in Threads, UNCHANGED slices, thread[t].at # "idle"
  PROVE  Awake(t)
BY Working DEF Awake, slices, sched

LEMMA PlaceKeeps == ASSUME ContentInv, NEW t \in Threads, UNCHANGED slices, Place(t)  PROVE ContentInv'
<1>1. Free(placing) /\ thread[t].at = "place" /\ UNCHANGED <<db, lease, permits, current>>
  BY DEF Place, PlaceTo, At, slices, sched
<1> QED  BY <1>1, PlacesKeep DEF Place, PlaceTo

LEMMA CommitImportKeeps == ASSUME ContentInv, NEW t \in Threads, UNCHANGED slices, CommitImport(t)  PROVE ContentInv'
<1> DEFINE m == thread[t].owner
           new == [refs EXCEPT ![m] = ContentOf[m]]
<1>1. /\ thread[t].at = "commit" /\ placing = t /\ m \in Owners /\ thread[t].todo = ContentOf[m]
      /\ thread[t].todo \subseteq files /\ UNCHANGED <<files, lease, permits>> /\ Awake(t)
      /\ Takes(t, "idle", None, {})
  BY StoreAwake, ContentAssumption DEF CommitImport, At, ContentInv, Fine, Placers, Ends
<1>2. refs' \in [Owners -> SUBSET Hashes] /\ Stored'
  <2>1. new \in [Owners -> SUBSET Hashes] /\ \A o \in Owners : new[o] \subseteq rows \cup thread[t].todo
    BY <1>1, ContentAssumption DEF ContentInv, Shaped, Stored
  <2>2. CASE Write(new, thread[t].todo, {})
    <3> HIDE DEF new
    <3> QED  BY <1>1, <2>1, <2>2, Written DEF ContentInv
  <2>3. CASE UNCHANGED db
    BY <1>1, <2>3 DEF db, ContentInv, Shaped, Stored
  <2> QED  BY <2>2, <2>3 DEF CommitImport
<1> QED  BY <1>1, <1>2, QuietWrite DEF Quiet, Placers, Leased, Deleters

LEMMA ReleaseKeeps == ASSUME ContentInv, NEW t \in Threads, UNCHANGED slices, Release(t)  PROVE ContentInv'
<1>1. /\ thread[t].at = "release" /\ Awake(t) /\ t # None /\ UNCHANGED <<files, db, placing, lease>>
  BY StoreAwake, ContentAssumption DEF Release, At
<1>2. CASE ~Free(lease)
  BY <1>1, <1>2, QuietMove DEF Release, StoreStays, GoTo, Does, Quiet, Placers, Leased, Deleters
<1>3. CASE Free(lease)
  <2>1. ThreadShape' /\ Others(t) /\ thread'[t].at = "list" /\ permits' = permits \cup {t}
    BY <1>3, Taking DEF Release, GoTo, Does, ContentInv, Shaped, ThreadShape
  <2>2. Behaves(t) /\ Fine(t)'
    BY <1>1, <1>3, <2>1 DEF Behaves, Fine, Free, Awake, db, Placers, Leased, Deleters, Logging
  <2> QED  BY <1>1, <2>1, <2>2, StepKeeps DEF ContentInv, Shaped, Stored, db, Awake
<1> QED  BY <1>2, <1>3

LEMMA ReleaseLoopKeeps ==
  ASSUME ContentInv, NEW t \in Threads, UNCHANGED slices,
         ListPending(t) \/ CheckPending(t) \/ DropPending(t) \/ EndRelease(t)
  PROVE  ContentInv'
<1>1. Fine(t) /\ UNCHANGED <<files, lease, rows, refs>>
  BY DEF ContentInv, ListPending, CheckPending, DropPending, EndRelease, db
<1>2. thread[t].at \in Deleters /\ Awake(t)
  BY StoreAwake DEF ListPending, CheckPending, DropPending, EndRelease, At, Deleters
<1>3. refs' \in [Owners -> SUBSET Hashes] /\ Stored'
  BY <1>1 DEF ContentInv, Shaped, Stored
<1>4. CASE ListPending(t)
  <2>1. ThreadShape' /\ Others(t) /\ thread'[t].at = "each"
    BY <1>4, Taking DEF ListPending, Does, ContentInv, Shaped, ThreadShape
  <2>2. Behaves(t) /\ Fine(t)'
    BY <1>1, <1>2, <1>4, <2>1 DEF ListPending, Behaves, Fine, Free, Awake, Placers, Leased, Deleters, Logging
  <2> QED  BY <1>2, <1>3, <2>1, <2>2, StepKeeps DEF Awake
<1>5. CASE CheckPending(t)
  <2>1. PICK h \in thread[t].todo : Takes(t, IF Stale(h) THEN "unlink" ELSE "drop", h, thread[t].todo)
    BY <1>5 DEF CheckPending
  <2>2. ThreadShape' /\ Others(t) /\ thread'[t].at = (IF Stale(h) THEN "unlink" ELSE "drop") /\ thread'[t].owner = h
    BY <2>1, Taking DEF ContentInv, Shaped, ThreadShape
  <2>3. thread[t].at = "each" /\ UNCHANGED <<files, db, placing, lease, permits>>
    BY <1>5 DEF CheckPending, At
  <2>4. Fine(t)'
    BY <1>1, <2>2, <2>3 DEF Fine, Stale, Placers, Leased, Deleters, Logging
  <2> QED  BY <1>2, <2>2, <2>3, <2>4, MoveKeeps DEF Awake
<1>6. CASE DropPending(t)
  <2>1. ThreadShape' /\ Others(t) /\ thread'[t].at = "each" /\ thread[t].at = "drop" /\ UNCHANGED <<placing, permits>>
    BY <1>6, Taking DEF DropPending, Does, At, ContentInv, Shaped, ThreadShape
  <2>2. Behaves(t) /\ Fine(t)'
    BY <1>1, <1>2, <2>1 DEF Behaves, Fine, Awake, Placers, Leased, Deleters, Logging
  <2> QED  BY <1>2, <1>3, <2>1, <2>2, StepKeeps DEF Awake
<1>7. CASE EndRelease(t)
  <2>1. /\ ThreadShape' /\ Others(t) /\ thread'[t].at = (IF lease = t THEN "sweep" ELSE "released")
        /\ thread[t].at = "each" /\ placing' = None /\ permits' = permits \ {t}
    BY <1>7, Taking DEF EndRelease, GoTo, Does, At, ContentInv, Shaped, ThreadShape
  <2>2. Behaves(t) /\ Fine(t)'
    BY <1>1, <1>2, <2>1 DEF Behaves, Fine, Awake, Placers, Leased, Deleters, Logging
  <2> QED  BY <1>2, <1>3, <2>1, <2>2, StepKeeps DEF Awake
<1> QED  BY <1>4, <1>5, <1>6, <1>7

LEMMA UnlinkKeeps == ASSUME ContentInv, NEW t \in Threads, UNCHANGED slices, Unlink(t)  PROVE ContentInv'
<1>1. /\ thread[t].at = "unlink" /\ Fine(t) /\ Awake(t) /\ UNCHANGED <<db, placing, lease, permits>>
  BY StoreAwake DEF Unlink, At, ContentInv
<1>2. files' \in {files, files \ {thread[t].owner}} /\ \E at \in {"drop", "each"} : \E hashes : Does(t, at, hashes)
  BY DEF Unlink, GoTo
<1>3. ThreadShape' /\ Others(t) /\ thread'[t].at \in {"drop", "each"}
  BY <1>2, Taking DEF Does, ContentInv, Shaped, ThreadShape
<1>4. refs' \in [Owners -> SUBSET Hashes] /\ Stored'
  BY <1>1, <1>2 DEF Fine, db, ContentInv, Shaped, Stored
<1>5. Behaves(t) /\ Fine(t)'
  BY <1>1, <1>3 DEF Behaves, Fine, Awake, db, Placers, Leased, Deleters, Logging
<1> QED  BY <1>1, <1>3, <1>4, <1>5, StepKeeps DEF Awake

LEMMA LeaseKeeps ==
  ASSUME ContentInv, NEW t \in Threads, UNCHANGED slices,
         RemoveOrphans(t) \/ CopyDatabase(t) \/ ReadBlob(t) \/ ReadCandidates(t) \/ MarkCandidates(t) \/ EndLease(t)
  PROVE  ContentInv'
<1>1. Fine(t) /\ thread[t].at \in Leased /\ Awake(t) /\ UNCHANGED <<refs, permits>> /\ lease = t
  BY StoreAwake
     DEF ContentInv, Fine, At, db, Leased, RemoveOrphans, CopyDatabase, ReadBlob, ReadCandidates, MarkCandidates, EndLease, Write
<1>2. CASE RemoveOrphans(t)
  <2>1. ThreadShape' /\ Others(t) /\ thread'[t].at = "endLease" /\ UNCHANGED <<rows, placing, lease>> /\ Free(placing)
        /\ files \ Orphans \subseteq files'
    BY <1>2, Taking DEF RemoveOrphans, GoTo, Does, db, ContentInv, Shaped, ThreadShape
  <2>2. refs' \in [Owners -> SUBSET Hashes] /\ Stored'
    BY <1>1, <2>1 DEF Orphans, ContentInv, Shaped, Stored
  <2>3. Behaves(t) /\ Fine(t)'
    BY <1>1, <2>1 DEF Behaves, Fine, Free, Awake, Placers, Leased, Deleters, Logging
  <2> QED  BY <1>1, <2>1, <2>2, <2>3, StepKeeps DEF Awake
<1>3. CASE CopyDatabase(t)
  <2>1. ThreadShape' /\ Others(t) /\ thread'[t].at = "read" /\ thread'[t].todo = rows
        /\ UNCHANGED <<files, db, placing, lease>> /\ permits = {}
    BY <1>3, Taking DEF CopyDatabase, Deletions, Does, ContentInv, Shaped, ThreadShape
  <2>2. Fine(t)'
    BY <1>1, <2>1 DEF Fine, ContentInv, Stored, Placers, Leased, Deleters, Logging
  <2> QED  BY <1>1, <2>1, <2>2, MoveKeeps DEF Awake
<1>4. CASE ReadBlob(t)
  <2>1. PICK at, hashes : at \in {"read", "endLease"} /\ Does(t, at, hashes) /\ hashes \subseteq thread[t].todo
    <3>1. CASE thread[t].todo = {} /\ GoTo(t, "endLease")
      BY <3>1 DEF GoTo
    <3>2. ASSUME NEW h \in thread[t].todo, Does(t, "read", thread[t].todo \ {h}) \/ Does(t, "endLease", {})
          PROVE  \E at \in {"read", "endLease"} : \E hashes : Does(t, at, hashes) /\ hashes \subseteq thread[t].todo
      <4>1. thread[t].todo \ {h} \subseteq thread[t].todo /\ {} \subseteq thread[t].todo
        OBVIOUS
      <4> QED  BY <3>2, <4>1
    <3> QED  BY <1>4, <3>1, <3>2 DEF ReadBlob
  <2>2. ThreadShape' /\ Others(t) /\ thread'[t].at = at /\ thread'[t].todo = hashes
    BY <2>1, Taking DEF Does, ContentInv, Shaped, ThreadShape
  <2>3. thread[t].at = "read" /\ UNCHANGED <<files, db, placing, lease>>
    BY <1>4 DEF ReadBlob, At
  <2>4. Fine(t)'
    BY <1>1, <2>1, <2>2, <2>3 DEF Fine, Placers, Leased, Deleters, Logging
  <2> QED  BY <1>1, <2>1, <2>2, <2>3, <2>4, MoveKeeps DEF Awake
<1>5. CASE ReadCandidates(t)
  <2>1. ThreadShape' /\ Others(t) /\ thread'[t].at = "mark" /\ UNCHANGED <<files, db, placing, lease>>
    BY <1>5, Taking DEF ReadCandidates, Does, ContentInv, Shaped, ThreadShape
  <2>2. Fine(t)'
    BY <1>1, <2>1 DEF Fine, Placers, Leased, Deleters, Logging
  <2> QED  BY <1>1, <2>1, <2>2, MoveKeeps DEF Awake
<1>6. CASE MarkCandidates(t)
  <2>1. /\ ThreadShape' /\ Others(t) /\ thread'[t].at = "list" /\ UNCHANGED <<files, placing, lease>>
        /\ Write(refs, {}, thread[t].todo)
    BY <1>6, Taking DEF MarkCandidates, Does, ContentInv, Shaped, ThreadShape
  <2>2. refs' \in [Owners -> SUBSET Hashes] /\ Stored' /\ rows' \subseteq rows \cup {}
    BY <2>1, Written DEF ContentInv, Shaped, Stored
  <2>3. Behaves(t) /\ Fine(t)'
    BY <1>1, <2>1, <2>2 DEF Behaves, Fine, Awake, Placers, Leased, Deleters, Logging
  <2> QED  BY <1>1, <2>1, <2>2, <2>3, StepKeeps DEF Awake
<1>7. CASE EndLease(t)
  <2>1. /\ ThreadShape' /\ Others(t) /\ thread'[t].at = "release" /\ UNCHANGED <<files, db, placing>> /\ lease' = None
    BY <1>7, Taking DEF EndLease, Does, ContentInv, Shaped, ThreadShape
  <2>2. refs' \in [Owners -> SUBSET Hashes] /\ Stored'
    BY <2>1 DEF db, ContentInv, Shaped, Stored
  <2>3. Behaves(t) /\ Fine(t)'
    BY <1>1, <2>1 DEF Behaves, Fine, Awake, db, Placers, Leased, Deleters, Logging
  <2> QED  BY <1>1, <2>1, <2>2, <2>3, StepKeeps DEF Awake
<1> QED  BY <1>2, <1>3, <1>4, <1>5, <1>6, <1>7

LEMMA StoreKeeps == ASSUME ContentInv, NEW t \in Threads, UNCHANGED slices, StoreStep(t)  PROVE ContentInv'
<1>1. CASE ImportFails(t)
  BY <1>1, StoreAwake, QuietMove DEF ImportFails, At, Ends, StoreStays, Quiet, Placers, Leased, Deleters
<1> QED  BY <1>1, PlaceKeeps, CommitImportKeeps, ReleaseKeeps, ReleaseLoopKeeps, UnlinkKeeps, LeaseKeeps DEF StoreStep

(***************************************************************************)
(* What is asked for, and the end of the process.                          *)
(***************************************************************************)
LEMMA DeletionsKeep ==
  ASSUME ContentInv, NEW t \in Users, ~At(W, "starting"), DeleteModel(t) \/ DeletePreparation(t) \/ DeleteRevision(t)
  PROVE  ContentInv'
<1>1. /\ t \in Threads /\ Awake(t) /\ Takes(t, "release", thread[t].owner, {})
      /\ UNCHANGED <<files, placing, lease, permits>>
  BY DEF Users, W, Awake, DeleteModel, DeletePreparation, DeleteRevision, Does, sched
<1>2. PICK owners, candidates : Write(Drop(owners, refs), {}, candidates)
  BY DEF DeleteModel, DeletePreparation, DeleteRevision
<1>3. Drop(owners, refs) \in [Owners -> SUBSET Hashes] /\ \A o \in Owners : Drop(owners, refs)[o] \subseteq rows \cup {}
  BY DEF Drop, ContentInv, Shaped, Stored
<1>4. refs' \in [Owners -> SUBSET Hashes] /\ Stored' /\ rows' \subseteq rows \cup {}
  BY <1>1, <1>2, <1>3, Written DEF ContentInv
<1> QED  BY <1>1, <1>4, QuietWrite DEF Quiet, Placers, Leased, Deleters

LEMMA AskedKeeps == ASSUME ContentInv, NEW t \in Users, ~At(W, "starting"), Asked(t)  PROVE ContentInv'
<1>1. t \in Threads /\ t # W /\ t # None
  BY ContentAssumption DEF Users, W
<1>2. CASE Start(t) \/ BeginCancel(t)
  <2>1. StoreStays /\ Awake(t) /\ \E at \in {"enqueue", "cancel"} : \E owner, hashes : Takes(t, at, owner, hashes)
    BY <1>2 DEF Start, BeginCancel, StoreStays, Awake, Does, sched
  <2> QED  BY <1>1, <2>1, QuietMove DEF Quiet, Placers, Leased, Deleters
<1>3. ASSUME NEW m \in Models, BeginImport(t, m), UNCHANGED sched
      PROVE  ContentInv'
  <2>1. ThreadShape' /\ Others(t) /\ thread'[t].at = "place" /\ thread'[t].owner = m /\ thread'[t].todo = ContentOf[m]
    BY <1>1, <1>3, Taking DEF BeginImport, ContentInv, Shaped, ThreadShape
  <2>2. UNCHANGED <<files, db, placing, lease, permits, current>>
    BY <1>3 DEF BeginImport, sched
  <2>3. Fine(t)'
    BY <1>1, <2>1 DEF Fine, Placers, Leased, Deleters, Logging
  <2> QED  BY <1>1, <2>1, <2>2, <2>3, MoveKeeps
<1>4. ASSUME NEW work \in {"copy", "clear"}, Acquire(t, work), UNCHANGED sched
      PROVE  ContentInv'
  <2>1. /\ ThreadShape' /\ Others(t) /\ thread'[t].at = work /\ lease = None /\ lease' = t
        /\ UNCHANGED <<files, db, placing, permits, current>>
    BY <1>1, <1>4, Taking DEF Acquire, Free, GoTo, Does, sched, ContentInv, Shaped, ThreadShape
  <2>2. Fine(t)' /\ Behaves(t)
    BY <1>1, <2>1 DEF Fine, Behaves, db, Placers, Leased, Deleters, Logging
  <2> QED  BY <1>1, <2>1, <2>2, StepKeeps DEF ContentInv, Shaped, Stored, db
<1> QED  BY <1>2, <1>3, <1>4, DeletionsKeep DEF Asked

LEMMA ClosesKeeps == ASSUME ContentInv, Closes  PROVE ContentInv'
<1>1. \A t \in Threads : thread'[t].at = IF t = W THEN "starting" ELSE "idle"
  BY DEF Closes
<1>2. Shaped' /\ Stored'
  BY DEF Closes, db, ContentInv, Shaped, Stored
<1>3. Alone'
  BY <1>1 DEF Closes, Alone, At, Users, W
<1>4. \A t \in Threads : Fine(t)'
  BY <1>1 DEF Fine, Placers, Leased, Deleters, Logging
<1> QED  BY <1>2, <1>3, <1>4 DEF ContentInv

LEMMA ContentStarts == ASSUME Init  PROVE ContentInv
<1>1. \A t \in Threads : thread[t].at = "idle"
  BY DEF Init, StoreInit, Idle
<1>2. Shaped /\ Stored
  BY ContentAssumption, SlicingAssumption DEF Init, StoreInit, Idle, Shaped, Stored
<1>3. Alone
  BY <1>1, SlicingAssumption DEF Alone, At, W
<1>4. \A t \in Threads : Fine(t)
  BY <1>1 DEF Fine, Placers, Leased, Deleters, Logging
<1> QED  BY <1>2, <1>3, <1>4 DEF ContentInv

LEMMA ContentStep == ASSUME ContentInv, [Next]_vars  PROVE ContentInv'
<1>1. ASSUME NEW t \in Users, UserStep(t)  PROVE ContentInv'
  <2>1. CASE At(t, "released") /\ Ends(t) /\ UNCHANGED <<files, db, placing, lease, permits, faults, slices>>
    BY <1>1, <2>1, StoreAwake, QuietMove DEF Users, At, Ends, StoreStays, Quiet, Placers, Leased, Deleters
  <2> QED  BY <1>1, <2>1, CommandsKeep, CancelUnstartedKeeps DEF UserStep
<1>2. CASE Abandon \/ UNCHANGED vars
  <2>1. UNCHANGED <<store, current>>
    BY <1>2 DEF Abandon, vars, slices, sched
  <2>2. \A t \in Threads : Fine(t)'
    BY <2>1 DEF ContentInv, Fine, store, db
  <2> QED  BY <2>1, <2>2 DEF ContentInv, Shaped, Stored, Alone, At, store, db
<1>3. CASE Works
  BY <1>1, <1>2, <1>3, WorkerKeeps, StoreKeeps DEF Works
<1>4. CASE Serving /\ IdleUsers # {} /\ Asked(CHOOSE t \in IdleUsers : TRUE)
  <2> DEFINE t == CHOOSE u \in IdleUsers : TRUE
  <2>1. t \in Users
    BY <1>4 DEF IdleUsers
  <2>2. ~At(W, "starting")
    BY <1>4 DEF Serving, ContentInv, Alone, At
  <2> HIDE DEF t
  <2>3. Asked(t)
    BY <1>4 DEF t
  <2> QED  BY <2>1, <2>2, <2>3, AskedKeeps
<1> QED  BY <1>2, <1>3, <1>4, ClosesKeeps DEF Next, Die, Quit

\* Every thread holds the lock of where it is, and nothing it counts on goes meanwhile: the
\* inductive invariant behind ContentStays.
THEOREM LocksHold == Spec => []ContentInv
<1>1. Init => ContentInv
  BY ContentStarts
<1>2. ContentInv /\ [Next]_vars => ContentInv'
  BY ContentStep
<1> QED  BY <1>1, <1>2, PTL DEF Spec

\* Whatever a revision or a log names keeps its row and its file, and nothing a backup reads is
\* unlinked, through every interleaving of imports, slices, deletions, cleanups and crashes.
THEOREM NamedContentStays == Spec => []ContentStays
<1>1. ContentInv => ContentStays
  BY DEF ContentInv, Fine, ContentStays, CopiedFilesStay, At
<1> QED  BY <1>1, LocksHold, PTL
(***************************************************************************)
(* The scheduler: an operation is in one place, and whoever may still      *)
(* cancel it has seen that it is in none.                                  *)
(***************************************************************************)
OpStates == {"none", "queued", "running", "gone"} \cup Ended
Waiting == {"queued", "gone"}

Queued ==
    /\ op \in [Ops -> OpStates] /\ current \in Ops \cup {None} /\ queue \in Seq(Ops)
    /\ \A i, k \in DOMAIN queue : queue[i] = queue[k] => i = k
    /\ \A i \in DOMAIN queue : queue[i] # current /\ op[queue[i]] \in Waiting
    /\ current \in Ops => op[current] # "none"

\* A start that has committed and not enqueued yet; a cancel that has or has not found that its
\* operation is with neither the queue nor the worker, and never will be again.
Asking(t) ==
    /\ thread[t].at = "enqueue" =>
          /\ starting = t /\ thread[t].todo \subseteq Ops
          /\ \A o \in thread[t].todo : op[o] \in Waiting /\ current # o /\ ~InQueue(o)
    /\ thread[t].at \in {"cancel", "cancelAfterStart", "cancelUnheld", "cancelUnstarted"} =>
          Mine(t) \in Ops /\ op[Mine(t)] # "none"
    /\ thread[t].at \in {"cancelUnheld", "cancelUnstarted"} =>
          /\ current # Mine(t) /\ ~InQueue(Mine(t))
          /\ \A u \in Users : thread[u].at = "enqueue" => Mine(t) \notin thread[u].todo

\* What the slicer thread knows of its job; at a start there is none.
Slicer ==
    /\ engine # None => engine = current /\ thread[W].at \in {"spawned", "running"}
    /\ thread[W].at \in {"claimed", "spawn", "spawned", "running"} => current \in Ops
    /\ thread[W].at \in {"spawn", "spawned", "running"} => op[current] \notin Ended
    /\ thread[W].at \in {"starting", "recover"} =>
          queue = <<>> /\ current = None /\ \A t \in Users : thread[t].at = "idle"

SchedInv == Queued /\ Slicer /\ \A t \in Users : Asking(t)

\* The stages in which neither the slicer thread nor another has anything to answer for.
Neutral(at) == at \notin {"enqueue", "cancel", "cancelAfterStart", "cancelUnheld", "cancelUnstarted",
                          "claimed", "spawn", "spawned", "running", "starting", "recover"}

\* A thread that goes about anything else.
LEMMA NeutralKeeps ==
  ASSUME ThreadShape, SchedInv, NEW t \in Threads, Others(t), Neutral(thread'[t].at),
         UNCHANGED <<op, queue, current, starting>>,
         engine' = None \/ (engine' = engine /\ (t = W => thread[W].at \notin {"spawned", "running"})),
         t # W => thread[t].at # "idle" \/ thread[W].at \notin {"starting", "recover"}
  PROVE  SchedInv'
<1>1. \A u \in Threads : u = t \/ thread'[u] = thread[u]
  BY DEF Others
<1>2. Queued'
  BY DEF SchedInv, Queued
<1>3. Slicer'
  BY <1>1, SlicingAssumption DEF SchedInv, Slicer, Neutral, Users, W
<1>4. ASSUME NEW u \in Users  PROVE Asking(u)'
  BY <1>1, <1>4 DEF SchedInv, Asking, Neutral, InQueue, Users, Mine
<1> QED  BY <1>2, <1>3, <1>4 DEF SchedInv

LEMMA StoreSteps ==
  ASSUME ContentInv, SchedInv, NEW t \in Threads, UNCHANGED slices, StoreStep(t)
  PROVE  SchedInv'
<1>1. \E at \in {"commit", "failed", "idle", "list", "released", "each", "unlink", "drop", "sweep", "endLease", "read",
                 "mark", "release"} : \E owner, hashes : Takes(t, at, owner, hashes)
  <2>1. CASE Place(t) \/ CommitImport(t) \/ ImportFails(t) \/ Release(t) \/ ListPending(t) \/ CheckPending(t)
    BY <2>1 DEF Place, PlaceTo, CommitImport, ImportFails, Release, ListPending, CheckPending, GoTo, Does, Ends
  <2>2. CASE Unlink(t) \/ DropPending(t) \/ EndRelease(t) \/ RemoveOrphans(t) \/ CopyDatabase(t)
    BY <2>2 DEF Unlink, DropPending, EndRelease, RemoveOrphans, CopyDatabase, GoTo, Does, Ends
  <2>3. CASE ReadBlob(t) \/ ReadCandidates(t) \/ MarkCandidates(t) \/ EndLease(t)
    BY <2>3 DEF ReadBlob, ReadCandidates, MarkCandidates, EndLease, GoTo, Does, Ends
  <2> QED  BY <2>1, <2>2, <2>3 DEF StoreStep
<1>2. ThreadShape /\ Others(t) /\ Neutral(thread'[t].at)
  BY <1>1, Taking DEF Neutral, ContentInv, Shaped, ThreadShape
<1>3. thread[t].at \notin {"idle", "spawned", "running"}
  BY DEF At, StoreStep, Place, CommitImport, ImportFails, Release, ListPending, CheckPending, Unlink, DropPending,
         EndRelease, RemoveOrphans, CopyDatabase, ReadBlob, ReadCandidates, MarkCandidates, EndLease
<1>4. UNCHANGED <<op, queue, current, starting, engine>>
  BY DEF slices, sched
<1> QED  BY <1>2, <1>3, <1>4, NeutralKeeps

\* The slicer thread writes the row of its job, or no row.
LEMMA JobKeeps ==
  ASSUME ThreadShape, SchedInv, Others(W), op' \in [Ops -> OpStates], UNCHANGED <<queue, current, starting, engine>>,
         \A o \in Ops : o = current \/ op'[o] = op[o], current \in Ops => op'[current] # "none" \/ op'[current] = op[current],
         \/ thread'[W].at = "running"
         \/ (Neutral(thread'[W].at) \/ thread'[W].at = "spawn") /\ thread[W].at \notin {"spawned", "running"},
         Neutral(thread'[W].at) \/ (current \in Ops /\ op'[current] \notin Ended)
  PROVE  SchedInv'
<1>1. \A u \in Threads : u = W \/ thread'[u] = thread[u]
  BY DEF Others
<1>2. Queued'
  BY DEF SchedInv, Queued
<1>3. Slicer'
  BY <1>1 DEF SchedInv, Slicer, Neutral
<1>4. ASSUME NEW u \in Users  PROVE Asking(u)'
  BY <1>1, <1>4 DEF SchedInv, Asking, Neutral, InQueue, Users, Mine, W
<1> QED  BY <1>2, <1>3, <1>4 DEF SchedInv

LEMMA SlicerHas == ASSUME ContentInv  PROVE ThreadShape /\ W \in Threads
BY SlicingAssumption DEF ContentInv, Shaped, ThreadShape, W

LEMMA JobEnds ==
  ASSUME ContentInv, SchedInv, EndUnstarted \/ EndWithLog \/ FailPlain \/ Publish
  PROVE  SchedInv'
<1>1. UNCHANGED <<queue, current, starting, engine>> /\ thread[W].at \notin {"spawned", "running"}
  BY DEF EndUnstarted, EndWithLog, FailPlain, Publish, At, sched
<1>2. \E at \in {"release", "failPlain", "failed", "settle"} : \E owner, hashes : Takes(W, at, owner, hashes)
  BY DEF EndUnstarted, EndWithLog, FailPlain, Publish, Try, Go, GoTo, Does
<1>3. Others(W) /\ Neutral(thread'[W].at)
  BY <1>2, SlicerHas, Taking DEF Neutral
<1>4. op' = op \/ \E to \in Ended : op' = [op EXCEPT ![current] = to]
  BY DEF EndUnstarted, EndWithLog, FailPlain, Publish, Try, Transition, Verdict, Ended, Job
<1>5. /\ op' \in [Ops -> OpStates] /\ \A o \in Ops : o = current \/ op'[o] = op[o]
      /\ current \in Ops => op'[current] # "none" \/ op'[current] = op[current]
  BY <1>4 DEF SchedInv, Queued, OpStates, Ended
<1> QED  BY <1>1, <1>3, <1>5, SlicerHas, JobKeeps

LEMMA SlicerMoves ==
  ASSUME ContentInv, SchedInv, Stage \/ PlaceOutputs \/ PlaceLog \/ FailOperation
  PROVE  SchedInv'
<1>1. UNCHANGED <<op, queue, current, starting, engine>> /\ thread[W].at \notin {"spawned", "running"}
  BY DEF Stage, PlaceOutputs, PlaceLog, FailOperation, At, slices, sched
<1>2. \E at \in {"cancelledRun", "publish", "succeed", "failed", "failPlain", "cancelLog", "endLog", "lastLog", "failLog",
                 "settle"} : \E owner, hashes : Takes(W, at, owner, hashes)
  BY DEF Stage, PlaceOutputs, PlaceTo, PlaceLog, FailOperation, Go, GoTo, Does
<1>3. Others(W) /\ Neutral(thread'[W].at)
  BY <1>2, SlicerHas, Taking DEF Neutral
<1> QED  BY <1>1, <1>3, SlicerHas, NeutralKeeps

LEMMA PopSched == ASSUME ContentInv, SchedInv, Pop  PROVE SchedInv'
<1>1. Others(W) /\ thread'[W].at = "claimed" /\ thread[W].at = "idle" /\ UNCHANGED <<op, engine, starting>>
  BY SlicerHas, Taking DEF Pop, At, Go, GoTo, Does
<1>2. /\ queue # <<>> /\ current' = Head(queue) /\ queue' = Tail(queue)
  BY DEF Pop
<1>3. /\ queue \in Seq(Ops) /\ Len(queue) > 0 /\ current' = queue[1] /\ queue[1] \in Ops
      /\ queue' \in Seq(Ops) /\ \A i \in DOMAIN queue' : i + 1 \in DOMAIN queue /\ queue'[i] = queue[i + 1]
  BY <1>2 DEF SchedInv, Queued
<1>4. Queued'
  BY <1>1, <1>3 DEF SchedInv, Queued, Waiting
<1>5. Slicer'
  BY <1>1, <1>3 DEF SchedInv, Slicer
<1>6. \A o : InQueue(o)' => InQueue(o)
  BY <1>3 DEF InQueue
<1>7. InQueue(current')
  BY <1>3 DEF InQueue
<1>8. ASSUME NEW u \in Users  PROVE Asking(u)'
  BY <1>1, <1>6, <1>7, <1>8 DEF SchedInv, Asking, Users, Others, Mine, W
<1> QED  BY <1>4, <1>5, <1>8 DEF SchedInv

LEMMA ClaimSched == ASSUME ContentInv, SchedInv, Claim \/ Spawned  PROVE SchedInv'
<1>1. UNCHANGED <<queue, current, starting, engine>>
  BY DEF Claim, Spawned, slices, sched
<1>2. CASE Claim
  <2>1. /\ Others(W) /\ thread[W].at = "claimed" /\ UNCHANGED op
        /\ thread'[W].at \in {"settle", "endUnstarted", "spawn"}
        /\ thread'[W].at = "spawn" => op[current] = "queued"
    BY <1>2, SlicerHas, Taking DEF Claim, At, Job, Go, GoTo, Does, slices
  <2>2. op \in [Ops -> OpStates] /\ (thread'[W].at = "spawn" => current \in Ops)
    BY <2>1 DEF SchedInv, Queued, Slicer
  <2> QED  BY <1>1, <2>1, <2>2, SlicerHas, JobKeeps DEF Neutral, Ended
<1>3. CASE Spawned
  <2>1. Others(W) /\ thread[W].at = "spawned" /\ thread'[W].at = "running"
    BY <1>3, SlicerHas, Taking DEF Spawned, At, Go, GoTo, Does
  <2>2. op' = op \/ op' = [op EXCEPT ![current] = "running"]
    BY <1>3 DEF Spawned, Try, Transition, Job
  <2>3. current \in Ops /\ op[current] \notin Ended /\ op \in [Ops -> OpStates]
    BY <2>1 DEF SchedInv, Queued, Slicer
  <2>4. op' \in [Ops -> OpStates] /\ op'[current] \notin Ended /\ (op'[current] = "running" \/ op' = op)
        /\ \A o \in Ops : o = current \/ op'[o] = op[o]
    BY <2>2, <2>3 DEF OpStates, Ended
  <2> QED  BY <1>1, <2>1, <2>3, <2>4, SlicerHas, JobKeeps
<1> QED  BY <1>2, <1>3

LEMMA RunSched == ASSUME ContentInv, SchedInv, Spawn \/ Exit \/ Settle  PROVE SchedInv'
<1>1. UNCHANGED <<op, queue, starting>>
  BY DEF Spawn, Exit, Settle, sched
<1>2. CASE Spawn
  <2>1. /\ Others(W) /\ thread[W].at = "spawn" /\ current' = current
        /\ \/ thread'[W].at \in {"cancelledRun", "failedRun"} /\ engine' = engine
           \/ thread'[W].at = "spawned" /\ engine' = current
    BY <1>2, SlicerHas, Taking DEF Spawn, At, Job, Go, GoTo, Does, sched
  <2>2. Queued' /\ Slicer'
    BY <1>1, <2>1 DEF SchedInv, Queued, Slicer, Users, Others
  <2>3. ASSUME NEW u \in Users  PROVE Asking(u)'
    BY <1>1, <2>1, <2>3 DEF SchedInv, Asking, InQueue, Users, Others, Mine, W
  <2> QED  BY <2>2, <2>3 DEF SchedInv
<1>3. CASE Exit
  <2>1. Others(W) /\ engine' = None /\ current' = current /\ thread'[W].at \in {"cancelledRun", "stage", "failedRun"}
    BY <1>3, SlicerHas, Taking DEF Exit, Go, GoTo, Does, sched
  <2> QED  BY <1>1, <2>1, SlicerHas, NeutralKeeps DEF Neutral
<1>4. CASE Settle
  <2>1. /\ Others(W) /\ thread[W].at \in {"settle", "released"} /\ engine' = engine /\ current' = None
        /\ thread'[W].at = "idle"
    BY <1>4, SlicerHas, Taking DEF Settle, Ends
  <2>2. Queued' /\ Slicer'
    BY <1>1, <2>1, SlicingAssumption DEF SchedInv, Queued, Slicer
  <2>3. ASSUME NEW u \in Users  PROVE Asking(u)'
    BY <1>1, <2>1, <2>3, SlicingAssumption DEF SchedInv, Asking, InQueue, Users, Others, Mine, W
  <2> QED  BY <2>2, <2>3 DEF SchedInv
<1> QED  BY <1>2, <1>3, <1>4

LEMMA StartupSched == ASSUME ContentInv, SchedInv, Sweep \/ Recover  PROVE SchedInv'
<1>1. UNCHANGED <<queue, current, starting, engine>> /\ thread[W].at \in {"starting", "recover"}
  BY DEF Sweep, Recover, At, slices, sched
<1>2. queue = <<>> /\ current = None /\ engine = None /\ \A t \in Users : thread[t].at = "idle"
  BY <1>1 DEF SchedInv, Slicer
<1>3. Others(W) /\ thread'[W].at \in {"recover", "release"} /\ \A t \in Users : thread'[t].at = "idle"
  BY <1>2, SlicerHas, Taking DEF Sweep, Recover, Go, GoTo, Does, Others, Users, W
<1>4. op' \in [Ops -> OpStates]
  BY DEF Sweep, Recover, slices, SchedInv, Queued, OpStates, Ended
<1>5. Queued' /\ Slicer'
  BY <1>1, <1>2, <1>3, <1>4, SlicingAssumption DEF SchedInv, Queued, Slicer
<1>6. ASSUME NEW u \in Users  PROVE Asking(u)'
  BY <1>3, <1>6 DEF Asking
<1> QED  BY <1>5, <1>6 DEF SchedInv

LEMMA SlicerSched == ASSUME ContentInv, SchedInv, WorkerStep  PROVE SchedInv'
BY JobEnds, SlicerMoves, PopSched, ClaimSched, RunSched, StartupSched DEF WorkerStep

(***************************************************************************)
(* Commands and the queue.                                                 *)
(***************************************************************************)
LEMMA Keeping ==
  ASSUME SchedInv, NEW kept \in SUBSET Ops, QueueKeeps(kept)
  PROVE  /\ queue' \in Seq(Ops)
         /\ \A i, k \in DOMAIN queue' : queue'[i] = queue'[k] => i = k
         /\ \A o : InQueue(o)' => o \in kept /\ InQueue(o)
<1> DEFINE S == {o \in kept : InQueue(o)}
<1>1. PICK s \in Orderings(S) : queue' = s
  BY DEF QueueKeeps
<1>2. IsFiniteSet(S) /\ Cardinality(S) \in Nat
  BY SlicingAssumption, FS_Subset, FS_CardinalityType
<1>3. s \in [1..Cardinality(S) -> S] /\ \A i, k \in DOMAIN s : s[i] = s[k] => i = k
  BY <1>1 DEF Orderings
<1> HIDE DEF S
<1>4. s \in Seq(S) /\ DOMAIN s = 1..Cardinality(S)
  BY <1>2, <1>3
<1>5. S \subseteq Ops /\ \A o \in S : o \in kept /\ InQueue(o)
  BY DEF S
<1>6. s \in Seq(Ops)
  BY <1>2, <1>3, <1>5
<1> QED  BY <1>1, <1>3, <1>4, <1>5, <1>6 DEF InQueue

\* A user's thread that moves and leaves the rows and the queue alone, or only has jobs leave it.
LEMMA UserKeeps ==
  ASSUME ThreadShape, SchedInv, NEW t \in Users, Others(t), Asking(t)', op' \in [Ops -> OpStates],
         \A o \in Ops : op'[o] = op[o] \/ (op[o] # "none" /\ op'[o] = "gone"),
         queue' \in Seq(Ops), \A i, k \in DOMAIN queue' : queue'[i] = queue'[k] => i = k,
         \A o : InQueue(o)' => InQueue(o), UNCHANGED <<current, engine>>, starting' # starting => starting = None,
         thread[W].at \notin {"starting", "recover"},
         thread'[t].at = "enqueue" => thread[t].at = "enqueue" /\ thread'[t].todo = thread[t].todo
  PROVE  SchedInv'
<1>1. W \in Threads /\ t # W /\ t # None /\ thread'[W] = thread[W] /\ \A u \in Users \ {t} : u # None /\ thread'[u] = thread[u]
  BY SlicingAssumption, ContentAssumption DEF Users, W, Others
<1>2. \A i \in DOMAIN queue' : InQueue(queue'[i])
  BY DEF InQueue
<1>3. \A i \in DOMAIN queue' : \E k \in DOMAIN queue : queue[k] = queue'[i]
  BY <1>2 DEF InQueue
<1>4. Queued'
  BY <1>3 DEF SchedInv, Queued, Waiting
<1>5. Slicer'
  BY <1>1 DEF SchedInv, Slicer, Ended
<1>6. ASSUME NEW u \in Users \ {t}  PROVE Asking(u)'
  BY <1>1, <1>6 DEF SchedInv, Asking, Mine, Waiting
<1> QED  BY <1>4, <1>5, <1>6 DEF SchedInv

LEMMA CancelSched ==
  ASSUME ContentInv, SchedInv, NEW t \in Users, Cancel(t) \/ CancelAfterStart(t)
  PROVE  SchedInv'
<1> DEFINE o == Mine(t)
<1>1. /\ thread[t].at \in {"cancel", "cancelAfterStart"} /\ UNCHANGED <<op, current, engine, starting>>
      /\ t \in Threads
  BY DEF Cancel, CancelAfterStart, At, Users
<1>2. o \in Ops /\ op[o] # "none" /\ op \in [Ops -> OpStates] /\ queue \in Seq(Ops)
      /\ thread[W].at \notin {"starting", "recover"}
  BY <1>1 DEF SchedInv, Queued, Slicer, Asking
<1>3. \E at \in {"cancelUnstarted", "cancelAfterStart", "cancelUnheld", "idle"} : \E owner, hashes : Takes(t, at, owner, hashes)
  BY DEF Cancel, CancelAfterStart, CancelScheduled, GoTo, Does, Ends
<1>4. Others(t) /\ ThreadShape
  BY <1>1, <1>3, Taking DEF ContentInv, Shaped, ThreadShape
<1>5. CASE InQueue(o) /\ QueueKeeps(Ops \ {o}) /\ GoTo(t, "cancelUnstarted")
  <2>1. thread'[t].at = "cancelUnstarted" /\ thread'[t].owner = o
    BY <1>1, <1>4, <1>5, Taking DEF GoTo, Does, Mine
  <2>2. /\ queue' \in Seq(Ops) /\ \A i, k \in DOMAIN queue' : queue'[i] = queue'[k] => i = k
        /\ \A p : InQueue(p)' => p \in Ops \ {o} /\ InQueue(p)
    <3>1. Ops \ {o} \in SUBSET Ops
      OBVIOUS
    <3> HIDE DEF o
    <3> QED  BY <1>5, <3>1, Keeping
  <2>3. current # o /\ \A u \in Users : thread[u].at = "enqueue" => o \notin thread[u].todo
    BY <1>5 DEF SchedInv, Queued, Asking, InQueue
  <2>4. \A u \in Users : thread'[u].at = "enqueue" => thread[u].at = "enqueue" /\ thread'[u].todo = thread[u].todo
    BY <1>4, <2>1 DEF Others, Users
  <2>5. ~InQueue(o)'
    BY <2>1, <2>2 DEF Mine
  <2>6. Asking(t)'
    BY <1>1, <1>2, <2>1, <2>3, <2>4, <2>5 DEF Asking, Mine
  <2> QED  BY <1>1, <1>2, <1>4, <2>1, <2>2, <2>6, UserKeeps
<1>6. CASE ~InQueue(o) /\ current # o /\ UNCHANGED queue /\ At(t, "cancel") /\ GoTo(t, "cancelAfterStart")
  <2>1. thread'[t].at = "cancelAfterStart" /\ thread'[t].owner = o
    BY <1>1, <1>4, <1>6, Taking DEF GoTo, Does, Mine
  <2>2. Asking(t)'
    BY <1>1, <1>2, <2>1 DEF Asking, Mine
  <2> QED  BY <1>1, <1>2, <1>4, <1>6, <2>1, <2>2, UserKeeps DEF SchedInv, Queued, InQueue
<1>7. CASE ~InQueue(o) /\ current # o /\ UNCHANGED queue /\ Free(starting) /\ GoTo(t, "cancelUnheld")
  <2>1. thread'[t].at = "cancelUnheld" /\ thread'[t].owner = o
    BY <1>1, <1>4, <1>7, Taking DEF GoTo, Does, Mine
  <2>2. \A u \in Users : thread'[u].at # "enqueue"
    BY <1>4, <1>7, <2>1, ContentAssumption DEF SchedInv, Asking, Others, Users, Free
  <2>3. Asking(t)'
    BY <1>1, <1>2, <1>7, <2>1, <2>2 DEF Asking, InQueue, Mine
  <2> QED  BY <1>1, <1>2, <1>4, <1>7, <2>1, <2>3, UserKeeps DEF SchedInv, Queued, InQueue
<1>8. CASE Ends(t) /\ UNCHANGED queue
  <2>1. thread'[t].at = "idle"
    BY <1>1, <1>4, <1>8, Taking DEF Ends
  <2> QED  BY <1>1, <1>4, <1>8, <2>1, NeutralKeeps DEF Neutral, Users, W
<1> QED  BY <1>5, <1>6, <1>7, <1>8 DEF Cancel, CancelAfterStart, CancelScheduled

LEMMA CancelEndsSched ==
  ASSUME ContentInv, SchedInv, NEW t \in Users, CancelUnheld(t) \/ CancelUnstarted(t)
  PROVE  SchedInv'
<1> DEFINE o == Mine(t)
<1>1. /\ thread[t].at \in {"cancelUnheld", "cancelUnstarted"} /\ UNCHANGED <<queue, current, engine, starting>>
      /\ t \in Threads
  BY DEF CancelUnheld, CancelUnstarted, At, Users, slices, sched
<1>2. /\ o \in Ops /\ op[o] # "none" /\ op \in [Ops -> OpStates] /\ queue \in Seq(Ops)
      /\ current # o /\ ~InQueue(o) /\ \A u \in Users : thread[u].at = "enqueue" => o \notin thread[u].todo
      /\ thread[W].at \notin {"starting", "recover"}
  BY <1>1 DEF SchedInv, Queued, Slicer, Asking
<1>3. PICK at, owner, hashes :
         at \in {"cancelUnstarted", "release", "idle"} /\ Takes(t, at, owner, hashes) /\ (at = "cancelUnstarted" => owner = o /\ CancelUnheld(t))
  <2>1. \E at \in {"cancelUnstarted", "release", "idle"} : \E owner, hashes :
           Takes(t, at, owner, hashes) /\ (at = "cancelUnstarted" => owner = o /\ CancelUnheld(t))
    BY DEF CancelUnheld, CancelUnstarted, Try, GoTo, Does, Ends, Mine
  <2> QED  BY <2>1
<1>4. /\ Others(t) /\ ThreadShape /\ thread'[t].at = at /\ (at = "cancelUnstarted" => thread'[t].owner = o)
      /\ at \in {"cancelUnstarted", "release", "idle"}
  BY <1>1, <1>3, Taking DEF ContentInv, Shaped, ThreadShape
<1>5. \A u \in Users : thread'[u].at = "enqueue" => thread[u].at = "enqueue" /\ thread'[u].todo = thread[u].todo
  BY <1>4 DEF Others, Users
<1>6. CASE CancelUnheld(t)
  <2>1. UNCHANGED op
    BY <1>6 DEF CancelUnheld, slices
  <2>2. Asking(t)'
    BY <1>1, <1>2, <1>4, <1>5, <2>1 DEF Asking, Mine, InQueue
  <2> QED  BY <1>1, <1>2, <1>4, <2>1, <2>2, UserKeeps DEF SchedInv, Queued, InQueue
<1>7. CASE CancelUnstarted(t)
  <2>1. op' = op \/ op' = [op EXCEPT ![o] = "cancelled"]
    BY <1>7 DEF CancelUnstarted, Try, Transition
  <2>2. at # "cancelUnstarted"
    BY <1>1, <1>3, <1>7 DEF CancelUnheld, CancelUnstarted, At
  <2>3. op' \in [Ops -> OpStates] /\ \A p \in Ops : op'[p] = op[p] \/ (p = o /\ op'[p] = "cancelled")
    BY <1>2, <2>1 DEF OpStates, Ended
  <2>4. \A i \in DOMAIN queue : queue[i] # o /\ queue[i] \in Ops
    BY <1>2 DEF InQueue
  <2>5. W \in Threads /\ t # W /\ thread'[W] = thread[W] /\ \A u \in Users \ {t} : thread'[u] = thread[u]
    BY <1>4, SlicingAssumption DEF Others, Users, W
  <2>6. Queued'
    BY <1>1, <2>3, <2>4 DEF SchedInv, Queued
  <2>7. Slicer'
    BY <1>1, <1>2, <2>3, <2>5 DEF SchedInv, Slicer
  <2>8. Asking(t)'
    BY <1>4, <2>2 DEF Asking
  <2>9. ASSUME NEW u \in Users \ {t}  PROVE Asking(u)'
    BY <1>1, <1>2, <1>4, <1>5, <2>3, <2>5, <2>9 DEF SchedInv, Asking, InQueue, Mine
  <2> QED  BY <2>6, <2>7, <2>8, <2>9 DEF SchedInv
<1> QED  BY <1>6, <1>7

LEMMA StartSched == ASSUME ContentInv, SchedInv, NEW t \in Users, (Serving /\ Start(t)) \/ Enqueue(t)  PROVE SchedInv'
<1>1. t \in Threads /\ W \in Threads /\ t # W /\ UNCHANGED <<current, engine>>
  BY SlicingAssumption DEF Users, W, Start, Enqueue
<1>2. CASE Serving /\ Start(t)
  <2>1. PICK m \in Models, batch \in SUBSET {o \in Ops : op[o] = "none"} :
          /\ op' = [o \in Ops |-> IF o \in batch THEN "queued" ELSE op[o]]
          /\ Does(t, "enqueue", batch)
    BY <1>2 DEF Start
  <2>2. /\ Others(t) /\ thread'[t].at = "enqueue" /\ thread'[t].todo = batch /\ thread[t].at = "idle"
        /\ starting = None /\ starting' = t /\ queue' = queue
    BY <1>1, <1>2, <2>1, Taking DEF Start, Does, At, Free, ContentInv, Shaped, ThreadShape
  <2>3. thread'[W] = thread[W] /\ \A u \in Users \ {t} : thread'[u] = thread[u] /\ thread[u].at # "enqueue"
    BY <1>1, <2>2, ContentAssumption DEF Others, Users, W, SchedInv, Asking
  <2>4. op' \in [Ops -> OpStates] /\ \A o \in Ops : op'[o] = op[o] \/ (o \in batch /\ op[o] = "none" /\ op'[o] = "queued")
    BY <2>1 DEF SchedInv, Queued, OpStates
  <2>5. \A i \in DOMAIN queue : queue[i] \in Ops /\ op'[queue[i]] \in Waiting
    BY <2>4 DEF SchedInv, Queued, Waiting
  <2>6. \A o \in batch : o \in Ops /\ op'[o] = "queued" /\ ~InQueue(o)
    BY <2>1 DEF SchedInv, Queued, InQueue, Waiting
  <2>7. thread[W].at \notin {"starting", "recover"}
    BY <1>2 DEF Serving, At, SchedInv, Slicer
  <2>8. current \notin batch
    <3>1. CASE current = None
      BY <3>1, SlicingAssumption
    <3>2. CASE current # None
      BY <2>1, <3>2 DEF SchedInv, Queued
    <3> QED  BY <3>1, <3>2
  <2>9. Queued'
    BY <1>1, <2>2, <2>4, <2>5 DEF SchedInv, Queued
  <2>10. Slicer'
    BY <1>1, <2>2, <2>3, <2>4, <2>7 DEF SchedInv, Slicer, Ended
  <2>11. Asking(t)'
    BY <1>1, <2>2, <2>6, <2>8 DEF Asking, InQueue, Waiting
  <2>12. ASSUME NEW u \in Users \ {t}  PROVE Asking(u)'
    <3>1. Asking(u) /\ thread'[u] = thread[u] /\ thread[u].at # "enqueue"
      BY <2>3, <2>12 DEF SchedInv
    <3>2. thread[u].at \in {"cancelUnheld", "cancelUnstarted"} => Mine(u) \notin batch
      BY <2>1, <3>1 DEF Asking
    <3> QED  BY <1>1, <2>2, <2>3, <2>4, <3>1, <3>2 DEF Asking, InQueue, Mine
  <2> QED  BY <2>9, <2>10, <2>11, <2>12 DEF SchedInv
<1>3. CASE Enqueue(t)
  <2> DEFINE batch == thread[t].todo
  <2>1. PICK s \in Orderings(batch) : queue' = queue \o s
    BY <1>3 DEF Enqueue
  <2>2. /\ Others(t) /\ thread[t].at = "enqueue" /\ thread'[t].at = "idle" /\ starting' = None /\ UNCHANGED op
    BY <1>1, <1>3, Taking DEF Enqueue, At, Ends, ContentInv, Shaped, ThreadShape
  <2>3. batch \subseteq Ops /\ starting = t /\ \A o \in batch : op[o] \in Waiting /\ current # o /\ ~InQueue(o)
    BY <2>2 DEF SchedInv, Asking
  <2>4. IsFiniteSet(batch) /\ Cardinality(batch) \in Nat
    BY <2>3, SlicingAssumption, FS_Subset, FS_CardinalityType
  <2> HIDE DEF batch
  <2>5. s \in [1..Cardinality(batch) -> batch] /\ \A i, k \in DOMAIN s : s[i] = s[k] => i = k
    BY <2>1 DEF Orderings
  <2>6. s \in Seq(Ops) /\ queue \in Seq(Ops) /\ \A i \in 1..Len(s) : s[i] \in batch
    BY <2>3, <2>4, <2>5 DEF SchedInv, Queued
  <2>7. /\ queue' \in Seq(Ops) /\ Len(queue') = Len(queue) + Len(s) /\ DOMAIN queue' = 1..Len(queue')
        /\ \A i \in 1..Len(queue) : queue'[i] = queue[i]
        /\ \A i \in 1..Len(queue') : i > Len(queue) => i - Len(queue) \in 1..Len(s) /\ queue'[i] = s[i - Len(queue)]
    BY <2>1, <2>6
  <2>8. \A i \in 1..Len(queue') : (i \in 1..Len(queue) /\ queue'[i] = queue[i]) \/ (i > Len(queue) /\ queue'[i] \in batch)
    <3> SUFFICES ASSUME NEW i \in 1..Len(queue')
                 PROVE  (i \in 1..Len(queue) /\ queue'[i] = queue[i]) \/ (i > Len(queue) /\ queue'[i] \in batch)
      OBVIOUS
    <3>1. CASE i > Len(queue)
      BY <2>6, <2>7, <3>1
    <3>2. CASE ~(i > Len(queue))
      BY <2>6, <2>7, <3>2
    <3> QED  BY <3>1, <3>2
  <2>9. \A i \in 1..Len(queue) : queue[i] \notin batch
    BY <2>3, <2>6 DEF InQueue
  <2>10. \A i, k \in DOMAIN queue' : queue'[i] = queue'[k] => i = k
    <3>1. SUFFICES ASSUME NEW i \in 1..Len(queue'), NEW k \in 1..Len(queue'), queue'[i] = queue'[k], i < k  PROVE FALSE
      BY <2>7, <2>6
    <3>2. CASE k \in 1..Len(queue)
      BY <2>6, <2>7, <3>1, <3>2 DEF SchedInv, Queued
    <3>3. CASE k > Len(queue) /\ i \in 1..Len(queue)
      BY <2>6, <2>7, <2>8, <2>9, <3>1, <3>3
    <3>4. CASE i > Len(queue)
      <4>1. /\ i - Len(queue) \in 1..Len(s) /\ queue'[i] = s[i - Len(queue)]
            /\ k - Len(queue) \in 1..Len(s) /\ queue'[k] = s[k - Len(queue)]
        BY <2>6, <2>7, <3>1, <3>4
      <4>2. DOMAIN s = 1..Len(s)
        BY <2>6
      <4>3. i - Len(queue) = k - Len(queue)
        BY <2>5, <3>1, <4>1, <4>2
      <4> QED  BY <2>6, <3>1, <4>3
    <3> QED  BY <2>6, <2>7, <3>1, <3>2, <3>3, <3>4
  <2>11. Queued'
    <3>1. \A i \in DOMAIN queue' : queue'[i] # current /\ op[queue'[i]] \in Waiting
      BY <2>3, <2>6, <2>7, <2>8 DEF SchedInv, Queued
    <3> QED  BY <1>1, <2>2, <2>7, <2>10, <3>1 DEF SchedInv, Queued
  <2>12. \A o : InQueue(o)' => InQueue(o) \/ o \in batch
    BY <2>6, <2>7, <2>8 DEF InQueue
  <2>13. thread'[W] = thread[W] /\ \A u \in Users \ {t} : thread'[u] = thread[u] /\ thread[u].at # "enqueue"
    BY <1>1, <2>2, <2>3 DEF Others, Users, W, SchedInv, Asking
  <2>14. Slicer'
    BY <1>1, <2>2, <2>13 DEF SchedInv, Slicer
  <2>15. ASSUME NEW u \in Users \ {t}  PROVE Asking(u)'
    <3>1. Asking(u) /\ thread'[u] = thread[u] /\ thread[u].at # "enqueue"
      BY <2>13, <2>15 DEF SchedInv
    <3>2. thread[u].at \in {"cancelUnheld", "cancelUnstarted"} => Mine(u) \notin batch /\ ~InQueue(Mine(u))
      BY <2>2, <3>1 DEF Asking, batch
    <3>3. Mine(u)' = Mine(u)
      BY <3>1 DEF Mine
    <3>4. \A v \in Users : thread'[v].at # "enqueue"
      BY <2>2, <2>13
    <3> HIDE DEF Mine
    <3> QED  BY <1>1, <2>2, <2>12, <3>1, <3>2, <3>3, <3>4 DEF Asking
  <2>16. Asking(t)'
    BY <2>2 DEF Asking
  <2> QED  BY <2>11, <2>14, <2>15, <2>16 DEF SchedInv
<1> QED  BY <1>2, <1>3

LEMMA AskedSched == ASSUME ContentInv, SchedInv, NEW t \in Users, Serving, Asked(t)  PROVE SchedInv'
<1>1. /\ t \in Threads /\ t # W /\ thread[W].at \notin {"starting", "recover"}
      /\ op \in [Ops -> OpStates] /\ queue \in Seq(Ops) /\ ThreadShape
  BY DEF Users, W, Serving, At, SchedInv, Slicer, Queued, ContentInv, Shaped, ThreadShape
<1>2. CASE Start(t)
  BY <1>2, StartSched
<1>3. CASE BeginCancel(t)
  <2>1. PICK o \in Ops : op[o] \notin {"none", "gone"} /\ Takes(t, "cancel", o, thread[t].todo)
    BY <1>3 DEF BeginCancel
  <2>2. Others(t) /\ thread'[t].at = "cancel" /\ thread'[t].owner = o /\ UNCHANGED <<op, queue, current, engine, starting>>
    BY <1>1, <1>3, <2>1, Taking DEF BeginCancel, sched
  <2>3. Asking(t)'
    BY <2>1, <2>2 DEF Asking, Mine
  <2> QED  BY <1>1, <2>2, <2>3, UserKeeps DEF SchedInv, Queued, InQueue
<1>4. CASE DeleteModel(t) \/ DeletePreparation(t)
  <2>1. /\ Takes(t, "release", thread[t].owner, {}) /\ UNCHANGED <<queue, current, engine, starting>>
        /\ \E m \in Models : op' = [o \in Ops |-> IF o \in RowsOf(m) THEN "gone" ELSE op[o]]
    BY <1>4 DEF DeleteModel, DeletePreparation, Does, sched
  <2>2. Others(t) /\ thread'[t].at = "release"
    BY <1>1, <2>1, Taking
  <2>3. op' \in [Ops -> OpStates] /\ \A o \in Ops : op'[o] = op[o] \/ (op[o] # "none" /\ op'[o] = "gone")
    BY <1>1, <2>1 DEF RowsOf, OpStates
  <2>4. Asking(t)'
    BY <2>2 DEF Asking
  <2> QED  BY <1>1, <2>1, <2>2, <2>3, <2>4, UserKeeps DEF SchedInv, Queued, InQueue
<1>5. ASSUME UNCHANGED <<op, sched>>, \E at \in {"release", "place", "copy", "clear"} : \E owner, hashes : Takes(t, at, owner, hashes)
      PROVE  SchedInv'
  <2>1. Others(t) /\ Neutral(thread'[t].at)
    BY <1>1, <1>5, Taking DEF Neutral
  <2> QED  BY <1>1, <1>5, <2>1, NeutralKeeps DEF sched
<1>6. CASE DeleteRevision(t)
  BY <1>5, <1>6 DEF DeleteRevision, Does
<1>7. CASE \E m \in Models : BeginImport(t, m) /\ UNCHANGED <<op, sched>>
  BY <1>5, <1>7 DEF BeginImport
<1>8. CASE \E work \in {"copy", "clear"} : Acquire(t, work) /\ UNCHANGED <<op, sched>>
  BY <1>5, <1>8 DEF Acquire, GoTo, Does
<1> QED  BY <1>2, <1>3, <1>4, <1>6, <1>7, <1>8 DEF Asked

LEMMA SchedStarts == ASSUME Init  PROVE SchedInv
<1>1. \A t \in Threads : thread[t].at = "idle"
  BY DEF Init, StoreInit, Idle
<1>2. <<>> \in Seq(Ops)
  OBVIOUS
<1>3. Queued
  BY <1>2, SlicingAssumption DEF Init, Queued, OpStates
<1>4. Slicer /\ \A t \in Users : Asking(t)
  BY <1>1, SlicingAssumption DEF Init, Slicer, Asking, Users, W
<1> QED  BY <1>3, <1>4 DEF SchedInv

LEMMA SchedStep == ASSUME ContentInv, SchedInv, [Next]_vars  PROVE SchedInv'
<1>1. ASSUME NEW t \in Users, UserStep(t)  PROVE SchedInv'
  <2>1. CASE At(t, "released") /\ Ends(t) /\ UNCHANGED <<files, db, placing, lease, permits, faults, slices>>
    <3>1. t \in Threads /\ t # W /\ ThreadShape
      BY DEF Users, W, ContentInv, Shaped, ThreadShape
    <3>2. Others(t) /\ thread'[t].at = "idle" /\ thread[t].at = "released" /\ UNCHANGED <<op, queue, current, starting, engine>>
      BY <2>1, <3>1, Taking DEF Ends, At, slices, sched
    <3> QED  BY <3>1, <3>2, NeutralKeeps DEF Neutral
  <2>2. CASE Enqueue(t)
    BY <2>2, StartSched
  <2> QED  BY <1>1, <2>1, <2>2, CancelSched, CancelEndsSched DEF UserStep
<1>2. CASE UNCHANGED vars
  BY <1>2 DEF vars, store, slices, sched, SchedInv, Queued, Slicer, Asking, InQueue, Mine
<1>3. CASE Abandon
  <2>1. UNCHANGED <<thread, op, current, engine, starting>> /\ QueueKeeps({o \in Ops : op[o] # "gone"})
    BY <1>3 DEF Abandon, store
  <2>2. /\ queue' \in Seq(Ops) /\ \A i, k \in DOMAIN queue' : queue'[i] = queue'[k] => i = k
        /\ \A o : InQueue(o)' => InQueue(o)
    <3>1. {o \in Ops : op[o] # "gone"} \in SUBSET Ops
      OBVIOUS
    <3> QED  BY <2>1, <3>1, Keeping
  <2>3. \A i \in DOMAIN queue' : InQueue(queue'[i])
    BY <2>2 DEF InQueue
  <2>4. Queued'
    BY <2>1, <2>2, <2>3 DEF SchedInv, Queued, InQueue
  <2>5. queue = <<>> => queue' = <<>>
    BY <2>2, <2>3 DEF InQueue
  <2>6. Slicer'
    BY <2>1, <2>5 DEF SchedInv, Slicer
  <2>7. ASSUME NEW t \in Users  PROVE Asking(t)'
    BY <2>1, <2>2, <2>7 DEF SchedInv, Asking, Mine
  <2> QED  BY <2>4, <2>6, <2>7 DEF SchedInv
<1>4. CASE Die \/ Quit
  <2>1. /\ \A t \in Threads : thread'[t].at = IF t = W THEN "starting" ELSE "idle"
        /\ UNCHANGED op /\ queue' = <<>> /\ current' = None /\ engine' = None
    BY <1>4 DEF Die, Quit, Closes
  <2>2. <<>> \in Seq(Ops)
    OBVIOUS
  <2>3. Queued'
    BY <2>1, <2>2, SlicingAssumption DEF SchedInv, Queued
  <2>4. Slicer' /\ \A t \in Users : Asking(t)'
    BY <2>1, SlicingAssumption DEF Slicer, Asking, Users, W
  <2> QED  BY <2>3, <2>4 DEF SchedInv
<1>5. CASE Works
  BY <1>1, <1>3, <1>5, SlicerSched, StoreSteps DEF Works
<1>6. CASE Serving /\ IdleUsers # {} /\ Asked(CHOOSE t \in IdleUsers : TRUE)
  <2> DEFINE t == CHOOSE u \in IdleUsers : TRUE
  <2>1. t \in Users
    BY <1>6 DEF IdleUsers
  <2> HIDE DEF t
  <2>2. Asked(t)
    BY <1>6 DEF t
  <2> QED  BY <1>6, <2>1, <2>2, AskedSched
<1> QED  BY <1>2, <1>4, <1>5, <1>6 DEF Next

\* An operation is with the queue, the worker or a start, and once a cancel has seen it with
\* none it stays so: the inductive invariant behind EngineEndsFirst.
THEOREM OneScheduler == Spec => []SchedInv
<1>1. Init => SchedInv
  BY SchedStarts
<1>2. ContentInv /\ SchedInv /\ [Next]_vars => SchedInv'
  BY SchedStep
<1> QED  BY <1>1, <1>2, LocksHold, PTL DEF Spec

\* An operation that ended has no engine left running for it, however cancels, starts, the
\* engine's exit and crashes interleave.
THEOREM EndedRunsNothing == Spec => []EngineEndsFirst
<1>1. SchedInv => EngineEndsFirst
  BY DEF SchedInv, Slicer, EngineEndsFirst
<1> QED  BY <1>1, OneScheduler, PTL
=============================================================================

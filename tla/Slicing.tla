------------------------------ MODULE Slicing ------------------------------
(***************************************************************************)
(* The slicing scheduler (slicing/operations.rs), publication              *)
(* (slicing/publish.rs) and the rows they write (slicing/repository.rs),   *)
(* over the content store they publish into.                               *)
(*                                                                         *)
(* Threads run the commands; Worker is the one slicer thread.  An          *)
(* operation's rows name its log; a succeeded one's revision names the     *)
(* G-code, the inputs and the log.  Left out: progress, the checks of a    *)
(* start before its transaction, and what the engine reads and writes.     *)
(***************************************************************************)
EXTENDS ContentStore

CONSTANTS
    Ops,          \* slice operations
    Worker,       \* the slicer thread, one of Threads
    ModelOf,      \* [Ops -> Models]: whose Preparation each slices
    Log, Rev,     \* [Ops -> Owners]: the owner of its log, its revision
    Kept,         \* KEPT_UNPUBLISHED_LOGS
    Sliced,       \* the Models imported before
    Plans         \* how many commands of each kind are issued

Kinds == {"start", "cancel", "model", "preparation", "revision", "import", "copy", "clear"}

ASSUME SlicingAssumption ==
    /\ Worker \in Threads /\ IsFiniteSet(Ops) /\ None \notin Ops
    /\ ModelOf \in [Ops -> Models]
    /\ Log \in [Ops -> Owners \ Models] /\ Rev \in [Ops -> Owners \ Models]
    /\ Sliced \subseteq Models /\ Kept \in Nat
    /\ Plans \subseteq [Kinds -> Nat]

VARIABLES
    op,         \* the state of each operation's row
    ended,      \* the failed and cancelled ones, oldest first
    queue,      \* SchedulerState.queue
    current,    \* SchedulerState.current
    flag,       \* the operations whose cancel flag is raised
    engine,     \* the operation OrcaSlicer runs for
    starting,   \* who holds the lock around a start
    removed,    \* a Model's removal has been announced and not followed yet
    budget      \* commands still to be issued, by kind

sched == <<queue, current, flag, engine, starting>>
slices == <<op, ended, sched, removed, budget>>
vars == <<store, slices>>

Active == {"queued", "running"}
Ended == {"succeeded", "failed", "cancelled", "interrupted"}
Users == Threads \ {Worker}
Mine(t) == thread[t].owner
Command(kind) == budget[kind] > 0 /\ budget' = [budget EXCEPT ![kind] = @ - 1]
Holds == UNCHANGED <<files, placing, lease, permits>>
RowsOf(m) == {o \in Ops : ModelOf[o] = m /\ op[o] \notin {"none", "gone"}}
---------------------------------------------------------------------------
(* The rows                                                                *)

(* OperationTransition::allowed_from                                       *)
AllowedFrom(from, to) ==
    CASE to = "running" -> from = "queued"
      [] to = "succeeded" -> from = "running"
      [] OTHER -> from \in Active

(* prune_unpublished_logs: of one Preparation's failed and cancelled       *)
(* operations that have a log, all but the Kept latest lose it.            *)
Pruned(order, r) ==
    LET logged == SelectSeq(order, LAMBDA o : r[Log[o]] # {})
        later(i) == {k \in i + 1..Len(logged) : ModelOf[logged[k]] = ModelOf[logged[i]]}
    IN {logged[i] : i \in {i \in DOMAIN logged : Cardinality(later(i)) >= Kept}}
Drop(owners, r) == [x \in Owners |-> IF x \in owners THEN {} ELSE r[x]]
Content(owners) == UNION {refs[x] : x \in owners}

(* transition_operation inside one transaction, with the blobs placed for  *)
(* it; a move that is not allowed writes nothing.                          *)
Transition(o, to, logged, placed) ==
    LET named == IF logged THEN [refs EXCEPT ![Log[o]] = ContentOf[Log[o]]] ELSE refs
        order == IF to \in {"failed", "cancelled"} THEN Append(ended, o) ELSE ended
        lost == {Log[p] : p \in IF to \in {"failed", "cancelled"} THEN Pruned(order, named) ELSE {}}
    IN /\ op' = [op EXCEPT ![o] = to]
       /\ ended' = order
       /\ Write(Drop(lost, named), placed, UNION {named[x] : x \in lost})

(* A transaction that commits, is refused, or fails at the disk.           *)
Try(o, to, logged, placed, yes, no) ==
    \/ AllowedFrom(op[o], to) /\ Transition(o, to, logged, placed) /\ yes /\ Well
    \/ ~AllowedFrom(op[o], to) /\ UNCHANGED <<op, ended, db>> /\ no /\ Well
    \/ AllowedFrom(op[o], to) /\ UNCHANGED <<op, ended, db>> /\ no /\ Faulty
---------------------------------------------------------------------------
(* The queue, in which an operation is at most once                        *)

Orderings(S) == {s \in [1..Cardinality(S) -> S] : \A i, k \in DOMAIN s : s[i] = s[k] => i = k}
InQueue(o) == \E i \in DOMAIN queue : queue[i] = o
Before(o, p) == \E i, k \in DOMAIN queue : i < k /\ queue[i] = o /\ queue[k] = p

(* It keeps those of kept, in their order.                                 *)
QueueKeeps(kept) ==
    \E s \in Orderings({o \in kept : InQueue(o)}) :
        /\ \A i, k \in DOMAIN s : i < k => Before(s[i], s[k])
        /\ queue' = s
---------------------------------------------------------------------------
(* start_slice                                                             *)

Start(t) ==
    /\ At(t, "idle") /\ Free(starting) /\ Command("start")
    /\ \E m \in Models, batch \in SUBSET {o \in Ops : op[o] = "none"} :
          /\ refs[m] # {} /\ batch # {} /\ \A o \in batch : ModelOf[o] = m
          /\ op' = [o \in Ops |-> IF o \in batch THEN "queued" ELSE op[o]]
          /\ Does(t, "enqueue", batch)
    /\ starting' = t
    /\ UNCHANGED <<files, db, placing, lease, permits, faults, ended, queue, current, flag, engine,
                   removed>>

Enqueue(t) ==
    /\ At(t, "enqueue")
    /\ \E s \in Orderings(thread[t].todo) : queue' = queue \o s
    /\ starting' = None /\ Ends(t)
    /\ UNCHANGED <<files, db, placing, lease, permits, faults, op, ended, current, flag, engine,
                   removed, budget>>
---------------------------------------------------------------------------
(* cancel_slice_operation                                                  *)

BeginCancel(t) ==
    /\ At(t, "idle") /\ Command("cancel")
    /\ \E o \in Ops : op[o] \notin {"none", "gone"} /\ Takes(t, "cancel", o, thread[t].todo)
    /\ UNCHANGED <<files, db, placing, lease, permits, faults, op, ended, sched, removed>>

(* cancel_scheduled, under the scheduler's lock; a running job is flagged  *)
(* and waited for, ten seconds at most.                                    *)
CancelScheduled(t, otherwise) ==
    \/ /\ InQueue(Mine(t))
       /\ QueueKeeps(Ops \ {Mine(t)}) /\ UNCHANGED flag
       /\ GoTo(t, "cancelUnstarted")
    \/ /\ current = Mine(t)
       /\ flag' = flag \cup {Mine(t)} /\ UNCHANGED queue
       /\ Ends(t)
    \/ /\ ~InQueue(Mine(t)) /\ current # Mine(t)
       /\ UNCHANGED <<queue, flag>> /\ GoTo(t, otherwise)

Cancel(t) ==
    /\ At(t, "cancel") /\ CancelScheduled(t, "cancelAfterStart")
    /\ UNCHANGED <<files, db, placing, lease, permits, faults, op, ended, current, engine, starting,
                   removed, budget>>

\* Mutant: the second look does not wait for the start.
LooksAtOnce(t) ==
    /\ At(t, "cancelAfterStart")
    /\ CancelScheduled(t, "cancelUnheld")
    /\ UNCHANGED <<files, db, placing, lease, permits, faults, op, ended, current, engine, starting,
                   removed, budget>>

(* It may be between a start's commit and its enqueue: look again once no  *)
(* start is in progress.                                                   *)
CancelAfterStart(t) ==
    /\ At(t, "cancelAfterStart") /\ Free(starting)
    /\ CancelScheduled(t, "cancelUnheld")
    /\ UNCHANGED <<files, db, placing, lease, permits, faults, op, ended, current, engine, starting,
                   removed, budget>>

CancelUnheld(t) ==
    /\ At(t, "cancelUnheld")
    /\ IF op[Mine(t)] \in Active THEN GoTo(t, "cancelUnstarted") ELSE Ends(t)
    /\ UNCHANGED <<files, db, placing, lease, permits, faults, slices>>

CancelUnstarted(t) ==
    /\ At(t, "cancelUnstarted")
    /\ Try(Mine(t), "cancelled", FALSE, {}, GoTo(t, "release"), GoTo(t, "release"))
    /\ Holds /\ UNCHANGED <<sched, removed, budget>>
---------------------------------------------------------------------------
(* The worker                                                              *)

W == Worker
Job == current
Go(at) == GoTo(W, at)

Pop ==
    /\ At(W, "idle") /\ queue # <<>>
    /\ current' = Head(queue) /\ queue' = Tail(queue)
    /\ Go("claimed")
    /\ UNCHANGED <<files, db, placing, lease, permits, faults, op, ended, flag, engine, starting,
                   removed, budget>>

(* run_job: a row that ended or went with its Model runs nothing.          *)
Claim ==
    /\ At(W, "claimed")
    /\ Go(IF op[Job] # "queued" THEN "settle" ELSE IF Job \in flag THEN "endUnstarted" ELSE "spawn")
    /\ UNCHANGED <<files, db, placing, lease, permits, faults, slices>>

EndUnstarted ==
    /\ At(W, "endUnstarted")
    /\ Try(Job, "cancelled", FALSE, {}, Go("release"), Go("release"))
    /\ Holds /\ UNCHANGED <<sched, removed, budget>>

(* run_slice: nothing is spawned when a cancel landed meanwhile.           *)
Spawn ==
    /\ At(W, "spawn")
    /\ IF Job \in flag THEN UNCHANGED engine /\ Go("cancelledRun")
       ELSE \/ engine' = Job /\ Go("spawned")
            \/ UNCHANGED engine /\ Go("failedRun")
    /\ UNCHANGED <<files, db, placing, lease, permits, faults, op, ended, queue, current, flag,
                   starting, removed, budget>>

(* spawned: when the row cannot become running, the engine is stopped.     *)
Spawned ==
    /\ At(W, "spawned")
    /\ Try(Job, "running", FALSE, {}, UNCHANGED flag, flag' = flag \cup {Job})
    /\ Go("running")
    /\ Holds /\ UNCHANGED <<queue, current, engine, starting, removed, budget>>

(* The engine exits by itself, or is stopped for the flag.                 *)
Exit ==
    /\ At(W, "running")
    /\ engine' = None
    /\ \/ Go(IF Job \in flag THEN "cancelledRun" ELSE "stage")
       \/ Job \notin flag /\ Go("failedRun")
    /\ UNCHANGED <<files, db, placing, lease, permits, faults, op, ended, queue, current, flag,
                   starting, removed, budget>>

(* publish: the outputs are staged, placed, and committed with the         *)
(* revision and the move to succeeded.  The cancel flag is looked at while *)
(* staging and for the last time under the placement lock.                 *)
Stage ==
    /\ At(W, "stage")
    /\ IF Job \in flag THEN Go("cancelledRun")
       ELSE Does(W, "publish", ContentOf[Rev[Job]])
    /\ UNCHANGED <<files, db, placing, lease, permits, faults, slices>>

PlaceOutputs ==
    /\ At(W, "publish") /\ Free(placing)
    /\ IF Job \in flag THEN Go("cancelledRun") /\ UNCHANGED <<files, placing, faults>>
       ELSE PlaceTo(W, Go("succeed"))
    /\ UNCHANGED <<db, lease, permits, slices>>

Publish ==
    /\ At(W, "succeed")
    /\ \/ /\ AllowedFrom(op[Job], "succeeded")
          /\ op' = [op EXCEPT ![Job] = "succeeded"]
          /\ Write([refs EXCEPT ![Rev[Job]] = ContentOf[Rev[Job]]], thread[W].todo, {})
          /\ Go("settle") /\ Well
       \/ ~AllowedFrom(op[Job], "succeeded") /\ UNCHANGED <<op, db>> /\ Go("failed") /\ Well
       \/ AllowedFrom(op[Job], "succeeded") /\ UNCHANGED <<op, db>> /\ Go("failed") /\ Faulty
    /\ placing' = None
    /\ UNCHANGED <<files, lease, permits, ended, sched, removed, budget>>

(* record_unpublished: the log is placed and named as the operation ends.  *)
Verdict(at) == IF at \in {"cancelledRun", "cancelLog"} THEN "cancelled" ELSE "failed"
PlaceLog ==
    /\ thread[W].at \in {"cancelledRun", "failedRun", "failLog"}
    /\ LET at == thread[W].at
           next == CASE at = "cancelledRun" -> "cancelLog"
                     [] at = "failedRun" -> "endLog" [] OTHER -> "lastLog"
       IN /\ Free(placing)
          /\ \/ placing' = W /\ files' = files \cup ContentOf[Log[Job]] /\ Go(next) /\ Well
             \/ /\ UNCHANGED <<placing, files>> /\ Faulty
                /\ Go(IF at = "failLog" THEN "failPlain" ELSE "failed")
    /\ UNCHANGED <<db, lease, permits, slices>>

EndWithLog ==
    /\ thread[W].at \in {"cancelLog", "endLog", "lastLog"}
    /\ Try(Job, Verdict(thread[W].at), TRUE, ContentOf[Log[Job]], Go("release"),
           Go(IF At(W, "lastLog") THEN "failPlain" ELSE "failed"))
    /\ placing' = None
    /\ UNCHANGED <<files, lease, permits, sched, removed, budget>>

(* fail_operation, if the row is still queued or running: with the log     *)
(* when it can be kept, without it otherwise.                              *)
FailOperation ==
    /\ At(W, "failed")
    /\ Go(IF op[Job] \in Active THEN "failLog" ELSE "settle")
    /\ UNCHANGED <<files, db, placing, lease, permits, faults, slices>>

FailPlain ==
    /\ At(W, "failPlain")
    /\ Try(Job, "failed", FALSE, {}, Go("release"), Go("release"))
    /\ Holds /\ UNCHANGED <<sched, removed, budget>>

Settle ==
    /\ thread[W].at \in {"settle", "released"}
    /\ current' = None /\ flag' = flag \ {current} /\ Ends(W)
    /\ UNCHANGED <<files, db, placing, lease, permits, faults, op, ended, queue, engine, starting,
                   removed, budget>>
---------------------------------------------------------------------------
(* Deletions                                                               *)

(* A deleted Model takes its Preparation, operations and logs with it; a   *)
(* Slice Revision blocks it.                                               *)
DeleteModel(t) ==
    /\ At(t, "idle") /\ Command("model")
    /\ \E m \in Models :
          LET mine == {o \in Ops : ModelOf[o] = m}
              owners == {m} \cup {Log[o] : o \in mine}
          IN /\ refs[m] # {} /\ \A o \in mine : refs[Rev[o]] = {}
             /\ Write(Drop(owners, refs), {}, Content(owners))
             /\ op' = [o \in Ops |-> IF o \in RowsOf(m) THEN "gone" ELSE op[o]]
             /\ ended' = SelectSeq(ended, LAMBDA o : o \notin mine)
    /\ removed' = TRUE /\ Does(t, "release", {})
    /\ UNCHANGED <<files, placing, lease, permits, faults, sched>>

(* follow_model, abandon_deleted_jobs: on a thread of its own.             *)
Abandon ==
    /\ removed
    /\ removed' = FALSE
    /\ QueueKeeps({o \in Ops : op[o] # "gone"})
    /\ flag' = IF current # None /\ op[current] = "gone" THEN flag \cup {current} ELSE flag
    /\ UNCHANGED <<store, op, ended, current, engine, starting, budget>>

DeletePreparation(t) ==
    /\ At(t, "idle") /\ Command("preparation")
    /\ \E m \in Models :
          LET owners == {Log[o] : o \in RowsOf(m)}
          IN /\ RowsOf(m) # {} /\ \A o \in RowsOf(m) : op[o] \notin Active
             /\ Write(Drop(owners, refs), {}, Content(owners))
             /\ op' = [o \in Ops |-> IF o \in RowsOf(m) THEN "gone" ELSE op[o]]
             /\ ended' = SelectSeq(ended, LAMBDA o : ModelOf[o] # m)
    /\ Does(t, "release", {})
    /\ UNCHANGED <<files, placing, lease, permits, faults, sched, removed>>

DeleteRevision(t) ==
    /\ At(t, "idle") /\ Command("revision")
    /\ \E o \in Ops : /\ refs[Rev[o]] # {}
                      /\ Write(Drop({Rev[o]}, refs), {}, refs[Rev[o]])
    /\ Does(t, "release", {})
    /\ UNCHANGED <<files, placing, lease, permits, faults, op, ended, sched, removed>>
---------------------------------------------------------------------------
(* Start and end of the process                                            *)

(* A crash, or farm3d closed with nothing under way.                       *)
Closes ==
    /\ placing' = None /\ lease' = None /\ permits' = {}
    /\ thread' = [t \in Threads |-> [at |-> IF t = W THEN "starting" ELSE "idle", owner |-> None, todo |-> {}]]
    /\ queue' = <<>> /\ current' = None /\ flag' = {} /\ engine' = None /\ starting' = None
    /\ removed' = FALSE
    /\ UNCHANGED <<files, db, op, ended, budget>>
Die == Faulty /\ Closes
Quit == /\ \A t \in Threads : At(t, "idle")
        /\ queue = <<>> /\ ~removed /\ Well /\ Closes

(* startup_sweep: the pending ones and the orphans go, if they can be      *)
(* unlinked.                                                               *)
Sweep ==
    /\ At(W, "starting")
    /\ \E stuck \in SUBSET (pending \ rows), left \in SUBSET Orphans :
          /\ (stuck \cup left) # {} => Faulty
          /\ stuck \cup left = {} => Well
          /\ files' = (files \ ((pending \ rows) \cup Orphans)) \cup (stuck \cap files) \cup left
          /\ pending' = stuck
    /\ Go("recover")
    /\ UNCHANGED <<rows, refs, placing, lease, permits, slices>>

\* Mutant: only the logs are pruned at a start.
PrunesOnly ==
    /\ At(W, "recover")
    /\ LET lost == {Log[o] : o \in Pruned(ended, refs)}
       IN Write(Drop(lost, refs), {}, Content(lost))
    /\ Does(W, "release", {})
    /\ UNCHANGED <<files, placing, lease, permits, faults, slices>>

(* recover_after_restart, then release_unreferenced.                       *)
Recover ==
    /\ At(W, "recover")
    /\ op' = [o \in Ops |-> IF op[o] \in Active THEN "interrupted" ELSE op[o]]
    /\ LET lost == {Log[o] : o \in Pruned(ended, refs)}
       IN Write(Drop(lost, refs), {}, Content(lost))
    /\ Does(W, "release", {})
    /\ UNCHANGED <<files, placing, lease, permits, faults, ended, sched, removed, budget>>

(* Commands are served once the start is through with its cleanup.         *)
Serving == At(W, "idle") \/ current # None
---------------------------------------------------------------------------
WorkerStep ==
    \/ Pop \/ Claim \/ EndUnstarted \/ Spawn \/ Spawned \/ Exit \/ Stage \/ PlaceOutputs \/ Publish
    \/ PlaceLog \/ EndWithLog \/ FailOperation \/ FailPlain \/ Settle \/ Sweep \/ Recover

UserStep(t) ==
    \/ Enqueue(t) \/ Cancel(t) \/ CancelAfterStart(t) \/ CancelUnheld(t) \/ CancelUnstarted(t)
    \/ /\ At(t, "released") /\ Ends(t)
       /\ UNCHANGED <<files, db, placing, lease, permits, faults, slices>>

Asked(t) ==
    \/ Start(t) \/ BeginCancel(t) \/ DeleteModel(t) \/ DeletePreparation(t) \/ DeleteRevision(t)
    \/ /\ Command("import") /\ \E m \in Models : BeginImport(t, m)
       /\ UNCHANGED <<op, ended, sched, removed>>
    \/ \E work \in {"copy", "clear"} : Command(work) /\ Acquire(t, work)
       /\ UNCHANGED <<op, ended, sched, removed>>

Works == \/ WorkerStep \/ Abandon
         \/ \E t \in Threads : StoreStep(t) /\ UNCHANGED slices
         \/ \E t \in Users : UserStep(t)

(* Any thread that is free runs the next command; which one is all the same.*)
IdleUsers == {t \in Users : At(t, "idle")}
Next == \/ Works \/ Die \/ Quit
        \/ Serving /\ IdleUsers # {} /\ Asked(CHOOSE t \in IdleUsers : TRUE)

Init ==
    /\ StoreInit(Sliced)
    /\ op = [o \in Ops |-> "none"] /\ ended = <<>>
    /\ queue = <<>> /\ current = None /\ flag = {} /\ engine = None /\ starting = None
    /\ removed = FALSE /\ budget \in Plans

(* Threads get on with what they do, the engine exits or is stopped, and   *)
(* farm3d is started again some day.                                       *)
Spec == Init /\ [][Next]_vars /\ WF_vars(Works) /\ WF_vars(Quit)
---------------------------------------------------------------------------
(* What slicing promises                                                   *)

(* An operation that ended has no engine left running for it: a cancel     *)
(* that finds its job with neither the queue nor the worker really has a   *)
(* job that can no longer run.                                             *)
EngineEndsFirst == engine # None => op[engine] \notin Ended

(* Every operation started ends, if only at the next start of farm3d.      *)
OperationsEnd == \A o \in Ops : op[o] \in Active ~> op[o] \notin Active
=============================================================================

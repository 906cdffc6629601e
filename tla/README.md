# farm3d in TLA+

farm3d is a desktop app (Tauri: a Rust backend, a SolidJS front end) that runs a small farm of 3D printers. It
keeps a library of models, slices them, queues the sliced files, assigns queue entries to printers, sends the
G-code to the printers' hosts (Moonraker, OctoPrint), follows each print to its end, and accounts for the filament
it used. This directory holds TLA+ models of the backend (`src-tauri/src`), the TLC runs that check them on small
instances, and proofs of the main results for every instance, checked by tlapm.

Paths below are relative to `src-tauri/src` unless they say otherwise. A "spec" is a document under
`docs/superpowers/specs`, an "ADR" one under `docs/adr`.

## 1. The system and its parts

One process owns one SQLite database (a lease on the metadata root keeps a second process out). Every state change
is one `BEGIN IMMEDIATE` transaction (`persistence/database.rs`), so a transaction is one atomic step in every
module here. Around the database run async tasks; what they know between two transactions is the interesting state.

| Part | State it keeps | Operations | Talks to |
|---|---|---|---|
| Host Operations (`host_ops`) | `host_operations` rows; per-Printer locks, retry timers, cached host facts | upload, start, pause, resume, cancel; mark sent; commit outcome; reconcile; check again; abandon | printer hosts; the Online hook of the supervisor; Jobs through `job_id` and the outcome broadcast |
| Jobs (`jobs`) | `jobs`, `job_requirements` rows; the driver task's sets | assign, release, retry, cancel, stage, start, pause/resume/cancel, declare, settle, correct | Host Operations (stage, start, control), the tracker's status hints and history reads, Spools, Queue |
| Queue (`queue`) | `queue_entries` with dense positions | create, move, update, close, release | Jobs; the automatic evaluator |
| Automatic evaluator (`queue/evaluator.rs`) | last run, triggers, one re-poke | one pass at a time, proposing one assignment and re-checking it under the Printer lock | Jobs' `assign` |
| Spools (`spools`) | `spools`, material ledger, movements, reservations, slots, the idempotency table `operations` | weigh, move, load, reserve, release, consume, correct | Jobs |
| Connection supervisor (`connections/supervisor.rs`) | status map with epochs, hydrated set, tasks | start, stop, observe, report error, clear | hosts; Host Operations (Online hook), Jobs (status broadcast), attention |
| Adapters (`connections/moonraker`, `octoprint`) | none | observe, stage, locate, start, pause, resume, cancel, history | hosts |
| Printers (`printers`) | `printers` rows | create, batch create, edit Connection, archive, unarchive, delete | Host Operations' and Jobs' guards inside their transactions |
| Library (`library`) | models, source revisions, content-addressed blobs on disk, linked-source watchers | import, capture a changed link, relocate, delete, sweep | slicing, jobs (by revision) |
| Slicing (`slicing`) | preparations, slice operations and revisions; one worker thread with a FIFO | start, cancel, run, publish, recover | OrcaSlicer processes; library content |
| Attention and Incidents (`attention`, `incidents`) | open and resolved Events, acknowledgements, Incidents | one projection pass over everything else, resolve, acknowledge | notifications, front end |
| Notifications (`notifications`) | outstanding desktop notifications | consider, activate, mark read | D-Bus |
| Cameras (`cameras`) | camera health, snapshot rows and image files | capture, pin, prune, sweep | attention (capture triggers) |
| Backup (`backup`) | the exclusive lease, a staged candidate, the restore/reset journal | write an archive, stage, apply, install at startup with rollback | every store, on startup, before anything is served |
| Persistence (`persistence`) | the database, snapshots, the legacy import | migrate, snapshot, validate | everything |
| Settings, catalog, history, diagnostics, contracts, front end | settings row; read-only data; log ring | read, edit, project, export | - |

Hard behaviours, by part: Host Operations - a write whose answer is lost, a crash around the send, edits that race
checks, timers cancelled by generation; Jobs - a host write's late outcome against a Job that moved on, a stale
status after farm3d's own pause, history read without the lock and applied under it, exactly-once consumption;
Queue - renumbering under a uniqueness constraint; evaluator - decisions from a snapshot that is stale when they
are applied; supervisor - observations of a stopped supervision; library - a blob unlinked while an import reuses
it, a check of a link that changed; slicing - cancel against start against exit; installer - a crash or an I/O
error between any two file moves. PROJECT.json `hazards` lists each at the line where it bites.

What makes each part correct, in a sentence each: a host write is never sent twice, is called failed only if it
cannot take effect and succeeded only on evidence; a Job's state is the truth about its print, and its filament is
counted once; positions stay dense and no entry has two active Jobs; an automatic assignment is one an operator
could have made at that moment; a status never comes from a supervision that was replaced; a referenced blob is
always on disk; a slice operation always ends and a cancelled one never publishes; a condition has at most one open
Event; after any sequence of crashes an install leaves either all of the old data or all of the new.
## 2. Host Operations: `HostOps`

The most important behaviour of the program: physical machines are told to do things over an unreliable network by
an app that may die at any moment. ADR-0004 and the P6 spec describe the design; `HostOps.tla` is translated from
the code.

State. `row` is the `host_operations` table (a row's id is the operation id that made it). `exec` and `outcome` are
the executor task of each row and the answer it has classified but not committed. `cmd` and `att` are the write
command and the reconcile attempt that hold a Printer's lock across their host reads; the lock is free when both are
idle. `queued` are attempts waiting for the lock; `timer` and `hook` are the retry timer of the current generation
and the Online hook task. `printer` is the `printers` row with its live status. `net` and `host` are the world:
what became of the one request each operation may send, and each host's disk, print and history. `sends`, `shown`
and `settled` are history variables. `up` says whether the process runs; `budget` counts what the bounds leave.

Actions and code. A write command is `CheckWrite` (the checks and host reads under the lock, `api.rs` stage, start,
control), then `WriteAhead` (the transaction that re-checks and inserts `dispatching`) or `CommandFails`. The
executor is `PrepareFails`, `MarkSent`, `MarkSentFails`, `Send`, `Answered`, `Verify`, `Panic`, `CommitOutcome`,
`CommitOutcomeFails` (`executor.rs`, `services.rs`). The reconciler is `BeginAttempt`, `Decide`, `EndAttempt` and the
two failed commits (`reconciler.rs`); `TimerFires`, `OnOnline`, `CheckAgain` and `Restart` start it; `Abandon` is the
operator's way out. Connection and lifecycle edits (`SetConnection`, `Archive`, `Unarchive`, `DeletePrinter`) take no
lock, exactly as in `printers/repository.rs`; their guards run inside their transactions. `Land`, `Drop`,
`PrintEnds`, `Outside` are the network, the hosts and the people at them.

Abstractions. G-code and paths are `ours` (the staged file) or `other`. A host's history is the newest job id and
the newest id for the staged file; ids only grow, which stands for the `dispatched_at - 30 s` bound on history
entries. Time is absent except for the settle period: `SettlePasses` is allowed once a request is no longer in
flight, which is the premise of `SETTLE_PERIOD` (a write the host has not applied by then never will be). Two
Printers never share a host (`precheck_duplicate_host`). A same-file print started by somebody else can be adopted
as ours; P6 accepts that ("Known gaps accepted"), and `SuccessHasEvidence` says exactly what is promised. Not
modelled: `no_longer_pending` (shown to the operator, never read by the state machine), event publication, a
credential-only Connection change (allowed by `connection_change_orphans`, changes no endpoint). The commands'
re-checks of the cached live status are coarser in the model: `MayWrite` asks the live `online` flag and the host's
own state. Two conditions of `write_ahead` need Jobs and are left out (an unlinked write is refused while the
Printer has an active Job; a linked one updates its Job in the same transaction); leaving a refusal out only adds
behaviours.

`HostWrites` is the abstract specification that the layers above rely on: each operation is a write that is open
until resolved, a Printer has one open write at a time, a write is sent at most once and takes effect at most once,
and it is declared failed only when it cannot take effect any more and (unless repeatable) never did.
`HostOpsRefinement` maps a row's state to the write's status and the network's verdict to its effect.

### Runs

All three run with one Printer: a Printer's lock, rows, timers and host are its own. Two operations are needed for
one to be mistaken for another and are enough, because at most one row is unresolved at a time. History has room
for two prints (one before, one of ours, or an outsider's). A behaviour draws one of a set of budgets (`Budgets`),
so that one run covers several combinations of trouble without multiplying them. Every cfg sets
`CHECK_DEADLOCK FALSE`: with all budgets spent, an idle app is a state that may stop.

| Run | Bounds | Checks |
|---|---|---|
| `hostops_troubles` | 2 operations (upload, start) with 1 crash and 1 storage failure or 1 panic; or 2 uploads, 2 endpoints and 2 Connection, archive or delete edits | `SentOnce`, `OneUnresolved`, `EndpointKept`, `ImplementsWrites` |
| `hostops_outsiders` | 2 operations (upload and start, or pause and cancel), 1 crash, 1 change by somebody else | `FailedIsQuiet`, `SuccessHasEvidence` |
| `hostops_live` | 1 operation, 1 crash, 2 offline edges, 1 change by somebody else; or 1 panic, 1 offline edge; fairness | `DispatchEnds`, `ChecksGoOn` |

`DispatchEnds` and `ChecksGoOn` are checked without storage failures, and need that: when the commit
that opens an attempt fails (`host_ops/reconciler.rs:355`), the attempt returns without scheduling another, and the
row waits for the next Online edge, "Check again" or restart; when the commit that ends an attempt or a dispatch
fails, the row stays `reconciling` or `dispatching` until the next start, as the code's comments say.

Fairness (`hostops_live`): weak fairness of each task step (the runtime polls what it spawned, every host request
ends in an answer or its timeout, timers fire), strong fairness of the two steps that wait for a Printer's lock
(tokio's Mutex is first-in first-out, so a waiter cannot be overtaken for ever), weak fairness of `Restart` (a
crashed app is started again). Nothing is assumed of the network, the hosts or the operator.

### Proofs

For all constants satisfying the module's assumptions:

- `HostOpsProofs`: `TypeCorrect`; `InductiveHolds`, the inductive invariant; from it `AtMostOneUnresolved`,
  `NeverSentTwice`, `FailedStaysQuiet`, `EndpointIsKept`; `TerminalRowsAreFinal`; and `SuccessIsProved`.
- `HostOpsProofs` too, from `HostOpsRefinement`: `Refinement`, every behaviour of `HostOps` is one of `HostWrites`.

The invariants are not inductive alone: `FailedIsQuiet` is broken by a commit of an outcome the executor classified
earlier, so it needs to know that a classified failure means the request was refused or never sent. `HostOpsInv`
states what every task in progress knows: `ExecutorKnows` (the row is `dispatching` until its task commits, an
unmarked task sent nothing, a failure is classified only of what cannot happen), `AttemptKnows` (an attempt's row is
`reconciling` on the Printer it locked; only a settled upload is decided not applied), `SentIsRecorded`,
`SettledIsOver`, `DownIsIdle`. `Evident` adds what success rests on: `Noticed` (an effect the host shows after
`dispatched_at` has been noticed), `CheckedWasSent`, `SuccessKnows`, and two facts about names and history order. TLC
checked both conjunctions as invariants before they were proved. `TypeOK` and `TerminalIsFinal` are only proved; the
two liveness properties are checked by TLC only, since liveness is out of tlapm's reach.
## 3. Jobs: `Jobs`

A queue entry is assigned to a Printer, which makes a Job and reserves filament. The Job's file is staged and
started by Host Operations linked to it, the print is then followed in the host's history until it ends, and the
filament is settled. `Jobs.tla` is translated from `jobs/`, the parts of `queue/` and `spools/reservations.rs` a Job
touches, and the commands of `host_ops/api.rs` that carry a link.

State. `status`, `owner`, `effect`, `again` are the Host Operations, exactly as `HostWrites` has them: what a Job may
rely on is what `HostOps` was proved to implement, not how. `link` is what each operation is for and what its checks
saw (kind, Job, endpoint, history mark, staged upload). `job`, `entry`, `account` are the `jobs` and `queue_entries`
tables and, per Job, its reservation, its two possible requirements and the number of consumptions in the ledger.
`cmd` is the command each caller (operators, the driver) is in; `poll` is the history page the driver has read and
not yet applied. `host` is each host's print history and print state, with what started and ended each print (which
farm3d cannot see; only the properties look at it). `printer` is the Printer's Connection, live status, start safety
and whether the Job's Spool is still loaded.

Actions and code. `CreateEntry`, `RemoveEntry`, `Assign`, `Release`, `CancelBeforeStart`, `Retry` are single
transactions (`assign.rs`, `queue/repository.rs`). A hand-off has three steps, because the code reads in three
places: `OperatorAsks`, `DriverStages`, `DriverStarts` read the committed Job before the Printer's lock; `Check` is
what `stage`, `start`, `control` read under the lock, from rows, live status and host; `Commit` is the write-ahead
transaction with the Job's re-checks (`MayCommit`), which inserts the operation and moves the Job together. `Refuse`
is every way out, `RecordRefusal` the driver's note of it. `ApplyOutcome` maps a closed operation onto its Job
(`apply_host_outcome`), `Restart` is a crash and the next start's recovery. `ReadHistory` (without the lock) and
`ApplyPoll` (under it, on the Job as it is by then) are the tracker; `Follow` is its status following; `Declare`,
`Settle`, `Defer`, `Correct` the operator's decisions at the end.

Abstractions. All Jobs print the same file: the only case where one print can be taken for another's. A Job is named
by its entry, which has at most one Job. Entries have no positions. Eligibility, and every start blocker but the
loaded Spool, only refuse and are left out, which adds behaviours; so are the replays of `operations` (a replay
writes nothing). `pin_candidate`'s clock bound (a print that started before the dispatch, less the tolerance for
skewed clocks, is no candidate) becomes a choice of any bound between the mark and the dispatch. What the cached
live status says is an input, in `Follow` and in `reports_our_file`. The amounts of filament are absent: `uses`
counts consumptions. The driver is one task: `DriverIdle` says that it takes one wake at a time, which is why no
outcome can be applied while it stages or starts a Job.

Some of what the properties say is as weak as the code: a print of the same file that somebody started at the host
after the checks can be adopted as the Job's, and so can one of an abandoned start that came late (`late` in a print's
record), or one started for another Printer whose Connection named this host in between; `StartIsOwn` allows exactly
these. The last two were missing from an earlier form of it, which TLC's instances did not refute and which the proof
could not be made of. `unreachable_declare_after` is an event that may come at any time once the Job is marked.

### Runs

One Printer, one endpoint unless the Connection is edited: a Printer's lock, operations and active Job are its own,
and two Printers never share a host. `CHECK_DEADLOCK FALSE`, since a farm with nothing to do may stop.

| Run | Bounds (one of the alternatives per behaviour) | Checks |
|---|---|---|
| `jobs_handed` (`Handing`) | 1 Job from an empty queue: 2 operations, 2 prints and 1 act of somebody else, with the driver or an operator; or 3 operations, an operator and the driver and 1 crash; or 3 operations, 2 operators and the driver, no start taking effect | `MaterialOnce`, `PrintsAccounted`, `StartIsOwn`, `LinkedOps`, `UnattendedOnce` |
| `jobs_printed` (`ControllingOrFollowing`) | 1 printing Job, 1 more operation (pause or cancel), 2 hosts, 1 edit; or its print over and the driver alone, with 2 Jobs and 2 more operations or 3 Jobs and 1 | `CancelReasonTrue`, `EndIsProved`, `NothingTwice` |
| `jobs_live` (`Flapping`) | 1 printing Job, 1 cancel, 1 lost connection or restart, fairness | `NothingHangs` |

`StartIsOwn` joins two promises about a start: it names the upload the Job holds when the start commits, and the
history job pinned to a Job is the one its own start created, or one nobody could tell from it. `NothingTwice` joins
that no two Jobs are pinned to one print and that a lineage of retries and releases has one open entry. `NothingHangs`
joins `OutcomeApplied` (a resolved operation stops being waited for, unless the Job ends) and `Tracked` (a Job whose print is over does not
stay on the host). `TypeOK` and
`TerminalFinal` (a Job that is over stays as it ended) are proved and have no run of their own.

Two operations are an upload and its start; a third is a restage, a second start or a control. The inconclusive limit
is 1 and the page as long as the history: a higher limit repeats the same poll. `jobs_printed` and `jobs_live` begin
where Job 1 has been staged and started (`Started` in `MCJobs`, a state that the specification of `jobs_handed`
reaches), so that the bounds are spent on what comes after. `jobs_handed` uses the symmetry of its operators.

Fairness (`jobs_live`): weak fairness of a command that has asked (its host reads end in an answer or a timeout),
strong fairness of the driver's steps, which wait for the Printer's lock (first-in first-out) and for the driver's
own turn. Strong fairness of `ApplyOutcome` is assumed for active Jobs only: `resync` reads those again at every poll
interval, whatever broadcast was lost or write failed. A Job that has ended gets an outcome by one broadcast, which may
be lost, and neither `resync` nor `recovery.rs` looks at it again: its row may name an operation that is over for good.
Nothing is assumed of operators or hosts, nor that an operation is ever resolved. `Tracked` needs a print
that is still on the history page: with 50 entries a page, a print pushed off it while farm3d was away is found
inconclusive, and unless the live status reports the file, becomes `outcomeUnknown`.

### Proofs

`JobsProofs` proves `TypeOK` and `MaterialOnce` for every value of the constants that satisfies the assumptions of
`Jobs`: bounds are naturals, `Limit` and `PageSize` positive, ids numbers, the driver no operator. `MaterialOnce`
alone is not inductive: assigning an entry again would add to an account some earlier Job had settled, and a poll
could count beyond the limit. The invariant `MaterialInv` (`JobsInv`) adds what rules this out: a command in progress
names a Job (`CommandsName`, without which a commit could move a row that does not exist), an entry that is queued
has no Job, a row without a Job has nothing booked, and a Job still tracked has polls left before the limit
(`Sound`). The proof has one lemma per group of actions of `Next` (`QueueKeeps`, `JobCommandKeeps`, `HandOffKeeps`,
`DriverKeeps` with `ApplyPollKeeps`, `HostOperationKeeps`, `WorldKeeps`, `RestartKeeps`); the ones about how a row ends
are shared (`ReleasedSound`, `EndedSound`, `StillSound`). A restart applies the outcomes of many Jobs in one step:
`OutcomesKeep` is stated for any set of Jobs and used for one outcome too.

Its other theorems are every other invariant and both action properties. Their first part has nothing to do with any
of them: `StepFits` shows that every step but a `Commit` fits a few shapes, one for what may happen to a Job's row (it
keeps what it had, is assigned, drops its hand-off, is tracked, is read from a page, takes an outcome), and one each for
an operation (`OpFits`), a command (`CmdFits`), a print (`PrintsFit`) and a page (`PollFits`). A `Commit` is the one
step that moves a Job and an operation together, and `HandsOff` says how. Each invariant is then shown to survive the
shapes, not the actions:

- `OperationsInv` for `LinkedOps`: operations are numbered in the order they are opened, an open one of a Printer is its
  last, a checked command has its Printer to itself, a start that has not failed is the only one of its Job and the Job
  is past it, and the upload a Job holds is its last one.
- `PrintsInv` for `PrintsAccounted`, `CancelReasonTrue` and `EndIsProved`: every print names what made it; what was read
  from a page is still so when it is applied, except that a print that was running may have ended (`PollTrue`); a pin
  is to a print of the endpoint of the Job's start.
- `PinsInv` for `StartIsOwn` and `PinsDistinct`: a Printer has one active Job and starts nothing after that Job's start;
  above a start's mark its own prints are that start's, a later one's, or late (`MarksFit`), and what its other Jobs are
  tracked by lies below (`MarksAbove`). This is what the mark, read under the lock, is for.
- `AloneInv` for `UnattendedOnce`: a Job the driver is starting has no start yet, or is past its hand-off, where
  nothing starts it again.
- `LineageInv` for `NothingTwice`: an entry has one successor at most and is closed when it has one; a Job is active
  exactly while its entry is assigned. The reservation of a Job tells how far it is (`ReservationTells`), so that an
  entry is not released or retried twice.

`JobsInv` states all of these. `NothingHangs` is liveness and stays with TLC.

## 4. Restore and reset: `Installer`

A restore or a reset is asked for while the app runs (`backup/apply.rs`, `diagnostics/reset.rs`) and carried out at
the next start, before anything is served, by a journaled installer (`backup/installer.rs`, `installer/rollback.rs`,
`installer/reset.rs`). `Installer.tla` has one action per durable effect: a journal write, a rename, a deletion, a
commit. Between any two the process may die (`Crash`), and each may fail with an I/O error before or after it
happened (`Do`). A failed read of what is restored is another matter (`Misread`): `hash_file` answers `None` and
`load_staging` `false` for a file that cannot be read, as for one that is not there, so one such error ends a restore
as `BACKUP_INVALID` or `RESTORE_STAGING_EXPIRED` without a second attempt.

State. `journal` is the file, `mem` the run's copy of it (which differ when a write failed: `MarkInstalled`), `pc` the
step. What a file holds is the Farm it belongs to: 0 for the one at first, `n` for the one the n-th round installs.
`root`, `aside`, `staging`, `media`, `content` are the files and trees, `db` what each Farm's database says of its
blobs and credentials, `store` the credential store. `before`, `late`, `round`, `defect` and `unread` are history and
inputs: the Farm a failure must bring back, the credentials stored after a journal was written and listed by none
since, the step that finds the backup damaged, the failed reads of it.

Actions are named after the steps: `MarkInstalling`, `Record`, `MoveDatabaseAside`, `PlaceCandidate`, `CarryLocalState`,
`ExtractContent`, `SwapMedia`, `Validate`, `MarkInstalled`, `RemovePrevious`, `MarkDone`; `RollBack` with
`RestoreMedia`, `ClearCandidate`, `MoveBack`, `FinishRollback`; `MoveRootsAside`, `CreateFreshDatabase`,
`DeleteCredentials` for a reset; `Open` is the storage with the startup sweeps after it. Left out: the -shm index, which
the rollback contract ignores, the log root, the snapshot and legacy roots, Slicer paths, safety backups. Left out too:
`exists` (`installer.rs:363`) answers false when the stat itself fails, and the model's stats of the installer's own
files do not; a candidate that is refused while it is placed or its rows are carried (`Validate` stands for all three);
the number of images, of which a restored tree has at least one; a full disk, which is an I/O error with a code of its
own.

Run `files` (with sections 11 and 12): one restore or reset, up to three crashes, I/O errors and failed reads at any
point of it, of its rollback and of the retry; two blobs (one in both Farms), two credentials. Two faults reach a
rollback of a retry; the third hits that rollback. A second round is left to the proofs, which are of any number of
them. Credentials change only while a restart is awaited, the one time when their change meets the journal.

- `FarmIsWhole`: whenever the app opens its storage, database, log, images and content belong to one Farm, the one
  owed (new after a finished round, old after a failed one), and a write-ahead log never lies beside another Farm's
  database, which SQLite would replay into it.
- `CredentialsAccounted`: every stored credential is used, or listed for cleanup in the running Farm's database.
- `GivenUpForCause`: a restore fails only after two attempts that crashes or I/O errors ended, or because the backup
  is damaged or a file of it could not be read. A retry starts over what the attempt before and its rollback left: a
  blob that was neither staged nor stored then, an image tree not put back, a row carried by halves would make a good
  backup fail as a damaged or expired one.
- `Settles`: each journal reaches an end, under weak fairness of the installer's steps and of the restart (`Quit` is the
  restart the app requests itself when it arms a journal).

### Proofs

`InstallerProofs` proves `FarmIsWhole`, `CredentialsAccounted` and `GivenUpForCause` for any credentials, blobs and
backups, any number of rounds, and any number of crashes, I/O errors and failed reads. `InstallerInv` has four parts.

- `Durable` is about the disk alone, so it is what a crash leaves. `Recoverable(journal)` is what a start that finds
  this journal can go on from, by its phase and recorded step: in `pending` the old Farm is whole; while a restore is
  installed the old database is `Split` between root and aside before `placeCandidate` and all aside (`Apart`) from
  there on, and the images are in one of the five states of a swap (`Swapping`), told apart by the recorded `swap`
  alone; a marker moves the line back (`From`, `candidateCleared`). Without a waiting journal the Farm owed is `Whole`.
- `Ordered`: a run's copy of the journal is what is on disk, except in one place: a restore whose record of a step
  failed goes on with a copy that is `Ahead`, a step or the phase `installed` further. Both must then be recoverable,
  for a crash leaves the one and the run follows the other.
- `Counted`: faults keep pace with attempts, except after a backup that turned out damaged.
- `Staged`: at each point of a run, what its next steps rely on (`RestoreAt`, `ResetAt`, `Ending`).

`GivenUpForCause` needs a second invariant beside it, `Fit`. `Supplied`: while a restore waits, every blob of its Farm
is stored or still staged, and in `pending` the candidate and the images are staged, so that a retry finds all the
first attempt found. `Attempt`: each point of a run has what it will be judged by (`Reached`): from `extractContent`
on the rows are carried, from `swapMedia` on every blob is stored; and a run that calls its backup invalid has met a
defect or a failed read (`Blamed`). `Judged` keeps that of the journal that failed.

An action is a journal write or a file effect with the same three outcomes each, so `SaveKeeps`, `EndKeeps` and
`EffectKeeps` take care of errors once, and an action's lemma shows what the effect does to the files. TLC checked the
invariant with two rounds and two faults before it was proved. That attempt found one thing wrong in the model: a
second round emptied `late`, although a credential stored while a restart was awaited stays unlisted in the Farm that
the restart installs, and no later journal lists it either. `Ask` now takes out of `late` only what its journal lists.
`Settles` is liveness and stays with TLC.

## 5. Content and slices: `ContentStore`, `Slicing`

`ContentStore` is `library/content.rs` with the backup lease (`backup/lease.rs`): blobs named by their hash, their
rows, the pending table of blobs to unlink, the placement lock, deletion permits and the lease, and the threads that
go through them. One action is one transaction, one file operation or one wait for a lock. `files`, `rows`,
`pending` are the disk and the two tables, `refs` what each owner (a Model, a Slice Revision, an operation's log)
names; `thread` is where each thread is. `Write` is a transaction followed by `mark_unreferenced_blobs`; `Release` to
`EndRelease` is `release_pending`; `Acquire` to `EndLease` is a backup or a storage cleanup.

`Slicing` extends it with the slice scheduler (`slicing/operations.rs`, `publish.rs`): the scheduler's queue, current
job and cancel flags in memory, operation rows in the database, one worker that claims, spawns the engine, stages and
places its outputs, publishes, keeps logs up to a number, and recovers at startup; the commands that start and cancel,
and those that delete Models, preparations and revisions under its feet. `Quit` waits for the worker, `Die` does not.

Run `slicing`: two operations whose logs have the same text (so that two owners share a blob), a worker and two
command threads, one fault or crash, and one of six plans of what users do (`MCPlans` in `MCSlicing`): cancels racing
the worker, a Model deleted under its slices, a Model imported again, a backup that meets deletions, log pruning,
imports of the same bytes racing their cleanup. All command threads are alike, so the next command runs on any.

- `ContentStays`: named content has its row and its file, through every interleaving of placement, reuse and cleanup
  (`Stored`), and what a backup's database copy names stays on disk until the lease is released (`CopiedFilesStay`).
- `EngineEndsFirst`: an ended operation has no engine running. `OperationsEnd`: every operation ends, if only at the
  next start, under weak fairness of the threads and of quitting (the engine exits or is stopped).

Left out: a panic of the worker, progress reports, hashing and temporary names. A file may stay with neither a row
nor a pending row until the next sweep (a deletion lands between the check and the end of `release_pending`); the
sweep is there for it, and `Stored` says nothing of extra files.

### Proofs

`SlicingProofs` proves `ContentStays` for any hashes, owners, threads and operations, and with it the locks it rests
on (`LocksHold`). `ContentInv` says per thread what it may rely on at each stage: `Shaped` (what it carries), `Alone`
(that nobody is at work during the recovery of a start), `Fine` (which lock a thread holds where it is; what it placed
is there until its own commit, what it is about to unlink has no row, and nothing may be deleted while it reads for a
backup). A step moves one thread, so what it must show is what the step does to the other threads' reliance
(`Behaves`, `StepKeeps`), once for all actions.

`EngineEndsFirst` needs `SchedInv`: the queue, the current job and the engine agree with the rows (`Queued`, `Slicer`),
and an operation that a start has yet to enqueue, or that a cancel found with neither the queue nor the worker, is not
there (`Asking`). A cancel takes an
operation out of the queue, which `QueueKeeps` describes by the orders that remain (`Orderings`); `OneScheduler` says
that the queue holds an operation once. `OperationsEnd` is liveness and stays with TLC.

## 6. The queue and its evaluator: `Queue`

`Queue.tla` is `queue/repository.rs` (entries and positions), `queue/eligibility.rs` (the gates), `jobs/assign.rs` and
`queue/evaluator.rs` (the task that assigns Automatic entries). `entry`, `printer`, `spool` are the rows; `chan`, `due`,
`heard`, `seen` and `ev` are the evaluator's trigger channel of capacity one, the poke after a commit, the status pump
and the task. A move and a close are the sequences of UPDATEs the code runs (`MoveSteps`, `CloseSteps`), so that a
collision half way under the UNIQUE constraint shows. The code copies the live statuses (`LiveWorld::of`) before the
transaction that reads the rows, and merges the copy in: so a pass is `LookAround` (the copy) and `Pass` (the rows), an
automatic assignment `LookAgain` and `AssignProposal`, an operator's `AskToAssign` and `AssignQueueEntry` or
`RefuseToAssign`. The Printer lock spans the two steps of an assignment and keeps out the others of that Printer
(`LockFree`), not a change of its status. Ranking is left out (any candidate may be the top one), as are wording, stale
revisions and replays (such a command writes nothing).

Run `queue_plans`: three entries, two Printers, two Spools, a plain Slice and one with missing facts, and one of seven
plans: the order, lineages, races with a run, a copied status, a busy Printer, loads and archives, failing runs. Printers and Spools
are symmetric. `PumpKeepsUp` bounds the broadcast: a status changes once its last change is handled.

- `PositionsDense`, `OrderKept`: positions are 1..n, nothing collides half way, one command moves one entry, a
  replacement stands where the released entry stood.
- `AssignedSoundly`: an assignment, however old its proposal, fits the rows at its commit and the status its maker
  copied when it asked, and never over-reserves. The status may have changed since: the code does not look again.
- `OffersHold`: what the evaluation offers, the assignment accepts; so a refusal means that something changed.
- `Unstranded`: an idle evaluator with no trigger on its way leaves no ready Automatic entry behind.

Finding, run `queue_flaps` (expected violation of `Unstranded`): `evaluator::start` reads the statuses before it
subscribes to their changes (`queue/evaluator.rs:665`, 673), against its comment at 626. A change in between is heard
by nobody, and the change back equals what the pump compares with. `queue_plans` has `PumpKeepsUp = TRUE`, under
which this does not happen. Also seen: `evaluator.rs:343` assigns without reading the entry's policy again, while the
design document (`2026-09-26-p7…`, line 1697) says the evaluator never assigns Manual or Recommended entries; an edit
that commits between the pass and the assignment is such a case. `AssignedSoundly` does not promise the policy.

### Proofs

`QueueProofs` proves all five properties for any entries, Slices, Printers, Spools, estimates and bounds below the
parking offset; `QueueUnstranded` assumes `PumpKeepsUp`, without which `queue_flaps` refutes it.

- `QueueOrdered` is the inductive invariant: the rows are typed (`TypesHold`) and the open entries are one to one with
  the places 1..n (`Ordered`). `EveryRowsStep` shows that a step changes the rows in one of six ways: it keeps their
  places, takes the last one, replaces a row, moves one, closes one, or assigns one. Each way has one lemma that gives
  the order of the next state and both halves of `OrderKept`.
- `RangeShifts` is what parking is for: a range of distinct places with a free one beside it shifts in two statements
  that meet no place in use. `MoveShifts` and `CloseShifts` use it for the statements of a move and of a close and say
  what they make of every position; `PositionsDense` follows.
- `QueueAssignedSoundly` needs that one more holder adds its estimate to what a Spool has reserved. `Reserved` is a fold
  over a set, so `SumWithOneMore` is proved from the fold's definition, with a least counterexample to the claim that
  the order of summation does not matter.
- `QueueOffersHold` needs no invariant: the evaluation and the assignment read the same facts by the same conditions.
- `QueueUnstranded` is about every wake: `TurnsSound` (a run with claims has a poke on its way, the task starts with a
  trigger, a run that asked for another is on record), `PumpSound` (the pump has yet to hear exactly of the Printers
  whose status is not the one it compares with), and `Woken`, which says that an entry has candidates only on such.

## 7. Spools: `Spools`

`Spools.tla` is `spools/` and the parts of `printers/repository.rs` that touch slots: which Spool is where, how much
it holds, what Jobs reserve, and the table of claimed operation ids. A client composes a request from the rows it
sees (`Compose`, `AskSpool`, `AskPrinter`); it arrives later, once, several times, or never (`Deliver`), with the
revisions it saw and an operation id that may have been used. Jobs reserve, release, complete, settle (estimated or
measured) and correct, with the clamp at zero as it is (`Consume`). Left out: descriptive fields, tares, slot names
and order, `create_spool`, `update_spool`, deletion of a Printer, and the objections of Host Operations and Jobs to
archiving, which only refuse.

- `StillUsable`: a loaded Spool is in a live slot of an active Printer, alone there and not archived; one with an
  unsettled reservation is active.
- `NeverOverPromised`: only a person's amount can leave a Spool short of what Jobs hold.
- `NoSurprise`: a request takes effect once at most, one per id, and only on what its requester saw.

Seen while modelling and left as the code has it: `correct` can add a Measurement to an Empty or Archived Spool; an
estimated settlement records what was asked even when less was taken; a consumption does not change the Spool's
revision, so an amount recorded from an older view overwrites it (`NeverOverPromised` excepts exactly this).

### Proofs

`SpoolsProofs` proves the three properties for any Spools, slots, Printers, Jobs, operation ids and bounds; the
assumptions ask for finitely many Spools and Jobs, one Spool and one Printer at least, and an estimate above zero.
`SpoolsInv` is `RowsTyped`, `LoadedSoundly`, `Promises` (a reservation is of an active Spool) and `RequestsInv`, which
is about requests on their way: as long as a row has the revision a request saw, it is as the request saw it (`Seen`),
and a request that took effect has its id taken or its row's revision gone on (`Spent`). Without it the properties are
not inductive, since a late request is checked by nothing but its revision and its id.

A dispositions list is a sequence of moves of any length. `MovesStay` shows that what each single move keeps, the
sequence keeps, with the set of indices reached so far and a least one that is missing (`UpTo`), because the library's
induction theorems are out of the provers' reach. Each command then gets one lemma: it `Lands` (the rows stay sound
and every revision goes on with what it stands for), is `Fresh` (acts on what its request saw) and changes `Amounts`
as it may. For `NeverOverPromised` the rest is counting: how many reservations a Job's step adds or takes away
(`HeldMore`, `HeldFewer`) against what it adds to or takes off the Spool.

## 8. Supervision: `Supervisor`

`Supervisor.tla` is the live supervision of one Printer (`connections/supervisor.rs`, `printers/setup.rs`): the task
that observes its host and the forwarder that publishes (`task`), epochs and the shown status (`epoch`, `status`), the
persisted snapshot, and commands, which commit the row first and take the manager's guard afterwards (`Commit`,
`TakeGuard`, `Join`, `Abort`, `Act`). Two commands may be open; buffers have the depth 2 instead of the code's larger
one, enough to be full; five epochs are what the edits of one behaviour can use.

- `FollowsRow`: once every command is done, the Printer is observed by one task at the host in its row, or by none
  (`ObservedAsStored`), and what is shown comes from that supervision (`ShownIsCurrent`).

Finding, run `printers_repoint` (expected violation of `FreshIsOurs`): when a Connection is set to another host, the
new host's first Online observation makes the old host's reading fresh for 30 s (`supervisor.rs:565`).

Known and outside the claims: with a credential missing on `set_connection`, `reconcile_printer`
(`printers/setup.rs:113`) leaves the old task publishing; after a forced stop, `clear_connection` does not move the
epoch and the detached forwarder publishes once more (`supervisor.rs:975`; `ShownIsCurrent` excepts it through
`forced`); a snapshot can be saved after its Printer was deleted (1076). Left out: unsupported adapters, import, cache
warnings, causes, event envelopes, the Online hook (an input of `HostOps`), a row that cannot be read.

### Proofs

`PrintersProofs` proves `FollowsRow` for any hosts, number of epochs, commands and buffer depths, from the inductive
invariant `SupervisorInv` (`SupervisorOrdered`). Once nothing is being done the property is `Rest`; before that, the
invariant says who will still make it so:

- `Guarded`, `Observed`: one command holds the guard, and the task in the map is the last supervision and the only one
  that goes on, but for the one that command waits for.
- `Acts`: what the command with the guard is about to do is what the row asks for, or another command waits, which
  will look at the row again. `Cleaning`: a task that observes a Printer without a Connection has a command coming that
  stops it; `Deletions`: a deleted row has no Connection and no snapshot.
- `Forwarded`: what a forwarder holds is of its own supervision, and one that no forced stop left behind ends before
  its task goes on, so nothing older is published.

`TaskMoves` shows once what a step of a task or of its forwarder may change; each command's `Act` has a lemma of its
own.

## 9. Attention and Incidents: `Attention`

`Attention.tla` is the projector of one Printer (`attention/`, `incidents/`): a pass reads the clock and the live
status, then in one transaction compares what the tables show (`Present`, `Absent`, from `observe.rs`) with the Events
raised before, and raises, acknowledges and resolves Events and opens, reopens and closes Incidents (`Apply`, from
`plan.rs` and `projector.rs`). Jobs, their material and the failures of their starts, the status, the Printer's
lifecycle and its start safety are inputs that change at any time and are announced after their commit; a Job that
waits for its start asks for a person when the Printer's start safety says so or its start was refused or failed
(`Confirms`). `Drain`, `ReadStatus` and `RunPass` are three steps, `Backfill` is the pass at startup, which has no
live status.

- `Reported`: when nothing wakes the projector and its last pass did not fail, every end a person must see is an
  Event, whatever was missed meanwhile, and what is open is still so.
- `Consistent`: an Incident is open exactly while an Event in it asks for something, a Job has at most one; no
  condition has two open Events and one reported once per source is never reported again.

Bounds (`MCSpends`): two Jobs, up to five moves of a Job, one to three changes of the status, two answers of people,
one failed pass, one crash, in six combinations. Left out: `spool.low`, which has the lifecycle of
`printer.connectionError`; setup-incomplete Printers; the epoch; alert toggles; notification and capture intents; read
marks and summaries.

### Proofs

`PrintersProofs` proves both properties for any Jobs and bounds.

- `AttentionConsistent`: `Consistent` is inductive once the tables have their shapes (`Projected`). The work is in
  `Apply`, one transaction that writes many rows: it is taken apart into what it inserts (`New`, whose keys `KeyOf`
  are distinct), the Incident of each (`HomeOf`) and what it leaves of the old rows (`OldFields`, `NewFields`).
- `AttentionReported`: `Reported` speaks of a projector that nothing wakes, so the invariant must say what holds while
  one does. `Past`: what an Event records of its Job has happened, and a condition whose Event is resolved cannot come
  back; `Staged`: a pass that nothing disturbed since it read the status has the current one, and the deadline of a
  grace period is armed. Then a pass that ends quietly has told everything (`JobTold`, `PrinterTold`). TLC checked
  this invariant before it was proved.

## 10. Camera images: `Media`

`Media.tla` is `cameras/media.rs`, `retention.rs`, `capture.rs` and their side of the backup lease: rows, image files,
and what each subject (an Incident or a completed Job's Event) has recorded as its outcome. A capture is several
steps: fetch, plan under the janitor's lock, write the image, one transaction that marks the pruned rows and stores
the new one, and the unlinks after it. Pins, ageing, lost files, `delete_printer`, a backup, a reset of the images and
crashes come in between. An image is one unit of the cap.

- `EvidenceHolds`: a row that was not pruned has its image, and so has every row a backup copied until the lease is
  released; an extra image is one that somebody still removes; a subject has one outcome.
- `PruneRules`: a pin made at any moment saves an image from age and the cap, and a stored image leaves no more
  unpinned ones than the cap. Pinned images may exceed it: the plan is made before the transaction, and a row pinned
  meanwhile is passed over, as the comment of `mark_pruned` accepts.

Bounds (`MCAllowances`): up to three captures of two subjects and a request, a cap of one image, two pins, and one of
each trouble, in five combinations. One divergence is excepted in `EvidenceHolds`: `delete_printer` unlinks image files
directly (`printers/repository.rs:388`–391) although `backup/lease.rs:1`–4 says that nothing deletes a camera image
while the lease is held; a backup in progress then misses images its database names.

### Proofs

`PrintersProofs` proves, for any captures, subjects, requests, cap and bounds: `MediaOrdered`, the inductive invariant
`MediaInv`; from it `MediaEvidenceHolds` and, as an action property, `MediaPruneRules`. Neither property is inductive
alone. `MediaInv` adds:

- `Turns`: a capture between its plan and its commit holds the janitor's lock and has no row yet;
- `Unlinks`: whoever unlinks files (a capture, the janitor, the lease's holder) unlinks those of rows that were pruned
  or deleted, and such a row is never kept again, so a file that goes late cannot be one that is still named;
- `Leases`: once a backup copied the rows the janitor has nothing left to unlink, and what comes later waits;
- `Images` and `Extra`: the image of a kept, copied or written row is there or was lost by another hand, and an image
  without a kept row is in the hands of one of those tasks; `Once`: an outcome for each subject with an image;
- `Room`: a plan that fits leaves the new image within the cap for as long as the lock is held, whatever is pinned or
  pruned meanwhile: what the commit passes over is pinned, and pinned images do not count.

`Room` rests on `PlanMakesRoom`, that `plan_prune` takes enough rows. The one fact about data it needs, `OldestCount`
(the oldest k of a set are k at least), is proved from a least counterexample. TLC checked `MediaInv` first.

### The run of sections 7 to 10

`printers` hosts the four modules side by side (`MCPrinters`): they share no variable, each behaviour is of one of them
and the other three stay at their initial state, so the run has as many states as the four have together. Every run of
this project has `CHECK_DEADLOCK FALSE` for one reason: an app with nothing to do may stop, and with the bounds spent
nobody gives it anything.

## 11. Linked Models: `Links`

`Links.tla` is `library/links.rs` with the rows it keeps. A linked Model names a file that other programs change;
farm3d notices through watches on directories, looks again, and takes new content in as a revision.

State. `disk` is the file system: folders, the version at each path, every version made (a version is a stat and a
content, so a file put back as it was has its old version). `linkRow` has the link columns of `library_models` and the
content of the current revision. `watches` is the supervisor's table: which folder each Model's registration watches,
reference counts, and which native watches are alive (one dies with its folder). `heard` are the watcher's events not
yet handled; `due` the checks asked for (`queued`, those waiting for the gate, retries left); `check` the one check
that holds a Model's gate; `call` the open commands; `pass` the pass of a start (`reconcile_all`). `misfollowed` and
`unchecked` are history, see below.

Actions. `Handle` is one batch of events, with the watches put on again or moved to an ancestor. A check is
`StartCheck`, `StatSource`, `ReadSource`, `ApplyOutcome` (one transaction, `linked_as_seen` in it) and `FollowUp`;
`CheckFails` is a failure of farm3d's own. A check's last step (`follow_parent`, `schedule`, `retry`) runs just after
the gate is released in the code, and while it is held here. Step 1 of a check and the opening of the file are one
step: a change between the two is seen as if it had come before. `Choose`, `StageChosen`, `CommitLink`, `FollowLink`
are import and relocation, the command that registers coming after the commit; `EndLink`, `UnfollowLink` are conversion
and deletion; `CheckSources` is the command; `ListLinked`, `RegisterListed`, `CheckListed` the pass. Contents are two
good ones and one that does not inspect.

Bounds (`MCEfforts`): one Model, or two, on files in two folders of a chain of three; up to two changes of a file,
three of folders, two links, one end, one Check sources, one failed check, one restart, in nine combinations. Two
relocations are what it takes to register out of order; three folder changes take a chain away and bring one back.

- `TruthfulLink`: the content a Model shows as current while its source is ok, and the stat beside it, are of one
  write at the path it is linked to. A check that was overtaken by a relocation, a conversion, a deletion or another
  revision leaves nothing.
- `NothingMissed`: once nothing is asked for and no event waits, every linked Model agrees with its file and its
  folder, or the nearest one there is, is watched; no other Model holds a watch. This is what the check after a
  registration, the check after a moved watch, and leaving `queued` before looking are for.

`NothingMissed` excepts two things the code does. `misfollowed`: a command registers after its commit, so two
relocations of a Model, or one that commits between the list and the registration of a start, can register in the
other order, and a conversion can be undone by an earlier relocation's registration. The Model then shows the state of
its file at its last check, but the old path is watched until the next start; the comment of `locate_linked_source`
(`library/commands.rs:691`) says that the new path is followed from then on. A start whose list cannot be read leaves
every Model so. `unchecked`: a check that fails returns before `follow_parent`, so neither the file nor the watch is
looked at until the next event.

Left out: polling where native watches fail or policy forbids them, an overflow or error of the watcher (everything is
checked then, but a watch that died is not put on again), a folder that vanishes between `nearest_existing_directory`
and its watch, the removal of an ancestor above the watched folder (inotify reports nothing for it), the states
without a readable file told apart (they are `missing`), shutdown, the shown watch mode. What a check stores goes
through `ContentStore`.

What the code does one by one to several watches is one operator each: `MoveWatches` says of a set of registrations
where each ends and what that makes of the counts, `Reestablish` of a set of directories, `AllWatched` of a finished
pass. Models that move together leave folders that are gone for folders that are there, so the order among them makes
no difference; TLC found the first two equal to the code's loops in every state of the run.

### Proofs

`FilesProofs` proves both properties for any Models, folders, files, callers and bounds; `FoldersAssumption` asks that
there are finitely many Models and that the ancestors of an ancestor are the rest of the list.

- `LinksTruthful`. `TruthInv` (`VersionsNamed`) says that a row, a check at each of its stages and an open command only
  name versions that were made at the path they are about, which stays true because a version is never unmade
  (`Grows`); `linked_as_seen` then makes an outcome that is applied one of the row's present path.
- `NothingEverMissed`. The property speaks of a state in which nothing is under way, so `FollowInv` (`LinksFollowed`)
  says what holds while something is. `WatchesKept`: a folder's reference count is the number of Models registered
  there, a living watch is on a folder that is there, and a watch that died has an event waiting. `WellFollowed`, for
  each Model that is not misfollowed: it is registered for its row's path or will be (`Placed`), and a check of it is
  `Promised` (an event of its folder, a check that waits, a commit that has yet to register, the pass), or its last
  check failed, or it is `Sound`: at rest, its watch is where it should be and its row `Fresh`; while checked, what
  the check has found so far still holds (`Agrees`), or the watch is astray, which its last step will notice.
  `EndsKept` keeps a relocation that read an older revision from linking what was ended since.

The work is in the disk. When a folder goes or comes, `NearestWithout` and `NearestWith` say which Models' nearest
folder changes, and `DiskShifts` that each of them is told, or is astray before and after, or nothing of its changed;
`RemovalShifts` is where the dead watch's own event is needed. A change of a file that nobody watches is one of a
Model that is astray or promised. `Moved`, `Registered`, `Unregistered` and `Reestablished` say what each operation on
the table keeps of counts and watches, from `Recounted`, which counts one registration more or less.

TLC checked every part of `FollowInv` before it was proved. The attempt found one error in the model: a start whose
list cannot be read replaced `misfollowed` by the Models linked at that moment, which forgot a Model whose ended link
was still registered. It now adds to them.

## 12. The files of earlier versions: `Legacy`

`Legacy.tla` is `persistence/legacy.rs`: every start stages `settings.json` and `printers.json`, imports them in one
transaction, archives them and takes them out of the metadata root; a start after the import resumes the archival.

State. `place` is what lies in the metadata root, `dirs` the staging directories in the order of their names (what each
holds, what its manifest says, and whether the manifest is there), `archive` the archived files, `completed` and
`imported` the table `legacy_imports`, `warned` the table `migration_warnings`, `migration` the run. A text stands for
its hash. `taken` and `calm` are history: what was taken out, and whether nothing disturbed this run.

Actions. `ReadFile`, `StageInputs`, `StageFile` stage; `CheckInputs`, `CommitImport` are the parse and the transaction;
`PlanFile`, `CopyOut`, `TakeOut`, `FinishFile` archive one file, with a plan by whether a staging directory matches
(`StagedPlan`) or not (`PlainPlan`); `RemoveStaged` is the cleanup, which may stop half way (`Partly`). `StartFails`,
`ArchiveFails`, `CrashLegacy` are errors and crashes; `EditFile` is anybody who writes the files, at any point.

Bounds (`MCChances`): up to three starts with two faults, or a fault and an edit, or two edits; two good texts, one
that does not parse, one of a later version.

- `LegacyHeld`, in three parts. `NothingLost`: what was taken out of the metadata root is archived, and what was
  imported is staged or archived as migrated. `ImportsWhatItFound`: the files imported are those the
  start found, never an older staging. `StartSettles`: an undisturbed start leaves none behind.

Seen while modelling, all left as the code has it: after a clean import the next start finds neither a staging
directory nor a file and records LEGACY_ARCHIVE_INCOMPLETE (`legacy.rs:401`); a file that appears after the import is
archived without a warning when no staging directory is left (388); a directory without a manifest that sorts before
the matching one ends the search (324), so a file edited meanwhile is archived as changed while the imported text stays
in the staging directory. `NothingLost` holds in all of these.

`FilesProofs` proves `LegacyHeld` for any texts, any number of starts, faults and edits. `LegacyInv` has five parts:
`LegacyTyped`; `Phases` (an import is of what the start read, a resumed archival of what was imported); `Staging` (the
directory a run goes by holds just that); `Archival` (a text is archived before it is taken out, and what was imported
stays staged or archived, also when a removal stops half way); `Clearing` (while nothing disturbs it, a run leaves
nothing at the places it is done with).

`MCFiles` puts `Installer`, `Links` and `Legacy` side by side in one run as `MCPrinters` does: they share nothing, and
a behaviour is of one of them. Fairness (`MCFairness`) is Installer's. The run may stop (`CHECK_DEADLOCK FALSE`): an
installed Farm that asks for nothing, a linked Model at rest and a finished import have no next step.

## 13. What is left

Proved for every instance: the theorems of sections 2 to 12, which state every invariant that a passing run checks.
Model-checked only: liveness and what speaks of `ENABLED`, which are out of tlapm's reach.

Not modelled:

- The age of the cached status a Job's `Follow` uses (`jobs/tracker.rs:604`): the status is an input there, so nothing
  is said of one older than farm3d's own pause.
- Inspection and formats, presets, eligibility's wording, the catalog, history, notifications policy, diagnostics
  bundles: pure functions of data. The engine's process groups, the adapters' protocols, D-Bus, archive layout: I/O.
- Schema migration runs before anything is served and is covered by the code's own tests.
- Contracts (types), the front end, simulators and scripts.

Paths between modules: `Jobs` relies on the abstract writes of `HostWrites`, which `HostOps` is proved to implement;
`Queue` and `Jobs` each have the assignment, one with its gates and positions, the other with its Job's life; `Slicing`
is composed with `ContentStore`; the others meet only through the database rows each names as its inputs.

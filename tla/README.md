# A TLA+ model of narratorr

narratorr is a self-hosted audiobook manager: it searches indexers for releases,
hands them to download clients, checks what they downloaded and imports it into
a library. It is one Node.js process over one SQLite database, and everything
interesting about it happens between the `await`s: a monitor, a quality gate, a
queue worker, scheduled batches, retry searches and HTTP requests all write the
same few rows, and a restart finds whatever they left there.

This directory holds TLA+ modules translated from the source, TLC configurations
that check them on small instances, and proofs for TLAPS. `PROJECT.json` lists
the components, runs, mutants, findings, hazards and theorems, and maps every
definition to the lines it models. Paths below are relative to `src/src/server/`
unless they start with `src/`.

    tlc -workers 2 -config pipeline_requests.cfg MCImportPipeline
    tlc -workers 2 -config pipeline_undisturbed.cfg MCReplaceDownload
    tlc -workers 2 -config worker_wakeups.cfg MCImportQueueWorker
    tlc -workers 2 -config parts.cfg MCParts
    tlc -workers 2 -config folders.cfg MCBookFolders
    tlapm ImportPipelineProofs.tla      (and the other modules named ...Proofs)

## 1. Inventory

### The parts, their state and their operations

| Part | State | Operations | What makes it correct |
|---|---|---|---|
| Download state (`utils/download-state.ts`, `src/src/shared/download-status-registry.ts`) | `downloads`: clientStatus (what the client says), pipelineStage (what we do with it), bookStatusAtGrab | compare-and-set transitions, predicates (eligible, polled, in progress, terminal) | the two axes never disagree in a way no predicate selects |
| Book status (`utils/book-status.ts`) | `books`: status, path | set, guarded move, revert to the snapshot | a book reads importing only while something imports it; imported only with files |
| Monitor (`jobs/monitor.ts`) | the polled rows of one pass | poll, complete (spawns the gate), fail (retry search, recovery) | never writes over a row that changed since it was polled |
| Quality gate (`services/quality-gate*.ts`) | claims (`checking`), one evaluation in memory | inline and batch evaluation, hold, auto-import, reject, approve | one evaluation per row; every completed row gets a verdict; a held release waits |
| Retry search (`services/retry-search.ts`, `search-deadline.ts`) | searches in flight per book | search, deadline, retry grab | one per book; never beside a live download |
| Grab (`services/download-orchestrator.ts`, `download.service.ts`, `download-blockers.ts`) | admission lock per book (memory) | grab, retry grab, replace, cancel, retry, delete | one live download per book |
| Import jobs (`services/book-import.service.ts`) | `import_jobs`: one active per book | enqueue, retry | a job always ends |
| Import queue worker (`services/import-queue-worker.ts`) | drain flags, current job, poll timer (memory) | nudge, start, boot recovery, drain, stop | one job at a time; no lost wake-up; nothing runs after stop |
| Import (`services/import.service.ts`, `utils/import-steps.ts`) | staging folder, row, book | copy, verify, commit, fail | promoted in one transaction, reverted on failure |
| Staged commit (`utils/import-staging.ts`) | target, backup and staging folders, marker file | prepare, commit, roll back, recover | the old files are never lost; a crash is recovered |
| Startup (`jobs/index.ts`, `startup.ts`) | - | boot recovery, startup reset, startup batches | nothing stays in a stage nobody owns |
| Keyed locks (`utils/path-write-lock.ts`, `utils/book-admission-lock.ts`, `utils/claim-lock.ts`) | a map from key to the tail of a promise chain (memory) | take one key, take several in ascending order, take a folder's claim and read the row again | one holder per key; no cycle of waiters; the map forgets a key only when its chain has ended |
| Library root gate (`services/library-root-gate.ts`) | commits in flight, the queue of settings writes (memory) | register a commit, write the library settings | the root a commit was planned under is the root it commits under |
| Folder movers (`services/rename.service.ts`, `book-deletion.service.ts`, `book-rejection.service.ts`, the re-import's `cleanupOldBookPath`) | `books.path`, the folders | rename, delete, reject, sweep the old folder | nobody takes the files of a book it was not asked to touch |
| Series binds (`services/series-bind-admission.ts`) | - | lock a set of books that may grow | ends, however the sets overlap |
| Merge queue (`services/merge.service.ts`, `merge-boot-recovery.ts`) | queue, slots, phases, cancel flags (memory); merge events (rows); staging folder | enqueue, promote, merge, cancel, recover at boot | one ending per accepted merge; no free slot beside a queue; a boot never merges twice |
| Staged submissions (`services/import-staging.service.ts`, `import-submission-runner.ts`) | submissions and items (rows), the drain of the runner (memory) | create, upload, finalize, delete, prune; drain, classify, accept, complete | an item gets one job or one reason; the counts add up; a finalized submission completes |
| Connector refresh queue (`services/connector-refresh-queue.ts`) | gathered items with timers, one promise chain per connector (memory) | gather, flush, retry, stop | one batch per connector at a time; a shutdown starts nothing and ends |
| Companion reconciler, task registry, retry budget, bulk and match jobs | maps in memory, some rows | see the plan | see the plan |

The remaining components (metadata, discovery, import lists, settings, auth,
events, adapters, the web client) are computation or I/O; `PROJECT.json` lists
them with the reason they are left out.

### How they interact

- Calls: the monitor spawns the inline evaluation and does not await it; it
  awaits its retry search, up to a deadline. The inline evaluation enqueues an
  import job and nudges the worker. The batches evaluate every eligible row, then
  enqueue every eligible row. The worker awaits one import at a time.
- Shared rows: everybody writes `downloads` and `books`, most writes without a
  guard; `import_jobs` has a partial unique index on the active job of a book.
- Locks: grabs and the import's commit take the admission lock of the book, a
  promise chain in memory. The gate, the monitor and the requests do not.
- The movers of folders meet in three places: the admission lock of the book,
  the claim of each folder, and, for those whose target lies under the library
  root, the gate, which settings writes go through too. Locks are asked for in
  that order: book, gate, folders ascending.
- The merge queue, the submissions and the refresh queue share nothing with each
  other. A merge waits for the admission lock of its book like everybody else; a
  submission's jobs are served by the import queue worker.
- Restart: rows survive, everything else is lost. A boot settles interrupted
  merges, then starts the import worker, which recovers orphaned jobs and drains
  before the startup reset of the rows runs, then asks for the merges again.

### What is hard

Writes after an `await` on rows read before it; two steps of one operation (row,
then book) with everything else in between; batches beside the inline path;
fire-and-forget searches and abandoned searches that still grab; crashes between
any two steps; wake-ups coalesced by flags; a file swap that a crash can cut at
any rename. `hazards` in `PROJECT.json` gives each at its line.

## 2. Modules

### ImportPipeline

The core: the life of a download from its grab to its import, with every actor
above that touches its rows. One action is one stretch of code between two
`await`s that another actor could notice.

| Variable | Code |
|---|---|
| `row[d]` | a row of `downloads`: `client`, `stage`, `snap` (bookStatusAtGrab); "absent" before the insert, "deleted" after the delete |
| `book[b]` | `books.status`, and whether `books.path` is set |
| `job[b]` | the active import job of the book; `lastFailed[b]` is the download of its newest failed job, which a retry enqueues again |
| `gate[g]` | an evaluation in memory: g is a download (inline) or a batch runner |
| `run[r]` | the batches: the maintenance tick (`Ticks`) and the startup pass (`Startup`) with the rows they selected |
| `mon` | the pass of the monitor and the failure it is handling |
| `search[b]` | `inFlightSearches`; `asked` is a fire-and-forget request whose prechecks have not run |
| `grab[b]` | the grab that holds the admission lock; `ImportHolds` is the import that does |
| `op[d]` | the requests in flight on a download |
| `worker` | the job being processed |
| `phase` | down, draining (worker started, startup reset not yet run), up |
| `approved` | history: the downloads that the gate or the operator let through |
| `used` | how many requests of each bounded kind were made |

Where an action's guard is weak, the code's is: `GateHold`, `GateAutoImport`,
`GateReject`, `CancelWrite`, `WorkerStart` write by id; only the monitor, the
claim, approve and reject compare. `Update` gives the effect of a write by id
once the row is deleted: none.

Abstractions. Queued, downloading and paused are one value. The comparison of
the audio, the search's results and the copy are choices among their outcomes.
The retry budget is a choice in `MonitorGiveUp` and `SearchFails`. Database
calls do not fail, except where the code compensates for it (`GrabFails`). The
deletion of books and manual imports are not here. A
row of `downloads` is inserted once: an id is not used again.

### MCImportPipeline

The instance for TLC: downloads d1 and d2 of one book b1. Two books share
nothing but the worker, which serves one at a time; every race listed involves
one book, and two downloads are what is needed for a retry, a replacement or a
second job.

### ReplaceDownload

`ImportPipeline` composed with `services/download-replace-workflow.ts`: the user
confirms that a release is to take the place of what the book is downloading.
`replace[r]` is the workflow in flight for a release (`inFlightReplaces`: a second
request for it joins the first). `Gather` takes the admission lock and classifies
what blocks the book; `Claim` is the transaction that fails all the targets, and
`ClaimMisses` its rollback; `Missed` looks again and tries once more; the grab
itself is the pipeline's, entered at `sending` because it skips the duplicate
check, or at `captured` when there was nothing to replace. Every step of the
pipeline may come between two of these (`Pipeline`), except one that takes the
lock of the book while the workflow has it (`KeepsOut`).

A claim may always miss: it compares the client status exactly, and queued,
downloading and paused are one value here. The removal from the client and the
blacklist are part of `GrabReplacement`, which only starts when they are over;
both swallow their failures. The status to put back may be that of any target;
the code takes the newest that has one. `LoseMark` is the write of the book's
status that is given up after two attempts.

### JobQueue and ImportQueueWorker

`JobQueue` is what the pipeline relies on: jobs are served one at a time, the
oldest first, and an interrupted job is served again or given up.
`ImportQueueWorker` is `services/import-queue-worker.ts`, one action per stretch
between two `await`s, and implements it: `ImplementsQueue` is `JobQueue`'s
specification with `served` mapped to `service`: a job is being served while a
drain has it in hand, and interrupted when its row still reads processing but a
crash, an exit or a failed query has cut its service off. In `ImportPipeline` the worker is the
abstract one (`WorkerClaim`, `Boot`), with what an import does filled in.

| Variable | Code |
|---|---|
| `job[j]` | `import_jobs.status`; "ended" is completed or failed |
| `nudging` | an enqueue that has committed and has not called `nudge` yet |
| `life` | down, recovering (`start` up to `drainLoop`), up, stopping (`stop` awaits the current job), waiting (`stop` awaits the drain), stopped |
| `orphans` | what `bootRecovery` selected and has not resolved |
| `running`, `stopping`, `drainInProgress`, `drainRequested` | the fields of that name |
| `listening`, `polling` | the listener and the timer of `drainLoop` |
| `drain[r]`, `lastDrain` | calls of `runDrain`, and the one in `runDrainPromise` |
| `currentJob` | the drain whose job is in `currentJobPromise` |

Jobs are ordered by `createdAt`; it counts seconds, and jobs of the same second
come in the order of their ids, which is how the index yields them. Whether an
orphan is requeued depends on its book and is a choice here. A query of a drain
may fail (`Break`), and so may the recovery of one orphan; the failure of the
SELECT that starts the boot recovery fails the whole start and is a `Crash`.

### StagedCommit

`utils/import-staging.ts` with its callers' cleanup and the boot sweep, for one
target folder.

| Variable | Code |
|---|---|
| `disk[f]` | the audio in the target and in its staging, backup and legacy backup siblings; a file is the number of the write it came from |
| `marker` | the file `<target>.import-commit-pending` |
| `owned` | the book's path is this target; `protect` is `protectTarget` |
| `pc`, `writer` | where the writer is: an import, a replacement, or a caller that only recovers |
| `todo`, `movedIn`, `backedUp`, `scratch` | the loops' remaining files, the two lists of `commitStagedImport`, the folders still to be removed |
| `kept`, `offered` | history: what the target held, and what the commit was to put there |

Every rename, removal and copy of one file is a step of its own, any of them may
fail, and a crash may come between any two. Folders are removed in some order
and file by file. File operations of a process that dies are taken to be on disk:
the flush of the marker before the first rename is what the code does about
power loss. The initial states include scratch and an interrupted commit of an
earlier version, in the legacy backup. One writer at a time: the comment in
`utils/recover-interrupted-commit.ts` says that its callers race each other and
that this is not solved yet.

### Sections, KeyedLocks and BookFolders

`Sections` is what a keyed lock promises: a call may enter the section of a key
that nobody is in, and leave sections it is in. `KeyedLocks` is how the code does
it, for the path locks, the admission locks and the queue of settings writes
alike: `tail[k]` is the last slot chained to a key, `lock[o]` is what a call
waits for, behind whom, which keys it asks for next, and what it holds.
`LocksExclude` says that `KeyedLocks` implements `Sections`, with `held` for
`inside`.

`BookFolders` extends `KeyedLocks` with the callers: `renameBook`, `deleteBook`,
`rejectAsWrongRelease`, the import of a download, `withValidatedBindSet` and the
write of the library settings. A call is a record in `op[o]`, one action per
stretch between two `await`s; `path[b]` is `books.path`, `content[f]` the books
whose audio files lie in a folder, `root` the library settings, `commits` the
registrations behind `commitsInFlight`. The keys are numbers, books below
folders, which is the order in which every caller asks for them.

Abstractions. Where a template places a book is a set of folders (`RenameTo`,
`ImportTo`), from which the model picks at every plan, because title and template
may change in between. A rejection needs an imported book with release
identifiers; whether the book has them is a choice. The loops of
`withFreshClaimLock` and `withValidatedBindSet` have a bound of attempts in the
code and none here: the bound turns a long wait into an error. The companion and
sidecar locks, events, the recovery of markers (`StagedCommit`) and merges are
not here. An import takes no claim on its target: `hazards` says so.

### MergeQueue

`services/merge.service.ts` and its boot recovery, one record per book:
`merging[b].pc` follows the code from the request over the queue, the wait for
the admission lock, staging and encoding to the commit; `cancel` is the flag or
the abort of a cancel; `end` is the ending the merge was told. `waiting` is the
queue, `capacity` the bound of the semaphore (the slots in use are counted from
the records, since each slot belongs to one), `folder`, `staging` and `latest`
what a crash leaves, `boot` the recovery. The merge's lock may be granted at any
time, and its steps may fail at any time (`MergeFails`). Event rows are written
without being awaited, so each may be lost (`Announce`), up to a budget.

`staging[b]` says whether the staging folder is there and what audio it holds:
copies of the parts, the output, or both. The copies are deleted once they are
encoded, and `removeSourceFiles` swallows a deletion that fails
(`RemoveSourceFiles`); the history variable `outlived` remembers such a merge. The
commit moves the first staged file with the output's extension, so that it may
then move a copy and leave the output (`MoveOutput`), and it deletes the parts as
far as it can (`DeleteParts`). `found` remembers the folder as the merge found it.

### ImportSubmission

The client's side (`import-staging.service.ts`, every operation a transaction)
and the runner: `runner` holds the fields of the drain, where it is and the item
in hand; `library[t]` is what the library has under a title, which others may
change at any moment; `jobs` counts the jobs given to an item. Books are assumed
to have an ASIN, which the unique index needs to refuse a second one; a book
without it is only checked when the item is classified. The branch of `drainOne` for
a processing submission with nothing pending is left out: the transaction of the last
disposition completes the submission.

### ConnectorRefresh

`batches` is every batch detached so far, with the one it is chained behind
(`after`); `draining[c]` is the tail of a connector's chain. Timers may fire at
any time; a request may succeed, fail for good, or fail in a way that is tried
again once.

### The MC modules

`MCImportQueueWorker`: three jobs and two calls of `runDrain`; two calls are what
it takes to overlap, and three jobs to tell oldest first from any order.
`MCStagedCommit`: two file names, an old and a new file that differ, or a commit
that stops half way. `MCBookFolders`: two calls at a time, three in all, on two
books and three folders on two volumes; two calls are what a race needs, and the
third is the settings write or the call that finds what a race has left.
`MCMergeQueue` holds the budgets of the merges. `MCParts` holds the staged commit,
the merges, the submissions and the refreshes, which share no state: a behavior
chooses one (`focus`) and the other three stay as they are, so that one run covers
the four without their product. Where there are crashes two of its three books can
be merged: two requests touch no third one. Three items are what a chain of three
batches takes, the shortest in which a batch that settles is no longer the tail
while a later one comes.

## 3. Runs

| Run | Instance | What it shows |
|---|---|---|
| `pipeline_requests` | 2 downloads, any 2 of 1 cancel, 1 review, 1 retry, 1 deletion | `FailedIsFinal` with requests at any moment, and the types, which say that no write brings back a deleted row |
| `pipeline_restart` | 1 download, a tick, 1 crash | `OneGatePerRow` with the batches beside the inline gate; `CheckingHasGate`, `ProcessingHasWorker`, `JobsEnd`, `CompletedIsResolved`: what a crash leaves is picked up again |
| `pipeline_undisturbed` (`MCReplaceDownload`) | 2 downloads, 1 review, 1 replacement | `OneLiveDownload`, `ImportOnlyApproved`, `SettledBook`, `ImportedHasFiles`, `ImportingRowEnds`: what the pipeline promises, beside replacements too, when nobody cancels or deletes and no batch or restart cuts in; `ReplacedIsOver`, `WorkflowsEnd`: a replaced download never comes back and the workflow lets go of its book |
| `cancel_revived` | 1 download, 1 cancel | violates `CancelledStaysFailed` |
| `approval_stranded` | 2 downloads, 1 review, 1 retry | violates `ImportingRowEnds` |
| `batch_replaces` | 1 download, a tick | violates `NeverReplacedUnapproved` |
| `deleted_history` | 1 download, 1 deletion | violates `ImportedHasFiles` |
| `worker_wakeups` | 3 jobs, 1 stop, 1 crash, 2 failing queries | `OneDrain`, `StoppedIsQuiet`, `StopInterruptsNothing`, `ImplementsQueue`, `EveryJobEnds`, `PendingIsClaimed`: no wake-up is lost, and a stop cuts no import off, also one that an earlier crash had left processing; while no query fails the nudges suffice, and with failures the safety poll does |
| `swap_mixed` | 2 names, 1 write, 1 crash | violates `SwapSurvivesCrash` |
| `folders` | 2 books, 3 folders, 2 roots, 3 calls, two at a time | `LocksExclude`, `RootGate`, `FilesStay`, `CallsEnd`: the locks and the gate do what the movers rely on, and no order of them blocks |
| `parts` | swap: 2 names, 2 writes, 2 crashes, 2 failures; merges of 3 books with 1 or 2 slots and 3 requests, or of 2 with 2 requests, a crash and a failure; 2 submissions of 2 and 1 items with a restart and a failing write, or another user; 3 items for 2 connectors, in batches of at most 2 | `NothingLost`, `NeverAmbiguous`, `SwapIsAtomic`, `SweepConverges`; `OneEnding`, `SlotsAreUsed`, `RequeueIsSafe`, `MergesEnd`; `OneJobPerItem`, `CompletedAddsUp`, `SubmissionsComplete`; `OneFlushAtATime`, `QuietAfterStop`, `BatchesSettle` |
| `precommit_proves` | 1 book, 2 requests, a crash and a failure | violates `PreCommitProves` |

`pipeline_undisturbed` leaves out cancels, deletions, batches and crashes on
purpose, and the four violation runs of the pipeline say why: each adds one of them and breaks
one of these properties, in the code as in the model. The other two passing runs
state what does hold with them.

Bounds. Requests are bounded per kind by `MaxCancels`, `MaxReviews`,
`MaxRetries`, `MaxDeletes`, `MaxReplaces`, in `pipeline_requests` also by their sum
(`TwoRequests`), crashes by `MaxCrashes`; grabs by the number of
downloads. One of each suffices for a race of two actors on a row, and the proofs
below cover any number. The monitor polls, the tick fires and the searches run
without bound. Deadlock is not checked because the system may stop: an idle
server whose bounded requests are used up has nothing to do.

Fairness. Weak fairness of every continuation: timers fire and awaited calls
settle (the clients' calls have timeouts), so what the process has begun it goes
on with. Strong fairness only of `WorkerStart` and `GrabForRetry`, which wait for
the admission lock: the lock is a promise chain, first come first served, so a
waiter is not overtaken for ever (`CallsEnd` shows it of the chains themselves).
In `ReplaceDownload` the same holds of the lock while no workflow has it
(`KeepsOut` is part of the fair steps), and a workflow goes on with what it has
begun. Operators, standard grabs, the deadline and
crashes owe nothing. In `ImportQueueWorker` a committed enqueue goes on to its
nudge and every query settles. The safety poll is fair in the behaviors where a
query fails and need not come in the others, so that `EveryJobEnds`, which speaks
of the behaviors without a failure, shows what the nudges alone achieve.
In `BookFolders` every call goes on with what it has begun, and a granted lock is
taken; nobody has to begin a call. In `MCParts` what the process does by itself
goes on (`PartsWork`); requests, cancels, stops and crashes owe nothing, and their
budgets let every behavior come to rest, which is what the `<>[]` properties
speak of. In `StagedCommit` a
writer goes on with what it has begun and a process that is down is started
again; no writer has to come, and `SweepConverges` speaks of a boot after which
no file operation fails any more.

Findings. Each violation run contradicts a line of the repository that
`PROJECT.json` quotes:

1. `cancel_revived`: the gate's verdict lands on a cancelled row, which waits for
   review again although its download has been removed from the client.
2. `approval_stranded`: the enqueue of an approved row is skipped because a
   retried import of the book's previous download is active; the row stays
   importing until the next restart.
3. `batch_replaces`: the import batch takes a row that no evaluation has seen and
   replaces the files of an imported book with it.
4. `deleted_history`: a failed row is deleted while the monitor recovers its
   book; the missing snapshot counts as imported.
5. `swap_mixed`: a crash while the new files move in leaves them beside the old
   ones that recovery puts back; the swap is atomic for failures, not for crashes.
6. `precommit_proves`: a copy of a part that could not be deleted is still in the
   staging folder after the commit; after a crash the boot takes it for a proof that
   the originals are intact, and merges the output with the parts. `RequeueIsSafe`
   says what holds otherwise, and excepts these merges (`outlived`).

## 4. Proofs

`ImportPipelineProofs` proves, for any finite or infinite sets of downloads,
books and ticks and any bounds:

- `TypeCorrect`: `Spec => []TypeOK`
- `SingleEvaluation`: `Spec => []OneGatePerRow`
- `NoOrphanedCheck`: `Spec => []CheckingHasGate`
- `NoOrphanedJob`: `Spec => []ProcessingHasWorker`
- `FailureIsFinal`: `Spec => FailedIsFinal`

from the five assumptions on the constants that `ImportPipeline` states and TLC
evaluates. All follow from one inductive invariant, `IndInv` (theorem
`Invariance`). None of the properties is inductive alone. `TypeOK` needs `Refs`:
whatever is active names a row or a book of the system. `OneGatePerRow` needs
`Claims`: a row under evaluation is *locked*, that is, it cannot become
(completed, idle) again, because the monitor writes only while the row still
downloads and the gate's own verdict is the only write that gives the row back;
so a second claim cannot succeed. It also needs `Quiet`: nothing evaluates before
the startup reset, which is the one write that unlocks rows wholesale.
`CheckingHasGate` follows because only a claim writes checking, and a crash is
followed by the reset before the process is up; `ProcessingHasWorker` because
the boot recovery leaves no job processing before the worker claims one. The
proof has one lemma per action and part of the invariant.

`ImportQueueWorkerProofs` proves `WorkerTyped`, `DrainsAlone` (`OneDrain`),
`StopsQuietly` (`StoppedIsQuiet`) and `StopIsClean` (`StopInterruptsNothing`) for any
set of jobs and drains, from the invariant `Safe`: a call in progress is the one
that `drainInProgress` and `runDrainPromise` stand for, and each phase of start
and stop accepts what it should. `Serving` adds what the refinement needs: a
processing job is an orphan or in the hands of the one drain, and a selected job
is still the oldest when it is claimed, because jobs only arrive behind it.
`WorkerImplementsQueue` shows that each step is one of `JobQueue`'s or leaves the
jobs alone, failing queries included: when the write that ends a job fails, its
row stays processing, which the abstract queue calls interrupted, and the worker
may serve the next one. `StopIsClean` rests on `Served`: in a process that runs, while no query has failed, a
processing row is an orphan of the recovery, which the first drain waits for, or in
the hands of the drain that stop waits for.

`BookFoldersProofs` first proves `LocksImplementSections` (`LocksExclude`) of the
keyed locks alone, for any number of calls and keys, from the invariant `LockInv`
(`ChainsAreKept`): nobody waits behind a call that has no slot in the key, no two
wait behind the same one, and a call whose predecessor is gone is the only one
that can hold the key. Mutual exclusion alone is not inductive: it is the shape of
the chain that tells a slot that settles whom it lets in.

It then builds on that, for any number of books, folders, roots and calls:
`TypeCorrect` (`TypeOK`), `GateKeeps` (`RootGate`), `FoldersExclude`
(`LocksExclude` again, now of the callers' steps and not of the locks alone) and
`FilesAreLeft` (`FilesStay`). The invariant `Inv` adds to `LockInv` which keys a call
can have asked for at each of its steps, and what it knows by then (`CallsOK`),
which is what rules out that a call enters a chain it is already in; a settings
write in the queue means that no commit is registered (`Gate`); and a registered
commit works under the root that is set (`Rooted`). `RootGate` speaks of the turn of
a queued write, when nothing is checked again: it needs `Gate` because between the
admission of a write and its turn any number of other calls take steps.

`FilesAreLeft` assumes `ImportsApart`: no import renders a folder the template can
give to another book. Distinct books normally render to distinct folders, and the
code has no other fence there, since an import claims no target: without it TLC
finds the files gone. (With it, and in `folders`, which keeps the targets apart likewise, no
swap can take another book's files, so that the swap's part of `FilesStay` says
nothing there.) The invariant `Undisturbed` says that every book is at one of
its own folders (`AtHome`); that a call holds the lock of its book, and before it
touches a folder the folder's (`Locked`); and that what it has read of the rows
under those locks is still so: a folder that moves is the book's, a folder that is
swept is nobody else's (`Current`). What a sweep rests on is the question under the
claim whose folder it is (`Owner`): without it a deletion that waited for the claim
sweeps the folder a rename has meanwhile given to another book. The second look of
`withFreshClaimLock` at the row (`Fresh`) adds nothing to that here, since whoever
moves a book holds its admission lock, as the deletion does: its stale branch is
modelled and never taken. One lemma per action.

`MergeQueueProofs` proves `MergeTypesKept`, `EndingsAreOne` (`OneEnding`),
`NoSlotIsLost` (`SlotsAreUsed`) and `RequeuesAreSafe` (`RequeueIsSafe`), for any
finite set of books, which the counting of slots needs (`MergeBooksAssumption`),
and any capacity. `MergeOK` says what a merge has been told at each stage;
`QueueInv` that the queue holds exactly the queued merges, each once, and is
empty unless the slots are used up; `FilesOK` that, unless a staged copy outlived its
deletion, while there is audio in the staging folder the book's folder is as the
merge found it, and once the output has moved there is none; `BootInv` that no merge
runs while a boot looks at those folders. The queue is where induction is
needed: `DrainFills` shows that one call of `drainQueue` leaves either an empty
queue or no free slot, by counting whom it promotes.

`ImportSubmissionProofs` proves `JobsMatchItems` (`OneJobPerItem`) and
`CompletionAddsUp` (`CompletedAddsUp`) for any submissions, items, titles and
budgets. What an item's row says fixes how many jobs it has (`ItemOK`), a
submission is complete only with all its items disposed of (`SubmissionOK`), and
the item that the runner has in hand is still pending in a submission that is
still processing (`RunnerOK`), because no client request touches a finalized
submission before it is complete: a disposition is never written twice.

`ConnectorRefreshProofs` proves `FlushesAreOrdered` (`OneFlushAtATime`) and
`StopIsQuiet` (`QuietAfterStop`) for any connectors and any number of items: the
no batch that is still to run comes after the tail of its connector (`Tails`), and
none lies between a batch and the one it waits for (`Behind`), so that a batch
that is sent has all earlier ones done. Mutual exclusion of the sent batches alone
is not inductive: a new batch must find the last one at the tail.

`StagedCommitProofs` proves `CommitTyped`, `NoAudioLost` (`NothingLost`) and
`OneBackup` (`NeverAmbiguous`) for any set of names and any number of writes,
crashes and failures. The invariant `Safe` adds to them: under the marker a
backup holds nothing but what the target held (`Restorable`), what is being
removed is not needed (`Removal`), and where each file is in every phase of a
commit, a rollback and a recovery (`Committing`, `Recovering`). `NothingLost`
alone is not inductive: moving a new file in is harmless only because the old one
of that name is known to be in the backup by then, and removing the backup only
because recovery has emptied it or the marker is down.

`AtomicSwap` (`SwapIsAtomic`) says that while the process lives one failing
operation leaves the target as the last signalled commit left it. `NothingLost` is
half of that: the target, or the backup while there is a marker, holds what it must.
`NothingExtra` is the other half: what the target holds beyond it has just been moved
in, and the rollback, which only a failure begins, takes it out again; a rollback
that does not finish would be a second failure.

`ReplaceDownloadProofs` is about the pipeline together with confirmed replacements,
for any downloads, books, releases, ticks and bounds.

- `BesideReplacements`: the invariant of `ImportPipelineProofs` holds in the larger
  system too. A claim fails rows that only the monitor could have moved, so no
  evaluation loses its row.
- `ReplacedStaysOver` (`ReplacedIsOver`), with crashes, batches and every request:
  the invariant `HandsOff` says that nobody has anything to do with a row before
  its download is complete, nor after it was replaced. The claim's comparison with
  the gathered rows is what lets it be carried over that step.
- `ImportedBooksHaveFiles`: `[](Kept => ImportedHasFiles)`, where `Kept` says that
  nothing was deleted from the history and nothing retried by hand. Every status
  that may be put back (a row's, a grab's, a workflow's) is imported only if the
  book has files (`Files`), a job and a search are about a row of their own book
  (`Belongs`), and whoever recovers a book still finds the row it does so for
  (`RowKept`). `deleted_history` is the reason for `Kept`.
- `OneLiveDownloadAtATime` (`OneLiveDownload`), `JobsAreApproved`
  (`ImportOnlyApproved`) and `SettledBooks` (`SettledBook`), where `Ticks = {}` and
  always `Undisturbed`: no cancel, deletion, retry by hand or crash so far, and no
  download rejected while it is being approved. Reviews, rejections with and
  without a new search, failures, deadlines and replacements are as many as one
  likes.

The hypothesis of the last three is that of `pipeline_undisturbed`, whose bounds
imply it. Each part of it is needed by one of them, and TLC has the
counterexamples, on two downloads of a book. A cancel, a retry, a batch, a restart,
or a rejection during an approval, gives a book two live downloads; a deletion does
not. A batch (which takes what no evaluation has seen), a restart, a rejection
during an approval, and a cancel or a deletion beside an approval, let a job be
about a download without a verdict; a retry does not. A cancel, a deletion, a batch
and a restart leave a book reading importing.

Their invariant is `Order`. `OneHolder`: at most one workflow has a book's admission
lock, and until its own grab no grab of the book is in progress. `Admission`: a grab
that is sending, or a workflow that is cleaning up, found no live row of the book,
and there is none yet. `Evaluated`, `Reviewed`, `Queued` and `Working`: the
evaluation, the approval, the job and the worker find a row where they left it.
`Failing`: what the monitor recovers is over. None of these is inductive alone: a
live row appears only through a grab, which the first two confine, and a row that
is over stays over only because nobody else still works on it. `SettledBooks` adds
`Accounted`: a book that reads importing has a row that is under way, or one whose
rejection or failed import is still to be written to the book, unless one of its
rows remembers importing, which `SettledBook` excludes.

Only model-checked: the liveness properties (`JobsEnd`, `CompletedIsResolved`,
`ImportingRowEnds`, `WorkflowsEnd`, `EveryJobEnds`, `PendingIsClaimed`,
`SweepConverges`, `CallsEnd`, `MergesEnd`, `SubmissionsComplete`, `BatchesSettle`):
they rest on fairness, which is out of the prover's reach. Every invariant and
every action property of the passing runs is proved.

## 5. Plan, and what is not modelled

Done: `ImportPipeline` and `ReplaceDownload`; `JobQueue` and `ImportQueueWorker`; `StagedCommit`;
`Sections`, `KeyedLocks` and `BookFolders`; `MergeQueue`; `ImportSubmission`;
`ConnectorRefresh`; their runs, and the proofs of section 4.

Next, in this order:

1. `GrabAdmission`: the snapshot captured at grab time, and the admission lock of
   the pipeline as `KeyedLocks` has it.
2. Composition: the recovery of markers by a rename or a merge in `BookFolders`
   (`StagedCommit` has one writer at a time), the merge as one more mover.
3. `CompanionReconciler`: generations per book; a call that arrives in the
   microtask between the end of a chain and its removal is coalesced into a chain
   that has ended, and waits for the next trigger.
4. `TaskRegistry`, `RetryBudget` and the bulk jobs: small in-memory state, one
   run at a time.
5. `AdapterCache`: an adapter built across an `await` from the row of before an
   update (`services/indexer.service.ts`).
6. Proofs: each of the last three theorems of `ReplaceDownloadProofs` under only the
   part of `Undisturbed` it needs: `OneLiveDownload` beside deletions,
   `ImportOnlyApproved` beside retries, `SettledBook` beside retries and rejections
   during an approval, all of which TLC has found to hold on small instances.

Not modelled, and why: providers, download clients, indexers and audio tools are
external I/O, which the models see as a choice of answers; metadata lookup,
naming templates, parsing, ranking and discovery scoring are computation over
data with no state between calls, and unit tests reach them; login, backups,
events and the web client share no state with the pipeline. Most of the
repository's lines are of these kinds.

--------------------------- MODULE ImportPipeline ---------------------------
(***************************************************************************)
(* The life of a download from grab to import.  One Node process runs, all *)
(* interleaved at their awaits:                                            *)
(*   - the monitor, which polls the download clients and owns clientStatus;*)
(*   - the quality gate, inline (one evaluation per completed download)    *)
(*     and in batches (the import-maintenance tick, the startup pass);     *)
(*   - the import queue worker, which owns the import jobs;                *)
(*   - grabs and retry searches, serialised by the book admission lock;    *)
(*   - operator requests: cancel, approve, reject, retry, delete history.  *)
(* They share the rows of downloads, books and import_jobs, which survive  *)
(* a crash; everything else is lost with the process.                      *)
(***************************************************************************)
EXTENDS Integers, FiniteSets

CONSTANTS
  Downloads,   \* the rows of downloads that can ever exist
  Books,
  BookOf,      \* downloads.bookId
  Ticks,       \* the periodic batch runners (empty: no import-maintenance tick)
  Startup,     \* the batch runner of runStartupRecovery
  None,
  MaxCancels, MaxReviews, MaxRetries, MaxDeletes, MaxCrashes  \* bounds of a run

ASSUME BookOfAssumption == BookOf \in [Downloads -> Books]
ASSUME RunnersAssumption == Downloads \cap (Ticks \cup {Startup}) = {}
ASSUME StartupAssumption == Startup \notin Ticks
ASSUME NoneAssumption == None \notin Downloads \cup Books
ASSUME BoundsAssumption ==
  {MaxCancels, MaxReviews, MaxRetries, MaxDeletes, MaxCrashes} \subseteq Nat

VARIABLES
  row,         \* downloads: clientStatus, pipelineStage, bookStatusAtGrab
  book,        \* books: status, and whether path is set
  job,         \* the active import job of a book, if any
  lastFailed,  \* the download named by the newest failed import job of a book
  gate,        \* a quality-gate evaluation: inline of d, or current one of a runner
  run,         \* the batch runners
  mon,         \* the monitor
  search,      \* the retry search of a book (inFlightSearches)
  grab,        \* the grab holding the admission lock of a book
  op,          \* the operator requests in flight on a download
  worker,      \* the import queue worker
  phase,       \* the process: down, draining (before the startup reset) or up
  approved,    \* history: downloads the gate or the operator let through
  used         \* how many requests of each bounded kind were made

vars == <<row, book, job, lastFailed, gate, run, mon, search, grab, op, worker,
          phase, approved, used>>

-----------------------------------------------------------------------------
(* Types *)

Runners == Ticks \cup {Startup}
Evaluators == Downloads \cup Runners

\* queued, downloading and paused are one value: only the monitor tells them apart
ClientStatus == {"absent", "downloading", "completed", "failed", "deleted"}
PipelineStage == {"idle", "checking", "pending_review", "importing", "imported"}
\* searching and missing do not occur on the paths modelled here
BookStatus == {"wanted", "downloading", "importing", "imported", "failed"}

Rows == [client : ClientStatus, stage : PipelineStage, snap : BookStatus]
BookRows == [status : BookStatus, path : BOOLEAN]
Jobs == [st : {"none", "pending", "processing"}, d : Downloads \cup {None}]
Gates == [pc : {"idle", "spawned", "loaded", "claimed", "probing", "held", "auto", "rejected"},
          d : Downloads \cup {None}, imp : BOOLEAN, path : BOOLEAN]
RunStates == [pc : {"idle", "ready", "gate", "import"}, todo : SUBSET Downloads,
              imp : SUBSET Books, path : SUBSET Books]
MonStates == [pc : {"idle", "failing", "waiting", "recover", "revert"},
              todo : SUBSET Downloads, d : Downloads \cup {None}]
Searches == [asked : BOOLEAN, pc : {"none", "searching", "retried"},
             by : {"rejection", "monitor", "operator", "abandoned"}, d : Downloads \cup {None}]
Grabs == [pc : {"none", "captured", "sending", "inserted"}, snap : BookStatus, retry : BOOLEAN]
Ops == [cancel : {"none", "removing", "reverting"},
        approve : {"none", "approving", "approved"},
        reject : {"none", "rejecting", "rejected", "dismissing"},
        again : BOOLEAN,
        delete : BOOLEAN]
WorkerStates == [pc : {"idle", "claimed", "loaded", "importing", "committed", "reverting", "marking"},
                 b : Books \cup {None}, d : Downloads \cup {None}]

NoJob == [st |-> "none", d |-> None]
NoGate == [pc |-> "idle", d |-> None, imp |-> FALSE, path |-> FALSE]
NoRun == [pc |-> "idle", todo |-> {}, imp |-> {}, path |-> {}]
NoMon == [pc |-> "idle", todo |-> {}, d |-> None]
NoSearch == [asked |-> FALSE, pc |-> "none", by |-> "rejection", d |-> None]
NoGrab == [pc |-> "none", snap |-> "wanted", retry |-> FALSE]
NoOp == [cancel |-> "none", approve |-> "none", reject |-> "none", again |-> FALSE, delete |-> FALSE]
NoWorker == [pc |-> "idle", b |-> None, d |-> None]

-----------------------------------------------------------------------------
(* Predicates over the stored rows *)

Exists(d) == row[d].client \notin {"absent", "deleted"}
Eligible(d) == row[d].client = "completed" /\ row[d].stage = "idle"
Polled(d) == row[d].client = "downloading" /\ row[d].stage = "idle"
InProgress(d) == Polled(d) \/ row[d].stage \in {"checking", "pending_review", "importing"}
IsTerminal(d) == Exists(d) /\ ~InProgress(d)

RowsOf(b) == {d \in Downloads : BookOf[d] = b}

\* gatherBookBlockers: a live row, a row awaiting the gate or an active auto job
Blocked(b) == job[b].st # "none" \/ \E d \in RowsOf(b) : InProgress(d) \/ Eligible(d)

-----------------------------------------------------------------------------
(* Writes to the stored rows *)

\* mutant: the write inserts the row it does not find
Upsert(d, r) == [row EXCEPT ![d] = r]

\* UPDATE downloads ... WHERE id = d: it touches nothing once the row is deleted
Update(d, r) == IF Exists(d) THEN [row EXCEPT ![d] = r] ELSE row

SetStage(d, s) == Update(d, [row[d] EXCEPT !.stage = s])
Fail(d) == Update(d, [row[d] EXCEPT !.client = "failed", !.stage = "idle"])
Delete(d) == [row EXCEPT ![d].client = "deleted", ![d].stage = "idle"]

SetStatus(b, s) == [book EXCEPT ![b].status = s]

\* the guarded form of transitionBookStatus
MoveStatus(b, from, to) == IF book[b].status = from THEN SetStatus(b, to) ELSE book

\* normalizeRetryBookStatus: no retry grab persists a transient status
Normalize(s) == IF s \in {"wanted", "downloading", "importing"} THEN "wanted" ELSE s

\* enqueueAutoImport: a no-op while the book has an active job
Enqueue(d) == IF job[BookOf[d]].st = "none"
              THEN [job EXCEPT ![BookOf[d]] = [st |-> "pending", d |-> d]]
              ELSE job

\* mutant: a caller that holds the lock asks for it again
ImportHoldsTwice(b) == worker.b = b /\ worker.pc \in {"loaded", "importing", "reverting"}

\* The import holds the admission lock of its book
ImportHolds(b) == worker.b = b /\ worker.pc \in {"importing", "reverting"}
LockFree(b) == grab[b].pc = "none" /\ ~ImportHolds(b)

-----------------------------------------------------------------------------
(* The monitor: one pass over the rows it polled *)

MonitorPoll ==
  /\ phase = "up" /\ mon.pc = "idle" /\ mon.todo = {}
  /\ \E d \in Downloads : Polled(d)
  /\ mon' = [mon EXCEPT !.todo = {d \in Downloads : Polled(d)}]
  /\ UNCHANGED <<row, book, job, lastFailed, gate, run, search, grab, op, worker,
                 phase, approved, used>>

\* still downloading, within the grace window, or the client did not answer
MonitorSkip(d) ==
  /\ mon.pc = "idle" /\ d \in mon.todo
  /\ mon' = [mon EXCEPT !.todo = @ \ {d}]
  /\ UNCHANGED <<row, book, job, lastFailed, gate, run, search, grab, op, worker,
                 phase, approved, used>>

\* mutant: the monitor writes over whatever the row became since the poll
LateMonitorLands(d) == Exists(d)

\* the monitor writes only while the row is still the tuple it polled; a miss is MonitorSkip
MonitorLands(d) == Polled(d)

\* the client reports completion: the inline evaluation is spawned, not awaited
MonitorComplete(d) ==
  /\ mon.pc = "idle" /\ d \in mon.todo
  /\ mon' = [mon EXCEPT !.todo = @ \ {d}]
  /\ MonitorLands(d)
  /\ row' = [row EXCEPT ![d].client = "completed"]
  /\ gate' = [gate EXCEPT ![d] = [NoGate EXCEPT !.pc = "spawned", !.d = d]]
  /\ UNCHANGED <<book, job, lastFailed, run, search, grab, op, worker, phase, approved, used>>

\* the client lost the download or reports an error
MonitorFail(d) ==
  /\ mon.pc = "idle" /\ d \in mon.todo
  /\ MonitorLands(d)
  /\ row' = [row EXCEPT ![d].client = "failed"]
  /\ mon' = [pc |-> "failing", todo |-> mon.todo \ {d}, d |-> d]
  /\ UNCHANGED <<book, job, lastFailed, gate, run, search, grab, op, worker, phase,
                 approved, used>>

MonitorDone == mon' = [mon EXCEPT !.pc = "idle", !.d = None]

\* handleDownloadFailure: give up (redownload off, budget spent) or search again
MonitorGiveUp ==
  /\ mon.pc = "failing"
  /\ mon' = [mon EXCEPT !.pc = "recover"]
  /\ UNCHANGED <<row, book, job, lastFailed, gate, run, search, grab, op, worker,
                 phase, approved, used>>

\* retrySearch's prechecks: files, blockers, one search per book
MonitorSearch ==
  LET b == BookOf[mon.d] IN
  /\ mon.pc = "failing"
  /\ \/ /\ book[b].path
        /\ mon' = [mon EXCEPT !.pc = "recover"]
        /\ UNCHANGED search
     \/ /\ ~book[b].path /\ (Blocked(b) \/ search[b].pc # "none")
        /\ MonitorDone
        /\ UNCHANGED search
     \/ /\ ~book[b].path /\ ~Blocked(b) /\ search[b].pc = "none"
        /\ search' = [search EXCEPT ![b].pc = "searching", ![b].by = "monitor", ![b].d = mon.d]
        /\ mon' = [mon EXCEPT !.pc = "waiting"]
  /\ UNCHANGED <<row, book, job, lastFailed, gate, run, grab, op, worker, phase, approved, used>>

\* recoverBookStatus: nothing to do while another row of the book is live
MonitorRecover ==
  /\ mon.pc = "recover"
  /\ IF \E d \in RowsOf(BookOf[mon.d]) \ {mon.d} : InProgress(d) \/ Eligible(d)
     THEN MonitorDone
     ELSE mon' = [mon EXCEPT !.pc = "revert"]
  /\ UNCHANGED <<row, book, job, lastFailed, gate, run, search, grab, op, worker,
                 phase, approved, used>>

\* mutant: the fallback for legacy rows is used for every row
MonitorRevertImported ==
  /\ mon.pc = "revert"
  /\ book' = SetStatus(BookOf[mon.d], "imported")
  /\ MonitorDone
  /\ UNCHANGED <<row, job, lastFailed, gate, run, search, grab, op, worker, phase, approved, used>>

\* it re-reads the row for the snapshot; a row deleted meanwhile counts as imported
MonitorRevert ==
  /\ mon.pc = "revert"
  /\ book' = SetStatus(BookOf[mon.d], IF Exists(mon.d) THEN row[mon.d].snap ELSE "imported")
  /\ MonitorDone
  /\ UNCHANGED <<row, job, lastFailed, gate, run, search, grab, op, worker, phase, approved, used>>

-----------------------------------------------------------------------------
(* The quality gate *)

\* mutant: the claim does not compare the pipeline stage
UnguardedClaim(d) == row[d].client = "completed"

\* atomicClaim: (completed, idle) -> (completed, checking)
Claimable(d) == Eligible(d)

\* processOneDownload reads the row and its book ...
GateLoad(d) ==
  /\ gate[d].pc = "spawned"
  /\ gate' = [gate EXCEPT ![d] =
       IF Eligible(d) THEN [@ EXCEPT !.pc = "loaded", !.path = book[BookOf[d]].path] ELSE NoGate]
  /\ UNCHANGED <<row, book, job, lastFailed, run, mon, search, grab, op, worker,
                 phase, approved, used>>

\* ... claims the row ...
GateClaim(d) ==
  /\ gate[d].pc = "loaded"
  /\ IF Claimable(d)
     THEN /\ row' = SetStage(d, "checking")
          /\ gate' = [gate EXCEPT ![d].pc = "claimed"]
     ELSE /\ gate' = [gate EXCEPT ![d] = NoGate]
          /\ UNCHANGED row
  /\ UNCHANGED <<book, job, lastFailed, run, mon, search, grab, op, worker, phase, approved, used>>

\* ... and then marks the book importing, whatever its status is by now
GateMarkBook(d) ==
  /\ gate[d].pc = "claimed"
  /\ book' = SetStatus(BookOf[d], "importing")
  /\ gate' = [gate EXCEPT ![d].pc = "probing", ![d].imp = TRUE]
  /\ UNCHANGED <<row, job, lastFailed, run, mon, search, grab, op, worker, phase, approved, used>>

\* probe failure, replacement of an imported book, a hold reason, or no quality data
GateHold(g) ==
  /\ gate[g].pc = "probing"
  /\ row' = SetStage(gate[g].d, "pending_review")
  /\ gate' = [gate EXCEPT ![g].pc = "held"]
  /\ UNCHANGED <<book, job, lastFailed, run, mon, search, grab, op, worker, phase, approved, used>>

\* a release that would replace the files of an imported book is always held
MayDecide(g) == ~(gate[g].path /\ row[gate[g].d].snap = "imported")

\* first files of a book, or better than the files it has
GateAutoImport(g) ==
  /\ gate[g].pc = "probing" /\ MayDecide(g)
  /\ row' = SetStage(gate[g].d, "idle")
  /\ gate' = [gate EXCEPT ![g].pc = "auto"]
  /\ approved' = approved \cup {gate[g].d}
  /\ UNCHANGED <<book, job, lastFailed, run, mon, search, grab, op, worker, phase, used>>

\* no better than the files the book has
GateReject(g) ==
  /\ gate[g].pc = "probing" /\ MayDecide(g) /\ gate[g].path
  /\ row' = Fail(gate[g].d)
  /\ gate' = [gate EXCEPT ![g].pc = "rejected"]
  /\ UNCHANGED <<book, job, lastFailed, run, mon, search, grab, op, worker, phase, approved, used>>

\* mutant: a held release is enqueued like an accepted one
GateHeldEnqueues(g) ==
  /\ gate[g].pc = "held"
  /\ book' = IF gate[g].imp THEN MoveStatus(BookOf[gate[g].d], "importing", "downloading") ELSE book
  /\ job' = Enqueue(gate[g].d)
  /\ gate' = [gate EXCEPT ![g] = NoGate]
  /\ UNCHANGED <<row, lastFailed, run, mon, search, grab, op, worker, phase, approved, used>>

\* a held release: the book goes back to downloading if the evaluation saw it importing
GateHeld(g) ==
  /\ gate[g].pc = "held"
  /\ book' = IF gate[g].imp THEN MoveStatus(BookOf[gate[g].d], "importing", "downloading") ELSE book
  /\ gate' = [gate EXCEPT ![g] = NoGate]
  /\ UNCHANGED <<row, job, lastFailed, run, mon, search, grab, op, worker, phase, approved, used>>

\* only the inline evaluation enqueues; a batch leaves the row to the import batch
GateEnqueue(g) ==
  /\ gate[g].pc = "auto"
  /\ job' = IF g \in Downloads THEN Enqueue(gate[g].d) ELSE job
  /\ gate' = [gate EXCEPT ![g] = NoGate]
  /\ UNCHANGED <<row, book, lastFailed, run, mon, search, grab, op, worker, phase, approved, used>>

\* mutant: the cleanup of a rejection leaves the book as it is
GateRejectedOnly(g) ==
  /\ gate[g].pc = "rejected"
  /\ search' = [search EXCEPT ![BookOf[gate[g].d]].asked = TRUE]
  /\ gate' = [gate EXCEPT ![g] = NoGate]
  /\ UNCHANGED <<row, book, job, lastFailed, run, mon, grab, op, worker, phase, approved, used>>

\* performRejectionCleanup: ask for a search, delete the files, revert the book unguarded
GateRejected(g) ==
  /\ gate[g].pc = "rejected"
  /\ search' = [search EXCEPT ![BookOf[gate[g].d]].asked = TRUE]
  /\ book' = SetStatus(BookOf[gate[g].d], row[gate[g].d].snap)
  /\ gate' = [gate EXCEPT ![g] = NoGate]
  /\ UNCHANGED <<row, job, lastFailed, run, mon, grab, op, worker, phase, approved, used>>

-----------------------------------------------------------------------------
(* The batch runners: the gate over all eligible rows, then the import batch *)

RunnerReady(r) == IF r \in Ticks THEN run[r].pc = "idle" ELSE run[r].pc = "ready"

\* getCompletedDownloads: the rows and their books are read once, for the whole batch
RunnerSelect(r) ==
  /\ phase = "up" /\ RunnerReady(r)
  /\ run' = [run EXCEPT ![r] = [pc |-> "gate", todo |-> {d \in Downloads : Eligible(d)},
                                imp |-> {b \in Books : book[b].status = "importing"},
                                path |-> {b \in Books : book[b].path}]]
  /\ UNCHANGED <<row, book, job, lastFailed, gate, mon, search, grab, op, worker,
                 phase, approved, used>>

RunnerClaim(r, d) ==
  /\ run[r].pc = "gate" /\ gate[r].pc = "idle" /\ d \in run[r].todo
  /\ run' = [run EXCEPT ![r].todo = @ \ {d}]
  /\ IF Claimable(d)
     THEN /\ row' = SetStage(d, "checking")
          /\ gate' = [gate EXCEPT ![r] = [pc |-> "probing", d |-> d, imp |-> BookOf[d] \in run[r].imp,
                                          path |-> BookOf[d] \in run[r].path]]
     ELSE UNCHANGED <<row, gate>>
  /\ UNCHANGED <<book, job, lastFailed, mon, search, grab, op, worker, phase, approved, used>>

\* getEligibleDownloads: every completed, idle row, evaluated or not
RunnerImports(r) ==
  LET eligible == {d \in Downloads : Eligible(d)} IN
  /\ run[r].pc = "gate" /\ gate[r].pc = "idle" /\ run[r].todo = {}
  /\ run' = [run EXCEPT ![r] = IF eligible = {} THEN NoRun
                               ELSE [NoRun EXCEPT !.pc = "import", !.todo = eligible]]
  /\ UNCHANGED <<row, book, job, lastFailed, gate, mon, search, grab, op, worker,
                 phase, approved, used>>

RunnerEnqueue(r, d) ==
  /\ run[r].pc = "import" /\ d \in run[r].todo
  /\ job' = Enqueue(d)
  /\ run' = IF run[r].todo = {d} THEN [run EXCEPT ![r] = NoRun]
            ELSE [run EXCEPT ![r].todo = @ \ {d}]
  /\ UNCHANGED <<row, book, lastFailed, gate, mon, search, grab, op, worker, phase, approved, used>>

-----------------------------------------------------------------------------
(* Retry searches and grabs *)

\* a rejection's search is fire-and-forget: its prechecks run some time later
SearchBegin(b) ==
  /\ search[b].asked
  /\ search' = [search EXCEPT ![b] =
       IF book[b].path \/ Blocked(b) \/ @.pc # "none"
       THEN [@ EXCEPT !.asked = FALSE]
       ELSE [asked |-> FALSE, pc |-> "searching", by |-> "rejection", d |-> None]]
  /\ UNCHANGED <<row, book, job, lastFailed, gate, run, mon, grab, op, worker, phase, approved, used>>

SearchOver(b) == [search EXCEPT ![b] = [NoSearch EXCEPT !.asked = search[b].asked]]

\* the monitor waits for its search: it resumes with the outcome
MonitorAwaits(b) == search[b].by = "monitor"
Resume(b, pc) == IF MonitorAwaits(b)
                 THEN [mon EXCEPT !.pc = pc, !.d = IF pc = "idle" THEN None ELSE @]
                 ELSE mon

\* no candidates, or the search or the grab failed
SearchFails(b) ==
  /\ search[b].pc = "searching"
  /\ ~(grab[b].retry /\ grab[b].pc = "inserted")
  /\ search' = SearchOver(b)
  /\ grab' = [grab EXCEPT ![b] = IF @.retry THEN NoGrab ELSE @]
  /\ mon' = Resume(b, "recover")
  /\ UNCHANGED <<row, book, job, lastFailed, gate, run, op, worker, phase, approved, used>>

\* withSearchDeadline: the caller is released, the search runs on
SearchDeadline(b) ==
  /\ search[b].pc = "searching" /\ search[b].by \in {"monitor", "operator"}
  /\ mon' = Resume(b, "recover")
  /\ search' = [search EXCEPT ![b].by = "abandoned"]
  /\ UNCHANGED <<row, book, job, lastFailed, gate, run, grab, op, worker, phase, approved, used>>

\* grabForRetry: blockers again, under the lock, and a normalised snapshot
GrabForRetry(b) ==
  /\ search[b].pc = "searching" /\ LockFree(b)
  /\ IF Blocked(b)
     THEN /\ search' = SearchOver(b)
          /\ mon' = Resume(b, "idle")
          /\ UNCHANGED grab
     ELSE LET old == search[b].d
              seen == IF old # None THEN row[old].snap ELSE book[b].status
          IN /\ grab' = [grab EXCEPT ![b] = [pc |-> "sending", snap |-> Normalize(seen), retry |-> TRUE]]
             /\ UNCHANGED <<search, mon>>
  /\ UNCHANGED <<row, book, job, lastFailed, gate, run, op, worker, phase, approved, used>>

\* a standard grab captures the book's status as it stands ...
GrabCapture(b) ==
  /\ phase = "up" /\ LockFree(b)
  /\ \E d \in RowsOf(b) : row[d].client = "absent"
  /\ grab' = [grab EXCEPT ![b] = [pc |-> "captured", snap |-> book[b].status, retry |-> FALSE]]
  /\ UNCHANGED <<row, book, job, lastFailed, gate, run, mon, search, op, worker, phase, approved, used>>

\* mutant: only an active job blocks a grab
GrabIgnoresRows(b) == job[b].st = "none"

\* ... and is refused while anything blocks the book
GrabAdmitted(b) == ~Blocked(b)

GrabCheck(b) ==
  /\ grab[b].pc = "captured"
  /\ grab' = [grab EXCEPT ![b] = IF GrabAdmitted(b) THEN [@ EXCEPT !.pc = "sending"] ELSE NoGrab]
  /\ UNCHANGED <<row, book, job, lastFailed, gate, run, mon, search, op, worker, phase, approved, used>>

\* the client refuses a standard grab, or the insert fails and is compensated
GrabFails(b) ==
  /\ grab[b].pc = "sending" /\ ~grab[b].retry
  /\ grab' = [grab EXCEPT ![b] = NoGrab]
  /\ UNCHANGED <<row, book, job, lastFailed, gate, run, mon, search, op, worker, phase, approved, used>>

GrabInsert(b, d) ==
  /\ grab[b].pc = "sending" /\ BookOf[d] = b /\ row[d].client = "absent"
  /\ row' = [row EXCEPT ![d] = [client |-> "downloading", stage |-> "idle", snap |-> grab[b].snap]]
  /\ grab' = [grab EXCEPT ![b].pc = "inserted"]
  /\ UNCHANGED <<book, job, lastFailed, gate, run, mon, search, op, worker, phase, approved, used>>

GrabMarkBook(b) ==
  /\ grab[b].pc = "inserted"
  /\ book' = SetStatus(b, "downloading")
  /\ grab' = [grab EXCEPT ![b] = NoGrab]
  /\ search' = IF grab[b].retry THEN [search EXCEPT ![b].pc = "retried"] ELSE search
  /\ UNCHANGED <<row, job, lastFailed, gate, run, mon, op, worker, phase, approved, used>>

\* a retried search: the caller that waited for it deletes the failed row it replaces
SearchRetried(b) ==
  /\ search[b].pc = "retried"
  /\ row' = IF search[b].by \in {"monitor", "operator"} THEN Delete(search[b].d) ELSE row
  /\ search' = SearchOver(b)
  /\ mon' = Resume(b, "idle")
  /\ UNCHANGED <<book, job, lastFailed, gate, run, grab, op, worker, phase, approved, used>>

-----------------------------------------------------------------------------
(* The import queue worker: one job at a time *)

\* drainOne: claim a pending job
WorkerClaim(b) ==
  /\ phase \in {"draining", "up"} /\ worker.pc = "idle"
  /\ job[b].st = "pending"
  /\ job' = [job EXCEPT ![b].st = "processing"]
  /\ worker' = [pc |-> "claimed", b |-> b, d |-> job[b].d]
  /\ UNCHANGED <<row, book, lastFailed, gate, run, mon, search, grab, op, phase, approved, used>>

\* getImportContext and importDownload read the row outside the lock
WorkerLoad ==
  /\ worker.pc = "claimed"
  /\ worker' = [worker EXCEPT !.pc = IF Exists(worker.d) THEN "loaded" ELSE "marking"]
  /\ UNCHANGED <<row, book, job, lastFailed, gate, run, mon, search, grab, op, phase,
                 approved, used>>

\* runImportCommit, under the lock: the pipeline stage moves whatever it is by now
WorkerStart ==
  /\ worker.pc = "loaded" /\ LockFree(worker.b)
  /\ row' = SetStage(worker.d, "importing")
  /\ worker' = [worker EXCEPT !.pc = "importing"]
  /\ UNCHANGED <<book, job, lastFailed, gate, run, mon, search, grab, op, phase, approved, used>>

\* copied, verified and swapped in: book and row are promoted in one transaction
WorkerCommit ==
  /\ worker.pc = "importing"
  /\ book' = [book EXCEPT ![worker.b] = [status |-> "imported", path |-> TRUE]]
  /\ row' = SetStage(worker.d, "imported")
  /\ worker' = [worker EXCEPT !.pc = "committed"]
  /\ UNCHANGED <<job, lastFailed, gate, run, mon, search, grab, op, phase, approved, used>>

\* finalizeCompletedImport touches the job only
WorkerFinalize ==
  /\ worker.pc = "committed"
  /\ job' = [job EXCEPT ![worker.b] = NoJob]
  /\ worker' = NoWorker
  /\ UNCHANGED <<row, book, lastFailed, gate, run, mon, search, grab, op, phase, approved, used>>

\* mutant: a failed import leaves the row importing
WorkerFailKeepsRow ==
  /\ worker.pc = "importing"
  /\ worker' = [worker EXCEPT !.pc = "reverting"]
  /\ UNCHANGED <<row, book, job, lastFailed, gate, run, mon, search, grab, op, phase, approved, used>>

\* handleImportFailure: fail the row, then revert the book to its snapshot
WorkerFail ==
  /\ worker.pc = "importing"
  /\ row' = Fail(worker.d)
  /\ worker' = [worker EXCEPT !.pc = "reverting"]
  /\ UNCHANGED <<book, job, lastFailed, gate, run, mon, search, grab, op, phase, approved, used>>

\* bad content also asks for another release
WorkerRevert ==
  /\ worker.pc = "reverting"
  /\ book' = SetStatus(worker.b, row[worker.d].snap)
  /\ \E content \in BOOLEAN : search' = [search EXCEPT ![worker.b].asked = @ \/ content]
  /\ worker' = [worker EXCEPT !.pc = "marking"]
  /\ UNCHANGED <<row, job, lastFailed, gate, run, mon, grab, op, phase, approved, used>>

\* markJobFailed: the job fails, and the book too if nothing reverted it
WorkerMark ==
  /\ worker.pc = "marking"
  /\ job' = [job EXCEPT ![worker.b] = NoJob]
  /\ lastFailed' = [lastFailed EXCEPT ![worker.b] = worker.d]
  /\ book' = MoveStatus(worker.b, "importing", "failed")
  /\ worker' = NoWorker
  /\ UNCHANGED <<row, gate, run, mon, search, grab, op, phase, approved, used>>

-----------------------------------------------------------------------------
(* Operator requests.  The server serves them in any order and at any time. *)

Request(kind, bound) == phase = "up" /\ used[kind] < bound /\ used' = [used EXCEPT ![kind] = @ + 1]

Cancel(d) ==
  /\ Request("cancel", MaxCancels)
  /\ op[d].cancel = "none" /\ InProgress(d)
  /\ op' = [op EXCEPT ![d].cancel = "removing"]
  /\ UNCHANGED <<row, book, job, lastFailed, gate, run, mon, search, grab, worker, phase, approved>>

\* the client has dropped the download; the row fails whatever it is by now
CancelWrite(d) ==
  /\ op[d].cancel = "removing"
  /\ row' = Fail(d)
  /\ op' = [op EXCEPT ![d].cancel = "reverting"]
  /\ UNCHANGED <<book, job, lastFailed, gate, run, mon, search, grab, worker, phase, approved, used>>

CancelRevert(d) ==
  /\ op[d].cancel = "reverting"
  /\ book' = SetStatus(BookOf[d], row[d].snap)
  /\ op' = [op EXCEPT ![d].cancel = "none"]
  /\ UNCHANGED <<row, job, lastFailed, gate, run, mon, search, grab, worker, phase, approved, used>>

Approve(d) ==
  /\ Request("review", MaxReviews)
  /\ op[d].approve = "none" /\ row[d].stage = "pending_review"
  /\ op' = [op EXCEPT ![d].approve = "approving"]
  /\ UNCHANGED <<row, book, job, lastFailed, gate, run, mon, search, grab, worker, phase, approved>>

\* a miss of the guard goes unnoticed
ApproveWrite(d) ==
  /\ op[d].approve = "approving"
  /\ IF row[d].stage = "pending_review"
     THEN row' = SetStage(d, "importing") /\ approved' = approved \cup {d}
     ELSE UNCHANGED <<row, approved>>
  /\ op' = [op EXCEPT ![d].approve = "approved"]
  /\ UNCHANGED <<book, job, lastFailed, gate, run, mon, search, grab, worker, phase, used>>

ApproveEnqueue(d) ==
  /\ op[d].approve = "approved"
  /\ job' = Enqueue(d)
  /\ op' = [op EXCEPT ![d].approve = "none"]
  /\ UNCHANGED <<row, book, lastFailed, gate, run, mon, search, grab, worker, phase, approved, used>>

\* dismiss, or (again) blacklist and search for another release
Reject(d) ==
  /\ Request("review", MaxReviews)
  /\ op[d].reject = "none" /\ row[d].stage = "pending_review"
  /\ \E again \in BOOLEAN : op' = [op EXCEPT ![d].reject = "rejecting", ![d].again = again]
  /\ UNCHANGED <<row, book, job, lastFailed, gate, run, mon, search, grab, worker, phase, approved>>

RejectWrite(d) ==
  /\ op[d].reject = "rejecting"
  /\ row' = IF row[d].stage = "pending_review" THEN Fail(d) ELSE row
  /\ op' = [op EXCEPT ![d].reject = "rejected"]
  /\ UNCHANGED <<book, job, lastFailed, gate, run, mon, search, grab, worker, phase, approved, used>>

RejectSearch(d) ==
  /\ op[d].reject = "rejected"
  /\ search' = [search EXCEPT ![BookOf[d]].asked = @ \/ op[d].again]
  /\ op' = [op EXCEPT ![d].reject = "dismissing", ![d].again = FALSE]
  /\ UNCHANGED <<row, book, job, lastFailed, gate, run, mon, grab, worker, phase, approved, used>>

RejectRevert(d) ==
  /\ op[d].reject = "dismissing"
  /\ book' = SetStatus(BookOf[d], row[d].snap)
  /\ op' = [op EXCEPT ![d].reject = "none"]
  /\ UNCHANGED <<row, job, lastFailed, gate, run, mon, search, grab, worker, phase, approved, used>>

\* Retry a failed download: only for a book without files, one search per book
RetryDownload(d) ==
  LET b == BookOf[d] IN
  /\ Request("retry", MaxRetries)
  /\ row[d].client = "failed" /\ row[d].stage = "idle" /\ ~book[b].path
  /\ ~Blocked(b) /\ search[b].pc = "none"
  /\ search' = [search EXCEPT ![b].pc = "searching", ![b].by = "operator", ![b].d = d]
  /\ UNCHANGED <<row, book, job, lastFailed, gate, run, mon, grab, op, worker, phase, approved>>

\* Retry the import of a book: its newest failed job is enqueued again
RetryImport(b) ==
  /\ Request("retry", MaxRetries)
  /\ book[b].status # "importing" /\ lastFailed[b] # None /\ job[b].st = "none"
  /\ job' = [job EXCEPT ![b] = [st |-> "pending", d |-> lastFailed[b]]]
  /\ book' = SetStatus(b, "importing")
  /\ UNCHANGED <<row, lastFailed, gate, run, mon, search, grab, op, worker, phase, approved>>

DeleteHistory(d) ==
  /\ Request("delete", MaxDeletes)
  /\ ~op[d].delete /\ IsTerminal(d)
  /\ op' = [op EXCEPT ![d].delete = TRUE]
  /\ UNCHANGED <<row, book, job, lastFailed, gate, run, mon, search, grab, worker, phase, approved>>

DeleteWrite(d) ==
  /\ op[d].delete
  /\ row' = Delete(d)
  /\ op' = [op EXCEPT ![d].delete = FALSE]
  /\ UNCHANGED <<book, job, lastFailed, gate, run, mon, search, grab, worker, phase, approved, used>>

-----------------------------------------------------------------------------
(* The process *)

Crash ==
  /\ phase # "down" /\ used.crash < MaxCrashes
  /\ used' = [used EXCEPT !.crash = @ + 1]
  /\ phase' = "down"
  /\ gate' = [g \in Evaluators |-> NoGate]
  /\ run' = [r \in Runners |-> NoRun]
  /\ mon' = NoMon
  /\ search' = [b \in Books |-> NoSearch]
  /\ grab' = [b \in Books |-> NoGrab]
  /\ op' = [d \in Downloads |-> NoOp]
  /\ worker' = NoWorker
  /\ UNCHANGED <<row, book, job, lastFailed, approved>>

\* mutant: the boot recovery only looks at the jobs of books still importing
OrphanedImporting(b) == job[b].st = "processing" /\ book[b].status = "importing"

\* bootRecovery: an orphaned job runs again only if its book is still importing
Orphaned(b) == job[b].st = "processing"
Requeued(b) == Orphaned(b) /\ book[b].status = "importing"

Boot ==
  /\ phase = "down"
  /\ phase' = "draining"
  /\ job' = [b \in Books |-> IF Requeued(b) THEN [job[b] EXCEPT !.st = "pending"]
                             ELSE IF Orphaned(b) THEN NoJob ELSE job[b]]
  /\ lastFailed' = [b \in Books |-> IF Orphaned(b) /\ ~Requeued(b) THEN job[b].d ELSE lastFailed[b]]
  /\ UNCHANGED <<row, book, gate, run, mon, search, grab, op, worker, approved, used>>

\* mutants: the reset forgets one of the two stages
StuckImporting(d) == row[d].stage = "importing"
StuckChecking(d) == row[d].stage = "checking"

\* runStartupRecovery: nothing owns these stages any more, and the batches start over
Stuck(d) == row[d].stage \in {"checking", "importing"}

StartupReset ==
  /\ phase = "draining"
  /\ phase' = "up"
  /\ row' = [d \in Downloads |-> IF Stuck(d) THEN [row[d] EXCEPT !.stage = "idle"] ELSE row[d]]
  /\ run' = [run EXCEPT ![Startup].pc = "ready"]
  /\ UNCHANGED <<book, job, lastFailed, gate, mon, search, grab, op, worker, approved, used>>

-----------------------------------------------------------------------------
Init ==
  /\ row = [d \in Downloads |-> [client |-> "absent", stage |-> "idle", snap |-> "wanted"]]
  /\ book \in [Books -> {[status |-> "wanted", path |-> FALSE], [status |-> "imported", path |-> TRUE]}]
  /\ job = [b \in Books |-> NoJob]
  /\ lastFailed = [b \in Books |-> None]
  /\ gate = [g \in Evaluators |-> NoGate]
  /\ run = [r \in Runners |-> NoRun]
  /\ mon = NoMon
  /\ search = [b \in Books |-> NoSearch]
  /\ grab = [b \in Books |-> NoGrab]
  /\ op = [d \in Downloads |-> NoOp]
  /\ worker = NoWorker
  /\ phase = "up"
  /\ approved = {}
  /\ used = [kind \in {"cancel", "review", "retry", "delete", "crash"} |-> 0]

MonitorPass(d) == MonitorSkip(d) \/ MonitorComplete(d) \/ MonitorFail(d)
MonitorFailure == MonitorGiveUp \/ MonitorSearch \/ MonitorRecover \/ MonitorRevert
InlineGate(d) == GateLoad(d) \/ GateClaim(d) \/ GateMarkBook(d)
GateDecides(g) == GateHold(g) \/ GateAutoImport(g) \/ GateReject(g)
GateSettles(g) == GateHeld(g) \/ GateEnqueue(g) \/ GateRejected(g)
Batch(r) == RunnerSelect(r) \/ RunnerImports(r)
            \/ \E d \in Downloads : RunnerClaim(r, d) \/ RunnerEnqueue(r, d)
Searching(b) == SearchBegin(b) \/ SearchFails(b) \/ GrabForRetry(b) \/ SearchRetried(b)
Grabbing(b) == GrabCheck(b) \/ GrabFails(b) \/ GrabMarkBook(b) \/ \E d \in Downloads : GrabInsert(b, d)
Worker == WorkerLoad \/ WorkerStart \/ WorkerCommit \/ WorkerFinalize
          \/ WorkerFail \/ WorkerRevert \/ WorkerMark
Operator(d) == Cancel(d) \/ Approve(d) \/ Reject(d) \/ RetryDownload(d) \/ DeleteHistory(d)
Operation(d) == \/ CancelWrite(d) \/ CancelRevert(d)
                \/ ApproveWrite(d) \/ ApproveEnqueue(d)
                \/ RejectWrite(d) \/ RejectSearch(d) \/ RejectRevert(d)
                \/ DeleteWrite(d)

Next ==
  \/ MonitorPoll \/ MonitorFailure \/ Worker \/ Crash \/ Boot \/ StartupReset
  \/ \E d \in Downloads : MonitorPass(d) \/ InlineGate(d) \/ Operator(d) \/ Operation(d)
  \/ \E g \in Evaluators : GateDecides(g) \/ GateSettles(g)
  \/ \E r \in Runners : Batch(r)
  \/ \E b \in Books : \/ WorkerClaim(b) \/ Searching(b) \/ SearchDeadline(b)
                      \/ GrabCapture(b) \/ Grabbing(b) \/ RetryImport(b)

Spec == Init /\ [][Next]_vars

\* Every step the process has begun is eventually taken: timers fire and promises settle.
\* Operators, standard grabs and crashes owe nothing.
Scheduling ==
  /\ WF_vars(MonitorPoll) /\ WF_vars(MonitorFailure) /\ WF_vars(Boot) /\ WF_vars(StartupReset)
  /\ \A d \in Downloads : WF_vars(MonitorPass(d)) /\ WF_vars(InlineGate(d)) /\ WF_vars(Operation(d))
  /\ \A g \in Evaluators : WF_vars(GateDecides(g)) /\ WF_vars(GateSettles(g))
  /\ \A r \in Runners : WF_vars(Batch(r))
  /\ \A b \in Books : WF_vars(WorkerClaim(b)) /\ WF_vars(Grabbing(b))

\* The same of those that take the admission lock: it is a queue, so a waiting import or retry is not
\* overtaken for ever.
LockGranted ==
  /\ WF_vars(Worker) /\ SF_vars(WorkerStart)
  /\ \A b \in Books : WF_vars(Searching(b)) /\ SF_vars(GrabForRetry(b))

Fairness == Scheduling /\ LockGranted

FairSpec == Spec /\ Fairness

-----------------------------------------------------------------------------
(* Safety *)

\* Every variable keeps its type, and no write revives a row that was deleted or never inserted.
TypeOK ==
  /\ row \in [Downloads -> Rows]
  /\ \A d \in Downloads : ~Exists(d) => row[d].stage = "idle"
  /\ book \in [Books -> BookRows]
  /\ job \in [Books -> Jobs]
  /\ lastFailed \in [Books -> Downloads \cup {None}]
  /\ gate \in [Evaluators -> Gates]
  /\ run \in [Runners -> RunStates]
  /\ mon \in MonStates
  /\ search \in [Books -> Searches]
  /\ grab \in [Books -> Grabs]
  /\ op \in [Downloads -> Ops]
  /\ worker \in WorkerStates
  /\ phase \in {"down", "draining", "up"}
  /\ approved \subseteq Downloads
  /\ used \in [{"cancel", "review", "retry", "delete", "crash"} -> Nat]

\* An evaluation that has claimed its row and not yet written its verdict
Evaluating(g) == gate[g].pc \in {"claimed", "probing"}

\* However the inline evaluation, the batches, cancels, imports and restarts interleave, a download
\* is never evaluated twice at the same time: two evaluations would write two verdicts.
OneGatePerRow ==
  \A g, h \in Evaluators : Evaluating(g) /\ Evaluating(h) /\ gate[g].d = gate[h].d => g = h

\* What the proofs add to TypeOK: whatever is active names the row, or the book, it works on
Refs ==
  /\ \A g \in Evaluators : gate[g].pc # "idle" => gate[g].d \in Downloads
  /\ mon.pc # "idle" => mon.d \in Downloads
  /\ \A b \in Books : search[b].by \in {"monitor", "operator"} => search[b].d \in Downloads
  /\ \A b \in Books : search[b].by = "monitor" => mon.pc = "waiting" /\ BookOf[mon.d] = b
  /\ \A b \in Books : job[b].st # "none" => job[b].d \in Downloads
  /\ worker.pc # "idle" => worker.b \in Books /\ worker.d \in Downloads

\* What they add to OneGatePerRow: a row under evaluation cannot be claimed again, and what it has
\* become it will not become again; an inline evaluation is about its own row ...
Locked(d) == row[d].client \in {"completed", "failed", "deleted"} /\ ~Eligible(d)
Claims == /\ \A g \in Evaluators : Evaluating(g) => Locked(gate[g].d)
          /\ \A d \in Downloads : gate[d].pc # "idle" => gate[d].d = d

\* ... and nothing that evaluates runs before the startup reset
Quiet == phase # "up" => /\ \A g \in Evaluators : gate[g].pc = "idle"
                         /\ \A r \in Runners : run[r].pc = "idle"
                         /\ mon.todo = {}

\* Once the process is up, a row that says "checking" has an evaluation working on it: no crash,
\* restart or lost claim leaves a download in the gate for ever, hidden from every batch.
CheckingHasGate ==
  phase = "up" => \A d \in Downloads : row[d].stage = "checking" =>
                    \E g \in Evaluators : Evaluating(g) /\ gate[g].d = d

\* A processing job belongs to the worker: after a restart no job is left processing with nobody to
\* finish it, which would block every import and grab of its book.
ProcessingHasWorker ==
  phase # "down" => \A b \in Books : job[b].st = "processing" =>
                      worker.pc # "idle" /\ worker.b = b /\ worker.d = job[b].d

\* The client axis never leaves failed: a stale monitor write cannot revive a download that was
\* cancelled, rejected or replaced since it was polled.
FailedIsFinal ==
  [][\A d \in Downloads : row[d].client = "failed" => row'[d].client \in {"failed", "deleted"}]_vars

\* A book has at most one live row: no two downloads compete to become its files.
OneLiveDownload ==
  \A d, e \in Downloads : BookOf[d] = BookOf[e] /\ (InProgress(d) \/ Eligible(d))
                          /\ (InProgress(e) \/ Eligible(e)) => d = e

\* Nothing is enqueued for import that neither the gate nor the operator let through.
ImportOnlyApproved ==
  \A b \in Books : job[b].st # "none" => job[b].d \in approved

\* Nothing in flight will still write the status of this book
Settled(b) ==
  /\ job[b].st = "none" /\ worker.b # b /\ grab[b].pc = "none"
  /\ search[b].pc = "none" /\ ~search[b].asked
  /\ mon.d = None \/ BookOf[mon.d] # b
  /\ \A g \in Evaluators : gate[g].d # None => BookOf[gate[g].d] # b
  /\ \A d \in RowsOf(b) : /\ ~InProgress(d) /\ ~Eligible(d)
                          /\ op[d].cancel = "none" /\ op[d].approve = "none" /\ op[d].reject = "none"

\* When nothing is in flight for a book it does not read importing.  Holds as long as every
\* snapshot taken at grab time was an intent.
SettledBook ==
  \A b \in Books : Settled(b) /\ (\A d \in RowsOf(b) : row[d].snap # "importing")
                   => book[b].status # "importing"

\* A book that reads imported has files.
ImportedHasFiles == \A b \in Books : book[b].status = "imported" => book[b].path

\* An imported book is never replaced by a release that neither the gate nor the operator let through.
NeverReplacedUnapproved ==
  [][\A b \in Books : book[b].path /\ worker.b = b /\ worker.pc = "importing" /\ worker'.pc = "committed"
                      => worker.d \in approved]_vars

\* A cancelled download reads failed: its row never leaves (failed, idle) but by deletion.
CancelledStaysFailed ==
  [][\A d \in Downloads : row[d].client = "failed" /\ row[d].stage = "idle"
                          => row'[d].stage = "idle"]_vars

-----------------------------------------------------------------------------
(* Liveness *)

\* A row that reads importing, because the operator approved it or because its import runs, does not
\* do so for ever: it is imported or it fails.
ImportingRowEnds == \A d \in Downloads : row[d].stage = "importing" ~> row[d].stage # "importing"

\* Every import job ends: a crash, a deleted row or a failed import leaves no job pending or processing
\* for ever, which would keep its book from being grabbed and imported again.
JobsEnd == \A b \in Books : job[b].st # "none" ~> job[b].st = "none"

\* A finished download gets a verdict: it is imported, failed, deleted or waits for the operator.
CompletedIsResolved ==
  \A d \in Downloads : Eligible(d) ~> \/ row[d].client \in {"failed", "deleted"}
                                      \/ row[d].stage \in {"pending_review", "imported"}
=============================================================================

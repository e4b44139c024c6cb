-------------------------- MODULE ReplaceDownload ---------------------------
(***************************************************************************)
(* The pipeline together with confirmed replacements: a request grabs a    *)
(* release in place of whatever the book is downloading.  It holds the     *)
(* admission lock of the book and claims the downloads it replaces before  *)
(* it touches the client; the monitor, the gate and the operator do not    *)
(* take that lock.                                                         *)
(***************************************************************************)
EXTENDS ImportPipeline

CONSTANTS
  Releases,       \* the keys of singleFlightReplace: a book and a release of it
  ReleaseOf,      \* the book of a key
  MaxReplaces     \* bound of a run

ASSUME ReleaseAssumption == ReleaseOf \in [Releases -> Books] /\ MaxReplaces \in Nat

VARIABLES
  replace,    \* the workflow in flight for a key (a request for a key in flight joins it): where it is,
              \* the downloads to replace, the status to put back, and the retries of the claim
  replaced,   \* history: the downloads that a workflow has claimed
  requests    \* how many workflows were begun

replaceVars == <<replace, replaced, requests>>
allVars == <<vars, replaceVars>>

NoWorkflow == [pc |-> "idle", targets |-> {}, snap |-> "wanted", attempt |-> 0]

-----------------------------------------------------------------------------
(* gatherBookBlockers and classifyBlockers *)

Replaceable(b) == {d \in RowsOf(b) : Polled(d)}
InPipeline(b) == job[b].st # "none" \/ \E d \in RowsOf(b) \ Replaceable(b) : InProgress(d) \/ Eligible(d)

\* the workflow as it goes on once the book has been looked at; a pipeline row refuses the request
Classified(r, whenReplaceable) ==
  IF InPipeline(ReleaseOf[r]) THEN NoWorkflow
  ELSE IF Replaceable(ReleaseOf[r]) = {} THEN [replace[r] EXCEPT !.pc = "ordinary"]
  ELSE whenReplaceable

Holds(r, b) == ReleaseOf[r] = b /\ replace[r].pc \notin {"idle", "waiting"}
Held(b) == \E r \in Releases : Holds(r, b)

Goto(r, pc) == replace' = [replace EXCEPT ![r].pc = pc]

-----------------------------------------------------------------------------
(* runReplaceWorkflow *)

\* grabWithReplace: only the first of the requests in flight for a key runs
Replace(r) ==
  /\ phase = "up" /\ replace[r].pc = "idle" /\ requests < MaxReplaces
  /\ Goto(r, "waiting")
  /\ requests' = requests + 1
  /\ UNCHANGED <<vars, replaced>>

\* under the lock: what blocks the book, and the status its newest replaceable download was grabbed at
Gather(r) ==
  /\ \/ replace[r].pc = "waiting" /\ LockFree(ReleaseOf[r]) /\ ~Held(ReleaseOf[r])
     \/ replace[r].pc = "again"
  /\ \E d \in RowsOf(ReleaseOf[r]) :
       /\ d \in Replaceable(ReleaseOf[r]) \/ Replaceable(ReleaseOf[r]) = {}
       /\ replace' = [replace EXCEPT ![r] =
            Classified(r, [@ EXCEPT !.pc = "claim", !.targets = Replaceable(ReleaseOf[r]), !.snap = row[d].snap])]
  /\ UNCHANGED <<vars, replaced, requests>>

\* mutant: the claim writes whatever the rows have become
ClaimLandsAnyway(r) == replace[r].targets # {}

\* claimReplaceableTargets: every row is as it was gathered, and nothing else blocks the book
ClaimLands(r) == replace[r].targets \subseteq Replaceable(ReleaseOf[r]) /\ ~InPipeline(ReleaseOf[r])

\* one transaction fails all the targets, before anything is removed from the client
Claim(r) ==
  /\ replace[r].pc = "claim" /\ ClaimLands(r)
  /\ row' = [d \in Downloads |-> IF d \in replace[r].targets
                                 THEN [row[d] EXCEPT !.client = "failed", !.stage = "idle"] ELSE row[d]]
  /\ replaced' = replaced \cup replace[r].targets
  /\ Goto(r, "cleanup")
  /\ UNCHANGED <<book, job, lastFailed, gate, run, mon, search, grab, op, worker, phase, approved, used, requests>>

\* a row has moved, if only from queued to downloading or paused: the transaction is rolled back
ClaimMisses(r) ==
  /\ replace[r].pc = "claim"
  /\ Goto(r, "missed")
  /\ UNCHANGED <<vars, replaced, requests>>

\* mutant: a claim is tried until it lands
TriesAgain(r) == replace[r].pc = "missed"

\* one retry
MayRetry(r) == replace[r].attempt < 1

\* handleClaimMiss: look again, and try once more
Missed(r) ==
  /\ replace[r].pc = "missed"
  /\ replace' = [replace EXCEPT ![r] =
       Classified(r, IF MayRetry(r) THEN [@ EXCEPT !.pc = "again", !.attempt = 1] ELSE NoWorkflow)]
  /\ UNCHANGED <<vars, replaced, requests>>

\* nothing to replace: a grab like any other, with its own check of the book
GrabOrdinary(r) ==
  /\ replace[r].pc = "ordinary"
  /\ grab' = [grab EXCEPT ![ReleaseOf[r]] =
       [pc |-> "captured", snap |-> book[ReleaseOf[r]].status, retry |-> FALSE]]
  /\ replace' = [replace EXCEPT ![r] = [NoWorkflow EXCEPT !.pc = "grabbing"]]
  /\ UNCHANGED <<row, book, job, lastFailed, gate, run, mon, search, op, worker, phase, approved, used,
                 replaced, requests>>

\* the old downloads are gone from the client; unless an import has come up, grab without a check
GrabReplacement(r) ==
  /\ replace[r].pc = "cleanup"
  /\ IF InPipeline(ReleaseOf[r])
     THEN Goto(r, "revert") /\ UNCHANGED grab
     ELSE /\ grab' = [grab EXCEPT ![ReleaseOf[r]] = [pc |-> "sending", snap |-> replace[r].snap, retry |-> FALSE]]
          /\ Goto(r, "grabbing")
  /\ UNCHANGED <<row, book, job, lastFailed, gate, run, mon, search, op, worker, phase, approved, used,
                 replaced, requests>>

\* coordinateReplaceRevert: only from downloading
Revert(r) ==
  /\ replace[r].pc = "revert"
  /\ book' = MoveStatus(ReleaseOf[r], "downloading", replace[r].snap)
  /\ replace' = [replace EXCEPT ![r] = NoWorkflow]
  /\ UNCHANGED <<row, job, lastFailed, gate, run, mon, search, grab, op, worker, phase, approved, used,
                 replaced, requests>>

-----------------------------------------------------------------------------
(* The pipeline beside it *)

\* Nobody else comes by the lock of a book
TakesLock(b) == \/ grab[b].pc = "none" /\ grab'[b].pc # "none"
                \/ ~ImportHolds(b) /\ ImportHolds(b)'
KeepsOut == \A b \in Books : Held(b) => ~TakesLock(b)

\* What the grab a workflow awaits has come to
Awaited(r) ==
  LET b == ReleaseOf[r] IN
  IF replace[r].pc # "grabbing" \/ grab'[b].pc # "none" THEN replace[r]
  ELSE IF grab[b].pc = "inserted" \/ replace[r].targets = {} THEN NoWorkflow
  ELSE [replace[r] EXCEPT !.pc = "revert"]

Pipeline ==
  /\ Next /\ KeepsOut
  /\ replace' = [r \in Releases |-> IF phase' = "down" THEN NoWorkflow ELSE Awaited(r)]
  /\ UNCHANGED <<replaced, requests>>

\* The write of the book's status is only attempted for a replacement: twice, then it is given up.
LoseMark(r) ==
  /\ replace[r].pc = "grabbing" /\ replace[r].targets # {} /\ grab[ReleaseOf[r]].pc = "inserted"
  /\ grab' = [grab EXCEPT ![ReleaseOf[r]] = NoGrab]
  /\ replace' = [replace EXCEPT ![r] = NoWorkflow]
  /\ UNCHANGED <<row, book, job, lastFailed, gate, run, mon, search, op, worker, phase, approved, used,
                 replaced, requests>>

ReplaceInit ==
  /\ Init
  /\ replace = [r \in Releases |-> NoWorkflow] /\ replaced = {} /\ requests = 0

Workflow(r) ==
  Gather(r) \/ Claim(r) \/ ClaimMisses(r) \/ Missed(r) \/ GrabOrdinary(r) \/ GrabReplacement(r) \/ Revert(r)

ReplaceNext == Pipeline \/ \E r \in Releases : Replace(r) \/ Workflow(r) \/ LoseMark(r)

\* Like Fairness: what has begun goes on, and the lock, once free, is granted to whoever waits for it.
ReplaceSpec ==
  /\ ReplaceInit /\ [][ReplaceNext]_allVars /\ Scheduling
  /\ WF_vars(Worker /\ KeepsOut) /\ SF_vars(WorkerStart /\ KeepsOut)
  /\ \A b \in Books : WF_vars(Searching(b) /\ KeepsOut) /\ SF_vars(GrabForRetry(b) /\ KeepsOut)
  /\ \A r \in Releases : WF_allVars(Workflow(r)) /\ SF_allVars(Gather(r))

-----------------------------------------------------------------------------
\* What was replaced stays replaced: no completion that the monitor saw, no verdict and no import that
\* was under way brings back a download whose files the workflow has removed from the client
\* (claimReplaceableTargets).
ReplacedIsOver == \A d \in replaced : row[d].client \in {"failed", "deleted"} /\ row[d].stage = "idle"

\* Every workflow ends, and gives up the lock of its book: a claim that keeps missing is tried once
\* more and no more (handleClaimMiss), and the lock it waits for is held by nobody who waits for it.
WorkflowsEnd == \A r \in Releases : replace[r].pc # "idle" ~> replace[r].pc = "idle"
=============================================================================

------------------------- MODULE ReplaceDownloadProofs -------------------------
(***************************************************************************)
(* Proofs about ReplaceDownload, the pipeline together with confirmed      *)
(* replacements, for any downloads, books, releases, batch runners and     *)
(* bounds: the pipeline's own invariant holds beside the workflows, a      *)
(* download that was replaced stays over, a book that reads imported has   *)
(* files; and, where no batch, restart, cancellation, deletion or retry by *)
(* hand interferes and nobody rejects a download that is being approved,   *)
(* a book has one live download at a time, each import was approved, and a *)
(* book that nothing works on does not read importing.                     *)
(***************************************************************************)
EXTENDS ReplaceDownload, ImportPipelineProofs

-----------------------------------------------------------------------------
(* Types, and the pipeline's own invariant beside the workflows *)

Workflows == [pc : {"idle", "waiting", "again", "claim", "missed", "ordinary", "cleanup", "grabbing", "revert"},
              targets : SUBSET Downloads, snap : BookStatus, attempt : {0, 1}]

\* A claim has something to claim, of its own book
ReplaceT ==
  /\ replace \in [Releases -> Workflows]
  /\ \A r \in Releases : /\ replace[r].targets \subseteq RowsOf(ReleaseOf[r])
                         /\ replace[r].pc = "claim" => replace[r].targets # {}
  /\ replaced \subseteq Downloads

\* The steps of a workflow that leave the pipeline alone
Looks(r) == Replace(r) \/ Gather(r) \/ ClaimMisses(r) \/ Missed(r)
\* Those that give the book of the workflow another grab, or none
Regrabs(r) == GrabOrdinary(r) \/ GrabReplacement(r) \/ LoseMark(r)

\* What a step of the whole may be
LEMMA ReplaceSteps ==
  ASSUME [ReplaceNext]_allVars
  PROVE  \/ Pipeline \/ UNCHANGED allVars
         \/ \E r \in Releases : Looks(r) \/ Claim(r) \/ Regrabs(r) \/ Revert(r)
  BY DEF ReplaceNext, Workflow, Looks, Regrabs

\* The workflows keep their types.
LEMMA ReplaceTyped == TypeInv /\ ReplaceT /\ [ReplaceNext]_allVars => ReplaceT'
<1> SUFFICES ASSUME TypeInv, ReplaceT, [ReplaceNext]_allVars PROVE ReplaceT'
  OBVIOUS
<1>0. NoWorkflow \in Workflows /\ NoWorkflow.targets = {} /\ NoWorkflow.pc = "idle"
  BY DEF NoWorkflow, Workflows, BookStatus
<1> HIDE DEF NoWorkflow
<1>1. CASE Pipeline
  <2>1. \A r \in Releases : /\ replace'[r] \in Workflows
                            /\ replace'[r].targets \subseteq replace[r].targets
                            /\ replace'[r].pc = "claim" => replace'[r] = replace[r]
    BY <1>1, <1>0 DEF Pipeline, Awaited, ReplaceT, Workflows
  <2>2. QED
    BY <1>1, <2>1 DEF Pipeline, ReplaceT
<1>2. CASE UNCHANGED allVars
  BY <1>2 DEF allVars, replaceVars, ReplaceT
<1>3. ASSUME NEW r \in Releases, Looks(r) PROVE ReplaceT'
  <2>1. CASE Replace(r) \/ ClaimMisses(r)
    BY <2>1 DEF Replace, ClaimMisses, Goto, ReplaceT, Workflows
  <2>2. CASE Gather(r)
    <3> DEFINE b == ReleaseOf[r]
    <3>1. PICK d \in RowsOf(b) :
            /\ d \in Replaceable(b) \/ Replaceable(b) = {}
            /\ replace' = [replace EXCEPT ![r] =
                 Classified(r, [@ EXCEPT !.pc = "claim", !.targets = Replaceable(b), !.snap = row[d].snap])]
      BY <2>2 DEF Gather
    <3>2. row[d].snap \in BookStatus /\ Replaceable(b) \subseteq RowsOf(b) /\ Replaceable(b) \in SUBSET Downloads
      BY SnapTyped DEF Replaceable, RowsOf
    <3> DEFINE c == replace'[r]
    <3>3. /\ c \in Workflows /\ c.targets \subseteq RowsOf(b) /\ (c.pc = "claim" => c.targets # {})
          /\ \A s \in Releases : s # r => replace'[s] = replace[s]
          /\ replace' \in [Releases -> Workflows]
      BY <3>1, <3>2, <1>0 DEF Classified, ReplaceT, Workflows
    <3>4. UNCHANGED replaced
      BY <2>2 DEF Gather
    <3>5. QED
      BY <3>3, <3>4 DEF ReplaceT
  <2>3. CASE Missed(r)
    BY <2>3, <1>0 DEF Missed, Classified, ReplaceT, Workflows
  <2>4. QED
    BY <1>3, <2>1, <2>2, <2>3 DEF Looks
<1>4. ASSUME NEW r \in Releases, Claim(r) PROVE ReplaceT'
  <2>1. replace' = [replace EXCEPT ![r].pc = "cleanup"] /\ replaced' = replaced \cup replace[r].targets
    BY <1>4 DEF Claim, Goto
  <2>2. replace' \in [Releases -> Workflows]
    BY <2>1 DEF ReplaceT, Workflows
  <2>3. \A s \in Releases : /\ replace'[s].targets = replace[s].targets
                            /\ replace'[s].pc = "claim" => replace[s].pc = "claim"
    BY <2>1 DEF ReplaceT, Workflows
  <2>4. replaced' \subseteq Downloads
    BY <2>1 DEF ReplaceT, RowsOf
  <2>5. QED
    BY <2>2, <2>3, <2>4 DEF ReplaceT
<1>5. ASSUME NEW r \in Releases, Regrabs(r) PROVE ReplaceT'
  <2>1. [NoWorkflow EXCEPT !.pc = "grabbing"] \in Workflows /\ [NoWorkflow EXCEPT !.pc = "grabbing"].targets = {}
        /\ [NoWorkflow EXCEPT !.pc = "grabbing"].pc = "grabbing"
    BY <1>0 DEF Workflows
  <2>2. CASE GrabOrdinary(r)
    BY <2>2, <2>1 DEF GrabOrdinary, ReplaceT
  <2>3. CASE GrabReplacement(r)
    BY <2>3 DEF GrabReplacement, Goto, ReplaceT, Workflows
  <2>4. CASE LoseMark(r)
    BY <2>4, <1>0 DEF LoseMark, ReplaceT
  <2>5. QED
    BY <1>5, <2>2, <2>3, <2>4 DEF Regrabs
<1>6. ASSUME NEW r \in Releases, Revert(r) PROVE ReplaceT'
  BY <1>6, <1>0 DEF Revert, ReplaceT
<1>7. QED
  BY <1>1, <1>2, <1>3, <1>4, <1>5, <1>6, ReplaceSteps

\* What a workflow does to the grab of its book leaves everything else in the pipeline alone.
LEMMA GrabsTyped ==
  ASSUME IndInv, ReplaceT, NEW r \in Releases, Regrabs(r)
  PROVE  /\ IndInv'
         /\ UNCHANGED <<row, book, job, lastFailed, gate, run, mon, search, op, worker, phase, approved, used>>
<1>1. UNCHANGED <<row, book, job, lastFailed, gate, run, mon, search, op, worker, phase, approved, used>>
  BY DEF Regrabs, GrabOrdinary, GrabReplacement, LoseMark
<1>2. GrabT'
  <2>1. ReleaseOf[r] \in Books
    BY ReleaseAssumption
  <2>2. CASE GrabOrdinary(r)
    BY <2>1, <2>2 DEF GrabOrdinary, IndInv, TypeInv, GrabT, Grabs, BookT, BookRows
  <2>3. CASE GrabReplacement(r)
    <3>1. replace[r].snap \in BookStatus
      BY DEF ReplaceT, Workflows
    <3> DEFINE e == [pc |-> "sending", snap |-> replace[r].snap, retry |-> FALSE]
    <3>2. grab' = grab \/ grab' = [grab EXCEPT ![ReleaseOf[r]] = e]
      BY <2>3 DEF GrabReplacement
    <3>3. e \in Grabs
      BY <3>1 DEF Grabs
    <3> HIDE DEF e
    <3>4. QED
      BY <2>1, <3>2, <3>3 DEF IndInv, TypeInv, GrabT
  <2>4. CASE LoseMark(r)
    BY <2>1, <2>4 DEF LoseMark, IndInv, TypeInv, GrabT, Grabs, NoGrab, BookStatus
  <2>5. QED
    BY <2>2, <2>3, <2>4 DEF Regrabs
<1>3. TypeInv'
  BY <1>1, <1>2, Frame DEF IndInv, TypeInv
<1>4. (Quiet /\ Claims /\ OneGatePerRow /\ CheckingHasGate /\ ProcessingHasWorker)'
  BY <1>1 DEF IndInv, Quiet, Claims, Locked, Eligible, OneGatePerRow, Evaluating, CheckingHasGate,
             ProcessingHasWorker
<1>5. QED
  BY <1>1, <1>3, <1>4 DEF IndInv

\* What a claim does to every row
LEMMA ClaimWrites ==
  ASSUME TypeInv, ReplaceT, NEW r \in Releases, Claim(r)
  PROVE  /\ RowT'
         /\ \A d \in Downloads : d \in replace[r].targets =>
              Polled(d) /\ row'[d] = [row[d] EXCEPT !.client = "failed", !.stage = "idle"]
         /\ \A d \in Downloads : d \notin replace[r].targets => row'[d] = row[d]
<1>1. RowOK(row) /\ \A d \in Downloads : [row[d] EXCEPT !.client = "failed", !.stage = "idle"] \in Rows
  BY DEF TypeInv, RowT, RowOK, Rows, ClientStatus, PipelineStage
<1>2. /\ row' = [d \in Downloads |-> IF d \in replace[r].targets
                                     THEN [row[d] EXCEPT !.client = "failed", !.stage = "idle"] ELSE row[d]]
      /\ \A d \in replace[r].targets : Polled(d)
  BY DEF Claim, ClaimLands, Replaceable, RowsOf
<1>3. RowOK(row')
  <2>1. row' \in [Downloads -> Rows]
    BY <1>1, <1>2 DEF RowOK
  <2>2. ASSUME NEW d \in Downloads, row'[d].client \in {"absent", "deleted"} PROVE row'[d].stage = "idle"
    BY <1>1, <1>2, <2>2 DEF RowOK, Rows
  <2>3. QED
    BY <2>1, <2>2 DEF RowOK
<1>4. QED
  BY <1>2, <1>3 DEF RowT

\* No evaluation and no batch has to do with what a workflow claims.
LEMMA ClaimInd ==
  ASSUME IndInv, ReplaceT, NEW r \in Releases, Claim(r)
  PROVE  IndInv'
<1>1. UNCHANGED <<book, job, lastFailed, gate, run, mon, search, grab, op, worker, phase, approved, used>>
  BY DEF Claim
<1>2. TypeInv'
  BY <1>1, ClaimWrites, Frame DEF IndInv, TypeInv
<1>3. \A d \in Downloads : Locked(d) => Locked(d)'
  BY ClaimWrites DEF IndInv, Polled, Locked, Eligible
<1>4. Claims'
  BY <1>1, <1>3 DEF IndInv, Claims, Evaluating, TypeInv, GateT, Locked, Eligible
<1>5. CheckingHasGate'
  <2>1. \A d \in Downloads : row'[d].stage = "checking" => row[d].stage = "checking"
    BY ClaimWrites DEF IndInv, TypeInv, RowT, RowOK, Rows
  <2>2. QED
    BY <1>1, <2>1 DEF IndInv, CheckingHasGate, Evaluating
<1>6. (Quiet /\ OneGatePerRow /\ ProcessingHasWorker)'
  BY <1>1 DEF IndInv, Quiet, OneGatePerRow, Evaluating, ProcessingHasWorker
<1>7. QED
  BY <1>2, <1>4, <1>5, <1>6 DEF IndInv

\* The put-back of a status is a guarded write.
LEMMA RevertInd ==
  ASSUME IndInv, ReplaceT, NEW r \in Releases, Revert(r)
  PROVE  IndInv'
<1>1. UNCHANGED <<row, job, lastFailed, gate, run, mon, search, grab, op, worker, phase, approved, used>>
  BY DEF Revert
<1>2. BookT'
  <2>1. replace[r].snap \in BookStatus /\ ReleaseOf[r] \in Books
    BY ReleaseAssumption DEF ReplaceT, Workflows
  <2>2. book' = MoveStatus(ReleaseOf[r], "downloading", replace[r].snap)
    BY DEF Revert
  <2>3. QED
    BY <2>1, <2>2, MoveTyped DEF IndInv
<1>3. TypeInv'
  BY <1>1, <1>2, Frame DEF IndInv, TypeInv
<1>4. (Quiet /\ Claims /\ OneGatePerRow /\ CheckingHasGate /\ ProcessingHasWorker)'
  BY <1>1 DEF IndInv, Quiet, Claims, Locked, Eligible, OneGatePerRow, Evaluating, CheckingHasGate,
             ProcessingHasWorker
<1>5. QED
  BY <1>3, <1>4 DEF IndInv

\* The pipeline's invariant and the types of the workflows
Base == IndInv /\ ReplaceT

\* It holds at the start.
LEMMA BaseInit == ReplaceInit => Base
<1> SUFFICES ASSUME ReplaceInit PROVE Base
  OBVIOUS
<1>1. IndInv
  BY InitInd DEF ReplaceInit
<1>2. NoWorkflow \in Workflows
  BY DEF NoWorkflow, Workflows, BookStatus
<1>3. ReplaceT
  BY <1>2 DEF ReplaceInit, ReplaceT, NoWorkflow
<1>4. QED
  BY <1>1, <1>3 DEF Base

\* Every step of the whole preserves the invariant of the pipeline.
LEMMA BaseStep == Base /\ [ReplaceNext]_allVars => Base'
<1> SUFFICES ASSUME Base, [ReplaceNext]_allVars PROVE Base'
  OBVIOUS
<1>1. ReplaceT'
  BY ReplaceTyped DEF Base, IndInv
<1>2. CASE Pipeline
  BY <1>1, <1>2, NextInd DEF Base, Pipeline
<1>3. CASE UNCHANGED vars
  BY <1>1, <1>3, NextInd DEF Base
<1>4. ASSUME NEW r \in Releases, Looks(r) PROVE UNCHANGED vars
  BY <1>4 DEF Looks, Replace, Gather, ClaimMisses, Missed
<1>5. ASSUME NEW r \in Releases, Claim(r) \/ Regrabs(r) \/ Revert(r) PROVE Base'
  BY <1>1, <1>5, ClaimInd, GrabsTyped, RevertInd DEF Base
<1>6. QED
  BY <1>2, <1>3, <1>4, <1>5, ReplaceSteps DEF allVars

\* A behaviour of the whole begins and goes on like this, whatever is fair in it.
LEMMA ReplaceSafety == ReplaceSpec => ReplaceInit /\ [][ReplaceNext]_allVars
  BY PTL DEF ReplaceSpec

\* The pipeline keeps its types, its single evaluations and its owned jobs beside any number of
\* confirmed replacements, which take rows out of it without asking the monitor, the gate or the worker.
THEOREM BesideReplacements == ReplaceSpec => [](TypeOK /\ OneGatePerRow /\ CheckingHasGate /\ ProcessingHasWorker)
<1>1. Base => TypeOK /\ OneGatePerRow /\ CheckingHasGate /\ ProcessingHasWorker
  BY TypeInvParts DEF Base, IndInv
<1>2. QED
  BY <1>1, BaseInit, BaseStep, ReplaceSafety, PTL

-----------------------------------------------------------------------------
(* What was replaced is over *)

\* Somebody may still write the stage of this row: an evaluation of it, a batch about to enqueue it,
\* its import job, the operator's retry of that, the worker, or an approval
Handled(d) ==
  \/ \E g \in Evaluators : gate[g].pc # "idle" /\ gate[g].d = d
  \/ \E r \in Runners : run[r].pc = "import" /\ d \in run[r].todo
  \/ \E b \in Books : (job[b].st # "none" /\ job[b].d = d) \/ lastFailed[b] = d
  \/ worker.pc # "idle" /\ worker.d = d
  \/ op[d].approve # "none"

\* Not yet inserted, or still with the client
Fresh(d) == row[d].client \in {"absent", "downloading"}

\* Nobody has taken hold of it
Untouched(d) == ~Handled(d) /\ row[d].stage = "idle"

\* Nobody takes hold of a row before its download is complete, nor after it was replaced
HandsOff ==
  /\ \A d \in Downloads : Fresh(d) \/ d \in replaced => Untouched(d)
  /\ \A d \in replaced : row[d].client \in {"failed", "deleted"}

\* What a step may do to a row: only somebody who handles it, or has just found it eligible, writes
\* its stage, and the client axis moves on.
RowMove(d) ==
  \/ row'[d] = row[d]
  \/ /\ row'[d].client = row[d].client /\ row'[d].snap = row[d].snap
     /\ row'[d].stage = "idle" \/ Handled(d) \/ Eligible(d)
  \/ MonitorComplete(d) \/ MonitorFail(d)
  \/ row'[d].client = "failed" /\ row'[d].stage = "idle" /\ row'[d].snap = row[d].snap /\ Exists(d)
  \/ /\ row'[d].client = "deleted" /\ row'[d].stage = "idle" /\ row'[d].snap = row[d].snap
     /\ \/ DeleteWrite(d)
        \/ \E b \in Books : SearchRetried(b) /\ search[b].by \in {"monitor", "operator"} /\ search[b].d = d
  \/ \E b \in Books : GrabInsert(b, d)

\* Every write to downloads is one of these.
LEMMA RowMoves == ASSUME TypeInv, RowAction, NEW d \in Downloads PROVE RowMove(d)
<1> USE DEF TypeInv, RowT
<1>0. ASSUME NEW e \in Downloads, NEW s \in PipelineStage, row' = SetStage(e, s),
             s = "idle" \/ Handled(e) \/ Eligible(e)
      PROVE  RowMove(d)
  BY <1>0 DEF RowMove, SetStage, Update, RowOK, Rows
<1>1. ASSUME NEW e \in Downloads, row' = Fail(e) PROVE RowMove(d)
  BY <1>1 DEF RowMove, Fail, Update, RowOK, Rows
<1>2. ASSUME NEW e \in Downloads, row' = Delete(e)
      PROVE  /\ e # d => row'[d] = row[d]
             /\ e = d => row'[d].client = "deleted" /\ row'[d].stage = "idle" /\ row'[d].snap = row[d].snap
  BY <1>2 DEF Delete, RowOK, Rows
<1>3. CASE row' = row
  BY <1>3 DEF RowMove
<1>4. CASE WorkerStart \/ WorkerCommit
  <2>1. worker.d \in Downloads /\ Handled(worker.d)
    BY <1>4 DEF WorkerStart, WorkerCommit, WorkerT, Handled
  <2>2. QED
    BY <1>0, <1>4, <2>1 DEF WorkerStart, WorkerCommit, PipelineStage
<1>5. CASE WorkerFail
  BY <1>1, <1>5 DEF WorkerFail, WorkerT
<1>6. CASE StartupReset
  BY <1>6 DEF RowMove, StartupReset, RowOK, Rows
<1>7. ASSUME NEW e \in Downloads, MonitorComplete(e) \/ MonitorFail(e) PROVE RowMove(d)
  <2>1. e # d => row'[d] = row[d]
    BY <1>7 DEF MonitorComplete, MonitorFail, RowOK
  <2>2. QED
    BY <1>7, <2>1 DEF RowMove
<1>8. ASSUME NEW e \in Downloads, GateClaim(e) PROVE RowMove(d)
  BY <1>0, <1>3, <1>8 DEF GateClaim, Claimable, PipelineStage
<1>9. ASSUME NEW e \in Downloads, CancelWrite(e) \/ RejectWrite(e) PROVE RowMove(d)
  BY <1>1, <1>3, <1>9 DEF CancelWrite, RejectWrite
<1>10. ASSUME NEW e \in Downloads, ApproveWrite(e) PROVE RowMove(d)
  BY <1>0, <1>3, <1>10 DEF ApproveWrite, Handled, PipelineStage
<1>11. ASSUME NEW e \in Downloads, DeleteWrite(e) PROVE RowMove(d)
  BY <1>2, <1>11 DEF DeleteWrite, RowMove
<1>12. ASSUME NEW g \in Evaluators, GateHold(g) \/ GateAutoImport(g) PROVE RowMove(d)
  <2>1. gate[g].d \in Downloads /\ Handled(gate[g].d)
    BY <1>12 DEF GateHold, GateAutoImport, GateT, Handled
  <2>2. QED
    BY <1>0, <1>12, <2>1 DEF GateHold, GateAutoImport, PipelineStage
<1>13. ASSUME NEW g \in Evaluators, GateReject(g) PROVE RowMove(d)
  BY <1>1, <1>13 DEF GateReject, GateT
<1>14. ASSUME NEW r \in Runners, NEW e \in Downloads, RunnerClaim(r, e) PROVE RowMove(d)
  BY <1>0, <1>3, <1>14 DEF RunnerClaim, Claimable, PipelineStage
<1>15. ASSUME NEW b \in Books, SearchRetried(b) PROVE RowMove(d)
  <2>1. CASE search[b].by \in {"monitor", "operator"}
    <3>1. search[b].d \in Downloads /\ row' = Delete(search[b].d)
      BY <1>15, <2>1 DEF SearchRetried, SearchT
    <3>2. QED
      BY <1>2, <1>15, <2>1, <3>1 DEF RowMove
  <2>2. CASE search[b].by \notin {"monitor", "operator"}
    BY <1>3, <1>15, <2>2 DEF SearchRetried
  <2>3. QED
    BY <2>1, <2>2
<1>16. ASSUME NEW b \in Books, NEW e \in Downloads, GrabInsert(b, e) PROVE RowMove(d)
  <2>1. e # d => row'[d] = row[d]
    BY <1>16 DEF GrabInsert, RowOK
  <2>2. QED
    BY <1>16, <2>1 DEF RowMove
<1>17. QED
  BY <1>4, <1>5, <1>6, <1>7, <1>8, <1>9, <1>10, <1>11, <1>12, <1>13, <1>14, <1>15, <1>16 DEF RowAction

\* The parts of Handled
HandledByGate(d) == \E g \in Evaluators : gate[g].pc # "idle" /\ gate[g].d = d
HandledByBatch(d) == \E r \in Runners : run[r].pc = "import" /\ d \in run[r].todo
HandledByJob(d) == \/ \E b \in Books : (job[b].st # "none" /\ job[b].d = d) \/ lastFailed[b] = d
                   \/ worker.pc # "idle" /\ worker.d = d
HandledByOperator(d) == op[d].approve # "none"

\* They are all of it.
LEMMA HandledParts ==
  \A d : Handled(d) <=> \/ HandledByGate(d) \/ HandledByBatch(d)
                         \/ HandledByJob(d) \/ HandledByOperator(d)
  BY DEF Handled, HandledByGate, HandledByBatch, HandledByJob, HandledByOperator

\* An evaluation begins with the completion of its download, or with a claim of an eligible row.
LEMMA NewEvaluation ==
  ASSUME TypeInv, [Next]_vars, NEW d \in Downloads, ~HandledByGate(d), HandledByGate(d)'
  PROVE  Eligible(d) \/ MonitorComplete(d)
<1> USE DEF HandledByGate, TypeInv, GateT, Gates, NoGate, Evaluators
<1>1. CASE gate' = gate
  BY <1>1
<1>2. CASE Crash
  BY <1>2 DEF Crash
<1>3. ASSUME NEW e \in Downloads, MonitorComplete(e) PROVE MonitorComplete(d)
  <2>1. gate'[e].d = e /\ \A g \in Evaluators : g # e => gate'[g] = gate[g]
    BY <1>3 DEF MonitorComplete
  <2>2. e = d
    BY <2>1
  <2>3. QED
    BY <1>3, <2>2
<1>4. ASSUME NEW e \in Downloads, GateLoad(e) \/ GateClaim(e) \/ GateMarkBook(e) PROVE FALSE
  <2>1. CASE GateLoad(e)
    BY <2>1 DEF GateLoad
  <2>2. CASE GateClaim(e)
    BY <2>2 DEF GateClaim
  <2>3. CASE GateMarkBook(e)
    BY <2>3 DEF GateMarkBook
  <2>4. QED
    BY <1>4, <2>1, <2>2, <2>3
<1>5. ASSUME NEW g \in Evaluators, GateHold(g) \/ GateAutoImport(g) \/ GateReject(g) PROVE FALSE
  BY <1>5 DEF GateHold, GateAutoImport, GateReject
<1>6. ASSUME NEW g \in Evaluators, GateHeld(g) \/ GateEnqueue(g) \/ GateRejected(g) PROVE FALSE
  BY <1>6 DEF GateHeld, GateEnqueue, GateRejected
<1>7. ASSUME NEW r \in Runners, NEW e \in Downloads, RunnerClaim(r, e) PROVE Eligible(d)
  BY <1>7 DEF RunnerClaim, Claimable
<1>8. QED
  BY <1>1, <1>2, <1>3, <1>4, <1>5, <1>6, <1>7, GateFrame DEF GateStep

\* The actions that touch a batch
BatchStep == \/ Crash \/ StartupReset
             \/ \E r \in Runners : \/ RunnerSelect(r) \/ RunnerImports(r)
                                   \/ \E d \in Downloads : RunnerClaim(r, d) \/ RunnerEnqueue(r, d)

\* Nothing else does.
LEMMA BatchFrame == [Next]_vars => run' = run \/ BatchStep
  BY ZenonT(60) DEF BatchStep, vars, Next, MonitorPass, MonitorFailure, InlineGate, GateDecides, GateSettles,
     Batch, Searching, Grabbing, Worker, Operator, Operation, WorkerLoad, WorkerStart, WorkerCommit,
     WorkerFinalize, WorkerFail, WorkerRevert, WorkerMark, WorkerClaim, Cancel, CancelWrite, CancelRevert,
     Approve, ApproveWrite, ApproveEnqueue, Reject, RejectWrite, RejectSearch, RejectRevert, RetryDownload,
     RetryImport, DeleteHistory, DeleteWrite, SearchBegin, SearchFails, SearchDeadline, SearchRetried,
     GrabForRetry, GrabCapture, GrabCheck, GrabFails, GrabInsert, GrabMarkBook, MonitorPoll, MonitorSkip,
     MonitorComplete, MonitorFail, MonitorGiveUp, MonitorSearch, MonitorRecover, MonitorRevert, GateLoad,
     GateClaim, GateMarkBook, GateHold, GateAutoImport, GateReject, GateHeld, GateEnqueue, GateRejected, Boot

\* An import batch takes the rows that are eligible when it begins.
LEMMA NewBatch ==
  ASSUME TypeInv, [Next]_vars, NEW d \in Downloads, ~HandledByBatch(d), HandledByBatch(d)'
  PROVE  Eligible(d)
<1> USE DEF HandledByBatch, TypeInv, RunT, RunStates, NoRun
<1>1. CASE run' = run
  BY <1>1
<1>2. CASE Crash
  BY <1>2 DEF Crash
<1>3. CASE StartupReset
  BY <1>3 DEF StartupReset
<1>4. ASSUME NEW r \in Runners, RunnerSelect(r) PROVE FALSE
  BY <1>4 DEF RunnerSelect
<1>5. ASSUME NEW r \in Runners, RunnerImports(r) PROVE Eligible(d)
  BY <1>5 DEF RunnerImports
<1>6. ASSUME NEW r \in Runners, NEW e \in Downloads, RunnerClaim(r, e) \/ RunnerEnqueue(r, e) PROVE FALSE
  BY <1>6 DEF RunnerClaim, RunnerEnqueue
<1>7. QED
  BY <1>1, <1>2, <1>3, <1>4, <1>5, <1>6, BatchFrame DEF BatchStep

\* The newest failed job of a book changes with the jobs.
LEMMA LastFrame == [Next]_vars => lastFailed' = lastFailed \/ WorkerMark \/ Boot
  BY ZenonT(60) DEF vars, Next, MonitorPass, MonitorFailure, InlineGate, GateDecides, GateSettles,
     Batch, Searching, Grabbing, Worker, Operator, Operation, WorkerLoad, WorkerStart, WorkerCommit,
     WorkerFinalize, WorkerFail, WorkerRevert, WorkerClaim, Cancel, CancelWrite, CancelRevert,
     Approve, ApproveWrite, ApproveEnqueue, Reject, RejectWrite, RejectSearch, RejectRevert, RetryDownload,
     RetryImport, DeleteHistory, DeleteWrite, SearchBegin, SearchFails, SearchDeadline, SearchRetried,
     GrabForRetry, GrabCapture, GrabCheck, GrabFails, GrabInsert, GrabMarkBook, MonitorPoll, MonitorSkip,
     MonitorComplete, MonitorFail, MonitorGiveUp, MonitorSearch, MonitorRecover, MonitorRevert, GateLoad,
     GateClaim, GateMarkBook, GateHold, GateAutoImport, GateReject, GateHeld, GateEnqueue, GateRejected, Crash,
     RunnerSelect, RunnerImports, RunnerClaim, RunnerEnqueue, StartupReset

\* A job is about a row that somebody handled before: its evaluation, its batch, its approval, or an
\* earlier job that failed.
LEMMA NewJob ==
  ASSUME TypeInv, [Next]_vars, NEW d \in Downloads, HandledByJob(d)'
  PROVE  Handled(d)
<1> SUFFICES ASSUME ~Handled(d) PROVE FALSE
  OBVIOUS
<1>0. ~HandledByJob(d) /\ ~HandledByGate(d) /\ ~HandledByBatch(d) /\ ~HandledByOperator(d)
  BY HandledParts
<1> USE DEF HandledByJob, TypeInv, JobT, Jobs, WorkerT, WorkerStates
<1>1. CASE UNCHANGED <<job, worker, lastFailed>>
  BY <1>0, <1>1
<1>2. ASSUME UNCHANGED lastFailed, WorkerLoad \/ WorkerStart \/ WorkerCommit \/ WorkerFail \/ WorkerRevert
      PROVE  FALSE
  BY <1>0, <1>2 DEF WorkerLoad, WorkerStart, WorkerCommit, WorkerFail, WorkerRevert
<1>3. ASSUME UNCHANGED lastFailed, WorkerFinalize PROVE FALSE
  BY <1>0, <1>3 DEF WorkerFinalize, NoJob, NoWorker
<1>4. CASE WorkerMark
  BY <1>0, <1>4 DEF WorkerMark, NoJob, NoWorker, LastT
<1>5. CASE Crash
  BY <1>0, <1>5 DEF Crash, NoWorker
<1>6. CASE Boot
  BY <1>0, <1>6 DEF Boot, Orphaned, Requeued, NoJob
<1>7. ASSUME NEW b \in Books, WorkerClaim(b) PROVE FALSE
  BY <1>0, <1>7 DEF WorkerClaim
<1>8. ASSUME NEW b \in Books, RetryImport(b) PROVE FALSE
  BY <1>0, <1>8 DEF RetryImport
<1>9. ASSUME UNCHANGED <<worker, lastFailed>>, NEW e \in Downloads, e # d, job' = Enqueue(e) PROVE FALSE
  BY <1>0, <1>9, BookOfAssumption DEF Enqueue
<1>10. ASSUME NEW e \in Downloads, ApproveEnqueue(e) PROVE FALSE
  BY <1>0, <1>9, <1>10 DEF ApproveEnqueue, HandledByOperator
<1>11. ASSUME NEW r \in Runners, NEW e \in Downloads, RunnerEnqueue(r, e) PROVE FALSE
  BY <1>0, <1>9, <1>11 DEF RunnerEnqueue, HandledByBatch
<1>12. ASSUME NEW g \in Evaluators, GateEnqueue(g) PROVE FALSE
  <2>1. gate[g].d \in Downloads /\ gate[g].d # d
    BY <1>0, <1>12 DEF GateEnqueue, GateT, HandledByGate
  <2>2. UNCHANGED <<worker, lastFailed>> /\ (job' = job \/ job' = Enqueue(gate[g].d))
    BY <1>12 DEF GateEnqueue
  <2>3. QED
    BY <1>0, <1>9, <2>1, <2>2
<1>13. QED
  BY <1>1, <1>2, <1>3, <1>4, <1>5, <1>6, <1>7, <1>8, <1>10, <1>11, <1>12, JobFrame, LastFrame DEF JobStep

\* The actions that touch a request in flight
RequestStep ==
  \/ Crash
  \/ \E d \in Downloads : \/ Cancel(d) \/ CancelWrite(d) \/ CancelRevert(d) \/ Approve(d) \/ ApproveWrite(d)
                          \/ ApproveEnqueue(d) \/ Reject(d) \/ RejectWrite(d) \/ RejectSearch(d)
                          \/ RejectRevert(d) \/ DeleteHistory(d) \/ DeleteWrite(d)

\* Nothing else does.
LEMMA RequestFrame == [Next]_vars => op' = op \/ RequestStep
  BY ZenonT(60) DEF RequestStep, vars, Next, MonitorPass, MonitorFailure, InlineGate, GateDecides, GateSettles,
     Batch, Searching, Grabbing, Worker, Operator, Operation, WorkerLoad, WorkerStart, WorkerCommit,
     WorkerFinalize, WorkerFail, WorkerRevert, WorkerMark, WorkerClaim, RetryDownload,
     RetryImport, SearchBegin, SearchFails, SearchDeadline, SearchRetried,
     GrabForRetry, GrabCapture, GrabCheck, GrabFails, GrabInsert, GrabMarkBook, MonitorPoll, MonitorSkip,
     MonitorComplete, MonitorFail, MonitorGiveUp, MonitorSearch, MonitorRecover, MonitorRevert, GateLoad,
     GateClaim, GateMarkBook, GateHold, GateAutoImport, GateReject, GateHeld, GateEnqueue, GateRejected, Boot,
     RunnerSelect, RunnerImports, RunnerClaim, RunnerEnqueue, StartupReset

\* Only a request for an approval is new on a row; the row waits for review.
LEMMA NewApproval ==
  ASSUME TypeInv, [Next]_vars, NEW d \in Downloads, ~HandledByOperator(d), HandledByOperator(d)'
  PROVE  row[d].stage = "pending_review"
<1> USE DEF HandledByOperator, TypeInv, OpT, Ops
<1>1. CASE op' = op
  BY <1>1
<1>2. CASE Crash
  BY <1>2 DEF Crash, NoOp
<1>3. ASSUME NEW e \in Downloads, Approve(e) PROVE row[d].stage = "pending_review"
  BY <1>3 DEF Approve
<1>4. ASSUME NEW e \in Downloads, \/ Cancel(e) \/ CancelWrite(e) \/ CancelRevert(e) \/ ApproveWrite(e)
                                  \/ ApproveEnqueue(e) \/ DeleteHistory(e) \/ DeleteWrite(e)
      PROVE  FALSE
  BY <1>4 DEF Cancel, CancelWrite, CancelRevert, ApproveWrite, ApproveEnqueue, DeleteHistory, DeleteWrite
<1>5. ASSUME NEW e \in Downloads, Reject(e) \/ RejectWrite(e) \/ RejectSearch(e) \/ RejectRevert(e) PROVE FALSE
  BY <1>5 DEF Reject, RejectWrite, RejectSearch, RejectRevert
<1>6. QED
  BY <1>1, <1>2, <1>3, <1>4, <1>5, RequestFrame DEF RequestStep

\* The client axis never goes back to downloading, and nothing undeletes a row.
LEMMA ClientMoves ==
  ASSUME TypeInv, NEW d \in Downloads, RowMove(d)
  PROVE  /\ Fresh(d)' => Fresh(d)
         /\ row[d].client \in {"failed", "deleted"} => row'[d].client \in {"failed", "deleted"}
  BY DEF RowMove, Fresh, MonitorComplete, MonitorFail, MonitorLands, Polled, GrabInsert, TypeInv, RowT, RowOK,
         Rows, Exists

\* A row that nobody handles and that is not eligible stays idle, and nobody takes hold of it.
LEMMA UntouchedStep ==
  ASSUME TypeInv, [Next]_vars, NEW d \in Downloads, Untouched(d), ~Eligible(d), ~MonitorComplete(d)
  PROVE  Untouched(d)'
<1>1. ~HandledByGate(d) /\ ~HandledByBatch(d) /\ ~HandledByJob(d) /\ ~HandledByOperator(d) /\ row[d].stage = "idle"
  BY HandledParts DEF Untouched
<1>2. ~HandledByGate(d)' /\ ~HandledByBatch(d)' /\ ~HandledByJob(d)' /\ ~HandledByOperator(d)'
  BY <1>1, NewEvaluation, NewBatch, NewJob, NewApproval DEF Untouched
<1>3. row'[d].stage = "idle"
  <2>1. CASE row' = row
    BY <1>1, <2>1
  <2>2. CASE RowAction
    <3>1. RowMove(d)
      BY <2>2, RowMoves
    <3>2. QED
      BY <1>1, <3>1 DEF RowMove, Untouched, MonitorFail, GrabInsert, TypeInv, RowT, RowOK, Rows
  <2>3. QED
    BY <2>1, <2>2, RowFrame
<1>4. QED
  BY <1>2, <1>3 DEF Untouched, Handled, HandledByGate, HandledByBatch, HandledByJob, HandledByOperator

\* The pipeline keeps its hands off a row that was replaced.
LEMMA HandsOffPipeline ==
  TypeInv /\ HandsOff /\ [Next]_vars /\ replaced \subseteq Downloads /\ UNCHANGED replaced => HandsOff'
<1> SUFFICES ASSUME TypeInv, HandsOff, [Next]_vars, replaced \subseteq Downloads, UNCHANGED replaced
             PROVE  HandsOff'
  OBVIOUS
<1>1. ASSUME NEW d \in Downloads
      PROVE  /\ Fresh(d)' => Fresh(d)
             /\ row[d].client \in {"failed", "deleted"} => row'[d].client \in {"failed", "deleted"}
  <2>1. CASE row' = row
    BY <2>1 DEF Fresh
  <2>2. CASE RowAction
    BY <2>2, RowMoves, ClientMoves
  <2>3. QED
    BY <2>1, <2>2, RowFrame
<1>2. ASSUME NEW d \in Downloads, Fresh(d)' \/ d \in replaced PROVE Untouched(d)'
  <2>1. Untouched(d) /\ ~Eligible(d)
    BY <1>1, <1>2 DEF HandsOff, Fresh, Eligible
  <2>2. ~MonitorComplete(d)
    <3>1. SUFFICES ASSUME MonitorComplete(d) PROVE FALSE
      OBVIOUS
    <3>2. Polled(d) /\ row'[d].client = "completed"
      BY <3>1 DEF MonitorComplete, MonitorLands, TypeInv, RowT, RowOK, Rows
    <3>3. QED
      BY <1>2, <3>2 DEF HandsOff, Fresh, Polled
  <2>3. QED
    BY <2>1, <2>2, UntouchedStep
<1>3. QED
  BY <1>1, <1>2 DEF HandsOff

\* A claim takes rows that are still with the client: nobody handles them, and nobody will.
LEMMA HandsOffClaim == ASSUME TypeInv, ReplaceT, HandsOff, NEW r \in Releases, Claim(r) PROVE HandsOff'
<1>1. UNCHANGED <<job, lastFailed, gate, run, op, worker>> /\ replaced' = replaced \cup replace[r].targets
  BY DEF Claim
<1>2. \A d \in Downloads : Handled(d)' <=> Handled(d)
  BY <1>1 DEF Handled
<1>3. replace[r].targets \subseteq Downloads /\ replaced \subseteq Downloads
  BY DEF ReplaceT, RowsOf
<1>4. \A d \in replace[r].targets : Untouched(d) /\ row'[d].client = "failed" /\ row'[d].stage = "idle"
  <2> TAKE d \in replace[r].targets
  <2>1. d \in Downloads /\ row[d] \in Rows
    BY <1>3 DEF TypeInv, RowT, RowOK
  <2>2. Polled(d) /\ row'[d] = [row[d] EXCEPT !.client = "failed", !.stage = "idle"]
    BY <2>1, ClaimWrites
  <2>3. QED
    BY <2>1, <2>2 DEF HandsOff, Fresh, Polled, Rows
<1>5. \A d \in Downloads : d \notin replace[r].targets => row'[d] = row[d]
  BY ClaimWrites
<1>6. QED
  BY <1>1, <1>2, <1>3, <1>4, <1>5 DEF HandsOff, Fresh, Untouched

\* No step of the whole lays hands on a row that is fresh or replaced.
LEMMA HandsOffStep == Base /\ HandsOff /\ [ReplaceNext]_allVars => HandsOff'
<1> SUFFICES ASSUME Base, HandsOff, [ReplaceNext]_allVars PROVE HandsOff'
  OBVIOUS
<1> USE DEF Base, IndInv
<1>1. CASE Pipeline
  BY <1>1, HandsOffPipeline DEF Pipeline, ReplaceT
<1>2. CASE UNCHANGED allVars
  BY <1>2, HandsOffPipeline DEF allVars, replaceVars, ReplaceT
<1>3. ASSUME NEW r \in Releases, Looks(r) PROVE HandsOff'
  BY <1>3, HandsOffPipeline DEF Looks, Replace, Gather, ClaimMisses, Missed, ReplaceT
<1>4. ASSUME NEW r \in Releases, Claim(r) PROVE HandsOff'
  BY <1>4, HandsOffClaim
<1>5. ASSUME NEW r \in Releases, Regrabs(r) \/ Revert(r) PROVE HandsOff'
  <2>1. UNCHANGED <<row, job, lastFailed, gate, run, op, worker, replaced>>
    BY <1>5 DEF Regrabs, GrabOrdinary, GrabReplacement, LoseMark, Revert
  <2>2. QED
    BY <2>1 DEF HandsOff, Fresh, Untouched, Handled
<1>6. QED
  BY <1>1, <1>2, <1>3, <1>4, <1>5, ReplaceSteps

\* Nothing is handled before anything was grabbed.
LEMMA HandsOffInit == ReplaceInit => HandsOff
<1> SUFFICES ASSUME ReplaceInit PROVE HandsOff
  OBVIOUS
<1>1. /\ row = [d \in Downloads |-> [client |-> "absent", stage |-> "idle", snap |-> "wanted"]]
      /\ job = [b \in Books |-> NoJob] /\ lastFailed = [b \in Books |-> None]
      /\ gate = [g \in Evaluators |-> NoGate] /\ run = [r \in Runners |-> NoRun]
      /\ op = [d \in Downloads |-> NoOp] /\ worker = NoWorker /\ replaced = {}
  BY DEF ReplaceInit, Init
<1>2. QED
  BY <1>1, NoneAssumption DEF HandsOff, Fresh, Untouched, Handled, NoJob, NoGate, NoRun, NoOp, NoWorker

\* A download that a confirmed replacement has claimed is over for good: no completion the monitor saw,
\* no verdict, no approval, no retried or interrupted import and no restart brings it back.  Whatever the
\* operator, the batches and the crashes do: the claim compares the rows it was told to replace, and a
\* row that still is what it was has never been in anybody else's hands.
THEOREM ReplacedStaysOver == ReplaceSpec => []ReplacedIsOver
<1>1. Base /\ HandsOff => ReplacedIsOver
  BY DEF Base, ReplaceT, HandsOff, Untouched, ReplacedIsOver
<1>2. QED
  BY <1>1, BaseInit, BaseStep, HandsOffInit, HandsOffStep, ReplaceSafety, PTL

-----------------------------------------------------------------------------
(* Books and their files *)

\* The actions that write a book
BookStep ==
  \/ MonitorRevert \/ WorkerCommit \/ WorkerRevert \/ WorkerMark
  \/ \E d \in Downloads : GateMarkBook(d) \/ CancelRevert(d) \/ RejectRevert(d)
  \/ \E g \in Evaluators : GateHeld(g) \/ GateRejected(g)
  \/ \E b \in Books : GrabMarkBook(b) \/ RetryImport(b)

\* Nothing else does.
LEMMA BookFrame == [Next]_vars => book' = book \/ BookStep
  BY ZenonT(60) DEF BookStep, vars, Next, MonitorPass, MonitorFailure, InlineGate, GateDecides,
     GateSettles, Batch, Searching, Grabbing, Worker, Operator, Operation, MonitorPoll, MonitorSkip,
     MonitorComplete, MonitorFail, MonitorGiveUp, MonitorSearch, MonitorRecover, GateLoad,
     GateClaim, GateHold, GateAutoImport, GateReject, GateEnqueue, RunnerSelect, RunnerClaim,
     RunnerImports, RunnerEnqueue, SearchBegin, SearchFails, SearchDeadline, GrabForRetry,
     GrabCapture, GrabCheck, GrabFails, GrabInsert, SearchRetried, WorkerClaim, WorkerLoad,
     WorkerStart, WorkerFinalize, WorkerFail, Cancel, CancelWrite, Approve, ApproveWrite,
     ApproveEnqueue, Reject, RejectWrite, RejectSearch, RetryDownload, DeleteHistory, DeleteWrite,
     Crash, Boot, StartupReset

\* The actions that touch a grab
GrabStep ==
  \/ Crash
  \/ \E b \in Books : \/ SearchFails(b) \/ GrabForRetry(b) \/ GrabCapture(b) \/ GrabCheck(b) \/ GrabFails(b)
                      \/ GrabMarkBook(b) \/ \E d \in Downloads : GrabInsert(b, d)

\* Nothing else does.
LEMMA GrabFrame == [Next]_vars => grab' = grab \/ GrabStep
  BY ZenonT(60) DEF GrabStep, vars, Next, MonitorPass, MonitorFailure, InlineGate, GateDecides,
     GateSettles, Batch, Searching, Grabbing, Worker, Operator, Operation, MonitorPoll, MonitorSkip,
     MonitorComplete, MonitorFail, MonitorGiveUp, MonitorSearch, MonitorRecover, MonitorRevert,
     GateLoad, GateClaim, GateMarkBook, GateHold, GateAutoImport, GateReject, GateHeld, GateEnqueue,
     GateRejected, RunnerSelect, RunnerClaim, RunnerImports, RunnerEnqueue, SearchBegin,
     SearchDeadline, SearchRetried, WorkerClaim, WorkerLoad, WorkerStart, WorkerCommit,
     WorkerFinalize, WorkerFail, WorkerRevert, WorkerMark, Cancel, CancelWrite, CancelRevert,
     Approve, ApproveWrite, ApproveEnqueue, Reject, RejectWrite, RejectSearch, RejectRevert,
     RetryDownload, RetryImport, DeleteHistory, DeleteWrite, Boot, StartupReset

\* The actions that touch a search
SearchStep ==
  \/ Crash \/ MonitorSearch \/ WorkerRevert
  \/ \E g \in Evaluators : GateRejected(g)
  \/ \E d \in Downloads : RejectSearch(d) \/ RetryDownload(d)
  \/ \E b \in Books : \/ SearchBegin(b) \/ SearchFails(b) \/ SearchDeadline(b) \/ GrabForRetry(b)
                      \/ GrabMarkBook(b) \/ SearchRetried(b)

\* Nothing else does.
LEMMA SearchFrame == [Next]_vars => search' = search \/ SearchStep
  BY ZenonT(60) DEF SearchStep, vars, Next, MonitorPass, MonitorFailure, InlineGate, GateDecides,
     GateSettles, Batch, Searching, Grabbing, Worker, Operator, Operation, MonitorPoll, MonitorSkip,
     MonitorComplete, MonitorFail, MonitorGiveUp, MonitorRecover, MonitorRevert, GateLoad,
     GateClaim, GateMarkBook, GateHold, GateAutoImport, GateReject, GateHeld, GateEnqueue,
     RunnerSelect, RunnerClaim, RunnerImports, RunnerEnqueue, GrabCapture, GrabCheck, GrabFails,
     GrabInsert, WorkerClaim, WorkerLoad, WorkerStart, WorkerCommit, WorkerFinalize, WorkerFail,
     WorkerMark, Cancel, CancelWrite, CancelRevert, Approve, ApproveWrite, ApproveEnqueue, Reject,
     RejectWrite, RejectRevert, RetryImport, DeleteHistory, DeleteWrite, Boot, StartupReset

\* The requests are counted.
Counts ==
  \/ Crash \/ \E b \in Books : RetryImport(b)
  \/ \E d \in Downloads : Cancel(d) \/ Approve(d) \/ Reject(d) \/ RetryDownload(d) \/ DeleteHistory(d)

\* Nothing else is.
LEMMA CountFrame == [Next]_vars => used' = used \/ Counts
  BY ZenonT(60) DEF Counts, vars, Next, MonitorPass, MonitorFailure, InlineGate, GateDecides,
     GateSettles, Batch, Searching, Grabbing, Worker, Operator, Operation, MonitorPoll, MonitorSkip,
     MonitorComplete, MonitorFail, MonitorGiveUp, MonitorSearch, MonitorRecover, MonitorRevert,
     GateLoad, GateClaim, GateMarkBook, GateHold, GateAutoImport, GateReject, GateHeld, GateEnqueue,
     GateRejected, RunnerSelect, RunnerClaim, RunnerImports, RunnerEnqueue, SearchBegin,
     SearchFails, SearchDeadline, GrabForRetry, GrabCapture, GrabCheck, GrabFails, GrabInsert,
     GrabMarkBook, SearchRetried, WorkerClaim, WorkerLoad, WorkerStart, WorkerCommit,
     WorkerFinalize, WorkerFail, WorkerRevert, WorkerMark, CancelWrite, CancelRevert, ApproveWrite,
     ApproveEnqueue, RejectWrite, RejectSearch, RejectRevert, DeleteWrite, Boot, StartupReset

\* The actions that touch the monitor
MonStep ==
  \/ MonitorPoll \/ MonitorGiveUp \/ MonitorSearch \/ MonitorRecover \/ MonitorRevert \/ Crash
  \/ \E d \in Downloads : MonitorSkip(d) \/ MonitorComplete(d) \/ MonitorFail(d)
  \/ \E b \in Books : SearchFails(b) \/ GrabForRetry(b) \/ SearchRetried(b) \/ SearchDeadline(b)

\* Nothing else does.
LEMMA MonFrame == [Next]_vars => mon' = mon \/ MonStep
  BY ZenonT(60) DEF MonStep, vars, Next, MonitorPass, MonitorFailure, InlineGate, GateDecides,
     GateSettles, Batch, Searching, Grabbing, Worker, Operator, Operation, GateLoad, GateClaim,
     GateMarkBook, GateHold, GateAutoImport, GateReject, GateHeld, GateEnqueue, GateRejected,
     RunnerSelect, RunnerClaim, RunnerImports, RunnerEnqueue, SearchBegin, GrabCapture, GrabCheck,
     GrabFails, GrabInsert, GrabMarkBook, WorkerClaim, WorkerLoad, WorkerStart, WorkerCommit,
     WorkerFinalize, WorkerFail, WorkerRevert, WorkerMark, Cancel, CancelWrite, CancelRevert,
     Approve, ApproveWrite, ApproveEnqueue, Reject, RejectWrite, RejectSearch, RejectRevert,
     RetryDownload, RetryImport, DeleteHistory, DeleteWrite, Boot, StartupReset

\* Jobs, the worker and searches are about rows of their book
Belongs ==
  /\ \A b \in Books : job[b].st # "none" => BookOf[job[b].d] = b
  /\ \A b \in Books : lastFailed[b] # None => BookOf[lastFailed[b]] = b
  /\ worker.pc # "idle" => BookOf[worker.d] = worker.b
  /\ \A b \in Books : search[b].d # None => BookOf[search[b].d] = b

\* A search that the monitor asks for is about the download it is recovering.
LEMMA MonitorAsks ==
  ASSUME SearchT, MonitorSearch
  PROVE  \A b \in Books : \/ search'[b] = search[b]
                          \/ search'[b].d = mon.d /\ search'[b].by = "monitor" /\ b = BookOf[mon.d]
<1>1. CASE search' = search
  BY <1>1
<1>2. ASSUME NEW b, b = BookOf[mon.d],
             search' = [search EXCEPT ![b].pc = "searching", ![b].by = "monitor", ![b].d = mon.d]
      PROVE  \A c \in Books : \/ search'[c] = search[c]
                              \/ search'[c].d = mon.d /\ search'[c].by = "monitor" /\ c = b
  <2>1. search \in [Books -> Searches]
    BY DEF SearchT
  <2>2. \A c \in Books : search'[c] =
          IF c = b THEN [search[c] EXCEPT !.pc = "searching", !.by = "monitor", !.d = mon.d] ELSE search[c]
    BY <1>2, <2>1
  <2>3. QED
    BY <2>1, <2>2 DEF Searches
<1>3. QED
  BY <1>1, <1>2 DEF MonitorSearch

\* The worker may ask for a search, and leaves the one that runs alone.
LEMMA WorkerRevertAsks ==
  ASSUME SearchT, WorkerRevert, NEW b \in Books
  PROVE  search'[b].by = search[b].by /\ search'[b].d = search[b].d
<1>1. PICK content \in BOOLEAN : search' = [search EXCEPT ![worker.b].asked = @ \/ content]
  BY DEF WorkerRevert
<1>2. QED
  BY <1>1 DEF SearchT, Searches

\* A job is enqueued for the book of its row, and claimed, retried and recovered with it.
LEMMA BelongsStep == TypeInv /\ Belongs /\ [Next]_vars => Belongs'
<1> SUFFICES ASSUME TypeInv, Belongs, [Next]_vars PROVE Belongs'
  OBVIOUS
<1> USE DEF TypeInv
<1>1. /\ (\A b \in Books : job[b].st # "none" => BookOf[job[b].d] = b)'
      /\ (\A b \in Books : lastFailed[b] # None => BookOf[lastFailed[b]] = b)'
      /\ (worker.pc # "idle" => BookOf[worker.d] = worker.b)'
  <2> DEFINE J == /\ \A b \in Books : job'[b].st # "none" => BookOf[job'[b].d] = b
                  /\ \A b \in Books : lastFailed'[b] # None => BookOf[lastFailed'[b]] = b
                  /\ worker'.pc # "idle" => BookOf[worker'.d] = worker'.b
  <2> SUFFICES J
    OBVIOUS
  <2> USE DEF Belongs, JobT, Jobs, WorkerT, WorkerStates, LastT
  <2>1. CASE UNCHANGED <<job, worker, lastFailed>>
    BY <2>1
  <2>2. ASSUME UNCHANGED lastFailed, WorkerLoad \/ WorkerStart \/ WorkerCommit \/ WorkerFail \/ WorkerRevert
        PROVE  J
    BY <2>2 DEF WorkerLoad, WorkerStart, WorkerCommit, WorkerFail, WorkerRevert
  <2>3. ASSUME UNCHANGED lastFailed, WorkerFinalize PROVE J
    BY <2>3 DEF WorkerFinalize, NoJob, NoWorker
  <2>4. CASE WorkerMark
    BY <2>4 DEF WorkerMark, NoJob, NoWorker
  <2>5. CASE Crash
    BY <2>5 DEF Crash, NoWorker
  <2>6. CASE Boot
    BY <2>6 DEF Boot, Orphaned, Requeued, NoJob
  <2>7. ASSUME NEW b \in Books, WorkerClaim(b) \/ RetryImport(b) PROVE J
    BY <2>7 DEF WorkerClaim, RetryImport
  <2>8. ASSUME UNCHANGED <<worker, lastFailed>>, NEW e \in Downloads, job' = Enqueue(e) PROVE J
    BY <2>8, BookOfAssumption DEF Enqueue
  <2>9. ASSUME NEW e \in Downloads, ApproveEnqueue(e) \/ \E r \in Runners : RunnerEnqueue(r, e) PROVE J
    BY <2>8, <2>9 DEF ApproveEnqueue, RunnerEnqueue
  <2>10. ASSUME NEW g \in Evaluators, GateEnqueue(g) PROVE J
    <3>1. gate[g].d \in Downloads
      BY <2>10 DEF GateEnqueue, GateT
    <3>2. UNCHANGED <<worker, lastFailed>> /\ (job' = job \/ job' = Enqueue(gate[g].d))
      BY <2>10 DEF GateEnqueue
    <3>3. QED
      BY <2>1, <2>8, <3>1, <3>2
  <2>11. QED
    BY <2>1, <2>2, <2>3, <2>4, <2>5, <2>6, <2>7, <2>9, <2>10, JobFrame, LastFrame DEF JobStep
<1>2. (\A b \in Books : search[b].d # None => BookOf[search[b].d] = b)'
  <2> DEFINE S == \A b \in Books : search'[b].d # None => BookOf[search'[b].d] = b
  <2> SUFFICES S
    OBVIOUS
  <2> USE DEF Belongs, SearchT, Searches, NoSearch
  <2>1. CASE search' = search
    BY <2>1
  <2>2. CASE Crash
    BY <2>2 DEF Crash
  <2>9. CASE WorkerRevert
    BY <2>9, WorkerRevertAsks
  <2>3. CASE MonitorSearch
    BY <2>3, MonitorAsks
  <2>4. ASSUME NEW g \in Evaluators, GateRejected(g) PROVE S
    BY <2>4 DEF GateRejected
  <2>5. ASSUME NEW d \in Downloads, RejectSearch(d) \/ RetryDownload(d) PROVE S
    BY <2>5 DEF RejectSearch, RetryDownload
  <2>6. ASSUME NEW c \in Books, SearchBegin(c) \/ SearchDeadline(c) \/ GrabMarkBook(c) PROVE S
    BY <2>6 DEF SearchBegin, SearchDeadline, GrabMarkBook
  <2>7. ASSUME NEW c \in Books, SearchFails(c) \/ GrabForRetry(c) \/ SearchRetried(c) PROVE S
    BY <2>7 DEF SearchFails, GrabForRetry, SearchRetried, SearchOver
  <2>8. QED
    BY <2>1, <2>2, <2>3, <2>4, <2>5, <2>6, <2>7, <2>9, SearchFrame DEF SearchStep
<1>3. QED
  BY <1>1, <1>2 DEF Belongs

\* The history was never cut, and nothing was retried by hand
Kept == used["delete"] = 0 /\ used["retry"] = 0

\* Whatever may become the status of a book is imported only if the book has files: what the grab of the
\* book carries, what its rows say, what a workflow would put back.  The monitor needs its row until it
\* has reverted the book: a missing row counts as imported.
Files ==
  /\ \A b \in Books : book[b].status = "imported" \/ grab[b].snap = "imported" => book[b].path
  /\ \A d \in Downloads : row[d].snap = "imported" => book[BookOf[d]].path
  /\ \A r \in Releases : replace[r].snap = "imported" => book[ReleaseOf[r]].path
\* Who writes a book for a row still finds the row: nobody deletes and nobody retries by hand
RowKept ==
  /\ mon.pc # "idle" => Exists(mon.d)
  /\ \A d \in Downloads : ~op[d].delete
  /\ \A b \in Books : search[b].by # "operator"

\* A count never falls.
LEMMA KeptBefore ==
  ASSUME TypeInv, [Next]_vars, Kept'
  PROVE  /\ Kept
         /\ \A b \in Books : ~RetryImport(b)
         /\ \A d \in Downloads : ~RetryDownload(d) /\ ~DeleteHistory(d)
<1> USE DEF TypeInv, UsedT, Kept
<1>1. \A b \in Books : ~RetryImport(b)
  <2>1. \A b \in Books : RetryImport(b) => used'["retry"] = used["retry"] + 1
    BY DEF RetryImport, Request
  <2>2. QED
    BY <2>1
<1>2. \A d \in Downloads : ~RetryDownload(d) /\ ~DeleteHistory(d)
  <2>1. \A d \in Downloads : RetryDownload(d) => used'["retry"] = used["retry"] + 1
    BY DEF RetryDownload, Request
  <2>2. \A d \in Downloads : DeleteHistory(d) => used'["delete"] = used["delete"] + 1
    BY DEF DeleteHistory, Request
  <2>3. QED
    BY <2>1, <2>2
<1>3. Kept
  <2>1. CASE used' = used \/ Crash
    BY <2>1 DEF Crash
  <2>2. ASSUME NEW d \in Downloads, Cancel(d) \/ Approve(d) \/ Reject(d)
        PROVE  UNCHANGED <<used["delete"], used["retry"]>>
    BY <2>2 DEF Cancel, Approve, Reject, Request
  <2>3. QED
    BY <1>1, <1>2, <2>1, <2>2, CountFrame DEF Counts
<1>4. QED
  BY <1>1, <1>2, <1>3

\* The monitor turns to a row when it fails it, and to no other before it is done with it.
LEMMA MonitorTurns ==
  ASSUME TypeInv, [Next]_vars, mon'.pc # "idle"
  PROVE  (mon'.d = mon.d /\ mon.pc # "idle") \/ \E d \in Downloads : MonitorFail(d)
<1> USE DEF TypeInv, MonT, MonStates
<1>1. CASE mon' = mon
  BY <1>1
<1>2. CASE MonitorPoll \/ MonitorGiveUp \/ MonitorSearch \/ MonitorRecover \/ MonitorRevert
  BY <1>2 DEF MonitorPoll, MonitorGiveUp, MonitorSearch, MonitorRecover, MonitorRevert, MonitorDone
<1>3. CASE Crash
  BY <1>3 DEF Crash, NoMon
<1>4. ASSUME NEW d \in Downloads, MonitorSkip(d) \/ MonitorComplete(d) PROVE FALSE
  BY <1>4 DEF MonitorSkip, MonitorComplete
<1>5. ASSUME NEW b \in Books, SearchFails(b) \/ GrabForRetry(b) \/ SearchRetried(b) \/ SearchDeadline(b)
      PROVE  mon'.d = mon.d /\ mon.pc # "idle"
  BY <1>5 DEF SearchFails, GrabForRetry, SearchRetried, SearchDeadline, Resume, MonitorAwaits, AwaitT
<1>6. QED
  BY <1>1, <1>2, <1>3, <1>4, <1>5, MonFrame DEF MonStep

\* The monitor works on a row that is there: only the search it waits for deletes it, and then it is done.
LEMMA RowKeptStep ==
  ASSUME TypeInv, RowKept, [Next]_vars, Kept'
  PROVE  RowKept'
<1> USE DEF TypeInv
<1>1. \A d \in Downloads : ~op'[d].delete
  <2> USE DEF RowKept, OpT, Ops, NoOp
  <2>1. CASE op' = op
    BY <2>1
  <2>2. CASE Crash
    BY <2>2 DEF Crash
  <2>3. ASSUME NEW e \in Downloads,
               \/ Cancel(e) \/ CancelWrite(e) \/ CancelRevert(e)
               \/ Approve(e) \/ ApproveWrite(e) \/ ApproveEnqueue(e)
        PROVE  \A d \in Downloads : op'[d].delete = op[d].delete
    BY <2>3 DEF Cancel, CancelWrite, CancelRevert, Approve, ApproveWrite, ApproveEnqueue
  <2>4. ASSUME NEW e \in Downloads, Reject(e) \/ RejectWrite(e) \/ RejectSearch(e) \/ RejectRevert(e)
        PROVE  \A d \in Downloads : op'[d].delete = op[d].delete
    BY <2>4 DEF Reject, RejectWrite, RejectSearch, RejectRevert
  <2>5. ASSUME NEW e \in Downloads, DeleteHistory(e) \/ DeleteWrite(e) PROVE FALSE
    BY <2>5, KeptBefore DEF DeleteWrite
  <2>6. QED
    BY <2>1, <2>2, <2>3, <2>4, <2>5, RequestFrame DEF RequestStep
<1>2. \A b \in Books : search'[b].by # "operator"
  <2> USE DEF RowKept, SearchT, Searches, NoSearch
  <2>1. CASE search' = search
    BY <2>1
  <2>2. CASE Crash
    BY <2>2 DEF Crash
  <2>3. CASE MonitorSearch
    BY <2>3, MonitorAsks
  <2>9. CASE WorkerRevert
    BY <2>9, WorkerRevertAsks
  <2>4. ASSUME NEW g \in Evaluators, GateRejected(g) PROVE \A b \in Books : search'[b].by # "operator"
    BY <2>4 DEF GateRejected
  <2>5. ASSUME NEW d \in Downloads, RejectSearch(d) \/ RetryDownload(d)
        PROVE  \A b \in Books : search'[b].by # "operator"
    BY <2>5, KeptBefore DEF RejectSearch
  <2>6. ASSUME NEW c \in Books, SearchBegin(c) \/ SearchDeadline(c) \/ GrabMarkBook(c)
        PROVE  \A b \in Books : search'[b].by # "operator"
    BY <2>6 DEF SearchBegin, SearchDeadline, GrabMarkBook
  <2>7. ASSUME NEW c \in Books, SearchFails(c) \/ GrabForRetry(c) \/ SearchRetried(c)
        PROVE  \A b \in Books : search'[b].by # "operator"
    BY <2>7 DEF SearchFails, GrabForRetry, SearchRetried, SearchOver
  <2>8. QED
    BY <2>1, <2>2, <2>3, <2>4, <2>5, <2>6, <2>7, <2>9, SearchFrame DEF SearchStep
<1>3. mon'.pc # "idle" => Exists(mon.d)'
  <2> SUFFICES ASSUME mon'.pc # "idle" PROVE Exists(mon.d)'
    OBVIOUS
  <2>1. (mon'.d = mon.d /\ mon.pc # "idle") \/ \E d \in Downloads : MonitorFail(d)
    BY MonitorTurns
  <2>2. CASE \E d \in Downloads : MonitorFail(d)
    BY <2>2 DEF MonitorFail, RowT, RowOK, Rows, Exists
  <2>3. CASE mon'.d = mon.d /\ mon.pc # "idle"
    <3>1. mon.d \in Downloads /\ Exists(mon.d)
      BY <2>3 DEF RowKept, MonT
    <3>2. CASE row' = row
      BY <2>3, <3>1, <3>2 DEF Exists
    <3>3. CASE RowAction
      <4>1. RowMove(mon.d)
        BY <3>1, <3>3, RowMoves
      <4>2. ~DeleteWrite(mon.d)
        BY <3>1 DEF RowKept, DeleteWrite
      <4>3. ASSUME NEW b \in Books, SearchRetried(b), search[b].by \in {"monitor", "operator"} PROVE FALSE
        BY <4>3 DEF RowKept, SearchRetried, Resume, MonitorAwaits, MonT, MonStates
      <4>4. QED
        BY <2>3, <3>1, <4>1, <4>2, <4>3
        DEF RowMove, Exists, MonitorComplete, MonitorFail, GrabInsert, RowT, RowOK, Rows
    <3>4. QED
      BY <3>2, <3>3, RowFrame
  <2>4. QED
    BY <2>1, <2>2, <2>3
<1>4. QED
  BY <1>1, <1>2, <1>3 DEF RowKept

\* What a status that is written to a book leaves of the other books, and of its files
LEMMA StatusWrites ==
  ASSUME BookT, NEW b \in Books, NEW s \in BookStatus, book' = SetStatus(b, s)
  PROVE  /\ \A c \in Books : book'[c].path = book[c].path
         /\ \A c \in Books : book'[c].status = book[c].status \/ (c = b /\ book'[c].status = s)
  BY DEF BookT, BookRows, SetStatus

\* A book never loses its files, and reads imported only with them.
LEMMA BookFiles ==
  ASSUME TypeInv, Belongs, Files, RowKept, [Next]_vars, NEW c \in Books
  PROVE  /\ book[c].path => book'[c].path
         /\ book'[c].status = "imported" => book'[c].path
<1> USE DEF TypeInv
<1>0. ASSUME NEW b \in Books, NEW s \in BookStatus, book' = SetStatus(b, s), s = "imported" => book[b].path
      PROVE  /\ book[c].path => book'[c].path
             /\ book'[c].status = "imported" => book'[c].path
  BY <1>0, StatusWrites DEF Files
<1>1. CASE book' = book
  BY <1>1 DEF Files
<1>2. ASSUME NEW d \in Downloads, book' = SetStatus(BookOf[d], row[d].snap)
      PROVE  /\ book[c].path => book'[c].path
             /\ book'[c].status = "imported" => book'[c].path
  BY <1>0, <1>2, SnapTyped, BookOfAssumption DEF Files
<1>3. ASSUME NEW b \in Books, NEW s, NEW t \in BookStatus, book' = MoveStatus(b, s, t), t # "imported"
      PROVE  /\ book[c].path => book'[c].path
             /\ book'[c].status = "imported" => book'[c].path
  BY <1>0, <1>1, <1>3 DEF MoveStatus
<1>4. CASE MonitorRevert
  BY <1>2, <1>4 DEF MonitorRevert, MonT, RowKept
<1>5. CASE WorkerCommit
  BY <1>5 DEF WorkerCommit, WorkerT, BookT, BookRows, Files
<1>6. CASE WorkerRevert
  <2>1. worker.b \in Books /\ worker.d \in Downloads /\ BookOf[worker.d] = worker.b
    BY <1>6 DEF WorkerRevert, WorkerT, Belongs
  <2>2. QED
    BY <1>2, <1>6, <2>1 DEF WorkerRevert
<1>7. CASE WorkerMark
  BY <1>3, <1>7 DEF WorkerMark, WorkerT, BookStatus
<1>8. ASSUME NEW d \in Downloads, GateMarkBook(d)
      PROVE  /\ book[c].path => book'[c].path
             /\ book'[c].status = "imported" => book'[c].path
  BY <1>0, <1>8, BookOfAssumption DEF GateMarkBook, BookStatus
<1>9. ASSUME NEW d \in Downloads, CancelRevert(d) \/ RejectRevert(d)
      PROVE  /\ book[c].path => book'[c].path
             /\ book'[c].status = "imported" => book'[c].path
  BY <1>2, <1>9 DEF CancelRevert, RejectRevert
<1>10. ASSUME NEW g \in Evaluators, GateHeld(g)
       PROVE  /\ book[c].path => book'[c].path
              /\ book'[c].status = "imported" => book'[c].path
  <2>1. gate[g].d \in Downloads
    BY <1>10 DEF GateHeld, GateT
  <2>2. book' = book \/ book' = MoveStatus(BookOf[gate[g].d], "importing", "downloading")
    BY <1>10 DEF GateHeld
  <2>3. QED
    BY <1>1, <1>3, <2>1, <2>2, BookOfAssumption DEF BookStatus
<1>11. ASSUME NEW g \in Evaluators, GateRejected(g)
       PROVE  /\ book[c].path => book'[c].path
              /\ book'[c].status = "imported" => book'[c].path
  BY <1>2, <1>11 DEF GateRejected, GateT
<1>12. ASSUME NEW b \in Books, GrabMarkBook(b) \/ RetryImport(b)
       PROVE  /\ book[c].path => book'[c].path
              /\ book'[c].status = "imported" => book'[c].path
  BY <1>0, <1>12 DEF GrabMarkBook, RetryImport, BookStatus
<1>13. QED
  BY <1>1, <1>4, <1>5, <1>6, <1>7, <1>8, <1>9, <1>10, <1>11, <1>12, BookFrame DEF BookStep

\* The status a grab carries is that of its book, of a row of it, or of the workflow that replaces one.
LEMMA GrabFiles ==
  ASSUME TypeInv, Belongs, Files, [Next]_vars, NEW c \in Books, grab'[c].snap = "imported"
  PROVE  book[c].path
<1> USE DEF TypeInv, GrabT, Grabs, NoGrab, Files
<1>1. CASE grab' = grab
  BY <1>1
<1>2. CASE Crash
  BY <1>2 DEF Crash
<1>3. ASSUME NEW b \in Books, SearchFails(b) \/ GrabCheck(b) \/ GrabFails(b) \/ GrabMarkBook(b) PROVE book[c].path
  BY <1>3 DEF SearchFails, GrabCheck, GrabFails, GrabMarkBook
<1>4. ASSUME NEW b \in Books, NEW d \in Downloads, GrabInsert(b, d) PROVE book[c].path
  BY <1>4 DEF GrabInsert
<1>5. ASSUME NEW b \in Books, GrabCapture(b) PROVE book[c].path
  BY <1>5 DEF GrabCapture
<1>6. ASSUME NEW b \in Books, GrabForRetry(b) PROVE book[c].path
  <2> DEFINE seen == IF search[b].d # None THEN row[search[b].d].snap ELSE book[b].status
  <2>1. grab' = grab \/ grab' = [grab EXCEPT ![b] = [pc |-> "sending", snap |-> Normalize(seen), retry |-> TRUE]]
    BY <1>6 DEF GrabForRetry
  <2>2. seen = "imported" => book[b].path
    BY DEF SearchT, Searches, Belongs
  <2> HIDE DEF seen
  <2>3. QED
    BY <2>1, <2>2 DEF Normalize
<1>7. QED
  BY <1>1, <1>2, <1>3, <1>4, <1>5, <1>6, GrabFrame DEF GrabStep

\* The row of a download is inserted with what its grab carries.
LEMMA SnapMoves ==
  ASSUME TypeInv, [Next]_vars, NEW d \in Downloads
  PROVE  row'[d].snap \in {row[d].snap, grab[BookOf[d]].snap}
<1>1. CASE row' = row
  BY <1>1
<1>2. ASSUME MonitorComplete(d) \/ MonitorFail(d) PROVE row'[d].snap = row[d].snap
  BY <1>2 DEF MonitorComplete, MonitorFail, TypeInv, RowT, RowOK, Rows
<1>3. ASSUME NEW b \in Books, GrabInsert(b, d) PROVE row'[d].snap = grab[BookOf[d]].snap
  BY <1>3 DEF GrabInsert, TypeInv, RowT, RowOK
<1>4. CASE RowAction
  <2>1. RowMove(d)
    BY <1>4, RowMoves
  <2>2. QED
    BY <2>1, <1>2, <1>3 DEF RowMove
<1>5. QED
  BY <1>1, <1>4, RowFrame

\* A step of the pipeline leaves no status imported without files.
LEMMA FilesPipeline ==
  ASSUME TypeInv, Belongs, Files, RowKept, [Next]_vars,
         \A r \in Releases : replace'[r].snap \in {replace[r].snap, "wanted"}
  PROVE  Files'
<1>1. ASSUME NEW b \in Books
      PROVE  book'[b].status = "imported" \/ grab'[b].snap = "imported" => book'[b].path
  BY BookFiles, GrabFiles
<1>2. ASSUME NEW d \in Downloads PROVE row'[d].snap = "imported" => book'[BookOf[d]].path
  BY SnapMoves, BookFiles, BookOfAssumption DEF Files
<1>3. ASSUME NEW r \in Releases PROVE replace'[r].snap = "imported" => book'[ReleaseOf[r]].path
  BY BookFiles, ReleaseAssumption DEF Files
<1>4. QED
  BY <1>1, <1>2, <1>3 DEF Files

\* Belongs and Files in the whole
HasFiles == Belongs /\ (Kept => Files /\ RowKept)

\* It holds at the start ...
LEMMA HasFilesInit == ReplaceInit => HasFiles
<1> SUFFICES ASSUME ReplaceInit PROVE HasFiles
  OBVIOUS
<1>1. /\ row = [d \in Downloads |-> [client |-> "absent", stage |-> "idle", snap |-> "wanted"]]
      /\ job = [b \in Books |-> NoJob] /\ lastFailed = [b \in Books |-> None]
      /\ mon = NoMon /\ search = [b \in Books |-> NoSearch] /\ grab = [b \in Books |-> NoGrab]
      /\ op = [d \in Downloads |-> NoOp] /\ worker = NoWorker
      /\ replace = [r \in Releases |-> NoWorkflow]
  BY DEF ReplaceInit, Init
<1>2. \A b \in Books : book[b].status = "imported" => book[b].path
  BY DEF ReplaceInit, Init
<1>3. Belongs
  BY <1>1 DEF Belongs, NoJob, NoWorker, NoSearch
<1>4. Files
  BY <1>1, <1>2 DEF Files, NoGrab, NoWorkflow
<1>5. RowKept
  BY <1>1 DEF RowKept, NoMon, NoOp, NoSearch
<1>6. QED
  BY <1>3, <1>4, <1>5 DEF HasFiles

\* A replacement that only looks, or gives up, remembers the status that one of the book's rows remembers,
\* or what it remembered before.
LEMMA LooksSnap ==
  ASSUME ReplaceT, NEW r \in Releases, Looks(r)
  PROVE  \A s \in Releases : \/ replace'[s].snap \in {replace[s].snap, "wanted"}
                             \/ s = r /\ \E d \in RowsOf(ReleaseOf[r]) : replace'[s].snap = row[d].snap
<1>1. CASE Replace(r) \/ ClaimMisses(r)
  BY <1>1 DEF Replace, ClaimMisses, Goto, ReplaceT, Workflows
<1>2. CASE Missed(r)
  <2> DEFINE w == IF MayRetry(r) THEN [replace[r] EXCEPT !.pc = "again", !.attempt = 1] ELSE NoWorkflow
             c == Classified(r, w)
  <2>1. replace' = [replace EXCEPT ![r] = c]
    BY <1>2 DEF Missed
  <2>2. replace[r] \in Workflows
    BY DEF ReplaceT
  <2>3. w.snap \in {replace[r].snap, "wanted"}
    BY <2>2 DEF NoWorkflow, Workflows
  <2> HIDE DEF w
  <2>4. c.snap \in {replace[r].snap, "wanted"}
    BY <2>2, <2>3 DEF Classified, NoWorkflow, Workflows
  <2> HIDE DEF c
  <2>5. QED
    BY <2>1, <2>4 DEF ReplaceT
<1>3. CASE Gather(r)
  <2>1. PICK d \in RowsOf(ReleaseOf[r]) : replace' = [replace EXCEPT ![r] =
          Classified(r, [@ EXCEPT !.pc = "claim", !.targets = Replaceable(ReleaseOf[r]), !.snap = row[d].snap])]
    BY <1>3 DEF Gather
  <2>2. QED
    BY <2>1 DEF Classified, NoWorkflow, ReplaceT, Workflows
<1>4. QED
  BY <1>1, <1>2, <1>3 DEF Looks

\* ... and every step of the pipeline or of a workflow preserves it.
LEMMA HasFilesStep == Base /\ HasFiles /\ [ReplaceNext]_allVars => HasFiles'
<1> SUFFICES ASSUME Base, HasFiles, [ReplaceNext]_allVars PROVE HasFiles'
  OBVIOUS
<1>0. TypeInv /\ ReplaceT /\ IndInv
  BY DEF Base, IndInv
<1>1. ASSUME [Next]_vars, \A r \in Releases : replace'[r].snap \in {replace[r].snap, "wanted"}
      PROVE  HasFiles'
  BY <1>0, <1>1, BelongsStep, KeptBefore, FilesPipeline, RowKeptStep DEF HasFiles
<1>2. CASE Pipeline
  <2>1. \A r \in Releases : replace'[r].snap \in {replace[r].snap, "wanted"}
    BY <1>0, <1>2 DEF Pipeline, Awaited, NoWorkflow, ReplaceT, Workflows
  <2>2. QED
    BY <1>1, <1>2, <2>1 DEF Pipeline
<1>3. CASE UNCHANGED allVars
  BY <1>1, <1>3 DEF allVars, replaceVars
<1>4. ASSUME NEW r \in Releases, Looks(r) PROVE HasFiles'
  <2>1. UNCHANGED vars
    BY <1>4 DEF Looks, Replace, Gather, ClaimMisses, Missed
  <2>2. Belongs' /\ (RowKept <=> RowKept') /\ (Kept <=> Kept')
    BY <2>1 DEF vars, HasFiles, Belongs, RowKept, Exists, Kept
  <2>3. Files => Files'
    BY <1>0, <1>4, <2>1, LooksSnap DEF Files, RowsOf, vars
  <2>4. QED
    BY <2>2, <2>3 DEF HasFiles
<1>5. ASSUME NEW r \in Releases, Claim(r) PROVE HasFiles'
  <2>1. UNCHANGED <<book, job, lastFailed, mon, search, grab, op, worker, used>>
        /\ replace' = [replace EXCEPT ![r].pc = "cleanup"]
    BY <1>5 DEF Claim, Goto
  <2>2. \A d \in Downloads : row'[d].snap = row[d].snap /\ (Exists(d) => Exists(d)')
    <3>1. row' = [d \in Downloads |-> IF d \in replace[r].targets
                                      THEN [row[d] EXCEPT !.client = "failed", !.stage = "idle"] ELSE row[d]]
      BY <1>5 DEF Claim
    <3>2. \A d \in Downloads : row[d] \in Rows
      BY <1>0 DEF TypeInv, RowT, RowOK
    <3>3. QED
      BY <3>1, <3>2 DEF Exists, Rows
  <2>3. \A s \in Releases : replace'[s].snap = replace[s].snap
    BY <1>0, <2>1 DEF ReplaceT, Workflows
  <2>4. QED
    BY <1>0, <2>1, <2>2, <2>3 DEF HasFiles, Belongs, Files, RowKept, Kept, TypeInv, MonT, Exists
<1>6. ASSUME NEW r \in Releases, Regrabs(r) PROVE HasFiles'
  <2>1. UNCHANGED <<row, book, job, lastFailed, mon, search, op, worker, used>>
    BY <1>6 DEF Regrabs, GrabOrdinary, GrabReplacement, LoseMark
  <2>2. ReleaseOf[r] \in Books
    BY ReleaseAssumption
  <2>3. \A b \in Books : \/ grab'[b].snap \in {grab[b].snap, "wanted"}
                         \/ b = ReleaseOf[r] /\ grab'[b].snap \in {replace[r].snap, book[b].status}
    BY <1>0, <1>6, <2>2
    DEF Regrabs, GrabOrdinary, GrabReplacement, LoseMark, NoGrab, TypeInv, GrabT, Grabs
  <2>4. \A s \in Releases : replace'[s].snap \in {replace[s].snap, "wanted"}
    BY <1>0, <1>6
    DEF Regrabs, GrabOrdinary, GrabReplacement, LoseMark, Goto, NoWorkflow, ReplaceT, Workflows
  <2>5. Files => Files'
    BY <2>1, <2>3, <2>4 DEF Files
  <2>6. QED
    BY <2>1, <2>5 DEF HasFiles, Belongs, RowKept, Kept, Exists
<1>7. ASSUME NEW r \in Releases, Revert(r) PROVE HasFiles'
  <2>1. UNCHANGED <<row, job, lastFailed, mon, search, grab, op, worker, used>>
        /\ book' = MoveStatus(ReleaseOf[r], "downloading", replace[r].snap)
        /\ replace' = [replace EXCEPT ![r] = NoWorkflow]
    BY <1>7 DEF Revert
  <2>2. replace[r].snap \in BookStatus /\ ReleaseOf[r] \in Books
    BY <1>0, ReleaseAssumption DEF ReplaceT, Workflows
  <2>3. book' = book \/ book' = SetStatus(ReleaseOf[r], replace[r].snap)
    BY <2>1 DEF MoveStatus
  <2>4. \A c \in Books : /\ book'[c].path = book[c].path
                         /\ \/ book'[c].status = book[c].status
                            \/ c = ReleaseOf[r] /\ book'[c].status = replace[r].snap
    BY <1>0, <2>2, <2>3, StatusWrites DEF TypeInv
  <2>5. \A s \in Releases : replace'[s].snap \in {replace[s].snap, "wanted"}
    BY <1>0, <2>1 DEF NoWorkflow, ReplaceT
  <2>6. Files => Files'
    BY <2>1, <2>2, <2>4, <2>5, BookOfAssumption, ReleaseAssumption DEF Files
  <2>7. QED
    BY <2>1, <2>6 DEF HasFiles, Belongs, RowKept, Kept, Exists
<1>8. QED
  BY <1>2, <1>3, <1>4, <1>5, <1>6, <1>7, ReplaceSteps DEF Looks

\* As long as nobody deletes from the history and nobody retries by hand, a book that reads imported has
\* files: every status that is put back was one the book had with its files, whatever is cancelled,
\* rejected, replaced or interrupted meanwhile.  With a deletion it fails: the monitor takes the missing
\* row for an imported one.
THEOREM ImportedBooksHaveFiles == ReplaceSpec => [](Kept => ImportedHasFiles)
<1>1. HasFiles => (Kept => ImportedHasFiles)
  BY DEF HasFiles, Files, ImportedHasFiles
<1>2. QED
  BY <1>1, BaseInit, BaseStep, HasFilesInit, HasFilesStep, ReplaceSafety, PTL


-----------------------------------------------------------------------------
(* The lock of a book *)

\* One workflow holds the lock of a book, and until it hands the lock to its grab no other grab does
OneHolder ==
  /\ \A r, s \in Releases : \A b \in Books : Holds(r, b) /\ Holds(s, b) => r = s
  /\ \A r \in Releases : replace[r].pc \notin {"idle", "waiting", "grabbing"} => grab[ReleaseOf[r]].pc = "none"

\* Only Gather takes the lock, when it is free; a workflow that ends its wait for a grab finds it done.
LEMMA OneHolderStep == Base /\ OneHolder /\ [ReplaceNext]_allVars => OneHolder'
<1> SUFFICES ASSUME Base, OneHolder, [ReplaceNext]_allVars PROVE OneHolder'
  OBVIOUS
<1> USE DEF Base, IndInv
<1>0. replace \in [Releases -> Workflows] /\ \A r \in Releases : ReleaseOf[r] \in Books
  BY ReleaseAssumption DEF ReplaceT
<1>a. ASSUME NEW r \in Releases, \A s \in Releases : s # r => replace'[s] = replace[s],
             replace'[r].pc \in {"idle", "waiting"} \/ replace[r].pc \notin {"idle", "waiting"},
             grab' = grab, replace'[r].pc \notin {"idle", "waiting", "grabbing"} => grab[ReleaseOf[r]].pc = "none"
      PROVE  OneHolder'
  BY <1>a DEF OneHolder, Holds
<1>1. CASE Pipeline
  <2>1. ASSUME NEW r \in Releases, replace'[r].pc \notin {"idle", "waiting"}
        PROVE  /\ replace[r].pc \notin {"idle", "waiting"}
               /\ replace'[r].pc # "grabbing" => grab'[ReleaseOf[r]].pc = "none"
    <3>1. replace'[r] = Awaited(r)
      BY <1>1, <2>1 DEF Pipeline, NoWorkflow
    <3>2. CASE replace'[r] = replace[r]
      <4>1. replace[r].pc # "grabbing" => grab[ReleaseOf[r]].pc = "none"
        BY <2>1, <3>2 DEF OneHolder
      <4>2. Held(ReleaseOf[r])
        BY <2>1, <3>2 DEF Held, Holds
      <4>3. ~TakesLock(ReleaseOf[r])
        BY <1>0, <1>1, <4>2 DEF Pipeline, KeepsOut
      <4>4. QED
        BY <2>1, <3>2, <4>1, <4>3 DEF TakesLock
    <3>3. CASE replace'[r] # replace[r]
      BY <3>1, <3>3, <2>1 DEF Awaited, NoWorkflow
    <3>4. QED
      BY <3>2, <3>3
  <2>2. QED
    BY <2>1 DEF OneHolder, Holds
<1>2. CASE UNCHANGED allVars
  BY <1>2 DEF allVars, replaceVars, vars, OneHolder, Holds
<1>3. ASSUME NEW r \in Releases, Replace(r) \/ ClaimMisses(r) PROVE OneHolder'
  <2>1. grab' = grab
    BY <1>3 DEF Replace, ClaimMisses, vars
  <2>2. \/ replace' = [replace EXCEPT ![r].pc = "waiting"]
        \/ replace[r].pc = "claim" /\ replace' = [replace EXCEPT ![r].pc = "missed"]
    BY <1>3 DEF Replace, ClaimMisses, Goto
  <2>3. QED
    BY <1>a, <1>0, <2>1, <2>2 DEF OneHolder, Workflows
<1>4. ASSUME NEW r \in Releases, Gather(r) PROVE OneHolder'
  <2>1. grab' = grab /\ \A s \in Releases : s # r => replace'[s] = replace[s]
    BY <1>0, <1>4 DEF Gather, vars
  <2>2. grab[ReleaseOf[r]].pc = "none"
    BY <1>4 DEF Gather, LockFree, OneHolder
  <2>3. CASE replace[r].pc = "again"
    BY <1>a, <2>1, <2>2, <2>3
  <2>4. CASE ~Held(ReleaseOf[r])
    BY <2>1, <2>2, <2>4 DEF OneHolder, Held, Holds
  <2>5. QED
    BY <1>4, <2>3, <2>4 DEF Gather
<1>5. ASSUME NEW r \in Releases, Missed(r) PROVE OneHolder'
  <2>1. grab' = grab /\ replace[r].pc = "missed" /\ \A s \in Releases : s # r => replace'[s] = replace[s]
    BY <1>0, <1>5 DEF Missed, vars
  <2>2. QED
    BY <1>a, <2>1 DEF OneHolder
<1>6. ASSUME NEW r \in Releases, Claim(r) PROVE OneHolder'
  <2>1. grab' = grab /\ replace[r].pc = "claim" /\ replace' = [replace EXCEPT ![r].pc = "cleanup"]
    BY <1>6 DEF Claim, Goto
  <2>2. QED
    BY <1>a, <1>0, <2>1 DEF OneHolder
<1>7. ASSUME NEW r \in Releases, Regrabs(r) PROVE OneHolder'
  <2>1. \A b \in Books : b # ReleaseOf[r] => grab'[b] = grab[b]
    BY <1>0, <1>7 DEF Regrabs, GrabOrdinary, GrabReplacement, LoseMark, TypeInv, GrabT
  <2>2. \A s \in Releases : s # r => replace'[s] = replace[s]
    BY <1>0, <1>7 DEF Regrabs, GrabOrdinary, GrabReplacement, LoseMark, Goto
  <2>3. Holds(r, ReleaseOf[r])
    BY <1>7 DEF Regrabs, GrabOrdinary, GrabReplacement, LoseMark, Holds
  <2>4. \/ replace'[r].pc \in {"idle", "grabbing"}
        \/ replace'[r].pc = "revert" /\ grab' = grab /\ replace[r].pc = "cleanup"
    BY <1>0, <1>7 DEF Regrabs, GrabOrdinary, GrabReplacement, LoseMark, Goto, NoWorkflow, Workflows
  <2>5. \A s \in Releases : s # r /\ ReleaseOf[s] = ReleaseOf[r] => replace[s].pc \in {"idle", "waiting"}
    BY <1>0, <2>3 DEF OneHolder, Holds
  <2>6. QED
    BY <1>0, <2>1, <2>2, <2>3, <2>4, <2>5 DEF OneHolder, Holds
<1>8. ASSUME NEW r \in Releases, Revert(r) PROVE OneHolder'
  <2>1. grab' = grab /\ replace' = [replace EXCEPT ![r] = NoWorkflow]
    BY <1>8 DEF Revert
  <2>2. QED
    BY <1>a, <1>0, <2>1 DEF NoWorkflow
<1>9. QED
  BY <1>1, <1>2, <1>3, <1>4, <1>5, <1>6, <1>7, <1>8, ReplaceSteps DEF Looks

-----------------------------------------------------------------------------
(* An undisturbed run *)

\* Nobody cancels, retries by hand or deletes, nothing crashes, and no download is approved while it is
\* being rejected
Undisturbed ==
  /\ used["cancel"] = 0 /\ used["retry"] = 0 /\ used["delete"] = 0 /\ used["crash"] = 0
  /\ \A d \in Downloads : op[d].approve = "none" \/ op[d].reject = "none"

\* The process stays up, and its only batch, that of the startup, has nothing to start over
Calm ==
  /\ phase = "up"
  /\ \A r \in Runners : run[r].pc = "idle" /\ gate[r].pc = "idle"
  /\ \A d \in Downloads : op[d].cancel = "none" /\ ~op[d].delete
  /\ \A b \in Books : search[b].by # "operator"

\* The actions that an undisturbed run does not take
Disturbs ==
  \/ Crash \/ Boot \/ StartupReset
  \/ \E b \in Books : RetryImport(b)
  \/ \E d \in Downloads : \/ Cancel(d) \/ CancelWrite(d) \/ CancelRevert(d) \/ RetryDownload(d)
                          \/ DeleteHistory(d) \/ DeleteWrite(d)
  \/ \E r \in Runners : \/ Batch(r) \/ GateDecides(r) \/ GateSettles(r)

\* None of what would disturb it happens.
LEMMA CalmActions ==
  ASSUME TypeInv, Ticks = {}, Calm, Undisturbed, Undisturbed'
  PROVE  ~Disturbs
<1> USE DEF TypeInv, UsedT, Undisturbed
<1>1. ~Crash /\ ~Boot /\ ~StartupReset
  BY DEF Crash, Boot, StartupReset, Calm
<1>2. \A b \in Books : ~RetryImport(b)
  BY DEF RetryImport, Request
<1>3. \A d \in Downloads : ~Cancel(d) /\ ~RetryDownload(d) /\ ~DeleteHistory(d)
  <2>1. \A d \in Downloads : ~Cancel(d)
    BY DEF Cancel, Request
  <2>2. \A d \in Downloads : ~RetryDownload(d)
    BY DEF RetryDownload, Request
  <2>3. \A d \in Downloads : ~DeleteHistory(d)
    BY DEF DeleteHistory, Request
  <2>4. QED
    BY <2>1, <2>2, <2>3
<1>4. \A d \in Downloads : ~CancelWrite(d) /\ ~CancelRevert(d) /\ ~DeleteWrite(d)
  BY DEF CancelWrite, CancelRevert, DeleteWrite, Calm
<1>5. \A r \in Runners : ~GateDecides(r) /\ ~GateSettles(r)
  BY DEF GateDecides, GateSettles, GateHold, GateAutoImport, GateReject, GateHeld, GateEnqueue, GateRejected, Calm
<1>6. \A r \in Runners : ~Batch(r)
  BY DEF Batch, RunnerSelect, RunnerReady, RunnerImports, RunnerClaim, RunnerEnqueue, Calm, Runners
<1>7. QED
  BY <1>1, <1>2, <1>3, <1>4, <1>5, <1>6 DEF Disturbs

\* So it stays calm.
LEMMA CalmStep ==
  ASSUME TypeInv, Calm, ~Disturbs, [Next]_vars
  PROVE  Calm'
<1> USE DEF TypeInv, Calm
<1>1. phase' = phase
  BY PhaseFrame DEF Disturbs
<1>2. run' = run
  BY BatchFrame DEF BatchStep, Disturbs, Batch
<1>3. \A r \in Runners : gate'[r] = gate[r]
  <2>1. CASE gate' = gate
    BY <2>1
  <2>2. ASSUME NEW d \in Downloads, MonitorComplete(d) \/ GateLoad(d) \/ GateClaim(d) \/ GateMarkBook(d)
               \/ GateDecides(d) \/ GateSettles(d)
        PROVE  \A g \in Evaluators : g # d => gate'[g] = gate[g]
    <3> USE DEF GateT
    <3>1. CASE MonitorComplete(d) \/ GateLoad(d)
      BY <3>1 DEF MonitorComplete, GateLoad
    <3>2. CASE GateClaim(d) \/ GateMarkBook(d)
      BY <3>2 DEF GateClaim, GateMarkBook
    <3>3. CASE GateDecides(d)
      BY <3>3 DEF GateDecides, GateHold, GateAutoImport, GateReject
    <3>4. CASE GateSettles(d)
      BY <3>4 DEF GateSettles, GateHeld, GateEnqueue, GateRejected
    <3>5. QED
      BY <2>2, <3>1, <3>2, <3>3, <3>4
  <2>3. CASE \E d \in Downloads : MonitorComplete(d) \/ GateLoad(d) \/ GateClaim(d) \/ GateMarkBook(d)
               \/ GateDecides(d) \/ GateSettles(d)
    BY <2>2, <2>3, RunnersAssumption DEF Evaluators, Runners
  <2>4. QED
    BY <2>1, <2>3, GateFrame DEF GateStep, Disturbs, Batch, GateDecides, GateSettles, Evaluators
<1>4. \A d \in Downloads : op'[d].cancel = op[d].cancel /\ op'[d].delete = op[d].delete
  <2> USE DEF OpT, Ops
  <2>1. CASE op' = op
    BY <2>1
  <2>2. ASSUME NEW e \in Downloads, Approve(e) \/ ApproveWrite(e) \/ ApproveEnqueue(e)
        PROVE  \A d \in Downloads : op'[d].cancel = op[d].cancel /\ op'[d].delete = op[d].delete
    BY <2>2 DEF Approve, ApproveWrite, ApproveEnqueue
  <2>3. ASSUME NEW e \in Downloads, Reject(e) \/ RejectWrite(e) \/ RejectSearch(e) \/ RejectRevert(e)
        PROVE  \A d \in Downloads : op'[d].cancel = op[d].cancel /\ op'[d].delete = op[d].delete
    <3>1. CASE Reject(e)
      <4>1. PICK again \in BOOLEAN : op' = [op EXCEPT ![e].reject = "rejecting", ![e].again = again]
        BY <3>1 DEF Reject
      <4>2. QED
        BY <4>1
    <3>2. CASE RejectWrite(e) \/ RejectSearch(e) \/ RejectRevert(e)
      BY <3>2 DEF RejectWrite, RejectSearch, RejectRevert
    <3>3. QED
      BY <2>3, <3>1, <3>2
  <2>4. QED
    BY <2>1, <2>2, <2>3, RequestFrame DEF RequestStep, Disturbs
<1>5. \A b \in Books : search'[b].by # "operator"
  <2> USE DEF SearchT, Searches, NoSearch
  <2>1. CASE search' = search
    BY <2>1
  <2>2. CASE MonitorSearch
    <3>1. \/ search' = search
          \/ search' = [search EXCEPT ![BookOf[mon.d]].pc = "searching", ![BookOf[mon.d]].by = "monitor",
                                      ![BookOf[mon.d]].d = mon.d]
      BY <2>2 DEF MonitorSearch
    <3>2. QED
      BY <3>1
  <2>3. CASE WorkerRevert
    BY <2>3, WorkerRevertAsks
  <2>4. ASSUME NEW g \in Evaluators, GateRejected(g) PROVE \A b \in Books : search'[b].by # "operator"
    BY <2>4 DEF GateRejected
  <2>5. ASSUME NEW d \in Downloads, RejectSearch(d) PROVE \A b \in Books : search'[b].by # "operator"
    BY <2>5 DEF RejectSearch
  <2>6. ASSUME NEW c \in Books, SearchBegin(c) \/ SearchDeadline(c) \/ GrabMarkBook(c)
        PROVE  \A b \in Books : search'[b].by # "operator"
    BY <2>6 DEF SearchBegin, SearchDeadline, GrabMarkBook
  <2>7. ASSUME NEW c \in Books, SearchFails(c) \/ GrabForRetry(c) \/ SearchRetried(c)
        PROVE  \A b \in Books : search'[b].by # "operator"
    BY <2>7 DEF SearchFails, GrabForRetry, SearchRetried, SearchOver
  <2>8. QED
    BY <2>1, <2>2, <2>3, <2>4, <2>5, <2>6, <2>7, SearchFrame DEF SearchStep, Disturbs
<1>6. QED
  BY <1>1, <1>2, <1>3, <1>4, <1>5

\* The import job of the book of a row is about this row
HasJob(d) == job[BookOf[d]].st # "none" /\ job[BookOf[d]].d = d
\* A row that is in the pipeline, that has left it, that an import may still be made for; and a book none
\* of whose rows is in it
Live(d) == InProgress(d) \/ Eligible(d)
Over(d) == row[d].client \in {"failed", "deleted"} \/ row[d].stage = "imported"
Waits(d) == Eligible(d) \/ row[d].stage = "importing"
NoLive(b) == \A d \in RowsOf(b) : ~Live(d)

\* The two axes of a row in step: only a completed download has a stage
InStep == \A d \in Downloads : row[d].client # "completed" => row[d].stage = "idle"

\* Who works on a row finds it where it was left: the evaluation, ...
Evaluated(d) ==
  /\ gate[d].pc \in {"spawned", "loaded", "auto"} => Eligible(d) /\ ~HasJob(d)
  /\ gate[d].pc \in {"claimed", "probing"} => row[d].stage = "checking"
  /\ gate[d].pc = "auto" => d \in approved
\* ... the approval, ...
Reviewed(d) ==
  /\ op[d].approve = "approving" => row[d].stage = "pending_review"
  /\ op[d].approve = "approved" => row[d].stage = "importing" /\ ~HasJob(d) /\ d \in approved
\* ... the job, ...
Queued(b) ==
  /\ job[b].st # "none" => job[b].d \in approved
  /\ job[b].st = "pending" => Waits(job[b].d)
\* ... the worker, ...
Working ==
  /\ worker.pc # "idle" => job[worker.b] = [st |-> "processing", d |-> worker.d]
  /\ worker.pc \in {"claimed", "loaded"} => Waits(worker.d)
  /\ worker.pc = "importing" => row[worker.d].stage = "importing"
  /\ worker.pc \in {"committed", "reverting", "marking"} => Over(worker.d)
\* ... the monitor and the search it waits for, ...
Failing ==
  /\ mon.pc # "idle" => Over(mon.d)
  /\ \A b \in Books : search[b].by = "monitor" => Over(search[b].d)
\* ... and whoever grabs: it found no live row of the book
Admission ==
  /\ OneLiveDownload
  /\ \A b \in Books : grab[b].pc = "sending" => NoLive(b)
  /\ \A r \in Releases : replace[r].pc = "cleanup" => NoLive(ReleaseOf[r])

\* Everything about the rows and who works on them
Orderly ==
  /\ Calm /\ InStep /\ Working /\ Failing /\ Admission
  /\ \A d \in Downloads : Evaluated(d) /\ Reviewed(d)
  /\ \A b \in Books : Queued(b)

\* All that is known of a state of an undisturbed run
Settings == Base /\ Belongs /\ HandsOff /\ Orderly

\* A write to a row that keeps the status it remembers
Became(d, c, s) == row'[d].client = c /\ row'[d].stage = s /\ row'[d].snap = row[d].snap

\* The turns that a row takes, and who makes it take them
Turn(d) ==
  \/ row'[d] = row[d]
  \/ \E b \in Books : GrabInsert(b, d)
  \/ Polled(d) /\ MonitorComplete(d) /\ Became(d, "completed", "idle")
  \/ Polled(d) /\ MonitorFail(d) /\ Became(d, "failed", "idle")
  \/ Eligible(d) /\ GateClaim(d) /\ gate[d].pc = "loaded" /\ Became(d, "completed", "checking")
  \/ row[d].stage = "checking" /\ \/ GateHold(d) /\ Became(d, "completed", "pending_review")
                                  \/ GateAutoImport(d) /\ Became(d, "completed", "idle")
                                  \/ GateReject(d) /\ Became(d, "failed", "idle")
  \/ row[d].stage = "pending_review" /\ \/ ApproveWrite(d) /\ Became(d, "completed", "importing")
                                        \/ RejectWrite(d) /\ Became(d, "failed", "idle")
  \/ Waits(d) /\ WorkerStart /\ worker.d = d /\ Became(d, "completed", "importing")
  \/ row[d].stage = "importing" /\ worker.d = d /\ \/ WorkerCommit /\ Became(d, "completed", "imported")
                                                   \/ WorkerFail /\ Became(d, "failed", "idle")
  \/ Over(d) /\ Became(d, "deleted", "idle")

\* What a write of a stage, or of a failure, makes of a completed row
LEMMA Writes ==
  ASSUME RowT, NEW e \in Downloads, NEW d \in Downloads, row[e].client = "completed"
  PROVE  /\ \A s \in PipelineStage : row' = SetStage(e, s) =>
            (IF d = e THEN Became(d, "completed", s) ELSE row'[d] = row[d])
         /\ row' = Fail(e) => (IF d = e THEN Became(d, "failed", "idle") ELSE row'[d] = row[d])
<1>1. row \in [Downloads -> Rows] /\ Exists(e)
  BY DEF RowT, RowOK, Exists
<1>2. ASSUME NEW s \in PipelineStage, row' = SetStage(e, s)
      PROVE  IF d = e THEN Became(d, "completed", s) ELSE row'[d] = row[d]
  <2>1. row' = [row EXCEPT ![e] = [row[e] EXCEPT !.stage = s]]
    BY <1>1, <1>2 DEF SetStage, Update
  <2>2. QED
    BY <1>1, <2>1 DEF Became, Rows
<1>3. ASSUME row' = Fail(e)
      PROVE  IF d = e THEN Became(d, "failed", "idle") ELSE row'[d] = row[d]
  <2>1. row' = [row EXCEPT ![e] = [row[e] EXCEPT !.client = "failed", !.stage = "idle"]]
    BY <1>1, <1>3 DEF Fail, Update
  <2>2. QED
    BY <1>1, <2>1 DEF Became, Rows
<1>4. QED
  BY <1>2, <1>3

\* A row takes no other turn in an undisturbed run.
LEMMA Turns ==
  ASSUME Settings, ~Disturbs, [Next]_vars, NEW d \in Downloads
  PROVE  Turn(d)
<1> USE DEF Settings, Base, IndInv, TypeInv, Orderly
<1>0. RowT /\ row \in [Downloads -> Rows]
  BY DEF RowT, RowOK
<1>1. CASE row' = row
  BY <1>1 DEF Turn
<1>2. CASE WorkerStart
  <2>1. worker.d \in Downloads /\ Waits(worker.d) /\ row' = SetStage(worker.d, "importing")
    BY <1>2 DEF WorkerStart, WorkerT, Working
  <2>2. row[worker.d].client = "completed"
    BY <2>1 DEF Waits, Eligible, InStep
  <2>3. QED
    BY <1>0, <1>2, <2>1, <2>2, Writes DEF Turn, PipelineStage
<1>3. CASE WorkerCommit \/ WorkerFail
  <2>1. worker.d \in Downloads /\ row[worker.d].stage = "importing"
        /\ (WorkerCommit => row' = SetStage(worker.d, "imported")) /\ (WorkerFail => row' = Fail(worker.d))
    BY <1>3 DEF WorkerCommit, WorkerFail, WorkerT, Working
  <2>2. row[worker.d].client = "completed"
    BY <2>1 DEF InStep
  <2>3. QED
    BY <1>0, <1>3, <2>1, <2>2, Writes DEF Turn, PipelineStage
<1>4. ASSUME NEW e \in Downloads, MonitorComplete(e) PROVE Turn(d)
  <2>1. Polled(e) /\ (IF d = e THEN Became(d, "completed", "idle") ELSE row'[d] = row[d])
    BY <1>0, <1>4 DEF MonitorComplete, MonitorLands, Polled, Became, Rows
  <2>2. QED
    BY <1>4, <2>1 DEF Turn
<1>5. ASSUME NEW e \in Downloads, MonitorFail(e) PROVE Turn(d)
  <2>1. Polled(e) /\ (IF d = e THEN Became(d, "failed", "idle") ELSE row'[d] = row[d])
    BY <1>0, <1>5 DEF MonitorFail, MonitorLands, Polled, Became, Rows
  <2>2. QED
    BY <1>5, <2>1 DEF Turn
<1>6. ASSUME NEW e \in Downloads, GateClaim(e) PROVE Turn(d)
  <2>1. row' = row \/ (Eligible(e) /\ gate[e].pc = "loaded" /\ row' = SetStage(e, "checking"))
    BY <1>6 DEF GateClaim, Claimable
  <2>2. CASE Eligible(e) /\ gate[e].pc = "loaded" /\ row' = SetStage(e, "checking")
    <3>1. IF d = e THEN Became(d, "completed", "checking") ELSE row'[d] = row[d]
      BY <1>0, <2>2, Writes DEF Eligible, PipelineStage
    <3>2. QED
      BY <1>6, <2>2, <3>1 DEF Turn
  <2>3. QED
    BY <1>1, <2>1, <2>2
<1>7. ASSUME NEW g \in Evaluators, GateHold(g) \/ GateAutoImport(g) \/ GateReject(g) PROVE Turn(d)
  <2>1. g \in Downloads
    BY <1>7 DEF Evaluators, Disturbs, GateDecides
  <2>2. gate[g].pc = "probing" /\ gate[g].d = g
    BY <1>7, <2>1 DEF GateHold, GateAutoImport, GateReject, Claims
  <2>3. row[g].stage = "checking" /\ row[g].client = "completed"
    BY <2>1, <2>2 DEF Evaluated, InStep
  <2>4. \/ GateHold(g) /\ row' = SetStage(g, "pending_review")
        \/ GateAutoImport(g) /\ row' = SetStage(g, "idle")
        \/ GateReject(g) /\ row' = Fail(g)
    BY <1>7, <2>2 DEF GateHold, GateAutoImport, GateReject
  <2>5. QED
    BY <1>0, <2>1, <2>3, <2>4, Writes DEF Turn, PipelineStage
<1>8. ASSUME NEW e \in Downloads, ApproveWrite(e) PROVE Turn(d)
  <2>1. row' = row \/ (row[e].stage = "pending_review" /\ row' = SetStage(e, "importing"))
    BY <1>8 DEF ApproveWrite
  <2>2. CASE row[e].stage = "pending_review" /\ row' = SetStage(e, "importing")
    <3>1. IF d = e THEN Became(d, "completed", "importing") ELSE row'[d] = row[d]
      BY <1>0, <2>2, Writes DEF InStep, PipelineStage
    <3>2. QED
      BY <1>8, <2>2, <3>1 DEF Turn
  <2>3. QED
    BY <1>1, <2>1, <2>2
<1>9. ASSUME NEW e \in Downloads, RejectWrite(e) PROVE Turn(d)
  <2>1. row' = row \/ (row[e].stage = "pending_review" /\ row' = Fail(e))
    BY <1>9 DEF RejectWrite
  <2>2. CASE row[e].stage = "pending_review" /\ row' = Fail(e)
    <3>1. IF d = e THEN Became(d, "failed", "idle") ELSE row'[d] = row[d]
      BY <1>0, <2>2, Writes DEF InStep
    <3>2. QED
      BY <1>9, <2>2, <3>1 DEF Turn
  <2>3. QED
    BY <1>1, <2>1, <2>2
<1>10. ASSUME NEW b \in Books, SearchRetried(b) PROVE Turn(d)
  <2>1. CASE search[b].by = "monitor"
    <3>1. search[b].d \in Downloads /\ Over(search[b].d) /\ row' = Delete(search[b].d)
      BY <1>10, <2>1 DEF SearchRetried, SearchT, Failing
    <3>2. IF d = search[b].d THEN Became(d, "deleted", "idle") ELSE row'[d] = row[d]
      BY <1>0, <3>1 DEF Delete, Became, Rows
    <3>3. QED
      BY <3>1, <3>2 DEF Turn
  <2>2. CASE search[b].by # "monitor"
    BY <1>1, <1>10, <2>2 DEF SearchRetried, Calm
  <2>3. QED
    BY <2>1, <2>2
<1>11. ASSUME NEW b \in Books, NEW e \in Downloads, GrabInsert(b, e) PROVE Turn(d)
  <2>1. d # e => row'[d] = row[d]
    BY <1>0, <1>11 DEF GrabInsert
  <2>2. QED
    BY <1>11, <2>1 DEF Turn
<1>12. QED
  BY <1>1, <1>2, <1>3, <1>4, <1>5, <1>6, <1>7, <1>8, <1>9, <1>10, <1>11, RowFrame DEF RowAction, Disturbs, Batch

\* Over is over, an inserted row was absent, and what comes to life was grabbed.
LEMMA Lives ==
  ASSUME Settings, NEW d \in Downloads, Turn(d)
  PROVE  /\ Over(d) => Over(d)'
         /\ row'[d].client # "completed" => row'[d].stage = "idle"
         /\ Live(d)' => Live(d) \/ \E b \in Books : GrabInsert(b, d)
<1> USE DEF Settings, Base, IndInv, TypeInv, Orderly, Over, Live, InProgress, Polled, Eligible, InStep,
            Became, Waits
<1>1. row[d] \in Rows /\ (row[d].client # "completed" => row[d].stage = "idle")
  BY DEF RowT, RowOK
<1>2. ASSUME NEW b \in Books, GrabInsert(b, d)
      PROVE  row[d].client = "absent" /\ row'[d].stage = "idle"
  BY <1>2 DEF GrabInsert, RowT, RowOK
<1>3. QED
  BY <1>1, <1>2 DEF Turn

\* A row that has a job waits for it, or is over.
LEMMA JobWaits ==
  ASSUME Settings, NEW d \in Downloads, HasJob(d)
  PROVE  Waits(d) \/ Over(d)
<1> USE DEF Settings, Base, IndInv, TypeInv, Orderly, HasJob
<1>1. BookOf[d] \in Books /\ job[BookOf[d]] \in Jobs
  BY BookOfAssumption DEF JobT
<1>2. CASE job[BookOf[d]].st = "pending"
  BY <1>1, <1>2 DEF Queued
<1>3. CASE job[BookOf[d]].st = "processing"
  <2>1. worker.pc # "idle" /\ worker.d = d
    BY <1>1, <1>3 DEF ProcessingHasWorker, Calm
  <2>2. QED
    BY <2>1 DEF Working, Waits, WorkerT, WorkerStates
<1>4. QED
  BY <1>1, <1>2, <1>3 DEF Jobs

\* What may become of the job of a book
JobTurn(b) ==
  \/ job'[b] = job[b]
  \/ WorkerClaim(b) /\ job[b].st = "pending" /\ job'[b] = [st |-> "processing", d |-> job[b].d]
  \/ (WorkerFinalize \/ WorkerMark) /\ worker.b = b /\ job'[b] = NoJob
  \/ /\ job[b].st = "none"
     /\ \E e \in Downloads : /\ BookOf[e] = b /\ job'[b] = [st |-> "pending", d |-> e]
                             /\ (GateEnqueue(e) /\ gate[e].pc = "auto") \/ ApproveEnqueue(e)

\* Nothing else does.
LEMMA JobTurns ==
  ASSUME TypeInv, Claims, ~Disturbs, [Next]_vars, NEW b \in Books
  PROVE  JobTurn(b)
<1> USE DEF TypeInv, JobT, Jobs, WorkerT, WorkerStates, JobTurn
<1>1. CASE job' = job
  BY <1>1
<1>2. CASE WorkerLoad \/ WorkerStart \/ WorkerCommit \/ WorkerFail \/ WorkerRevert
  BY <1>2 DEF WorkerLoad, WorkerStart, WorkerCommit, WorkerFail, WorkerRevert
<1>3. CASE WorkerFinalize \/ WorkerMark
  <2>1. worker.b \in Books /\ job' = [job EXCEPT ![worker.b] = NoJob]
    BY <1>3 DEF WorkerFinalize, WorkerMark
  <2>2. QED
    BY <1>3, <2>1
<1>4. ASSUME NEW c \in Books, WorkerClaim(c) PROVE JobTurn(b)
  <2>1. job[c].st = "pending" /\ job' = [job EXCEPT ![c].st = "processing"]
    BY <1>4 DEF WorkerClaim
  <2>2. QED
    BY <1>4, <2>1
<1>5. ASSUME NEW e \in Downloads, job' = Enqueue(e), (GateEnqueue(e) /\ gate[e].pc = "auto") \/ ApproveEnqueue(e)
      PROVE  JobTurn(b)
  BY <1>5, BookOfAssumption DEF Enqueue
<1>6. ASSUME NEW g \in Evaluators, GateEnqueue(g) PROVE JobTurn(b)
  <2>1. g \in Downloads
    BY <1>6 DEF Evaluators, Disturbs, GateSettles
  <2>2. gate[g].pc = "auto" /\ gate[g].d = g /\ job' = Enqueue(g)
    BY <1>6, <2>1 DEF GateEnqueue, Claims
  <2>3. QED
    BY <1>5, <1>6, <2>1, <2>2
<1>7. ASSUME NEW e \in Downloads, ApproveEnqueue(e) PROVE JobTurn(b)
  BY <1>5, <1>7 DEF ApproveEnqueue
<1>8. QED
  BY <1>1, <1>2, <1>3, <1>4, <1>6, <1>7, JobFrame DEF JobStep, Disturbs, Batch

\* A row gets a job from its evaluation or from its approval.
LEMMA GetsJob ==
  ASSUME Settings, NEW d \in Downloads, JobTurn(BookOf[d]), HasJob(d)'
  PROVE  HasJob(d) \/ (GateEnqueue(d) /\ gate[d].pc = "auto") \/ ApproveEnqueue(d)
<1>1. job'[BookOf[d]].st # "none" /\ job'[BookOf[d]].d = d
  BY DEF HasJob
<1>2. CASE job'[BookOf[d]] = job[BookOf[d]]
  BY <1>1, <1>2 DEF HasJob
<1>3. CASE job[BookOf[d]].st = "pending" /\ job'[BookOf[d]] = [st |-> "processing", d |-> job[BookOf[d]].d]
  BY <1>1, <1>3 DEF HasJob
<1>4. CASE job'[BookOf[d]] = NoJob
  BY <1>1, <1>4 DEF NoJob
<1>5. ASSUME NEW e \in Downloads, job'[BookOf[d]] = [st |-> "pending", d |-> e] PROVE e = d
  BY <1>1, <1>5
<1>6. QED
  BY <1>2, <1>3, <1>4, <1>5 DEF JobTurn

\* The actions that let a download through
LetsThrough == \/ \E g \in Evaluators : GateAutoImport(g)
               \/ \E d \in Downloads : ApproveWrite(d)

\* Nothing else does.
LEMMA ApprovedFrame == [Next]_vars => approved' = approved \/ LetsThrough
  BY ZenonT(60) DEF LetsThrough, vars, Next, MonitorPass, MonitorFailure, InlineGate, GateDecides,
     GateSettles, Batch, Searching, Grabbing, Worker, Operator, Operation, MonitorPoll, MonitorSkip,
     MonitorComplete, MonitorFail, MonitorGiveUp, MonitorSearch, MonitorRecover, MonitorRevert,
     GateLoad, GateClaim, GateMarkBook, GateHold, GateReject, GateHeld, GateEnqueue, GateRejected,
     RunnerSelect, RunnerClaim, RunnerImports, RunnerEnqueue, SearchBegin, SearchFails,
     SearchDeadline, GrabForRetry, GrabCapture, GrabCheck, GrabFails, GrabInsert, GrabMarkBook,
     SearchRetried, WorkerClaim, WorkerLoad, WorkerStart, WorkerCommit, WorkerFinalize, WorkerFail,
     WorkerRevert, WorkerMark, Cancel, CancelWrite, CancelRevert, Approve, ApproveEnqueue, Reject,
     RejectWrite, RejectSearch, RejectRevert, RetryDownload, RetryImport, DeleteHistory,
     DeleteWrite, Crash, Boot, StartupReset

\* The approvals are a history.
LEMMA ApprovedGrows == TypeInv /\ [Next]_vars => approved \subseteq approved'
<1> SUFFICES ASSUME TypeInv, [Next]_vars PROVE approved \subseteq approved'
  OBVIOUS
<1>1. CASE UNCHANGED approved
  BY <1>1
<1>2. ASSUME NEW g \in Evaluators, GateAutoImport(g) PROVE approved \subseteq approved'
  BY <1>2 DEF GateAutoImport
<1>3. ASSUME NEW d \in Downloads, ApproveWrite(d) PROVE approved \subseteq approved'
  BY <1>3 DEF ApproveWrite
<1>4. QED
  BY <1>1, <1>2, <1>3, ApprovedFrame DEF LetsThrough

\* What may become of the inline evaluation of a row
GateTurn(d) ==
  \/ gate'[d] = gate[d]
  \/ gate'[d].pc \in {"idle", "held", "rejected"}
  \/ MonitorComplete(d) /\ gate'[d].pc = "spawned"
  \/ GateLoad(d) /\ gate[d].pc = "spawned" /\ gate'[d].pc = "loaded"
  \/ GateClaim(d) /\ Eligible(d) /\ gate'[d].pc = "claimed"
  \/ GateMarkBook(d) /\ gate[d].pc = "claimed" /\ gate'[d].pc = "probing"
  \/ GateAutoImport(d) /\ gate[d].pc = "probing" /\ gate'[d].pc = "auto"

\* Nothing else does.
LEMMA GateTurns ==
  ASSUME TypeInv, ~Disturbs, [Next]_vars, NEW d \in Downloads
  PROVE  GateTurn(d)
<1> USE DEF TypeInv, GateT, Gates, GateTurn, NoGate
<1>0. d \in Evaluators
  BY DEF Evaluators
<1>1. CASE gate' = gate
  BY <1>1
<1>2. ASSUME NEW e \in Downloads, MonitorComplete(e) PROVE GateTurn(d)
  BY <1>0, <1>2 DEF MonitorComplete
<1>3. ASSUME NEW e \in Downloads, GateLoad(e) PROVE GateTurn(d)
  <2>1. CASE e = d
    BY <1>0, <1>3, <2>1 DEF GateLoad
  <2>2. CASE e # d
    BY <1>0, <1>3, <2>2 DEF GateLoad
  <2>3. QED
    BY <2>1, <2>2
<1>4. ASSUME NEW e \in Downloads, GateClaim(e) PROVE GateTurn(d)
  BY <1>0, <1>4 DEF GateClaim, Claimable
<1>5. ASSUME NEW e \in Downloads, GateMarkBook(e) PROVE GateTurn(d)
  BY <1>0, <1>5 DEF GateMarkBook
<1>6. ASSUME NEW g \in Evaluators, GateHold(g) \/ GateAutoImport(g) \/ GateReject(g) PROVE GateTurn(d)
  BY <1>0, <1>6 DEF GateHold, GateAutoImport, GateReject
<1>7. ASSUME NEW g \in Evaluators, GateHeld(g) \/ GateEnqueue(g) \/ GateRejected(g) PROVE GateTurn(d)
  BY <1>0, <1>7 DEF GateHeld, GateEnqueue, GateRejected
<1>8. QED
  BY <1>1, <1>2, <1>3, <1>4, <1>5, <1>6, <1>7, GateFrame DEF GateStep, Disturbs, Batch

\* The inline evaluation finds its row where it was left: while it is about to claim it, or to enqueue
\* it, nobody else does.
LEMMA EvaluatedStep ==
  ASSUME Settings, ~Disturbs, [Next]_vars, NEW d \in Downloads, Turn(d), JobTurn(BookOf[d]), GateTurn(d)
  PROVE  Evaluated(d)'
<1> USE DEF Settings, Base, IndInv, TypeInv, Orderly, Evaluated
<1>0. approved \subseteq approved' /\ BookOf[d] \in Books /\ row[d] \in Rows
  BY ApprovedGrows, BookOfAssumption DEF RowT, RowOK
<1>1. CASE gate'[d] = gate[d]
  <2>1. ASSUME gate[d].pc \in {"spawned", "loaded", "auto"} PROVE Eligible(d)' /\ ~HasJob(d)'
    <3>1. Eligible(d) /\ ~HasJob(d)
      BY <2>1
    <3>2. ~GateClaim(d) \/ gate[d].pc # "loaded" \/ row'[d] = row[d]
      BY <1>1, <3>1 DEF GateClaim, Claimable, GateT, Evaluators, Gates
    <3>3. ~(WorkerStart /\ worker.d = d)
      <4>1. SUFFICES ASSUME WorkerStart, worker.d = d PROVE FALSE
        OBVIOUS
      <4>2. worker.pc # "idle" /\ BookOf[d] = worker.b
        BY <4>1 DEF WorkerStart, Belongs
      <4>3. QED
        BY <3>1, <4>1, <4>2 DEF Working, HasJob
    <3>4. row'[d] = row[d]
      <4>1. ASSUME NEW b \in Books, GrabInsert(b, d) PROVE FALSE
        BY <3>1, <4>1 DEF GrabInsert, Eligible
      <4>2. QED
        BY <3>1, <3>2, <3>3, <4>1 DEF Turn, Eligible, Polled, Waits, Over
    <3>5. ~(GateEnqueue(d) /\ gate[d].pc = "auto")
      BY <1>1, <2>1 DEF GateEnqueue, GateT, Evaluators, NoGate
    <3>6. ~ApproveEnqueue(d)
      BY <3>1 DEF ApproveEnqueue, Reviewed, Eligible
    <3>7. QED
      BY <3>1, <3>4, <3>5, <3>6, GetsJob DEF Eligible
  <2>2. ASSUME gate[d].pc \in {"claimed", "probing"} PROVE row'[d].stage = "checking"
    <3>1. row[d].stage = "checking" /\ row[d].client = "completed"
      BY <2>2 DEF InStep
    <3>2. ~GateHold(d) /\ ~GateAutoImport(d) /\ ~GateReject(d)
      BY <1>1 DEF GateHold, GateAutoImport, GateReject, GateT, Evaluators, Gates
    <3>3. ASSUME NEW b \in Books, GrabInsert(b, d) PROVE FALSE
      BY <3>1, <3>3 DEF GrabInsert
    <3>4. QED
      BY <3>1, <3>2, <3>3 DEF Turn, Eligible, Polled, Waits, Over
  <2>3. QED
    BY <1>0, <1>1, <2>1, <2>2
<1>2. CASE gate'[d].pc \in {"idle", "held", "rejected"}
  BY <1>2
<1>3. CASE MonitorComplete(d) /\ gate'[d].pc = "spawned"
  <2>1. row'[d] = [row[d] EXCEPT !.client = "completed"] /\ Polled(d) /\ job' = job
    BY <1>3 DEF MonitorComplete, MonitorLands, RowT, RowOK
  <2>2. ~HasJob(d)
    BY <1>0, <2>1 DEF HandsOff, Fresh, Polled, Untouched, Handled, HasJob
  <2>3. QED
    BY <1>0, <1>3, <2>1, <2>2 DEF Polled, Eligible, HasJob, Rows
<1>4. CASE GateLoad(d) /\ gate[d].pc = "spawned" /\ gate'[d].pc = "loaded"
  <2>1. UNCHANGED <<row, job>>
    BY <1>4 DEF GateLoad
  <2>2. QED
    BY <1>4, <2>1 DEF Eligible, HasJob
<1>5. CASE GateClaim(d) /\ Eligible(d) /\ gate'[d].pc = "claimed"
  <2>1. row' = SetStage(d, "checking")
    BY <1>5 DEF GateClaim, Claimable
  <2>2. Became(d, "completed", "checking")
    BY <1>5, <2>1, Writes DEF Eligible, PipelineStage
  <2>3. QED
    BY <1>5, <2>2 DEF Became
<1>6. CASE GateMarkBook(d) /\ gate[d].pc = "claimed" /\ gate'[d].pc = "probing"
  BY <1>6 DEF GateMarkBook
<1>7. CASE GateAutoImport(d) /\ gate[d].pc = "probing" /\ gate'[d].pc = "auto"
  <2>1. gate[d].d = d /\ row[d].stage = "checking" /\ row[d].client = "completed"
    BY <1>7 DEF Claims, InStep
  <2>2. row' = SetStage(d, "idle") /\ job' = job /\ d \in approved'
    BY <1>7, <2>1 DEF GateAutoImport
  <2>3. Became(d, "completed", "idle")
    BY <2>1, <2>2, Writes DEF PipelineStage
  <2>4. ~HasJob(d)
    BY <2>1, JobWaits DEF Waits, Eligible, Over
  <2>5. QED
    BY <1>7, <2>2, <2>3, <2>4 DEF Became, Eligible, HasJob
<1>8. QED
  BY <1>1, <1>2, <1>3, <1>4, <1>5, <1>6, <1>7 DEF GateTurn

\* What may become of the approval of a row
ReviewTurn(d) ==
  \/ op'[d].approve = op[d].approve
  \/ op'[d].approve = "none"
  \/ Approve(d) /\ op'[d].approve = "approving"
  \/ ApproveWrite(d) /\ op[d].approve = "approving" /\ op'[d].approve = "approved"

\* Nothing else does.
LEMMA ReviewTurns ==
  ASSUME TypeInv, ~Disturbs, [Next]_vars, NEW d \in Downloads
  PROVE  ReviewTurn(d)
<1> USE DEF TypeInv, OpT, Ops, ReviewTurn
<1>1. CASE op' = op
  BY <1>1
<1>2. ASSUME NEW e \in Downloads, Approve(e) PROVE ReviewTurn(d)
  BY <1>2 DEF Approve
<1>3. ASSUME NEW e \in Downloads, ApproveWrite(e) PROVE ReviewTurn(d)
  BY <1>3 DEF ApproveWrite
<1>4. ASSUME NEW e \in Downloads, ApproveEnqueue(e) PROVE ReviewTurn(d)
  BY <1>4 DEF ApproveEnqueue
<1>5. ASSUME NEW e \in Downloads, Reject(e) PROVE ReviewTurn(d)
  <2>1. PICK again \in BOOLEAN : op' = [op EXCEPT ![e].reject = "rejecting", ![e].again = again]
    BY <1>5 DEF Reject
  <2>2. QED
    BY <2>1
<1>6. ASSUME NEW e \in Downloads, RejectWrite(e) \/ RejectSearch(e) \/ RejectRevert(e) PROVE ReviewTurn(d)
  BY <1>6 DEF RejectWrite, RejectSearch, RejectRevert
<1>7. QED
  BY <1>1, <1>2, <1>3, <1>4, <1>5, <1>6, RequestFrame DEF RequestStep, Disturbs

\* An approval finds its row where it was left: it is not rejected meanwhile, and no import of it has begun.
LEMMA ReviewedStep ==
  ASSUME Settings, Undisturbed, ~Disturbs, [Next]_vars, NEW d \in Downloads,
         Turn(d), JobTurn(BookOf[d]), ReviewTurn(d)
  PROVE  Reviewed(d)'
<1> USE DEF Settings, Base, IndInv, TypeInv, Orderly, Reviewed
<1>0. approved \subseteq approved' /\ BookOf[d] \in Books /\ row[d] \in Rows /\ op[d] \in Ops
  BY ApprovedGrows, BookOfAssumption DEF RowT, RowOK, OpT
<1>1. ASSUME NEW b \in Books, GrabInsert(b, d) PROVE row[d].client = "absent"
  BY <1>1 DEF GrabInsert
<1>2. CASE op'[d].approve = op[d].approve
  <2>1. ASSUME op[d].approve = "approving" PROVE row'[d].stage = "pending_review"
    <3>1. row[d].stage = "pending_review" /\ row[d].client = "completed"
      BY <2>1 DEF InStep
    <3>2. ~ApproveWrite(d)
      BY <1>2, <2>1 DEF ApproveWrite, OpT, Ops
    <3>3. ~RejectWrite(d)
      BY <2>1 DEF RejectWrite, Undisturbed
    <3>4. QED
      BY <1>1, <3>1, <3>2, <3>3 DEF Turn, Eligible, Polled, Waits, Over
  <2>2. ASSUME op[d].approve = "approved" PROVE row'[d].stage = "importing" /\ ~HasJob(d)' /\ d \in approved'
    <3>1. row[d].stage = "importing" /\ row[d].client = "completed" /\ ~HasJob(d)
      BY <2>2 DEF InStep
    <3>2. ~(worker.d = d /\ (WorkerStart \/ WorkerCommit \/ WorkerFail))
      <4>1. SUFFICES ASSUME WorkerStart \/ WorkerCommit \/ WorkerFail, worker.d = d PROVE FALSE
        OBVIOUS
      <4>2. worker.pc # "idle" /\ BookOf[d] = worker.b
        BY <4>1 DEF WorkerStart, WorkerCommit, WorkerFail, Belongs
      <4>3. QED
        BY <3>1, <4>1, <4>2 DEF Working, HasJob
    <3>3. row'[d].stage = "importing"
      BY <1>1, <3>1, <3>2 DEF Turn, Eligible, Polled, Waits, Over
    <3>4. ~(GateEnqueue(d) /\ gate[d].pc = "auto")
      BY <3>1 DEF Evaluated, Eligible
    <3>5. ~ApproveEnqueue(d)
      BY <1>2, <2>2 DEF ApproveEnqueue, OpT, Ops
    <3>6. QED
      BY <1>0, <2>2, <3>1, <3>3, <3>4, <3>5, GetsJob
  <2>3. QED
    BY <1>2, <2>1, <2>2
<1>3. CASE op'[d].approve = "none"
  BY <1>3
<1>4. CASE Approve(d) /\ op'[d].approve = "approving"
  BY <1>4 DEF Approve
<1>5. CASE ApproveWrite(d) /\ op[d].approve = "approving" /\ op'[d].approve = "approved"
  <2>1. row[d].stage = "pending_review" /\ row[d].client = "completed"
    BY <1>5 DEF InStep
  <2>2. row' = SetStage(d, "importing") /\ job' = job /\ d \in approved'
    BY <1>5, <2>1 DEF ApproveWrite
  <2>3. Became(d, "completed", "importing")
    BY <2>1, <2>2, Writes DEF PipelineStage
  <2>4. ~HasJob(d)
    BY <2>1, JobWaits DEF Waits, Eligible, Over
  <2>5. QED
    BY <1>5, <2>2, <2>3, <2>4 DEF Became, HasJob
<1>6. QED
  BY <1>2, <1>3, <1>4, <1>5 DEF ReviewTurn

\* A row that waits for its job goes on waiting until the worker starts, which leaves it importing.
LEMMA WaitsOn ==
  ASSUME Settings, ~Disturbs, NEW d \in Downloads, Turn(d), Waits(d), HasJob(d),
         ~(worker.pc = "importing" /\ worker.d = d)
  PROVE  Waits(d)'
<1> USE DEF Settings, Base, IndInv, TypeInv, Orderly
<1>1. row[d].client = "completed" /\ row[d].stage \in {"idle", "importing"}
  BY DEF Waits, Eligible, InStep
<1>2. ~(GateClaim(d) /\ gate[d].pc = "loaded")
  BY DEF Evaluated
<1>3. ~(worker.d = d /\ (WorkerCommit \/ WorkerFail))
  BY DEF WorkerCommit, WorkerFail
<1>4. ASSUME NEW b \in Books, GrabInsert(b, d) PROVE FALSE
  BY <1>1, <1>4 DEF GrabInsert
<1>5. row'[d] = row[d] \/ row'[d].stage = "importing"
  BY <1>1, <1>2, <1>3, <1>4 DEF Turn, Polled, Waits, Over, Became
<1>6. QED
  BY <1>5 DEF Waits, Eligible

\* A queued job is about a row that was let through and waits for it.
LEMMA QueuedStep ==
  ASSUME Settings, ~Disturbs, [Next]_vars, NEW b \in Books, JobTurn(b), \A d \in Downloads : Turn(d)
  PROVE  Queued(b)'
<1> USE DEF Settings, Base, IndInv, TypeInv, Orderly, Queued
<1>0. approved \subseteq approved'
  BY ApprovedGrows
<1>1. CASE job'[b] = job[b]
  <2>1. ASSUME job[b].st = "pending" PROVE Waits(job[b].d)'
    <3>1. job[b].d \in Downloads /\ BookOf[job[b].d] = b
      BY <2>1 DEF JobT, Belongs
    <3>2. ~(worker.pc = "importing" /\ worker.d = job[b].d)
      BY <2>1, <3>1 DEF Working, Belongs
    <3>3. Waits(job[b].d)'
      <4> DEFINE d == job[b].d
      <4>1. d \in Downloads /\ Waits(d) /\ HasJob(d)
        BY <2>1, <3>1 DEF HasJob
      <4> HIDE DEF d
      <4>2. Waits(d) /\ HasJob(d) /\ Turn(d) /\ ~(worker.pc = "importing" /\ worker.d = d)
        BY <3>2, <4>1 DEF d
      <4>3. row'[d].stage = "importing" \/ (row'[d].client = "completed" /\ row'[d].stage = "idle")
        BY <4>1, <4>2, WaitsOn DEF Waits, Eligible
      <4>4. QED
        BY <1>1, <4>3 DEF Waits, Eligible, d
    <3>4. QED
      BY <3>3
  <2>2. QED
    BY <1>0, <1>1, <2>1 DEF Waits, Eligible
<1>2. CASE WorkerClaim(b) /\ job[b].st = "pending" /\ job'[b] = [st |-> "processing", d |-> job[b].d]
  BY <1>0, <1>2
<1>3. CASE job'[b] = NoJob
  BY <1>3 DEF NoJob
<1>4. ASSUME NEW e \in Downloads, job'[b] = [st |-> "pending", d |-> e],
             (GateEnqueue(e) /\ gate[e].pc = "auto") \/ ApproveEnqueue(e)
      PROVE  Queued(b)'
  <2>1. Waits(e) /\ e \in approved /\ row' = row
    BY <1>4 DEF Evaluated, Reviewed, Waits, GateEnqueue, ApproveEnqueue
  <2>2. QED
    BY <1>0, <1>4, <2>1 DEF Waits, Eligible
<1>5. QED
  BY <1>1, <1>2, <1>3, <1>4 DEF JobTurn

\* The worker has its job until it is done with it, and finds the row where it was left.
LEMMA WorkingStep ==
  ASSUME Settings, ~Disturbs, [Next]_vars, \A d \in Downloads : Turn(d), \A b \in Books : JobTurn(b)
  PROVE  Working'
<1> USE DEF Settings, Base, IndInv, TypeInv, Orderly, Working, WorkerT, WorkerStates
<1>1. CASE worker' = worker
  <2>1. ASSUME worker.pc # "idle" PROVE job'[worker.b] = job[worker.b]
    <3>1. worker.b \in Books /\ job[worker.b] = [st |-> "processing", d |-> worker.d]
      BY <2>1
    <3>2. ~WorkerFinalize /\ ~WorkerMark
      BY <1>1, <2>1 DEF WorkerFinalize, WorkerMark, NoWorker
    <3>3. QED
      BY <3>1, <3>2 DEF JobTurn
  <2>2. ASSUME worker.pc \in {"claimed", "loaded"} PROVE Waits(worker.d)'
    <3> DEFINE d == worker.d
    <3>1. d \in Downloads /\ Waits(d) /\ HasJob(d)
      BY <2>2 DEF Belongs, HasJob
    <3> HIDE DEF d
    <3>2. row'[d].stage = "importing" \/ (row'[d].client = "completed" /\ row'[d].stage = "idle")
      BY <2>2, <3>1, WaitsOn DEF Waits, Eligible
    <3>3. QED
      BY <1>1, <3>2 DEF Waits, Eligible, d
  <2>3. ASSUME worker.pc = "importing" PROVE row'[worker.d].stage = "importing"
    <3>1. worker.d \in Downloads /\ row[worker.d].stage = "importing" /\ row[worker.d].client = "completed"
      BY <2>3 DEF InStep
    <3>2. ~WorkerStart /\ ~WorkerCommit /\ ~WorkerFail
      BY <1>1, <2>3 DEF WorkerStart, WorkerCommit, WorkerFail
    <3>3. ASSUME NEW b \in Books, GrabInsert(b, worker.d) PROVE FALSE
      BY <3>1, <3>3 DEF GrabInsert
    <3>4. QED
      BY <3>1, <3>2, <3>3 DEF Turn, Eligible, Polled, Waits, Over
  <2>4. ASSUME worker.pc \in {"committed", "reverting", "marking"} PROVE Over(worker.d)'
    BY <1>1, <2>4, Lives DEF Over
  <2>5. QED
    BY <1>1, <2>1, <2>2, <2>3, <2>4
<1>2. ASSUME NEW b \in Books, WorkerClaim(b) PROVE Working'
  <2>1. job[b].st = "pending" /\ row' = row /\ worker' = [pc |-> "claimed", b |-> b, d |-> job[b].d]
        /\ job' = [job EXCEPT ![b].st = "processing"]
    BY <1>2 DEF WorkerClaim
  <2>2. Waits(job[b].d)
    BY <2>1 DEF Queued
  <2>3. job'[b] = [st |-> "processing", d |-> job[b].d]
    BY <2>1 DEF JobT, Jobs
  <2>4. QED
    BY <2>1, <2>2, <2>3 DEF Waits, Eligible
<1>3. CASE WorkerLoad
  <2>1. Exists(worker.d)
    BY <1>3 DEF WorkerLoad, Waits, Eligible, InStep, Exists
  <2>2. UNCHANGED <<row, job>> /\ worker' = [worker EXCEPT !.pc = "loaded"] /\ worker.pc = "claimed"
    BY <1>3, <2>1 DEF WorkerLoad
  <2>3. QED
    BY <2>2 DEF Waits, Eligible
<1>4. CASE WorkerStart
  <2>1. worker.pc = "loaded" /\ row' = SetStage(worker.d, "importing") /\ job' = job
        /\ worker' = [worker EXCEPT !.pc = "importing"]
    BY <1>4 DEF WorkerStart
  <2>2. worker.d \in Downloads /\ row[worker.d].client = "completed"
    BY <2>1 DEF Waits, Eligible, InStep
  <2>3. Became(worker.d, "completed", "importing")
    BY <2>1, <2>2, Writes DEF PipelineStage
  <2>4. QED
    BY <2>1, <2>3 DEF Became
<1>5. CASE WorkerCommit
  <2>1. worker.pc = "importing" /\ row' = SetStage(worker.d, "imported") /\ job' = job
        /\ worker' = [worker EXCEPT !.pc = "committed"]
    BY <1>5 DEF WorkerCommit
  <2>2. worker.d \in Downloads /\ row[worker.d].client = "completed"
    BY <2>1 DEF InStep
  <2>3. Became(worker.d, "completed", "imported")
    BY <2>1, <2>2, Writes DEF PipelineStage
  <2>4. QED
    BY <2>1, <2>3 DEF Became, Over
<1>6. CASE WorkerFail
  <2>1. worker.pc = "importing" /\ row' = Fail(worker.d) /\ job' = job
        /\ worker' = [worker EXCEPT !.pc = "reverting"]
    BY <1>6 DEF WorkerFail
  <2>2. worker.d \in Downloads /\ row[worker.d].client = "completed"
    BY <2>1 DEF InStep
  <2>3. Became(worker.d, "failed", "idle")
    BY <2>1, <2>2, Writes
  <2>4. QED
    BY <2>1, <2>3 DEF Became, Over
<1>7. CASE WorkerRevert
  <2>1. worker.pc = "reverting" /\ UNCHANGED <<row, job>> /\ worker' = [worker EXCEPT !.pc = "marking"]
    BY <1>7 DEF WorkerRevert
  <2>2. QED
    BY <2>1 DEF Over
<1>8. CASE WorkerFinalize \/ WorkerMark
  BY <1>8 DEF WorkerFinalize, WorkerMark, NoWorker
<1>9. ASSUME NEW e \in Downloads, ApproveEnqueue(e) PROVE worker' = worker
  BY <1>9 DEF ApproveEnqueue
<1>10. ASSUME NEW g \in Evaluators, GateEnqueue(g) PROVE worker' = worker
  BY <1>10 DEF GateEnqueue
<1>11. QED
  BY <1>1, <1>2, <1>3, <1>4, <1>5, <1>6, <1>7, <1>8, <1>9, <1>10, JobFrame DEF JobStep, Disturbs, Batch

\* The row the monitor gives up, and the row its search would delete, are over.
LEMMA FailingStep ==
  ASSUME Settings, ~Disturbs, [Next]_vars, \A d \in Downloads : Turn(d)
  PROVE  Failing'
<1> USE DEF Settings, Base, IndInv, TypeInv, Orderly, Failing
<1>0. \A d \in Downloads : Over(d) => Over(d)'
  BY Lives
<1>1. mon'.pc # "idle" => Over(mon.d)'
  <2> SUFFICES ASSUME mon'.pc # "idle" PROVE Over(mon.d)'
    OBVIOUS
  <2>1. CASE \E d \in Downloads : MonitorFail(d)
    <3>1. PICK d \in Downloads : MonitorFail(d)
      BY <2>1
    <3>2. mon'.d = d /\ row' = [row EXCEPT ![d].client = "failed"]
      BY <3>1 DEF MonitorFail
    <3>3. QED
      BY <3>2 DEF Over, RowT, RowOK, Rows
  <2>2. CASE mon'.d = mon.d /\ mon.pc # "idle"
    <3>1. mon.d \in Downloads /\ Over(mon.d)
      BY <2>2 DEF MonT
    <3>2. QED
      BY <1>0, <2>2, <3>1 DEF Over
  <2>3. QED
    BY <2>1, <2>2, MonitorTurns
<1>2. \A b \in Books : search'[b].by = "monitor" => Over(search[b].d)'
  <2> SUFFICES ASSUME NEW b \in Books, search'[b].by = "monitor" PROVE Over(search[b].d)'
    OBVIOUS
  <2> USE DEF SearchT, Searches, NoSearch
  <2>1. \/ search'[b].d = search[b].d /\ search[b].by = "monitor"
        \/ MonitorSearch /\ search'[b].d = mon.d /\ mon.pc # "idle"
    <3>1. CASE search' = search
      BY <3>1
    <3>2. CASE MonitorSearch
      <4>1. /\ mon.pc # "idle"
            /\ \/ search' = search
               \/ search' = [search EXCEPT ![BookOf[mon.d]].pc = "searching", ![BookOf[mon.d]].by = "monitor",
                                           ![BookOf[mon.d]].d = mon.d]
        BY <3>2 DEF MonitorSearch
      <4>2. QED
        BY <3>2, <4>1
    <3>3. CASE WorkerRevert
      BY <3>3, WorkerRevertAsks
    <3>4. ASSUME NEW g \in Evaluators, GateRejected(g) PROVE search'[b].d = search[b].d /\ search[b].by = "monitor"
      BY <3>4 DEF GateRejected
    <3>5. ASSUME NEW d \in Downloads, RejectSearch(d) PROVE search'[b].d = search[b].d /\ search[b].by = "monitor"
      BY <3>5 DEF RejectSearch
    <3>6. ASSUME NEW c \in Books, SearchBegin(c) \/ SearchDeadline(c) \/ GrabMarkBook(c)
          PROVE  search'[b].d = search[b].d /\ search[b].by = "monitor"
      BY <3>6 DEF SearchBegin, SearchDeadline, GrabMarkBook
    <3>7. ASSUME NEW c \in Books, SearchFails(c) \/ GrabForRetry(c) \/ SearchRetried(c)
          PROVE  search'[b].d = search[b].d /\ search[b].by = "monitor"
      BY <3>7 DEF SearchFails, GrabForRetry, SearchRetried, SearchOver
    <3>8. QED
      BY <3>1, <3>2, <3>3, <3>4, <3>5, <3>6, <3>7, SearchFrame DEF SearchStep, Disturbs
  <2>2. search'[b].d \in Downloads /\ Over(search'[b].d)
    BY <2>1 DEF MonT
  <2>3. QED
    BY <1>0, <2>2 DEF Over
<1>3. QED
  BY <1>1, <1>2

\* A grab is sent only while no row of the book is live, and only a grab makes one live.
LEMMA AdmissionStep ==
  ASSUME Settings, OneHolder, ~Disturbs, [Next]_vars, \A d \in Downloads : Turn(d),
         \A r \in Releases : replace'[r].pc = "cleanup" => replace[r].pc = "cleanup"
  PROVE  Admission'
<1> USE DEF Settings, Base, IndInv, TypeInv, Orderly, Admission
<1>1. \A d \in Downloads : Live(d)' => Live(d) \/ \E b \in Books : GrabInsert(b, d)
  BY Lives
<1>2. ASSUME NEW b \in Books, NoLive(b), \A d \in RowsOf(b) : ~GrabInsert(b, d) PROVE NoLive(b)'
  <2>1. \A d \in RowsOf(b) : d \in Downloads /\ \A c \in Books : GrabInsert(c, d) => c = b
    BY DEF RowsOf, GrabInsert
  <2>2. QED
    BY <1>1, <1>2, <2>1 DEF NoLive, RowsOf
<1>3. ASSUME NEW b \in Books, grab'[b].pc = "sending" PROVE NoLive(b)'
  <2> USE DEF GrabT, Grabs, NoGrab
  <2>1. \A d \in RowsOf(b) : ~GrabInsert(b, d)
    BY <1>3 DEF GrabInsert
  <2>2. NoLive(b)
    <3>1. CASE grab' = grab
      BY <1>3, <3>1
    <3>2. ASSUME NEW c \in Books, GrabCheck(c) PROVE NoLive(b)
      BY <1>3, <3>2 DEF GrabCheck, GrabAdmitted, Blocked, NoLive, Live
    <3>3. ASSUME NEW c \in Books, GrabForRetry(c) PROVE NoLive(b)
      <4>1. grab' = grab \/ (~Blocked(c) /\ \A e \in Books : e # c => grab'[e] = grab[e])
        BY <3>3 DEF GrabForRetry
      <4>2. QED
        BY <1>3, <4>1 DEF Blocked, NoLive, Live
    <3>4. ASSUME NEW c \in Books, SearchFails(c) \/ GrabCapture(c) \/ GrabFails(c) \/ GrabMarkBook(c)
          PROVE  NoLive(b)
      BY <1>3, <3>4 DEF SearchFails, GrabCapture, GrabFails, GrabMarkBook
    <3>5. ASSUME NEW c \in Books, NEW d \in Downloads, GrabInsert(c, d) PROVE NoLive(b)
      BY <1>3, <3>5 DEF GrabInsert
    <3>6. QED
      BY <3>1, <3>2, <3>3, <3>4, <3>5, GrabFrame DEF GrabStep, Disturbs
  <2>3. QED
    BY <1>2, <2>1, <2>2
<1>4. ASSUME NEW r \in Releases, replace'[r].pc = "cleanup" PROVE NoLive(ReleaseOf[r])'
  <2>1. ReleaseOf[r] \in Books /\ NoLive(ReleaseOf[r]) /\ grab[ReleaseOf[r]].pc = "none"
    BY <1>4, ReleaseAssumption DEF OneHolder
  <2>2. NoLive(ReleaseOf[r])'
    <3> DEFINE b == ReleaseOf[r]
    <3>1. b \in Books /\ NoLive(b) /\ \A d \in RowsOf(b) : ~GrabInsert(b, d)
      BY <2>1 DEF GrabInsert
    <3> HIDE DEF b
    <3>2. \A d \in RowsOf(b) : ~(InProgress(d)' \/ Eligible(d)')
      BY <3>1, <1>2 DEF NoLive, Live
    <3>3. QED
      BY <3>2 DEF NoLive, Live, b
  <2>3. QED
    BY <2>2
<1>5. OneLiveDownload'
  <2> SUFFICES ASSUME NEW d \in Downloads, NEW e \in Downloads, BookOf[d] = BookOf[e], Live(d)', Live(e)'
               PROVE  d = e
    BY DEF OneLiveDownload, Live
  <2>1. CASE Live(d) /\ Live(e)
    BY <2>1 DEF OneLiveDownload, Live
  <2>2. ASSUME NEW x \in Downloads, NEW y \in Downloads, NEW b \in Books, GrabInsert(b, x), BookOf[x] = BookOf[y],
               Live(y)'
        PROVE  x = y
    <3>1. ~Live(y)
      BY <2>2 DEF GrabInsert, NoLive, RowsOf
    <3>2. row'[y] = row[y] \/ x = y
      BY <2>2 DEF GrabInsert, RowT, RowOK
    <3>3. QED
      BY <2>2, <3>1, <3>2 DEF Live, InProgress, Polled, Eligible
  <2>3. QED
    BY <1>1, <2>1, <2>2
<1>6. QED
  BY <1>3, <1>4, <1>5

\* A step of the pipeline leaves everything where whoever works on it will find it.
LEMMA OrderlyPipeline ==
  ASSUME Settings, OneHolder, Undisturbed, ~Disturbs, [Next]_vars,
         \A r \in Releases : replace'[r].pc = "cleanup" => replace[r].pc = "cleanup"
  PROVE  Orderly'
<1>1. \A d \in Downloads : Turn(d)
  BY Turns
<1>2. \A b \in Books : JobTurn(b)
  BY JobTurns DEF Settings, Base, IndInv
<1>3. \A d \in Downloads : GateTurn(d) /\ ReviewTurn(d)
  BY GateTurns, ReviewTurns DEF Settings, Base, IndInv
<1>4. Calm'
  BY CalmStep DEF Settings, Base, IndInv, Orderly
<1>5. InStep'
  BY <1>1, Lives DEF InStep
<1>6. \A d \in Downloads : Evaluated(d)' /\ Reviewed(d)'
  BY <1>1, <1>2, <1>3, EvaluatedStep, ReviewedStep, BookOfAssumption
<1>7. \A b \in Books : Queued(b)'
  BY <1>1, <1>2, QueuedStep
<1>8. Working' /\ Failing' /\ Admission'
  BY <1>1, <1>2, WorkingStep, FailingStep, AdmissionStep
<1>9. QED
  BY <1>4, <1>5, <1>6, <1>7, <1>8 DEF Orderly

\* So does a step of a workflow: it fails at most rows that are still with the client, and grabs only after
\* the one that was live is gone.
LEMMA OrderlyBeside ==
  ASSUME Settings, UNCHANGED <<job, gate, run, mon, search, op, worker, phase, approved>>,
         \A d \in Downloads : row'[d] = row[d] \/ (Polled(d) /\ Became(d, "failed", "idle")),
         Admission'
  PROVE  Orderly'
<1> USE DEF Settings, Orderly
<1>1. ASSUME NEW d \in Downloads
      PROVE  /\ row'[d].client # "completed" => row'[d].stage = "idle"
             /\ Over(d) => Over(d)'
             /\ Waits(d) => Waits(d)'
             /\ Eligible(d) => Eligible(d)'
             /\ \A s \in {"checking", "pending_review", "importing"} : row[d].stage = s => row'[d].stage = s
             /\ HasJob(d)' <=> HasJob(d)
  BY <1>1 DEF InStep, Over, Waits, Eligible, Polled, Became, HasJob
<1>2. Calm' /\ InStep'
  BY <1>1 DEF Calm, InStep
<1>3. \A d \in Downloads : Evaluated(d)' /\ Reviewed(d)'
  BY <1>1 DEF Evaluated, Reviewed
<1>4. \A b \in Books : Queued(b)'
  <2>1. \A b \in Books : job[b].st # "none" => job[b].d \in Downloads
    BY DEF Base, IndInv, TypeInv, JobT
  <2>2. \A b \in Books : job[b].st = "pending" => row'[job[b].d].stage = "importing"
                           \/ (row'[job[b].d].client = "completed" /\ row'[job[b].d].stage = "idle")
    BY <1>1, <2>1 DEF Queued, Waits, Eligible
  <2>3. QED
    BY <2>2 DEF Queued, Waits, Eligible
<1>5. Working'
  <2>1. worker.pc # "idle" => worker.d \in Downloads
    BY DEF Base, IndInv, TypeInv, WorkerT
  <2>2. QED
    BY <1>1, <2>1 DEF Working, Waits, Eligible, Over
<1>6. Failing'
  <2>1. /\ mon.pc # "idle" => mon.d \in Downloads
        /\ \A b \in Books : search[b].by = "monitor" => search[b].d \in Downloads
    BY DEF Base, IndInv, TypeInv, MonT, SearchT
  <2>2. QED
    BY <1>1, <2>1 DEF Failing, Over
<1>7. QED
  BY <1>2, <1>3, <1>4, <1>5, <1>6

\* The admission of a step that leaves the rows alone
LEMMA AdmissionKept ==
  ASSUME Settings, row' = row, \A b \in Books : grab'[b].pc = "sending" => NoLive(b),
         \A r \in Releases : replace'[r].pc = "cleanup" => NoLive(ReleaseOf[r])
  PROVE  Admission'
<1>1. OneLiveDownload'
  BY DEF Settings, Orderly, Admission, OneLiveDownload, InProgress, Polled, Eligible
<1>2. \A b : NoLive(b)' <=> NoLive(b)
  BY DEF NoLive, Live, InProgress, Polled, Eligible
<1>3. \A b \in Books : grab'[b].pc = "sending" => NoLive(b)'
  BY <1>2
<1>4. \A r \in Releases : replace'[r].pc = "cleanup" => NoLive(ReleaseOf[r])'
  <2> SUFFICES ASSUME NEW r \in Releases, replace'[r].pc = "cleanup" PROVE NoLive(ReleaseOf[r])'
    OBVIOUS
  <2>1. NoLive(ReleaseOf[r])
    OBVIOUS
  <2>2. QED
    BY <2>1 DEF NoLive, Live, InProgress, Polled, Eligible
<1>5. QED
  BY <1>1, <1>3, <1>4 DEF Admission

\* The claim takes the turn of a failed download for every row it takes.
LEMMA ClaimTurns ==
  ASSUME TypeInv, ReplaceT, NEW r \in Releases, Claim(r)
  PROVE  \A d \in Downloads : row'[d] = row[d] \/ (Polled(d) /\ Became(d, "failed", "idle"))
<1> TAKE d \in Downloads
<1>1. row[d] \in Rows
  BY DEF TypeInv, RowT, RowOK
<1>2. row'[d] = row[d] \/ (Polled(d) /\ row'[d] = [row[d] EXCEPT !.client = "failed", !.stage = "idle"])
  BY ClaimWrites
<1>3. QED
  BY <1>1, <1>2 DEF Became, Rows

\* The claim fails the only live row of its book.
LEMMA AdmissionClaim == ASSUME Settings, NEW r \in Releases, Claim(r) PROVE Admission'
<1> USE DEF Settings, Orderly, Base, IndInv, TypeInv, Admission
<1>1. /\ \A d \in Downloads : d \in replace[r].targets =>
           Polled(d) /\ row'[d] = [row[d] EXCEPT !.client = "failed", !.stage = "idle"]
      /\ \A d \in Downloads : d \notin replace[r].targets => row'[d] = row[d]
  BY ClaimWrites
<1>2. \A d \in Downloads : row[d] \in Rows
  BY DEF RowT, RowOK
<1>3. \A d \in Downloads : d \in replace[r].targets => ~(InProgress(d)' \/ Eligible(d)')
  BY <1>1, <1>2 DEF InProgress, Polled, Eligible, Rows
<1>4. \A d \in Downloads : InProgress(d)' \/ Eligible(d)' => InProgress(d) \/ Eligible(d)
  BY <1>1, <1>3 DEF InProgress, Polled, Eligible
<1>5. grab' = grab /\ replace' = [replace EXCEPT ![r].pc = "cleanup"] /\ replace[r].pc = "claim" /\ ClaimLands(r)
  BY DEF Claim, Goto
<1>6. OneLiveDownload'
  BY <1>4 DEF OneLiveDownload
<1>7. ASSUME NEW b, NoLive(b), NEW d \in RowsOf(b) PROVE ~(InProgress(d)' \/ Eligible(d)')
  BY <1>4, <1>7 DEF NoLive, Live, RowsOf
<1>8. ASSUME NEW d \in RowsOf(ReleaseOf[r]) PROVE ~(InProgress(d)' \/ Eligible(d)')
  <2> SUFFICES ASSUME InProgress(d)' \/ Eligible(d)' PROVE FALSE
    OBVIOUS
  <2>1. d \in Downloads /\ (InProgress(d) \/ Eligible(d)) /\ d \notin replace[r].targets
    BY <1>3, <1>4 DEF RowsOf
  <2>2. d \in Replaceable(ReleaseOf[r])
    BY <1>5, <2>1 DEF ClaimLands, InPipeline
  <2>3. PICK e \in Downloads : e \in replace[r].targets
    BY <1>5 DEF ReplaceT, RowsOf
  <2>4. BookOf[e] = BookOf[d] /\ Polled(e)
    BY <1>1, <2>3 DEF ReplaceT, RowsOf
  <2>5. e = d
    BY <2>1, <2>4 DEF OneLiveDownload, InProgress
  <2>6. QED
    BY <2>1, <2>3, <2>5
<1>9. \A b \in Books : grab'[b].pc = "sending" => NoLive(b)'
  BY <1>5, <1>7 DEF NoLive, Live
<1>10. \A s \in Releases : replace'[s].pc = "cleanup" => NoLive(ReleaseOf[s])'
  <2>1. \A s \in Releases : s # r => replace'[s] = replace[s]
    BY <1>5 DEF ReplaceT
  <2>2. \A s \in Releases : replace'[s].pc = "cleanup" => s = r \/ NoLive(ReleaseOf[s])
    BY <2>1
  <2>3. \A s \in Releases : replace'[s].pc = "cleanup" =>
          \A d \in RowsOf(ReleaseOf[s]) : ~(InProgress(d)' \/ Eligible(d)')
    BY <1>7, <1>8, <2>2
  <2>4. QED
    BY <2>3 DEF NoLive, Live
<1>11. QED
  BY <1>6, <1>9, <1>10

\* The order of an undisturbed run, step by step
LEMMA OrderlyStep ==
  ASSUME Settings, OneHolder, Undisturbed, Undisturbed', Ticks = {}, [ReplaceNext]_allVars
  PROVE  Orderly'
<1>0. replace \in [Releases -> Workflows] /\ TypeInv
  BY DEF Settings, Base, IndInv, ReplaceT
<1>1. ~Disturbs
  BY CalmActions DEF Settings, Base, IndInv, Orderly
<1>2. CASE Pipeline
  <2>1. \A r \in Releases : replace'[r].pc = "cleanup" => replace[r].pc = "cleanup"
    BY <1>2 DEF Pipeline, Awaited, NoWorkflow
  <2>2. QED
    BY <1>1, <1>2, <2>1, OrderlyPipeline DEF Pipeline
<1>3. CASE UNCHANGED allVars
  BY <1>1, <1>3, OrderlyPipeline DEF allVars, replaceVars
<1>4. ASSUME NEW r \in Releases, Looks(r) PROVE Orderly'
  <2>1. UNCHANGED vars
    BY <1>4 DEF Looks, Replace, Gather, ClaimMisses, Missed
  <2>2. \A s \in Releases : replace'[s].pc = "cleanup" => replace[s].pc = "cleanup"
    <3>1. CASE Replace(r) \/ ClaimMisses(r)
      BY <1>0, <3>1 DEF Replace, ClaimMisses, Goto, Workflows
    <3>2. ASSUME NEW w, w.pc # "cleanup", replace[r].pc # "cleanup",
                 replace' = [replace EXCEPT ![r] = Classified(r, w)]
          PROVE  \A s \in Releases : replace'[s].pc = "cleanup" => replace[s].pc = "cleanup"
      <4>1. Classified(r, w).pc # "cleanup"
        BY <1>0, <3>2 DEF Classified, NoWorkflow, Workflows
      <4> HIDE DEF Classified
      <4>2. QED
        BY <1>0, <3>2, <4>1
    <3>3. CASE Gather(r)
      <4>1. PICK d \in RowsOf(ReleaseOf[r]) : replace' = [replace EXCEPT ![r] = Classified(r,
              [replace[r] EXCEPT !.pc = "claim", !.targets = Replaceable(ReleaseOf[r]), !.snap = row[d].snap])]
        BY <3>3 DEF Gather
      <4> DEFINE w == [replace[r] EXCEPT !.pc = "claim", !.targets = Replaceable(ReleaseOf[r]),
                                          !.snap = row[d].snap]
      <4>2. w.pc # "cleanup" /\ replace[r].pc # "cleanup"
        BY <1>0, <3>3 DEF Gather, Workflows
      <4>3. QED
        BY <3>2, <4>1, <4>2
    <3>4. CASE Missed(r)
      <4> DEFINE w == IF MayRetry(r) THEN [replace[r] EXCEPT !.pc = "again", !.attempt = 1] ELSE NoWorkflow
      <4>1. replace' = [replace EXCEPT ![r] = Classified(r, w)]
        BY <3>4 DEF Missed
      <4>2. w.pc # "cleanup" /\ replace[r].pc # "cleanup"
        BY <1>0, <3>4 DEF Missed, NoWorkflow, Workflows
      <4>3. QED
        BY <3>2, <4>1, <4>2
    <3>5. QED
      BY <1>4, <3>1, <3>3, <3>4 DEF Looks
  <2>3. QED
    BY <1>1, <2>1, <2>2, OrderlyPipeline
<1>5. ASSUME NEW r \in Releases, Claim(r) PROVE Orderly'
  <2>1. UNCHANGED <<job, gate, run, mon, search, op, worker, phase, approved>>
    BY <1>5 DEF Claim
  <2>2. \A d \in Downloads : row'[d] = row[d] \/ (Polled(d) /\ Became(d, "failed", "idle"))
    BY <1>0, <1>5, ClaimTurns DEF Settings, Base
  <2>3. QED
    BY <1>5, <2>1, <2>2, AdmissionClaim, OrderlyBeside
<1>6. ASSUME NEW r \in Releases, Regrabs(r) PROVE Orderly'
  <2>1. UNCHANGED <<row, job, gate, run, mon, search, op, worker, phase, approved>>
    BY <1>6 DEF Regrabs, GrabOrdinary, GrabReplacement, LoseMark
  <2>2. ReleaseOf[r] \in Books
    BY ReleaseAssumption
  <2>3. \A b \in Books : grab'[b].pc = "sending" =>
          grab[b].pc = "sending" \/ (b = ReleaseOf[r] /\ replace[r].pc = "cleanup")
    <3> USE DEF TypeInv, GrabT, Grabs
    <3>1. CASE GrabOrdinary(r)
      BY <1>0, <2>2, <3>1 DEF GrabOrdinary
    <3>2. CASE GrabReplacement(r)
      BY <1>0, <2>2, <3>2 DEF GrabReplacement
    <3>3. CASE LoseMark(r)
      BY <1>0, <2>2, <3>3 DEF LoseMark, NoGrab
    <3>4. QED
      BY <1>6, <3>1, <3>2, <3>3 DEF Regrabs
  <2>4. \A s \in Releases : replace'[s].pc = "cleanup" => replace[s].pc = "cleanup"
    BY <1>0, <1>6 DEF Regrabs, GrabOrdinary, GrabReplacement, LoseMark, Goto, NoWorkflow, Workflows
  <2>5. Admission'
    BY <2>1, <2>3, <2>4, AdmissionKept DEF Settings, Orderly, Admission
  <2>6. QED
    BY <2>1, <2>5, OrderlyBeside
<1>7. ASSUME NEW r \in Releases, Revert(r) PROVE Orderly'
  <2>1. UNCHANGED <<row, job, gate, run, mon, search, op, worker, phase, approved, grab>>
        /\ replace' = [replace EXCEPT ![r] = NoWorkflow]
    BY <1>7 DEF Revert
  <2>2. \A s \in Releases : replace'[s].pc = "cleanup" => replace[s].pc = "cleanup"
    BY <1>0, <2>1 DEF NoWorkflow
  <2>3. Admission'
    BY <2>1, <2>2, AdmissionKept DEF Settings, Orderly, Admission
  <2>4. QED
    BY <2>1, <2>3, OrderlyBeside
<1>8. QED
  BY <1>2, <1>3, <1>4, <1>5, <1>6, <1>7, ReplaceSteps

\* An undisturbed run begins in order.
LEMMA OrderlyInit == ReplaceInit => OneHolder /\ Orderly
<1> SUFFICES ASSUME ReplaceInit PROVE OneHolder /\ Orderly
  OBVIOUS
<1>1. /\ row = [d \in Downloads |-> [client |-> "absent", stage |-> "idle", snap |-> "wanted"]]
      /\ job = [b \in Books |-> NoJob] /\ gate = [g \in Evaluators |-> NoGate] /\ run = [r \in Runners |-> NoRun]
      /\ mon = NoMon /\ search = [b \in Books |-> NoSearch] /\ grab = [b \in Books |-> NoGrab]
      /\ op = [d \in Downloads |-> NoOp] /\ worker = NoWorker /\ phase = "up"
      /\ replace = [r \in Releases |-> NoWorkflow]
  BY DEF ReplaceInit, Init
<1>2. OneHolder
  BY <1>1 DEF OneHolder, Holds, NoWorkflow
<1>3. Calm /\ InStep
  BY <1>1 DEF Calm, InStep, NoRun, NoGate, NoOp, NoSearch, Evaluators
<1>4. Working /\ Failing
  BY <1>1 DEF Working, Failing, NoWorker, NoMon, NoSearch
<1>5. \A d \in Downloads : ~Live(d)
  BY <1>1 DEF Live, InProgress, Polled, Eligible
<1>6. Admission
  BY <1>1, <1>5 DEF Admission, OneLiveDownload, Live, NoLive, RowsOf, NoGrab, NoWorkflow
<1>7. \A d \in Downloads : Evaluated(d) /\ Reviewed(d)
  BY <1>1 DEF Evaluated, Reviewed, NoGate, NoOp, Evaluators
<1>8. \A b \in Books : Queued(b)
  BY <1>1 DEF Queued, NoJob
<1>9. QED
  BY <1>2, <1>3, <1>4, <1>6, <1>7, <1>8 DEF Orderly

\* All that is known of an undisturbed run
Order == Base /\ HandsOff /\ HasFiles /\ OneHolder /\ Orderly

\* It holds at the start ...
LEMMA OrderBegins == ReplaceInit => Order
  BY BaseInit, HandsOffInit, HasFilesInit, OrderlyInit DEF Order

\* ... and no step between two undisturbed states breaks it.
LEMMA OrderStep == Ticks = {} => (Order /\ Undisturbed /\ Undisturbed' /\ [ReplaceNext]_allVars => Order')
<1> SUFFICES ASSUME Ticks = {}, Order, Undisturbed, Undisturbed', [ReplaceNext]_allVars PROVE Order'
  OBVIOUS
<1>1. Settings
  BY DEF Order, Settings, HasFiles
<1>2. QED
  BY <1>1, BaseStep, HandsOffStep, HasFilesStep, OneHolderStep, OrderlyStep DEF Order

\* Grabs, retry searches and confirmed replacements never give a book a second live download: whoever
\* admits one has looked under the lock, and nothing but a grab brings a row to life.  In an undisturbed
\* run without periodic batches; with a cancel, a retry by hand, a restart, a batch or a rejection during
\* an approval TLC finds two.
THEOREM OneLiveDownloadAtATime == Ticks = {} => (ReplaceSpec /\ []Undisturbed => []OneLiveDownload)
<1> SUFFICES ASSUME Ticks = {} PROVE ReplaceSpec /\ []Undisturbed => []OneLiveDownload
  OBVIOUS
<1>1. Order => OneLiveDownload
  BY DEF Order, Orderly, Admission
<1>2. Order /\ Undisturbed /\ Undisturbed' /\ [ReplaceNext]_allVars => Order'
  BY OrderStep
<1>3. QED
  BY <1>1, <1>2, OrderBegins, ReplaceSafety, PTL

\* Every job is about a download that the gate or the operator let through, on the same terms: an
\* approval still finds the row it approved, and a verdict is enqueued before anybody else decides.
THEOREM JobsAreApproved == Ticks = {} => (ReplaceSpec /\ []Undisturbed => []ImportOnlyApproved)
<1> SUFFICES ASSUME Ticks = {} PROVE ReplaceSpec /\ []Undisturbed => []ImportOnlyApproved
  OBVIOUS
<1>1. Order => ImportOnlyApproved
  BY DEF Order, Orderly, Queued, ImportOnlyApproved
<1>2. Order /\ Undisturbed /\ Undisturbed' /\ [ReplaceNext]_allVars => Order'
  BY OrderStep
<1>3. QED
  BY <1>1, <1>2, OrderBegins, ReplaceSafety, PTL

-----------------------------------------------------------------------------
(* What a book reads while nothing is in flight for it *)

\* No row of the book would put it back to importing
Intents(b) == \A d \in RowsOf(b) : row[d].snap # "importing"

\* Why a book may read importing: a download that goes on to its verdict or its import, or somebody who
\* still is to write what became of it
UnderWay(d) == Eligible(d) \/ row[d].stage \in {"checking", "pending_review", "importing"}
Cause(d) ==
  \/ UnderWay(d)
  \/ gate[d].pc = "rejected"
  \/ op[d].reject \in {"rejected", "dismissing"}
  \/ worker.pc \in {"reverting", "marking"} /\ worker.d = d

\* A book of such rows reads importing for one of these causes only
Reason(b) == Intents(b) /\ book[b].status = "importing" => \E d \in RowsOf(b) : Cause(d)

\* Every book that reads importing has its reason
Accounted ==
  /\ \A b \in Books : Reason(b)
  /\ \A d \in Downloads : row[d].client = "absent" => row[d].snap # "importing"
  /\ \A r \in Releases : replace[r].snap = "importing" => ~Intents(ReleaseOf[r])

\* The evaluation that rejected a row goes on to its cleanup: nobody begins another one of that row.
LEMMA RejectedStays ==
  ASSUME Settings, [Next]_vars, ~Disturbs, NEW d \in Downloads, gate[d].pc = "rejected"
  PROVE  gate'[d].pc = "rejected" \/ GateRejected(d)
<1> USE DEF Settings, Base, IndInv, TypeInv, GateT
<1>0. d \in Evaluators
  BY DEF Evaluators
<1>1. CASE gate' = gate
  BY <1>1
<1>2. ASSUME NEW e \in Downloads, MonitorComplete(e) PROVE gate'[d] = gate[d]
  <2>1. gate[d].d = d
    BY DEF Claims
  <2>2. Polled(e) /\ gate' = [gate EXCEPT ![e] = [NoGate EXCEPT !.pc = "spawned", !.d = e]]
    BY <1>2 DEF MonitorComplete, MonitorLands
  <2>3. e # d
    BY <1>0, <2>1, <2>2 DEF HandsOff, Fresh, Polled, Untouched, Handled
  <2>4. QED
    BY <1>0, <2>2, <2>3
<1>3. ASSUME NEW e \in Downloads, GateLoad(e) PROVE gate'[d] = gate[d]
  BY <1>0, <1>3 DEF GateLoad
<1>4. ASSUME NEW e \in Downloads, GateClaim(e) PROVE gate'[d] = gate[d]
  BY <1>0, <1>4 DEF GateClaim
<1>5. ASSUME NEW e \in Downloads, GateMarkBook(e) PROVE gate'[d] = gate[d]
  BY <1>0, <1>5 DEF GateMarkBook
<1>6. ASSUME NEW g \in Evaluators, GateHold(g) \/ GateAutoImport(g) \/ GateReject(g) PROVE gate'[d] = gate[d]
  BY <1>0, <1>6 DEF GateHold, GateAutoImport, GateReject
<1>7. ASSUME NEW g \in Evaluators, GateHeld(g) \/ GateEnqueue(g) PROVE gate'[d] = gate[d]
  BY <1>0, <1>7 DEF GateHeld, GateEnqueue
<1>8. ASSUME NEW g \in Evaluators, GateRejected(g) PROVE gate'[d] = gate[d] \/ GateRejected(d)
  BY <1>0, <1>8 DEF GateRejected
<1>9. QED
  BY <1>1, <1>2, <1>3, <1>4, <1>5, <1>6, <1>7, <1>8, GateFrame DEF GateStep, Disturbs, Batch

\* So does a rejection by the operator.
LEMMA RejectionStays ==
  ASSUME TypeInv, [Next]_vars, ~Disturbs, NEW d \in Downloads, op[d].reject \in {"rejected", "dismissing"}
  PROVE  op'[d].reject \in {"rejected", "dismissing"} \/ RejectRevert(d)
<1> USE DEF TypeInv, OpT, Ops
<1>1. CASE op' = op
  BY <1>1
<1>2. ASSUME NEW e \in Downloads, Approve(e) \/ ApproveWrite(e) \/ ApproveEnqueue(e)
      PROVE  op'[d].reject = op[d].reject
  BY <1>2 DEF Approve, ApproveWrite, ApproveEnqueue
<1>3. ASSUME NEW e \in Downloads, Reject(e) PROVE op'[d].reject = op[d].reject
  <2>1. PICK again \in BOOLEAN : op' = [op EXCEPT ![e].reject = "rejecting", ![e].again = again]
    BY <1>3 DEF Reject
  <2>2. e # d
    BY <1>3 DEF Reject
  <2>3. QED
    BY <2>1, <2>2
<1>4. ASSUME NEW e \in Downloads, RejectWrite(e) \/ RejectSearch(e)
      PROVE  op'[d].reject \in {"rejected", "dismissing"}
  BY <1>4 DEF RejectWrite, RejectSearch
<1>5. ASSUME NEW e \in Downloads, RejectRevert(e) PROVE op'[d].reject = op[d].reject \/ RejectRevert(d)
  BY <1>5 DEF RejectRevert
<1>6. QED
  BY <1>1, <1>2, <1>3, <1>4, <1>5, RequestFrame DEF RequestStep, Disturbs

\* And so does the worker with an import that failed.
LEMMA FailureStays ==
  ASSUME TypeInv, [Next]_vars, ~Disturbs, worker.pc \in {"reverting", "marking"}
  PROVE  (worker'.pc \in {"reverting", "marking"} /\ worker'.d = worker.d) \/ WorkerMark
<1> USE DEF TypeInv, WorkerT, WorkerStates
<1>1. CASE worker' = worker
  BY <1>1
<1>2. CASE WorkerLoad \/ WorkerStart \/ WorkerCommit \/ WorkerFinalize \/ WorkerFail
  BY <1>2 DEF WorkerLoad, WorkerStart, WorkerCommit, WorkerFinalize, WorkerFail
<1>3. CASE WorkerRevert
  BY <1>3 DEF WorkerRevert
<1>4. ASSUME NEW b \in Books, WorkerClaim(b) PROVE FALSE
  BY <1>4 DEF WorkerClaim
<1>5. ASSUME NEW e \in Downloads, ApproveEnqueue(e) PROVE worker' = worker
  BY <1>5 DEF ApproveEnqueue
<1>6. ASSUME NEW g \in Evaluators, GateEnqueue(g) PROVE worker' = worker
  BY <1>6 DEF GateEnqueue
<1>7. QED
  BY <1>1, <1>2, <1>3, <1>4, <1>5, <1>6, JobFrame DEF JobStep, Disturbs, Batch

\* The steps that settle what became of a download
Settles(d) == GateRejected(d) \/ RejectRevert(d) \/ (worker.d = d /\ (WorkerCommit \/ WorkerMark))

\* Until one of them, the reason why its book may read importing remains.
LEMMA CauseRemains ==
  ASSUME Settings, [Next]_vars, ~Disturbs, NEW d \in Downloads, Turn(d), Cause(d), ~Settles(d)
  PROVE  Cause(d)'
<1> USE DEF Settings, Base, IndInv, TypeInv, Orderly
<1>1. CASE gate[d].pc = "rejected"
  BY <1>1, RejectedStays DEF Cause, Settles
<1>2. CASE op[d].reject \in {"rejected", "dismissing"}
  BY <1>2, RejectionStays DEF Cause, Settles
<1>3. CASE worker.pc \in {"reverting", "marking"} /\ worker.d = d
  BY <1>3, FailureStays DEF Cause, Settles
<1>4. CASE UnderWay(d)
  <2>1. row[d].client = "completed" /\ row[d].stage \in {"idle", "checking", "pending_review", "importing"}
    BY <1>4 DEF UnderWay, Eligible, InStep
  <2>2. ASSUME NEW b \in Books, GrabInsert(b, d) PROVE FALSE
    BY <2>1, <2>2 DEF GrabInsert
  <2>3. CASE GateReject(d) /\ Became(d, "failed", "idle")
    <3>1. gate'[d].pc = "rejected"
      BY <2>3 DEF GateReject, GateT, Evaluators, Gates
    <3>2. QED
      BY <3>1 DEF Cause
  <2>4. CASE RejectWrite(d) /\ Became(d, "failed", "idle")
    <3>1. op'[d].reject = "rejected"
      BY <2>4 DEF RejectWrite, OpT, Ops
    <3>2. QED
      BY <3>1 DEF Cause
  <2>5. CASE worker.d = d /\ WorkerFail /\ Became(d, "failed", "idle")
    <3>1. worker'.pc = "reverting" /\ worker'.d = d
      BY <2>5 DEF WorkerFail, WorkerT, WorkerStates
    <3>2. QED
      BY <3>1 DEF Cause
  <2>6. CASE UnderWay(d)'
    BY <2>6 DEF Cause
  <2>7. QED
    BY <1>4, <2>1, <2>2, <2>3, <2>4, <2>5, <2>6
    DEF Turn, UnderWay, Settles, Became, Polled, Over, Eligible
<1>5. QED
  BY <1>1, <1>2, <1>3, <1>4 DEF Cause

\* The rows of a book keep what they remember; one that is inserted held no intent to import.
LEMMA IntentsBack ==
  ASSUME Settings, Accounted, \A d \in Downloads : Turn(d)
  PROVE  /\ \A b : Intents(b)' => Intents(b)
         /\ \A d \in Downloads : row'[d].client = "absent" => row'[d].snap # "importing"
<1>1. \A d \in Downloads : /\ row'[d].snap # "importing" => row[d].snap # "importing"
                           /\ row'[d].client = "absent" => row'[d] = row[d]
  <2> TAKE d \in Downloads
  <2>1. ASSUME NEW b \in Books, GrabInsert(b, d)
        PROVE  row[d].client = "absent" /\ row'[d].client = "downloading"
    BY <2>1 DEF GrabInsert, Settings, Base, IndInv, TypeInv, RowT, RowOK
  <2>2. QED
    BY <2>1 DEF Turn, Became, Accounted
<1>2. QED
  BY <1>1 DEF Intents, RowsOf, Accounted

\* What is left when the steps that settle a download have settled it
LEMMA SettledWrites ==
  ASSUME Settings, Accounted, NEW d \in Downloads, Settles(d), Intents(BookOf[d])
  PROVE  book'[BookOf[d]].status # "importing"
<1> USE DEF Settings, Base, IndInv, TypeInv, Orderly, BookT, BookRows
<1>0. BookOf[d] \in Books /\ row[d].snap \in BookStatus /\ row[d].snap # "importing"
  BY SnapTyped, BookOfAssumption DEF Intents, RowsOf
<1>1. CASE GateRejected(d)
  <2>1. gate[d].d = d
    BY <1>1 DEF GateRejected, Claims
  <2>2. book' = SetStatus(BookOf[d], row[d].snap)
    BY <1>1, <2>1 DEF GateRejected
  <2>3. QED
    BY <1>0, <2>2 DEF SetStatus
<1>2. CASE RejectRevert(d)
  BY <1>0, <1>2 DEF RejectRevert, SetStatus
<1>3. CASE WorkerCommit /\ worker.d = d
  <2>1. worker.b = BookOf[d]
    BY <1>3 DEF WorkerCommit, Belongs
  <2>2. QED
    BY <1>0, <1>3, <2>1 DEF WorkerCommit
<1>4. CASE WorkerMark /\ worker.d = d
  <2>1. worker.b = BookOf[d]
    BY <1>4 DEF WorkerMark, Belongs
  <2>2. QED
    BY <1>0, <1>4, <2>1 DEF WorkerMark, MoveStatus, SetStatus
<1>5. QED
  BY <1>1, <1>2, <1>3, <1>4 DEF Settles

\* Only the evaluation that has claimed a row writes importing to a book whose rows hold intents.
LEMMA StatusTurns ==
  ASSUME Settings, Accounted, ~Disturbs, [Next]_vars, NEW b \in Books, Intents(b), book'[b].status = "importing"
  PROVE  \/ book[b].status = "importing"
         \/ \E d \in RowsOf(b) : row'[d].stage = "checking"
<1> USE DEF Settings, Base, IndInv, TypeInv, Orderly, BookT, BookRows
<1>0. ASSUME NEW c \in Books, NEW s \in BookStatus, book' = SetStatus(c, s), c = b => s # "importing"
      PROVE  book[b].status = "importing"
  BY <1>0 DEF SetStatus
<1>1. ASSUME NEW d \in Downloads, book' = SetStatus(BookOf[d], row[d].snap) PROVE book[b].status = "importing"
  BY <1>0, <1>1, SnapTyped, BookOfAssumption DEF Intents, RowsOf
<1>2. ASSUME NEW c \in Books, NEW s, NEW t \in BookStatus, book' = MoveStatus(c, s, t), t # "importing"
      PROVE  book[b].status = "importing"
  BY <1>0, <1>2 DEF MoveStatus
<1>3. CASE book' = book
  BY <1>3
<1>4. CASE MonitorRevert
  <2>1. mon.d \in Downloads /\ BookOf[mon.d] \in Books
    BY <1>4, BookOfAssumption DEF MonitorRevert, MonT
  <2>2. book' = SetStatus(BookOf[mon.d], row[mon.d].snap) \/ book' = SetStatus(BookOf[mon.d], "imported")
    BY <1>4 DEF MonitorRevert
  <2>3. QED
    BY <1>0, <1>1, <2>1, <2>2 DEF BookStatus
<1>5. CASE WorkerCommit
  BY <1>5 DEF WorkerCommit, WorkerT
<1>6. CASE WorkerRevert
  <2>1. worker.d \in Downloads /\ book' = SetStatus(BookOf[worker.d], row[worker.d].snap)
    BY <1>6 DEF WorkerRevert, WorkerT, Belongs
  <2>2. QED
    BY <1>1, <2>1
<1>7. CASE WorkerMark
  BY <1>2, <1>7 DEF WorkerMark, WorkerT, BookStatus
<1>8. ASSUME NEW d \in Downloads, GateMarkBook(d)
      PROVE  book[b].status = "importing" \/ \E e \in RowsOf(b) : row'[e].stage = "checking"
  <2>1. row'[d].stage = "checking"
    BY <1>8 DEF GateMarkBook, Evaluated
  <2>2. CASE BookOf[d] = b
    BY <2>1, <2>2 DEF RowsOf
  <2>3. CASE BookOf[d] # b
    BY <1>0, <1>8, <2>3, BookOfAssumption DEF GateMarkBook, BookStatus
  <2>4. QED
    BY <2>2, <2>3
<1>9. ASSUME NEW d \in Downloads, RejectRevert(d) PROVE book[b].status = "importing"
  BY <1>1, <1>9 DEF RejectRevert
<1>10. ASSUME NEW g \in Evaluators, GateHeld(g) PROVE book[b].status = "importing"
  <2>1. BookOf[gate[g].d] \in Books
    BY <1>10, BookOfAssumption DEF GateHeld, GateT
  <2>2. book' = book \/ book' = MoveStatus(BookOf[gate[g].d], "importing", "downloading")
    BY <1>10 DEF GateHeld
  <2>3. QED
    BY <1>2, <2>1, <2>2 DEF BookStatus
<1>11. ASSUME NEW g \in Evaluators, GateRejected(g) PROVE book[b].status = "importing"
  BY <1>1, <1>11 DEF GateRejected, GateT
<1>12. ASSUME NEW c \in Books, GrabMarkBook(c) PROVE book[b].status = "importing"
  BY <1>0, <1>12 DEF GrabMarkBook, BookStatus
<1>13. QED
  BY <1>3, <1>4, <1>5, <1>6, <1>7, <1>8, <1>9, <1>10, <1>11, <1>12, BookFrame DEF BookStep, Disturbs

\* No step of the pipeline leaves a book importing for no reason.
LEMMA AccountedPipeline ==
  ASSUME Settings, Accounted, ~Disturbs, [Next]_vars,
         \A r \in Releases : replace'[r].snap \in {replace[r].snap, "wanted"}
  PROVE  Accounted'
<1>1. \A d \in Downloads : Turn(d)
  BY Turns
<1>2. /\ \A b : Intents(b)' => Intents(b)
      /\ \A d \in Downloads : row'[d].client = "absent" => row'[d].snap # "importing"
  BY <1>1, IntentsBack
<1>3. ASSUME NEW b \in Books PROVE Reason(b)'
  <2> SUFFICES ASSUME Intents(b)', book'[b].status = "importing" PROVE \E d \in RowsOf(b) : Cause(d)'
    BY DEF Reason, RowsOf
  <2>1. Intents(b)
    BY <1>2
  <2>2. CASE \E d \in RowsOf(b) : row'[d].stage = "checking"
    BY <2>2 DEF Cause, UnderWay
  <2>3. CASE book[b].status = "importing"
    <3>1. PICK d \in RowsOf(b) : Cause(d)
      BY <2>1, <2>3 DEF Accounted, Reason
    <3>2. d \in Downloads /\ BookOf[d] = b
      BY DEF RowsOf
    <3>3. ~Settles(d)
      BY <2>1, <3>2, SettledWrites
    <3>4. QED
      BY <1>1, <3>1, <3>2, <3>3, CauseRemains
  <2>4. QED
    BY <2>1, <2>2, <2>3, StatusTurns
<1>4. ASSUME NEW r \in Releases, replace'[r].snap = "importing" PROVE ~Intents(ReleaseOf[r])'
  <2>1. ~Intents(ReleaseOf[r])
    BY <1>4 DEF Accounted
  <2>2. PICK d \in RowsOf(ReleaseOf[r]) : row[d].snap = "importing"
    BY <2>1 DEF Intents
  <2>3. d \in Downloads /\ (row'[d].snap # "importing" => row[d].snap # "importing")
    <3>1. d \in Downloads /\ row[d].client # "absent"
      BY <2>2 DEF RowsOf, Accounted
    <3>2. ASSUME NEW b \in Books, GrabInsert(b, d) PROVE FALSE
      BY <3>1, <3>2 DEF GrabInsert
    <3>3. QED
      BY <1>1, <3>1, <3>2 DEF Turn, Became
  <2>4. QED
    BY <2>2, <2>3 DEF Intents, RowsOf
<1>5. QED
  BY <1>2, <1>3, <1>4 DEF Accounted

\* Nor does a step of a workflow, which writes only the status that a row of the book remembers.
LEMMA AccountedBeside ==
  ASSUME Settings, Accounted, UNCHANGED <<gate, op, worker>>,
         \A d \in Downloads : row'[d] = row[d] \/ (Polled(d) /\ Became(d, "failed", "idle")),
         \A b \in Books : book'[b].status = book[b].status \/ (Intents(b) => book'[b].status # "importing"),
         \A r \in Releases : replace'[r].snap = "importing" => ~Intents(ReleaseOf[r])
  PROVE  Accounted'
<1>1. ASSUME NEW d \in Downloads
      PROVE  /\ row'[d].snap = row[d].snap
             /\ Cause(d) => Cause(d)'
             /\ row'[d].client = "absent" => row[d].client = "absent"
  BY DEF Cause, UnderWay, Eligible, Polled, Became
<1>2. \A b : Intents(b)' <=> Intents(b)
  BY <1>1 DEF Intents, RowsOf
<1>3. \A b \in Books : Reason(b)'
  BY <1>1, <1>2 DEF Reason, Accounted, RowsOf
<1>4. \A r \in Releases : replace'[r].snap = "importing" => ~Intents(ReleaseOf[r])'
  BY <1>1 DEF Intents, RowsOf
<1>5. \A d \in Downloads : row'[d].client = "absent" => row'[d].snap # "importing"
  BY <1>1 DEF Accounted
<1>6. QED
  BY <1>3, <1>4, <1>5 DEF Accounted

\* No step of the whole loses the account ...
LEMMA AccountedStep ==
  ASSUME Settings, Accounted, Undisturbed, Undisturbed', Ticks = {}, [ReplaceNext]_allVars
  PROVE  Accounted'
<1>0. /\ replace \in [Releases -> Workflows] /\ book \in [Books -> BookRows] /\ TypeInv
      /\ ReplaceT /\ \A r \in Releases : ReleaseOf[r] \in Books
  BY ReleaseAssumption DEF Settings, Base, IndInv, ReplaceT, TypeInv, BookT
<1>1. ~Disturbs
  BY CalmActions DEF Settings, Base, IndInv, Orderly
<1>2. CASE Pipeline
  <2>1. \A r \in Releases : replace'[r].snap \in {replace[r].snap, "wanted"}
    BY <1>0, <1>2 DEF Pipeline, Awaited, NoWorkflow, Workflows
  <2>2. QED
    BY <1>1, <1>2, <2>1, AccountedPipeline DEF Pipeline
<1>3. CASE UNCHANGED allVars
  BY <1>1, <1>3, AccountedPipeline DEF allVars, replaceVars
<1>4. ASSUME NEW r \in Releases, Looks(r) PROVE Accounted'
  <2>1. UNCHANGED <<gate, op, worker, row, book>>
    BY <1>4 DEF Looks, Replace, Gather, ClaimMisses, Missed, vars
  <2>2. \A s \in Releases : replace'[s].snap = "importing" => ~Intents(ReleaseOf[s])
    BY <1>0, <1>4, LooksSnap DEF Accounted, Intents
  <2>3. QED
    BY <2>1, <2>2, AccountedBeside
<1>5. ASSUME NEW r \in Releases, Claim(r) PROVE Accounted'
  <2>1. UNCHANGED <<gate, op, worker, book>> /\ replace' = [replace EXCEPT ![r].pc = "cleanup"]
    BY <1>5 DEF Claim, Goto
  <2>2. \A d \in Downloads : row'[d] = row[d] \/ (Polled(d) /\ Became(d, "failed", "idle"))
    BY <1>0, <1>5, ClaimTurns DEF Settings, Base
  <2>3. \A s \in Releases : replace'[s].snap = replace[s].snap
    BY <1>0, <2>1 DEF Workflows
  <2>4. QED
    BY <2>1, <2>2, <2>3, AccountedBeside DEF Accounted
<1>6. ASSUME NEW r \in Releases, Regrabs(r) PROVE Accounted'
  <2>1. UNCHANGED <<gate, op, worker, book, row>>
    BY <1>6 DEF Regrabs, GrabOrdinary, GrabReplacement, LoseMark
  <2>2. \A s \in Releases : replace'[s].snap \in {replace[s].snap, "wanted"}
    BY <1>0, <1>6 DEF Regrabs, GrabOrdinary, GrabReplacement, LoseMark, Goto, NoWorkflow, Workflows
  <2>3. QED
    BY <2>1, <2>2, AccountedBeside DEF Accounted
<1>7. ASSUME NEW r \in Releases, Revert(r) PROVE Accounted'
  <2>1. UNCHANGED <<gate, op, worker, row>> /\ replace' = [replace EXCEPT ![r] = NoWorkflow]
        /\ book' = MoveStatus(ReleaseOf[r], "downloading", replace[r].snap)
    BY <1>7 DEF Revert
  <2>2. \A s \in Releases : replace'[s].snap \in {replace[s].snap, "wanted"}
    BY <1>0, <2>1 DEF NoWorkflow
  <2>3. \A b \in Books : \/ book'[b].status = book[b].status
                         \/ b = ReleaseOf[r] /\ book'[b].status = replace[r].snap
    <3>1. book' = book \/ book' = SetStatus(ReleaseOf[r], replace[r].snap)
      BY <2>1 DEF MoveStatus
    <3>2. QED
      BY <1>0, <3>1 DEF SetStatus, BookRows
  <2>4. QED
    BY <2>1, <2>2, <2>3, AccountedBeside DEF Accounted
<1>8. QED
  BY <1>2, <1>3, <1>4, <1>5, <1>6, <1>7, ReplaceSteps

\* ... which is empty at the start.
LEMMA AccountedInit == ReplaceInit => Accounted
<1> SUFFICES ASSUME ReplaceInit PROVE Accounted
  OBVIOUS
<1>1. /\ row = [d \in Downloads |-> [client |-> "absent", stage |-> "idle", snap |-> "wanted"]]
      /\ \A b \in Books : book[b].status # "importing"
      /\ replace = [r \in Releases |-> NoWorkflow]
  BY DEF ReplaceInit, Init
<1>2. QED
  BY <1>1 DEF Accounted, Reason, Intents, RowsOf, NoWorkflow

\* When nothing is in flight for a book it does not read importing, in an undisturbed run: whatever may
\* have made it read so has been settled, and settling writes the status.
THEOREM SettledBooks == Ticks = {} => (ReplaceSpec /\ []Undisturbed => []SettledBook)
<1> SUFFICES ASSUME Ticks = {} PROVE ReplaceSpec /\ []Undisturbed => []SettledBook
  OBVIOUS
<1>1. Order /\ Accounted => SettledBook
  <2> SUFFICES ASSUME Order, Accounted, NEW b \in Books, Settled(b), Intents(b), book[b].status = "importing"
               PROVE  FALSE
    BY DEF SettledBook, Intents
  <2>1. PICK d \in RowsOf(b) : Cause(d)
    BY DEF Accounted, Reason
  <2>2. d \in Downloads /\ BookOf[d] = b /\ ~UnderWay(d) /\ op[d].reject = "none" /\ worker.b # b
    BY DEF RowsOf, Settled, InProgress, UnderWay
  <2>3. gate[d].pc # "idle" => gate[d].d = d
    BY <2>2 DEF Order, Base, IndInv, Claims
  <2>4. gate[d].pc # "rejected"
    BY <2>2, <2>3, NoneAssumption DEF Settled, Evaluators
  <2>5. ~(worker.pc \in {"reverting", "marking"} /\ worker.d = d)
    BY <2>2 DEF Order, HasFiles, Belongs
  <2>6. QED
    BY <2>1, <2>2, <2>4, <2>5 DEF Cause
<1>2. Order /\ Undisturbed /\ Undisturbed' /\ [ReplaceNext]_allVars => Order'
  BY OrderStep
<1>3. Order /\ Accounted /\ Undisturbed /\ Undisturbed' /\ [ReplaceNext]_allVars => Accounted'
  BY AccountedStep DEF Order, Settings, HasFiles
<1>4. QED
  BY <1>1, <1>2, <1>3, OrderBegins, AccountedInit, ReplaceSafety, PTL

=============================================================================

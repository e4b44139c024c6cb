------------------------ MODULE ImportPipelineProofs ------------------------
(***************************************************************************)
(* Proofs about ImportPipeline, for any downloads, books, batch runners    *)
(* and bounds.  The inductive invariant is IndInv: the types together with *)
(* who refers to whom (TypeInv), what the process does while it is not up  *)
(* (Quiet), what an evaluation knows of its row (Claims), and three of the *)
(* checked invariants, which are inductive relative to these.  Every       *)
(* preservation lemma has a frame lemma, which names the actions that can  *)
(* disturb the variables it is about, and one step for each of them.       *)
(***************************************************************************)
EXTENDS ImportPipeline, TLAPS

-----------------------------------------------------------------------------
(* Types *)

\* TypeOK and Refs, regrouped by variable
RowOK(r) == /\ r \in [Downloads -> Rows]
            /\ \A d \in Downloads : r[d].client \in {"absent", "deleted"} => r[d].stage = "idle"
RowT == RowOK(row)
BookT == book \in [Books -> BookRows]
JobT == /\ job \in [Books -> Jobs]
        /\ \A b \in Books : job[b].st # "none" => job[b].d \in Downloads
LastT == lastFailed \in [Books -> Downloads \cup {None}]
GateT == /\ gate \in [Evaluators -> Gates]
         /\ \A g \in Evaluators : gate[g].pc # "idle" => gate[g].d \in Downloads
RunT == run \in [Runners -> RunStates]
MonT == /\ mon \in MonStates
        /\ mon.pc # "idle" => mon.d \in Downloads
SearchT == /\ search \in [Books -> Searches]
           /\ \A b \in Books : search[b].by \in {"monitor", "operator"} => search[b].d \in Downloads
AwaitT == \A b \in Books : search[b].by = "monitor" => mon.pc = "waiting" /\ BookOf[mon.d] = b
GrabT == grab \in [Books -> Grabs]
OpT == op \in [Downloads -> Ops]
WorkerT == /\ worker \in WorkerStates
           /\ worker.pc # "idle" => worker.b \in Books /\ worker.d \in Downloads
RestT == phase \in {"down", "draining", "up"} /\ approved \subseteq Downloads
UsedT == used \in [{"cancel", "review", "retry", "delete", "crash"} -> Nat]

TypeInv == /\ RowT /\ BookT /\ JobT /\ LastT /\ GateT /\ RunT /\ MonT
           /\ SearchT /\ AwaitT /\ GrabT /\ OpT /\ WorkerT /\ RestT /\ UsedT

\* The regrouping is exact.
LEMMA TypeInvParts == TypeInv <=> TypeOK /\ Refs
  BY DEF TypeInv, TypeOK, Refs, RowT, RowOK, BookT, JobT, LastT, GateT, RunT, MonT, SearchT, AwaitT, GrabT,
         OpT, WorkerT, RestT, UsedT, Exists, Rows

\* The writes to downloads keep it well formed: they do nothing to a row that is gone.
LEMMA FailTyped == ASSUME RowOK(row), NEW d \in Downloads PROVE RowOK(Fail(d))
  BY DEF RowOK, Fail, Update, Exists, Rows, ClientStatus, PipelineStage

LEMMA DeleteTyped == ASSUME RowOK(row), NEW d \in Downloads PROVE RowOK(Delete(d))
  BY DEF RowOK, Delete, Rows, ClientStatus, PipelineStage

LEMMA StageTyped == ASSUME RowOK(row), NEW d \in Downloads, NEW s \in PipelineStage PROVE RowOK(SetStage(d, s))
  BY DEF RowOK, SetStage, Update, Exists, Rows, ClientStatus, PipelineStage

\* A snapshot is a status of a book, before and after the normalisation of a retry.
LEMMA SnapTyped == ASSUME TypeInv, NEW d \in Downloads PROVE row[d].snap \in BookStatus
  BY DEF TypeInv, RowT, RowOK, Rows

LEMMA NormalizeTyped == ASSUME NEW s \in BookStatus PROVE Normalize(s) \in BookStatus
  BY DEF Normalize, BookStatus

\* The writes to books and import_jobs are typed.
LEMMA StatusTyped == ASSUME TypeInv, NEW b \in Books, NEW s \in BookStatus
                     PROVE book' = SetStatus(b, s) => BookT'
  BY DEF TypeInv, BookT, SetStatus, BookRows

LEMMA MoveTyped == ASSUME TypeInv, NEW b \in Books, NEW s, NEW t \in BookStatus
                     PROVE book' = MoveStatus(b, s, t) => BookT'
  BY DEF TypeInv, BookT, MoveStatus, SetStatus, BookRows

LEMMA EnqueueTyped == ASSUME TypeInv, NEW d \in Downloads PROVE job' = Enqueue(d) => JobT'
  BY BookOfAssumption DEF TypeInv, JobT, Enqueue, Jobs

\* An evaluation that ends leaves no reference behind.
LEMMA GateCleared == ASSUME TypeInv, NEW g \in Evaluators PROVE gate' = [gate EXCEPT ![g] = NoGate] => GateT'
<1>1. NoGate \in Gates /\ NoGate.pc = "idle"
  BY DEF Gates, NoGate
<1>2. QED
  BY <1>1 DEF TypeInv, GateT

\* Asking for a search changes neither who waits nor for what.
LEMMA AskTyped == ASSUME TypeInv, NEW b \in Books, NEW v \in BOOLEAN,
                         search' = [search EXCEPT ![b].asked = v]
                  PROVE SearchT' /\ (mon' = mon => AwaitT')
  BY DEF TypeInv, SearchT, Searches, AwaitT

\* When a search ends, the monitor resumes if, and only if, it was waiting for this one.
LEMMA SearchEnds == ASSUME TypeInv, NEW b \in Books, NEW pc \in {"idle", "recover"},
                           search' = SearchOver(b), mon' = Resume(b, pc)
                    PROVE MonT' /\ SearchT' /\ AwaitT'
<1>1. SearchT'
  BY DEF TypeInv, SearchT, SearchOver, NoSearch, Searches
<1>2. MonT'
  BY DEF TypeInv, MonT, AwaitT, Resume, MonitorAwaits, MonStates
<1>3. AwaitT'
  BY DEF TypeInv, MonT, MonStates, AwaitT, Resume, MonitorAwaits, SearchT, Searches, SearchOver, NoSearch
<1>4. QED
  BY <1>1, <1>2, <1>3

\* What a step leaves alone stays typed.
LEMMA ReviewTyped ==
  ASSUME OpT, NEW d \in Downloads, NEW r \in {"rejecting", "dismissing"}, NEW again \in BOOLEAN,
         op' = [op EXCEPT ![d].reject = r, ![d].again = again]
  PROVE  OpT'
<1> DEFINE o == [op[d] EXCEPT !.reject = r, !.again = again]
<1>1. op[d] \in Ops
  BY DEF OpT
<1>2. o \in Ops
  BY <1>1 DEF Ops
<1>3. op' = [op EXCEPT ![d] = o]
  OBVIOUS
<1> HIDE DEF o
<1> QED
  BY <1>2, <1>3 DEF OpT

LEMMA Frame == ASSUME TypeInv PROVE
  /\ row' = row => RowT'
  /\ book' = book => BookT'
  /\ job' = job => JobT'
  /\ lastFailed' = lastFailed => LastT'
  /\ gate' = gate => GateT'
  /\ run' = run => RunT'
  /\ mon' = mon => MonT'
  /\ search' = search => SearchT'
  /\ search' = search /\ mon' = mon => AwaitT'
  /\ grab' = grab => GrabT'
  /\ op' = op => OpT'
  /\ worker' = worker => WorkerT'
  /\ phase' = phase /\ approved' = approved => RestT'
  /\ used' = used => UsedT'
  BY DEF TypeInv, RowT, RowOK, BookT, JobT, LastT, GateT, RunT, MonT, SearchT, AwaitT, GrabT, OpT, WorkerT,
     RestT, UsedT

\* Every action preserves the types: one step per action, one below it per variable it assigns.
LEMMA TypeStep == TypeInv /\ [Next]_vars => TypeInv'
<1> SUFFICES ASSUME TypeInv, [Next]_vars PROVE TypeInv'
  OBVIOUS
<1>1. ASSUME MonitorPoll PROVE TypeInv'
  <2>1. MonT'
    BY <1>1 DEF MonitorPoll, TypeInv, MonT, MonStates
  <2>2. AwaitT'
    BY <1>1 DEF MonitorPoll, TypeInv, AwaitT, MonT, MonStates, SearchT, Searches
  <2>3. QED
    BY <1>1, <2>1, <2>2, Frame DEF MonitorPoll, TypeInv
<1>2. ASSUME MonitorGiveUp PROVE TypeInv'
  <2>1. MonT'
    BY <1>2 DEF MonitorGiveUp, TypeInv, MonT, MonStates
  <2>2. AwaitT'
    BY <1>2 DEF MonitorGiveUp, TypeInv, AwaitT, MonT, MonStates, SearchT, Searches
  <2>3. QED
    BY <1>2, <2>1, <2>2, Frame DEF MonitorGiveUp, TypeInv
<1>3. ASSUME MonitorSearch PROVE TypeInv'
  <2>1. MonT'
    BY <1>3 DEF MonitorSearch, TypeInv, MonT, MonStates, MonitorDone
  <2>2. SearchT'
    BY <1>3, BookOfAssumption, SMTT(60) DEF MonitorSearch, TypeInv, SearchT, Searches, MonT
  <2>3. AwaitT'
    BY <1>3, BookOfAssumption DEF MonitorSearch, TypeInv, AwaitT, MonT, MonStates, SearchT,
       Searches, MonitorDone
  <2>4. QED
    BY <1>3, <2>1, <2>2, <2>3, Frame DEF MonitorSearch, TypeInv
<1>4. ASSUME MonitorRecover PROVE TypeInv'
  <2>1. MonT'
    BY <1>4 DEF MonitorRecover, TypeInv, MonT, MonStates, MonitorDone
  <2>2. AwaitT'
    BY <1>4 DEF MonitorRecover, TypeInv, AwaitT, MonT, MonStates, SearchT, Searches, MonitorDone
  <2>3. QED
    BY <1>4, <2>1, <2>2, Frame DEF MonitorRecover, TypeInv
<1>5. ASSUME MonitorRevert PROVE TypeInv'
  <2>1. BookT'
    BY <1>5, StatusTyped, SnapTyped, BookOfAssumption DEF MonitorRevert, TypeInv, MonT, BookStatus
  <2>2. MonT'
    BY <1>5 DEF MonitorRevert, TypeInv, MonT, MonStates, MonitorDone
  <2>3. AwaitT'
    BY <1>5 DEF MonitorRevert, TypeInv, AwaitT, MonT, MonStates, SearchT, Searches, MonitorDone
  <2>4. QED
    BY <1>5, <2>1, <2>2, <2>3, Frame DEF MonitorRevert, TypeInv
<1>6. ASSUME WorkerLoad PROVE TypeInv'
  <2>1. WorkerT'
    BY <1>6 DEF WorkerLoad, TypeInv, WorkerT, WorkerStates
  <2>2. QED
    BY <1>6, <2>1, Frame DEF WorkerLoad, TypeInv
<1>7. ASSUME WorkerStart PROVE TypeInv'
  <2>1. RowT'
    BY <1>7, StageTyped DEF WorkerStart, TypeInv, RowT, WorkerT, PipelineStage
  <2>2. WorkerT'
    BY <1>7 DEF WorkerStart, TypeInv, WorkerT, WorkerStates
  <2>3. QED
    BY <1>7, <2>1, <2>2, Frame DEF WorkerStart, TypeInv
<1>8. ASSUME WorkerCommit PROVE TypeInv'
  <2>1. RowT'
    BY <1>8, StageTyped DEF WorkerCommit, TypeInv, RowT, WorkerT, PipelineStage
  <2>2. BookT'
    BY <1>8 DEF WorkerCommit, TypeInv, BookT, BookRows, BookStatus, WorkerT
  <2>3. WorkerT'
    BY <1>8 DEF WorkerCommit, TypeInv, WorkerT, WorkerStates
  <2>4. QED
    BY <1>8, <2>1, <2>2, <2>3, Frame DEF WorkerCommit, TypeInv
<1>9. ASSUME WorkerFinalize PROVE TypeInv'
  <2>1. JobT'
    BY <1>9 DEF WorkerFinalize, TypeInv, JobT, Jobs, NoJob, WorkerT
  <2>2. WorkerT'
    BY <1>9 DEF WorkerFinalize, TypeInv, WorkerT, WorkerStates, NoWorker
  <2>3. QED
    BY <1>9, <2>1, <2>2, Frame DEF WorkerFinalize, TypeInv
<1>10. ASSUME WorkerFail PROVE TypeInv'
  <2>1. RowT'
    BY <1>10, FailTyped DEF WorkerFail, TypeInv, RowT, WorkerT
  <2>2. WorkerT'
    BY <1>10 DEF WorkerFail, TypeInv, WorkerT, WorkerStates
  <2>3. QED
    BY <1>10, <2>1, <2>2, Frame DEF WorkerFail, TypeInv
<1>11. ASSUME WorkerRevert PROVE TypeInv'
  <2>1. BookT'
    BY <1>11, StatusTyped, SnapTyped DEF WorkerRevert, TypeInv, WorkerT
  <2>2. SearchT'
    BY <1>11, AskTyped DEF WorkerRevert, TypeInv, WorkerT, SearchT, Searches
  <2>3. WorkerT'
    BY <1>11 DEF WorkerRevert, TypeInv, WorkerT, WorkerStates
  <2>4. AwaitT'
    BY <1>11, AskTyped DEF WorkerRevert, TypeInv, WorkerT, SearchT, Searches
  <2>5. QED
    BY <1>11, <2>1, <2>2, <2>3, <2>4, Frame DEF WorkerRevert, TypeInv
<1>12. ASSUME WorkerMark PROVE TypeInv'
  <2>1. BookT'
    BY <1>12, MoveTyped DEF WorkerMark, TypeInv, BookStatus, WorkerT
  <2>2. JobT'
    BY <1>12 DEF WorkerMark, TypeInv, JobT, Jobs, NoJob, WorkerT
  <2>3. LastT'
    BY <1>12 DEF WorkerMark, TypeInv, LastT, WorkerT
  <2>4. WorkerT'
    BY <1>12 DEF WorkerMark, TypeInv, WorkerT, WorkerStates, NoWorker
  <2>5. QED
    BY <1>12, <2>1, <2>2, <2>3, <2>4, Frame DEF WorkerMark, TypeInv
<1>13. ASSUME Crash PROVE TypeInv'
  <2>1. GateT'
    BY <1>13 DEF Crash, TypeInv, GateT, Gates, NoGate
  <2>2. RunT'
    BY <1>13 DEF Crash, TypeInv, RunT, RunStates, NoRun
  <2>3. MonT'
    BY <1>13 DEF Crash, TypeInv, MonT, MonStates, NoMon
  <2>4. SearchT'
    BY <1>13 DEF Crash, TypeInv, SearchT, Searches, NoSearch
  <2>5. GrabT'
    BY <1>13 DEF Crash, TypeInv, GrabT, Grabs, BookStatus, NoGrab
  <2>6. OpT'
    BY <1>13 DEF Crash, TypeInv, OpT, Ops, NoOp
  <2>7. WorkerT'
    BY <1>13 DEF Crash, TypeInv, WorkerT, WorkerStates, NoWorker
  <2>8. RestT'
    BY <1>13 DEF Crash, TypeInv, RestT
  <2>9. UsedT'
    BY <1>13 DEF Crash, TypeInv, UsedT
  <2>10. AwaitT'
    BY <1>13 DEF Crash, TypeInv, AwaitT, NoSearch, NoMon
  <2>11. QED
    BY <1>13, <2>1, <2>2, <2>3, <2>4, <2>5, <2>6, <2>7, <2>8, <2>9, <2>10, Frame DEF Crash, TypeInv
<1>14. ASSUME Boot PROVE TypeInv'
  <2>1. JobT'
    <3>1. ASSUME NEW b \in Books PROVE job'[b] \in Jobs /\ (job'[b].st # "none" => job'[b].d \in Downloads)
      <4>1. CASE Requeued(b)
        BY <1>14, <4>1 DEF Boot, TypeInv, JobT, Jobs, Orphaned, Requeued
      <4>2. CASE ~Requeued(b)
        BY <1>14, <4>2 DEF Boot, TypeInv, JobT, Jobs, NoJob
      <4>3. QED
        BY <4>1, <4>2
    <3>2. QED
      BY <1>14, <3>1 DEF Boot, JobT
  <2>2. LastT'
    BY <1>14 DEF Boot, TypeInv, LastT, JobT, Jobs
  <2>3. RestT'
    BY <1>14 DEF Boot, TypeInv, RestT
  <2>4. QED
    BY <1>14, <2>1, <2>2, <2>3, Frame DEF Boot, TypeInv
<1>15. ASSUME StartupReset PROVE TypeInv'
  <2>1. RowT'
    BY <1>15 DEF StartupReset, TypeInv, RowT, RowOK, Rows, PipelineStage, Stuck
  <2>2. RunT'
    BY <1>15 DEF StartupReset, TypeInv, RunT, RunStates
  <2>3. RestT'
    BY <1>15 DEF StartupReset, TypeInv, RestT
  <2>4. QED
    BY <1>15, <2>1, <2>2, <2>3, Frame DEF StartupReset, TypeInv
<1>16. ASSUME NEW d \in Downloads, MonitorSkip(d) PROVE TypeInv'
  <2>1. MonT'
    BY <1>16 DEF MonitorSkip, TypeInv, MonT, MonStates
  <2>2. AwaitT'
    BY <1>16 DEF MonitorSkip, TypeInv, AwaitT, MonT, MonStates, SearchT, Searches
  <2>3. QED
    BY <1>16, <2>1, <2>2, Frame DEF MonitorSkip, TypeInv
<1>17. ASSUME NEW d \in Downloads, MonitorComplete(d) PROVE TypeInv'
  <2>1. RowT'
    BY <1>17 DEF MonitorComplete, TypeInv, RowT, RowOK, Rows, ClientStatus, MonitorLands, Polled
  <2>2. GateT'
    BY <1>17 DEF MonitorComplete, TypeInv, GateT, Gates, NoGate
  <2>3. MonT'
    BY <1>17 DEF MonitorComplete, TypeInv, MonT, MonStates
  <2>4. AwaitT'
    BY <1>17 DEF MonitorComplete, TypeInv, AwaitT, MonT, MonStates, SearchT, Searches
  <2>5. QED
    BY <1>17, <2>1, <2>2, <2>3, <2>4, Frame DEF MonitorComplete, TypeInv
<1>18. ASSUME NEW d \in Downloads, MonitorFail(d) PROVE TypeInv'
  <2>1. RowT'
    BY <1>18 DEF MonitorFail, TypeInv, RowT, RowOK, Rows, ClientStatus, MonitorLands, Polled
  <2>2. MonT'
    BY <1>18 DEF MonitorFail, TypeInv, MonT, MonStates
  <2>3. AwaitT'
    BY <1>18 DEF MonitorFail, TypeInv, AwaitT, MonT, MonStates, SearchT, Searches
  <2>4. QED
    BY <1>18, <2>1, <2>2, <2>3, Frame DEF MonitorFail, TypeInv
<1>19. ASSUME NEW d \in Downloads, GateLoad(d) PROVE TypeInv'
  <2>1. GateT'
    BY <1>19, BookOfAssumption DEF GateLoad, TypeInv, GateT, Gates, BookT, BookRows, Evaluators, NoGate
  <2>2. QED
    BY <1>19, <2>1, Frame DEF GateLoad, TypeInv
<1>20. ASSUME NEW d \in Downloads, GateClaim(d) PROVE TypeInv'
  <2>1. RowT'
    BY <1>20, StageTyped DEF GateClaim, TypeInv, RowT, PipelineStage
  <2>2. GateT'
    <3>1. CASE Claimable(d)
      BY <1>20, <3>1 DEF GateClaim, TypeInv, GateT, Gates, Evaluators
    <3>2. CASE ~Claimable(d)
      BY <1>20, <3>2, GateCleared DEF GateClaim, Evaluators
    <3>3. QED
      BY <3>1, <3>2
  <2>3. QED
    BY <1>20, <2>1, <2>2, Frame DEF GateClaim, TypeInv
<1>21. ASSUME NEW d \in Downloads, GateMarkBook(d) PROVE TypeInv'
  <2>1. BookT'
    BY <1>21, StatusTyped, BookOfAssumption DEF GateMarkBook, TypeInv, BookStatus
  <2>2. GateT'
    BY <1>21 DEF GateMarkBook, TypeInv, GateT, Gates
  <2>3. QED
    BY <1>21, <2>1, <2>2, Frame DEF GateMarkBook, TypeInv
<1>22. ASSUME NEW d \in Downloads, Cancel(d) PROVE TypeInv'
  <2>1. OpT'
    BY <1>22 DEF Cancel, TypeInv, OpT, Ops
  <2>2. UsedT'
    BY <1>22 DEF Cancel, TypeInv, UsedT, Request
  <2>3. QED
    BY <1>22, <2>1, <2>2, Frame DEF Cancel, TypeInv
<1>23. ASSUME NEW d \in Downloads, Approve(d) PROVE TypeInv'
  <2>1. OpT'
    BY <1>23 DEF Approve, TypeInv, OpT, Ops
  <2>2. UsedT'
    BY <1>23 DEF Approve, TypeInv, UsedT, Request
  <2>3. QED
    BY <1>23, <2>1, <2>2, Frame DEF Approve, TypeInv
<1>24. ASSUME NEW d \in Downloads, Reject(d) PROVE TypeInv'
  <2>1. OpT'
    BY <1>24, ReviewTyped DEF Reject, TypeInv
  <2>2. UsedT'
    BY <1>24 DEF Reject, TypeInv, UsedT, Request
  <2>3. QED
    BY <1>24, <2>1, <2>2, Frame DEF Reject, TypeInv
<1>25. ASSUME NEW d \in Downloads, RetryDownload(d) PROVE TypeInv'
  <2>1. SearchT'
    BY <1>25, BookOfAssumption DEF RetryDownload, TypeInv, SearchT, Searches
  <2>2. UsedT'
    BY <1>25 DEF RetryDownload, TypeInv, UsedT, Request
  <2>3. AwaitT'
    BY <1>25, BookOfAssumption DEF RetryDownload, TypeInv, AwaitT, SearchT, Searches
  <2>4. QED
    BY <1>25, <2>1, <2>2, <2>3, Frame DEF RetryDownload, TypeInv
<1>26. ASSUME NEW d \in Downloads, DeleteHistory(d) PROVE TypeInv'
  <2>1. OpT'
    BY <1>26 DEF DeleteHistory, TypeInv, OpT, Ops
  <2>2. UsedT'
    BY <1>26 DEF DeleteHistory, TypeInv, UsedT, Request
  <2>3. QED
    BY <1>26, <2>1, <2>2, Frame DEF DeleteHistory, TypeInv
<1>27. ASSUME NEW d \in Downloads, CancelWrite(d) PROVE TypeInv'
  <2>1. RowT'
    BY <1>27, FailTyped DEF CancelWrite, TypeInv, RowT
  <2>2. OpT'
    BY <1>27 DEF CancelWrite, TypeInv, OpT, Ops
  <2>3. QED
    BY <1>27, <2>1, <2>2, Frame DEF CancelWrite, TypeInv
<1>28. ASSUME NEW d \in Downloads, CancelRevert(d) PROVE TypeInv'
  <2>1. BookT'
    BY <1>28, StatusTyped, SnapTyped, BookOfAssumption DEF CancelRevert, TypeInv
  <2>2. OpT'
    BY <1>28 DEF CancelRevert, TypeInv, OpT, Ops
  <2>3. QED
    BY <1>28, <2>1, <2>2, Frame DEF CancelRevert, TypeInv
<1>29. ASSUME NEW d \in Downloads, ApproveWrite(d) PROVE TypeInv'
  <2>1. RowT'
    BY <1>29, StageTyped DEF ApproveWrite, TypeInv, RowT, PipelineStage
  <2>2. OpT'
    BY <1>29 DEF ApproveWrite, TypeInv, OpT, Ops
  <2>3. RestT'
    BY <1>29 DEF ApproveWrite, TypeInv, RestT
  <2>4. QED
    BY <1>29, <2>1, <2>2, <2>3, Frame DEF ApproveWrite, TypeInv
<1>30. ASSUME NEW d \in Downloads, ApproveEnqueue(d) PROVE TypeInv'
  <2>1. JobT'
    BY <1>30, EnqueueTyped DEF ApproveEnqueue, TypeInv
  <2>2. OpT'
    BY <1>30 DEF ApproveEnqueue, TypeInv, OpT, Ops
  <2>3. QED
    BY <1>30, <2>1, <2>2, Frame DEF ApproveEnqueue, TypeInv
<1>31. ASSUME NEW d \in Downloads, RejectWrite(d) PROVE TypeInv'
  <2>1. RowT'
    BY <1>31, FailTyped DEF RejectWrite, TypeInv, RowT
  <2>2. OpT'
    BY <1>31 DEF RejectWrite, TypeInv, OpT, Ops
  <2>3. QED
    BY <1>31, <2>1, <2>2, Frame DEF RejectWrite, TypeInv
<1>32. ASSUME NEW d \in Downloads, RejectSearch(d) PROVE TypeInv'
  <2>1. SearchT'
    BY <1>32, AskTyped, BookOfAssumption DEF RejectSearch, TypeInv, OpT, Ops, SearchT, Searches
  <2>2. OpT'
    BY <1>32, ReviewTyped DEF RejectSearch, TypeInv
  <2>3. AwaitT'
    BY <1>32, AskTyped, BookOfAssumption DEF RejectSearch, TypeInv, OpT, Ops, SearchT, Searches
  <2>4. QED
    BY <1>32, <2>1, <2>2, <2>3, Frame DEF RejectSearch, TypeInv
<1>33. ASSUME NEW d \in Downloads, RejectRevert(d) PROVE TypeInv'
  <2>1. BookT'
    BY <1>33, StatusTyped, SnapTyped, BookOfAssumption DEF RejectRevert, TypeInv
  <2>2. OpT'
    BY <1>33 DEF RejectRevert, TypeInv, OpT, Ops
  <2>3. QED
    BY <1>33, <2>1, <2>2, Frame DEF RejectRevert, TypeInv
<1>34. ASSUME NEW d \in Downloads, DeleteWrite(d) PROVE TypeInv'
  <2>1. RowT'
    BY <1>34, DeleteTyped DEF DeleteWrite, TypeInv, RowT
  <2>2. OpT'
    BY <1>34 DEF DeleteWrite, TypeInv, OpT, Ops
  <2>3. QED
    BY <1>34, <2>1, <2>2, Frame DEF DeleteWrite, TypeInv
<1>35. ASSUME NEW g \in Evaluators, GateHold(g) PROVE TypeInv'
  <2>1. RowT'
    BY <1>35, StageTyped DEF GateHold, TypeInv, RowT, GateT, PipelineStage
  <2>2. GateT'
    BY <1>35 DEF GateHold, TypeInv, GateT, Gates
  <2>3. QED
    BY <1>35, <2>1, <2>2, Frame DEF GateHold, TypeInv
<1>36. ASSUME NEW g \in Evaluators, GateAutoImport(g) PROVE TypeInv'
  <2>1. RowT'
    BY <1>36, StageTyped DEF GateAutoImport, TypeInv, RowT, GateT, PipelineStage
  <2>2. GateT'
    BY <1>36 DEF GateAutoImport, TypeInv, GateT, Gates
  <2>3. RestT'
    BY <1>36 DEF GateAutoImport, TypeInv, RestT, GateT
  <2>4. QED
    BY <1>36, <2>1, <2>2, <2>3, Frame DEF GateAutoImport, TypeInv
<1>37. ASSUME NEW g \in Evaluators, GateReject(g) PROVE TypeInv'
  <2>1. RowT'
    BY <1>37, FailTyped DEF GateReject, TypeInv, RowT, GateT
  <2>2. GateT'
    BY <1>37 DEF GateReject, TypeInv, GateT, Gates
  <2>3. QED
    BY <1>37, <2>1, <2>2, Frame DEF GateReject, TypeInv
<1>38. ASSUME NEW g \in Evaluators, GateHeld(g) PROVE TypeInv'
  <2>1. BookT'
    BY <1>38, MoveTyped, BookOfAssumption DEF GateHeld, TypeInv, BookT, GateT, BookStatus
  <2>2. GateT'
    BY <1>38 DEF GateHeld, TypeInv, GateT, Gates, NoGate
  <2>3. QED
    BY <1>38, <2>1, <2>2, Frame DEF GateHeld, TypeInv
<1>39. ASSUME NEW g \in Evaluators, GateEnqueue(g) PROVE TypeInv'
  <2>1. JobT'
    BY <1>39, EnqueueTyped DEF GateEnqueue, TypeInv, JobT, GateT
  <2>2. GateT'
    BY <1>39 DEF GateEnqueue, TypeInv, GateT, Gates, NoGate
  <2>3. QED
    BY <1>39, <2>1, <2>2, Frame DEF GateEnqueue, TypeInv
<1>40. ASSUME NEW g \in Evaluators, GateRejected(g) PROVE TypeInv'
  <2>1. BookT'
    BY <1>40, StatusTyped, SnapTyped, BookOfAssumption DEF GateRejected, TypeInv, GateT
  <2>2. GateT'
    BY <1>40 DEF GateRejected, TypeInv, GateT, Gates, NoGate
  <2>3. SearchT'
    BY <1>40, AskTyped, BookOfAssumption DEF GateRejected, TypeInv, GateT
  <2>4. AwaitT'
    BY <1>40, AskTyped, BookOfAssumption DEF GateRejected, TypeInv, GateT
  <2>5. QED
    BY <1>40, <2>1, <2>2, <2>3, <2>4, Frame DEF GateRejected, TypeInv
<1>41. ASSUME NEW r \in Runners, RunnerSelect(r) PROVE TypeInv'
  <2>1. RunT'
    BY <1>41 DEF RunnerSelect, TypeInv, RunT, RunStates
  <2>2. QED
    BY <1>41, <2>1, Frame DEF RunnerSelect, TypeInv
<1>42. ASSUME NEW r \in Runners, RunnerImports(r) PROVE TypeInv'
  <2>1. RunT'
    BY <1>42 DEF RunnerImports, TypeInv, RunT, RunStates, NoRun
  <2>2. QED
    BY <1>42, <2>1, Frame DEF RunnerImports, TypeInv
<1>43. ASSUME NEW r \in Runners, NEW d \in Downloads, RunnerClaim(r, d) PROVE TypeInv'
  <2>1. RowT'
    BY <1>43, StageTyped DEF RunnerClaim, TypeInv, RowT, PipelineStage
  <2>2. GateT'
    <3>1. CASE Claimable(d)
      <4> DEFINE e == [pc |-> "probing", d |-> d, imp |-> BookOf[d] \in run[r].imp,
                       path |-> BookOf[d] \in run[r].path]
      <4>1. e \in Gates /\ e.d \in Downloads
        BY DEF Gates
      <4>2. gate' = [gate EXCEPT ![r] = e]
        BY <1>43, <3>1 DEF RunnerClaim
      <4> HIDE DEF e
      <4>3. QED
        BY <4>1, <4>2 DEF TypeInv, GateT
    <3>2. CASE ~Claimable(d)
      BY <1>43, <3>2 DEF RunnerClaim, TypeInv, GateT
    <3>3. QED
      BY <3>1, <3>2
  <2>3. RunT'
    BY <1>43 DEF RunnerClaim, TypeInv, RunT, RunStates
  <2>4. QED
    BY <1>43, <2>1, <2>2, <2>3, Frame DEF RunnerClaim, TypeInv
<1>44. ASSUME NEW r \in Runners, NEW d \in Downloads, RunnerEnqueue(r, d) PROVE TypeInv'
  <2>1. JobT'
    BY <1>44, EnqueueTyped DEF RunnerEnqueue, TypeInv, RunT, RunStates
  <2>2. RunT'
    BY <1>44 DEF RunnerEnqueue, TypeInv, RunT, RunStates, NoRun
  <2>3. QED
    BY <1>44, <2>1, <2>2, Frame DEF RunnerEnqueue, TypeInv
<1>45. ASSUME NEW b \in Books, WorkerClaim(b) PROVE TypeInv'
  <2>1. JobT'
    BY <1>45 DEF WorkerClaim, TypeInv, JobT, Jobs
  <2>2. WorkerT'
    BY <1>45 DEF WorkerClaim, TypeInv, WorkerT, WorkerStates, JobT
  <2>3. QED
    BY <1>45, <2>1, <2>2, Frame DEF WorkerClaim, TypeInv
<1>46. ASSUME NEW b \in Books, SearchBegin(b) PROVE TypeInv'
  <2>1. SearchT'
    BY <1>46 DEF SearchBegin, TypeInv, SearchT, Searches
  <2>2. AwaitT'
    BY <1>46 DEF SearchBegin, TypeInv, AwaitT, MonT, MonStates, SearchT, Searches
  <2>3. QED
    BY <1>46, <2>1, <2>2, Frame DEF SearchBegin, TypeInv
<1>47. ASSUME NEW b \in Books, SearchFails(b) PROVE TypeInv'
  <2>1. MonT'
    BY <1>47, SearchEnds DEF SearchFails, TypeInv
  <2>2. SearchT'
    BY <1>47, SearchEnds DEF SearchFails, TypeInv
  <2>3. GrabT'
    BY <1>47 DEF SearchFails, TypeInv, GrabT, Grabs, BookStatus, NoGrab
  <2>4. AwaitT'
    BY <1>47, SearchEnds DEF SearchFails, TypeInv
  <2>5. QED
    BY <1>47, <2>1, <2>2, <2>3, <2>4, Frame DEF SearchFails, TypeInv
<1>48. ASSUME NEW b \in Books, GrabForRetry(b) PROVE TypeInv'
  <2>1. MonT'
    BY <1>48, SearchEnds, Frame DEF GrabForRetry, TypeInv
  <2>2. SearchT'
    BY <1>48, SearchEnds, Frame DEF GrabForRetry, TypeInv
  <2>3. GrabT'
    <3>1. CASE Blocked(b)
      BY <1>48, <3>1 DEF GrabForRetry, TypeInv, GrabT
    <3>2. CASE ~Blocked(b)
      <4> DEFINE seen == IF search[b].d # None THEN row[search[b].d].snap ELSE book[b].status
      <4>1. seen \in BookStatus
        BY SnapTyped DEF TypeInv, SearchT, Searches, BookT, BookRows
      <4>2. grab' = [grab EXCEPT ![b] = [pc |-> "sending", snap |-> Normalize(seen), retry |-> TRUE]]
        BY <1>48, <3>2 DEF GrabForRetry
      <4>3. QED
        BY <4>1, <4>2, NormalizeTyped DEF TypeInv, GrabT, Grabs
    <3>3. QED
      BY <3>1, <3>2
  <2>4. AwaitT'
    BY <1>48, SearchEnds, Frame DEF GrabForRetry, TypeInv
  <2>5. QED
    BY <1>48, <2>1, <2>2, <2>3, <2>4, Frame DEF GrabForRetry, TypeInv
<1>49. ASSUME NEW b \in Books, SearchRetried(b) PROVE TypeInv'
  <2>1. RowT'
    BY <1>49, DeleteTyped DEF SearchRetried, TypeInv, RowT, SearchT
  <2>2. MonT'
    BY <1>49, SearchEnds DEF SearchRetried, TypeInv
  <2>3. SearchT'
    BY <1>49, SearchEnds DEF SearchRetried, TypeInv
  <2>4. AwaitT'
    BY <1>49, SearchEnds DEF SearchRetried, TypeInv
  <2>5. QED
    BY <1>49, <2>1, <2>2, <2>3, <2>4, Frame DEF SearchRetried, TypeInv
<1>50. ASSUME NEW b \in Books, SearchDeadline(b) PROVE TypeInv'
  <2>1. MonT'
    BY <1>50 DEF SearchDeadline, TypeInv, MonT, MonStates, AwaitT, Resume, MonitorAwaits
  <2>2. SearchT'
    BY <1>50 DEF SearchDeadline, TypeInv, SearchT, Searches
  <2>3. AwaitT'
    BY <1>50 DEF SearchDeadline, TypeInv, AwaitT, MonT, MonStates, SearchT, Searches, Resume,
       MonitorAwaits
  <2>4. QED
    BY <1>50, <2>1, <2>2, <2>3, Frame DEF SearchDeadline, TypeInv
<1>51. ASSUME NEW b \in Books, GrabCapture(b) PROVE TypeInv'
  <2>1. GrabT'
    BY <1>51 DEF GrabCapture, TypeInv, GrabT, Grabs, BookT, BookRows
  <2>2. QED
    BY <1>51, <2>1, Frame DEF GrabCapture, TypeInv
<1>52. ASSUME NEW b \in Books, GrabCheck(b) PROVE TypeInv'
  <2>1. GrabT'
    BY <1>52 DEF GrabCheck, TypeInv, GrabT, Grabs, BookStatus, NoGrab
  <2>2. QED
    BY <1>52, <2>1, Frame DEF GrabCheck, TypeInv
<1>53. ASSUME NEW b \in Books, GrabFails(b) PROVE TypeInv'
  <2>1. GrabT'
    BY <1>53 DEF GrabFails, TypeInv, GrabT, Grabs, BookStatus, NoGrab
  <2>2. QED
    BY <1>53, <2>1, Frame DEF GrabFails, TypeInv
<1>54. ASSUME NEW b \in Books, GrabMarkBook(b) PROVE TypeInv'
  <2>1. BookT'
    BY <1>54, StatusTyped DEF GrabMarkBook, TypeInv, BookStatus
  <2>2. SearchT'
    BY <1>54 DEF GrabMarkBook, TypeInv, SearchT, Searches
  <2>3. GrabT'
    BY <1>54 DEF GrabMarkBook, TypeInv, GrabT, Grabs, BookStatus, NoGrab
  <2>4. AwaitT'
    BY <1>54 DEF GrabMarkBook, TypeInv, AwaitT, MonT, MonStates, SearchT, Searches
  <2>5. QED
    BY <1>54, <2>1, <2>2, <2>3, <2>4, Frame DEF GrabMarkBook, TypeInv
<1>55. ASSUME NEW b \in Books, RetryImport(b) PROVE TypeInv'
  <2>1. BookT'
    BY <1>55, StatusTyped DEF RetryImport, TypeInv, BookStatus
  <2>2. JobT'
    BY <1>55 DEF RetryImport, TypeInv, JobT, Jobs, LastT
  <2>3. UsedT'
    BY <1>55 DEF RetryImport, TypeInv, UsedT, Request
  <2>4. QED
    BY <1>55, <2>1, <2>2, <2>3, Frame DEF RetryImport, TypeInv
<1>56. ASSUME NEW b \in Books, NEW d \in Downloads, GrabInsert(b, d) PROVE TypeInv'
  <2>1. RowT'
    BY <1>56 DEF GrabInsert, TypeInv, RowT, RowOK, Rows, GrabT, Grabs, ClientStatus, PipelineStage
  <2>2. GrabT'
    BY <1>56 DEF GrabInsert, TypeInv, GrabT, Grabs
  <2>3. QED
    BY <1>56, <2>1, <2>2, Frame DEF GrabInsert, TypeInv
<1>57. ASSUME UNCHANGED vars PROVE TypeInv'
  BY <1>57, Frame DEF vars, TypeInv
<1>58. QED
  BY <1>1, <1>2, <1>3, <1>4, <1>5, <1>6, <1>7, <1>8, <1>9, <1>10, <1>11, <1>12, <1>13, <1>14,
     <1>15, <1>16, <1>17, <1>18, <1>19, <1>20, <1>21, <1>22, <1>23, <1>24, <1>25, <1>26, <1>27,
        <1>28, <1>29, <1>30, <1>31, <1>32, <1>33, <1>34, <1>35, <1>36, <1>37, <1>38, <1>39, <1>40,
           <1>41, <1>42, <1>43, <1>44, <1>45, <1>46, <1>47, <1>48, <1>49, <1>50, <1>51, <1>52,
              <1>53, <1>54, <1>55, <1>56, <1>57
  DEF Next, MonitorPass, MonitorFailure, InlineGate, GateDecides, GateSettles, Batch, Searching,
     Grabbing, Worker, Operator, Operation

-----------------------------------------------------------------------------
(* The rows of downloads *)

\* The actions that write a row
RowAction ==
  \/ WorkerStart \/ WorkerCommit \/ WorkerFail \/ StartupReset
  \/ \E d \in Downloads : \/ MonitorComplete(d) \/ MonitorFail(d) \/ GateClaim(d) \/ CancelWrite(d)
                          \/ ApproveWrite(d) \/ RejectWrite(d) \/ DeleteWrite(d)
  \/ \E g \in Evaluators : GateHold(g) \/ GateAutoImport(g) \/ GateReject(g)
  \/ \E r \in Runners, d \in Downloads : RunnerClaim(r, d)
  \/ \E b \in Books : SearchRetried(b) \/ \E d \in Downloads : GrabInsert(b, d)

\* Nothing else does.
LEMMA RowFrame == [Next]_vars => row' = row \/ RowAction
<1>1. CASE UNCHANGED vars
  BY <1>1 DEF vars
<1>2. CASE Next
  BY <1>2 DEF RowAction, Next, MonitorPass, MonitorFailure, InlineGate, GateDecides, GateSettles, Batch,
   Searching, Grabbing, Worker, Operator, Operation,
   MonitorPoll, MonitorGiveUp, MonitorSearch, MonitorRecover, MonitorRevert, WorkerLoad, WorkerFinalize,
   WorkerRevert, WorkerMark, Crash, Boot,
   MonitorSkip, GateLoad, GateMarkBook, Cancel, Approve, Reject, RetryDownload, DeleteHistory, CancelRevert,
   ApproveEnqueue, RejectSearch, RejectRevert,
   GateHeld, GateEnqueue, GateRejected, RunnerSelect, RunnerImports, RunnerEnqueue, WorkerClaim, SearchBegin,
   SearchFails, GrabForRetry, SearchDeadline, GrabCapture, GrabCheck, GrabFails, GrabMarkBook, RetryImport
<1> QED BY <1>1, <1>2

\* What a write of (failed, idle) or of a stage does to every row
LEMMA FailWrites == ASSUME RowOK(row), NEW d \in Downloads, row' = Fail(d)
   PROVE \A e \in Downloads : row'[e].client = row[e].client \/ (row'[e].client = "failed" /\ Exists(e))
  BY DEF RowOK, Fail, Update, Exists, Rows
LEMMA StageWrites == ASSUME RowOK(row), NEW d \in Downloads, NEW s \in PipelineStage, row' = SetStage(d, s)
   PROVE \A e \in Downloads : /\ row'[e].client = row[e].client 
                              /\ row'[e].stage \in {row[e].stage, s}
                              /\ e # d => row'[e] = row[e]
                              /\ e = d /\ Exists(d) => row'[e].stage = s
  BY DEF RowOK, SetStage, Update, Exists, Rows

\* One step of FailedIsFinal
FailedStays == \A d \in Downloads : row[d].client = "failed" => row'[d].client \in {"failed", "deleted"}

\* No write takes the client axis out of failed but a deletion.
LEMMA FailedStep == TypeInv /\ RowAction => FailedStays
<1> SUFFICES ASSUME TypeInv, RowAction PROVE FailedStays
  OBVIOUS
<1> USE DEF TypeInv, RowT
<1>1. CASE WorkerStart
  BY <1>1, StageWrites DEF WorkerStart, WorkerT, PipelineStage, FailedStays
<1>2. CASE WorkerCommit
  BY <1>2, StageWrites DEF WorkerCommit, WorkerT, PipelineStage, FailedStays
<1>3. CASE WorkerFail
  BY <1>3, FailWrites DEF WorkerFail, WorkerT, FailedStays
<1>4. CASE StartupReset
  BY <1>4 DEF StartupReset, RowOK, Rows, FailedStays
<1>5. ASSUME NEW d \in Downloads, MonitorComplete(d) \/ MonitorFail(d) PROVE FailedStays
  BY <1>5 DEF MonitorComplete, MonitorFail, MonitorLands, Polled, RowOK, Rows, FailedStays
<1>6. ASSUME NEW d \in Downloads, GateClaim(d) PROVE FailedStays
  BY <1>6, StageWrites DEF GateClaim, PipelineStage, FailedStays
<1>7. ASSUME NEW d \in Downloads, CancelWrite(d) \/ RejectWrite(d) PROVE FailedStays
  BY <1>7, FailWrites DEF CancelWrite, RejectWrite, FailedStays
<1>8. ASSUME NEW d \in Downloads, ApproveWrite(d) PROVE FailedStays
  BY <1>8, StageWrites DEF ApproveWrite, PipelineStage, FailedStays
<1>9. ASSUME NEW d \in Downloads, DeleteWrite(d) PROVE FailedStays
  BY <1>9 DEF DeleteWrite, Delete, RowOK, Rows, FailedStays
<1>10. ASSUME NEW g \in Evaluators, GateHold(g) \/ GateAutoImport(g) PROVE FailedStays
  BY <1>10, StageWrites DEF GateHold, GateAutoImport, GateT, PipelineStage, FailedStays
<1>11. ASSUME NEW g \in Evaluators, GateReject(g) PROVE FailedStays
  BY <1>11, FailWrites DEF GateReject, GateT, FailedStays
<1>12. ASSUME NEW r \in Runners, NEW d \in Downloads, RunnerClaim(r, d) PROVE FailedStays
  BY <1>12, StageWrites DEF RunnerClaim, PipelineStage, FailedStays
<1>13. ASSUME NEW b \in Books, SearchRetried(b) PROVE FailedStays
  BY <1>13 DEF SearchRetried, Delete, SearchT, RowOK, Rows, FailedStays
<1>14. ASSUME NEW b \in Books, NEW d \in Downloads, GrabInsert(b, d) PROVE FailedStays
  BY <1>14 DEF GrabInsert, RowOK, Rows, FailedStays
<1>15. QED
  BY <1>1, <1>2, <1>3, <1>4, <1>5, <1>6, <1>7, <1>8, <1>9, <1>10, <1>11, <1>12, <1>13, <1>14 DEF RowAction

-----------------------------------------------------------------------------
(* The process: nothing evaluates before the startup reset *)

\* The actions that touch an evaluation, a batch, the monitor or the process
QuietAction ==
  \/ MonitorPoll \/ MonitorGiveUp \/ MonitorSearch \/ MonitorRecover \/ MonitorRevert
  \/ Crash \/ Boot \/ StartupReset
  \/ \E d \in Downloads : \/ MonitorSkip(d) \/ MonitorComplete(d) \/ MonitorFail(d)
                          \/ GateLoad(d) \/ GateClaim(d) \/ GateMarkBook(d)
  \/ \E g \in Evaluators : \/ GateHold(g) \/ GateAutoImport(g) \/ GateReject(g)
                           \/ GateHeld(g) \/ GateEnqueue(g) \/ GateRejected(g)
  \/ \E r \in Runners : \/ RunnerSelect(r) \/ RunnerImports(r)
                        \/ \E d \in Downloads : RunnerClaim(r, d) \/ RunnerEnqueue(r, d)
  \/ \E b \in Books : SearchFails(b) \/ GrabForRetry(b) \/ SearchRetried(b) \/ SearchDeadline(b)

\* Nothing else does.
LEMMA QuietFrame == [Next]_vars => UNCHANGED <<gate, run, mon, phase>> \/ QuietAction
  BY DEF QuietAction, vars, Next, MonitorPass, MonitorFailure, InlineGate, GateDecides, GateSettles, Batch,
         Searching, Grabbing, Worker, Operator, Operation, WorkerLoad, WorkerStart, WorkerCommit,
         WorkerFinalize,
         WorkerFail, WorkerRevert, WorkerMark, WorkerClaim, Cancel, CancelWrite, CancelRevert, Approve,
         ApproveWrite,
         ApproveEnqueue, Reject, RejectWrite, RejectSearch, RejectRevert, RetryDownload, RetryImport,
         DeleteHistory,
         DeleteWrite, SearchBegin, GrabCapture, GrabCheck, GrabFails, GrabInsert, GrabMarkBook

\* A batch and a poll start only in a process that is up, and the crash ends them all.
LEMMA QuietStep == TypeInv /\ Quiet /\ [Next]_vars => Quiet'
<1> SUFFICES ASSUME TypeInv, Quiet, [Next]_vars PROVE Quiet'
  OBVIOUS
<1> USE DEF TypeInv, Quiet, Evaluators
<1>1. CASE UNCHANGED <<gate, run, mon, phase>>
  BY <1>1
<1>2. CASE MonitorPoll \/ MonitorGiveUp \/ MonitorSearch \/ MonitorRecover \/ MonitorRevert
  BY <1>2 DEF MonitorPoll, MonitorGiveUp, MonitorSearch, MonitorRecover, MonitorRevert, MonitorDone, MonT,
     MonStates
<1>3. CASE Crash
  BY <1>3 DEF Crash, NoGate, NoRun, NoMon
<1>4. CASE Boot \/ StartupReset
  BY <1>4 DEF Boot, StartupReset
<1>5. ASSUME NEW d \in Downloads, MonitorSkip(d) \/ MonitorComplete(d) \/ MonitorFail(d) PROVE Quiet'
  BY <1>5 DEF MonitorSkip, MonitorComplete, MonitorFail, MonT, MonStates
<1>6. ASSUME NEW d \in Downloads, GateLoad(d) \/ GateClaim(d) \/ GateMarkBook(d) PROVE Quiet'
  BY <1>6 DEF GateLoad, GateClaim, GateMarkBook
<1>7. ASSUME NEW g \in Evaluators, GateHold(g) \/ GateAutoImport(g) \/ GateReject(g) PROVE Quiet'
  BY <1>7 DEF GateHold, GateAutoImport, GateReject
<1>8. ASSUME NEW g \in Evaluators, GateHeld(g) \/ GateEnqueue(g) \/ GateRejected(g) PROVE Quiet'
  BY <1>8 DEF GateHeld, GateEnqueue, GateRejected
<1>9. ASSUME NEW r \in Runners, RunnerSelect(r) \/ RunnerImports(r) PROVE Quiet'
  BY <1>9 DEF RunnerSelect, RunnerImports
<1>10. ASSUME NEW r \in Runners, NEW d \in Downloads, RunnerClaim(r, d) \/ RunnerEnqueue(r, d) PROVE Quiet'
  BY <1>10 DEF RunnerClaim, RunnerEnqueue
<1>11. ASSUME NEW b \in Books, SearchFails(b) \/ GrabForRetry(b) \/ SearchRetried(b) \/ SearchDeadline(b)
       PROVE Quiet'
  BY <1>11 DEF SearchFails, GrabForRetry, SearchRetried, SearchDeadline, Resume, MonT, MonStates
<1>12. QED
  BY <1>1, <1>2, <1>3, <1>4, <1>5, <1>6, <1>7, <1>8, <1>9, <1>10, <1>11, QuietFrame DEF QuietAction

-----------------------------------------------------------------------------
(* The evaluations *)

\* A row that is under evaluation stays locked, whoever writes it, except by the verdict of its own
\* evaluation and by the startup reset.
LEMMA LockedStep ==
  ASSUME TypeInv, RowAction, ~StartupReset, NEW d \in Downloads, Locked(d),
         \A g \in Evaluators : GateAutoImport(g) => gate[g].d # d
  PROVE  Locked(d)'
<1> USE DEF TypeInv, RowT, Locked, Eligible
<1>1. CASE WorkerStart \/ WorkerCommit
  BY <1>1, StageWrites DEF WorkerStart, WorkerCommit, WorkerT, PipelineStage
<1>2. CASE WorkerFail
  BY <1>2 DEF WorkerFail, WorkerT, Fail, Update, RowOK, Rows
<1>3. ASSUME NEW e \in Downloads, MonitorComplete(e) \/ MonitorFail(e) PROVE Locked(d)'
  BY <1>3 DEF MonitorComplete, MonitorFail, MonitorLands, Polled, RowOK, Rows
<1>4. ASSUME NEW e \in Downloads, GateClaim(e) \/ ApproveWrite(e) PROVE Locked(d)'
  BY <1>4, StageWrites DEF GateClaim, ApproveWrite, PipelineStage
<1>5. ASSUME NEW e \in Downloads, CancelWrite(e) \/ RejectWrite(e) PROVE Locked(d)'
  BY <1>5 DEF CancelWrite, RejectWrite, Fail, Update, RowOK, Rows
<1>6. ASSUME NEW e \in Downloads, DeleteWrite(e) PROVE Locked(d)'
  BY <1>6 DEF DeleteWrite, Delete, RowOK, Rows
<1>7. ASSUME NEW g \in Evaluators, GateHold(g) PROVE Locked(d)'
  BY <1>7, StageWrites DEF GateHold, GateT, PipelineStage
<1>8. ASSUME NEW g \in Evaluators, GateAutoImport(g) PROVE Locked(d)'
  <2>1. gate[g].d # d
    BY <1>8
  <2>2. QED
    BY <1>8, <2>1, StageWrites DEF GateAutoImport, GateT, PipelineStage
<1>9. ASSUME NEW g \in Evaluators, GateReject(g) PROVE Locked(d)'
  BY <1>9 DEF GateReject, GateT, Fail, Update, RowOK, Rows
<1>10. ASSUME NEW r \in Runners, NEW e \in Downloads, RunnerClaim(r, e) PROVE Locked(d)'
  BY <1>10, StageWrites DEF RunnerClaim, PipelineStage
<1>11. ASSUME NEW b \in Books, SearchRetried(b) PROVE Locked(d)'
  BY <1>11 DEF SearchRetried, Delete, SearchT, RowOK, Rows
<1>12. ASSUME NEW b \in Books, NEW e \in Downloads, GrabInsert(b, e) PROVE Locked(d)'
  BY <1>12 DEF GrabInsert, RowOK, Rows
<1>13. QED
  BY <1>1, <1>2, <1>3, <1>4, <1>5, <1>6, <1>7, <1>8, <1>9, <1>10, <1>11, <1>12 DEF RowAction

\* The actions that touch an evaluation
GateStep ==
  \/ Crash
  \/ \E d \in Downloads : \/ MonitorComplete(d) \/ GateLoad(d) \/ GateClaim(d) \/ GateMarkBook(d)
  \/ \E g \in Evaluators : \/ GateHold(g) \/ GateAutoImport(g) \/ GateReject(g)
                           \/ GateHeld(g) \/ GateEnqueue(g) \/ GateRejected(g)
  \/ \E r \in Runners, d \in Downloads : RunnerClaim(r, d)

\* Nothing else does.
LEMMA GateFrame == [Next]_vars => gate' = gate \/ GateStep
  BY ZenonT(60) DEF GateStep, vars, Next, MonitorPass, MonitorFailure, InlineGate, GateDecides, GateSettles,
     Batch,
         Searching, Grabbing, Worker, Operator, Operation, WorkerLoad, WorkerStart, WorkerCommit,
         WorkerFinalize,
         WorkerFail, WorkerRevert, WorkerMark, WorkerClaim, Cancel, CancelWrite, CancelRevert, Approve,
         ApproveWrite,
         ApproveEnqueue, Reject, RejectWrite, RejectSearch, RejectRevert, RetryDownload, RetryImport,
         DeleteHistory,
         DeleteWrite, SearchBegin, SearchFails, SearchDeadline, SearchRetried, GrabForRetry, GrabCapture,
         GrabCheck,
         GrabFails, GrabInsert, GrabMarkBook, MonitorPoll, MonitorSkip, MonitorFail, MonitorGiveUp,
         MonitorSearch,
         MonitorRecover, MonitorRevert, RunnerSelect, RunnerImports, RunnerEnqueue, Boot, StartupReset

\* The claim compares the stage, and a row under evaluation is never (completed, idle): so no second
\* evaluation can begin.  Whatever else happens to the row, it does not become claimable again.
LEMMA ClaimsStep == TypeInv /\ Quiet /\ Claims /\ OneGatePerRow /\ [Next]_vars => Claims' /\ OneGatePerRow'
<1> SUFFICES ASSUME TypeInv, Quiet, Claims, OneGatePerRow, [Next]_vars PROVE Claims' /\ OneGatePerRow'
  OBVIOUS
<1> DEFINE Active(g) == Evaluating(g) /\ Evaluating(g)' /\ gate'[g].d = gate[g].d
\* a row that stays under evaluation stays locked
<1>1. ASSUME NEW g \in Evaluators, Active(g) PROVE Locked(gate[g].d)'
  <2>1. PICK d \in Downloads : d = gate[g].d /\ Locked(d)
    BY <1>1 DEF Claims, TypeInv, GateT, Evaluating
  <2>2. ~StartupReset
    BY <1>1 DEF StartupReset, Quiet, Evaluating
  <2>3. ASSUME NEW h \in Evaluators, GateAutoImport(h) PROVE gate[h].d # d
    <3>1. Evaluating(h) /\ ~Evaluating(h)'
      BY <2>3 DEF GateAutoImport, Evaluating, TypeInv, GateT
    <3>2. QED
      BY <1>1, <2>1, <3>1 DEF OneGatePerRow
  <2>4. Locked(d)'
    <3>1. CASE row' = row
      BY <2>1, <3>1 DEF Locked, Eligible
    <3>2. CASE RowAction
      BY <2>1, <2>2, <2>3, <3>2, LockedStep
    <3>3. QED
      BY <3>1, <3>2, RowFrame
  <2>5. QED
    BY <1>1, <2>1, <2>4 DEF Locked, Eligible
\* how an evaluation becomes active
<1>2. ASSUME NEW g \in Evaluators, Evaluating(g)', ~Active(g)
      PROVE  /\ Eligible(gate'[g].d) /\ Locked(gate[g].d)'
             /\ \A h \in Evaluators : h # g => gate'[h] = gate[h]
  <2>1. CASE gate' = gate
    BY <1>2, <2>1 DEF Evaluating
  <2>2. CASE Crash
    BY <1>2, <2>2 DEF Crash, Evaluating, NoGate
  <2>3. ASSUME NEW d \in Downloads, MonitorComplete(d) \/ GateLoad(d) \/ GateMarkBook(d) PROVE FALSE
    <3> USE DEF Evaluating, NoGate, TypeInv, GateT, Gates, Evaluators
    <3>1. CASE MonitorComplete(d)
      BY <1>2, <3>1 DEF MonitorComplete
    <3>2. CASE GateLoad(d)
      BY <1>2, <3>2 DEF GateLoad
    <3>3. CASE GateMarkBook(d)
      BY <1>2, <3>3 DEF GateMarkBook
    <3>4. QED
      BY <2>3, <3>1, <3>2, <3>3
  <2>4. ASSUME NEW h \in Evaluators, GateHold(h) \/ GateAutoImport(h) \/ GateReject(h) \/ GateHeld(h)
                                     \/ GateEnqueue(h) \/ GateRejected(h)
        PROVE  FALSE
    BY <1>2, <2>4 DEF GateHold, GateAutoImport, GateReject, GateHeld, GateEnqueue, GateRejected, Evaluating,
                      NoGate, TypeInv, GateT, Gates
  <2>5. ASSUME NEW d \in Downloads, GateClaim(d)
        PROVE  /\ Eligible(gate'[g].d) /\ Locked(gate[g].d)'
               /\ \A h \in Evaluators : h # g => gate'[h] = gate[h]
    <3>1. g = d /\ gate'[d].d = d /\ Claimable(d) /\ \A h \in Evaluators : h # d => gate'[h] = gate[h]
      BY <1>2, <2>5 DEF GateClaim, Evaluating, NoGate, TypeInv, GateT, Gates, Evaluators, Claims
    <3>2. Locked(d)'
      BY <2>5, <3>1, StageWrites DEF GateClaim, Claimable, Eligible, Locked, PipelineStage, TypeInv, RowT,
         Exists
    <3>3. QED
      BY <3>1, <3>2 DEF Claimable, Locked, Eligible
  <2>6. ASSUME NEW r \in Runners, NEW d \in Downloads, RunnerClaim(r, d)
        PROVE  /\ Eligible(gate'[g].d) /\ Locked(gate[g].d)'
               /\ \A h \in Evaluators : h # g => gate'[h] = gate[h]
    <3>1. g = r /\ gate'[r].d = d /\ Claimable(d) /\ \A h \in Evaluators : h # r => gate'[h] = gate[h]
      BY <1>2, <2>6 DEF RunnerClaim, Evaluating, TypeInv, GateT, Gates, Evaluators
    <3>2. Locked(d)'
      BY <2>6, <3>1, StageWrites DEF RunnerClaim, Claimable, Eligible, Locked, PipelineStage, TypeInv, RowT,
         Exists
    <3>3. QED
      BY <3>1, <3>2 DEF Claimable, Locked, Eligible
  <2>7. QED
    BY <2>1, <2>2, <2>3, <2>4, <2>5, <2>6, GateFrame DEF GateStep
<1>3. (\A g \in Evaluators : Evaluating(g) => Locked(gate[g].d))'
  BY <1>1, <1>2
<1>4. (\A d \in Downloads : gate[d].pc # "idle" => gate[d].d = d)'
  <2> USE DEF Claims, TypeInv, GateT, Gates, Evaluators
  <2>1. CASE gate' = gate
    BY <2>1
  <2>2. CASE Crash
    BY <2>2 DEF Crash, NoGate
  <2>3. ASSUME NEW d \in Downloads, MonitorComplete(d) \/ GateLoad(d) \/ GateClaim(d) \/ GateMarkBook(d)
        PROVE  \A e \in Downloads : gate'[e].pc # "idle" => gate'[e].d = e
    <3>1. CASE MonitorComplete(d)
      BY <3>1 DEF MonitorComplete, NoGate
    <3>0. CASE GateMarkBook(d)
      BY <3>0 DEF GateMarkBook
    <3>2. CASE GateLoad(d)
      BY <3>2 DEF GateLoad, NoGate
    <3>3. CASE GateClaim(d)
      BY <3>3 DEF GateClaim, NoGate
    <3>4. QED
      BY <2>3, <3>0, <3>1, <3>2, <3>3
  <2>4. ASSUME NEW h \in Evaluators, GateHold(h) \/ GateAutoImport(h) \/ GateReject(h) \/ GateHeld(h)
                                     \/ GateEnqueue(h) \/ GateRejected(h)
        PROVE  \A e \in Downloads : gate'[e].pc # "idle" => gate'[e].d = e
    BY <2>4 DEF GateHold, GateAutoImport, GateReject, GateHeld, GateEnqueue, GateRejected, NoGate
  <2>5. ASSUME NEW r \in Runners, NEW d \in Downloads, RunnerClaim(r, d)
        PROVE  \A e \in Downloads : gate'[e].pc # "idle" => gate'[e].d = e
    BY <2>5, RunnersAssumption DEF RunnerClaim, Runners
  <2>6. QED
    BY <2>1, <2>2, <2>3, <2>4, <2>5, GateFrame DEF GateStep
<1>5. OneGatePerRow'
  <2> SUFFICES ASSUME NEW g \in Evaluators, NEW h \in Evaluators, Evaluating(g)', Evaluating(h)',
                      gate'[g].d = gate'[h].d, g # h
               PROVE  FALSE
    BY DEF OneGatePerRow
  <2>1. CASE Active(g) /\ Active(h)
    BY <2>1 DEF OneGatePerRow
  <2>2. CASE ~Active(g)
    BY <2>2, <1>2 DEF Claims, Locked, Evaluating
  <2>3. CASE ~Active(h)
    BY <2>3, <1>2 DEF Claims, Locked, Evaluating
  <2>4. QED
    BY <2>1, <2>2, <2>3
<1>6. QED
  BY <1>3, <1>4, <1>5 DEF Claims

\* The process goes up and down only by these actions.
LEMMA PhaseFrame == [Next]_vars => phase' = phase \/ Crash \/ Boot \/ StartupReset
  BY ZenonT(60) DEF vars, Next, MonitorPass, MonitorFailure, InlineGate, GateDecides, GateSettles, Batch,
         Searching, Grabbing, Worker, Operator, Operation, WorkerLoad, WorkerStart, WorkerCommit,
         WorkerFinalize,
         WorkerFail, WorkerRevert, WorkerMark, WorkerClaim, Cancel, CancelWrite, CancelRevert, Approve,
         ApproveWrite,
         ApproveEnqueue, Reject, RejectWrite, RejectSearch, RejectRevert, RetryDownload, RetryImport,
         DeleteHistory,
         DeleteWrite, SearchBegin, SearchFails, SearchDeadline, SearchRetried, GrabForRetry, GrabCapture,
         GrabCheck,
         GrabFails, GrabInsert, GrabMarkBook, MonitorPoll, MonitorSkip, MonitorComplete, MonitorFail,
         MonitorGiveUp,
         MonitorSearch, MonitorRecover, MonitorRevert, RunnerSelect, RunnerImports, RunnerEnqueue, RunnerClaim,
         GateLoad, GateClaim, GateMarkBook, GateHold, GateAutoImport, GateReject, GateHeld, GateEnqueue,
         GateRejected

\* Only a successful claim writes checking.
LEMMA NewChecking ==
  ASSUME TypeInv, RowAction, NEW d \in Downloads, row[d].stage # "checking", row'[d].stage = "checking"
  PROVE  Claimable(d) /\ (GateClaim(d) \/ \E r \in Runners : RunnerClaim(r, d))
<1> USE DEF TypeInv, RowT
<1>1. CASE WorkerStart \/ WorkerCommit
  BY <1>1, StageWrites DEF WorkerStart, WorkerCommit, WorkerT, PipelineStage
<1>2. CASE WorkerFail
  BY <1>2 DEF WorkerFail, WorkerT, Fail, Update, RowOK, Rows
<1>3. CASE StartupReset
  BY <1>3 DEF StartupReset, RowOK, Rows
<1>4. ASSUME NEW e \in Downloads, MonitorComplete(e) \/ MonitorFail(e) PROVE FALSE
  BY <1>4 DEF MonitorComplete, MonitorFail, RowOK, Rows
<1>5. ASSUME NEW e \in Downloads, GateClaim(e) PROVE Claimable(d) /\ GateClaim(d)
  <2>1. row' = row \/ (Claimable(e) /\ row' = SetStage(e, "checking"))
    BY <1>5 DEF GateClaim
  <2>2. e = d /\ Claimable(e)
    BY <2>1, StageWrites DEF PipelineStage
  <2>3. QED
    BY <1>5, <2>2
<1>6. ASSUME NEW e \in Downloads, ApproveWrite(e) PROVE FALSE
  BY <1>6, StageWrites DEF ApproveWrite, PipelineStage
<1>7. ASSUME NEW e \in Downloads, CancelWrite(e) \/ RejectWrite(e) PROVE FALSE
  BY <1>7 DEF CancelWrite, RejectWrite, Fail, Update, RowOK, Rows
<1>8. ASSUME NEW e \in Downloads, DeleteWrite(e) PROVE FALSE
  BY <1>8 DEF DeleteWrite, Delete, RowOK, Rows
<1>9. ASSUME NEW g \in Evaluators, GateHold(g) \/ GateAutoImport(g) PROVE FALSE
  BY <1>9, StageWrites DEF GateHold, GateAutoImport, GateT, PipelineStage
<1>10. ASSUME NEW g \in Evaluators, GateReject(g) PROVE FALSE
  BY <1>10 DEF GateReject, GateT, Fail, Update, RowOK, Rows
<1>11. ASSUME NEW r \in Runners, NEW e \in Downloads, RunnerClaim(r, e) PROVE Claimable(d) /\ RunnerClaim(r, d)
  <2>1. row' = row \/ (Claimable(e) /\ row' = SetStage(e, "checking"))
    BY <1>11 DEF RunnerClaim
  <2>2. e = d /\ Claimable(e)
    BY <2>1, StageWrites DEF PipelineStage
  <2>3. QED
    BY <1>11, <2>2
<1>12. ASSUME NEW b \in Books, SearchRetried(b) PROVE FALSE
  BY <1>12 DEF SearchRetried, Delete, SearchT, RowOK, Rows
<1>13. ASSUME NEW b \in Books, NEW e \in Downloads, GrabInsert(b, e) PROVE FALSE
  BY <1>13 DEF GrabInsert, RowOK, Rows
<1>14. QED
  BY <1>1, <1>2, <1>3, <1>4, <1>5, <1>6, <1>7, <1>8, <1>9, <1>10, <1>11, <1>12, <1>13 DEF RowAction

\* An evaluation that ends writes its row; the startup reset clears what a crash left.
LEMMA CheckingStep ==
  TypeInv /\ Claims /\ CheckingHasGate /\ [Next]_vars => CheckingHasGate'
<1> SUFFICES ASSUME TypeInv, Claims, CheckingHasGate, [Next]_vars, phase' = "up",
                    NEW d \in Downloads, row'[d].stage = "checking"
             PROVE  \E g \in Evaluators : (Evaluating(g) /\ gate[g].d = d)'
  BY DEF CheckingHasGate
<1>1. CASE row[d].stage # "checking"
  <2>1. Claimable(d) /\ (GateClaim(d) \/ \E r \in Runners : RunnerClaim(r, d))
    BY <1>1, RowFrame, NewChecking
  <2>2. CASE GateClaim(d)
    BY <2>1, <2>2 DEF GateClaim, Evaluating, Claims, TypeInv, GateT, Gates, Evaluators
  <2>3. ASSUME NEW r \in Runners, RunnerClaim(r, d) PROVE (Evaluating(r) /\ gate[r].d = d)'
    BY <2>1, <2>3 DEF RunnerClaim, Evaluating, TypeInv, GateT, Gates, Evaluators
  <2>4. QED
    BY <2>1, <2>2, <2>3 DEF Evaluators
<1>2. CASE row[d].stage = "checking"
  <2>1. ~Crash /\ ~Boot /\ ~StartupReset
    BY DEF Crash, Boot, StartupReset, Stuck, TypeInv, RowT, RowOK, Rows
  <2>2. PICK g \in Evaluators : Evaluating(g) /\ gate[g].d = d
    BY <1>2, <2>1, PhaseFrame DEF CheckingHasGate
  <2>3. Exists(d)
    BY <1>2 DEF TypeInv, RowT, RowOK, Exists
  <2> USE DEF Evaluating, TypeInv, GateT, Gates, Evaluators
  <2>4. CASE gate' = gate
    BY <2>2, <2>4
  <2>5. ASSUME NEW e \in Downloads, MonitorComplete(e) \/ GateLoad(e) \/ GateClaim(e) \/ GateMarkBook(e)
        PROVE  (Evaluating(g) /\ gate[g].d = d)'
    <3>1. CASE MonitorComplete(e)
      BY <2>2, <1>2, <3>1 DEF MonitorComplete, MonitorLands, Polled, Claims
    <3>2. CASE GateLoad(e)
      BY <2>2, <3>2 DEF GateLoad
    <3>3. CASE GateClaim(e)
      BY <2>2, <3>3 DEF GateClaim
    <3>4. CASE GateMarkBook(e)
      BY <2>2, <3>4 DEF GateMarkBook
    <3>5. QED
      BY <2>5, <3>1, <3>2, <3>3, <3>4
  <2>6. ASSUME NEW h \in Evaluators, GateHold(h) \/ GateAutoImport(h) \/ GateReject(h)
        PROVE  (Evaluating(g) /\ gate[g].d = d)'
    <3>1. h # g
      <4> SUFFICES ASSUME h = g PROVE row'[d].stage # "checking"
        OBVIOUS
      <4>1. CASE GateHold(h) \/ GateAutoImport(h)
        BY <2>2, <2>3, <4>1, StageWrites DEF GateHold, GateAutoImport, PipelineStage, RowT
      <4>2. CASE GateReject(h)
        BY <2>2, <2>3, <4>2 DEF GateReject, Fail, Update, RowT, RowOK, Rows
      <4>3. QED
        BY <2>6, <4>1, <4>2
    <3>2. gate'[g] = gate[g]
      BY <2>6, <3>1 DEF GateHold, GateAutoImport, GateReject
    <3>3. QED
      BY <2>2, <3>2
  <2>7. ASSUME NEW h \in Evaluators, GateHeld(h) \/ GateEnqueue(h) \/ GateRejected(h)
        PROVE  (Evaluating(g) /\ gate[g].d = d)'
    BY <2>2, <2>7 DEF GateHeld, GateEnqueue, GateRejected
  <2>8. ASSUME NEW r \in Runners, NEW e \in Downloads, RunnerClaim(r, e)
        PROVE  (Evaluating(g) /\ gate[g].d = d)'
    BY <2>2, <2>8 DEF RunnerClaim
  <2>9. QED
    BY <2>1, <2>4, <2>5, <2>6, <2>7, <2>8, GateFrame DEF GateStep
<1>3. QED
  BY <1>1, <1>2

-----------------------------------------------------------------------------
(* The import jobs *)

\* The actions that touch a job or the worker
JobStep ==
  \/ WorkerLoad \/ WorkerStart \/ WorkerCommit \/ WorkerFinalize \/ WorkerFail \/ WorkerRevert \/ WorkerMark
  \/ Crash \/ Boot
  \/ \E b \in Books : WorkerClaim(b) \/ RetryImport(b)
  \/ \E d \in Downloads : ApproveEnqueue(d) \/ \E r \in Runners : RunnerEnqueue(r, d)
  \/ \E g \in Evaluators : GateEnqueue(g)

\* Nothing else does.
LEMMA JobFrame == [Next]_vars => UNCHANGED <<job, worker>> \/ JobStep
  BY ZenonT(60) DEF JobStep, vars, Next, MonitorPass, MonitorFailure, InlineGate, GateDecides, GateSettles,
     Batch,
         Searching, Grabbing, Worker, Operator, Operation, Cancel, CancelWrite, CancelRevert, Approve,
         ApproveWrite,
         Reject, RejectWrite, RejectSearch, RejectRevert, RetryDownload, DeleteHistory,
         DeleteWrite, SearchBegin, SearchFails, SearchDeadline, SearchRetried, GrabForRetry, GrabCapture,
         GrabCheck,
         GrabFails, GrabInsert, GrabMarkBook, MonitorPoll, MonitorSkip, MonitorComplete, MonitorFail,
         MonitorGiveUp,
         MonitorSearch, MonitorRecover, MonitorRevert, RunnerSelect, RunnerImports, RunnerClaim, StartupReset,
         GateLoad, GateClaim, GateMarkBook, GateHold, GateAutoImport, GateReject, GateHeld, GateRejected

\* The worker has the processing job of this book
Owned(b) == worker.pc # "idle" /\ worker.b = b /\ worker.d = job[b].d

\* An active job is never replaced, and the boot recovery leaves none processing.
LEMMA ProcessingStep == TypeInv /\ ProcessingHasWorker /\ [Next]_vars => ProcessingHasWorker'
<1> SUFFICES ASSUME TypeInv, ProcessingHasWorker, [Next]_vars, phase' # "down",
                    NEW b \in Books, job'[b].st = "processing"
             PROVE  Owned(b)'
  BY DEF ProcessingHasWorker, Owned
<1> USE DEF TypeInv, JobT, Jobs, WorkerT, WorkerStates, Owned
<1>1. ~Crash
  BY DEF Crash
<1>2. CASE Boot
  BY <1>2 DEF Boot, Orphaned, Requeued, NoJob
<1>3. CASE ~Boot
  <2>1. phase # "down"
    BY <1>1, <1>3, PhaseFrame DEF StartupReset
  <2>2. CASE job[b].st = "processing"
    <3>1. Owned(b)
      BY <2>1, <2>2 DEF ProcessingHasWorker
    <3>2. CASE UNCHANGED <<job, worker>>
      BY <3>1, <3>2
    <3>3. CASE WorkerLoad \/ WorkerStart \/ WorkerCommit \/ WorkerFail \/ WorkerRevert
      BY <3>1, <3>3 DEF WorkerLoad, WorkerStart, WorkerCommit, WorkerFail, WorkerRevert
    <3>4. CASE WorkerFinalize \/ WorkerMark
      BY <3>1, <3>4 DEF WorkerFinalize, WorkerMark, NoJob
    <3>5. ASSUME NEW c \in Books, WorkerClaim(c) \/ RetryImport(c) PROVE Owned(b)'
      BY <2>2, <3>1, <3>5 DEF WorkerClaim, RetryImport
    <3>6. ASSUME NEW d \in Downloads, ApproveEnqueue(d) \/ \E r \in Runners : RunnerEnqueue(r, d) PROVE Owned(b)'
      BY <2>2, <3>1, <3>6, BookOfAssumption DEF ApproveEnqueue, RunnerEnqueue, Enqueue
    <3>7. ASSUME NEW g \in Evaluators, GateEnqueue(g) PROVE Owned(b)'
      BY <2>2, <3>1, <3>7, BookOfAssumption DEF GateEnqueue, Enqueue, GateT
    <3>8. QED
      BY <1>1, <1>3, <3>2, <3>3, <3>4, <3>5, <3>6, <3>7, JobFrame DEF JobStep
  <2>3. CASE job[b].st # "processing"
    <3>2. CASE UNCHANGED <<job, worker>>
      BY <2>3, <3>2
    <3>3. CASE WorkerLoad \/ WorkerStart \/ WorkerCommit \/ WorkerFail \/ WorkerRevert
      BY <2>3, <3>3 DEF WorkerLoad, WorkerStart, WorkerCommit, WorkerFail, WorkerRevert
    <3>4. CASE WorkerFinalize \/ WorkerMark
      BY <2>3, <3>4 DEF WorkerFinalize, WorkerMark, NoJob
    <3>5. ASSUME NEW c \in Books, WorkerClaim(c) \/ RetryImport(c) PROVE Owned(b)'
      BY <2>3, <3>5 DEF WorkerClaim, RetryImport
    <3>6. ASSUME NEW d \in Downloads, ApproveEnqueue(d) \/ \E r \in Runners : RunnerEnqueue(r, d) PROVE Owned(b)'
      BY <2>3, <3>6, BookOfAssumption DEF ApproveEnqueue, RunnerEnqueue, Enqueue
    <3>7. ASSUME NEW g \in Evaluators, GateEnqueue(g) PROVE Owned(b)'
      BY <2>3, <3>7, BookOfAssumption DEF GateEnqueue, Enqueue, GateT
    <3>8. QED
      BY <1>1, <1>3, <3>2, <3>3, <3>4, <3>5, <3>6, <3>7, JobFrame DEF JobStep
  <2>4. QED
    BY <2>2, <2>3
<1>4. QED
  BY <1>2, <1>3

-----------------------------------------------------------------------------
(* The theorems *)

IndInv == /\ TypeInv /\ Quiet /\ Claims
          /\ OneGatePerRow /\ CheckingHasGate /\ ProcessingHasWorker

\* The empty database, with nothing running, satisfies all of it.
LEMMA InitInd == Init => IndInv
<1> SUFFICES ASSUME Init PROVE IndInv
  OBVIOUS
<1> USE DEF Init
<1>1. TypeInv
  <2>1. RowT
    BY DEF RowT, RowOK, Rows, ClientStatus, PipelineStage, BookStatus
  <2>2. BookT
    <3>1. /\ [status |-> "wanted", path |-> FALSE] \in BookRows
          /\ [status |-> "imported", path |-> TRUE] \in BookRows
      BY DEF BookRows, BookStatus
    <3>2. QED
      BY <3>1 DEF BookT
  <2>3. JobT /\ LastT /\ GateT
    BY DEF JobT, Jobs, NoJob, LastT, GateT, Gates, NoGate
  <2>4. RunT /\ MonT /\ SearchT /\ AwaitT
    BY DEF RunT, RunStates, NoRun, MonT, MonStates, NoMon, SearchT, Searches, NoSearch, AwaitT
  <2>5. GrabT /\ OpT /\ WorkerT /\ RestT /\ UsedT
    BY DEF GrabT, Grabs, NoGrab, BookStatus, OpT, Ops, NoOp, WorkerT, WorkerStates, NoWorker, RestT, UsedT
  <2>6. QED
    BY <2>1, <2>2, <2>3, <2>4, <2>5 DEF TypeInv
<1>2. Quiet /\ Claims /\ OneGatePerRow
  BY DEF Quiet, Claims, OneGatePerRow, Evaluating, NoGate, Evaluators
<1>3. CheckingHasGate /\ ProcessingHasWorker
  BY DEF CheckingHasGate, ProcessingHasWorker, NoJob
<1>4. QED
  BY <1>1, <1>2, <1>3 DEF IndInv

\* Every step preserves all of it.
LEMMA NextInd == IndInv /\ [Next]_vars => IndInv'
  BY TypeStep, QuietStep, ClaimsStep, CheckingStep, ProcessingStep DEF IndInv

\* Every reachable state of the pipeline satisfies the inductive invariant.
THEOREM Invariance == Spec => []IndInv
<1>1. QED
  BY InitInd, NextInd, PTL DEF Spec

\* The rows, the jobs and all that is in flight keep their types, and no write revives a deleted row:
\* every write to downloads is an UPDATE, which misses a row that is gone.
THEOREM TypeCorrect == Spec => []TypeOK
<1>1. IndInv => TypeOK
  BY TypeInvParts DEF IndInv
<1>2. QED
  BY <1>1, Invariance, PTL

\* No download is ever evaluated twice at the same time, by the inline gate and by any number of batch
\* runners, whatever the operator, the worker and restarts do to its row meanwhile.
THEOREM SingleEvaluation == Spec => []OneGatePerRow
<1>1. IndInv => OneGatePerRow
  BY DEF IndInv
<1>2. QED
  BY <1>1, Invariance, PTL

\* No download is left in the stage checking with no evaluation working on it once the process is up.
THEOREM NoOrphanedCheck == Spec => []CheckingHasGate
<1>1. IndInv => CheckingHasGate
  BY DEF IndInv
<1>2. QED
  BY <1>1, Invariance, PTL

\* Every processing job is the job of the running worker: a restart leaves none behind.
THEOREM NoOrphanedJob == Spec => []ProcessingHasWorker
<1>1. IndInv => ProcessingHasWorker
  BY DEF IndInv
<1>2. QED
  BY <1>1, Invariance, PTL

\* A failed download stays failed until it is deleted: no late write of the monitor, the gate or the
\* import revives its client axis.
THEOREM FailureIsFinal == Spec => FailedIsFinal
<1>1. IndInv /\ [Next]_vars =>
        [\A d \in Downloads : row[d].client = "failed" => row'[d].client \in {"failed", "deleted"}]_vars
  <2> SUFFICES ASSUME IndInv, [Next]_vars PROVE FailedStays
    BY DEF FailedStays
  <2>1. CASE row' = row
    BY <2>1 DEF FailedStays
  <2>2. CASE RowAction
    BY <2>2, FailedStep DEF IndInv
  <2>3. QED
    BY <2>1, <2>2, RowFrame
<1>2. QED
  BY <1>1, Invariance, PTL DEF Spec, FailedIsFinal
=============================================================================

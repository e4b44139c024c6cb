---------------------- MODULE ImportQueueWorkerProofs ----------------------
(***************************************************************************)
(* Safety of ImportQueueWorker for any jobs, any number of drains and any  *)
(* bounds: its types, one drain at a time, quiet after stop, and that it   *)
(* implements JobQueue.                                                    *)
(***************************************************************************)
EXTENDS ImportQueueWorker, TLAPS

-----------------------------------------------------------------------------
(* The inductive invariant *)

\* A call in progress is the one that drainInProgress and runDrainPromise stand for
Alone == \A r \in Drains : drain[r].pc # "idle" => drainInProgress /\ lastDrain = r

\* Nothing is drained before start is through, and nothing is accepted from stop on
Phases == /\ life \in {"down", "recovering"} => ~drainInProgress
          /\ life \in {"stopping", "waiting", "stopped"} => ~running
          /\ polling \/ listening => life = "up"
          /\ life = "stopped" => \A r \in Drains : drain[r].pc = "idle"

Safe == TypeOK /\ Alone /\ Phases

LEMMA InitSafe == Init => Safe
<1> SUFFICES ASSUME Init PROVE Safe
  OBVIOUS
<1>1. used \in [stop : Nat, crash : Nat, fail : Nat]
  BY DEF Init
<1>2. Idle \in Calls /\ Idle.pc = "idle"
  BY DEF Idle, Calls
<1>3. drain \in [Drains -> Calls] /\ \A r \in Drains : drain[r].pc = "idle"
  BY <1>2 DEF Init
<1>4. TypeOK
  BY <1>1, <1>3 DEF Init, TypeOK
<1> QED
  BY <1>3, <1>4 DEF Init, Safe, Alone, Phases

\* requestDrain starts a call only where there is none
LEMMA RequestSafe ==
  ASSUME Safe, RequestDrain, UNCHANGED <<running, stopping>>
  PROVE  /\ drainInProgress' \in BOOLEAN /\ drainRequested' \in BOOLEAN
         /\ drain' \in [Drains -> Calls]
         /\ \A r \in Drains : drain'[r].pc \in {"claiming", "claimed", "working"} => drain'[r].j \in Jobs
         /\ lastDrain' \in Drains \cup {None}
         /\ Alone'
         /\ ~running => UNCHANGED <<drainInProgress, drain>>
<1>1. CASE Accepting /\ ~drainInProgress
  <2>1. PICK r \in Drains : /\ drain[r].pc = "idle"
                            /\ drainInProgress' = TRUE /\ drainRequested' = FALSE
                            /\ drain' = [drain EXCEPT ![r] = Selecting]
                            /\ lastDrain' = r
    BY <1>1 DEF RequestDrain
  <2>2. Selecting \in Calls /\ Selecting.pc = "select"
    BY DEF Selecting, Calls
  <2>3. \A s \in Drains : drain[s].pc = "idle"
    BY <1>1 DEF Safe, Alone
  <2> QED
    BY <1>1, <2>1, <2>2, <2>3 DEF Safe, TypeOK, Alone, Accepting
<1>2. CASE ~(Accepting /\ ~drainInProgress)
  BY <1>2 DEF RequestDrain, Safe, TypeOK, Alone, Accepting
<1> QED
  BY <1>1, <1>2

\* the end of a round: another one, or the end of the call
LEMMA ContinueSafe ==
  ASSUME Safe, NEW r \in Drains, NEW processed \in BOOLEAN,
         drain[r].pc # "idle", Continue(r, processed), UNCHANGED <<running, stopping>>
  PROVE  /\ drainInProgress' \in BOOLEAN /\ drainRequested' \in BOOLEAN
         /\ drain' \in [Drains -> Calls]
         /\ \A s \in Drains : drain'[s].pc \in {"claiming", "claimed", "working"} => drain'[s].j \in Jobs
         /\ lastDrain' \in Drains \cup {None}
         /\ Alone'
         /\ drainInProgress' => drainInProgress
         /\ \A s \in Drains : drain[s].pc = "idle" => drain'[s].pc = "idle"
<1>1. Selecting \in Calls /\ Selecting.pc = "select" /\ Idle \in Calls /\ Idle.pc = "idle"
  BY DEF Selecting, Idle, Calls
<1> QED
  BY <1>1 DEF Continue, Safe, TypeOK, Alone, Accepting

LEMMA LoseSafe == ASSUME Safe, Lose, used' \in [stop : Nat, crash : Nat, fail : Nat]
                  PROVE  Safe'
  BY DEF Safe, TypeOK, Alone, Phases, Lose, Idle, Calls

\* a call moves on with its job, or none: its place in the code changes and nothing else
LEMMA MoveSafe ==
  ASSUME Safe, NEW r \in Drains, NEW c \in Calls, drain[r].pc # "idle", c.pc # "idle",
         c.pc \in {"claiming", "claimed", "working"} => c.j \in Jobs,
         drain' = [drain EXCEPT ![r] = c],
         UNCHANGED <<drainInProgress, drainRequested, lastDrain>>,
         job' \in [Jobs -> {"absent", "pending", "processing", "ended"}],
         currentJob' \in Drains \cup {None},
         UNCHANGED <<nudging, life, orphans, running, stopping, listening, polling, used>>
  PROVE  Safe'
  BY DEF Safe, TypeOK, Alone, Phases

LEMMA FailureTyped == ASSUME TypeOK, Failure PROVE used' \in [stop : Nat, crash : Nat, fail : Nat]
  BY DEF TypeOK, Failure

LEMMA StepSafe == ASSUME Safe, NEW r \in Drains, Step(r) PROVE Safe'
<1> DEFINE c == drain[r]
<1>0. TypeOK /\ c \in Calls
  BY DEF Safe, TypeOK
<1>1. CASE Select(r)
  <2>1. PICK k \in Jobs \cup {None} : drain' = [drain EXCEPT ![r] = [pc |-> "selected", j |-> k]]
    BY <1>1 DEF Select
  <2>2. [pc |-> "selected", j |-> k] \in Calls
    BY DEF Calls
  <2> QED
    BY <1>0, <1>1, <2>1, <2>2, MoveSafe DEF Select, flags, TypeOK
<1>2. CASE Issue(r)
  <2>1. drain' = [drain EXCEPT ![r] = [c EXCEPT !.pc = "claiming"]]
    BY <1>2 DEF Issue
  <2>2. [c EXCEPT !.pc = "claiming"] \in Calls /\ c.j \in Jobs
    BY <1>0, <1>2 DEF Issue, MayClaim, Calls
  <2> QED
    BY <1>0, <1>2, <2>1, <2>2, MoveSafe DEF Issue, flags, TypeOK, Calls
<1>3. CASE Refrain(r)
  BY <1>3, ContinueSafe DEF Refrain, Safe, TypeOK, Phases, flags
<1>4. CASE Claim(r)
  <2>1. c.j \in Jobs /\ [c EXCEPT !.pc = "claimed"] \in Calls /\ [c EXCEPT !.pc = "finished"] \in Calls
    BY <1>0, <1>4 DEF Claim, TypeOK, Calls
  <2>2. job' \in [Jobs -> {"absent", "pending", "processing", "ended"}]
    BY <1>0, <1>4, <2>1 DEF Claim, TypeOK
  <2>3. \/ drain' = [drain EXCEPT ![r] = [c EXCEPT !.pc = "claimed"]]
        \/ drain' = [drain EXCEPT ![r] = [c EXCEPT !.pc = "finished"]]
    BY <1>4 DEF Claim
  <2> QED
    BY <1>0, <1>4, <2>1, <2>2, <2>3, MoveSafe DEF Claim, flags, TypeOK, Calls
<1>5. CASE Process(r)
  <2>1. drain' = [drain EXCEPT ![r] = [c EXCEPT !.pc = "working"]]
    BY <1>5 DEF Process
  <2>2. [c EXCEPT !.pc = "working"] \in Calls /\ c.j \in Jobs
    BY <1>0, <1>5 DEF Process, TypeOK, Calls
  <2> QED
    BY <1>0, <1>5, <2>1, <2>2, MoveSafe DEF Process, flags, TypeOK, Calls
<1>6. CASE Finish(r)
  <2>1. drain' = [drain EXCEPT ![r] = [c EXCEPT !.pc = "finished"]]
    BY <1>6 DEF Finish
  <2>2. [c EXCEPT !.pc = "finished"] \in Calls /\ [c EXCEPT !.pc = "finished"].pc = "finished"
    BY <1>0 DEF Calls
  <2>3. job' \in [Jobs -> {"absent", "pending", "processing", "ended"}]
    BY <1>0, <1>6 DEF Finish, TypeOK
  <2> QED
    BY <1>6, <2>1, <2>2, <2>3, MoveSafe DEF Finish, flags
<1>7. CASE Loop(r)
  BY <1>7, ContinueSafe DEF Loop, Safe, TypeOK, Phases, flags
<1> QED
  BY <1>1, <1>2, <1>3, <1>4, <1>5, <1>6, <1>7 DEF Step

LEMMA NextSafe == Safe /\ [Next]_vars => Safe'
<1> SUFFICES ASSUME Safe, [Next]_vars PROVE Safe'
  OBVIOUS
<1>0. TypeOK
  BY DEF Safe
<1>1. CASE Boot
  <2>1. CASE Start
    BY <2>1 DEF Start, Safe, TypeOK, Alone, Phases, drains
  <2>2. CASE DrainLoop
    <3>1. ~drainInProgress
      BY <2>2 DEF DrainLoop, Safe, Phases
    <3> QED
      BY <2>2, RequestSafe DEF DrainLoop, Safe, TypeOK, Phases
  <2>3. ASSUME NEW j \in Jobs, RecoverOrphan(j) PROVE Safe'
    BY <2>3 DEF RecoverOrphan, Safe, TypeOK, Alone, Phases, flags, drains
  <2> QED
    BY <1>1, <2>1, <2>2, <2>3 DEF Boot
<1>2. CASE Poll
  BY <1>2, RequestSafe DEF Poll, Safe, TypeOK, Phases, flags
<1>3. CASE Stop
  <2>1. used' \in [stop : Nat, crash : Nat, fail : Nat]
    BY <1>0, <1>3 DEF Stop, TypeOK
  <2>2. life' \in {"stopping", "waiting"}
    BY <1>3 DEF Stop
  <2> QED
    BY <1>3, <2>1, <2>2 DEF Stop, Safe, TypeOK, Alone, Phases, drains
<1>4. CASE Stopped
  BY <1>4, NoneNotUsed DEF Stopped, Safe, TypeOK, Alone, Phases, flags, drains
<1>5. CASE Exit
  BY <1>0, <1>5, LoseSafe DEF Exit, TypeOK
<1>6. CASE Crash
  BY <1>0, <1>6, LoseSafe DEF Crash, TypeOK
<1>7. CASE StopRejected
  BY <1>0, <1>7, LoseSafe, FailureTyped DEF StopRejected
<1>8. ASSUME NEW j \in Jobs, Enqueue(j) PROVE Safe'
  BY <1>8 DEF Enqueue, Safe, TypeOK, Alone, Phases, flags, drains
<1>9. ASSUME NEW j \in Jobs, Nudge(j) PROVE Safe'
  <2>1. CASE listening /\ ~stopping
    BY <1>9, <2>1, RequestSafe DEF Nudge, Safe, TypeOK, Phases, flags
  <2>2. CASE ~(listening /\ ~stopping)
    BY <1>9, <2>2 DEF Nudge, Safe, TypeOK, Alone, Phases, flags, drains
  <2> QED
    BY <2>1, <2>2
<1>10. ASSUME NEW j \in Jobs, RecoveryFails(j) PROVE Safe'
  BY <1>10, <1>0, FailureTyped DEF RecoveryFails, Safe, TypeOK, Alone, Phases, flags, drains
<1>11. ASSUME NEW r \in Drains, Break(r) PROVE Safe'
  <2>1. /\ drain' = [drain EXCEPT ![r] = Idle] /\ drainInProgress' = FALSE /\ currentJob' = None
        /\ UNCHANGED <<job, nudging, life, orphans, flags, drainRequested, lastDrain>>
        /\ drain[r].pc # "idle" /\ used' \in [stop : Nat, crash : Nat, fail : Nat]
    BY <1>11, <1>0, FailureTyped DEF Break
  <2>2. Idle \in Calls /\ Idle.pc = "idle"
    BY DEF Idle, Calls
  <2>3. drain' \in [Drains -> Calls] /\ drain'[r].pc = "idle" /\ \A q \in Drains \ {r} : drain'[q] = drain[q]
    BY <1>0, <2>1, <2>2 DEF TypeOK
  <2>4. TypeOK'
    <3>1. \A q \in Drains : drain'[q].pc \in {"claiming", "claimed", "working"} => drain'[q].j \in Jobs
      BY <1>0, <2>3 DEF TypeOK
    <3> QED
      BY <1>0, <2>1, <2>3, <3>1 DEF TypeOK, flags
  <2>5. \A q \in Drains : drain'[q].pc = "idle"
    BY <2>1, <2>3 DEF Safe, Alone
  <2>6. Alone' /\ Phases'
    BY <2>1, <2>5 DEF Safe, Alone, Phases, flags
  <2> QED
    BY <2>4, <2>6 DEF Safe
<1>12. CASE UNCHANGED vars
  BY <1>12 DEF vars, flags, drains, Safe, TypeOK, Alone, Phases
<1> QED
  BY <1>1, <1>2, <1>3, <1>4, <1>5, <1>6, <1>7, <1>8, <1>9, <1>10, <1>11, <1>12, StepSafe DEF Next

\* The inductive invariant holds whatever is enqueued, nudged, polled, stopped, crashed and recovered.
THEOREM WorkerSafety == Spec => []Safe
  BY InitSafe, NextSafe, PTL DEF Spec

-----------------------------------------------------------------------------
(* What it gives *)

\* Every variable of the worker keeps its type, and a call that claims or processes has a job.
THEOREM WorkerTyped == Spec => []TypeOK
  BY WorkerSafety, PTL DEF Safe

\* Two drains never run at once.
THEOREM DrainsAlone == Spec => []OneDrain
<1>1. Safe => OneDrain
  BY DEF Safe, Alone, OneDrain
<1> QED
  BY WorkerSafety, <1>1, PTL

\* Once stop has returned, nothing of the worker runs any more.
THEOREM StopsQuietly == Spec => []StoppedIsQuiet
<1>1. Safe => StoppedIsQuiet
  BY DEF Safe, Phases, StoppedIsQuiet
<1> QED
  BY WorkerSafety, <1>1, PTL

-----------------------------------------------------------------------------
(* The implementation of JobQueue *)

\* Jobs are enqueued in the order of their ids, and a drain has the oldest pending one in hand
Ordered == \A j, k \in Jobs : k < j /\ job[j] # "absent" => job[k] # "absent"
Chosen == \A r \in Drains : drain[r].pc \in {"selected", "claiming"} /\ drain[r].j # None => Oldest(drain[r].j)

\* The job of a drain is processing, and so is an orphan that start has not resolved yet
Doing == /\ \A r \in Drains : drain[r].pc \in {"claimed", "working"} => job[drain[r].j] = "processing"
         /\ \A j \in orphans : life = "recovering" /\ job[j] = "processing"

Serving == Safe /\ Ordered /\ Chosen /\ Doing

LEMMA InitServing == Init => Serving
<1>1. Init => \A r \in Drains : drain[r].pc = "idle"
  BY DEF Init, Idle
<1> QED
  BY <1>1, InitSafe DEF Init, Serving, Ordered, Chosen, Doing

\* The calls that have a job in hand; requests and the ends of rounds give none a job
Holding(r) == drain[r].pc \in {"selected", "claiming", "claimed", "working"}

LEMMA RequestHolds ==
  ASSUME TypeOK, RequestDrain, NEW r \in Drains, Holding(r)' PROVE drain'[r] = drain[r]
  BY DEF RequestDrain, TypeOK, Holding, Selecting

LEMMA ContinueHolds ==
  ASSUME TypeOK, NEW s \in Drains, NEW p \in BOOLEAN, Continue(s, p), NEW r \in Drains, Holding(r)'
  PROVE  drain'[r] = drain[r] /\ r # s
  BY DEF Continue, TypeOK, Holding, Selecting, Idle

LEMMA ServingKept ==
  ASSUME Serving, Safe', UNCHANGED job,
         \A r \in Drains : Holding(r)' => drain'[r] = drain[r],
         \A r \in Drains : drain[r].pc \in {"claimed", "working"} => drain'[r] = drain[r],
         UNCHANGED orphans, life' = life
  PROVE  Serving' /\ UNCHANGED service
<1>1. \A j \in Jobs : InHand(j)' <=> InHand(j)
  BY DEF InHand, Holding
<1> QED
  BY <1>1 DEF Serving, Ordered, Chosen, Oldest, Doing, Holding, service, ServiceOf

\* Before start is through no drain is in progress, so a drain in progress is the only one
LEMMA Busy ==
  ASSUME Safe, NEW r \in Drains, drain[r].pc # "idle"
  PROVE  life \notin {"down", "recovering"} /\ \A s \in Drains : drain[s].pc # "idle" => s = r
  BY DEF Safe, Alone, Phases

\* When no drain has a job in hand any more, at most one job was interrupted
LEMMA Cut ==
  ASSUME Serving, UNCHANGED job, \A r \in Drains : drain'[r].pc = "idle"
  PROVE  [Queue!Next]_service
<1>0. \A j \in Jobs : ~InHand(j)'
  BY DEF InHand
<1>1. CASE \A j \in Jobs : ~InHand(j)
  BY <1>0, <1>1 DEF service, ServiceOf
<1>2. CASE \E j \in Jobs : InHand(j)
  <2>1. PICK j \in Jobs : InHand(j)
    BY <1>2
  <2>2. job[j] = "processing" /\ \A k \in Jobs : InHand(k) => k = j
    BY <2>1, Busy DEF InHand, Serving, Doing
  <2>3. service[j] = "serving" /\ service' = [service EXCEPT ![j] = "interrupted"]
    BY <1>0, <2>1, <2>2 DEF service, ServiceOf
  <2> QED
    BY <2>3 DEF Queue!Next, Queue!Interrupt
<1> QED
  BY <1>1, <1>2

\* A step that moves one job which no drain has in hand, before or after
LEMMA Moved ==
  ASSUME Serving, NEW j \in Jobs, NEW s \in {"pending", "ended"}, job' = [job EXCEPT ![j] = s],
         \A k \in Jobs : k # j => (InHand(k)' <=> InHand(k))
  PROVE  service' = [service EXCEPT ![j] = s]
  BY DEF service, ServiceOf, Serving, Safe, TypeOK

\* Every step keeps the invariant, and is a step of the queue or leaves it alone
LEMMA QueueStep ==
  ASSUME Serving, [Next]_vars
  PROVE  Serving' /\ [Queue!Next]_service
<1>0. Safe /\ TypeOK /\ Safe'
  BY NextSafe DEF Serving, Safe
<1>a. ASSUME RequestDrain, UNCHANGED <<job, orphans, life>> PROVE Serving' /\ UNCHANGED service
  <2>1. \A r \in Drains : drain[r].pc \in {"claimed", "working"} => drain'[r] = drain[r]
    BY <1>0, <1>a DEF RequestDrain, TypeOK
  <2> QED
    BY <1>0, <1>a, <2>1, RequestHolds, ServingKept
<1>b. ASSUME UNCHANGED job, orphans' = {}, \A r \in Drains : drain'[r].pc = "idle"
      PROVE  Serving' /\ [Queue!Next]_service
  BY <1>0, <1>b, Cut DEF Serving, Ordered, Chosen, Doing
<1>c. ASSUME Lose PROVE Serving' /\ [Queue!Next]_service
  BY <1>b, <1>c DEF Lose, Idle
<1>d. ASSUME UNCHANGED <<job, orphans, drain>>, orphans = {} \/ life' = life
      PROVE  Serving' /\ UNCHANGED service
  BY <1>0, <1>d DEF Serving, Ordered, Chosen, Oldest, Doing, service, ServiceOf, InHand
<1>e. life \notin {"down", "recovering"} => orphans = {}
  BY DEF Serving, Doing
<1>1. CASE Start
  <2>1. \A r \in Drains : drain[r].pc = "idle"
    BY <1>0, <1>1, Busy DEF Start
  <2>2. UNCHANGED service
    BY <1>1 DEF Start, drains, service, ServiceOf, InHand
  <2> QED
    BY <1>0, <1>1, <2>1, <2>2 DEF Start, drains, Serving, Ordered, Chosen, Doing
<1>2. CASE DrainLoop
  <2>1. \A r \in Drains : drain[r].pc = "idle"
    BY <1>0, <1>2, Busy DEF DrainLoop
  <2>2. \A r \in Drains : ~Holding(r)'
    BY <1>0, <1>2, <2>1, RequestHolds DEF DrainLoop, Holding
  <2>3. \A j \in Jobs : ~InHand(j) /\ ~InHand(j)'
    BY <2>1, <2>2 DEF InHand, Holding
  <2> QED
    BY <1>0, <1>2, <2>2, <2>3 DEF DrainLoop, Serving, Ordered, Chosen, Doing, Holding, service, ServiceOf
<1>3. ASSUME NEW j \in Jobs, RecoverOrphan(j) PROVE Serving' /\ [Queue!Next]_service
  <2>1. \A r \in Drains : drain[r].pc = "idle"
    BY <1>0, <1>3, Busy DEF RecoverOrphan
  <2>2. PICK s \in {"pending", "ended"} : job' = [job EXCEPT ![j] = s]
    BY <1>3 DEF RecoverOrphan
  <2>3. job[j] = "processing"
    BY <1>3 DEF RecoverOrphan, Serving, Doing
  <2>4. UNCHANGED drain /\ \A k \in Jobs : ~InHand(k)
    BY <1>3, <2>1 DEF RecoverOrphan, drains, InHand
  <2>5. service[j] = "interrupted" /\ service' = [service EXCEPT ![j] = s]
    BY <2>2, <2>3, <2>4, Moved DEF service, ServiceOf, InHand
  <2>6. Queue!Resolve(j)
    BY <2>5 DEF Queue!Resolve
  <2>7. Ordered' /\ Chosen' /\ Doing'
    BY <1>0, <1>3, <2>1, <2>2, <2>3 DEF RecoverOrphan, drains, Serving, Ordered, Chosen, Doing, TypeOK
  <2> QED
    BY <1>0, <2>6, <2>7 DEF Serving, Queue!Next
<1>4. CASE Poll
  BY <1>4, <1>a DEF Poll
<1>5. CASE Stop
  BY <1>5, <1>d, <1>e DEF Stop, drains
<1>6. CASE Stopped
  BY <1>6, <1>d, <1>e DEF Stopped, drains
<1>7. CASE Exit \/ Crash \/ StopRejected
  BY <1>7, <1>c DEF Exit, Crash, StopRejected
<1>8. ASSUME NEW j \in Jobs, Enqueue(j) PROVE Serving' /\ [Queue!Next]_service
  <2>1. job' = [job EXCEPT ![j] = "pending"] /\ job[j] = "absent"
    BY <1>8 DEF Enqueue
  <2>2. service[j] = "absent" /\ service' = [service EXCEPT ![j] = "pending"]
    BY <1>8, <2>1, Moved DEF Enqueue, drains, service, ServiceOf, InHand
  <2>3. Ordered'
    BY <1>0, <1>8, <2>1 DEF Enqueue, Serving, Ordered, TypeOK
  <2>4. \A i \in Jobs : Oldest(i) => Oldest(i)'
    BY <1>0, <2>1, JobsAssumption DEF Serving, Ordered, Oldest, TypeOK
  <2>5. Chosen' /\ Doing'
    BY <1>0, <1>8, <2>1, <2>4 DEF Enqueue, drains, Serving, Chosen, Doing, TypeOK, Calls
  <2> QED
    BY <1>0, <2>2, <2>3, <2>5 DEF Serving, Queue!Next, Queue!Submit
<1>9. ASSUME NEW j \in Jobs, Nudge(j) PROVE Serving' /\ UNCHANGED service
  <2>1. CASE RequestDrain
    BY <1>9, <1>a, <2>1 DEF Nudge
  <2>2. CASE UNCHANGED drains
    BY <1>9, <1>d, <2>2 DEF Nudge, drains
  <2> QED
    BY <1>9, <2>1, <2>2 DEF Nudge
<1>10. ASSUME NEW j \in Jobs, RecoveryFails(j) PROVE Serving' /\ UNCHANGED service
  BY <1>0, <1>10 DEF RecoveryFails, drains, Serving, Ordered, Chosen, Oldest, Doing, service, ServiceOf, InHand
<1>11. ASSUME NEW r \in Drains, Break(r) PROVE Serving' /\ [Queue!Next]_service
  <2>1. \A s \in Drains : drain'[s].pc = "idle"
    BY <1>0, <1>11, Busy DEF Break, Idle, TypeOK
  <2>2. orphans' = {} /\ UNCHANGED job
    BY <1>0, <1>11, <1>e, Busy DEF Break
  <2> QED
    BY <1>b, <2>1, <2>2
<1>12. ASSUME NEW r \in Drains, Step(r) PROVE Serving' /\ [Queue!Next]_service
  <2> DEFINE i == drain[r].j
  <2>0. UNCHANGED <<orphans, life>>
    BY <1>12 DEF Step, Select, Issue, Refrain, Claim, Process, Finish, Loop
  <2>a. \A s \in Drains : drain[r].pc # "idle" /\ s # r => drain[s].pc = "idle"
    BY <1>0, Busy
  <2>1. CASE Select(r)
    <3>1. PICK k \in Jobs \cup {None} : /\ drain' = [drain EXCEPT ![r] = [pc |-> "selected", j |-> k]]
                                        /\ k # None => Oldest(k)
      BY <2>1 DEF Select
    <3>2. UNCHANGED service
      BY <1>0, <2>1, <2>a, <3>1 DEF Select, service, ServiceOf, InHand, TypeOK
    <3> QED
      BY <1>0, <2>0, <2>1, <3>1, <3>2 DEF Select, Serving, Ordered, Chosen, Oldest, Doing, TypeOK
  <2>2. CASE Issue(r)
    <3>1. UNCHANGED service
      BY <1>0, <2>2, <2>a DEF Issue, service, ServiceOf, InHand, TypeOK, Calls
    <3> QED
      BY <1>0, <2>0, <2>2, <3>1 DEF Issue, Serving, Ordered, Chosen, Oldest, Doing, TypeOK, Calls
  <2>3. CASE Refrain(r)
    <3>1. \A s \in Drains : drain[s].pc \in {"claimed", "working"} => drain'[s] = drain[s]
      BY <1>0, <2>3 DEF Refrain, Continue, TypeOK
    <3> QED
      BY <1>0, <2>0, <2>3, <3>1, ContinueHolds, ServingKept DEF Refrain
  <2>4. CASE Claim(r)
    <3>1. Oldest(i) /\ i \in Jobs
      BY <1>0, <2>4, NoneNotUsed DEF Claim, Serving, Chosen, TypeOK
    <3>2. /\ job' = [job EXCEPT ![i] = "processing"]
          /\ drain' = [drain EXCEPT ![r].pc = "claimed"]
      BY <2>4, <3>1 DEF Claim, Oldest
    <3>3. \A s \in Drains : s # r => drain[s].pc = "idle"
      BY <2>4, <2>a DEF Claim
    <3>4. drain'[r].pc = "claimed" /\ drain'[r].j = i
      BY <1>0, <3>2 DEF TypeOK, Calls
    <3>5. \A k \in Jobs : ~InHand(k) /\ (InHand(k)' <=> k = i)
      BY <1>0, <2>4, <3>2, <3>3, <3>4 DEF Claim, InHand, TypeOK
    <3>6. \A k \in Jobs : /\ service[k] = IF job[k] = "processing" THEN "interrupted" ELSE job[k]
                          /\ service[k] # "serving"
      BY <1>0, <3>5 DEF service, ServiceOf, TypeOK
    <3>7. service' = [service EXCEPT ![i] = "serving"]
      BY <1>0, <3>1, <3>2, <3>5 DEF service, ServiceOf, TypeOK
    <3>8. Queue!Serve(i)
      BY <3>1, <3>6, <3>7 DEF Queue!Serve, Oldest
    <3>9. Ordered' /\ Chosen' /\ Doing'
      BY <1>0, <2>0, <2>4, <3>1, <3>2, <3>3, <3>4, Busy
      DEF Claim, Serving, Ordered, Chosen, Doing, Oldest, TypeOK
    <3> QED
      BY <1>0, <3>1, <3>8, <3>9 DEF Serving, Queue!Next
  <2>5. CASE Process(r)
    <3>1. \A k \in Jobs : InHand(k)' <=> InHand(k)
      BY <1>0, <2>5, <2>a DEF Process, InHand, TypeOK, Calls
    <3> QED
      BY <1>0, <2>0, <2>5, <3>1
      DEF Process, Serving, Ordered, Chosen, Oldest, Doing, TypeOK, Calls, service, ServiceOf
  <2>6. CASE Finish(r)
    <3>1. job[i] = "processing" /\ i \in Jobs /\ InHand(i)
      BY <1>0, <2>6 DEF Finish, Serving, Doing, TypeOK, InHand
    <3>2. job' = [job EXCEPT ![i] = "ended"]
      BY <2>6 DEF Finish
    <3>3. \A s \in Drains : s # r => drain[s].pc = "idle"
      BY <2>6, <2>a DEF Finish
    <3>4. life # "recovering" /\ life # "down"
      BY <1>0, <2>6, Busy DEF Finish
    <3>5. \A s \in Drains : drain'[s].pc \in {"idle", "finished"}
      BY <1>0, <2>6, <3>3 DEF Finish, TypeOK, Calls
    <3>6. \A k \in Jobs : ~InHand(k)' /\ (k # i => ~InHand(k))
      BY <3>3, <3>5 DEF InHand
    <3>7. service[i] = "serving" /\ service' = [service EXCEPT ![i] = "ended"]
      BY <3>1, <3>2, <3>6, Moved DEF service, ServiceOf
    <3>8. Ordered' /\ Chosen' /\ Doing'
      BY <1>0, <2>0, <3>1, <3>2, <3>4, <3>5 DEF Serving, Ordered, Chosen, Doing, TypeOK
    <3> QED
      BY <1>0, <3>1, <3>7, <3>8 DEF Serving, Queue!Next, Queue!End
  <2>7. CASE Loop(r)
    <3>1. \A s \in Drains : drain[s].pc \in {"claimed", "working"} => drain'[s] = drain[s]
      BY <1>0, <2>7 DEF Loop, Continue, TypeOK
    <3> QED
      BY <1>0, <2>0, <2>7, <3>1, ContinueHolds, ServingKept DEF Loop
  <2> QED
    BY <1>12, <2>1, <2>2, <2>3, <2>4, <2>5, <2>6, <2>7 DEF Step
<1>13. CASE UNCHANGED vars
  BY <1>0, <1>13, <1>d DEF vars, drains
<1> QED
  BY <1>1, <1>2, <1>3, <1>4, <1>5, <1>6, <1>7, <1>8, <1>9, <1>10, <1>11, <1>12, <1>13 DEF Next, Boot, Step

\* Whatever is nudged, polled, stopped, crashed and recovered, and whichever query fails, the worker
\* implements the queue: jobs are served one at a time and the oldest first.
THEOREM WorkerImplementsQueue == Spec => ImplementsQueue
<1>1. Init => Queue!Init
  BY DEF Init, Queue!Init, service, ServiceOf
<1> QED
  BY <1>1, InitServing, QueueStep, PTL DEF Spec, ImplementsQueue, Queue!Spec

-----------------------------------------------------------------------------
(* Stop *)

\* As long as no query has failed, a processing row is in hand, or left by a process that is gone and
\* waiting for its recovery
Served == used.fail = 0 => \A j \in Jobs : job[j] = "processing" => life = "down" \/ j \in orphans \/ InHand(j)

LEMMA ServedKept ==
  ASSUME Serving, Served, [Next]_vars
  PROVE  Served'
<1>0. TypeOK /\ Safe
  BY DEF Serving, Safe
<1>a. ASSUME UNCHANGED <<used, job, orphans>>, life # "down",
             \A r \in Drains : drain[r].pc \in {"claimed", "working"} => drain'[r] = drain[r]
      PROVE  Served'
  BY <1>a DEF Served, InHand
<1>b. ASSUME RequestDrain, UNCHANGED <<used, job, orphans, life>> PROVE Served'
  <2>1. \A r \in Drains : drain[r].pc \in {"claimed", "working"} => drain'[r] = drain[r]
    BY <1>0, <1>b DEF RequestDrain, TypeOK
  <2> QED
    BY <1>b, <2>1 DEF Served, InHand
<1>c. ASSUME UNCHANGED <<used, job, orphans, life, drain>> PROVE Served'
  BY <1>c DEF Served, InHand
<1>d. ASSUME Failure PROVE Served'
  <2>1. used'.fail = used.fail + 1 /\ used.fail \in Nat
    BY <1>0, <1>d DEF Failure, TypeOK
  <2> QED
    BY <2>1 DEF Served
<1>1. CASE Start
  BY <1>1 DEF Start, Served
<1>2. CASE DrainLoop
  <2>1. \A r \in Drains : drain[r].pc = "idle"
    BY <1>0, <1>2, Busy DEF DrainLoop
  <2>2. \A j \in Jobs : ~InHand(j)
    BY <2>1 DEF InHand
  <2> QED
    BY <1>2, <2>2 DEF DrainLoop, Served
<1>3. ASSUME NEW j \in Jobs, RecoverOrphan(j) PROVE Served'
  <2>1. PICK s \in {"pending", "ended"} : job' = [job EXCEPT ![j] = s]
    BY <1>3 DEF RecoverOrphan
  <2> QED
    BY <1>0, <1>3, <2>1 DEF RecoverOrphan, drains, Served, InHand, TypeOK
<1>4. CASE Poll
  BY <1>4, <1>b DEF Poll
<1>5. CASE Stop \/ Stopped
  <2>1. UNCHANGED <<job, orphans, drain>> /\ used'.fail = used.fail /\ life # "down"
    BY <1>0, <1>5 DEF Stop, Stopped, drains, TypeOK
  <2> QED
    BY <2>1 DEF Served, InHand
<1>6. CASE Exit \/ Crash \/ StopRejected
  BY <1>6 DEF Exit, Crash, StopRejected, Lose, Served
<1>7. ASSUME NEW j \in Jobs, Enqueue(j) PROVE Served'
  BY <1>0, <1>7 DEF Enqueue, drains, Served, InHand, TypeOK
<1>8. ASSUME NEW j \in Jobs, Nudge(j) PROVE Served'
  <2>1. CASE RequestDrain
    BY <1>8, <1>b, <2>1 DEF Nudge
  <2>2. CASE UNCHANGED drains
    BY <1>8, <1>c, <2>2 DEF Nudge, drains
  <2> QED
    BY <1>8, <2>1, <2>2 DEF Nudge
<1>9. ASSUME NEW j \in Jobs, RecoveryFails(j) PROVE Served'
  BY <1>9, <1>d DEF RecoveryFails
<1>10. ASSUME NEW r \in Drains, Break(r) PROVE Served'
  BY <1>10, <1>d DEF Break
<1>11. ASSUME NEW r \in Drains, Step(r) PROVE Served'
  <2>0. UNCHANGED <<used, orphans, life>> /\ life # "down" /\ drain[r].pc # "idle"
    <3>1. UNCHANGED <<used, orphans, life>> /\ drain[r].pc # "idle"
      BY <1>11 DEF Step, Select, Issue, Refrain, Claim, Process, Finish, Loop
    <3> QED
      BY <1>0, <3>1, Busy
  <2>1. CASE Select(r) \/ Issue(r)
    <3>1. UNCHANGED job /\ \A s \in Drains : drain[s].pc \in {"claimed", "working"} => drain'[s] = drain[s]
      BY <1>0, <2>1 DEF Select, Issue, TypeOK
    <3> QED
      BY <1>a, <2>0, <3>1
  <2>2. CASE Refrain(r) \/ Loop(r)
    <3>1. UNCHANGED job /\ \A s \in Drains : drain[s].pc \in {"claimed", "working"} => drain'[s] = drain[s]
      BY <1>0, <2>2 DEF Refrain, Loop, Continue, TypeOK
    <3> QED
      BY <1>a, <2>0, <3>1
  <2>3. CASE Claim(r)
    <3>1. Oldest(drain[r].j)
      BY <1>0, <2>3, NoneNotUsed DEF Claim, Serving, Chosen, TypeOK
    <3>2. /\ job' = [job EXCEPT ![drain[r].j] = "processing"]
          /\ drain' = [drain EXCEPT ![r].pc = "claimed"]
      BY <2>3, <3>1 DEF Claim, Oldest
    <3>3. drain'[r].pc = "claimed" /\ drain'[r].j = drain[r].j /\ \A s \in Drains \ {r} : drain'[s] = drain[s]
      BY <1>0, <3>2 DEF TypeOK, Calls
    <3>4. InHand(drain[r].j)' /\ \A k \in Jobs : InHand(k) => InHand(k)'
      BY <2>3, <3>3 DEF Claim, InHand
    <3> QED
      BY <1>0, <2>0, <3>2, <3>4 DEF Served, TypeOK
  <2>4. CASE Process(r)
    <3>1. drain'[r].pc = "working" /\ drain'[r].j = drain[r].j /\ \A s \in Drains \ {r} : drain'[s] = drain[s]
      BY <1>0, <2>4 DEF Process, TypeOK, Calls
    <3>2. \A k \in Jobs : InHand(k) => InHand(k)'
      BY <3>1 DEF InHand
    <3> QED
      BY <2>0, <2>4, <3>2 DEF Process, Served
  <2>5. CASE Finish(r)
    <3>1. job' = [job EXCEPT ![drain[r].j] = "ended"] /\ \A s \in Drains \ {r} : drain'[s] = drain[s]
      BY <1>0, <2>5 DEF Finish, TypeOK
    <3>2. \A k \in Jobs : k # drain[r].j => (InHand(k) => InHand(k)')
      BY <3>1 DEF InHand
    <3> QED
      BY <1>0, <2>0, <3>1, <3>2 DEF Served, TypeOK
  <2> QED
    BY <1>11, <2>1, <2>2, <2>3, <2>4, <2>5 DEF Step
<1>12. CASE UNCHANGED vars
  BY <1>12, <1>c DEF vars, drains
<1> QED
  BY <1>1, <1>2, <1>3, <1>4, <1>5, <1>6, <1>7, <1>8, <1>9, <1>10, <1>11, <1>12 DEF Next, Boot

\* When stop has returned, and no query has failed, no row of import_jobs is processing: the claim that
\* stop met half-way has been served, and what a crash had left was resolved before the worker was up.
THEOREM StopIsClean == Spec => []StopInterruptsNothing
<1>1. Init => Serving /\ Served
  BY InitServing DEF Init, Served
<1>2. Serving /\ Served /\ [Next]_vars => (Serving /\ Served)'
  BY QueueStep, ServedKept
<1>3. Serving /\ Served => StopInterruptsNothing
  BY DEF Serving, Safe, Phases, Doing, Served, InHand, StopInterruptsNothing
<1> QED
  BY <1>1, <1>2, <1>3, PTL DEF Spec

=============================================================================

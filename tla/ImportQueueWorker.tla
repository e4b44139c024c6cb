------------------------- MODULE ImportQueueWorker -------------------------
(***************************************************************************)
(* The import queue worker from the inside: boot recovery, the nudge       *)
(* listener and the safety poll, the drain that they coalesce into, and    *)
(* stop.  In ImportPipeline all of it is one worker that claims a pending  *)
(* job; here it is why that is so.                                         *)
(* Everything but the rows of import_jobs is memory of the process.        *)
(***************************************************************************)
EXTENDS Integers

CONSTANTS
  Jobs,      \* the ids of import_jobs, in the order of createdAt
  Drains,    \* the calls of runDrain that could be in progress at once
  None,
  MaxStops, MaxCrashes, MaxFailures   \* bounds of a run

ASSUME JobsAssumption == Jobs \subseteq Int
ASSUME NoneNotUsed == None \notin Jobs \cup Drains
ASSUME MaxAssumption == {MaxStops, MaxCrashes, MaxFailures} \subseteq Nat

VARIABLES
  job,         \* import_jobs.status
  nudging,     \* jobs whose enqueue has committed and whose nudge is yet to come
  life,        \* how far start or stop has got
  orphans,     \* the jobs that bootRecovery still has to resolve
  running, stopping, listening, polling,   \* the fields of the worker ...
  drainInProgress, drainRequested,         \* ... and the two that coalesce
  drain,       \* the calls of runDrain: where they are, and with which job
  lastDrain,   \* runDrainPromise: the last call that was started
  currentJob,  \* currentJobPromise: the drain whose job is being processed
  used         \* how many stops, crashes and failures there were

flags == <<running, stopping, listening, polling>>
drains == <<drainInProgress, drainRequested, drain, lastDrain>>
vars == <<job, nudging, life, orphans, flags, drains, currentJob, used>>

-----------------------------------------------------------------------------
Calls == [pc : {"idle", "select", "selected", "claiming", "claimed", "working", "finished"},
          j : Jobs \cup {None}]
Idle == [pc |-> "idle", j |-> None]
Selecting == [pc |-> "select", j |-> None]

Accepting == running /\ ~stopping

\* mutant: a request starts a drain whether or not one is in progress
RequestAlwaysDrains ==
  IF Accepting
  THEN \E r \in Drains : /\ drain[r].pc = "idle"
                         /\ drainInProgress' = TRUE /\ drainRequested' = FALSE
                         /\ drain' = [drain EXCEPT ![r] = Selecting]
                         /\ lastDrain' = r
  ELSE UNCHANGED drains

\* mutant: a request during a drain is dropped
RequestDropped ==
  IF Accepting /\ ~drainInProgress
  THEN \E r \in Drains : /\ drain[r].pc = "idle"
                         /\ drainInProgress' = TRUE /\ drainRequested' = FALSE
                         /\ drain' = [drain EXCEPT ![r] = Selecting]
                         /\ lastDrain' = r
  ELSE UNCHANGED drains

\* requestDrain: one drain at a time; a request during a drain asks it for another round
RequestDrain ==
  IF Accepting /\ ~drainInProgress
  THEN \E r \in Drains : /\ drain[r].pc = "idle"
                         /\ drainInProgress' = TRUE /\ drainRequested' = FALSE
                         /\ drain' = [drain EXCEPT ![r] = Selecting]
                         /\ lastDrain' = r
  ELSE /\ drainRequested' = (drainRequested \/ Accepting)
       /\ UNCHANGED <<drainInProgress, drain, lastDrain>>

-----------------------------------------------------------------------------
(* Producers *)

\* Requests are served until the server closes, which is after the worker has stopped
Enqueue(j) ==
  /\ life \notin {"down", "recovering"}
  /\ job[j] = "absent" /\ \A k \in Jobs : k < j => job[k] # "absent"
  /\ job' = [job EXCEPT ![j] = "pending"]
  /\ nudging' = nudging \cup {j}
  /\ UNCHANGED <<life, orphans, flags, drains, currentJob, used>>

\* nothing is emitted once stopping, and nobody hears it before the listener is there
Nudge(j) ==
  /\ j \in nudging
  /\ nudging' = nudging \ {j}
  /\ IF listening /\ ~stopping THEN RequestDrain ELSE UNCHANGED drains
  /\ UNCHANGED <<job, life, orphans, flags, currentJob, used>>

\* the safety poll, every 30 seconds
Poll ==
  /\ polling
  /\ RequestDrain
  /\ UNCHANGED <<job, nudging, life, orphans, flags, currentJob, used>>

-----------------------------------------------------------------------------
(* Start *)

\* start: the rows left processing are nobody's now
Start ==
  /\ life = "down"
  /\ life' = "recovering"
  /\ running' = TRUE /\ stopping' = FALSE
  /\ orphans' = {j \in Jobs : job[j] = "processing"}
  /\ UNCHANGED <<job, nudging, listening, polling, drains, currentJob, used>>

\* requeued if its book is still importing, failed otherwise
RecoverOrphan(j) ==
  /\ life = "recovering" /\ j \in orphans
  /\ orphans' = orphans \ {j}
  /\ \E s \in {"pending", "ended"} : job' = [job EXCEPT ![j] = s]
  /\ UNCHANGED <<nudging, life, flags, drains, currentJob, used>>

Failure == used.fail < MaxFailures /\ used' = [used EXCEPT !.fail = @ + 1]

\* an orphan whose transaction fails is logged and left as it is
RecoveryFails(j) ==
  /\ life = "recovering" /\ j \in orphans /\ Failure
  /\ orphans' = orphans \ {j}
  /\ UNCHANGED <<job, nudging, life, flags, drains, currentJob>>

\* mutant: the worker has no safety poll
DrainLoopWithoutPoll ==
  /\ life = "recovering" /\ orphans = {}
  /\ life' = "up"
  /\ listening' = TRUE /\ UNCHANGED polling
  /\ RequestDrain
  /\ UNCHANGED <<job, nudging, orphans, running, stopping, currentJob, used>>

\* mutant: nothing waits for the recovery
DrainLoopAtOnce ==
  /\ life = "recovering"
  /\ life' = "up"
  /\ listening' = TRUE /\ polling' = TRUE
  /\ RequestDrain
  /\ UNCHANGED <<job, nudging, orphans, running, stopping, currentJob, used>>

\* after the marker sweep: the listener, the safety poll and a first drain
DrainLoop ==
  /\ life = "recovering" /\ orphans = {}
  /\ life' = "up"
  /\ listening' = TRUE /\ polling' = TRUE
  /\ RequestDrain
  /\ UNCHANGED <<job, nudging, orphans, running, stopping, currentJob, used>>

-----------------------------------------------------------------------------
(* A drain: runDrain around drainOne *)

\* drainOne returned: true goes on while the worker accepts work, and so does a request
Continue(r, processed) ==
  IF Accepting /\ (processed \/ drainRequested)
  THEN /\ drain' = [drain EXCEPT ![r] = Selecting]
       /\ drainRequested' = (drainRequested /\ processed)
       /\ UNCHANGED <<drainInProgress, lastDrain>>
  ELSE /\ drain' = [drain EXCEPT ![r] = Idle]
       /\ drainInProgress' = FALSE
       /\ UNCHANGED <<drainRequested, lastDrain>>

\* mutant: the SELECT has no order
AnyPending(j) == job[j] = "pending"

Oldest(j) == job[j] = "pending" /\ \A k \in Jobs : job[k] = "pending" => j <= k

\* the SELECT of the oldest pending job ...
Select(r) ==
  /\ drain[r].pc = "select"
  /\ \/ \E j \in Jobs : Oldest(j) /\ drain' = [drain EXCEPT ![r] = [pc |-> "selected", j |-> j]]
     \/ /\ \A j \in Jobs : job[j] # "pending"
        /\ drain' = [drain EXCEPT ![r] = [pc |-> "selected", j |-> None]]
  /\ UNCHANGED <<job, nudging, life, orphans, flags, drainInProgress, drainRequested, lastDrain,
                 currentJob, used>>

\* ... and what follows it: no job, or a stop since, and nothing is claimed
MayClaim(r) == drain[r].j # None /\ Accepting

Issue(r) ==
  /\ drain[r].pc = "selected" /\ MayClaim(r)
  /\ drain' = [drain EXCEPT ![r].pc = "claiming"]
  /\ UNCHANGED <<job, nudging, life, orphans, flags, drainInProgress, drainRequested, lastDrain,
                 currentJob, used>>

Refrain(r) ==
  /\ drain[r].pc = "selected" /\ ~MayClaim(r)
  /\ Continue(r, FALSE)
  /\ UNCHANGED <<job, nudging, life, orphans, flags, currentJob, used>>

\* the UPDATE that claims it, if it is still pending
Claim(r) ==
  /\ drain[r].pc = "claiming"
  /\ IF job[drain[r].j] = "pending"
     THEN /\ job' = [job EXCEPT ![drain[r].j] = "processing"]
          /\ drain' = [drain EXCEPT ![r].pc = "claimed"]
     ELSE /\ drain' = [drain EXCEPT ![r].pc = "finished"]
          /\ UNCHANGED job
  /\ UNCHANGED <<nudging, life, orphans, flags, drainInProgress, drainRequested, lastDrain,
                 currentJob, used>>

\* reload, then processJob
Process(r) ==
  /\ drain[r].pc = "claimed"
  /\ drain' = [drain EXCEPT ![r].pc = "working"]
  /\ currentJob' = r
  /\ UNCHANGED <<job, nudging, life, orphans, flags, drainInProgress, drainRequested, lastDrain, used>>

\* completed, refused or failed: the row is final, and then the call returns
Finish(r) ==
  /\ drain[r].pc = "working"
  /\ job' = [job EXCEPT ![drain[r].j] = "ended"]
  /\ drain' = [drain EXCEPT ![r].pc = "finished"]
  /\ currentJob' = None
  /\ UNCHANGED <<nudging, life, orphans, flags, drainInProgress, drainRequested, lastDrain, used>>

Loop(r) ==
  /\ drain[r].pc = "finished"
  /\ Continue(r, TRUE)
  /\ UNCHANGED <<job, nudging, life, orphans, flags, currentJob, used>>

\* a query of the drain fails: the runner logs it and ends, and a request it had coalesced stays
Break(r) ==
  /\ drain[r].pc \in {"select", "claiming", "claimed", "working"} /\ Failure
  /\ ~(drain[r].pc = "working" /\ life = "stopping")
  /\ drain' = [drain EXCEPT ![r] = Idle]
  /\ drainInProgress' = FALSE
  /\ currentJob' = None
  /\ UNCHANGED <<job, nudging, life, orphans, flags, drainRequested, lastDrain>>

-----------------------------------------------------------------------------
(* Stop and the end of the process *)

\* waits for the job being processed first
Stop ==
  /\ life = "up" /\ used.stop < MaxStops
  /\ used' = [used EXCEPT !.stop = @ + 1]
  /\ stopping' = TRUE /\ running' = FALSE
  /\ listening' = FALSE /\ polling' = FALSE
  /\ life' = IF currentJob # None THEN "stopping" ELSE "waiting"
  /\ UNCHANGED <<job, nudging, orphans, drains, currentJob>>

\* mutant: stop does not wait for a drain that has no job yet
StoppedAtOnce ==
  /\ life = "stopping" \/ life = "waiting"
  /\ currentJob = None
  /\ life' = "stopped"
  /\ UNCHANGED <<job, nudging, orphans, flags, drains, currentJob, used>>

\* then for the drain, which may have been about to claim
Stopped ==
  /\ \/ life = "stopping" /\ currentJob = None
     \/ life = "waiting"
  /\ lastDrain # None => drain[lastDrain].pc = "idle"
  /\ life' = "stopped"
  /\ UNCHANGED <<job, nudging, orphans, flags, drains, currentJob, used>>

\* only the rows of import_jobs survive
Lose ==
  /\ life' = "down"
  /\ nudging' = {} /\ orphans' = {}
  /\ running' = FALSE /\ stopping' = FALSE /\ listening' = FALSE /\ polling' = FALSE
  /\ drainInProgress' = FALSE /\ drainRequested' = FALSE
  /\ drain' = [r \in Drains |-> Idle] /\ lastDrain' = None
  /\ currentJob' = None
  /\ UNCHANGED job

Exit == life = "stopped" /\ Lose /\ UNCHANGED used

Crash == life # "down" /\ used.crash < MaxCrashes /\ Lose /\ used' = [used EXCEPT !.crash = @ + 1]

\* the job that stop waits for rejects, and with it stop: the process exits unhandled
StopRejected ==
  /\ life = "stopping" /\ currentJob # None /\ Failure
  /\ Lose

-----------------------------------------------------------------------------
Init ==
  /\ job = [j \in Jobs |-> "absent"]
  /\ nudging = {} /\ life = "down" /\ orphans = {}
  /\ running = FALSE /\ stopping = FALSE /\ listening = FALSE /\ polling = FALSE
  /\ drainInProgress = FALSE /\ drainRequested = FALSE
  /\ drain = [r \in Drains |-> Idle] /\ lastDrain = None
  /\ currentJob = None
  /\ used = [stop |-> 0, crash |-> 0, fail |-> 0]

Boot == Start \/ DrainLoop \/ \E j \in Jobs : RecoverOrphan(j)
Step(r) == Select(r) \/ Issue(r) \/ Refrain(r) \/ Claim(r) \/ Process(r) \/ Finish(r) \/ Loop(r)

Next ==
  \/ Boot \/ Poll \/ Stop \/ Stopped \/ Exit \/ Crash \/ StopRejected
  \/ \E j \in Jobs : Enqueue(j) \/ Nudge(j) \/ RecoveryFails(j)
  \/ \E r \in Drains : Step(r) \/ Break(r)

Spec == Init /\ [][Next]_vars

\* What was begun goes on: queries settle, a committed enqueue goes on to its nudge, a stop to the
\* exit, and a process that is down is started again.  The safety poll is needed, and assumed to go
\* on, only where a query may fail.
Undisturbed == [](used.fail = 0)

Fairness ==
  /\ WF_vars(Boot) /\ WF_vars(Stopped) /\ WF_vars(Exit)
  /\ \A j \in Jobs : WF_vars(Nudge(j))
  /\ \A r \in Drains : WF_vars(Step(r))
  /\ Undisturbed \/ WF_vars(Poll)

FairSpec == Spec /\ Fairness

-----------------------------------------------------------------------------
\* Every variable keeps its type, and a call that claims or processes has a job to do it with.
TypeOK ==
  /\ job \in [Jobs -> {"absent", "pending", "processing", "ended"}]
  /\ nudging \subseteq Jobs /\ orphans \subseteq Jobs
  /\ life \in {"down", "recovering", "up", "stopping", "waiting", "stopped"}
  /\ running \in BOOLEAN /\ stopping \in BOOLEAN /\ listening \in BOOLEAN /\ polling \in BOOLEAN
  /\ drainInProgress \in BOOLEAN /\ drainRequested \in BOOLEAN
  /\ drain \in [Drains -> Calls]
  /\ \A r \in Drains : drain[r].pc \in {"claiming", "claimed", "working"} => drain[r].j \in Jobs
  /\ lastDrain \in Drains \cup {None} /\ currentJob \in Drains \cup {None}
  /\ used \in [stop : Nat, crash : Nat, fail : Nat]

\* Nudges, polls, failed drains and restarts never make two drains run at once: two imports of one
\* worker at a time would share its staging folders and its current job.
OneDrain == \A r, s \in Drains : drain[r].pc # "idle" /\ drain[s].pc # "idle" => r = s

\* When stop has returned nothing of the worker runs any more: the services stopped after it get no
\* more work, and no job is claimed that the exit would cut off.
StoppedIsQuiet == life = "stopped" => \A r \in Drains : drain[r].pc = "idle"

\* A stop cuts no import off: unless a query has failed, no row is processing when it has returned,
\* whatever an earlier crash had left, and the boot that follows has nothing to recover.
StopInterruptsNothing ==
  life = "stopped" /\ used.fail = 0 => \A j \in Jobs : job[j] # "processing"

\* No wake-up is lost: whenever a nudge falls, during a drain, at its very end, at boot or while the
\* worker stops, the job it announced is served to its end, and without the help of the safety poll.
EveryJobEnds == Undisturbed => \A j \in Jobs : job[j] = "pending" ~> job[j] = "ended"

\* With the safety poll a drain that fails, even one that had coalesced a nudge, leaves no job pending.
PendingIsClaimed == \A j \in Jobs : job[j] = "pending" ~> job[j] # "pending"

\* A processing row is being served when a drain has it in hand; otherwise a crash, an exit or a failed
\* query has cut its service off
InHand(j) == \E r \in Drains : drain[r].pc \in {"claimed", "working"} /\ drain[r].j = j
ServiceOf(j) == IF job[j] # "processing" THEN job[j]
                ELSE IF InHand(j) THEN "serving" ELSE "interrupted"

service == [j \in Jobs |-> ServiceOf(j)]

\* The worker implements the queue that the rest of the system sees, failures included: one job at a
\* time, oldest first, and a job that was cut off is resolved before it is served again.
Queue == INSTANCE JobQueue WITH served <- service
ImplementsQueue == Queue!Spec
=============================================================================

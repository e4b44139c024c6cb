--------------------------- MODULE ConnectorRefresh ---------------------------
(***************************************************************************)
(* The in-memory queue of refreshes of media servers: what is enqueued for *)
(* a connector is gathered into a batch, the batches of one connector run  *)
(* one after the other as a chain of promises, each with one retry, and a  *)
(* shutdown drops what is gathered and awaits what runs, up to a deadline. *)
(***************************************************************************)
EXTENDS Integers, Sequences

CONSTANTS
  Connectors,
  MaxBatchItems,
  MaxOffers      \* bound: how many items a run enqueues

ASSUME BatchAssumption == MaxBatchItems \in Nat \ {0} /\ MaxOffers \in Nat

VARIABLES
  gathered,    \* of a connector: the number of items pending, with their timers armed
  enqueued,     \* bound: how many items were enqueued
  batches,     \* every batch detached so far, in order
  draining,    \* of a connector: the batch at the tail of its chain, 0 if there is none
  stop,        \* no, awaiting, returned
  aborted      \* shutdownSignal

refreshVars == <<gathered, enqueued, batches, draining, stop, aborted>>

BatchPcs == {"waiting", "resolving", "running", "backoff", "done"}
Batches == [of : Connectors, after : Nat, tries : 0..2, pc : BatchPcs]

-----------------------------------------------------------------------------
\* flush: the batch is detached, and chained behind the tail of its connector
Flush(c) ==
  /\ gathered' = [gathered EXCEPT ![c] = 0]
  /\ batches' = Append(batches, [of |-> c, after |-> draining[c], tries |-> 0, pc |-> "waiting"])
  /\ draining' = [draining EXCEPT ![c] = Len(batches) + 1]

\* a full batch does not wait for its timers
EnqueueItem(c) ==
  /\ stop = "no" /\ enqueued < MaxOffers
  /\ enqueued' = enqueued + 1
  /\ IF gathered[c] + 1 >= MaxBatchItems THEN Flush(c)
     ELSE gathered' = [gathered EXCEPT ![c] = @ + 1] /\ UNCHANGED <<batches, draining>>
  /\ UNCHANGED <<stop, aborted>>

\* the debounce or the deadline of the batch
TimerFires(c) ==
  /\ gathered[c] > 0 /\ Flush(c)
  /\ UNCHANGED <<enqueued, stop, aborted>>

-----------------------------------------------------------------------------
(* executeFlush *)

BatchAt(i, pc) == i \in DOMAIN batches /\ batches[i].pc = pc

\* mutant: an error gets out of executeFlush, and the batches chained behind it never run
Rejected(i) ==
  /\ batches' = [j \in DOMAIN batches |-> IF j = i \/ batches[j].after = i THEN [batches[j] EXCEPT !.after = j] ELSE batches[j]]
  /\ UNCHANGED draining

\* mutant: the tail of the chain goes, also when it is a later batch
DeleteTail(i) ==
  /\ batches' = [batches EXCEPT ![i].pc = "done"]
  /\ draining' = [draining EXCEPT ![batches[i].of] = 0]

\* a batch always settles, and leaves the chain only if it is still its tail
SettleBatch(i) ==
  /\ batches' = [batches EXCEPT ![i].pc = "done"]
  /\ draining' = [draining EXCEPT ![batches[i].of] = IF @ = i THEN 0 ELSE @]

GoesTo(i, pc) == batches' = [batches EXCEPT ![i].pc = pc] /\ UNCHANGED draining

First(i) == batches[i].after = 0 \/ BatchAt(batches[i].after, "done")

\* mutant: a batch that waited behind another starts during the shutdown
StartAnyway(i) ==
  /\ BatchAt(i, "waiting") /\ First(i)
  /\ GoesTo(i, "resolving")
  /\ UNCHANGED <<gathered, enqueued, stop, aborted>>

StartBatch(i) ==
  /\ BatchAt(i, "waiting") /\ First(i)
  /\ IF stop = "no" THEN GoesTo(i, "resolving") ELSE SettleBatch(i)
  /\ UNCHANGED <<gathered, enqueued, stop, aborted>>

\* the connector and its adapter, unless it is gone, disabled, or cannot be made
ResolveBatch(i) ==
  /\ BatchAt(i, "resolving")
  /\ \/ SettleBatch(i)
     \/ batches' = [batches EXCEPT ![i].pc = "running", ![i].tries = 1] /\ UNCHANGED draining
  /\ UNCHANGED <<gathered, enqueued, stop, aborted>>

\* it succeeds, or fails for good; a timeout or an error that may pass is tried once more
Attempt(i) ==
  /\ BatchAt(i, "running")
  /\ \/ SettleBatch(i)
     \/ batches[i].tries = 1 /\ ~aborted /\ GoesTo(i, "backoff")
  /\ UNCHANGED <<gathered, enqueued, stop, aborted>>

\* the delay passes, or the shutdown interrupts it
Backoff(i) ==
  /\ BatchAt(i, "backoff")
  /\ IF aborted THEN SettleBatch(i)
     ELSE batches' = [batches EXCEPT ![i].pc = "running", ![i].tries = 2] /\ UNCHANGED draining
  /\ UNCHANGED <<gathered, enqueued, stop, aborted>>

-----------------------------------------------------------------------------
(* stop *)

\* what is gathered is dropped
StopQueue ==
  /\ stop = "no"
  /\ gathered' = [c \in Connectors |-> 0]
  /\ stop' = "awaiting"
  /\ UNCHANGED <<enqueued, batches, draining, aborted>>

Drained ==
  /\ stop = "awaiting" /\ \A c \in Connectors : draining[c] = 0
  /\ stop' = "returned"
  /\ UNCHANGED <<gathered, enqueued, batches, draining, aborted>>

DeadlinePasses ==
  /\ stop = "awaiting" /\ \E c \in Connectors : draining[c] # 0
  /\ stop' = "returned" /\ aborted' = TRUE
  /\ UNCHANGED <<gathered, enqueued, batches, draining>>

-----------------------------------------------------------------------------
RefreshInit ==
  /\ gathered = [c \in Connectors |-> 0] /\ enqueued = 0
  /\ batches = <<>> /\ draining = [c \in Connectors |-> 0]
  /\ stop = "no" /\ aborted = FALSE

BatchStep(i) == StartBatch(i) \/ ResolveBatch(i) \/ Attempt(i) \/ Backoff(i)

RefreshNext ==
  \/ \E c \in Connectors : EnqueueItem(c) \/ TimerFires(c)
  \/ \E i \in DOMAIN batches : BatchStep(i)
  \/ StopQueue \/ Drained \/ DeadlinePasses

RefreshSpec == RefreshInit /\ [][RefreshNext]_refreshVars

-----------------------------------------------------------------------------
RefreshTypeOK ==
  /\ gathered \in [Connectors -> Nat] /\ \A c \in Connectors : gathered[c] < MaxBatchItems
  /\ batches \in Seq(Batches) /\ draining \in [Connectors -> 0..Len(batches)]
  /\ stop \in {"no", "awaiting", "returned"} /\ aborted \in BOOLEAN

\* A connector is never sent two batches at a time, however the full batches, the timers and the ends
\* of earlier batches fall; nor a later batch before an earlier one.
OneFlushAtATime ==
  \A i, j \in DOMAIN batches :
    i < j /\ batches[i].of = batches[j].of /\ batches[i].pc # "done" => batches[j].pc = "waiting"

\* Once the shutdown has begun no batch is detached and none starts, and when it returns without
\* having had to abort, every batch is over.
QuietAfterStop ==
  /\ [](stop = "returned" /\ ~aborted => \A i \in DOMAIN batches : batches[i].pc = "done")
  /\ [][stop # "no" => /\ Len(batches') = Len(batches)
                       /\ \A i \in DOMAIN batches : batches[i].pc = "waiting" => batches'[i].pc # "resolving"
       ]_refreshVars

\* What is gathered is detached or dropped, and every batch settles, whatever became of the one before.
BatchesSettle ==
  <>[]((\A c \in Connectors : gathered[c] = 0) /\ \A i \in DOMAIN batches : BatchAt(i, "done"))
=============================================================================

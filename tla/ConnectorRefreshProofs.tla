------------------------- MODULE ConnectorRefreshProofs -------------------------
(***************************************************************************)
(* The chain of promises of a connector keeps its batches apart and in     *)
(* order, and the shutdown keeps what it promises: for every number of     *)
(* connectors and items.                                                   *)
(***************************************************************************)
EXTENDS ConnectorRefresh, TLAPS

Undone(i) == batches[i].pc # "done"
SameOf(i, j) == batches[i].of = batches[j].of

\* What a batch was chained behind is an earlier one of its connector, and no batch of the connector
\* between the two is still to be run
Behind(i) ==
  /\ batches[i].after < i
  /\ batches[i].after # 0 => SameOf(batches[i].after, i)
  /\ \A h \in DOMAIN batches : h < i /\ SameOf(h, i) /\ Undone(h) => h <= batches[i].after

\* The tail of a connector is one of its batches, and none that is still to be run comes after it
Tails ==
  /\ \A c \in Connectors : draining[c] # 0 => batches[draining[c]].of = c
  /\ \A i \in DOMAIN batches : Undone(i) => i <= draining[batches[i].of]

StopInv ==
  /\ stop # "no" => \A c \in Connectors : gathered[c] = 0
  /\ stop = "returned" /\ ~aborted => \A i \in DOMAIN batches : ~Undone(i)
  /\ aborted => stop = "returned"

Inv ==
  /\ RefreshTypeOK /\ OneFlushAtATime /\ Tails /\ StopInv
  /\ \A i \in DOMAIN batches : Behind(i)

-----------------------------------------------------------------------------
LEMMA BatchTyped ==
  ASSUME RefreshTypeOK, NEW i \in DOMAIN batches
  PROVE  batches[i] \in Batches /\ batches[i].of \in Connectors /\ batches[i].after \in Nat
<1>1. batches[i] \in Batches
  BY DEF RefreshTypeOK
<1>. QED
  BY <1>1 DEF Batches

\* Whoever runs, or is the first in its chain, has nobody before it
LEMMA NobodyBefore ==
  ASSUME Inv, NEW i \in DOMAIN batches, Undone(i), batches[i].pc # "waiting" \/ First(i)
  PROVE  \A h \in DOMAIN batches : h < i /\ SameOf(h, i) => ~Undone(h)
<1>. SUFFICES ASSUME NEW h \in DOMAIN batches, h < i, SameOf(h, i), Undone(h) PROVE FALSE
  OBVIOUS
<1>. DOMAIN batches \subseteq Nat
  BY DEF Inv, RefreshTypeOK
<1>1. First(i)
  BY DEF Inv, OneFlushAtATime, Undone, SameOf
<1>. DEFINE k == batches[i].after
<1>2. k \in Nat /\ h <= k /\ k # 0
  BY BatchTyped DEF Inv, Behind
<1>3. k \in DOMAIN batches /\ ~Undone(k) /\ SameOf(h, k)
  BY <1>1, <1>2 DEF First, BatchAt, Undone, Inv, Behind, SameOf
<1>4. h < k
  BY <1>2, <1>3 DEF Undone
<1>. QED
  BY <1>3, <1>4 DEF Inv, OneFlushAtATime, Undone, SameOf

\* A batch that is being run, or is the first in its chain, goes on; it may settle
LEMMA BatchGoes ==
  ASSUME Inv, NEW i \in DOMAIN batches, Undone(i), batches[i].pc # "waiting" \/ First(i),
         NEW b \in Batches, b.of = batches[i].of, b.after = batches[i].after, b.pc # "waiting",
         batches' = [batches EXCEPT ![i] = b],
         \/ draining' = draining
         \/ b.pc = "done" /\ draining' = [draining EXCEPT ![b.of] = IF @ = i THEN 0 ELSE @],
         UNCHANGED <<gathered, stop, aborted>>
  PROVE  Inv'
<1>1. /\ batches \in Seq(Batches) /\ draining \in [Connectors -> 0..Len(batches)]
      /\ Len(batches) \in Nat /\ DOMAIN batches = 1..Len(batches)
  BY DEF Inv, RefreshTypeOK
<1>2. /\ batches' \in Seq(Batches) /\ DOMAIN batches' = DOMAIN batches /\ Len(batches') = Len(batches)
      /\ batches'[i] = b /\ \A j \in DOMAIN batches \ {i} : batches'[j] = batches[j]
  BY <1>1
<1>3. \A j \in DOMAIN batches : batches[j] \in Batches /\ batches[j].of \in Connectors /\ batches[j].after \in Nat
  BY BatchTyped DEF Inv
<1>4. /\ \A h, j \in DOMAIN batches : SameOf(h, j)' <=> SameOf(h, j)
      /\ \A j \in DOMAIN batches : Undone(j)' => Undone(j)
      /\ \A j \in DOMAIN batches : batches'[j].after = batches[j].after /\ batches'[j].of = batches[j].of
  BY <1>2 DEF SameOf, Undone
<1>5. \A h \in DOMAIN batches : h < i /\ SameOf(h, i) => ~Undone(h)
  BY NobodyBefore
<1>6. RefreshTypeOK'
  <2>1. draining' \in [Connectors -> 0..Len(batches)]
    BY <1>1, <1>3
  <2>. QED
    BY <1>2, <2>1 DEF Inv, RefreshTypeOK
<1>7. OneFlushAtATime'
  <2>. SUFFICES ASSUME NEW h \in DOMAIN batches, NEW j \in DOMAIN batches, h < j, SameOf(h, j), Undone(h)'
                PROVE  batches'[j].pc = "waiting"
    BY <1>2, <1>4 DEF OneFlushAtATime, Undone, SameOf
  <2>1. Undone(h) /\ j # i
    BY <1>4, <1>5
  <2>. QED
    BY <1>2, <2>1 DEF Inv, OneFlushAtATime, Undone, SameOf
<1>8. Tails'
  <2>1. ASSUME NEW c \in Connectors, draining'[c] # 0 PROVE batches'[draining'[c]].of = c
    <3>1. draining'[c] = draining[c] /\ draining[c] \in DOMAIN batches
      BY <1>1, <1>3, <2>1
    <3>. QED
      BY <1>4, <2>1, <3>1 DEF Inv, Tails
  <2>2. ASSUME NEW j \in DOMAIN batches, Undone(j)' PROVE j <= draining'[batches'[j].of]
    <3>. DEFINE c == batches[j].of
    <3>1. Undone(j) /\ j <= draining[c] /\ c \in Connectors /\ batches'[j].of = c
      BY <1>3, <1>4, <2>2 DEF Inv, Tails
    <3>2. CASE draining'[c] = draining[c]
      BY <3>1, <3>2
    <3>3. CASE draining'[c] # draining[c]
      <4>1. b.pc = "done" /\ c = b.of /\ draining[c] = i
        BY <1>1, <1>3, <3>1, <3>3
      <4>2. SameOf(j, i) /\ j # i
        BY <1>2, <2>2, <4>1 DEF SameOf, Undone
      <4>3. j < i
        BY <1>1, <3>1, <4>1, <4>2
      <4>. QED
        BY <1>5, <3>1, <4>2, <4>3
    <3>. QED
      BY <3>2, <3>3
  <2>. QED
    BY <1>2, <2>1, <2>2 DEF Tails
<1>9. StopInv'
  BY <1>2, <1>4 DEF Inv, StopInv
<1>10. ASSUME NEW j \in DOMAIN batches PROVE Behind(j)'
  <2>. DEFINE k == batches[j].after
  <2>1. Behind(j) /\ k \in Nat /\ batches'[j].after = k
    BY <1>3, <1>4 DEF Inv, Batches
  <2>2. k < j /\ (k # 0 => k \in DOMAIN batches)
    BY <1>1, <2>1 DEF Behind
  <2>3. k # 0 => batches'[k].of = batches'[j].of
    BY <1>4, <2>1, <2>2 DEF Behind, SameOf
  <2>4. \A h \in DOMAIN batches : h < j /\ SameOf(h, j)' /\ Undone(h)' => h <= k
    BY <1>4, <2>1 DEF Behind
  <2>. QED
    BY <1>2, <2>1, <2>2, <2>3, <2>4 DEF Behind, SameOf
<1>. QED
  BY <1>2, <1>6, <1>7, <1>8, <1>9, <1>10 DEF Inv

LEMMA FlushKeeps ==
  ASSUME Inv, NEW c \in Connectors, Flush(c), stop = "no", UNCHANGED <<stop, aborted>>
  PROVE  Inv'
<1>. DEFINE n == Len(batches) + 1
<1>. DEFINE new == [of |-> c, after |-> draining[c], tries |-> 0, pc |-> "waiting"]
<1>1. /\ batches \in Seq(Batches) /\ draining \in [Connectors -> 0..Len(batches)]
      /\ Len(batches) \in Nat /\ DOMAIN batches = 1..Len(batches)
      /\ gathered \in [Connectors -> Nat] /\ \A d \in Connectors : gathered[d] < MaxBatchItems
  BY DEF Inv, RefreshTypeOK
<1>2. new \in Batches /\ batches' = Append(batches, new) /\ draining' = [draining EXCEPT ![c] = n]
      /\ gathered' = [gathered EXCEPT ![c] = 0]
  BY <1>1 DEF Batches, BatchPcs, Flush
<1>3. new.of = c /\ new.after = draining[c] /\ new.pc = "waiting"
  OBVIOUS
<1>. HIDE DEF new
<1>4. /\ batches' \in Seq(Batches) /\ Len(batches') = n /\ DOMAIN batches' = 1..n
      /\ batches'[n] = new /\ \A i \in DOMAIN batches : batches'[i] = batches[i]
  BY <1>1, <1>2
<1>5. \A i \in DOMAIN batches : batches[i].of \in Connectors /\ batches[i].after \in Nat
  BY BatchTyped DEF Inv
<1>6. \A i \in DOMAIN batches' : i = n \/ (i \in DOMAIN batches /\ i < n)
  BY <1>1, <1>4
<1>7. \A i \in DOMAIN batches : Undone(i) /\ batches[i].of = c => i <= draining[c]
  BY DEF Inv, Tails
<1>8. RefreshTypeOK'
  <2>1. draining' \in [Connectors -> 0..n]
    BY <1>1, <1>2
  <2>2. gathered' \in [Connectors -> Nat] /\ \A d \in Connectors : gathered'[d] < MaxBatchItems
    BY <1>1, <1>2, BatchAssumption
  <2>. QED
    BY <1>4, <2>1, <2>2 DEF Inv, RefreshTypeOK
<1>9. OneFlushAtATime'
  <2>. SUFFICES ASSUME NEW i \in DOMAIN batches', NEW j \in DOMAIN batches', i < j,
                       batches'[i].of = batches'[j].of, batches'[i].pc # "done"
                PROVE  batches'[j].pc = "waiting"
    BY DEF OneFlushAtATime
  <2>1. CASE j = n
    BY <1>3, <1>4, <2>1
  <2>2. CASE j \in DOMAIN batches
    BY <1>1, <1>4, <1>6, <2>2 DEF Inv, OneFlushAtATime
  <2>. QED
    BY <1>6, <2>1, <2>2
<1>10. Tails'
  <2>1. ASSUME NEW d \in Connectors, draining'[d] # 0 PROVE batches'[draining'[d]].of = d
    <3>1. CASE d = c
      BY <1>1, <1>2, <1>3, <1>4, <3>1
    <3>2. CASE d # c
      <4>1. draining'[d] = draining[d] /\ draining[d] \in DOMAIN batches
        BY <1>1, <1>2, <2>1, <3>2
      <4>. QED
        BY <1>4, <2>1, <4>1 DEF Inv, Tails
    <3>. QED
      BY <3>1, <3>2
  <2>2. ASSUME NEW i \in DOMAIN batches', batches'[i].pc # "done" PROVE i <= draining'[batches'[i].of]
    <3>1. CASE i = n
      BY <1>1, <1>2, <1>3, <1>4, <3>1
    <3>2. CASE i \in DOMAIN batches /\ i < n
      <4>1. Undone(i) /\ i <= draining[batches[i].of] /\ batches'[i].of = batches[i].of
        BY <1>4, <2>2, <3>2 DEF Inv, Tails, Undone
      <4>. QED
        BY <1>1, <1>2, <1>5, <3>2, <4>1
    <3>. QED
      BY <1>6, <3>1, <3>2
  <2>. QED
    BY <2>1, <2>2 DEF Tails, Undone
<1>11. StopInv'
  BY DEF Inv, StopInv
<1>12. ASSUME NEW i \in DOMAIN batches' PROVE Behind(i)'
  <2>1. CASE i = n
    <3>1. batches'[i].after = draining[c] /\ batches'[i].of = c /\ draining[c] < n /\ draining[c] \in Nat
      BY <1>1, <1>3, <1>4, <2>1
    <3>2. draining[c] # 0 => batches'[draining[c]].of = c
      BY <1>1, <1>4 DEF Inv, Tails
    <3>3. \A h \in DOMAIN batches' : h < i /\ batches'[h].of = c /\ batches'[h].pc # "done" => h <= draining[c]
      BY <1>4, <1>6, <1>7, <2>1 DEF Undone
    <3>. QED
      BY <2>1, <3>1, <3>2, <3>3 DEF Behind, SameOf, Undone
  <2>2. CASE i \in DOMAIN batches /\ i < n
    <3>. DEFINE k == batches[i].after
    <3>1. Behind(i) /\ k \in Nat /\ batches'[i] = batches[i]
      BY <1>4, <1>5, <2>2 DEF Inv
    <3>2. k < i /\ (k # 0 => k \in DOMAIN batches)
      BY <1>1, <2>2, <3>1 DEF Behind
    <3>3. k # 0 => batches'[k].of = batches'[i].of
      BY <1>4, <3>1, <3>2 DEF Behind, SameOf
    <3>4. \A h \in DOMAIN batches' : h < i /\ batches'[h].of = batches'[i].of /\ batches'[h].pc # "done" => h <= k
      BY <1>1, <1>4, <1>6, <2>2, <3>1 DEF Behind, SameOf, Undone
    <3>. QED
      BY <3>1, <3>2, <3>3, <3>4 DEF Behind, SameOf, Undone
  <2>. QED
    BY <1>6, <2>1, <2>2
<1>. QED
  BY <1>8, <1>9, <1>10, <1>11, <1>12 DEF Inv

-----------------------------------------------------------------------------
LEMMA InitInv == RefreshInit => Inv
<1>. SUFFICES ASSUME RefreshInit PROVE Inv
  OBVIOUS
<1>1. batches = <<>> /\ batches \in Seq(Batches) /\ Len(batches) = 0 /\ DOMAIN batches = {}
  BY DEF RefreshInit
<1>2. gathered \in [Connectors -> Nat] /\ \A c \in Connectors : gathered[c] < MaxBatchItems
  BY BatchAssumption DEF RefreshInit
<1>3. draining \in [Connectors -> 0..0] /\ draining \in [Connectors -> 0..Len(batches)]
  BY <1>1 DEF RefreshInit
<1>4. RefreshTypeOK
  BY <1>1, <1>2, <1>3 DEF RefreshInit, RefreshTypeOK
<1>. QED
  BY <1>1, <1>4 DEF RefreshInit, Inv, OneFlushAtATime, Tails, StopInv

LEMMA NextKeeps ==
  ASSUME Inv, RefreshNext
  PROVE  Inv'
<1>1. ASSUME NEW c \in Connectors, EnqueueItem(c) PROVE Inv'
  <2>1. stop = "no" /\ UNCHANGED <<stop, aborted>>
    BY <1>1 DEF EnqueueItem
  <2>2. CASE Flush(c)
    BY <2>1, <2>2, FlushKeeps
  <2>3. CASE /\ gathered[c] + 1 < MaxBatchItems
             /\ gathered' = [gathered EXCEPT ![c] = @ + 1] /\ UNCHANGED <<batches, draining>>
    <3>1. gathered' \in [Connectors -> Nat] /\ \A d \in Connectors : gathered'[d] < MaxBatchItems
      BY <2>3, BatchAssumption DEF Inv, RefreshTypeOK
    <3>. QED
      BY <2>1, <2>3, <3>1 DEF Inv, RefreshTypeOK, OneFlushAtATime, Tails, StopInv, Behind, SameOf, Undone
  <2>. QED
    BY <1>1, <2>2, <2>3, BatchAssumption DEF EnqueueItem, Inv, RefreshTypeOK
<1>2. ASSUME NEW c \in Connectors, TimerFires(c) PROVE Inv'
  <2>1. stop = "no" /\ Flush(c) /\ UNCHANGED <<stop, aborted>>
    BY <1>2 DEF TimerFires, Inv, StopInv
  <2>. QED
    BY <2>1, FlushKeeps
<1>3. ASSUME NEW i \in DOMAIN batches, BatchStep(i) PROVE Inv'
  <2>1. /\ Undone(i) /\ (batches[i].pc # "waiting" \/ First(i)) /\ UNCHANGED <<gathered, stop, aborted>>
        /\ \/ SettleBatch(i)
           \/ \E pc \in {"resolving", "backoff"} : GoesTo(i, pc)
           \/ \E n \in {1, 2} : batches' = [batches EXCEPT ![i].pc = "running", ![i].tries = n] /\ UNCHANGED draining
    BY <1>3 DEF BatchStep, StartBatch, ResolveBatch, Attempt, Backoff, BatchAt, Undone
  <2>2. batches[i] \in Batches /\ batches \in Seq(Batches)
    BY BatchTyped DEF Inv, RefreshTypeOK
  <2>3. CASE SettleBatch(i)
    <3>. DEFINE b == [batches[i] EXCEPT !.pc = "done"]
    <3>1. b \in Batches /\ b.of = batches[i].of /\ b.after = batches[i].after /\ b.pc = "done"
      BY <2>2 DEF Batches, BatchPcs
    <3>2. batches' = [batches EXCEPT ![i] = b] /\ draining' = [draining EXCEPT ![b.of] = IF @ = i THEN 0 ELSE @]
      BY <2>3, <3>1 DEF SettleBatch
    <3>. HIDE DEF b
    <3>. QED
      BY <2>1, <3>1, <3>2, BatchGoes
  <2>4. ASSUME NEW pc \in {"resolving", "backoff"}, GoesTo(i, pc) PROVE Inv'
    <3>. DEFINE b == [batches[i] EXCEPT !.pc = pc]
    <3>1. b \in Batches /\ b.of = batches[i].of /\ b.after = batches[i].after /\ b.pc # "waiting"
      BY <2>2 DEF Batches, BatchPcs
    <3>2. batches' = [batches EXCEPT ![i] = b] /\ draining' = draining
      BY <2>4 DEF GoesTo
    <3>. HIDE DEF b
    <3>. QED
      BY <2>1, <3>1, <3>2, BatchGoes
  <2>5. ASSUME NEW n \in {1, 2}, batches' = [batches EXCEPT ![i].pc = "running", ![i].tries = n], UNCHANGED draining
        PROVE  Inv'
    <3>. DEFINE b == [batches[i] EXCEPT !.pc = "running", !.tries = n]
    <3>. n \in 0..2
      OBVIOUS
    <3>1. b \in Batches /\ b.of = batches[i].of /\ b.after = batches[i].after /\ b.pc # "waiting"
      BY <2>2 DEF Batches, BatchPcs
    <3>2. batches' = [batches EXCEPT ![i] = b] /\ draining' = draining
      BY <2>2, <2>5
    <3>. HIDE DEF b
    <3>. QED
      BY <2>1, <3>1, <3>2, BatchGoes
  <2>. QED
    BY <2>1, <2>3, <2>4, <2>5
<1>4. CASE StopQueue
  <2>1. gathered' \in [Connectors -> Nat] /\ \A c \in Connectors : gathered'[c] = 0 /\ gathered'[c] < MaxBatchItems
    BY <1>4, BatchAssumption DEF StopQueue
  <2>. QED
    BY <1>4, <2>1 DEF StopQueue, Inv, RefreshTypeOK, OneFlushAtATime, Tails, StopInv, Behind, SameOf, Undone
<1>5. CASE Drained
  <2>1. ASSUME NEW i \in DOMAIN batches PROVE ~Undone(i)
    <3>1. batches[i].of \in Connectors /\ i \in Nat /\ i > 0
      BY BatchTyped DEF Inv, RefreshTypeOK
    <3>. QED
      BY <1>5, <3>1 DEF Drained, Inv, Tails
  <2>. QED
    BY <1>5, <2>1 DEF Drained, Inv, RefreshTypeOK, OneFlushAtATime, Tails, StopInv, Behind, SameOf, Undone
<1>6. CASE DeadlinePasses
  BY <1>6 DEF DeadlinePasses, Inv, RefreshTypeOK, OneFlushAtATime, Tails, StopInv, Behind, SameOf, Undone
<1>. QED
  BY <1>1, <1>2, <1>3, <1>4, <1>5, <1>6 DEF RefreshNext

\* What the chains, the tails and the shutdown satisfy in every reachable state.
THEOREM RefreshInvHolds == RefreshSpec => []Inv
<1>1. Inv /\ [RefreshNext]_refreshVars => Inv'
  <2>. SUFFICES ASSUME Inv, UNCHANGED refreshVars PROVE Inv'
    BY NextKeeps
  <2>. QED
    BY DEF refreshVars, Inv, RefreshTypeOK, OneFlushAtATime, Tails, StopInv, Behind, SameOf, Undone
<1>. QED
  BY <1>1, InitInv, PTL DEF RefreshSpec

\* A connector is never sent two batches at a time, nor a later one before an earlier one
\* (ConnectorRefreshQueue.flush), for every number of connectors and of items.
THEOREM FlushesAreOrdered == RefreshSpec => []OneFlushAtATime
<1>1. Inv => OneFlushAtATime
  BY DEF Inv
<1>. QED
  BY <1>1, RefreshInvHolds, PTL

\* After the shutdown has begun nothing is detached and nothing starts, and a shutdown that returns
\* without an abort leaves nothing running (ConnectorRefreshQueue.stop).
THEOREM StopIsQuiet == RefreshSpec => QuietAfterStop
<1>. DEFINE P == stop = "returned" /\ ~aborted => \A i \in DOMAIN batches : batches[i].pc = "done"
<1>. DEFINE Q == stop # "no" => /\ Len(batches') = Len(batches)
                                /\ \A i \in DOMAIN batches : batches[i].pc = "waiting" => batches'[i].pc # "resolving"
<1>1. Inv => P
  BY DEF Inv, StopInv, Undone
<1>2. Inv /\ [RefreshNext]_refreshVars => [Q]_refreshVars
  <2>. SUFFICES ASSUME Inv, RefreshNext, stop # "no" PROVE Q
    OBVIOUS
  <2>1. ASSUME NEW i \in DOMAIN batches, BatchStep(i) PROVE Q
    <3>1. batches \in Seq(Batches) /\ batches[i] \in Batches
      BY BatchTyped DEF Inv, RefreshTypeOK
    <3>2. \E b : /\ batches' = [batches EXCEPT ![i] = b]
                 /\ batches[i].pc = "waiting" => b.pc # "resolving"
      <4>1. CASE StartBatch(i)
        <5>. DEFINE b == [batches[i] EXCEPT !.pc = "done"]
        <5>1. b.pc = "done" /\ batches' = [batches EXCEPT ![i] = b]
          BY <3>1, <4>1 DEF StartBatch, SettleBatch, Batches
        <5>. QED
          BY <5>1
      <4>2. CASE batches[i].pc # "waiting"
        BY <2>1, <3>1, <4>2 DEF BatchStep, StartBatch, ResolveBatch, Attempt, Backoff, SettleBatch, GoesTo, BatchAt
      <4>. QED
        BY <2>1, <4>1, <4>2 DEF BatchStep, ResolveBatch, Attempt, Backoff, BatchAt
    <3>. QED
      BY <3>1, <3>2
  <2>2. ASSUME batches' = batches PROVE Q
    BY <2>2
  <2>3. ASSUME NEW c \in Connectors PROVE ~EnqueueItem(c) /\ ~TimerFires(c)
    BY DEF Inv, StopInv, EnqueueItem, TimerFires
  <2>. QED
    BY <2>1, <2>2, <2>3 DEF RefreshNext, StopQueue, Drained, DeadlinePasses
<1>. QED
  BY <1>1, <1>2, RefreshInvHolds, PTL DEF RefreshSpec, QuietAfterStop
=============================================================================

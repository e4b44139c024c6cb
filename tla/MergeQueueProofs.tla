---------------------------- MODULE MergeQueueProofs ----------------------------
(***************************************************************************)
(* Every accepted merge ends once, no slot is left free while a merge      *)
(* waits, and a boot starts only those merges again that had not touched   *)
(* their book, as long as the staged copies of one could be deleted: for   *)
(* every number of books and every capacity.                               *)
(***************************************************************************)
EXTENDS MergeQueue, FiniteSetTheorems, SequenceTheorems, TLAPS

\* What is told to the client, at every stage of a merge
MergeOK(m) ==
  /\ m.pc \in {"none", "validating"} => m.end = "told" /\ m.cancel = "no"
  /\ m.pc \in {"queued"} \cup Committing => m.end = "open" /\ m.cancel = "no"
  /\ m.pc \in {"revalidating", "admission"} =>
       (m.end = "open" /\ m.cancel = "no") \/ (m.end = "cancelled" /\ m.cancel = "flag")
  /\ m.pc \in {"begun", "started", "copying", "encoding"} => m.end = "open" /\ m.cancel \in {"no", "abort"}
  /\ m.pc = "clearing" => m.end \in {"failed", "cancelled"}

MergesInv == merging \in [MergeBooks -> MergeStates] /\ \A b \in MergeBooks : MergeOK(merging[b])

\* The queue holds whoever is queued, once
Distinct(q) == \A i, j \in 1..Len(q) : q[i] = q[j] => i = j
Lists(q, ms) == \A b \in MergeBooks : ms[b].pc = "queued" <=> \E i \in 1..Len(q) : q[i] = b

QueueInv ==
  /\ waiting \in Seq(MergeBooks) /\ Distinct(waiting) /\ Lists(waiting, merging)
  /\ capacity \in Nat \ {0}
  /\ waiting # <<>> => Active(merging) >= capacity

Contents == (SUBSET {"parts", "output", "part"}) \ {{}}
Stagings == SUBSET {"dir", "copies", "output"}

\* As long as there is audio in the staging folder the book's folder is as the merge found it, unless a
\* staged copy outlived its deletion
FilesOK(b) ==
  \/ b \in outlived
  \/ /\ PreCommit(b) => folder[b] = found[b]
     /\ merging[b].pc \in {"started", "copying", "encoding", "committing"} => folder[b] = found[b]
     /\ merging[b].pc = "committing" => "copies" \notin staging[b]
     /\ merging[b].pc \in {"moved", "recorded", "tagging"} => ~PreCommit(b)

FilesInv ==
  /\ folder \in [MergeBooks -> Contents] /\ found \in [MergeBooks -> Contents]
  /\ staging \in [MergeBooks -> Stagings] /\ outlived \subseteq MergeBooks
  /\ \A b \in MergeBooks : FilesOK(b)

Boots == [phase : {"up", "settle", "requeue"}, seen : SUBSET MergeBooks, plan : SUBSET MergeBooks,
          hand : [book : SUBSET MergeBooks, again : BOOLEAN]]

Untouched(b) == b \in outlived \/ folder[b] = found[b]

\* No merge runs while the boot settles the interrupted ones
BootInv ==
  /\ boot \in Boots
  /\ boot.phase # "settle" => boot.hand = NoCandidate
  /\ boot.phase = "settle" =>
       /\ \A b \in MergeBooks : MergeAt(b, "none")
       /\ \A b \in boot.plan : Untouched(b)
       /\ boot.hand.again => \A b \in boot.hand.book : Untouched(b)

Inv == MergesInv /\ QueueInv /\ FilesInv /\ BootInv

-----------------------------------------------------------------------------
(* Counting *)

ActiveSet(ms) == {b \in MergeBooks : ms[b].pc \in Slotted}

LEMMA ActiveCounts ==
  ASSUME NEW ms
  PROVE  IsFiniteSet(ActiveSet(ms)) /\ Active(ms) = Cardinality(ActiveSet(ms)) /\ Active(ms) \in Nat
<1>1. ActiveSet(ms) \in SUBSET MergeBooks
  BY DEF ActiveSet
<1>2. IsFiniteSet(ActiveSet(ms))
  BY <1>1, FS_Subset, MergeBooksAssumption
<1>3. Active(ms) = Cardinality(ActiveSet(ms))
  BY DEF Active, ActiveSet
<1>. QED
  BY <1>2, <1>3, FS_CardinalityType

\* The first n of a queue are n books
LEMMA FrontCounts ==
  ASSUME NEW q \in Seq(MergeBooks), Distinct(q), NEW n \in 0..Len(q)
  PROVE  IsFiniteSet({q[i] : i \in 1..n}) /\ Cardinality({q[i] : i \in 1..n}) = n
<1>. DEFINE T == {q[i] : i \in 1..n}  f == [i \in 1..n |-> q[i]]
<1>1. IsFiniteSet(1..n) /\ Cardinality(1..n) = n
  BY FS_Interval
<1>2. f \in Bijection(1..n, T)
  <2>1. f \in [1..n -> T] /\ \A t \in T : \E i \in 1..n : f[i] = t
    OBVIOUS
  <2>2. \A i, j \in 1..n : f[i] = f[j] => i = j
    BY DEF Distinct
  <2>. QED
    BY <2>1, <2>2 DEF Bijection, Injection, Surjection, IsInjective
<1>3. ExistsBijection(1..n, T)
  BY <1>2 DEF ExistsBijection
<1>. QED
  BY <1>1, <1>3, FS_Bijection

LEMMA QueueCounts ==
  ASSUME QueueInv
  PROVE  Len(waiting) = Cardinality(Queued) /\ Queued = {b \in MergeBooks : MergeAt(b, "queued")}
<1>1. Queued = {waiting[i] : i \in 1..Len(waiting)} /\ Len(waiting) \in 0..Len(waiting)
  BY DEF QueueInv, Queued
<1>2. Len(waiting) = Cardinality(Queued)
  BY <1>1, FrontCounts DEF QueueInv
<1>3. Queued = {b \in MergeBooks : MergeAt(b, "queued")}
  <2>1. \A b \in Queued : b \in MergeBooks
    BY DEF QueueInv, Queued
  <2>. QED
    BY <1>1, <2>1 DEF QueueInv, Lists, MergeAt
<1>. QED
  BY <1>2, <1>3

\* drainQueue starts from the front, and leaves somebody waiting only where no slot is left
LEMMA DrainFills ==
  ASSUME NEW ms \in [MergeBooks -> MergeStates], NEW q \in Seq(MergeBooks), NEW c \in Nat \ {0},
         Distinct(q), Lists(q, ms), Drain(ms, q, c)
  PROVE  /\ merging' \in [MergeBooks -> MergeStates] /\ waiting' \in Seq(MergeBooks)
         /\ Distinct(waiting') /\ Lists(waiting', merging')
         /\ waiting' # <<>> => Active(merging') >= c
         /\ \A b \in MergeBooks :
              \/ merging'[b] = ms[b]
              \/ ms[b].pc = "queued" /\ merging'[b] = [ms[b] EXCEPT !.pc = "revalidating"]
<1>. DEFINE free == IF c > Active(ms) THEN c - Active(ms) ELSE 0
<1>. DEFINE m == IF free < Len(q) THEN free ELSE Len(q)
<1>0. /\ merging' = [b \in MergeBooks |-> IF \E i \in 1..m : q[i] = b
                                          THEN [ms[b] EXCEPT !.pc = "revalidating"] ELSE ms[b]]
      /\ waiting' = SubSeq(q, m + 1, Len(q))
  BY DEF Drain
<1>1. PICK n \in 0..Len(q) : n = m /\ (n = Len(q) \/ (n = free /\ n >= c - Active(ms))) /\ n \in Nat
  BY ActiveCounts
<1>. HIDE DEF m, free
<1>2. \A b \in MergeBooks : merging'[b] = IF \E i \in 1..n : q[i] = b THEN [ms[b] EXCEPT !.pc = "revalidating"] ELSE ms[b]
  BY <1>0, <1>1
<1>3. waiting' = SubSeq(q, n + 1, Len(q))
  BY <1>0, <1>1
<1>4. /\ waiting' \in Seq(MergeBooks) /\ Len(waiting') = Len(q) - n
      /\ \A i \in 1..Len(waiting') : waiting'[i] = q[n + i]
  BY <1>3
<1>5. \A b \in MergeBooks : (\E i \in 1..n : q[i] = b) => ms[b].pc = "queued"
  BY DEF Lists
<1>6. merging' \in [MergeBooks -> MergeStates]
  <2>1. \A b \in MergeBooks : [ms[b] EXCEPT !.pc = "revalidating"] \in MergeStates
    BY DEF MergeStates, Slotted
  <2>. QED
    BY <1>0, <1>2, <2>1
<1>7. Distinct(waiting')
  BY <1>4 DEF Distinct
<1>8. ASSUME NEW b \in MergeBooks PROVE merging'[b].pc = "queued" <=> \E i \in 1..Len(waiting') : waiting'[i] = b
  <2>. ms[b] \in MergeStates
    OBVIOUS
  <2>1. CASE \E i \in 1..n : q[i] = b
    <3>1. merging'[b].pc = "revalidating"
      BY <1>2, <2>1 DEF MergeStates
    <3>2. ~ \E i \in 1..Len(waiting') : waiting'[i] = b
      <4>1. PICK j \in 1..n : q[j] = b
        BY <2>1
      <4>. SUFFICES ASSUME NEW i \in 1..Len(waiting'), waiting'[i] = b PROVE FALSE
        OBVIOUS
      <4>2. q[n + i] = b /\ n + i \in 1..Len(q) /\ j \in 1..Len(q) /\ n + i # j
        BY <1>4, <4>1
      <4>. QED
        BY <4>1, <4>2 DEF Distinct
    <3>. QED
      BY <3>1, <3>2
  <2>2. CASE ~ \E i \in 1..n : q[i] = b
    <3>1. merging'[b] = ms[b]
      BY <1>2, <2>2
    <3>2. (\E i \in 1..Len(q) : q[i] = b) <=> \E i \in 1..Len(waiting') : waiting'[i] = b
      <4>1. ASSUME NEW i \in 1..Len(q), q[i] = b PROVE \E j \in 1..Len(waiting') : waiting'[j] = b
        <5>1. i - n \in 1..Len(waiting') /\ waiting'[i - n] = b
          BY <1>4, <2>2, <4>1
        <5>. QED
          BY <5>1
      <4>2. ASSUME NEW i \in 1..Len(waiting'), waiting'[i] = b PROVE \E j \in 1..Len(q) : q[j] = b
        <5>1. n + i \in 1..Len(q) /\ q[n + i] = b
          BY <1>4, <4>2
        <5>. QED
          BY <5>1
      <4>. QED
        BY <4>1, <4>2
    <3>. QED
      BY <3>1, <3>2 DEF Lists
  <2>. QED
    BY <2>1, <2>2
<1>9. waiting' # <<>> => Active(merging') >= c
  <2>. SUFFICES ASSUME waiting' # <<>> PROVE Active(merging') >= c
    OBVIOUS
  <2>1. n >= c - Active(ms)
    BY <1>1, <1>4
  <2>. DEFINE T == {q[i] : i \in 1..n}
  <2>2. IsFiniteSet(T) /\ Cardinality(T) = n
    BY FrontCounts
  <2>3. ActiveSet(merging') = ActiveSet(ms) \cup T /\ ActiveSet(ms) \cap T = {}
    <3>1. ASSUME NEW b \in MergeBooks
          PROVE  /\ b \in T => merging'[b].pc \in Slotted /\ ms[b].pc \notin Slotted
                 /\ b \notin T => merging'[b] = ms[b]
      <4>. ms[b] \in MergeStates /\ (b \in T <=> \E i \in 1..n : q[i] = b)
        OBVIOUS
      <4>1. CASE b \in T
        <5>1. merging'[b] = [ms[b] EXCEPT !.pc = "revalidating"] /\ ms[b].pc = "queued"
          BY <1>2, <1>5, <4>1
        <5>2. merging'[b].pc = "revalidating"
          BY <5>1 DEF MergeStates
        <5>. QED
          BY <4>1, <5>1, <5>2 DEF Slotted, Locked, Committing
      <4>2. CASE b \notin T
        BY <1>2, <4>2
      <4>. QED
        BY <4>1, <4>2
    <3>2. T \subseteq MergeBooks
      OBVIOUS
    <3>. QED
      BY <3>1, <3>2 DEF ActiveSet
  <2>4. Active(merging') = Active(ms) + n
    <3>. HIDE DEF T
    <3>1. Cardinality(ActiveSet(ms) \cap T) = 0
      BY <2>3, FS_EmptySet
    <3>2. Cardinality(ActiveSet(ms) \cup T) = Cardinality(ActiveSet(ms)) + Cardinality(T) - Cardinality(ActiveSet(ms) \cap T)
      BY <2>2, ActiveCounts, FS_Union
    <3>3. Active(merging') = Cardinality(ActiveSet(merging')) /\ Active(ms) = Cardinality(ActiveSet(ms)) /\ Active(ms) \in Nat
      BY ActiveCounts
    <3>. QED
      BY <2>2, <2>3, <3>1, <3>2, <3>3
  <2>5. Active(ms) \in Nat
    BY ActiveCounts
  <2>. QED
    BY <2>1, <2>4, <2>5
<1>. QED
  BY <1>2, <1>4, <1>5, <1>6, <1>7, <1>8, <1>9 DEF Lists

-----------------------------------------------------------------------------
(* What a step of a merge leaves true *)

LEMMA Known ==
  ASSUME Inv, NEW b \in MergeBooks
  PROVE  merging[b] \in MergeStates /\ MergeOK(merging[b]) /\ FilesOK(b)
BY DEF Inv, MergesInv, FilesInv

OthersStay(b) ==
  /\ outlived' \subseteq MergeBooks
  /\ \A c \in MergeBooks \ {b} :
       /\ folder'[c] = folder[c] /\ found'[c] = found[c] /\ staging'[c] = staging[c]
       /\ (c \in outlived') <=> (c \in outlived)

LEMMA FilesStay ==
  ASSUME Inv, UNCHANGED files, NEW b \in MergeBooks
  PROVE  /\ folder' \in [MergeBooks -> Contents] /\ found' \in [MergeBooks -> Contents]
         /\ staging' \in [MergeBooks -> Stagings] /\ OthersStay(b)
BY DEF Inv, FilesInv, files, OthersStay

\* The files of a book that no merge is at are as they were
LEMMA FilesKept ==
  ASSUME Inv, UNCHANGED files, NEW b \in MergeBooks,
         \/ merging'[b].pc \notin {"started", "copying", "encoding", "committing", "moved", "recorded", "tagging"}
         \/ merging'[b].pc = merging[b].pc
  PROVE  FilesOK(b)'
<1>1. FilesOK(b)
  BY Known
<1>. QED
  BY <1>1 DEF FilesOK, files, PreCommit

\* Nothing of the files and of the boot changes but what belongs to a merge that is under way
LEMMA Goes ==
  ASSUME Inv, NEW b \in MergeBooks, ~MergeAt(b, "none"), boot' = boot, MergesInv', QueueInv',
         \A c \in MergeBooks \ {b} : merging'[c] = merging[c] \/ merging'[c].pc = "revalidating",
         folder' \in [MergeBooks -> Contents], found' \in [MergeBooks -> Contents],
         staging' \in [MergeBooks -> Stagings],
         OthersStay(b), FilesOK(b)'
  PROVE  Inv'
<1>1. ASSUME NEW c \in MergeBooks \ {b} PROVE FilesOK(c)'
  <2>1. FilesOK(c)
    BY Known
  <2>2. folder'[c] = folder[c] /\ found'[c] = found[c] /\ staging'[c] = staging[c] /\ (c \in outlived => c \in outlived')
    BY DEF OthersStay
  <2>3. merging'[c] = merging[c] \/ merging'[c].pc = "revalidating"
    OBVIOUS
  <2>. QED
    BY <2>1, <2>2, <2>3 DEF FilesOK, PreCommit
<1>2. FilesInv'
  <2>1. \A c \in MergeBooks : FilesOK(c)'
    BY <1>1
  <2>2. outlived' \subseteq MergeBooks
    BY DEF OthersStay
  <2>. QED
    BY <2>1, <2>2 DEF FilesInv
<1>3. BootInv'
  BY DEF Inv, BootInv
<1>. QED
  BY <1>2, <1>3 DEF Inv

\* One merge goes on, and keeps its slot or still has none
LEMMA MergeMoves ==
  ASSUME Inv, NEW b \in MergeBooks, NEW m \in MergeStates, merging' = [merging EXCEPT ![b] = m], MergeOK(m),
         ~MergeAt(b, "queued"), m.pc # "queued", merging[b].pc \in Slotted <=> m.pc \in Slotted,
         UNCHANGED <<waiting, capacity>>
  PROVE  /\ MergesInv' /\ QueueInv' /\ merging'[b] = m
         /\ \A c \in MergeBooks \ {b} : merging'[c] = merging[c]
<1>1. merging' \in [MergeBooks -> MergeStates] /\ merging'[b] = m /\ \A c \in MergeBooks \ {b} : merging'[c] = merging[c]
  BY DEF Inv, MergesInv
<1>2. MergesInv'
  BY <1>1 DEF Inv, MergesInv
<1>3. ActiveSet(merging') = ActiveSet(merging)
  BY <1>1 DEF ActiveSet
<1>4. Active(merging') = Active(merging)
  BY <1>3, ActiveCounts
<1>5. Lists(waiting', merging')
  BY <1>1 DEF Inv, QueueInv, Lists, MergeAt
<1>. QED
  BY <1>1, <1>2, <1>4, <1>5 DEF Inv, QueueInv

\* The slot comes back, and the queue is drained
LEMMA MergeEnds ==
  ASSUME Inv, NEW b \in MergeBooks, NEW m, Over(m) = NoMerge, merging[b].pc \in Slotted, Ends(b, m), capacity' = capacity
  PROVE  /\ MergesInv' /\ QueueInv' /\ MergeAt(b, "none")' /\ ~MergeAt(b, "none")
         /\ \A c \in MergeBooks \ {b} : merging'[c] = merging[c] \/ merging'[c].pc = "revalidating"
<1>. DEFINE ms == [merging EXCEPT ![b] = NoMerge]
<1>1. ms \in [MergeBooks -> MergeStates] /\ ms[b] = NoMerge /\ \A c \in MergeBooks \ {b} : ms[c] = merging[c]
  BY DEF Inv, MergesInv, NoMerge, MergeStates, Origins, Endings
<1>2. Drain(ms, waiting, capacity)
  BY DEF Ends, Release
<1>. HIDE DEF ms
<1>3. NoMerge.pc = "none" /\ MergeOK(NoMerge) /\ "none" \notin Slotted /\ "queued" \notin Slotted
  BY DEF NoMerge, MergeOK, Slotted, Locked, Committing
<1>4. Lists(waiting, ms)
  BY <1>1, <1>3 DEF Inv, QueueInv, Lists
<1>5. /\ merging' \in [MergeBooks -> MergeStates] /\ waiting' \in Seq(MergeBooks)
      /\ Distinct(waiting') /\ Lists(waiting', merging')
      /\ waiting' # <<>> => Active(merging') >= capacity
      /\ \A c \in MergeBooks :
           \/ merging'[c] = ms[c]
           \/ ms[c].pc = "queued" /\ merging'[c] = [ms[c] EXCEPT !.pc = "revalidating"]
  BY <1>1, <1>2, <1>4, DrainFills DEF Inv, QueueInv
<1>6. ASSUME NEW c \in MergeBooks
      PROVE  /\ MergeOK(merging'[c]) /\ (c = b => merging'[c].pc = "none")
             /\ c # b => merging'[c] = merging[c] \/ merging'[c].pc = "revalidating"
  <2>1. CASE merging'[c] = ms[c]
    BY <1>1, <1>3, <2>1, Known
  <2>2. CASE ms[c].pc = "queued" /\ merging'[c] = [ms[c] EXCEPT !.pc = "revalidating"]
    <3>1. c # b /\ ms[c] = merging[c] /\ merging[c] \in MergeStates /\ MergeOK(merging[c])
      BY <1>1, <1>3, <2>2, Known
    <3>2. merging'[c].pc = "revalidating" /\ merging'[c].end = "open" /\ merging'[c].cancel = "no"
      BY <2>2, <3>1 DEF MergeOK, MergeStates
    <3>. QED
      BY <3>1, <3>2 DEF MergeOK, Committing
  <2>. QED
    BY <1>5, <2>1, <2>2
<1>. QED
  BY <1>3, <1>5, <1>6 DEF MergesInv, QueueInv, MergeAt, Inv

\* An ending is told to a merge that has been told none, and it is over with it
LEMMA ToldOnce ==
  ASSUME NEW m \in MergeStates, m.end = "open", NEW end \in {"merged", "failed", "cancelled", "silent"}
  PROVE  /\ Told(end, m) \in MergeStates /\ Told(end, m).end = end /\ Told(end, m).pc = m.pc
         /\ Told(end, m).cancel = m.cancel /\ Told(end, m).origin = m.origin /\ Over(Told(end, m)) = NoMerge
<1>1. Told(end, m) = [m EXCEPT !.end = end]
  BY DEF Told
<1>. QED
  BY <1>1 DEF MergeStates, Endings, Over

-----------------------------------------------------------------------------
(* Requests *)

LEMMA EnqueueKeeps ==
  ASSUME Inv, NEW b \in MergeBooks, NEW origin \in Origins, Enqueue(b, origin)
  PROVE  Inv'
<1>. DEFINE m == [merging[b] EXCEPT !.pc = "validating", !.origin = origin]
<1>1. /\ merging[b].pc = "none" /\ merging' = [merging EXCEPT ![b] = m] /\ boot.phase # "settle"
      /\ UNCHANGED <<waiting, capacity, files, boot>>
  BY Known DEF Enqueue, MergeAt
<1>2. m \in MergeStates /\ m.pc = "validating" /\ MergeOK(m)
  BY <1>1, Known DEF MergeStates, MergeOK, Committing
<1>. HIDE DEF m
<1>3. MergesInv' /\ QueueInv' /\ merging'[b] = m /\ \A c \in MergeBooks \ {b} : merging'[c] = merging[c]
  BY <1>1, <1>2, MergeMoves DEF MergeAt, Slotted, Locked, Committing
<1>4. \A c \in MergeBooks : FilesOK(c)'
  <2>. SUFFICES ASSUME NEW c \in MergeBooks PROVE FilesOK(c)'
    OBVIOUS
  <2>1. c = b \/ merging'[c] = merging[c]
    BY <1>3
  <2>. QED
    BY <1>1, <1>2, <1>3, <2>1, FilesKept
<1>5. FilesInv'
  BY <1>1, <1>4, FilesStay DEF FilesInv, OthersStay
<1>. QED
  BY <1>1, <1>3, <1>5 DEF Inv, BootInv

LEMMA RefuseKeeps ==
  ASSUME Inv, NEW b \in MergeBooks, Refuse(b)
  PROVE  Inv'
<1>. DEFINE m == [merging[b] EXCEPT !.pc = "none"]
<1>1. /\ merging[b].pc = "validating" /\ merging' = [merging EXCEPT ![b] = m]
      /\ UNCHANGED <<waiting, capacity, files, boot>>
  BY DEF Refuse, MergeAt
<1>2. m \in MergeStates /\ m.pc = "none" /\ MergeOK(m)
  BY <1>1, Known DEF MergeStates, MergeOK, Committing
<1>. HIDE DEF m
<1>3. MergesInv' /\ QueueInv' /\ merging'[b] = m /\ \A c \in MergeBooks \ {b} : merging'[c] = merging[c]
  BY <1>1, <1>2, MergeMoves DEF MergeAt, Slotted, Locked, Committing
<1>4. FilesOK(b)'
  BY <1>1, <1>2, <1>3, FilesKept
<1>. QED
  BY <1>1, <1>3, <1>4, FilesStay, Goes DEF MergeAt

LEMMA AcceptKeeps ==
  ASSUME Inv, NEW b \in MergeBooks, Accept(b)
  PROVE  Inv'
<1>1. /\ merging[b].pc = "validating" /\ ~MergeAt(b, "none")
      /\ UNCHANGED <<files, boot>>
  BY DEF Accept, MergeAt
<1>2. PICK c \in Capacities :
        /\ capacity' = c
        /\ IF MayStart(c)
           THEN /\ merging' = [merging EXCEPT ![b].pc = "admission", ![b].end = "open"]
                /\ UNCHANGED waiting
           ELSE Join([merging EXCEPT ![b].pc = "queued", ![b].end = "open"], Append(waiting, b), c)
  BY DEF Accept
<1>3. c \in Nat \ {0} /\ merging[b] \in MergeStates /\ merging[b].cancel = "no"
  BY <1>1, CapacityAssumption, Known DEF MergeOK
<1>4. CASE MayStart(c)
  <2>. DEFINE m == [merging[b] EXCEPT !.pc = "admission", !.end = "open"]
  <2>1. merging' = [merging EXCEPT ![b] = m] /\ waiting' = <<>> /\ waiting = <<>>
    BY <1>2, <1>4 DEF MayStart
  <2>2. m \in MergeStates /\ m.pc = "admission" /\ MergeOK(m)
    BY <1>3 DEF MergeStates, Slotted, Endings, MergeOK, Locked, Committing
  <2>. HIDE DEF m
  <2>3. /\ merging' \in [MergeBooks -> MergeStates] /\ merging'[b] = m
        /\ \A d \in MergeBooks \ {b} : merging'[d] = merging[d]
    BY <2>1, <2>2 DEF Inv, MergesInv
  <2>4. MergesInv'
    BY <2>2, <2>3 DEF Inv, MergesInv
  <2>5. QueueInv'
    BY <1>1, <1>2, <1>3, <2>1, <2>2, <2>3 DEF Inv, QueueInv, Lists, Distinct
  <2>6. FilesOK(b)'
    BY <1>1, <2>2, <2>3, FilesKept
  <2>. QED
    BY <1>1, <2>3, <2>4, <2>5, <2>6, FilesStay, Goes
<1>5. CASE ~MayStart(c)
  <2>. DEFINE m == [merging[b] EXCEPT !.pc = "queued", !.end = "open"]
  <2>. DEFINE ms == [merging EXCEPT ![b] = m]
  <2>. DEFINE q == Append(waiting, b)
  <2>1. Drain(ms, q, c)
    BY <1>2, <1>5 DEF Join
  <2>2. m \in MergeStates /\ m.pc = "queued" /\ MergeOK(m)
    BY <1>3 DEF MergeStates, Endings, MergeOK, Committing
  <2>3. ms \in [MergeBooks -> MergeStates] /\ ms[b] = m /\ \A d \in MergeBooks \ {b} : ms[d] = merging[d]
    BY <2>2 DEF Inv, MergesInv
  <2>4. /\ q \in Seq(MergeBooks) /\ Len(q) = Len(waiting) + 1 /\ q[Len(waiting) + 1] = b
        /\ \A i \in 1..Len(waiting) : q[i] = waiting[i]
        /\ Len(waiting) \in Nat
    BY DEF Inv, QueueInv
  <2>. HIDE DEF m, ms, q
  <2>5. \A i \in 1..Len(waiting) : waiting[i] # b
    BY <1>1 DEF Inv, QueueInv, Lists
  <2>6. Distinct(q)
    BY <2>4, <2>5 DEF Inv, QueueInv, Distinct
  <2>7. Lists(q, ms)
    <3>1. ASSUME NEW d \in MergeBooks PROVE ms[d].pc = "queued" <=> \E i \in 1..Len(q) : q[i] = d
      <4>1. CASE d = b
        BY <2>2, <2>3, <2>4, <4>1
      <4>2. CASE d # b
        <5>1. (\E i \in 1..Len(q) : q[i] = d) <=> \E i \in 1..Len(waiting) : waiting[i] = d
          BY <2>4, <4>2
        <5>. QED
          BY <2>3, <4>2, <5>1 DEF Inv, QueueInv, Lists
      <4>. QED
        BY <4>1, <4>2
    <3>. QED
      BY <3>1 DEF Lists
  <2>8. /\ merging' \in [MergeBooks -> MergeStates] /\ waiting' \in Seq(MergeBooks)
        /\ Distinct(waiting') /\ Lists(waiting', merging')
        /\ waiting' # <<>> => Active(merging') >= c
        /\ \A d \in MergeBooks :
             \/ merging'[d] = ms[d]
             \/ ms[d].pc = "queued" /\ merging'[d] = [ms[d] EXCEPT !.pc = "revalidating"]
    BY <1>3, <2>1, <2>3, <2>4, <2>6, <2>7, DrainFills
  <2>9. ASSUME NEW d \in MergeBooks
        PROVE  /\ MergeOK(merging'[d]) /\ (d = b => merging'[d].pc \in {"queued", "revalidating"})
               /\ d # b => merging'[d] = merging[d] \/ merging'[d].pc = "revalidating"
    <3>1. ms[d] \in MergeStates /\ MergeOK(ms[d])
      BY <2>2, <2>3, Known
    <3>2. CASE merging'[d] = ms[d]
      BY <2>2, <2>3, <3>1, <3>2
    <3>3. CASE ms[d].pc = "queued" /\ merging'[d] = [ms[d] EXCEPT !.pc = "revalidating"]
      <4>1. merging'[d].pc = "revalidating" /\ merging'[d].end = "open" /\ merging'[d].cancel = "no"
        BY <3>1, <3>3 DEF MergeOK, MergeStates
      <4>. QED
        BY <4>1 DEF MergeOK, Committing
    <3>. QED
      BY <2>8, <3>2, <3>3
  <2>10. MergesInv' /\ QueueInv'
    BY <1>2, <1>3, <2>8, <2>9 DEF MergesInv, QueueInv
  <2>11. FilesOK(b)'
    BY <1>1, <2>9, FilesKept
  <2>. QED
    BY <1>1, <2>9, <2>10, <2>11, FilesStay, Goes
<1>. QED
  BY <1>4, <1>5

-----------------------------------------------------------------------------
(* The merge itself *)

\* A merge that holds a slot goes on to another step, and does what it does to its files
LEMMA GoesOn ==
  ASSUME Inv, NEW b \in MergeBooks, merging[b].pc \in Slotted,
         NEW m \in MergeStates, m.pc \in Slotted, MergeOK(m), merging' = [merging EXCEPT ![b] = m],
         UNCHANGED <<waiting, capacity, boot>>,
         folder' \in [MergeBooks -> Contents], found' \in [MergeBooks -> Contents],
         staging' \in [MergeBooks -> Stagings],
         OthersStay(b),
         \/ b \in outlived'
         \/ /\ PreCommit(b)' => folder'[b] = found'[b]
            /\ m.pc \in {"started", "copying", "encoding", "committing"} => folder'[b] = found'[b]
            /\ m.pc = "committing" => "copies" \notin staging'[b]
            /\ m.pc \in {"moved", "recorded", "tagging"} => ~PreCommit(b)'
  PROVE  Inv'
<1>1. "queued" \notin Slotted /\ "none" \notin Slotted
  BY DEF Slotted, Locked, Committing
<1>2. /\ MergesInv' /\ QueueInv' /\ merging'[b] = m
      /\ \A c \in MergeBooks \ {b} : merging'[c] = merging[c]
  BY <1>1, MergeMoves DEF MergeAt
<1>3. FilesOK(b)'
  BY <1>2 DEF FilesOK
<1>. QED
  BY <1>1, <1>2, <1>3, Goes DEF MergeAt

\* The same, and no file changes
LEMMA OnlyGoesOn ==
  ASSUME Inv, NEW b \in MergeBooks, merging[b].pc \in Slotted,
         NEW m \in MergeStates, m.pc \in Slotted, MergeOK(m), merging' = [merging EXCEPT ![b] = m],
         UNCHANGED <<waiting, capacity, boot, files>>,
         m.pc = merging[b].pc \/ m.pc \notin {"started", "copying", "encoding", "committing", "moved", "recorded", "tagging"}
  PROVE  Inv'
<1>1. "queued" \notin Slotted /\ "none" \notin Slotted
  BY DEF Slotted, Locked, Committing
<1>2. /\ MergesInv' /\ QueueInv' /\ merging'[b] = m
      /\ \A c \in MergeBooks \ {b} : merging'[c] = merging[c]
  BY <1>1, MergeMoves DEF MergeAt
<1>3. FilesOK(b)'
  BY <1>2, FilesKept
<1>. QED
  BY <1>1, <1>2, <1>3, FilesStay, Goes DEF MergeAt

LEMMA EndsKeeps ==
  ASSUME Inv, NEW b \in MergeBooks, NEW m, Over(m) = NoMerge, merging[b].pc \in Slotted, Ends(b, m),
         UNCHANGED <<capacity, folder, found, outlived, boot>>,
         staging' = staging \/ staging' = [staging EXCEPT ![b] = {}]
  PROVE  Inv'
<1>1. /\ MergesInv' /\ QueueInv' /\ merging'[b].pc = "none" /\ ~MergeAt(b, "none")
      /\ \A c \in MergeBooks \ {b} : merging'[c] = merging[c] \/ merging'[c].pc = "revalidating"
  BY MergeEnds DEF MergeAt
<1>2. /\ staging' \in [MergeBooks -> Stagings] /\ staging'[b] \in {staging[b], {}}
      /\ \A c \in MergeBooks \ {b} : staging'[c] = staging[c]
  BY DEF Inv, FilesInv, Stagings
<1>3. FilesOK(b)'
  BY <1>1, <1>2, Known DEF FilesOK, PreCommit
<1>4. OthersStay(b)
  BY <1>2 DEF Inv, FilesInv, OthersStay
<1>. QED
  BY <1>1, <1>2, <1>3, <1>4, Goes DEF Inv, FilesInv

\* The same, and no file changes
LEMMA OnlyEnds ==
  ASSUME Inv, NEW b \in MergeBooks, NEW m, Over(m) = NoMerge, merging[b].pc \in Slotted, Ends(b, m),
         UNCHANGED <<capacity, files, boot>>
  PROVE  Inv'
BY EndsKeeps DEF files

\* A merge that was cancelled before it had its lock has been told so
LEMMA FlagIsTold ==
  ASSUME NEW m \in MergeStates, m.end = "cancelled"
  PROVE  Over(m) = NoMerge
BY DEF Over, MergeStates

LEMMA SlottedNames ==
  {"revalidating", "admission", "begun", "started", "copying", "encoding", "clearing",
   "committing", "moved", "recorded", "tagging"} = Slotted
BY DEF Slotted, Locked, Committing

LEMMA RevalidateKeeps ==
  ASSUME Inv, NEW b \in MergeBooks, Revalidate(b)
  PROVE  Inv'
<1>1. /\ merging[b].pc = "revalidating" /\ merging[b].pc \in Slotted
      /\ UNCHANGED <<capacity, files, boot>>
      /\ merging[b] \in MergeStates /\ MergeOK(merging[b])
  BY Known, SlottedNames DEF Revalidate, MergeAt
<1>2. CASE merging' = [merging EXCEPT ![b].pc = "admission"] /\ UNCHANGED waiting
  <2>. DEFINE m == [merging[b] EXCEPT !.pc = "admission"]
  <2>1. m \in MergeStates /\ m.pc = "admission" /\ m.pc \in Slotted /\ MergeOK(m) /\ merging' = [merging EXCEPT ![b] = m]
    BY <1>1, <1>2, SlottedNames DEF MergeStates, MergeOK, Committing
  <2>. HIDE DEF m
  <2>. QED
    BY <1>1, <1>2, <2>1, OnlyGoesOn
<1>3. CASE merging[b].cancel = "flag" /\ Ends(b, merging[b])
  <2>1. Over(merging[b]) = NoMerge
    BY <1>1, <1>3, FlagIsTold DEF MergeOK
  <2>. QED
    BY <1>1, <1>3, <2>1, OnlyEnds
<1>4. ASSUME merging[b].cancel # "flag", NEW end \in {"failed", "silent"}, Ends(b, Told(end, merging[b]))
      PROVE  Inv'
  <2>1. Over(Told(end, merging[b])) = NoMerge
    BY <1>1, <1>4, ToldOnce DEF MergeOK
  <2>. QED
    BY <1>1, <1>4, <2>1, OnlyEnds
<1>. QED
  BY <1>2, <1>3, <1>4 DEF Revalidate

LEMMA AdmitKeeps ==
  ASSUME Inv, NEW b \in MergeBooks, Admit(b)
  PROVE  Inv'
<1>1. /\ merging[b].pc = "admission" /\ merging[b].pc \in Slotted
      /\ UNCHANGED <<capacity, files, boot>>
      /\ merging[b] \in MergeStates /\ MergeOK(merging[b])
  BY Known, SlottedNames DEF Admit, MergeAt
<1>2. CASE merging[b].cancel = "flag"
  <2>1. Over(merging[b]) = NoMerge /\ Ends(b, merging[b])
    BY <1>1, <1>2, FlagIsTold DEF MergeOK, Admit
  <2>. QED
    BY <1>1, <2>1, OnlyEnds
<1>3. CASE merging[b].cancel # "flag"
  <2>. DEFINE m == [merging[b] EXCEPT !.pc = "begun"]
  <2>1. merging' = [merging EXCEPT ![b] = m] /\ UNCHANGED waiting
    BY <1>3 DEF Admit
  <2>2. m \in MergeStates /\ m.pc = "begun" /\ m.pc \in Slotted /\ MergeOK(m)
    BY <1>1, <1>3, SlottedNames DEF MergeStates, MergeOK, Committing
  <2>. HIDE DEF m
  <2>. QED
    BY <1>1, <2>1, <2>2, OnlyGoesOn
<1>. QED
  BY <1>2, <1>3

LEMMA StartKeeps ==
  ASSUME Inv, NEW b \in MergeBooks, Start(b)
  PROVE  Inv'
<1>. DEFINE m == [merging[b] EXCEPT !.pc = "started"]
<1>1. /\ merging[b].pc = "begun" /\ merging' = [merging EXCEPT ![b] = m]
      /\ found' = [found EXCEPT ![b] = folder[b]] /\ outlived' = outlived \ {b}
      /\ UNCHANGED <<waiting, capacity, folder, staging, boot>>
  BY DEF Start, MergeAt
<1>2. m \in MergeStates /\ m.pc = "started" /\ m.pc \in Slotted /\ MergeOK(m) /\ merging[b].pc \in Slotted
  BY <1>1, Known, SlottedNames DEF MergeStates, MergeOK, Committing
<1>. HIDE DEF m
<1>3. /\ found' \in [MergeBooks -> Contents] /\ found'[b] = folder[b]
      /\ \A c \in MergeBooks \ {b} : found'[c] = found[c]
  BY <1>1 DEF Inv, FilesInv
<1>4. OthersStay(b)
  BY <1>1, <1>3 DEF Inv, FilesInv, OthersStay
<1>. QED
  BY <1>1, <1>2, <1>3, <1>4, GoesOn DEF Inv, FilesInv

\* The steps between the start and the commit, which leave the folder of the book alone
LEMMA WorkKeeps ==
  ASSUME Inv, NEW b \in MergeBooks, Stage(b) \/ CopyParts(b) \/ Encode(b)
  PROVE  Inv'
<1>1. PICK pc \in {"copying", "encoding", "committing"} :
        /\ merging' = [merging EXCEPT ![b].pc = pc]
        /\ pc = "committing" => merging[b].cancel = "no"
  BY DEF Stage, CopyParts, Encode
<1>. DEFINE m == [merging[b] EXCEPT !.pc = pc]
<1>2. /\ merging[b].pc \in {"started", "copying", "encoding"}
      /\ merging[b] \in MergeStates /\ MergeOK(merging[b]) /\ FilesOK(b)
      /\ UNCHANGED <<waiting, capacity, folder, found, boot>>
  BY Known DEF Stage, CopyParts, Encode, MergeAt
<1>3. m \in MergeStates /\ m.pc = pc /\ m.pc \in Slotted /\ MergeOK(m) /\ merging[b].pc \in Slotted
  <2>1. m \in MergeStates /\ m.pc = pc /\ m.end = merging[b].end /\ m.cancel = merging[b].cancel
    BY <1>2, SlottedNames DEF MergeStates
  <2>2. m.end = "open" /\ m.cancel \in {"no", "abort"} /\ (pc = "committing" => m.cancel = "no")
    BY <1>1, <1>2, <2>1 DEF MergeOK
  <2>. HIDE DEF m
  <2>. QED
    BY <1>2, <2>1, <2>2, SlottedNames DEF MergeOK, Committing
<1>4. merging' = [merging EXCEPT ![b] = m]
  BY <1>1
<1>. HIDE DEF m
<1>5. PICK stage \in Stagings :
        /\ staging' = [staging EXCEPT ![b] = stage]
        /\ (outlived' = outlived /\ (pc = "committing" => "copies" \notin stage)) \/ outlived' = outlived \cup {b}
  <2>1. {"dir"} \in Stagings /\ {"dir", "copies"} \in Stagings /\ {"dir", "output"} \in Stagings
        /\ {"dir", "copies", "output"} \in Stagings
    BY DEF Stagings
  <2>2. merging \in [MergeBooks -> MergeStates] /\ pc = merging'[b].pc
    BY <1>3, <1>4 DEF Inv, MergesInv
  <2>3. CASE Stage(b)
    <3>1. pc = "copying"
      BY <2>2, <2>3, <1>2 DEF Stage, MergeStates
    <3>. QED
      BY <2>1, <2>3, <3>1 DEF Stage
  <2>4. CASE CopyParts(b)
    <3>1. pc = "encoding"
      BY <2>2, <2>4, <1>2 DEF CopyParts, MergeStates
    <3>. QED
      BY <2>1, <2>4, <3>1 DEF CopyParts
  <2>5. CASE Encode(b)
    BY <2>1, <2>5 DEF Encode, RemoveSourceFiles
  <2>. QED
    BY <2>3, <2>4, <2>5
<1>6. /\ staging' \in [MergeBooks -> Stagings] /\ staging'[b] = stage
      /\ \A c \in MergeBooks \ {b} : staging'[c] = staging[c]
  BY <1>5 DEF Inv, FilesInv
<1>7. OthersStay(b)
  BY <1>2, <1>5, <1>6 DEF Inv, FilesInv, OthersStay
<1>8. b \in outlived \/ folder[b] = found[b]
  BY <1>2 DEF FilesOK
<1>9. \/ b \in outlived'
      \/ folder'[b] = found'[b] /\ (m.pc = "committing" => "copies" \notin staging'[b])
  BY <1>2, <1>3, <1>5, <1>6, <1>8
<1>. QED
  BY <1>2, <1>3, <1>4, <1>6, <1>7, <1>9, GoesOn DEF Inv, FilesInv

LEMMA CommitKeeps ==
  ASSUME Inv, NEW b \in MergeBooks, MoveOutput(b) \/ DeleteParts(b) \/ Tidy(b)
  PROVE  Inv'
<1>1. PICK pc \in {"moved", "recorded", "tagging"} : merging' = [merging EXCEPT ![b].pc = pc]
  BY DEF MoveOutput, DeleteParts, Tidy, CommitStep
<1>. DEFINE m == [merging[b] EXCEPT !.pc = pc]
<1>2. /\ merging[b].pc \in {"committing", "moved", "recorded"}
      /\ merging[b] \in MergeStates /\ MergeOK(merging[b]) /\ FilesOK(b)
      /\ UNCHANGED <<waiting, capacity, found, outlived, boot>>
  BY Known DEF MoveOutput, DeleteParts, Tidy, CommitStep, MergeAt
<1>3. m \in MergeStates /\ m.pc = pc /\ m.pc \in Slotted /\ MergeOK(m) /\ merging[b].pc \in Slotted
  <2>1. m \in MergeStates /\ m.pc = pc /\ m.end = merging[b].end /\ m.cancel = merging[b].cancel
    BY <1>2, SlottedNames DEF MergeStates
  <2>2. m.end = "open" /\ m.cancel = "no"
    BY <1>2, <2>1 DEF MergeOK, Committing
  <2>. HIDE DEF m
  <2>. QED
    BY <1>2, <2>1, <2>2, SlottedNames DEF MergeOK, Committing
<1>4. merging' = [merging EXCEPT ![b] = m]
  BY <1>1
<1>. HIDE DEF m
<1>5. PICK stage \in Stagings :
        /\ staging' = [staging EXCEPT ![b] = stage]
        /\ b \in outlived \/ stage \cap {"copies", "output"} = {}
  <2>1. /\ staging \in [MergeBooks -> Stagings] /\ staging = [staging EXCEPT ![b] = staging[b]]
        /\ staging[b] \in Stagings /\ {} \in Stagings
        /\ staging[b] \ {"output"} \in Stagings /\ staging[b] \ {"copies"} \in Stagings
    BY DEF Inv, FilesInv, Stagings
  <2>2. CASE MoveOutput(b)
    <3>1. b \in outlived \/ "copies" \notin staging[b]
      BY <1>2, <2>2 DEF MoveOutput, CommitStep, MergeAt, FilesOK
    <3>2. CASE staging' = [staging EXCEPT ![b] = staging[b] \ {"output"}]
      BY <2>1, <3>1, <3>2
    <3>3. CASE "copies" \in staging[b] /\ staging' \in {staging, [staging EXCEPT ![b] = staging[b] \ {"copies"}]}
      BY <2>1, <3>1, <3>3
    <3>. QED
      BY <2>2, <3>2, <3>3 DEF MoveOutput
  <2>3. CASE DeleteParts(b)
    <3>1. b \in outlived \/ staging[b] \cap {"copies", "output"} = {}
      BY <1>2, <2>3 DEF DeleteParts, CommitStep, MergeAt, FilesOK, PreCommit
    <3>. QED
      BY <2>1, <2>3, <3>1 DEF DeleteParts
  <2>4. CASE Tidy(b)
    BY <2>1, <2>4 DEF Tidy
  <2>. QED
    BY <2>2, <2>3, <2>4
<1>6. /\ staging' \in [MergeBooks -> Stagings] /\ staging'[b] = stage
      /\ \A c \in MergeBooks \ {b} : staging'[c] = staging[c]
  BY <1>5 DEF Inv, FilesInv
<1>7. folder' \in [MergeBooks -> Contents] /\ \A c \in MergeBooks \ {b} : folder'[c] = folder[c]
  <2>1. /\ folder \in [MergeBooks -> Contents] /\ folder[b] \cup {"output"} \in Contents
        /\ {"output"} \in Contents /\ {"part"} \in Contents
    BY DEF Inv, FilesInv, Contents
  <2>. QED
    BY <2>1 DEF MoveOutput, DeleteParts, Tidy
<1>8. OthersStay(b)
  BY <1>2, <1>6, <1>7 DEF Inv, FilesInv, OthersStay
<1>9. b \in outlived' \/ ~PreCommit(b)'
  BY <1>2, <1>5, <1>6 DEF PreCommit
<1>10. m.pc \notin {"started", "copying", "encoding", "committing"}
  BY <1>3
<1>. QED
  BY <1>2, <1>3, <1>4, <1>6, <1>7, <1>8, <1>9, <1>10, GoesOn DEF Inv, FilesInv

LEMMA CompleteKeeps ==
  ASSUME Inv, NEW b \in MergeBooks, Complete(b)
  PROVE  Inv'
<1>1. /\ merging[b].pc = "tagging" /\ merging[b].pc \in Slotted /\ Ends(b, Told("merged", merging[b]))
      /\ UNCHANGED <<capacity, files, boot>>
  BY SlottedNames DEF Complete, MergeAt
<1>2. Over(Told("merged", merging[b])) = NoMerge
  BY <1>1, Known, ToldOnce DEF MergeOK, Committing
<1>. QED
  BY <1>1, <1>2, OnlyEnds

LEMMA FailsKeeps ==
  ASSUME Inv, NEW b \in MergeBooks, MergeFails(b)
  PROVE  Inv'
<1>. DEFINE end == IF merging[b].cancel = "abort" THEN "cancelled" ELSE "failed"
<1>1. /\ merging[b].pc \in {"begun", "started", "copying", "encoding"} \cup Committing
      /\ UNCHANGED <<capacity, files, boot>>
      /\ IF Told(end, merging[b]).pc \in {"begun", "started"} THEN Ends(b, Told(end, merging[b]))
         ELSE /\ merging' = [merging EXCEPT ![b] = [Told(end, merging[b]) EXCEPT !.pc = "clearing"]]
              /\ UNCHANGED waiting
  BY DEF MergeFails
<1>2. merging[b].pc \in Slotted /\ merging[b] \in MergeStates /\ merging[b].end = "open"
  BY <1>1, Known, SlottedNames DEF MergeOK, Slotted, Locked
<1>3. PICK e \in {"failed", "cancelled"} : e = end
  OBVIOUS
<1>4. PICK m \in MergeStates : m = Told(e, merging[b]) /\ m.end = e /\ Over(m) = NoMerge
  BY <1>2, ToldOnce
<1>. HIDE DEF end
<1>5. CASE Ends(b, m)
  BY <1>1, <1>2, <1>4, <1>5, OnlyEnds
<1>6. CASE merging' = [merging EXCEPT ![b] = [m EXCEPT !.pc = "clearing"]] /\ UNCHANGED waiting
  <2>. DEFINE n == [m EXCEPT !.pc = "clearing"]
  <2>1. n \in MergeStates /\ n.pc = "clearing" /\ n.pc \in Slotted /\ n.end = m.end
    BY SlottedNames DEF MergeStates
  <2>2. merging' = [merging EXCEPT ![b] = n]
    BY <1>6
  <2>. HIDE DEF n
  <2>3. MergeOK(n)
    BY <1>3, <1>4, <2>1 DEF MergeOK, Committing
  <2>. QED
    BY <1>1, <1>2, <1>6, <2>1, <2>2, <2>3, OnlyGoesOn
<1>. QED
  BY <1>1, <1>3, <1>4, <1>5, <1>6

LEMMA ClearKeeps ==
  ASSUME Inv, NEW b \in MergeBooks, Clear(b)
  PROVE  Inv'
<1>1. /\ merging[b].pc = "clearing" /\ merging[b].pc \in Slotted /\ Ends(b, merging[b])
      /\ UNCHANGED <<capacity, folder, found, outlived, boot>>
      /\ staging' = staging \/ staging' = [staging EXCEPT ![b] = {}]
  BY SlottedNames DEF Clear, MergeAt
<1>2. Over(merging[b]) = NoMerge
  BY <1>1, Known DEF MergeOK, Over
<1>. QED
  BY <1>1, <1>2, EndsKeeps

-----------------------------------------------------------------------------
(* Cancels *)

LEMMA CancelQueuedKeeps ==
  ASSUME Inv, NEW b \in MergeBooks, CancelQueued(b)
  PROVE  Inv'
<1>1. /\ merging[b].pc = "queued" /\ merging' = [merging EXCEPT ![b] = Over(Told("cancelled", merging[b]))]
      /\ UNCHANGED <<capacity, files, boot>>
  BY DEF CancelQueued, MergeAt
<1>2. Over(Told("cancelled", merging[b])) = NoMerge
  BY <1>1, Known, ToldOnce DEF MergeOK, Committing
<1>3. NoMerge \in MergeStates /\ NoMerge.pc = "none" /\ MergeOK(NoMerge)
  BY DEF NoMerge, MergeStates, Origins, Endings, MergeOK, Committing
<1>4. /\ merging' \in [MergeBooks -> MergeStates] /\ merging'[b] = NoMerge
      /\ \A c \in MergeBooks \ {b} : merging'[c] = merging[c]
  BY <1>1, <1>2, <1>3 DEF Inv, MergesInv
<1>5. MergesInv'
  BY <1>3, <1>4 DEF Inv, MergesInv
<1>6. waiting \in Seq(MergeBooks) /\ Distinct(waiting) /\ Lists(waiting, merging) /\ Len(waiting) \in Nat
  BY DEF Inv, QueueInv
<1>6a. DOMAIN waiting = 1..Len(waiting)
  BY <1>6
<1>7. PICK i \in 1..Len(waiting) :
        waiting[i] = b /\ waiting' = SubSeq(waiting, 1, i - 1) \o SubSeq(waiting, i + 1, Len(waiting))
  BY <1>6a, Zenon DEF CancelQueued
<1>8. /\ waiting' \in Seq(MergeBooks) /\ Len(waiting') = Len(waiting) - 1
      /\ \A j \in 1..Len(waiting') : waiting'[j] = IF j < i THEN waiting[j] ELSE waiting[j + 1]
  <2>. DEFINE p == SubSeq(waiting, 1, i - 1)  r == SubSeq(waiting, i + 1, Len(waiting))
  <2>1. p \in Seq(MergeBooks) /\ Len(p) = i - 1 /\ \A j \in 1..(i - 1) : p[j] = waiting[j]
    BY <1>6
  <2>2. /\ r \in Seq(MergeBooks) /\ Len(r) = Len(waiting) - i
        /\ \A j \in 1..(Len(waiting) - i) : r[j] = waiting[i + j]
    BY <1>6
  <2>3. waiting' = p \o r
    BY <1>7
  <2>. HIDE DEF p, r
  <2>4. /\ waiting' \in Seq(MergeBooks) /\ Len(waiting') = Len(waiting) - 1
        /\ \A j \in 1..Len(waiting') : waiting'[j] = IF j <= i - 1 THEN p[j] ELSE r[j - (i - 1)]
    <3>1. /\ p \o r \in Seq(MergeBooks) /\ Len(p \o r) = Len(p) + Len(r)
          /\ \A j \in 1..(Len(p) + Len(r)) : (p \o r)[j] = IF j <= Len(p) THEN p[j] ELSE r[j - Len(p)]
      BY <2>1, <2>2, ConcatProperties
    <3>2. Len(p) + Len(r) = Len(waiting) - 1
      BY <1>6, <2>1, <2>2
    <3>. QED
      BY <2>1, <2>3, <3>1, <3>2
  <2>5. ASSUME NEW j \in 1..Len(waiting') PROVE waiting'[j] = IF j < i THEN waiting[j] ELSE waiting[j + 1]
    <3>1. CASE j < i
      BY <2>1, <2>4, <3>1
    <3>2. CASE ~(j < i)
      <4>1. j - (i - 1) \in 1..(Len(waiting) - i)
        BY <1>6, <2>4, <3>2
      <4>2. waiting'[j] = r[j - (i - 1)] /\ r[j - (i - 1)] = waiting[i + (j - (i - 1))] /\ i + (j - (i - 1)) = j + 1
        BY <2>2, <2>4, <3>2, <4>1
      <4>. QED
        BY <3>2, <4>2
    <3>. QED
      BY <3>1, <3>2
  <2>. QED
    BY <2>4, <2>5
<1>9. Distinct(waiting')
  BY <1>6, <1>8 DEF Distinct
<1>10. \A c \in MergeBooks \ {b} : (\E j \in 1..Len(waiting') : waiting'[j] = c) <=> \E j \in 1..Len(waiting) : waiting[j] = c
  <2>. SUFFICES ASSUME NEW c \in MergeBooks \ {b}
                PROVE  (\E j \in 1..Len(waiting') : waiting'[j] = c) <=> \E j \in 1..Len(waiting) : waiting[j] = c
    OBVIOUS
  <2>1. ASSUME NEW j \in 1..Len(waiting'), waiting'[j] = c PROVE \E k \in 1..Len(waiting) : waiting[k] = c
    <3>1. j \in 1..Len(waiting) /\ j + 1 \in 1..Len(waiting)
      BY <1>6, <1>8
    <3>. QED
      BY <1>8, <2>1, <3>1
  <2>2. ASSUME NEW j \in 1..Len(waiting), waiting[j] = c PROVE \E k \in 1..Len(waiting') : waiting'[k] = c
    <3>1. CASE j < i
      BY <1>6, <1>8, <2>2, <3>1
    <3>2. CASE ~(j < i)
      <4>1. j - 1 \in 1..Len(waiting') /\ ~(j - 1 < i) /\ (j - 1) + 1 = j
        <5>1. j # i
          BY <1>7, <2>2
        <5>. QED
          BY <1>6, <1>8, <3>2, <5>1
      <4>. QED
        BY <1>8, <2>2, <4>1
    <3>. QED
      BY <3>1, <3>2
  <2>. QED
    BY <2>1, <2>2
<1>11. ~ \E j \in 1..Len(waiting') : waiting'[j] = b
  <2>. SUFFICES ASSUME NEW j \in 1..Len(waiting'), waiting'[j] = b PROVE FALSE
    OBVIOUS
  <2>1. j \in 1..Len(waiting) /\ j + 1 \in 1..Len(waiting)
    BY <1>6, <1>8
  <2>2. \A k \in 1..Len(waiting) : waiting[k] = b => k = i
    BY <1>7, <1>6 DEF Distinct
  <2>3. CASE j < i
    BY <1>8, <2>1, <2>2, <2>3
  <2>4. CASE ~(j < i)
    BY <1>8, <2>1, <2>2, <2>4
  <2>. QED
    BY <2>3, <2>4
<1>12. Lists(waiting', merging')
  <2>1. ASSUME NEW c \in MergeBooks
        PROVE  merging'[c].pc = "queued" <=> \E j \in 1..Len(waiting') : waiting'[j] = c
    <3>1. CASE c = b
      BY <1>3, <1>4, <1>11, <3>1
    <3>2. CASE c # b
      BY <1>4, <1>6, <1>10, <3>2 DEF Lists
    <3>. QED
      BY <3>1, <3>2
  <2>. QED
    BY <2>1 DEF Lists
<1>13. ActiveSet(merging') = ActiveSet(merging)
  BY <1>1, <1>3, <1>4 DEF ActiveSet, Slotted, Locked, Committing
<1>14. waiting' # <<>> => Active(merging') >= capacity
  <2>1. Active(merging') = Active(merging)
    BY <1>13, ActiveCounts
  <2>2. waiting # <<>>
    BY <1>7
  <2>. QED
    BY <2>1, <2>2 DEF Inv, QueueInv
<1>15. QueueInv'
  BY <1>1, <1>8, <1>9, <1>12, <1>14 DEF Inv, QueueInv
<1>16. FilesOK(b)'
  BY <1>1, <1>3, <1>4, FilesKept
<1>. QED
  BY <1>1, <1>4, <1>5, <1>15, <1>16, FilesStay, Goes DEF MergeAt

LEMMA CancelWaitingKeeps ==
  ASSUME Inv, NEW b \in MergeBooks, CancelWaiting(b)
  PROVE  Inv'
<1>1. /\ merging[b].pc \in {"revalidating", "admission"} /\ merging[b].cancel = "no"
      /\ merging' = [merging EXCEPT ![b] = [Told("cancelled", merging[b]) EXCEPT !.cancel = "flag"]]
      /\ UNCHANGED <<waiting, capacity, files, boot>>
  BY DEF CancelWaiting
<1>2. PICK t \in MergeStates : t = Told("cancelled", merging[b]) /\ t.end = "cancelled" /\ t.pc = merging[b].pc
  BY <1>1, Known, ToldOnce DEF MergeOK
<1>. DEFINE m == [t EXCEPT !.cancel = "flag"]
<1>3. m \in MergeStates /\ m.pc = merging[b].pc /\ m.end = "cancelled" /\ m.cancel = "flag"
  BY <1>2 DEF MergeStates
<1>4. merging' = [merging EXCEPT ![b] = m]
  BY <1>1, <1>2
<1>. HIDE DEF m
<1>5. MergeOK(m) /\ m.pc \in Slotted /\ merging[b].pc \in Slotted
  BY <1>1, <1>3, SlottedNames DEF MergeOK, Committing
<1>. QED
  BY <1>1, <1>3, <1>4, <1>5, OnlyGoesOn

LEMMA CancelRunningKeeps ==
  ASSUME Inv, NEW b \in MergeBooks, CancelRunning(b)
  PROVE  Inv'
<1>. DEFINE m == [merging[b] EXCEPT !.cancel = "abort"]
<1>1. /\ merging[b].pc \in {"begun", "started", "copying", "encoding"} /\ merging[b] \in MergeStates
      /\ MergeOK(merging[b]) /\ merging' = [merging EXCEPT ![b] = m]
      /\ UNCHANGED <<waiting, capacity, files, boot>>
  BY Known DEF CancelRunning
<1>2. m \in MergeStates /\ m.pc = merging[b].pc /\ m.cancel = "abort" /\ m.end = merging[b].end
  BY <1>1 DEF MergeStates
<1>. HIDE DEF m
<1>3. MergeOK(m) /\ m.pc \in Slotted /\ merging[b].pc \in Slotted
  BY <1>1, <1>2, SlottedNames DEF MergeOK, Committing
<1>. QED
  BY <1>1, <1>2, <1>3, OnlyGoesOn

-----------------------------------------------------------------------------
(* The crash, and the boot *)

LEMMA CrashKeeps ==
  ASSUME Inv, MergeCrash
  PROVE  Inv'
<1>1. /\ merging' = [b \in MergeBooks |-> NoMerge] /\ waiting' = <<>> /\ capacity' = 1
      /\ boot' = [Booted EXCEPT !.phase = "settle"] /\ UNCHANGED files
  BY DEF MergeCrash
<1>2. NoMerge \in MergeStates /\ NoMerge.pc = "none" /\ MergeOK(NoMerge)
  BY DEF NoMerge, MergeStates, Origins, Endings, MergeOK, Committing
<1>3. MergesInv'
  BY <1>1, <1>2 DEF MergesInv
<1>4. QueueInv'
  BY <1>1, <1>2 DEF QueueInv, Distinct, Lists
<1>5. FilesInv'
  <2>1. \A b \in MergeBooks : FilesOK(b)'
    BY <1>1, <1>2, FilesKept
  <2>. QED
    BY <1>1, <2>1 DEF Inv, FilesInv, files
<1>6. BootInv'
  BY <1>1, <1>2 DEF BootInv, Boots, Booted, NoCandidate, MergeAt
<1>. QED
  BY <1>3, <1>4, <1>5, <1>6 DEF Inv

\* Nothing but the boot and a staging folder that goes
LEMMA BootMoves ==
  ASSUME Inv, UNCHANGED <<merging, waiting, capacity, folder, found, outlived>>, BootInv',
         staging' = staging \/ \E b \in MergeBooks : staging' = [staging EXCEPT ![b] = {}]
  PROVE  Inv'
<1>1. /\ staging' \in [MergeBooks -> Stagings]
      /\ \A b \in MergeBooks : staging'[b] \in {staging[b], {}}
  BY DEF Inv, FilesInv, Stagings
<1>2. FilesInv'
  <2>1. ASSUME NEW b \in MergeBooks PROVE FilesOK(b)'
    BY <1>1, Known DEF FilesOK, PreCommit
  <2>. QED
    BY <1>1, <2>1 DEF Inv, FilesInv
<1>3. MergesInv' /\ QueueInv'
  BY DEF Inv, MergesInv, QueueInv
<1>. QED
  BY <1>2, <1>3 DEF Inv

\* Nothing but the boot
LEMMA OnlyBootMoves ==
  ASSUME Inv, UNCHANGED <<merging, waiting, capacity, files>>, BootInv'
  PROVE  Inv'
BY BootMoves DEF files

LEMMA SettleKeeps ==
  ASSUME Inv, NEW b \in MergeBooks, Settle(b)
  PROVE  Inv'
<1>1. boot.phase = "settle" /\ boot.hand = NoCandidate /\ UNCHANGED <<merging, waiting, capacity, folder, found, outlived>>
  BY DEF Settle
<1>2. boot \in Boots /\ BootInv /\ NoCandidate \in [book : SUBSET MergeBooks, again : BOOLEAN]
  BY DEF Inv, BootInv, NoCandidate
<1>3. CASE /\ staging' = [staging EXCEPT ![b] = {}]
           /\ boot' = [boot EXCEPT !.hand = [book |-> {b}, again |-> PreCommit(b) /\ latest[b].origin = "auto"]]
  <2>. DEFINE hand == [book |-> {b}, again |-> PreCommit(b) /\ latest[b].origin = "auto"]
  <2>1. hand \in [book : SUBSET MergeBooks, again : BOOLEAN] /\ (hand.again => PreCommit(b)) /\ hand.book = {b}
    BY DEF PreCommit
  <2>2. boot' = [boot EXCEPT !.hand = hand]
    BY <1>3
  <2>. HIDE DEF hand
  <2>3. boot' \in Boots /\ boot'.hand = hand /\ boot'.phase = "settle" /\ boot'.plan = boot.plan
    BY <1>1, <1>2, <2>1, <2>2 DEF Boots
  <2>4. hand.again => Untouched(b)
    BY <2>1, Known DEF FilesOK, Untouched
  <2>5. BootInv'
    BY <1>1, <1>2, <2>1, <2>3, <2>4 DEF BootInv, MergeAt, Untouched
  <2>. QED
    BY <1>1, <1>3, <2>5, BootMoves
<1>4. CASE boot' = [boot EXCEPT !.seen = @ \cup {b}] /\ staging' = staging
  <2>1. boot' \in Boots /\ boot'.hand = boot.hand /\ boot'.phase = boot.phase /\ boot'.plan = boot.plan
    BY <1>2, <1>4 DEF Boots
  <2>2. BootInv'
    BY <1>1, <1>2, <2>1 DEF BootInv, MergeAt, Untouched
  <2>. QED
    BY <1>1, <1>4, <2>2, BootMoves
<1>. QED
  BY <1>3, <1>4 DEF Settle

LEMMA SettleRowKeeps ==
  ASSUME Inv, NEW b \in MergeBooks, SettleRow(b)
  PROVE  Inv'
<1>1. boot.hand.book = {b} /\ UNCHANGED <<merging, waiting, capacity, files>>
  BY DEF SettleRow
<1>2. /\ boot \in Boots /\ BootInv /\ NoCandidate \in [book : SUBSET MergeBooks, again : BOOLEAN]
      /\ NoCandidate.again = FALSE /\ NoCandidate.book = {}
  BY DEF Inv, BootInv, NoCandidate
<1>3. boot.phase = "settle"
  BY <1>1, <1>2 DEF BootInv
<1>4. PICK plan \in SUBSET MergeBooks :
        /\ plan \subseteq boot.plan \cup (IF boot.hand.again THEN {b} ELSE {})
        /\ boot' = [boot EXCEPT !.seen = @ \cup {b}, !.hand = NoCandidate, !.plan = plan]
  <2>1. CASE boot' = [boot EXCEPT !.seen = @ \cup {b}, !.hand = NoCandidate]
    <3>1. boot' = [boot EXCEPT !.seen = @ \cup {b}, !.hand = NoCandidate, !.plan = boot.plan] /\ boot.plan \in SUBSET MergeBooks
      BY <1>2, <2>1 DEF Boots
    <3>. QED
      BY <3>1
  <2>2. CASE boot' = [boot EXCEPT !.seen = @ \cup {b}, !.hand = NoCandidate,
                                  !.plan = IF boot.hand.again THEN @ \cup {b} ELSE @]
    <3>1. boot.plan \in SUBSET MergeBooks
      BY <1>2 DEF Boots
    <3>. QED
      BY <2>2, <3>1
  <2>. QED
    BY <2>1, <2>2 DEF SettleRow
<1>5. boot' \in Boots /\ boot'.hand = NoCandidate /\ boot'.phase = "settle" /\ boot'.plan = plan
  BY <1>2, <1>3, <1>4 DEF Boots
<1>6. \A c \in plan : Untouched(c)
  BY <1>1, <1>2, <1>3, <1>4 DEF BootInv
<1>7. BootInv'
  BY <1>1, <1>2, <1>3, <1>5, <1>6 DEF BootInv, MergeAt, Untouched, files
<1>. QED
  BY <1>1, <1>7, OnlyBootMoves

LEMMA BootGoesOn ==
  ASSUME Inv, Settled \/ Listen
  PROVE  Inv'
<1>1. UNCHANGED <<merging, waiting, capacity, files>>
  BY DEF Settled, Listen
<1>2. boot \in Boots
  BY DEF Inv, BootInv
<1>3. boot' \in Boots /\ boot'.phase # "settle" /\ boot'.hand = NoCandidate
  <2>1. CASE Settled
    BY <1>2, <2>1 DEF Settled, Boots
  <2>2. CASE Listen
    BY <1>2, <2>2 DEF Listen, Booted, Boots, NoCandidate
  <2>. QED
    BY <2>1, <2>2
<1>4. BootInv'
  BY <1>3 DEF BootInv
<1>. QED
  BY <1>1, <1>4, OnlyBootMoves

LEMMA RequeueKeeps ==
  ASSUME Inv, NEW b \in MergeBooks, Requeue(b)
  PROVE  Inv'
<1>1. boot.phase = "requeue" /\ UNCHANGED <<waiting, capacity, files>>
      /\ boot' = [boot EXCEPT !.plan = @ \ {b}]
  BY DEF Requeue
<1>2. boot' \in Boots /\ boot'.phase = "requeue" /\ boot'.hand = boot.hand /\ boot.hand = NoCandidate
  BY <1>1 DEF Inv, BootInv, Boots
<1>3. BootInv'
  BY <1>2 DEF BootInv
<1>4. CASE merging' = merging
  BY <1>1, <1>3, <1>4, OnlyBootMoves
<1>5. CASE MergeAt(b, "none") /\ merging' = [merging EXCEPT ![b].pc = "validating", ![b].origin = "auto"]
  <2>. DEFINE m == [merging[b] EXCEPT !.pc = "validating", !.origin = "auto"]
  <2>1. merging[b].pc = "none" /\ merging' = [merging EXCEPT ![b] = m]
    BY <1>5, Known DEF MergeAt
  <2>2. m \in MergeStates /\ m.pc = "validating" /\ MergeOK(m)
    BY <2>1, Known DEF MergeStates, MergeOK, Committing, Origins
  <2>. HIDE DEF m
  <2>3. MergesInv' /\ QueueInv' /\ merging'[b] = m /\ \A c \in MergeBooks \ {b} : merging'[c] = merging[c]
    BY <1>1, <2>1, <2>2, MergeMoves DEF MergeAt, Slotted, Locked, Committing
  <2>4. ASSUME NEW c \in MergeBooks PROVE FilesOK(c)'
    <3>1. c = b \/ merging'[c] = merging[c]
      BY <2>3
    <3>. QED
      BY <1>1, <2>2, <2>3, <3>1, FilesKept
  <2>5. FilesInv'
    BY <1>1, <2>4, FilesStay DEF FilesInv, OthersStay
  <2>. QED
    BY <1>3, <2>3, <2>5 DEF Inv
<1>. QED
  BY <1>4, <1>5 DEF Requeue

-----------------------------------------------------------------------------
LEMMA InitInv == MergeInit => Inv
<1>. SUFFICES ASSUME MergeInit PROVE Inv
  OBVIOUS
<1>1. NoMerge \in MergeStates /\ NoMerge.pc = "none" /\ MergeOK(NoMerge)
  BY DEF NoMerge, MergeStates, Origins, Endings, MergeOK, Committing
<1>2. MergesInv
  BY <1>1 DEF MergeInit, MergesInv
<1>3. QueueInv
  BY <1>1 DEF MergeInit, QueueInv, Distinct, Lists
<1>4. FilesInv
  <2>1. {"parts"} \in Contents /\ {"output"} \in Contents /\ {} \in Stagings
    BY DEF Contents, Stagings
  <2>. QED
    BY <1>1, <2>1 DEF MergeInit, FilesInv, FilesOK, PreCommit
<1>5. BootInv
  BY DEF MergeInit, BootInv, Boots, Booted, NoCandidate
<1>. QED
  BY <1>2, <1>3, <1>4, <1>5 DEF Inv

LEMMA NextKeeps ==
  ASSUME Inv, [MergeNext]_mergeVars
  PROVE  Inv'
<1>1. CASE MergeCrash
  BY <1>1, CrashKeeps
<1>2. CASE BootStep
  BY <1>2, BootGoesOn, SettleKeeps, SettleRowKeeps, RequeueKeeps DEF BootStep
<1>3. ASSUME NEW b \in MergeBooks, MergeStep(b) PROVE Inv'
  BY <1>3, RefuseKeeps, AcceptKeeps, RevalidateKeeps, AdmitKeeps, StartKeeps, WorkKeeps, CommitKeeps,
     CompleteKeeps, FailsKeeps, ClearKeeps DEF MergeStep
<1>4. ASSUME NEW b \in MergeBooks, MergeRequest(b) PROVE Inv'
  BY <1>4, EnqueueKeeps, CancelQueuedKeeps, CancelWaitingKeeps, CancelRunningKeeps DEF MergeRequest
<1>5. CASE UNCHANGED mergeVars
  <2>1. UNCHANGED <<merging, waiting, capacity, files, boot>>
    BY <1>5 DEF mergeVars
  <2>2. BootInv'
    BY <2>1 DEF Inv, BootInv, MergeAt, Untouched, files
  <2>. QED
    BY <2>1, <2>2, OnlyBootMoves
<1>. QED
  BY <1>1, <1>2, <1>3, <1>4, <1>5 DEF MergeNext

\* What the merges, their queue, their files and the boot satisfy in every reachable state.
THEOREM MergeInvHolds == MergeSpec => []Inv
<1>1. Inv /\ [MergeNext]_mergeVars => Inv'
  BY NextKeeps
<1>. QED
  BY <1>1, InitInv, PTL DEF MergeSpec

\* Every variable keeps its type, for every number of books and every capacity.
THEOREM MergeTypesKept == MergeSpec => []MergeTypeOK
<1>1. Inv => MergeTypeOK
  BY DEF Inv, MergesInv, QueueInv, FilesInv, MergeTypeOK, Contents, Stagings
<1>. QED
  BY <1>1, MergeInvHolds, PTL

\* An accepted merge is told one ending, and one that was answered "cancelled" is never committed
\* (cancelMerge, finishTerminal), for every number of books and every capacity.
THEOREM EndingsAreOne == MergeSpec => []OneEnding
<1>1. Inv => OneEnding
  <2>. SUFFICES ASSUME Inv, NEW b \in MergeBooks
                PROVE  /\ merging[b].end # "twice"
                       /\ merging[b].pc = "none" => merging[b].end = "told"
                       /\ merging[b].cancel # "no" => merging[b].pc \notin Committing
    BY DEF OneEnding
  <2>1. merging[b] \in MergeStates /\ MergeOK(merging[b])
    BY Known
  <2>2. merging[b].end # "twice"
    BY <2>1 DEF MergeOK, MergeStates, Slotted, Locked
  <2>. QED
    BY <2>1, <2>2 DEF MergeOK
<1>. QED
  BY <1>1, MergeInvHolds, PTL

\* Nobody waits while a slot is free, and who waits is in the queue once (drainQueue), for every number
\* of books and every capacity.
THEOREM NoSlotIsLost == MergeSpec => []SlotsAreUsed
<1>1. Inv => SlotsAreUsed
  BY QueueCounts DEF Inv, QueueInv, SlotsAreUsed
<1>. QED
  BY <1>1, MergeInvHolds, PTL

\* A merge that a boot starts again had not touched its book, unless one of its staged copies had outlived
\* its deletion (classifyStagingDir, removeSourceFiles), for every number of books, crashes and faults.
THEOREM RequeuesAreSafe == MergeSpec => []RequeueIsSafe
<1>1. Inv => RequeueIsSafe
  BY DEF Inv, BootInv, RequeueIsSafe, Untouched
<1>. QED
  BY <1>1, MergeInvHolds, PTL
=============================================================================

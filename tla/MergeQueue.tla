----------------------------- MODULE MergeQueue -----------------------------
(***************************************************************************)
(* The merge of a book's files into one: admission to a bounded number of  *)
(* slots with a queue behind them, the merge under the admission lock of   *)
(* its book, its commit, the cancel that may come at any moment, and the   *)
(* recovery at boot from the event history and the staging folder.         *)
(***************************************************************************)
EXTENDS Integers, Sequences, FiniteSets

CONSTANTS
  MergeBooks,
  Capacities,     \* the values the concurrency setting can take
  MergeBudgets    \* bounds of a run: how many requests, crashes and failing writes there may be

ASSUME MergeBooksAssumption == IsFiniteSet(MergeBooks)
ASSUME CapacityAssumption == Capacities \subseteq Nat \ {0}
ASSUME MergeBudgetAssumption == MergeBudgets \subseteq [manual : Nat, auto : Nat, crashes : Nat, faults : Nat]

VARIABLES
  merging,    \* of a book: where its merge is, its origin, how it was cancelled, the ending it was told
  waiting,    \* queue
  capacity,   \* the bound of the semaphore
  folder,     \* what a book's folder holds: its parts, the merged output, one part of those it had
  staging,    \* .merge-tmp: whether it is there, and holds copies of the parts or an output
  latest,     \* the newest merge event of a book, and its origin
  found,      \* history: the folder as the last merge found it
  outlived,   \* history: the books some staged copy of which outlived its deletion in the last merge
  boot,       \* the startup: its phase, the candidates seen, the one in hand, the plan
  left        \* what is left of the budget

files == <<folder, staging, found, outlived>>
mergeVars == <<merging, waiting, capacity, files, latest, boot, left>>

Origins == {"auto", "manual"}
Locked == {"begun", "started", "copying", "encoding", "clearing"}
Committing == {"committing", "moved", "recorded", "tagging"}
Slotted == {"revalidating", "admission"} \cup Locked \cup Committing
Endings == {"open", "merged", "failed", "cancelled", "silent", "twice", "told"}
MergeStates == [pc : {"none", "validating", "queued"} \cup Slotted, origin : Origins,
                cancel : {"no", "flag", "abort"}, end : Endings]
NoMerge == [pc |-> "none", origin |-> "manual", cancel |-> "no", end |-> "told"]

MergeAt(b, pc) == merging[b].pc = pc

-----------------------------------------------------------------------------
MergeFault ==
  /\ left.faults > 0
  /\ left' = [left EXCEPT !.faults = @ - 1]

(* Endings: finishTerminal removes the entry, and the one event is emitted *)

Told(end, m) == IF m.end = "open" THEN [m EXCEPT !.end = end] ELSE [m EXCEPT !.end = "twice"]

\* its row is written without being awaited: it is lost when the write fails, or a crash comes first
Event(end) == IF end = "merged" THEN "merged" ELSE "merge_failed"
Announce(b, end) ==
  \/ /\ latest' = [latest EXCEPT ![b] = [event |-> Event(end), origin |-> merging[b].origin]]
     /\ UNCHANGED left
  \/ MergeFault /\ UNCHANGED latest

-----------------------------------------------------------------------------
(* Slots and queue *)

Queued == {waiting[i] : i \in DOMAIN waiting}
Active(ms) == Cardinality({b \in MergeBooks : ms[b].pc \in Slotted})

\* Nobody is admitted ahead of the queue
MayStart(c) == waiting = <<>> /\ Active(merging) < c

\* mutant: the queue is not looked at
DrainNone(ms, q, c) == merging' = ms /\ waiting' = q

\* drainQueue: from the front, as long as there are slots
Drain(ms, q, c) ==
  LET free == IF c > Active(ms) THEN c - Active(ms) ELSE 0
      n == IF free < Len(q) THEN free ELSE Len(q)
  IN /\ merging' = [b \in MergeBooks |-> IF \E i \in 1..n : q[i] = b
                                         THEN [ms[b] EXCEPT !.pc = "revalidating"] ELSE ms[b]]
     /\ waiting' = SubSeq(q, n + 1, Len(q))

\* The end of the chain: the slot is given back, and the queue drained
Release(ms) == Drain(ms, waiting, capacity)

\* What is left of a merge whose chain has ended with m: clearBookLifecycle
Over(m) == IF m.end \in {"open", "twice"} THEN [m EXCEPT !.pc = "none"] ELSE NoMerge
Ends(b, m) == Release([merging EXCEPT ![b] = Over(m)])

\* mutant: whoever queues waits for the next release, also when the capacity has grown
OnlyQueue(ms, q, c) == merging' = ms /\ waiting' = q

\* A newcomer joins the queue, and a capacity that has grown lets the front of it go
Join(ms, q, c) == Drain(ms, q, c)

\* A merge is asked for: by the operator once the server listens, by an import once its worker runs
Enqueue(b, origin) ==
  /\ boot.phase \in (IF origin = "auto" THEN {"up", "requeue"} ELSE {"up"})
  /\ MergeAt(b, "none") /\ left[origin] > 0
  /\ merging' = [merging EXCEPT ![b].pc = "validating", ![b].origin = origin]
  /\ left' = [left EXCEPT ![origin] = @ - 1]
  /\ UNCHANGED <<waiting, capacity, files, latest, boot>>

\* the book cannot be merged: nothing was accepted
Refuse(b) ==
  /\ MergeAt(b, "validating")
  /\ merging' = [merging EXCEPT ![b].pc = "none"]
  /\ UNCHANGED <<waiting, capacity, files, latest, boot, left>>

\* the capacity is read again, and the merge starts or queues
Accept(b) ==
  /\ MergeAt(b, "validating") /\ "parts" \in folder[b]
  /\ \E c \in Capacities :
       /\ capacity' = c
       /\ IF MayStart(c)
          THEN /\ merging' = [merging EXCEPT ![b].pc = "admission", ![b].end = "open"]
               /\ UNCHANGED waiting
          ELSE Join([merging EXCEPT ![b].pc = "queued", ![b].end = "open"], Append(waiting, b), c)
  /\ UNCHANGED <<files, latest, boot, left>>

\* executeWithRevalidation: an error that is not the book's ends it without an event
Revalidate(b) ==
  /\ MergeAt(b, "revalidating")
  /\ LET m == merging[b] IN
     \/ /\ merging' = [merging EXCEPT ![b].pc = "admission"]
        /\ UNCHANGED <<waiting, latest, left>>
     \/ IF m.cancel = "flag" THEN Ends(b, m) /\ UNCHANGED <<latest, left>>
        ELSE \/ Ends(b, Told("failed", m)) /\ Announce(b, "failed")
             \/ Ends(b, Told("silent", m)) /\ UNCHANGED <<latest, left>>
  /\ UNCHANGED <<capacity, files, boot>>

-----------------------------------------------------------------------------
(* The merge itself, under the admission lock *)

\* mutant: the flag of a cancel is not looked at
AdmitAnyway(b) ==
  /\ MergeAt(b, "admission")
  /\ merging' = [merging EXCEPT ![b].pc = "begun"]
  /\ UNCHANGED <<waiting, capacity, files, latest, boot, left>>

\* the lock is granted: a merge that was cancelled in the wait runs nothing
Admit(b) ==
  /\ MergeAt(b, "admission")
  /\ IF merging[b].cancel = "flag" THEN Ends(b, merging[b])
     ELSE merging' = [merging EXCEPT ![b].pc = "begun"] /\ UNCHANGED waiting
  /\ UNCHANGED <<capacity, files, latest, boot, left>>

\* the row is written before the staging folder is touched
Start(b) ==
  /\ MergeAt(b, "begun")
  /\ merging' = [merging EXCEPT ![b].pc = "started"]
  /\ latest' = [latest EXCEPT ![b] = [event |-> "merge_started", origin |-> merging[b].origin]]
  /\ found' = [found EXCEPT ![b] = folder[b]]
  /\ outlived' = outlived \ {b}
  /\ UNCHANGED <<waiting, capacity, folder, staging, boot, left>>

\* the staging folder is made anew, and the parts are copied
Stage(b) ==
  /\ MergeAt(b, "started") /\ "parts" \in folder[b]
  /\ merging' = [merging EXCEPT ![b].pc = "copying"]
  /\ staging' = [staging EXCEPT ![b] = {"dir"}]
  /\ UNCHANGED <<waiting, capacity, folder, found, outlived, latest, boot, left>>

CopyParts(b) ==
  /\ MergeAt(b, "copying")
  /\ merging' = [merging EXCEPT ![b].pc = "encoding"]
  /\ staging' = [staging EXCEPT ![b] = {"dir", "copies"}]
  /\ UNCHANGED <<waiting, capacity, folder, found, outlived, latest, boot, left>>

\* the copies go once they are encoded, and a deletion that fails is swallowed
RemoveSourceFiles(b) ==
  \/ /\ staging' = [staging EXCEPT ![b] = {"dir", "output"}]
     /\ UNCHANGED <<outlived, left>>
  \/ /\ MergeFault
     /\ staging' = [staging EXCEPT ![b] = {"dir", "copies", "output"}]
     /\ outlived' = outlived \cup {b}

\* one file is encoded and verified, and nobody has aborted: from here on a cancel is refused
Encode(b) ==
  /\ MergeAt(b, "encoding") /\ merging[b].cancel = "no"
  /\ merging' = [merging EXCEPT ![b].pc = "committing"]
  /\ RemoveSourceFiles(b)
  /\ UNCHANGED <<waiting, capacity, folder, found, latest, boot>>

CommitStep(b, from, to) ==
  /\ MergeAt(b, from)
  /\ merging' = [merging EXCEPT ![b].pc = to]
  /\ UNCHANGED <<waiting, capacity, found, outlived, latest, boot, left>>

\* commitMerge: the output moves in, the row is written, the parts go as far as they can be deleted,
\* and the staging folder goes.  The output is the first staged file with the extension of one: that
\* may be a copy of a part, which is then moved onto the part it was made from.
MoveOutput(b) ==
  /\ CommitStep(b, "committing", "moved")
  /\ \/ /\ folder' = [folder EXCEPT ![b] = @ \cup {"output"}]
        /\ staging' = [staging EXCEPT ![b] = @ \ {"output"}]
     \/ /\ "copies" \in staging[b]
        /\ staging' \in {staging, [staging EXCEPT ![b] = @ \ {"copies"}]}
        /\ UNCHANGED folder

\* all of them but the file that has been moved in
DeleteParts(b) ==
  /\ CommitStep(b, "moved", "recorded")
  /\ \/ folder' = [folder EXCEPT ![b] = IF "output" \in staging[b] THEN {"part"} ELSE {"output"}]
     \/ UNCHANGED folder
  /\ UNCHANGED staging

Tidy(b) ==
  /\ CommitStep(b, "recorded", "tagging")
  /\ staging' = [staging EXCEPT ![b] = {}]
  /\ UNCHANGED folder

Complete(b) ==
  /\ MergeAt(b, "tagging")
  /\ Ends(b, Told("merged", merging[b])) /\ Announce(b, "merged")
  /\ UNCHANGED <<capacity, files, boot>>

\* Any step may fail; only a staging folder the merge has made is removed
MergeFails(b) ==
  /\ merging[b].pc \in {"begun", "started"} \cup {"copying", "encoding"} \cup Committing
  /\ LET end == IF merging[b].cancel = "abort" THEN "cancelled" ELSE "failed"
         m == Told(end, merging[b]) IN
     /\ Announce(b, end)
     /\ IF m.pc \in {"begun", "started"} THEN Ends(b, m)
        ELSE merging' = [merging EXCEPT ![b] = [m EXCEPT !.pc = "clearing"]] /\ UNCHANGED waiting
  /\ UNCHANGED <<capacity, files, boot>>

Clear(b) ==
  /\ MergeAt(b, "clearing")
  /\ staging' = [staging EXCEPT ![b] = {}] \/ UNCHANGED staging
  /\ Ends(b, merging[b])
  /\ UNCHANGED <<capacity, folder, found, outlived, latest, boot, left>>

-----------------------------------------------------------------------------
(* cancelMerge *)

CancelQueued(b) ==
  /\ MergeAt(b, "queued")
  /\ \E i \in DOMAIN waiting :
       waiting[i] = b /\ waiting' = SubSeq(waiting, 1, i - 1) \o SubSeq(waiting, i + 1, Len(waiting))
  /\ merging' = [merging EXCEPT ![b] = Over(Told("cancelled", @))]
  /\ Announce(b, "cancelled")
  /\ UNCHANGED <<capacity, files, boot>>

\* promoted, but before the lock: there is no controller, so the event is told now
CancelWaiting(b) ==
  /\ merging[b].pc \in {"revalidating", "admission"} /\ merging[b].cancel = "no"
  /\ merging' = [merging EXCEPT ![b] = [Told("cancelled", @) EXCEPT !.cancel = "flag"]]
  /\ Announce(b, "cancelled")
  /\ UNCHANGED <<waiting, capacity, files, boot>>

CancelRunning(b) ==
  /\ merging[b].pc \in {"begun", "started", "copying", "encoding"} /\ merging[b].cancel = "no"
  /\ merging' = [merging EXCEPT ![b].cancel = "abort"]
  /\ UNCHANGED <<waiting, capacity, files, latest, boot, left>>

-----------------------------------------------------------------------------
(* A crash, and the boot *)

NoCandidate == [book |-> {}, again |-> FALSE]
Booted == [phase |-> "up", seen |-> {}, hand |-> NoCandidate, plan |-> {}]

MergeCrash ==
  /\ left.crashes > 0
  /\ left' = [left EXCEPT !.crashes = @ - 1]
  /\ merging' = [b \in MergeBooks |-> NoMerge]
  /\ waiting' = <<>> /\ capacity' = 1
  /\ boot' = [Booted EXCEPT !.phase = "settle"]
  /\ UNCHANGED <<files, latest>>

Candidates == {b \in MergeBooks : latest[b].event = "merge_started"} \ boot.seen

\* mutant: also a staging folder without audio is taken for an interrupted encode
AnyStaging(b) == staging[b] # {}

\* classifyStagingDir: audio in it is taken for a proof that the commit has not begun
PreCommit(b) == staging[b] \cap {"copies", "output"} # {}

\* the staging folder goes before the row that ends the candidate, and a failure leaves it for the next boot
Settle(b) ==
  /\ boot.phase = "settle" /\ boot.hand = NoCandidate /\ b \in Candidates
  /\ \/ /\ staging' = [staging EXCEPT ![b] = {}]
        /\ boot' = [boot EXCEPT !.hand = [book |-> {b}, again |-> PreCommit(b) /\ latest[b].origin = "auto"]]
        /\ UNCHANGED left
     \/ /\ MergeFault
        /\ boot' = [boot EXCEPT !.seen = @ \cup {b}]
        /\ UNCHANGED staging
  /\ UNCHANGED <<merging, waiting, capacity, folder, found, outlived, latest>>

\* the row, and with it the place in the plan
SettleRow(b) ==
  /\ boot.hand.book = {b}
  /\ \/ /\ latest' = [latest EXCEPT ![b].event = "merge_failed"]
        /\ boot' = [boot EXCEPT !.seen = @ \cup {b}, !.hand = NoCandidate,
                                !.plan = IF boot.hand.again THEN @ \cup {b} ELSE @]
        /\ UNCHANGED left
     \/ /\ MergeFault
        /\ boot' = [boot EXCEPT !.seen = @ \cup {b}, !.hand = NoCandidate]
        /\ UNCHANGED latest
  /\ UNCHANGED <<merging, waiting, capacity, files>>

\* the import worker starts, and with it imports and their merges
Settled ==
  /\ boot.phase = "settle" /\ boot.hand = NoCandidate /\ Candidates = {}
  /\ boot' = [boot EXCEPT !.phase = "requeue"]
  /\ UNCHANGED <<merging, waiting, capacity, files, latest, left>>

\* requeueRecoveredMerges: a merge that is there already is left alone
Requeue(b) ==
  /\ boot.phase = "requeue" /\ b \in boot.plan
  /\ merging' = IF MergeAt(b, "none") THEN [merging EXCEPT ![b].pc = "validating", ![b].origin = "auto"]
                                      ELSE merging
  /\ boot' = [boot EXCEPT !.plan = @ \ {b}]
  /\ UNCHANGED <<waiting, capacity, files, latest, left>>

Listen ==
  /\ boot.phase = "requeue" /\ boot.plan = {}
  /\ boot' = Booted
  /\ UNCHANGED <<merging, waiting, capacity, files, latest, left>>

-----------------------------------------------------------------------------
MergeInit ==
  /\ merging = [b \in MergeBooks |-> NoMerge]
  /\ waiting = <<>> /\ capacity = 1
  /\ folder \in [MergeBooks -> {{"parts"}, {"output"}}]
  /\ staging = [b \in MergeBooks |-> {}]
  /\ latest = [b \in MergeBooks |-> [event |-> "merged", origin |-> "manual"]]
  /\ found = folder /\ outlived = {} /\ boot = Booted
  /\ left \in MergeBudgets

\* What goes on by itself
MergeStep(b) ==
  \/ Refuse(b) \/ Accept(b) \/ Revalidate(b) \/ Admit(b) \/ Start(b) \/ Stage(b) \/ CopyParts(b) \/ Encode(b)
  \/ MoveOutput(b) \/ DeleteParts(b) \/ Tidy(b) \/ Complete(b) \/ MergeFails(b) \/ Clear(b)

MergeRequest(b) ==
  \/ \E origin \in Origins : Enqueue(b, origin)
  \/ CancelQueued(b) \/ CancelWaiting(b) \/ CancelRunning(b)

BootStep == Settled \/ Listen \/ \E b \in MergeBooks : Settle(b) \/ SettleRow(b) \/ Requeue(b)

MergeNext == MergeCrash \/ BootStep \/ \E b \in MergeBooks : MergeStep(b) \/ MergeRequest(b)

MergeSpec == MergeInit /\ [][MergeNext]_mergeVars

-----------------------------------------------------------------------------
\* Every variable keeps its type.
MergeTypeOK ==
  /\ merging \in [MergeBooks -> MergeStates] /\ waiting \in Seq(MergeBooks) /\ capacity \in Nat \ {0}
  /\ folder \in [MergeBooks -> (SUBSET {"parts", "output", "part"}) \ {{}}]
  /\ staging \in [MergeBooks -> SUBSET {"dir", "copies", "output"}] /\ outlived \subseteq MergeBooks

\* An accepted merge is told one ending, whichever of a cancel, a failure, a revalidation and the
\* completion come at the same time; and what was answered "cancelled" is never committed.
OneEnding ==
  \A b \in MergeBooks :
    LET m == merging[b] IN
    /\ m.end # "twice"
    /\ m.pc = "none" => m.end = "told"
    /\ m.cancel # "no" => m.pc \notin Committing

\* Nobody waits while a slot is free, also after the capacity was raised by a merge that came later;
\* and who waits is in the queue once.
SlotsAreUsed ==
  /\ waiting # <<>> => Active(merging) >= capacity
  /\ Queued = {b \in MergeBooks : MergeAt(b, "queued")} /\ Len(waiting) = Cardinality(Queued)

\* A merge that a boot starts again had not touched the book: its folder is as that merge found it,
\* wherever the merge, its commit, a failure or an earlier boot was cut off.  (An output merged with the
\* parts it was made of would double the audio.)  The exception is a merge whose staged copies could not
\* all be deleted: of that one the staging folder proves nothing, which PreCommitProves is about.
RequeueIsSafe ==
  boot.phase = "settle" => \A b \in boot.plan : b \in outlived \/ folder[b] = found[b]

\* What classifyStagingDir is said to prove: where it finds audio, every original is still there.
PreCommitProves ==
  boot.phase = "settle" => \A b \in Candidates : PreCommit(b) => folder[b] = found[b]

\* Once nothing more is asked for, every merge ends, and every slot has come back.
MergesEnd == <>[](\A b \in MergeBooks : MergeAt(b, "none"))
=============================================================================

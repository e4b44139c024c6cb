-------------------------------- MODULE MCParts --------------------------------
(***************************************************************************)
(* The parts that share nothing with each other, each by itself: a         *)
(* behavior chooses one of them, and the others stay as they are.          *)
(***************************************************************************)
EXTENDS MCStagedCommit, MCMergeQueue, ImportSubmission, ConnectorRefresh

VARIABLE focus

ordinals == <<{0, 1}, {0}>>
title == <<[i \in 0..1 |-> i], [i \in 0..1 |-> 0]>>
submissionBudgets == {[restarts |-> 1, faults |-> 1, others |-> 0], [restarts |-> 0, faults |-> 0, others |-> 1]}

partVars == <<vars, mergeVars, submissionVars, refreshVars, focus>>

\* Bound: three books with parts, or two and one that is a single file already where there are crashes
BooksOfParts == {m \in MergeBooks : left.crashes = 0 \/ m < 3}

PartsInit ==
  /\ Init /\ MergeInit /\ SubmissionInit /\ RefreshInit
  /\ focus \in {"swap", "merges", "submissions", "refreshes"}
  /\ focus # "swap" => disk = [f \in Folders |-> Empty] /\ ~marker /\ ~owned
  /\ focus # "merges" => left.crashes = 0
  /\ \A m \in MergeBooks : folder[m] = {"parts"} <=> m \in BooksOfParts
  /\ focus # "submissions" => remains.others = 0 /\ \A t \in Titles : library[t] = "absent"

Swaps(A) == focus = "swap" /\ A /\ UNCHANGED <<mergeVars, submissionVars, refreshVars, focus>>
Merges(A) == focus = "merges" /\ A /\ UNCHANGED <<vars, submissionVars, refreshVars, focus>>
Submits(A) == focus = "submissions" /\ A /\ UNCHANGED <<vars, mergeVars, refreshVars, focus>>
Refreshes(A) == focus = "refreshes" /\ A /\ UNCHANGED <<vars, mergeVars, submissionVars, focus>>

PartsNext == Swaps(Next) \/ Merges(MergeNext) \/ Submits(SubmissionNext) \/ Refreshes(RefreshNext)

\* What goes on by itself: the steps of a writer and of its recovery, of merges and of a boot, the drain
\* of the submissions and its poll, timers and batches
PartsWork ==
  \/ Swaps(Step)
  \/ Merges(BootStep \/ \E m \in MergeBooks : MergeStep(m))
  \/ Submits(RunnerStep \/ Poll)
  \/ Refreshes((\E c \in Connectors : TimerFires(c)) \/ \E i \in DOMAIN batches : BatchStep(i))

PartsSpec == PartsInit /\ [][PartsNext]_partVars /\ WF_partVars(PartsWork)
=============================================================================

--------------------------- MODULE ImportSubmission ---------------------------
(***************************************************************************)
(* Staged import submissions: a client uploads the items of a submission   *)
(* and finalizes it, and the runner, a single lane woken by nudges and a   *)
(* poll, gives every item its disposition: a book with a job, or a reason  *)
(* why not.  Other requests change the library meanwhile, a write may      *)
(* fail, the process may stop or crash and start again.                    *)
(***************************************************************************)
EXTENDS Integers, FiniteSets

CONSTANTS
  Submissions,          \* ids, in the order of their creation
  Ordinals,             \* of a submission: the items it declares
  Title,                \* of a submission and an ordinal: the book the item is a copy of
  SubmissionBudgets     \* bounds of a run: shutdowns or crashes, failing writes, changes by others

ASSUME SubmissionAssumption ==
  /\ Submissions \subseteq Nat
  /\ \A s \in Submissions : Ordinals[s] \subseteq Nat /\ Ordinals[s] # {} /\ IsFiniteSet(Ordinals[s])
ASSUME SubmissionBudgetAssumption ==
  SubmissionBudgets \subseteq [restarts : Nat, faults : Nat, others : Nat]

VARIABLES
  status,      \* of a submission
  rows,        \* its items; one is "foreign" if it is not what the digest of the submission covers
  totals,      \* the counts frozen at its completion
  library,     \* of a title: no book, one without a file, one with an active import job, one with a file
  jobs,        \* history: how many jobs an item has been given
  notices,     \* history: how often the end of a submission was announced
  runner,      \* the drain of the runner
  remains      \* what is left of the budget

submissionVars == <<status, rows, totals, library, jobs, notices, runner, remains>>

Dispositions == {"accepted", "held", "skipped", "failed"}
Titles == {Title[s][i] : s \in Submissions, i \in UNION {Ordinals[t] : t \in Submissions}}
NoTotals == [d \in Dispositions |-> 0]
Idle == [phase |-> "up", pc |-> "idle", again |-> FALSE, sub |-> 0, item |-> 0, write |-> "failed", last |-> FALSE]

-----------------------------------------------------------------------------
(* The client: ImportStagingService *)

CreateSubmission(s) ==
  /\ status[s] = "none" /\ \A t \in Submissions : t < s => status[t] # "none"
  /\ status' = [status EXCEPT ![s] = "receiving"]
  /\ UNCHANGED <<rows, totals, library, jobs, notices, runner, remains>>

\* an ordinal that is there already is left as it is
PutItem(s, i) ==
  /\ status[s] = "receiving" /\ rows[s][i] = "none"
  /\ \E content \in {"pending", "foreign"} : rows' = [rows EXCEPT ![s][i] = content]
  /\ UNCHANGED <<status, totals, library, jobs, notices, runner, remains>>

\* requestDrain: a drain that is under way goes round once more
RequestDrain(r) ==
  IF r.phase # "up" THEN r
  ELSE IF r.pc = "idle" THEN [r EXCEPT !.pc = "pick", !.again = FALSE] ELSE [r EXCEPT !.again = TRUE]

\* every ordinal is there, and the digest is the declared one
Finalize(s) ==
  /\ status[s] = "receiving" /\ \A i \in Ordinals[s] : rows[s][i] = "pending"
  /\ status' = [status EXCEPT ![s] = "processing"]
  /\ runner' = RequestDrain(runner)
  /\ UNCHANGED <<rows, totals, library, jobs, notices, remains>>

\* by the client, by the sweep of stale uploads, by the retention
DeleteSubmission(s) ==
  /\ status[s] \in {"receiving", "complete"}
  /\ status' = [status EXCEPT ![s] = "gone"]
  /\ rows' = [rows EXCEPT ![s] = [i \in Ordinals[s] |-> "none"]]
  /\ UNCHANGED <<totals, library, jobs, notices, runner, remains>>

\* pruneCompletedDetails: the rows go, the counts stay
PruneDetails(s) ==
  /\ status[s] = "complete" /\ \E i \in Ordinals[s] : rows[s][i] # "none"
  /\ rows' = [rows EXCEPT ![s] = [i \in Ordinals[s] |-> "none"]]
  /\ UNCHANGED <<status, totals, library, jobs, notices, runner, remains>>

-----------------------------------------------------------------------------
(* Everybody else who adds, imports and deletes books *)

Becomes == [absent |-> {"wanted"}, wanted |-> {"absent", "importing"},
            importing |-> {"wanted", "owned"}, owned |-> {"absent"}]

OthersChange(t) ==
  /\ remains.others > 0
  /\ \E to \in Becomes[library[t]] : library' = [library EXCEPT ![t] = to]
  /\ remains' = [remains EXCEPT !.others = @ - 1]
  /\ UNCHANGED <<status, rows, totals, jobs, notices, runner>>

-----------------------------------------------------------------------------
(* The runner *)

Pending(rs, s) == {i \in Ordinals[s] : rs[s][i] = "pending"}
Least(S) == CHOOSE n \in S : \A m \in S : n <= m
Processing == {s \in Submissions : status[s] = "processing"}
RunnerAt(pc) == runner.pc = pc
ItemTitle == Title[runner.sub][runner.item]

\* The do-while of runDrain: once more if it was asked for meanwhile
DrainEnds ==
  runner' = IF runner.again /\ runner.phase = "up" THEN [runner EXCEPT !.pc = "pick", !.again = FALSE]
                                                   ELSE [runner EXCEPT !.pc = "idle"]

Poll ==
  /\ runner' = RequestDrain(runner) /\ runner' # runner
  /\ UNCHANGED <<status, rows, totals, library, jobs, notices, remains>>

\* the oldest submission
PickSubmission ==
  /\ RunnerAt("pick")
  /\ IF runner.phase = "up" /\ Processing # {}
     THEN runner' = [runner EXCEPT !.pc = "item", !.sub = Least(Processing)]
     ELSE DrainEnds
  /\ UNCHANGED <<status, rows, totals, library, jobs, notices, remains>>

\* its first pending item, unless the runner was stopped meanwhile
PickItem ==
  /\ RunnerAt("item")
  /\ IF runner.phase = "up" THEN runner' = [runner EXCEPT !.pc = "classify", !.item = Least(Pending(rows, runner.sub))]
                            ELSE DrainEnds
  /\ UNCHANGED <<status, rows, totals, library, jobs, notices, remains>>

Verdict(pc, write, last) == runner' = [runner EXCEPT !.pc = pc, !.write = write, !.last = last]

\* mutant: an item that cannot be prepared stays pending, to be tried again
RetryPreparation ==
  /\ RunnerAt("classify")
  /\ \/ runner' = [runner EXCEPT !.pc = "pick"]
     \/ library[ItemTitle] = "absent" /\ Verdict("create", "failed", FALSE)
     \/ library[ItemTitle] = "wanted" /\ Verdict("attach", "failed", FALSE)
     \/ library[ItemTitle] \in {"importing", "owned"} /\ Verdict("write", "skipped", FALSE)
  /\ UNCHANGED <<status, rows, totals, library, jobs, notices, remains>>

\* classifyConfirmItem reads the library outside the transaction that acts on it; a forced item skips it
Classify ==
  /\ RunnerAt("classify")
  /\ \/ Verdict("create", "failed", FALSE)
     \/ library[ItemTitle] = "wanted" /\ Verdict("attach", "failed", FALSE)
     \/ library[ItemTitle] \in {"importing", "owned"} /\ Verdict("write", "skipped", FALSE)
     \/ library[ItemTitle] # "absent" /\ Verdict("write", "held", FALSE)
     \/ Verdict("write", "failed", TRUE)
  /\ UNCHANGED <<status, rows, totals, library, jobs, notices, remains>>

\* mutant: the first disposition completes the submission
DisposedAtOnce(d) ==
  LET to == [rows EXCEPT ![runner.sub][runner.item] = d]
  IN /\ rows' = to
     /\ status' = [status EXCEPT ![runner.sub] = "complete"]
     /\ totals' = [totals EXCEPT ![runner.sub][d] = 1]
     /\ runner' = [runner EXCEPT !.pc = "notify"]

\* maybeComplete, in the transaction that gives the item its disposition
Disposed(d) ==
  LET s == runner.sub
      to == [rows EXCEPT ![s][runner.item] = d]
  IN /\ rows' = to
     /\ IF Pending(to, s) = {}
        THEN /\ status' = [status EXCEPT ![s] = "complete"]
             /\ totals' = [totals EXCEPT ![s] = [k \in Dispositions |-> Cardinality({i \in Ordinals[s] : to[s][i] = k})]]
             /\ runner' = [runner EXCEPT !.pc = "notify"]
        ELSE runner' = [runner EXCEPT !.pc = "pick"] /\ UNCHANGED <<status, totals>>

\* mutant: the book and its job are committed before the item is
CommitBookFirst ==
  /\ runner.pc \in {"create", "attach"}
  /\ library' = [library EXCEPT ![ItemTitle] = "importing"]
  /\ jobs' = [jobs EXCEPT ![runner.sub][runner.item] = @ + 1]
  /\ Verdict("write", "failed", FALSE)
  /\ UNCHANGED <<status, rows, totals, notices, remains>>

\* the book, its job and the item in one transaction, which what changed since the item was
\* classified, or any error, rolls back
AcceptItem ==
  /\ \/ RunnerAt("create") /\ library[ItemTitle] = "absent"
     \/ RunnerAt("attach") /\ library[ItemTitle] = "wanted"
  /\ library' = [library EXCEPT ![ItemTitle] = "importing"]
  /\ jobs' = [jobs EXCEPT ![runner.sub][runner.item] = @ + 1]
  /\ Disposed("accepted")
  /\ UNCHANGED <<notices, remains>>

RollBack ==
  /\ \/ RunnerAt("create") /\ library[ItemTitle] # "absent" /\ Verdict("write", "skipped", FALSE)
     \/ RunnerAt("attach") /\ library[ItemTitle] # "wanted" /\ Verdict("write", "skipped", FALSE)
     \/ runner.pc \in {"create", "attach"} /\ Verdict("write", "failed", FALSE)
  /\ UNCHANGED <<status, rows, totals, library, jobs, notices, remains>>

WriteTerminal ==
  /\ RunnerAt("write")
  /\ Disposed(runner.write)
  /\ UNCHANGED <<library, jobs, notices, remains>>

\* the boundary of the item writes "failed" instead, and an error of that ends the drain
WriteFails ==
  /\ RunnerAt("write") /\ remains.faults > 0
  /\ remains' = [remains EXCEPT !.faults = @ - 1]
  /\ IF runner.last THEN runner' = [runner EXCEPT !.pc = "idle"] ELSE Verdict("write", "failed", TRUE)
  /\ UNCHANGED <<status, rows, totals, library, jobs, notices>>

\* after the commit: dispatchCompletion
Notify ==
  /\ RunnerAt("notify")
  /\ notices' = [notices EXCEPT ![runner.sub] = @ + 1]
  /\ runner' = [runner EXCEPT !.pc = "pick"]
  /\ UNCHANGED <<status, rows, totals, library, jobs, remains>>

-----------------------------------------------------------------------------
(* The process *)

StopRunner ==
  /\ runner.phase = "up" /\ remains.restarts > 0
  /\ runner' = [runner EXCEPT !.phase = "stopping"]
  /\ remains' = [remains EXCEPT !.restarts = @ - 1]
  /\ UNCHANGED <<status, rows, totals, library, jobs, notices>>

\* stop has awaited the drain
Stopped ==
  /\ runner.phase = "stopping" /\ RunnerAt("idle")
  /\ runner' = [Idle EXCEPT !.phase = "down"]
  /\ UNCHANGED <<status, rows, totals, library, jobs, notices, remains>>

CrashRunner ==
  /\ runner.phase # "down" /\ remains.restarts > 0
  /\ runner' = [Idle EXCEPT !.phase = "down"]
  /\ remains' = [remains EXCEPT !.restarts = @ - 1]
  /\ UNCHANGED <<status, rows, totals, library, jobs, notices>>

StartRunner ==
  /\ runner.phase = "down"
  /\ runner' = RequestDrain(Idle)
  /\ UNCHANGED <<status, rows, totals, library, jobs, notices, remains>>

-----------------------------------------------------------------------------
SubmissionInit ==
  /\ status = [s \in Submissions |-> "none"]
  /\ rows = [s \in Submissions |-> [i \in Ordinals[s] |-> "none"]]
  /\ totals = [s \in Submissions |-> NoTotals]
  /\ library \in [Titles -> {"absent", "wanted"}]
  /\ jobs = [s \in Submissions |-> [i \in Ordinals[s] |-> 0]]
  /\ notices = [s \in Submissions |-> 0]
  /\ runner = Idle
  /\ remains \in SubmissionBudgets

RunnerStep ==
  \/ PickSubmission \/ PickItem \/ Classify \/ AcceptItem \/ RollBack
  \/ WriteTerminal \/ WriteFails \/ Notify \/ Stopped \/ StartRunner

ClientStep(s) ==
  \/ CreateSubmission(s) \/ Finalize(s) \/ DeleteSubmission(s) \/ PruneDetails(s)
  \/ \E i \in Ordinals[s] : PutItem(s, i)

SubmissionNext ==
  \/ RunnerStep \/ Poll \/ StopRunner \/ CrashRunner
  \/ \E s \in Submissions : ClientStep(s)
  \/ \E t \in Titles : OthersChange(t)

SubmissionSpec == SubmissionInit /\ [][SubmissionNext]_submissionVars

-----------------------------------------------------------------------------
SubmissionTypeOK ==
  /\ status \in [Submissions -> {"none", "receiving", "processing", "complete", "gone"}]
  /\ \A s \in Submissions :
       /\ rows[s] \in [Ordinals[s] -> {"none", "foreign", "pending"} \cup Dispositions]
       /\ jobs[s] \in [Ordinals[s] -> Nat]
  /\ library \in [Titles -> DOMAIN Becomes]

\* An item is accepted if and only if it was given a job, and it was given one only: no failing write,
\* change by others, stop or crash leaves a job without its item or an item without its job, or makes
\* the next pass over the submission enqueue it again.
OneJobPerItem ==
  \A s \in Submissions : \A i \in Ordinals[s] :
    /\ rows[s][i] # "none" => jobs[s][i] = (IF rows[s][i] = "accepted" THEN 1 ELSE 0)
    /\ jobs[s][i] <= 1

\* A submission completes when all its items have a disposition, and the counts it keeps tell its
\* jobs, also after its rows were pruned; its end is announced once at most, and not before.
CompletedAddsUp ==
  \A s \in Submissions :
    /\ status[s] = "complete" =>
         /\ totals[s]["accepted"] = Cardinality({i \in Ordinals[s] : jobs[s][i] > 0})
         /\ \A i \in Ordinals[s] : rows[s][i] \notin {"pending", "foreign"}
    /\ notices[s] <= 1 /\ (notices[s] = 1 => status[s] \in {"complete", "gone"})

\* Every finalized submission completes, whatever fails on the way.
SubmissionsComplete == <>[](Processing = {})
=============================================================================

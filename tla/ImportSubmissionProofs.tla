------------------------- MODULE ImportSubmissionProofs -------------------------
(***************************************************************************)
(* Every item of a staged submission gets a job if and only if it is       *)
(* accepted, and one only, and a completed submission adds up: for every   *)
(* number of submissions and items, and whatever fails on the way.         *)
(***************************************************************************)
EXTENDS ImportSubmission, WellFoundedInduction, TLAPS

Contents == {"none", "foreign", "pending"} \cup Dispositions
Given == {"none", "receiving", "processing", "complete", "gone"}

Shape ==
  /\ status \in [Submissions -> Given] /\ notices \in [Submissions -> Nat]
  /\ rows = [s \in Submissions |-> rows[s]] /\ \A s \in Submissions : rows[s] \in [Ordinals[s] -> Contents]
  /\ jobs = [s \in Submissions |-> jobs[s]] /\ \A s \in Submissions : jobs[s] \in [Ordinals[s] -> Nat]
  /\ totals = [s \in Submissions |-> totals[s]]

\* What an item says of its job, at every stage of its submission
ItemOK(s, i) ==
  /\ rows[s][i] # "none" => jobs[s][i] = (IF rows[s][i] = "accepted" THEN 1 ELSE 0)
  /\ jobs[s][i] <= 1
  /\ status[s] \in {"none", "receiving"} => jobs[s][i] = 0 /\ rows[s][i] \notin Dispositions
  /\ status[s] = "processing" => rows[s][i] \notin {"none", "foreign"}
  /\ status[s] = "complete" => rows[s][i] \notin {"pending", "foreign"}

Jobbed(s) == {i \in Ordinals[s] : jobs[s][i] > 0}

SubmissionOK(s) ==
  /\ status[s] = "processing" => Pending(rows, s) # {}
  /\ status[s] = "complete" => totals[s]["accepted"] = Cardinality(Jobbed(s))
  /\ notices[s] <= 1
  /\ notices[s] # 0 => status[s] \in {"complete", "gone"}

Runners == [phase : {"up", "stopping", "down"}, again : BOOLEAN, sub : Nat, item : Nat, last : BOOLEAN,
            pc : {"idle", "pick", "item", "classify", "create", "attach", "write", "notify"},
            write : Dispositions]

\* What the runner has in hand is still to be done, as nobody else takes it away
RunnerOK ==
  /\ runner \in Runners
  /\ runner.pc = "item" => runner.sub \in Submissions /\ status[runner.sub] = "processing"
  /\ runner.pc \in {"classify", "create", "attach", "write"} =>
       /\ runner.sub \in Submissions /\ status[runner.sub] = "processing"
       /\ runner.item \in Pending(rows, runner.sub)
  /\ runner.pc = "notify" =>
       /\ runner.sub \in Submissions /\ status[runner.sub] \in {"complete", "gone"}
       /\ notices[runner.sub] = 0

Inv ==
  /\ Shape /\ RunnerOK
  /\ \A s \in Submissions : SubmissionOK(s) /\ \A i \in Ordinals[s] : ItemOK(s, i)

-----------------------------------------------------------------------------
\* A set of ordinals or of ids has a least one.
LEMMA LeastIsOne ==
  ASSUME NEW S, S \subseteq Nat, S # {}
  PROVE  Least(S) \in S
<1>. DEFINE R == {ss \in Nat \X Nat : ss[1] < ss[2]}
<1>1. R = OpToRel(<, Nat)
  BY Zenon DEF OpToRel
<1>2. IsWellFoundedOn(R, Nat)
  BY <1>1, NatLessThanWellFounded
<1>3. PICK n \in S : \A m \in S : ~(<<m, n>> \in R)
  <2>. HIDE DEF R
  <2>. QED BY <1>2, WFMin
<1>4. \A m \in S : n <= m
  <2>1. TAKE m \in S
  <2>2. <<m, n>> \in Nat \X Nat /\ <<m, n>>[1] = m /\ <<m, n>>[2] = n
    OBVIOUS
  <2>3. ~(m < n)
    BY <1>3, <2>2, Zenon
  <2>. QED
    BY <2>3
<1>. QED
  BY <1>4 DEF Least

LEMMA DrainAsked ==
  ASSUME NEW r \in Runners
  PROVE  /\ RequestDrain(r) \in Runners /\ RequestDrain(r).sub = r.sub /\ RequestDrain(r).item = r.item
         /\ RequestDrain(r).pc = r.pc \/ RequestDrain(r).pc = "pick"
BY DEF RequestDrain, Runners

LEMMA DrainIsOver ==
  ASSUME runner \in Runners, DrainEnds
  PROVE  runner' \in Runners /\ runner'.pc \in {"idle", "pick"}
BY DEF DrainEnds, Runners

\* Only the runner, the library or the budget change
LEMMA RunnerMoves ==
  ASSUME Inv, UNCHANGED <<status, rows, totals, jobs, notices>>, RunnerOK'
  PROVE  Inv'
<1>1. ASSUME NEW t \in Submissions PROVE SubmissionOK(t)' /\ \A i \in Ordinals[t] : ItemOK(t, i)'
  <2>1. SubmissionOK(t) /\ \A i \in Ordinals[t] : ItemOK(t, i)
    BY DEF Inv
  <2>2. Jobbed(t)' = Jobbed(t) /\ Pending(rows', t) = Pending(rows, t)
    BY DEF Jobbed, Pending
  <2>. QED
    BY <2>1, <2>2 DEF SubmissionOK, ItemOK
<1>. QED
  BY <1>1 DEF Inv, Shape

\* One submission changes
LEMMA SubmissionMoves ==
  ASSUME Inv, NEW s \in Submissions, Shape', RunnerOK', SubmissionOK(s)', \A i \in Ordinals[s] : ItemOK(s, i)',
         \A t \in Submissions \ {s} : /\ status'[t] = status[t] /\ rows'[t] = rows[t] /\ jobs'[t] = jobs[t]
                                      /\ totals'[t] = totals[t] /\ notices'[t] = notices[t]
  PROVE  Inv'
<1>1. ASSUME NEW t \in Submissions \ {s} PROVE SubmissionOK(t)' /\ \A i \in Ordinals[t] : ItemOK(t, i)'
  <2>1. SubmissionOK(t) /\ \A i \in Ordinals[t] : ItemOK(t, i)
    BY DEF Inv
  <2>2. Jobbed(t)' = Jobbed(t) /\ Pending(rows', t) = Pending(rows, t)
    BY DEF Jobbed, Pending
  <2>. QED
    BY <2>1, <2>2 DEF SubmissionOK, ItemOK
<1>. QED
  BY <1>1 DEF Inv

\* The runner gives the item in hand its disposition
LEMMA DisposedKeeps ==
  ASSUME Inv, NEW d \in Dispositions, runner.pc \in {"classify", "create", "attach", "write"}, Disposed(d),
         UNCHANGED notices,
         jobs' = IF d = "accepted" THEN [jobs EXCEPT ![runner.sub][runner.item] = @ + 1] ELSE jobs
  PROVE  Inv'
<1>0. /\ runner.sub \in Submissions /\ status[runner.sub] = "processing"
      /\ runner.item \in Ordinals[runner.sub] /\ rows[runner.sub][runner.item] = "pending"
  <2>1. runner.sub \in Submissions /\ status[runner.sub] = "processing" /\ runner.item \in Pending(rows, runner.sub)
    BY DEF Inv, RunnerOK
  <2>. QED
    BY <2>1 DEF Pending
<1>s. PICK s \in Submissions : s = runner.sub
  BY <1>0
<1>i. PICK i \in Ordinals[s] : i = runner.item
  BY <1>0, <1>s
<1>1. s = runner.sub /\ i = runner.item /\ rows[s][i] = "pending" /\ status[s] = "processing"
  BY <1>0, <1>s, <1>i
<1>. DEFINE To(x, y) == [rows EXCEPT ![x][y] = d]
<1>. DEFINE Count(x, y, k) == Cardinality({j \in Ordinals[x] : To(x, y)[x][j] = k})
<1>. DEFINE Goes(x, y) ==
  /\ rows' = To(x, y)
  /\ IF Pending(To(x, y), x) = {}
     THEN /\ status' = [status EXCEPT ![x] = "complete"]
          /\ totals' = [totals EXCEPT ![x] = [k \in Dispositions |-> Count(x, y, k)]]
          /\ runner' = [runner EXCEPT !.pc = "notify"]
     ELSE runner' = [runner EXCEPT !.pc = "pick"] /\ UNCHANGED <<status, totals>>
<1>d. Goes(runner.sub, runner.item)
  BY DEF Disposed
<1>g. Goes(s, i)
  <2>. HIDE DEF Goes
  <2>. QED
    BY <1>1, <1>d
<1>. DEFINE to == To(s, i)
<1>2. /\ rows' = to
      /\ \/ /\ Pending(to, s) = {} /\ status' = [status EXCEPT ![s] = "complete"]
            /\ totals' = [totals EXCEPT ![s] = [k \in Dispositions |-> Count(s, i, k)]]
            /\ runner' = [runner EXCEPT !.pc = "notify"]
         \/ Pending(to, s) # {} /\ runner' = [runner EXCEPT !.pc = "pick"] /\ UNCHANGED <<status, totals>>
  <2>. HIDE DEF To, Count
  <2>. QED
    BY <1>g
<1>3. /\ rows[s] \in [Ordinals[s] -> Contents] /\ jobs[s] \in [Ordinals[s] -> Nat]
      /\ \A j \in Ordinals[s] : ItemOK(s, j)
      /\ notices[s] = 0
  BY <1>1 DEF Inv, Shape, SubmissionOK
<1>4. /\ to[s] = [rows[s] EXCEPT ![i] = d] /\ \A t \in Submissions \ {s} : to[t] = rows[t]
      /\ to = [t \in Submissions |-> to[t]] /\ to[s] \in [Ordinals[s] -> Contents]
  BY <1>3 DEF Inv, Shape, Contents
<1>5. /\ jobs'[s] \in [Ordinals[s] -> Nat] /\ jobs' = [t \in Submissions |-> jobs'[t]]
      /\ \A j \in Ordinals[s] : jobs'[s][j] = IF j = i /\ d = "accepted" THEN jobs[s][j] + 1 ELSE jobs[s][j]
      /\ \A t \in Submissions \ {s} : jobs'[t] = jobs[t]
  <2>1. CASE d = "accepted"
    <3>1. jobs' = [jobs EXCEPT ![s][i] = @ + 1]
      BY <1>1, <2>1
    <3>2. jobs'[s] = [jobs[s] EXCEPT ![i] = @ + 1]
      BY <3>1 DEF Inv, Shape
    <3>3. \A t \in Submissions \ {s} : jobs'[t] = jobs[t]
      BY <3>1 DEF Inv, Shape
    <3>4. jobs' = [t \in Submissions |-> jobs'[t]]
      BY <3>1 DEF Inv, Shape
    <3>. QED
      BY <1>3, <2>1, <3>2, <3>3, <3>4
  <2>2. CASE d # "accepted"
    BY <1>3, <2>2 DEF Inv, Shape
  <2>. QED
    BY <2>1, <2>2
<1>6. ASSUME NEW j \in Ordinals[s]
      PROVE  /\ to[s][j] \notin {"none", "foreign"} /\ jobs'[s][j] = (IF to[s][j] = "accepted" THEN 1 ELSE 0)
             /\ j # i => to[s][j] = rows[s][j]
  <2>1. ItemOK(s, j) /\ jobs[s][j] \in Nat
    BY <1>3
  <2>2. CASE j = i
    <3>1. to[s][j] = d /\ jobs[s][j] = 0
      BY <1>1, <1>3, <1>4, <2>1, <2>2 DEF ItemOK
    <3>. QED
      BY <1>5, <2>2, <3>1 DEF Dispositions
  <2>3. CASE j # i
    <3>1. to[s][j] = rows[s][j] /\ jobs'[s][j] = jobs[s][j]
      BY <1>3, <1>4, <1>5, <2>3
    <3>. QED
      BY <1>1, <2>1, <2>3, <3>1 DEF ItemOK
  <2>. QED
    BY <2>2, <2>3
<1>c. Count(s, i, "accepted") = Cardinality({j \in Ordinals[s] : to[s][j] = "accepted"})
  OBVIOUS
<1>. HIDE DEF to, Count
<1>t. totals' = [t \in Submissions |-> totals'[t]] /\ \A t \in Submissions \ {s} : totals'[t] = totals[t]
  <2>1. CASE totals' = [totals EXCEPT ![s] = [k \in Dispositions |-> Count(s, i, k)]]
    <3>. DEFINE new == [k \in Dispositions |-> Count(s, i, k)]
    <3>1. totals' = [totals EXCEPT ![s] = new]
      BY <2>1
    <3>. HIDE DEF new
    <3>. QED
      BY <3>1 DEF Inv, Shape
  <2>2. CASE totals' = totals
    BY <2>2 DEF Inv, Shape
  <2>. QED
    BY <1>2, <2>1, <2>2
<1>7. Shape'
  <2>1. status' \in [Submissions -> Given] /\ notices' \in [Submissions -> Nat]
    BY <1>2 DEF Inv, Shape, Given
  <2>. QED
    BY <1>2, <1>4, <1>5, <1>t, <2>1 DEF Inv, Shape
<1>8. status'[s] \in {"processing", "complete"} /\ (status'[s] = "complete" => Pending(to, s) = {})
  BY <1>1, <1>2 DEF Inv, Shape
<1>9. ASSUME NEW j \in Ordinals[s] PROVE ItemOK(s, j)'
  BY <1>2, <1>6, <1>8 DEF ItemOK, Pending
<1>10. SubmissionOK(s)'
  <2>1. CASE Pending(to, s) = {}
    <3>1. Jobbed(s)' = {j \in Ordinals[s] : to[s][j] = "accepted"}
      BY <1>6 DEF Jobbed
    <3>2. totals'[s]["accepted"] = Count(s, i, "accepted") /\ status'[s] = "complete"
      <4>. DEFINE new == [k \in Dispositions |-> Count(s, i, k)]
      <4>1. totals' = [totals EXCEPT ![s] = new] /\ status' = [status EXCEPT ![s] = "complete"]
        BY <1>2, <2>1
      <4>2. new["accepted"] = Count(s, i, "accepted")
        BY DEF Dispositions
      <4>. HIDE DEF new
      <4>3. totals'[s] = new /\ status'[s] = "complete"
        BY <4>1 DEF Inv, Shape
      <4>. QED
        BY <4>2, <4>3
    <3>. QED
      BY <1>3, <1>c, <3>1, <3>2 DEF SubmissionOK
  <2>2. CASE Pending(to, s) # {}
    BY <1>1, <1>2, <1>3, <2>2 DEF SubmissionOK
  <2>. QED
    BY <2>1, <2>2
<1>11. RunnerOK'
  <2>1. runner \in Runners /\ runner.sub = s /\ Inv
    BY <1>1 DEF Inv, RunnerOK
  <2>2. runner' \in Runners /\ runner'.sub = s /\ runner'.pc \in {"pick", "notify"}
    <3>1. CASE Pending(to, s) = {}
      BY <1>2, <2>1, <3>1 DEF Runners
    <3>2. CASE Pending(to, s) # {}
      BY <1>2, <2>1, <3>2 DEF Runners
    <3>. QED
      BY <3>1, <3>2
  <2>3. runner'.pc = "notify" => status'[s] = "complete" /\ notices'[s] = 0
    <3>1. CASE Pending(to, s) = {}
      <4>1. status'[s] = "complete"
        BY <1>2, <3>1 DEF Inv, Shape
      <4>. QED
        BY <1>1, <1>3, <4>1
    <3>2. CASE Pending(to, s) # {}
      <4>1. runner'.pc = "pick"
        BY <1>2, <2>1, <3>2 DEF Runners
      <4>. QED
        BY <4>1
    <3>. QED
      BY <3>1, <3>2
  <2>. QED
    BY <1>1, <2>2, <2>3 DEF RunnerOK
<1>. QED
  BY <1>2, <1>4, <1>5, <1>7, <1>9, <1>10, <1>11, SubmissionMoves DEF Inv, Shape

-----------------------------------------------------------------------------
(* The client *)

LEMMA CreateKeeps ==
  ASSUME Inv, NEW s \in Submissions, CreateSubmission(s)
  PROVE  Inv'
<1>1. status' = [status EXCEPT ![s] = "receiving"] /\ status[s] = "none" /\ UNCHANGED <<rows, totals, jobs, notices, runner>>
  BY DEF CreateSubmission
<1>2. Shape' /\ RunnerOK'
  BY <1>1 DEF Inv, Shape, Given, RunnerOK
<1>3. SubmissionOK(s)' /\ \A i \in Ordinals[s] : ItemOK(s, i)'
  BY <1>1 DEF Inv, Shape, SubmissionOK, ItemOK
<1>. QED
  BY <1>1, <1>2, <1>3, SubmissionMoves DEF Inv, Shape

LEMMA PutKeeps ==
  ASSUME Inv, NEW s \in Submissions, NEW i \in Ordinals[s], PutItem(s, i)
  PROVE  Inv'
<1>1. PICK content \in {"pending", "foreign"} : rows' = [rows EXCEPT ![s][i] = content]
  BY DEF PutItem
<1>2. status[s] = "receiving" /\ UNCHANGED <<status, totals, jobs, notices, runner>>
  BY DEF PutItem
<1>3. /\ rows'[s] = [rows[s] EXCEPT ![i] = content] /\ \A t \in Submissions \ {s} : rows'[t] = rows[t]
      /\ rows' = [t \in Submissions |-> rows'[t]] /\ rows'[s] \in [Ordinals[s] -> Contents]
  BY <1>1 DEF Inv, Shape, Contents
<1>4. Shape'
  BY <1>2, <1>3 DEF Inv, Shape
<1>5. RunnerOK'
  BY <1>2, <1>3 DEF Inv, RunnerOK, Pending
<1>6. SubmissionOK(s)'
  BY <1>2 DEF Inv, SubmissionOK
<1>7. ASSUME NEW j \in Ordinals[s] PROVE ItemOK(s, j)'
  <2>1. ItemOK(s, j) /\ rows[s] \in [Ordinals[s] -> Contents]
    BY DEF Inv, Shape
  <2>2. rows'[s][j] = rows[s][j] \/ rows'[s][j] = content
    BY <1>3, <2>1
  <2>. QED
    BY <1>2, <2>1, <2>2 DEF ItemOK, Dispositions
<1>. QED
  BY <1>2, <1>3, <1>4, <1>5, <1>6, <1>7, SubmissionMoves

LEMMA FinalizeKeeps ==
  ASSUME Inv, NEW s \in Submissions, Finalize(s)
  PROVE  Inv'
<1>1. /\ status[s] = "receiving" /\ \A i \in Ordinals[s] : rows[s][i] = "pending"
      /\ status' = [status EXCEPT ![s] = "processing"] /\ runner' = RequestDrain(runner)
      /\ UNCHANGED <<rows, totals, jobs, notices>>
  BY DEF Finalize
<1>2. Shape'
  BY <1>1 DEF Inv, Shape, Given
<1>3. RunnerOK'
  BY <1>1, DrainAsked DEF Inv, Shape, RunnerOK
<1>4. Pending(rows, s) = Ordinals[s] /\ Ordinals[s] # {}
  BY <1>1, SubmissionAssumption DEF Pending
<1>5. SubmissionOK(s)' /\ \A i \in Ordinals[s] : ItemOK(s, i)'
  BY <1>1, <1>4 DEF Inv, Shape, SubmissionOK, ItemOK
<1>. QED
  BY <1>1, <1>2, <1>3, <1>5, SubmissionMoves DEF Inv, Shape

\* The rows of a submission that is not processed go
LEMMA RowsGo ==
  ASSUME Inv, NEW s \in Submissions, rows' = [rows EXCEPT ![s] = [i \in Ordinals[s] |-> "none"]],
         UNCHANGED <<totals, jobs, notices, runner>>,
         \/ status[s] \in {"receiving", "complete"} /\ status' = [status EXCEPT ![s] = "gone"]
         \/ status[s] = "complete" /\ status' = status
  PROVE  Inv'
<1>1. /\ status'[s] \in {"gone", "complete"} /\ (status'[s] = "complete" => status[s] = "complete")
      /\ status' \in [Submissions -> Given] /\ \A t \in Submissions \ {s} : status'[t] = status[t]
  BY DEF Inv, Shape, Given
<1>2. /\ rows'[s] = [i \in Ordinals[s] |-> "none"] /\ \A t \in Submissions \ {s} : rows'[t] = rows[t]
      /\ rows' = [t \in Submissions |-> rows'[t]]
  BY DEF Inv, Shape
<1>3. Shape'
  BY <1>1, <1>2 DEF Inv, Shape, Contents
<1>4. RunnerOK'
  BY <1>1, <1>2 DEF Inv, RunnerOK, Pending
<1>5. SubmissionOK(s)'
  BY <1>1 DEF Inv, SubmissionOK, Jobbed
<1>6. ASSUME NEW i \in Ordinals[s] PROVE ItemOK(s, i)'
  BY <1>1, <1>2 DEF Inv, ItemOK
<1>. QED
  BY <1>1, <1>2, <1>3, <1>4, <1>5, <1>6, SubmissionMoves

-----------------------------------------------------------------------------
(* The runner *)

LEMMA PickItemKeeps ==
  ASSUME Inv, PickItem
  PROVE  Inv'
<1>1. runner.pc = "item" /\ UNCHANGED <<status, rows, totals, jobs, notices>>
  BY DEF PickItem, RunnerAt
<1>. DEFINE s == runner.sub
<1>2. s \in Submissions /\ status[s] = "processing" /\ Pending(rows, s) # {}
  BY <1>1 DEF Inv, RunnerOK, SubmissionOK
<1>3. Pending(rows, s) \subseteq Nat
  BY <1>2, SubmissionAssumption DEF Pending
<1>4. Least(Pending(rows, s)) \in Pending(rows, s)
  BY <1>2, <1>3, LeastIsOne
<1>5. RunnerOK'
  <2>1. CASE runner' = [runner EXCEPT !.pc = "classify", !.item = Least(Pending(rows, s))]
    <3>. DEFINE i == Least(Pending(rows, s))
    <3>1. i \in Nat /\ i \in Pending(rows, s)
      BY <1>3, <1>4
    <3>. HIDE DEF i
    <3>2. runner' \in Runners /\ runner'.pc = "classify" /\ runner'.sub = s /\ runner'.item = i
      <4>1. runner' = [runner EXCEPT !.pc = "classify", !.item = i]
        BY <2>1 DEF i
      <4>. QED
        BY <3>1, <4>1 DEF Inv, RunnerOK, Runners
    <3>3. Pending(rows', s) = Pending(rows, s) /\ status' = status
      BY <1>1
    <3>. QED
      BY <1>2, <3>1, <3>2, <3>3 DEF RunnerOK
  <2>2. CASE DrainEnds
    BY <2>2, DrainIsOver DEF Inv, RunnerOK
  <2>. QED
    BY <2>1, <2>2 DEF PickItem
<1>. QED
  BY <1>1, <1>5, RunnerMoves

LEMMA PickSubmissionKeeps ==
  ASSUME Inv, PickSubmission
  PROVE  Inv'
<1>1. UNCHANGED <<status, rows, totals, jobs, notices>>
  BY DEF PickSubmission
<1>2. RunnerOK'
  <2>1. CASE Processing # {} /\ runner' = [runner EXCEPT !.pc = "item", !.sub = Least(Processing)]
    <3>1. Least(Processing) \in Processing
      BY <2>1, LeastIsOne, SubmissionAssumption DEF Processing
    <3>. DEFINE n == Least(Processing)
    <3>2. n \in Nat /\ n \in Submissions /\ status[n] = "processing" /\ runner' = [runner EXCEPT !.pc = "item", !.sub = n]
      BY <2>1, <3>1, SubmissionAssumption DEF Processing
    <3>. HIDE DEF n
    <3>3. runner' \in Runners /\ runner'.pc = "item" /\ runner'.sub = n
      BY <3>2 DEF Inv, RunnerOK, Runners
    <3>. QED
      BY <1>1, <3>2, <3>3 DEF RunnerOK
  <2>2. CASE DrainEnds
    BY <2>2, DrainIsOver DEF Inv, RunnerOK
  <2>. QED
    BY <2>1, <2>2 DEF PickSubmission
<1>. QED
  BY <1>1, <1>2, RunnerMoves

LEMMA AcceptKeeps ==
  ASSUME Inv, AcceptItem
  PROVE  Inv'
<1>1. /\ runner.pc \in {"create", "attach"} /\ Disposed("accepted") /\ UNCHANGED notices
      /\ jobs' = [jobs EXCEPT ![runner.sub][runner.item] = @ + 1]
  BY DEF AcceptItem, RunnerAt
<1>. "accepted" \in Dispositions
  BY DEF Dispositions
<1>. QED
  BY <1>1, DisposedKeeps

\* A book and its job are committed with the disposition "accepted" only: the runner never has it to write
LEMMA WriteTerminalKeeps ==
  ASSUME Inv, runner.write # "accepted", WriteTerminal
  PROVE  Inv'
<1>1. runner.pc = "write" /\ Disposed(runner.write) /\ UNCHANGED <<jobs, notices>>
  BY DEF WriteTerminal, RunnerAt
<1>2. runner.write \in Dispositions
  BY DEF Inv, RunnerOK, Runners
<1>. QED
  BY <1>1, <1>2, DisposedKeeps

LEMMA NotifyKeeps ==
  ASSUME Inv, Notify
  PROVE  Inv'
<1>0. runner.sub \in Submissions /\ status[runner.sub] \in {"complete", "gone"} /\ notices[runner.sub] = 0
  BY DEF Notify, RunnerAt, Inv, RunnerOK
<1>1. PICK s \in Submissions : s = runner.sub
  BY <1>0
<1>2. /\ notices' = [notices EXCEPT ![s] = @ + 1] /\ runner' = [runner EXCEPT !.pc = "pick"]
      /\ UNCHANGED <<status, rows, totals, jobs>>
  BY <1>1 DEF Notify
<1>3. Shape' /\ notices'[s] = 1
  BY <1>0, <1>1, <1>2 DEF Inv, Shape
<1>4. RunnerOK'
  BY <1>2 DEF Inv, RunnerOK, Runners
<1>5. SubmissionOK(s)' /\ \A i \in Ordinals[s] : ItemOK(s, i)'
  <2>1. SubmissionOK(s) /\ (\A i \in Ordinals[s] : ItemOK(s, i)) /\ status[s] \in {"complete", "gone"}
    BY <1>0, <1>1 DEF Inv
  <2>2. Jobbed(s)' = Jobbed(s)
    BY <1>2 DEF Jobbed
  <2>. QED
    BY <1>2, <1>3, <2>1, <2>2 DEF SubmissionOK, ItemOK
<1>. QED
  BY <1>2, <1>3, <1>4, <1>5, SubmissionMoves DEF Inv, Shape

\* The runner gets a verdict on the item it has in hand, or starts, or stops
LEMMA VerdictKeeps ==
  ASSUME Inv, NEW pc \in {"create", "attach", "write"}, NEW write \in Dispositions, NEW last \in BOOLEAN,
         runner.pc \in {"classify", "create", "attach", "write"}, Verdict(pc, write, last),
         UNCHANGED <<status, rows, totals, jobs, notices>>
  PROVE  Inv'
<1>1. runner' \in Runners /\ runner'.pc = pc /\ runner'.sub = runner.sub /\ runner'.item = runner.item
  BY DEF Verdict, Inv, RunnerOK, Runners
<1>2. Pending(rows', runner'.sub) = Pending(rows, runner.sub)
  BY <1>1
<1>. QED
  BY <1>1, <1>2, RunnerMoves DEF Inv, RunnerOK

LEMMA DispositionNames == {"accepted", "held", "skipped", "failed"} = Dispositions
BY DEF Dispositions

LEMMA ClassifyKeeps ==
  ASSUME Inv, Classify \/ RollBack
  PROVE  Inv'
<1>1. /\ runner.pc \in {"classify", "create", "attach", "write"} /\ UNCHANGED <<status, rows, totals, jobs, notices>>
      /\ \E pc \in {"create", "attach", "write"}, write \in {"accepted", "held", "skipped", "failed"}, last \in BOOLEAN :
           Verdict(pc, write, last)
  BY DEF Classify, RollBack, RunnerAt
<1>. QED
  BY <1>1, VerdictKeeps, DispositionNames

LEMMA WriteFailsKeeps ==
  ASSUME Inv, WriteFails
  PROVE  Inv'
<1>1. runner.pc = "write" /\ UNCHANGED <<status, rows, totals, jobs, notices>>
  BY DEF WriteFails, RunnerAt
<1>2. CASE runner' = [runner EXCEPT !.pc = "idle"]
  <2>1. runner' \in Runners /\ runner'.pc = "idle"
    BY <1>2 DEF Inv, RunnerOK, Runners
  <2>. QED
    BY <1>1, <2>1, RunnerMoves DEF RunnerOK
<1>3. CASE Verdict("write", "failed", TRUE)
  BY <1>1, <1>3, VerdictKeeps, DispositionNames
<1>. QED
  BY <1>2, <1>3 DEF WriteFails

LEMMA ProcessKeeps ==
  ASSUME Inv, Poll \/ StopRunner \/ CrashRunner \/ Stopped \/ StartRunner
  PROVE  Inv'
<1>1. UNCHANGED <<status, rows, totals, jobs, notices>>
  BY DEF Poll, StopRunner, CrashRunner, Stopped, StartRunner
<1>2. Idle \in Runners /\ [Idle EXCEPT !.phase = "down"] \in Runners /\ Idle.pc = "idle"
  BY DEF Idle, Runners, Dispositions
<1>3. CASE Poll
  BY <1>1, <1>3, DrainAsked, RunnerMoves DEF Poll, Inv, RunnerOK
<1>4. CASE StopRunner
  <2>1. runner' \in Runners /\ runner'.pc = runner.pc /\ runner'.sub = runner.sub /\ runner'.item = runner.item
    BY <1>4 DEF StopRunner, Inv, RunnerOK, Runners
  <2>. QED
    BY <1>1, <2>1, RunnerMoves DEF Inv, RunnerOK
<1>5. CASE CrashRunner \/ Stopped
  <2>1. runner' = [Idle EXCEPT !.phase = "down"] /\ [Idle EXCEPT !.phase = "down"].pc = "idle"
    BY <1>5 DEF CrashRunner, Stopped, Idle
  <2>. QED
    BY <1>1, <1>2, <2>1, RunnerMoves DEF RunnerOK
<1>6. CASE StartRunner
  <2>1. runner' \in Runners /\ runner'.pc \in {"idle", "pick"}
    BY <1>2, <1>6, DrainAsked DEF StartRunner
  <2>. QED
    BY <1>1, <2>1, RunnerMoves DEF RunnerOK
<1>. QED
  BY <1>3, <1>4, <1>5, <1>6

-----------------------------------------------------------------------------
\* The runner has "accepted" to write in no reachable state
Verdicts == runner.write # "accepted"

LEMMA InitInv == SubmissionInit => Inv /\ Verdicts
<1>. SUFFICES ASSUME SubmissionInit PROVE Inv /\ Verdicts
  OBVIOUS
<1>1. runner \in Runners /\ runner.pc = "idle" /\ runner.write # "accepted"
  <2>1. 0 \in Nat
    OBVIOUS
  <2>. QED
    BY <2>1 DEF SubmissionInit, Idle, Runners, Dispositions
<1>2. Shape
  BY DEF SubmissionInit, Shape, Given, Contents
<1>3. ASSUME NEW s \in Submissions PROVE SubmissionOK(s) /\ \A i \in Ordinals[s] : ItemOK(s, i)
  BY DEF SubmissionInit, SubmissionOK, ItemOK, Dispositions
<1>. QED
  BY <1>1, <1>2, <1>3 DEF Inv, RunnerOK, Verdicts

LEMMA VerdictsKeep ==
  ASSUME Inv, Verdicts, [SubmissionNext]_submissionVars
  PROVE  Verdicts'
<1>. runner \in Runners
  BY DEF Inv, RunnerOK
<1>1. \/ runner' = runner
      \/ runner'.write = runner.write
      \/ runner'.write \in {"failed", "held", "skipped"}
  <2>1. CASE RunnerStep
    <3>1. CASE PickSubmission \/ PickItem \/ Classify \/ RollBack
      BY <3>1 DEF PickSubmission, PickItem, Classify, RollBack, Verdict, DrainEnds, Runners
    <3>2. CASE AcceptItem \/ WriteTerminal
      BY <3>2 DEF AcceptItem, WriteTerminal, Disposed, Runners
    <3>3. CASE WriteFails \/ Notify \/ Stopped \/ StartRunner
      BY <3>3 DEF WriteFails, Notify, Stopped, StartRunner, Verdict, Idle, RequestDrain, Runners
    <3>. QED
      BY <2>1, <3>1, <3>2, <3>3 DEF RunnerStep
  <2>2. CASE Poll \/ StopRunner \/ CrashRunner
    BY <2>2 DEF Poll, StopRunner, CrashRunner, RequestDrain, Idle, Runners
  <2>3. ASSUME NEW s \in Submissions, ClientStep(s) PROVE runner' = runner \/ runner'.write = runner.write
    BY <2>3 DEF ClientStep, CreateSubmission, Finalize, DeleteSubmission, PruneDetails, PutItem, RequestDrain, Runners
  <2>4. ASSUME NEW t \in Titles, OthersChange(t) PROVE runner' = runner
    BY <2>4 DEF OthersChange
  <2>. QED
    BY <2>1, <2>2, <2>3, <2>4 DEF SubmissionNext, submissionVars
<1>. QED
  BY <1>1 DEF Verdicts

LEMMA NextKeeps ==
  ASSUME Inv, Verdicts, [SubmissionNext]_submissionVars
  PROVE  Inv'
<1>1. CASE RunnerStep
  BY <1>1, PickSubmissionKeeps, PickItemKeeps, ClassifyKeeps, AcceptKeeps, WriteTerminalKeeps, WriteFailsKeeps,
     NotifyKeeps, ProcessKeeps DEF RunnerStep, Verdicts
<1>2. CASE Poll \/ StopRunner \/ CrashRunner
  BY <1>2, ProcessKeeps
<1>3. ASSUME NEW s \in Submissions, ClientStep(s) PROVE Inv'
  <2>1. CASE DeleteSubmission(s) \/ PruneDetails(s)
    BY <2>1, RowsGo DEF DeleteSubmission, PruneDetails
  <2>. QED
    BY <1>3, <2>1, CreateKeeps, FinalizeKeeps, PutKeeps DEF ClientStep
<1>4. ASSUME NEW t \in Titles, OthersChange(t) PROVE Inv'
  BY <1>4, RunnerMoves DEF OthersChange, Inv, RunnerOK
<1>5. CASE UNCHANGED submissionVars
  BY <1>5, RunnerMoves DEF submissionVars, Inv, RunnerOK
<1>. QED
  BY <1>1, <1>2, <1>3, <1>4, <1>5 DEF SubmissionNext

\* What submissions, their items and the runner satisfy in every reachable state.
THEOREM SubmissionInvHolds == SubmissionSpec => [](Inv /\ Verdicts)
<1>1. Inv /\ Verdicts /\ [SubmissionNext]_submissionVars => Inv' /\ Verdicts'
  BY NextKeeps, VerdictsKeep
<1>. QED
  BY <1>1, InitInv, PTL DEF SubmissionSpec

\* An item is accepted if and only if it was given a job, and it is given one only
\* (ImportSubmissionRunner.acceptItem), for every number of submissions, items, stops, crashes and faults.
THEOREM JobsMatchItems == SubmissionSpec => []OneJobPerItem
<1>1. Inv => OneJobPerItem
  BY DEF Inv, ItemOK, OneJobPerItem
<1>. QED
  BY <1>1, SubmissionInvHolds, PTL

\* A completed submission keeps the count of its jobs, has no item left to do, and its end is announced
\* once at most (ImportSubmissionRunner.maybeComplete), for every number of submissions and items.
THEOREM CompletionAddsUp == SubmissionSpec => []CompletedAddsUp
<1>1. Inv => CompletedAddsUp
  <2>. SUFFICES ASSUME Inv, NEW s \in Submissions
                PROVE  /\ status[s] = "complete" =>
                            /\ totals[s]["accepted"] = Cardinality({i \in Ordinals[s] : jobs[s][i] > 0})
                            /\ \A i \in Ordinals[s] : rows[s][i] \notin {"pending", "foreign"}
                       /\ notices[s] <= 1 /\ (notices[s] = 1 => status[s] \in {"complete", "gone"})
    BY DEF CompletedAddsUp
  <2>1. SubmissionOK(s) /\ \A i \in Ordinals[s] : ItemOK(s, i)
    BY DEF Inv
  <2>2. status[s] = "complete" => totals[s]["accepted"] = Cardinality({i \in Ordinals[s] : jobs[s][i] > 0})
    BY <2>1 DEF SubmissionOK, Jobbed
  <2>. QED
    BY <2>1, <2>2 DEF SubmissionOK, ItemOK
<1>. QED
  BY <1>1, SubmissionInvHolds, PTL
=============================================================================

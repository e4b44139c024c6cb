------------------------------ MODULE JobQueue ------------------------------
(***************************************************************************)
(* What the import queue promises, whatever its worker does with drains,   *)
(* nudges, timers, failing queries, stops and restarts: jobs are served    *)
(* one at a time, the oldest first; a job whose service is cut off is      *)
(* served again or given up.  ImportPipeline relies on this, and           *)
(* ImportQueueWorker implements it.                                        *)
(***************************************************************************)
EXTENDS Integers

CONSTANT Jobs   \* the ids of import_jobs, in the order of createdAt

VARIABLE served   \* how far each job has got

States == {"absent", "pending", "serving", "interrupted", "ended"}

Submit(j) == served[j] = "absent" /\ served' = [served EXCEPT ![j] = "pending"]

Serve(j) ==
  /\ served[j] = "pending"
  /\ \A k \in Jobs : served[k] # "serving" /\ (served[k] = "pending" => j <= k)
  /\ served' = [served EXCEPT ![j] = "serving"]

End(j) == served[j] = "serving" /\ served' = [served EXCEPT ![j] = "ended"]

Interrupt(j) == served[j] = "serving" /\ served' = [served EXCEPT ![j] = "interrupted"]

Resolve(j) ==
  /\ served[j] = "interrupted"
  /\ \E s \in {"pending", "ended"} : served' = [served EXCEPT ![j] = s]

Init == served = [j \in Jobs |-> "absent"]
Next == \E j \in Jobs : Submit(j) \/ Serve(j) \/ End(j) \/ Interrupt(j) \/ Resolve(j)
Spec == Init /\ [][Next]_served
=============================================================================

---------------------------- MODULE MCMergeQueue ----------------------------
(***************************************************************************)
(* MergeQueue on small instances.                                          *)
(***************************************************************************)
EXTENDS MergeQueue

\* Bound: three requests by the operator, or one beside one of an import, a crash and a fault
mergeBudgets == {[manual |-> 3, auto |-> 0, crashes |-> 0, faults |-> 0],
                 [manual |-> 1, auto |-> 1, crashes |-> 1, faults |-> 1]}
=============================================================================

-------------------------- MODULE MCImportPipeline --------------------------
(***************************************************************************)
(* ImportPipeline on small instances.                                      *)
(***************************************************************************)
EXTENDS ImportPipeline

CONSTANTS d1, d2, b1

OneBook == [d \in Downloads |-> b1]

\* Bound: two requests of any kind
TwoRequests == used.cancel + used.review + used.retry + used.delete <= 2
=============================================================================

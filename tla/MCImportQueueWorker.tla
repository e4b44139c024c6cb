------------------------ MODULE MCImportQueueWorker ------------------------
(***************************************************************************)
(* ImportQueueWorker on small instances.                                   *)
(***************************************************************************)
EXTENDS ImportQueueWorker

CONSTANTS r1, r2

TwoDrains == {r1, r2}
ThreeJobs == 1 .. 3
=============================================================================

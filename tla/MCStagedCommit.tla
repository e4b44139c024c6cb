--------------------------- MODULE MCStagedCommit ---------------------------
(***************************************************************************)
(* StagedCommit on small instances.                                        *)
(***************************************************************************)
EXTENDS StagedCommit

CONSTANTS a, b

TwoNames == {a, b}
=============================================================================

-------------------------- MODULE MCReplaceDownload --------------------------
(***************************************************************************)
(* ReplaceDownload on a small instance.                                    *)
(***************************************************************************)
EXTENDS ReplaceDownload

CONSTANTS d1, d2, b1

OneBook == [d \in Downloads |-> b1]
OfOneBook == [r \in Releases |-> b1]
=============================================================================

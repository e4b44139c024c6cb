--------------------------- MODULE MCBookFolders ---------------------------
(***************************************************************************)
(* BookFolders on a small instance: two books, two folders under the first *)
(* root and one under the second, and two calls at once.                   *)
(***************************************************************************)
EXTENDS BookFolders

CONSTANTS o1, o2, r1, r2

TwoBooks == {1, 2}
ThreeFolders == {11, 12, 13}
AllKeys == TwoBooks \cup ThreeFolders \cup {0}
Volumes == [f \in ThreeFolders |-> IF f = 13 THEN r2 ELSE r1]

\* Both books move between the first two folders; the second is imported again, into the third
Renames == [b \in TwoBooks |-> {11, 12}]
Imports == [b \in TwoBooks |-> IF b = 1 THEN {} ELSE {13}]

Calls2 == {o1, o2}
=============================================================================

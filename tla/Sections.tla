------------------------------ MODULE Sections ------------------------------
(***************************************************************************)
(* What a keyed lock promises: a call runs inside the sections of the keys *)
(* it has been given, and no key is given to two calls at once.            *)
(***************************************************************************)
CONSTANTS Ops, Keys

VARIABLE inside   \* the keys each call has been given

Enter(o, k) ==
  /\ \A p \in Ops : k \notin inside[p]
  /\ inside' = [inside EXCEPT ![o] = @ \cup {k}]

Leave(o) == \E K \in SUBSET inside[o] : inside' = [inside EXCEPT ![o] = @ \ K]

Init == inside = [o \in Ops |-> {}]
Next == \E o \in Ops : Leave(o) \/ \E k \in Keys : Enter(o, k)
Spec == Init /\ [][Next]_inside
=============================================================================

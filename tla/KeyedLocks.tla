----------------------------- MODULE KeyedLocks -----------------------------
(***************************************************************************)
(* The keyed locks of the process: a map from key to the tail of a chain   *)
(* of promises (withPathWriteLock, withBookAdmissionLock and the queue of  *)
(* withLibraryRootWrite).  Whoever asks for a key waits for the tail it    *)
(* found and becomes the tail; several keys are taken one after the other, *)
(* in ascending order.  The locks are not re-entrant.                      *)
(***************************************************************************)
EXTENDS Integers

CONSTANTS
  Ops,     \* the calls that may be in progress at once
  Keys,    \* book ids and canonical paths
  None

ASSUME LockAssumption == Keys \subseteq Nat /\ None \notin Ops \cup Keys

VARIABLES
  tail,    \* chains: the call whose slot is the last of a key, if any
  lock     \* of a call: the key it waits for, the keys to come, whom it waits behind, what it holds

lockVars == <<tail, lock>>

NoLock == [want |-> None, need |-> {}, prev |-> None, held |-> {}]
LockStates ==
  {l \in [want : Keys \cup {None}, need : SUBSET Keys, prev : Ops \cup {None}, held : SUBSET Keys] :
     l.want = None => l.need = {} /\ l.prev = None}

First(K) == CHOOSE k \in K : \A l \in K : k <= l

\* The call does not wait, so it runs
Runs(o) == lock[o].want = None

Enqueue(o, k, need, held) ==
  /\ lock' = [lock EXCEPT ![o] = [want |-> k, need |-> need, prev |-> tail[k], held |-> held]]
  /\ tail' = [tail EXCEPT ![k] = o]

\* mutant: the keys are asked for in any order
RequestUnsorted(o, K) ==
  Runs(o) /\ \E k \in K : Enqueue(o, k, K \ {k}, lock[o].held)

\* with...Locks(K, ...): the first key of the sorted set
Request(o, K) == Runs(o) /\ K # {} /\ Enqueue(o, First(K), K \ {First(K)}, lock[o].held)

\* A free key is taken in the turn that asks for it
Take(o, k) ==
  /\ Runs(o) /\ tail[k] = None
  /\ lock' = [lock EXCEPT ![o].held = @ \cup {k}]
  /\ tail' = [tail EXCEPT ![k] = o]

\* mutant: the section begins with the first key of several
GrantedFirst(o) ==
  /\ ~Runs(o) /\ lock[o].prev = None
  /\ lock' = [lock EXCEPT ![o].want = None, ![o].held = @ \cup {lock[o].want}]
  /\ UNCHANGED tail

\* The slot it waited behind has settled: the next key, or the section itself
Granted(o) ==
  /\ ~Runs(o) /\ lock[o].prev = None
  /\ LET held == lock[o].held \cup {lock[o].want}
         need == lock[o].need
     IN  IF need # {} THEN Enqueue(o, First(need), need \ {First(need)}, held)
         ELSE /\ lock' = [lock EXCEPT ![o].want = None, ![o].held = held]
              /\ UNCHANGED tail

\* mutant: the entry of a key is deleted by whoever leaves it
Unchain(o, K) == [k \in Keys |-> IF k \in K THEN None ELSE tail[k]]

\* A slot deletes the entry of its key only while it still is the tail
Evict(o, K) == [k \in Keys |-> IF k \in K /\ tail[k] = o THEN None ELSE tail[k]]

\* The call settles, whether it failed or not, and with it whoever waits behind it goes on
Release(o, K) ==
  /\ Runs(o)
  /\ tail' = Evict(o, K)
  /\ lock' = [p \in Ops |->
                IF p = o THEN [lock[p] EXCEPT !.held = @ \ K]
                ELSE IF lock[p].prev = o /\ lock[p].want \in K THEN [lock[p] EXCEPT !.prev = None]
                ELSE lock[p]]

-----------------------------------------------------------------------------
LockInit == tail = [k \in Keys |-> None] /\ lock = [o \in Ops |-> NoLock]

\* What a caller may do: it never asks for a key it holds, and gives back only what it holds
LockNext == \E o \in Ops :
  \/ Granted(o)
  \/ \E K \in SUBSET Keys : K \cap lock[o].held = {} /\ Request(o, K)
  \/ \E k \in Keys : k \notin lock[o].held /\ Take(o, k)
  \/ \E K \in SUBSET lock[o].held : Release(o, K)

LockSpec == LockInit /\ [][LockNext]_lockVars

\* The chains implement critical sections: two calls never hold one key, whatever they ask for and in
\* whatever order they come and go.
Exclusion == INSTANCE Sections WITH inside <- [o \in Ops |-> lock[o].held]
LocksExclude == Exclusion!Spec
=============================================================================

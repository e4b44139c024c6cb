-------------------------- MODULE BookFoldersProofs --------------------------
(***************************************************************************)
(* The chains of keyed locks implement critical sections.  The calls that  *)
(* move folders use them as they are meant to be used, so no key is held   *)
(* twice; the gate keeps the library root and the commits under it apart;  *)
(* and no call takes from a folder the files of a book it was not made     *)
(* for.  For every number of books, folders, roots and calls.              *)
(***************************************************************************)
EXTENDS BookFolders, WellFoundedInduction, TLAPS

-----------------------------------------------------------------------------
(* The keyed locks, whoever asks for them: any calls and any keys *)

\* A set of keys has a first one.
LEMMA FirstKey ==
  ASSUME NEW K, K \subseteq Nat, K # {}
  PROVE  First(K) \in K
<1>. DEFINE R == {ss \in Nat \X Nat : ss[1] < ss[2]}
<1>1. R = OpToRel(<, Nat)
  BY Zenon DEF OpToRel
<1>2. IsWellFoundedOn(R, Nat)
  BY <1>1, NatLessThanWellFounded
<1>3. PICK k \in K : \A l \in K : ~(<<l, k>> \in R)
  <2>. HIDE DEF R
  <2>. QED BY <1>2, WFMin
<1>4. \A l \in K : k <= l
  <2>1. TAKE l \in K
  <2>2. <<l, k>> \in Nat \X Nat /\ <<l, k>>[1] = l /\ <<l, k>>[2] = k
    OBVIOUS
  <2>3. ~(l < k)
    BY <1>3, <2>2, Zenon
  <2>. QED
    BY <2>3
<1>. QED
  BY <1>4 DEF First

-----------------------------------------------------------------------------
LockTypeOK == tail \in [Keys -> Ops \cup {None}] /\ lock \in [Ops -> LockStates]

\* A call asks for a key once
Own(o) ==
  /\ lock[o].want \notin lock[o].need \cup lock[o].held
  /\ lock[o].need \cap lock[o].held = {}

\* The call has a slot in the chain of the key; and nobody is before it
Member(o, k) == lock[o].want = k \/ k \in lock[o].held
Head(o, k) == k \in lock[o].held \/ (lock[o].want = k /\ lock[o].prev = None)
Behind(o, p, k) == lock[o].want = k /\ lock[o].prev = p /\ p # None

\* The slots of a key in the order in which they were taken: whoever waits comes right after the one
\* it waits behind, a head is the first, and the tail the last
Ranked(k, r) ==
  /\ \A o, p \in Ops : Member(o, k) /\ Member(p, k) /\ o # p => r[o] # r[p]
  /\ \A o, p \in Ops : Behind(o, p, k) =>
        /\ Member(p, k) /\ r[p] < r[o]
        /\ \A q \in Ops : Member(q, k) => r[q] <= r[p] \/ r[o] <= r[q]
  /\ \A o, p \in Ops : Head(o, k) /\ Member(p, k) => r[o] <= r[p]
  /\ tail[k] = None => \A o \in Ops : ~Member(o, k)
  /\ tail[k] # None => Member(tail[k], k) /\ \A o \in Ops : Member(o, k) => r[o] <= r[tail[k]]

Chained(k) == \E r \in [Ops -> Nat] : Ranked(k, r)

LockInv ==
  /\ LockTypeOK
  /\ \A o \in Ops : Own(o)
  /\ \A k \in Keys : Chained(k)

\* A key is held by one call at most.
LEMMA OneHolder ==
  ASSUME LockInv, NEW k \in Keys, NEW o \in Ops, NEW p \in Ops, Head(o, k), Head(p, k)
  PROVE  o = p
<1>1. PICK r \in [Ops -> Nat] : Ranked(k, r)
  BY DEF LockInv, Chained
<1>2. Member(o, k) /\ Member(p, k)
  BY DEF Member, Head
<1>3. r[o] = r[p]
  BY <1>1, <1>2 DEF Ranked
<1>. QED
  BY <1>1, <1>2, <1>3 DEF Ranked

\* A chain is as it was if its tail, and the place of every call in it, are.
LEMMA ChainUntouched ==
  ASSUME NEW k \in Keys, Chained(k), tail'[k] = tail[k],
         \A o \in Ops : (Member(o, k)' <=> Member(o, k)) /\ (Head(o, k)' => Head(o, k)),
         \A o, p \in Ops : Behind(o, p, k)' => Behind(o, p, k),
         tail[k] \in Ops \cup {None}
  PROVE  Chained(k)'
<1>1. PICK r \in [Ops -> Nat] : Ranked(k, r)
  BY DEF Chained
<1>2. Ranked(k, r)'
  <2>1. \A o \in Ops : (Member(o, k)' <=> Member(o, k)) /\ (Head(o, k)' => Head(o, k))
    OBVIOUS
  <2>2. tail[k] # None => (Member(tail[k], k)' <=> Member(tail[k], k))
    BY <2>1 DEF Member
  <2>3. /\ \A o, p \in Ops : Member(o, k)' /\ Member(p, k)' /\ o # p => r[o] # r[p]
        /\ \A o, p \in Ops : Head(o, k)' /\ Member(p, k)' => r[o] <= r[p]
        /\ tail'[k] = None => \A o \in Ops : ~Member(o, k)'
        /\ tail'[k] # None => Member(tail[k], k)' /\ \A o \in Ops : Member(o, k)' => r[o] <= r[tail'[k]]
    BY <1>1, <2>1, <2>2 DEF Ranked
  <2>4. \A o, p \in Ops : Behind(o, p, k)' =>
          /\ Member(p, k)' /\ r[p] < r[o]
          /\ \A q \in Ops : Member(q, k)' => r[q] <= r[p] \/ r[o] <= r[q]
    BY <1>1, <2>1 DEF Ranked
  <2>. QED
    BY <2>3, <2>4 DEF Ranked
<1>. QED
  BY <1>2 DEF Chained

\* Whoever enqueues for a key it has no slot of becomes the last of its chain.
LEMMA ChainExtended ==
  ASSUME LockInv, LockTypeOK', NEW k \in Keys, NEW o \in Ops, ~Member(o, k),
         NEW need, NEW held, k \notin held, Enqueue(o, k, need, held)
  PROVE  Chained(k)'
<1>1. PICK r \in [Ops -> Nat] : Ranked(k, r)
  BY DEF LockInv, Chained
<1>. DEFINE t == tail[k]
<1>2. /\ lock' = [lock EXCEPT ![o] = [want |-> k, need |-> need, prev |-> t, held |-> held]]
      /\ tail' = [tail EXCEPT ![k] = o]
  BY DEF Enqueue
<1>3. t \in Ops \cup {None} /\ None \notin Ops /\ k # None
  BY LockAssumption DEF LockInv, LockTypeOK
<1>4. PICK R \in [Ops -> Nat] : /\ \A p \in Ops \ {o} : R[p] = r[p]
                               /\ R[o] = IF t = None THEN 0 ELSE r[t] + 1
  <2>. DEFINE S == [r EXCEPT ![o] = IF t = None THEN 0 ELSE r[t] + 1]
  <2>. S \in [Ops -> Nat] /\ S[o] = (IF t = None THEN 0 ELSE r[t] + 1) /\ \A p \in Ops \ {o} : S[p] = r[p]
    BY <1>1, <1>3
  <2>. QED
    OBVIOUS
<1>6. \A p \in Ops \ {o} : /\ Member(p, k)' <=> Member(p, k)
                           /\ Head(p, k)' <=> Head(p, k)
                           /\ \A q \in Ops : Behind(p, q, k)' <=> Behind(p, q, k)
  BY <1>2 DEF LockInv, LockTypeOK, Member, Head, Behind
<1>7. /\ Member(o, k)' /\ (Head(o, k)' <=> t = None)
      /\ \A q \in Ops : Behind(o, q, k)' <=> q = t
      /\ tail'[k] = o
  BY <1>2, <1>3 DEF LockInv, LockTypeOK, Member, Head, Behind
<1>8. \A p \in Ops : Member(p, k) => /\ p # o /\ t # None /\ r[p] <= r[t] /\ R[p] = r[p] /\ R[p] < R[o]
  BY <1>1, <1>3, <1>4 DEF Ranked
<1>9. \A p \in Ops \ {o} : ~Behind(p, o, k)
  BY <1>1 DEF Ranked
<1>10. t # None => Member(t, k) /\ t # o /\ t \in Ops
  BY <1>1, <1>3 DEF Ranked
<1>11. \A p, q \in Ops : Member(p, k)' /\ Member(q, k)' /\ p # q => R[p] # R[q]
  BY <1>1, <1>4, <1>6, <1>8 DEF Ranked
<1>12. \A p, q \in Ops : Behind(p, q, k)' =>
         /\ Member(q, k)' /\ R[q] < R[p]
         /\ \A s \in Ops : Member(s, k)' => R[s] <= R[q] \/ R[p] <= R[s]
  <2>. SUFFICES ASSUME NEW p \in Ops, NEW q \in Ops, Behind(p, q, k)'
                PROVE  /\ Member(q, k)' /\ R[q] < R[p]
                       /\ \A s \in Ops : Member(s, k)' => R[s] <= R[q] \/ R[p] <= R[s]
    OBVIOUS
  <2>1. CASE p = o
    <3>1. q = t /\ t # None /\ Member(t, k) /\ t # o
      BY <2>1, <1>7, <1>3, <1>10
    <3>2. Member(q, k)' /\ R[q] < R[p]
      BY <2>1, <3>1, <1>6, <1>8
    <3>3. \A s \in Ops : Member(s, k)' => R[s] <= R[q] \/ R[p] <= R[s]
      <4>. SUFFICES ASSUME NEW s \in Ops, Member(s, k)' PROVE R[s] <= R[q] \/ R[p] <= R[s]
        OBVIOUS
      <4>1. CASE s = o
        BY <4>1, <2>1, <1>4
      <4>2. CASE s # o
        BY <4>2, <3>1, <1>6, <1>8
      <4>. QED
        BY <4>1, <4>2
    <3>. QED
      BY <3>2, <3>3
  <2>2. CASE p # o
    <3>1. Behind(p, q, k) /\ q # o /\ Member(p, k) /\ Member(q, k) /\ r[q] < r[p]
      BY <2>2, <1>6, <1>9, <1>1 DEF Ranked, Behind, Member
    <3>2. Member(q, k)' /\ R[q] < R[p]
      BY <2>2, <3>1, <1>6, <1>4
    <3>3. \A s \in Ops : Member(s, k)' => R[s] <= R[q] \/ R[p] <= R[s]
      <4>. SUFFICES ASSUME NEW s \in Ops, Member(s, k)' PROVE R[s] <= R[q] \/ R[p] <= R[s]
        OBVIOUS
      <4>1. CASE s = o
        <5>1. R[p] < R[o] /\ R[p] \in Nat /\ R[o] \in Nat
          BY <3>1, <1>8, <1>4
        <5>. QED
          BY <4>1, <5>1
      <4>2. CASE s # o
        BY <4>2, <2>2, <3>1, <1>6, <1>4, <1>1 DEF Ranked
      <4>. QED
        BY <4>1, <4>2
    <3>. QED
      BY <3>2, <3>3
  <2>. QED
    BY <2>1, <2>2
<1>13. \A p, q \in Ops : Head(p, k)' /\ Member(q, k)' => R[p] <= R[q]
  <2>. SUFFICES ASSUME NEW p \in Ops, NEW q \in Ops, Head(p, k)', Member(q, k)' PROVE R[p] <= R[q]
    OBVIOUS
  <2>1. CASE p = o
    BY <2>1, <1>4, <1>6, <1>7, <1>8
  <2>2. CASE p # o
    <3>1. Head(p, k) /\ Member(p, k)
      BY <2>2, <1>6 DEF Head, Member
    <3>2. CASE q = o
      <4>1. R[p] < R[o] /\ R[p] \in Nat /\ R[o] \in Nat
        BY <3>1, <1>8, <1>4
      <4>. QED
        BY <4>1, <3>2
    <3>3. CASE q # o
      BY <2>2, <3>3, <3>1, <1>6, <1>4, <1>1 DEF Ranked
    <3>. QED
      BY <3>2, <3>3
  <2>. QED
    BY <2>1, <2>2
<1>14. \A p \in Ops : Member(p, k)' => R[p] <= R[o]
  BY <1>4, <1>6, <1>8
<1>15. Ranked(k, R)'
  BY <1>3, <1>7, <1>11, <1>12, <1>13, <1>14 DEF Ranked
<1>. QED
  BY <1>4, <1>15 DEF Chained

-----------------------------------------------------------------------------
\* Every operation of the locks keeps the invariant, for a caller that asks only for keys it does not
\* hold, and gives back only keys it holds.

LEMMA EnqueueKeeps ==
  ASSUME LockInv, NEW o \in Ops, NEW k \in Keys, NEW need \in SUBSET Keys, NEW held \in SUBSET Keys,
         ~Member(o, k), k \notin need \cup held, need \cap held = {},
         \A j \in Keys : Head(o, j) <=> j \in held,
         lock[o].prev = None,
         Enqueue(o, k, need, held)
  PROVE  LockInv'
<1>. USE LockAssumption
<1>1. /\ lock' = [lock EXCEPT ![o] = [want |-> k, need |-> need, prev |-> tail[k], held |-> held]]
      /\ tail' = [tail EXCEPT ![k] = o]
  BY DEF Enqueue
<1>2. LockTypeOK'
  BY <1>1 DEF LockInv, LockTypeOK, LockStates
<1>3. \A p \in Ops : Own(p)'
  BY <1>1 DEF LockInv, LockTypeOK, Own
<1>4. ASSUME NEW j \in Keys PROVE Chained(j)'
  <2>1. CASE j = k
    BY <1>2, <2>1, ChainExtended
  <2>2. CASE j # k
    <3>1. tail'[j] = tail[j] /\ tail[j] \in Ops \cup {None}
      BY <1>1, <2>2 DEF LockInv, LockTypeOK
    <3>2. ASSUME NEW p \in Ops
          PROVE  /\ (Member(p, j)' <=> Member(p, j)) /\ (Head(p, j)' => Head(p, j))
                 /\ \A q \in Ops : Behind(p, q, j)' => Behind(p, q, j)
      <4>1. CASE p = o
        <5>1. lock'[o] = [want |-> k, need |-> need, prev |-> tail[k], held |-> held]
          BY <1>1 DEF LockInv, LockTypeOK
        <5>2. (Member(o, j)' <=> j \in held) /\ (Head(o, j)' <=> j \in held) /\ \A q \in Ops : ~Behind(o, q, j)'
          BY <5>1, <2>2 DEF Member, Head, Behind
        <5>3. (Member(o, j) <=> Head(o, j)) /\ (Head(o, j) <=> j \in held)
          BY DEF Member, Head
        <5>. QED
          BY <4>1, <5>2, <5>3
      <4>2. CASE p # o
        BY <4>2, <1>1 DEF LockInv, LockTypeOK, Member, Head, Behind
      <4>. QED
        BY <4>1, <4>2
    <3>3. Chained(j)
      BY DEF LockInv
    <3>. QED
      BY <3>1, <3>2, <3>3, ChainUntouched
  <2>. QED
    BY <2>1, <2>2
<1>. QED
  BY <1>2, <1>3, <1>4 DEF LockInv

LEMMA RequestKeeps ==
  ASSUME LockInv, NEW o \in Ops, NEW K \in SUBSET Keys, K \cap lock[o].held = {}, Request(o, K)
  PROVE  LockInv' /\ \A p \in Ops : lock'[p].held = lock[p].held
<1>. DEFINE k == First(K)
<1>1. k \in K /\ lock[o].want = None /\ Enqueue(o, k, K \ {k}, lock[o].held)
  BY FirstKey, LockAssumption DEF Request, Runs
<1>2. lock[o] \in LockStates /\ None \notin Keys
  BY LockAssumption DEF LockInv, LockTypeOK
<1>3. lock[o].held \in SUBSET Keys /\ lock[o].prev = None
  BY <1>1, <1>2 DEF LockStates
<1>4. ~Member(o, k) /\ \A j \in Keys : Head(o, j) <=> j \in lock[o].held
  BY <1>1, <1>2 DEF Member, Head
<1>5. LockInv'
  <2>. HIDE DEF k
  <2>. QED
    BY <1>1, <1>3, <1>4, EnqueueKeeps
<1>6. \A p \in Ops : lock'[p].held = lock[p].held
  BY <1>1 DEF Enqueue, LockInv, LockTypeOK
<1>. QED
  BY <1>5, <1>6

LEMMA GrantedKeeps ==
  ASSUME LockInv, NEW o \in Ops, Granted(o)
  PROVE  /\ LockInv'
         /\ lock[o].want \in Keys /\ Head(o, lock[o].want)
         /\ lock'[o].held = lock[o].held \cup {lock[o].want}
         /\ \A p \in Ops \ {o} : lock'[p].held = lock[p].held
<1>. USE LockAssumption
<1>. DEFINE w == lock[o].want  need == lock[o].need  held == lock[o].held \cup {w}  k == First(need)
<1>1. lock[o] \in LockStates /\ w # None /\ lock[o].prev = None
  BY DEF Granted, Runs, LockInv, LockTypeOK
<1>2. w \in Keys /\ need \in SUBSET Keys /\ held \in SUBSET Keys /\ Head(o, w)
  BY <1>1 DEF LockStates, Head
<1>3. need \cap held = {} /\ \A j \in Keys : Head(o, j) <=> j \in held
  BY <1>1, <1>2 DEF LockInv, Own, Head
<1>4. CASE need # {}
  <2>1. k \in need /\ Enqueue(o, k, need \ {k}, held)
    BY <1>2, <1>4, FirstKey DEF Granted
  <2>2. ~Member(o, k)
    BY <2>1, <1>3 DEF Member
  <2>3. LockInv'
    <3>. HIDE DEF k, held, need
    <3>1. k \in Keys /\ need \ {k} \in SUBSET Keys /\ k \notin (need \ {k}) \cup held /\ (need \ {k}) \cap held = {}
      BY <1>2, <1>3, <2>1
    <3>. QED
      BY <1>1, <1>2, <1>3, <2>1, <2>2, <3>1, EnqueueKeeps
  <2>4. lock'[o].held = held /\ \A p \in Ops \ {o} : lock'[p].held = lock[p].held
    BY <2>1 DEF Enqueue, LockInv, LockTypeOK
  <2>. QED
    BY <1>2, <2>3, <2>4
<1>5. CASE need = {}
  <2>1. /\ lock' = [lock EXCEPT ![o].want = None, ![o].held = held]
        /\ tail' = tail
    BY <1>5 DEF Granted
  <2>2. /\ lock'[o] = [want |-> None, need |-> {}, prev |-> None, held |-> held]
        /\ \A p \in Ops \ {o} : lock'[p] = lock[p]
    BY <2>1, <1>1, <1>5 DEF LockInv, LockTypeOK, LockStates
  <2>3. LockTypeOK'
    BY <2>1, <2>2, <1>2 DEF LockInv, LockTypeOK, LockStates
  <2>4. \A p \in Ops : Own(p)'
    BY <2>2, <1>2 DEF LockInv, Own
  <2>5. ASSUME NEW j \in Keys PROVE Chained(j)'
    <3>1. ASSUME NEW p \in Ops
          PROVE  /\ (Member(p, j)' <=> Member(p, j)) /\ (Head(p, j)' => Head(p, j))
                 /\ \A q \in Ops : Behind(p, q, j)' => Behind(p, q, j)
      BY <2>2, <1>1, <1>2, <1>3 DEF Member, Head, Behind
    <3>2. Chained(j) /\ tail'[j] = tail[j] /\ tail[j] \in Ops \cup {None}
      BY <2>1 DEF LockInv, LockTypeOK
    <3>. QED
      BY <3>1, <3>2, ChainUntouched
  <2>. QED
    BY <1>2, <2>2, <2>3, <2>4, <2>5 DEF LockInv
<1>. QED
  BY <1>4, <1>5

\* A free key has no holder, and is held from now on.
LEMMA TakeKeeps ==
  ASSUME LockInv, NEW o \in Ops, NEW k \in Keys, k \notin lock[o].held, Take(o, k)
  PROVE  /\ LockInv'
         /\ \A p \in Ops : k \notin lock[p].held
         /\ lock'[o].held = lock[o].held \cup {k}
         /\ \A p \in Ops \ {o} : lock'[p].held = lock[p].held
<1>. USE LockAssumption
<1>1. /\ lock[o].want = None /\ tail[k] = None
      /\ lock' = [lock EXCEPT ![o].held = @ \cup {k}]
      /\ tail' = [tail EXCEPT ![k] = o]
  BY DEF Take, Runs
<1>2. lock[o] \in LockStates /\ lock[o].prev = None /\ lock[o].need = {}
  BY <1>1 DEF LockInv, LockTypeOK, LockStates
<1>3. /\ lock'[o] = [want |-> None, need |-> {}, prev |-> None, held |-> lock[o].held \cup {k}]
      /\ \A p \in Ops \ {o} : lock'[p] = lock[p]
  BY <1>1, <1>2 DEF LockInv, LockTypeOK, LockStates
<1>4. LockTypeOK'
  BY <1>1, <1>2, <1>3 DEF LockInv, LockTypeOK, LockStates
<1>5. \A p \in Ops : Own(p)'
  <2>1. Own(o)'
    BY <1>2, <1>3 DEF LockStates, Own
  <2>2. \A p \in Ops \ {o} : Own(p)'
    BY <1>3 DEF LockInv, Own
  <2>. QED
    BY <2>1, <2>2
<1>6. PICK r \in [Ops -> Nat] : Ranked(k, r)
  BY DEF LockInv, Chained
<1>7. \A p \in Ops : ~Member(p, k)
  BY <1>1, <1>6 DEF Ranked
<1>8. \A p \in Ops : Member(p, k)' => p = o
  BY <1>3, <1>7 DEF Member
<1>9. Member(o, k)' /\ \A p, q \in Ops : ~Behind(p, q, k)'
  BY <1>3, <1>7 DEF Member, Behind
<1>10. Ranked(k, r)'
  <2>1. tail'[k] = o /\ o # None
    BY <1>1 DEF LockInv, LockTypeOK
  <2>2. \A p \in Ops : Member(p, k)' => r[p] <= r[o]
    BY <1>8
  <2>3. \A p, q \in Ops : Head(p, k)' /\ Member(q, k)' => r[p] <= r[q]
    BY <1>8 DEF Head, Member
  <2>. QED
    BY <2>1, <2>2, <2>3, <1>8, <1>9 DEF Ranked
<1>11. ASSUME NEW j \in Keys, j # k PROVE Chained(j)'
  <2>1. ASSUME NEW p \in Ops
        PROVE  /\ (Member(p, j)' <=> Member(p, j)) /\ (Head(p, j)' => Head(p, j))
               /\ \A q \in Ops : Behind(p, q, j)' => Behind(p, q, j)
    BY <1>1, <1>2, <1>3, <1>11 DEF Member, Head, Behind
  <2>2. Chained(j) /\ tail'[j] = tail[j] /\ tail[j] \in Ops \cup {None}
    BY <1>1, <1>11 DEF LockInv, LockTypeOK
  <2>. QED
    BY <2>1, <2>2, ChainUntouched
<1>12. LockInv'
  BY <1>4, <1>5, <1>6, <1>10, <1>11 DEF LockInv, Chained
<1>. QED
  BY <1>3, <1>7, <1>12 DEF Member

LEMMA ReleaseKeeps ==
  ASSUME LockInv, NEW o \in Ops, NEW K \in SUBSET lock[o].held, Release(o, K)
  PROVE  /\ LockInv'
         /\ lock'[o].held = lock[o].held \ K
         /\ \A p \in Ops \ {o} : lock'[p].held = lock[p].held
<1>. USE LockAssumption
<1>1. /\ lock[o].want = None /\ lock[o] \in LockStates
      /\ tail' = [k \in Keys |-> IF k \in K /\ tail[k] = o THEN None ELSE tail[k]]
      /\ lock' = [p \in Ops |->
                    IF p = o THEN [lock[p] EXCEPT !.held = @ \ K]
                    ELSE IF lock[p].prev = o /\ lock[p].want \in K THEN [lock[p] EXCEPT !.prev = None]
                    ELSE lock[p]]
  BY DEF Release, Runs, Evict, LockInv, LockTypeOK
<1>2. lock'[o] = [want |-> None, need |-> lock[o].need, prev |-> lock[o].prev, held |-> lock[o].held \ K]
  BY <1>1 DEF LockStates
<1>3. ASSUME NEW p \in Ops \ {o}
      PROVE  /\ lock'[p].want = lock[p].want /\ lock'[p].need = lock[p].need /\ lock'[p].held = lock[p].held
             /\ lock'[p].prev = IF lock[p].prev = o /\ lock[p].want \in K THEN None ELSE lock[p].prev
             /\ lock'[p] \in LockStates
  <2>1. lock[p] \in LockStates /\ K \subseteq Keys
    BY <1>1 DEF LockInv, LockTypeOK, LockStates
  <2>. QED
    BY <1>1, <2>1 DEF LockStates
<1>4. LockTypeOK'
  <2>1. lock'[o] \in LockStates
    BY <1>1, <1>2 DEF LockStates
  <2>2. \A p \in Ops : lock'[p] \in LockStates
    BY <1>3, <2>1
  <2>3. lock' \in [Ops -> LockStates]
    BY <1>1, <2>2, Zenon
  <2>4. tail' \in [Keys -> Ops \cup {None}]
    BY <1>1 DEF LockInv, LockTypeOK
  <2>. QED
    BY <2>3, <2>4 DEF LockTypeOK
<1>5. \A p \in Ops : Own(p)'
  BY <1>1, <1>2, <1>3 DEF LockInv, Own
<1>6. ASSUME NEW k \in Keys \ K PROVE Chained(k)'
  <2>1. ASSUME NEW p \in Ops
        PROVE  /\ (Member(p, k)' <=> Member(p, k)) /\ (Head(p, k)' => Head(p, k))
               /\ \A q \in Ops : Behind(p, q, k)' => Behind(p, q, k)
    BY <1>1, <1>2, <1>3 DEF Member, Head, Behind
  <2>2. Chained(k) /\ tail'[k] = tail[k] /\ tail[k] \in Ops \cup {None}
    BY <1>1 DEF LockInv, LockTypeOK
  <2>. QED
    BY <2>1, <2>2, ChainUntouched
<1>7. ASSUME NEW k \in Keys, k \in K PROVE Chained(k)'
  <2>1. PICK r \in [Ops -> Nat] : Ranked(k, r)
    BY DEF LockInv, Chained
  <2>2. Head(o, k) /\ Member(o, k) /\ \A p \in Ops : Member(p, k) => r[o] <= r[p]
    BY <1>7, <2>1 DEF Ranked, Head, Member
  <2>3. ~Member(o, k)' /\ ~Head(o, k)' /\ \A p \in Ops : ~Behind(o, p, k)'
    BY <1>2, <1>7 DEF Member, Head, Behind
  <2>4. \A p \in Ops : Member(p, k)' <=> p # o /\ Member(p, k)
    BY <2>3, <1>3 DEF Member
  <2>5. \A p, q \in Ops : Behind(p, q, k)' => p # o /\ q # o /\ Behind(p, q, k)
    BY <2>3, <1>3, <1>7 DEF Behind
  <2>6. \A p \in Ops : Head(p, k)' => p # o /\ (Head(p, k) \/ Behind(p, o, k))
    BY <2>3, <1>3 DEF Head, Behind
  <2>7. \A p, q \in Ops : Member(p, k)' /\ Member(q, k)' /\ p # q => r[p] # r[q]
    BY <2>1, <2>4 DEF Ranked
  <2>8. \A p, q \in Ops : Behind(p, q, k)' =>
          /\ Member(q, k)' /\ r[q] < r[p]
          /\ \A s \in Ops : Member(s, k)' => r[s] <= r[q] \/ r[p] <= r[s]
    BY <2>1, <2>4, <2>5 DEF Ranked
  <2>9. \A p, q \in Ops : Head(p, k)' /\ Member(q, k)' => r[p] <= r[q]
    <3>. SUFFICES ASSUME NEW p \in Ops, NEW q \in Ops, Head(p, k)', Member(q, k)' PROVE r[p] <= r[q]
      OBVIOUS
    <3>1. Member(q, k) /\ q # o
      BY <2>4
    <3>2. CASE Head(p, k)
      BY <3>1, <3>2, <2>1 DEF Ranked
    <3>3. CASE Behind(p, o, k)
      <4>1. r[q] <= r[o] \/ r[p] <= r[q]
        BY <3>1, <3>3, <2>1 DEF Ranked
      <4>2. r[o] <= r[q] /\ r[o] # r[q]
        BY <3>1, <2>1, <2>2 DEF Ranked
      <4>. QED
        BY <4>1, <4>2
    <3>. QED
      BY <2>6, <3>2, <3>3
  <2>10. CASE tail[k] = o
    <3>1. \A p \in Ops : Member(p, k) => p = o
      <4>. SUFFICES ASSUME NEW p \in Ops, Member(p, k), p # o PROVE FALSE
        OBVIOUS
      <4>1. r[p] <= r[o] /\ r[o] <= r[p] /\ r[p] # r[o]
        BY <2>1, <2>2, <2>10 DEF Ranked, LockInv, LockTypeOK
      <4>. QED
        BY <4>1
    <3>2. tail'[k] = None /\ \A p \in Ops : ~Member(p, k)'
      BY <1>1, <1>7, <2>4, <2>10, <3>1
    <3>. QED
      BY <2>1, <2>7, <2>8, <2>9, <3>2 DEF Ranked, Chained
  <2>11. CASE tail[k] # o
    <3>1. tail'[k] = tail[k] /\ tail[k] \in Ops \cup {None}
      BY <1>1, <2>11 DEF LockInv, LockTypeOK
    <3>2. tail[k] # None /\ Member(tail[k], k) /\ \A p \in Ops : Member(p, k) => r[p] <= r[tail[k]]
      BY <2>1, <2>2 DEF Ranked
    <3>3. Member(tail[k], k)' /\ \A p \in Ops : Member(p, k)' => r[p] <= r[tail'[k]]
      BY <2>4, <2>11, <3>1, <3>2
    <3>. QED
      BY <2>1, <2>7, <2>8, <2>9, <3>1, <3>2, <3>3 DEF Ranked, Chained
  <2>. QED
    BY <2>10, <2>11
<1>8. lock'[o].held = lock[o].held \ K
  BY <1>2
<1>. QED
  BY <1>3, <1>4, <1>5, <1>6, <1>7, <1>8 DEF LockInv

-----------------------------------------------------------------------------
(* The callers of LockNext, and the sections they run in *)

LEMMA LockInitInv == LockInit => LockInv
<1>. SUFFICES ASSUME LockInit PROVE LockInv
  OBVIOUS
<1>. USE LockAssumption DEF LockInit
<1>1. LockTypeOK
  BY DEF LockTypeOK, LockStates, NoLock
<1>2. \A o \in Ops : Own(o)
  BY DEF Own, NoLock
<1>3. ASSUME NEW k \in Keys PROVE Chained(k)
  <2>1. \A o \in Ops : ~Member(o, k) /\ ~Head(o, k) /\ \A p \in Ops : ~Behind(o, p, k)
    BY DEF Member, Head, Behind, NoLock
  <2>2. PICK r \in [Ops -> Nat] : TRUE
    <3>. [o \in Ops |-> 0] \in [Ops -> Nat]
      OBVIOUS
    <3>. QED
      OBVIOUS
  <2>3. Ranked(k, r)
    BY <2>1 DEF Ranked
  <2>. QED
    BY <2>2, <2>3 DEF Chained
<1>. QED
  BY <1>1, <1>2, <1>3 DEF LockInv

\* Whatever a caller does keeps the chains, and enters or leaves sections as they allow.
LEMMA CallerStep ==
  ASSUME LockInv, NEW o \in Ops,
         \/ Granted(o)
         \/ \E K \in SUBSET Keys : K \cap lock[o].held = {} /\ Request(o, K)
         \/ \E k \in Keys : k \notin lock[o].held /\ Take(o, k)
         \/ \E K \in SUBSET lock[o].held : Release(o, K)
  PROVE  LockInv' /\ Exclusion!Next
<1>. DEFINE sections == [p \in Ops |-> lock[p].held]
<1>. USE DEF Exclusion!Next, Exclusion!Enter, Exclusion!Leave
<1>1. CASE Granted(o)
  <2>. DEFINE w == lock[o].want
  <2>1. /\ LockInv' /\ w \in Keys /\ Head(o, w)
        /\ lock'[o].held = lock[o].held \cup {w}
        /\ \A p \in Ops \ {o} : lock'[p].held = lock[p].held
    BY <1>1, GrantedKeeps
  <2>2. w # None /\ w \notin lock[o].held
    BY <1>1 DEF Granted, Runs, LockInv, Own
  <2>3. \A p \in Ops : w \notin sections[p]
    BY <2>1, <2>2, OneHolder DEF Head
  <2>4. sections' = [sections EXCEPT ![o] = @ \cup {w}]
    BY <2>1
  <2>5. Exclusion!Enter(o, w)
    BY <2>3, <2>4
  <2>. QED
    BY <2>1, <2>5
<1>2. CASE \E K \in SUBSET Keys : K \cap lock[o].held = {} /\ Request(o, K)
  <2>1. LockInv' /\ \A p \in Ops : lock'[p].held = lock[p].held
    BY <1>2, RequestKeeps
  <2>2. sections' = [sections EXCEPT ![o] = @ \ {}]
    BY <2>1
  <2>3. Exclusion!Leave(o)
    BY <2>2
  <2>. QED
    BY <2>1, <2>3
<1>3. CASE \E k \in Keys : k \notin lock[o].held /\ Take(o, k)
  <2>1. PICK k \in Keys : k \notin lock[o].held /\ Take(o, k)
    BY <1>3
  <2>2. /\ LockInv'
        /\ \A p \in Ops : k \notin lock[p].held
        /\ lock'[o].held = lock[o].held \cup {k}
        /\ \A p \in Ops \ {o} : lock'[p].held = lock[p].held
    BY <2>1, TakeKeeps
  <2>3. sections' = [sections EXCEPT ![o] = @ \cup {k}]
    BY <2>2
  <2>4. Exclusion!Enter(o, k)
    BY <2>2, <2>3
  <2>. QED
    BY <2>2, <2>4
<1>4. CASE \E K \in SUBSET lock[o].held : Release(o, K)
  <2>1. PICK K \in SUBSET lock[o].held : Release(o, K)
    BY <1>4
  <2>2. /\ LockInv'
        /\ lock'[o].held = lock[o].held \ K
        /\ \A p \in Ops \ {o} : lock'[p].held = lock[p].held
    BY <2>1, ReleaseKeeps
  <2>3. sections' = [sections EXCEPT ![o] = @ \ K]
    BY <2>2
  <2>4. Exclusion!Leave(o)
    BY <2>1, <2>3
  <2>. QED
    BY <2>2, <2>4
<1>. QED
  BY <1>1, <1>2, <1>3, <1>4

LEMMA LockStutters ==
  ASSUME LockInv, UNCHANGED lockVars
  PROVE  LockInv' /\ UNCHANGED [o \in Ops |-> lock[o].held]
<1>1. tail' = tail /\ lock' = lock
  BY DEF lockVars
<1>2. LockTypeOK' /\ \A o \in Ops : Own(o)'
  BY <1>1 DEF LockInv, LockTypeOK, Own
<1>3. \A k \in Keys : Chained(k)'
  BY <1>1, ChainUntouched DEF LockInv, LockTypeOK, Member, Head, Behind
<1>. QED
  BY <1>1, <1>2, <1>3 DEF LockInv

\* The chains keep their order, whatever is asked for and given back.
THEOREM ChainsAreKept == LockSpec => []LockInv
<1>1. LockInv /\ [LockNext]_lockVars => LockInv'
  BY CallerStep, LockStutters DEF LockNext
<1>. QED
  BY <1>1, LockInitInv, PTL DEF LockSpec

\* No key is held by two calls: the locks implement the critical sections of withPathWriteLocks,
\* withBookAdmissionLocks and withLibraryRootWrite.
THEOREM LocksImplementSections == LockSpec => LocksExclude
<1>1. LockInit => Exclusion!Init
  BY DEF LockInit, Exclusion!Init, NoLock
<1>2. LockInv /\ [LockNext]_lockVars => [Exclusion!Next]_[o \in Ops |-> lock[o].held]
  BY CallerStep, LockStutters DEF LockNext
<1>. QED
  BY <1>1, <1>2, ChainsAreKept, PTL DEF LockSpec, LocksExclude, Exclusion!Spec

-----------------------------------------------------------------------------
(* The calls that take them *)

\* The keys a call holds, waits for or has yet to ask for
Asked(o) == lock[o].held \cup lock[o].need \cup ({lock[o].want} \ {None})

WithBook == {"begin", "root", "plan", "apply", "move", "unlink", "repath", "resolve", "fresh", "reset",
             "owner", "sweep", "commit", "stage", "promote"}

\* What a call at a step has asked for, and knows
Proper(c, asked) ==
  /\ c.pc \in {"idle", "widen"} => asked = {}
  /\ c.pc = "begin" => c.root = None
  /\ c.pc \in {"begin", "root", "plan", "resolve", "stage", "promote"} => asked \cap Folders = {}
  /\ c.pc = "fresh" => asked \cap Folders = {c.old} /\ c.old \in Folders
  /\ c.pc \in {"queued", "writing"} => Settings \in asked
  /\ c.pc \in WithBook => c.book \in Books
  /\ c.pc \in {"apply", "move", "unlink", "repath"} => c.old \in Folders /\ c.new \in Folders
  /\ c.pc \in {"stage", "promote"} => c.new \in Folders

RowsOK ==
  /\ path \in [Books -> Folders \cup {None, Gone}]
  /\ content \in [Folders -> SUBSET Books]
  /\ root \in Roots /\ commits \subseteq Ops /\ begun \in Nat

\* While a settings write is in the queue nobody is registered
Gate == tail[Settings] # None => commits = {}

\* Whoever is registered has read no other root
Rooted == \A o \in commits : op[o].root \in {None, root}

CallsOK == op \in [Ops -> Calls] /\ \A o \in Ops : Proper(op[o], Asked(o)) /\ Settings \notin lock[o].need

Inv == LockInv /\ RowsOK /\ CallsOK /\ Gate /\ Rooted

-----------------------------------------------------------------------------
(* The locks seen from a call *)

LEMMA KeysFacts ==
  /\ Books \subseteq Keys /\ Folders \subseteq Keys /\ Settings \in Keys
  /\ Books \cap Folders = {} /\ Settings \notin Books \cup Folders
  /\ Keys \subseteq Nat /\ None \notin Keys /\ None \notin Ops /\ None \notin Books /\ None \notin Folders
BY LockAssumption, KeysAssumption

LEMMA RunsAsked ==
  ASSUME LockInv, NEW o \in Ops, Runs(o)
  PROVE  Asked(o) = lock[o].held
BY DEF LockInv, LockTypeOK, LockStates, Runs, Asked

LEMMA RequestAsks ==
  ASSUME LockInv, NEW o \in Ops, NEW K \in SUBSET Keys, K \cap Asked(o) = {}, Request(o, K)
  PROVE  /\ LockInv'
         /\ \E C \in SUBSET Keys : C \cap lock[o].held = {} /\ Request(o, C)
         /\ Asked(o)' = Asked(o) \cup K /\ lock'[o].need \subseteq K /\ First(K) \notin lock'[o].need
         /\ \A p \in Ops \ {o} : Asked(p)' = Asked(p) /\ lock'[p].need = lock[p].need
         /\ \A j \in Keys \ K : tail'[j] = tail[j]
<1>. USE LockAssumption
<1>1. LockInv' /\ K \cap lock[o].held = {}
  BY RequestKeeps DEF Asked
<1>2. First(K) \in K
  BY FirstKey DEF Request
<1>3. /\ lock' = [lock EXCEPT ![o] = [want |-> First(K), need |-> K \ {First(K)}, prev |-> tail[First(K)], held |-> lock[o].held]]
      /\ tail' = [tail EXCEPT ![First(K)] = o]
  BY DEF Request, Enqueue
<1>4. lock'[o] = [want |-> First(K), need |-> K \ {First(K)}, prev |-> tail[First(K)], held |-> lock[o].held]
  BY <1>3 DEF LockInv, LockTypeOK
<1>5. Asked(o) = lock[o].held
  BY RunsAsked DEF Request
<1>6. Asked(o)' = lock[o].held \cup (K \ {First(K)}) \cup {First(K)}
  <2>1. First(K) # None
    BY <1>2
  <2>. QED
    BY <1>4, <2>1 DEF Asked
<1>7. \A p \in Ops \ {o} : Asked(p)' = Asked(p) /\ lock'[p].need = lock[p].need
  BY <1>3 DEF LockInv, LockTypeOK, Asked
<1>8. \A j \in Keys \ K : tail'[j] = tail[j]
  BY <1>2, <1>3 DEF LockInv, LockTypeOK
<1>. QED
  BY <1>1, <1>2, <1>4, <1>5, <1>6, <1>7, <1>8

LEMMA GrantedAsks ==
  ASSUME LockInv, NEW o \in Ops, Granted(o)
  PROVE  /\ LockInv'
         /\ \A p \in Ops : Asked(p)' = Asked(p) /\ lock'[p].need \subseteq lock[p].need
         /\ \A j \in Keys \ lock[o].need : tail'[j] = tail[j]
<1>. USE LockAssumption
<1>. DEFINE w == lock[o].want  need == lock[o].need  held == lock[o].held \cup {w}  k == First(need)
<1>1. LockInv' /\ w \in Keys
  BY GrantedKeeps
<1>2. lock[o] \in LockStates /\ need \subseteq Nat
  BY DEF LockInv, LockTypeOK, LockStates
<1>3. CASE need # {}
  <2>1. k \in need /\ Enqueue(o, k, need \ {k}, held)
    BY <1>2, <1>3, FirstKey DEF Granted
  <2>. HIDE DEF k
  <2>2. /\ lock' = [lock EXCEPT ![o] = [want |-> k, need |-> need \ {k}, prev |-> tail[k], held |-> held]]
        /\ tail' = [tail EXCEPT ![k] = o]
    BY <2>1 DEF Enqueue
  <2>3. lock'[o] = [want |-> k, need |-> need \ {k}, prev |-> tail[k], held |-> held]
    BY <2>2 DEF LockInv, LockTypeOK
  <2>4. k # None /\ w # None
    BY <1>1, <1>2, <2>1 DEF LockStates
  <2>5. Asked(o)' = Asked(o) /\ lock'[o].need \subseteq lock[o].need
    BY <2>1, <2>3, <2>4 DEF Asked
  <2>6. \A p \in Ops \ {o} : Asked(p)' = Asked(p) /\ lock'[p].need = lock[p].need
    BY <2>2 DEF LockInv, LockTypeOK, Asked
  <2>7. \A j \in Keys \ need : tail'[j] = tail[j]
    BY <2>1, <2>2 DEF LockInv, LockTypeOK
  <2>. QED
    BY <1>1, <2>5, <2>6, <2>7
<1>4. CASE need = {}
  <2>1. lock' = [lock EXCEPT ![o].want = None, ![o].held = held] /\ tail' = tail
    BY <1>4 DEF Granted
  <2>2. lock'[o] = [want |-> None, need |-> lock[o].need, prev |-> lock[o].prev, held |-> held]
    BY <2>1, <1>2 DEF LockInv, LockTypeOK, LockStates
  <2>3. Asked(o)' = Asked(o) /\ lock'[o].need = lock[o].need
    BY <2>2, <1>1 DEF Asked
  <2>4. \A p \in Ops \ {o} : Asked(p)' = Asked(p) /\ lock'[p].need = lock[p].need
    BY <2>1 DEF LockInv, LockTypeOK, Asked
  <2>. QED
    BY <1>1, <2>1, <2>3, <2>4
<1>. QED
  BY <1>3, <1>4

LEMMA TakeAsks ==
  ASSUME LockInv, NEW o \in Ops, NEW k \in Keys, k \notin Asked(o), Take(o, k)
  PROVE  /\ LockInv' /\ k \notin lock[o].held
         /\ Asked(o)' = Asked(o) \cup {k}
         /\ \A p \in Ops \ {o} : Asked(p)' = Asked(p)
         /\ \A p \in Ops : lock'[p].need = lock[p].need
<1>. USE LockAssumption
<1>1. LockInv' /\ k \notin lock[o].held
  BY TakeKeeps DEF Asked
<1>2. lock' = [lock EXCEPT ![o].held = @ \cup {k}] /\ lock[o] \in LockStates
  BY DEF Take, LockInv, LockTypeOK
<1>3. /\ lock'[o] = [want |-> lock[o].want, need |-> lock[o].need, prev |-> lock[o].prev, held |-> lock[o].held \cup {k}]
      /\ \A p \in Ops \ {o} : lock'[p] = lock[p]
  BY <1>2 DEF LockInv, LockTypeOK, LockStates
<1>. QED
  BY <1>1, <1>3 DEF Asked

LEMMA ReleaseAsks ==
  ASSUME LockInv, NEW o \in Ops, NEW K \in SUBSET lock[o].held, Release(o, K)
  PROVE  /\ LockInv'
         /\ Asked(o)' = Asked(o) \ K
         /\ \A p \in Ops \ {o} : Asked(p)' = Asked(p)
         /\ \A p \in Ops : lock'[p].need = lock[p].need
         /\ \A j \in Keys : tail'[j] \in {tail[j], None}
<1>. USE LockAssumption
<1>1. LockInv' /\ lock[o] \in LockStates /\ lock[o].want = None /\ lock[o].need = {}
  <2>1. LockInv'
    BY ReleaseKeeps
  <2>2. lock[o] \in LockStates /\ lock[o].want = None
    BY DEF Release, Runs, LockInv, LockTypeOK
  <2>. QED
    BY <2>1, <2>2 DEF LockStates
<1>2. /\ tail' = [k \in Keys |-> IF k \in K /\ tail[k] = o THEN None ELSE tail[k]]
      /\ lock' = [p \in Ops |->
                    IF p = o THEN [lock[p] EXCEPT !.held = @ \ K]
                    ELSE IF lock[p].prev = o /\ lock[p].want \in K THEN [lock[p] EXCEPT !.prev = None]
                    ELSE lock[p]]
  BY DEF Release, Evict
<1>3. lock'[o] = [want |-> None, need |-> {}, prev |-> lock[o].prev, held |-> lock[o].held \ K]
  BY <1>1, <1>2 DEF LockStates
<1>4. Asked(o)' = Asked(o) \ K /\ lock'[o].need = lock[o].need
  BY <1>1, <1>3 DEF Asked
<1>5. ASSUME NEW p \in Ops \ {o} PROVE Asked(p)' = Asked(p) /\ lock'[p].need = lock[p].need
  <2>1. lock[p] \in LockStates
    BY DEF LockInv, LockTypeOK
  <2>2. lock'[p].want = lock[p].want /\ lock'[p].need = lock[p].need /\ lock'[p].held = lock[p].held
    BY <1>2, <2>1 DEF LockStates
  <2>. QED
    BY <2>2 DEF Asked
<1>. QED
  BY <1>1, <1>2, <1>4, <1>5

\* Whoever holds a key, or is next for it, keeps its chain from being empty.
LEMMA AskedHasTail ==
  ASSUME LockInv, NEW o \in Ops, NEW k \in Keys, k \in lock[o].held
  PROVE  tail[k] # None
BY DEF LockInv, Chained, Ranked, Member

-----------------------------------------------------------------------------
(* What a step does to the locks, and that it leaves the invariant true *)

\* A step uses the locks as LockNext allows
Uses(o) ==
  \/ Granted(o)
  \/ \E K \in SUBSET Keys : K \cap lock[o].held = {} /\ Request(o, K)
  \/ \E k \in Keys : k \notin lock[o].held /\ Take(o, k)
  \/ \E K \in SUBSET lock[o].held : Release(o, K)
  \/ UNCHANGED lockVars

\* The registrations after a step of call o, which goes on as c
Registered(o, c) ==
  /\ commits' \subseteq commits \cup {o}
  /\ o \in commits' => c.root \in {None, root'}
  /\ root' = root \/ commits' = {}

LEMMA StepKeeps ==
  ASSUME Inv, NEW o \in Ops, NEW c \in Calls, op' = [op EXCEPT ![o] = c],
         LockInv', RowsOK', Gate', Registered(o, c),
         Proper(c, Asked(o)'), Settings \notin lock'[o].need,
         \A p \in Ops \ {o} : Asked(p)' = Asked(p) /\ lock'[p].need \subseteq lock[p].need
  PROVE  Inv'
<1>1. op' \in [Ops -> Calls] /\ op'[o] = c /\ \A p \in Ops \ {o} : op'[p] = op[p]
  BY DEF Inv, CallsOK
<1>2. ASSUME NEW p \in Ops PROVE Proper(op[p], Asked(p))' /\ Settings \notin lock'[p].need
  <2>1. CASE p = o
    BY <1>1, <2>1 DEF Proper
  <2>2. CASE p # o
    <3>1. Proper(op[p], Asked(p)) /\ Settings \notin lock[p].need
      BY DEF Inv, CallsOK
    <3>2. op'[p] = op[p] /\ Asked(p)' = Asked(p) /\ lock'[p].need \subseteq lock[p].need
      BY <1>1, <2>2
    <3>. QED
      BY <3>1, <3>2 DEF Proper
  <2>. QED
    BY <2>1, <2>2
<1>3. CallsOK'
  BY <1>1, <1>2 DEF CallsOK
<1>4. Rooted'
  BY <1>1 DEF Inv, Rooted, Registered
<1>. QED
  BY <1>3, <1>4 DEF Inv

\* The next keys of a call are asked for
LEMMA Requests ==
  ASSUME Inv, NEW o \in Ops, NEW K \in SUBSET (Books \cup Folders), K \cap Asked(o) = {}, Request(o, K),
         NEW c \in Calls, op' = [op EXCEPT ![o] = c], Proper(c, Asked(o) \cup K),
         RowsOK', root' = root, commits' = commits, o \in commits => c.root \in {None, root}
  PROVE  Inv' /\ Uses(o)
<1>1. K \in SUBSET Keys /\ Settings \in Keys \ K
  BY KeysFacts
<1>2. /\ LockInv'
      /\ \E C \in SUBSET Keys : C \cap lock[o].held = {} /\ Request(o, C)
      /\ Asked(o)' = Asked(o) \cup K /\ lock'[o].need \subseteq K
      /\ \A p \in Ops \ {o} : Asked(p)' = Asked(p) /\ lock'[p].need = lock[p].need
      /\ tail'[Settings] = tail[Settings]
  BY <1>1, RequestAsks DEF Inv
<1>3. Gate' /\ Registered(o, c)
  BY <1>2 DEF Inv, Gate, Registered
<1>4. Proper(c, Asked(o)')
  BY <1>2
<1>5. Inv'
  BY <1>1, <1>2, <1>3, <1>4, StepKeeps
<1>. QED
  BY <1>2, <1>5 DEF Uses

\* Keys are given back
LEMMA Releases ==
  ASSUME Inv, NEW o \in Ops, NEW K \in SUBSET lock[o].held, Release(o, K),
         NEW c \in Calls, op' = [op EXCEPT ![o] = c], Proper(c, Asked(o) \ K),
         RowsOK', root' = root, commits' \subseteq commits, o \in commits' => c.root \in {None, root}
  PROVE  Inv' /\ Uses(o)
<1>1. /\ LockInv' /\ Asked(o)' = Asked(o) \ K
      /\ \A p \in Ops \ {o} : Asked(p)' = Asked(p)
      /\ \A p \in Ops : lock'[p].need = lock[p].need
      /\ tail'[Settings] \in {tail[Settings], None}
  BY ReleaseAsks, KeysFacts DEF Inv
<1>2. Gate' /\ Registered(o, c)
  BY <1>1 DEF Inv, Gate, Registered
<1>3. Settings \notin lock'[o].need
  BY <1>1 DEF Inv, CallsOK
<1>4. Proper(c, Asked(o)')
  BY <1>1
<1>5. Inv'
  BY <1>1, <1>2, <1>3, <1>4, StepKeeps
<1>. QED
  BY <1>5 DEF Uses

LEMMA LocksStay ==
  ASSUME Inv, UNCHANGED lockVars
  PROVE  /\ LockInv' /\ tail'[Settings] = tail[Settings]
         /\ \A p \in Ops : Asked(p)' = Asked(p) /\ lock'[p].need = lock[p].need
BY LockStutters DEF Inv, lockVars, Asked

\* The locks stay as they are
LEMMA Goes ==
  ASSUME Inv, NEW o \in Ops, UNCHANGED lockVars,
         NEW c \in Calls, op' = [op EXCEPT ![o] = c], Proper(c, Asked(o)),
         RowsOK', Gate', Registered(o, c)
  PROVE  Inv' /\ Uses(o)
<1>1. Settings \notin lock[o].need
  BY DEF Inv, CallsOK
<1>2. Inv'
  BY <1>1, LocksStay, StepKeeps
<1>. QED
  BY <1>2 DEF Uses

\* The locks and the registrations stay as they are
LEMMA GoesOn ==
  ASSUME Inv, NEW o \in Ops, UNCHANGED <<lockVars, root, commits, begun>>,
         path' \in [Books -> Folders \cup {None, Gone}], content' \in [Folders -> SUBSET Books],
         NEW c \in Calls, op' = [op EXCEPT ![o] = c], Proper(c, Asked(o)),
         o \in commits => c.root \in {None, root}
  PROVE  Inv' /\ Uses(o)
<1>1. RowsOK' /\ Gate' /\ Registered(o, c)
  BY LocksStay DEF Inv, RowsOK, Gate, Registered
<1>. QED
  BY <1>1, Goes

\* A call goes to its next step, the locks and the registrations stay as they are
LEMMA Proceeds ==
  ASSUME Inv, NEW o \in Ops, UNCHANGED <<lockVars, root, commits, begun>>,
         path' \in [Books -> Folders \cup {None, Gone}], content' \in [Folders -> SUBSET Books],
         NEW pc \in Steps, Goto(o, pc), Proper([op[o] EXCEPT !.pc = pc], Asked(o))
  PROVE  Inv' /\ Uses(o)
<1>. DEFINE c == [op[o] EXCEPT !.pc = pc]
<1>1. c \in Calls /\ op' = [op EXCEPT ![o] = c] /\ c.root = op[o].root
  BY DEF Inv, CallsOK, Calls, Goto
<1>2. o \in commits => c.root \in {None, root}
  BY <1>1 DEF Inv, Rooted
<1>. HIDE DEF c
<1>3. Proper(c, Asked(o))
  BY DEF c
<1>. QED
  BY <1>1, <1>2, <1>3, GoesOn

\* What a call that runs knows
LEMMA Known ==
  ASSUME Inv, NEW o \in Ops
  PROVE  /\ op[o] \in Calls /\ Proper(op[o], Asked(o)) /\ RowsOK
         /\ o \in commits => op[o].root \in {None, root}
BY DEF Inv, CallsOK, Rooted

-----------------------------------------------------------------------------
(* One lemma per action *)

LEMMA GrantKeeps ==
  ASSUME Inv, NEW o \in Ops, Grant(o)
  PROVE  Inv' /\ Uses(o)
<1>1. /\ LockInv'
      /\ \A p \in Ops : Asked(p)' = Asked(p) /\ lock'[p].need \subseteq lock[p].need
      /\ tail'[Settings] = tail[Settings]
  BY GrantedAsks, KeysFacts DEF Inv, CallsOK, Grant
<1>2. RowsOK' /\ Gate' /\ Rooted' /\ op' = op
  BY <1>1 DEF Grant, rows, Inv, RowsOK, Gate, Rooted
<1>3. ASSUME NEW p \in Ops PROVE Proper(op[p], Asked(p))' /\ Settings \notin lock'[p].need
  <2>1. Proper(op[p], Asked(p)) /\ Settings \notin lock[p].need
    BY DEF Inv, CallsOK
  <2>2. op'[p] = op[p] /\ Asked(p)' = Asked(p)
    BY <1>1, <1>2
  <2>. QED
    BY <1>1, <2>1, <2>2 DEF Proper
<1>4. CallsOK'
  BY <1>2, <1>3 DEF Inv, CallsOK
<1>. QED
  BY <1>1, <1>2, <1>4 DEF Inv, Uses, Grant

LEMMA BeginKeeps ==
  ASSUME Inv, NEW o \in Ops, NEW b \in Books,
         NEW kind \in {"rename", "delete", "reject", "import"}, Begin(o, kind, b)
  PROVE  Inv' /\ Uses(o)
<1>. DEFINE c == [NoCall EXCEPT !.pc = "begin", !.kind = kind, !.book = b]
<1>1. /\ op[o].pc = "idle" /\ begun' = begun + 1 /\ Request(o, {b})
      /\ op' = [op EXCEPT ![o] = c] /\ UNCHANGED <<rows, commits>>
  BY DEF Begin, Entry
<1>2. Asked(o) = {}
  BY <1>1, Known DEF Proper
<1>3. c \in Calls /\ Proper(c, Asked(o) \cup {b}) /\ c.root = None
  BY <1>2, KeysFacts DEF Calls, NoCall, Steps, Kinds, Proper, WithBook
<1>. HIDE DEF c
<1>4. RowsOK'
  BY <1>1 DEF Inv, RowsOK, rows
<1>. QED
  BY <1>1, <1>2, <1>3, <1>4, Requests DEF rows

LEMMA RegisterKeeps ==
  ASSUME Inv, NEW o \in Ops, Register(o)
  PROVE  Inv' /\ Uses(o)
<1>. DEFINE c == [op[o] EXCEPT !.pc = "root"]
<1>1. /\ op[o].pc = "begin" /\ tail[Settings] = None /\ commits' = commits \cup {o}
      /\ op' = [op EXCEPT ![o] = c] /\ UNCHANGED <<lockVars, rows, begun>>
  BY DEF Register, At, GateIdle, Goto
<1>2. c \in Calls /\ Proper(c, Asked(o)) /\ c.root = None
  BY <1>1, Known DEF Calls, Steps, Proper, WithBook
<1>. HIDE DEF c
<1>3. RowsOK' /\ Gate' /\ Registered(o, c)
  BY <1>1, <1>2, LocksStay DEF Inv, RowsOK, Gate, Registered, rows
<1>. QED
  BY <1>1, <1>2, <1>3, Goes

LEMMA ReadRootKeeps ==
  ASSUME Inv, NEW o \in Ops, ReadRoot(o)
  PROVE  Inv' /\ Uses(o)
<1>. DEFINE c == [op[o] EXCEPT !.root = root, !.pc = "plan"]
<1>1. /\ op[o].pc = "root" /\ UNCHANGED <<lockVars, rows, commits, begun>>
      /\ op' = [op EXCEPT ![o] = c]
  BY Known DEF ReadRoot, At
<1>2. c \in Calls /\ Proper(c, Asked(o)) /\ c.root = root
  <2>1. op[o] \in Calls /\ Proper(op[o], Asked(o)) /\ root \in Roots
    BY Known DEF Inv, RowsOK
  <2>2. c \in Calls /\ c.root = root /\ c.pc = "plan" /\ c.book = op[o].book
    BY <2>1 DEF Calls, Steps
  <2>. HIDE DEF c
  <2>3. Proper(c, Asked(o))
    BY <1>1, <2>1, <2>2 DEF Proper, WithBook
  <2>. QED
    BY <2>2, <2>3
<1>. HIDE DEF c
<1>. QED
  BY <1>1, <1>2, GoesOn DEF rows, Inv, RowsOK

LEMMA PlanKeeps ==
  ASSUME Inv, NEW o \in Ops, Plan(o)
  PROVE  Inv' /\ Uses(o)
<1>. DEFINE b == op[o].book
<1>1. op[o].pc = "plan" /\ b \in Books /\ Asked(o) \cap Folders = {} /\ UNCHANGED <<rows, commits, begun>>
  BY Known DEF Plan, At, Proper, WithBook
<1>2. CASE HasFolder(b)
  <2>1. PICK f \in Under(o, RenameTo[b]) \cup {path[b]} :
          /\ Request(o, {path[b], f})
          /\ op' = [op EXCEPT ![o].old = path[b], ![o].new = f, ![o].pc = "apply"]
    BY <1>2 DEF Plan, ClaimKeys
  <2>2. path[b] \in Folders /\ f \in Folders
    BY <1>1, <1>2, FoldersAssumption DEF HasFolder, Under
  <2>. DEFINE c == [op[o] EXCEPT !.old = path[b], !.new = f, !.pc = "apply"]
  <2>3. op' = [op EXCEPT ![o] = c]
    BY <2>1
  <2>4. c \in Calls /\ c.root = op[o].root /\ c.pc = "apply" /\ c.book = b /\ c.old = path[b] /\ c.new = f
    BY <2>2, Known DEF Calls, Steps
  <2>. HIDE DEF c
  <2>5. Proper(c, Asked(o) \cup {path[b], f})
    BY <1>1, <2>2, <2>4 DEF Proper
  <2>6. RowsOK' /\ root' = root /\ commits' = commits
    BY <1>1 DEF Inv, RowsOK, rows
  <2>7. {path[b], f} \in SUBSET (Books \cup Folders) /\ {path[b], f} \cap Asked(o) = {}
    BY <1>1, <2>2
  <2>8. o \in commits => c.root \in {None, root}
    BY <2>4, Known
  <2>. QED
    BY <2>1, <2>3, <2>4, <2>5, <2>6, <2>7, <2>8, Requests
<1>3. CASE ~HasFolder(b)
  <2>1. Goto(o, "leave") /\ UNCHANGED lockVars
    BY <1>3 DEF Plan
  <2>2. Proper([op[o] EXCEPT !.pc = "leave"], Asked(o)) /\ "leave" \in Steps
    BY <1>1, Known DEF Proper, WithBook, Calls, Steps
  <2>. QED
    BY <1>1, <2>1, <2>2, Proceeds, Known DEF rows, RowsOK
<1>. QED
  BY <1>2, <1>3

\* The steps that only go on, whatever they do to the rows
LEMMA ApplyKeeps ==
  ASSUME Inv, NEW o \in Ops, Apply(o)
  PROVE  Inv' /\ Uses(o)
<1>1. /\ op[o].pc = "apply" /\ UNCHANGED <<lockVars, rows, commits, begun>>
      /\ Goto(o, "move") \/ Goto(o, "end")
  BY DEF Apply, At
<1>2. ASSUME NEW pc \in {"move", "end"} PROVE Proper([op[o] EXCEPT !.pc = pc], Asked(o)) /\ pc \in Steps
  BY <1>1, Known DEF Proper, WithBook, Calls, Steps
<1>. QED
  BY <1>1, <1>2, Proceeds, Known DEF rows, RowsOK

LEMMA MoveKeeps ==
  ASSUME Inv, NEW o \in Ops, Move(o)
  PROVE  Inv' /\ Uses(o)
<1>1. /\ op[o].pc = "move" /\ UNCHANGED <<lockVars, path, root, commits, begun>>
      /\ \E pc \in {"repath", "unlink", "end"} : Goto(o, pc)
  BY DEF Move, At
<1>2. op[o].old \in Folders /\ op[o].new \in Folders
  BY <1>1, Known DEF Proper
<1>3. content' \in [Folders -> SUBSET Books]
  BY <1>2, Known DEF Move, RowsOK
<1>4. ASSUME NEW pc \in {"repath", "unlink", "end"}
      PROVE  Proper([op[o] EXCEPT !.pc = pc], Asked(o)) /\ pc \in Steps
  BY <1>1, Known DEF Proper, WithBook, Calls, Steps
<1>. QED
  BY <1>1, <1>3, <1>4, Proceeds, Known DEF RowsOK

LEMMA UnlinkKeeps ==
  ASSUME Inv, NEW o \in Ops, Unlink(o)
  PROVE  Inv' /\ Uses(o)
<1>1. op[o].pc = "unlink" /\ UNCHANGED <<lockVars, path, root, commits, begun>> /\ Goto(o, "repath")
  BY DEF Unlink, At
<1>2. content' \in [Folders -> SUBSET Books]
  BY <1>1, Known DEF Unlink, RowsOK
<1>3. Proper([op[o] EXCEPT !.pc = "repath"], Asked(o)) /\ "repath" \in Steps
  BY <1>1, Known DEF Proper, WithBook, Calls, Steps
<1>. QED
  BY <1>1, <1>2, <1>3, Proceeds, Known DEF RowsOK

LEMMA RepathKeeps ==
  ASSUME Inv, NEW o \in Ops, Repath(o)
  PROVE  Inv' /\ Uses(o)
<1>1. op[o].pc = "repath" /\ UNCHANGED <<lockVars, content, root, commits, begun>> /\ Goto(o, "end")
  BY DEF Repath, At
<1>2. path' \in [Books -> Folders \cup {None, Gone}]
  BY <1>1, Known DEF Repath, RowsOK, Proper
<1>3. Proper([op[o] EXCEPT !.pc = "end"], Asked(o)) /\ "end" \in Steps
  BY <1>1, Known DEF Proper, WithBook, Calls, Steps
<1>. QED
  BY <1>1, <1>2, <1>3, Proceeds, Known DEF RowsOK

LEMMA HydrateKeeps ==
  ASSUME Inv, NEW o \in Ops, Hydrate(o)
  PROVE  Inv' /\ Uses(o)
<1>1. /\ op[o].pc = "begin" /\ UNCHANGED <<lockVars, rows, commits, begun>>
      /\ \E pc \in {"resolve", "commit", "leave"} : Goto(o, pc)
  BY DEF Hydrate, At
<1>2. ASSUME NEW pc \in {"resolve", "commit", "leave"}
      PROVE  Proper([op[o] EXCEPT !.pc = pc], Asked(o)) /\ pc \in Steps
  BY <1>1, Known DEF Proper, WithBook, Calls, Steps
<1>. QED
  BY <1>1, <1>2, Proceeds, Known DEF rows, RowsOK

LEMMA ResolveKeeps ==
  ASSUME Inv, NEW o \in Ops, Resolve(o)
  PROVE  Inv' /\ Uses(o)
<1>. DEFINE b == op[o].book
<1>1. op[o].pc = "resolve" /\ b \in Books /\ Asked(o) \cap Folders = {} /\ UNCHANGED <<rows, commits, begun>>
  BY Known DEF Resolve, At, Proper, WithBook
<1>2. CASE HasFolder(b)
  <2>. DEFINE f == path[b]
  <2>. DEFINE c == [op[o] EXCEPT !.old = f, !.pc = "fresh"]
  <2>1. f \in Folders /\ Request(o, {f}) /\ op' = [op EXCEPT ![o] = c]
    BY <1>2 DEF Resolve, HasFolder
  <2>2. c \in Calls /\ c.root = op[o].root /\ c.pc = "fresh" /\ c.book = b /\ c.old = f
    BY <2>1, Known DEF Calls, Steps
  <2>. HIDE DEF c
  <2>3. Proper(c, Asked(o) \cup {f})
    BY <1>1, <2>1, <2>2 DEF Proper
  <2>4. RowsOK' /\ root' = root /\ commits' = commits
    BY <1>1 DEF Inv, RowsOK, rows
  <2>. QED
    BY <1>1, <2>1, <2>2, <2>3, <2>4, Known, Requests
<1>3. CASE ~HasFolder(b)
  <2>1. (\E pc \in {"reset", "commit"} : Goto(o, pc)) /\ UNCHANGED lockVars
    BY <1>3 DEF Resolve
  <2>2. ASSUME NEW pc \in {"reset", "commit"} PROVE Proper([op[o] EXCEPT !.pc = pc], Asked(o)) /\ pc \in Steps
    BY <1>1, Known DEF Proper, WithBook, Calls, Steps
  <2>. QED
    BY <1>1, <2>1, <2>2, Proceeds, Known DEF rows, RowsOK
<1>. QED
  BY <1>2, <1>3

LEMMA FreshKeeps ==
  ASSUME Inv, NEW o \in Ops, Fresh(o)
  PROVE  Inv' /\ Uses(o)
<1>1. /\ op[o].pc = "fresh" /\ op[o].book \in Books /\ Asked(o) = lock[o].held
      /\ Asked(o) \cap Folders = {op[o].old} /\ UNCHANGED <<rows, commits, begun>>
  BY Known, RunsAsked DEF Fresh, At, Proper, WithBook, Inv
<1>2. CASE path[op[o].book] = op[o].old
  <2>1. (\E pc \in {"reset", "owner"} : Goto(o, pc)) /\ UNCHANGED lockVars
    BY <1>2 DEF Fresh, AfterClaim
  <2>2. ASSUME NEW pc \in {"reset", "owner"} PROVE Proper([op[o] EXCEPT !.pc = pc], Asked(o)) /\ pc \in Steps
    BY <1>1, Known DEF Proper, WithBook, Calls, Steps
  <2>. QED
    BY <1>1, <2>1, <2>2, Proceeds, Known DEF rows, RowsOK
<1>3. CASE path[op[o].book] # op[o].old
  <2>. DEFINE c == [op[o] EXCEPT !.old = None, !.pc = "resolve"]
  <2>1. Release(o, {op[o].old}) /\ op' = [op EXCEPT ![o] = c] /\ {op[o].old} \in SUBSET lock[o].held
    BY <1>1, <1>3 DEF Fresh
  <2>2. c \in Calls /\ c.root = op[o].root /\ c.pc = "resolve" /\ c.book = op[o].book
    BY Known DEF Calls, Steps
  <2>. HIDE DEF c
  <2>3. Proper(c, Asked(o) \ {op[o].old})
    BY <1>1, <2>2 DEF Proper
  <2>4. RowsOK' /\ root' = root /\ commits' = commits
    BY <1>1 DEF Inv, RowsOK, rows
  <2>. QED
    BY <1>1, <2>1, <2>2, <2>3, <2>4, Known, Releases
<1>. QED
  BY <1>2, <1>3

LEMMA ResetKeeps ==
  ASSUME Inv, NEW o \in Ops, Reset(o)
  PROVE  Inv' /\ Uses(o)
<1>1. /\ op[o].pc = "reset" /\ UNCHANGED <<lockVars, content, root, commits, begun>>
      /\ \E pc \in {"leave", "owner"} : Goto(o, pc)
  BY DEF Reset, At
<1>2. path' \in [Books -> Folders \cup {None, Gone}]
  BY Known DEF Reset, RowsOK
<1>3. ASSUME NEW pc \in {"leave", "owner"} PROVE Proper([op[o] EXCEPT !.pc = pc], Asked(o)) /\ pc \in Steps
  BY <1>1, Known DEF Proper, WithBook, Calls, Steps
<1>. QED
  BY <1>1, <1>2, <1>3, Proceeds, Known DEF RowsOK

LEMMA OwnerKeeps ==
  ASSUME Inv, NEW o \in Ops, Owner(o)
  PROVE  Inv' /\ Uses(o)
<1>1. /\ op[o].pc = "owner" /\ UNCHANGED <<lockVars, rows, commits, begun>>
      /\ \E pc \in {"sweep", "commit", "end"} : Goto(o, pc)
  BY DEF Owner, At, AfterSweep
<1>2. ASSUME NEW pc \in {"sweep", "commit", "end"} PROVE Proper([op[o] EXCEPT !.pc = pc], Asked(o)) /\ pc \in Steps
  BY <1>1, Known DEF Proper, WithBook, Calls, Steps
<1>. QED
  BY <1>1, <1>2, Proceeds, Known DEF rows, RowsOK

LEMMA SweepKeeps ==
  ASSUME Inv, NEW o \in Ops, Sweep(o)
  PROVE  Inv' /\ Uses(o)
<1>1. /\ op[o].pc = "sweep" /\ UNCHANGED <<lockVars, path, root, commits, begun>>
      /\ \E pc \in {"commit", "end"} : Goto(o, pc)
  BY DEF Sweep, At, AfterSweep
<1>2. content' \in [Folders -> SUBSET Books]
  BY Known DEF Sweep, RowsOK
<1>3. ASSUME NEW pc \in {"commit", "end"} PROVE Proper([op[o] EXCEPT !.pc = pc], Asked(o)) /\ pc \in Steps
  BY <1>1, Known DEF Proper, WithBook, Calls, Steps
<1>. QED
  BY <1>1, <1>2, <1>3, Proceeds, Known DEF RowsOK

LEMMA CommitDeletionKeeps ==
  ASSUME Inv, NEW o \in Ops, CommitDeletion(o)
  PROVE  Inv' /\ Uses(o)
<1>1. op[o].pc = "commit" /\ UNCHANGED <<lockVars, content, root, commits, begun>> /\ Goto(o, "end")
  BY DEF CommitDeletion, At
<1>2. path' \in [Books -> Folders \cup {None, Gone}]
  BY Known DEF CommitDeletion, RowsOK
<1>3. Proper([op[o] EXCEPT !.pc = "end"], Asked(o)) /\ "end" \in Steps
  BY <1>1, Known DEF Proper, WithBook, Calls, Steps
<1>. QED
  BY <1>1, <1>2, <1>3, Proceeds, Known DEF RowsOK

LEMMA TargetKeeps ==
  ASSUME Inv, NEW o \in Ops, Target(o)
  PROVE  Inv' /\ Uses(o)
<1>. DEFINE b == op[o].book  fs == Under(o, ImportTo[b])
<1>1. /\ op[o].pc = "plan" /\ b \in Books /\ Asked(o) \cap Folders = {}
      /\ UNCHANGED <<lockVars, rows, commits, begun>>
  BY Known DEF Target, At, Proper, WithBook
<1>2. CASE path[b] # Gone /\ fs # {}
  <2>1. PICK f \in fs : op' = [op EXCEPT ![o].old = IF HasFolder(b) THEN path[b] ELSE None,
                                         ![o].new = f, ![o].pc = "stage"]
    BY <1>2 DEF Target
  <2>2. PICK e \in Folders \cup {None} : e = IF HasFolder(b) THEN path[b] ELSE None
    BY DEF HasFolder
  <2>3. f \in Folders
    BY <1>1, FoldersAssumption DEF Under
  <2>. DEFINE c == [op[o] EXCEPT !.old = e, !.new = f, !.pc = "stage"]
  <2>4. op' = [op EXCEPT ![o] = c]
    BY <2>1, <2>2
  <2>5. c \in Calls /\ c.root = op[o].root /\ c.pc = "stage" /\ c.book = b /\ c.new = f
    BY <2>3, Known DEF Calls, Steps
  <2>. HIDE DEF c
  <2>6. Proper(c, Asked(o))
    BY <1>1, <2>3, <2>5 DEF Proper
  <2>7. o \in commits => c.root \in {None, root}
    BY <2>5, Known
  <2>8. /\ path' \in [Books -> Folders \cup {None, Gone}] /\ content' \in [Folders -> SUBSET Books]
        /\ UNCHANGED <<lockVars, root, commits, begun>>
    BY <1>1, Known DEF rows, RowsOK
  <2>. QED
    BY <2>4, <2>5, <2>6, <2>7, <2>8, GoesOn
<1>3. CASE ~(path[b] # Gone /\ fs # {})
  <2>1. Goto(o, "leave")
    BY <1>3 DEF Target
  <2>2. Proper([op[o] EXCEPT !.pc = "leave"], Asked(o)) /\ "leave" \in Steps
    BY <1>1, Known DEF Proper, WithBook, Calls, Steps
  <2>. QED
    BY <1>1, <2>1, <2>2, Proceeds, Known DEF rows, RowsOK
<1>. QED
  BY <1>2, <1>3

LEMMA SwapKeeps ==
  ASSUME Inv, NEW o \in Ops, Swap(o)
  PROVE  Inv' /\ Uses(o)
<1>1. /\ op[o].pc = "stage" /\ UNCHANGED <<lockVars, path, root, commits, begun>>
      /\ \E pc \in {"promote", "leave"} : Goto(o, pc)
  BY DEF Swap, At
<1>2. op[o].new \in Folders /\ op[o].book \in Books
  BY <1>1, Known DEF Proper, WithBook
<1>3. content' \in [Folders -> SUBSET Books]
  BY <1>2, Known DEF Swap, RowsOK
<1>4. ASSUME NEW pc \in {"promote", "leave"} PROVE Proper([op[o] EXCEPT !.pc = pc], Asked(o)) /\ pc \in Steps
  BY <1>1, Known DEF Proper, WithBook, Calls, Steps
<1>. QED
  BY <1>1, <1>3, <1>4, Proceeds, Known DEF RowsOK

LEMMA PromoteKeeps ==
  ASSUME Inv, NEW o \in Ops, Promote(o)
  PROVE  Inv' /\ Uses(o)
<1>1. /\ op[o].pc = "promote" /\ op[o].book \in Books /\ op[o].new \in Folders
      /\ Asked(o) \cap Folders = {} /\ UNCHANGED <<content, root, commits, begun>>
  BY Known DEF Promote, At, Proper, WithBook
<1>2. path' \in [Books -> Folders \cup {None, Gone}]
  BY <1>1, Known DEF Promote, RowsOK
<1>3. CASE op[o].old \in Folders /\ Request(o, {op[o].old}) /\ Goto(o, "owner")
  <2>. DEFINE c == [op[o] EXCEPT !.pc = "owner"]
  <2>1. op' = [op EXCEPT ![o] = c] /\ c \in Calls /\ c.root = op[o].root /\ c.pc = "owner" /\ c.book = op[o].book
    BY <1>3, Known DEF Goto, Calls, Steps
  <2>. HIDE DEF c
  <2>2. Proper(c, Asked(o) \cup {op[o].old})
    BY <1>1, <2>1 DEF Proper
  <2>3. RowsOK' /\ root' = root /\ commits' = commits
    BY <1>1, <1>2 DEF Inv, RowsOK
  <2>4. {op[o].old} \in SUBSET (Books \cup Folders) /\ {op[o].old} \cap Asked(o) = {}
    BY <1>1, <1>3
  <2>. QED
    BY <1>3, <2>1, <2>2, <2>3, <2>4, Known, Requests
<1>4. CASE Goto(o, "leave") /\ UNCHANGED lockVars
  <2>1. Proper([op[o] EXCEPT !.pc = "leave"], Asked(o)) /\ "leave" \in Steps
    BY <1>1, Known DEF Proper, WithBook, Calls, Steps
  <2>. QED
    BY <1>1, <1>2, <1>4, <2>1, Proceeds, Known DEF RowsOK
<1>. QED
  BY <1>3, <1>4 DEF Promote, lockVars

LEMMA BeginBindKeeps ==
  ASSUME Inv, NEW o \in Ops, NEW B \in SUBSET Books, BeginBind(o, B)
  PROVE  Inv' /\ Uses(o)
<1>. DEFINE c == [NoCall EXCEPT !.pc = "bound", !.kind = "bind"]
<1>1. /\ op[o].pc = "idle" /\ begun' = begun + 1 /\ Request(o, B)
      /\ op' = [op EXCEPT ![o] = c] /\ UNCHANGED <<rows, commits>>
  BY DEF BeginBind, Entry
<1>2. Asked(o) = {}
  BY <1>1, Known DEF Proper
<1>3. c \in Calls /\ Proper(c, Asked(o) \cup B) /\ c.root = None
  BY DEF Calls, NoCall, Steps, Kinds, Proper, WithBook
<1>. HIDE DEF c
<1>4. RowsOK'
  BY <1>1 DEF Inv, RowsOK, rows
<1>. QED
  BY <1>1, <1>2, <1>3, <1>4, Requests DEF rows

LEMMA BindKeeps ==
  ASSUME Inv, NEW o \in Ops, Bind(o)
  PROVE  Inv' /\ Uses(o)
<1>1. op[o].pc = "bound" /\ Asked(o) = lock[o].held /\ UNCHANGED <<rows, commits, begun>>
  BY RunsAsked DEF Bind, At, Inv
<1>2. CASE Goto(o, "leave") /\ UNCHANGED lockVars
  <2>1. Proper([op[o] EXCEPT !.pc = "leave"], Asked(o)) /\ "leave" \in Steps
    BY Known DEF Proper, WithBook, Calls, Steps
  <2>. QED
    BY <1>1, <1>2, <2>1, Proceeds, Known DEF rows, RowsOK
<1>3. CASE Widen(o)
  <2>. DEFINE c == [op[o] EXCEPT !.pc = "widen"]
  <2>1. Release(o, lock[o].held) /\ op' = [op EXCEPT ![o] = c]
    BY <1>3 DEF Widen, Goto
  <2>2. c \in Calls /\ c.root = op[o].root /\ c.pc = "widen"
    BY Known DEF Calls, Steps
  <2>. HIDE DEF c
  <2>3. Proper(c, Asked(o) \ lock[o].held)
    BY <1>1, <2>2 DEF Proper, WithBook
  <2>4. RowsOK' /\ root' = root /\ commits' = commits
    BY <1>1 DEF Inv, RowsOK, rows
  <2>. QED
    BY <2>1, <2>2, <2>3, <2>4, Known, Releases
<1>. QED
  BY <1>2, <1>3 DEF Bind, lockVars

LEMMA RebindKeeps ==
  ASSUME Inv, NEW o \in Ops, Rebind(o)
  PROVE  Inv' /\ Uses(o)
<1>. DEFINE c == [op[o] EXCEPT !.pc = "bound"]
<1>1. /\ op[o].pc = "widen" /\ Request(o, Books) /\ op' = [op EXCEPT ![o] = c]
      /\ UNCHANGED <<rows, commits, begun>>
  BY DEF Rebind, At, Goto
<1>2. Asked(o) = {}
  BY <1>1, Known DEF Proper
<1>3. c \in Calls /\ c.root = op[o].root /\ c.pc = "bound"
  BY Known DEF Calls, Steps
<1>. HIDE DEF c
<1>4. Proper(c, Asked(o) \cup Books)
  BY <1>3 DEF Proper, WithBook
<1>5. RowsOK' /\ root' = root /\ commits' = commits
  BY <1>1 DEF Inv, RowsOK, rows
<1>. QED
  BY <1>1, <1>2, <1>3, <1>4, <1>5, Known, Requests

LEMMA BeginWriteKeeps ==
  ASSUME Inv, NEW o \in Ops, BeginWrite(o)
  PROVE  Inv' /\ Uses(o)
<1>1. op[o].pc = "idle" /\ begun' = begun + 1 /\ UNCHANGED <<rows, commits>>
  BY DEF BeginWrite, Entry
<1>2. Asked(o) = {} /\ lock[o].held = {}
  <2>1. Asked(o) = {}
    BY <1>1, Known DEF Proper
  <2>. QED
    BY <2>1 DEF Asked
<1>3. RowsOK' /\ Settings \in Keys
  BY <1>1, KeysFacts DEF Inv, RowsOK, rows
<1>4. CASE GateIdle
  <2>. DEFINE c == [NoCall EXCEPT !.pc = "writing", !.kind = "settings"]
  <2>1. commits = {} /\ Take(o, Settings) /\ op' = [op EXCEPT ![o] = c]
    BY <1>4 DEF BeginWrite
  <2>2. c \in Calls /\ c.pc = "writing"
    BY DEF Calls, NoCall, Steps, Kinds
  <2>. HIDE DEF c
  <2>3. /\ LockInv' /\ Asked(o)' = Asked(o) \cup {Settings}
        /\ \A p \in Ops \ {o} : Asked(p)' = Asked(p)
        /\ \A p \in Ops : lock'[p].need = lock[p].need
    BY <1>2, <1>3, <2>1, TakeAsks DEF Inv
  <2>4. Proper(c, Asked(o)') /\ Settings \notin lock'[o].need
    <3>1. Proper(c, Asked(o) \cup {Settings})
      BY <2>2 DEF Proper, WithBook
    <3>2. Settings \notin lock[o].need
      BY DEF Inv, CallsOK
    <3>. QED
      BY <2>3, <3>1, <3>2
  <2>5. Gate' /\ Registered(o, c)
    BY <1>1, <2>1 DEF Gate, Registered
  <2>6. Inv'
    BY <1>3, <2>1, <2>2, <2>3, <2>4, <2>5, StepKeeps
  <2>7. \E k \in Keys : k \notin lock[o].held /\ Take(o, k)
    BY <1>2, <1>3, <2>1
  <2>. QED
    BY <2>6, <2>7 DEF Uses
<1>5. CASE ~GateIdle
  <2>. DEFINE c == [NoCall EXCEPT !.pc = "queued", !.kind = "settings"]
  <2>1. commits = {} /\ Request(o, {Settings}) /\ op' = [op EXCEPT ![o] = c]
    BY <1>5 DEF BeginWrite, GateIdle, Inv, Gate
  <2>2. c \in Calls /\ c.pc = "queued"
    BY DEF Calls, NoCall, Steps, Kinds
  <2>. HIDE DEF c
  <2>3. First({Settings}) = Settings
    BY FirstKey, KeysFacts
  <2>4. /\ LockInv' /\ Asked(o)' = Asked(o) \cup {Settings} /\ Settings \notin lock'[o].need
        /\ \E C \in SUBSET Keys : C \cap lock[o].held = {} /\ Request(o, C)
        /\ \A p \in Ops \ {o} : Asked(p)' = Asked(p) /\ lock'[p].need = lock[p].need
    <3>1. {Settings} \in SUBSET Keys /\ {Settings} \cap Asked(o) = {}
      BY <1>2, <1>3
    <3>. QED
      BY <2>1, <2>3, <3>1, RequestAsks DEF Inv
  <2>5. Proper(c, Asked(o)')
    <3>1. Proper(c, Asked(o) \cup {Settings})
      BY <2>2 DEF Proper, WithBook
    <3>. QED
      BY <2>4, <3>1
  <2>6. Gate' /\ Registered(o, c)
    BY <1>1, <2>1 DEF Gate, Registered
  <2>7. Inv'
    BY <1>3, <2>1, <2>2, <2>4, <2>5, <2>6, StepKeeps
  <2>. QED
    BY <2>4, <2>7 DEF Uses
<1>. QED
  BY <1>4, <1>5

\* Whoever's turn it is in the queue of settings writes finds nobody registered
LEMMA TurnIsFree ==
  ASSUME Inv, NEW o \in Ops, Runs(o), op[o].pc \in {"queued", "writing"}
  PROVE  commits = {}
<1>1. Settings \in lock[o].held
  BY Known, RunsAsked DEF Inv, Proper
<1>2. tail[Settings] # None
  BY <1>1, AskedHasTail, KeysFacts DEF Inv
<1>. QED
  BY <1>2 DEF Inv, Gate

LEMMA AttemptKeeps ==
  ASSUME Inv, NEW o \in Ops, Attempt(o)
  PROVE  Inv' /\ Uses(o)
<1>1. /\ op[o].pc = "queued" /\ UNCHANGED <<lockVars, rows, commits, begun>>
      /\ \E pc \in {"writing", "leave"} : Goto(o, pc)
  BY DEF Attempt, At
<1>2. ASSUME NEW pc \in {"writing", "leave"} PROVE Proper([op[o] EXCEPT !.pc = pc], Asked(o)) /\ pc \in Steps
  BY <1>1, Known DEF Proper, WithBook, Calls, Steps
<1>. QED
  BY <1>1, <1>2, Proceeds, Known DEF rows, RowsOK

LEMMA WriteKeeps ==
  ASSUME Inv, NEW o \in Ops, Write(o)
  PROVE  Inv' /\ Uses(o)
<1>. DEFINE c == [op[o] EXCEPT !.pc = "leave"]
<1>1. /\ op[o].pc = "writing" /\ Runs(o) /\ UNCHANGED <<lockVars, path, content, commits, begun>>
      /\ root' \in Roots /\ op' = [op EXCEPT ![o] = c]
  BY DEF Write, At, Goto
<1>2. commits = {}
  BY <1>1, TurnIsFree
<1>3. c \in Calls /\ Proper(c, Asked(o))
  BY <1>1, Known DEF Calls, Steps, Proper, WithBook
<1>. HIDE DEF c
<1>4. RowsOK' /\ Gate' /\ Registered(o, c)
  BY <1>1, <1>2 DEF Inv, RowsOK, Gate, Registered
<1>. QED
  BY <1>1, <1>3, <1>4, Goes

LEMMA EndKeeps ==
  ASSUME Inv, NEW o \in Ops, End(o)
  PROVE  Inv' /\ Uses(o)
<1>. DEFINE c == [op[o] EXCEPT !.pc = "leave"]
<1>1. /\ Release(o, lock[o].held \cap Folders) /\ op' = [op EXCEPT ![o] = c]
      /\ UNCHANGED <<rows, commits, begun>>
  BY DEF End, Goto
<1>2. c \in Calls /\ c.root = op[o].root /\ c.pc = "leave"
  BY Known DEF Calls, Steps
<1>. HIDE DEF c
<1>3. Proper(c, Asked(o) \ (lock[o].held \cap Folders))
  BY <1>2 DEF Proper, WithBook
<1>4. RowsOK' /\ root' = root /\ commits' = commits
  BY <1>1 DEF Inv, RowsOK, rows
<1>. QED
  BY <1>1, <1>2, <1>3, <1>4, Known, Releases

LEMMA LeaveKeeps ==
  ASSUME Inv, NEW o \in Ops, Leave(o)
  PROVE  Inv' /\ Uses(o)
<1>1. /\ Release(o, lock[o].held) /\ op' = [op EXCEPT ![o] = NoCall] /\ Asked(o) = lock[o].held
      /\ commits' = commits \ {o} /\ UNCHANGED <<rows, begun>>
  BY RunsAsked DEF Leave, At, Inv
<1>2. NoCall \in Calls /\ Proper(NoCall, Asked(o) \ lock[o].held)
  BY <1>1 DEF NoCall, Calls, Steps, Kinds, Proper, WithBook
<1>3. RowsOK' /\ root' = root
  BY <1>1 DEF Inv, RowsOK, rows
<1>. QED
  BY <1>1, <1>2, <1>3, Releases

-----------------------------------------------------------------------------
LEMMA InitInv == Init => Inv
<1>. SUFFICES ASSUME Init PROVE Inv
  OBVIOUS
<1>1. LockInv
  BY LockInitInv DEF Init
<1>2. ASSUME NEW o \in Ops PROVE Asked(o) = {} /\ Settings \notin lock[o].need
  BY DEF Init, LockInit, NoLock, Asked
<1>3. op \in [Ops -> Calls] /\ \A o \in Ops : Proper(op[o], Asked(o))
  BY <1>2 DEF Init, NoCall, Calls, Steps, Kinds, Proper, WithBook
<1>4. RowsOK
  BY DEF Init, RowsOK
<1>. QED
  BY <1>1, <1>2, <1>3, <1>4 DEF Inv, CallsOK, Gate, Rooted, Init

\* Every step leaves the invariant true, and uses the locks as LockNext allows.
LEMMA NextKeeps ==
  ASSUME Inv, NEW o \in Ops, Start(o) \/ Step(o)
  PROVE  Inv' /\ Uses(o)
<1>1. CASE Start(o)
  BY <1>1, BeginKeeps, BeginBindKeeps, BeginWriteKeeps DEF Start
<1>2. CASE Step(o)
  BY <1>2, GrantKeeps, RegisterKeeps, ReadRootKeeps, PlanKeeps, ApplyKeeps, MoveKeeps, UnlinkKeeps, RepathKeeps,
     HydrateKeeps, ResolveKeeps, FreshKeeps, ResetKeeps, OwnerKeeps, SweepKeeps, CommitDeletionKeeps,
     TargetKeeps, SwapKeeps, PromoteKeeps, BindKeeps, RebindKeeps, AttemptKeeps, WriteKeeps, EndKeeps, LeaveKeeps
     DEF Step
<1>. QED
  BY <1>1, <1>2

LEMMA Stutters ==
  ASSUME Inv, UNCHANGED vars
  PROVE  Inv'
<1>1. LockInv' /\ tail' = tail /\ lock' = lock /\ \A o \in Ops : Asked(o)' = Asked(o)
  BY LocksStay DEF vars, lockVars
<1>. QED
  BY <1>1 DEF Inv, RowsOK, CallsOK, Gate, Rooted, vars

\* What every reachable state satisfies: the locks are well formed, every call has asked only for the
\* keys its step allows, and while a settings write is in the queue nobody is registered.
THEOREM InvHolds == Spec => []Inv
<1>1. Inv /\ [Next]_vars => Inv'
  BY NextKeeps, Stutters DEF Next
<1>. QED
  BY <1>1, InitInv, PTL DEF Spec

\* Every variable keeps its type, for every number of books, folders, roots and calls.
THEOREM TypeCorrect == Spec => []TypeOK
<1>1. Inv => TypeOK
  BY DEF Inv, LockInv, LockTypeOK, RowsOK, CallsOK, TypeOK
<1>. QED
  BY <1>1, InvHolds, PTL

\* The gate of library-root-gate.ts: no settings write overtakes a rename or an import between the root it
\* has read and the path it commits, and a settings write that was let into the queue is not refused at its
\* turn.
THEOREM GateKeeps == Spec => []RootGate
<1>1. Inv => RootGate
  BY TurnIsFree DEF Inv, Rooted, RootGate, At
<1>. QED
  BY <1>1, InvHolds, PTL

\* The calls that move folders use the locks so that no admission lock, claim or place in the settings
\* queue is ever held by two of them.
THEOREM FoldersExclude == Spec => LocksExclude
<1>1. Init => Exclusion!Init
  BY DEF Init, LockInit, Exclusion!Init, NoLock
<1>2. Inv /\ [Next]_vars => [Exclusion!Next]_[o \in Ops |-> lock[o].held]
  <2>. SUFFICES ASSUME Inv, [Next]_vars PROVE [Exclusion!Next]_[o \in Ops |-> lock[o].held]
    OBVIOUS
  <2>1. ASSUME NEW o \in Ops, Uses(o) PROVE [Exclusion!Next]_[p \in Ops |-> lock[p].held]
    BY <2>1, CallerStep, LockStutters DEF Uses, Inv
  <2>2. CASE Next
    BY <2>1, <2>2, NextKeeps DEF Next
  <2>3. CASE UNCHANGED vars
    BY <2>3, LockStutters DEF Inv, vars, lockVars
  <2>. QED
    BY <2>2, <2>3
<1>. QED
  BY <1>1, <1>2, InvHolds, PTL DEF Spec, LocksExclude, Exclusion!Spec

-----------------------------------------------------------------------------
(* The files of a book, while no call is made for it *)

\* Where the templates can place a book
Home(b) == RenameTo[b] \cup ImportTo[b]

\* No import renders a folder that the template can give to another book: an import claims no target
ImportsApart == \A b, c \in Books : b # c => ImportTo[b] \cap Home(c) = {}

\* What a call at a step has locked: its book, the folders it moves, the folder it sweeps
Locked(c, held, asked) ==
  /\ c.pc \in WithBook => c.book \in asked
  /\ c.pc \in WithBook \ {"begin"} => c.book \in held
  /\ c.pc \in {"begin", "resolve"} => c.old = None
  /\ c.pc \in {"apply", "move", "unlink", "repath"} => {c.old, c.new} \subseteq asked \cap Home(c.book)
  /\ c.pc \in {"move", "unlink", "repath"} => {c.old, c.new} \subseteq held
  /\ c.pc \in {"stage", "promote"} => c.new \in ImportTo[c.book] /\ c.old \in Home(c.book) \cup {None}
  /\ c.pc \in {"fresh", "owner", "sweep"} => c.old \in asked \cap Home(c.book)
  /\ c.pc = "reset" => c.old \in (held \cap Home(c.book)) \cup {None}
  /\ c.pc = "sweep" => c.old \in held

\* What it has read of the rows, and is still so: a folder that moves is the book's, and a folder that
\* is swept is nobody else's
Current(c, owns) ==
  /\ c.pc \in {"move", "unlink", "repath"} => owns[c.book] = c.old
  /\ c.pc = "sweep" => \A b \in Books \ {c.book} : owns[b] # c.old

AtHome == \A b \in Books : path[b] \in Home(b) \cup {None, Gone}

Undisturbed == AtHome /\ \A o \in Ops : Locked(op[o], lock[o].held, Asked(o)) /\ Current(op[o], path)

LEMMA HomeIsFolders == \A b \in Books : Home(b) \subseteq Folders /\ ImportTo[b] \subseteq Folders
BY FoldersAssumption DEF Home

LEMMA NotFolders == None \notin Folders /\ Gone \notin Folders /\ \A b \in Books : b \notin Folders
BY KeysFacts, GoneAssumption

\* A key that one call holds no other call holds.
LEMMA HeldOnce ==
  ASSUME Inv, NEW o \in Ops, NEW p \in Ops \ {o}, NEW k \in lock[o].held
  PROVE  k \notin lock[p].held
<1>1. k \in Keys
  BY DEF Inv, LockInv, LockTypeOK, LockStates
<1>. QED
  BY <1>1, OneHolder DEF Inv, Head

\* What a step does to the locks of the other calls: nothing.
LEMMA OthersKeep ==
  ASSUME Inv, NEW o \in Ops, Uses(o)
  PROVE  \A p \in Ops \ {o} : lock'[p].held = lock[p].held /\ Asked(p)' = Asked(p)
<1>0. LockInv
  BY DEF Inv
<1>1. CASE Granted(o)
  BY <1>0, <1>1, GrantedKeeps, GrantedAsks
<1>2. ASSUME NEW K \in SUBSET Keys, K \cap lock[o].held = {}, Request(o, K)
      PROVE  \A p \in Ops \ {o} : lock'[p].held = lock[p].held /\ Asked(p)' = Asked(p)
  <2>1. Asked(o) = lock[o].held
    BY <1>0, <1>2, RunsAsked DEF Request
  <2>2. \A p \in Ops : lock'[p].held = lock[p].held
    BY <1>0, <1>2, RequestKeeps
  <2>3. \A p \in Ops \ {o} : Asked(p)' = Asked(p)
    BY <1>0, <1>2, <2>1, RequestAsks
  <2>. QED
    BY <2>2, <2>3
<1>3. ASSUME NEW k \in Keys, k \notin lock[o].held, Take(o, k)
      PROVE  \A p \in Ops \ {o} : lock'[p].held = lock[p].held /\ Asked(p)' = Asked(p)
  <2>1. Asked(o) = lock[o].held
    BY <1>0, <1>3, RunsAsked DEF Take
  <2>2. \A p \in Ops \ {o} : lock'[p].held = lock[p].held
    BY <1>0, <1>3, TakeKeeps
  <2>3. \A p \in Ops \ {o} : Asked(p)' = Asked(p)
    BY <1>0, <1>3, <2>1, TakeAsks
  <2>. QED
    BY <2>2, <2>3
<1>4. ASSUME NEW K \in SUBSET lock[o].held, Release(o, K)
      PROVE  \A p \in Ops \ {o} : lock'[p].held = lock[p].held /\ Asked(p)' = Asked(p)
  BY <1>0, <1>4, ReleaseKeeps, ReleaseAsks
<1>5. CASE UNCHANGED lockVars
  BY <1>5 DEF lockVars, Asked
<1>. QED
  BY <1>1, <1>2, <1>3, <1>4, <1>5 DEF Uses

\* A row changes only under the lock of its book, to a folder that is claimed or that no other book can
\* have: what the other calls know stays true.
LEMMA StepUndisturbed ==
  ASSUME Inv, Undisturbed, ImportsApart, NEW o \in Ops, Uses(o), NEW c \in Calls, op' = [op EXCEPT ![o] = c],
         Locked(c, lock'[o].held, Asked(o)'), Current(c, path'), AtHome',
         \A b \in Books : path'[b] # path[b] =>
           b \in lock[o].held /\ path'[b] \in lock[o].held \cup ImportTo[b] \cup {None, Gone}
  PROVE  Undisturbed'
<1>1. op' \in [Ops -> Calls] /\ op'[o] = c /\ \A p \in Ops \ {o} : op'[p] = op[p]
  BY DEF Inv, CallsOK
<1>2. ASSUME NEW p \in Ops \ {o} PROVE Locked(op[p], lock[p].held, Asked(p))' /\ Current(op[p], path)'
  <2>1. op'[p] = op[p] /\ lock'[p].held = lock[p].held /\ Asked(p)' = Asked(p)
    BY <1>1, OthersKeep
  <2>2. Locked(op[p], lock[p].held, Asked(p)) /\ Current(op[p], path) /\ op[p] \in Calls /\ Proper(op[p], Asked(p))
    BY Known DEF Undisturbed
  <2>3. Locked(op[p], lock[p].held, Asked(p))'
    BY <2>1, <2>2 DEF Locked
  <2>4. op[p].pc \in {"move", "unlink", "repath"} => path'[op[p].book] = op[p].old
    <3>1. SUFFICES ASSUME op[p].pc \in {"move", "unlink", "repath"} PROVE path'[op[p].book] = path[op[p].book]
      BY <2>2 DEF Current
    <3>2. op[p].book \in Books /\ op[p].book \in lock[p].held
      BY <2>2, <3>1 DEF Locked, WithBook, Proper
    <3>. QED
      BY <3>2, HeldOnce
  <2>5. op[p].pc = "sweep" => \A b \in Books \ {op[p].book} : path'[b] # op[p].old
    <3>1. SUFFICES ASSUME op[p].pc = "sweep", NEW b \in Books, b # op[p].book, path'[b] = op[p].old PROVE FALSE
      OBVIOUS
    <3>2. /\ path[b] # op[p].old /\ op[p].old \in lock[p].held /\ op[p].book \in Books
          /\ op[p].old \in Home(op[p].book)
      BY <2>2, <3>1 DEF Locked, Current, WithBook, Proper
    <3>3. op[p].old \notin lock[o].held
      BY <3>2, HeldOnce
    <3>4. op[p].old \notin ImportTo[b] /\ op[p].old \notin {None, Gone}
      BY <3>1, <3>2, HomeIsFolders, NotFolders DEF ImportsApart
    <3>. QED
      BY <3>1, <3>2, <3>3, <3>4
  <2>6. Current(op[p], path)'
    BY <2>1, <2>4, <2>5 DEF Current
  <2>. QED
    BY <2>3, <2>6
<1>3. Locked(op[o], lock[o].held, Asked(o))' /\ Current(op[o], path)'
  BY <1>1 DEF Locked, Current
<1>. QED
  BY <1>2, <1>3 DEF Undisturbed

\* A call goes to its next step, the locks and the rows stay as they are
LEMMA GoesUndisturbed ==
  ASSUME Inv, Undisturbed, ImportsApart, NEW o \in Ops, UNCHANGED <<lockVars, path>>, NEW c \in Calls,
         op' = [op EXCEPT ![o] = c], Locked(c, lock[o].held, Asked(o)), Current(c, path)
  PROVE  Undisturbed'
<1>1. Uses(o) /\ lock'[o].held = lock[o].held /\ Asked(o)' = Asked(o) /\ AtHome'
  BY DEF Uses, lockVars, Asked, Undisturbed, AtHome
<1>2. Locked(c, lock'[o].held, Asked(o)') /\ Current(c, path')
  BY <1>1 DEF Current
<1>. QED
  BY <1>1, <1>2, StepUndisturbed

LEMMA GotoUndisturbed ==
  ASSUME Inv, Undisturbed, ImportsApart, NEW o \in Ops, UNCHANGED <<lockVars, path>>,
         NEW pc \in Steps, Goto(o, pc),
         Locked([op[o] EXCEPT !.pc = pc], lock[o].held, Asked(o)), Current([op[o] EXCEPT !.pc = pc], path)
  PROVE  Undisturbed'
<1>. DEFINE c == [op[o] EXCEPT !.pc = pc]
<1>1. c \in Calls /\ op' = [op EXCEPT ![o] = c]
  BY Known DEF Goto, Calls
<1>2. Locked(c, lock[o].held, Asked(o)) /\ Current(c, path)
  OBVIOUS
<1>. HIDE DEF c
<1>. QED
  BY <1>1, <1>2, GoesUndisturbed

\* A call that is past its work has nothing to keep
LEMMA PastWork ==
  ASSUME NEW c, NEW held, NEW asked, c.pc \notin WithBook
  PROVE  Locked(c, held, asked) /\ Current(c, path)
BY DEF Locked, Current, WithBook

\* What a call that runs has locked, and has read
LEMMA Has ==
  ASSUME Inv, Undisturbed, NEW o \in Ops
  PROVE  /\ Locked(op[o], lock[o].held, Asked(o)) /\ Current(op[o], path) /\ AtHome
         /\ op[o] \in Calls /\ Proper(op[o], Asked(o)) /\ RowsOK
         /\ Runs(o) => Asked(o) = lock[o].held
BY Known, RunsAsked DEF Undisturbed, Inv

\* The steps that lock or read something and touch no row
LEMMA ReadingUndisturbed ==
  ASSUME Inv, Undisturbed, ImportsApart, NEW o \in Ops,
         \/ Register(o) \/ ReadRoot(o) \/ Apply(o) \/ Move(o) \/ Unlink(o) \/ Hydrate(o) \/ Owner(o)
         \/ Sweep(o) \/ Target(o) \/ Swap(o)
  PROVE  Undisturbed'
<1>1. CASE Register(o)
  <2>1. op[o].pc = "begin" /\ Runs(o) /\ UNCHANGED <<lockVars, path>> /\ Goto(o, "root")
    BY <1>1 DEF Register, At, rows
  <2>2. Locked([op[o] EXCEPT !.pc = "root"], lock[o].held, Asked(o)) /\ Current([op[o] EXCEPT !.pc = "root"], path)
    BY <2>1, Has DEF Locked, Current, WithBook, Calls
  <2>. QED
    BY <2>1, <2>2, GotoUndisturbed DEF Steps
<1>2. CASE ReadRoot(o)
  <2>. DEFINE c == [op[o] EXCEPT !.root = root, !.pc = "plan"]
  <2>1. op[o].pc = "root" /\ UNCHANGED <<lockVars, path>> /\ op' = [op EXCEPT ![o] = c]
    BY <1>2, Has DEF ReadRoot, At, rows
  <2>2. c \in Calls /\ c.pc = "plan" /\ c.book = op[o].book
    BY Has DEF Calls, Steps, RowsOK
  <2>. HIDE DEF c
  <2>3. Locked(c, lock[o].held, Asked(o)) /\ Current(c, path)
    BY <2>1, <2>2, Has DEF Locked, Current, WithBook
  <2>. QED
    BY <2>1, <2>2, <2>3, GoesUndisturbed
<1>3. CASE Apply(o)
  <2>1. op[o].pc = "apply" /\ Runs(o) /\ UNCHANGED <<lockVars, path>>
    BY <1>3 DEF Apply, At, rows
  <2>2. CASE Goto(o, "move") /\ path[op[o].book] = op[o].old
    <3>1. Locked([op[o] EXCEPT !.pc = "move"], lock[o].held, Asked(o)) /\ Current([op[o] EXCEPT !.pc = "move"], path)
      BY <2>1, <2>2, Has DEF Locked, Current, WithBook, Calls
    <3>. QED
      BY <2>1, <2>2, <3>1, GotoUndisturbed DEF Steps
  <2>3. CASE Goto(o, "end")
    <3>1. [op[o] EXCEPT !.pc = "end"].pc \notin WithBook
      BY Has DEF Calls, WithBook
    <3>. QED
      BY <2>1, <2>3, <3>1, PastWork, GotoUndisturbed DEF Steps
  <2>. QED
    BY <1>3, <2>2, <2>3 DEF Apply
<1>4. CASE Move(o) \/ Unlink(o)
  <2>1. op[o].pc \in {"move", "unlink"} /\ UNCHANGED <<lockVars, path>>
    BY <1>4 DEF Move, Unlink, At
  <2>2. \E pc \in {"repath", "unlink", "end"} : Goto(o, pc)
    BY <1>4 DEF Move, Unlink
  <2>3. ASSUME NEW pc \in {"repath", "unlink", "end"}
        PROVE  Locked([op[o] EXCEPT !.pc = pc], lock[o].held, Asked(o)) /\ Current([op[o] EXCEPT !.pc = pc], path)
    BY <2>1, Has DEF Locked, Current, WithBook, Calls
  <2>. QED
    BY <2>1, <2>2, <2>3, GotoUndisturbed DEF Steps
<1>5. CASE Hydrate(o)
  <2>1. op[o].pc = "begin" /\ Runs(o) /\ UNCHANGED <<lockVars, path>>
    BY <1>5 DEF Hydrate, At, rows
  <2>2. \E pc \in {"resolve", "commit", "leave"} : Goto(o, pc)
    BY <1>5 DEF Hydrate
  <2>3. ASSUME NEW pc \in {"resolve", "commit", "leave"}
        PROVE  Locked([op[o] EXCEPT !.pc = pc], lock[o].held, Asked(o)) /\ Current([op[o] EXCEPT !.pc = pc], path)
    BY <2>1, Has DEF Locked, Current, WithBook, Calls
  <2>. QED
    BY <2>1, <2>2, <2>3, GotoUndisturbed DEF Steps
<1>6. CASE Owner(o)
  <2>1. op[o].pc = "owner" /\ Runs(o) /\ UNCHANGED <<lockVars, path>>
    BY <1>6 DEF Owner, At, rows
  <2>2. CASE Goto(o, "sweep") /\ ~OwnedByOther(op[o].old, op[o].book)
    <3>1. Locked([op[o] EXCEPT !.pc = "sweep"], lock[o].held, Asked(o)) /\ Current([op[o] EXCEPT !.pc = "sweep"], path)
      BY <2>1, <2>2, Has DEF Locked, Current, WithBook, Calls, OwnedByOther
    <3>. QED
      BY <2>1, <2>2, <3>1, GotoUndisturbed DEF Steps
  <2>3. ASSUME NEW pc \in {"commit", "end"}, Goto(o, pc) PROVE Undisturbed'
    <3>1. Locked([op[o] EXCEPT !.pc = pc], lock[o].held, Asked(o)) /\ Current([op[o] EXCEPT !.pc = pc], path)
      BY <2>1, Has DEF Locked, Current, WithBook, Calls
    <3>. QED
      BY <2>1, <2>3, <3>1, GotoUndisturbed DEF Steps
  <2>. QED
    BY <1>6, <2>2, <2>3 DEF Owner, MaySweep, AfterSweep
<1>7. CASE Sweep(o)
  <2>1. op[o].pc = "sweep" /\ UNCHANGED <<lockVars, path>>
    BY <1>7 DEF Sweep, At
  <2>2. \E pc \in {"commit", "end"} : Goto(o, pc)
    BY <1>7 DEF Sweep, AfterSweep
  <2>3. ASSUME NEW pc \in {"commit", "end"}
        PROVE  Locked([op[o] EXCEPT !.pc = pc], lock[o].held, Asked(o)) /\ Current([op[o] EXCEPT !.pc = pc], path)
    BY <2>1, Has DEF Locked, Current, WithBook, Calls
  <2>. QED
    BY <2>1, <2>2, <2>3, GotoUndisturbed DEF Steps
<1>8. CASE Target(o)
  <2>. DEFINE b == op[o].book  fs == Under(o, ImportTo[b])
  <2>1. op[o].pc = "plan" /\ b \in Books /\ UNCHANGED <<lockVars, path>>
    BY <1>8, Has DEF Target, At, rows, Proper, WithBook
  <2>2. CASE path[b] # Gone /\ fs # {}
    <3>1. PICK f \in fs : op' = [op EXCEPT ![o].old = IF HasFolder(b) THEN path[b] ELSE None,
                                           ![o].new = f, ![o].pc = "stage"]
      BY <1>8, <2>2 DEF Target
    <3>2. PICK e \in Home(b) \cup {None} : e = IF HasFolder(b) THEN path[b] ELSE None
      BY <2>1, Has, NotFolders DEF HasFolder, AtHome
    <3>3. f \in ImportTo[b] /\ f \in Folders /\ e \in Folders \cup {None}
      BY <2>1, HomeIsFolders DEF Under
    <3>. DEFINE c == [op[o] EXCEPT !.old = e, !.new = f, !.pc = "stage"]
    <3>4. op' = [op EXCEPT ![o] = c]
      BY <3>1, <3>2
    <3>5. c \in Calls /\ c.pc = "stage" /\ c.book = b /\ c.new = f /\ c.old = e
      BY <3>3, Has DEF Calls, Steps
    <3>. HIDE DEF c
    <3>6. Locked(c, lock[o].held, Asked(o)) /\ Current(c, path)
      BY <2>1, <3>3, <3>5, Has DEF Locked, Current, WithBook
    <3>. QED
      BY <2>1, <3>4, <3>5, <3>6, GoesUndisturbed
  <2>3. CASE ~(path[b] # Gone /\ fs # {})
    <3>1. Goto(o, "leave") /\ [op[o] EXCEPT !.pc = "leave"].pc \notin WithBook
      BY <1>8, <2>3, Has DEF Target, Calls, WithBook
    <3>. QED
      BY <2>1, <3>1, PastWork, GotoUndisturbed DEF Steps
  <2>. QED
    BY <2>2, <2>3
<1>9. CASE Swap(o)
  <2>1. op[o].pc = "stage" /\ UNCHANGED <<lockVars, path>>
    BY <1>9 DEF Swap, At
  <2>2. \E pc \in {"promote", "leave"} : Goto(o, pc)
    BY <1>9 DEF Swap
  <2>3. ASSUME NEW pc \in {"promote", "leave"}
        PROVE  Locked([op[o] EXCEPT !.pc = pc], lock[o].held, Asked(o)) /\ Current([op[o] EXCEPT !.pc = pc], path)
    BY <2>1, Has DEF Locked, Current, WithBook, Calls
  <2>. QED
    BY <2>1, <2>2, <2>3, GotoUndisturbed DEF Steps
<1>. QED
  BY <1>1, <1>2, <1>3, <1>4, <1>5, <1>6, <1>7, <1>8, <1>9

\* Calls that are made for no book, and the end of every call
LEMMA PastUndisturbed ==
  ASSUME Inv, Undisturbed, ImportsApart, NEW o \in Ops, Uses(o), path' = path,
         NEW c \in Calls, op' = [op EXCEPT ![o] = c], c.pc \notin WithBook
  PROVE  Undisturbed'
<1>1. AtHome'
  BY DEF Undisturbed, AtHome
<1>2. Locked(c, lock'[o].held, Asked(o)') /\ Current(c, path')
  BY DEF Locked, Current, WithBook
<1>. QED
  BY <1>1, <1>2, StepUndisturbed

LEMMA OtherCallsUndisturbed ==
  ASSUME Inv, Undisturbed, ImportsApart, NEW o \in Ops, Uses(o),
         \/ \E B \in SUBSET Books : BeginBind(o, B)
         \/ BeginWrite(o) \/ Bind(o) \/ Rebind(o) \/ Attempt(o) \/ Write(o) \/ End(o) \/ Leave(o)
  PROVE  Undisturbed'
<1>1. path' = path
  BY DEF BeginBind, BeginWrite, Bind, Rebind, Attempt, Write, End, Leave, rows
<1>2. \/ op' = [op EXCEPT ![o] = [NoCall EXCEPT !.pc = "bound", !.kind = "bind"]]
      \/ op' = [op EXCEPT ![o] = [NoCall EXCEPT !.pc = "writing", !.kind = "settings"]]
      \/ op' = [op EXCEPT ![o] = [NoCall EXCEPT !.pc = "queued", !.kind = "settings"]]
      \/ op' = [op EXCEPT ![o] = NoCall]
      \/ \E pc \in {"leave", "widen", "bound", "writing"} : op' = [op EXCEPT ![o] = [op[o] EXCEPT !.pc = pc]]
  BY DEF BeginBind, BeginWrite, Bind, Widen, Rebind, Attempt, Write, End, Leave, Goto
<1>3. /\ NoCall \in Calls /\ NoCall.pc \notin WithBook
      /\ \A pc \in {"bound", "writing", "queued"}, kind \in {"bind", "settings"} :
           LET c == [NoCall EXCEPT !.pc = pc, !.kind = kind] IN c \in Calls /\ c.pc \notin WithBook
  BY DEF NoCall, Calls, Steps, Kinds, WithBook
<1>4. \A pc \in {"leave", "widen", "bound", "writing"} :
        [op[o] EXCEPT !.pc = pc] \in Calls /\ [op[o] EXCEPT !.pc = pc].pc \notin WithBook
  BY Has DEF Calls, Steps, WithBook
<1>5. \E c \in Calls : op' = [op EXCEPT ![o] = c] /\ c.pc \notin WithBook
  <2>1. CASE \E pc \in {"leave", "widen", "bound", "writing"} : op' = [op EXCEPT ![o] = [op[o] EXCEPT !.pc = pc]]
    BY <1>4, <2>1
  <2>2. CASE op' = [op EXCEPT ![o] = NoCall]
    BY <1>3, <2>2
  <2>3. CASE op' = [op EXCEPT ![o] = [NoCall EXCEPT !.pc = "bound", !.kind = "bind"]]
    BY <1>3, <2>3
  <2>4. CASE op' = [op EXCEPT ![o] = [NoCall EXCEPT !.pc = "writing", !.kind = "settings"]]
    BY <1>3, <2>4
  <2>5. CASE op' = [op EXCEPT ![o] = [NoCall EXCEPT !.pc = "queued", !.kind = "settings"]]
    BY <1>3, <2>5
  <2>6. QED
    BY <1>2, <2>1, <2>2, <2>3, <2>4, <2>5
<1>6. PICK c \in Calls : op' = [op EXCEPT ![o] = c] /\ c.pc \notin WithBook
  BY <1>5
<1>. QED
  BY <1>1, <1>6, PastUndisturbed

\* The keys that a call asks for are added to what it asked for, and it holds what it held
LEMMA AskMore ==
  ASSUME Inv, NEW o \in Ops, NEW K \in SUBSET (Books \cup Folders), K \cap Asked(o) = {}, Request(o, K)
  PROVE  /\ lock'[o].held = lock[o].held /\ Asked(o)' = Asked(o) \cup K
         /\ Asked(o) = lock[o].held
<1>1. K \in SUBSET Keys /\ LockInv
  BY KeysFacts DEF Inv
<1>2. Asked(o) = lock[o].held
  BY <1>1, RunsAsked DEF Request
<1>. QED
  BY <1>1, <1>2, RequestAsks, RequestKeeps

LEMMA GrantUndisturbed ==
  ASSUME Inv, Undisturbed, ImportsApart, NEW o \in Ops, Uses(o), Grant(o)
  PROVE  Undisturbed'
<1>1. Granted(o) /\ op' = op /\ path' = path /\ LockInv
  BY DEF Grant, rows, Inv
<1>2. Asked(o)' = Asked(o) /\ lock[o].held \subseteq lock'[o].held
  BY <1>1, GrantedAsks, GrantedKeeps
<1>3. op' = [op EXCEPT ![o] = op[o]] /\ op[o] \in Calls /\ AtHome'
  BY <1>1, Has DEF Inv, CallsOK, AtHome
<1>4. Locked(op[o], lock'[o].held, Asked(o)')
  BY <1>2, Has DEF Locked
<1>5. Current(op[o], path')
  BY <1>1, Has
<1>. QED
  BY <1>1, <1>3, <1>4, <1>5, StepUndisturbed

LEMMA BeginUndisturbed ==
  ASSUME Inv, Undisturbed, ImportsApart, NEW o \in Ops, Uses(o), NEW b \in Books,
         NEW kind \in {"rename", "delete", "reject", "import"}, Begin(o, kind, b)
  PROVE  Undisturbed'
<1>. DEFINE c == [NoCall EXCEPT !.pc = "begin", !.kind = kind, !.book = b]
<1>1. op[o].pc = "idle" /\ Request(o, {b}) /\ op' = [op EXCEPT ![o] = c] /\ path' = path
  BY DEF Begin, Entry, rows
<1>2. Asked(o) = {}
  BY <1>1, Known DEF Proper
<1>3. Asked(o)' = {b}
  BY <1>1, <1>2, AskMore
<1>4. c \in Calls /\ c.pc = "begin" /\ c.book = b /\ c.old = None
  BY KeysFacts DEF Calls, NoCall, Steps, Kinds
<1>. HIDE DEF c
<1>5. Locked(c, lock'[o].held, Asked(o)') /\ Current(c, path') /\ AtHome'
  BY <1>1, <1>3, <1>4, Has DEF Locked, Current, AtHome
<1>. QED
  BY <1>1, <1>4, <1>5, StepUndisturbed

LEMMA PlanUndisturbed ==
  ASSUME Inv, Undisturbed, ImportsApart, NEW o \in Ops, Uses(o), Plan(o)
  PROVE  Undisturbed'
<1>. DEFINE b == op[o].book
<1>1. op[o].pc = "plan" /\ b \in Books /\ Asked(o) \cap Folders = {} /\ path' = path
  BY Known DEF Plan, At, Proper, WithBook, rows
<1>2. CASE HasFolder(b)
  <2>1. PICK f \in Under(o, RenameTo[b]) \cup {path[b]} :
          /\ Request(o, {path[b], f})
          /\ op' = [op EXCEPT ![o].old = path[b], ![o].new = f, ![o].pc = "apply"]
    BY <1>2 DEF Plan, ClaimKeys
  <2>2. path[b] \in Folders /\ path[b] \in Home(b) /\ f \in Folders /\ f \in Home(b)
    BY <1>1, <1>2, Has, NotFolders, HomeIsFolders DEF HasFolder, Under, AtHome, Home
  <2>. DEFINE c == [op[o] EXCEPT !.old = path[b], !.new = f, !.pc = "apply"]
  <2>3. op' = [op EXCEPT ![o] = c]
    BY <2>1
  <2>4. c \in Calls /\ c.pc = "apply" /\ c.book = b /\ c.old = path[b] /\ c.new = f
    BY <2>2, Known DEF Calls, Steps
  <2>. HIDE DEF c
  <2>5. lock'[o].held = lock[o].held /\ Asked(o)' = Asked(o) \cup {path[b], f}
    BY <1>1, <2>1, <2>2, AskMore
  <2>6. Locked(c, lock'[o].held, Asked(o)') /\ Current(c, path') /\ AtHome'
    BY <1>1, <2>2, <2>4, <2>5, Has DEF Locked, Current, AtHome, WithBook
  <2>. QED
    BY <1>1, <2>3, <2>4, <2>6, StepUndisturbed
<1>3. CASE ~HasFolder(b)
  <2>1. Goto(o, "leave") /\ UNCHANGED lockVars /\ [op[o] EXCEPT !.pc = "leave"].pc \notin WithBook
    BY <1>3, Has DEF Plan, Calls, WithBook
  <2>. QED
    BY <1>1, <2>1, PastWork, GotoUndisturbed DEF Steps
<1>. QED
  BY <1>2, <1>3

LEMMA ResolveUndisturbed ==
  ASSUME Inv, Undisturbed, ImportsApart, NEW o \in Ops, Uses(o), Resolve(o)
  PROVE  Undisturbed'
<1>. DEFINE b == op[o].book
<1>1. op[o].pc = "resolve" /\ b \in Books /\ Asked(o) \cap Folders = {} /\ path' = path
  BY Known DEF Resolve, At, Proper, WithBook, rows
<1>2. CASE HasFolder(b)
  <2>. DEFINE f == path[b]
  <2>. DEFINE c == [op[o] EXCEPT !.old = f, !.pc = "fresh"]
  <2>1. f \in Folders /\ f \in Home(b) /\ Request(o, {f}) /\ op' = [op EXCEPT ![o] = c]
    BY <1>1, <1>2, Has, NotFolders DEF Resolve, HasFolder, AtHome
  <2>2. c \in Calls /\ c.pc = "fresh" /\ c.book = b /\ c.old = f
    BY <2>1, Known DEF Calls, Steps
  <2>. HIDE DEF c
  <2>3. lock'[o].held = lock[o].held /\ Asked(o)' = Asked(o) \cup {f}
    BY <1>1, <2>1, AskMore
  <2>4. Locked(c, lock'[o].held, Asked(o)') /\ Current(c, path') /\ AtHome'
    BY <1>1, <2>1, <2>2, <2>3, Has DEF Locked, Current, AtHome, WithBook
  <2>. QED
    BY <1>1, <2>1, <2>2, <2>4, StepUndisturbed
<1>3. CASE ~HasFolder(b)
  <2>1. (\E pc \in {"reset", "commit"} : Goto(o, pc)) /\ UNCHANGED lockVars
    BY <1>3 DEF Resolve
  <2>2. ASSUME NEW pc \in {"reset", "commit"}
        PROVE  Locked([op[o] EXCEPT !.pc = pc], lock[o].held, Asked(o)) /\ Current([op[o] EXCEPT !.pc = pc], path)
    BY <1>1, Has DEF Locked, Current, WithBook, Calls
  <2>. QED
    BY <1>1, <2>1, <2>2, GotoUndisturbed DEF Steps
<1>. QED
  BY <1>2, <1>3

LEMMA FreshUndisturbed ==
  ASSUME Inv, Undisturbed, ImportsApart, NEW o \in Ops, Uses(o), Fresh(o)
  PROVE  Undisturbed'
<1>1. /\ op[o].pc = "fresh" /\ op[o].book \in Books /\ Asked(o) = lock[o].held
      /\ op[o].old \in Folders /\ op[o].old \in lock[o].held /\ path' = path
  BY Known, RunsAsked DEF Fresh, At, Proper, WithBook, Inv, rows
<1>2. CASE path[op[o].book] = op[o].old
  <2>1. (\E pc \in {"reset", "owner"} : Goto(o, pc)) /\ UNCHANGED lockVars
    BY <1>2 DEF Fresh, AfterClaim
  <2>2. ASSUME NEW pc \in {"reset", "owner"}
        PROVE  Locked([op[o] EXCEPT !.pc = pc], lock[o].held, Asked(o)) /\ Current([op[o] EXCEPT !.pc = pc], path)
    BY <1>1, Has DEF Locked, Current, WithBook, Calls
  <2>. QED
    BY <1>1, <2>1, <2>2, GotoUndisturbed DEF Steps
<1>3. CASE path[op[o].book] # op[o].old
  <2>. DEFINE c == [op[o] EXCEPT !.old = None, !.pc = "resolve"]
  <2>1. Release(o, {op[o].old}) /\ op' = [op EXCEPT ![o] = c] /\ {op[o].old} \in SUBSET lock[o].held
    BY <1>1, <1>3 DEF Fresh
  <2>2. c \in Calls /\ c.pc = "resolve" /\ c.book = op[o].book /\ c.old = None
    BY Known DEF Calls, Steps
  <2>. HIDE DEF c
  <2>3. lock'[o].held = lock[o].held \ {op[o].old} /\ Asked(o)' = Asked(o) \ {op[o].old}
    BY <2>1, ReleaseKeeps, ReleaseAsks DEF Inv
  <2>4. op[o].book # op[o].old
    BY <1>1, NotFolders
  <2>5. Locked(c, lock'[o].held, Asked(o)') /\ Current(c, path') /\ AtHome'
    BY <1>1, <2>2, <2>3, <2>4, Has DEF Locked, Current, AtHome, WithBook
  <2>. QED
    BY <1>1, <2>1, <2>2, <2>5, StepUndisturbed
<1>. QED
  BY <1>2, <1>3

\* The steps that write a row: under the lock of its book
LEMMA RowUndisturbed ==
  ASSUME Inv, Undisturbed, ImportsApart, NEW o \in Ops, Uses(o),
         Repath(o) \/ Reset(o) \/ CommitDeletion(o) \/ Promote(o)
  PROVE  Undisturbed'
<1>. DEFINE b == op[o].book
<1>1. b \in Books /\ b \in lock[o].held
  BY Has DEF Repath, Reset, CommitDeletion, Promote, At, Locked, Proper, WithBook
<1>2. CASE Repath(o)
  <2>1. op[o].pc = "repath" /\ UNCHANGED lockVars /\ op[o].new \in lock[o].held /\ op[o].new \in Home(b)
    BY <1>2, Has DEF Repath, At, Locked
  <2>. DEFINE c == [op[o] EXCEPT !.pc = "end"]
  <2>2. c \in Calls /\ op' = [op EXCEPT ![o] = c] /\ c.pc \notin WithBook
    BY <1>2, Has DEF Repath, Goto, Calls, Steps, WithBook
  <2>. HIDE DEF c
  <2>3. \A k \in Books : path'[k] # path[k] => k = b /\ path'[k] = op[o].new
    BY <1>2, Has DEF Repath, RowsOK
  <2>4. AtHome' /\ Locked(c, lock'[o].held, Asked(o)') /\ Current(c, path')
    BY <2>1, <2>2, <2>3, Has DEF AtHome, Locked, Current, WithBook
  <2>. QED
    BY <1>1, <2>1, <2>2, <2>3, <2>4, StepUndisturbed
<1>3. CASE Reset(o)
  <2>1. op[o].pc = "reset" /\ UNCHANGED lockVars /\ path' = [path EXCEPT ![b] = None]
    BY <1>3 DEF Reset, At
  <2>2. PICK pc \in {"leave", "owner"} : Goto(o, pc) /\ (pc = "owner" => op[o].old # None)
    BY <1>3 DEF Reset
  <2>. DEFINE c == [op[o] EXCEPT !.pc = pc]
  <2>3. c \in Calls /\ op' = [op EXCEPT ![o] = c] /\ c.pc = pc /\ c.book = b /\ c.old = op[o].old
    BY <2>2, Has DEF Goto, Calls, Steps
  <2>. HIDE DEF c
  <2>4. \A k \in Books : path'[k] # path[k] => k = b /\ path'[k] = None
    BY <2>1, Has DEF RowsOK
  <2>5. lock'[o].held = lock[o].held /\ Asked(o)' = Asked(o) /\ lock[o].held \subseteq Asked(o)
    BY <2>1 DEF lockVars, Asked
  <2>6. AtHome' /\ Locked(c, lock'[o].held, Asked(o)') /\ Current(c, path')
    BY <2>1, <2>2, <2>3, <2>4, <2>5, Has DEF AtHome, Locked, Current, WithBook
  <2>. QED
    BY <1>1, <2>3, <2>4, <2>6, StepUndisturbed
<1>4. CASE CommitDeletion(o)
  <2>1. UNCHANGED lockVars /\ path' = [path EXCEPT ![b] = Gone]
    BY <1>4 DEF CommitDeletion, At
  <2>. DEFINE c == [op[o] EXCEPT !.pc = "end"]
  <2>2. c \in Calls /\ op' = [op EXCEPT ![o] = c] /\ c.pc \notin WithBook
    BY <1>4, Has DEF CommitDeletion, Goto, Calls, Steps, WithBook
  <2>. HIDE DEF c
  <2>3. \A k \in Books : path'[k] # path[k] => k = b /\ path'[k] = Gone
    BY <2>1, Has DEF RowsOK
  <2>4. AtHome' /\ Locked(c, lock'[o].held, Asked(o)') /\ Current(c, path')
    BY <2>2, <2>3, Has DEF AtHome, Locked, Current, WithBook
  <2>. QED
    BY <1>1, <2>2, <2>3, <2>4, StepUndisturbed
<1>5. CASE Promote(o)
  <2>1. /\ op[o].pc = "promote" /\ op[o].new \in ImportTo[b] /\ op[o].old \in Home(b) \cup {None}
        /\ Asked(o) \cap Folders = {}
    BY <1>5, Has DEF Promote, At, Locked, Proper
  <2>2. \A k \in Books : path'[k] # path[k] => k = b /\ path'[k] = op[o].new
    BY <1>5, Has DEF Promote, RowsOK
  <2>3. AtHome'
    BY <2>1, <2>2, Has DEF AtHome, Home
  <2>4. CASE op[o].old \in Folders /\ Request(o, {op[o].old}) /\ Goto(o, "owner")
    <3>. DEFINE c == [op[o] EXCEPT !.pc = "owner"]
    <3>1. op' = [op EXCEPT ![o] = c] /\ c \in Calls /\ c.pc = "owner" /\ c.book = b /\ c.old = op[o].old
      BY <2>4, Known DEF Goto, Calls, Steps
    <3>. HIDE DEF c
    <3>2. lock'[o].held = lock[o].held /\ Asked(o)' = Asked(o) \cup {op[o].old} /\ Asked(o) = lock[o].held
      BY <2>1, <2>4, AskMore
    <3>3. op[o].old \in Home(b)
      BY <2>1, <2>4, NotFolders
    <3>4. Locked(c, lock'[o].held, Asked(o)') /\ Current(c, path')
      BY <1>1, <3>1, <3>2, <3>3 DEF Locked, Current, WithBook
    <3>. QED
      BY <1>1, <2>1, <2>2, <2>3, <3>1, <3>4, StepUndisturbed
  <2>5. CASE Goto(o, "leave")
    <3>. DEFINE c == [op[o] EXCEPT !.pc = "leave"]
    <3>1. op' = [op EXCEPT ![o] = c] /\ c \in Calls /\ c.pc \notin WithBook
      BY <2>5, Known DEF Goto, Calls, Steps, WithBook
    <3>. HIDE DEF c
    <3>2. Locked(c, lock'[o].held, Asked(o)') /\ Current(c, path')
      BY <3>1 DEF Locked, Current, WithBook
    <3>. QED
      BY <1>1, <2>1, <2>2, <2>3, <3>1, <3>2, StepUndisturbed
  <2>. QED
    BY <1>5, <2>4, <2>5 DEF Promote
<1>. QED
  BY <1>2, <1>3, <1>4, <1>5

LEMMA InitUndisturbed == Init => Undisturbed
<1>1. Init => AtHome
  BY DEF Init, AtHome, Home
<1>2. Init => op = [o \in Ops |-> NoCall] /\ NoCall.pc = "idle"
  BY DEF Init, NoCall
<1>3. "idle" \notin WithBook
  BY DEF WithBook
<1>. QED
  BY <1>1, <1>2, <1>3 DEF Undisturbed, Locked, Current, WithBook

LEMMA NextUndisturbed == ImportsApart /\ Inv /\ Undisturbed /\ [Next]_vars => Undisturbed'
<1>. SUFFICES ASSUME ImportsApart, Inv, Undisturbed, [Next]_vars PROVE Undisturbed'
  OBVIOUS
<1>1. ASSUME NEW o \in Ops, Start(o) PROVE Undisturbed'
  <2>1. Uses(o)
    BY <1>1, NextKeeps
  <2>. QED
    BY <1>1, <2>1, BeginUndisturbed, OtherCallsUndisturbed DEF Start
<1>2. ASSUME NEW o \in Ops, Step(o) PROVE Undisturbed'
  <2>1. Uses(o)
    BY <1>2, NextKeeps
  <2>. QED
    BY <1>2, <2>1, GrantUndisturbed, ReadingUndisturbed, PlanUndisturbed, ResolveUndisturbed, FreshUndisturbed,
       RowUndisturbed, OtherCallsUndisturbed DEF Step
<1>3. CASE UNCHANGED vars
  <2>1. op' = op /\ lock' = lock /\ path' = path
    BY <1>3 DEF vars, rows, lockVars
  <2>. QED
    BY <2>1 DEF Undisturbed, AtHome, Asked, Current
<1>. QED
  BY <1>1, <1>2, <1>3 DEF Next

\* What a step takes from a folder is not the files of a book that nobody works on
LEMMA FilesStayInStep ==
  ASSUME ImportsApart, Inv, Undisturbed, NEW o \in Ops, Step(o),
         NEW b \in Books \ Busy, HasFolder(b), b \in content[path[b]], ~OwnedByOther(path[b], b)
  PROVE  b \in content'[path[b]]
<1>1. /\ path[b] \in Folders /\ path[b] \in Home(b) /\ op[o].book # b
      /\ \A c \in Books \ {b} : path[c] # path[b]
  BY Has, NotFolders DEF HasFolder, AtHome, Busy, OwnedByOther
<1>2. content \in [Folders -> SUBSET Books]
  BY Has DEF RowsOK
<1>3. CASE Move(o)
  <2>1. op[o].pc = "move" /\ op[o].book \in Books /\ op[o].old \in Folders /\ op[o].new \in Folders
    BY <1>3, Has DEF Move, At, Proper, WithBook
  <2>2. op[o].old # path[b]
    BY <1>1, <2>1, Has DEF Current
  <2>. QED
    BY <1>1, <1>2, <1>3, <2>1, <2>2 DEF Move
<1>4. CASE Unlink(o)
  <2>1. op[o].pc = "unlink" /\ op[o].book \in Books
    BY <1>4, Has DEF Unlink, At, Proper, WithBook
  <2>2. op[o].old # path[b]
    BY <1>1, <2>1, Has DEF Current
  <2>. QED
    BY <1>1, <1>2, <1>4, <2>2 DEF Unlink
<1>5. CASE Sweep(o)
  <2>1. op[o].pc = "sweep"
    BY <1>5 DEF Sweep, At
  <2>2. op[o].old # path[b]
    BY <1>1, <2>1, Has DEF Current
  <2>. QED
    BY <1>1, <1>2, <1>5, <2>2 DEF Sweep
<1>6. CASE Swap(o)
  <2>1. op[o].pc = "stage" /\ op[o].book \in Books /\ op[o].new \in ImportTo[op[o].book]
    BY <1>6, Has DEF Swap, At, Proper, WithBook, Locked
  <2>2. op[o].new # path[b]
    BY <1>1, <2>1 DEF ImportsApart
  <2>. QED
    BY <1>1, <1>2, <1>6, <2>2 DEF Swap
<1>7. CASE content' = content
  BY <1>7
<1>. QED
  BY <1>3, <1>4, <1>5, <1>6, <1>7 DEF Step, Grant, Register, ReadRoot, Plan, Apply, Repath, Hydrate, Resolve, Fresh,
     Reset, Owner, CommitDeletion, Target, Promote, Bind, Rebind, Attempt, Write, End, Leave, rows

\* Whatever is renamed, swept, imported, cleaned or swapped for other books, and whatever was read before
\* which lock: the files of a folder that one row names stay, provided that no import renders a folder that
\* another book's template can name.  That proviso is what the claim of an import's target would make
\* superfluous: without it TLC finds the files gone.
THEOREM FilesAreLeft == ImportsApart => (Spec => FilesStay)
<1>. SUFFICES ASSUME ImportsApart PROVE Spec => FilesStay
  OBVIOUS
<1>. DEFINE Stay == \A b \in Books \ Busy :
       HasFolder(b) /\ b \in content[path[b]] /\ ~OwnedByOther(path[b], b) => b \in content'[path[b]]
<1>1. Inv /\ [Next]_vars => Inv'
  BY NextKeeps, Stutters DEF Next
<1>2. Inv /\ Undisturbed /\ [Next]_vars => Undisturbed'
  BY NextUndisturbed
<1>3. Inv /\ Undisturbed /\ [Next]_vars => [Stay]_vars
  <2>. SUFFICES ASSUME Inv, Undisturbed, Next PROVE Stay
    OBVIOUS
  <2>1. PICK o \in Ops : Start(o) \/ Step(o)
    BY DEF Next
  <2>2. CASE Start(o)
    <3>1. content' = content
      BY <2>2 DEF Start, Begin, BeginBind, BeginWrite, rows
    <3>. QED
      BY <3>1
  <2>3. CASE Step(o)
    BY <2>3, FilesStayInStep
  <2>. QED
    BY <2>1, <2>2, <2>3
<1>. QED
  BY <1>1, <1>2, <1>3, InitInv, InitUndisturbed, PTL DEF Spec, FilesStay
=============================================================================

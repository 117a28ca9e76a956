------------------------ MODULE WeakTableAndQueueProofs -----------------------
(***************************************************************************)
(* Proofs about ThreadSafeQueue and about WeakHashtbl, whose queue of keys *)
(* with unused data is one: the two models have no variable in common.     *)
(***************************************************************************)
EXTENDS ThreadSafeQueue, WeakHashtbl, Integers, FiniteSetTheorems, SequenceTheorems,
        WellFoundedInduction, TLAPS

-----------------------------------------------------------------------------
(***************************************************************************)
(* ThreadSafeQueue, for any finite set of elements and any                 *)
(* sets of threads and values.  The inductive invariant says that there    *)
(* are two paths along next, one from the front to the back and one        *)
(* through the pool to NoElt, which visit no element twice and have none   *)
(* in common; it says nothing of where the back points.  Each operation    *)
(* is shown to give two such paths from the two there were, and the values *)
(* along the first are the contents of the queue.                          *)
(***************************************************************************)

Memory == Elts \cup {NoElt}

N == Cardinality(Elts)

(* p leads through the n elements with a value from fr to bk.              *)
ListPath(p, n, nx, val, fr, bk) ==
  /\ p \in [0..n -> Elts]
  /\ p[0] = fr /\ p[n] = bk
  /\ \A i \in 0..n - 1 : nx[p[i]] = p[i + 1] /\ val[p[i]] # NoValue
  /\ \A i, j \in 0..n : p[i] = p[j] => i = j
  /\ val[bk] = NoValue

(* q leads through the m elements of the pool, which ends.                 *)
PoolPath(q, m, nx, val, un) ==
  /\ q \in [0..m -> Memory]
  /\ q[0] = un /\ q[m] = NoElt
  /\ \A i \in 0..m - 1 : q[i] \in Elts /\ nx[q[i]] = q[i + 1] /\ val[q[i]] = NoValue
  /\ \A i, j \in 0..m : q[i] = q[j] => i = j

Apart(p, n, q, m) == \A i \in 0..n, j \in 0..m : p[i] # q[j]

Layout(p, q, m, n, nx, val, fr, bk, un) ==
  ListPath(p, n, nx, val, fr, bk) /\ PoolPath(q, m, nx, val, un) /\ Apart(p, n, q, m)

QueueInv ==
  /\ TypeOK
  /\ next[NoElt] = NoElt
  /\ \E m \in Nat : \E p \in [0..length -> Elts], q \in [0..m -> Memory] :
        Layout(p, q, m, length, next, value, front, back, unused_elts)

-----------------------------------------------------------------------------
(***************************************************************************)
(* Walking through the elements.                                           *)
(***************************************************************************)
LEMMA SizeType == N \in Nat
  BY ThreadSafeQueueAssumption, FS_CardinalityType DEF N

(* Induction over the natural numbers, as a fact about sets. *)
LEMMA LeastElement ==
  ASSUME NEW S \in SUBSET Nat, S # {}
  PROVE  \E n \in S : \A m \in S : n <= m
<1>1. IsWellFoundedOn(OpToRel(<, Nat), Nat)
  BY NatLessThanWellFounded, Zenon
<1>2. PICK n \in S : \A m \in S : <<m, n>> \notin OpToRel(<, Nat)
  BY <1>1, WFMin, Zenon
<1>3. \A m \in S : ~ (m < n)
  BY <1>2, Zenon DEF OpToRel
<1>4. \A m \in S : m \in Nat /\ n \in Nat
  BY <1>2
<1>5. \A m \in S : n <= m
  BY <1>3, <1>4
<1> QED
  BY <1>2, <1>5

(* The recursive function that From unfolds exists.                        *)
LEMMA WalkExists ==
  ASSUME NEW X, NEW nx \in [X -> X], NEW e \in X, NEW n \in Nat
  PROVE  \E f : f = [i \in 0..n |-> IF i = 0 THEN e ELSE nx[f[i - 1]]]
<1> DEFINE Walks(k, f) == /\ f \in [0..k -> X]
                          /\ f[0] = e
                          /\ \A i \in 1..k : f[i] = nx[f[i - 1]]
           Lacking == {k \in Nat : ~ \E f : Walks(k, f)}
<1>1. Lacking = {}
  <2> SUFFICES ASSUME Lacking # {}
               PROVE  FALSE
    OBVIOUS
  <2>1. PICK k \in Lacking : \A j \in Lacking : k <= j
    <3>1. Lacking \in SUBSET Nat
      OBVIOUS
    <3> HIDE DEF Lacking
    <3> QED
      BY <3>1, LeastElement
  <2>2. k # 0
    <3>1. Walks(0, [i \in 0..0 |-> e])
      OBVIOUS
    <3> QED
      BY <2>1, <3>1
  <2>3. k - 1 \in Nat /\ k - 1 \notin Lacking
    BY <2>1, <2>2
  <2>4. PICK f : Walks(k - 1, f)
    BY <2>3
  <2> DEFINE g == [i \in 0..k |-> IF i = k THEN nx[f[k - 1]] ELSE f[i]]
  <2>5. Walks(k, g)
    BY <2>3, <2>4
  <2> QED
    BY <2>1, <2>5
<1>2. PICK f : Walks(n, f)
  BY <1>1
<1>3. f = [i \in 0..n |-> IF i = 0 THEN e ELSE nx[f[i - 1]]]
  BY <1>2
<1> QED
  BY <1>3

(* From(e) is that function: it starts at e and follows next.              *)
LEMMA FromUnfolds ==
  TypeOK => \A e \in Memory : From(e) = [i \in 0..N |-> IF i = 0 THEN e ELSE next[From(e)[i - 1]]]
<1> SUFFICES ASSUME TypeOK, NEW e \in Memory
             PROVE  From(e) = [i \in 0..N |-> IF i = 0 THEN e ELSE next[From(e)[i - 1]]]
  OBVIOUS
<1>1. next \in [Memory -> Memory]
  BY DEF TypeOK, Memory
<1>2. \E f : f = [i \in 0..N |-> IF i = 0 THEN e ELSE next[f[i - 1]]]
  BY <1>1, WalkExists, SizeType
<1> QED
  BY <1>2 DEF From, N

LEMMA FrontUnfoldsNext ==
  ASSUME TypeOK'
  PROVE  From(front)' = [i \in 0..N |-> IF i = 0 THEN front' ELSE next'[From(front)'[i - 1]]]
<1>1. next' \in [Memory -> Memory] /\ front' \in Memory
  BY DEF TypeOK, Memory
<1>2. \E f : f = [i \in 0..N |-> IF i = 0 THEN front' ELSE next'[f[i - 1]]]
  BY <1>1, WalkExists, SizeType
<1> QED
  BY <1>2 DEF From, N

(* Where nx leads, the recursive function goes.                            *)
Walks(f, nx, e) == f[0] = e /\ \A i \in 1..N : f[i] = nx[f[i - 1]]

Leads(p, k, nx, e) == p[0] = e /\ \A i \in 0..k - 1 : nx[p[i]] = p[i + 1]

LEMMA WalkFollows ==
  ASSUME NEW nx, NEW e, NEW f, Walks(f, nx, e), NEW k \in 0..N, NEW p, Leads(p, k, nx, e)
  PROVE  \A i \in 0..k : f[i] = p[i]
<1> USE DEF Walks, Leads
<1> DEFINE Strays == {i \in Nat : i <= k /\ f[i] # p[i]}
<1>0. N \in Nat /\ k \in Nat /\ k <= N
  BY SizeType
<1>a. ASSUME Strays = {}, NEW i \in 0..k
      PROVE  f[i] = p[i]
  <2>1. i \notin Strays
    <3> HIDE DEF Strays
    <3> QED
      BY <1>a
  <2>2. i \in Nat /\ i <= k
    BY <1>0, <1>a
  <2> QED
    BY <2>1, <2>2
<1> SUFFICES ASSUME Strays # {}
             PROVE  FALSE
  BY <1>a
<1>1. PICK i \in Strays : \A j \in Strays : i <= j
  <2>1. Strays \in SUBSET Nat
    OBVIOUS
  <2> HIDE DEF Strays
  <2> QED
    BY <2>1, LeastElement
<1>2. N \in Nat /\ k \in Nat /\ k <= N /\ i \in Nat /\ i <= k /\ f[i] # p[i]
  BY <1>0, <1>1
<1>3. i # 0
  BY <1>2
<1>4. i - 1 \in 0..k - 1 /\ f[i - 1] = p[i - 1]
  <2>1. i - 1 \in Nat /\ i - 1 <= k - 1 /\ ~ (i <= i - 1)
    BY <1>2, <1>3
  <2>2. i - 1 \notin Strays
    BY <1>1, <2>1
  <2> QED
    BY <1>2, <2>1, <2>2
<1>5. f[i] = nx[f[i - 1]]
  BY <1>2, <1>3
<1>6. nx[p[i - 1]] = p[(i - 1) + 1] /\ (i - 1) + 1 = i
  BY <1>2, <1>4
<1> QED
  BY <1>2, <1>4, <1>5, <1>6

(* A path that visits no element twice is no longer than memory allows.    *)
LEMMA ListFits ==
  ASSUME NEW n \in Nat, NEW p, NEW nx, NEW val, NEW fr, NEW bk, ListPath(p, n, nx, val, fr, bk)
  PROVE  n + 1 <= N
<1>1. p \in Injection(0..n, Elts)
  BY DEF ListPath, Injection, IsInjective
<1>2. Cardinality(0..n) <= N
  BY <1>1, FS_Injection, ThreadSafeQueueAssumption DEF N
<1> QED
  BY <1>2, FS_Interval

LEMMA PoolFits ==
  ASSUME NEW m \in Nat, NEW q, NEW nx, NEW val, NEW un, PoolPath(q, m, nx, val, un)
  PROVE  m <= N
<1>1. q \in Injection(0..m, Memory)
  BY DEF PoolPath, Injection, IsInjective
<1>2. IsFiniteSet(Memory) /\ Cardinality(Memory) = N + 1
  BY FS_AddElement, ThreadSafeQueueAssumption DEF N, Memory
<1>3. Cardinality(0..m) <= N + 1
  BY <1>1, <1>2, FS_Injection
<1> QED
  BY <1>3, FS_Interval, SizeType

-----------------------------------------------------------------------------
(***************************************************************************)
(* What the operations do to the list and to the pool.                     *)
(***************************************************************************)
(* The fields of the elements a to b of p stay the same.                   *)
Kept(p, a, b, nx, val, nx2, val2) ==
  \A i \in a..b : nx2[p[i]] = nx[p[i]] /\ val2[p[i]] = val[p[i]]

Avoids(p, n, e) == \A i \in 0..n : p[i] # e

(* r is p with e at its end, p without its first element, q with e in front. *)
Extended(r, p, n, e) ==
  r \in [0..n + 1 -> Elts] /\ r[n + 1] = e /\ \A i \in 0..n : r[i] = p[i]

Rest(r, p, n, S) == r \in [0..n - 1 -> S] /\ \A i \in 0..n - 1 : r[i] = p[i + 1]

Prefixed(r, q, m, e) ==
  r \in [0..m + 1 -> Memory] /\ r[0] = e /\ \A i \in 1..m + 1 : r[i] = q[i - 1]

LEMMA ListGrows ==
  ASSUME NEW n \in Nat, NEW p, NEW nx, NEW val, NEW fr, NEW bk, ListPath(p, n, nx, val, fr, bk),
         NEW e \in Elts, Avoids(p, n, e), NEW r, Extended(r, p, n, e),
         NEW nx2, NEW val2, Kept(p, 0, n - 1, nx, val, nx2, val2),
         nx2[bk] = e, val2[bk] # NoValue, val2[e] = NoValue
  PROVE  ListPath(r, n + 1, nx2, val2, fr, e)
<1> USE DEF Kept, Avoids, Extended, Rest, Prefixed
<1>1. r \in [0..n + 1 -> Elts] /\ r[0] = fr /\ r[n + 1] = e /\ r[n] = bk
  BY DEF ListPath
<1>2. ASSUME NEW i \in 0..(n + 1) - 1
      PROVE  nx2[r[i]] = r[i + 1] /\ val2[r[i]] # NoValue
  <2>1. CASE i = n
    BY <1>1, <2>1
  <2>2. CASE i # n
    <3>1. i \in 0..n - 1 /\ r[i] = p[i] /\ r[i + 1] = p[i + 1]
      BY <2>2
    <3>2. nx[p[i]] = p[i + 1] /\ val[p[i]] # NoValue
      BY <3>1 DEF ListPath
    <3> QED
      BY <3>1, <3>2
  <2> QED
    BY <2>1, <2>2
<1>3. ASSUME NEW i \in 0..n + 1, NEW j \in 0..n + 1, r[i] = r[j]
      PROVE  i = j
  BY <1>3 DEF ListPath
<1> QED
  BY <1>1, <1>2, <1>3 DEF ListPath

LEMMA ListShrinks ==
  ASSUME NEW n \in Nat, n > 0,
         NEW p, NEW nx, NEW val, NEW fr, NEW bk, ListPath(p, n, nx, val, fr, bk),
         NEW r, Rest(r, p, n, Elts),
         NEW nx2, NEW val2, Kept(p, 1, n, nx, val, nx2, val2)
  PROVE  ListPath(r, n - 1, nx2, val2, p[1], bk)
<1> USE DEF Kept, Avoids, Extended, Rest, Prefixed
<1>1. r \in [0..n - 1 -> Elts] /\ r[0] = p[1] /\ r[n - 1] = bk
  BY DEF ListPath
<1>2. ASSUME NEW i \in 0..(n - 1) - 1
      PROVE  nx2[r[i]] = r[i + 1] /\ val2[r[i]] # NoValue
  <2>1. i + 1 \in 0..n - 1 /\ i + 1 \in 1..n /\ r[i] = p[i + 1] /\ r[i + 1] = p[(i + 1) + 1]
    OBVIOUS
  <2> QED
    BY <2>1 DEF ListPath
<1>3. ASSUME NEW i \in 0..n - 1, NEW j \in 0..n - 1, r[i] = r[j]
      PROVE  i = j
  BY <1>3 DEF ListPath
<1>4. val2[bk] = NoValue
  <2>1. n \in 1..n /\ p[n] = bk
    BY DEF ListPath
  <2> QED
    BY <2>1 DEF ListPath
<1> QED
  BY <1>1, <1>2, <1>3, <1>4 DEF ListPath

LEMMA PoolGrows ==
  ASSUME NEW m \in Nat, NEW q, NEW nx, NEW val, NEW un, PoolPath(q, m, nx, val, un),
         NEW e \in Elts, Avoids(q, m, e), NEW r, Prefixed(r, q, m, e),
         NEW nx2, NEW val2, Kept(q, 0, m - 1, nx, val, nx2, val2),
         nx2[e] = un, val2[e] = NoValue
  PROVE  PoolPath(r, m + 1, nx2, val2, e)
<1> USE DEF Kept, Avoids, Extended, Rest, Prefixed
<1>1. r \in [0..m + 1 -> Memory] /\ r[0] = e /\ r[m + 1] = NoElt /\ r[1] = un
  BY DEF PoolPath, Memory
<1>2. ASSUME NEW i \in 0..(m + 1) - 1
      PROVE  r[i] \in Elts /\ nx2[r[i]] = r[i + 1] /\ val2[r[i]] = NoValue
  <2>1. CASE i = 0
    BY <1>1, <2>1
  <2>2. CASE i # 0
    <3>1. i - 1 \in 0..m - 1 /\ r[i] = q[i - 1] /\ r[i + 1] = q[(i - 1) + 1]
      BY <2>2
    <3> QED
      BY <3>1 DEF PoolPath
  <2> QED
    BY <2>1, <2>2
<1>3. ASSUME NEW i \in 0..m + 1, NEW j \in 0..m + 1, r[i] = r[j]
      PROVE  i = j
  BY <1>3 DEF PoolPath
<1> QED
  BY <1>1, <1>2, <1>3 DEF PoolPath

LEMMA PoolShrinks ==
  ASSUME NEW m \in Nat, m > 0, NEW q, NEW nx, NEW val, NEW un, PoolPath(q, m, nx, val, un),
         NEW r, Rest(r, q, m, Memory),
         NEW nx2, NEW val2, Kept(q, 0, m - 1, nx, val, nx2, val2)
  PROVE  PoolPath(r, m - 1, nx2, val2, nx[un])
<1> USE DEF Kept, Avoids, Extended, Rest, Prefixed
<1>1. r \in [0..m - 1 -> Memory] /\ r[0] = nx[un] /\ r[m - 1] = NoElt
  BY DEF PoolPath
<1>2. ASSUME NEW i \in 0..(m - 1) - 1
      PROVE  r[i] \in Elts /\ nx2[r[i]] = r[i + 1] /\ val2[r[i]] = NoValue
  <2>1. i + 1 \in 0..m - 1 /\ r[i] = q[i + 1] /\ r[i + 1] = q[(i + 1) + 1]
    OBVIOUS
  <2> QED
    BY <2>1 DEF PoolPath
<1>3. ASSUME NEW i \in 0..m - 1, NEW j \in 0..m - 1, r[i] = r[j]
      PROVE  i = j
  BY <1>3 DEF PoolPath
<1> QED
  BY <1>1, <1>2, <1>3 DEF PoolPath

-----------------------------------------------------------------------------
(***************************************************************************)
(* The invariant is inductive, and what each step does to the contents.    *)
(***************************************************************************)
(* The values along the list, and the contents that the code reads there.  *)
Held(p, n, val) == [i \in 1..n |-> val[p[i - 1]]]

Contents == [i \in 1..length |-> value[From(front)[i - 1]]]

LEMMA FromFront ==
  ASSUME TypeOK, NEW p, ListPath(p, length, next, value, front, back)
  PROVE  \A i \in 0..length : From(front)[i] = p[i]
<1>1. next \in [Memory -> Memory] /\ front \in Memory /\ length \in Nat
  BY DEF TypeOK, Memory
<1>2. length \in 0..N
  BY <1>1, SizeType, ListFits
<1>3. Walks(From(front), next, front)
  BY <1>1, FromUnfolds, SizeType DEF Walks
<1>4. Leads(p, length, next, front)
  BY DEF ListPath, Leads
<1> QED
  BY <1>1, <1>2, <1>3, <1>4, WalkFollows

LEMMA FromPool ==
  ASSUME TypeOK, NEW m \in Nat, NEW q, PoolPath(q, m, next, value, unused_elts)
  PROVE  \A i \in 0..m : From(unused_elts)[i] = q[i]
<1>1. next \in [Memory -> Memory] /\ unused_elts \in Memory
  BY DEF TypeOK, Memory
<1>2. m \in 0..N
  BY <1>1, SizeType, PoolFits
<1>3. Walks(From(unused_elts), next, unused_elts)
  BY <1>1, FromUnfolds, SizeType DEF Walks
<1>4. Leads(q, m, next, unused_elts)
  BY DEF PoolPath, Leads
<1> QED
  BY <1>1, <1>2, <1>3, <1>4, WalkFollows

LEMMA ContentsNow ==
  ASSUME TypeOK, NEW p, ListPath(p, length, next, value, front, back)
  PROVE  Contents = Held(p, length, value)
<1>1. length \in Nat /\ \A i \in 0..length : From(front)[i] = p[i]
  BY FromFront DEF TypeOK
<1> QED
  BY <1>1 DEF Contents, Held

LEMMA ContentsNext ==
  ASSUME TypeOK', NEW p, ListPath(p, length', next', value', front', back')
  PROVE  Contents' = Held(p, length', value')
<1>1. next' \in [Memory -> Memory] /\ front' \in Memory /\ length' \in Nat
  BY DEF TypeOK, Memory
<1>2. length' \in 0..N
  BY <1>1, SizeType, ListFits
<1>3. ASSUME NEW f, f = From(front)'
      PROVE  Walks(f, next', front')
  BY <1>1, <1>3, FrontUnfoldsNext, SizeType DEF Walks
<1>4. Leads(p, length', next', front')
  BY DEF ListPath, Leads
<1>5. ASSUME NEW f, f = From(front)'
      PROVE  \A i \in 0..length' : f[i] = p[i]
  BY <1>2, <1>3, <1>4, <1>5, WalkFollows
<1> QED
  BY <1>1, <1>5 DEF Contents, Held

(* The next state has a layout, in which c is held. *)
Reaches(c) ==
  \E m \in Nat : \E p \in [0..length' -> Elts], q \in [0..m -> Memory] :
     /\ Layout(p, q, m, length', next', value', front', back', unused_elts')
     /\ Held(p, length', value') = c

LEMMA ReachesInv ==
  ASSUME TypeOK', next'[NoElt] = NoElt, NEW c, Reaches(c)
  PROVE  QueueInv' /\ Contents' = c
<1>1. PICK m \in Nat : \E p \in [0..length' -> Elts], q \in [0..m -> Memory] :
         /\ Layout(p, q, m, length', next', value', front', back', unused_elts')
         /\ Held(p, length', value') = c
  BY DEF Reaches
<1>2. PICK p \in [0..length' -> Elts], q \in [0..m -> Memory] :
         /\ Layout(p, q, m, length', next', value', front', back', unused_elts')
         /\ Held(p, length', value') = c
  BY <1>1
<1>3. Contents' = c
  BY <1>2, ContentsNext DEF Layout
<1>4. QueueInv'
  BY <1>2 DEF QueueInv
<1> QED
  BY <1>3, <1>4

LEMMA InitQueueInv == Init => QueueInv /\ Contents = <<>>
<1> SUFFICES ASSUME Init
             PROVE  QueueInv /\ Contents = <<>>
  OBVIOUS
<1>1. TypeOK /\ next[NoElt] = NoElt
  BY ThreadSafeQueueAssumption DEF Init, TypeOK
<1> DEFINE p == [i \in 0..0 |-> front]
           q == [i \in 0..0 |-> NoElt]
<1>2. p \in [0..length -> Elts] /\ q \in [0..0 -> Memory]
  BY DEF Init, Memory
<1>3. Layout(p, q, 0, length, next, value, front, back, unused_elts)
  BY <1>2, ThreadSafeQueueAssumption DEF Init, Layout, ListPath, PoolPath, Apart
<1> HIDE DEF p, q
<1>4. QueueInv
  BY <1>1, <1>2, <1>3 DEF QueueInv
<1>5. Contents = <<>>
  BY DEF Init, Contents
<1> QED
  BY <1>4, <1>5

LEMMA NextTypeOK ==
  ASSUME QueueInv, [Next]_vars
  PROVE  TypeOK' /\ next'[NoElt] = NoElt
<1> USE ThreadSafeQueueAssumption DEF TypeOK, Link, Return
<1> TypeOK /\ next[NoElt] = NoElt /\ next[front] \in Memory
  BY DEF QueueInv, Memory
<1>1. ASSUME NEW t \in Threads, NEW v \in Values, EnqueueFromPool(t, v)
      PROVE  TypeOK' /\ next'[NoElt] = NoElt
  BY <1>1 DEF EnqueueFromPool
<1>2. ASSUME NEW t \in Threads, NEW v \in Values, Allocate(t, v)
      PROVE  TypeOK' /\ next'[NoElt] = NoElt
  BY <1>2 DEF Allocate, list
<1>3. ASSUME NEW t \in Threads, EnqueueNew(t)
      PROVE  TypeOK' /\ next'[NoElt] = NoElt
  BY <1>3 DEF EnqueueNew
<1>4. ASSUME NEW t \in Threads, Dequeue(t)
      PROVE  TypeOK' /\ next'[NoElt] = NoElt
  <2>1. next[front] \in Elts
    <3>1. PICK m \in Nat : \E p \in [0..length -> Elts], q \in [0..m -> Memory] :
             Layout(p, q, m, length, next, value, front, back, unused_elts)
      BY DEF QueueInv
    <3>2. PICK p \in [0..length -> Elts], q \in [0..m -> Memory] :
             Layout(p, q, m, length, next, value, front, back, unused_elts)
      BY <3>1
    <3>3. 0 \in 0..length - 1 /\ 0 + 1 \in 0..length
      BY <1>4 DEF Dequeue
    <3> QED
      BY <3>2, <3>3 DEF Layout, ListPath
  <2>2. length' \in Nat
    BY <1>4 DEF Dequeue
  <2> QED
    BY <1>4, <2>1, <2>2 DEF Dequeue
<1>5. ASSUME NEW t \in Threads, RaiseEmpty(t) \/ ClearInternalPool(t)
      PROVE  TypeOK' /\ next'[NoElt] = NoElt
  BY <1>5 DEF RaiseEmpty, ClearInternalPool, vars, list
<1>6. CASE UNCHANGED vars
  BY <1>6 DEF vars, list
<1> QED
  BY <1>1, <1>2, <1>3, <1>4, <1>5, <1>6 DEF Next

LEMMA HasLayout ==
  ASSUME QueueInv
  PROVE  \E m \in Nat : \E p \in [0..length -> Elts], q \in [0..m -> Memory] :
            /\ Layout(p, q, m, length, next, value, front, back, unused_elts)
            /\ Contents = Held(p, length, value)
<1>1. PICK m \in Nat : \E p \in [0..length -> Elts], q \in [0..m -> Memory] :
         Layout(p, q, m, length, next, value, front, back, unused_elts)
  BY DEF QueueInv
<1>2. PICK p \in [0..length -> Elts], q \in [0..m -> Memory] :
         Layout(p, q, m, length, next, value, front, back, unused_elts)
  BY <1>1
<1>3. Contents = Held(p, length, value)
  BY <1>2, ContentsNow DEF QueueInv, Layout
<1> QED
  BY <1>2, <1>3

(* One value more at the back, one less at the front.                      *)
LEMMA HeldGrows ==
  ASSUME NEW n \in Nat, NEW p, NEW e, NEW r, Extended(r, p, n, e),
         NEW nx, NEW val, NEW nx2, NEW val2, Kept(p, 0, n - 1, nx, val, nx2, val2), NEW v, val2[p[n]] = v
  PROVE  Held(r, n + 1, val2) = Append(Held(p, n, val), v)
<1> USE DEF Kept, Avoids, Extended, Rest, Prefixed
<1>1. ASSUME NEW i \in 1..n + 1
      PROVE  val2[r[i - 1]] = IF i = n + 1 THEN v ELSE val[p[i - 1]]
  <2>1. i - 1 \in 0..n /\ r[i - 1] = p[i - 1]
    OBVIOUS
  <2>2. CASE i = n + 1
    BY <2>1, <2>2
  <2>3. CASE i # n + 1
    <3>1. i - 1 \in 0..n - 1
      BY <2>3
    <3> QED
      BY <2>1, <2>3, <3>1
  <2> QED
    BY <2>2, <2>3
<1>2. Append(Held(p, n, val), v) = [i \in 1..n + 1 |-> IF i = n + 1 THEN v ELSE val[p[i - 1]]]
  BY DEF Held
<1> QED
  BY <1>1, <1>2 DEF Held

LEMMA HeldShrinks ==
  ASSUME NEW n \in Nat, n > 0, NEW p, NEW S, NEW r, Rest(r, p, n, S),
         NEW nx, NEW val, NEW nx2, NEW val2, Kept(p, 1, n, nx, val, nx2, val2)
  PROVE  Held(r, n - 1, val2) = Tail(Held(p, n, val)) /\ Held(p, n, val) # <<>>
<1> USE DEF Kept, Avoids, Extended, Rest, Prefixed
<1>1. ASSUME NEW i \in 1..n - 1
      PROVE  val2[r[i - 1]] = val[p[(i + 1) - 1]]
  <2>1. i - 1 \in 0..n - 1 /\ r[i - 1] = p[(i - 1) + 1] /\ (i - 1) + 1 = i /\ (i + 1) - 1 = i
    OBVIOUS
  <2> QED
    BY <2>1
<1>2. Tail(Held(p, n, val)) = [i \in 1..n - 1 |-> val[p[(i + 1) - 1]]]
  BY DEF Held
<1>3. Held(r, n - 1, val2) = Tail(Held(p, n, val))
  BY <1>1, <1>2 DEF Held
<1>4. Held(p, n, val) # <<>>
  BY DEF Held
<1> QED
  BY <1>3, <1>4

LEMMA EnqueueFromPoolReaches ==
  ASSUME QueueInv, NEW t \in Threads, NEW v \in Values, EnqueueFromPool(t, v)
  PROVE  Reaches(Append(Contents, v))
<1>1. PICK m \in Nat : \E p \in [0..length -> Elts], q \in [0..m -> Memory] :
         /\ Layout(p, q, m, length, next, value, front, back, unused_elts)
         /\ Contents = Held(p, length, value)
  BY HasLayout
<1>2. PICK p \in [0..length -> Elts], q \in [0..m -> Memory] :
         /\ Layout(p, q, m, length, next, value, front, back, unused_elts)
         /\ Contents = Held(p, length, value)
  BY <1>1
<1> DEFINE e == unused_elts
<1>3. /\ ListPath(p, length, next, value, front, back)
      /\ PoolPath(q, m, next, value, e)
      /\ \A i \in 0..length, j \in 0..m : p[i] # q[j]
  BY <1>2 DEF Layout, Apart
<1>4. /\ length \in Nat /\ back \in Elts
      /\ value \in [Elts -> Values \cup {NoValue}] /\ next \in [Memory -> Memory]
      /\ v # NoValue
  BY ThreadSafeQueueAssumption DEF QueueInv, TypeOK, Memory
<1>5. m > 0 /\ e = q[0] /\ e \in Elts
  <2>1. q[0] # q[m] /\ q[0] = e
    BY <1>3 DEF EnqueueFromPool, PoolPath
  <2>2. m > 0 /\ 0 \in 0..m - 1
    BY <2>1
  <2> QED
    BY <1>3, <2>1, <2>2 DEF PoolPath
<1>6. /\ value' = [value EXCEPT ![back] = v] /\ next' = [next EXCEPT ![back] = e]
      /\ unused_elts' = next[e] /\ front' = front /\ back' = e /\ length' = length + 1
  BY DEF EnqueueFromPool, Link
<1>7. back = p[length] /\ \A i \in 0..length : p[i] # e
  BY <1>3, <1>4, <1>5 DEF ListPath
<1>8. \A i \in 0..length - 1 : p[i] \in Elts /\ p[i] # back
  BY <1>3, <1>4, <1>7 DEF ListPath
<1>9. \A j \in 0..m : q[j] # back /\ q[j] \in Memory
  BY <1>3, <1>4, <1>7
<1>10. \A j \in 0..m - 1 : q[j] \in Elts
  BY <1>3 DEF PoolPath
<1> DEFINE r == [i \in 0..length + 1 |-> IF i = length + 1 THEN e ELSE p[i]]
           u == [j \in 0..m - 1 |-> q[j + 1]]
<1>11. back # e /\ value[e] = NoValue
  <2>1. 0 \in 0..m /\ 0 \in 0..m - 1
    BY <1>5
  <2> QED
    BY <1>3, <1>5, <1>9, <2>1 DEF PoolPath
<1>12. /\ next'[back] = e /\ value'[back] = v /\ value'[e] = NoValue
       /\ Kept(p, 0, length - 1, next, value, next', value')
       /\ Kept(q, 0, m - 1, next, value, next', value')
  BY <1>4, <1>5, <1>6, <1>8, <1>9, <1>10, <1>11 DEF Memory, Kept
<1>a. Extended(r, p, length, e) /\ Avoids(p, length, e)
  BY <1>3, <1>4, <1>5, <1>7 DEF ListPath, Extended, Avoids
<1>b. Rest(u, q, m, Memory)
  BY <1>3, <1>5 DEF PoolPath, Rest
<1> HIDE DEF r, u, e
<1>13. ListPath(r, length + 1, next', value', front, e)
  BY <1>3, <1>4, <1>5, <1>12, <1>a, ListGrows
<1>14. PoolPath(u, m - 1, next', value', next[e])
  BY <1>3, <1>5, <1>12, <1>b, PoolShrinks
<1>15. Held(r, length + 1, value') = Append(Contents, v)
  BY <1>2, <1>4, <1>7, <1>12, <1>a, HeldGrows
<1>16. Apart(r, length + 1, u, m - 1)
  <2> SUFFICES ASSUME NEW i \in 0..length + 1, NEW j \in 0..m - 1
               PROVE  r[i] # u[j]
    BY DEF Apart
  <2>1. u[j] = q[j + 1] /\ j + 1 \in 0..m /\ j + 1 # 0 /\ 0 \in 0..m
    BY <1>5, <1>b DEF Rest
  <2>2. CASE i = length + 1
    BY <1>3, <1>4, <1>5, <1>a, <2>1, <2>2 DEF PoolPath, Extended
  <2>3. CASE i # length + 1
    <3>1. i \in 0..length /\ r[i] = p[i]
      BY <1>4, <1>a, <2>3 DEF Extended
    <3> QED
      BY <1>3, <2>1, <3>1
  <2> QED
    BY <2>2, <2>3
<1>17. r \in [0..length' -> Elts] /\ u \in [0..m - 1 -> Memory] /\ m - 1 \in Nat
  BY <1>5, <1>6, <1>a, <1>b DEF Extended, Rest
<1>18. Layout(r, u, m - 1, length', next', value', front', back', unused_elts')
  BY <1>6, <1>13, <1>14, <1>16 DEF Layout
<1>19. Held(r, length', value') = Append(Contents, v)
  BY <1>6, <1>15
<1> QED
  BY <1>17, <1>18, <1>19 DEF Reaches

(* The collector keeps every element of both paths.                        *)
LEMMA LiveElements ==
  ASSUME TypeOK, NEW m \in Nat, NEW p, NEW q,
         Layout(p, q, m, length, next, value, front, back, unused_elts)
  PROVE  /\ \A i \in 0..length : p[i] \in Live
         /\ \A j \in 0..m - 1 : q[j] \in Live
<1>1. /\ ListPath(p, length, next, value, front, back)
      /\ PoolPath(q, m, next, value, unused_elts)
      /\ length \in Nat /\ N \in Nat
  BY SizeType DEF Layout, TypeOK
<1>2. length <= N /\ m <= N
  BY <1>1, ListFits, PoolFits
<1>3. ASSUME NEW i \in 0..length
      PROVE  p[i] \in Chain(front)
  <2>1. i \in 0..N /\ From(front)[i] = p[i] /\ p[i] # NoElt
    BY <1>1, <1>2, FromFront, ThreadSafeQueueAssumption DEF ListPath
  <2> QED
    BY <2>1 DEF Chain, N
<1>4. ASSUME NEW j \in 0..m - 1
      PROVE  q[j] \in Chain(unused_elts)
  <2>1. j \in 0..N /\ From(unused_elts)[j] = q[j] /\ q[j] # NoElt
    <3>1. j \in 0..N /\ j \in 0..m
      BY <1>1, <1>2
    <3>2. q[j] # NoElt
      BY <1>1, ThreadSafeQueueAssumption DEF PoolPath
    <3>3. \A i \in 0..m : From(unused_elts)[i] = q[i]
      BY <1>1, FromPool
    <3> QED
      BY <3>1, <3>2, <3>3
  <2> QED
    BY <2>1 DEF Chain, N
<1> QED
  BY <1>3, <1>4 DEF Live

LEMMA EnqueueNewReaches ==
  ASSUME QueueInv, NEW t \in Threads, EnqueueNew(t)
  PROVE  Reaches(Append(Contents, enqueuing[t]))
<1>1. PICK m \in Nat : \E p \in [0..length -> Elts], q \in [0..m -> Memory] :
         /\ Layout(p, q, m, length, next, value, front, back, unused_elts)
         /\ Contents = Held(p, length, value)
  BY HasLayout
<1>2. PICK p \in [0..length -> Elts], q \in [0..m -> Memory] :
         /\ Layout(p, q, m, length, next, value, front, back, unused_elts)
         /\ Contents = Held(p, length, value)
  BY <1>1
<1>3. PICK e \in Elts \ Live :
         /\ Link(e)
         /\ value' = [value EXCEPT ![back] = enqueuing[t], ![e] = NoValue]
         /\ next' = [next EXCEPT ![back] = e, ![e] = NoElt]
  BY DEF EnqueueNew
<1>4. /\ ListPath(p, length, next, value, front, back)
      /\ PoolPath(q, m, next, value, unused_elts)
      /\ \A i \in 0..length, j \in 0..m : p[i] # q[j]
  BY <1>2 DEF Layout, Apart
<1> DEFINE v == enqueuing[t]
<1>5. /\ length \in Nat /\ back \in Elts /\ e \in Elts /\ e # NoElt /\ v # NoValue
      /\ value \in [Elts -> Values \cup {NoValue}] /\ next \in [Memory -> Memory]
  BY ThreadSafeQueueAssumption DEF QueueInv, TypeOK, Memory, EnqueueNew
<1>6. /\ unused_elts' = unused_elts /\ front' = front /\ back' = e /\ length' = length + 1
  BY <1>3 DEF EnqueueNew, Link
<1>7. /\ \A i \in 0..length : p[i] # e
      /\ \A j \in 0..m - 1 : q[j] # e
  <2>1. TypeOK /\ Layout(p, q, m, length, next, value, front, back, unused_elts)
    BY <1>2 DEF QueueInv
  <2>2. (\A i \in 0..length : p[i] \in Live) /\ (\A j \in 0..m - 1 : q[j] \in Live)
    BY <2>1, LiveElements
  <2> QED
    BY <1>3, <2>2
<1>8. \A j \in 0..m : q[j] # e
  <2>1. ASSUME NEW j \in 0..m
        PROVE  j = m \/ j \in 0..m - 1
    OBVIOUS
  <2> QED
    BY <1>4, <1>5, <1>7, <2>1 DEF PoolPath
<1>9. back = p[length] /\ back # e /\ \A i \in 0..length - 1 : p[i] \in Elts /\ p[i] # back
  BY <1>4, <1>5, <1>7 DEF ListPath
<1>10. \A j \in 0..m - 1 : q[j] \in Elts /\ q[j] # back
  BY <1>4, <1>5, <1>9 DEF PoolPath
<1> DEFINE r == [i \in 0..length + 1 |-> IF i = length + 1 THEN e ELSE p[i]]
<1>11. Extended(r, p, length, e) /\ Avoids(p, length, e)
  BY <1>4, <1>5, <1>7 DEF ListPath, Extended, Avoids
<1>12. /\ next'[back] = e /\ value'[back] = v /\ value'[e] = NoValue
       /\ Kept(p, 0, length - 1, next, value, next', value')
       /\ Kept(q, 0, m - 1, next, value, next', value')
  BY <1>3, <1>5, <1>7, <1>9, <1>10 DEF Memory, Kept
<1> HIDE DEF r, v
<1>13. ListPath(r, length + 1, next', value', front, e)
  BY <1>4, <1>5, <1>11, <1>12, ListGrows
<1>14. PoolPath(q, m, next', value', unused_elts)
  BY <1>4, <1>12 DEF PoolPath, Kept
<1>15. Held(r, length + 1, value') = Append(Contents, v)
  BY <1>2, <1>5, <1>9, <1>11, <1>12, HeldGrows
<1>16. Apart(r, length + 1, q, m)
  <2> SUFFICES ASSUME NEW i \in 0..length + 1, NEW j \in 0..m
               PROVE  r[i] # q[j]
    BY DEF Apart
  <2>1. CASE i = length + 1
    BY <1>8, <1>11, <2>1 DEF Extended
  <2>2. CASE i # length + 1
    <3>1. i \in 0..length /\ r[i] = p[i]
      BY <1>5, <1>11, <2>2 DEF Extended
    <3> QED
      BY <1>4, <3>1
  <2> QED
    BY <2>1, <2>2
<1>17. r \in [0..length' -> Elts]
  BY <1>6, <1>11 DEF Extended
<1>18. Layout(r, q, m, length', next', value', front', back', unused_elts')
  BY <1>6, <1>13, <1>14, <1>16 DEF Layout
<1>19. Held(r, length', value') = Append(Contents, enqueuing[t])
  BY <1>6, <1>15 DEF v
<1> QED
  BY <1>17, <1>18, <1>19 DEF Reaches

LEMMA DequeueReaches ==
  ASSUME QueueInv, NEW t \in Threads, Dequeue(t)
  PROVE  Reaches(Tail(Contents)) /\ Contents # <<>>
<1>1. PICK m \in Nat : \E p \in [0..length -> Elts], q \in [0..m -> Memory] :
         /\ Layout(p, q, m, length, next, value, front, back, unused_elts)
         /\ Contents = Held(p, length, value)
  BY HasLayout
<1>2. PICK p \in [0..length -> Elts], q \in [0..m -> Memory] :
         /\ Layout(p, q, m, length, next, value, front, back, unused_elts)
         /\ Contents = Held(p, length, value)
  BY <1>1
<1>3. /\ ListPath(p, length, next, value, front, back)
      /\ PoolPath(q, m, next, value, unused_elts)
      /\ \A i \in 0..length, j \in 0..m : p[i] # q[j]
  BY <1>2 DEF Layout, Apart
<1>4. /\ length \in Nat /\ length > 0 /\ front \in Elts
      /\ value \in [Elts -> Values \cup {NoValue}] /\ next \in [Memory -> Memory]
  BY DEF QueueInv, TypeOK, Memory, Dequeue
<1>5. p[0] = front /\ next[front] = p[1]
  <2>1. 0 \in 0..length - 1 /\ 0 + 1 = 1
    BY <1>4
  <2> QED
    BY <1>3, <2>1 DEF ListPath
<1>6. /\ value' = [value EXCEPT ![front] = NoValue] /\ next' = [next EXCEPT ![front] = unused_elts]
      /\ unused_elts' = front /\ front' = p[1] /\ back' = back /\ length' = length - 1
  BY <1>5 DEF Dequeue, Return
<1>7. \A i \in 1..length : p[i] \in Elts /\ p[i] # front
  BY <1>3, <1>4, <1>5 DEF ListPath
<1>8. \A j \in 0..m : q[j] # front /\ q[j] \in Memory
  BY <1>3, <1>4, <1>5
<1>9. \A j \in 0..m - 1 : q[j] \in Elts
  BY <1>3 DEF PoolPath
<1> DEFINE r == [i \in 0..length - 1 |-> p[i + 1]]
           u == [j \in 0..m + 1 |-> IF j = 0 THEN front ELSE q[j - 1]]
<1>10. Rest(r, p, length, Elts)
  BY <1>3, <1>4 DEF ListPath, Rest
<1>11. Prefixed(u, q, m, front) /\ Avoids(q, m, front)
  BY <1>4, <1>8 DEF Prefixed, Avoids, Memory
<1>12. /\ next'[front] = unused_elts /\ value'[front] = NoValue
       /\ Kept(p, 1, length, next, value, next', value')
       /\ Kept(q, 0, m - 1, next, value, next', value')
  BY <1>4, <1>6, <1>7, <1>8, <1>9 DEF Memory, Kept
<1> HIDE DEF r, u
<1>13. ListPath(r, length - 1, next', value', p[1], back)
  BY <1>3, <1>4, <1>10, <1>12, ListShrinks
<1>14. PoolPath(u, m + 1, next', value', front)
  BY <1>3, <1>4, <1>11, <1>12, PoolGrows
<1>15. Held(r, length - 1, value') = Tail(Contents) /\ Contents # <<>>
  BY <1>2, <1>4, <1>10, <1>12, HeldShrinks
<1>16. Apart(r, length - 1, u, m + 1)
  <2> SUFFICES ASSUME NEW i \in 0..length - 1, NEW j \in 0..m + 1
               PROVE  r[i] # u[j]
    BY DEF Apart
  <2>1. r[i] = p[i + 1] /\ i + 1 \in 1..length /\ i + 1 \in 0..length
    BY <1>4, <1>10 DEF Rest
  <2>2. CASE j = 0
    BY <1>7, <1>11, <2>1, <2>2 DEF Prefixed
  <2>3. CASE j # 0
    <3>1. j - 1 \in 0..m /\ u[j] = q[j - 1]
      BY <1>11, <2>3 DEF Prefixed
    <3> QED
      BY <1>3, <2>1, <3>1
  <2> QED
    BY <2>2, <2>3
<1>17. r \in [0..length' -> Elts] /\ u \in [0..m + 1 -> Memory] /\ m + 1 \in Nat
  BY <1>6, <1>10, <1>11 DEF Rest, Prefixed
<1>18. Layout(r, u, m + 1, length', next', value', front', back', unused_elts')
  BY <1>6, <1>13, <1>14, <1>16 DEF Layout
<1>19. Held(r, length', value') = Tail(Contents)
  BY <1>6, <1>15
<1> QED
  BY <1>15, <1>17, <1>18, <1>19 DEF Reaches

LEMMA OthersReach ==
  ASSUME QueueInv,
         \/ \E t \in Threads : \/ \E v \in Values : Allocate(t, v)
                               \/ RaiseEmpty(t) \/ ClearInternalPool(t)
         \/ UNCHANGED vars
  PROVE  Reaches(Contents)
<1>1. PICK m \in Nat : \E p \in [0..length -> Elts], q \in [0..m -> Memory] :
         /\ Layout(p, q, m, length, next, value, front, back, unused_elts)
         /\ Contents = Held(p, length, value)
  BY HasLayout
<1>2. PICK p \in [0..length -> Elts], q \in [0..m -> Memory] :
         /\ Layout(p, q, m, length, next, value, front, back, unused_elts)
         /\ Contents = Held(p, length, value)
  BY <1>1
<1>3. UNCHANGED <<value, next, length, front, back>>
  BY DEF Allocate, RaiseEmpty, ClearInternalPool, vars, list
<1>4. CASE unused_elts' = unused_elts
  BY <1>2, <1>3, <1>4 DEF Reaches
<1>5. CASE unused_elts' # unused_elts
  <2> DEFINE u == [j \in 0..0 |-> NoElt]
  <2>1. unused_elts' = NoElt
    BY <1>5 DEF Allocate, RaiseEmpty, ClearInternalPool, vars, list
  <2>2. u \in [0..0 -> Memory] /\ PoolPath(u, 0, next, value, NoElt)
    BY DEF Memory, PoolPath
  <2>3. Apart(p, length, u, 0)
    BY <1>2, ThreadSafeQueueAssumption DEF Layout, ListPath, Apart
  <2> HIDE DEF u
  <2>4. Layout(p, u, 0, length', next', value', front', back', unused_elts')
    BY <1>2, <1>3, <2>1, <2>2, <2>3 DEF Layout
  <2>5. p \in [0..length' -> Elts] /\ Held(p, length', value') = Contents
    BY <1>2, <1>3
  <2> QED
    BY <2>2, <2>4, <2>5 DEF Reaches
<1> QED
  BY <1>4, <1>5

LEMMA NextQueueInv ==
  QueueInv /\ [Next]_vars => QueueInv' /\ [Abstract!Next]_Contents
<1> SUFFICES ASSUME QueueInv, [Next]_vars
             PROVE  QueueInv' /\ [Abstract!Next]_Contents
  OBVIOUS
<1>1. TypeOK' /\ next'[NoElt] = NoElt
  BY NextTypeOK
<1>2. ASSUME NEW t \in Threads, NEW v \in Values, EnqueueFromPool(t, v)
      PROVE  QueueInv' /\ Contents' = Append(Contents, v)
  BY <1>1, <1>2, EnqueueFromPoolReaches, ReachesInv
<1>3. ASSUME NEW t \in Threads, EnqueueNew(t)
      PROVE  QueueInv' /\ Contents' = Append(Contents, enqueuing[t]) /\ enqueuing[t] \in Values
  <2>1. enqueuing[t] \in Values
    BY <1>3 DEF EnqueueNew, QueueInv, TypeOK
  <2> QED
    BY <1>1, <1>3, <2>1, EnqueueNewReaches, ReachesInv
<1>4. ASSUME NEW t \in Threads, Dequeue(t)
      PROVE  QueueInv' /\ Contents' = Tail(Contents) /\ Contents # <<>>
  BY <1>1, <1>4, DequeueReaches, ReachesInv
<1>5. ASSUME \/ \E t \in Threads : \/ \E v \in Values : Allocate(t, v)
                                   \/ RaiseEmpty(t) \/ ClearInternalPool(t)
             \/ UNCHANGED vars
      PROVE  QueueInv' /\ Contents' = Contents
  BY <1>1, <1>5, OthersReach, ReachesInv
<1> QED
  BY <1>2, <1>3, <1>4, <1>5 DEF Next, Abstract!Next, Abstract!Enqueue, Abstract!Dequeue, Contents

LEMMA QueueInvInductive == Spec => [](QueueInv)
<1>1. Init => QueueInv
  BY InitQueueInv
<1>2. QueueInv /\ [Next]_vars => QueueInv'
  BY NextQueueInv
<1> QED
  BY <1>1, <1>2, PTL DEF Spec

(* Every variable keeps its type: the front of a queue that is not empty   *)
(* always leads to another element.                                        *)
THEOREM QueueTypeCorrect == Spec => []TypeOK
<1>1. QueueInv => TypeOK
  BY DEF QueueInv
<1> QED
  BY <1>1, QueueInvInductive, PTL

(* The paths are those that From finds.                                    *)
LEMMA EltsFromQueueInv == QueueInv => EltsConsistent
<1> SUFFICES ASSUME QueueInv
             PROVE  EltsConsistent
  OBVIOUS
<1>1. PICK m \in Nat : \E p \in [0..length -> Elts], q \in [0..m -> Memory] :
         Layout(p, q, m, length, next, value, front, back, unused_elts)
  BY DEF QueueInv
<1>2. PICK p \in [0..length -> Elts], q \in [0..m -> Memory] :
         Layout(p, q, m, length, next, value, front, back, unused_elts)
  BY <1>1
<1>3. /\ ListPath(p, length, next, value, front, back)
      /\ PoolPath(q, m, next, value, unused_elts)
      /\ \A i \in 0..length, j \in 0..m : p[i] # q[j]
      /\ TypeOK /\ length \in Nat /\ N \in Nat
      /\ next \in [Memory -> Memory] /\ unused_elts \in Memory /\ next[NoElt] = NoElt
  BY <1>2, SizeType DEF Layout, Apart, QueueInv, TypeOK, Memory
<1>4. length + 1 <= N /\ m <= N
  BY <1>3, ListFits, PoolFits
<1>5. \A i \in 0..length : From(front)[i] = p[i]
  BY <1>3, FromFront
<1>6. InUse = {p[i] : i \in 0..length - 1}
  <2>1. \A i \in 0..length - 1 : i \in 0..length /\ From(front)[i] = p[i]
    BY <1>3, <1>5
  <2> QED
    BY <2>1 DEF InUse
<1>7. InUse \cup {back} = {p[i] : i \in 0..length}
  <2>1. back = p[length] /\ \A i \in 0..length : i = length \/ i \in 0..length - 1
    BY <1>3 DEF ListPath
  <2> QED
    BY <1>3, <1>6, <2>1
<1>8. Cardinality(InUse \cup {back}) = length + 1
  <2>1. p \in Bijection(0..length, InUse \cup {back})
    <3>1. p \in Injection(0..length, InUse \cup {back})
      BY <1>3, <1>7 DEF ListPath, Injection, IsInjective
    <3>2. p \in Surjection(0..length, InUse \cup {back})
      BY <1>3, <1>7 DEF ListPath, Surjection
    <3> QED
      BY <3>1, <3>2 DEF Bijection
  <2>2. IsFiniteSet(0..length) /\ Cardinality(0..length) = length + 1
    BY <1>3, FS_Interval
  <2>3. ExistsBijection(0..length, InUse \cup {back})
    BY <2>1 DEF ExistsBijection
  <2> QED
    BY <2>2, <2>3, FS_Bijection
<1>9. (\A e \in InUse : value[e] # NoValue) /\ value[back] = NoValue /\ From(front)[length] = back
  BY <1>3, <1>5, <1>6 DEF ListPath
(* The pool, and then only NoElt. *)
<1> DEFINE w == [i \in 0..N |-> IF i <= m THEN q[i] ELSE NoElt]
<1>10. \A i \in 0..N : From(unused_elts)[i] = w[i]
  <2>1. Walks(From(unused_elts), next, unused_elts)
    BY <1>3, FromUnfolds DEF Walks
  <2>2. w[0] = unused_elts
    BY <1>3 DEF PoolPath
  <2>3. ASSUME NEW i \in 0..N - 1
        PROVE  next[w[i]] = w[i + 1]
    <3>1. w[i] = (IF i <= m THEN q[i] ELSE NoElt) /\ w[i + 1] = IF i + 1 <= m THEN q[i + 1] ELSE NoElt
      BY <1>3
    <3>2. CASE i < m
      <4>1. i \in 0..m - 1 /\ i <= m /\ i + 1 <= m
        BY <3>2
      <4> QED
        BY <1>3, <3>1, <4>1 DEF PoolPath
    <3>3. CASE i >= m
      <4>1. w[i] = NoElt /\ w[i + 1] = NoElt
        <5>1. CASE i = m
          BY <1>3, <3>1, <5>1 DEF PoolPath
        <5>2. CASE i # m
          BY <3>1, <3>3, <5>2
        <5> QED
          BY <5>1, <5>2
      <4> QED
        BY <1>3, <4>1
    <3> QED
      BY <3>2, <3>3
  <2> HIDE DEF w
  <2>4. Leads(w, N, next, unused_elts) /\ N \in 0..N
    BY <1>3, <2>2, <2>3 DEF Leads
  <2> QED
    BY <2>1, <2>4, WalkFollows
<1>11. From(unused_elts)[N] = NoElt
  BY <1>3, <1>4, <1>10 DEF PoolPath
<1>12. ASSUME NEW e \in Chain(unused_elts)
       PROVE  value[e] = NoValue /\ e \notin InUse \cup {back}
  <2>1. PICK i \in 0..N : e = From(unused_elts)[i] /\ e # NoElt
    BY DEF Chain, N
  <2>2. i \in 0..m - 1 /\ e = q[i]
    <3>1. e = IF i <= m THEN q[i] ELSE NoElt
      BY <1>10, <2>1
    <3>2. i <= m /\ i # m
      BY <1>3, <2>1, <3>1 DEF PoolPath
    <3> QED
      BY <1>3, <3>1, <3>2
  <2>3. value[e] = NoValue
    BY <1>3, <2>2 DEF PoolPath
  <2>4. e \notin {p[k] : k \in 0..length}
    <3>1. i \in 0..m
      BY <2>2
    <3> QED
      BY <1>3, <2>2, <3>1
  <2> QED
    BY <1>7, <2>3, <2>4
<1> QED
  BY <1>3, <1>4, <1>8, <1>9, <1>11, <1>12 DEF EltsConsistent, N

(* The invariant of thread_safe_queue.ml holds for any number of threads   *)
(* and elements: whatever is recycled while an enqueue allocates, the list *)
(* leads from the front to the back and shares no element with the pool.   *)
THEOREM QueueEltsConsistent == Spec => []EltsConsistent
  BY EltsFromQueueInv, QueueInvInductive, PTL

(* Thread_safe_queue implements QueueSpec: every enqueue adds its value    *)
(* once, at what is then the back, and values leave in that order.         *)
THEOREM QueueImplementsQueueSpec == Spec => ImplementsQueueSpec
<1>1. Init => Abstract!Init
  BY InitQueueInv DEF Abstract!Init, Contents
<1>2. QueueInv /\ [Next]_vars => [Abstract!Next]_Contents
  BY NextQueueInv
<1>3. [Abstract!Next]_Contents <=> [Abstract!Next]_([i \in 1..length |-> value[From(front)[i - 1]]])
  BY DEF Contents
<1> QED
  BY <1>1, <1>2, <1>3, QueueInvInductive, PTL DEF Spec, ImplementsQueueSpec, Abstract!Spec

-----------------------------------------------------------------------------
(***************************************************************************)
(* WeakHashtbl: a table keeps the data set in its own entries, and never   *)
(* forgets a key that uses space, for any keys, blocks and depth of        *)
(* defaults.                                                               *)
(***************************************************************************)

(* A find_or_add holds on to an entry of its own key, or to one that is in
   the table no more. *)
FramesOwn ==
    \A i \in DOMAIN defaults : \A j \in Keys :
        entry_by_key[j] = defaults[i].entry => j = defaults[i].key

(* The data of a key that can be collected has a cleanup for the key. *)
Attached ==
    \A k \in Keys : \A d \in Data \ Static : Uses(k, d) => In(k, finalisers[d])

TableInv == TableTypeOK /\ FramesOwn /\ StoredDataFound /\ Attached /\ UnusedKeysKnown

-----------------------------------------------------------------------------
(* Sequences as queues. *)

LEMMA InAppend ==
    ASSUME NEW S, NEW s \in Seq(S), NEW y \in S, NEW x
    PROVE  In(x, Append(s, y)) <=> In(x, s) \/ x = y
  <1>1. In(x, s) => In(x, Append(s, y))
    BY DEF In
  <1>2. x = y => In(x, Append(s, y))
    BY Append(s, y)[Len(s) + 1] = y, Len(s) + 1 \in DOMAIN Append(s, y) DEF In
  <1>3. In(x, Append(s, y)) => In(x, s) \/ x = y
    BY DEF In
  <1> QED
    BY <1>1, <1>2, <1>3

LEMMA InConcat ==
    ASSUME NEW S, NEW s \in Seq(S), NEW t \in Seq(S), NEW x
    PROVE  In(x, s) \/ In(x, t) => In(x, s \o t)
  <1>1. In(x, s) => In(x, s \o t)
    BY DEF In
  <1>2. ASSUME In(x, t) PROVE In(x, s \o t)
    <2>1. PICK i \in 1 .. Len(t) : t[i] = x
      BY <1>2 DEF In
    <2>2. Len(s) + i \in DOMAIN (s \o t) /\ (s \o t)[Len(s) + i] = x
      BY <2>1
    <2> QED
      BY <2>2 DEF In
  <1> QED
    BY <1>1, <1>2

LEMMA InTail ==
    ASSUME NEW S, NEW s \in Seq(S), s # <<>>, NEW x
    PROVE  In(x, s) => x = Head(s) \/ In(x, Tail(s))
  <1> SUFFICES ASSUME In(x, s), x # Head(s) PROVE In(x, Tail(s))
    OBVIOUS
  <1>1. PICK i \in 1 .. Len(s) : s[i] = x
    BY DEF In
  <1>2. i # 1 /\ i - 1 \in DOMAIN Tail(s) /\ Tail(s)[i - 1] = x
    BY <1>1
  <1> QED
    BY <1>2 DEF In

LEMMA InFront ==
    ASSUME NEW S, NEW s \in Seq(S), s # <<>>, NEW x
    PROVE  /\ SubSeq(s, 1, Len(s) - 1) \in Seq(S)
           /\ In(x, s) => x = s[Len(s)] \/ In(x, SubSeq(s, 1, Len(s) - 1))
           /\ \A i \in DOMAIN SubSeq(s, 1, Len(s) - 1) :
                 i \in DOMAIN s /\ SubSeq(s, 1, Len(s) - 1)[i] = s[i]
           /\ Len(s) \in DOMAIN s /\ s[Len(s)] \in S
  <1>1. Len(s) \in Nat /\ Len(s) > 0 /\ DOMAIN s = 1 .. Len(s)
    OBVIOUS
  <1>2. /\ SubSeq(s, 1, Len(s) - 1) \in Seq(S)
        /\ Len(SubSeq(s, 1, Len(s) - 1)) = Len(s) - 1
        /\ \A i \in 1 .. Len(s) - 1 : SubSeq(s, 1, Len(s) - 1)[i] = s[i]
    BY <1>1
  <1>3. ASSUME In(x, s), x # s[Len(s)] PROVE In(x, SubSeq(s, 1, Len(s) - 1))
    <2>1. PICK i \in 1 .. Len(s) : s[i] = x
      BY <1>1, <1>3 DEF In
    <2>2. i \in 1 .. Len(s) - 1 /\ DOMAIN SubSeq(s, 1, Len(s) - 1) = 1 .. Len(s) - 1
      BY <1>1, <1>2, <1>3, <2>1
    <2> QED
      BY <1>2, <2>1, <2>2 DEF In
  <1>4. Len(s) \in DOMAIN s /\ s[Len(s)] \in S
    BY <1>1
  <1>5. \A i \in DOMAIN SubSeq(s, 1, Len(s) - 1) :
            i \in DOMAIN s /\ SubSeq(s, 1, Len(s) - 1)[i] = s[i]
    BY <1>1, <1>2
  <1> QED
    BY <1>2, <1>3, <1>4, <1>5

-----------------------------------------------------------------------------

LEMMA InitTableInv == TableInit => TableInv
  <1> SUFFICES ASSUME TableInit PROVE TableInv
    OBVIOUS
  <1> USE WeakAssumption
  <1>1. TableTypeOK
    <2>1. finalisers \in [Data -> Seq(Keys)] /\ defaults \in Seq(Frames)
      BY DEF TableInit
    <2>2. keys_with_unused_data \in Seq(Keys) /\ pending \in Seq(Keys)
      BY DEF TableInit
    <2>3. /\ entry_by_key \in [Keys -> Entries \cup {None}]
          /\ weak \in [Entries -> Data \cup {None}]
          /\ stored \in [Keys -> Data \cup {None}]
          /\ \A k \in Keys : entry_by_key[k] = None
          /\ held \in SUBSET Data /\ given_up \in SUBSET Keys
      BY DEF TableInit
    <2>4. reclaiming = Off /\ calling \in BOOLEAN /\ scheduled \in BOOLEAN
      BY Zenon DEF TableInit
    <2> QED
      BY <2>1, <2>2, <2>3, <2>4 DEF TableTypeOK
  <1>2. FramesOwn
    BY DEF TableInit, FramesOwn
  <1>3. \A k \in Keys : entry_by_key[k] = None /\ stored[k] = None
    BY DEF TableInit
  <1>4. StoredDataFound /\ Attached /\ UnusedKeysKnown
    BY <1>3 DEF StoredDataFound, Attached, UnusedKeysKnown, Uses
  <1> QED
    BY <1>1, <1>2, <1>4 DEF TableInv

(* Steps that leave entries and blocks alone. *)
LEMMA TableKept ==
    ASSUME TableInv, TableTypeOK', UNCHANGED <<table, finalisers>>,
           \A i \in DOMAIN defaults' : i \in DOMAIN defaults /\ defaults'[i] = defaults[i]
    PROVE  FramesOwn' /\ StoredDataFound' /\ Attached'
  BY DEF TableInv, FramesOwn, StoredDataFound, Attached, Uses, table

(* set_data, in the entry that the key has or had. *)
LEMMA SetDataStep ==
    ASSUME TableInv, NEW k \in Keys, NEW e \in Entries, NEW d \in Data, SetData(k, e, d),
           \A j \in Keys : entry_by_key'[j] = e => j = k,
           entry_by_key' = entry_by_key \/ entry_by_key' = [entry_by_key EXCEPT ![k] = e],
           UNCHANGED <<keys_with_unused_data, reclaiming>>,
           \A f \in Frames : In(f, defaults) => In(f, defaults') \/ f = [key |-> k, entry |-> e]
    PROVE  StoredDataFound' /\ Attached' /\ UnusedKeysKnown'
  <1> USE WeakAssumption
  <1>1. \A j \in Keys : j # k \/ entry_by_key'[k] # e =>
            /\ entry_by_key'[j] = entry_by_key[j] /\ stored'[j] = stored[j]
            /\ \A x : (Uses(j, x))' = Uses(j, x)
    BY DEF SetData, TableInv, TableTypeOK, Uses
  <1>2. entry_by_key'[k] = e => stored'[k] = d /\ \A x : (Uses(k, x))' <=> x = d
    BY DEF SetData, TableInv, TableTypeOK, Uses
  <1>3. StoredDataFound'
    BY <1>1, <1>2 DEF StoredDataFound, TableInv
  <1>4. \A j \in Keys, x \in Data : In(j, finalisers[x]) => In(j, finalisers'[x])
    BY InAppend DEF SetData, TableInv, TableTypeOK
  <1>5. d \notin Static => In(k, finalisers'[d])
    BY InAppend DEF SetData, TableInv, TableTypeOK
  <1>6. Attached'
    BY <1>1, <1>2, <1>4, <1>5 DEF Attached, TableInv
  <1>7. UnusedKeysKnown'
    <2> SUFFICES ASSUME NEW j \in Keys, (Uses(j, None))'
                 PROVE  \/ In(j, keys_with_unused_data) \/ In(j, pending) \/ reclaiming.key = j
                        \/ In([key |-> j, entry |-> entry_by_key'[j]], defaults')
                        \/ j \in given_up'
      BY DEF UnusedKeysKnown, SetData
    <2>1. j # k \/ entry_by_key'[k] # e
      BY <1>2
    <2>2. entry_by_key'[j] = entry_by_key[j] /\ Uses(j, None)
      BY <1>1, <2>1
    <2>3. j \in given_up => j \in given_up'
      BY <2>1 DEF SetData
    <2>4. [key |-> j, entry |-> entry_by_key'[j]] # [key |-> k, entry |-> e]
      BY <2>1
    <2>5. [key |-> j, entry |-> entry_by_key[j]] \in Frames
      BY <2>2 DEF Uses, TableInv, TableTypeOK, Frames
    <2> QED
      BY <2>2, <2>3, <2>4, <2>5 DEF UnusedKeysKnown, TableInv
  <1> QED
    BY <1>3, <1>6, <1>7

(* What get_entry returns is no one else's. *)
LEMMA GotEntryFacts ==
    ASSUME TableInv, NEW k \in Keys, NEW e \in GotEntry(k)
    PROVE  /\ e \in Entries /\ e # None
           /\ \A j \in Keys : entry_by_key[j] = e => j = k
           /\ \A i \in DOMAIN defaults : defaults[i].entry = e => defaults[i].key = k
           /\ entry_by_key[k] = None \/ entry_by_key[k] = e
  <1>1. CASE entry_by_key[k] # None
    BY <1>1, WeakAssumption DEF GotEntry, TableInv, TableTypeOK, FramesOwn
  <1>2. CASE entry_by_key[k] = None
    BY <1>2, WeakAssumption DEF GotEntry
  <1> QED
    BY <1>1, <1>2

(* replace and add_exn. *)
LEMMA PutStep ==
    ASSUME TableInv, NEW k \in Keys, NEW d \in Data, NEW e \in GotEntry(k),
           entry_by_key' = [entry_by_key EXCEPT ![k] = e], SetData(k, e, d),
           UNCHANGED <<keys_with_unused_data, defaults, reclaiming>>
    PROVE  TableInv'
  <1>1. TableTypeOK'
    BY GotEntryFacts, WeakAssumption DEF SetData, TableInv, TableTypeOK
  <1>2. FramesOwn'
    BY GotEntryFacts DEF TableInv, TableTypeOK, FramesOwn
  <1>3. StoredDataFound' /\ Attached' /\ UnusedKeysKnown'
    <2>1. \A j \in Keys : entry_by_key'[j] = e => j = k
      BY GotEntryFacts DEF TableInv, TableTypeOK
    <2>2. e \in Entries
      BY GotEntryFacts
    <2> QED
      BY <2>1, <2>2, SetDataStep
  <1> QED
    BY <1>1, <1>2, <1>3 DEF TableInv

-----------------------------------------------------------------------------

LEMMA CollectStep ==
    ASSUME TableInv, NEW d \in Data, Collect(d)
    PROVE  TableInv'
  <1> USE WeakAssumption
  <1>1. TableTypeOK'
    BY DEF Collect, TableInv, TableTypeOK
  <1>2. FramesOwn'
    BY DEF Collect, TableInv, FramesOwn
  <1>3. \A k \in Keys : \A x \in Data : (Uses(k, x))' <=> x # d /\ Uses(k, x)
    BY DEF Collect, TableInv, TableTypeOK, Uses
  <1>4. StoredDataFound'
    BY <1>3 DEF Collect, TableInv, TableTypeOK, StoredDataFound
  <1>5. Attached'
    BY <1>3 DEF Collect, TableInv, TableTypeOK, Attached
  <1>6. \A k \in Keys : In(k, pending) \/ In(k, finalisers[d]) => In(k, pending')
    BY InConcat DEF Collect, TableInv, TableTypeOK
  <1>7. \A k \in Keys : (Uses(k, None))' => Uses(k, None) \/ Uses(k, d)
    BY DEF Collect, TableInv, TableTypeOK, Uses
  <1>8. \A k \in Keys : Uses(k, d) => In(k, pending')
    BY <1>6 DEF Collect, TableInv, Attached
  <1>9. UnusedKeysKnown'
    <2> SUFFICES ASSUME NEW k \in Keys, (Uses(k, None))', ~ In(k, pending')
                 PROVE  \/ In(k, keys_with_unused_data) \/ reclaiming.key = k
                        \/ In([key |-> k, entry |-> entry_by_key[k]], defaults)
                        \/ k \in given_up
      BY DEF UnusedKeysKnown, Collect
    <2> QED
      BY <1>6, <1>7, <1>8 DEF UnusedKeysKnown, TableInv
  <1> QED
    BY <1>1, <1>2, <1>4, <1>5, <1>9 DEF TableInv

LEMMA CleanupStep ==
    ASSUME TableInv, Cleanup
    PROVE  TableInv'
  <1>1. Head(pending) \in Keys /\ Tail(pending) \in Seq(Keys)
    BY DEF Cleanup, TableInv, TableTypeOK
  <1>2. TableTypeOK'
    BY <1>1 DEF Cleanup, TableInv, TableTypeOK, table
  <1>3. FramesOwn' /\ StoredDataFound' /\ Attached'
    BY <1>2, TableKept DEF Cleanup
  <1>4. \A k \in Keys : In(k, pending) => In(k, pending') \/ k = Head(pending)
    BY InTail DEF Cleanup, TableInv, TableTypeOK
  <1>5. \A k \in Keys : In(k, keys_with_unused_data) \/ k = Head(pending) =>
            In(k, keys_with_unused_data')
    BY <1>1, InAppend DEF Cleanup, TableInv, TableTypeOK
  <1>6. UnusedKeysKnown'
    BY <1>4, <1>5 DEF UnusedKeysKnown, Cleanup, TableInv, table, Uses
  <1> QED
    BY <1>2, <1>3, <1>6 DEF TableInv

(* Steps that only say who refers to what, or ask for a reclaim. *)
LEMMA QuietStep ==
    ASSUME TableInv,
           \/ RunWhenUnusedData
           \/ \E d \in Data : Forget(d)
           \/ \E k \in Keys : Find(k)
    PROVE  TableInv'
  <1>1. TableTypeOK'
    BY WeakAssumption DEF RunWhenUnusedData, Forget, Find, HasData, TableInv, TableTypeOK, table, gc
  <1>2. UNCHANGED <<table, finalisers, defaults, pending, keys_with_unused_data, reclaiming, given_up>>
    BY DEF RunWhenUnusedData, Forget, Find, gc
  <1>3. FramesOwn' /\ StoredDataFound' /\ Attached'
    BY <1>1, <1>2, TableKept
  <1>4. UnusedKeysKnown'
    BY <1>2 DEF UnusedKeysKnown, TableInv, table, Uses
  <1> QED
    BY <1>1, <1>3, <1>4 DEF TableInv

(* remove and clear, for the set of keys that go. *)
LEMMA DropStep ==
    ASSUME TableInv, NEW K \in SUBSET Keys,
           entry_by_key' = [k \in Keys |-> IF k \in K THEN None ELSE entry_by_key[k]],
           stored' = [k \in Keys |-> IF k \in K THEN None ELSE stored[k]],
           given_up' = given_up \ K,
           UNCHANGED <<weak, keys_with_unused_data, gc, held, defaults, reclaiming>>
    PROVE  TableInv'
  <1> USE WeakAssumption
  <1>1. TableTypeOK'
    BY DEF TableInv, TableTypeOK, gc
  <1>2. \A k \in Keys : \A x : (Uses(k, x))' <=> k \notin K /\ Uses(k, x)
    BY DEF Uses
  <1>3. FramesOwn'
    <2> SUFFICES ASSUME NEW i \in DOMAIN defaults, NEW j \in Keys, entry_by_key'[j] = defaults[i].entry
                 PROVE  j = defaults[i].key
      BY DEF FramesOwn
    <2>1. defaults[i] \in Frames
      BY DEF TableInv, TableTypeOK
    <2>2. defaults[i].entry # None
      BY <2>1 DEF Frames
    <2> QED
      BY <2>2 DEF TableInv, FramesOwn
  <1>4. StoredDataFound'
    BY <1>2 DEF TableInv, StoredDataFound
  <1>5. Attached'
    BY <1>2 DEF TableInv, Attached, gc
  <1>6. UnusedKeysKnown'
    <2> SUFFICES ASSUME NEW k \in Keys, (Uses(k, None))'
                 PROVE  \/ In(k, keys_with_unused_data) \/ In(k, pending) \/ reclaiming.key = k
                        \/ In([key |-> k, entry |-> entry_by_key'[k]], defaults)
                        \/ k \in given_up'
      BY DEF UnusedKeysKnown, gc
    <2>1. k \notin K /\ Uses(k, None) /\ entry_by_key'[k] = entry_by_key[k]
      BY <1>2
    <2> QED
      BY <2>1 DEF UnusedKeysKnown, TableInv
  <1> QED
    BY <1>1, <1>3, <1>4, <1>5, <1>6 DEF TableInv

LEMMA FindOrAddStep ==
    ASSUME TableInv, NEW k \in Keys, FindOrAdd(k)
    PROVE  TableInv'
  <1> USE WeakAssumption
  <1>1. PICK e \in GotEntry(k) :
            /\ entry_by_key' = [entry_by_key EXCEPT ![k] = e]
            /\ weak' = [weak EXCEPT ![e] = None]
            /\ defaults' = Append(defaults, [key |-> k, entry |-> e])
    BY DEF FindOrAdd
  <1>2. /\ e \in Entries /\ e # None
        /\ \A j \in Keys : entry_by_key[j] = e => j = k
        /\ \A i \in DOMAIN defaults : defaults[i].entry = e => defaults[i].key = k
        /\ entry_by_key[k] = None \/ entry_by_key[k] = e
    BY GotEntryFacts
  <1> DEFINE f == [key |-> k, entry |-> e]
  <1>3. f \in Frames
    BY <1>2 DEF Frames
  <1>4. TableTypeOK'
    <2>1. defaults' \in Seq(Frames)
      BY <1>1, <1>3 DEF TableInv, TableTypeOK
    <2> QED
      BY <1>1, <1>2, <2>1 DEF FindOrAdd, TableInv, TableTypeOK, gc
  <1>5. FramesOwn'
    <2> SUFFICES ASSUME NEW i \in DOMAIN defaults', NEW j \in Keys,
                        entry_by_key'[j] = defaults'[i].entry
                 PROVE  j = defaults'[i].key
      BY DEF FramesOwn
    <2>1. CASE i \in DOMAIN defaults /\ defaults'[i] = defaults[i]
      BY <1>1, <1>2, <2>1 DEF TableInv, TableTypeOK, FramesOwn
    <2>2. CASE defaults'[i] = f
      BY <1>1, <1>2, <2>2 DEF TableInv, TableTypeOK
    <2>3. (i \in DOMAIN defaults /\ defaults'[i] = defaults[i]) \/ defaults'[i] = f
      BY <1>1, <1>3 DEF TableInv, TableTypeOK
    <2> QED
      BY <2>1, <2>2, <2>3
  <1>6. \A j \in Keys : j # k =>
            entry_by_key'[j] = entry_by_key[j] /\ \A x : (Uses(j, x))' = Uses(j, x)
    BY <1>1, <1>2 DEF TableInv, TableTypeOK, Uses
  <1>7. stored[k] = None
    BY DEF FindOrAdd, HasData, TableInv, TableTypeOK, StoredDataFound, Uses
  <1>8. StoredDataFound'
    BY <1>6, <1>7 DEF FindOrAdd, TableInv, StoredDataFound
  <1>9. \A x \in Data : ~ (Uses(k, x))'
    BY <1>1, <1>2 DEF TableInv, TableTypeOK, Uses
  <1>10. Attached'
    BY <1>6, <1>9 DEF FindOrAdd, TableInv, Attached, gc
  <1>11. UnusedKeysKnown'
    <2> SUFFICES ASSUME NEW j \in Keys, (Uses(j, None))'
                 PROVE  \/ In(j, keys_with_unused_data) \/ In(j, pending) \/ reclaiming.key = j
                        \/ In([key |-> j, entry |-> entry_by_key'[j]], defaults')
                        \/ j \in given_up
      BY DEF UnusedKeysKnown, FindOrAdd, gc
    <2>1. CASE j = k
      <3>1. entry_by_key'[j] = e
        BY <1>1, <2>1 DEF TableInv, TableTypeOK
      <3>2. In(f, defaults')
        BY <1>1, <1>3, InAppend DEF TableInv, TableTypeOK
      <3> QED
        BY <2>1, <3>1, <3>2
    <2>2. CASE j # k
      <3>1. entry_by_key'[j] = entry_by_key[j] /\ Uses(j, None)
        BY <1>6, <2>2
      <3>2. \A g : In(g, defaults) => In(g, defaults')
        BY <1>1, <1>3, InAppend DEF TableInv, TableTypeOK
      <3> QED
        BY <3>1, <3>2 DEF UnusedKeysKnown, TableInv
    <2> QED
      BY <2>1, <2>2
  <1> QED
    BY <1>4, <1>5, <1>8, <1>10, <1>11 DEF TableInv

(* What is known when a default ends. *)
LEMMA LeaveFacts ==
    ASSUME TableInv, defaults # <<>>, Leave
    PROVE  /\ defaults' \in Seq(Frames)
           /\ \A f : In(f, defaults) => f = Frame \/ In(f, defaults')
           /\ \A i \in DOMAIN defaults' : i \in DOMAIN defaults /\ defaults'[i] = defaults[i]
           /\ Frame \in Frames
           /\ \A j \in Keys : entry_by_key[j] = Frame.entry => j = Frame.key
  <1>1. defaults \in Seq(Frames)
    BY DEF TableInv, TableTypeOK
  <1>2. Len(defaults) \in DOMAIN defaults /\ Frame \in Frames
    BY <1>1, InFront DEF Frame
  <1>3. \A j \in Keys : entry_by_key[j] = Frame.entry => j = Frame.key
    BY <1>2 DEF TableInv, FramesOwn, Frame
  <1> QED
    BY <1>1, <1>2, <1>3, InFront DEF Leave, Frame

LEMMA DefaultReturnsStep ==
    ASSUME TableInv, NEW d \in Data, DefaultReturns(d)
    PROVE  TableInv'
  <1>1. /\ defaults # <<>> /\ Leave /\ SetData(Frame.key, Frame.entry, d)
        /\ UNCHANGED <<entry_by_key, keys_with_unused_data, reclaiming>>
    BY DEF DefaultReturns
  <1>2. /\ defaults' \in Seq(Frames)
        /\ \A f : In(f, defaults) => f = Frame \/ In(f, defaults')
        /\ \A i \in DOMAIN defaults' : i \in DOMAIN defaults /\ defaults'[i] = defaults[i]
        /\ Frame \in Frames
        /\ \A j \in Keys : entry_by_key[j] = Frame.entry => j = Frame.key
    BY <1>1, LeaveFacts
  <1>3. /\ Frame.key \in Keys /\ Frame.entry \in Entries
        /\ Frame = [key |-> Frame.key, entry |-> Frame.entry]
    BY <1>2 DEF Frames
  <1>4. TableTypeOK'
    BY <1>1, <1>2, <1>3 DEF SetData, TableInv, TableTypeOK
  <1>5. FramesOwn'
    BY <1>1, <1>2 DEF TableInv, FramesOwn
  <1>6. StoredDataFound' /\ Attached' /\ UnusedKeysKnown'
    BY <1>1, <1>2, <1>3, SetDataStep
  <1> QED
    BY <1>4, <1>5, <1>6 DEF TableInv

LEMMA DefaultRaisesStep ==
    ASSUME TableInv, DefaultRaises
    PROVE  TableInv'
  <1>1. defaults # <<>> /\ Leave
    BY DEF DefaultRaises
  <1>2. /\ defaults' \in Seq(Frames)
        /\ \A f : In(f, defaults) => f = Frame \/ In(f, defaults')
        /\ \A i \in DOMAIN defaults' : i \in DOMAIN defaults /\ defaults'[i] = defaults[i]
        /\ Frame \in Frames
    BY <1>1, LeaveFacts
  <1>3. TableTypeOK'
    BY <1>2 DEF DefaultRaises, Frames, TableInv, TableTypeOK, table, gc
  <1>4. FramesOwn' /\ StoredDataFound' /\ Attached'
    BY <1>2, <1>3, TableKept DEF DefaultRaises, gc
  <1>5. UnusedKeysKnown'
    <2> SUFFICES ASSUME NEW k \in Keys, Uses(k, None)
                 PROVE  \/ In(k, keys_with_unused_data) \/ In(k, pending) \/ reclaiming.key = k
                        \/ In([key |-> k, entry |-> entry_by_key[k]], defaults')
                        \/ k \in given_up'
      BY DEF UnusedKeysKnown, Uses, DefaultRaises, table, gc
    <2>1. Frame = [key |-> k, entry |-> entry_by_key[k]] => k \in given_up'
      BY DEF DefaultRaises
    <2>2. given_up \subseteq given_up'
      BY DEF DefaultRaises
    <2> QED
      BY <1>2, <2>1, <2>2 DEF UnusedKeysKnown, TableInv
  <1> QED
    BY <1>3, <1>4, <1>5 DEF TableInv

LEMMA DequeueStep ==
    ASSUME TableInv, Reclaim \/ TakeUnused
    PROVE  TableInv'
  <1>1. UNCHANGED <<table, finalisers, pending, calling, held, defaults, given_up>>
    BY DEF Reclaim, TakeUnused, gc
  <1>2. /\ keys_with_unused_data' \in Seq(Keys)
        /\ \A k \in Keys : In(k, keys_with_unused_data) =>
               In(k, keys_with_unused_data') \/ reclaiming'.key = k
        /\ reclaiming' \in {Off} \cup {On(k) : k \in Keys \cup {None}}
    <2>1. CASE Reclaim \/ keys_with_unused_data = <<>>
      BY <2>1 DEF Reclaim, TakeUnused, TableInv, TableTypeOK
    <2>2. CASE TakeUnused /\ keys_with_unused_data # <<>>
      <3>1. /\ keys_with_unused_data' = Tail(keys_with_unused_data)
            /\ reclaiming' = On(Head(keys_with_unused_data))
            /\ keys_with_unused_data \in Seq(Keys)
        BY <2>2 DEF TakeUnused, TableInv, TableTypeOK
      <3>2. Head(keys_with_unused_data) \in Keys /\ Tail(keys_with_unused_data) \in Seq(Keys)
        BY <2>2, <3>1
      <3> QED
        BY <2>2, <3>1, <3>2, InTail DEF On
    <2> QED
      BY <2>1, <2>2
  <1>3. scheduled' \in BOOLEAN
    BY DEF Reclaim, TakeUnused, TableInv, TableTypeOK, gc
  <1>4. TableTypeOK'
    BY <1>1, <1>2, <1>3 DEF TableInv, TableTypeOK, table
  <1>5. FramesOwn' /\ StoredDataFound' /\ Attached'
    BY <1>1, <1>4, TableKept
  <1>6. \A k \in Keys : reclaiming.key # k
    BY WeakAssumption DEF Reclaim, TakeUnused, Calls, TableInv, TableTypeOK, Off, On
  <1>7. UnusedKeysKnown'
    BY <1>1, <1>2, <1>6 DEF UnusedKeysKnown, TableInv, table, Uses
  <1> QED
    BY <1>4, <1>5, <1>7 DEF TableInv

LEMMA RemoveUnusedStep ==
    ASSUME TableInv, RemoveUnused
    PROVE  TableInv'
  <1> DEFINE k == reclaiming.key
  <1> USE WeakAssumption
  <1>1. k \in Keys
    BY DEF RemoveUnused, TableInv, TableTypeOK, Off, On
  <1>2. /\ reclaiming' = On(None)
        /\ UNCHANGED <<weak, stored, keys_with_unused_data, gc, held, defaults>>
    BY DEF RemoveUnused
  <1>3. CASE ~ Uses(k, None)
    <2>1. UNCHANGED <<entry_by_key, given_up>>
      BY <1>3 DEF RemoveUnused, HasData, Uses
    <2>2. TableTypeOK'
      BY <1>2, <2>1 DEF TableInv, TableTypeOK, gc
    <2>3. FramesOwn' /\ StoredDataFound' /\ Attached'
      BY <1>2, <2>1, <2>2, TableKept DEF table, gc
    <2>4. UnusedKeysKnown'
      BY <1>2, <1>3, <2>1 DEF UnusedKeysKnown, TableInv, gc, Uses
    <2> QED
      BY <2>2, <2>3, <2>4 DEF TableInv
  <1>4. CASE Uses(k, None)
    <2>1. /\ entry_by_key' = [entry_by_key EXCEPT ![k] = None]
          /\ given_up' = given_up \ {k}
      BY <1>4 DEF RemoveUnused, HasData, Uses
    <2>2. stored[k] = None
      BY <1>1, <1>4 DEF TableInv, TableTypeOK, StoredDataFound, Uses
    <2>3. TableTypeOK'
      BY <1>1, <1>2, <2>1 DEF TableInv, TableTypeOK, gc
    <2>4. \A j \in Keys : \A x : (Uses(j, x))' <=> j # k /\ Uses(j, x)
      BY <1>1, <1>2, <2>1 DEF TableInv, TableTypeOK, Uses
    <2>5. FramesOwn'
      <3> SUFFICES ASSUME NEW i \in DOMAIN defaults, NEW j \in Keys,
                          entry_by_key'[j] = defaults[i].entry
                   PROVE  j = defaults[i].key
        BY <1>2 DEF FramesOwn
      <3>1. defaults[i] \in Frames
        BY DEF TableInv, TableTypeOK
      <3>2. defaults[i].entry # None
        BY <3>1 DEF Frames
      <3> QED
        BY <2>1, <3>2 DEF TableInv, TableTypeOK, FramesOwn
    <2>6. StoredDataFound'
      BY <1>2, <2>2, <2>4 DEF TableInv, StoredDataFound
    <2>7. Attached'
      BY <1>2, <2>4 DEF TableInv, Attached, gc
    <2>8. UnusedKeysKnown'
      <3> SUFFICES ASSUME NEW j \in Keys, (Uses(j, None))'
                   PROVE  \/ In(j, keys_with_unused_data) \/ In(j, pending)
                          \/ In([key |-> j, entry |-> entry_by_key'[j]], defaults)
                          \/ j \in given_up'
        BY <1>2 DEF UnusedKeysKnown, gc
      <3>1. j # k /\ Uses(j, None) /\ entry_by_key'[j] = entry_by_key[j]
        BY <2>1, <2>4 DEF TableInv, TableTypeOK
      <3> QED
        BY <2>1, <3>1 DEF UnusedKeysKnown, TableInv
    <2> QED
      BY <2>3, <2>5, <2>6, <2>7, <2>8 DEF TableInv
  <1> QED
    BY <1>3, <1>4

-----------------------------------------------------------------------------

LEMMA StepTableInv ==
    ASSUME TableInv, [TableNext]_tableVars
    PROVE  TableInv'
  <1>1. ASSUME NEW d \in Data, Collect(d) PROVE TableInv'
    BY <1>1, CollectStep
  <1>2. ASSUME NEW d \in Data, DefaultReturns(d) PROVE TableInv'
    BY <1>2, DefaultReturnsStep
  <1>3. CASE Cleanup
    BY <1>3, CleanupStep
  <1>4. CASE RunWhenUnusedData \/ (\E d \in Data : Forget(d)) \/ (\E k \in Keys : Find(k))
    BY <1>4, QuietStep
  <1>5. ASSUME NEW k \in Keys, Remove(k) PROVE TableInv'
    <2>1. /\ entry_by_key' = [j \in Keys |-> IF j \in {k} THEN None ELSE entry_by_key[j]]
          /\ stored' = [j \in Keys |-> IF j \in {k} THEN None ELSE stored[j]]
      BY <1>5 DEF Remove, TableInv, TableTypeOK
    <2> QED
      BY <1>5, <2>1, DropStep, ZenonT(60) DEF Remove
  <1>6. CASE Clear
    <2>1. /\ entry_by_key' = [j \in Keys |-> IF j \in Keys THEN None ELSE entry_by_key[j]]
          /\ stored' = [j \in Keys |-> IF j \in Keys THEN None ELSE stored[j]]
          /\ given_up' = given_up \ Keys
      BY <1>6 DEF Clear, TableInv, TableTypeOK
    <2> QED
      BY <1>6, <2>1, DropStep DEF Clear
  <1>7. ASSUME NEW k \in Keys, FindOrAdd(k) PROVE TableInv'
    BY <1>7, FindOrAddStep
  <1>8. ASSUME NEW k \in Keys, NEW d \in Data, Replace(k, d) \/ AddExn(k, d) PROVE TableInv'
    BY <1>8, PutStep DEF Replace, AddExn
  <1>9. CASE DefaultRaises
    BY <1>9, DefaultRaisesStep
  <1>10. CASE Reclaim \/ TakeUnused
    BY <1>10, DequeueStep
  <1>11. CASE RemoveUnused
    BY <1>11, RemoveUnusedStep
  <1>12. CASE UNCHANGED tableVars
    <2>1. UNCHANGED <<table, finalisers, pending, keys_with_unused_data, reclaiming, defaults, given_up>>
      BY <1>12 DEF tableVars, gc
    <2>2. TableTypeOK'
      BY <1>12 DEF tableVars, table, gc, TableInv, TableTypeOK
    <2>3. UnusedKeysKnown'
      BY <2>1 DEF UnusedKeysKnown, TableInv, table, Uses
    <2> QED
      BY <2>1, <2>2, <2>3, TableKept DEF TableInv
  <1> QED
    BY <1>1, <1>2, <1>3, <1>4, <1>5, <1>6, <1>7, <1>8, <1>9, <1>10, <1>11, <1>12 DEF TableNext

LEMMA TableInvHolds == TableSpec => []TableInv
  BY InitTableInv, StepTableInv, PTL DEF TableSpec

(* Entries are never shared by two keys, whatever the program, its defaults
   and the collector do (get_entry, find_or_add, reclaim). *)
THEOREM WeakTypeCorrect == TableSpec => []TableTypeOK
  <1>1. TableInv => TableTypeOK
    BY DEF TableInv
  <1> QED
    BY <1>1, TableInvHolds, PTL

(* Data that was set in the entry a key has in the table is found until it is
   collected: neither a cleanup of earlier data
   (reclaim_space_for_keys_with_unused_data) nor a find_or_add that holds on
   to an earlier entry takes it away. *)
THEOREM StoredDataKept == TableSpec => []StoredDataFound
  <1>1. TableInv => StoredDataFound
    BY DEF TableInv
  <1> QED
    BY <1>1, TableInvHolds, PTL

(* No key that uses space without data is forgotten, but for a default that
   raised (set_data's cleanup, reclaim_space_for_keys_with_unused_data). *)
THEOREM UnusedKeysStayKnown == TableSpec => []UnusedKeysKnown
  <1>1. TableInv => UnusedKeysKnown
    BY DEF TableInv
  <1> QED
    BY <1>1, TableInvHolds, PTL
===============================================================================

-------------------------- MODULE TimingWheelProofs --------------------------
(***************************************************************************)
(* Proofs about TimingWheel, for any width of keys, any levels and cells.  *)
(* What the code computes from a configuration is first rewritten as       *)
(* operators of that configuration (Per, Num, Cover, Floor, SlotOf), so    *)
(* that the arithmetic of levels is apart from the state; then come lists, *)
(* the lists of a wheel, the search for the minimum, the advance of one    *)
(* level and of all, the inductive invariant and the set of alarms.        *)
(***************************************************************************)
EXTENDS TimingWheel, FiniteSetTheorems, WellFoundedInduction, TLAPS

-----------------------------------------------------------------------------
(***************************************************************************)
(* Powers of two.                                                          *)
(***************************************************************************)
(* Induction over the natural numbers, as a fact about sets. *)
LEMMA LeastElement ==
  ASSUME NEW S \in SUBSET Nat, S # {}
  PROVE  \E n \in S : \A m \in S : n <= m
<1>1. IsWellFoundedOn(OpToRel(<, Nat), Nat)
  BY NatLessThanWellFounded, Zenon
<1>2. PICK n \in S : \A m \in S : <<m, n>> \notin OpToRel(<, Nat)
  BY <1>1, WFMin, Zenon
<1>3. \A m \in S : ~ (m < n)
  BY <1>2, Zenon DEF OpToRel
<1>4. \A m \in S : m \in Nat /\ n \in Nat
  BY <1>2
<1>5. \A m \in S : n <= m
  BY <1>3, <1>4
<1> QED
  BY <1>2, <1>5

(* A set of numbers that is closed under successor has them all. *)
LEMMA Induction ==
  ASSUME NEW S \in SUBSET Nat, 0 \in S, \A n \in S : n + 1 \in S
  PROVE  S = Nat
<1> SUFFICES ASSUME Nat \ S # {}
             PROVE  FALSE
  OBVIOUS
<1>1. PICK n \in Nat \ S : \A m \in Nat \ S : n <= m
  <2>1. Nat \ S \in SUBSET Nat
    OBVIOUS
  <2> QED
    BY <2>1, LeastElement
<1>2. n # 0 /\ n - 1 \in Nat
  BY <1>1
<1>3. n - 1 \in S
  BY <1>1, <1>2
<1>4. (n - 1) + 1 \in S
  BY <1>3
<1> QED
  BY <1>1, <1>2, <1>4

LEMMA BoundedInduction ==
  ASSUME NEW S, NEW n \in Nat, 0 \in S, \A m \in 0 .. n - 1 : m \in S => m + 1 \in S
  PROVE  \A m \in 0 .. n : m \in S
<1> DEFINE T == {m \in Nat : m <= n => m \in S}
<1>1. 0 \in T
  OBVIOUS
<1>2. ASSUME NEW m \in T
      PROVE  m + 1 \in T
  OBVIOUS
<1>3. T = Nat
  <2>1. T \in SUBSET Nat
    OBVIOUS
  <2> HIDE DEF T
  <2> QED
    BY <1>1, <1>2, <2>1, Induction
<1> QED
  BY <1>3

LEMMA PowZero == 2 ^ 0 = 1
  OBVIOUS

(* 2 ^ n is the number of subsets of 1 .. n. *)
LEMMA PowSubsets ==
  ASSUME NEW n \in Nat
  PROVE  IsFiniteSet(SUBSET (1 .. n)) /\ Cardinality(SUBSET (1 .. n)) = 2 ^ n
<1>1. IsFiniteSet(1 .. n) /\ Cardinality(1 .. n) = n
  BY FS_Interval
<1> QED
  BY <1>1, FS_SUBSET, Zenon

LEMMA PowType ==
  ASSUME NEW n \in Nat
  PROVE  2 ^ n \in Nat \ {0}
<1>1. Cardinality(SUBSET (1 .. n)) \in Nat
  BY PowSubsets, FS_CardinalityType
<1>2. SUBSET (1 .. n) # {}
  OBVIOUS
<1>3. Cardinality(SUBSET (1 .. n)) # 0
  BY <1>2, PowSubsets, FS_EmptySet
<1> QED
  BY <1>1, <1>3, PowSubsets

(* The subsets of 1 .. n + 1 are those of 1 .. n, without n + 1 and with it. *)
LEMMA PowNext ==
  ASSUME NEW n \in Nat
  PROVE  2 ^ (n + 1) = 2 * 2 ^ n
<1> DEFINE S == SUBSET (1 .. n)
           T == {A \cup {n + 1} : A \in S}
           f == [A \in S |-> A \cup {n + 1}]
<1>1. SUBSET (1 .. n + 1) = S \cup T
  <2>1. ASSUME NEW A \in SUBSET (1 .. n + 1)
        PROVE  A \in S \cup T
    <3>1. CASE n + 1 \notin A
      BY <3>1
    <3>2. CASE n + 1 \in A
      <4>1. A \ {n + 1} \in S
        OBVIOUS
      <4>2. A = (A \ {n + 1}) \cup {n + 1}
        BY <3>2
      <4> QED
        BY <4>1, <4>2
    <3> QED
      BY <3>1, <3>2
  <2>2. 1 .. n \subseteq 1 .. n + 1 /\ n + 1 \in 1 .. n + 1
    OBVIOUS
  <2>3. S \cup T \subseteq SUBSET (1 .. n + 1)
    BY <2>2, Zenon
  <2>4. SUBSET (1 .. n + 1) \subseteq S \cup T
    BY <2>1, Zenon
  <2> QED
    BY <2>3, <2>4, Zenon
<1>2. S \cap T = {}
  BY n + 1 \notin 1 .. n
<1>3. f \in Bijection(S, T)
  <2>1. f \in [S -> T]
    BY Zenon
  <2>2. ASSUME NEW A \in S, NEW B \in S, f[A] = f[B]
        PROVE  A = B
    <3>1. n + 1 \notin A /\ n + 1 \notin B /\ A \cup {n + 1} = B \cup {n + 1}
      BY <2>2
    <3> QED
      BY <3>1
  <2>3. \A t \in T : \E A \in S : f[A] = t
    BY Zenon
  <2> QED
    <3> HIDE DEF f, S, T
    <3>1. DOMAIN f = S
      BY <2>1, Zenon
    <3>2. IsInjective(f)
      BY <2>2, <3>1, Zenon DEF IsInjective
    <3> QED
      BY <2>1, <2>3, <3>2, Zenon DEF Bijection, Injection, Surjection
<1>4. IsFiniteSet(S) /\ Cardinality(S) = 2 ^ n
  BY PowSubsets
<1>5. IsFiniteSet(T) /\ Cardinality(T) = 2 ^ n
  <2>1. ExistsBijection(S, T)
    BY <1>3 DEF ExistsBijection
  <2> QED
    BY <1>4, <2>1, FS_Bijection
<1>6. Cardinality(S \cup T) = 2 ^ n + 2 ^ n
  <2>1. Cardinality(S \cap T) = 0
    BY <1>2, FS_EmptySet
  <2> HIDE DEF S, T
  <2>2. Cardinality(S \cup T) = Cardinality(S) + Cardinality(T) - Cardinality(S \cap T)
    BY <1>4, <1>5, FS_Union
  <2> QED
    BY <1>4, <1>5, <2>1, <2>2, PowType
<1>7. Cardinality(SUBSET (1 .. n + 1)) = 2 ^ (n + 1)
  BY n + 1 \in Nat, PowSubsets
<1> HIDE DEF S, T
<1>8. 2 ^ (n + 1) = 2 ^ n + 2 ^ n
  BY <1>1, <1>6, <1>7, Zenon
<1> QED
  BY <1>8, PowType

LEMMA PowSum ==
  ASSUME NEW a \in Nat, NEW b \in Nat
  PROVE  2 ^ (a + b) = 2 ^ a * 2 ^ b
<1> DEFINE S == {n \in Nat : 2 ^ (a + n) = 2 ^ a * 2 ^ n}
<1>1. 0 \in S
  BY PowZero, PowType
<1>2. ASSUME NEW n \in S
      PROVE  n + 1 \in S
  <2>1. 2 ^ (a + (n + 1)) = 2 * 2 ^ (a + n)
    BY a + n \in Nat, a + (n + 1) = (a + n) + 1, PowNext
  <2>2. 2 ^ (n + 1) = 2 * 2 ^ n
    BY PowNext
  <2>3. 2 ^ a \in Nat /\ 2 ^ n \in Nat /\ 2 ^ (a + n) = 2 ^ a * 2 ^ n
    BY PowType
  <2> QED
    BY <2>1, <2>2, <2>3
<1>3. S = Nat
  <2>1. S \in SUBSET Nat
    OBVIOUS
  <2> HIDE DEF S
  <2> QED
    BY <1>1, <1>2, <2>1, Induction
<1> QED
  BY <1>3

LEMMA PowMonotone ==
  ASSUME NEW a \in Nat, NEW b \in Nat, a <= b
  PROVE  2 ^ a <= 2 ^ b
<1>1. 2 ^ b = 2 ^ a * 2 ^ (b - a)
  BY b - a \in Nat, b = a + (b - a), PowSum
<1> QED
  BY <1>1, PowType, b - a \in Nat
-----------------------------------------------------------------------------
(***************************************************************************)
(* Recursive functions and lists.                                          *)
(***************************************************************************)
(* f starts at b and follows G for n steps.                                *)
Follows(f, G, b, n, X) ==
  f \in [0 .. n -> X] /\ f[0] = b /\ \A i \in 1 .. n : f[i] = G[<<i, f[i - 1]>>]

LEMMA Recursion ==
  ASSUME NEW X, NEW b \in X, NEW n \in Nat, NEW G \in [(1 .. n) \X X -> X]
  PROVE  \E f : Follows(f, G, b, n, X)
<1> DEFINE Upto(k, f) == f[0] = b /\ \A i \in 1 .. k : f[i] = G[<<i, f[i - 1]>>]
           S == {k \in Nat : k <= n => \E f \in [0 .. k -> X] : Upto(k, f)}
<1>1. 0 \in S
  <2>1. Upto(0, [i \in 0 .. 0 |-> b])
    OBVIOUS
  <2> QED
    BY <2>1
<1>2. ASSUME NEW k \in S
      PROVE  k + 1 \in S
  <2> SUFFICES ASSUME k + 1 <= n
               PROVE  \E f \in [0 .. k + 1 -> X] : Upto(k + 1, f)
    OBVIOUS
  <2>1. PICK f \in [0 .. k -> X] : Upto(k, f)
    OBVIOUS
  <2> DEFINE g == [i \in 0 .. k + 1 |-> IF i = k + 1 THEN G[<<k + 1, f[k]>>] ELSE f[i]]
  <2>2. g \in [0 .. k + 1 -> X]
    <3>1. <<k + 1, f[k]>> \in (1 .. n) \X X
      OBVIOUS
    <3> QED
      BY <3>1
  <2>3. Upto(k + 1, g)
    <3>1. g[0] = b
      BY <2>1
    <3>2. ASSUME NEW i \in 1 .. k + 1
          PROVE  g[i] = G[<<i, g[i - 1]>>]
      <4>1. i - 1 \in 0 .. k /\ g[i - 1] = f[i - 1]
        OBVIOUS
      <4>2. CASE i \in 1 .. k
        BY <2>1, <4>1, <4>2
      <4>3. CASE i = k + 1
        <5>1. g[k + 1] = G[<<k + 1, f[k]>>] /\ i - 1 = k
          BY <4>3
        <5> QED
          BY <4>1, <4>3, <5>1
      <4> QED
        BY <4>2, <4>3
    <3> QED
      BY <3>1, <3>2
  <2> QED
    BY <2>2, <2>3
<1>3. S = Nat
  <2>1. S \in SUBSET Nat
    OBVIOUS
  <2> HIDE DEF S
  <2> QED
    BY <1>1, <1>2, <2>1, Induction
<1>4. n \in S
  <2> HIDE DEF S
  <2> QED
    BY <1>3
<1>5. \E f \in [0 .. n -> X] : Upto(n, f)
  <2> HIDE DEF Upto
  <2> QED
    BY <1>4
<1> QED
  BY <1>5 DEF Follows

LEMMA AppendFacts ==
  ASSUME NEW S, NEW list \in Seq(S), NEW c \in S
  PROVE  /\ Append(list, c) \in Seq(S)
         /\ ToSet(Append(list, c)) = ToSet(list) \cup {c}
         /\ IsInjective(list) /\ c \notin ToSet(list) => IsInjective(Append(list, c))
<1>1. /\ Append(list, c) \in Seq(S) /\ Len(Append(list, c)) = Len(list) + 1
      /\ Append(list, c)[Len(list) + 1] = c
      /\ \A n \in 1 .. Len(list) : Append(list, c)[n] = list[n]
      /\ DOMAIN list = 1 .. Len(list) /\ DOMAIN Append(list, c) = 1 .. Len(list) + 1
  OBVIOUS
<1>2. ToSet(Append(list, c)) = ToSet(list) \cup {c}
  BY <1>1 DEF ToSet
<1> QED
  BY <1>1, <1>2 DEF ToSet, IsInjective

LEMMA ConcatFacts ==
  ASSUME NEW S, NEW s \in Seq(S), NEW t \in Seq(S)
  PROVE  /\ s \o t \in Seq(S)
         /\ ToSet(s \o t) = ToSet(s) \cup ToSet(t)
         /\ IsInjective(s) /\ IsInjective(t) /\ ToSet(s) \cap ToSet(t) = {} => IsInjective(s \o t)
<1> DEFINE r == s \o t
<1>1. /\ r \in Seq(S) /\ Len(r) = Len(s) + Len(t)
      /\ \A n \in 1 .. Len(s) : r[n] = s[n]
      /\ \A n \in 1 .. Len(t) : r[Len(s) + n] = t[n]
      /\ \A n \in Len(s) + 1 .. Len(r) : n - Len(s) \in 1 .. Len(t) /\ r[n] = t[n - Len(s)]
      /\ DOMAIN s = 1 .. Len(s) /\ DOMAIN t = 1 .. Len(t) /\ DOMAIN r = 1 .. Len(r)
  OBVIOUS
<1> HIDE DEF r
<1>2. ToSet(r) = ToSet(s) \cup ToSet(t)
  <2>1. ASSUME NEW n \in DOMAIN r
        PROVE  r[n] \in ToSet(s) \cup ToSet(t)
    <3>1. n \in 1 .. Len(s) \/ n \in Len(s) + 1 .. Len(r)
      BY <1>1
    <3> QED
      BY <1>1, <3>1 DEF ToSet
  <2>2. \A n \in DOMAIN s : s[n] \in ToSet(r)
    BY <1>1 DEF ToSet
  <2>3. ASSUME NEW n \in DOMAIN t
        PROVE  t[n] \in ToSet(r)
    <3>1. Len(s) + n \in DOMAIN r /\ r[Len(s) + n] = t[n]
      BY <1>1
    <3> QED
      BY <3>1 DEF ToSet
  <2> QED
    BY <2>1, <2>2, <2>3 DEF ToSet
<1>3. ASSUME IsInjective(s), IsInjective(t), ToSet(s) \cap ToSet(t) = {}
      PROVE  IsInjective(r)
  <2>1. SUFFICES ASSUME NEW a \in DOMAIN r, NEW b \in DOMAIN r, r[a] = r[b]
                 PROVE  a = b
    BY DEF IsInjective
  <2>2. \A n \in 1 .. Len(s), m \in 1 .. Len(t) : s[n] # t[m]
    BY <1>1, <1>3 DEF ToSet
  <2>3. CASE a <= Len(s) /\ b <= Len(s)
    BY <1>1, <1>3, <2>1, <2>3 DEF IsInjective
  <2>4. CASE a > Len(s) /\ b > Len(s)
    <3>1. a - Len(s) \in DOMAIN t /\ b - Len(s) \in DOMAIN t /\ t[a - Len(s)] = t[b - Len(s)]
      BY <1>1, <2>1, <2>4
    <3>2. a - Len(s) = b - Len(s)
      BY <1>3, <3>1 DEF IsInjective
    <3> QED
      BY <1>1, <3>2
  <2>5. CASE (a <= Len(s)) # (b <= Len(s))
    BY <1>1, <2>1, <2>2, <2>5
  <2> QED
    BY <1>1, <2>3, <2>4, <2>5
<1> QED
  BY <1>1, <1>2, <1>3 DEF r

LEMMA ReverseFacts ==
  ASSUME NEW S, NEW s \in Seq(S)
  PROVE  /\ Reverse(s) \in Seq(S)
         /\ ToSet(Reverse(s)) = ToSet(s)
         /\ IsInjective(s) => IsInjective(Reverse(s))
<1>1. /\ Reverse(s) \in Seq(S) /\ DOMAIN Reverse(s) = DOMAIN s /\ DOMAIN s = 1 .. Len(s)
      /\ \A n \in 1 .. Len(s) : /\ (Len(s) - n) + 1 \in 1 .. Len(s)
                               /\ Reverse(s)[n] = s[(Len(s) - n) + 1]
                               /\ s[n] = Reverse(s)[(Len(s) - n) + 1]
  BY DEF Reverse
<1>2. ToSet(Reverse(s)) = ToSet(s)
  BY <1>1 DEF ToSet
<1>3. ASSUME IsInjective(s)
      PROVE  IsInjective(Reverse(s))
  <2>1. SUFFICES ASSUME NEW a \in DOMAIN s, NEW b \in DOMAIN s, Reverse(s)[a] = Reverse(s)[b]
                 PROVE  a = b
    BY <1>1 DEF IsInjective
  <2>2. (Len(s) - a) + 1 = (Len(s) - b) + 1
    BY <1>1, <1>3, <2>1 DEF IsInjective
  <2> QED
    BY <1>1, <2>2
<1> QED
  BY <1>1, <1>2, <1>3

LEMMA TailFacts ==
  ASSUME NEW S, NEW s \in Seq(S), s # <<>>, IsInjective(s)
  PROVE  /\ Tail(s) \in Seq(S) /\ Head(s) \in ToSet(s)
         /\ ToSet(Tail(s)) = ToSet(s) \ {Head(s)}
         /\ IsInjective(Tail(s))
<1>1. /\ Tail(s) \in Seq(S) /\ Head(s) = s[1] /\ Len(s) >= 1 /\ Len(Tail(s)) = Len(s) - 1
      /\ \A n \in 1 .. Len(s) - 1 : Tail(s)[n] = s[n + 1]
      /\ DOMAIN s = 1 .. Len(s) /\ DOMAIN Tail(s) = 1 .. Len(s) - 1
  OBVIOUS
<1>2. ASSUME NEW n \in DOMAIN s, n # 1
      PROVE  n - 1 \in DOMAIN Tail(s) /\ s[n] = Tail(s)[n - 1]
  <2>1. n - 1 \in 1 .. Len(s) - 1 /\ (n - 1) + 1 = n
    BY <1>1, <1>2
  <2> QED
    BY <1>1, <2>1
<1>3. ToSet(Tail(s)) = ToSet(s) \ {Head(s)}
  <2>1. ASSUME NEW n \in DOMAIN Tail(s)
        PROVE  Tail(s)[n] \in ToSet(s) \ {Head(s)}
    <3>1. n + 1 \in DOMAIN s /\ n + 1 # 1 /\ Tail(s)[n] = s[n + 1] /\ 1 \in DOMAIN s
      BY <1>1
    <3> QED
      BY <1>1, <3>1 DEF ToSet, IsInjective
  <2>2. ASSUME NEW x \in ToSet(s) \ {Head(s)}
        PROVE  x \in ToSet(Tail(s))
    <3>1. PICK n \in DOMAIN s : s[n] = x
      BY DEF ToSet
    <3>2. n # 1
      BY <1>1, <3>1
    <3> QED
      BY <1>2, <3>1, <3>2 DEF ToSet
  <2> QED
    BY <2>1, <2>2 DEF ToSet
<1>4. IsInjective(Tail(s))
  <2>1. SUFFICES ASSUME NEW a \in DOMAIN Tail(s), NEW b \in DOMAIN Tail(s), Tail(s)[a] = Tail(s)[b]
                 PROVE  a = b
    BY DEF IsInjective
  <2>2. a + 1 = b + 1
    BY <1>1, <2>1 DEF IsInjective
  <2> QED
    BY <1>1, <2>2
<1>5. Head(s) \in ToSet(s)
  <2>1. 1 \in DOMAIN s
    BY <1>1
  <2> QED
    BY <1>1, <2>1 DEF ToSet
<1> QED
  BY <1>1, <1>3, <1>4, <1>5

(* Only keeps the elements that are in cs. *)
Keeps(kept, list, cs, S) ==
  /\ kept \in [0 .. Len(list) -> Seq(S)]
  /\ Only(list, cs) = kept[Len(list)]
  /\ kept[0] = <<>>
  /\ \A n \in 1 .. Len(list) :
        kept[n] = IF list[n] \in cs THEN Append(kept[n - 1], list[n]) ELSE kept[n - 1]

LEMMA OnlyUnfolds ==
  ASSUME NEW S, NEW list \in Seq(S), NEW cs
  PROVE  \E kept : Keeps(kept, list, cs, S)
<1> DEFINE X == Seq(S)
           G == [p \in (1 .. Len(list)) \X X |->
                    IF list[p[1]] \in cs THEN Append(p[2], list[p[1]]) ELSE p[2]]
           Step(f, n) == IF list[n] \in cs THEN Append(f[n - 1], list[n]) ELSE f[n - 1]
           Unfolded(f) == f = [n \in 0 .. Len(list) |-> IF n = 0 THEN <<>> ELSE Step(f, n)]
<1>1. Len(list) \in Nat /\ <<>> \in X /\ \A n \in 1 .. Len(list) : list[n] \in S
  OBVIOUS
<1>2. G \in [(1 .. Len(list)) \X X -> X]
  BY <1>1
<1>0. PICK f : Follows(f, G, <<>>, Len(list), X)
  <2> HIDE DEF X, G
  <2> QED
    BY <1>1, <1>2, Recursion
<1>3. f \in [0 .. Len(list) -> X] /\ f[0] = <<>> /\ \A n \in 1 .. Len(list) : f[n] = G[<<n, f[n - 1]>>]
  BY <1>0, Zenon DEF Follows
<1>4. \A n \in 1 .. Len(list) : f[n] = Step(f, n)
  <2> SUFFICES ASSUME NEW n \in 1 .. Len(list)
               PROVE  f[n] = Step(f, n)
    OBVIOUS
  <2>1. n - 1 \in 0 .. Len(list)
    BY <1>1
  <2>2. f[n - 1] \in X
    BY <1>3, <2>1, Zenon
  <2>3. G[<<n, f[n - 1]>>] = Step(f, n)
    BY <2>2
  <2> QED
    BY <1>3, <2>3
<1>5. Unfolded(f)
  <2> HIDE DEF X, Step
  <2>1. \A n \in 0 .. Len(list) : f[n] = IF n = 0 THEN <<>> ELSE Step(f, n)
    BY <1>1, <1>3, <1>4
  <2>2. f = [n \in 0 .. Len(list) |-> f[n]]
    BY <1>3
  <2> QED
    BY <2>1, <2>2
<1> DEFINE kept == CHOOSE g : Unfolded(g)
<1>6. Unfolded(kept)
  <2> HIDE DEF Unfolded
  <2> QED
    BY <1>5
<1>7. Only(list, cs) = kept[Len(list)]
  BY DEF Only
<1> HIDE DEF kept
<1>8. kept[0] = <<>> /\ \A n \in 1 .. Len(list) : kept[n] = Step(kept, n)
  <2> HIDE DEF Step
  <2>1. \A n \in 0 .. Len(list) : kept[n] = IF n = 0 THEN <<>> ELSE Step(kept, n)
    BY <1>6, Zenon
  <2> QED
    BY <1>1, <2>1
<1>9. \A n \in 0 .. Len(list) : kept[n] = f[n]
  <2> DEFINE T == {n \in Nat : n <= Len(list) => kept[n] = f[n]}
  <2>1. 0 \in T
    BY <1>3, <1>8
  <2>2. ASSUME NEW n \in T
        PROVE  n + 1 \in T
    <3> SUFFICES ASSUME n + 1 <= Len(list)
                 PROVE  kept[n + 1] = f[n + 1]
      OBVIOUS
    <3>1. n + 1 \in 1 .. Len(list) /\ (n + 1) - 1 = n /\ kept[n] = f[n]
      BY <1>1
    <3> QED
      BY <1>4, <1>8, <3>1
  <2>3. T = Nat
    <3>1. T \in SUBSET Nat
      OBVIOUS
    <3> HIDE DEF T
    <3> QED
      BY <2>1, <2>2, <3>1, Induction
  <2> QED
    BY <2>3, <1>1
<1>10. kept = f
  <2>1. DOMAIN kept = 0 .. Len(list)
    <3> HIDE DEF Step
    <3> QED
      BY <1>6
  <2>2. kept = [n \in 0 .. Len(list) |-> kept[n]]
    <3> HIDE DEF Step
    <3> QED
      BY <1>6, <2>1
  <2> QED
    BY <1>9, <2>2, SMTT(60)
<1> QED
  BY <1>3, <1>7, <1>8, <1>10 DEF Keeps

LEMMA OnlyFacts ==
  ASSUME NEW S, NEW list \in Seq(S), NEW cs
  PROVE  /\ Only(list, cs) \in Seq(S)
         /\ ToSet(Only(list, cs)) = ToSet(list) \cap cs
         /\ IsInjective(list) => IsInjective(Only(list, cs))
         /\ ToSet(list) \subseteq cs => Only(list, cs) = list
<1>0. PICK kept : Keeps(kept, list, cs, S)
  BY OnlyUnfolds
<1>1. /\ kept \in [0 .. Len(list) -> Seq(S)]
      /\ Only(list, cs) = kept[Len(list)]
      /\ kept[0] = <<>>
      /\ \A n \in 1 .. Len(list) :
            kept[n] = IF list[n] \in cs THEN Append(kept[n - 1], list[n]) ELSE kept[n - 1]
  BY <1>0 DEF Keeps
<1>2. Len(list) \in Nat /\ DOMAIN list = 1 .. Len(list) /\ \A n \in 1 .. Len(list) : list[n] \in S
  OBVIOUS
<1> DEFINE Good(n) == /\ \A x : x \in ToSet(kept[n]) <=> x \in cs /\ \E m \in 1 .. n : list[m] = x
                      /\ IsInjective(list) => IsInjective(kept[n])
                      /\ ToSet(list) \subseteq cs =>
                            Len(kept[n]) = n /\ \A m \in 1 .. n : kept[n][m] = list[m]
           T == {n \in Nat : n <= Len(list) => Good(n)}
<1>3. 0 \in T
  BY <1>1, <1>2 DEF ToSet, IsInjective
<1>4. ASSUME NEW n \in T
      PROVE  n + 1 \in T
  <2> SUFFICES ASSUME n + 1 <= Len(list)
               PROVE  Good(n + 1)
    OBVIOUS
  <2>0. n \in Nat /\ (n <= Len(list) => Good(n))
    OBVIOUS
  <2>1. /\ n + 1 \in 1 .. Len(list) /\ (n + 1) - 1 = n /\ n \in 0 .. Len(list)
        /\ kept[n] \in Seq(S) /\ list[n + 1] \in S
    <3> HIDE DEF Good, T
    <3>1. n + 1 \in 1 .. Len(list) /\ (n + 1) - 1 = n /\ n \in 0 .. Len(list)
      BY <1>2, <2>0
    <3> QED
      BY <1>1, <1>2, <3>1
  <2>2. kept[n + 1] = IF list[n + 1] \in cs THEN Append(kept[n], list[n + 1]) ELSE kept[n]
    BY <1>1, <2>1
  <2>3. Good(n)
    BY <2>0, <2>1
  <2>4. \A x : (\E m \in 1 .. n + 1 : list[m] = x) <=> (\E m \in 1 .. n : list[m] = x) \/ x = list[n + 1]
    BY <1>2, <2>1
  <2>5. CASE list[n + 1] \notin cs
    <3>1. list[n + 1] \in ToSet(list)
      BY <1>2, <2>1 DEF ToSet
    <3> QED
      BY <2>2, <2>3, <2>4, <2>5, <3>1
  <2>6. CASE list[n + 1] \in cs
    <3>1. kept[n + 1] = Append(kept[n], list[n + 1])
      BY <2>2, <2>6
    <3>2. /\ ToSet(kept[n + 1]) = ToSet(kept[n]) \cup {list[n + 1]}
          /\ IsInjective(kept[n]) /\ list[n + 1] \notin ToSet(kept[n]) => IsInjective(kept[n + 1])
      BY <2>1, <3>1, AppendFacts
    <3>3. IsInjective(list) => list[n + 1] \notin ToSet(kept[n])
      <4>1. ASSUME IsInjective(list), NEW m \in 1 .. n, list[m] = list[n + 1]
            PROVE  FALSE
        <5>1. m \in DOMAIN list /\ n + 1 \in DOMAIN list /\ m # n + 1
          BY <1>2, <2>1
        <5> QED
          BY <4>1, <5>1 DEF IsInjective
      <4> QED
        BY <2>3, <4>1
    <3>4. ASSUME ToSet(list) \subseteq cs
          PROVE  Len(kept[n + 1]) = n + 1 /\ \A m \in 1 .. n + 1 : kept[n + 1][m] = list[m]
      <4>1. Len(kept[n]) = n /\ \A m \in 1 .. n : kept[n][m] = list[m]
        BY <2>3, <3>4
      <4> QED
        BY <2>1, <3>1, <4>1
    <3>5. \A x : x \in ToSet(kept[n + 1]) <=> x \in cs /\ \E m \in 1 .. n + 1 : list[m] = x
      BY <2>3, <2>4, <2>6, <3>2
    <3> QED
      BY <2>3, <3>2, <3>3, <3>4, <3>5
  <2> QED
    BY <2>5, <2>6
<1>5. T = Nat
  <2>1. T \in SUBSET Nat
    OBVIOUS
  <2> HIDE DEF T
  <2> QED
    BY <1>3, <1>4, <2>1, Induction
<1>6. Good(Len(list)) /\ kept[Len(list)] \in Seq(S)
  <2>1. \A n \in Nat : n <= Len(list) => Good(n)
    BY <1>5
  <2> HIDE DEF Good, T
  <2> QED
    BY <1>1, <1>2, <2>1
<1>7. ToSet(Only(list, cs)) = ToSet(list) \cap cs
  <2>1. \A x : x \in ToSet(Only(list, cs)) <=> x \in cs /\ x \in ToSet(list)
    <3>1. \A x : x \in ToSet(list) <=> \E m \in 1 .. Len(list) : list[m] = x
      BY <1>2 DEF ToSet
    <3> QED
      BY <1>1, <1>6, <3>1, Zenon
  <2> QED
    BY <2>1, Zenon
<1>8. ASSUME ToSet(list) \subseteq cs
      PROVE  Only(list, cs) = list
  BY <1>1, <1>2, <1>6, <1>8
<1> QED
  BY <1>1, <1>6, <1>7, <1>8

(* FlattenSeq has the elements of all the lists. *)
Flattens(f, ss, S) ==
  /\ f \in [1 .. Len(ss) -> Seq(S)]
  /\ FlattenSeq(ss) = f[Len(ss)]
  /\ f[1] = ss[1]
  /\ \A n \in 2 .. Len(ss) : f[n] = f[n - 1] \o ss[n]

LEMMA FlattenUnfolds ==
  ASSUME NEW S, NEW ss \in Seq(Seq(S)), Len(ss) # 0
  PROVE  \E f : Flattens(f, ss, S)
<1> DEFINE X == Seq(S)
           G == [p \in (1 .. Len(ss)) \X X |-> IF p[1] = 1 THEN ss[p[1]] ELSE p[2] \o ss[p[1]]]
           Step(f, n) == IF n = 1 THEN ss[n] ELSE f[n - 1] \o ss[n]
           Unfolded(f) == f = [n \in 1 .. Len(ss) |-> Step(f, n)]
<1>1. Len(ss) \in Nat \ {0} /\ <<>> \in X /\ \A n \in 1 .. Len(ss) : ss[n] \in X
  OBVIOUS
<1>2. G \in [(1 .. Len(ss)) \X X -> X]
  BY <1>1
<1>3. PICK f : Follows(f, G, <<>>, Len(ss), X)
  <2> HIDE DEF X, G
  <2> QED
    BY <1>1, <1>2, Recursion
<1>4. f \in [0 .. Len(ss) -> X] /\ f[0] = <<>> /\ \A n \in 1 .. Len(ss) : f[n] = G[<<n, f[n - 1]>>]
  BY <1>3, Zenon DEF Follows
<1>5. \A n \in 1 .. Len(ss) : f[n] = Step(f, n)
  <2> SUFFICES ASSUME NEW n \in 1 .. Len(ss)
               PROVE  f[n] = Step(f, n)
    OBVIOUS
  <2>1. n - 1 \in 0 .. Len(ss)
    BY <1>1
  <2>2. f[n - 1] \in X
    BY <1>4, <2>1, Zenon
  <2>3. G[<<n, f[n - 1]>>] = Step(f, n)
    BY <2>2
  <2> QED
    BY <1>4, <2>3
<1> DEFINE h == [n \in 1 .. Len(ss) |-> f[n]]
<1>6. Unfolded(h)
  <2>1. \A n \in 1 .. Len(ss) : h[n] = Step(h, n)
    <3> SUFFICES ASSUME NEW n \in 1 .. Len(ss)
                 PROVE  h[n] = Step(h, n)
      OBVIOUS
    <3>1. f[n] = Step(f, n)
      BY <1>5
    <3>2. n # 1 => n - 1 \in 1 .. Len(ss)
      BY <1>1
    <3> QED
      BY <3>1, <3>2
  <2> HIDE DEF Step
  <2> QED
    BY <2>1
<1> DEFINE g == CHOOSE x : Unfolded(x)
<1>7. Unfolded(g)
  <2> HIDE DEF Unfolded
  <2> QED
    BY <1>6
<1>8. FlattenSeq(ss) = g[Len(ss)]
  BY DEF FlattenSeq
<1> HIDE DEF g
<1>9. \A n \in 1 .. Len(ss) : g[n] = Step(g, n)
  <2> HIDE DEF Step
  <2> QED
    BY <1>7, Zenon
<1>10. g \in [1 .. Len(ss) -> X]
  <2> DEFINE T == {n \in Nat : n = 0 \/ g[n] \in X}
  <2>1. ASSUME NEW m \in 0 .. Len(ss) - 1, m \in T
        PROVE  m + 1 \in T
    <3>1. m + 1 \in 1 .. Len(ss) /\ ss[m + 1] \in X /\ (m + 1) - 1 = m
      BY <1>1
    <3>2. g[m + 1] = Step(g, m + 1)
      BY <1>9, <3>1
    <3>3. CASE m = 0
      BY <3>1, <3>2, <3>3
    <3>4. CASE m # 0
      <4>1. g[m] \in X
        BY <2>1, <3>4
      <4>2. m + 1 # 1 /\ (m + 1 \in T <=> g[m + 1] \in X)
        BY <3>1, <3>4
      <4> HIDE DEF T
      <4>3. g[m + 1] = g[m] \o ss[m + 1]
        BY <3>1, <3>2, <4>2
      <4>4. g[m] \o ss[m + 1] \in X
        BY <3>1, <4>1
      <4> QED
        BY <4>2, <4>3, <4>4
    <3> QED
      BY <3>3, <3>4
  <2>2. \A m \in 0 .. Len(ss) : m \in T
    <3>1. 0 \in T
      OBVIOUS
    <3> HIDE DEF T
    <3> QED
      BY <1>1, <2>1, <3>1, BoundedInduction
  <2>3. \A n \in 1 .. Len(ss) : g[n] \in X
    BY <2>2
  <2>4. g = [n \in 1 .. Len(ss) |-> g[n]]
    <3> HIDE DEF Step
    <3> QED
      BY <1>7
  <2> QED
    BY <2>3, <2>4
<1>11. g[1] = ss[1] /\ \A n \in 2 .. Len(ss) : g[n] = g[n - 1] \o ss[n]
  <2>1. 1 \in 1 .. Len(ss) /\ \A n \in 2 .. Len(ss) : n \in 1 .. Len(ss) /\ n # 1
    BY <1>1
  <2> QED
    BY <1>9, <2>1
<1> QED
  BY <1>8, <1>10, <1>11 DEF Flattens

LEMMA FlattenFacts ==
  ASSUME NEW S, NEW ss \in Seq(Seq(S))
  PROVE  /\ FlattenSeq(ss) \in Seq(S)
         /\ \A x : x \in ToSet(FlattenSeq(ss)) <=> \E n \in 1 .. Len(ss) : x \in ToSet(ss[n])
         /\ (/\ \A n \in 1 .. Len(ss) : IsInjective(ss[n])
             /\ \A m, n \in 1 .. Len(ss) : m # n => ToSet(ss[m]) \cap ToSet(ss[n]) = {})
            => IsInjective(FlattenSeq(ss))
<1>1. CASE Len(ss) = 0
  <2>1. FlattenSeq(ss) = <<>>
    BY <1>1 DEF FlattenSeq
  <2> QED
    BY <1>1, <2>1 DEF ToSet, IsInjective
<1>2. CASE Len(ss) # 0
  <2>1. PICK f : Flattens(f, ss, S)
    BY <1>2, FlattenUnfolds
  <2>2. /\ f \in [1 .. Len(ss) -> Seq(S)]
        /\ FlattenSeq(ss) = f[Len(ss)]
        /\ f[1] = ss[1]
        /\ \A n \in 2 .. Len(ss) : f[n] = f[n - 1] \o ss[n]
    BY <2>1 DEF Flattens
  <2>3. Len(ss) \in Nat \ {0} /\ \A n \in 1 .. Len(ss) : ss[n] \in Seq(S)
    BY <1>2
  <2> DEFINE Apart == /\ \A n \in 1 .. Len(ss) : IsInjective(ss[n])
                      /\ \A m, n \in 1 .. Len(ss) : m # n => ToSet(ss[m]) \cap ToSet(ss[n]) = {}
             Good(n) == /\ \A x : x \in ToSet(f[n]) <=> \E m \in 1 .. n : x \in ToSet(ss[m])
                        /\ Apart => IsInjective(f[n])
             T == {n \in Nat : n = 0 \/ Good(n)}
  <2>4. ASSUME NEW m \in 0 .. Len(ss) - 1, m \in T
        PROVE  m + 1 \in T
    <3>0. m = 0 \/ Good(m)
      BY <2>4
    <3>1. m \in Nat /\ m + 1 \in 1 .. Len(ss) /\ (m + 1) - 1 = m /\ (m = 0 \/ Good(m))
      <4> HIDE DEF T, Good
      <4> QED
        BY <2>3, <3>0
    <3>2. CASE m = 0
      <4>1. 1 .. m + 1 = {1}
        BY <3>2
      <4>2. Good(m + 1)
        BY <2>2, <2>3, <3>1, <3>2, <4>1
      <4> HIDE DEF Good
      <4> QED
        BY <3>1, <4>2
    <3>3. CASE m # 0
      <4>1. m \in 1 .. Len(ss) /\ m + 1 \in 2 .. Len(ss)
        BY <3>1, <3>3, SMTT(60)
      <4>2. f[m + 1] = f[m] \o ss[m + 1] /\ f[m] \in Seq(S) /\ ss[m + 1] \in Seq(S)
        BY <2>2, <2>3, <3>1, <4>1
      <4>3. /\ ToSet(f[m + 1]) = ToSet(f[m]) \cup ToSet(ss[m + 1])
            /\ IsInjective(f[m]) /\ IsInjective(ss[m + 1]) /\ ToSet(f[m]) \cap ToSet(ss[m + 1]) = {}
               => IsInjective(f[m + 1])
        BY <4>2, ConcatFacts
      <4>4. Good(m)
        BY <3>1, <3>3
      <4>5. 1 .. m + 1 = (1 .. m) \cup {m + 1}
        BY <3>1
      <4>6. \A x : x \in ToSet(f[m + 1]) <=> \E n \in 1 .. m + 1 : x \in ToSet(ss[n])
        BY <4>3, <4>4, <4>5
      <4>7. ASSUME Apart
            PROVE  IsInjective(f[m + 1])
        <5>1. \A n \in 1 .. m : n \in 1 .. Len(ss) /\ n # m + 1
          BY <3>1
        <5>2. \A n \in 1 .. m : ToSet(ss[n]) \cap ToSet(ss[m + 1]) = {}
          BY <3>1, <4>7, <5>1
        <5>3. ToSet(f[m]) \cap ToSet(ss[m + 1]) = {}
          BY <4>4, <5>2
        <5> QED
          BY <3>1, <4>3, <4>4, <4>7, <5>3
      <4>8. Good(m + 1)
        BY <4>6, <4>7
      <4> HIDE DEF Good
      <4> QED
        BY <3>1, <4>8
    <3> QED
      BY <3>2, <3>3
  <2>5. \A m \in 0 .. Len(ss) : m \in T
    <3>1. 0 \in T
      OBVIOUS
    <3> HIDE DEF T
    <3> QED
      BY <2>3, <2>4, <3>1, BoundedInduction
  <2>6. Good(Len(ss))
    <3>1. Len(ss) \in T
      <4> HIDE DEF T
      <4> QED
        BY <2>3, <2>5
    <3> HIDE DEF Good
    <3> QED
      BY <1>2, <3>1
  <2>7. f[Len(ss)] \in Seq(S)
    BY <2>2, <2>3
  <2> QED
    BY <2>2, <2>6, <2>7
<1> QED
  BY <1>1, <1>2

-----------------------------------------------------------------------------
(***************************************************************************)
(* The keys of a level.                                                    *)
(***************************************************************************)
(* The operators of the model, for a configuration that is given.          *)
Indices(c)      == 1 .. Len(c.level_bits)
Per(c, i)       == 2 ^ bits_below(c.level_bits, i)
Num(c, i)       == 2 ^ c.level_bits[i]
Cover(c, i)     == Per(c, i) * Num(c, i)
SlotsOf(c, i)   == 0 .. Num(c, i) - 1
SlotOf(c, i, k) == (k \div Per(c, i)) % Num(c, i)
Floor(c, i, k)  == k - (k % Per(c, i))
Wanted(c, i, p) == IF p = MaxKey THEN MaxKey ELSE Floor(c, i, p + 1)
Upper(c, i, k)  == add_clamp_to_max(k, Cover(c, i) - 1)
Interval(c, t)  == t \div 2 ^ c.alarm_precision

LEMMA TimesType ==
  /\ MaxKey \in Nat /\ Times \subseteq Nat /\ 0 \in Times /\ MaxKey \in Times
  /\ MaxKey + 1 = 2 ^ Width
BY TimingWheelAssumption, PowType DEF Times, MaxKey

(* The bits below a level are those of the levels below it. *)
LEMMA BitsBelow ==
  ASSUME NEW bits \in Seq(Nat \ {0})
  PROVE  /\ bits_below(bits, 1) = 0
         /\ \A i \in 1 .. Len(bits) + 1 : bits_below(bits, i) \in Nat
         /\ \A i \in 1 .. Len(bits) : bits_below(bits, i + 1) = bits_below(bits, i) + bits[i]
<1> DEFINE G == [p \in (1 .. Len(bits)) \X Nat |-> p[2] + bits[p[1]]]
           Step(f, j) == IF j = 0 THEN 0 ELSE f[j - 1] + bits[j]
           Unfolded(f) == f = [j \in 0 .. Len(bits) |-> Step(f, j)]
<1>1. Len(bits) \in Nat /\ \A j \in 1 .. Len(bits) : bits[j] \in Nat
  OBVIOUS
<1>2. G \in [(1 .. Len(bits)) \X Nat -> Nat]
  BY <1>1
<1>3. PICK f : Follows(f, G, 0, Len(bits), Nat)
  <2> HIDE DEF G
  <2> QED
    BY <1>1, <1>2, Recursion
<1>4. f \in [0 .. Len(bits) -> Nat] /\ f[0] = 0 /\ \A j \in 1 .. Len(bits) : f[j] = G[<<j, f[j - 1]>>]
  BY <1>3, Zenon DEF Follows
<1>5. \A j \in 0 .. Len(bits) : f[j] = Step(f, j)
  <2> SUFFICES ASSUME NEW j \in 0 .. Len(bits), j # 0
               PROVE  f[j] = f[j - 1] + bits[j]
    BY <1>4
  <2>1. j \in 1 .. Len(bits) /\ j - 1 \in 0 .. Len(bits)
    BY <1>1
  <2>2. f[j - 1] \in Nat
    BY <1>4, <2>1
  <2>3. G[<<j, f[j - 1]>>] = f[j - 1] + bits[j]
    BY <2>1, <2>2
  <2> QED
    BY <1>4, <2>1, <2>3
<1>6. Unfolded(f)
  <2>1. f = [j \in 0 .. Len(bits) |-> f[j]]
    BY <1>4
  <2> HIDE DEF Step
  <2> QED
    BY <1>5, <2>1
<1> DEFINE g == CHOOSE x : Unfolded(x)
<1>7. Unfolded(g)
  <2> HIDE DEF Unfolded
  <2> QED
    BY <1>6
<1>8. \A i : bits_below(bits, i) = g[i - 1]
  BY DEF bits_below
<1> HIDE DEF g
<1>9. \A j \in 0 .. Len(bits) : g[j] = Step(g, j)
  <2> HIDE DEF Step
  <2> QED
    BY <1>7, Zenon
<1>10. g[0] = 0 /\ \A j \in 1 .. Len(bits) : g[j] = g[j - 1] + bits[j]
  <2>1. 0 \in 0 .. Len(bits) /\ \A j \in 1 .. Len(bits) : j \in 0 .. Len(bits) /\ j # 0
    BY <1>1
  <2> QED
    BY <1>9, <2>1
<1>11. \A j \in 0 .. Len(bits) : g[j] \in Nat
  <2> DEFINE S == {j \in Nat : g[j] \in Nat}
  <2>1. 0 \in S
    BY <1>10
  <2>2. ASSUME NEW m \in 0 .. Len(bits) - 1, m \in S
        PROVE  m + 1 \in S
    <3>1. m + 1 \in 1 .. Len(bits) /\ (m + 1) - 1 = m
      BY <1>1
    <3>2. g[m] \in Nat /\ bits[m + 1] \in Nat
      BY <1>1, <2>2, <3>1
    <3>3. g[m + 1] = g[m] + bits[m + 1]
      BY <1>10, <3>1
    <3> QED
      BY <3>1, <3>2, <3>3
  <2>3. \A m \in 0 .. Len(bits) : m \in S
    <3> HIDE DEF S
    <3> QED
      BY <1>1, <2>1, <2>2, BoundedInduction
  <2> QED
    BY <2>3
<1>12. \A i \in 1 .. Len(bits) : (i + 1) - 1 = i /\ g[i] = g[i - 1] + bits[i]
  BY <1>1, <1>10
<1>13. \A i \in 1 .. Len(bits) + 1 : i - 1 \in 0 .. Len(bits)
  BY <1>1
<1>14. bits_below(bits, 1) = 0
  BY <1>8, <1>10, 1 - 1 = 0
<1>15. \A i \in 1 .. Len(bits) + 1 : bits_below(bits, i) \in Nat
  BY <1>8, <1>11, <1>13
<1> QED
  BY <1>8, <1>12, <1>14, <1>15

LEMMA ConfigType ==
  ASSUME NEW c \in Configs
  PROVE  /\ c.level_bits \in Seq(Nat \ {0}) /\ Len(c.level_bits) \in Nat \ {0}
         /\ c.alarm_precision \in 0 .. Width /\ Width \in Nat
         /\ bits_below(c.level_bits, Len(c.level_bits) + 1) <= Width - c.alarm_precision
BY TimingWheelAssumption

(* A slot of a level spans the whole level below it, and no level is wider *)
(* than a key.                                                             *)
LEMMA Geometry ==
  ASSUME NEW c \in Configs
  PROVE  /\ Len(c.level_bits) \in Nat \ {0} /\ 1 \in Indices(c)
         /\ 2 ^ c.alarm_precision \in Nat \ {0}
         /\ Per(c, 1) = 1
         /\ \A i \in Indices(c) : /\ i \in Nat
                                  /\ Per(c, i) \in Nat \ {0} /\ Num(c, i) \in Nat \ {0, 1}
                                  /\ Cover(c, i) \in Nat \ {0, 1} /\ Cover(c, i) - 1 <= MaxKey
                                  /\ i + 1 \in Indices(c) => Per(c, i + 1) = Cover(c, i)
<1> DEFINE bits == c.level_bits
           n == Len(bits)
<1>1. /\ bits \in Seq(Nat \ {0}) /\ n \in Nat \ {0} /\ Width \in Nat
      /\ c.alarm_precision \in Nat /\ bits_below(bits, n + 1) <= Width - c.alarm_precision
  BY ConfigType
<1>2. /\ bits_below(bits, 1) = 0
      /\ \A i \in 1 .. n + 1 : bits_below(bits, i) \in Nat
      /\ \A i \in 1 .. n : bits_below(bits, i + 1) = bits_below(bits, i) + bits[i]
      /\ \A i \in 1 .. n : bits[i] \in Nat \ {0}
  BY <1>1, BitsBelow
<1> DEFINE below(i) == bits_below(bits, i)
<1> HIDE DEF below, bits, n
<1>3. \A m \in 0 .. n : below((n + 1) - m) <= Width
  <2> DEFINE S == {m \in Nat : below((n + 1) - m) <= Width}
  <2>1. 0 \in S
    <3>1. (n + 1) - 0 = n + 1 /\ n + 1 \in 1 .. n + 1
      BY <1>1
    <3> QED
      BY <1>1, <1>2, <3>1 DEF below
  <2>2. ASSUME NEW m \in 0 .. n - 1, m \in S
        PROVE  m + 1 \in S
    <3>1. PICK i \in 1 .. n : i + 1 = (n + 1) - m /\ i = (n + 1) - (m + 1) /\ m + 1 \in Nat
      <4>1. n - m \in 1 .. n
        BY <1>1
      <4> QED
        BY <1>1, <4>1
    <3>2. below(i + 1) = below(i) + bits[i] /\ bits[i] \in Nat /\ below(i) \in Nat
      BY <1>1, <1>2, <3>1 DEF below
    <3>3. below(i + 1) <= Width
      BY <2>2, <3>1
    <3>4. below(i) <= Width
      BY <1>1, <3>2, <3>3
    <3> QED
      BY <3>1, <3>4
  <2>3. \A m \in 0 .. n : m \in S
    <3> HIDE DEF S
    <3> QED
      BY <1>1, <2>1, <2>2, BoundedInduction
  <2> QED
    BY <2>3
<1>4. \A i \in 1 .. n + 1 : below(i) <= Width
  <2> SUFFICES ASSUME NEW i \in 1 .. n + 1
               PROVE  below(i) <= Width
    OBVIOUS
  <2>1. (n + 1) - i \in 0 .. n /\ (n + 1) - ((n + 1) - i) = i
    BY <1>1
  <2>2. below((n + 1) - ((n + 1) - i)) <= Width
    BY <1>3, <2>1
  <2> QED
    BY <2>1, <2>2
<1>5. ASSUME NEW i \in Indices(c)
      PROVE  /\ i \in Nat
             /\ Per(c, i) \in Nat \ {0} /\ Num(c, i) \in Nat \ {0, 1}
             /\ Cover(c, i) \in Nat \ {0, 1} /\ Cover(c, i) - 1 <= MaxKey
             /\ i + 1 \in Indices(c) => Per(c, i + 1) = Cover(c, i)
  <2>1. i \in 1 .. n /\ i + 1 \in 1 .. n + 1 /\ i \in 1 .. n + 1 /\ i \in Nat
    BY <1>1 DEF Indices, n, bits
  <2>2. /\ below(i) \in Nat /\ bits[i] \in Nat \ {0} /\ below(i + 1) \in Nat
        /\ below(i + 1) = below(i) + bits[i] /\ below(i + 1) <= Width
    BY <1>1, <1>2, <1>4, <2>1 DEF below
  <2>3. /\ 2 ^ below(i) \in Nat \ {0} /\ 2 ^ bits[i] \in Nat \ {0}
        /\ 2 ^ below(i + 1) \in Nat \ {0}
    BY <2>2, PowType
  <2>4. 2 ^ bits[i] # 1
    <3>1. bits[i] - 1 \in Nat /\ (bits[i] - 1) + 1 = bits[i]
      BY <2>2
    <3>2. 2 ^ bits[i] = 2 * 2 ^ (bits[i] - 1)
      BY <3>1, PowNext
    <3> QED
      BY <2>3, <3>1, <3>2, PowType
  <2>5. 2 ^ below(i + 1) = 2 ^ below(i) * 2 ^ bits[i]
    BY <2>2, PowSum
  <2>6. Cover(c, i) = 2 ^ below(i + 1) /\ Per(c, i) = 2 ^ below(i) /\ Num(c, i) = 2 ^ bits[i]
    BY <2>5 DEF Cover, Per, Num, below, bits
  <2>7. 2 ^ below(i + 1) <= MaxKey + 1
    BY <1>1, <2>2, PowMonotone, TimesType
  <2>8. 2 ^ below(i + 1) # 1
    <3> DEFINE p == 2 ^ below(i)
               q == 2 ^ bits[i]
    <3>1. p \in Nat \ {0} /\ q \in Nat \ {0, 1} /\ 2 ^ below(i + 1) = p * q
      BY <2>3, <2>4, <2>5
    <3> HIDE DEF p, q
    <3> QED
      BY <3>1
  <2>9. i + 1 \in Indices(c) => Per(c, i + 1) = Cover(c, i)
    BY <2>6 DEF Per, below, bits
  <2> QED
    BY <2>1, <2>3, <2>4, <2>6, <2>7, <2>8, <2>9, TimesType
<1>6. Per(c, 1) = 1
  BY <1>2, PowZero DEF Per, bits
<1>7. 2 ^ c.alarm_precision \in Nat \ {0}
  BY <1>1, PowType
<1>8. n \in Nat \ {0} /\ 1 \in Indices(c)
  BY <1>1 DEF Indices, n, bits
<1> QED
  BY <1>5, <1>6, <1>7, <1>8 DEF n, bits

(* The operators of the model are these, for its configuration. *)
LEMMA ReadConfig ==
  ASSUME config \in Configs
  PROVE  /\ Levels = Indices(config)
         /\ \A t : interval_num(t) = Interval(config, t)
         /\ \A i : /\ Slots(i) = SlotsOf(config, i)
                   /\ keys_per_slot(i) = Per(config, i)
                   /\ \A k : /\ slot(i, k) = SlotOf(config, i, k)
                             /\ min_key_in_same_slot(i, k) = Floor(config, i, k)
                             /\ compute_min_allowed_key(i, k) = Wanted(config, i, k)
         /\ \A i \in Indices(config) : diff_max_min_allowed_key(i) = Cover(config, i) - 1
<1>1. /\ config.level_bits \in Seq(Nat \ {0}) /\ Len(config.level_bits) \in Nat
  BY ConfigType
<1>2. Levels = Indices(config)
  BY <1>1 DEF Levels, Indices
<1>3. ASSUME NEW i \in Indices(config)
      PROVE  diff_max_min_allowed_key(i) = Cover(config, i) - 1
  <2>1. Bits(i) \in Nat /\ bits_per_slot(i) \in Nat
    BY <1>1, BitsBelow DEF Bits, bits_per_slot, Indices
  <2>2. 2 ^ (bits_per_slot(i) + Bits(i)) = Cover(config, i)
    BY <2>1, PowSum DEF Cover, Per, Num, Bits, bits_per_slot
  <2>3. bits_per_slot(i) + Bits(i) = Bits(i) + bits_per_slot(i)
    BY <2>1
  <2> QED
    BY <2>2, <2>3 DEF diff_max_min_allowed_key, MaxKey
<1> QED
  BY <1>2, <1>3 DEF interval_num, Interval, Slots, SlotsOf, Num, Bits, keys_per_slot, bits_per_slot,
     Per, slot, SlotOf, min_key_in_same_slot, Floor, compute_min_allowed_key, Wanted

LEMMA DivModInt ==
  ASSUME NEW k \in Int, NEW p \in Int, p > 0
  PROVE  k = p * (k \div p) + (k % p)
OBVIOUS

LEMMA DivMod ==
  ASSUME NEW k \in Nat, NEW p \in Nat \ {0}
  PROVE  /\ k \div p \in Nat /\ k % p \in 0 .. p - 1 /\ k = p * (k \div p) + (k % p)
         /\ p * (k \div p) \in Nat
<1>1. k \div p \in Nat /\ k % p \in 0 .. p - 1
  OBVIOUS
<1>3. k \in Int /\ p \in Int /\ p > 0
  OBVIOUS
<1>4. k = p * (k \div p) + (k % p)
  BY <1>3, DivModInt
<1>5. p * (k \div p) \in Nat
  BY <1>1, <1>3
<1> QED
  BY <1>1, <1>4, <1>5

(* The first key of a slot. *)
LEMMA FloorFacts ==
  ASSUME NEW c \in Configs, NEW i \in Indices(c), NEW k \in Nat
  PROVE  /\ Floor(c, i, k) \in Nat /\ k \div Per(c, i) \in Nat
         /\ Floor(c, i, k) = Per(c, i) * (k \div Per(c, i))
         /\ Floor(c, i, k) <= k /\ k < Floor(c, i, k) + Per(c, i)
<1> DEFINE p == Per(c, i)
<1>1. p \in Nat \ {0}
  BY Geometry
<1> HIDE DEF p
<1>2. /\ k \div p \in Nat /\ k % p \in 0 .. p - 1 /\ k = p * (k \div p) + (k % p)
      /\ p * (k \div p) \in Nat
  BY <1>1, DivMod
<1>3. Floor(c, i, k) = k - (k % p)
  BY DEF Floor, p
<1>4. /\ Floor(c, i, k) = p * (k \div p) /\ Floor(c, i, k) \in Nat
      /\ Floor(c, i, k) <= k /\ k < Floor(c, i, k) + p
  BY <1>1, <1>2, <1>3
<1> QED
  BY <1>2, <1>4 DEF p

LEMMA FloorMonotone ==
  ASSUME NEW c \in Configs, NEW i \in Indices(c), NEW j \in Nat, NEW k \in Nat, j <= k
  PROVE  Floor(c, i, j) <= Floor(c, i, k)
<1> DEFINE p == Per(c, i)
<1>1. p \in Nat \ {0}
  BY Geometry
<1>2. /\ Floor(c, i, j) = p * (j \div p) /\ j \div p \in Nat
      /\ Floor(c, i, k) = p * (k \div p) /\ k \div p \in Nat
      /\ Floor(c, i, j) <= j /\ k < Floor(c, i, k) + p
  BY FloorFacts
<1> HIDE DEF p
<1>3. ASSUME NEW a \in Nat, NEW b \in Nat, p * a < p * b + p
      PROVE  p * a <= p * b
  BY <1>1, <1>3
<1>4. p * (j \div p) < p * (k \div p) + p
  BY <1>1, <1>2
<1> QED
  BY <1>2, <1>3, <1>4

(* The slots of a level, from that of any key on, are those of the next    *)
(* Cover keys, each once.                                                  *)
LEMMA Window ==
  ASSUME NEW c \in Configs, NEW i \in Indices(c), NEW x \in Nat, NEW k \in Nat,
         Floor(c, i, x) <= k, k < Floor(c, i, x) + Cover(c, i)
  PROVE  \E n \in SlotsOf(c, i) : /\ Floor(c, i, k) = Floor(c, i, x) + n * Per(c, i)
                                  /\ SlotOf(c, i, Floor(c, i, x) + n * Per(c, i)) = SlotOf(c, i, k)
<1> DEFINE p == Per(c, i)
           q == Num(c, i)
           a == x \div p
           b == k \div p
<1>1. p \in Nat \ {0} /\ q \in Nat \ {0} /\ Cover(c, i) = p * q
  BY Geometry DEF Cover
<1>2. /\ a \in Nat /\ b \in Nat /\ Floor(c, i, x) = p * a /\ Floor(c, i, k) = p * b
      /\ p * b <= k /\ k < p * b + p
  BY FloorFacts
<1>3. SlotsOf(c, i) = 0 .. q - 1 /\ \A m : SlotOf(c, i, m) = (m \div p) % q
  BY DEF SlotsOf, SlotOf
<1> HIDE DEF p, q, a, b
<1>4. b - a \in 0 .. q - 1
  <2>1. p * a < p * b + p
    BY <1>1, <1>2
  <2>2. p * b < p * a + p * q
    BY <1>1, <1>2
  <2>3. a < b + 1
    <3>1. p * a < p * (b + 1)
      BY <1>1, <1>2, <2>1
    <3> QED
      BY <1>1, <1>2, <3>1
  <2>4. b < a + q
    <3>1. p * b < p * (a + q)
      BY <1>1, <1>2, <2>2
    <3> QED
      BY <1>1, <1>2, <3>1
  <2> QED
    BY <1>1, <1>2, <2>3, <2>4
<1>5. p * a + (b - a) * p = p * b
  BY <1>1, <1>2, <1>4
<1>6. (p * b) \div p = b
  BY <1>1, <1>2
<1>7. SlotOf(c, i, p * b) = SlotOf(c, i, k)
  BY <1>3, <1>6 DEF b
<1>8. Floor(c, i, x) + (b - a) * Per(c, i) = p * b
  BY <1>2, <1>5 DEF p
<1> QED
  BY <1>2, <1>3, <1>4, <1>7, <1>8

LEMMA SlotsDiffer ==
  ASSUME NEW c \in Configs, NEW i \in Indices(c), NEW x \in Nat,
         NEW m \in SlotsOf(c, i), NEW n \in SlotsOf(c, i),
         SlotOf(c, i, Floor(c, i, x) + m * Per(c, i)) = SlotOf(c, i, Floor(c, i, x) + n * Per(c, i))
  PROVE  m = n
<1> DEFINE p == Per(c, i)
           q == Num(c, i)
           a == x \div p
<1>1. p \in Nat \ {0} /\ q \in Nat \ {0}
  BY Geometry
<1>2. a \in Nat /\ Floor(c, i, x) = p * a
  BY FloorFacts
<1>3. SlotsOf(c, i) = 0 .. q - 1 /\ \A k : SlotOf(c, i, k) = (k \div p) % q
  BY DEF SlotsOf, SlotOf
<1>4. /\ SlotOf(c, i, Floor(c, i, x) + m * p) = ((p * a + m * p) \div p) % q
      /\ SlotOf(c, i, Floor(c, i, x) + n * p) = ((p * a + n * p) \div p) % q
  BY <1>2, <1>3
<1>5. ((p * a + m * p) \div p) % q = ((p * a + n * p) \div p) % q
  BY <1>4
<1>6. m \in 0 .. q - 1 /\ n \in 0 .. q - 1
  BY <1>3
<1> HIDE DEF p, q, a
<1>7. ASSUME NEW r \in 0 .. q - 1
      PROVE  (p * a + r * p) \div p = a + r
  <2>1. r \in Nat /\ p * a + r * p = p * (a + r)
    BY <1>1, <1>2
  <2>2. \A y \in Nat : (p * y) \div p = y
    BY <1>1
  <2> QED
    BY <1>2, <2>1, <2>2
<1>8. (a + m) % q = (a + n) % q
  BY <1>5, <1>6, <1>7
<1> DEFINE u == (a + m) \div q
           v == (a + m) % q
           w == (a + n) \div q
<1>9. u \in Nat /\ v \in 0 .. q - 1 /\ a + m = q * u + v
  <2>1. a + m \in Nat
    BY <1>2, <1>6
  <2> QED
    BY <1>1, <2>1, DivMod
<1>10. w \in Nat /\ a + n = q * w + v
  <2>1. a + n \in Nat
    BY <1>2, <1>6
  <2> QED
    BY <1>1, <1>8, <2>1, DivMod
<1> HIDE DEF u, v, w
<1>11. m - n = q * u - q * w
  BY <1>1, <1>2, <1>6, <1>9, <1>10
<1>12. u = w
  <2>1. ASSUME u < w
        PROVE  FALSE
    <3>1. q * (u + 1) <= q * w
      BY <1>1, <1>9, <1>10, <2>1
    <3> QED
      BY <1>1, <1>6, <1>9, <1>10, <1>11, <3>1
  <2>2. ASSUME w < u
        PROVE  FALSE
    <3>1. q * (w + 1) <= q * u
      BY <1>1, <1>9, <1>10, <2>2
    <3> QED
      BY <1>1, <1>6, <1>9, <1>10, <1>11, <3>1
  <2> QED
    BY <1>9, <1>10, <2>1, <2>2
<1>13. q * u = q * w
  BY <1>12
<1>14. m = n
  <2>1. q * w \in Int
    BY <1>1, <1>10
  <2> QED
    BY <1>6, <1>11, <1>13, <2>1
<1> QED
  BY <1>14

LEMMA SlotType ==
  ASSUME NEW c \in Configs, NEW i \in Indices(c), NEW k \in Nat
  PROVE  SlotOf(c, i, k) \in SlotsOf(c, i)
<1>1. Num(c, i) \in Nat \ {0} /\ k \div Per(c, i) \in Nat
  BY Geometry, FloorFacts
<1>2. (k \div Per(c, i)) % Num(c, i) \in 0 .. Num(c, i) - 1
  BY <1>1, DivMod
<1> QED
  BY <1>2 DEF SlotOf, SlotsOf

(* The bounds of a level. *)
LEMMA WantedFacts ==
  ASSUME NEW c \in Configs, NEW i \in Indices(c), NEW p \in (Times \cup {-1})
  PROVE  /\ Wanted(c, i, p) \in Times
         /\ p \in Times /\ p # MaxKey => Wanted(c, i, p) <= p + 1
         /\ Wanted(c, i, p) = MaxKey \/ Floor(c, i, Wanted(c, i, p)) = Wanted(c, i, p)
<1>1. CASE p = MaxKey
  BY <1>1, TimesType DEF Wanted
<1>2. CASE p # MaxKey
  <2>1. p + 1 \in Times /\ p + 1 \in Nat
    BY <1>2, TimesType DEF Times
  <2>2. Wanted(c, i, p) = Floor(c, i, p + 1)
    BY <1>2 DEF Wanted
  <2>3. Floor(c, i, p + 1) \in Nat /\ Floor(c, i, p + 1) <= p + 1
    BY <2>1, FloorFacts
  <2>4. Floor(c, i, Floor(c, i, p + 1)) = Floor(c, i, p + 1)
    <3> DEFINE q == Per(c, i)
               m == (p + 1) \div q
    <3>1. q \in Nat \ {0} /\ m \in Nat /\ Floor(c, i, p + 1) = q * m
      BY <2>1, Geometry, FloorFacts
    <3> HIDE DEF m, q
    <3>2. q * m \in Nat /\ (q * m) \div q = m
      BY <3>1
    <3>3. Floor(c, i, q * m) = q * m
      BY <3>2, FloorFacts DEF q
    <3> QED
      BY <3>1, <3>3
  <2>5. Floor(c, i, p + 1) \in Times
    BY <2>1, <2>3, TimesType DEF Times
  <2> QED
    BY <2>2, <2>3, <2>4, <2>5
<1> QED
  BY <1>1, <1>2

LEMMA FirstWanted ==
  ASSUME NEW c \in Configs, NEW k \in Times
  PROVE  Wanted(c, 1, k - 1) = k /\ k - 1 \in Times \cup {-1} /\ \A m \in Nat : Floor(c, 1, m) = m
<1>1. Per(c, 1) = 1 /\ 1 \in Indices(c)
  BY Geometry
<1>2. ASSUME NEW m \in Nat
      PROVE  Floor(c, 1, m) = m
  BY <1>1, FloorFacts
<1>3. k \in Nat /\ k - 1 # MaxKey /\ (k - 1) + 1 = k /\ k - 1 \in Times \cup {-1}
  BY TimesType DEF Times
<1> QED
  BY <1>2, <1>3 DEF Wanted

LEMMA WantedMonotone ==
  ASSUME NEW c \in Configs, NEW i \in Indices(c), NEW p \in Times, NEW q \in Times, p <= q
  PROVE  Wanted(c, i, p) <= Wanted(c, i, q)
<1>1. CASE q = MaxKey
  <2>1. Wanted(c, i, p) \in Times
    BY WantedFacts
  <2> QED
    BY <1>1, <2>1, TimesType DEF Wanted, Times
<1>2. CASE q # MaxKey
  <2>1. p # MaxKey /\ p + 1 \in Nat /\ q + 1 \in Nat /\ p + 1 <= q + 1
    BY <1>2, TimesType DEF Times
  <2>2. Floor(c, i, p + 1) <= Floor(c, i, q + 1)
    BY <2>1, FloorMonotone
  <2> QED
    BY <1>2, <2>1, <2>2 DEF Wanted
<1> QED
  BY <1>1, <1>2

LEMMA UpperFacts ==
  ASSUME NEW c \in Configs, NEW i \in Indices(c), NEW k \in Times
  PROVE  /\ Upper(c, i, k) \in Times /\ k <= Upper(c, i, k) /\ Upper(c, i, k) <= k + Cover(c, i) - 1
         /\ Upper(c, i, k) # MaxKey => Upper(c, i, k) = k + Cover(c, i) - 1
         /\ \A j \in Times : j <= k => Upper(c, i, j) <= Upper(c, i, k)
<1>1. Cover(c, i) - 1 \in Nat /\ Cover(c, i) \in Nat /\ MaxKey \in Nat
  BY Geometry, TimesType
<1>2. k \in Nat /\ k <= MaxKey /\ \A n : n \in Times <=> n \in Nat /\ n <= MaxKey
  BY TimesType DEF Times
<1>3. Upper(c, i, k) \in Times /\ k <= Upper(c, i, k) /\ Upper(c, i, k) <= k + Cover(c, i) - 1
  BY <1>1, <1>2 DEF Upper, add_clamp_to_max
<1>4. Upper(c, i, k) # MaxKey => Upper(c, i, k) = k + Cover(c, i) - 1
  BY <1>1, <1>2 DEF Upper, add_clamp_to_max
<1>5. \A j \in Times : j <= k => Upper(c, i, j) <= Upper(c, i, k)
  BY <1>1, <1>2 DEF Upper, add_clamp_to_max
<1> QED
  BY <1>3, <1>4, <1>5

(* The last time of the interval m, or of all. *)
LatestTime(c, m) ==
  IF m >= Interval(c, MaxKey) THEN MaxKey
  ELSE m * 2 ^ c.alarm_precision + 2 ^ c.alarm_precision - 1

LEMMA IntervalFacts ==
  ASSUME NEW c \in Configs, NEW t \in Times
  PROVE  /\ Interval(c, t) \in Times
         /\ \A u \in Times : t <= u => Interval(c, t) <= Interval(c, u)
         /\ \A k \in Nat : k <= Interval(c, t) <=> k * 2 ^ c.alarm_precision <= t
<1> DEFINE p == 2 ^ c.alarm_precision
<1>1. p \in Nat \ {0}
  BY Geometry
<1>2. MaxKey \in Nat /\ \A n : n \in Times <=> n \in Nat /\ n <= MaxKey
  BY TimesType DEF Times
<1> HIDE DEF p
<1>3. \A u \in Times : u \in Nat /\ u \div p \in Nat /\ u % p \in 0 .. p - 1 /\ u = p * (u \div p) + (u % p)
  BY <1>1, <1>2, DivMod
<1>4. t \div p \in Nat /\ t \div p <= t
  <2>1. p * (t \div p) <= t /\ t \div p \in Nat
    BY <1>1, <1>2, <1>3, DivMod
  <2>2. \A n \in Nat : n <= p * n
    BY <1>1
  <2>3. t \div p <= p * (t \div p) /\ p * (t \div p) \in Nat
    BY <1>1, <2>1, <2>2
  <2> QED
    BY <1>2, <2>1, <2>3
<1>5. \A k \in Nat : k <= t \div p <=> k * p <= t
  <2>1. ASSUME NEW k \in Nat, NEW q \in Nat, NEW r \in 0 .. p - 1
        PROVE  k <= q <=> k * p <= p * q + r
    <3>1. CASE k <= q
      <4>1. p * k <= p * q /\ p * k \in Nat /\ p * q \in Nat /\ k * p = p * k
        BY <1>1, <3>1
      <4> QED
        BY <1>1, <3>1, <4>1
    <3>2. CASE q + 1 <= k
      <4>1. p * (q + 1) <= p * k /\ p * k \in Nat /\ p * q \in Nat /\ k * p = p * k
        BY <1>1, <3>2
      <4>2. p * (q + 1) = p * q + p
        BY <1>1
      <4> QED
        BY <1>1, <3>2, <4>1, <4>2
    <3> QED
      BY <3>1, <3>2
  <2>2. t \div p \in Nat /\ t % p \in 0 .. p - 1 /\ t = p * (t \div p) + (t % p)
    BY <1>3
  <2> QED
    BY <2>1, <2>2
<1>6. \A u \in Times : t <= u => t \div p <= u \div p
  <2> SUFFICES ASSUME NEW u \in Times, t <= u
               PROVE  t \div p <= u \div p
    OBVIOUS
  <2>1. u \in Nat /\ t \in Nat
    BY <1>2
  <2>2. t \div p \in Nat /\ t \div p <= t \div p
    BY <1>4
  <2>3. ASSUME NEW k \in Nat, NEW q \in Nat, NEW a \in 0 .. p - 1, NEW r \in 0 .. p - 1,
               p * k + a <= p * q + r
        PROVE  k <= q
    <3>1. CASE q + 1 <= k
      <4>1. p * (q + 1) <= p * k /\ p * k \in Nat /\ p * q \in Nat
        BY <1>1, <3>1
      <4>2. p * (q + 1) = p * q + p
        BY <1>1
      <4> QED
        BY <1>1, <2>3, <4>1, <4>2
    <3> QED
      BY <3>1
  <2> QED
    BY <1>3, <2>3
<1>7. Interval(c, t) = t \div p /\ \A u \in Times : Interval(c, u) = u \div p
  BY DEF Interval, p
<1>8. t \div p \in Times
  BY <1>2, <1>4
<1> QED
  BY <1>5, <1>6, <1>7, <1>8 DEF p

LEMMA LatestFacts ==
  ASSUME NEW c \in Configs, NEW m \in Times
  PROVE  /\ LatestTime(c, m) \in Times
         /\ \A t \in Times : t <= LatestTime(c, m) <=> Interval(c, t) <= m
<1>0. MaxKey \in Times /\ MaxKey \in Nat /\ \A n : n \in Times <=> n \in Nat /\ n <= MaxKey
  BY TimesType DEF Times
<1>1. CASE m >= Interval(c, MaxKey)
  <2>1. LatestTime(c, m) = MaxKey
    BY <1>1 DEF LatestTime
  <2>2. \A t \in Times : t <= MaxKey /\ Interval(c, t) <= Interval(c, MaxKey) /\ Interval(c, t) \in Times
    BY <1>0, IntervalFacts
  <2> QED
    BY <1>0, <1>1, <2>1, <2>2, IntervalFacts
<1>2. CASE ~ (m >= Interval(c, MaxKey))
  <2> DEFINE p == 2 ^ c.alarm_precision
  <2>1. LatestTime(c, m) = m * p + p - 1
    BY <1>2 DEF LatestTime
  <2>2. p \in Nat \ {0} /\ Interval(c, MaxKey) \in Nat /\ m \in Nat /\ m + 1 \in Nat
    BY <1>0, Geometry, IntervalFacts
  <2>3. \A t \in Times : Interval(c, t) \in Nat /\ (m + 1 <= Interval(c, t) <=> (m + 1) * p <= t)
    BY <1>0, <2>2, IntervalFacts
  <2> HIDE DEF p
  <2>4. (m + 1) * p = m * p + p /\ m * p \in Nat
    BY <2>2
  <2>5. \A t \in Times : m + 1 <= Interval(c, t) <=> m * p + p <= t
    BY <2>3, <2>4
  <2>6. m * p + p - 1 \in Times
    BY <1>0, <1>2, <2>2, <2>4, <2>5
  <2> QED
    BY <1>0, <2>1, <2>2, <2>3, <2>4, <2>5, <2>6
<1> QED
  BY <1>1, <1>2

-----------------------------------------------------------------------------
(***************************************************************************)
(* The lists of the slots.                                                 *)
(***************************************************************************)
LevelOf(c, i) == [min : Times, max : Times, slots : [SlotsOf(c, i) -> Seq(Cells)]]

Shaped(c, ls) == /\ ls = [i \in Indices(c) |-> ls[i]]
                 /\ \A i \in Indices(c) : ls[i] \in LevelOf(c, i)

(* The cells in a slot, and in all of them. *)
In(ls, i, s) == ToSet(ls[i].slots[s])

Inside(c, ls) == {x \in Cells : \E i \in Indices(c) : \E s \in SlotsOf(c, i) : x \in In(ls, i, s)}

(* A cell is in one slot, once. *)
Apart(c, ls) ==
  /\ \A i \in Indices(c) : \A s \in SlotsOf(c, i) : IsInjective(ls[i].slots[s])
  /\ \A i, j \in Indices(c) : \A s \in SlotsOf(c, i), t \in SlotsOf(c, j) : \A x \in Cells :
        x \in In(ls, i, s) /\ x \in In(ls, j, t) => i = j /\ s = t

Linked(c, ls) == Shaped(c, ls) /\ Apart(c, ls)

SameBounds(c, ls, new) ==
  \A i \in Indices(c) : new[i].min = ls[i].min /\ new[i].max = ls[i].max

LEMMA ShapedFacts ==
  ASSUME NEW c \in Configs, NEW ls, Shaped(c, ls)
  PROVE  /\ DOMAIN ls = Indices(c) /\ Len(ls) = Len(c.level_bits)
         /\ \A i \in Indices(c) :
               /\ ls[i] \in LevelOf(c, i)
               /\ ls[i].min \in Times /\ ls[i].max \in Times
               /\ ls[i].slots \in [SlotsOf(c, i) -> Seq(Cells)]
               /\ DOMAIN ls[i].slots = SlotsOf(c, i)
               /\ \A s \in SlotsOf(c, i) : ls[i].slots[s] \in Seq(Cells) /\ In(ls, i, s) \subseteq Cells
<1>1. ls = [i \in Indices(c) |-> ls[i]] /\ \A i \in Indices(c) : ls[i] \in LevelOf(c, i)
  BY DEF Shaped
<1>2. DOMAIN ls = Indices(c)
  BY <1>1
<1>3. Len(c.level_bits) \in Nat
  BY Geometry
<1>4. ls \in Seq({ls[i] : i \in Indices(c)})
  BY <1>1, <1>3 DEF Indices
<1>5. Len(ls) = Len(c.level_bits)
  <2>1. DOMAIN ls = 1 .. Len(ls) /\ Len(ls) \in Nat
    BY <1>4
  <2> QED
    BY <1>2, <1>3, <2>1 DEF Indices
<1>6. ASSUME NEW i \in Indices(c)
      PROVE  /\ ls[i] \in LevelOf(c, i)
             /\ ls[i].min \in Times /\ ls[i].max \in Times
             /\ ls[i].slots \in [SlotsOf(c, i) -> Seq(Cells)]
             /\ DOMAIN ls[i].slots = SlotsOf(c, i)
             /\ \A s \in SlotsOf(c, i) : ls[i].slots[s] \in Seq(Cells) /\ In(ls, i, s) \subseteq Cells
  <2>1. ls[i] \in LevelOf(c, i)
    BY <1>1
  <2>2. /\ ls[i].min \in Times /\ ls[i].max \in Times
        /\ ls[i].slots \in [SlotsOf(c, i) -> Seq(Cells)]
        /\ DOMAIN ls[i].slots = SlotsOf(c, i)
    BY <2>1 DEF LevelOf
  <2>3. \A s \in SlotsOf(c, i) : ls[i].slots[s] \in Seq(Cells)
    BY <2>2
  <2>4. \A list \in Seq(Cells) : ToSet(list) \subseteq Cells
    BY DEF ToSet
  <2> QED
    BY <2>1, <2>2, <2>3, <2>4 DEF In
<1> QED
  BY <1>2, <1>5, <1>6

LEMMA MembersInside ==
  ASSUME NEW c \in Configs, NEW ls, Shaped(c, ls)
  PROVE  /\ \A i \in Indices(c) : \A x : x \in InLevel(ls[i]) <=> \E s \in SlotsOf(c, i) : x \in In(ls, i, s)
         /\ UNION {InLevel(ls[i]) : i \in DOMAIN ls} = Inside(c, ls)
<1>1. /\ DOMAIN ls = Indices(c)
      /\ \A i \in Indices(c) : /\ DOMAIN ls[i].slots = SlotsOf(c, i)
                               /\ \A s \in SlotsOf(c, i) : In(ls, i, s) \subseteq Cells
  BY ShapedFacts
<1>2. \A i \in Indices(c) : \A x : x \in InLevel(ls[i]) <=> \E s \in SlotsOf(c, i) : x \in In(ls, i, s)
  BY <1>1 DEF InLevel, In
<1>3. UNION {InLevel(ls[i]) : i \in DOMAIN ls} = Inside(c, ls)
  BY <1>1, <1>2 DEF Inside
<1> QED
  BY <1>2, <1>3

LEMMA UnlinkedFacts ==
  ASSUME NEW c \in Configs, NEW ls, Linked(c, ls), NEW cs
  PROVE  /\ Linked(c, Unlinked(ls, cs)) /\ SameBounds(c, ls, Unlinked(ls, cs))
         /\ \A i \in Indices(c) : \A s \in SlotsOf(c, i) : In(Unlinked(ls, cs), i, s) = In(ls, i, s) \ cs
         /\ Inside(c, Unlinked(ls, cs)) = Inside(c, ls) \ cs
<1> DEFINE new == Unlinked(ls, cs)
<1>1. /\ DOMAIN ls = Indices(c)
      /\ \A i \in Indices(c) :
            /\ ls[i] \in LevelOf(c, i)
            /\ DOMAIN ls[i].slots = SlotsOf(c, i)
            /\ \A s \in SlotsOf(c, i) : ls[i].slots[s] \in Seq(Cells) /\ In(ls, i, s) \subseteq Cells
  BY ShapedFacts DEF Linked
<1>2. new = [i \in Indices(c) |->
                [ls[i] EXCEPT !.slots = [s \in DOMAIN ls[i].slots |-> Only(ls[i].slots[s], Cells \ cs)]]]
  BY <1>1 DEF Unlinked
<1> HIDE DEF new
<1>3. ASSUME NEW i \in Indices(c)
      PROVE  /\ new[i] \in LevelOf(c, i)
             /\ new[i].min = ls[i].min /\ new[i].max = ls[i].max
             /\ \A s \in SlotsOf(c, i) : new[i].slots[s] = Only(ls[i].slots[s], Cells \ cs)
  <2> DEFINE slots == [s \in SlotsOf(c, i) |-> Only(ls[i].slots[s], Cells \ cs)]
  <2>1. slots \in [SlotsOf(c, i) -> Seq(Cells)]
    BY <1>1, OnlyFacts
  <2>2. new[i] = [ls[i] EXCEPT !.slots = slots]
    BY <1>1, <1>2
  <2>3. \A s \in SlotsOf(c, i) : slots[s] = Only(ls[i].slots[s], Cells \ cs)
    OBVIOUS
  <2> HIDE DEF slots
  <2>4. /\ new[i] \in LevelOf(c, i) /\ new[i].slots = slots
        /\ new[i].min = ls[i].min /\ new[i].max = ls[i].max
    BY <1>1, <2>1, <2>2 DEF LevelOf
  <2> QED
    BY <2>3, <2>4
<1>4. Shaped(c, new)
  <2>1. new = [i \in Indices(c) |-> new[i]]
    BY <1>2
  <2> QED
    BY <1>3, <2>1 DEF Shaped
<1>5. SameBounds(c, ls, new)
  BY <1>3 DEF SameBounds
<1>6. ASSUME NEW i \in Indices(c), NEW s \in SlotsOf(c, i)
      PROVE  /\ In(new, i, s) = In(ls, i, s) \ cs
             /\ IsInjective(ls[i].slots[s]) => IsInjective(new[i].slots[s])
  <2>1. new[i].slots[s] = Only(ls[i].slots[s], Cells \ cs) /\ ls[i].slots[s] \in Seq(Cells)
    BY <1>1, <1>3
  <2>2. /\ ToSet(new[i].slots[s]) = ToSet(ls[i].slots[s]) \cap (Cells \ cs)
        /\ IsInjective(ls[i].slots[s]) => IsInjective(new[i].slots[s])
    BY <2>1, OnlyFacts
  <2>3. In(ls, i, s) \subseteq Cells
    BY <1>1
  <2> QED
    BY <2>2, <2>3 DEF In
<1>7. Apart(c, new)
  <2>1. Apart(c, ls)
    BY DEF Linked
  <2>2. \A i \in Indices(c) : \A s \in SlotsOf(c, i) : IsInjective(new[i].slots[s])
    BY <1>6, <2>1 DEF Apart
  <2>3. \A i, j \in Indices(c) : \A s \in SlotsOf(c, i), t \in SlotsOf(c, j) : \A x \in Cells :
           x \in In(new, i, s) /\ x \in In(new, j, t) => i = j /\ s = t
    BY <1>6, <2>1 DEF Apart
  <2> QED
    BY <2>2, <2>3 DEF Apart
<1>8. Inside(c, new) = Inside(c, ls) \ cs
  BY <1>6 DEF Inside
<1> QED
  BY <1>4, <1>5, <1>6, <1>7, <1>8 DEF Linked, new

(* add_elt puts a key in the first level that can hold it. *)
Added(c, ls, new, j, x, k) ==
  /\ Linked(c, new) /\ SameBounds(c, ls, new)
  /\ Inside(c, new) = Inside(c, ls) \cup {x}
  /\ \A i \in Indices(c) : \A s \in SlotsOf(c, i) :
        In(new, i, s) = In(ls, i, s) \cup {y \in {x} : i = j /\ s = SlotOf(c, j, k)}

LEMMA AddEltFacts ==
  ASSUME config \in Configs, NEW ls, Linked(config, ls), NEW x \in Cells \ Inside(config, ls),
         NEW k \in Times, NEW m \in Indices(config), k <= ls[m].max
  PROVE  \E j \in Indices(config) : /\ j <= m /\ k <= ls[j].max /\ \A h \in 1 .. j - 1 : k > ls[h].max
                                    /\ Added(config, ls, AddElt(ls, x, k), j, x, k)
<1> DEFINE c == config
           j == CHOOSE i \in DOMAIN ls : k <= ls[i].max /\ \A h \in 1 .. i - 1 : k > ls[h].max
           new == AddElt(ls, x, k)
<1>0. c \in Configs /\ Linked(c, ls) /\ Shaped(c, ls)
  BY DEF Linked
<1>1. /\ DOMAIN ls = Indices(c)
      /\ \A i \in Indices(c) :
            /\ ls[i] \in LevelOf(c, i) /\ ls[i].max \in Times
            /\ ls[i].slots \in [SlotsOf(c, i) -> Seq(Cells)]
            /\ DOMAIN ls[i].slots = SlotsOf(c, i)
            /\ \A s \in SlotsOf(c, i) : ls[i].slots[s] \in Seq(Cells) /\ In(ls, i, s) \subseteq Cells
  BY <1>0, ShapedFacts
<1>2. Indices(c) \subseteq Nat /\ m \in Nat /\ \A i \in Indices(c) : \A h \in 1 .. i : h \in Indices(c)
  BY <1>0, Geometry DEF Indices
<1>3. /\ j \in Indices(c) /\ j <= m /\ k <= ls[j].max
      /\ \A h \in 1 .. j - 1 : k > ls[h].max
  <2>0. k \in Nat /\ \A i \in Indices(c) : ls[i].max \in Nat
    BY <1>1, TimesType
  <2> DEFINE S == {i \in Indices(c) : k <= ls[i].max}
  <2>1. S \in SUBSET Nat /\ m \in S
    BY <1>2
  <2>2. PICK i \in S : \A h \in S : i <= h
    <3> HIDE DEF S
    <3> QED
      BY <2>1, LeastElement
  <2>3. \A h \in 1 .. i - 1 : h \in Indices(c) /\ h \notin S
    BY <1>2, <2>2
  <2>4. \A h \in 1 .. i - 1 : k > ls[h].max
    BY <2>0, <2>3
  <2>5. j \in DOMAIN ls /\ k <= ls[j].max /\ \A h \in 1 .. j - 1 : k > ls[h].max
    BY <1>1, <2>2, <2>4
  <2> HIDE DEF j
  <2>6. j <= m
    <3> SUFFICES ASSUME m < j
                 PROVE  FALSE
      BY <1>1, <1>2, <2>5
    <3>1. m \in 1 .. j - 1
      BY <1>1, <1>2, <2>5 DEF Indices
    <3> QED
      BY <2>0, <2>5, <3>1
  <2> QED
    BY <1>1, <2>5, <2>6
<1> DEFINE t == SlotOf(c, j, k)
<1>4. new = [ls EXCEPT ![j].slots[t] = Append(@, x)]
  <2>1. \A i : slot(i, k) = t \/ i # j
    BY <1>0, ReadConfig
  <2> QED
    BY <2>1 DEF AddElt
<1> HIDE DEF j, new
<1>5. t \in SlotsOf(c, j)
  <2>1. k \in Nat
    BY TimesType
  <2> QED
    BY <1>0, <1>3, <2>1, SlotType
<1> HIDE DEF t, c
<1>6. ASSUME NEW i \in Indices(c)
      PROVE  /\ new[i] \in LevelOf(c, i)
             /\ new[i].min = ls[i].min /\ new[i].max = ls[i].max
             /\ \A s \in SlotsOf(c, i) : new[i].slots[s] = IF i = j /\ s = t THEN Append(ls[i].slots[s], x)
                                                          ELSE ls[i].slots[s]
  <2>1. CASE i # j
    <3>1. new[i] = ls[i]
      BY <1>1, <1>4, <2>1
    <3> QED
      BY <1>1, <2>1, <3>1
  <2>2. CASE i = j
    <3> DEFINE slots == [ls[j].slots EXCEPT ![t] = Append(@, x)]
    <3>1. new[j] = [ls[j] EXCEPT !.slots = slots]
      BY <1>1, <1>3, <1>4
    <3>2. Append(ls[j].slots[t], x) \in Seq(Cells)
      BY <1>1, <1>3, <1>5
    <3>3. slots \in [SlotsOf(c, j) -> Seq(Cells)]
      BY <1>1, <1>3, <3>2
    <3>4. \A s \in SlotsOf(c, j) : slots[s] = IF s = t THEN Append(ls[j].slots[s], x) ELSE ls[j].slots[s]
      BY <1>1, <1>3
    <3> HIDE DEF slots
    <3>5. /\ new[j] \in LevelOf(c, j) /\ new[j].slots = slots
          /\ new[j].min = ls[j].min /\ new[j].max = ls[j].max
      BY <1>1, <1>3, <3>1, <3>3 DEF LevelOf
    <3> QED
      BY <2>2, <3>4, <3>5
  <2> QED
    BY <2>1, <2>2
<1>7. Shaped(c, new)
  <2>1. new = [i \in Indices(c) |-> new[i]]
    BY <1>1, <1>4
  <2> QED
    BY <1>6, <2>1 DEF Shaped
<1>8. SameBounds(c, ls, new)
  BY <1>6 DEF SameBounds
<1>9. \A i \in Indices(c) : \A s \in SlotsOf(c, i) : x \notin In(ls, i, s)
  BY DEF Inside, c
<1>10. ASSUME NEW i \in Indices(c), NEW s \in SlotsOf(c, i)
       PROVE  /\ In(new, i, s) = In(ls, i, s) \cup {y \in {x} : i = j /\ s = t}
              /\ IsInjective(ls[i].slots[s]) => IsInjective(new[i].slots[s])
  <2>1. ls[i].slots[s] \in Seq(Cells) /\ x \notin ToSet(ls[i].slots[s])
    BY <1>1, <1>9 DEF In
  <2>2. CASE i = j /\ s = t
    <3>1. new[i].slots[s] = Append(ls[i].slots[s], x)
      BY <1>6, <2>2
    <3>2. /\ ToSet(new[i].slots[s]) = ToSet(ls[i].slots[s]) \cup {x}
          /\ IsInjective(ls[i].slots[s]) => IsInjective(new[i].slots[s])
      BY <2>1, <3>1, AppendFacts
    <3> QED
      BY <2>2, <3>2 DEF In
  <2>3. CASE ~ (i = j /\ s = t)
    <3>1. new[i].slots[s] = ls[i].slots[s]
      BY <1>6, <2>3
    <3> QED
      BY <2>3, <3>1 DEF In
  <2> QED
    BY <2>2, <2>3
<1>11. Apart(c, new)
  <2>1. Apart(c, ls)
    BY <1>0 DEF Linked
  <2>2. \A i \in Indices(c) : \A s \in SlotsOf(c, i) : IsInjective(new[i].slots[s])
    BY <1>10, <2>1 DEF Apart
  <2>3. ASSUME NEW i \in Indices(c), NEW h \in Indices(c), NEW s \in SlotsOf(c, i), NEW u \in SlotsOf(c, h),
               NEW y \in Cells, y \in In(new, i, s), y \in In(new, h, u)
        PROVE  i = h /\ s = u
    <3>1. CASE y = x
      BY <1>9, <1>10, <2>3, <3>1
    <3>2. CASE y # x
      <4>1. y \in In(ls, i, s) /\ y \in In(ls, h, u)
        BY <1>10, <2>3, <3>2
      <4> QED
        BY <2>1, <4>1 DEF Apart
    <3> QED
      BY <3>1, <3>2
  <2> QED
    BY <2>2, <2>3 DEF Apart
<1>12. Inside(c, new) = Inside(c, ls) \cup {x}
  BY <1>3, <1>5, <1>10 DEF Inside
<1>13. Added(c, ls, new, j, x, k)
  BY <1>7, <1>8, <1>10, <1>11, <1>12 DEF Added, Linked, t
<1> QED
  BY <1>3, <1>13 DEF c, new

-----------------------------------------------------------------------------
(***************************************************************************)
(* The bounds of the levels, and what they hold.                           *)
(***************************************************************************)
(* The key before the first that level i may hold, if the least allowed key *)
(* is k.                                                                   *)
Prev(ls, i, k) == IF i = 1 THEN k - 1 ELSE ls[i - 1].max

Bounds(c, ls, i, k) == /\ ls[i].min = Wanted(c, i, Prev(ls, i, k))
                       /\ ls[i].max = Upper(c, i, ls[i].min)

(* The levels up to n follow each other from key k on. *)
Chained(c, ls, k, n) == \A i \in 1 .. n : Bounds(c, ls, i, k)

(* A slot holds cells with keys that belong there, and begins in its level. *)
Filed(c, ls, e) ==
  \A i \in Indices(c) : \A s \in SlotsOf(c, i) : \A x \in In(ls, i, s) :
     /\ SlotOf(c, i, e[x].key) = s
     /\ ls[i].min <= e[x].key /\ e[x].key <= ls[i].max /\ ls[i].min <= Floor(c, i, e[x].key)

Keys(e) == \A x \in Cells : e[x].key \in Times

LEMMA PrevType ==
  ASSUME NEW c \in Configs, NEW ls, Shaped(c, ls), NEW k \in Times, NEW i \in Indices(c)
  PROVE  Prev(ls, i, k) \in Times \cup {-1}
<1>1. CASE i = 1
  BY <1>1, FirstWanted DEF Prev
<1>2. CASE i # 1
  <2>1. i - 1 \in Indices(c)
    BY <1>2, Geometry DEF Indices
  <2> QED
    BY <1>2, <2>1, ShapedFacts DEF Prev
<1> QED
  BY <1>1, <1>2

(* A level does not begin below the one before it. *)
LEMMA NextMin ==
  ASSUME NEW c \in Configs, NEW i \in Indices(c), i + 1 \in Indices(c), NEW k \in Times
  PROVE  k <= Wanted(c, i + 1, Upper(c, i, k))
<1> DEFINE m == Upper(c, i, k)
<1>1. m \in Times /\ k <= m /\ (m # MaxKey => m = k + Cover(c, i) - 1)
  BY UpperFacts
<1>2. k \in Nat /\ k <= MaxKey /\ MaxKey \in Nat /\ m \in Nat
  BY <1>1, TimesType DEF Times
<1> HIDE DEF m
<1>3. CASE m = MaxKey
  BY <1>2, <1>3 DEF Wanted, m
<1>4. CASE m # MaxKey
  <2>1. /\ Cover(c, i) \in Nat /\ Per(c, i + 1) = Cover(c, i)
        /\ m + 1 = k + Cover(c, i) /\ m + 1 \in Nat
    <3>1. Cover(c, i) \in Nat /\ Per(c, i + 1) = Cover(c, i)
      BY Geometry
    <3> QED
      BY <1>1, <1>2, <1>4, <3>1
  <2>2. m + 1 < Floor(c, i + 1, m + 1) + Per(c, i + 1) /\ Floor(c, i + 1, m + 1) \in Nat
    BY <2>1, FloorFacts
  <2>3. k <= Floor(c, i + 1, m + 1)
    BY <1>2, <2>1, <2>2
  <2> QED
    BY <1>4, <2>3 DEF Wanted, m
<1> QED
  BY <1>3, <1>4

LEMMA ChainFacts ==
  ASSUME NEW c \in Configs, NEW ls, Shaped(c, ls), NEW k \in Times,
         NEW n \in 0 .. Len(c.level_bits), Chained(c, ls, k, n)
  PROVE  /\ \A i \in 1 .. n : /\ k <= ls[i].min /\ ls[i].min <= ls[i].max
                              /\ ls[i].max <= ls[i].min + Cover(c, i) - 1
                              /\ ls[i].min = MaxKey \/ Floor(c, i, ls[i].min) = ls[i].min
         /\ n # 0 => ls[1].min = k
<1>1. /\ \A i \in 1 .. n : /\ i \in Indices(c) /\ Bounds(c, ls, i, k)
                           /\ ls[i].min \in Times /\ ls[i].max \in Times
      /\ Indices(c) \subseteq Nat /\ n \in Nat
  <2>1. \A i \in 1 .. n : i \in Indices(c)
    BY Geometry DEF Indices
  <2> QED
    BY <2>1, ShapedFacts DEF Chained, Indices
<1>2. ASSUME n # 0
      PROVE  ls[1].min = k
  <2>1. 1 \in 1 .. n
    BY <1>1, <1>2
  <2> QED
    BY <1>1, <2>1, FirstWanted DEF Bounds, Prev
<1>3. ASSUME NEW i \in 1 .. n
      PROVE  /\ ls[i].min <= ls[i].max /\ ls[i].max <= ls[i].min + Cover(c, i) - 1
             /\ ls[i].min = MaxKey \/ Floor(c, i, ls[i].min) = ls[i].min
  <2>1. /\ i \in Indices(c) /\ ls[i].min \in Times
        /\ ls[i].min = Wanted(c, i, Prev(ls, i, k)) /\ ls[i].max = Upper(c, i, ls[i].min)
        /\ Prev(ls, i, k) \in Times \cup {-1}
    BY <1>1, PrevType DEF Bounds
  <2> QED
    BY <2>1, WantedFacts, UpperFacts
<1>4. \A i \in 1 .. n : k <= ls[i].min
  <2> DEFINE S == {i \in Nat : i = 0 \/ k <= ls[i].min}
  <2>1. ASSUME NEW i \in 0 .. n - 1, i \in S
        PROVE  i + 1 \in S
    <3>0. i \in Nat /\ (i = 0 \/ k <= ls[i].min)
      BY <1>1, <2>1
    <3> HIDE DEF S
    <3>1. CASE i = 0
      <4>1. n # 0 /\ i + 1 = 1 /\ k \in Nat
        BY <1>1, <3>1, TimesType
      <4> QED
        BY <1>2, <4>1 DEF S
    <3>2. CASE i # 0
      <4>1. i \in 1 .. n /\ i + 1 \in 1 .. n /\ i + 1 # 1 /\ (i + 1) - 1 = i
        BY <1>1, <3>0, <3>2
      <4>2. /\ i \in Indices(c) /\ i + 1 \in Indices(c)
            /\ ls[i + 1].min = Wanted(c, i + 1, Prev(ls, i + 1, k))
            /\ ls[i].max = Upper(c, i, ls[i].min)
        BY <1>1, <4>1 DEF Bounds
      <4>3. Prev(ls, i + 1, k) = ls[i].max
        BY <4>1 DEF Prev
      <4>4. ls[i].min \in Times /\ ls[i + 1].min \in Times
        BY <1>1, <4>1
      <4>5. ls[i].min <= ls[i + 1].min
        BY <4>2, <4>3, <4>4, NextMin
      <4>6. k <= ls[i + 1].min
        <5>1. k \in Nat /\ ls[i].min \in Nat /\ ls[i + 1].min \in Nat
          BY <4>4, TimesType
        <5> QED
          BY <3>0, <3>2, <4>5, <5>1
      <4> QED
        BY <3>0, <4>6 DEF S
    <3> QED
      BY <3>1, <3>2
  <2>2. \A i \in 0 .. n : i \in S
    <3>1. 0 \in S
      OBVIOUS
    <3> HIDE DEF S
    <3> QED
      BY <1>1, <2>1, <3>1, BoundedInduction
  <2> QED
    BY <1>1, <2>2
<1> QED
  BY <1>2, <1>3, <1>4

(* An element that is added is filed where it belongs. *)
LEMMA AddEltFiled ==
  ASSUME config \in Configs, NEW ls, Linked(config, ls), NEW e, Keys(e), Filed(config, ls, e),
         NEW x \in Cells \ Inside(config, ls),
         NEW k \in Times, NEW n \in Indices(config), Chained(config, ls, k, n),
         k <= e[x].key, e[x].key <= ls[n].max
  PROVE  /\ Linked(config, AddElt(ls, x, e[x].key))
         /\ SameBounds(config, ls, AddElt(ls, x, e[x].key))
         /\ Inside(config, AddElt(ls, x, e[x].key)) = Inside(config, ls) \cup {x}
         /\ Filed(config, AddElt(ls, x, e[x].key), e)
         /\ \A i \in Indices(config) : \A s \in SlotsOf(config, i) :
               i > n => In(AddElt(ls, x, e[x].key), i, s) = In(ls, i, s)
<1> DEFINE c == config
           new == AddElt(ls, x, e[x].key)
<1>0. c \in Configs /\ Shaped(c, ls) /\ e[x].key \in Times
  BY DEF Linked, Keys
<1>1. PICK j \in Indices(c) : /\ j <= n /\ e[x].key <= ls[j].max
                              /\ \A h \in 1 .. j - 1 : e[x].key > ls[h].max
                              /\ Added(c, ls, new, j, x, e[x].key)
  <2> HIDE DEF new, c
  <2> QED
    BY <1>0, AddEltFacts DEF c, new
<1>2. ls[j].min <= Floor(c, j, e[x].key) /\ ls[j].min <= e[x].key
  <2>0. e[x].key \in Nat
    BY <1>0, TimesType
  <2>1. j \in 1 .. n /\ n \in 0 .. Len(c.level_bits)
    BY <1>0, Geometry, <1>1 DEF Indices
  <2>2. CASE j = 1
    <3>1. ls[1].min = k
      BY <1>0, <2>1, <2>2, ChainFacts
    <3>2. Floor(c, 1, e[x].key) = e[x].key
      BY <1>0, <2>0, FirstWanted
    <3> QED
      BY <2>2, <3>1, <3>2
  <2>3. CASE j # 1
    <3>1. j - 1 \in Indices(c) /\ j - 1 \in 1 .. j - 1
      BY <1>0, <2>1, <2>3, Geometry DEF Indices
    <3>2. /\ ls[j].min = Wanted(c, j, ls[j - 1].max) /\ ls[j].min \in Times
          /\ ls[j - 1].max \in Times /\ ls[j - 1].max < e[x].key
      BY <1>0, <1>1, <2>1, <2>3, <3>1, ShapedFacts DEF Chained, Bounds, Prev
    <3>3. ls[j - 1].max # MaxKey
      BY <1>0, <3>2, TimesType DEF Times
    <3>4. ls[j].min = Floor(c, j, ls[j - 1].max + 1)
      BY <3>2, <3>3 DEF Wanted
    <3>5. ls[j].min \in Nat /\ ls[j - 1].max + 1 \in Nat /\ ls[j - 1].max + 1 <= e[x].key
      <4>1. ls[j].min \in Nat /\ ls[j - 1].max \in Nat
        BY <3>2, TimesType
      <4> QED
        BY <2>0, <3>2, <4>1
    <3>6. ls[j].min <= Floor(c, j, e[x].key)
      BY <1>0, <1>1, <2>0, <3>4, <3>5, FloorMonotone
    <3>7. Floor(c, j, e[x].key) \in Nat /\ Floor(c, j, e[x].key) <= e[x].key
      BY <1>0, <1>1, <2>0, FloorFacts
    <3> QED
      BY <2>0, <3>5, <3>6, <3>7
  <2> QED
    BY <2>2, <2>3
<1> HIDE DEF new, c
<1>3. Filed(c, new, e)
  <2> SUFFICES ASSUME NEW i \in Indices(c), NEW s \in SlotsOf(c, i), NEW y \in In(new, i, s)
               PROVE  /\ SlotOf(c, i, e[y].key) = s
                      /\ new[i].min <= e[y].key /\ e[y].key <= new[i].max
                      /\ new[i].min <= Floor(c, i, e[y].key)
    BY DEF Filed
  <2>1. new[i].min = ls[i].min /\ new[i].max = ls[i].max
    BY <1>1 DEF Added, SameBounds
  <2>2. y \in In(ls, i, s) \/ (y = x /\ i = j /\ s = SlotOf(c, j, e[x].key))
    BY <1>1 DEF Added
  <2>3. Filed(c, ls, e)
    BY DEF c
  <2> QED
    BY <1>1, <1>2, <2>1, <2>2, <2>3 DEF Filed
<1>4. \A i \in Indices(c) : \A s \in SlotsOf(c, i) : i > n => In(new, i, s) = In(ls, i, s)
  <2> SUFFICES ASSUME NEW i \in Indices(c), NEW s \in SlotsOf(c, i), i > n
               PROVE  In(new, i, s) = In(ls, i, s)
    OBVIOUS
  <2>1. i # j
    <3>1. i \in Nat /\ j \in Nat /\ n \in Nat
      BY <1>0, Geometry DEF c
    <3> QED
      BY <1>1, <3>1
  <2>2. In(new, i, s) = In(ls, i, s) \cup {y \in {x} : i = j /\ s = SlotOf(c, j, e[x].key)}
    BY <1>1 DEF Added
  <2>3. {y \in {x} : i = j /\ s = SlotOf(c, j, e[x].key)} = {}
    BY <2>1
  <2> QED
    BY <2>2, <2>3
<1> QED
  BY <1>1, <1>3, <1>4 DEF Added, c, new

LEMMA UnlinkedFiled ==
  ASSUME NEW c \in Configs, NEW ls, Linked(c, ls), NEW e, Filed(c, ls, e), NEW cs
  PROVE  Filed(c, Unlinked(ls, cs), e)
BY UnlinkedFacts DEF Filed, SameBounds

LEMMA SameBoundsChained ==
  ASSUME NEW c \in Configs, NEW ls, NEW new, SameBounds(c, ls, new), NEW k,
         NEW n \in 0 .. Len(c.level_bits), Chained(c, ls, k, n)
  PROVE  Chained(c, new, k, n)
<1>1. \A i \in 1 .. n : i \in Indices(c) /\ (i # 1 => i - 1 \in Indices(c))
  BY Geometry DEF Indices
<1> QED
  BY <1>1 DEF Chained, Bounds, Prev, SameBounds

-----------------------------------------------------------------------------
(***************************************************************************)
(* The search for the least key.                                           *)
(***************************************************************************)
(* The slots of a level from key b on, in which no element is below b: each *)
(* element is in the slot whose first key is that of its own.              *)
Scanned(c, i, b, n) == SlotOf(c, i, Floor(c, i, b) + n * Per(c, i))

LEMMA ScanFacts ==
  ASSUME NEW c \in Configs, NEW ls, Linked(c, ls), NEW e, Keys(e), Filed(c, ls, e),
         NEW i \in Indices(c), NEW b \in Times, ls[i].min <= b,
         ls[i].min = MaxKey \/ Floor(c, i, ls[i].min) = ls[i].min,
         ls[i].max <= ls[i].min + Cover(c, i) - 1,
         \A s \in SlotsOf(c, i) : \A y \in In(ls, i, s) : b <= e[y].key
  PROVE  /\ \A n \in SlotsOf(c, i) : Scanned(c, i, b, n) \in SlotsOf(c, i)
         /\ \A m, n \in SlotsOf(c, i) : Scanned(c, i, b, m) = Scanned(c, i, b, n) => m = n
         /\ \A n \in SlotsOf(c, i) : \A y \in In(ls, i, Scanned(c, i, b, n)) :
               Floor(c, i, e[y].key) = Floor(c, i, b) + n * Per(c, i)
         /\ \A s \in SlotsOf(c, i) : \A y \in In(ls, i, s) :
               \E n \in SlotsOf(c, i) : y \in In(ls, i, Scanned(c, i, b, n))
<1> DEFINE a == Floor(c, i, b)
<1>1. /\ b \in Nat /\ b <= MaxKey /\ a \in Nat /\ a <= b /\ b < a + Per(c, i) /\ MaxKey \in Nat
      /\ Per(c, i) \in Nat \ {0} /\ Num(c, i) \in Nat \ {0} /\ Cover(c, i) \in Nat
      /\ Per(c, i) <= Cover(c, i)
  <2>1. /\ b \in Nat /\ b <= MaxKey /\ MaxKey \in Nat
        /\ Per(c, i) \in Nat \ {0} /\ Num(c, i) \in Nat \ {0} /\ Cover(c, i) = Per(c, i) * Num(c, i)
        /\ Cover(c, i) \in Nat
    BY Geometry, TimesType DEF Times, Cover
  <2>2. ASSUME NEW p \in Nat \ {0}, NEW q \in Nat \ {0}
        PROVE  p <= p * q
    OBVIOUS
  <2>3. Per(c, i) <= Cover(c, i)
    BY <2>1, <2>2
  <2> QED
    BY <2>1, <2>3, FloorFacts
<1>2. /\ ls[i].min \in Nat /\ ls[i].max \in Nat
      /\ \A s \in SlotsOf(c, i) : \A y \in In(ls, i, s) :
            /\ e[y].key \in Nat /\ e[y].key <= MaxKey
            /\ SlotOf(c, i, e[y].key) = s /\ e[y].key <= ls[i].max
  <2>1. /\ ls[i].min \in Nat /\ ls[i].max \in Nat
        /\ \A s \in SlotsOf(c, i) : \A y \in In(ls, i, s) : y \in Cells
    BY ShapedFacts, TimesType DEF Linked
  <2>2. \A k \in Times : k \in Nat /\ k <= MaxKey
    BY TimesType DEF Times
  <2> QED
    BY <2>1, <2>2 DEF Filed, Keys
<1>3. ASSUME NEW s \in SlotsOf(c, i), NEW y \in In(ls, i, s)
      PROVE  a <= e[y].key /\ e[y].key < a + Cover(c, i)
  <2>1. /\ e[y].key \in Nat /\ e[y].key <= ls[i].max /\ b <= e[y].key /\ e[y].key <= MaxKey
    BY <1>2
  <2>2. CASE ls[i].min = MaxKey
    <3>1. e[y].key = b
      BY <1>1, <2>1, <2>2
    <3> QED
      BY <1>1, <2>1, <3>1
  <2>3. CASE Floor(c, i, ls[i].min) = ls[i].min
    <3>1. ls[i].min <= a
      BY <1>1, <1>2, <2>3, FloorMonotone
    <3> QED
      BY <1>1, <1>2, <2>1, <3>1
  <2> QED
    BY <2>2, <2>3
<1>4. \A n \in SlotsOf(c, i) : Scanned(c, i, b, n) \in SlotsOf(c, i)
  <2> SUFFICES ASSUME NEW n \in SlotsOf(c, i)
               PROVE  Scanned(c, i, b, n) \in SlotsOf(c, i)
    OBVIOUS
  <2>1. n \in Nat
    BY <1>1 DEF SlotsOf
  <2>2. n * Per(c, i) \in Nat
    BY <1>1, <2>1
  <2>3. Floor(c, i, b) + n * Per(c, i) \in Nat
    BY <1>1, <2>2
  <2> QED
    BY <2>3, SlotType DEF Scanned
<1>5. \A m, n \in SlotsOf(c, i) : Scanned(c, i, b, m) = Scanned(c, i, b, n) => m = n
  BY <1>1, SlotsDiffer DEF Scanned
<1>6. ASSUME NEW s \in SlotsOf(c, i), NEW y \in In(ls, i, s)
      PROVE  \E n \in SlotsOf(c, i) : /\ Floor(c, i, e[y].key) = a + n * Per(c, i)
                                      /\ Scanned(c, i, b, n) = s
  BY <1>1, <1>2, <1>3, Window DEF Scanned
<1>7. ASSUME NEW n \in SlotsOf(c, i), NEW y \in In(ls, i, Scanned(c, i, b, n))
      PROVE  Floor(c, i, e[y].key) = a + n * Per(c, i)
  BY <1>4, <1>5, <1>6
<1>8. \A s \in SlotsOf(c, i) : \A y \in In(ls, i, s) :
         \E n \in SlotsOf(c, i) : y \in In(ls, i, Scanned(c, i, b, n))
  BY <1>6
<1> QED
  BY <1>4, <1>5, <1>7, <1>8

Finding == [elt : {Null} \cup {Pointer(x) : x \in Cells}, key : Times]

(* What a search that had found before finds among the cells of S. *)
Best(e, found, before, S) ==
  /\ found \in Finding /\ found.key <= before.key
  /\ \A x \in S : found.key <= e[x].key
  /\ \/ found = before /\ \A x \in S : before.key < e[x].key
     \/ \E x \in S : found = [elt |-> Pointer(x), key |-> e[x].key]

LEMMA BestOfBoth ==
  ASSUME NEW e, Keys(e), NEW S \in SUBSET Cells, NEW T \in SUBSET Cells,
         NEW a \in Finding, NEW b, NEW f, Best(e, b, a, S), Best(e, f, b, T)
  PROVE  Best(e, f, a, S \cup T)
<1>1. /\ b \in Finding /\ f \in Finding /\ a.key \in Nat /\ b.key \in Nat /\ f.key \in Nat
      /\ \A x \in Cells : e[x].key \in Nat
  BY TimesType DEF Best, Finding, Keys
<1>2. /\ b.key <= a.key /\ f.key <= b.key
      /\ \A x \in S : b.key <= e[x].key
      /\ \A x \in T : f.key <= e[x].key
  BY DEF Best
<1>3. f.key <= a.key
  BY <1>1, <1>2
<1>4. \A x \in S \cup T : f.key <= e[x].key
  <2> SUFFICES ASSUME NEW x \in S \cup T
               PROVE  f.key <= e[x].key
    OBVIOUS
  <2>1. e[x].key \in Nat
    BY <1>1
  <2> QED
    BY <1>1, <1>2, <2>1
<1>5. CASE f = b /\ \A x \in T : b.key < e[x].key
  <2>1. CASE b = a /\ \A x \in S : a.key < e[x].key
    BY <1>1, <1>3, <1>4, <1>5, <2>1 DEF Best
  <2>2. CASE \E x \in S : b = [elt |-> Pointer(x), key |-> e[x].key]
    BY <1>1, <1>3, <1>4, <1>5, <2>2 DEF Best
  <2> QED
    BY <2>1, <2>2 DEF Best
<1>6. CASE \E x \in T : f = [elt |-> Pointer(x), key |-> e[x].key]
  BY <1>1, <1>3, <1>4, <1>6 DEF Best
<1> QED
  BY <1>5, <1>6 DEF Best

(* One step of SearchList. *)
LEMMA BestOfOne ==
  ASSUME NEW e, Keys(e), NEW x \in Cells, NEW a \in Finding
  PROVE  Best(e, IF e[x].key <= a.key THEN [elt |-> Pointer(x), key |-> e[x].key] ELSE a, a, {x})
<1>1. e[x].key \in Times /\ e[x].key \in Nat /\ a.key \in Nat
  BY TimesType DEF Keys, Finding
<1>2. CASE e[x].key <= a.key
  <2>1. [elt |-> Pointer(x), key |-> e[x].key] \in Finding
    BY <1>1 DEF Finding
  <2> QED
    BY <1>1, <1>2, <2>1 DEF Best
<1>3. CASE ~ (e[x].key <= a.key)
  BY <1>1, <1>3 DEF Best
<1> QED
  BY <1>2, <1>3

LEMMA SearchListFacts ==
  ASSUME Keys(elt), NEW found \in Finding, NEW list \in Seq(Cells), list # <<>>, NEW i,
         i = 1 => \A x, y \in ToSet(list) : elt[x].key = elt[y].key
  PROVE  Best(elt, SearchList(found, list, i), found, ToSet(list))
<1> DEFINE n == Len(list)
           Step(f, m) == IF elt[list[m]].key <= f[m - 1].key
                         THEN [elt |-> Pointer(list[m]), key |-> elt[list[m]].key]
                         ELSE f[m - 1]
           Unfolded(f) == f = [m \in 0 .. n |-> IF m = 0 THEN found ELSE Step(f, m)]
           G == [p \in (1 .. n) \X Finding |->
                    IF elt[list[p[1]]].key <= p[2].key
                    THEN [elt |-> Pointer(list[p[1]]), key |-> elt[list[p[1]]].key]
                    ELSE p[2]]
<1>1. n \in Nat \ {0} /\ DOMAIN list = 1 .. n /\ \A m \in 1 .. n : list[m] \in Cells
  OBVIOUS
<1>2. \A m \in 1 .. n : elt[list[m]].key \in Times
  BY <1>1 DEF Keys
<1>3. G \in [(1 .. n) \X Finding -> Finding]
  <2> SUFFICES ASSUME NEW m \in 1 .. n, NEW a \in Finding
               PROVE  (IF elt[list[m]].key <= a.key
                       THEN [elt |-> Pointer(list[m]), key |-> elt[list[m]].key] ELSE a) \in Finding
    OBVIOUS
  <2> QED
    BY <1>1, BestOfOne DEF Best
<1>4. PICK f : Follows(f, G, found, n, Finding)
  <2> HIDE DEF G, n
  <2> QED
    BY <1>1, <1>3, Recursion
<1>5. f \in [0 .. n -> Finding] /\ f[0] = found /\ \A m \in 1 .. n : f[m] = G[<<m, f[m - 1]>>]
  BY <1>4, Zenon DEF Follows
<1>6. \A m \in 1 .. n : f[m] = Step(f, m)
  <2> SUFFICES ASSUME NEW m \in 1 .. n
               PROVE  f[m] = Step(f, m)
    OBVIOUS
  <2>1. m - 1 \in 0 .. n
    BY <1>1
  <2>2. f[m - 1] \in Finding
    BY <1>5, <2>1, Zenon
  <2>3. G[<<m, f[m - 1]>>] = Step(f, m)
    BY <2>2
  <2> QED
    BY <1>5, <2>3
<1>7. Unfolded(f)
  <2> HIDE DEF Step, n
  <2>1. \A m \in 0 .. n : f[m] = IF m = 0 THEN found ELSE Step(f, m)
    BY <1>1, <1>5, <1>6
  <2>2. f = [m \in 0 .. n |-> f[m]]
    BY <1>5
  <2> QED
    BY <2>1, <2>2
<1> DEFINE after == CHOOSE g : Unfolded(g)
<1>8. Unfolded(after)
  <2> HIDE DEF Unfolded
  <2> QED
    BY <1>7
<1>9. SearchList(found, list, i) = after[IF i = 1 THEN 1 ELSE n]
  BY DEF SearchList
<1> HIDE DEF after
<1>10. after[0] = found /\ \A m \in 1 .. n : after[m] = Step(after, m)
  <2> HIDE DEF Step, n
  <2>1. \A m \in 0 .. n : after[m] = IF m = 0 THEN found ELSE Step(after, m)
    BY <1>8, Zenon DEF Unfolded
  <2> QED
    BY <1>1, <2>1
<1> DEFINE First(m) == {list[h] : h \in 1 .. m}
           T == {m \in Nat : Best(elt, after[m], found, First(m))}
<1>11. 0 \in T
  <2>1. First(0) = {}
    OBVIOUS
  <2>2. found.key \in Nat
    BY TimesType DEF Finding
  <2> QED
    BY <1>10, <2>1, <2>2 DEF Best
<1>12. ASSUME NEW m \in 0 .. n - 1, m \in T
       PROVE  m + 1 \in T
  <2>1. m \in Nat /\ m + 1 \in 1 .. n /\ (m + 1) - 1 = m /\ \A h \in 1 .. m : h \in 1 .. n
    BY <1>1
  <2>2. Best(elt, after[m], found, First(m))
    BY <1>12
  <2>3. First(m + 1) = First(m) \cup {list[m + 1]} /\ First(m) \in SUBSET Cells /\ list[m + 1] \in Cells
    <3>1. 1 .. m + 1 = (1 .. m) \cup {m + 1}
      BY <2>1
    <3> QED
      BY <1>1, <2>1, <3>1
  <2> HIDE DEF First
  <2>4. after[m] \in Finding
    BY <2>2 DEF Best
  <2>5. Best(elt, Step(after, m + 1), after[m], {list[m + 1]})
    BY <2>1, <2>3, <2>4, BestOfOne
  <2>6. after[m + 1] = Step(after, m + 1)
    BY <1>10, <2>1
  <2> HIDE DEF Step
  <2>7. Best(elt, after[m + 1], found, First(m + 1))
    BY <2>2, <2>3, <2>5, <2>6, BestOfBoth
  <2> QED
    BY <2>1, <2>7
<1>13. \A m \in 0 .. n : m \in T
  <2> HIDE DEF T, n
  <2> QED
    BY <1>1, <1>11, <1>12, BoundedInduction
<1>14. First(n) = ToSet(list)
  BY <1>1 DEF ToSet
<1>15. CASE i # 1
  <2>1. n \in T
    <3> HIDE DEF T, n
    <3> QED
      BY <1>1, <1>13
  <2>2. Best(elt, after[n], found, ToSet(list))
    BY <1>14, <2>1
  <2> QED
    BY <1>9, <1>15, <2>2
<1>16. CASE i = 1
  <2>1. Best(elt, after[1], found, {list[1]})
    <3>1. First(1) = {list[1]} /\ 1 \in 0 .. n
      BY <1>1
    <3> QED
      BY <1>13, <3>1
  <2>2. list[1] \in ToSet(list) /\ \A x \in ToSet(list) : elt[x].key = elt[list[1]].key
    <3>1. list[1] \in ToSet(list)
      BY <1>1 DEF ToSet
    <3> QED
      BY <1>16, <3>1
  <2> QED
    BY <1>9, <1>16, <2>1, <2>2 DEF Best
<1> QED
  BY <1>15, <1>16

(* What holds of the levels between operations: the lists, what they hold,  *)
(* and the bounds from the key k on.                                       *)
Wheel(c, ls, e, k) ==
  /\ Linked(c, ls) /\ Keys(e) /\ Filed(c, ls, e)
  /\ k \in Times /\ Chained(c, ls, k, Len(c.level_bits))

LEMMA WheelFacts ==
  ASSUME NEW c \in Configs, NEW ls, NEW e, NEW k, Wheel(c, ls, e, k)
  PROVE  /\ Shaped(c, ls) /\ ls[1].min = k
         /\ \A i \in Indices(c) :
               /\ ls[i].min \in Times /\ ls[i].max \in Times
               /\ k <= ls[i].min /\ ls[i].min <= ls[i].max /\ ls[i].max <= ls[i].min + Cover(c, i) - 1
               /\ ls[i].min = MaxKey \/ Floor(c, i, ls[i].min) = ls[i].min
         /\ \A x \in Inside(c, ls) : e[x].key \in Times /\ k <= e[x].key
<1>1. Shaped(c, ls) /\ Chained(c, ls, k, Len(c.level_bits)) /\ k \in Times
  BY DEF Wheel, Linked
<1>2. Len(c.level_bits) \in 0 .. Len(c.level_bits) /\ Len(c.level_bits) # 0
  BY Geometry
<1>3. /\ ls[1].min = k
      /\ \A i \in Indices(c) :
               /\ ls[i].min \in Times /\ ls[i].max \in Times
               /\ k <= ls[i].min /\ ls[i].min <= ls[i].max /\ ls[i].max <= ls[i].min + Cover(c, i) - 1
               /\ ls[i].min = MaxKey \/ Floor(c, i, ls[i].min) = ls[i].min
  BY <1>1, <1>2, ChainFacts, ShapedFacts DEF Indices
<1>4. ASSUME NEW x \in Inside(c, ls)
      PROVE  e[x].key \in Times /\ k <= e[x].key
  <2>1. PICK i \in Indices(c) : \E s \in SlotsOf(c, i) : x \in In(ls, i, s)
    BY DEF Inside
  <2>2. ls[i].min <= e[x].key /\ x \in Cells
    BY <2>1 DEF Wheel, Filed, Inside
  <2>3. e[x].key \in Times
    BY <2>2 DEF Wheel, Keys
  <2>4. k \in Nat /\ ls[i].min \in Nat /\ e[x].key \in Nat
    BY <1>1, <1>3, <2>3, TimesType
  <2> QED
    BY <1>3, <2>2, <2>3, <2>4
<1> QED
  BY <1>1, <1>3, <1>4

LEMMA SearchLevelFacts ==
  ASSUME config \in Configs, NEW k, Wheel(config, levels, elt, k), elt_key_lower_bound \in Times,
         \A x \in Inside(config, levels) : elt_key_lower_bound <= elt[x].key,
         NEW i \in Indices(config), NEW found \in Finding
  PROVE  Best(elt, SearchLevel(found, i), found, InLevel(levels[i]))
<1> DEFINE c == config
           b == Greatest(levels[i].min, elt_key_lower_bound)
           a == Floor(c, i, b)
           list(n) == levels[i].slots[Scanned(c, i, b, n)]
           stop(n) == list(n) # <<>> \/ a + n * Per(c, i) >= found.key
           chosen == CHOOSE n \in SlotsOf(c, i) : stop(n) /\ \A m \in 0 .. n - 1 : ~ stop(m)
           S == InLevel(levels[i])
<1>1. /\ c \in Configs /\ Linked(c, levels) /\ Shaped(c, levels) /\ Keys(elt) /\ Filed(c, levels, elt)
      /\ levels[i].min \in Times /\ levels[i].min \in Nat
      /\ levels[i].max <= levels[i].min + Cover(c, i) - 1
      /\ levels[i].min = MaxKey \/ Floor(c, i, levels[i].min) = levels[i].min
      /\ elt_key_lower_bound \in Nat /\ found.key \in Nat
      /\ Per(c, i) \in Nat \ {0} /\ SlotsOf(c, i) \subseteq Nat
  <2>1. c \in Configs /\ Linked(c, levels) /\ Shaped(c, levels) /\ Keys(elt) /\ Filed(c, levels, elt)
    BY DEF Wheel, Linked
  <2>2. /\ levels[i].min \in Times /\ levels[i].min \in Nat
        /\ levels[i].max <= levels[i].min + Cover(c, i) - 1
        /\ levels[i].min = MaxKey \/ Floor(c, i, levels[i].min) = levels[i].min
    BY WheelFacts, TimesType
  <2>3. elt_key_lower_bound \in Nat /\ found.key \in Nat
    BY TimesType DEF Finding
  <2>4. Per(c, i) \in Nat \ {0} /\ SlotsOf(c, i) \subseteq Nat
    BY <2>1, Geometry DEF SlotsOf
  <2> QED
    BY <2>1, <2>2, <2>3, <2>4
<1>2. SearchLevel(found, i) = IF levels[i].min > found.key \/ S = {} \/ list(chosen) = <<>> THEN found
                              ELSE SearchList(found, list(chosen), i)
  BY DEF SearchLevel, min_key_in_same_slot, slot, keys_per_slot, bits_per_slot, Slots, Bits,
     Scanned, SlotOf, Floor, Per, Num, SlotsOf
<1>3. \A s \in SlotsOf(c, i) : \A y \in In(levels, i, s) :
         /\ y \in Cells /\ elt[y].key \in Nat /\ b <= elt[y].key /\ levels[i].min <= elt[y].key
  <2>1. \A s \in SlotsOf(c, i) : \A y \in In(levels, i, s) :
           /\ y \in Inside(c, levels) /\ elt[y].key \in Nat /\ levels[i].min <= elt[y].key
    BY <1>1, ShapedFacts, TimesType DEF Inside, Keys, Filed
  <2> QED
    BY <2>1 DEF Greatest, Inside
<1>4. b \in Times /\ levels[i].min <= b
  BY <1>1 DEF Greatest
<1> HIDE DEF c, b
<1>5. /\ \A n \in SlotsOf(c, i) : Scanned(c, i, b, n) \in SlotsOf(c, i)
      /\ \A n \in SlotsOf(c, i) : \A y \in In(levels, i, Scanned(c, i, b, n)) :
            Floor(c, i, elt[y].key) = a + n * Per(c, i)
      /\ \A s \in SlotsOf(c, i) : \A y \in In(levels, i, s) :
            \E n \in SlotsOf(c, i) : y \in In(levels, i, Scanned(c, i, b, n))
  <2>1. i \in Indices(c)
    BY DEF c
  <2>2. \A s \in SlotsOf(c, i) : \A y \in In(levels, i, s) : b <= elt[y].key
    BY <1>3
  <2>3. /\ c \in Configs /\ Linked(c, levels) /\ Keys(elt) /\ Filed(c, levels, elt)
        /\ levels[i].max <= levels[i].min + Cover(c, i) - 1
        /\ levels[i].min = MaxKey \/ Floor(c, i, levels[i].min) = levels[i].min
    BY <1>1
  <2> HIDE DEF a
  <2>4. /\ \A n \in SlotsOf(c, i) : Scanned(c, i, b, n) \in SlotsOf(c, i)
        /\ \A n \in SlotsOf(c, i) : \A y \in In(levels, i, Scanned(c, i, b, n)) :
              Floor(c, i, elt[y].key) = Floor(c, i, b) + n * Per(c, i)
        /\ \A s \in SlotsOf(c, i) : \A y \in In(levels, i, s) :
              \E n \in SlotsOf(c, i) : y \in In(levels, i, Scanned(c, i, b, n))
    BY <1>4, <2>1, <2>2, <2>3, ScanFacts
  <2> QED
    BY <2>4 DEF a
<1>6. ASSUME NEW n \in SlotsOf(c, i), NEW y \in ToSet(list(n))
      PROVE  /\ y \in Cells /\ elt[y].key \in Nat
             /\ a + n * Per(c, i) <= elt[y].key /\ elt[y].key < a + n * Per(c, i) + Per(c, i)
  <2>1. y \in In(levels, i, Scanned(c, i, b, n)) /\ Scanned(c, i, b, n) \in SlotsOf(c, i)
    BY <1>5 DEF In
  <2>2. elt[y].key \in Nat /\ y \in Cells /\ Floor(c, i, elt[y].key) = a + n * Per(c, i)
    BY <1>3, <1>5, <2>1
  <2>3. i \in Indices(c)
    BY DEF c
  <2> QED
    BY <1>1, <2>2, <2>3, FloorFacts
<1>7. \A x \in S : \E n \in SlotsOf(c, i) : x \in ToSet(list(n))
  <2>1. \A x \in S : \E s \in SlotsOf(c, i) : x \in In(levels, i, s)
    BY <1>1, MembersInside DEF c
  <2> QED
    BY <1>5, <2>1 DEF In
<1>8. \A n \in SlotsOf(c, i) : list(n) \in Seq(Cells)
  BY <1>1, <1>5, ShapedFacts DEF c
<1>9. a \in Nat
  BY <1>1, <1>4, FloorFacts, TimesType DEF c
<1> HIDE DEF a, list
<1>10. CASE levels[i].min > found.key
  <2>1. \A x \in S : found.key < elt[x].key
    <3> SUFFICES ASSUME NEW x \in S
                 PROVE  found.key < elt[x].key
      OBVIOUS
    <3>1. levels[i].min <= elt[x].key /\ elt[x].key \in Nat
      <4>1. PICK s \in SlotsOf(c, i) : x \in In(levels, i, s)
        BY <1>1, MembersInside DEF c
      <4> QED
        BY <1>3, <4>1
    <3> QED
      BY <1>1, <1>10, <3>1
  <2> HIDE DEF S
  <2>2. \A x \in S : found.key <= elt[x].key
    <3> SUFFICES ASSUME NEW x \in S
                 PROVE  found.key <= elt[x].key
      OBVIOUS
    <3>1. elt[x].key \in Nat
      BY <1>1, <1>6, <1>7
    <3> QED
      BY <1>1, <2>1, <3>1
  <2> QED
    BY <1>1, <1>2, <1>10, <2>1, <2>2 DEF Best, S
<1>11. CASE S = {}
  BY <1>1, <1>2, <1>11 DEF Best
<1>12. CASE S # {} /\ ~ (levels[i].min > found.key)
  <2>1. chosen \in SlotsOf(c, i) /\ stop(chosen) /\ \A m \in 0 .. chosen - 1 : ~ stop(m)
    <3>1. PICK x \in S : TRUE
      BY <1>12
    <3>2. PICK n \in SlotsOf(c, i) : x \in ToSet(list(n))
      BY <1>7
    <3>3. list(n) # <<>>
      <4>1. ToSet(<<>>) = {}
        BY DEF ToSet
      <4> QED
        BY <3>2, <4>1
    <3> DEFINE T == {m \in SlotsOf(c, i) : stop(m)}
    <3>4. n \in T /\ T \in SUBSET Nat
      BY <1>1, <3>3
    <3>5. PICK m \in T : \A h \in T : m <= h
      <4> HIDE DEF T
      <4> QED
        BY <3>4, LeastElement
    <3>6. \A h \in 0 .. m - 1 : h \in SlotsOf(c, i) /\ ~ (m <= h)
      <4>1. m \in SlotsOf(c, i) /\ m \in Nat
        BY <3>4, <3>5
      <4>2. Num(c, i) \in Nat
        BY <1>1, Geometry DEF c
      <4> QED
        BY <4>1, <4>2 DEF SlotsOf
    <3>7. m \in SlotsOf(c, i) /\ stop(m) /\ \A h \in 0 .. m - 1 : ~ stop(h)
      <4>1. m \in SlotsOf(c, i) /\ stop(m)
        BY <3>5
      <4>2. \A h \in 0 .. m - 1 : h \notin T
        BY <3>5, <3>6
      <4> HIDE DEF stop
      <4> QED
        BY <3>6, <4>1, <4>2 DEF T
    <3> HIDE DEF stop
    <3> QED
      BY <3>7
  <2> HIDE DEF chosen, S
  <2> DEFINE p == Per(c, i)
             first == a + chosen * p
  <2>2. p \in Nat \ {0} /\ chosen \in Nat /\ first \in Nat
    BY <1>1, <1>9, <2>1
  <2>3. \A y \in ToSet(list(chosen)) : y \in Cells /\ elt[y].key \in Nat
                                       /\ first <= elt[y].key /\ elt[y].key < first + p
    BY <1>6, <2>1
  <2>4. ASSUME NEW x \in S, x \notin ToSet(list(chosen))
        PROVE  elt[x].key \in Nat /\ first + p <= elt[x].key
    <3>1. PICK n \in SlotsOf(c, i) : x \in ToSet(list(n))
      BY <1>7
    <3>2. list(n) # <<>>
      <4>1. ToSet(<<>>) = {}
        BY DEF ToSet
      <4> QED
        BY <3>1, <4>1
    <3>3. n # chosen /\ n \in Nat
      BY <1>1, <2>4, <3>1
    <3>4. ~ (n < chosen)
      <4> SUFFICES ASSUME n < chosen
                   PROVE  FALSE
        OBVIOUS
      <4>1. n \in 0 .. chosen - 1
        BY <2>2, <3>3
      <4>2. ~ stop(n)
        BY <2>1, <4>1
      <4> QED
        BY <3>2, <4>2
    <3>5. chosen + 1 <= n
      BY <2>2, <3>3, <3>4
    <3>6. chosen * p + p <= n * p /\ n * p \in Nat
      <4>1. ASSUME NEW u \in Nat, NEW v \in Nat, NEW w \in Nat, u + 1 <= v
            PROVE  u * w + w <= v * w /\ v * w \in Nat
        <5>1. (u + 1) * w <= v * w /\ u * w \in Nat /\ v * w \in Nat
          BY <4>1
        <5>2. (u + 1) * w = u * w + w
          OBVIOUS
        <5> QED
          BY <5>1, <5>2
      <4> HIDE DEF p
      <4> QED
        BY <2>2, <3>3, <3>5, <4>1
    <3>7. a + n * p <= elt[x].key /\ elt[x].key \in Nat
      BY <1>6, <3>1
    <3>8. chosen * p \in Nat
      BY <2>2
    <3> HIDE DEF p
    <3> QED
      BY <1>9, <2>2, <3>6, <3>7, <3>8
  <2>5. CASE list(chosen) = <<>>
    <3>1. first >= found.key
      BY <2>1, <2>5
    <3>2. \A x \in S : x \notin ToSet(list(chosen))
      BY <2>5 DEF ToSet
    <3> HIDE DEF first, p
    <3>3. \A x \in S : found.key < elt[x].key /\ found.key <= elt[x].key
      <4> SUFFICES ASSUME NEW x \in S
                   PROVE  found.key < elt[x].key /\ found.key <= elt[x].key
        OBVIOUS
      <4>1. elt[x].key \in Nat /\ first + p <= elt[x].key
        BY <2>4, <3>2
      <4> QED
        BY <1>1, <2>2, <3>1, <4>1
    <3>4. SearchLevel(found, i) = found
      BY <1>2, <2>5
    <3> QED
      BY <1>1, <3>3, <3>4 DEF Best, S
  <2>6. CASE list(chosen) # <<>>
    <3>0. i = 1 => \A x, y \in ToSet(list(chosen)) : elt[x].key = elt[y].key
      <4> SUFFICES ASSUME i = 1
                   PROVE  \A x, y \in ToSet(list(chosen)) : elt[x].key = elt[y].key
        OBVIOUS
      <4>1. p = 1
        BY <1>1, Geometry
      <4> QED
        BY <2>2, <2>3, <4>1
    <3> DEFINE r == SearchList(found, list(chosen), i)
    <3>1. SearchLevel(found, i) = r
      BY <1>2, <1>12, <2>6
    <3>2. Best(elt, r, found, ToSet(list(chosen)))
      BY <1>1, <1>8, <2>1, <2>6, <3>0, SearchListFacts
    <3> HIDE DEF r, p, first
    <3>3. PICK z \in ToSet(list(chosen)) : TRUE
      <4>1. list(chosen) \in Seq(Cells)
        BY <1>8, <2>1
      <4>2. 1 \in DOMAIN list(chosen)
        BY <2>6, <4>1
      <4> QED
        BY <4>2 DEF ToSet
    <3>4. r \in Finding /\ r.key <= found.key /\ \A x \in ToSet(list(chosen)) : r.key <= elt[x].key
      BY <3>2 DEF Best
    <3>5. r.key \in Nat
      BY <3>4, TimesType DEF Finding
    <3>6. ASSUME NEW x \in S
          PROVE  r.key <= elt[x].key /\ (found.key < elt[z].key /\ x \notin ToSet(list(chosen)) => found.key < elt[x].key)
      <4>1. CASE x \in ToSet(list(chosen))
        BY <3>4, <4>1
      <4>2. CASE x \notin ToSet(list(chosen))
        <5>1. elt[x].key \in Nat /\ first + p <= elt[x].key
          BY <2>4, <4>2
        <5>2. elt[z].key \in Nat /\ elt[z].key < first + p /\ r.key <= elt[z].key
          BY <2>3, <3>4
        <5> QED
          BY <1>1, <2>2, <3>5, <5>1, <5>2
      <4> QED
        BY <4>1, <4>2
    <3>7. CASE r = found /\ \A x \in ToSet(list(chosen)) : found.key < elt[x].key
      <4>1. \A x \in S : found.key < elt[x].key
        BY <3>6, <3>7
      <4> QED
        BY <3>1, <3>4, <3>6, <3>7, <4>1 DEF Best, S
    <3>8. CASE \E x \in ToSet(list(chosen)) : r = [elt |-> Pointer(x), key |-> elt[x].key]
      <4>1. ToSet(list(chosen)) \subseteq S
        <5>1. ToSet(list(chosen)) = In(levels, i, Scanned(c, i, b, chosen))
          BY DEF In, list
        <5>2. Scanned(c, i, b, chosen) \in SlotsOf(c, i)
          BY <1>5, <2>1
        <5> QED
          BY <1>1, <5>1, <5>2, MembersInside DEF c, S
      <4> QED
        BY <3>1, <3>4, <3>6, <3>8, <4>1 DEF Best, S
    <3> QED
      BY <3>2, <3>7, <3>8 DEF Best
  <2> QED
    BY <2>5, <2>6 DEF S
<1> QED
  BY <1>10, <1>11, <1>12

(* The search of all levels finds an element with the least key. *)
LEMMA FoundMinFacts ==
  ASSUME config \in Configs, NEW k, Wheel(config, levels, elt, k), elt_key_lower_bound \in Times,
         \A x \in Inside(config, levels) : elt_key_lower_bound <= elt[x].key,
         min_elt = Null
  PROVE  Best(elt, FoundMin, [elt |-> Null, key |-> MaxKey], Inside(config, levels))
<1> DEFINE n == Len(levels)
           none == [elt |-> Null, key |-> MaxKey]
           Unfolded(f) == f = [i \in 0 .. n |-> IF i = 0 THEN none ELSE SearchLevel(f[i - 1], i)]
           G == [p \in (1 .. n) \X Finding |-> SearchLevel(p[2], p[1])]
<1>1. /\ n \in Nat /\ 1 .. n = Indices(config) /\ none \in Finding
      /\ Shaped(config, levels) /\ Keys(elt)
  <2>1. Shaped(config, levels) /\ Keys(elt)
    BY DEF Wheel, Linked
  <2>2. n = Len(config.level_bits) /\ n \in Nat
    BY <2>1, ShapedFacts, Geometry
  <2> QED
    BY <2>1, <2>2, TimesType DEF Indices, Finding
<1>2. ASSUME NEW i \in 1 .. n, NEW a \in Finding
      PROVE  Best(elt, SearchLevel(a, i), a, InLevel(levels[i])) /\ SearchLevel(a, i) \in Finding
  <2>1. i \in Indices(config)
    BY <1>1
  <2>2. Best(elt, SearchLevel(a, i), a, InLevel(levels[i]))
    BY <2>1, SearchLevelFacts
  <2> QED
    BY <2>2 DEF Best
<1> HIDE DEF n, none
<1>3. G \in [(1 .. n) \X Finding -> Finding]
  BY <1>2
<1>4. PICK f : Follows(f, G, none, n, Finding)
  <2> HIDE DEF G
  <2> QED
    BY <1>1, <1>3, Recursion
<1>5. f \in [0 .. n -> Finding] /\ f[0] = none /\ \A i \in 1 .. n : f[i] = G[<<i, f[i - 1]>>]
  BY <1>4, Zenon DEF Follows
<1>6. \A i \in 1 .. n : f[i] = SearchLevel(f[i - 1], i)
  <2> SUFFICES ASSUME NEW i \in 1 .. n
               PROVE  f[i] = SearchLevel(f[i - 1], i)
    OBVIOUS
  <2>1. i - 1 \in 0 .. n
    BY <1>1
  <2>2. f[i - 1] \in Finding
    BY <1>5, <2>1, Zenon
  <2>3. G[<<i, f[i - 1]>>] = SearchLevel(f[i - 1], i)
    BY <2>2
  <2> QED
    BY <1>5, <2>3
<1>7. Unfolded(f)
  <2>1. \A i \in 0 .. n : f[i] = IF i = 0 THEN none ELSE SearchLevel(f[i - 1], i)
    BY <1>1, <1>5, <1>6
  <2>2. f = [i \in 0 .. n |-> f[i]]
    BY <1>5
  <2> QED
    BY <2>1, <2>2
<1> DEFINE found == CHOOSE g : Unfolded(g)
<1>8. Unfolded(found)
  <2> HIDE DEF Unfolded
  <2> QED
    BY <1>7
<1>9. FoundMin = found[n]
  BY DEF FoundMin, n, none
<1> HIDE DEF found
<1>10. found[0] = none /\ \A i \in 1 .. n : found[i] = SearchLevel(found[i - 1], i)
  <2>1. \A i \in 0 .. n : found[i] = IF i = 0 THEN none ELSE SearchLevel(found[i - 1], i)
    BY <1>8, Zenon DEF Unfolded
  <2> QED
    BY <1>1, <2>1
<1> DEFINE Upto(m) == UNION {InLevel(levels[i]) : i \in 1 .. m}
           T == {m \in Nat : Best(elt, found[m], none, Upto(m))}
<1>11. 0 \in T
  <2>1. Upto(0) = {}
    OBVIOUS
  <2>2. none.key \in Nat
    BY TimesType DEF none
  <2> QED
    BY <1>1, <1>10, <2>1, <2>2 DEF Best
<1>12. ASSUME NEW m \in 0 .. n - 1, m \in T
       PROVE  m + 1 \in T
  <2>1. m \in Nat /\ m + 1 \in 1 .. n /\ (m + 1) - 1 = m /\ \A h \in 1 .. m : h \in 1 .. n
    BY <1>1
  <2>2. Best(elt, found[m], none, Upto(m))
    BY <1>12
  <2>3. \A i \in 1 .. n : InLevel(levels[i]) \subseteq Cells
    <3>1. \A i \in Indices(config) : \A s \in SlotsOf(config, i) : In(levels, i, s) \subseteq Cells
      BY <1>1, ShapedFacts
    <3> QED
      BY <1>1, <3>1, MembersInside
  <2>4. Upto(m + 1) = Upto(m) \cup InLevel(levels[m + 1]) /\ Upto(m) \in SUBSET Cells
        /\ InLevel(levels[m + 1]) \in SUBSET Cells
    <3>1. 1 .. m + 1 = (1 .. m) \cup {m + 1}
      BY <2>1
    <3> QED
      BY <2>1, <2>3, <3>1
  <2> HIDE DEF Upto
  <2>5. found[m] \in Finding
    BY <2>2 DEF Best
  <2>6. Best(elt, SearchLevel(found[m], m + 1), found[m], InLevel(levels[m + 1]))
    BY <1>2, <2>1, <2>5
  <2>7. found[m + 1] = SearchLevel(found[m], m + 1)
    BY <1>10, <2>1
  <2>8. Best(elt, found[m + 1], none, Upto(m + 1))
    BY <1>1, <2>2, <2>4, <2>6, <2>7, BestOfBoth
  <2> QED
    BY <2>1, <2>8
<1>13. n \in T
  <2>1. \A m \in 0 .. n : m \in T
    <3> HIDE DEF T
    <3> QED
      BY <1>1, <1>11, <1>12, BoundedInduction
  <2> HIDE DEF T
  <2> QED
    BY <1>1, <2>1
<1>14. Upto(n) = Inside(config, levels)
  <2>1. DOMAIN levels = 1 .. n
    BY <1>1, ShapedFacts
  <2> QED
    BY <1>1, <2>1, MembersInside
<1> QED
  BY <1>9, <1>13, <1>14 DEF none

-----------------------------------------------------------------------------
(***************************************************************************)
(* The levels of a clock that advances.                                    *)
(***************************************************************************)
LEMMA InitialSegment ==
  ASSUME NEW q \in Nat, NEW S \in SUBSET (0 .. q - 1),
         \A n \in S : \A m \in 0 .. n : m \in S
  PROVE  Cardinality(S) \in Nat /\ S = 0 .. Cardinality(S) - 1
<1>1. q \in Nat \ S /\ Nat \ S \in SUBSET Nat
  OBVIOUS
<1>2. PICK h \in Nat \ S : \A n \in Nat \ S : h <= n
  BY <1>1, LeastElement
<1>3. S = 0 .. h - 1
  <2>1. \A n \in 0 .. h - 1 : n \in S
    BY <1>2
  <2>2. ASSUME NEW n \in S
        PROVE  n \in 0 .. h - 1
    <3>1. n \in Nat /\ (h <= n => h \in 0 .. n)
      BY <1>2
    <3> QED
      BY <1>2, <2>2, <3>1
  <2> QED
    BY <2>1, <2>2
<1>4. Cardinality(0 .. h - 1) = h
  <2>1. 0 \in Int /\ h - 1 \in Int /\ (h - 1) - 0 + 1 = h
    BY <1>2
  <2> QED
    BY <1>2, <2>1, FS_Interval
<1> QED
  BY <1>2, <1>3, <1>4

(* The elements whose slots end before the new bounds. *)
LEMMA BehindFacts ==
  ASSUME config \in Configs, NEW ls, Linked(config, ls), NEW e, Keys(e), Filed(config, ls, e),
         NEW i \in Indices(config), NEW desired \in Times, NEW lower_bound \in Times,
         ls[i].min <= desired,
         ls[i].min = MaxKey \/ Floor(config, i, ls[i].min) = ls[i].min,
         ls[i].max <= ls[i].min + Cover(config, i) - 1,
         \A x \in Inside(config, ls) : lower_bound <= e[x].key
  PROVE  /\ Behind(ls[i], i, lower_bound, desired) \in Seq(Cells)
         /\ IsInjective(Behind(ls[i], i, lower_bound, desired))
         /\ \A x : x \in ToSet(Behind(ls[i], i, lower_bound, desired)) <=>
                      /\ \E s \in SlotsOf(config, i) : x \in In(ls, i, s)
                      /\ Floor(config, i, e[x].key) < desired
<1> DEFINE c == config
           b == Least(desired, Greatest(ls[i].min, lower_bound))
           a == Floor(c, i, b)
           behind == {n \in SlotsOf(c, i) : a + n * Per(c, i) < desired}
           list(n) == ls[i].slots[Scanned(c, i, b, n)]
           ss == [n \in 1 .. Cardinality(behind) |-> list(n - 1)]
           moved == Behind(ls[i], i, lower_bound, desired)
<1>1. moved = FlattenSeq(ss)
  BY DEF Behind, min_key_in_same_slot, slot, keys_per_slot, bits_per_slot, Slots, Bits,
     Scanned, SlotOf, Floor, Per, Num, SlotsOf
<1>2. /\ c \in Configs /\ Linked(c, ls) /\ Shaped(c, ls) /\ Keys(e) /\ Filed(c, ls, e) /\ Apart(c, ls)
      /\ i \in Indices(c) /\ ls[i].min \in Times
  <2>1. Shaped(c, ls) /\ Apart(c, ls)
    BY DEF Linked
  <2> QED
    BY <2>1, ShapedFacts
<1>3. b \in Times /\ ls[i].min <= b
  <2>1. /\ desired \in Nat /\ lower_bound \in Nat /\ ls[i].min \in Nat
        /\ ls[i].min \in Times
    BY <1>2, TimesType
  <2> QED
    BY <2>1 DEF Least, Greatest
<1>4. \A s \in SlotsOf(c, i) : \A y \in In(ls, i, s) : y \in Cells /\ e[y].key \in Nat /\ b <= e[y].key
  <2> SUFFICES ASSUME NEW s \in SlotsOf(c, i), NEW y \in In(ls, i, s)
               PROVE  y \in Cells /\ e[y].key \in Nat /\ b <= e[y].key
    OBVIOUS
  <2>1. y \in Inside(c, ls) /\ y \in Cells
    BY <1>2, ShapedFacts DEF Inside
  <2>2. e[y].key \in Nat /\ desired \in Nat /\ lower_bound \in Nat /\ ls[i].min \in Nat
    BY <1>2, <2>1, TimesType DEF Keys
  <2>3. lower_bound <= e[y].key /\ ls[i].min <= e[y].key
    BY <1>2, <2>1 DEF Filed
  <2> QED
    BY <2>1, <2>2, <2>3 DEF Least, Greatest
<1>5. /\ ls[i].min = MaxKey \/ Floor(c, i, ls[i].min) = ls[i].min
      /\ ls[i].max <= ls[i].min + Cover(c, i) - 1
  OBVIOUS
<1> HIDE DEF c, b, moved
<1>6. /\ \A n \in SlotsOf(c, i) : Scanned(c, i, b, n) \in SlotsOf(c, i)
      /\ \A m, n \in SlotsOf(c, i) : Scanned(c, i, b, m) = Scanned(c, i, b, n) => m = n
      /\ \A n \in SlotsOf(c, i) : \A y \in In(ls, i, Scanned(c, i, b, n)) :
            Floor(c, i, e[y].key) = a + n * Per(c, i)
      /\ \A s \in SlotsOf(c, i) : \A y \in In(ls, i, s) :
            \E n \in SlotsOf(c, i) : y \in In(ls, i, Scanned(c, i, b, n))
  BY <1>2, <1>3, <1>4, <1>5, ScanFacts
<1>7. /\ Per(c, i) \in Nat /\ Num(c, i) \in Nat /\ a \in Nat /\ desired \in Nat
      /\ SlotsOf(c, i) = 0 .. Num(c, i) - 1
  BY <1>2, <1>3, Geometry, FloorFacts, TimesType DEF SlotsOf
<1>8. \A n \in SlotsOf(c, i) : list(n) \in Seq(Cells) /\ ToSet(list(n)) = In(ls, i, Scanned(c, i, b, n))
  BY <1>2, <1>6, ShapedFacts DEF In
<1> HIDE DEF a, list
<1>9. Cardinality(behind) \in Nat /\ behind = 0 .. Cardinality(behind) - 1
  <2>1. behind \in SUBSET (0 .. Num(c, i) - 1)
    BY <1>7
  <2>2. ASSUME NEW n \in behind, NEW m \in 0 .. n
        PROVE  m \in behind
    <3>1. n \in Nat /\ m \in Nat /\ m <= n /\ m \in SlotsOf(c, i) /\ a + n * Per(c, i) < desired
      BY <1>7
    <3>2. m * Per(c, i) <= n * Per(c, i) /\ m * Per(c, i) \in Nat /\ n * Per(c, i) \in Nat
      <4>1. ASSUME NEW u \in Nat, NEW v \in Nat, NEW w \in Nat, u <= v
            PROVE  u * w <= v * w /\ u * w \in Nat /\ v * w \in Nat
        BY <4>1
      <4> QED
        BY <1>7, <3>1, <4>1
    <3>3. a + m * Per(c, i) < desired
      BY <1>7, <3>1, <3>2, SMTT(60)
    <3> QED
      BY <3>1, <3>3
  <2> HIDE DEF behind
  <2> QED
    BY <1>7, <2>1, <2>2, InitialSegment
<1> DEFINE h == Cardinality(behind)
<1>10. /\ ss \in Seq(Seq(Cells)) /\ Len(ss) = h
       /\ \A n \in 1 .. h : ss[n] = list(n - 1) /\ n - 1 \in behind /\ n - 1 \in SlotsOf(c, i)
  <2>1. \A n \in 1 .. h : n - 1 \in behind
    <3> HIDE DEF behind
    <3> QED
      BY <1>9
  <2>2. \A n \in 1 .. h : n - 1 \in SlotsOf(c, i)
    BY <2>1
  <2> HIDE DEF behind, h
  <2>3. \A n \in 1 .. h : list(n - 1) \in Seq(Cells)
    BY <1>8, <2>2
  <2>4. ss = [n \in 1 .. h |-> list(n - 1)]
    BY DEF h
  <2>5. h \in Nat
    BY <1>9 DEF h
  <2> HIDE DEF ss
  <2>6. ss \in Seq(Seq(Cells)) /\ Len(ss) = h
    BY <2>3, <2>4, <2>5
  <2> QED
    BY <2>1, <2>2, <2>4, <2>6
<1>11. \A x \in Cells : \A m, n \in SlotsOf(c, i) : x \in ToSet(list(m)) /\ x \in ToSet(list(n)) => m = n
  BY <1>2, <1>6, <1>8 DEF Apart
<1>12. /\ \A n \in 1 .. h : IsInjective(ss[n])
       /\ \A m, n \in 1 .. h : m # n => ToSet(ss[m]) \cap ToSet(ss[n]) = {}
  <2> HIDE DEF behind, ss, h
  <2>1. \A n \in SlotsOf(c, i) : IsInjective(list(n)) /\ ToSet(list(n)) \subseteq Cells
    BY <1>2, <1>4, <1>6, <1>8 DEF Apart, list
  <2>2. ASSUME NEW m \in 1 .. h, NEW n \in 1 .. h, NEW x \in ToSet(ss[m]) \cap ToSet(ss[n])
        PROVE  m = n
    <3>1. m - 1 = n - 1
      BY <1>10, <1>11, <2>1
    <3> QED
      BY <3>1
  <2> QED
    BY <1>10, <2>1, <2>2
<1>13. /\ moved \in Seq(Cells) /\ IsInjective(moved)
       /\ \A x : x \in ToSet(moved) <=> \E n \in 1 .. h : x \in ToSet(ss[n])
  <2> HIDE DEF behind, ss, h
  <2> QED
    BY <1>1, <1>10, <1>12, FlattenFacts
<1>14. ASSUME NEW x
       PROVE  x \in ToSet(moved) <=> /\ \E s \in SlotsOf(c, i) : x \in In(ls, i, s)
                                     /\ Floor(c, i, e[x].key) < desired
  <2>1. ASSUME x \in ToSet(moved)
        PROVE  /\ \E s \in SlotsOf(c, i) : x \in In(ls, i, s)
               /\ Floor(c, i, e[x].key) < desired
    <3>1. PICK n \in 1 .. h : x \in ToSet(list(n - 1)) /\ n - 1 \in behind /\ n - 1 \in SlotsOf(c, i)
      <4> HIDE DEF behind, ss, h
      <4> QED
        BY <1>10, <1>13, <2>1
    <3>2. PICK m \in SlotsOf(c, i) : m = n - 1 /\ m \in behind /\ x \in ToSet(list(m))
      BY <3>1
    <3>3. x \in In(ls, i, Scanned(c, i, b, m)) /\ a + m * Per(c, i) < desired
      BY <1>8, <3>2
    <3> QED
      BY <1>6, <3>3
  <2>2. ASSUME NEW s \in SlotsOf(c, i), x \in In(ls, i, s), Floor(c, i, e[x].key) < desired
        PROVE  x \in ToSet(moved)
    <3>1. PICK n \in SlotsOf(c, i) : x \in In(ls, i, Scanned(c, i, b, n))
      BY <1>6, <2>2
    <3>2. n \in behind
      BY <1>6, <2>2, <3>1
    <3>3. n + 1 \in 1 .. h /\ (n + 1) - 1 = n
      <4> HIDE DEF behind
      <4> QED
        BY <1>9, <3>2
    <3>4. x \in ToSet(ss[n + 1])
      <4> HIDE DEF behind, ss, h
      <4> QED
        BY <1>8, <1>10, <3>1, <3>3
    <3> HIDE DEF behind, ss, h
    <3> QED
      BY <1>13, <3>3, <3>4
  <2> QED
    BY <2>1, <2>2
<1> QED
  BY <1>13, <1>14 DEF c, moved

ReAdds(f, ls, list) ==
  /\ ReAdded(ls, list) = f[Len(list)]
  /\ f[0] = ls
  /\ \A m \in 1 .. Len(list) : f[m] = AddElt(f[m - 1], list[m], elt[list[m]].key)

LEMMA ReAddedUnfolds ==
  ASSUME NEW ls, NEW list \in Seq(Cells)
  PROVE  \E f : ReAdds(f, ls, list)
<1> DEFINE n == Len(list)
           Step(f, m) == AddElt(f[m - 1], list[m], elt[list[m]].key)
           Unfolded(f) == f = [m \in 0 .. n |-> IF m = 0 THEN ls ELSE Step(f, m)]
           Upto(f, h) == f = [m \in 0 .. h |-> f[m]] /\ f[0] = ls /\ \A m \in 1 .. h : f[m] = Step(f, m)
           S == {h \in Nat : \E f : Upto(f, h)}
<1>1. n \in Nat
  OBVIOUS
<1>2. 0 \in S
  <2>1. Upto([m \in 0 .. 0 |-> ls], 0)
    OBVIOUS
  <2> HIDE DEF Upto
  <2> QED
    BY <2>1
<1>3. ASSUME NEW h \in 0 .. n - 1, h \in S
      PROVE  h + 1 \in S
  <2>1. h \in Nat /\ h + 1 \in Nat /\ (h + 1) - 1 = h
    BY <1>1
  <2>2. PICK f : Upto(f, h)
    BY <1>3
  <2> DEFINE g == [m \in 0 .. h + 1 |-> IF m = h + 1 THEN Step(f, h + 1) ELSE f[m]]
  <2>3. g[0] = ls
    BY <2>1, <2>2
  <2>4. ASSUME NEW m \in 1 .. h + 1
        PROVE  g[m] = Step(g, m)
    <3>1. m - 1 \in 0 .. h + 1 /\ m - 1 # h + 1 /\ m \in 0 .. h + 1
      BY <2>1
    <3>2. g[m - 1] = f[m - 1]
      BY <3>1
    <3>3. CASE m = h + 1
      <4>1. g[m] = Step(f, m)
        BY <3>1, <3>3
      <4> QED
        BY <3>2, <4>1
    <3>4. CASE m # h + 1
      <4>1. m \in 1 .. h
        BY <2>1, <3>4
      <4>2. f[m] = Step(f, m)
        BY <2>2, <4>1
      <4>3. g[m] = f[m]
        BY <3>1, <3>4
      <4> HIDE DEF g
      <4> QED
        BY <3>2, <4>2, <4>3
    <3> QED
      BY <3>3, <3>4
  <2>5. g = [m \in 0 .. h + 1 |-> g[m]]
    OBVIOUS
  <2> HIDE DEF g, Step
  <2>6. Upto(g, h + 1)
    BY <2>3, <2>4, <2>5
  <2> HIDE DEF Upto
  <2> QED
    BY <2>1, <2>6
<1>4. n \in S
  <2>1. \A h \in 0 .. n : h \in S
    <3> HIDE DEF S, n
    <3> QED
      BY <1>1, <1>2, <1>3, BoundedInduction
  <2> HIDE DEF S, n
  <2> QED
    BY <1>1, <2>1
<1>5. PICK f : Upto(f, n)
  BY <1>4
<1>6. Unfolded(f)
  <2> HIDE DEF Step, n
  <2>1. \A m \in 0 .. n : f[m] = IF m = 0 THEN ls ELSE Step(f, m)
    <3> SUFFICES ASSUME NEW m \in 0 .. n, m # 0
                 PROVE  f[m] = Step(f, m)
      BY <1>5
    <3>1. m \in 1 .. n
      BY <1>1
    <3> QED
      BY <1>5, <3>1
  <2>2. f = [m \in 0 .. n |-> f[m]]
    BY <1>5
  <2> QED
    BY <2>1, <2>2
<1> DEFINE added == CHOOSE g : Unfolded(g)
<1>7. Unfolded(added)
  <2> HIDE DEF Unfolded
  <2> QED
    BY <1>6
<1>8. ReAdded(ls, list) = added[n]
  BY DEF ReAdded
<1> HIDE DEF added
<1>9. added[0] = ls /\ \A m \in 1 .. n : added[m] = Step(added, m)
  <2> HIDE DEF Step, n
  <2>1. \A m \in 0 .. n : added[m] = IF m = 0 THEN ls ELSE Step(added, m)
    BY <1>7, Zenon DEF Unfolded
  <2> QED
    BY <1>1, <2>1
<1> QED
  BY <1>8, <1>9 DEF ReAdds

LEMMA ReAddedNone ==
  ASSUME NEW ls
  PROVE  ReAdded(ls, <<>>) = ls
<1>1. <<>> \in Seq(Cells) /\ Len(<<>>) = 0
  OBVIOUS
<1>2. PICK f : ReAdds(f, ls, <<>>)
  BY <1>1, ReAddedUnfolds
<1> QED
  BY <1>1, <1>2 DEF ReAdds

LEMMA ReAddedFacts ==
  ASSUME config \in Configs, NEW ls, Linked(config, ls), Keys(elt), Filed(config, ls, elt),
         NEW list \in Seq(Cells), IsInjective(list), ToSet(list) \cap Inside(config, ls) = {},
         NEW k \in Times, NEW n \in Indices(config), Chained(config, ls, k, n),
         \A x \in ToSet(list) : k <= elt[x].key /\ elt[x].key <= ls[n].max
  PROVE  /\ Linked(config, ReAdded(ls, list)) /\ SameBounds(config, ls, ReAdded(ls, list))
         /\ Filed(config, ReAdded(ls, list), elt)
         /\ Inside(config, ReAdded(ls, list)) = Inside(config, ls) \cup ToSet(list)
         /\ \A i \in Indices(config) : \A s \in SlotsOf(config, i) :
               i > n => In(ReAdded(ls, list), i, s) = In(ls, i, s)
<1>1. PICK f : ReAdds(f, ls, list)
  BY ReAddedUnfolds
<1>2. /\ ReAdded(ls, list) = f[Len(list)] /\ f[0] = ls
      /\ \A m \in 1 .. Len(list) : f[m] = AddElt(f[m - 1], list[m], elt[list[m]].key)
  BY <1>1 DEF ReAdds
<1>3. /\ Len(list) \in Nat /\ DOMAIN list = 1 .. Len(list) /\ \A m \in 1 .. Len(list) : list[m] \in Cells
      /\ \A m \in 1 .. Len(list) : list[m] \in ToSet(list)
  BY DEF ToSet
<1> DEFINE Good(m) == /\ Linked(config, f[m]) /\ SameBounds(config, ls, f[m]) /\ Filed(config, f[m], elt)
                      /\ Inside(config, f[m]) = Inside(config, ls) \cup {list[h] : h \in 1 .. m}
                      /\ \A i \in Indices(config) : \A s \in SlotsOf(config, i) :
                            i > n => In(f[m], i, s) = In(ls, i, s)
           T == {m \in Nat : Good(m)}
<1>4. 0 \in T
  <2>1. {list[h] : h \in 1 .. 0} = {}
    OBVIOUS
  <2>2. Good(0)
    BY <1>2, <2>1 DEF SameBounds
  <2> HIDE DEF Good
  <2> QED
    BY <2>2
<1>5. ASSUME NEW m \in 0 .. Len(list) - 1, m \in T
      PROVE  m + 1 \in T
  <2> DEFINE x == list[m + 1]
  <2>1. /\ m \in Nat /\ m + 1 \in 1 .. Len(list) /\ (m + 1) - 1 = m
        /\ 1 .. m + 1 = (1 .. m) \cup {m + 1} /\ \A h \in 1 .. m : h \in 1 .. Len(list) /\ h # m + 1
    BY <1>3
  <2>2. f[m + 1] = AddElt(f[m], x, elt[x].key)
    BY <1>2, <2>1
  <2>3. Good(m)
    BY <1>5
  <2>4. x \in Cells /\ x \in ToSet(list) /\ k <= elt[x].key /\ elt[x].key <= ls[n].max
    BY <1>3, <2>1
  <2>5. x \notin Inside(config, f[m])
    <3>1. \A h \in 1 .. m : list[h] # x
      BY <1>3, <2>1 DEF IsInjective
    <3>2. x \notin Inside(config, ls)
      BY <2>4
    <3> HIDE DEF x
    <3> QED
      BY <2>3, <3>1, <3>2
  <2>6. f[m][n].max = ls[n].max
    BY <2>3 DEF SameBounds
  <2>7. Chained(config, f[m], k, n)
    <3>1. n \in 0 .. Len(config.level_bits)
      BY Geometry DEF Indices
    <3> QED
      BY <2>3, <3>1, SameBoundsChained
  <2>8. /\ Linked(config, f[m]) /\ Filed(config, f[m], elt) /\ SameBounds(config, ls, f[m])
        /\ Inside(config, f[m]) = Inside(config, ls) \cup {list[h] : h \in 1 .. m}
        /\ \A i \in Indices(config) : \A s \in SlotsOf(config, i) :
              i > n => In(f[m], i, s) = In(ls, i, s)
    BY <2>3
  <2>9. {list[h] : h \in 1 .. m + 1} = {list[h] : h \in 1 .. m} \cup {x}
    BY <2>1
  <2> HIDE DEF x, Good
  <2>10. /\ Linked(config, f[m + 1])
         /\ SameBounds(config, f[m], f[m + 1])
         /\ Inside(config, f[m + 1]) = Inside(config, f[m]) \cup {x}
         /\ Filed(config, f[m + 1], elt)
         /\ \A i \in Indices(config) : \A s \in SlotsOf(config, i) :
               i > n => In(f[m + 1], i, s) = In(f[m], i, s)
    BY <2>2, <2>4, <2>5, <2>6, <2>7, <2>8, AddEltFiled
  <2>11. Good(m + 1)
    <3>1. SameBounds(config, ls, f[m + 1])
      BY <2>8, <2>10 DEF SameBounds
    <3>2. Inside(config, f[m + 1]) = Inside(config, ls) \cup {list[h] : h \in 1 .. m + 1}
      BY <2>8, <2>9, <2>10
    <3> QED
      BY <2>8, <2>10, <3>1, <3>2 DEF Good
  <2> QED
    BY <2>1, <2>11
<1>6. Good(Len(list))
  <2>1. \A m \in 0 .. Len(list) : m \in T
    <3> HIDE DEF T
    <3> QED
      BY <1>3, <1>4, <1>5, BoundedInduction
  <2> HIDE DEF Good
  <2> QED
    BY <1>3, <2>1
<1>7. {list[h] : h \in 1 .. Len(list)} = ToSet(list)
  BY <1>3 DEF ToSet
<1> QED
  BY <1>2, <1>6, <1>7

(* What holds in the loop of increase_min_allowed_key, to k and with the    *)
(* lower bound that it reads, when it has come to level i: the levels up to *)
(* i begin at k, the others are as they were, and what is no longer in the *)
(* levels has a key below k.                                               *)
Raised(t, i, k, lower_bound) ==
  /\ t = [levels |-> t.levels, lower_bound |-> t.lower_bound,
          prev_level_max_allowed_key |-> t.prev_level_max_allowed_key,
          removed |-> t.removed, changed |-> t.changed]
  /\ Linked(config, t.levels) /\ Filed(config, t.levels, elt)
  /\ t.lower_bound = lower_bound
  /\ t.removed \in Seq(Cells) /\ IsInjective(t.removed)
  /\ \A x \in ToSet(t.removed) : elt[x].key < k
  /\ ToSet(t.removed) \subseteq Inside(config, levels)
  /\ Inside(config, t.levels) = Inside(config, levels) \ ToSet(t.removed)
  /\ \A j \in Indices(config) : levels[j].min <= t.levels[j].min /\ levels[j].max <= t.levels[j].max
  /\ Chained(config, t.levels, k, i)
  /\ IF t.changed
     THEN /\ t.prev_level_max_allowed_key = Prev(t.levels, i + 1, k)
          /\ \A j \in Indices(config) : j > i => /\ t.levels[j].min = levels[j].min
                                                 /\ t.levels[j].max = levels[j].max
     ELSE /\ Chained(config, t.levels, k, Len(config.level_bits))
          /\ t.levels[Len(config.level_bits)].max = levels[Len(config.level_bits)].max

(* The new bounds of a level are not below the old ones. *)
LEMMA DesiredFacts ==
  ASSUME config \in Configs, NEW k0, Wheel(config, levels, elt, k0),
         NEW k \in Times, k0 < k, NEW i \in Indices(config), NEW lower_bound,
         NEW t, Raised(t, i - 1, k, lower_bound), t.changed
  PROVE  /\ t.prev_level_max_allowed_key \in Times \cup {-1}
         /\ t.prev_level_max_allowed_key = Prev(t.levels, i, k)
         /\ Wanted(config, i, t.prev_level_max_allowed_key) \in Times
         /\ levels[i].min <= Wanted(config, i, t.prev_level_max_allowed_key)
<1> DEFINE c == config
           p == t.prev_level_max_allowed_key
<1>1. /\ c \in Configs /\ i \in Nat /\ (i - 1) + 1 = i
      /\ Shaped(c, t.levels) /\ Shaped(c, levels)
      /\ p = Prev(t.levels, i, k)
  <2>1. (i - 1) + 1 = i /\ i \in Nat
    BY Geometry DEF Indices
  <2> QED
    BY <2>1 DEF Raised, Wheel, Linked
<1>2. p \in Times \cup {-1}
  BY <1>1, PrevType
<1>3. Wanted(c, i, p) \in Times
  BY <1>1, <1>2, WantedFacts
<1>4. levels[i].min <= Wanted(c, i, p)
  <2>1. CASE i = 1
    <3>1. Wanted(c, i, p) = k /\ levels[1].min = k0 /\ k0 \in Times
      BY <1>1, <2>1, FirstWanted, WheelFacts DEF Prev, Wheel
    <3> QED
      BY <2>1, <3>1, TimesType
  <2>2. CASE i # 1
    <3>1. i - 1 \in Indices(c)
      BY <1>1, <2>2 DEF Indices
    <3>2. /\ levels[i - 1].max <= t.levels[i - 1].max /\ p = t.levels[i - 1].max
          /\ levels[i - 1].max \in Times /\ t.levels[i - 1].max \in Times
      BY <1>1, <2>2, <3>1, ShapedFacts DEF Raised, Prev
    <3>3. levels[i].min = Wanted(c, i, levels[i - 1].max)
      BY <2>2 DEF Wheel, Chained, Bounds, Prev, Indices
    <3> QED
      BY <1>1, <3>2, <3>3, WantedMonotone
  <2> QED
    BY <2>1, <2>2
<1> QED
  BY <1>1, <1>2, <1>3, <1>4

(* An element that is moved and not fired has room in the levels below. *)
LEMMA MovedBelow ==
  ASSUME NEW c \in Configs, NEW i \in Indices(c), NEW p \in Times, NEW k \in Times,
         Floor(c, i, k) < Wanted(c, i, p)
  PROVE  k <= p
<1>1. k \in Nat /\ k <= MaxKey /\ p \in Nat /\ MaxKey \in Nat
  BY TimesType DEF Times
<1>2. CASE p = MaxKey
  BY <1>1, <1>2
<1>3. CASE p # MaxKey
  <2>1. Floor(c, i, k) < Floor(c, i, p + 1)
    BY <1>3 DEF Wanted
  <2>2. CASE p + 1 <= k
    <3>1. Floor(c, i, p + 1) <= Floor(c, i, k) /\ Floor(c, i, k) \in Nat /\ Floor(c, i, p + 1) \in Nat
      BY <1>1, <2>2, FloorMonotone, FloorFacts
    <3> QED
      BY <2>1, <3>1
  <2> QED
    BY <1>1, <2>2
<1> QED
  BY <1>2, <1>3

(* One level is emptied, and what stays is put back. *)
LEMMA EmptiedFacts ==
  ASSUME config \in Configs, NEW k0, Wheel(config, levels, elt, k0),
         NEW k \in Times, k0 < k, NEW i \in Indices(config), NEW lower_bound \in Times,
         \A x \in Inside(config, levels) : lower_bound <= elt[x].key,
         NEW t, Raised(t, i - 1, k, lower_bound), t.changed,
         NEW moved, NEW emptied,
         moved = Behind(t.levels[i], i, lower_bound, Wanted(config, i, t.prev_level_max_allowed_key)),
         emptied = ReAdded(Unlinked(t.levels, ToSet(moved)), Only(moved, {x \in Cells : elt[x].key >= k}))
  PROVE  /\ moved \in Seq(Cells) /\ IsInjective(moved) /\ ToSet(moved) \subseteq Inside(config, t.levels)
         /\ Linked(config, emptied) /\ Filed(config, emptied, elt)
         /\ SameBounds(config, t.levels, emptied)
         /\ Inside(config, emptied) =
               Inside(config, t.levels) \ {x \in ToSet(moved) : elt[x].key < k}
         /\ \A s \in SlotsOf(config, i) : \A x \in In(emptied, i, s) :
               /\ Wanted(config, i, t.prev_level_max_allowed_key) <= elt[x].key
               /\ Wanted(config, i, t.prev_level_max_allowed_key) <= Floor(config, i, elt[x].key)
<1> DEFINE c == config
           old == t.levels
           p == t.prev_level_max_allowed_key
           desired == Wanted(c, i, p)
           unlinked == Unlinked(old, ToSet(moved))
           staying == {x \in Cells : elt[x].key >= k}
           stayed == Only(moved, staying)
<1>1. /\ c \in Configs /\ Linked(c, old) /\ Shaped(c, old) /\ Filed(c, old, elt) /\ Keys(elt)
      /\ Chained(c, old, k, i - 1) /\ Inside(c, old) \subseteq Inside(c, levels)
      /\ old[i].min = levels[i].min /\ old[i].max = levels[i].max
  <2>1. i \in Nat /\ i > i - 1
    BY Geometry DEF Indices
  <2> QED
    BY <2>1 DEF Raised, Wheel, Linked
<1>2. /\ p \in Times \cup {-1} /\ p = Prev(old, i, k)
      /\ desired \in Times /\ old[i].min <= desired
  BY <1>1, DesiredFacts
<1>3. /\ old[i].min = MaxKey \/ Floor(c, i, old[i].min) = old[i].min
      /\ old[i].max <= old[i].min + Cover(c, i) - 1
      /\ \A x \in Inside(c, old) : lower_bound <= elt[x].key
  BY <1>1, WheelFacts
<1>4. i \in Indices(c) /\ moved = Behind(old[i], i, lower_bound, desired)
  OBVIOUS
<1> HIDE DEF desired, p, old
<1>5. /\ moved \in Seq(Cells) /\ IsInjective(moved)
      /\ \A x : x \in ToSet(moved) <=> /\ \E s \in SlotsOf(c, i) : x \in In(old, i, s)
                                       /\ Floor(c, i, elt[x].key) < desired
  BY <1>1, <1>2, <1>3, <1>4, BehindFacts
<1>6. ToSet(moved) \subseteq Inside(c, old)
  <2>1. ToSet(moved) \subseteq Cells
    BY <1>5 DEF ToSet
  <2> QED
    BY <1>4, <1>5, <2>1 DEF Inside
<1>7. /\ Linked(c, unlinked) /\ SameBounds(c, old, unlinked) /\ Filed(c, unlinked, elt)
      /\ \A h \in Indices(c) : \A s \in SlotsOf(c, h) : In(unlinked, h, s) = In(old, h, s) \ ToSet(moved)
      /\ Inside(c, unlinked) = Inside(c, old) \ ToSet(moved)
  BY <1>1, UnlinkedFacts, UnlinkedFiled
<1>8. \A x \in Cells : elt[x].key \in Times /\ elt[x].key \in Nat /\ k \in Nat
  BY <1>1, TimesType DEF Keys
<1>9. /\ stayed \in Seq(Cells) /\ IsInjective(stayed)
      /\ ToSet(stayed) = {x \in ToSet(moved) : elt[x].key >= k}
  <2>1. stayed \in Seq(Cells) /\ IsInjective(stayed) /\ ToSet(stayed) = ToSet(moved) \cap staying
    BY <1>5, OnlyFacts
  <2>2. ToSet(moved) \subseteq Cells
    BY <1>6 DEF Inside
  <2> QED
    BY <2>1, <2>2
<1>10. emptied = ReAdded(unlinked, stayed)
  BY DEF old
<1> HIDE DEF staying, stayed, unlinked, c
<1>11. /\ Linked(c, emptied) /\ SameBounds(c, unlinked, emptied) /\ Filed(c, emptied, elt)
       /\ Inside(c, emptied) = Inside(c, unlinked) \cup ToSet(stayed)
       /\ \A s \in SlotsOf(c, i) : In(emptied, i, s) = In(unlinked, i, s)
  <2>1. CASE i = 1
    <3>1. ToSet(stayed) = {}
      <4> SUFFICES ASSUME NEW x \in ToSet(moved), elt[x].key >= k
                   PROVE  FALSE
        BY <1>9
      <4>1. Floor(c, 1, elt[x].key) = elt[x].key /\ desired = k
        <5>1. x \in Cells
          BY <1>6 DEF Inside
        <5> QED
          BY <1>1, <1>2, <1>8, <2>1, <5>1, FirstWanted DEF desired, Prev
      <4> QED
        BY <1>5, <1>6, <1>8, <2>1, <4>1 DEF Inside
    <3>2. stayed = <<>>
      <4> SUFFICES ASSUME stayed # <<>>
                   PROVE  FALSE
        OBVIOUS
      <4>1. 1 \in DOMAIN stayed
        BY <1>9
      <4> QED
        BY <3>1, <4>1 DEF ToSet
    <3>3. emptied = unlinked
      BY <1>10, <3>2, ReAddedNone
    <3>4. SameBounds(c, unlinked, emptied)
      BY <3>3 DEF SameBounds
    <3> QED
      BY <1>7, <3>1, <3>3, <3>4
  <2>2. CASE i # 1
    <3>1. i - 1 \in Indices(c) /\ i > i - 1 /\ i \in Indices(c)
      BY <1>1, <1>4, <2>2, Geometry DEF Indices
    <3>2. Chained(c, unlinked, k, i - 1)
      <4>1. i - 1 \in 0 .. Len(c.level_bits)
        BY <1>1, <3>1, Geometry DEF Indices
      <4> QED
        BY <1>1, <1>7, <4>1, SameBoundsChained
    <3>3. p = old[i - 1].max /\ p \in Times /\ unlinked[i - 1].max = p
      BY <1>1, <1>2, <1>7, <2>2, <3>1, ShapedFacts DEF Prev, SameBounds
    <3>4. \A x \in ToSet(stayed) : k <= elt[x].key /\ elt[x].key <= unlinked[i - 1].max
      <4> SUFFICES ASSUME NEW x \in ToSet(stayed)
                   PROVE  k <= elt[x].key /\ elt[x].key <= p
        BY <3>3
      <4>1. x \in ToSet(moved) /\ elt[x].key >= k /\ x \in Cells
        BY <1>6, <1>9 DEF Inside
      <4>2. Floor(c, i, elt[x].key) < Wanted(c, i, p)
        BY <1>5, <4>1 DEF desired
      <4>3. elt[x].key <= p
        BY <1>1, <1>8, <3>1, <3>3, <4>1, <4>2, MovedBelow
      <4> QED
        BY <1>8, <4>1, <4>3
    <3>5. ToSet(stayed) \cap Inside(c, unlinked) = {}
      BY <1>7, <1>9
    <3>6. config \in Configs /\ config = c
      BY DEF c
    <3>7. Linked(config, unlinked) /\ Filed(config, unlinked, elt) /\ Keys(elt)
          /\ Chained(config, unlinked, k, i - 1) /\ i - 1 \in Indices(config)
          /\ ToSet(stayed) \cap Inside(config, unlinked) = {}
      BY <1>1, <1>7, <3>1, <3>2, <3>5, <3>6
    <3>8. /\ Linked(config, emptied) /\ SameBounds(config, unlinked, emptied)
          /\ Filed(config, emptied, elt)
          /\ Inside(config, emptied) = Inside(config, unlinked) \cup ToSet(stayed)
          /\ \A h \in Indices(config) : \A s \in SlotsOf(config, h) :
                h > i - 1 => In(emptied, h, s) = In(unlinked, h, s)
      <4>1. stayed \in Seq(Cells) /\ IsInjective(stayed) /\ k \in Times
        BY <1>9
      <4> DEFINE n == i - 1
      <4>2. n \in Indices(config) /\ Chained(config, unlinked, k, n)
        BY <3>7
      <4>3. \A x \in ToSet(stayed) : k <= elt[x].key /\ elt[x].key <= unlinked[n].max
        BY <3>4
      <4> HIDE DEF n
      <4> DEFINE new == ReAdded(unlinked, stayed)
      <4>4. /\ Linked(config, new) /\ SameBounds(config, unlinked, new) /\ Filed(config, new, elt)
            /\ Inside(config, new) = Inside(config, unlinked) \cup ToSet(stayed)
            /\ \A h \in Indices(config) : \A s \in SlotsOf(config, h) :
                  h > n => In(new, h, s) = In(unlinked, h, s)
        BY <3>7, <4>1, <4>2, <4>3, ReAddedFacts
      <4> QED
        BY <1>10, <4>4 DEF n
    <3> QED
      BY <3>1, <3>6, <3>8
  <2> QED
    BY <2>1, <2>2
<1>12. SameBounds(c, old, emptied)
  BY <1>7, <1>11 DEF SameBounds
<1>13. Inside(c, emptied) = Inside(c, old) \ {x \in ToSet(moved) : elt[x].key < k}
  <2>1. \A x \in ToSet(moved) : x \in Inside(c, old) /\ (elt[x].key < k <=> ~ (elt[x].key >= k))
    BY <1>6, <1>8 DEF Inside
  <2>2. Inside(c, emptied) = (Inside(c, old) \ ToSet(moved)) \cup {x \in ToSet(moved) : elt[x].key >= k}
    BY <1>7, <1>9, <1>11
  <2> QED
    BY <2>1, <2>2
<1>14. ASSUME NEW s \in SlotsOf(c, i), NEW x \in In(emptied, i, s)
       PROVE  desired <= elt[x].key /\ desired <= Floor(c, i, elt[x].key)
  <2>1. x \in In(old, i, s) /\ x \notin ToSet(moved)
    BY <1>4, <1>7, <1>11, <1>14 DEF c
  <2>2. x \in Cells
    BY <1>1, <1>4, <2>1, ShapedFacts DEF c
  <2>3. ~ (Floor(c, i, elt[x].key) < desired)
    BY <1>5, <2>1
  <2>4. Floor(c, i, elt[x].key) <= elt[x].key /\ Floor(c, i, elt[x].key) \in Nat /\ desired \in Nat
    BY <1>1, <1>2, <1>4, <1>8, <2>2, FloorFacts, TimesType DEF c
  <2> QED
    BY <1>8, <2>2, <2>3, <2>4
<1> QED
  BY <1>5, <1>6, <1>11, <1>12, <1>13, <1>14 DEF c, old, desired, p

(* increase_level_min_allowed_key raises one more level. *)
LEMMA IncreaseLevelFacts ==
  ASSUME config \in Configs, NEW k0, Wheel(config, levels, elt, k0),
         NEW k \in Times, k0 < k, NEW i \in Indices(config), NEW lower_bound \in Times,
         \A x \in Inside(config, levels) : lower_bound <= elt[x].key,
         NEW t, Raised(t, i - 1, k, lower_bound), t.changed
  PROVE  Raised(IncreaseLevel(t, i, k), i, k, lower_bound)
<1> DEFINE c == config
           old == t.levels
           n == Len(c.level_bits)
           desired == Wanted(c, i, t.prev_level_max_allowed_key)
           upper == Upper(c, i, desired)
           moved == Behind(old[i], i, lower_bound, desired)
           staying == {x \in Cells : elt[x].key >= k}
           emptied == ReAdded(Unlinked(old, ToSet(moved)), Only(moved, staying))
           gone == Only(moved, Cells \ staying)
           new == [emptied EXCEPT ![i] = [@ EXCEPT !.min = desired, !.max = upper]]
           r == IncreaseLevel(t, i, k)
<1>1. /\ t = [levels |-> t.levels, lower_bound |-> t.lower_bound,
              prev_level_max_allowed_key |-> t.prev_level_max_allowed_key,
              removed |-> t.removed, changed |-> t.changed]
      /\ Linked(c, old) /\ Shaped(c, old) /\ Filed(c, old, elt) /\ Keys(elt)
      /\ t.lower_bound = lower_bound
      /\ t.removed \in Seq(Cells) /\ IsInjective(t.removed)
      /\ \A x \in ToSet(t.removed) : elt[x].key < k
      /\ ToSet(t.removed) \subseteq Inside(c, levels)
      /\ Inside(c, old) = Inside(c, levels) \ ToSet(t.removed)
      /\ \A j \in Indices(c) : levels[j].min <= old[j].min /\ levels[j].max <= old[j].max
      /\ Chained(c, old, k, i - 1)
      /\ \A j \in Indices(c) : j > i - 1 => old[j].min = levels[j].min /\ old[j].max = levels[j].max
  BY DEF Raised, Linked, Wheel
<1>2. /\ c \in Configs /\ i \in Indices(c) /\ i \in Nat /\ n \in Nat \ {0} /\ Indices(c) = 1 .. n
  BY Geometry DEF Indices
<1>3. /\ t.prev_level_max_allowed_key = Prev(old, i, k)
      /\ desired \in Times /\ levels[i].min <= desired
  BY DesiredFacts
<1>4. r = [levels |-> new, lower_bound |-> lower_bound, prev_level_max_allowed_key |-> upper,
           removed |-> t.removed \o gone, changed |-> desired # old[i].min]
  <2>1. /\ compute_min_allowed_key(i, t.prev_level_max_allowed_key) = desired
        /\ add_clamp_to_max(desired, diff_max_min_allowed_key(i)) = upper
    BY <1>2, ReadConfig DEF Upper
  <2>2. {x \in Cells : Stays(x, k)} = staying
    BY DEF Stays
  <2> HIDE DEF desired, upper, staying, c
  <2>3. \A level : Bounded(level, i, desired) = [level EXCEPT !.min = desired, !.max = upper]
    BY <2>1 DEF Bounded
  <2>4. r = [t EXCEPT !.levels = [emptied EXCEPT ![i] = Bounded(@, i, desired)],
                      !.prev_level_max_allowed_key = upper,
                      !.removed = @ \o gone,
                      !.changed = desired # t.levels[i].min]
    BY <1>1, <2>1, <2>2 DEF IncreaseLevel
  <2>5. [emptied EXCEPT ![i] = Bounded(@, i, desired)] = new
    BY <2>3
  <2> HIDE DEF emptied, gone, new, r, moved
  <2> QED
    BY <1>1, <2>4, <2>5
<1>5. /\ moved \in Seq(Cells) /\ IsInjective(moved) /\ ToSet(moved) \subseteq Inside(c, old)
      /\ Linked(c, emptied) /\ Filed(c, emptied, elt)
      /\ SameBounds(c, old, emptied)
      /\ Inside(c, emptied) = Inside(c, old) \ {x \in ToSet(moved) : elt[x].key < k}
      /\ \A s \in SlotsOf(c, i) : \A x \in In(emptied, i, s) :
            desired <= elt[x].key /\ desired <= Floor(c, i, elt[x].key)
  BY EmptiedFacts, ZenonT(60)
<1>6. /\ gone \in Seq(Cells) /\ IsInjective(gone)
      /\ ToSet(gone) = {x \in ToSet(moved) : elt[x].key < k}
  <2>1. gone \in Seq(Cells) /\ IsInjective(gone) /\ ToSet(gone) = ToSet(moved) \cap (Cells \ staying)
    BY <1>5, OnlyFacts
  <2>2. \A x \in ToSet(moved) : x \in Cells /\ (x \notin staying <=> elt[x].key < k)
    <3>1. \A x \in ToSet(moved) : x \in Cells
      BY <1>5 DEF Inside
    <3>2. \A x \in Cells : elt[x].key \in Nat /\ k \in Nat
      BY <1>1, TimesType DEF Keys
    <3> QED
      BY <3>1, <3>2
  <2> HIDE DEF gone, staying, moved
  <2> QED
    BY <2>1, <2>2
<1> HIDE DEF desired, upper, moved, emptied, gone, new, r, c, n
<1>7. /\ Shaped(c, emptied) /\ Apart(c, emptied)
      /\ emptied = [j \in Indices(c) |-> emptied[j]]
      /\ \A j \in Indices(c) : emptied[j] \in LevelOf(c, j)
      /\ \A j \in Indices(c) : emptied[j].min = old[j].min /\ emptied[j].max = old[j].max
  BY <1>5 DEF Linked, Shaped, SameBounds
<1>8. upper \in Times /\ desired <= upper /\ old[i].max <= upper /\ old[i].min <= desired
  <2>1. /\ old[i].min = levels[i].min /\ old[i].max = levels[i].max
        /\ levels[i].min \in Times
    BY <1>1, <1>2, WheelFacts DEF c
  <2>2. levels[i].max = Upper(c, i, levels[i].min)
    BY <1>2 DEF Wheel, Chained, Bounds, c, n
  <2>3. levels[i].min \in Times /\ desired \in Times /\ levels[i].min <= desired
    BY <1>3, <2>1
  <2>4. /\ Upper(c, i, desired) \in Times /\ desired <= Upper(c, i, desired)
        /\ Upper(c, i, levels[i].min) <= Upper(c, i, desired)
    BY <1>2, <2>3, UpperFacts
  <2> QED
    BY <2>1, <2>2, <2>3, <2>4 DEF upper
<1>9. /\ new = [j \in Indices(c) |-> new[j]]
      /\ new[i] \in LevelOf(c, i) /\ new[i].min = desired /\ new[i].max = upper
      /\ new[i].slots = emptied[i].slots
      /\ \A j \in Indices(c) : j # i => new[j] = emptied[j]
  <2>1. new = [emptied EXCEPT ![i] = [emptied[i] EXCEPT !.min = desired, !.max = upper]]
    BY DEF new
  <2>2. new[i] = [emptied[i] EXCEPT !.min = desired, !.max = upper]
    BY <1>2, <1>7, <2>1
  <2>3. emptied[i] \in LevelOf(c, i)
    BY <1>2, <1>7
  <2>4. /\ new[i] \in LevelOf(c, i) /\ new[i].min = desired /\ new[i].max = upper
        /\ new[i].slots = emptied[i].slots
    BY <1>3, <1>8, <2>2, <2>3 DEF LevelOf
  <2>5. new = [j \in Indices(c) |-> new[j]] /\ \A j \in Indices(c) : j # i => new[j] = emptied[j]
    BY <1>2, <1>7, <2>1
  <2> QED
    BY <2>4, <2>5
<1>10. \A j \in Indices(c) : \A s \in SlotsOf(c, j) : In(new, j, s) = In(emptied, j, s)
                                                     /\ new[j].slots[s] = emptied[j].slots[s]
  BY <1>9 DEF In
<1>11. Linked(c, new) /\ Inside(c, new) = Inside(c, emptied)
  <2>1. Shaped(c, new)
    BY <1>7, <1>9 DEF Shaped
  <2>2. Apart(c, new)
    <3>1. \A j \in Indices(c) : \A s \in SlotsOf(c, j) : IsInjective(new[j].slots[s])
      <4> SUFFICES ASSUME NEW j \in Indices(c), NEW s \in SlotsOf(c, j)
                   PROVE  IsInjective(new[j].slots[s])
        OBVIOUS
      <4>1. new[j].slots[s] = emptied[j].slots[s]
        BY <1>10
      <4> QED
        BY <1>7, <4>1 DEF Apart
    <3>2. \A j, h \in Indices(c) : \A s \in SlotsOf(c, j), u \in SlotsOf(c, h) : \A x \in Cells :
             x \in In(new, j, s) /\ x \in In(new, h, u) => j = h /\ s = u
      <4> SUFFICES ASSUME NEW j \in Indices(c), NEW h \in Indices(c), NEW s \in SlotsOf(c, j),
                          NEW u \in SlotsOf(c, h), NEW x \in Cells,
                          x \in In(new, j, s), x \in In(new, h, u)
                   PROVE  j = h /\ s = u
        OBVIOUS
      <4>1. x \in In(emptied, j, s) /\ x \in In(emptied, h, u)
        BY <1>10
      <4> QED
        BY <1>7, <4>1 DEF Apart
    <3> QED
      BY <3>1, <3>2 DEF Apart
  <2>3. Inside(c, new) = Inside(c, emptied)
    BY <1>10 DEF Inside
  <2> QED
    BY <2>1, <2>2, <2>3 DEF Linked
<1>12. Filed(c, new, elt)
  <2> SUFFICES ASSUME NEW j \in Indices(c), NEW s \in SlotsOf(c, j), NEW x \in In(new, j, s)
               PROVE  /\ SlotOf(c, j, elt[x].key) = s
                      /\ new[j].min <= elt[x].key /\ elt[x].key <= new[j].max
                      /\ new[j].min <= Floor(c, j, elt[x].key)
    BY DEF Filed
  <2>1. /\ x \in In(emptied, j, s) /\ SlotOf(c, j, elt[x].key) = s
        /\ emptied[j].min <= elt[x].key /\ elt[x].key <= emptied[j].max
        /\ emptied[j].min <= Floor(c, j, elt[x].key)
    BY <1>5, <1>10 DEF Filed
  <2>2. CASE j # i
    BY <1>9, <2>1, <2>2
  <2>3. CASE j = i
    <3>1. /\ desired <= elt[x].key /\ elt[x].key <= old[i].max
          /\ desired <= Floor(c, i, elt[x].key)
      BY <1>2, <1>5, <1>7, <2>1, <2>3
    <3>2. elt[x].key \in Nat /\ old[i].max \in Nat /\ upper \in Nat
      <4>1. x \in Cells
        BY <1>2, <1>7, <2>1, ShapedFacts
      <4>2. old[i].max \in Times /\ elt[x].key \in Times
        BY <1>1, <1>2, <4>1, ShapedFacts DEF Keys
      <4> QED
        BY <1>8, <4>2, TimesType
    <3> QED
      BY <1>8, <1>9, <2>1, <2>3, <3>1, <3>2
  <2> QED
    BY <2>2, <2>3
<1>13. /\ t.removed \o gone \in Seq(Cells) /\ IsInjective(t.removed \o gone)
       /\ ToSet(t.removed \o gone) = ToSet(t.removed) \cup {x \in ToSet(moved) : elt[x].key < k}
  <2>1. ToSet(t.removed) \cap ToSet(gone) = {}
    BY <1>1, <1>5, <1>6
  <2> QED
    BY <1>1, <1>6, <2>1, ConcatFacts
<1>14. /\ \A x \in ToSet(t.removed \o gone) : elt[x].key < k
       /\ ToSet(t.removed \o gone) \subseteq Inside(c, levels)
       /\ Inside(c, new) = Inside(c, levels) \ ToSet(t.removed \o gone)
  BY <1>1, <1>5, <1>11, <1>13
<1>15. \A j \in Indices(c) : levels[j].min <= new[j].min /\ levels[j].max <= new[j].max
  <2> SUFFICES ASSUME NEW j \in Indices(c)
               PROVE  levels[j].min <= new[j].min /\ levels[j].max <= new[j].max
    OBVIOUS
  <2>1. CASE j # i
    BY <1>1, <1>7, <1>9, <2>1
  <2>2. CASE j = i
    <3>1. i > i - 1
      BY <1>2
    <3>2. levels[i].min = old[i].min /\ levels[i].max = old[i].max
      BY <1>1, <1>2, <3>1
    <3> QED
      BY <1>8, <1>9, <2>2, <3>2
  <2> QED
    BY <2>1, <2>2
<1>16. Chained(c, new, k, i)
  <2> SUFFICES ASSUME NEW j \in 1 .. i
               PROVE  Bounds(c, new, j, k)
    BY DEF Chained
  <2>1. j \in Indices(c) /\ (j # 1 => j - 1 \in Indices(c) /\ j - 1 # i)
    BY <1>2
  <2>2. Prev(new, j, k) = Prev(old, j, k)
    BY <1>7, <1>9, <2>1 DEF Prev
  <2>3. CASE j # i
    <3>1. j \in 1 .. i - 1
      BY <1>2, <2>3
    <3>2. Bounds(c, old, j, k)
      BY <1>1, <3>1 DEF Chained
    <3> QED
      BY <1>7, <1>9, <2>1, <2>2, <2>3, <3>2 DEF Bounds
  <2>4. CASE j = i
    BY <1>3, <1>9, <2>2, <2>4 DEF Bounds, desired, upper
  <2> QED
    BY <2>3, <2>4
<1>17. /\ upper = Prev(new, i + 1, k)
       /\ \A j \in Indices(c) : j > i => new[j].min = levels[j].min /\ new[j].max = levels[j].max
  <2>1. i + 1 # 1 /\ (i + 1) - 1 = i
    BY <1>2
  <2>2. upper = Prev(new, i + 1, k)
    BY <1>9, <2>1 DEF Prev
  <2>3. ASSUME NEW j \in Indices(c), j > i
        PROVE  new[j].min = levels[j].min /\ new[j].max = levels[j].max
    <3>1. j # i /\ j > i - 1
      BY <1>2, <2>3
    <3> QED
      BY <1>1, <1>7, <1>9, <3>1
  <2> QED
    BY <2>2, <2>3
<1>18. ASSUME desired = old[i].min
       PROVE  Chained(c, new, k, n) /\ new[n].max = levels[n].max
  <2>0. /\ Chained(c, levels, k0, n)
        /\ \A j \in Indices(c) : Bounds(c, levels, j, k0)
    BY <1>2 DEF Wheel, Chained, c, n
  <2>1. new[i].min = levels[i].min /\ new[i].max = levels[i].max
    <3>1. i > i - 1
      BY <1>2
    <3>2. levels[i].min = old[i].min /\ levels[i].max = Upper(c, i, levels[i].min)
      BY <1>1, <1>2, <2>0, <3>1 DEF Bounds
    <3> QED
      BY <1>9, <1>18, <3>2 DEF upper
  <2>2. ASSUME NEW j \in 1 .. n
        PROVE  Bounds(c, new, j, k)
    <3>1. CASE j <= i
      <4>1. j \in 1 .. i
        BY <1>2, <3>1
      <4> QED
        BY <1>16, <4>1 DEF Chained
    <3>2. CASE j > i
      <4>1. j \in Indices(c) /\ j # 1 /\ j - 1 \in Indices(c) /\ (j - 1 = i \/ j - 1 > i)
        BY <1>2, <3>2
      <4>2. new[j - 1].max = levels[j - 1].max
        BY <1>17, <2>1, <4>1
      <4>3. Prev(new, j, k) = Prev(levels, j, k0)
        BY <4>1, <4>2 DEF Prev
      <4> QED
        BY <1>17, <2>0, <3>2, <4>1, <4>3 DEF Bounds
    <3> QED
      BY <1>2, <3>1, <3>2
  <2>3. new[n].max = levels[n].max
    <3>1. n \in Indices(c) /\ (n = i \/ n > i)
      BY <1>2
    <3> QED
      BY <1>17, <2>1, <3>1
  <2> QED
    BY <2>2, <2>3 DEF Chained
<1>19. /\ r.levels = new /\ r.lower_bound = lower_bound /\ r.prev_level_max_allowed_key = upper
       /\ r.removed = t.removed \o gone /\ r.changed = (desired # old[i].min)
       /\ r = [levels |-> r.levels, lower_bound |-> r.lower_bound,
               prev_level_max_allowed_key |-> r.prev_level_max_allowed_key,
               removed |-> r.removed, changed |-> r.changed]
  BY <1>4
<1>20. Raised(r, i, k, lower_bound)
  <2>1. IF r.changed
        THEN /\ r.prev_level_max_allowed_key = Prev(r.levels, i + 1, k)
             /\ \A j \in Indices(c) : j > i => /\ r.levels[j].min = levels[j].min
                                               /\ r.levels[j].max = levels[j].max
        ELSE Chained(c, r.levels, k, n) /\ r.levels[n].max = levels[n].max
    BY <1>17, <1>18, <1>19
  <2> QED
    BY <1>11, <1>12, <1>13, <1>14, <1>15, <1>16, <1>19, <2>1 DEF Raised, c, n
<1> QED
  BY <1>20 DEF r

(* The function that IncreaseMinAllowedKey defines. *)
Increases(f, k, lower_bound) ==
  /\ IncreaseMinAllowedKey(k, lower_bound) = f[Len(levels)]
  /\ f[0] = [levels |-> levels, lower_bound |-> lower_bound,
             prev_level_max_allowed_key |-> k - 1, removed |-> <<>>, changed |-> TRUE]
  /\ \A i \in 1 .. Len(levels) :
        f[i] = IF f[i - 1].changed THEN IncreaseLevel(f[i - 1], i, k) ELSE f[i - 1]

LEMMA IncreaseUnfolds ==
  ASSUME Len(levels) \in Nat, NEW k, NEW lower_bound
  PROVE  \E f : Increases(f, k, lower_bound)
<1> DEFINE n == Len(levels)
           none == [levels |-> levels, lower_bound |-> lower_bound,
                    prev_level_max_allowed_key |-> k - 1, removed |-> <<>>, changed |-> TRUE]
           Step(f, m) == IF f[m - 1].changed THEN IncreaseLevel(f[m - 1], m, k) ELSE f[m - 1]
           Unfolded(f) == f = [m \in 0 .. n |->
               IF m = 0 THEN none
               ELSE IF f[m - 1].changed THEN IncreaseLevel(f[m - 1], m, k) ELSE f[m - 1]]
           Upto(f, h) == f = [m \in 0 .. h |-> f[m]] /\ f[0] = none /\ \A m \in 1 .. h : f[m] = Step(f, m)
           S == {h \in Nat : \E f : Upto(f, h)}
<1>1. n \in Nat
  OBVIOUS
<1> HIDE DEF none
<1>2. 0 \in S
  <2>1. Upto([m \in 0 .. 0 |-> none], 0)
    OBVIOUS
  <2> HIDE DEF Upto
  <2> QED
    BY <2>1
<1>3. ASSUME NEW h \in 0 .. n - 1, h \in S
      PROVE  h + 1 \in S
  <2>1. h \in Nat /\ h + 1 \in Nat /\ (h + 1) - 1 = h
    BY <1>1
  <2>2. PICK f : Upto(f, h)
    BY <1>3
  <2> DEFINE g == [m \in 0 .. h + 1 |-> IF m = h + 1 THEN Step(f, h + 1) ELSE f[m]]
  <2>3. g[0] = none
    BY <2>1, <2>2
  <2>4. ASSUME NEW m \in 1 .. h + 1
        PROVE  g[m] = Step(g, m)
    <3>1. m - 1 \in 0 .. h + 1 /\ m - 1 # h + 1 /\ m \in 0 .. h + 1
      BY <2>1
    <3>2. g[m - 1] = f[m - 1]
      BY <3>1
    <3>3. CASE m = h + 1
      <4>1. g[m] = Step(f, m)
        BY <3>1, <3>3
      <4> HIDE DEF g
      <4> QED
        BY <3>2, <4>1
    <3>4. CASE m # h + 1
      <4>1. m \in 1 .. h
        BY <2>1, <3>4
      <4>2. f[m] = Step(f, m)
        BY <2>2, <4>1
      <4>3. g[m] = f[m]
        BY <3>1, <3>4
      <4> HIDE DEF g
      <4> QED
        BY <3>2, <4>2, <4>3
    <3> QED
      BY <3>3, <3>4
  <2>5. g = [m \in 0 .. h + 1 |-> g[m]]
    OBVIOUS
  <2> HIDE DEF g, Step
  <2>6. Upto(g, h + 1)
    BY <2>3, <2>4, <2>5
  <2> HIDE DEF Upto
  <2> QED
    BY <2>1, <2>6
<1>4. n \in S
  <2>1. \A h \in 0 .. n : h \in S
    <3> HIDE DEF S, n
    <3> QED
      BY <1>1, <1>2, <1>3, BoundedInduction
  <2> HIDE DEF S, n
  <2> QED
    BY <1>1, <2>1
<1>5. PICK f : Upto(f, n)
  BY <1>4
<1>6. Unfolded(f)
  <2> HIDE DEF n
  <2>1. \A m \in 0 .. n : f[m] = IF m = 0 THEN none ELSE Step(f, m)
    <3> HIDE DEF Step
    <3> SUFFICES ASSUME NEW m \in 0 .. n, m # 0
                 PROVE  f[m] = Step(f, m)
      BY <1>5
    <3>1. m \in 1 .. n
      BY <1>1
    <3> QED
      BY <1>5, <3>1
  <2>2. f = [m \in 0 .. n |-> f[m]]
    BY <1>5
  <2>3. f = [m \in 0 .. n |-> IF m = 0 THEN none ELSE Step(f, m)]
    <3> HIDE DEF Step
    <3> QED
      BY <2>1, <2>2
  <2> QED
    BY <2>3
<1> DEFINE increased == CHOOSE g : Unfolded(g)
<1>7. Unfolded(increased)
  <2> HIDE DEF Unfolded
  <2> QED
    BY <1>6
<1>8. IncreaseMinAllowedKey(k, lower_bound) = increased[n]
  BY DEF IncreaseMinAllowedKey, none
<1> HIDE DEF increased
<1>9. increased[0] = none /\ \A m \in 1 .. n : increased[m] = Step(increased, m)
  <2>1. increased = [m \in 0 .. n |-> IF m = 0 THEN none ELSE Step(increased, m)]
    BY <1>7
  <2> HIDE DEF Step, n
  <2>2. \A m \in 0 .. n : increased[m] = IF m = 0 THEN none ELSE Step(increased, m)
    BY <2>1, Zenon
  <2> QED
    BY <1>1, <2>2
<1> QED
  BY <1>8, <1>9 DEF Increases, none

LEMMA IncreaseFacts ==
  ASSUME config \in Configs, NEW k0, Wheel(config, levels, elt, k0),
         NEW k \in Times, k0 < k, NEW lower_bound \in Times,
         \A x \in Inside(config, levels) : lower_bound <= elt[x].key
  PROVE  Raised(IncreaseMinAllowedKey(k, lower_bound), Len(config.level_bits), k, lower_bound)
<1> DEFINE n == Len(config.level_bits)
<1>1. n \in Nat \ {0} /\ Len(levels) = n /\ Indices(config) = 1 .. n
  <2>1. Shaped(config, levels)
    BY DEF Wheel, Linked
  <2> QED
    BY <2>1, Geometry, ShapedFacts DEF Indices
<1>2. PICK f : Increases(f, k, lower_bound)
  BY <1>1, IncreaseUnfolds
<1> HIDE DEF n
<1>3. /\ IncreaseMinAllowedKey(k, lower_bound) = f[n]
      /\ f[0] = [levels |-> levels, lower_bound |-> lower_bound,
                 prev_level_max_allowed_key |-> k - 1, removed |-> <<>>, changed |-> TRUE]
      /\ \A i \in 1 .. n : f[i] = IF f[i - 1].changed THEN IncreaseLevel(f[i - 1], i, k) ELSE f[i - 1]
  BY <1>1, <1>2 DEF Increases
<1> DEFINE T == {m \in Nat : Raised(f[m], m, k, lower_bound)}
<1>4. 0 \in T
  <2>1. ToSet(<<>>) = {} /\ IsInjective(<<>>) /\ <<>> \in Seq(Cells)
    BY DEF ToSet, IsInjective
  <2>2. Prev(levels, 0 + 1, k) = k - 1
    BY DEF Prev
  <2>3. Chained(config, levels, k, 0)
    BY DEF Chained
  <2>4. \A j \in Indices(config) : levels[j].min \in Nat /\ levels[j].max \in Nat
    BY WheelFacts, TimesType
  <2>5. \A j \in Indices(config) : levels[j].min <= levels[j].min /\ levels[j].max <= levels[j].max
    BY <2>4
  <2>6. Raised(f[0], 0, k, lower_bound)
    BY <1>3, <2>1, <2>2, <2>3, <2>5 DEF Raised, Wheel
  <2> QED
    BY <2>6
<1>5. ASSUME NEW m \in 0 .. n - 1, m \in T
      PROVE  m + 1 \in T
  <2>1. m \in Nat /\ m + 1 \in 1 .. n /\ (m + 1) - 1 = m /\ m + 1 \in Indices(config)
    BY <1>1
  <2>2. Raised(f[m], m, k, lower_bound)
    BY <1>5
  <2>3. f[m + 1] = IF f[m].changed THEN IncreaseLevel(f[m], m + 1, k) ELSE f[m]
    BY <1>3, <2>1
  <2>4. CASE f[m].changed
    <3>1. Raised(f[m], (m + 1) - 1, k, lower_bound)
      BY <2>1, <2>2
    <3>2. Raised(IncreaseLevel(f[m], m + 1, k), m + 1, k, lower_bound)
      BY <2>1, <2>4, <3>1, IncreaseLevelFacts
    <3> QED
      BY <2>1, <2>3, <2>4, <3>2
  <2>5. CASE ~ f[m].changed
    <3>1. Chained(config, f[m].levels, k, m + 1)
      <4>1. Chained(config, f[m].levels, k, n)
        BY <2>2, <2>5 DEF Raised, n
      <4>2. \A j \in 1 .. m + 1 : j \in 1 .. n
        BY <1>1, <2>1
      <4> QED
        BY <4>1, <4>2 DEF Chained
    <3>2. Raised(f[m], m + 1, k, lower_bound)
      BY <2>2, <2>5, <3>1 DEF Raised
    <3> QED
      BY <2>1, <2>3, <2>5, <3>2
  <2> QED
    BY <2>4, <2>5
<1>6. n \in T
  <2>1. \A m \in 0 .. n : m \in T
    <3> HIDE DEF T
    <3> QED
      BY <1>1, <1>4, <1>5, BoundedInduction
  <2> HIDE DEF T
  <2> QED
    BY <1>1, <2>1
<1> QED
  BY <1>3, <1>6 DEF n

(* What advancing to key k does to the wheel. *)
LEMMA AdvancedFacts ==
  ASSUME config \in Configs, NEW k0, Wheel(config, levels, elt, k0),
         NEW k \in Times, k0 < k, NEW lower_bound \in Times,
         \A x \in Inside(config, levels) : lower_bound <= elt[x].key,
         NEW t, t = IncreaseMinAllowedKey(k, lower_bound)
  PROVE  /\ Wheel(config, t.levels, elt, k)
         /\ t.removed \in Seq(Cells) /\ IsInjective(t.removed)
         /\ ToSet(t.removed) = {x \in Inside(config, levels) : elt[x].key < k}
         /\ Inside(config, t.levels) = {x \in Inside(config, levels) : k <= elt[x].key}
         /\ levels[Len(config.level_bits)].max <= t.levels[Len(config.level_bits)].max
         /\ t.changed \/ t.levels[Len(config.level_bits)].max = levels[Len(config.level_bits)].max
<1> DEFINE c == config
           n == Len(c.level_bits)
<1>1. Raised(t, n, k, lower_bound)
  BY IncreaseFacts
<1>2. Keys(elt) /\ n \in Indices(c)
  BY Geometry DEF Wheel, Indices
<1>3. Wheel(c, t.levels, elt, k)
  BY <1>1, <1>2 DEF Raised, Wheel
<1>4. \A x \in Inside(c, t.levels) : k <= elt[x].key
  BY <1>3, WheelFacts
<1>5. \A x \in Inside(c, levels) : elt[x].key \in Nat /\ k \in Nat
  BY WheelFacts, TimesType
<1>6. /\ t.removed \in Seq(Cells) /\ IsInjective(t.removed)
      /\ \A x \in ToSet(t.removed) : elt[x].key < k
      /\ ToSet(t.removed) \subseteq Inside(c, levels)
      /\ Inside(c, t.levels) = Inside(c, levels) \ ToSet(t.removed)
      /\ levels[n].max <= t.levels[n].max
      /\ t.changed \/ t.levels[n].max = levels[n].max
  BY <1>1, <1>2 DEF Raised
<1>7. \A x \in Inside(c, levels) : x \in ToSet(t.removed) <=> ~ (k <= elt[x].key)
  <2> SUFFICES ASSUME NEW x \in Inside(c, levels)
               PROVE  x \in ToSet(t.removed) <=> ~ (k <= elt[x].key)
    OBVIOUS
  <2>1. x \in ToSet(t.removed) => ~ (k <= elt[x].key)
    BY <1>5, <1>6
  <2>2. x \notin ToSet(t.removed) => k <= elt[x].key
    BY <1>4, <1>6
  <2> QED
    BY <2>1, <2>2
<1>8. \A x \in Inside(c, levels) : elt[x].key < k <=> ~ (k <= elt[x].key)
  BY <1>5
<1> QED
  BY <1>3, <1>6, <1>7, <1>8

-----------------------------------------------------------------------------
(***************************************************************************)
(* The inductive invariant.                                                *)
(***************************************************************************)
LastMax(c, ls) == ls[Len(c.level_bits)].max

(* The wheel begins at the interval of now and holds each element where its *)
(* key says; nothing has a key below the lower bound, which the keys that  *)
(* are allowed include; a cached minimum is an element of the wheel, with  *)
(* the lower bound as its key.                                             *)
WheelInv ==
  /\ config \in Configs
  /\ now \in Times /\ elt_key_lower_bound \in Times
  /\ elt \in [Cells -> [key : Times, at : Times]]
  /\ Wheel(config, levels, elt, Interval(config, now))
  /\ \A x \in Inside(config, levels) : /\ elt[x].key = Interval(config, elt[x].at)
                                       /\ elt_key_lower_bound <= elt[x].key
  /\ Interval(config, now) <= elt_key_lower_bound
  /\ elt_key_lower_bound <= LastMax(config, levels)
  /\ \/ min_elt = Null
     \/ \E x \in Inside(config, levels) : min_elt = Pointer(x) /\ elt[x].key = elt_key_lower_bound
  /\ max_allowed_alarm_time = LatestTime(config, LastMax(config, levels))

(* The cells that are not in the wheel are free. *)
PoolInv ==
  free \in Seq(Cells) /\ IsInjective(free) /\ ToSet(free) = Cells \ Inside(config, levels)

IInv == WheelInv /\ PoolInv

(* A wheel depends only on the keys of its elements. *)
LEMMA WheelOther ==
  ASSUME NEW c \in Configs, NEW ls, NEW e, NEW k, Wheel(c, ls, e, k),
         NEW f, Keys(f), \A x \in Inside(c, ls) : f[x].key = e[x].key
  PROVE  Wheel(c, ls, f, k)
<1>1. Filed(c, ls, f)
  <2>1. \A i \in Indices(c) : \A s \in SlotsOf(c, i) : \A x \in In(ls, i, s) : x \in Inside(c, ls)
    BY ShapedFacts DEF Inside, Wheel, Linked
  <2>2. Filed(c, ls, e)
    BY DEF Wheel
  <2> QED
    BY <2>1, <2>2 DEF Filed
<1> QED
  BY <1>1 DEF Wheel

LEMMA WheelUnlinked ==
  ASSUME NEW c \in Configs, NEW ls, NEW e, NEW k, Wheel(c, ls, e, k), NEW cs
  PROVE  /\ Wheel(c, Unlinked(ls, cs), e, k) /\ Inside(c, Unlinked(ls, cs)) = Inside(c, ls) \ cs
         /\ LastMax(c, Unlinked(ls, cs)) = LastMax(c, ls)
<1> DEFINE n == Len(c.level_bits)
<1>1. Linked(c, ls) /\ Filed(c, ls, e) /\ Chained(c, ls, k, n) /\ n \in 0 .. n /\ n \in Indices(c)
  BY Geometry DEF Wheel, Indices
<1>2. /\ Linked(c, Unlinked(ls, cs)) /\ SameBounds(c, ls, Unlinked(ls, cs))
      /\ Inside(c, Unlinked(ls, cs)) = Inside(c, ls) \ cs
      /\ Filed(c, Unlinked(ls, cs), e)
  BY <1>1, UnlinkedFacts, UnlinkedFiled
<1>3. Chained(c, Unlinked(ls, cs), k, n)
  BY <1>1, <1>2, SameBoundsChained
<1>4. LastMax(c, Unlinked(ls, cs)) = LastMax(c, ls)
  BY <1>1, <1>2 DEF SameBounds, LastMax
<1> QED
  BY <1>2, <1>3, <1>4 DEF Wheel

LEMMA WheelAdded ==
  ASSUME config \in Configs, NEW ls, NEW e, NEW k, Wheel(config, ls, e, k),
         NEW x \in Cells \ Inside(config, ls), k <= e[x].key, e[x].key <= LastMax(config, ls)
  PROVE  /\ Wheel(config, AddElt(ls, x, e[x].key), e, k)
         /\ Inside(config, AddElt(ls, x, e[x].key)) = Inside(config, ls) \cup {x}
         /\ LastMax(config, AddElt(ls, x, e[x].key)) = LastMax(config, ls)
<1> DEFINE n == Len(config.level_bits)
           new == AddElt(ls, x, e[x].key)
<1>1. n \in 0 .. n /\ n \in Indices(config)
  BY Geometry DEF Indices
<1>2. /\ Linked(config, ls) /\ Keys(e) /\ Filed(config, ls, e) /\ k \in Times
      /\ Chained(config, ls, k, n) /\ e[x].key <= ls[n].max
  BY DEF Wheel, LastMax
<1> HIDE DEF n
<1>3. /\ Linked(config, new) /\ SameBounds(config, ls, new)
      /\ Inside(config, new) = Inside(config, ls) \cup {x} /\ Filed(config, new, e)
  BY <1>1, <1>2, AddEltFiled
<1>4. Chained(config, new, k, n)
  BY <1>1, <1>2, <1>3, SameBoundsChained DEF n
<1>5. LastMax(config, new) = LastMax(config, ls)
  BY <1>1, <1>3 DEF SameBounds, LastMax, n
<1> QED
  BY <1>2, <1>3, <1>4, <1>5 DEF Wheel, n

(* The names of the model, in a state with the invariant. *)
LEMMA ReadState ==
  ASSUME IInv
  PROVE  /\ Members = Inside(config, levels) /\ Members \subseteq Cells
         /\ min_allowed_key = Interval(config, now)
         /\ max_allowed_key = LastMax(config, levels)
         /\ LastMax(config, levels) \in Times /\ min_allowed_key <= max_allowed_key
         /\ \A t : interval_num(t) = Interval(config, t)
         /\ Keys(elt)
         /\ \A x \in Members : elt[x] \in [key : Times, at : Times]
<1>1. config \in Configs /\ Wheel(config, levels, elt, Interval(config, now))
  BY DEF IInv, WheelInv
<1>2. Shaped(config, levels)
  BY <1>1 DEF Wheel, Linked
<1>3. Members = Inside(config, levels) /\ Members \subseteq Cells
  BY <1>1, <1>2, MembersInside DEF Members, Inside
<1>4. min_allowed_key = Interval(config, now)
  BY <1>1, WheelFacts DEF min_allowed_key
<1> DEFINE n == Len(config.level_bits)
<1>5. max_allowed_key = LastMax(config, levels) /\ n \in Indices(config)
  BY <1>1, <1>2, ShapedFacts, Geometry DEF max_allowed_key, LastMax, Indices
<1>6. LastMax(config, levels) \in Times
  BY <1>1, <1>2, <1>5, ShapedFacts DEF LastMax
<1>7. min_allowed_key <= max_allowed_key
  <2>1. /\ Interval(config, now) <= levels[n].min /\ levels[n].min <= levels[n].max
        /\ levels[n].min \in Times /\ levels[n].max \in Times /\ Interval(config, now) \in Times
    BY <1>1, <1>5, WheelFacts DEF Wheel
  <2>2. /\ levels[n].min \in Nat /\ levels[n].max \in Nat /\ Interval(config, now) \in Nat
    BY <2>1, TimesType
  <2>3. Interval(config, now) <= levels[n].max
    BY <2>1, <2>2
  <2> QED
    BY <1>4, <1>5, <2>3 DEF LastMax
<1>8. \A t : interval_num(t) = Interval(config, t)
  BY <1>1, ReadConfig
<1>9. Keys(elt) /\ \A x \in Members : elt[x] \in [key : Times, at : Times]
  BY <1>1, <1>3 DEF Wheel, IInv, WheelInv
<1> QED
  BY <1>3, <1>4, <1>5, <1>6, <1>7, <1>8, <1>9

LEMMA PointerFacts ==
  /\ \A x : Pointer(x) # Null /\ Pointer(x).valid /\ Pointer(x).cell = x /\ ~ Null.valid
  /\ \A x, y : Pointer(x) = Pointer(y) => x = y
<1>1. \A x : Pointer(x).valid /\ Pointer(x).cell = x /\ ~ Null.valid
  BY DEF Pointer, Null
<1>2. \A x : Pointer(x) # Null
  BY <1>1
<1>3. \A x, y : Pointer(x) = Pointer(y) => x = y
  <2> SUFFICES ASSUME NEW x, NEW y, Pointer(x) = Pointer(y)
               PROVE  x = y
    OBVIOUS
  <2>1. Pointer(x).cell = Pointer(y).cell
    OBVIOUS
  <2> QED
    BY <1>1, <2>1
<1> QED
  BY <1>1, <1>2, <1>3

(* Cells that leave the wheel go to the free list, and lose their contents. *)
LEMMA FreedFacts ==
  ASSUME IInv, NEW cs \in Seq(Cells), IsInjective(cs), ToSet(cs) \subseteq Inside(config, levels),
         NEW inside, inside = Inside(config, levels) \ ToSet(cs), Freed(cs)
  PROVE  /\ free' \in Seq(Cells) /\ IsInjective(free') /\ ToSet(free') = Cells \ inside
         /\ elt' \in [Cells -> [key : Times, at : Times]] /\ Keys(elt')
         /\ \A x \in inside : elt'[x] = elt[x]
<1>1. /\ free \in Seq(Cells) /\ IsInjective(free) /\ ToSet(free) = Cells \ Inside(config, levels)
      /\ elt \in [Cells -> [key : Times, at : Times]]
      /\ Inside(config, levels) \subseteq Cells
  BY DEF IInv, WheelInv, PoolInv, Inside
<1>2. free' = Reverse(cs) \o free /\ elt' = Contents(elt, free', min_elt')
  BY DEF Freed
<1>3. Reverse(cs) \in Seq(Cells) /\ IsInjective(Reverse(cs)) /\ ToSet(Reverse(cs)) = ToSet(cs)
  BY ReverseFacts
<1>4. ToSet(cs) \cap ToSet(free) = {}
  BY <1>1
<1>5. free' \in Seq(Cells) /\ IsInjective(free') /\ ToSet(free') = ToSet(cs) \cup ToSet(free)
  BY <1>1, <1>2, <1>3, <1>4, ConcatFacts
<1>6. ToSet(free') = Cells \ inside
  BY <1>1, <1>5
<1>7. elt' = [x \in Cells |-> IF x \in ToSet(free') /\ x # min_elt'.cell THEN Blank ELSE elt[x]]
  BY <1>2 DEF Contents
<1>8. Blank \in [key : Times, at : Times]
  BY TimesType DEF Blank
<1>9. elt' \in [Cells -> [key : Times, at : Times]]
  BY <1>1, <1>7, <1>8
<1>10. \A x \in inside : elt'[x] = elt[x]
  BY <1>1, <1>6, <1>7
<1>11. Keys(elt')
  BY <1>9 DEF Keys
<1> QED
  BY <1>5, <1>6, <1>9, <1>10, <1>11

(* The times an alarm can be set to. *)
LEMMA CanScheduleFacts ==
  ASSUME IInv, NEW time \in Times, CanSchedule(time)
  PROVE  /\ New(time) = [key |-> Interval(config, time), at |-> time]
         /\ New(time) \in [key : Times, at : Times]
         /\ Interval(config, now) <= Interval(config, time)
         /\ Interval(config, time) <= LastMax(config, levels)
<1>1. /\ config \in Configs /\ now \in Times
      /\ max_allowed_alarm_time = LatestTime(config, LastMax(config, levels))
      /\ LastMax(config, levels) \in Times
  BY ReadState DEF IInv, WheelInv
<1>2. Interval(config, now) \in Nat /\ Interval(config, time) \in Times
  BY <1>1, IntervalFacts, TimesType
<1>3. interval_num(time) = Interval(config, time) /\ interval_num(now) = Interval(config, now)
  BY ReadState
<1>4. /\ Interval(config, now) * 2 ^ config.alarm_precision <= time
      /\ time <= LatestTime(config, LastMax(config, levels))
  BY <1>1, <1>3 DEF CanSchedule, interval_num_start
<1>5. Interval(config, now) <= Interval(config, time)
  BY <1>1, <1>2, <1>4, IntervalFacts
<1>6. Interval(config, time) <= LastMax(config, levels)
  BY <1>1, <1>4, LatestFacts
<1> QED
  BY <1>2, <1>3, <1>5, <1>6 DEF New

(* internal_add_elt: the wheel ls takes x, and min becomes the cached minimum. *)
LEMMA InternalAdded ==
  ASSUME IInv, NEW time \in Times, CanSchedule(time),
         NEW ls, Wheel(config, ls, elt, Interval(config, now)),
         Inside(config, ls) \subseteq Inside(config, levels),
         LastMax(config, ls) = LastMax(config, levels),
         NEW min, min = Null \/ \E y \in Inside(config, ls) : min = Pointer(y) /\ elt[y].key = elt_key_lower_bound,
         NEW x \in Cells \ Inside(config, ls),
         InternalAddElt(ls, min, x, New(time)), elt' = [elt EXCEPT ![x] = New(time)],
         UNCHANGED <<config, now, max_allowed_alarm_time>>
  PROVE  WheelInv' /\ Inside(config, levels') = Inside(config, ls) \cup {x}
<1> DEFINE c == config
           new == New(time)
           k == Interval(config, now)
           all == Inside(c, levels')
<1>1. /\ c \in Configs /\ now \in Times /\ elt_key_lower_bound \in Times
      /\ elt \in [Cells -> [key : Times, at : Times]]
      /\ k <= elt_key_lower_bound /\ elt_key_lower_bound <= LastMax(c, levels)
      /\ max_allowed_alarm_time = LatestTime(c, LastMax(c, levels))
      /\ \A y \in Inside(c, ls) : elt[y].key = Interval(c, elt[y].at) /\ elt_key_lower_bound <= elt[y].key
  BY DEF IInv, WheelInv
<1>2. /\ new = [key |-> Interval(c, time), at |-> time] /\ new \in [key : Times, at : Times]
      /\ k <= new.key /\ new.key <= LastMax(c, levels) /\ new.key \in Times
      /\ new.key = Interval(c, new.at)
  BY CanScheduleFacts
<1> HIDE DEF new
<1>3. /\ elt' \in [Cells -> [key : Times, at : Times]] /\ elt'[x] = new
      /\ \A y \in Cells : y # x => elt'[y] = elt[y]
  BY <1>1, <1>2 DEF new
<1>4. Keys(elt') /\ Inside(c, ls) \subseteq Cells /\ \A y \in Inside(c, ls) : y # x /\ elt'[y] = elt[y]
  BY <1>3 DEF Keys, Inside
<1>5. Wheel(c, ls, elt', k)
  <2> HIDE DEF k
  <2> QED
    BY <1>1, <1>4, WheelOther DEF k
<1>6. levels' = AddElt(ls, x, elt'[x].key)
  BY <1>3 DEF InternalAddElt, new
<1>7. /\ Wheel(c, levels', elt', k) /\ all = Inside(c, ls) \cup {x}
      /\ LastMax(c, levels') = LastMax(c, levels)
  <2> DEFINE e == elt'
  <2>1. /\ Wheel(c, ls, e, k) /\ k <= e[x].key /\ e[x].key <= LastMax(c, ls)
        /\ levels' = AddElt(ls, x, e[x].key)
    BY <1>2, <1>3, <1>5, <1>6
  <2> HIDE DEF e, k
  <2>2. /\ Wheel(config, AddElt(ls, x, e[x].key), e, k)
        /\ Inside(config, AddElt(ls, x, e[x].key)) = Inside(config, ls) \cup {x}
        /\ LastMax(config, AddElt(ls, x, e[x].key)) = LastMax(config, ls)
    BY <1>1, <2>1, WheelAdded
  <2> QED
    BY <2>1, <2>2 DEF e
<1>8. \A y \in all : elt'[y].key = Interval(c, elt'[y].at)
  BY <1>1, <1>2, <1>3, <1>4, <1>7
<1>9. k \in Nat /\ elt_key_lower_bound \in Nat /\ new.key \in Nat /\ LastMax(c, levels) \in Nat
      /\ \A y \in Inside(c, ls) : elt[y].key \in Nat
  BY <1>1, <1>2, <1>4, IntervalFacts, ReadState, TimesType
<1>10. CASE new.key < elt_key_lower_bound
  <2>1. min_elt' = Pointer(x) /\ elt_key_lower_bound' = new.key
    BY <1>10 DEF InternalAddElt, new
  <2>2. \A y \in all : elt_key_lower_bound' <= elt'[y].key
    <3> SUFFICES ASSUME NEW y \in Inside(c, ls)
                 PROVE  new.key <= elt'[y].key
      BY <1>2, <1>3, <1>7, <1>9, <2>1
    <3>1. elt'[y] = elt[y] /\ elt_key_lower_bound <= elt[y].key
      BY <1>1, <1>4
    <3> QED
      BY <1>9, <1>10, <3>1
  <2> QED
    BY <1>1, <1>2, <1>3, <1>7, <1>8, <2>1, <2>2 DEF WheelInv
<1>11. CASE ~ (new.key < elt_key_lower_bound)
  <2>1. min_elt' = min /\ elt_key_lower_bound' = elt_key_lower_bound
    BY <1>11 DEF InternalAddElt, new
  <2>2. \A y \in all : elt_key_lower_bound' <= elt'[y].key
    <3> SUFFICES ASSUME NEW y \in all
                 PROVE  elt_key_lower_bound <= elt'[y].key
      BY <2>1
    <3>1. CASE y = x
      BY <1>3, <1>9, <1>11, <3>1
    <3>2. CASE y \in Inside(c, ls)
      BY <1>1, <1>4, <3>2
    <3> QED
      BY <1>7, <3>1, <3>2
  <2>3. min_elt' = Null \/ \E y \in all : min_elt' = Pointer(y) /\ elt'[y].key = elt_key_lower_bound'
    BY <1>4, <1>7, <2>1
  <2> QED
    BY <1>1, <1>3, <1>7, <1>8, <2>1, <2>2, <2>3 DEF WheelInv
<1> QED
  BY <1>7, <1>10, <1>11

LEMMA AddInv ==
  ASSUME IInv, NEW time \in Times, Add(time)
  PROVE  IInv' /\ Inside(config, levels') = Inside(config, levels) \cup {Head(free)}
<1>1. /\ CanSchedule(time) /\ free # <<>>
      /\ InternalAddElt(levels, min_elt, Head(free), New(time))
      /\ elt' = [elt EXCEPT ![Head(free)] = New(time)] /\ free' = Tail(free)
      /\ UNCHANGED <<config, now, max_allowed_alarm_time>>
  BY DEF Add
<1>2. /\ free \in Seq(Cells) /\ IsInjective(free) /\ ToSet(free) = Cells \ Inside(config, levels)
      /\ Wheel(config, levels, elt, Interval(config, now))
      /\ \/ min_elt = Null
         \/ \E x \in Inside(config, levels) : min_elt = Pointer(x) /\ elt[x].key = elt_key_lower_bound
  BY DEF IInv, WheelInv, PoolInv
<1>3. /\ Tail(free) \in Seq(Cells) /\ IsInjective(Tail(free)) /\ Head(free) \in ToSet(free)
      /\ ToSet(Tail(free)) = ToSet(free) \ {Head(free)}
  BY <1>1, <1>2, TailFacts
<1>4. Head(free) \in Cells \ Inside(config, levels)
  BY <1>2, <1>3
<1>5. WheelInv' /\ Inside(config, levels') = Inside(config, levels) \cup {Head(free)}
  BY <1>1, <1>2, <1>4, InternalAdded
<1>6. PoolInv'
  BY <1>1, <1>2, <1>3, <1>5 DEF PoolInv
<1> QED
  BY <1>5, <1>6 DEF IInv

(* A removal from the wheel, and from the cache. *)
LEMMA UnlinkedInv ==
  ASSUME IInv, NEW cs
  PROVE  /\ Wheel(config, Unlinked(levels, cs), elt, Interval(config, now))
         /\ Inside(config, Unlinked(levels, cs)) = Inside(config, levels) \ cs
         /\ LastMax(config, Unlinked(levels, cs)) = LastMax(config, levels)
         /\ \/ MinEltWithout(cs) = Null
            \/ \E y \in Inside(config, levels) \ cs :
                  MinEltWithout(cs) = Pointer(y) /\ elt[y].key = elt_key_lower_bound
<1>1. /\ config \in Configs /\ Wheel(config, levels, elt, Interval(config, now))
      /\ \/ min_elt = Null
         \/ \E x \in Inside(config, levels) : min_elt = Pointer(x) /\ elt[x].key = elt_key_lower_bound
  BY DEF IInv, WheelInv
<1>2. /\ Wheel(config, Unlinked(levels, cs), elt, Interval(config, now))
      /\ Inside(config, Unlinked(levels, cs)) = Inside(config, levels) \ cs
      /\ LastMax(config, Unlinked(levels, cs)) = LastMax(config, levels)
  <2> DEFINE k == Interval(config, now)
  <2> HIDE DEF k
  <2> QED
    BY <1>1, WheelUnlinked DEF k
<1>3. \/ MinEltWithout(cs) = Null
      \/ \E y \in Inside(config, levels) \ cs :
            MinEltWithout(cs) = Pointer(y) /\ elt[y].key = elt_key_lower_bound
  <2>1. CASE \E x \in cs : min_elt = Pointer(x)
    BY <2>1 DEF MinEltWithout
  <2>2. CASE ~ \E x \in cs : min_elt = Pointer(x)
    BY <1>1, <2>2 DEF MinEltWithout
  <2> QED
    BY <2>1, <2>2
<1> QED
  BY <1>2, <1>3

LEMMA RescheduleInv ==
  ASSUME IInv, NEW time \in Times, NEW x \in Cells, Reschedule(x, time)
  PROVE  IInv' /\ Inside(config, levels') = Inside(config, levels)
<1>1. /\ x \in Inside(config, levels) /\ CanSchedule(time)
      /\ InternalAddElt(Unlinked(levels, {x}), MinEltWithout({x}), x, New(time))
      /\ elt' = [elt EXCEPT ![x] = New(time)]
      /\ UNCHANGED <<config, free, now, max_allowed_alarm_time>>
  BY ReadState DEF Reschedule
<1> DEFINE ls == Unlinked(levels, {x})
           min == MinEltWithout({x})
<1>2. /\ Wheel(config, ls, elt, Interval(config, now))
      /\ Inside(config, ls) = Inside(config, levels) \ {x}
      /\ LastMax(config, ls) = LastMax(config, levels)
      /\ \/ min = Null
         \/ \E y \in Inside(config, ls) : min = Pointer(y) /\ elt[y].key = elt_key_lower_bound
  BY UnlinkedInv
<1>3. InternalAddElt(ls, min, x, New(time))
  BY <1>1
<1> HIDE DEF ls, min
<1>4. WheelInv' /\ Inside(config, levels') = Inside(config, ls) \cup {x}
  BY <1>1, <1>2, <1>3, InternalAdded
<1>5. Inside(config, levels') = Inside(config, levels)
  BY <1>1, <1>2, <1>4
<1>6. PoolInv'
  BY <1>1, <1>5 DEF IInv, PoolInv
<1> QED
  BY <1>4, <1>5, <1>6 DEF IInv

(* Elements that leave the wheel: removed, fired or cleared. *)
LEMMA FreedInv ==
  ASSUME IInv, NEW cs \in Seq(Cells), IsInjective(cs), ToSet(cs) \subseteq Inside(config, levels),
         levels' = Unlinked(levels, ToSet(cs)), min_elt' = MinEltWithout(ToSet(cs)), Freed(cs),
         UNCHANGED <<config, elt_key_lower_bound, now, max_allowed_alarm_time>>
  PROVE  /\ IInv' /\ Inside(config, levels') = Inside(config, levels) \ ToSet(cs)
         /\ \A x \in Inside(config, levels') : elt'[x] = elt[x]
<1> DEFINE all == Inside(config, levels')
           k == Interval(config, now)
<1>1. /\ Wheel(config, levels', elt, k)
      /\ all = Inside(config, levels) \ ToSet(cs)
      /\ LastMax(config, levels') = LastMax(config, levels)
      /\ \/ min_elt' = Null
         \/ \E y \in all : min_elt' = Pointer(y) /\ elt[y].key = elt_key_lower_bound
  BY UnlinkedInv
<1>2. /\ free' \in Seq(Cells) /\ IsInjective(free') /\ ToSet(free') = Cells \ all
      /\ elt' \in [Cells -> [key : Times, at : Times]] /\ Keys(elt')
      /\ \A x \in all : elt'[x] = elt[x]
  <2>1. all = Inside(config, levels) \ ToSet(cs)
    BY <1>1
  <2> HIDE DEF all
  <2> QED
    BY <2>1, FreedFacts
<1>3. Wheel(config, levels', elt', k)
  <2> DEFINE e == elt'
             ls == levels'
  <2>1. /\ config \in Configs /\ Wheel(config, ls, elt, k) /\ Keys(e)
        /\ \A x \in Inside(config, ls) : e[x].key = elt[x].key
    BY <1>1, <1>2 DEF IInv, WheelInv
  <2> HIDE DEF e, ls, k
  <2>2. Wheel(config, ls, e, k)
    BY <2>1, WheelOther
  <2> QED
    BY <2>2 DEF e, ls
<1>4. WheelInv'
  BY <1>1, <1>2, <1>3 DEF IInv, WheelInv
<1>5. PoolInv'
  BY <1>1, <1>2 DEF PoolInv
<1> QED
  BY <1>1, <1>2, <1>4, <1>5 DEF IInv

LEMMA Remove1Inv ==
  ASSUME IInv, NEW x \in Cells, Remove1(x)
  PROVE  /\ IInv' /\ Inside(config, levels') = Inside(config, levels) \ {x}
         /\ \A y \in Inside(config, levels') : elt'[y] = elt[y]
<1>1. /\ x \in Inside(config, levels) /\ levels' = Unlinked(levels, {x})
      /\ min_elt' = MinEltWithout({x}) /\ Freed(<<x>>)
      /\ UNCHANGED <<config, elt_key_lower_bound, now, max_allowed_alarm_time>>
  BY ReadState DEF Remove1
<1> DEFINE cs == <<x>>
<1>2. cs \in Seq(Cells) /\ IsInjective(cs) /\ ToSet(cs) = {x}
  BY DEF IsInjective, ToSet
<1>3. /\ ToSet(cs) \subseteq Inside(config, levels) /\ levels' = Unlinked(levels, ToSet(cs))
      /\ min_elt' = MinEltWithout(ToSet(cs)) /\ Freed(cs)
  BY <1>1, <1>2
<1> HIDE DEF cs
<1> QED
  BY <1>1, <1>2, <1>3, FreedInv

(* A level reaches at least as far as the one before it. *)
LEMMA UpperWanted ==
  ASSUME NEW c \in Configs, NEW i \in Indices(c), NEW p \in Times
  PROVE  p <= Upper(c, i, Wanted(c, i, p))
<1> DEFINE w == Wanted(c, i, p)
<1>1. w \in Times /\ Upper(c, i, w) \in Times /\ w <= Upper(c, i, w)
      /\ (Upper(c, i, w) # MaxKey => Upper(c, i, w) = w + Cover(c, i) - 1)
  BY WantedFacts, UpperFacts
<1>2. p \in Nat /\ p <= MaxKey /\ MaxKey \in Nat /\ w \in Nat
  BY <1>1, TimesType DEF Times
<1>3. CASE p = MaxKey
  BY <1>1, <1>2, <1>3 DEF Wanted, Times
<1>4. CASE p # MaxKey
  <2>1. w = Floor(c, i, p + 1)
    BY <1>4 DEF Wanted
  <2>2. p + 1 < w + Per(c, i)
    BY <1>2, <2>1, FloorFacts
  <2>3. Per(c, i) \in Nat /\ Cover(c, i) \in Nat /\ Per(c, i) <= Cover(c, i)
    <3>1. ASSUME NEW a \in Nat \ {0}, NEW b \in Nat \ {0}
          PROVE  a <= a * b
      OBVIOUS
    <3>2. /\ Per(c, i) \in Nat \ {0} /\ Num(c, i) \in Nat \ {0} /\ Cover(c, i) \in Nat
          /\ Cover(c, i) = Per(c, i) * Num(c, i)
      BY Geometry DEF Cover
    <3> QED
      BY <3>1, <3>2
  <2> HIDE DEF w
  <2> QED
    BY <1>1, <1>2, <2>2, <2>3 DEF w
<1> QED
  BY <1>3, <1>4

LEMMA KeysBelowLastMax ==
  ASSUME NEW c \in Configs, NEW ls, NEW e, NEW k, Wheel(c, ls, e, k)
  PROVE  \A x \in Inside(c, ls) : e[x].key <= LastMax(c, ls)
<1> DEFINE n == Len(c.level_bits)
           S == {m \in Nat : \A i \in 1 .. m : ls[i].max <= ls[m].max}
<1>1. /\ Shaped(c, ls) /\ n \in Nat \ {0} /\ Chained(c, ls, k, n)
      /\ \A i \in 1 .. n : i \in Indices(c) /\ ls[i].max \in Nat /\ ls[i].max \in Times
  <2>1. n \in Nat \ {0}
    BY Geometry
  <2> QED
    BY <2>1, ShapedFacts, TimesType DEF Wheel, Linked, Indices
<1> HIDE DEF n
<1>2. 0 \in S
  OBVIOUS
<1>3. ASSUME NEW m \in 0 .. n - 1, m \in S
      PROVE  m + 1 \in S
  <2>1. CASE m = 0
    <3>1. m + 1 = 1 /\ 1 \in 1 .. n /\ \A i \in 1 .. 1 : i = 1
      BY <1>1, <2>1
    <3> QED
      BY <1>1, <3>1
  <2>2. CASE m # 0
    <3>1. /\ m \in 1 .. n /\ m + 1 \in 1 .. n /\ (m + 1) - 1 = m /\ m + 1 # 1 /\ m + 1 \in Nat
          /\ \A i \in 1 .. m + 1 : i \in 1 .. m \/ i = m + 1
          /\ \A i \in 1 .. m : i \in 1 .. n
      BY <1>1, <2>2
    <3>2. ls[m + 1].max = Upper(c, m + 1, Wanted(c, m + 1, ls[m].max))
      BY <1>1, <3>1 DEF Chained, Bounds, Prev
    <3>3. ls[m].max <= ls[m + 1].max
      BY <1>1, <3>1, <3>2, UpperWanted
    <3>4. \A i \in 1 .. m : ls[i].max <= ls[m].max
      BY <1>3
    <3>5. \A i \in 1 .. m + 1 : ls[i].max <= ls[m + 1].max
      BY <1>1, <3>1, <3>3, <3>4
    <3> QED
      BY <3>1, <3>5
  <2> QED
    BY <2>1, <2>2
<1>4. n \in S
  <2> HIDE DEF S
  <2> QED
    BY <1>1, <1>2, <1>3, BoundedInduction
<1> SUFFICES ASSUME NEW x \in Inside(c, ls)
             PROVE  e[x].key <= LastMax(c, ls)
  OBVIOUS
<1>5. PICK i \in Indices(c) : \E s \in SlotsOf(c, i) : x \in In(ls, i, s)
  BY DEF Inside
<1>6. e[x].key <= ls[i].max
  BY <1>5 DEF Wheel, Filed
<1>7. ls[i].max <= ls[n].max /\ i \in 1 .. n
  BY <1>4 DEF Indices, n
<1>8. e[x].key \in Nat
  BY WheelFacts, TimesType
<1>9. n \in 1 .. n
  BY <1>1
<1> QED
  BY <1>1, <1>6, <1>7, <1>8, <1>9 DEF LastMax, n

(* What a search of a wheel that is not empty returns: the cached minimum,  *)
(* or an element with the least key.                                       *)
LEMMA FoundInv ==
  ASSUME IInv, Inside(config, levels) # {}
  PROVE  /\ \E x \in Inside(config, levels) : FoundMin = [elt |-> Pointer(x), key |-> elt[x].key]
         /\ \A y \in Inside(config, levels) : FoundMin.key <= elt[y].key
         /\ Interval(config, now) <= FoundMin.key /\ FoundMin.key <= LastMax(config, levels)
<1>1. /\ config \in Configs /\ Wheel(config, levels, elt, Interval(config, now))
      /\ elt_key_lower_bound \in Times
      /\ \A y \in Inside(config, levels) : elt_key_lower_bound <= elt[y].key
      /\ \/ min_elt = Null
         \/ \E x \in Inside(config, levels) : min_elt = Pointer(x) /\ elt[x].key = elt_key_lower_bound
  BY DEF IInv, WheelInv
<1>2. ASSUME min_elt = Null
      PROVE  \E x \in Inside(config, levels) : FoundMin = [elt |-> Pointer(x), key |-> elt[x].key]
  <2> DEFINE k == Interval(config, now)
             none == [elt |-> Null, key |-> MaxKey]
  <2>1. Best(elt, FoundMin, none, Inside(config, levels))
    <3> HIDE DEF k
    <3> QED
      BY <1>1, <1>2, FoundMinFacts
  <2>2. \A x \in Inside(config, levels) : elt[x].key \in Nat /\ elt[x].key <= MaxKey /\ MaxKey \in Nat
    BY <1>1, WheelFacts, TimesType DEF Times
  <2>3. none.key = MaxKey
    OBVIOUS
  <2> HIDE DEF none
  <2>4. ~ \A x \in Inside(config, levels) : none.key < elt[x].key
    BY <2>2, <2>3
  <2> QED
    BY <2>1, <2>4 DEF Best
<1>3. ASSUME min_elt # Null
      PROVE  \E x \in Inside(config, levels) : FoundMin = [elt |-> Pointer(x), key |-> elt[x].key]
  BY <1>1, <1>3 DEF FoundMin
<1>4. PICK x \in Inside(config, levels) : FoundMin = [elt |-> Pointer(x), key |-> elt[x].key]
  BY <1>2, <1>3
<1>5. elt[x].key \in Times /\ Interval(config, now) <= elt[x].key
  BY <1>1, <1>4, WheelFacts
<1>6. elt[x].key <= LastMax(config, levels)
  <2> DEFINE k == Interval(config, now)
  <2> HIDE DEF k
  <2> QED
    BY <1>1, <1>4, KeysBelowLastMax DEF k
<1>7. \A y \in Inside(config, levels) : FoundMin.key <= elt[y].key
  <2>1. CASE min_elt = Null
    <3> DEFINE k == Interval(config, now)
    <3> HIDE DEF k
    <3> QED
      BY <1>1, <2>1, FoundMinFacts DEF Best, k
  <2>2. CASE min_elt # Null
    BY <1>1, <2>2 DEF FoundMin
  <2> QED
    BY <2>1, <2>2
<1> QED
  BY <1>4, <1>5, <1>6, <1>7

LEMMA MinEltInv ==
  ASSUME IInv, MinElt
  PROVE  IInv' /\ Inside(config, levels') = Inside(config, levels) /\ UNCHANGED <<config, elt, now>>
<1>1. /\ Inside(config, levels) # {} /\ min_elt' = FoundMin.elt /\ elt_key_lower_bound' = FoundMin.key
      /\ UNCHANGED <<config, levels, elt, free, now, max_allowed_alarm_time>>
  BY ReadState DEF MinElt
<1>2. /\ \A y \in Inside(config, levels) : FoundMin.key <= elt[y].key
      /\ Interval(config, now) <= FoundMin.key /\ FoundMin.key <= LastMax(config, levels)
  BY <1>1, FoundInv
<1>3. PICK x \in Inside(config, levels) : FoundMin = [elt |-> Pointer(x), key |-> elt[x].key]
  BY <1>1, FoundInv
<1>4. FoundMin.elt = Pointer(x) /\ FoundMin.key = elt[x].key /\ elt[x].key \in Times
  BY <1>3, ReadState DEF Keys, Inside
<1>5. WheelInv'
  BY <1>1, <1>2, <1>4 DEF IInv, WheelInv
<1>6. PoolInv'
  BY <1>1 DEF IInv, PoolInv
<1> QED
  BY <1>1, <1>5, <1>6 DEF IInv

LEMMA LatestAlarmTimeFacts ==
  ASSUME config \in Configs
  PROVE  \A m : compute_max_allowed_alarm_time(m) = LatestTime(config, m)
BY ReadConfig DEF compute_max_allowed_alarm_time, LatestTime, max_interval_num, interval_num_start

(* advance_clock removes the elements of the intervals it leaves behind. *)
LEMMA AdvanceInv ==
  ASSUME IInv, NEW to \in Times, NEW lower_bound \in Times,
         \A x \in Inside(config, levels) : lower_bound <= elt[x].key,
         Interval(config, now) <= lower_bound, lower_bound <= LastMax(config, levels),
         NEW min, \/ min = Null
                  \/ \E x \in Inside(config, levels) : min = Pointer(x) /\ elt[x].key = lower_bound,
         Advance(to, min, lower_bound)
  PROVE  /\ IInv' /\ now' = Greatest(now, to) /\ config' = config
         /\ Inside(config, levels') = {x \in Inside(config, levels) : Interval(config, to) <= elt[x].key}
         /\ \A x \in Inside(config, levels') : elt'[x] = elt[x]
<1> DEFINE c == config
           k0 == Interval(c, now)
           k == Interval(c, to)
           t == IncreaseMinAllowedKey(k, lower_bound)
           m == LastMax(c, levels)
<1>1. /\ c \in Configs /\ now \in Times /\ elt \in [Cells -> [key : Times, at : Times]]
      /\ Wheel(c, levels, elt, k0)
      /\ \A x \in Inside(c, levels) : elt[x].key = Interval(c, elt[x].at)
      /\ max_allowed_alarm_time = LatestTime(c, m)
  BY DEF IInv, WheelInv
<1>2. /\ k0 \in Times /\ k0 \in Nat /\ k \in Times /\ k \in Nat /\ now \in Nat /\ to \in Nat
      /\ lower_bound \in Nat
  BY <1>1, IntervalFacts, TimesType
<1>3. \A x \in Inside(c, levels) : k0 <= elt[x].key /\ elt[x].key \in Nat
  BY <1>1, WheelFacts, TimesType
<1>4. now' = Greatest(now, to) /\ config' = config /\ min_allowed_key = k0 /\ interval_num(to) = k
  BY ReadState DEF Advance
<1>5. now' \in Times
  BY <1>1, <1>4 DEF Greatest
<1>6. CASE k <= k0
  <2>1. /\ min_elt' = min /\ elt_key_lower_bound' = lower_bound
        /\ UNCHANGED <<levels, elt, free, max_allowed_alarm_time>>
    BY <1>4, <1>6 DEF Advance
  <2>2. Interval(c, now') = k0
    <3>1. CASE to <= now
      BY <1>2, <1>4, <3>1 DEF Greatest
    <3>2. CASE now < to
      <4>1. k0 <= k /\ now' = to
        BY <1>1, <1>2, <1>4, <3>2, IntervalFacts DEF Greatest
      <4> QED
        BY <1>2, <1>6, <4>1
    <3> QED
      BY <1>2, <3>1, <3>2
  <2>3. Inside(c, levels) = {x \in Inside(c, levels) : k <= elt[x].key}
    BY <1>2, <1>3, <1>6
  <2>4. WheelInv'
    BY <1>1, <1>4, <1>5, <2>1, <2>2 DEF WheelInv
  <2>5. PoolInv'
    BY <1>4, <2>1 DEF IInv, PoolInv
  <2> QED
    BY <1>4, <2>1, <2>3, <2>4, <2>5 DEF IInv
<1>7. CASE k0 < k
  <2>1. /\ levels' = t.levels /\ min_elt' = IF k > lower_bound THEN Null ELSE min
        /\ elt_key_lower_bound' = Greatest(k, lower_bound)
        /\ Freed(t.removed) /\ max_allowed_alarm_time' = LatestAlarmTime(t)
    BY <1>2, <1>4, <1>7 DEF Advance
  <2>2. now' = to
    <3>1. now < to
      <4>1. to <= now => k <= k0
        BY <1>1, <1>2, IntervalFacts
      <4> QED
        BY <1>2, <1>7, <4>1
    <3> QED
      BY <1>2, <1>4, <3>1 DEF Greatest
  <2>3. /\ Wheel(c, t.levels, elt, k)
        /\ t.removed \in Seq(Cells) /\ IsInjective(t.removed)
        /\ ToSet(t.removed) = {x \in Inside(c, levels) : elt[x].key < k}
        /\ Inside(c, t.levels) = {x \in Inside(c, levels) : k <= elt[x].key}
        /\ m <= LastMax(c, t.levels)
        /\ t.changed \/ LastMax(c, t.levels) = m
    <3> HIDE DEF k, k0, t
    <3> QED
      BY <1>1, <1>2, <1>7, AdvancedFacts DEF m, LastMax, t
  <2>4. /\ free' \in Seq(Cells) /\ IsInjective(free') /\ ToSet(free') = Cells \ Inside(c, t.levels)
        /\ elt' \in [Cells -> [key : Times, at : Times]] /\ Keys(elt')
        /\ \A x \in Inside(c, t.levels) : elt'[x] = elt[x]
    <3> DEFINE cs == t.removed
               inside == Inside(c, t.levels)
    <3>1. /\ cs \in Seq(Cells) /\ IsInjective(cs) /\ ToSet(cs) \subseteq Inside(config, levels)
          /\ inside = Inside(config, levels) \ ToSet(cs) /\ Freed(cs)
      <4>1. \A x \in Inside(c, levels) : k <= elt[x].key <=> ~ (elt[x].key < k)
        BY <1>2, <1>3
      <4> HIDE DEF k, t
      <4> QED
        BY <2>1, <2>3, <4>1
    <3> HIDE DEF cs, inside
    <3>2. /\ free' \in Seq(Cells) /\ IsInjective(free') /\ ToSet(free') = Cells \ inside
          /\ elt' \in [Cells -> [key : Times, at : Times]] /\ Keys(elt')
          /\ \A x \in inside : elt'[x] = elt[x]
      BY <3>1, FreedFacts
    <3> QED
      BY <3>2 DEF inside
  <2> HIDE DEF t, k0
  <2>5. Wheel(c, levels', elt', k)
    <3> DEFINE e == elt'
               ls == levels'
    <3>1. /\ c \in Configs /\ Wheel(c, ls, elt, k) /\ Keys(e)
          /\ \A x \in Inside(c, ls) : e[x].key = elt[x].key
      BY <1>1, <2>1, <2>3, <2>4
    <3> HIDE DEF e, ls, k
    <3>2. Wheel(c, ls, e, k)
      BY <3>1, WheelOther
    <3> QED
      BY <3>2 DEF e, ls
  <2>6. \A x \in Inside(c, levels') : /\ elt'[x].key = Interval(c, elt'[x].at)
                                      /\ Greatest(k, lower_bound) <= elt'[x].key
    <3> HIDE DEF k
    <3> SUFFICES ASSUME NEW x \in Inside(c, levels')
                 PROVE  /\ elt'[x].key = Interval(c, elt'[x].at)
                        /\ Greatest(k, lower_bound) <= elt'[x].key
      OBVIOUS
    <3>1. x \in Inside(c, levels) /\ k <= elt[x].key /\ elt'[x] = elt[x]
      BY <2>1, <2>3, <2>4
    <3> QED
      BY <1>1, <3>1 DEF Greatest
  <2>7. /\ Greatest(k, lower_bound) \in Times /\ k <= Greatest(k, lower_bound)
        /\ Greatest(k, lower_bound) <= LastMax(c, levels')
    <3>1. LastMax(c, levels') \in Times /\ k <= LastMax(c, levels')
      <4> DEFINE n == Len(c.level_bits)
                 ls == levels'
                 e == elt'
      <4>1. Wheel(c, ls, e, k) /\ n \in Indices(c)
        BY <1>1, <2>5, Geometry DEF Indices
      <4> HIDE DEF ls, e, k
      <4>2. ls[n].min \in Times /\ ls[n].max \in Times /\ k <= ls[n].min /\ ls[n].min <= ls[n].max
        BY <1>1, <4>1, WheelFacts
      <4> HIDE DEF n
      <4>3. ls[n].min \in Nat /\ ls[n].max \in Nat
        BY <4>2, TimesType
      <4>4. k <= ls[n].max
        BY <1>2, <4>2, <4>3
      <4> QED
        BY <4>2, <4>4 DEF LastMax, ls, n
    <3>2. m \in Times /\ m <= LastMax(c, levels')
      BY <2>1, <2>3, ReadState
    <3>3. lower_bound <= LastMax(c, levels')
      <4>1. lower_bound <= m
        OBVIOUS
      <4>2. m \in Nat /\ LastMax(c, levels') \in Nat
        BY <3>1, <3>2, TimesType
      <4> HIDE DEF m
      <4> QED
        BY <1>2, <3>2, <4>1, <4>2
    <3> HIDE DEF k
    <3> QED
      BY <1>2, <3>1, <3>3 DEF Greatest
  <2>8. \/ min_elt' = Null
        \/ \E x \in Inside(c, levels') : min_elt' = Pointer(x) /\ elt'[x].key = Greatest(k, lower_bound)
    <3> HIDE DEF k
    <3>1. CASE k > lower_bound
      BY <2>1, <3>1
    <3>2. CASE ~ (k > lower_bound) /\ min # Null
      <4>1. PICK x \in Inside(c, levels) : min = Pointer(x) /\ elt[x].key = lower_bound
        BY <3>2
      <4>2. min_elt' = Pointer(x) /\ Greatest(k, lower_bound) = lower_bound /\ k <= elt[x].key
        BY <1>2, <2>1, <3>2, <4>1 DEF Greatest
      <4>3. x \in Inside(c, levels') /\ elt'[x] = elt[x]
        BY <2>1, <2>3, <2>4, <4>2
      <4> QED
        BY <4>1, <4>2, <4>3
    <3> QED
      BY <2>1, <3>1, <3>2
  <2>9. max_allowed_alarm_time' = LatestTime(c, LastMax(c, levels'))
    <3>1. CASE t.changed
      <4>1. Len(t.levels) = Len(c.level_bits)
        BY <1>1, <2>3, ShapedFacts DEF Wheel, Linked
      <4>2. max_allowed_alarm_time' = LatestTime(c, Last(t.levels).max)
        BY <1>1, <2>1, <3>1, LatestAlarmTimeFacts DEF LatestAlarmTime
      <4> QED
        BY <2>1, <4>1, <4>2 DEF Last, LastMax
    <3>2. CASE ~ t.changed
      BY <1>1, <2>1, <2>3, <3>2 DEF LatestAlarmTime
    <3> QED
      BY <3>1, <3>2
  <2>10. WheelInv'
    BY <1>1, <1>4, <1>5, <2>1, <2>2, <2>4, <2>5, <2>6, <2>7, <2>8, <2>9 DEF WheelInv
  <2>11. PoolInv'
    BY <1>4, <2>1, <2>4 DEF PoolInv
  <2> QED
    BY <1>4, <2>1, <2>3, <2>4, <2>10, <2>11 DEF IInv
<1> QED
  BY <1>2, <1>6, <1>7

LEMMA AdvanceClockInv ==
  ASSUME IInv, NEW to \in Times, AdvanceClock(to)
  PROVE  /\ IInv' /\ now' = to /\ config' = config
         /\ Inside(config, levels') = {x \in Inside(config, levels) : Interval(config, to) <= elt[x].key}
         /\ \A x \in Inside(config, levels') : elt'[x] = elt[x]
<1> DEFINE lb == elt_key_lower_bound
           min == min_elt
<1>1. /\ lb \in Times /\ now \in Nat /\ to \in Nat
      /\ \A x \in Inside(config, levels) : lb <= elt[x].key
      /\ Interval(config, now) <= lb /\ lb <= LastMax(config, levels)
      /\ min = Null \/ \E x \in Inside(config, levels) : min = Pointer(x) /\ elt[x].key = lb
  BY TimesType DEF IInv, WheelInv
<1>2. to > now /\ Advance(to, min, lb)
  BY DEF AdvanceClock
<1> HIDE DEF lb, min
<1>3. /\ IInv' /\ now' = Greatest(now, to) /\ config' = config
      /\ Inside(config, levels') = {x \in Inside(config, levels) : Interval(config, to) <= elt[x].key}
      /\ \A x \in Inside(config, levels') : elt'[x] = elt[x]
  BY <1>1, <1>2, AdvanceInv
<1> QED
  BY <1>1, <1>2, <1>3 DEF Greatest

LEMMA MinFacts ==
  ASSUME NEW S \in SUBSET Nat, S # {}
  PROVE  Min(S) \in S /\ \A n \in S : Min(S) <= n
<1>1. \E m \in S : \A n \in S : m <= n
  BY LeastElement
<1> QED
  BY <1>1 DEF Min

(* A cell is in one slot with itself, and with those that are in one slot   *)
(* with a third.                                                           *)
LEMMA SlotsShared ==
  ASSUME IInv
  PROVE  /\ \A x \in Inside(config, levels) : InOneSlot(x, x)
         /\ \A x, y, z : z \in Cells /\ InOneSlot(x, z) /\ InOneSlot(z, y) => InOneSlot(x, y)
<1>1. /\ config \in Configs /\ Shaped(config, levels) /\ Apart(config, levels)
  BY DEF IInv, WheelInv, Wheel, Linked
<1>2. /\ DOMAIN levels = Indices(config)
      /\ \A i \in Indices(config) : DOMAIN levels[i].slots = SlotsOf(config, i)
  BY <1>1, ShapedFacts
<1>3. \A x, y : InOneSlot(x, y) <=>
         \E i \in Indices(config) : \E s \in SlotsOf(config, i) :
            x \in In(levels, i, s) /\ y \in In(levels, i, s)
  BY <1>2 DEF InOneSlot, In
<1>4. ASSUME NEW x, NEW y, NEW z \in Cells, InOneSlot(x, z), InOneSlot(z, y)
      PROVE  InOneSlot(x, y)
  <2>1. PICK i \in Indices(config) : \E s \in SlotsOf(config, i) :
           x \in In(levels, i, s) /\ z \in In(levels, i, s)
    BY <1>3, <1>4
  <2>2. PICK s \in SlotsOf(config, i) : x \in In(levels, i, s) /\ z \in In(levels, i, s)
    BY <2>1
  <2>3. PICK j \in Indices(config) : \E u \in SlotsOf(config, j) :
           z \in In(levels, j, u) /\ y \in In(levels, j, u)
    BY <1>3, <1>4
  <2>4. PICK u \in SlotsOf(config, j) : z \in In(levels, j, u) /\ y \in In(levels, j, u)
    BY <2>3
  <2>5. i = j /\ s = u
    BY <1>1, <2>2, <2>4 DEF Apart
  <2> QED
    BY <1>3, <2>2, <2>4, <2>5
<1>5. ASSUME NEW x \in Inside(config, levels)
      PROVE  InOneSlot(x, x)
  BY <1>3, <1>5 DEF Inside
<1> QED
  BY <1>4, <1>5

(* Where advance_clock_stop_at_next_alarm comes to: an alarm of the first  *)
(* interval, the earliest of its slot.                                     *)
LEMMA NextAlarm ==
  ASSUME IInv, Inside(config, levels) # {}, NEW to \in Times,
         NEW c, c = FoundMin.elt.cell, NEW next,
         next = IF to < interval_num_start(elt[c].key) THEN to ELSE Least(to, MinAlarmTime(c))
  PROVE  /\ next \in Times /\ Interval(config, next) <= FoundMin.key
         /\ \E x \in FirstInterval :
               /\ next = Least(to, elt[x].at)
               /\ \A y \in FirstInterval : InOneSlot(x, y) => elt[x].at <= elt[y].at
<1> DEFINE all == Inside(config, levels)
           key == elt[c].key
           near == {y \in Members : InOneSlot(c, y) /\ elt[y].key = elt[c].key}
           T == {elt[y].at : y \in near}
<1>1. /\ config \in Configs
      /\ \A x \in all : /\ elt[x].at \in Times /\ elt[x].at \in Nat /\ elt[x].key \in Nat
                        /\ elt[x].key \in Times /\ elt[x].key = Interval(config, elt[x].at)
  <2>1. \A x \in all : elt[x] \in [key : Times, at : Times]
    BY DEF IInv, WheelInv, Inside
  <2> QED
    BY <2>1, TimesType DEF IInv, WheelInv
<1>2. PICK x \in all : FoundMin = [elt |-> Pointer(x), key |-> elt[x].key]
  BY FoundInv
<1>3. c = x /\ FoundMin.key = elt[x].key
  <2>1. FoundMin.elt = Pointer(x) /\ FoundMin.key = elt[x].key
    BY <1>2
  <2> QED
    BY <2>1, PointerFacts
<1>4. /\ c \in all /\ key \in Nat /\ key = FoundMin.key
      /\ \A y \in all : key <= elt[y].key
  BY <1>1, <1>2, <1>3, FoundInv
<1>5. Members = all /\ all \subseteq Cells
  BY ReadState
<1>6. c \in near
  BY <1>4, <1>5, SlotsShared
<1>7. /\ Min(T) \in T /\ \A n \in T : Min(T) <= n
  <2>1. T \in SUBSET Nat /\ T # {}
    BY <1>1, <1>5, <1>6
  <2> HIDE DEF T
  <2> QED
    BY <2>1, MinFacts
<1>8. PICK z \in near : Min(T) = elt[z].at
  BY <1>7
<1>9. z \in all /\ z \in Cells /\ elt[z].key = key /\ InOneSlot(c, z)
  BY <1>5, <1>8
<1>10. z \in FirstInterval
  BY <1>4, <1>5, <1>9 DEF FirstInterval
<1>11. ASSUME NEW y \in FirstInterval, InOneSlot(z, y)
       PROVE  elt[z].at <= elt[y].at
  <2>1. y \in all /\ elt[y].key <= elt[z].key /\ elt[z].key <= elt[y].key
    BY <1>4, <1>5, <1>9, <1>11 DEF FirstInterval
  <2>2. elt[y].key = key
    BY <1>1, <1>4, <1>9, <2>1
  <2>3. InOneSlot(c, y)
    BY <1>9, <1>11, SlotsShared
  <2>4. elt[y].at \in T
    BY <1>5, <2>1, <2>2, <2>3
  <2> QED
    BY <1>7, <1>8, <2>4
<1>12. MinAlarmTime(c) = elt[z].at
  BY <1>8 DEF MinAlarmTime
<1>13. to \in Nat /\ elt[z].at \in Nat /\ elt[z].at \in Times /\ Interval(config, elt[z].at) = key
  BY <1>1, <1>9, TimesType
<1>14. \A t \in Times : key <= Interval(config, t) <=> interval_num_start(key) <= t
  BY <1>1, <1>4, IntervalFacts DEF interval_num_start
<1>15. interval_num_start(key) \in Nat
  <2> DEFINE p == 2 ^ config.alarm_precision
  <2>1. p \in Nat
    BY <1>1, Geometry
  <2> HIDE DEF p
  <2>2. key * p \in Nat
    BY <1>4, <2>1
  <2> QED
    BY <2>2 DEF interval_num_start, p
<1> HIDE DEF key, near, T
<1>16. interval_num_start(key) <= elt[z].at
  BY <1>4, <1>13, <1>14
<1>17. next = Least(to, elt[z].at)
  <2>1. CASE to < interval_num_start(key)
    <3>1. next = to /\ to <= elt[z].at /\ to < elt[z].at
      BY <1>13, <1>15, <1>16, <2>1 DEF key
    <3> QED
      BY <3>1 DEF Least
  <2>2. CASE ~ (to < interval_num_start(key))
    BY <1>12, <2>2 DEF key
  <2> QED
    BY <2>1, <2>2
<1>18. next \in Times /\ next <= elt[z].at
  BY <1>13, <1>17 DEF Least
<1>19. Interval(config, next) <= key
  BY <1>1, <1>13, <1>18, IntervalFacts
<1> QED
  BY <1>4, <1>10, <1>11, <1>17, <1>18, <1>19

LEMMA AdvanceClockStopAtNextAlarmInv ==
  ASSUME IInv, NEW to \in Times, AdvanceClockStopAtNextAlarm(to)
  PROVE  /\ IInv' /\ config' = config
         /\ \E next \in Times :
               /\ now' = Greatest(now, next)
               /\ \A x \in Inside(config, levels) : Interval(config, next) <= elt[x].key
               /\ \E x \in FirstInterval :
                     /\ next = Least(to, elt[x].at)
                     /\ \A y \in FirstInterval : InOneSlot(x, y) => elt[x].at <= elt[y].at
         /\ Inside(config, levels') = Inside(config, levels)
         /\ \A x \in Inside(config, levels') : elt'[x] = elt[x]
<1> DEFINE all == Inside(config, levels)
           c == FoundMin.elt.cell
           next == IF to < interval_num_start(elt[c].key) THEN to ELSE Least(to, MinAlarmTime(c))
           lb == FoundMin.key
           min == FoundMin.elt
<1>1. all # {} /\ Advance(next, min, lb)
  BY ReadState DEF AdvanceClockStopAtNextAlarm
<1>2. /\ next \in Times /\ Interval(config, next) <= lb
      /\ \E x \in FirstInterval :
            /\ next = Least(to, elt[x].at)
            /\ \A y \in FirstInterval : InOneSlot(x, y) => elt[x].at <= elt[y].at
  <2> HIDE DEF c, next
  <2> QED
    BY <1>1, NextAlarm DEF c, next
<1>3. /\ \A x \in all : lb <= elt[x].key /\ elt[x].key \in Nat
      /\ Interval(config, now) <= lb /\ lb <= LastMax(config, levels)
      /\ lb \in Times /\ lb \in Nat
      /\ \E x \in all : min = Pointer(x) /\ elt[x].key = lb
  <2>1. PICK x \in all : FoundMin = [elt |-> Pointer(x), key |-> elt[x].key]
    BY <1>1, FoundInv
  <2>2. min = Pointer(x) /\ lb = elt[x].key
    BY <2>1
  <2>3. \A y \in all : elt[y].key \in Times /\ elt[y].key \in Nat
    BY ReadState, TimesType DEF Keys, Inside
  <2> QED
    BY <1>1, <2>2, <2>3, FoundInv
<1>4. config \in Configs
  BY DEF IInv, WheelInv
<1> HIDE DEF next, lb, min
<1>5. Interval(config, next) \in Nat
  BY <1>2, <1>4, IntervalFacts, TimesType
<1>6. \A x \in all : Interval(config, next) <= elt[x].key
  BY <1>2, <1>3, <1>5
<1>7. /\ IInv' /\ now' = Greatest(now, next) /\ config' = config
      /\ Inside(config, levels') = {x \in all : Interval(config, next) <= elt[x].key}
      /\ \A x \in Inside(config, levels') : elt'[x] = elt[x]
  BY <1>1, <1>2, <1>3, AdvanceInv
<1>8. Inside(config, levels') = all
  BY <1>6, <1>7
<1> QED
  BY <1>2, <1>6, <1>7, <1>8

(* fire_past_alarms fires elements of one slot of the first level. *)
LEMMA FirePastAlarmsInv ==
  ASSUME IInv, FirePastAlarms
  PROVE  /\ IInv' /\ UNCHANGED <<config, now>>
         /\ Inside(config, levels') = Inside(config, levels) \
               {x \in In(levels, 1, SlotOf(config, 1, Interval(config, now))) : elt[x].at <= now}
         /\ \A x \in Inside(config, levels') : elt'[x] = elt[x]
<1> DEFINE s == SlotOf(config, 1, Interval(config, now))
           past == {x \in Cells : elt[x].at <= now}
           fired == Only(levels[1].slots[s], past)
<1>1. /\ config \in Configs /\ Linked(config, levels) /\ now \in Times
  BY DEF IInv, WheelInv, Wheel
<1>2. 1 \in Indices(config) /\ s \in SlotsOf(config, 1)
  <2>1. Interval(config, now) \in Nat
    BY <1>1, IntervalFacts, TimesType
  <2> QED
    BY <1>1, <2>1, Geometry, SlotType
<1> DEFINE list == levels[1].slots[s]
<1>3. list \in Seq(Cells) /\ IsInjective(list) /\ ToSet(list) = In(levels, 1, s)
      /\ In(levels, 1, s) \subseteq Cells
  BY <1>1, <1>2, ShapedFacts DEF Linked, Apart, In
<1>4. In(levels, 1, s) \subseteq Inside(config, levels)
  BY <1>2, <1>3 DEF Inside
<1>5. /\ fired = Only(levels[1].slots[slot(1, min_allowed_key)], past)
  BY <1>1, ReadConfig, ReadState
<1>6. /\ levels' = Unlinked(levels, ToSet(fired)) /\ min_elt' = MinEltWithout(ToSet(fired))
      /\ Freed(fired) /\ UNCHANGED <<config, elt_key_lower_bound, now, max_allowed_alarm_time>>
  BY <1>5 DEF FirePastAlarms
<1>7. fired \in Seq(Cells) /\ IsInjective(fired) /\ ToSet(fired) = In(levels, 1, s) \cap past
  <2> HIDE DEF list, past
  <2> QED
    BY <1>3, OnlyFacts DEF list
<1> HIDE DEF fired, s
<1>8. /\ IInv' /\ Inside(config, levels') = Inside(config, levels) \ ToSet(fired)
      /\ \A x \in Inside(config, levels') : elt'[x] = elt[x]
  BY <1>4, <1>6, <1>7, FreedInv
<1>9. ToSet(fired) = {x \in In(levels, 1, s) : elt[x].at <= now}
  BY <1>3, <1>7
<1> QED
  BY <1>6, <1>8, <1>9 DEF s

(* clear, of a wheel with no minimum cached. *)
LEMMA ClearInv ==
  ASSUME IInv, ~ ClearsCached, Clear
  PROVE  /\ IInv' /\ UNCHANGED <<config, now>>
         /\ Inside(config, levels') = {}
<1> DEFINE n == Len(config.level_bits)
           in_order(level) == FlattenSeq([s \in 1 .. Cardinality(DOMAIN level.slots) |->
                                             level.slots[s - 1]])
           lists == [i \in DOMAIN levels |-> in_order(levels[i])]
           cs == FlattenSeq(lists)
           all == Inside(config, levels)
<1>1. /\ config \in Configs /\ Linked(config, levels) /\ Shaped(config, levels)
      /\ DOMAIN levels = 1 .. n /\ n \in Nat /\ Indices(config) = 1 .. n
  BY ShapedFacts, Geometry DEF IInv, WheelInv, Wheel, Linked, Indices
<1>2. /\ min_elt = Null /\ levels' = Unlinked(levels, all) /\ min_elt' = [Null EXCEPT !.valid = FALSE]
      /\ Freed(cs)
      /\ UNCHANGED <<config, elt_key_lower_bound, now, max_allowed_alarm_time>>
  BY ReadState DEF Clear
<1> HIDE DEF n
<1>3. ASSUME NEW i \in 1 .. n
      PROVE  /\ in_order(levels[i]) \in Seq(Cells) /\ IsInjective(in_order(levels[i]))
             /\ \A x : x \in ToSet(in_order(levels[i])) <=> \E s \in SlotsOf(config, i) : x \in In(levels, i, s)
  <2> DEFINE N == Num(config, i)
             slots == levels[i].slots
             ss == [s \in 1 .. N |-> slots[s - 1]]
  <2>1. i \in Indices(config) /\ N \in Nat /\ SlotsOf(config, i) = 0 .. N - 1
    BY <1>1, Geometry DEF SlotsOf
  <2>2. /\ DOMAIN slots = 0 .. N - 1
        /\ \A s \in 0 .. N - 1 : /\ slots[s] \in Seq(Cells) /\ IsInjective(slots[s])
                                 /\ ToSet(slots[s]) = In(levels, i, s) /\ In(levels, i, s) \subseteq Cells
    BY <1>1, <2>1, ShapedFacts DEF Linked, Apart, In
  <2>3. Cardinality(0 .. N - 1) = N
    <3> HIDE DEF N
    <3> QED
      BY <2>1, FS_Interval
  <2>4. in_order(levels[i]) = FlattenSeq(ss)
    BY <2>2, <2>3
  <2>5. \A s, t \in 0 .. N - 1 : s # t => In(levels, i, s) \cap In(levels, i, t) = {}
    BY <1>1, <2>1, <2>2 DEF Linked, Apart
  <2> HIDE DEF N, slots, in_order
  <2>6. ss \in Seq(Seq(Cells)) /\ Len(ss) = N /\ \A s \in 1 .. N : ss[s] = slots[s - 1] /\ s - 1 \in 0 .. N - 1
    BY <2>1, <2>2
  <2> HIDE DEF ss
  <2>7. /\ \A s \in 1 .. N : IsInjective(ss[s])
        /\ \A s, t \in 1 .. N : s # t => ToSet(ss[s]) \cap ToSet(ss[t]) = {}
    <3>1. \A s \in 1 .. N : ss[s] = slots[s - 1] /\ s - 1 \in 0 .. N - 1 /\ ToSet(ss[s]) = In(levels, i, s - 1)
      BY <2>2, <2>6
    <3>2. \A s \in 1 .. N : IsInjective(ss[s])
      BY <2>2, <3>1
    <3>3. \A s, t \in 1 .. N : s # t => s - 1 # t - 1
      BY <2>1
    <3>4. \A s, t \in 1 .. N : s # t => ToSet(ss[s]) \cap ToSet(ss[t]) = {}
      BY <2>5, <3>1, <3>3
    <3> QED
      BY <3>2, <3>4
  <2>8. /\ FlattenSeq(ss) \in Seq(Cells) /\ IsInjective(FlattenSeq(ss))
        /\ \A x : x \in ToSet(FlattenSeq(ss)) <=> \E s \in 1 .. N : x \in ToSet(ss[s])
    BY <2>6, <2>7, FlattenFacts
  <2>9. \A x : (\E s \in 1 .. N : x \in ToSet(ss[s])) <=> \E s \in 0 .. N - 1 : x \in In(levels, i, s)
    <3>1. \A s \in 0 .. N - 1 : s + 1 \in 1 .. N /\ (s + 1) - 1 = s
      BY <2>1
    <3>2. \A s \in 0 .. N - 1 : ToSet(ss[s + 1]) = In(levels, i, s)
      BY <2>2, <2>6, <3>1
    <3> QED
      BY <2>2, <2>6, <3>1, <3>2
  <2> QED
    BY <2>1, <2>4, <2>8, <2>9
<1>4. /\ lists \in Seq(Seq(Cells)) /\ Len(lists) = n /\ \A i \in 1 .. n : lists[i] = in_order(levels[i])
  <2> HIDE DEF in_order
  <2> QED
    BY <1>1, <1>3
<1> HIDE DEF lists, in_order
<1>5. /\ \A i \in 1 .. n : IsInjective(lists[i])
      /\ \A i, j \in 1 .. n : i # j => ToSet(lists[i]) \cap ToSet(lists[j]) = {}
  <2>1. \A i \in 1 .. n : IsInjective(lists[i])
    BY <1>3, <1>4
  <2>2. \A i, j \in 1 .. n : i # j => ToSet(lists[i]) \cap ToSet(lists[j]) = {}
    <3> SUFFICES ASSUME NEW i \in 1 .. n, NEW j \in 1 .. n, NEW x,
                        x \in ToSet(lists[i]), x \in ToSet(lists[j])
                 PROVE  i = j
      OBVIOUS
    <3>1. /\ \E s \in SlotsOf(config, i) : x \in In(levels, i, s)
          /\ \E t \in SlotsOf(config, j) : x \in In(levels, j, t)
      BY <1>3, <1>4
    <3>2. x \in Cells
      BY <1>1, <3>1, ShapedFacts
    <3> QED
      BY <1>1, <3>1, <3>2 DEF Linked, Apart
  <2> QED
    BY <2>1, <2>2
<1>6. /\ cs \in Seq(Cells) /\ IsInjective(cs)
      /\ \A x : x \in ToSet(cs) <=> \E i \in 1 .. n : x \in ToSet(lists[i])
  BY <1>4, <1>5, FlattenFacts
<1>7. ToSet(cs) = all
  <2>1. \A x : x \in ToSet(cs) <=> \E i \in Indices(config) : \E s \in SlotsOf(config, i) : x \in In(levels, i, s)
    BY <1>1, <1>3, <1>4, <1>6
  <2>2. \A i \in Indices(config) : \A s \in SlotsOf(config, i) : In(levels, i, s) \subseteq Cells
    BY <1>1, ShapedFacts
  <2> QED
    BY <2>1, <2>2 DEF Inside
<1>8. min_elt' = MinEltWithout(ToSet(cs))
  <2>1. [Null EXCEPT !.valid = FALSE] = Null
    <3>1. \A r \in [cell : {"none"}, valid : {FALSE}] : [r EXCEPT !.valid = FALSE] = r
      OBVIOUS
    <3>2. Null \in [cell : {"none"}, valid : {FALSE}]
      BY DEF Null
    <3> QED
      BY <3>1, <3>2
  <2> QED
    BY <1>2, <2>1, PointerFacts DEF MinEltWithout
<1> HIDE DEF cs
<1>9. /\ IInv' /\ Inside(config, levels') = Inside(config, levels) \ ToSet(cs)
  BY <1>2, <1>6, <1>7, <1>8, FreedInv
<1> QED
  BY <1>2, <1>7, <1>9

-----------------------------------------------------------------------------
(***************************************************************************)
(* The initial states.                                                     *)
(***************************************************************************)
Empty(i) == [min |-> 0, max |-> 0, slots |-> [s \in Slots(i) |-> <<>>]]

(* create gives each level the bounds that follow those of the one before. *)
LEMMA InitLevels ==
  ASSUME Init
  PROVE  /\ config \in Configs /\ now \in Times
         /\ levels = [i \in Indices(config) |->
                        Bounded(Empty(i), i, Wanted(config, i, Prev(levels, i, Interval(config, now))))]
<1> DEFINE c == config
           k == Interval(c, now)
           n == Len(c.level_bits)
           X == Times \cup {-1}
           G == [p \in (1 .. n) \X X |-> Upper(c, p[1], Wanted(c, p[1], p[2]))]
           Unfolded(f) == f = [i \in Indices(c) |-> Bounded(Empty(i), i, Wanted(c, i, Prev(f, i, k)))]
           First(f) == f = [i \in Levels |->
                              Bounded([min |-> 0, max |-> 0, slots |-> [s \in Slots(i) |-> <<>>]], i,
                                      compute_min_allowed_key(i, IF i = 1 THEN interval_num(now) - 1
                                                                 ELSE f[i - 1].max))]
<1>1. c \in Configs /\ now \in Times
  BY TimingWheelAssumption DEF Init
<1>2. k \in Times /\ k - 1 \in X /\ n \in Nat \ {0} /\ Indices(c) = 1 .. n
  BY <1>1, IntervalFacts, FirstWanted, Geometry DEF Indices
<1>3. \A f : First(f) <=> Unfolded(f)
  BY <1>1, ReadConfig DEF Prev, Empty
<1> HIDE DEF k, n
<1>4. G \in [(1 .. n) \X X -> X]
  <2>1. ASSUME NEW i \in 1 .. n, NEW p \in X
        PROVE  Upper(c, i, Wanted(c, i, p)) \in X
    BY <1>1, <1>2, WantedFacts, UpperFacts
  <2> QED
    BY <2>1
<1>5. PICK f : Follows(f, G, k - 1, n, X)
  <2> HIDE DEF G, X
  <2> QED
    BY <1>2, <1>4, Recursion
<1>6. f \in [0 .. n -> X] /\ f[0] = k - 1 /\ \A i \in 1 .. n : f[i] = G[<<i, f[i - 1]>>]
  BY <1>5, Zenon DEF Follows
<1>7. \A i \in 1 .. n : f[i] = Upper(c, i, Wanted(c, i, f[i - 1]))
  <2> SUFFICES ASSUME NEW i \in 1 .. n
               PROVE  f[i] = Upper(c, i, Wanted(c, i, f[i - 1]))
    OBVIOUS
  <2>1. i - 1 \in 0 .. n
    BY <1>2
  <2>2. f[i - 1] \in X
    BY <1>6, <2>1, Zenon
  <2>3. G[<<i, f[i - 1]>>] = Upper(c, i, Wanted(c, i, f[i - 1]))
    BY <2>2
  <2> QED
    BY <1>6, <2>3
<1> HIDE DEF G, X
<1> DEFINE g == [i \in Indices(c) |-> Bounded(Empty(i), i, Wanted(c, i, f[i - 1]))]
<1>8. \A i \in Indices(c) : g[i].max = f[i]
  <2> SUFFICES ASSUME NEW i \in Indices(c)
               PROVE  g[i].max = f[i]
    OBVIOUS
  <2>1. g[i] = Bounded(Empty(i), i, Wanted(c, i, f[i - 1]))
    OBVIOUS
  <2>2. diff_max_min_allowed_key(i) = Cover(c, i) - 1
    BY <1>1, ReadConfig
  <2>3. g[i].max = Upper(c, i, Wanted(c, i, f[i - 1]))
    BY <2>1, <2>2 DEF Bounded, Empty, Upper
  <2> QED
    BY <1>2, <1>7, <2>3
<1>9. Unfolded(g)
  <2>1. \A i \in Indices(c) : Prev(g, i, k) = f[i - 1]
    <3> SUFFICES ASSUME NEW i \in Indices(c)
                 PROVE  Prev(g, i, k) = f[i - 1]
      OBVIOUS
    <3>1. CASE i = 1
      BY <1>6, <3>1 DEF Prev
    <3>2. CASE i # 1
      <4>1. i - 1 \in Indices(c)
        BY <1>2, <3>2
      <4> HIDE DEF g
      <4> QED
        BY <1>8, <3>2, <4>1 DEF Prev
    <3> QED
      BY <3>1, <3>2
  <2> QED
    BY <2>1
<1> HIDE DEF g
<1>10. levels = CHOOSE h : First(h)
  BY DEF Init
<1>11. First(levels)
  <2> HIDE DEF First, Unfolded
  <2>1. First(g)
    BY <1>3, <1>9
  <2> QED
    BY <1>10, <2>1
<1>12. Unfolded(levels)
  BY <1>3, <1>11
<1> QED
  BY <1>1, <1>12 DEF k

LEMMA InitWheel ==
  ASSUME Init
  PROVE  /\ Wheel(config, levels, elt, Interval(config, now)) /\ Inside(config, levels) = {}
<1> DEFINE c == config
           k == Interval(c, now)
           w(i) == Wanted(c, i, Prev(levels, i, k))
<1>1. /\ c \in Configs /\ now \in Times /\ k \in Times
      /\ levels = [i \in Indices(c) |-> Bounded(Empty(i), i, w(i))]
  BY InitLevels, IntervalFacts
<1> HIDE DEF w, k
<1>2. \A i \in Indices(c) : levels[i] = [min |-> w(i), max |-> Upper(c, i, w(i)),
                                         slots |-> [s \in SlotsOf(c, i) |-> <<>>]]
  <2> SUFFICES ASSUME NEW i \in Indices(c)
               PROVE  levels[i] = [min |-> w(i), max |-> Upper(c, i, w(i)),
                                   slots |-> [s \in SlotsOf(c, i) |-> <<>>]]
    OBVIOUS
  <2>1. levels[i] = Bounded(Empty(i), i, w(i))
    BY <1>1
  <2>2. diff_max_min_allowed_key(i) = Cover(c, i) - 1 /\ Slots(i) = SlotsOf(c, i)
    BY <1>1, ReadConfig
  <2>3. Bounded(Empty(i), i, w(i)) = [min |-> w(i), max |-> Upper(c, i, w(i)),
                                      slots |-> [s \in Slots(i) |-> <<>>]]
    <3>1. \A a, b, slots : [[min |-> 0, max |-> 0, slots |-> slots] EXCEPT !.min = a, !.max = b]
                              = [min |-> a, max |-> b, slots |-> slots]
      <4> SUFFICES ASSUME NEW a, NEW b, NEW slots
                   PROVE  [[min |-> 0, max |-> 0, slots |-> slots] EXCEPT !.min = a, !.max = b]
                             = [min |-> a, max |-> b, slots |-> slots]
        OBVIOUS
      <4> DEFINE e == [min |-> 0, max |-> 0, slots |-> slots]
                 f == [min |-> a, max |-> 0, slots |-> slots]
      <4>1. [e EXCEPT !.min = a] = f
        OBVIOUS
      <4>2. [f EXCEPT !.max = b] = [min |-> a, max |-> b, slots |-> slots]
        OBVIOUS
      <4>3. [e EXCEPT !.min = a, !.max = b] = [[e EXCEPT !.min = a] EXCEPT !.max = b]
        OBVIOUS
      <4> QED
        BY <4>1, <4>2, <4>3
    <3>2. Bounded(Empty(i), i, w(i)) = [Empty(i) EXCEPT !.min = w(i), !.max = Upper(c, i, w(i))]
      BY <2>2 DEF Bounded, Upper
    <3> QED
      BY <3>1, <3>2, Zenon DEF Empty
  <2> QED
    BY <2>1, <2>2, <2>3
<1> DEFINE none(i) == [s \in SlotsOf(c, i) |-> <<>>]
<1>2a. \A i \in Indices(c) : /\ levels[i].min = w(i) /\ levels[i].max = Upper(c, i, w(i))
                            /\ levels[i].slots = none(i)
                            /\ levels[i] = [min |-> w(i), max |-> Upper(c, i, w(i)), slots |-> none(i)]
  <2> HIDE DEF none
  <2>1. \A i \in Indices(c) : levels[i] = [min |-> w(i), max |-> Upper(c, i, w(i)), slots |-> none(i)]
    BY <1>2, Zenon DEF none
  <2> QED
    BY <2>1
<1>3. \A i \in Indices(c) : Bounds(c, levels, i, k)
  <2> HIDE DEF none
  <2>1. \A i \in Indices(c) : levels[i].min = w(i) /\ levels[i].max = Upper(c, i, levels[i].min)
    BY <1>2a
  <2> QED
    BY <2>1, Zenon DEF Bounds, w
<1> DEFINE S == {i \in Nat : i \in Indices(c) => w(i) \in Times}
<1>4. \A i \in Indices(c) : w(i) \in Times
  <2> DEFINE n == Len(c.level_bits)
  <2>1. n \in Nat \ {0} /\ Indices(c) = 1 .. n
    BY <1>1, Geometry DEF Indices
  <2>2. 0 \in S
    BY <2>1
  <2>3. ASSUME NEW m \in 0 .. n - 1, m \in S
        PROVE  m + 1 \in S
    <3>1. m + 1 \in Indices(c) /\ m + 1 \in Nat /\ (m + 1) - 1 = m
      BY <2>1
    <3>2. Prev(levels, m + 1, k) \in Times \cup {-1}
      <4>1. CASE m = 0
        BY <1>1, <4>1, FirstWanted DEF Prev
      <4>2. CASE m # 0
        <5>1. m \in Indices(c) /\ m + 1 # 1
          BY <2>1, <4>2
        <5>2. w(m) \in Times
          BY <2>3, <5>1
        <5>3. levels[m].max = Upper(c, m, w(m)) /\ Upper(c, m, w(m)) \in Times
          BY <1>1, <1>2, <5>1, <5>2, UpperFacts
        <5> QED
          BY <3>1, <5>1, <5>3 DEF Prev
      <4> QED
        BY <4>1, <4>2
    <3>3. w(m + 1) \in Times
      BY <1>1, <3>1, <3>2, WantedFacts DEF w
    <3> QED
      BY <3>1, <3>3
  <2>4. \A m \in 0 .. n : m \in S
    <3> HIDE DEF S, n
    <3> QED
      BY <2>1, <2>2, <2>3, BoundedInduction
  <2> QED
    BY <2>1, <2>4
<1>5. Shaped(c, levels)
  <2>1. \A i \in Indices(c) : levels[i] \in LevelOf(c, i)
    <3> SUFFICES ASSUME NEW i \in Indices(c)
                 PROVE  levels[i] \in LevelOf(c, i)
      OBVIOUS
    <3>1. w(i) \in Times /\ Upper(c, i, w(i)) \in Times
      BY <1>1, <1>4, UpperFacts
    <3>2. none(i) \in [SlotsOf(c, i) -> Seq(Cells)]
      OBVIOUS
    <3> HIDE DEF none
    <3> QED
      <4>1. \A a \in Times, b \in Times, f \in [SlotsOf(c, i) -> Seq(Cells)] :
               [min |-> a, max |-> b, slots |-> f] \in LevelOf(c, i)
        BY DEF LevelOf
      <4>2. [min |-> w(i), max |-> Upper(c, i, w(i)), slots |-> none(i)] \in LevelOf(c, i)
        BY <3>1, <3>2, <4>1
      <4> QED
        BY <1>2a, <4>2, Zenon
  <2> QED
    BY <1>1, <2>1 DEF Shaped
<1>6. \A i \in Indices(c) : \A s \in SlotsOf(c, i) : levels[i].slots[s] = <<>> /\ In(levels, i, s) = {}
  <2>1. ToSet(<<>>) = {}
    BY DEF ToSet
  <2>2. \A i \in Indices(c) : \A s \in SlotsOf(c, i) : levels[i].slots[s] = <<>>
    <3>1. \A i : \A s \in SlotsOf(c, i) : none(i)[s] = <<>>
      OBVIOUS
    <3> HIDE DEF none
    <3> QED
      BY <1>2a, <3>1
  <2> QED
    BY <2>1, <2>2 DEF In
<1>7. Linked(c, levels)
  <2>1. IsInjective(<<>>)
    BY DEF IsInjective
  <2> QED
    BY <1>5, <1>6, <2>1 DEF Linked, Apart
<1>8. Inside(c, levels) = {}
  BY <1>6 DEF Inside
<1>9. Filed(c, levels, elt)
  BY <1>6 DEF Filed
<1>10. Keys(elt)
  <2>1. elt = [x \in Cells |-> Blank]
    BY DEF Init
  <2> QED
    BY <2>1, TimesType DEF Keys, Blank
<1>11. Chained(c, levels, k, Len(c.level_bits))
  BY <1>3 DEF Chained, Indices
<1> QED
  BY <1>1, <1>7, <1>8, <1>9, <1>10, <1>11 DEF Wheel, k

LEMMA InitIInv == Init => IInv
<1> SUFFICES ASSUME Init
             PROVE  IInv
  OBVIOUS
<1> DEFINE k == Interval(config, now)
           n == Len(config.level_bits)
<1>1. /\ config \in Configs /\ now \in Times /\ k \in Times
      /\ Wheel(config, levels, elt, k) /\ Inside(config, levels) = {}
  BY InitLevels, InitWheel, IntervalFacts
<1>2. elt_key_lower_bound = k
  BY <1>1, ReadConfig DEF Init
<1>3. elt \in [Cells -> [key : Times, at : Times]]
  BY TimesType DEF Init, Blank
<1>4. n \in Indices(config)
  BY <1>1, Geometry DEF Indices
<1>5. k <= LastMax(config, levels)
  <2> HIDE DEF k
  <2>1. levels[n].min \in Times /\ levels[n].max \in Times /\ k <= levels[n].min /\ levels[n].min <= levels[n].max
    BY <1>1, <1>4, WheelFacts
  <2> HIDE DEF n
  <2>2. levels[n].min \in Nat /\ levels[n].max \in Nat /\ k \in Nat
    BY <1>1, <2>1, TimesType
  <2>3. k <= levels[n].max
    BY <2>1, <2>2
  <2> QED
    BY <2>3 DEF LastMax, n
<1>6. max_allowed_alarm_time = LatestTime(config, LastMax(config, levels))
  <2>1. Len(levels) = n
    BY <1>1, ShapedFacts DEF Wheel, Linked
  <2> QED
    BY <1>1, <2>1, LatestAlarmTimeFacts DEF Init, max_allowed_key, LastMax
<1>7. k <= k
  <2> HIDE DEF k
  <2>1. k \in Nat
    BY <1>1, TimesType
  <2> QED
    BY <2>1
<1>8. WheelInv
  BY <1>1, <1>2, <1>3, <1>5, <1>6, <1>7 DEF Init, WheelInv
<1>9. PoolInv
  <2>1. free \in SetToSeqs(Cells)
    BY DEF Init
  <2> DEFINE D == 1 .. Cardinality(Cells)
  <2>2. IsFiniteSet(Cells) /\ Cardinality(Cells) \in Nat
    BY TimingWheelAssumption, FS_CardinalityType
  <2>3. free \in [D -> Cells] /\ \A i, j \in D : i # j => free[i] # free[j]
    BY <2>1 DEF SetToSeqs
  <2>4. free \in Seq(Cells) /\ DOMAIN free = D
    BY <2>2, <2>3
  <2>5. IsFiniteSet(D) /\ Cardinality(D) = Cardinality(Cells)
    BY <2>2, FS_Interval
  <2> HIDE DEF D
  <2>6. IsInjective(free) /\ free \in Injection(D, Cells)
    BY <2>3, <2>4 DEF IsInjective, Injection
  <2>7. free \in Surjection(D, Cells)
    BY <2>2, <2>5, <2>6, FS_Injection
  <2>8. ToSet(free) = Cells
    BY <2>3, <2>4, <2>7 DEF Surjection, ToSet
  <2> QED
    BY <1>1, <2>4, <2>6, <2>8 DEF PoolInv
<1> QED
  BY <1>8, <1>9 DEF IInv

-----------------------------------------------------------------------------
(***************************************************************************)
(* The theorems.                                                           *)
(***************************************************************************)
LEMMA NextIInv == ~ ClearsCached /\ IInv /\ [Next]_vars => IInv'
<1> SUFFICES ASSUME ~ ClearsCached, IInv, [Next]_vars
             PROVE  IInv'
  OBVIOUS
<1>1. ASSUME NEW time \in Times, Add(time)
      PROVE  IInv'
  BY <1>1, AddInv
<1>2. ASSUME NEW time \in Times, AdvanceClock(time)
      PROVE  IInv'
  BY <1>2, AdvanceClockInv
<1>3. ASSUME NEW time \in Times, AdvanceClockStopAtNextAlarm(time)
      PROVE  IInv'
  BY <1>3, AdvanceClockStopAtNextAlarmInv
<1>4. ASSUME NEW time \in Times, NEW x \in Cells, Reschedule(x, time)
      PROVE  IInv'
  BY <1>4, RescheduleInv
<1>5. ASSUME NEW x \in Cells, Remove1(x)
      PROVE  IInv'
  BY <1>5, Remove1Inv
<1>6. CASE MinElt
  BY <1>6, MinEltInv
<1>7. CASE FirePastAlarms
  BY <1>7, FirePastAlarmsInv
<1>8. CASE Clear
  BY <1>8, ClearInv
<1>9. CASE UNCHANGED vars
  BY <1>9 DEF IInv, WheelInv, PoolInv, vars
<1> QED
  BY <1>1, <1>2, <1>3, <1>4, <1>5, <1>6, <1>7, <1>8, <1>9 DEF Next

LEMMA IInvTypeOK == IInv => TypeOK
<1> SUFFICES ASSUME IInv
             PROVE  TypeOK
  OBVIOUS
<1> DEFINE c == config
           all == Inside(c, levels)
<1>1. /\ c \in Configs /\ Linked(c, levels) /\ Shaped(c, levels) /\ Apart(c, levels)
      /\ elt \in [Cells -> [key : Times, at : Times]]
      /\ {elt_key_lower_bound, now} \subseteq Times
      /\ min_elt = Null \/ \E x \in all : min_elt = Pointer(x)
      /\ max_allowed_alarm_time = LatestTime(c, LastMax(c, levels))
      /\ free \in Seq(Cells) /\ IsInjective(free) /\ ToSet(free) = Cells \ all
      /\ all \subseteq Cells
  BY DEF IInv, WheelInv, PoolInv, Wheel, Linked, Inside
<1>2. Levels = Indices(c) /\ \A i : Slots(i) = SlotsOf(c, i)
  BY <1>1, ReadConfig
<1>3. /\ DOMAIN levels = Levels
      /\ \A i \in Levels : /\ {levels[i].min, levels[i].max} \subseteq Times
                           /\ DOMAIN levels[i].slots = Slots(i)
  BY <1>1, <1>2, ShapedFacts
<1>4. min_elt \in {Null} \cup [cell : Cells, valid : BOOLEAN]
  <2>1. \A x \in Cells : Pointer(x) \in [cell : Cells, valid : BOOLEAN]
    BY Zenon DEF Pointer
  <2> QED
    BY <1>1, <2>1
<1>5. max_allowed_alarm_time \in Times
  BY <1>1, ReadState, LatestFacts
<1>6. ASSUME NEW p \in Lists
      PROVE  \/ p = <<0, 0>> /\ List(p) = free
             \/ \E i \in Indices(c) : \E s \in SlotsOf(c, i) :
                   p = <<i, s>> /\ List(p) = levels[i].slots[s] /\ ToSet(List(p)) = In(levels, i, s)
  <2>1. CASE p = <<0, 0>>
    BY <2>1 DEF List
  <2>2. CASE p # <<0, 0>>
    <3>1. PICK i \in Indices(c) : p \in {i} \X SlotsOf(c, i)
      BY <1>2, <2>2 DEF Lists
    <3>2. p = <<i, p[2]>> /\ p[1] = i /\ p[2] \in SlotsOf(c, i)
      BY <3>1
    <3>3. List(p) = levels[i].slots[p[2]]
      BY <2>2, <3>2 DEF List
    <3> QED
      BY <3>2, <3>3 DEF In
  <2> QED
    BY <2>1, <2>2
<1>7. \A p \in Lists : List(p) \in Seq(Cells) /\ IsInjective(List(p))
  BY <1>1, <1>6, ShapedFacts DEF Apart
<1>8. ASSUME NEW p \in Lists, NEW q \in Lists, NEW x, x \in ToSet(List(p)), x \in ToSet(List(q))
      PROVE  p = q
  <2>1. x \in Cells
    BY <1>7, <1>8 DEF ToSet
  <2>2. ASSUME NEW i \in Indices(c), NEW s \in SlotsOf(c, i), x \in In(levels, i, s)
        PROVE  x \notin ToSet(free)
    BY <1>1, <2>1, <2>2 DEF Inside
  <2>3. CASE p = <<0, 0>> /\ List(p) = free
    BY <1>6, <1>8, <2>2, <2>3
  <2>4. CASE q = <<0, 0>> /\ List(q) = free
    BY <1>6, <1>8, <2>2, <2>4
  <2>5. CASE /\ \E i \in Indices(c) : \E s \in SlotsOf(c, i) : p = <<i, s>> /\ ToSet(List(p)) = In(levels, i, s)
             /\ \E j \in Indices(c) : \E t \in SlotsOf(c, j) : q = <<j, t>> /\ ToSet(List(q)) = In(levels, j, t)
    BY <1>1, <1>8, <2>1, <2>5 DEF Apart
  <2> QED
    BY <1>6, <2>3, <2>4, <2>5
<1>9. Members \cup ToSet(free) = Cells
  BY <1>1, ReadState
<1> QED
  BY <1>1, <1>3, <1>4, <1>5, <1>7, <1>8, <1>9 DEF TypeOK

LEMMA IInvConsistent == IInv => WheelConsistent
<1> SUFFICES ASSUME IInv
             PROVE  WheelConsistent
  OBVIOUS
<1> DEFINE c == config
           all == Inside(c, levels)
           k == Interval(c, now)
<1>1. /\ c \in Configs /\ Linked(c, levels) /\ Shaped(c, levels) /\ Filed(c, levels, elt)
      /\ Chained(c, levels, k, Len(c.level_bits))
      /\ \A x \in all : elt[x].key = Interval(c, elt[x].at) /\ elt_key_lower_bound <= elt[x].key
      /\ k <= elt_key_lower_bound /\ elt_key_lower_bound <= LastMax(c, levels)
      /\ \/ min_elt = Null
         \/ \E x \in all : min_elt = Pointer(x) /\ elt[x].key = elt_key_lower_bound
      /\ max_allowed_alarm_time = LatestTime(c, LastMax(c, levels))
  BY DEF IInv, WheelInv, PoolInv, Wheel, Linked
<1>2. /\ Levels = Indices(c) /\ \A t : interval_num(t) = Interval(c, t)
      /\ \A i : Slots(i) = SlotsOf(c, i) /\ \A m : slot(i, m) = SlotOf(c, i, m)
      /\ \A i, m : compute_min_allowed_key(i, m) = Wanted(c, i, m)
      /\ \A i \in Indices(c) : diff_max_min_allowed_key(i) = Cover(c, i) - 1
  BY <1>1, ReadConfig
<1>3. min_allowed_key = k /\ max_allowed_key = LastMax(c, levels) /\ LastMax(c, levels) \in Times
  BY ReadState
<1>4. AllowedTimesKnown
  <2> DEFINE late == LatestTime(c, LastMax(c, levels))
             S == {time \in Times : interval_num(time) <= max_allowed_key}
  <2>1. late \in Times /\ \A t \in Times : t <= late <=> Interval(c, t) <= LastMax(c, levels)
    BY <1>1, <1>3, LatestFacts
  <2>2. S = {t \in Times : t <= late}
    BY <1>2, <1>3, <2>1
  <2> HIDE DEF late, S
  <2>3. \A t \in Times : t \in Nat
    BY TimesType
  <2>4. late \in S /\ \A t \in S : late >= t
    BY <2>1, <2>2, <2>3
  <2>5. \A m \in S : (\A t \in S : m >= t) => m = late
    BY <2>1, <2>2, <2>3, <2>4
  <2>6. Max(S) = late
    BY <2>4, <2>5 DEF Max
  <2> QED
    BY <1>1, <2>6 DEF AllowedTimesKnown, late, S
<1> HIDE DEF k
<1>5. /\ \A i \in Levels \ {1} : levels[i].min = compute_min_allowed_key(i, levels[i - 1].max)
      /\ \A i \in Levels : levels[i].max = add_clamp_to_max(levels[i].min, diff_max_min_allowed_key(i))
  <2>1. \A i \in Indices(c) : Bounds(c, levels, i, k)
    BY <1>1 DEF Chained, Indices
  <2> QED
    BY <1>2, <2>1 DEF Bounds, Prev, Upper
<1>6. \A i \in Levels : \A s \in Slots(i) : \A x \in ToSet(levels[i].slots[s]) :
         /\ elt[x].key = interval_num(elt[x].at)
         /\ slot(i, elt[x].key) = s
         /\ levels[i].min <= elt[x].key /\ elt[x].key <= levels[i].max
         /\ elt_key_lower_bound <= elt[x].key
  <2> SUFFICES ASSUME NEW i \in Indices(c), NEW s \in SlotsOf(c, i), NEW x \in In(levels, i, s)
               PROVE  /\ elt[x].key = Interval(c, elt[x].at)
                      /\ SlotOf(c, i, elt[x].key) = s
                      /\ levels[i].min <= elt[x].key /\ elt[x].key <= levels[i].max
                      /\ elt_key_lower_bound <= elt[x].key
    BY <1>2 DEF In
  <2>1. x \in all
    BY <1>1, ShapedFacts DEF Inside
  <2> QED
    BY <1>1, <2>1 DEF Filed
<1>7. min_elt # Null => min_elt.valid /\ elt[min_elt.cell].key = elt_key_lower_bound
  BY <1>1, PointerFacts
<1> QED
  BY <1>1, <1>2, <1>3, <1>4, <1>5, <1>6, <1>7, IInvTypeOK DEF WheelConsistent, k

LEMMA IInvMinFound == IInv => MinFound
<1> SUFFICES ASSUME IInv, Members # {}
             PROVE  MinKey = Min({elt[x].key : x \in Members})
  BY DEF MinFound
<1> DEFINE all == Inside(config, levels)
           S == {elt[x].key : x \in all}
<1>1. Members = all /\ all # {} /\ \A x \in all : elt[x].key \in Nat
  BY ReadState, TimesType DEF Keys, Inside
<1>2. PICK x \in all : FoundMin = [elt |-> Pointer(x), key |-> elt[x].key]
  BY <1>1, FoundInv
<1>3. FoundMin.elt = Pointer(x) /\ FoundMin.key = elt[x].key
  BY <1>2
<1>4. MinKey = elt[x].key
  BY <1>3, PointerFacts DEF MinKey
<1>5. elt[x].key \in S /\ \A n \in S : elt[x].key <= n
  BY <1>1, <1>3, FoundInv
<1>6. Min(S) \in S /\ \A n \in S : Min(S) <= n
  <2>1. S \in SUBSET Nat /\ S # {}
    BY <1>1, <1>5
  <2> HIDE DEF S
  <2> QED
    BY <2>1, MinFacts
<1>7. S \subseteq Nat
  BY <1>1
<1> HIDE DEF S
<1>8. Min(S) = elt[x].key
  <2>1. Min(S) \in Nat /\ elt[x].key \in Nat
    BY <1>5, <1>6, <1>7
  <2>2. Min(S) <= elt[x].key /\ elt[x].key <= Min(S)
    BY <1>5, <1>6
  <2> QED
    BY <2>1, <2>2
<1> QED
  BY <1>1, <1>4, <1>8 DEF S

(* As long as a wheel is cleared only while no minimum is cached, its       *)
(* inductive invariant holds after every operation.                        *)
THEOREM Inductive == ~ ClearsCached => (Spec => []IInv)
<1>1. Init => IInv
  BY InitIInv
<1>2. ~ ClearsCached => (IInv /\ [Next]_vars => IInv')
  BY NextIInv
<1> SUFFICES ASSUME ~ ClearsCached
             PROVE  Spec => []IInv
  OBVIOUS
<1>3. IInv /\ [Next]_vars => IInv'
  BY <1>2
<1> QED
  BY <1>1, <1>3, PTL DEF Spec

(* Every alarm is where its key says, in the slots that a search or an      *)
(* advance will look at, nothing is below the lower bound, and an alarm can *)
(* be set up to the last time whose interval the levels hold, for every    *)
(* number and width of levels (Priority_queue.invariant).                  *)
THEOREM AlwaysConsistent == ~ ClearsCached => (Spec => []WheelConsistent)
<1>1. IInv => WheelConsistent
  BY IInvConsistent
<1>2. ~ ClearsCached => (Spec => []IInv)
  BY Inductive
<1> QED
  BY <1>1, <1>2, PTL

(* The search from the lower bound on finds an alarm with the least key of  *)
(* all, whatever was added, removed, moved or fired since the last (min_elt_). *)
THEOREM AlwaysMinFound == ~ ClearsCached => (Spec => []MinFound)
<1>1. IInv => MinFound
  BY IInvMinFound
<1>2. ~ ClearsCached => (Spec => []IInv)
  BY Inductive
<1> QED
  BY <1>1, <1>2, PTL

LEMMA NextMembers ==
  ASSUME IInv'
  PROVE  Members' = Inside(config', levels')
<1>1. config' \in Configs /\ Shaped(config', levels')
  BY DEF IInv, WheelInv, Wheel, Linked
<1> DEFINE c == config'
           ls == levels'
<1>2. c \in Configs /\ Shaped(c, ls)
  BY <1>1
<1> HIDE DEF c, ls
<1>3. UNION {InLevel(ls[i]) : i \in DOMAIN ls} = Inside(c, ls)
  BY <1>2, MembersInside
<1> QED
  BY <1>3 DEF Members, InLevel, c, ls

LEMMA StopsStep ==
  ASSUME IInv, NEW to \in Times, AdvanceClockStopAtNextAlarm(to), IInv'
  PROVE  /\ Members' = Members
         /\ \E c \in FirstInterval :
               /\ now' = Greatest(now, Least(to, elt[c].at))
               /\ \A d \in FirstInterval : InOneSlot(c, d) => elt[c].at <= elt[d].at
<1>1. Members = Inside(config, levels) /\ Members' = Inside(config', levels')
  <2>1. Members = Inside(config, levels)
    BY ReadState
  <2>2. Members' = Inside(config', levels')
    BY NextMembers
  <2> QED
    BY <2>1, <2>2
<1>2. config' = config /\ Inside(config, levels') = Inside(config, levels)
  BY AdvanceClockStopAtNextAlarmInv
<1>3. \E c \in FirstInterval :
         /\ now' = Greatest(now, Least(to, elt[c].at))
         /\ \A d \in FirstInterval : InOneSlot(c, d) => elt[c].at <= elt[d].at
  BY AdvanceClockStopAtNextAlarmInv
<1> QED
  BY <1>1, <1>2, <1>3

(* advance_clock_stop_at_next_alarm fires nothing on its way and comes to  *)
(* the earlier of the time asked for and an alarm of the first interval,   *)
(* the earliest of its slot.                                               *)
THEOREM AlwaysStopsInFirstInterval == ~ ClearsCached => (Spec => StopsInFirstInterval)
<1>1. IInv /\ IInv' /\ [Next]_vars =>
         [\A to \in Times : AdvanceClockStopAtNextAlarm(to) =>
             /\ Members' = Members
             /\ \E c \in FirstInterval :
                   /\ now' = Greatest(now, Least(to, elt[c].at))
                   /\ \A d \in FirstInterval : InOneSlot(c, d) => elt[c].at <= elt[d].at]_vars
  BY StopsStep
<1>2. ~ ClearsCached => (Spec => []IInv)
  BY Inductive
<1> QED
  BY <1>1, <1>2, PTL DEF Spec, StopsInFirstInterval

-----------------------------------------------------------------------------
(***************************************************************************)
(* The wheel as a set of alarms.                                           *)
(***************************************************************************)
(* The last key is not the first of a slot, but in the first level.        *)
LEMMA LastKeyNotFirst ==
  ASSUME NEW c \in Configs, NEW i \in Indices(c), i - 1 \in Indices(c)
  PROVE  Floor(c, i, MaxKey) # MaxKey
<1> DEFINE j == i - 1
           bits == c.level_bits[j]
           half == Per(c, j) * 2 ^ (bits - 1)
           q == MaxKey \div Per(c, i)
<1>1. /\ i \in Nat /\ j \in Nat /\ j + 1 = i /\ Per(c, i) = Per(c, j) * Num(c, j) /\ MaxKey \in Nat
      /\ Per(c, j) \in Nat
  <2>1. i \in Nat /\ j \in Indices(c) /\ j \in Nat /\ j + 1 = i /\ j + 1 \in Indices(c)
    BY Geometry DEF Indices
  <2> HIDE DEF j
  <2>2. Per(c, j + 1) = Cover(c, j) /\ Per(c, j) \in Nat
    BY <2>1, Geometry
  <2> QED
    BY <2>1, <2>2, TimesType DEF Cover
<1>2. bits \in Nat \ {0}
  BY ConfigType DEF Indices
<1>3. 2 ^ bits = 2 * 2 ^ (bits - 1) /\ 2 ^ (bits - 1) \in Nat
  <2>1. bits - 1 \in Nat /\ (bits - 1) + 1 = bits
    BY <1>2
  <2> HIDE DEF bits
  <2> QED
    BY <2>1, PowNext, PowType
<1>4. Per(c, i) = 2 * half /\ half \in Nat
  <2>1. ASSUME NEW a \in Nat, NEW b \in Nat
        PROVE  a * (2 * b) = 2 * (a * b) /\ a * b \in Nat
    OBVIOUS
  <2>2. Per(c, i) = Per(c, j) * (2 * 2 ^ (bits - 1))
    BY <1>1, <1>3 DEF Num
  <2> QED
    BY <1>1, <1>3, <2>1, <2>2
<1>5. Floor(c, i, MaxKey) = Per(c, i) * q /\ q \in Nat
  BY <1>1, FloorFacts
<1>6. \E m \in Nat : MaxKey + 1 = 2 * m
  <2>1. Width \in Nat /\ Width # 0
    <3>1. Cover(c, i) \in Nat \ {0, 1} /\ Cover(c, i) - 1 <= MaxKey
      BY Geometry
    <3>2. MaxKey # 0
      BY <1>1, <3>1
    <3> QED
      <4>1. MaxKey + 1 = 2 ^ Width /\ MaxKey \in Nat /\ Width \in Nat
        BY TimesType, TimingWheelAssumption
      <4>2. Width = 0 => 2 ^ Width = 1
        BY PowZero, Zenon
      <4> QED
        BY <3>2, <4>1, <4>2
  <2>2. Width - 1 \in Nat /\ (Width - 1) + 1 = Width
    BY <2>1
  <2>3. 2 ^ Width = 2 * 2 ^ (Width - 1) /\ 2 ^ (Width - 1) \in Nat
    BY <2>2, PowNext, PowType
  <2> QED
    BY <2>3, TimesType
<1> HIDE DEF q, half, j
<1>7. Floor(c, i, MaxKey) = 2 * (half * q) /\ half * q \in Nat
  <2>1. ASSUME NEW a \in Nat, NEW b \in Nat
        PROVE  (2 * a) * b = 2 * (a * b) /\ a * b \in Nat
    OBVIOUS
  <2> QED
    BY <1>4, <1>5, <2>1
<1>8. \A a, m \in Nat : 2 * a + 1 # 2 * m
  OBVIOUS
<1> QED
  BY <1>6, <1>7, <1>8

(* An alarm of the current interval is in the first level. *)
LEMMA CurrentInFirstLevel ==
  ASSUME NEW c \in Configs, NEW ls, NEW e, NEW k, Wheel(c, ls, e, k),
         NEW x \in Inside(c, ls), e[x].key = k
  PROVE  x \in In(ls, 1, SlotOf(c, 1, k))
<1>1. PICK i \in Indices(c) : \E s \in SlotsOf(c, i) : x \in In(ls, i, s)
  BY DEF Inside
<1>2. x \in In(ls, i, SlotOf(c, i, k)) /\ ls[i].min <= Floor(c, i, k)
  BY <1>1 DEF Wheel, Filed
<1>3. CASE i = 1
  BY <1>2, <1>3
<1>4. CASE i # 1
  <2> DEFINE p == ls[i - 1].max
  <2>1. /\ i \in Nat /\ i - 1 \in Indices(c) /\ (i - 1) + 1 = i
    BY <1>4, Geometry DEF Indices
  <2>2. /\ ls[i - 1].min \in Times /\ p \in Times /\ k <= ls[i - 1].min
        /\ p = Upper(c, i - 1, ls[i - 1].min) /\ ls[i].min = Wanted(c, i, p)
    BY <1>4, <2>1, WheelFacts DEF Wheel, Chained, Bounds, Prev, Indices
  <2>3. /\ k \in Nat /\ k <= MaxKey /\ MaxKey \in Nat /\ k \in Times
        /\ ls[i - 1].min \in Nat /\ p \in Nat
    BY <2>2, TimesType DEF Wheel, Times
  <2>4. Floor(c, i, k) \in Nat /\ Floor(c, i, k) <= k
    BY <2>3, FloorFacts
  <2> HIDE DEF p
  <2>5. CASE p = MaxKey
    <3>1. ls[i].min = MaxKey
      BY <2>2, <2>5 DEF Wanted
    <3>2. k = MaxKey /\ Floor(c, i, k) = MaxKey
      BY <1>2, <2>3, <2>4, <3>1
    <3> QED
      BY <2>1, <3>2, LastKeyNotFirst
  <2>6. CASE p # MaxKey
    <3>1. p = ls[i - 1].min + Cover(c, i - 1) - 1 /\ Per(c, i) = Cover(c, i - 1) /\ Per(c, i) \in Nat
      BY <2>1, <2>2, <2>6, UpperFacts, Geometry
    <3>2. ls[i].min = Floor(c, i, p + 1)
      BY <2>2, <2>6 DEF Wanted
    <3>3. p + 1 < ls[i].min + Per(c, i) /\ ls[i].min \in Nat
      BY <2>3, <3>2, FloorFacts
    <3>4. p + 1 = ls[i - 1].min + Per(c, i)
      BY <2>3, <3>1
    <3>5. ls[i - 1].min < ls[i].min
      BY <2>3, <3>1, <3>3, <3>4
    <3> QED
      BY <1>2, <2>2, <2>3, <2>4, <3>3, <3>5
  <2> QED
    BY <2>5, <2>6
<1> QED
  BY <1>3, <1>4

LEMMA PastInFirstSlot ==
  ASSUME IInv
  PROVE  {x \in In(levels, 1, SlotOf(config, 1, Interval(config, now))) : elt[x].at <= now}
            = {x \in Inside(config, levels) : elt[x].at <= now}
<1> DEFINE c == config
           k == Interval(c, now)
<1>1. /\ c \in Configs /\ now \in Times /\ Wheel(c, levels, elt, k) /\ Shaped(c, levels)
      /\ \A x \in Inside(c, levels) : elt[x].key = Interval(c, elt[x].at) /\ elt[x].at \in Times
  BY DEF IInv, WheelInv, Wheel, Linked, Inside
<1>2. k \in Times /\ k \in Nat
  BY <1>1, IntervalFacts, TimesType
<1>3. In(levels, 1, SlotOf(c, 1, k)) \subseteq Inside(c, levels)
  <2>1. 1 \in Indices(c) /\ SlotOf(c, 1, k) \in SlotsOf(c, 1)
    BY <1>1, <1>2, Geometry, SlotType
  <2> QED
    BY <1>1, <2>1, ShapedFacts DEF Inside
<1>4. ASSUME NEW x \in Inside(c, levels), elt[x].at <= now
      PROVE  x \in In(levels, 1, SlotOf(c, 1, k))
  <2>1. k <= elt[x].key /\ elt[x].key \in Nat
    BY <1>1, WheelFacts, TimesType
  <2>2. elt[x].key <= k
    BY <1>1, <1>4, IntervalFacts
  <2>3. elt[x].key = k
    BY <1>2, <2>1, <2>2
  <2> HIDE DEF k
  <2> QED
    BY <1>1, <2>3, CurrentInFirstLevel
<1> QED
  BY <1>3, <1>4

(* The alarms that are set, with their times. *)
AlarmTimes == [x \in Members |-> elt[x].at]

LEMMA ReadAlarms ==
  ASSUME IInv
  PROVE  /\ AlarmTimes = [x \in Inside(config, levels) |-> elt[x].at]
         /\ \A t : Alarms!Interval(t) = Interval(config, t)
         /\ now \in Times
         /\ \A x \in Inside(config, levels) : /\ elt[x].at \in Times
                                              /\ elt[x].key = Interval(config, elt[x].at)
BY ReadState DEF AlarmTimes, Alarms!Interval, Interval, IInv, WheelInv, Inside

(* A step that drops some alarms, and keeps the others as they are. *)
LEMMA DropsAlarms ==
  ASSUME IInv, IInv', config' = config, NEW S, Inside(config, levels') = Inside(config, levels) \ S,
         \A x \in Inside(config, levels') : elt'[x] = elt[x]
  PROVE  AlarmTimes' = Alarms!Without(S)
<1> DEFINE f == [x \in Inside(config, levels) |-> elt[x].at]
<1>1. AlarmTimes = f /\ Members = Inside(config, levels)
  BY ReadAlarms, ReadState
<1>2. AlarmTimes' = [x \in Inside(config, levels') |-> elt'[x].at]
  BY NextMembers DEF AlarmTimes
<1>3. Alarms!Without(S) = [x \in Members \ S |-> AlarmTimes[x]]
  <2>1. Alarms!Without(S) = [x \in DOMAIN AlarmTimes \ S |-> AlarmTimes[x]]
    BY DEF Alarms!Without, Alarms!Restrict, AlarmTimes
  <2>2. DOMAIN AlarmTimes = Members
    BY DEF AlarmTimes
  <2> QED
    BY <2>1, <2>2
<1> QED
  BY <1>1, <1>2, <1>3

LEMMA InitAlarms == Init => Alarms!Init
<1> SUFFICES ASSUME Init
             PROVE  Alarms!Init
  OBVIOUS
<1>1. IInv /\ Inside(config, levels) = {}
  BY InitIInv, InitWheel
<1>2. AlarmTimes = <<>>
  <2>1. Members = {}
    BY <1>1, ReadState
  <2>2. AlarmTimes = [x \in {} |-> elt[x].at]
    BY <2>1 DEF AlarmTimes
  <2> QED
    BY <2>2
<1>3. config \in Configs /\ now \in Times
  BY <1>1 DEF IInv, WheelInv
<1>4. 2 ^ config.alarm_precision \in Nat \ {0}
  BY <1>3, Geometry
<1> QED
  BY <1>2, <1>3, <1>4 DEF Alarms!Init, AlarmTimes

LEMMA SetsAlarm ==
  ASSUME IInv, IInv', NEW time \in Times, CanSchedule(time), NEW x \in Cells,
         elt' = [elt EXCEPT ![x] = New(time)], UNCHANGED <<config, now>>,
         Inside(config, levels') = Inside(config, levels) \cup {x}
  PROVE  Alarms!Next
<1> DEFINE all == Inside(config, levels)
           f == [y \in all |-> elt[y].at]
<1>1. /\ AlarmTimes = f /\ Members = all /\ all \subseteq Cells
      /\ Alarms!Interval(time) = Interval(config, time) /\ Alarms!Interval(now) = Interval(config, now)
  BY ReadAlarms, ReadState
<1>2. AlarmTimes' = [y \in all \cup {x} |-> elt'[y].at]
  BY NextMembers DEF AlarmTimes
<1>3. /\ New(time).at = time /\ Interval(config, now) <= Interval(config, time)
      /\ config \in Configs /\ elt \in [Cells -> [key : Times, at : Times]]
  BY CanScheduleFacts DEF IInv, WheelInv
<1>4. \A y \in all \cup {x} : elt'[y].at = IF y = x THEN time ELSE f[y]
  BY <1>1, <1>3
<1>5. AlarmTimes' = [b \in DOMAIN AlarmTimes \cup {x} |-> IF b = x THEN time ELSE AlarmTimes[b]]
  BY <1>1, <1>2, <1>4
<1>6. Interval(config, time) >= Interval(config, now)
  <2>1. Interval(config, time) \in Nat /\ Interval(config, now) \in Nat
    BY <1>3, ReadAlarms, IntervalFacts, TimesType
  <2> QED
    BY <1>3, <2>1
<1>7. Alarms!Set(x, time)
  BY <1>1, <1>5, <1>6 DEF Alarms!Set, AlarmTimes
<1> QED
  BY <1>7 DEF Alarms!Next

(* advance_clock to a later time. *)
LEMMA AdvancesAlarms ==
  ASSUME IInv, IInv', NEW to \in Times, to > now, now' = to, config' = config,
         Inside(config, levels') = {x \in Inside(config, levels) : Interval(config, to) <= elt[x].key},
         \A x \in Inside(config, levels') : elt'[x] = elt[x]
  PROVE  Alarms!Next
<1> DEFINE all == Inside(config, levels)
           S == {x \in DOMAIN AlarmTimes : Alarms!Interval(AlarmTimes[x]) < Alarms!Interval(to)}
<1>1. /\ DOMAIN AlarmTimes = all /\ \A x \in all : AlarmTimes[x] = elt[x].at
      /\ \A t : Alarms!Interval(t) = Interval(config, t)
      /\ config \in Configs
      /\ \A x \in all : elt[x].at \in Times /\ elt[x].key = Interval(config, elt[x].at)
  BY ReadAlarms DEF IInv, WheelInv
<1>2. \A t \in Times : Interval(config, t) \in Nat
  BY <1>1, IntervalFacts, TimesType
<1>3. \A x \in all : x \in S <=> ~ (Interval(config, to) <= elt[x].key)
  <2> SUFFICES ASSUME NEW x \in all
               PROVE  x \in S <=> ~ (Interval(config, to) <= elt[x].key)
    OBVIOUS
  <2>1. x \in S <=> elt[x].key < Interval(config, to)
    BY <1>1
  <2>2. elt[x].key \in Nat /\ Interval(config, to) \in Nat
    BY <1>1, <1>2
  <2> QED
    BY <2>1, <2>2
<1>4. Inside(config, levels') = all \ S
  BY <1>3
<1> HIDE DEF S
<1>5. AlarmTimes' = Alarms!Without(S)
  BY <1>4, DropsAlarms
<1>6. Alarms!Advance(to)
  BY <1>5 DEF Alarms!Advance, S, AlarmTimes
<1> QED
  BY <1>6 DEF Alarms!Next

(* The alarms as they were. *)
LEMMA KeepsAlarms ==
  ASSUME IInv, IInv', UNCHANGED <<config, now>>, Inside(config, levels') = Inside(config, levels),
         \A x \in Inside(config, levels') : elt'[x] = elt[x]
  PROVE  UNCHANGED Alarms!vars
<1>1. /\ AlarmTimes = [x \in Inside(config, levels) |-> elt[x].at]
      /\ AlarmTimes' = [x \in Inside(config, levels') |-> elt'[x].at]
  BY ReadAlarms, NextMembers DEF AlarmTimes
<1>2. AlarmTimes' = AlarmTimes
  BY <1>1
<1> QED
  BY <1>2 DEF Alarms!vars, AlarmTimes

LEMMA AlarmSteps == ~ ClearsCached /\ IInv /\ [Next]_vars => [Alarms!Next]_(Alarms!vars)
<1> SUFFICES ASSUME ~ ClearsCached, IInv, [Next]_vars
             PROVE  Alarms!Next \/ UNCHANGED Alarms!vars
  OBVIOUS
<1>0. IInv'
  BY NextIInv
<1>1. ASSUME NEW time \in Times, Add(time)
      PROVE  Alarms!Next
  <2>1. /\ CanSchedule(time) /\ elt' = [elt EXCEPT ![Head(free)] = New(time)]
        /\ UNCHANGED <<config, now>>
    BY <1>1 DEF Add
  <2>2. Inside(config, levels') = Inside(config, levels) \cup {Head(free)}
    BY <1>1, AddInv
  <2>3. Head(free) \in Cells
    BY <1>1, TailFacts DEF Add, IInv, PoolInv
  <2> QED
    BY <1>0, <2>1, <2>2, <2>3, SetsAlarm
<1>2. ASSUME NEW time \in Times, AdvanceClock(time)
      PROVE  Alarms!Next
  <2>1. time > now
    BY <1>2 DEF AdvanceClock
  <2>2. /\ now' = time /\ config' = config
        /\ Inside(config, levels') = {x \in Inside(config, levels) : Interval(config, time) <= elt[x].key}
        /\ \A x \in Inside(config, levels') : elt'[x] = elt[x]
    BY <1>2, AdvanceClockInv
  <2> QED
    BY <1>0, <2>1, <2>2, AdvancesAlarms
<1>3. ASSUME NEW time \in Times, AdvanceClockStopAtNextAlarm(time)
      PROVE  Alarms!Next \/ UNCHANGED Alarms!vars
  <2>0. PICK next \in Times :
           /\ now' = Greatest(now, next)
           /\ \A x \in Inside(config, levels) : Interval(config, next) <= elt[x].key
    BY <1>3, AdvanceClockStopAtNextAlarmInv
  <2>1. /\ next \in Times /\ now' = Greatest(now, next) /\ config' = config
        /\ \A x \in Inside(config, levels) : Interval(config, next) <= elt[x].key
        /\ Inside(config, levels') = Inside(config, levels)
        /\ \A x \in Inside(config, levels') : elt'[x] = elt[x]
    BY <1>3, <2>0, AdvanceClockStopAtNextAlarmInv
  <2>2. now \in Nat /\ next \in Nat
    BY <2>1, ReadAlarms, TimesType
  <2>3. CASE next > now
    <3>1. now' = next
      BY <2>1, <2>2, <2>3 DEF Greatest
    <3>2. Inside(config, levels') = {x \in Inside(config, levels) : Interval(config, next) <= elt[x].key}
      BY <2>1
    <3> QED
      BY <1>0, <2>1, <2>3, <3>1, <3>2, AdvancesAlarms
  <2>4. CASE ~ (next > now)
    <3>1. now' = now
      BY <2>1, <2>2, <2>4 DEF Greatest
    <3> QED
      BY <1>0, <2>1, <3>1, KeepsAlarms
  <2> QED
    BY <2>3, <2>4
<1>4. ASSUME NEW time \in Times, NEW x \in Cells, Reschedule(x, time)
      PROVE  Alarms!Next
  <2>1. /\ x \in Inside(config, levels) /\ CanSchedule(time) /\ elt' = [elt EXCEPT ![x] = New(time)]
        /\ UNCHANGED <<config, now>>
    BY <1>4, ReadState DEF Reschedule
  <2>2. Inside(config, levels') = Inside(config, levels) \cup {x}
    BY <1>4, <2>1, RescheduleInv
  <2> QED
    BY <1>0, <2>1, <2>2, SetsAlarm
<1>5. ASSUME NEW x \in Cells, Remove1(x)
      PROVE  Alarms!Next
  <2>1. /\ x \in Members /\ UNCHANGED <<config, now>>
        /\ Inside(config, levels') = Inside(config, levels) \ {x}
        /\ \A y \in Inside(config, levels') : elt'[y] = elt[y]
    BY <1>5, Remove1Inv DEF Remove1
  <2>2. AlarmTimes' = Alarms!Without({x})
    BY <1>0, <2>1, DropsAlarms
  <2>3. Alarms!Remove(x)
    BY <2>1, <2>2 DEF Alarms!Remove, AlarmTimes
  <2> QED
    BY <2>3 DEF Alarms!Next
<1>6. CASE MinElt
  <2>1. Inside(config, levels') = Inside(config, levels) /\ UNCHANGED <<config, elt, now>>
    BY <1>6, MinEltInv
  <2> QED
    BY <1>0, <2>1, KeepsAlarms
<1>7. CASE FirePastAlarms
  <2> DEFINE S == {x \in DOMAIN AlarmTimes : AlarmTimes[x] <= now}
  <2>1. /\ UNCHANGED <<config, now>>
        /\ Inside(config, levels') = Inside(config, levels) \ {x \in Inside(config, levels) : elt[x].at <= now}
        /\ \A x \in Inside(config, levels') : elt'[x] = elt[x]
    BY <1>7, FirePastAlarmsInv, PastInFirstSlot
  <2>2. S = {x \in Inside(config, levels) : elt[x].at <= now}
    BY ReadAlarms
  <2>3. Inside(config, levels') = Inside(config, levels) \ S
    BY <2>1, <2>2
  <2> HIDE DEF S
  <2>4. AlarmTimes' = Alarms!Without(S)
    BY <1>0, <2>1, <2>3, DropsAlarms
  <2>5. Alarms!FirePast
    BY <2>1, <2>4 DEF Alarms!FirePast, S, AlarmTimes
  <2> QED
    BY <2>5 DEF Alarms!Next
<1>8. CASE Clear
  <2>1. UNCHANGED <<config, now>> /\ Inside(config, levels') = {}
    BY <1>8, ClearInv
  <2>2. AlarmTimes' = [x \in {} |-> elt'[x].at]
    BY <1>0, <2>1, NextMembers DEF AlarmTimes
  <2>3. AlarmTimes' = <<>>
    BY <2>2
  <2>4. Alarms!Clear
    BY <2>1, <2>3 DEF Alarms!Clear, AlarmTimes
  <2> QED
    BY <2>4 DEF Alarms!Next
<1>9. CASE UNCHANGED vars
  BY <1>9 DEF vars, Alarms!vars, Members, InLevel
<1> QED
  BY <1>1, <1>2, <1>3, <1>4, <1>5, <1>6, <1>7, <1>8, <1>9 DEF Next

(* The wheel is the set of alarms of timing_wheel_intf.ml: an alarm is fired *)
(* by the first advance to a later interval and by none before, by          *)
(* fire_past_alarms exactly when its time has passed, and is lost in no     *)
(* other way, whatever the levels.                                         *)
THEOREM TimingWheelImplementsAlarmSet == ~ ClearsCached => (Spec => ImplementsAlarmSet)
<1>1. Init => Alarms!Init
  BY InitAlarms
<1>2. ~ ClearsCached => (Spec => []IInv)
  BY Inductive
<1>3. ~ ClearsCached /\ IInv /\ [Next]_vars => [Alarms!Next]_(Alarms!vars)
  BY AlarmSteps
<1> SUFFICES ASSUME ~ ClearsCached
             PROVE  Spec => ImplementsAlarmSet
  OBVIOUS
<1>4. Spec => []IInv
  BY <1>2
<1>5. IInv /\ [Next]_vars => [Alarms!Next]_(Alarms!vars)
  BY <1>3
<1> QED
  BY <1>1, <1>4, <1>5, PTL DEF Spec, Alarms!Spec, ImplementsAlarmSet
=============================================================================

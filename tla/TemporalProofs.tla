--------------------------- MODULE TemporalProofs ---------------------------
(***************************************************************************)
(* Proofs about Temporal, for any starting objects, arguments, zones,      *)
(* radices of a day and limits of instants that satisfy the assumptions    *)
(* the modules state.  Dates are good when their month has their day and   *)
(* they lie within the limits; the invariant ObjectsFine says that a       *)
(* program never holds an object with a worse one, or with an instant, a   *)
(* time or a zone that there is not.  It is kept by every call, which      *)
(* takes what each operator of the calendar, the times and the zones       *)
(* returns.  On such objects each rounding method is shown to choose the   *)
(* multiple of its increment that the mode asks for, and the arithmetic of *)
(* dates to agree with the day count of the host.                          *)
(***************************************************************************)
EXTENDS Temporal, WellFoundedInduction, TLAPS


-----------------------------------------------------------------------------
(***************************************************************************)
(* Loops.                                                                  *)
(***************************************************************************)
(* Induction over the natural numbers, as a fact about sets. *)
LEMMA LeastElement ==
  ASSUME NEW S \in SUBSET Nat, S # {}
  PROVE  \E n \in S : \A m \in S : n <= m
<1>1. IsWellFoundedOn(OpToRel(<, Nat), Nat)
  BY NatLessThanWellFounded, Zenon
<1>2. PICK n \in S : \A m \in S : <<m, n>> \notin OpToRel(<, Nat)
  BY <1>1, WFMin, Zenon
<1>3. \A m \in S : ~ (m < n)
  BY <1>2, Zenon DEF OpToRel
<1>4. \A m \in S : m \in Nat /\ n \in Nat
  BY <1>2
<1>5. \A m \in S : n <= m
  BY <1>3, <1>4
<1> QED
  BY <1>2, <1>5

(* Induction over the naturals, from the least element outside the set. *)
LEMMA Induction ==
  ASSUME NEW S \in SUBSET Nat, 0 \in S, \A n \in S : n + 1 \in S
  PROVE  S = Nat
<1> SUFFICES ASSUME Nat \ S # {}
             PROVE  FALSE
  OBVIOUS
<1>1. PICK n \in Nat \ S : \A m \in Nat \ S : n <= m
  BY LeastElement
<1>2. n # 0 /\ n - 1 \in Nat
  BY <1>1
<1>3. n - 1 \in S
  BY <1>1, <1>2
<1>4. n - 1 + 1 \in S
  BY <1>2, <1>3
<1> QED
  BY <1>1, <1>2, <1>4

(* Where a loop that goes from x to G[x] as long as C[x] can end. *)
Walk(h, n, x, y, X, C, G) ==
  /\ h \in [0 .. n -> X] /\ h[0] = x /\ h[n] = y
  /\ \A i \in 0 .. n - 1 : C[h[i]] /\ h[i + 1] = G[h[i]]

Ends(x, X, C, G) == {y \in X : ~ C[y] /\ \E n \in Nat : \E h : Walk(h, n, x, y, X, C, G)}

(* A loop whose condition does not hold ends where it is. *)
LEMMA EndsHere ==
  ASSUME NEW X, NEW C \in [X -> BOOLEAN], NEW G \in [X -> X], NEW x \in X, ~ C[x]
  PROVE  Ends(x, X, C, G) = {x}
<1>1. x \in Ends(x, X, C, G)
  <2>1. Walk([i \in 0 .. 0 |-> x], 0, x, x, X, C, G)
    BY DEF Walk
  <2> QED
    BY <2>1 DEF Ends
<1>2. ASSUME NEW y \in Ends(x, X, C, G)
      PROVE  y = x
  <2>0. PICK n \in Nat : \E h : Walk(h, n, x, y, X, C, G)
    BY DEF Ends
  <2>1. PICK h : Walk(h, n, x, y, X, C, G)
    BY <2>0
  <2>2. n = 0
    <3> SUFFICES ASSUME n # 0 PROVE FALSE
      OBVIOUS
    <3>1. 0 \in 0 .. n - 1
      OBVIOUS
    <3> QED
      BY <2>1, <3>1 DEF Walk
  <2> QED
    BY <2>1, <2>2 DEF Walk
<1> QED
  BY <1>1, <1>2

(* A loop whose condition holds ends where it ends after one more round. *)
LEMMA EndsLater ==
  ASSUME NEW X, NEW C \in [X -> BOOLEAN], NEW G \in [X -> X], NEW x \in X, C[x]
  PROVE  Ends(x, X, C, G) = Ends(G[x], X, C, G)
<1>1. ASSUME NEW y \in Ends(x, X, C, G)
      PROVE  y \in Ends(G[x], X, C, G)
  <2>0. PICK n \in Nat : \E h : Walk(h, n, x, y, X, C, G)
    BY <1>1 DEF Ends
  <2>1. PICK h : Walk(h, n, x, y, X, C, G)
    BY <2>0
  <2>2. n # 0 /\ n - 1 \in Nat /\ ~ C[y] /\ y \in X
    BY <1>1, <2>1 DEF Ends, Walk
  <2> DEFINE g == [i \in 0 .. n - 1 |-> h[i + 1]]
  <2>3. Walk(g, n - 1, G[x], y, X, C, G)
    <3>1. \A i \in 0 .. n - 1 : i \in 0 .. n /\ i + 1 \in 0 .. n
      OBVIOUS
    <3>2. g \in [0 .. n - 1 -> X]
      BY <2>1, <3>1 DEF Walk
    <3>3. 0 \in 0 .. n - 1 /\ n - 1 \in 0 .. n - 1
      BY <2>2
    <3>4. g[0] = G[x] /\ g[n - 1] = y
      BY <2>1, <3>3 DEF Walk
    <3>5. ASSUME NEW i \in 0 .. n - 1 - 1
          PROVE  C[g[i]] /\ g[i + 1] = G[g[i]]
      <4>1. i \in 0 .. n - 1 /\ i + 1 \in 0 .. n - 1
        OBVIOUS
      <4>2. g[i] = h[i + 1] /\ g[i + 1] = h[i + 1 + 1]
        BY <4>1
      <4> QED
        BY <2>1, <4>1, <4>2 DEF Walk
    <3> QED
      BY <3>2, <3>4, <3>5 DEF Walk
  <2> QED
    BY <2>2, <2>3 DEF Ends
<1>2. ASSUME NEW y \in Ends(G[x], X, C, G)
      PROVE  y \in Ends(x, X, C, G)
  <2>0. PICK n \in Nat : \E h : Walk(h, n, G[x], y, X, C, G)
    BY <1>2 DEF Ends
  <2>1. PICK h : Walk(h, n, G[x], y, X, C, G)
    BY <2>0
  <2>2. ~ C[y] /\ y \in X
    BY <1>2 DEF Ends
  <2> DEFINE g == [i \in 0 .. n + 1 |-> IF i = 0 THEN x ELSE h[i - 1]]
             m == n + 1
  <2>3. Walk(g, m, x, y, X, C, G)
    <3>1. \A i \in 0 .. n + 1 : i # 0 => i - 1 \in 0 .. n
      OBVIOUS
    <3>2. g \in [0 .. m -> X]
      BY <2>1, <3>1 DEF Walk
    <3>3. g[0] = x /\ g[m] = y
      BY <2>1 DEF Walk
    <3>4. ASSUME NEW i \in 0 .. m - 1
          PROVE  C[g[i]] /\ g[i + 1] = G[g[i]]
      <4>1. i \in 0 .. n /\ i + 1 \in 0 .. n + 1 /\ i \in 0 .. n + 1 /\ i + 1 # 0 /\ i + 1 - 1 = i
        OBVIOUS
      <4>2. g[i + 1] = h[i]
        BY <4>1
      <4>3. CASE i = 0
        BY <2>1, <4>1, <4>2, <4>3 DEF Walk
      <4>4. CASE i # 0
        <5>1. i - 1 \in 0 .. n - 1 /\ i - 1 + 1 = i /\ g[i] = h[i - 1]
          BY <4>1, <4>4
        <5> QED
          BY <2>1, <4>2, <5>1 DEF Walk
      <4> QED
        BY <4>3, <4>4
    <3> HIDE DEF g, m
    <3> QED
      BY <3>2, <3>3, <3>4 DEF Walk
  <2>4. m \in Nat
    OBVIOUS
  <2> HIDE DEF g, m
  <2> QED
    BY <2>2, <2>3, <2>4 DEF Ends
<1> QED
  BY <1>1, <1>2

(* The recursive function of a loop exists, whether or not the loop ends. *)
IsLoop(f, X, C, G, V) == f = [x \in X |-> IF C[x] THEN f[G[x]] ELSE V[x]]

(* Every loop has a function that gives its result, its own recursion. *)
LEMMA Loop ==
  ASSUME NEW X, NEW C \in [X -> BOOLEAN], NEW G \in [X -> X], NEW V
  PROVE  \E f : IsLoop(f, X, C, G, V)
<1> DEFINE f == [x \in X |-> V[CHOOSE y : y \in Ends(x, X, C, G)]]
<1>1. ASSUME NEW x \in X
      PROVE  f[x] = IF C[x] THEN f[G[x]] ELSE V[x]
  <2>1. CASE C[x]
    BY <2>1, EndsLater
  <2>2. CASE ~ C[x]
    BY <2>2, EndsHere
  <2> QED
    BY <2>1, <2>2
<1>2. f = [x \in X |-> IF C[x] THEN f[G[x]] ELSE V[x]]
  <2>1. \A x \in X : f[x] = IF C[x] THEN f[G[x]] ELSE V[x]
    BY <1>1
  <2> HIDE DEF f
  <2>2. f = [x \in X |-> f[x]]
    BY DEF f
  <2> QED
    BY <2>1, <2>2
<1> QED
  BY <1>2 DEF IsLoop

-----------------------------------------------------------------------------
(***************************************************************************)
(* Dates.                                                                  *)
(***************************************************************************)
LEMMA Types ==
  /\ \A y \in Int : DaysInYear(y) \in {365, 366}
  /\ \A k \in Int : YearOf(k) \in Int /\ MonthOf(k) \in 1 .. 12
  /\ \A y \in Int, m \in 1 .. 12 : ISODaysInMonth(y, m) \in 28 .. 31
  /\ \A k \in Int : MonthLength(k) \in 28 .. 31
<1>1. \A y \in Int : DaysInYear(y) \in {365, 366}
  BY DEF DaysInYear
<1>2. \A k \in Int : YearOf(k) \in Int /\ MonthOf(k) \in 1 .. 12
  BY DEF YearOf, MonthOf
<1>3. \A y \in Int, m \in 1 .. 12 : ISODaysInMonth(y, m) \in 28 .. 31
  BY DEF ISODaysInMonth
<1> QED
  BY <1>1, <1>2, <1>3 DEF MonthLength

(* One step of each loop of BalanceISODate. *)
LEMMA YearsBackStep ==
  ASSUME NEW p \in Int \X Int
  PROVE  YearsBack[p] = IF p[2] < -DaysInYear(YearOf(p[1] - 2)) THEN YearsBack[<<p[1] - 12, p[2] + DaysInYear(YearOf(p[1] - 2))>>]
                  ELSE p
<1> DEFINE X == Int \X Int
           Co(q) == q[2] < -DaysInYear(YearOf(q[1] - 2))
           Go(q) == <<q[1] - 12, q[2] + DaysInYear(YearOf(q[1] - 2))>>
           Vo(q) == q
           C == [q \in X |-> Co(q)]
           G == [q \in X |-> Go(q)]
           V == [q \in X |-> Vo(q)]
<1>1. C \in [X -> BOOLEAN] /\ G \in [X -> X]
  BY Types
<1>2. PICK f : IsLoop(f, X, C, G, V)
  <2> HIDE DEF X, C, G, V
  <2> QED
    BY <1>1, Loop
<1>3. f = [q \in X |-> IF Co(q) THEN f[Go(q)] ELSE Vo(q)]
  <2> HIDE DEF X, Co, Go, Vo
  <2> QED
    BY <1>2 DEF IsLoop
<1>4. YearsBack = [q \in X |-> IF Co(q) THEN YearsBack[Go(q)] ELSE Vo(q)]
  BY <1>3, Zenon DEF YearsBack
<1> QED
  BY <1>4

(* The loops of BalanceISODate, one round of each. *)
LEMMA YearsForwardStep ==
  ASSUME NEW p \in Int \X Int
  PROVE  YearsForward[p] = IF p[2] > DaysInYear(YearOf(p[1] + 10)) THEN YearsForward[<<p[1] + 12, p[2] - DaysInYear(YearOf(p[1] + 10))>>]
                  ELSE p
<1> DEFINE X == Int \X Int
           Co(q) == q[2] > DaysInYear(YearOf(q[1] + 10))
           Go(q) == <<q[1] + 12, q[2] - DaysInYear(YearOf(q[1] + 10))>>
           Vo(q) == q
           C == [q \in X |-> Co(q)]
           G == [q \in X |-> Go(q)]
           V == [q \in X |-> Vo(q)]
<1>1. C \in [X -> BOOLEAN] /\ G \in [X -> X]
  BY Types
<1>2. PICK f : IsLoop(f, X, C, G, V)
  <2> HIDE DEF X, C, G, V
  <2> QED
    BY <1>1, Loop
<1>3. f = [q \in X |-> IF Co(q) THEN f[Go(q)] ELSE Vo(q)]
  <2> HIDE DEF X, Co, Go, Vo
  <2> QED
    BY <1>2 DEF IsLoop
<1>4. YearsForward = [q \in X |-> IF Co(q) THEN YearsForward[Go(q)] ELSE Vo(q)]
  BY <1>3, Zenon DEF YearsForward
<1> QED
  BY <1>4

LEMMA MonthsBackStep ==
  ASSUME NEW p \in Int \X Int
  PROVE  MonthsBack[p] = IF p[2] < 1 THEN MonthsBack[<<p[1] - 1, p[2] + MonthLength(p[1] - 1)>>]
                  ELSE p
<1> DEFINE X == Int \X Int
           Co(q) == q[2] < 1
           Go(q) == <<q[1] - 1, q[2] + MonthLength(q[1] - 1)>>
           Vo(q) == q
           C == [q \in X |-> Co(q)]
           G == [q \in X |-> Go(q)]
           V == [q \in X |-> Vo(q)]
<1>1. C \in [X -> BOOLEAN] /\ G \in [X -> X]
  BY Types
<1>2. PICK f : IsLoop(f, X, C, G, V)
  <2> HIDE DEF X, C, G, V
  <2> QED
    BY <1>1, Loop
<1>3. f = [q \in X |-> IF Co(q) THEN f[Go(q)] ELSE Vo(q)]
  <2> HIDE DEF X, Co, Go, Vo
  <2> QED
    BY <1>2 DEF IsLoop
<1>4. MonthsBack = [q \in X |-> IF Co(q) THEN MonthsBack[Go(q)] ELSE Vo(q)]
  BY <1>3, Zenon DEF MonthsBack
<1> QED
  BY <1>4

LEMMA MonthsForwardStep ==
  ASSUME NEW p \in Int \X Int
  PROVE  MonthsForward[p] = IF p[2] > MonthLength(p[1]) THEN MonthsForward[<<p[1] + 1, p[2] - MonthLength(p[1])>>]
                  ELSE Date(YearOf(p[1]), MonthOf(p[1]), p[2])
<1> DEFINE X == Int \X Int
           Co(q) == q[2] > MonthLength(q[1])
           Go(q) == <<q[1] + 1, q[2] - MonthLength(q[1])>>
           Vo(q) == Date(YearOf(q[1]), MonthOf(q[1]), q[2])
           C == [q \in X |-> Co(q)]
           G == [q \in X |-> Go(q)]
           V == [q \in X |-> Vo(q)]
<1>1. C \in [X -> BOOLEAN] /\ G \in [X -> X]
  BY Types
<1>2. PICK f : IsLoop(f, X, C, G, V)
  <2> HIDE DEF X, C, G, V
  <2> QED
    BY <1>1, Loop
<1>3. f = [q \in X |-> IF Co(q) THEN f[Go(q)] ELSE Vo(q)]
  <2> HIDE DEF X, Co, Go, Vo
  <2> QED
    BY <1>2 DEF IsLoop
<1>4. MonthsForward = [q \in X |-> IF Co(q) THEN MonthsForward[Go(q)] ELSE Vo(q)]
  BY <1>3, Zenon DEF MonthsForward
<1> QED
  BY <1>4

(* The day of the first of month k. *)
MonthStart(k) == HostDays(YearOf(k), MonthOf(k), 1)

(* The day count of Date.UTC is an integer. *)
LEMMA HostDaysIsInt ==
  ASSUME NEW y \in Int, NEW m \in 1 .. 12, NEW d \in Int
  PROVE  HostDays(y, m, d) \in Int
<1>1. \A w \in Int : w \div 4 \in Int /\ w \div 100 \in Int /\ w \div 400 \in Int
  OBVIOUS
<1>2. (153 * ((m + 9) % 12) + 2) \div 5 \in Int
  OBVIOUS
<1> QED
  BY <1>1, <1>2 DEF HostDays

(* The days of a month are counted one by one. *)
LEMMA HostDaysOfDay ==
  ASSUME NEW y \in Int, NEW m \in 1 .. 12, NEW d \in Int
  PROVE  HostDays(y, m, d) = HostDays(y, m, 1) + d - 1
<1>1. \A w \in Int : w \div 4 \in Int /\ w \div 100 \in Int /\ w \div 400 \in Int
  OBVIOUS
<1>2. (153 * ((m + 9) % 12) + 2) \div 5 \in Int
  OBVIOUS
<1> QED
  BY <1>1, <1>2 DEF HostDays

(* A date as its month, counted from the year 0, and its day. *)
LEMMA MonthStartOfDate ==
  ASSUME NEW y \in Int, NEW m \in 1 .. 12, NEW d \in Int
  PROVE  /\ 12 * y + m - 1 \in Int
         /\ YearOf(12 * y + m - 1) = y /\ MonthOf(12 * y + m - 1) = m
         /\ HostDays(y, m, d) = MonthStart(12 * y + m - 1) + d - 1
<1>1. YearOf(12 * y + m - 1) = y /\ MonthOf(12 * y + m - 1) = m
  BY DEF YearOf, MonthOf
<1>2. MonthStart(12 * y + m - 1) = HostDays(y, m, 1)
  BY <1>1, Zenon DEF MonthStart
<1> QED
  BY <1>1, <1>2, HostDaysOfDay

(* A year has a leap day exactly when LeapYear says so. *)
LEMMA LeapDays ==
  ASSUME NEW y \in Int
  PROVE  y \div 4 - y \div 100 + y \div 400 =
           (y - 1) \div 4 - (y - 1) \div 100 + (y - 1) \div 400 + IF LeapYear(y) THEN 1 ELSE 0
<1>1. y \div 4 = (y - 1) \div 4 + IF y % 4 = 0 THEN 1 ELSE 0
  OBVIOUS
<1>2. y \div 100 = (y - 1) \div 100 + IF y % 100 = 0 THEN 1 ELSE 0
  OBVIOUS
<1>3. y \div 400 = (y - 1) \div 400 + IF y % 400 = 0 THEN 1 ELSE 0
  OBVIOUS
<1>4. (y % 100 = 0 => y % 4 = 0) /\ (y % 400 = 0 => y % 100 = 0)
  OBVIOUS
<1>5. \A w \in {y, y - 1} : w \div 4 \in Int /\ w \div 100 \in Int /\ w \div 400 \in Int
  OBVIOUS
<1> QED
  BY <1>1, <1>2, <1>3, <1>4, <1>5 DEF LeapYear

(* What the host counts before March of year y. *)
MarchStart(y) == 365 * y + y \div 4 - y \div 100 + y \div 400

(* From one March to the next there are as many days as DaysInYear says. *)
LEMMA MarchStartNext ==
  ASSUME NEW y \in Int
  PROVE  /\ MarchStart(y) \in Int
         /\ MarchStart(y) = MarchStart(y - 1) + DaysInYear(y)
<1>1. \A w \in {y, y - 1} : w \div 4 \in Int /\ w \div 100 \in Int /\ w \div 400 \in Int
  OBVIOUS
<1> HIDE <1>1
<1> QED
  BY <1>1, LeapDays DEF MarchStart, DaysInYear

(* The first days of the months, from the March before. *)
LEMMA HostDaysByMarch ==
  ASSUME NEW y \in Int, NEW m \in 1 .. 12
  PROVE  HostDays(y, m, 1) = MarchStart(IF m <= 2 THEN y - 1 ELSE y) +
           (CASE m = 1 -> 306 [] m = 2 -> 337 [] m = 3 -> 0 [] m = 4 -> 31 [] m = 5 -> 61 [] m = 6 -> 92
              [] m = 7 -> 122 [] m = 8 -> 153 [] m = 9 -> 184 [] m = 10 -> 214 [] m = 11 -> 245
              [] m = 12 -> 275) - 719468
<1>1. (153 * ((m + 9) % 12) + 2) \div 5 =
           (CASE m = 1 -> 306 [] m = 2 -> 337 [] m = 3 -> 0 [] m = 4 -> 31 [] m = 5 -> 61 [] m = 6 -> 92
              [] m = 7 -> 122 [] m = 8 -> 153 [] m = 9 -> 184 [] m = 10 -> 214 [] m = 11 -> 245
              [] m = 12 -> 275)
  OBVIOUS
<1>2. MarchStart(y) \in Int /\ MarchStart(y - 1) \in Int
  BY MarchStartNext
<1> QED
  BY <1>1, <1>2 DEF HostDays, MarchStart

(* The host and ISODaysInMonth agree on the length of a month. *)
LEMMA MonthStartNext ==
  ASSUME NEW k \in Int
  PROVE  /\ MonthStart(k) \in Int
         /\ MonthStart(k + 1) = MonthStart(k) + MonthLength(k)
<1> DEFINE y == YearOf(k)
           m == MonthOf(k)
<1>1. y \in Int /\ m \in 1 .. 12
  BY Types
<1>4. MonthStart(k) \in Int
  <2>1. 1 \in Int
    OBVIOUS
  <2> QED
    BY <1>1, <2>1, HostDaysIsInt, Zenon DEF MonthStart
<1>2. CASE m = 12
  <2>1. YearOf(k + 1) = y + 1 /\ MonthOf(k + 1) = 1
    BY <1>2 DEF YearOf, MonthOf
  <2>2. MonthStart(k + 1) = MarchStart(y) + 306 - 719468
    BY <1>1, <2>1, HostDaysByMarch DEF MonthStart
  <2>3. MonthStart(k) = MarchStart(y) + 275 - 719468
    BY <1>1, <1>2, HostDaysByMarch DEF MonthStart
  <2>4. MonthLength(k) = 31
    BY <1>1, <1>2 DEF MonthLength, ISODaysInMonth
  <2> HIDE DEF y, m
  <2> QED
    BY <1>1, <2>2, <2>3, <2>4, MarchStartNext
<1>3. CASE m # 12
  <2>1. YearOf(k + 1) = y /\ MonthOf(k + 1) = m + 1
    BY <1>3 DEF YearOf, MonthOf
  <2>2. MonthStart(k) = HostDays(y, m, 1) /\ MonthStart(k + 1) = HostDays(y, m + 1, 1)
    BY <2>1 DEF MonthStart
  <2>3. MonthLength(k) = ISODaysInMonth(y, m)
    BY DEF MonthLength
  <2> HIDE DEF y, m
  <2>4. m + 1 \in 1 .. 12 /\ MarchStart(y) \in Int /\ MarchStart(y - 1) \in Int
        /\ MarchStart(y) = MarchStart(y - 1) + IF LeapYear(y) THEN 366 ELSE 365
    BY <1>1, <1>3, MarchStartNext DEF DaysInYear
  <2>5. CASE m = 2
    <3>1. ISODaysInMonth(y, m) = IF LeapYear(y) THEN 29 ELSE 28
      BY <2>5 DEF ISODaysInMonth
    <3>2. HostDays(y, m, 1) = MarchStart(y - 1) + 337 - 719468
      BY <1>1, <2>5, HostDaysByMarch
    <3>3. HostDays(y, m + 1, 1) = MarchStart(y) + 0 - 719468
      BY <1>1, <2>4, <2>5, HostDaysByMarch
    <3> QED
      BY <2>2, <2>3, <2>4, <3>1, <3>2, <3>3
  <2>6. CASE m # 2
    <3>1. ISODaysInMonth(y, m) = <<31, 28, 31, 30, 31, 30, 31, 31, 30, 31, 30, 31>>[m]
      BY <2>6 DEF ISODaysInMonth
    <3> DEFINE w == IF m <= 2 THEN y - 1 ELSE y
    <3>2. w \in Int /\ MarchStart(w) \in Int
      BY <1>1, MarchStartNext
    <3>3. HostDays(y, m, 1) = MarchStart(w) +
             (CASE m = 1 -> 306 [] m = 2 -> 337 [] m = 3 -> 0 [] m = 4 -> 31 [] m = 5 -> 61 [] m = 6 -> 92
                [] m = 7 -> 122 [] m = 8 -> 153 [] m = 9 -> 184 [] m = 10 -> 214 [] m = 11 -> 245
                [] m = 12 -> 275) - 719468
      BY <1>1, HostDaysByMarch
    <3>4. (IF m + 1 <= 2 THEN y - 1 ELSE y) = w
      BY <1>1, <2>6
    <3>5. HostDays(y, m + 1, 1) = MarchStart(w) +
             (CASE m + 1 = 1 -> 306 [] m + 1 = 2 -> 337 [] m + 1 = 3 -> 0 [] m + 1 = 4 -> 31
                [] m + 1 = 5 -> 61 [] m + 1 = 6 -> 92 [] m + 1 = 7 -> 122 [] m + 1 = 8 -> 153
                [] m + 1 = 9 -> 184 [] m + 1 = 10 -> 214 [] m + 1 = 11 -> 245 [] m + 1 = 12 -> 275) - 719468
      BY <1>1, <2>4, <3>4, HostDaysByMarch
    <3> HIDE DEF w
    <3> QED
      BY <1>1, <1>3, <2>2, <2>3, <2>6, <3>1, <3>2, <3>3, <3>5
  <2>7. MonthStart(k) \in Int
    BY <1>4
  <2> QED
    BY <2>5, <2>6, <2>7
<1> QED
  BY <1>2, <1>3, <1>4

(* Twelve months on is one year on (BalanceISODate moves years first). *)
LEMMA MonthStartNextYear ==
  ASSUME NEW k \in Int
  PROVE  MonthStart(k + 12) = MonthStart(k) + DaysInYear(YearOf(k + 10))
<1> DEFINE y == YearOf(k)
           m == MonthOf(k)
           w == IF m <= 2 THEN y - 1 ELSE y
<1>1. y \in Int /\ m \in 1 .. 12 /\ y + 1 \in Int
  BY Types
<1>2. YearOf(k + 12) = y + 1 /\ MonthOf(k + 12) = m
  BY DEF YearOf, MonthOf
<1>3. YearOf(k + 10) = w + 1
  BY DEF YearOf, MonthOf
<1>4. MonthStart(k) = HostDays(y, m, 1) /\ MonthStart(k + 12) = HostDays(y + 1, m, 1)
  BY <1>2 DEF MonthStart
<1> HIDE DEF y, m
<1> DEFINE o == CASE m = 1 -> 306 [] m = 2 -> 337 [] m = 3 -> 0 [] m = 4 -> 31 [] m = 5 -> 61 [] m = 6 -> 92
              [] m = 7 -> 122 [] m = 8 -> 153 [] m = 9 -> 184 [] m = 10 -> 214 [] m = 11 -> 245
              [] m = 12 -> 275
<1>5. HostDays(y, m, 1) = MarchStart(w) + o - 719468
  BY <1>1, HostDaysByMarch
<1>6. HostDays(y + 1, m, 1) = MarchStart(IF m <= 2 THEN y + 1 - 1 ELSE y + 1) + o - 719468
  BY <1>1, HostDaysByMarch
<1>7. (IF m <= 2 THEN y + 1 - 1 ELSE y + 1) = w + 1 /\ w \in Int /\ w + 1 \in Int /\ w + 1 - 1 = w /\ o \in Int
  BY <1>1
<1> HIDE DEF w, o
<1>8. MarchStart(w + 1) = MarchStart(w) + DaysInYear(w + 1) /\ MarchStart(w) \in Int
  BY <1>7, MarchStartNext
<1>9. DaysInYear(w + 1) \in Int
  BY <1>7, Types
<1>10. MonthStart(k) = MarchStart(w) + o - 719468
  BY <1>4, <1>5
<1>11. MonthStart(k + 12) = MarchStart(w) + DaysInYear(w + 1) + o - 719468
  BY <1>4, <1>6, <1>7, <1>8
<1> QED
  BY <1>3, <1>7, <1>8, <1>9, <1>10, <1>11

(* The calendar repeats after 400 years. *)
LEMMA MonthStartNextCycle ==
  ASSUME NEW k \in Int, NEW c \in Int
  PROVE  MonthStart(k + 4800 * c) = MonthStart(k) + 146097 * c
<1> DEFINE y == YearOf(k)
           m == MonthOf(k)
<1>1. y \in Int /\ m \in 1 .. 12
  BY Types
<1>2. YearOf(k + 4800 * c) = y + 400 * c /\ MonthOf(k + 4800 * c) = m
  BY DEF YearOf, MonthOf
<1> HIDE DEF y, m
<1>3. \A w \in Int : MarchStart(w + 400 * c) = MarchStart(w) + 146097 * c /\ MarchStart(w) \in Int
  <2> TAKE w \in Int
  <2>1. (w + 400 * c) \div 4 = w \div 4 + 100 * c
    OBVIOUS
  <2>2. (w + 400 * c) \div 100 = w \div 100 + 4 * c
    OBVIOUS
  <2>3. (w + 400 * c) \div 400 = w \div 400 + c
    OBVIOUS
  <2>4. w \div 4 \in Int /\ w \div 100 \in Int /\ w \div 400 \in Int
    OBVIOUS
  <2> QED
    BY <2>1, <2>2, <2>3, <2>4 DEF MarchStart
<1> DEFINE o == CASE m = 1 -> 306 [] m = 2 -> 337 [] m = 3 -> 0 [] m = 4 -> 31 [] m = 5 -> 61 [] m = 6 -> 92
              [] m = 7 -> 122 [] m = 8 -> 153 [] m = 9 -> 184 [] m = 10 -> 214 [] m = 11 -> 245
              [] m = 12 -> 275
           w == IF m <= 2 THEN y - 1 ELSE y
<1>4. MonthStart(k) = MarchStart(w) + o - 719468
  BY <1>1, HostDaysByMarch DEF MonthStart, y, m
<1>5. MonthStart(k + 4800 * c) = MarchStart(IF m <= 2 THEN y + 400 * c - 1 ELSE y + 400 * c) + o - 719468
  <2>1. y + 400 * c \in Int
    BY <1>1
  <2> QED
    BY <1>1, <1>2, <2>1, HostDaysByMarch DEF MonthStart
<1>6. (IF m <= 2 THEN y + 400 * c - 1 ELSE y + 400 * c) = w + 400 * c /\ w \in Int /\ o \in Int
  BY <1>1
<1> HIDE DEF w, o
<1> QED
  BY <1>3, <1>4, <1>5, <1>6

(* The day after which a month number and a day of that month lead. *)
DayAt(p) == MonthStart(p[1]) + p[2]

(* The loop over the years back leads to the same day. *)
YearsBackKeeps(p) == YearsBack[p] \in Int \X Int /\ DayAt(YearsBack[p]) = DayAt(p)

(* Each loop of BalanceISODate keeps the day it stands for and ends in the range that it checks for. *)
LEMMA YearsBackKeepsDay ==
  ASSUME NEW p \in Int \X Int
  PROVE  YearsBackKeeps(p)
<1> DEFINE Small(q, n) == -n <= q[2]
           S == {n \in Nat : \A q \in Int \X Int : Small(q, n) => YearsBackKeeps(q)}
<1>1. ASSUME NEW n \in Nat, NEW q \in Int \X Int, Small(q, n),
             n = 0 \/ (n - 1 \in Nat /\ \A r \in Int \X Int : Small(r, n - 1) => YearsBackKeeps(r))
      PROVE  YearsBackKeeps(q)
  <2> DEFINE r == <<q[1] - 12, q[2] + DaysInYear(YearOf(q[1] - 2))>>
  <2>1. q[1] \in Int /\ q[2] \in Int /\ q = <<q[1], q[2]>>
    BY <1>1
  <2>2. CASE q[2] < -DaysInYear(YearOf(q[1] - 2))
    <3>1. YearsBack[q] = YearsBack[r]
      BY <2>2, YearsBackStep
    <3>2. r \in Int \X Int /\ n # 0 /\ Small(r, n - 1)
      BY <1>1, <2>1, <2>2, Types
    <3>3. DayAt(r) = DayAt(q)
      <4>1. MonthStart(q[1] - 12 + 12) = MonthStart(q[1] - 12) + DaysInYear(YearOf(q[1] - 12 + 10)) /\ q[1] - 12 + 12 = q[1] /\ q[1] - 12 + 10 = q[1] - 2 /\ MonthStart(q[1] - 12) \in Int
        BY <2>1, MonthStartNextYear, MonthStartNext, SMTT(60)
      <4>2. MonthStart(q[1]) \in Int /\ r[1] = q[1] - 12 /\ r[2] = q[2] + DaysInYear(YearOf(q[1] - 2)) /\ DaysInYear(YearOf(q[1] - 2)) \in Int
        BY <2>1, MonthStartNext, Types, SMTT(60)
      <4> HIDE DEF r
      <4> QED
        BY <2>1, <4>1, <4>2 DEF DayAt
    <3> HIDE DEF r
    <3>4. YearsBackKeeps(r)
      BY <1>1, <3>2
    <3> QED
      BY <3>1, <3>3, <3>4 DEF YearsBackKeeps
  <2>3. CASE ~ (q[2] < -DaysInYear(YearOf(q[1] - 2)))
    BY <2>1, <2>3, YearsBackStep DEF YearsBackKeeps
  <2> QED
    BY <2>2, <2>3
<1>2. 0 \in S
  BY <1>1
<1>3. \A n \in S : n + 1 \in S
  <2> SUFFICES ASSUME NEW n \in S, NEW q \in Int \X Int, Small(q, n + 1)
               PROVE  YearsBackKeeps(q)
    OBVIOUS
  <2>1. n \in Nat /\ n + 1 \in Nat /\ n + 1 - 1 = n
    OBVIOUS
  <2>2. \A r \in Int \X Int : Small(r, n) => YearsBackKeeps(r)
    OBVIOUS
  <2> HIDE DEF S, Small
  <2> QED
    BY <1>1, <2>1, <2>2
<1>4. S = Nat
  <2>1. S \in SUBSET Nat
    OBVIOUS
  <2> HIDE DEF S
  <2> QED
    BY <1>2, <1>3, <2>1, Induction
<1>5. \E n \in Nat : Small(p, n)
  <2>1. p[2] \in Int
    OBVIOUS
  <2>2. Small(p, 1 + IF p[2] < 0 THEN -p[2] ELSE p[2])
    BY <2>1
  <2> QED
    BY <2>1, <2>2
<1> QED
  BY <1>4, <1>5

(* So does the loop over the years forward. *)
YearsForwardKeeps(p) == YearsForward[p] \in Int \X Int /\ DayAt(YearsForward[p]) = DayAt(p)

LEMMA YearsForwardKeepsDay ==
  ASSUME NEW p \in Int \X Int
  PROVE  YearsForwardKeeps(p)
<1> DEFINE Small(q, n) == q[2] <= n
           S == {n \in Nat : \A q \in Int \X Int : Small(q, n) => YearsForwardKeeps(q)}
<1>1. ASSUME NEW n \in Nat, NEW q \in Int \X Int, Small(q, n),
             n = 0 \/ (n - 1 \in Nat /\ \A r \in Int \X Int : Small(r, n - 1) => YearsForwardKeeps(r))
      PROVE  YearsForwardKeeps(q)
  <2> DEFINE r == <<q[1] + 12, q[2] - DaysInYear(YearOf(q[1] + 10))>>
  <2>1. q[1] \in Int /\ q[2] \in Int /\ q = <<q[1], q[2]>>
    BY <1>1
  <2>2. CASE q[2] > DaysInYear(YearOf(q[1] + 10))
    <3>1. YearsForward[q] = YearsForward[r]
      BY <2>2, YearsForwardStep
    <3>2. r \in Int \X Int /\ n # 0 /\ Small(r, n - 1)
      BY <1>1, <2>1, <2>2, Types
    <3>3. DayAt(r) = DayAt(q)
      <4>1. MonthStart(q[1] + 12) = MonthStart(q[1]) + DaysInYear(YearOf(q[1] + 10))
        BY <2>1, MonthStartNextYear
      <4>2. MonthStart(q[1]) \in Int /\ r[1] = q[1] + 12 /\ r[2] = q[2] - DaysInYear(YearOf(q[1] + 10)) /\ DaysInYear(YearOf(q[1] + 10)) \in Int
        BY <2>1, MonthStartNext, Types, SMTT(60)
      <4> HIDE DEF r
      <4> QED
        BY <2>1, <4>1, <4>2 DEF DayAt
    <3> HIDE DEF r
    <3>4. YearsForwardKeeps(r)
      BY <1>1, <3>2
    <3> QED
      BY <3>1, <3>3, <3>4 DEF YearsForwardKeeps
  <2>3. CASE ~ (q[2] > DaysInYear(YearOf(q[1] + 10)))
    BY <2>1, <2>3, YearsForwardStep DEF YearsForwardKeeps
  <2> QED
    BY <2>2, <2>3
<1>2. 0 \in S
  BY <1>1
<1>3. \A n \in S : n + 1 \in S
  <2> SUFFICES ASSUME NEW n \in S, NEW q \in Int \X Int, Small(q, n + 1)
               PROVE  YearsForwardKeeps(q)
    OBVIOUS
  <2>1. n \in Nat /\ n + 1 \in Nat /\ n + 1 - 1 = n
    OBVIOUS
  <2>2. \A r \in Int \X Int : Small(r, n) => YearsForwardKeeps(r)
    OBVIOUS
  <2> HIDE DEF S, Small
  <2> QED
    BY <1>1, <2>1, <2>2
<1>4. S = Nat
  <2>1. S \in SUBSET Nat
    OBVIOUS
  <2> HIDE DEF S
  <2> QED
    BY <1>2, <1>3, <2>1, Induction
<1>5. \E n \in Nat : Small(p, n)
  <2>1. p[2] \in Int
    OBVIOUS
  <2>2. Small(p, 1 + IF p[2] < 0 THEN -p[2] ELSE p[2])
    BY <2>1
  <2> QED
    BY <2>1, <2>2
<1> QED
  BY <1>4, <1>5

(* The loop over the months back stops at the first of a month or later. *)
MonthsBackKeeps(p) == MonthsBack[p] \in Int \X Int /\ MonthsBack[p][2] >= 1 /\ DayAt(MonthsBack[p]) = DayAt(p)

LEMMA MonthsBackKeepsDay ==
  ASSUME NEW p \in Int \X Int
  PROVE  MonthsBackKeeps(p)
<1> DEFINE Small(q, n) == 1 - n <= q[2]
           S == {n \in Nat : \A q \in Int \X Int : Small(q, n) => MonthsBackKeeps(q)}
<1>1. ASSUME NEW n \in Nat, NEW q \in Int \X Int, Small(q, n),
             n = 0 \/ (n - 1 \in Nat /\ \A r \in Int \X Int : Small(r, n - 1) => MonthsBackKeeps(r))
      PROVE  MonthsBackKeeps(q)
  <2> DEFINE r == <<q[1] - 1, q[2] + MonthLength(q[1] - 1)>>
  <2>1. q[1] \in Int /\ q[2] \in Int /\ q = <<q[1], q[2]>>
    BY <1>1
  <2>2. CASE q[2] < 1
    <3>1. MonthsBack[q] = MonthsBack[r]
      BY <2>2, MonthsBackStep
    <3>2. r \in Int \X Int /\ n # 0 /\ Small(r, n - 1)
      BY <1>1, <2>1, <2>2, Types
    <3>3. DayAt(r) = DayAt(q)
      <4>1. MonthStart(q[1] - 1 + 1) = MonthStart(q[1] - 1) + MonthLength(q[1] - 1) /\ q[1] - 1 + 1 = q[1] /\ MonthStart(q[1] - 1) \in Int
        BY <2>1, MonthStartNext
      <4>2. MonthStart(q[1]) \in Int /\ r[1] = q[1] - 1 /\ r[2] = q[2] + MonthLength(q[1] - 1) /\ MonthLength(q[1] - 1) \in Int
        BY <2>1, MonthStartNext, Types, SMTT(60)
      <4> HIDE DEF r
      <4> QED
        BY <2>1, <4>1, <4>2 DEF DayAt
    <3> HIDE DEF r
    <3>4. MonthsBackKeeps(r)
      BY <1>1, <3>2
    <3> QED
      BY <3>1, <3>3, <3>4 DEF MonthsBackKeeps
  <2>3. CASE ~ (q[2] < 1)
    <3>1. MonthsBack[q] = q
      BY <2>3, MonthsBackStep, Zenon
    <3>2. q[2] >= 1
      BY <2>1, <2>3
    <3> QED
      BY <3>1, <3>2 DEF MonthsBackKeeps
  <2> QED
    BY <2>2, <2>3
<1>2. 0 \in S
  BY <1>1
<1>3. \A n \in S : n + 1 \in S
  <2> SUFFICES ASSUME NEW n \in S, NEW q \in Int \X Int, Small(q, n + 1)
               PROVE  MonthsBackKeeps(q)
    OBVIOUS
  <2>1. n \in Nat /\ n + 1 \in Nat /\ n + 1 - 1 = n
    OBVIOUS
  <2>2. \A r \in Int \X Int : Small(r, n) => MonthsBackKeeps(r)
    OBVIOUS
  <2> HIDE DEF S, Small
  <2> QED
    BY <1>1, <2>1, <2>2
<1>4. S = Nat
  <2>1. S \in SUBSET Nat
    OBVIOUS
  <2> HIDE DEF S
  <2> QED
    BY <1>2, <1>3, <2>1, Induction
<1>5. \E n \in Nat : Small(p, n)
  <2>1. p[2] \in Int
    OBVIOUS
  <2>2. Small(p, 1 + IF p[2] < 0 THEN -p[2] ELSE p[2])
    BY <2>1
  <2> QED
    BY <2>1, <2>2
<1> QED
  BY <1>4, <1>5

(* The last loop stops at a date. *)
MonthsForwardKeeps(p) == 
  LET e == MonthsForward[p]
  IN  /\ e \in Dates /\ e.day <= ISODaysInMonth(e.year, e.month)
      /\ HostDays(e.year, e.month, e.day) = DayAt(p) - 1

LEMMA MonthsForwardKeepsDay ==
  ASSUME NEW p \in Int \X Int, p[2] >= 1
  PROVE  MonthsForwardKeeps(p)
<1> DEFINE Small(q, n) == q[2] <= n /\ q[2] >= 1
           S == {n \in Nat : \A q \in Int \X Int : Small(q, n) => MonthsForwardKeeps(q)}
<1>1. ASSUME NEW n \in Nat, NEW q \in Int \X Int, Small(q, n),
             n = 0 \/ (n - 1 \in Nat /\ \A r \in Int \X Int : Small(r, n - 1) => MonthsForwardKeeps(r))
      PROVE  MonthsForwardKeeps(q)
  <2> DEFINE r == <<q[1] + 1, q[2] - MonthLength(q[1])>>
  <2>1. q[1] \in Int /\ q[2] \in Int /\ q = <<q[1], q[2]>>
    BY <1>1
  <2>2. CASE q[2] > MonthLength(q[1])
    <3>1. MonthsForward[q] = MonthsForward[r]
      BY <2>2, MonthsForwardStep
    <3>2. r \in Int \X Int /\ n # 0 /\ Small(r, n - 1)
      BY <1>1, <2>1, <2>2, Types
    <3>3. DayAt(r) = DayAt(q)
      <4>1. MonthStart(q[1] + 1) = MonthStart(q[1]) + MonthLength(q[1])
        BY <2>1, MonthStartNext
      <4>2. MonthStart(q[1]) \in Int /\ r[1] = q[1] + 1 /\ r[2] = q[2] - MonthLength(q[1]) /\ MonthLength(q[1]) \in Int
        BY <2>1, MonthStartNext, Types, SMTT(60)
      <4> HIDE DEF r
      <4> QED
        BY <2>1, <4>1, <4>2 DEF DayAt
    <3> HIDE DEF r
    <3>4. MonthsForwardKeeps(r)
      BY <1>1, <3>2
    <3> QED
      BY <3>1, <3>3, <3>4 DEF MonthsForwardKeeps
  <2>3. CASE ~ (q[2] > MonthLength(q[1]))
    <3>1. MonthsForward[q] = Date(YearOf(q[1]), MonthOf(q[1]), q[2])
      BY <2>3, MonthsForwardStep
    <3>2. YearOf(q[1]) \in Int /\ MonthOf(q[1]) \in 1 .. 12 /\ MonthLength(q[1]) \in 28 .. 31 /\ 1 <= q[2]
      BY <1>1, <2>1, Types
    <3>3. HostDays(YearOf(q[1]), MonthOf(q[1]), q[2]) = DayAt(q) - 1
      <4>1. HostDays(YearOf(q[1]), MonthOf(q[1]), q[2]) = MonthStart(q[1]) + q[2] - 1
        BY <2>1, <3>2, HostDaysOfDay DEF MonthStart
      <4> QED
        BY <4>1, <2>1, MonthStartNext DEF DayAt
    <3>4. q[2] \in 1 .. MonthLength(q[1]) /\ q[2] \in 1 .. 31
      BY <2>1, <2>3, <3>2
    <3> QED
      BY <3>1, <3>2, <3>3, <3>4 DEF MonthsForwardKeeps, Date, Dates, MonthLength
  <2> QED
    BY <2>2, <2>3
<1>2. 0 \in S
  BY <1>1
<1>3. \A n \in S : n + 1 \in S
  <2> SUFFICES ASSUME NEW n \in S, NEW q \in Int \X Int, Small(q, n + 1)
               PROVE  MonthsForwardKeeps(q)
    OBVIOUS
  <2>1. n \in Nat /\ n + 1 \in Nat /\ n + 1 - 1 = n
    OBVIOUS
  <2>2. \A r \in Int \X Int : Small(r, n) => MonthsForwardKeeps(r)
    OBVIOUS
  <2> HIDE DEF S, Small
  <2> QED
    BY <1>1, <2>1, <2>2
<1>4. S = Nat
  <2>1. S \in SUBSET Nat
    OBVIOUS
  <2> HIDE DEF S
  <2> QED
    BY <1>2, <1>3, <2>1, Induction
<1>5. \E n \in Nat : Small(p, n)
  <2>1. p[2] \in Int
    OBVIOUS
  <2>2. Small(p, 1 + IF p[2] < 0 THEN -p[2] ELSE p[2])
    BY <2>1
  <2> QED
    BY <2>1, <2>2
<1> QED
  BY <1>4, <1>5

(* Quotients of integers are integers. *)
LEMMA QuoIsInt ==
  ASSUME NEW n \in Int, NEW d \in Int, d # 0
  PROVE  Quo(n, d) \in Int
<1>1. Magnitude(n) \in Int /\ Magnitude(d) \in Int /\ Magnitude(d) > 0
  BY DEF Magnitude
<1>2. Magnitude(n) \div Magnitude(d) \in Int
  BY <1>1
<1>3. Sign(n) \in {-1, 0, 1} /\ Sign(d) \in {-1, 0, 1}
  BY DEF Sign
<1> QED
  BY <1>2, <1>3 DEF Quo

(* The date of a day that need not be in its month is a valid date, and the *)
(* host's day of it is that of the balanced one.                            *)
LEMMA BalancedDate ==
  ASSUME NEW year \in Int, NEW month \in 1 .. 12, NEW day \in Int
  PROVE  LET e == BalanceISODate(year, month, day)
         IN  /\ e \in Dates
             /\ e.day <= ISODaysInMonth(e.year, e.month)
             /\ HostDays(e.year, e.month, e.day) = HostDays(year, month, day)
<1> DEFINE cycles == IF Magnitude(day) > 146097 THEN Quo(day, 146097) ELSE 0
           k == 12 * year + month - 1
           p == <<k + 4800 * cycles, day - 146097 * cycles>>
           p1 == YearsBack[p]
           p2 == YearsForward[p1]
           p3 == MonthsBack[p2]
           e == MonthsForward[p3]
<1>1. cycles \in Int /\ k \in Int
  BY QuoIsInt
<1>2. BalanceISODate(year, month, day) = e
  BY DEF BalanceISODate
<1>3. DayAt(p) - 1 = HostDays(year, month, day)
  <2>1. DayAt(p) = MonthStart(k + 4800 * cycles) + (day - 146097 * cycles)
    BY DEF DayAt
  <2> HIDE DEF cycles, p
  <2>2. MonthStart(k + 4800 * cycles) = MonthStart(k) + 146097 * cycles /\ MonthStart(k) \in Int
    BY <1>1, MonthStartNextCycle, MonthStartNext
  <2>3. HostDays(year, month, day) = MonthStart(k) + day - 1
    BY MonthStartOfDate
  <2> HIDE DEF k
  <2> QED
    BY <1>1, <2>1, <2>2, <2>3
<1>4. p \in Int \X Int
  BY <1>1
<1> HIDE DEF p
<1>5. p1 \in Int \X Int /\ DayAt(p1) = DayAt(p)
  BY <1>4, YearsBackKeepsDay DEF YearsBackKeeps
<1> HIDE DEF p1
<1>6. p2 \in Int \X Int /\ DayAt(p2) = DayAt(p)
  BY <1>5, YearsForwardKeepsDay DEF YearsForwardKeeps
<1> HIDE DEF p2
<1>7. p3 \in Int \X Int /\ DayAt(p3) = DayAt(p) /\ p3[2] >= 1
  BY <1>6, MonthsBackKeepsDay DEF MonthsBackKeeps
<1> HIDE DEF p3
<1>8. /\ e \in Dates /\ e.day <= ISODaysInMonth(e.year, e.month)
      /\ HostDays(e.year, e.month, e.day) = DayAt(p) - 1
  BY <1>7, MonthsForwardKeepsDay DEF MonthsForwardKeeps
<1> HIDE DEF e
<1> QED
  BY <1>2, <1>3, <1>8

-----------------------------------------------------------------------------
(***************************************************************************)
(* Times.                                                                  *)
(***************************************************************************)
Seven(v0, v1, v2, v3, v4, v5, v6) ==
  [i \in 0 .. 6 |-> CASE i = 0 -> v0 [] i = 1 -> v1 [] i = 2 -> v2 [] i = 3 -> v3
                      [] i = 4 -> v4 [] i = 5 -> v5 [] i = 6 -> v6]

LEMMA SevenAre ==
  ASSUME NEW v0, NEW v1, NEW v2, NEW v3, NEW v4, NEW v5, NEW v6, NEW f,
         f = Seven(v0, v1, v2, v3, v4, v5, v6)
  PROVE  /\ f[0] = v0 /\ f[1] = v1 /\ f[2] = v2 /\ f[3] = v3 /\ f[4] = v4 /\ f[5] = v5 /\ f[6] = v6
         /\ f = [i \in 0 .. 6 |-> f[i]]
BY DEF Seven

LEMMA UpToSix ==
  /\ \A i \in 0 .. 6 : i = 0 \/ i = 1 \/ i = 2 \/ i = 3 \/ i = 4 \/ i = 5 \/ i = 6
  /\ \A i \in Fields : i = 1 \/ i = 2 \/ i = 3 \/ i = 4 \/ i = 5 \/ i = 6
  /\ 1 - 1 = 0 /\ 2 - 1 = 1 /\ 3 - 1 = 2 /\ 4 - 1 = 3 /\ 5 - 1 = 4 /\ 6 - 1 = 5
  /\ 0 + 1 = 1 /\ 1 + 1 = 2 /\ 2 + 1 = 3 /\ 3 + 1 = 4 /\ 4 + 1 = 5 /\ 5 + 1 = 6 /\ 6 + 1 = 7
  /\ 0 # 1 /\ 0 # 2 /\ 0 # 3 /\ 0 # 4 /\ 0 # 5 /\ 0 # 6
  /\ 6 # 1 /\ 6 # 2 /\ 6 # 3 /\ 6 # 4 /\ 6 # 5
  /\ 0 \in 0 .. 6 /\ 1 \in 0 .. 6 /\ 2 \in 0 .. 6 /\ 3 \in 0 .. 6 /\ 4 \in 0 .. 6 /\ 5 \in 0 .. 6 /\ 6 \in 0 .. 6
  /\ 1 \in Fields /\ 2 \in Fields /\ 3 \in Fields /\ 4 \in Fields /\ 5 \in Fields /\ 6 \in Fields
BY DEF Fields

LEMMA RadixType == Radix \in [Fields -> Nat \ {0}]
BY RadixAssumption DEF Fields

(* The lengths of the units of time. *)
LEMMA UnitLengthIs ==
  /\ UnitLength = [i \in 0 .. 6 |-> UnitLength[i]]
  /\ UnitLength[6] = 1
  /\ \A i \in Fields : UnitLength[i - 1] = Radix[i] * UnitLength[i]
<1> DEFINE v5 == Radix[5 + 1] * 1
           v4 == Radix[4 + 1] * v5
           v3 == Radix[3 + 1] * v4
           v2 == Radix[2 + 1] * v3
           v1 == Radix[1 + 1] * v2
           v0 == Radix[0 + 1] * v1
           f == Seven(v0, v1, v2, v3, v4, v5, 1)
<1>1. f[0] = v0 /\ f[1] = v1 /\ f[2] = v2 /\ f[3] = v3 /\ f[4] = v4 /\ f[5] = v5 /\ f[6] = 1
      /\ f = [i \in 0 .. 6 |-> f[i]]
  <2>1. f = Seven(v0, v1, v2, v3, v4, v5, 1)
    OBVIOUS
  <2> HIDE DEF f, v0, v1, v2, v3, v4, v5
  <2> QED
    BY <2>1, SevenAre
<1> HIDE DEF f
<1>2. \A i \in 0 .. 6 : f[i] = IF i = 6 THEN 1 ELSE Radix[i + 1] * f[i + 1]
  <2>1. f[0] = Radix[0 + 1] * f[0 + 1] /\ f[1] = Radix[1 + 1] * f[1 + 1] /\ f[2] = Radix[2 + 1] * f[2 + 1]
        /\ f[3] = Radix[3 + 1] * f[3 + 1] /\ f[4] = Radix[4 + 1] * f[4 + 1] /\ f[5] = Radix[5 + 1] * f[5 + 1]
    BY <1>1, UpToSix, Zenon
  <2> QED
    BY <1>1, <2>1, UpToSix, Zenon
<1>3. f = [i \in 0 .. 6 |-> IF i = 6 THEN 1 ELSE Radix[i + 1] * f[i + 1]]
  BY <1>1, <1>2, Zenon
<1>4. UnitLength = [i \in 0 .. 6 |-> IF i = 6 THEN 1 ELSE Radix[i + 1] * UnitLength[i + 1]]
  BY <1>3, Zenon DEF UnitLength
<1> HIDE DEF v0, v1, v2, v3, v4, v5
<1>5. \A i \in 0 .. 6 : UnitLength[i] = IF i = 6 THEN 1 ELSE Radix[i + 1] * UnitLength[i + 1]
  BY <1>4, Zenon
<1>6. UnitLength[6] = 1
  BY <1>5, UpToSix, Zenon
<1>7. ASSUME NEW i \in Fields
      PROVE  UnitLength[i - 1] = Radix[i] * UnitLength[i]
  <2>1. i - 1 \in 0 .. 6 /\ i - 1 # 6 /\ i - 1 + 1 = i
    BY DEF Fields
  <2> QED
    BY <1>5, <2>1, Zenon
<1>8. UnitLength = [i \in 0 .. 6 |-> UnitLength[i]]
  BY <1>4, <1>5, Zenon
<1> QED
  BY <1>6, <1>7, <1>8

LEMMA ProductPositive ==
  ASSUME NEW a \in Nat \ {0}, NEW b \in Nat \ {0}
  PROVE  a * b \in Nat \ {0}
OBVIOUS

(* Every unit of time has a length, and a day has. *)
LEMMA UnitLengthPositive == UnitLength \in [0 .. 6 -> Nat \ {0}] /\ DayLength \in Nat \ {0}
<1>1. \A i \in Fields : Radix[i] \in Nat \ {0}
  BY RadixType
<1>2. UnitLength[6] \in Nat \ {0}
  BY UnitLengthIs
<1>3. ASSUME NEW i \in Fields, UnitLength[i] \in Nat \ {0}
      PROVE  UnitLength[i - 1] \in Nat \ {0}
  <2>1. Radix[i] * UnitLength[i] \in Nat \ {0}
    BY <1>1, <1>3, ProductPositive, Zenon
  <2> QED
    BY <2>1, UnitLengthIs, Zenon
<1>4. /\ UnitLength[5] \in Nat \ {0} /\ UnitLength[4] \in Nat \ {0} /\ UnitLength[3] \in Nat \ {0}
      /\ UnitLength[2] \in Nat \ {0} /\ UnitLength[1] \in Nat \ {0} /\ UnitLength[0] \in Nat \ {0}
  <2>1. UnitLength[5] \in Nat \ {0}
    BY <1>2, <1>3, UpToSix, Zenon
  <2>2. UnitLength[4] \in Nat \ {0}
    BY <2>1, <1>3, UpToSix, Zenon
  <2>3. UnitLength[3] \in Nat \ {0}
    BY <2>2, <1>3, UpToSix, Zenon
  <2>4. UnitLength[2] \in Nat \ {0}
    BY <2>3, <1>3, UpToSix, Zenon
  <2>5. UnitLength[1] \in Nat \ {0}
    BY <2>4, <1>3, UpToSix, Zenon
  <2>6. UnitLength[0] \in Nat \ {0}
    BY <2>5, <1>3, UpToSix, Zenon
  <2> QED
    BY <2>1, <2>2, <2>3, <2>4, <2>5, <2>6
<1>5. \A i \in 0 .. 6 : UnitLength[i] \in Nat \ {0}
  BY <1>2, <1>4, UpToSix, Zenon
<1> QED
  BY <1>5, UnitLengthIs DEF DayLength

(* The sum of days and a time, field by field. *)
IsSum(s, days, t) ==
  /\ s \in [0 .. 6 -> Int] /\ s[0] = days
  /\ \A i \in Fields : s[i] = t[i] + s[i - 1] * Radix[i]

LEMMA ProductIsInt ==
  ASSUME NEW a \in Int, NEW b \in Int
  PROVE  a * b \in Int
OBVIOUS

LEMMA TotalIsSum ==
  ASSUME NEW days \in Int, NEW t \in [Fields -> Int], NEW shift \in Int
  PROVE  \E s : /\ IsSum(s, days, t)
                /\ TotalDurationNanoseconds(days, t, shift) = s[6] - IF days # 0 THEN shift ELSE 0
<1> DEFINE v1 == t[1] + days * Radix[1]
           v2 == t[2] + v1 * Radix[2]
           v3 == t[3] + v2 * Radix[3]
           v4 == t[4] + v3 * Radix[4]
           v5 == t[5] + v4 * Radix[5]
           v6 == t[6] + v5 * Radix[6]
           f == Seven(days, v1, v2, v3, v4, v5, v6)
           sum == CHOOSE sum : sum = [i \in 0 .. 6 |-> IF i = 0 THEN days ELSE t[i] + sum[i - 1] * Radix[i]]
<1>1. f[0] = days /\ f[1] = v1 /\ f[2] = v2 /\ f[3] = v3 /\ f[4] = v4 /\ f[5] = v5 /\ f[6] = v6
      /\ f = [i \in 0 .. 6 |-> f[i]]
  <2>1. f = Seven(days, v1, v2, v3, v4, v5, v6)
    OBVIOUS
  <2> HIDE DEF f, v1, v2, v3, v4, v5, v6
  <2> QED
    BY <2>1, SevenAre
<1> HIDE DEF f
<1>2. \A i \in 0 .. 6 : f[i] = IF i = 0 THEN days ELSE t[i] + f[i - 1] * Radix[i]
  <2>1. f[1] = t[1] + f[1 - 1] * Radix[1] /\ f[2] = t[2] + f[2 - 1] * Radix[2] /\ f[3] = t[3] + f[3 - 1] * Radix[3]
        /\ f[4] = t[4] + f[4 - 1] * Radix[4] /\ f[5] = t[5] + f[5 - 1] * Radix[5] /\ f[6] = t[6] + f[6 - 1] * Radix[6]
    BY <1>1, UpToSix, SMT
  <2> QED
    BY <1>1, <2>1, UpToSix, Zenon
<1>3. f = [i \in 0 .. 6 |-> IF i = 0 THEN days ELSE t[i] + f[i - 1] * Radix[i]]
  BY <1>1, <1>2, Zenon
<1>4. sum = [i \in 0 .. 6 |-> IF i = 0 THEN days ELSE t[i] + sum[i - 1] * Radix[i]]
  BY <1>3, Zenon
<1>5. TotalDurationNanoseconds(days, t, shift) = sum[6] - IF days # 0 THEN shift ELSE 0
  BY Zenon DEF TotalDurationNanoseconds
<1> HIDE DEF sum
<1>6. \A i \in 0 .. 6 : sum[i] = IF i = 0 THEN days ELSE t[i] + sum[i - 1] * Radix[i]
  BY <1>4, Zenon
<1>7. sum[0] = days
  BY <1>6, UpToSix, Zenon
<1>8. ASSUME NEW i \in Fields
      PROVE  sum[i] = t[i] + sum[i - 1] * Radix[i]
  <2>1. i \in 0 .. 6 /\ i # 0
    BY DEF Fields
  <2> QED
    BY <1>6, <2>1, Zenon
<1>9. \A i \in Fields : t[i] \in Int /\ Radix[i] \in Int
  BY RadixType
<1>10. ASSUME NEW i \in Fields, sum[i - 1] \in Int
       PROVE  sum[i] \in Int
  <2>1. sum[i - 1] * Radix[i] \in Int
    BY <1>9, <1>10, ProductIsInt, Zenon
  <2>2. t[i] \in Int
    BY <1>9
  <2> QED
    BY <1>8, <2>1, <2>2
<1>11. /\ sum[0] \in Int /\ sum[1] \in Int /\ sum[2] \in Int /\ sum[3] \in Int
       /\ sum[4] \in Int /\ sum[5] \in Int /\ sum[6] \in Int
  <2>0. sum[0] \in Int
    BY <1>7
  <2>1. sum[1] \in Int
    BY <1>10, <2>0, UpToSix, Zenon
  <2>2. sum[2] \in Int
    BY <1>10, <2>1, UpToSix, Zenon
  <2>3. sum[3] \in Int
    BY <1>10, <2>2, UpToSix, Zenon
  <2>4. sum[4] \in Int
    BY <1>10, <2>3, UpToSix, Zenon
  <2>5. sum[5] \in Int
    BY <1>10, <2>4, UpToSix, Zenon
  <2>6. sum[6] \in Int
    BY <1>10, <2>5, UpToSix, Zenon
  <2> QED
    BY <2>0, <2>1, <2>2, <2>3, <2>4, <2>5, <2>6
<1>12. \A i \in 0 .. 6 : sum[i] \in Int
  BY <1>11, UpToSix, Zenon
<1>13. sum = [i \in 0 .. 6 |-> sum[i]]
  BY <1>4, <1>6, Zenon
<1>14. sum \in [0 .. 6 -> Int]
  BY <1>12, <1>13
<1>15. IsSum(sum, days, t)
  BY <1>7, <1>8, <1>14 DEF IsSum
<1> QED
  BY <1>5, <1>15

(* The nanoseconds of a time. *)
Value(t) ==
  t[1] * UnitLength[1] + t[2] * UnitLength[2] + t[3] * UnitLength[3]
    + t[4] * UnitLength[4] + t[5] * UnitLength[5] + t[6] * UnitLength[6]

LEMMA Products ==
  ASSUME NEW t \in [Fields -> Int]
  PROVE  /\ t[1] * UnitLength[1] \in Int /\ t[2] * UnitLength[2] \in Int /\ t[3] * UnitLength[3] \in Int
         /\ t[4] * UnitLength[4] \in Int /\ t[5] * UnitLength[5] \in Int /\ t[6] * UnitLength[6] \in Int
<1>1. \A i \in Fields : t[i] \in Int /\ UnitLength[i] \in Int
  BY UnitLengthPositive DEF Fields
<1>2. \A i \in Fields : t[i] * UnitLength[i] \in Int
  BY <1>1, ProductIsInt, Zenon
<1> QED
  BY <1>2, UpToSix, Zenon

LEMMA ValueIsInt ==
  ASSUME NEW t \in [Fields -> Int]
  PROVE  Value(t) \in Int
<1> QED
  BY Products DEF Value

LEMMA Carried ==
  ASSUME NEW s \in Int, NEW a \in Int, NEW b \in Int, NEW r \in Int, NEW u \in Int, NEW w \in Int,
         w = r * u, s = a + b * r
  PROVE  s * u = a * u + b * w
<1>1. s * u = a * u + (b * r) * u
  OBVIOUS
<1>2. (b * r) * u = b * (r * u)
  OBVIOUS
<1> QED
  BY <1>1, <1>2

(* TotalDurationNanoseconds adds up the days and the fields at their lengths. *)
LEMMA TotalIs ==
  ASSUME NEW days \in Int, NEW t \in [Fields -> Int], NEW shift \in Int
  PROVE  TotalDurationNanoseconds(days, t, shift) =
           days * DayLength + Value(t) - IF days # 0 THEN shift ELSE 0
<1>1. PICK s : /\ IsSum(s, days, t)
               /\ TotalDurationNanoseconds(days, t, shift) = s[6] - IF days # 0 THEN shift ELSE 0
  BY TotalIsSum
<1>2. ASSUME NEW i \in Fields
      PROVE  s[i] * UnitLength[i] = t[i] * UnitLength[i] + s[i - 1] * UnitLength[i - 1]
  <2>1. i \in 0 .. 6 /\ i - 1 \in 0 .. 6
    BY DEF Fields
  <2>2. s[i] \in Int /\ t[i] \in Int /\ s[i - 1] \in Int /\ Radix[i] \in Int
        /\ UnitLength[i] \in Int /\ UnitLength[i - 1] \in Int
    BY <1>1, <2>1, RadixType, UnitLengthPositive DEF IsSum
  <2>3. s[i] = t[i] + s[i - 1] * Radix[i] /\ UnitLength[i - 1] = Radix[i] * UnitLength[i]
    BY <1>1, UnitLengthIs DEF IsSum
  <2> QED
    BY <2>2, <2>3, Carried
<1> DEFINE p0 == s[0] * UnitLength[0]
           p1 == s[1] * UnitLength[1]
           p2 == s[2] * UnitLength[2]
           p3 == s[3] * UnitLength[3]
           p4 == s[4] * UnitLength[4]
           p5 == s[5] * UnitLength[5]
           p6 == s[6] * UnitLength[6]
<1>3. /\ p1 = t[1] * UnitLength[1] + p0 /\ p2 = t[2] * UnitLength[2] + p1 /\ p3 = t[3] * UnitLength[3] + p2
      /\ p4 = t[4] * UnitLength[4] + p3 /\ p5 = t[5] * UnitLength[5] + p4 /\ p6 = t[6] * UnitLength[6] + p5
  <2> HIDE DEF p0, p1, p2, p3, p4, p5, p6
  <2>1. p1 = t[1] * UnitLength[1] + p0
    BY <1>2, UpToSix, Zenon DEF p0, p1
  <2>2. p2 = t[2] * UnitLength[2] + p1
    BY <1>2, UpToSix, Zenon DEF p1, p2
  <2>3. p3 = t[3] * UnitLength[3] + p2
    BY <1>2, UpToSix, Zenon DEF p2, p3
  <2>4. p4 = t[4] * UnitLength[4] + p3
    BY <1>2, UpToSix, Zenon DEF p3, p4
  <2>5. p5 = t[5] * UnitLength[5] + p4
    BY <1>2, UpToSix, Zenon DEF p4, p5
  <2>6. p6 = t[6] * UnitLength[6] + p5
    BY <1>2, UpToSix, Zenon DEF p5, p6
  <2> QED
    BY <2>1, <2>2, <2>3, <2>4, <2>5, <2>6
<1>4. p0 = days * DayLength
  BY <1>1 DEF IsSum, DayLength
<1>5. p6 = s[6] /\ s[6] \in Int
  BY <1>1, UnitLengthIs DEF IsSum
<1>6. days * DayLength \in Int
  BY UnitLengthPositive, ProductIsInt
<1> HIDE DEF p0, p1, p2, p3, p4, p5, p6
<1>7. s[6] = days * DayLength + Value(t)
  BY <1>3, <1>4, <1>5, <1>6, Products DEF Value
<1> HIDE DEF Value
<1> QED
  BY <1>1, <1>6, <1>7, ValueIsInt

(* Division with a remainder that is not negative. *)
LEMMA DivmodIs ==
  ASSUME NEW n \in Int, NEW d \in Nat \ {0}
  PROVE  LET q == NonNegativeDivmod(n, d)
         IN  /\ q = [quotient |-> n \div d, remainder |-> n % d]
             /\ q.quotient \in Int /\ q.remainder \in 0 .. d - 1
             /\ n = q.quotient * d + q.remainder
<1>1. Magnitude(d) = d /\ Sign(d) = 1
  BY DEF Magnitude, Sign
<1>2. n \div d \in Int /\ n % d \in 0 .. d - 1 /\ n = (n \div d) * d + (n % d)
  <2>1. n \div d \in Int
    OBVIOUS
  <2>2. n % d \in 0 .. d - 1
    OBVIOUS
  <2>3. n = d * (n \div d) + (n % d)
    OBVIOUS
  <2>4. d * (n \div d) = (n \div d) * d
    BY <2>1
  <2> QED
    BY <2>1, <2>2, <2>3, <2>4
<1> SUFFICES NonNegativeDivmod(n, d) = [quotient |-> n \div d, remainder |-> n % d]
  BY <1>2
<1>3. CASE n >= 0
  <2>1. Quo(n, d) = n \div d /\ Rem(n, d) = n % d
    <3>1. Magnitude(n) = n /\ Sign(n) \in {0, 1} /\ (n = 0 => n \div d = 0 /\ n % d = 0) /\ (n # 0 => Sign(n) = 1)
      BY <1>3 DEF Magnitude, Sign
    <3> QED
      BY <1>1, <1>2, <3>1 DEF Quo, Rem
  <2>2. ~ (n % d < 0)
    BY <1>2
  <2> QED
    BY <2>1, <2>2, Zenon DEF NonNegativeDivmod, NonNegative
<1>4. CASE n < 0
  <2> DEFINE a == (-n) \div d
             b == (-n) % d
  <2>1. a \in Int /\ b \in 0 .. d - 1 /\ -n = d * a + b
    OBVIOUS
  <2>2. Quo(n, d) = -a /\ Rem(n, d) = -b
    BY <1>1, <1>4, <2>1 DEF Quo, Rem, Sign, Magnitude
  <2> HIDE DEF a, b
  <2>3. n = d * (-a) - b
    BY <2>1
  <2>4. CASE b = 0
    <3>1. n \div d = -a /\ n % d = 0
      BY <2>1, <2>3, <2>4
    <3> QED
      BY <2>2, <2>4, <3>1 DEF NonNegativeDivmod, NonNegative
  <2>5. CASE b # 0
    <3>1. n \div d = -a - 1 /\ n % d = d - b
      BY <2>1, <2>3, <2>5
    <3> QED
      BY <2>1, <2>2, <2>5, <3>1 DEF NonNegativeDivmod, NonNegative
  <2> QED
    BY <2>1, <2>4, <2>5
<1> QED
  BY <1>3, <1>4

Times == {t \in [Fields -> Int] : IsValidTime(t)}

(* A time of day has each field below its radix. *)
LEMMA TimesAre ==
  ASSUME NEW t
  PROVE  t \in Times <=> t \in [Fields -> Int] /\ \A i \in Fields : t[i] \in 0 .. Radix[i] - 1
<1>1. \A i \in Fields : Radix[i] \in Nat \ {0}
  BY RadixType
<1>2. ASSUME t \in [Fields -> Int], NEW i \in Fields
      PROVE  InRange(t[i], 0, Radix[i] - 1) <=> t[i] \in 0 .. Radix[i] - 1
  BY <1>1, <1>2 DEF InRange
<1> QED
  BY <1>2 DEF Times, IsValidTime

(* What BalanceTime carries: from each field into the one before it. *)
IsCarry(q, r, t) ==
  /\ q[7] = 0
  /\ \A i \in Fields : /\ q[i] \in Int /\ q[i + 1] \in Int /\ r[i] \in 0 .. Radix[i] - 1
                       /\ t[i] + q[i + 1] = q[i] * Radix[i] + r[i]

(* BalanceTime carries from the smallest field to the largest, and what is left over is days. *)
LEMMA BalanceTimeCarries ==
  ASSUME NEW t \in [Fields -> Int]
  PROVE  \E q, r : /\ IsCarry(q, r, t)
                   /\ BalanceTime(t) = [deltaDays |-> q[1], time |-> [i \in Fields |-> r[i]]]
<1> DEFINE none == [quotient |-> 0, remainder |-> 0]
           v6 == NonNegativeDivmod(t[6] + none.quotient, Radix[6])
           v5 == NonNegativeDivmod(t[5] + v6.quotient, Radix[5])
           v4 == NonNegativeDivmod(t[4] + v5.quotient, Radix[4])
           v3 == NonNegativeDivmod(t[3] + v4.quotient, Radix[3])
           v2 == NonNegativeDivmod(t[2] + v3.quotient, Radix[2])
           v1 == NonNegativeDivmod(t[1] + v2.quotient, Radix[1])
           f == [i \in 1 .. 7 |-> CASE i = 1 -> v1 [] i = 2 -> v2 [] i = 3 -> v3 [] i = 4 -> v4
                                    [] i = 5 -> v5 [] i = 6 -> v6 [] i = 7 -> none]
           balanced == CHOOSE balanced : balanced =
             [i \in 1 .. 7 |-> IF i = 7 THEN [quotient |-> 0, remainder |-> 0]
                               ELSE NonNegativeDivmod(t[i] + balanced[i + 1].quotient, Radix[i])]
<1>1. f[1] = v1 /\ f[2] = v2 /\ f[3] = v3 /\ f[4] = v4 /\ f[5] = v5 /\ f[6] = v6 /\ f[7] = none
      /\ f = [i \in 1 .. 7 |-> f[i]]
  <2> HIDE DEF v1, v2, v3, v4, v5, v6, none
  <2> QED
    OBVIOUS
<1> HIDE DEF f
<1>2. \A i \in 1 .. 7 : f[i] = IF i = 7 THEN none ELSE NonNegativeDivmod(t[i] + f[i + 1].quotient, Radix[i])
  <2>1. f[1] = NonNegativeDivmod(t[1] + f[1 + 1].quotient, Radix[1])
        /\ f[2] = NonNegativeDivmod(t[2] + f[2 + 1].quotient, Radix[2])
        /\ f[3] = NonNegativeDivmod(t[3] + f[3 + 1].quotient, Radix[3])
        /\ f[4] = NonNegativeDivmod(t[4] + f[4 + 1].quotient, Radix[4])
        /\ f[5] = NonNegativeDivmod(t[5] + f[5 + 1].quotient, Radix[5])
        /\ f[6] = NonNegativeDivmod(t[6] + f[6 + 1].quotient, Radix[6])
    <3>1. /\ v1 = NonNegativeDivmod(t[1] + v2.quotient, Radix[1]) /\ v2 = NonNegativeDivmod(t[2] + v3.quotient, Radix[2])
          /\ v3 = NonNegativeDivmod(t[3] + v4.quotient, Radix[3]) /\ v4 = NonNegativeDivmod(t[4] + v5.quotient, Radix[4])
          /\ v5 = NonNegativeDivmod(t[5] + v6.quotient, Radix[5]) /\ v6 = NonNegativeDivmod(t[6] + none.quotient, Radix[6])
      OBVIOUS
    <3> HIDE DEF v1, v2, v3, v4, v5, v6, none
    <3> QED
      BY <1>1, <3>1, UpToSix, ZenonT(60)
  <2>2. \A i \in 1 .. 7 : i = 1 \/ i = 2 \/ i = 3 \/ i = 4 \/ i = 5 \/ i = 6 \/ i = 7
    OBVIOUS
  <2>3. 1 # 7 /\ 2 # 7 /\ 3 # 7 /\ 4 # 7 /\ 5 # 7 /\ 6 # 7
    OBVIOUS
  <2> QED
    BY <1>1, <2>1, <2>2, <2>3, Zenon
<1>3. f = [i \in 1 .. 7 |-> IF i = 7 THEN [quotient |-> 0, remainder |-> 0]
                            ELSE NonNegativeDivmod(t[i] + f[i + 1].quotient, Radix[i])]
  BY <1>1, <1>2, Zenon
<1>4. balanced = [i \in 1 .. 7 |-> IF i = 7 THEN [quotient |-> 0, remainder |-> 0]
                            ELSE NonNegativeDivmod(t[i] + balanced[i + 1].quotient, Radix[i])]
  BY <1>3, Zenon
<1>5. BalanceTime(t) = [deltaDays |-> balanced[1].quotient, time |-> [i \in Fields |-> balanced[i].remainder]]
  BY Zenon DEF BalanceTime
<1> HIDE DEF balanced
<1>6. \A i \in 1 .. 7 : balanced[i] = IF i = 7 THEN [quotient |-> 0, remainder |-> 0]
                            ELSE NonNegativeDivmod(t[i] + balanced[i + 1].quotient, Radix[i])
  BY <1>4, Zenon
<1>7. balanced[7].quotient = 0
  <2>1. 7 \in 1 .. 7
    OBVIOUS
  <2> QED
    BY <1>6, <2>1
<1>8. ASSUME NEW i \in Fields, balanced[i + 1].quotient \in Int
      PROVE  /\ balanced[i].quotient \in Int /\ balanced[i].remainder \in 0 .. Radix[i] - 1
             /\ t[i] + balanced[i + 1].quotient = balanced[i].quotient * Radix[i] + balanced[i].remainder
  <2>1. i \in 1 .. 7 /\ i # 7
    BY DEF Fields
  <2>2. balanced[i] = NonNegativeDivmod(t[i] + balanced[i + 1].quotient, Radix[i])
    BY <1>6, <2>1, Zenon
  <2>3. t[i] + balanced[i + 1].quotient \in Int /\ Radix[i] \in Nat \ {0}
    BY <1>8, RadixType
  <2> QED
    BY <2>2, <2>3, DivmodIs
<1>9. balanced[6].quotient \in Int
  BY <1>7, <1>8, UpToSix
<1>10. balanced[5].quotient \in Int
  BY <1>9, <1>8, UpToSix, Zenon
<1>11. balanced[4].quotient \in Int
  BY <1>10, <1>8, UpToSix, Zenon
<1>12. balanced[3].quotient \in Int
  BY <1>11, <1>8, UpToSix, Zenon
<1>13. balanced[2].quotient \in Int
  BY <1>12, <1>8, UpToSix, Zenon
<1>14. \A i \in Fields : balanced[i + 1].quotient \in Int
  BY <1>7, <1>9, <1>10, <1>11, <1>12, <1>13, UpToSix
<1> DEFINE q == [i \in 1 .. 7 |-> balanced[i].quotient]
           r == [i \in Fields |-> balanced[i].remainder]
<1>15. \A i \in Fields : q[i] = balanced[i].quotient /\ q[i + 1] = balanced[i + 1].quotient
                         /\ r[i] = balanced[i].remainder
  BY DEF Fields
<1>16. q[7] = 0 /\ q[1] = balanced[1].quotient
  BY <1>7
<1>17. [i \in Fields |-> r[i]] = [i \in Fields |-> balanced[i].remainder]
  OBVIOUS
<1> HIDE DEF q, r
<1>18. IsCarry(q, r, t)
  BY <1>8, <1>14, <1>15, <1>16 DEF IsCarry
<1> QED
  BY <1>5, <1>16, <1>17, <1>18

(* BalanceTime loses no nanosecond, and leaves a valid time. *)
LEMMA BalancedTime ==
  ASSUME NEW t \in [Fields -> Int]
  PROVE  LET b == BalanceTime(t)
         IN  /\ b.deltaDays \in Int /\ b.time \in Times
             /\ b.deltaDays * DayLength + Value(b.time) = Value(t)
<1>1. PICK q, r : /\ IsCarry(q, r, t)
                  /\ BalanceTime(t) = [deltaDays |-> q[1], time |-> [i \in Fields |-> r[i]]]
  BY BalanceTimeCarries
<1> DEFINE time == [i \in Fields |-> r[i]]
<1>2. \A i \in Fields : time[i] \in 0 .. Radix[i] - 1 /\ r[i] \in Int /\ Radix[i] \in Nat
  BY <1>1, RadixType DEF IsCarry
<1>3. time \in [Fields -> Int]
  BY <1>2
<1>4. time \in Times
  BY <1>2, <1>3, TimesAre
<1>5. ASSUME NEW i \in Fields
      PROVE  t[i] * UnitLength[i] + q[i + 1] * UnitLength[i] = r[i] * UnitLength[i] + q[i] * UnitLength[i - 1]
  <2>1. /\ t[i] \in Int /\ q[i] \in Int /\ q[i + 1] \in Int /\ r[i] \in Int /\ Radix[i] \in Int
        /\ t[i] + q[i + 1] = r[i] + q[i] * Radix[i]
    BY <1>1, <1>2, ProductIsInt DEF IsCarry
  <2>2. i \in 0 .. 6 /\ i - 1 \in 0 .. 6
    BY DEF Fields
  <2>3. UnitLength[i] \in Int /\ UnitLength[i - 1] \in Int /\ UnitLength[i - 1] = Radix[i] * UnitLength[i]
    BY <2>2, UnitLengthPositive, UnitLengthIs
  <2>4. t[i] + q[i + 1] \in Int
    BY <2>1
  <2>5. (t[i] + q[i + 1]) * UnitLength[i] = r[i] * UnitLength[i] + q[i] * UnitLength[i - 1]
    BY <2>1, <2>3, <2>4, Carried
  <2>6. (t[i] + q[i + 1]) * UnitLength[i] = t[i] * UnitLength[i] + q[i + 1] * UnitLength[i]
    BY <2>1, <2>3
  <2> QED
    BY <2>5, <2>6
<1> DEFINE c0 == q[1] * UnitLength[0]
           c1 == q[2] * UnitLength[1]
           c2 == q[3] * UnitLength[2]
           c3 == q[4] * UnitLength[3]
           c4 == q[5] * UnitLength[4]
           c5 == q[6] * UnitLength[5]
           c6 == q[7] * UnitLength[6]
<1>6. c6 = 0
  BY <1>1, UnitLengthIs DEF IsCarry
<1>7. /\ c0 \in Int /\ c1 \in Int /\ c2 \in Int /\ c3 \in Int /\ c4 \in Int /\ c5 \in Int
  <2>1. \A i \in Fields : q[i] \in Int /\ UnitLength[i - 1] \in Int
    BY <1>1, UnitLengthPositive DEF IsCarry, Fields
  <2>2. \A i \in Fields : q[i] * UnitLength[i - 1] \in Int
    BY <2>1, ProductIsInt, Zenon
  <2> QED
    BY <2>2, UpToSix, Zenon
<1> HIDE DEF c0, c1, c2, c3, c4, c5, c6
<1>8. /\ t[1] * UnitLength[1] + c1 = r[1] * UnitLength[1] + c0
      /\ t[2] * UnitLength[2] + c2 = r[2] * UnitLength[2] + c1
      /\ t[3] * UnitLength[3] + c3 = r[3] * UnitLength[3] + c2
      /\ t[4] * UnitLength[4] + c4 = r[4] * UnitLength[4] + c3
      /\ t[5] * UnitLength[5] + c5 = r[5] * UnitLength[5] + c4
      /\ t[6] * UnitLength[6] + c6 = r[6] * UnitLength[6] + c5
  <2>1. t[1] * UnitLength[1] + c1 = r[1] * UnitLength[1] + c0
    BY <1>5, UpToSix, Zenon DEF c0, c1
  <2>2. t[2] * UnitLength[2] + c2 = r[2] * UnitLength[2] + c1
    BY <1>5, UpToSix, Zenon DEF c1, c2
  <2>3. t[3] * UnitLength[3] + c3 = r[3] * UnitLength[3] + c2
    BY <1>5, UpToSix, Zenon DEF c2, c3
  <2>4. t[4] * UnitLength[4] + c4 = r[4] * UnitLength[4] + c3
    BY <1>5, UpToSix, Zenon DEF c3, c4
  <2>5. t[5] * UnitLength[5] + c5 = r[5] * UnitLength[5] + c4
    BY <1>5, UpToSix, Zenon DEF c4, c5
  <2>6. t[6] * UnitLength[6] + c6 = r[6] * UnitLength[6] + c5
    BY <1>5, UpToSix, Zenon DEF c5, c6
  <2> QED
    BY <2>1, <2>2, <2>3, <2>4, <2>5, <2>6
<1>9. time[1] = r[1] /\ time[2] = r[2] /\ time[3] = r[3] /\ time[4] = r[4] /\ time[5] = r[5] /\ time[6] = r[6]
  BY UpToSix
<1>10. Value(time) = r[1] * UnitLength[1] + r[2] * UnitLength[2] + r[3] * UnitLength[3]
    + r[4] * UnitLength[4] + r[5] * UnitLength[5] + r[6] * UnitLength[6]
  BY <1>9, Zenon DEF Value
<1>11. /\ r[1] * UnitLength[1] \in Int /\ r[2] * UnitLength[2] \in Int /\ r[3] * UnitLength[3] \in Int
       /\ r[4] * UnitLength[4] \in Int /\ r[5] * UnitLength[5] \in Int /\ r[6] * UnitLength[6] \in Int
  BY <1>3, <1>9, Products
<1>12. BalanceTime(t) = [deltaDays |-> q[1], time |-> time]
  BY <1>1
<1> HIDE DEF time
<1>13. c0 + Value(time) = Value(t)
  BY <1>6, <1>7, <1>8, <1>10, <1>11, Products DEF Value
<1>14. q[1] \in Int
  BY <1>1, UpToSix, Zenon DEF IsCarry
<1> QED
  BY <1>4, <1>12, <1>13, <1>14 DEF c0, DayLength

-----------------------------------------------------------------------------
(***************************************************************************)
(* Rounding.                                                               *)
(***************************************************************************)
(* Quotient and remainder with the sign of the dividend. *)
LEMMA QuoRem ==
  ASSUME NEW n \in Int, NEW d \in Nat \ {0}
  PROVE  /\ Quo(n, d) \in Int /\ Rem(n, d) \in Int
         /\ n = Quo(n, d) * d + Rem(n, d)
         /\ Magnitude(Rem(n, d)) < d
         /\ n >= 0 => Rem(n, d) >= 0 /\ Quo(n, d) >= 0
         /\ n <= 0 => Rem(n, d) <= 0 /\ Quo(n, d) <= 0
<1>1. Magnitude(d) = d /\ Sign(d) = 1
  BY DEF Magnitude, Sign
<1> DEFINE m == Magnitude(n)
           a == m \div d
           b == m % d
<1>2. m \in Nat
  BY DEF Magnitude
<1>3. a \in Nat /\ b \in 0 .. d - 1 /\ m = a * d + b
  <2> HIDE DEF m
  <2>1. m \div d \in Int /\ m % d \in 0 .. d - 1
    BY <1>2
  <2>2. m = d * (m \div d) + (m % d)
    BY <1>2
  <2>3. m \div d >= 0
    BY <1>2
  <2>4. d * (m \div d) = (m \div d) * d
    BY <2>1
  <2> QED
    BY <2>1, <2>2, <2>3, <2>4
<1>4. Quo(n, d) = Sign(n) * 1 * a /\ Rem(n, d) = Sign(n) * b
  BY <1>1 DEF Quo, Rem
<1> HIDE DEF a, b
<1>5. CASE n > 0
  <2>1. Sign(n) = 1 /\ m = n
    BY <1>5 DEF Sign, Magnitude
  <2>2. Quo(n, d) = a /\ Rem(n, d) = b
    BY <1>3, <1>4, <2>1
  <2> HIDE DEF m
  <2> QED
    BY <1>3, <1>5, <2>1, <2>2 DEF Magnitude
<1>6. CASE n = 0
  <2>1. Sign(n) = 0
    BY <1>6 DEF Sign
  <2>2. Quo(n, d) = 0 /\ Rem(n, d) = 0
    BY <1>3, <1>4, <2>1
  <2> QED
    BY <1>6, <2>2 DEF Magnitude
<1>7. CASE n < 0
  <2>1. Sign(n) = -1 /\ m = -n
    BY <1>7 DEF Sign, Magnitude
  <2>2. Quo(n, d) = -a /\ Rem(n, d) = -b
    BY <1>3, <1>4, <2>1
  <2>3. (-a) * d = -(a * d)
    BY <1>3
  <2>4. a * d \in Int
    BY <1>3
  <2> HIDE DEF m
  <2> QED
    BY <1>3, <1>7, <2>1, <2>2, <2>3, <2>4 DEF Magnitude
<1> QED
  BY <1>5, <1>6, <1>7

LEMMA ProductMonotone ==
  ASSUME NEW a \in Int, NEW b \in Int, NEW g \in Nat, a <= b
  PROVE  a * g <= b * g
<1>1. b - a \in Nat
  OBVIOUS
<1>2. (b - a) * g \in Nat
  BY <1>1
<1>3. (b - a) * g = b * g - a * g
  OBVIOUS
<1> QED
  BY <1>2, <1>3

(* Division of a number that is given by a quotient and a remainder. *)
LEMMA DivisionIs ==
  ASSUME NEW q \in Int, NEW g \in Nat \ {0}, NEW r \in 0 .. g - 1, NEW n, n = q * g + r
  PROVE  n \div g = q /\ n % g = r
<1>1. q * g \in Int /\ n \in Int
  OBVIOUS
<1> DEFINE e == n \div g
           m == n % g
<1>2. e \in Int /\ m \in 0 .. g - 1 /\ n = g * e + m
  BY <1>1
<1> HIDE DEF e, m
<1>3. e * g \in Int /\ g * e = e * g
  BY <1>2
<1>4. e * g + m = q * g + r
  BY <1>1, <1>2, <1>3
<1>5. (e + 1) * g = e * g + g /\ (q + 1) * g = q * g + g
  BY <1>2
<1>6. ~ (e < q)
  <2> SUFFICES ASSUME e < q PROVE FALSE
    OBVIOUS
  <2>1. (e + 1) * g <= q * g
    BY <1>2, ProductMonotone
  <2> HIDE DEF e
  <2> QED
    BY <1>1, <1>2, <1>3, <1>4, <1>5, <2>1
<1>7. ~ (q < e)
  <2> SUFFICES ASSUME q < e PROVE FALSE
    OBVIOUS
  <2>1. (q + 1) * g <= e * g
    BY <1>2, ProductMonotone
  <2> QED
    BY <1>1, <1>2, <1>3, <1>4, <1>5, <2>1
<1>8. e = q
  BY <1>2, <1>6, <1>7
<1>9. m = r
  BY <1>1, <1>2, <1>4, <1>8
<1> QED
  BY <1>8, <1>9 DEF e, m

(* The multiple q * g of g, and the next ones. *)
LEMMA MultipleOf ==
  ASSUME NEW q \in Int, NEW g \in Nat \ {0}
  PROVE  /\ q * g \in Int /\ (q * g) % g = 0 /\ (q * g) \div g = q
         /\ (q + 1) * g = q * g + g /\ (q - 1) * g = q * g - g
<1>1. q * g \in Int
  OBVIOUS
<1>2. (q + 1) * g = q * g + g /\ (q - 1) * g = q * g - g
  OBVIOUS
<1>3. 0 \in 0 .. g - 1 /\ q * g = q * g + 0
  BY <1>1
<1>4. (q * g) \div g = q /\ (q * g) % g = 0
  BY <1>3, DivisionIs
<1> QED
  BY <1>1, <1>2, <1>4

(* RoundNumberToIncrement chooses the multiple that the mode asks for. *)
LEMMA Rounds ==
  ASSUME NEW n \in Nat, NEW g \in Nat \ {0}, NEW mode \in RoundingModes
  PROVE  /\ RoundNumberToIncrement(n, g, mode) \in Int
         /\ IsRounding(n, RoundNumberToIncrement(n, g, mode), g, 0, mode)
<1>1. CASE g = 1
  <2>1. RoundNumberToIncrement(n, g, mode) = n
    BY <1>1 DEF RoundNumberToIncrement
  <2>2. n % g = 0 /\ Magnitude(n - n) < g /\ n <= n /\ n >= n /\ 2 * Magnitude(n - n) < g
    BY <1>1 DEF Magnitude
  <2>3. IsRounding(n, n, g, 0, mode)
    BY <2>2, Zenon DEF IsRounding
  <2> QED
    BY <2>1, <2>3
<1>2. CASE g # 1
  <2> DEFINE a == Quo(n, g)
             r == Rem(n, g)
             away == AwayFromZero(a, 1, Magnitude(2 * r), g, mode)
  <2>1. /\ a \in Nat /\ r \in Nat /\ n = a * g + r /\ r < g
    BY QuoRem DEF Magnitude
  <2> DEFINE q == IF r # 0 /\ away THEN a + 1 ELSE a
  <2>2. RoundNumberToIncrement(n, g, mode) = q * g
    <3>1. ~ (r < 0)
      BY <2>1
    <3> QED
      BY <1>2, <3>1, Zenon DEF RoundNumberToIncrement, RoundQuotient
  <2>3. Magnitude(2 * r) = 2 * r /\ Magnitude(a) = a
    BY <2>1 DEF Magnitude
  <2>4. /\ mode = "ceil" => away
        /\ mode = "floor" => ~ away
        /\ mode = "expand" => away
        /\ mode = "trunc" => ~ away
        /\ mode \in {"halfCeil", "halfExpand"} => (away <=> 2 * r >= g)
        /\ mode \in {"halfFloor", "halfTrunc"} => (away <=> 2 * r > g)
        /\ mode = "halfEven" => (away <=> 2 * r > g \/ (2 * r = g /\ a % 2 = 1))
    <3> HIDE DEF a, r
    <3>1. away = AwayFromZero(a, 1, 2 * r, g, mode)
      BY <2>3
    <3> HIDE DEF away
    <3>2. CASE mode \in {"ceil", "floor", "expand", "trunc"}
      <4>1. mode = "ceil" => (away <=> 1 > 0)
        BY <3>1, Zenon DEF AwayFromZero
      <4>2. mode = "floor" => (away <=> 1 < 0)
        BY <3>1, Zenon DEF AwayFromZero
      <4>3. mode = "expand" => away
        BY <3>1, Zenon DEF AwayFromZero
      <4>4. mode = "trunc" => ~ away
        BY <3>1, Zenon DEF AwayFromZero
      <4> QED
        BY <3>2, <4>1, <4>2, <4>3, <4>4
    <3>3. CASE mode = "halfCeil"
      <4>1. away <=> (2 * r > g \/ (2 * r = g /\ 1 > 0))
        BY <3>1, <3>3, Zenon DEF AwayFromZero
      <4> QED
        BY <2>1, <3>3, <4>1
    <3>4. CASE mode = "halfFloor"
      <4>1. away <=> (2 * r > g \/ (2 * r = g /\ 1 < 0))
        BY <3>1, <3>4, Zenon DEF AwayFromZero
      <4> QED
        BY <2>1, <3>4, <4>1
    <3>5. CASE mode = "halfExpand"
      <4>1. away <=> (2 * r > g \/ 2 * r = g)
        BY <3>1, <3>5, Zenon DEF AwayFromZero
      <4> QED
        BY <2>1, <3>5, <4>1
    <3>6. CASE mode = "halfTrunc"
      <4>1. away <=> (2 * r > g)
        BY <3>1, <3>6, Zenon DEF AwayFromZero
      <4> QED
        BY <2>1, <3>6, <4>1
    <3>7. CASE mode = "halfEven"
      <4>1. Magnitude(a) = a
        BY <2>3 DEF a
      <4>2. away = (2 * r > g \/ (2 * r = g /\ a % 2 = 1))
        BY <3>1, <3>7, <4>1 DEF AwayFromZero
      <4> QED
        BY <3>7, <4>2
    <3> QED
      BY <3>2, <3>3, <3>4, <3>5, <3>6, <3>7 DEF RoundingModes
  <2> HIDE DEF a, r, away
  <2> DEFINE p == q * g
             b == a * g
  <2>5. q \in Int /\ b \in Int /\ p = IF r # 0 /\ away THEN b + g ELSE b
    BY <2>1, MultipleOf
  <2>6. p \in Int /\ p % g = 0 /\ p \div g = q /\ n = b + r /\ p - 0 = p
    BY <2>1, <2>5, MultipleOf
  <2> HIDE DEF p, b
  <2>7. Magnitude(p - n) = IF r # 0 /\ away THEN g - r ELSE r
    BY <2>1, <2>5, <2>6 DEF Magnitude
  <2>8. mode \in {"floor", "trunc"} => p <= n
    BY <2>1, <2>4, <2>5, <2>6
  <2>9. mode \in {"ceil", "expand"} => p >= n
    BY <2>1, <2>4, <2>5, <2>6
  <2>10. Magnitude(p - n) < g
    BY <2>1, <2>7
  <2>11. mode \in {"halfCeil", "halfExpand"} =>
            2 * Magnitude(p - n) < g \/ (2 * Magnitude(p - n) = g /\ p > n)
    BY <2>1, <2>4, <2>5, <2>6, <2>7
  <2>12. mode \in {"halfFloor", "halfTrunc"} =>
            2 * Magnitude(p - n) < g \/ (2 * Magnitude(p - n) = g /\ p < n)
    BY <2>1, <2>4, <2>5, <2>6, <2>7
  <2>13. mode = "halfEven" =>
            2 * Magnitude(p - n) < g \/ (2 * Magnitude(p - n) = g /\ ((p - 0) \div g) % 2 = 0)
    <3>1. ASSUME mode = "halfEven", ~ (2 * Magnitude(p - n) < g)
          PROVE  2 * Magnitude(p - n) = g /\ q % 2 = 0
      BY <2>1, <2>4, <2>5, <2>6, <2>7, <3>1
    <3> QED
      BY <2>6, <3>1
  <2>14. \/ mode \in {"floor", "trunc"} \/ mode \in {"ceil", "expand"} \/ mode \in {"halfCeil", "halfExpand"}
         \/ mode \in {"halfFloor", "halfTrunc"} \/ mode = "halfEven"
    BY DEF RoundingModes
  <2>15. IsRounding(n, p, g, 0, mode)
    BY <2>6, <2>8, <2>9, <2>10, <2>11, <2>12, <2>13, <2>14 DEF IsRounding
  <2> QED
    BY <2>2, <2>6, <2>15 DEF p
<1> QED
  BY <1>1, <1>2

(* The nanoseconds of the fields of a time from f down. *)
From(t, f) == Value([i \in Fields |-> IF i < f THEN 0 ELSE t[i]])

(* A time from a field on, field by field. *)
LEMMA FromNext ==
  ASSUME NEW t \in [Fields -> Int]
  PROVE  /\ From(t, 1) = Value(t) /\ From(t, 7) = 0
         /\ \A f \in Fields : From(t, f) = t[f] * UnitLength[f] + From(t, f + 1)
         /\ \A f \in 1 .. 7 : From(t, f) \in Int
<1> DEFINE P(i) == t[i] * UnitLength[i]
           Z(i) == 0 * UnitLength[i]
<1>1. P(1) \in Int /\ P(2) \in Int /\ P(3) \in Int /\ P(4) \in Int /\ P(5) \in Int /\ P(6) \in Int
  BY Products
<1>2. Z(1) = 0 /\ Z(2) = 0 /\ Z(3) = 0 /\ Z(4) = 0 /\ Z(5) = 0 /\ Z(6) = 0
  BY UnitLengthPositive
<1>3. From(t, 1) = P(1) + P(2) + P(3) + P(4) + P(5) + P(6)
  <2> DEFINE u == [i \in Fields |-> IF i < 1 THEN 0 ELSE t[i]]
  <2>1. u[1] = t[1] /\ u[2] = t[2] /\ u[3] = t[3] /\ u[4] = t[4] /\ u[5] = t[5] /\ u[6] = t[6]
    BY UpToSix
  <2> HIDE DEF u
  <2>2. Value(u) = P(1) + P(2) + P(3) + P(4) + P(5) + P(6)
    BY <2>1, Zenon DEF Value
  <2> QED
    BY <2>2 DEF From, u
<1>4. From(t, 2) = Z(1) + P(2) + P(3) + P(4) + P(5) + P(6)
  <2> DEFINE u == [i \in Fields |-> IF i < 2 THEN 0 ELSE t[i]]
  <2>1. u[1] = 0 /\ u[2] = t[2] /\ u[3] = t[3] /\ u[4] = t[4] /\ u[5] = t[5] /\ u[6] = t[6]
    BY UpToSix
  <2> HIDE DEF u
  <2>2. Value(u) = Z(1) + P(2) + P(3) + P(4) + P(5) + P(6)
    BY <2>1, Zenon DEF Value
  <2> QED
    BY <2>2 DEF From, u
<1>5. From(t, 3) = Z(1) + Z(2) + P(3) + P(4) + P(5) + P(6)
  <2> DEFINE u == [i \in Fields |-> IF i < 3 THEN 0 ELSE t[i]]
  <2>1. u[1] = 0 /\ u[2] = 0 /\ u[3] = t[3] /\ u[4] = t[4] /\ u[5] = t[5] /\ u[6] = t[6]
    BY UpToSix
  <2> HIDE DEF u
  <2>2. Value(u) = Z(1) + Z(2) + P(3) + P(4) + P(5) + P(6)
    BY <2>1, Zenon DEF Value
  <2> QED
    BY <2>2 DEF From, u
<1>6. From(t, 4) = Z(1) + Z(2) + Z(3) + P(4) + P(5) + P(6)
  <2> DEFINE u == [i \in Fields |-> IF i < 4 THEN 0 ELSE t[i]]
  <2>1. u[1] = 0 /\ u[2] = 0 /\ u[3] = 0 /\ u[4] = t[4] /\ u[5] = t[5] /\ u[6] = t[6]
    BY UpToSix
  <2> HIDE DEF u
  <2>2. Value(u) = Z(1) + Z(2) + Z(3) + P(4) + P(5) + P(6)
    BY <2>1, Zenon DEF Value
  <2> QED
    BY <2>2 DEF From, u
<1>7. From(t, 5) = Z(1) + Z(2) + Z(3) + Z(4) + P(5) + P(6)
  <2> DEFINE u == [i \in Fields |-> IF i < 5 THEN 0 ELSE t[i]]
  <2>1. u[1] = 0 /\ u[2] = 0 /\ u[3] = 0 /\ u[4] = 0 /\ u[5] = t[5] /\ u[6] = t[6]
    BY UpToSix
  <2> HIDE DEF u
  <2>2. Value(u) = Z(1) + Z(2) + Z(3) + Z(4) + P(5) + P(6)
    BY <2>1, Zenon DEF Value
  <2> QED
    BY <2>2 DEF From, u
<1>8. From(t, 6) = Z(1) + Z(2) + Z(3) + Z(4) + Z(5) + P(6)
  <2> DEFINE u == [i \in Fields |-> IF i < 6 THEN 0 ELSE t[i]]
  <2>1. u[1] = 0 /\ u[2] = 0 /\ u[3] = 0 /\ u[4] = 0 /\ u[5] = 0 /\ u[6] = t[6]
    BY UpToSix
  <2> HIDE DEF u
  <2>2. Value(u) = Z(1) + Z(2) + Z(3) + Z(4) + Z(5) + P(6)
    BY <2>1, Zenon DEF Value
  <2> QED
    BY <2>2 DEF From, u
<1>9. From(t, 7) = Z(1) + Z(2) + Z(3) + Z(4) + Z(5) + Z(6)
  <2> DEFINE u == [i \in Fields |-> IF i < 7 THEN 0 ELSE t[i]]
  <2>1. u[1] = 0 /\ u[2] = 0 /\ u[3] = 0 /\ u[4] = 0 /\ u[5] = 0 /\ u[6] = 0
    BY UpToSix
  <2> HIDE DEF u
  <2>2. Value(u) = Z(1) + Z(2) + Z(3) + Z(4) + Z(5) + Z(6)
    BY <2>1, Zenon DEF Value
  <2> QED
    BY <2>2 DEF From, u
<1>10. From(t, 1) = Value(t)
  BY <1>3 DEF Value
<1> HIDE DEF P, Z
<1>11. From(t, 7) = 0
  BY <1>2, <1>9
<1>12. /\ From(t, 6) = P(6) /\ From(t, 5) = P(5) + From(t, 6) /\ From(t, 4) = P(4) + From(t, 5)
       /\ From(t, 3) = P(3) + From(t, 4) /\ From(t, 2) = P(2) + From(t, 3) /\ From(t, 1) = P(1) + From(t, 2)
  BY <1>1, <1>2, <1>3, <1>4, <1>5, <1>6, <1>7, <1>8
<1>13. /\ From(t, 6) \in Int /\ From(t, 5) \in Int /\ From(t, 4) \in Int
       /\ From(t, 3) \in Int /\ From(t, 2) \in Int /\ From(t, 1) \in Int
  BY <1>1, <1>12
<1>14. From(t, 6) = P(6) + From(t, 7)
  BY <1>1, <1>11, <1>12
<1>15. \A f \in Fields : From(t, f) = P(f) + From(t, f + 1)
  BY <1>12, <1>14, UpToSix, SMT
<1>16. \A f \in 1 .. 7 : From(t, f) \in Int
  <2>1. \A f \in 1 .. 7 : f = 1 \/ f = 2 \/ f = 3 \/ f = 4 \/ f = 5 \/ f = 6 \/ f = 7
    OBVIOUS
  <2>2. From(t, 7) \in Int
    BY <1>11
  <2> QED
    BY <1>13, <2>1, <2>2, Zenon
<1> QED
  BY <1>10, <1>11, <1>15, <1>16 DEF P

(* Whole units above field f, fewer than a day has, and the rest from f. *)
Above(t, f) == \E h \in Nat : /\ Value(t) = h * UnitLength[f - 1] + From(t, f)
                              /\ (h + 1) * UnitLength[f - 1] <= DayLength

LEMMA AboveNext ==
  ASSUME NEW t \in Times, NEW f \in Fields, Above(t, f)
  PROVE  Above(t, f + 1)
<1>1. PICK h \in Nat : /\ Value(t) = h * UnitLength[f - 1] + From(t, f)
                       /\ (h + 1) * UnitLength[f - 1] <= DayLength
  BY DEF Above
<1> DEFINE u == UnitLength[f]
           r == Radix[f]
           w == UnitLength[f - 1]
           c == From(t, f + 1)
           k == t[f] + h * r
<1>2. t \in [Fields -> Int] /\ t[f] \in 0 .. r - 1
  BY TimesAre
<1>3. u \in Nat /\ r \in Nat \ {0} /\ w \in Nat
  BY RadixType, UnitLengthPositive DEF Fields
<1>4. w = r * u /\ From(t, f) = t[f] * u + c /\ (f + 1) - 1 = f
  BY <1>2, UnitLengthIs, FromNext DEF Fields
<1>5. c \in Int
  BY <1>2, FromNext DEF Fields
<1>6. u = UnitLength[(f + 1) - 1] /\ c = From(t, f + 1)
  BY <1>4 DEF u, c
<1>7. (h + 1) * w <= DayLength /\ Value(t) = h * w + (t[f] * u + c)
  BY <1>1, <1>4 DEF w
<1> HIDE DEF u, r, w, c
<1>8. h * r \in Nat /\ k \in Nat /\ (h + 1) * r = h * r + r
  BY <1>2, <1>3
<1>9. k * u = t[f] * u + h * w
  BY <1>2, <1>3, <1>4, <1>8, Carried
<1>10. k + 1 <= (h + 1) * r /\ (h + 1) * r \in Int /\ k + 1 \in Int
  BY <1>2, <1>3, <1>8
<1> HIDE DEF k
<1>11. (k + 1) * u <= ((h + 1) * r) * u
  BY <1>3, <1>10, ProductMonotone
<1>12. ((h + 1) * r) * u = (h + 1) * w
  <2>1. h + 1 \in Nat
    OBVIOUS
  <2> QED
    BY <1>3, <1>4, <2>1
<1>13. (k + 1) * u <= DayLength
  <2>1. (k + 1) * u \in Int /\ (h + 1) * w \in Int /\ DayLength \in Int
    BY <1>3, <1>8, UnitLengthPositive
  <2> QED
    BY <1>7, <1>11, <1>12, <2>1
<1>14. Value(t) = k * u + c
  <2>1. h * w \in Int /\ t[f] * u \in Int
    BY <1>2, <1>3
  <2> QED
    BY <1>5, <1>7, <1>9, <2>1
<1>15. Value(t) = k * UnitLength[(f + 1) - 1] + From(t, f + 1) /\ (k + 1) * UnitLength[(f + 1) - 1] <= DayLength
  BY <1>6, <1>13, <1>14, Zenon
<1>16. k \in Nat
  BY <1>8
<1> QED
  BY <1>15, <1>16, Zenon DEF Above

(* The fields below a field are less than one of it. *)
LEMMA Split ==
  ASSUME NEW t \in Times
  PROVE  \A f \in Fields : From(t, f) \in 0 .. UnitLength[f - 1] - 1 /\ Above(t, f)
<1>0. t \in [Fields -> Int] /\ \A i \in Fields : t[i] \in 0 .. Radix[i] - 1
  BY TimesAre
<1>1. \A i \in Fields : Radix[i] \in Nat \ {0} /\ UnitLength[i] \in Nat \ {0}
  BY RadixType, UnitLengthPositive DEF Fields
<1>2. ASSUME NEW f \in Fields, From(t, f + 1) \in 0 .. UnitLength[f] - 1
      PROVE  From(t, f) \in 0 .. UnitLength[f - 1] - 1
  <2> DEFINE u == UnitLength[f]
             r == Radix[f]
             c == From(t, f + 1)
  <2>1. u \in Nat /\ r \in Nat \ {0} /\ t[f] \in 0 .. r - 1 /\ c \in 0 .. u - 1
    BY <1>0, <1>1, <1>2
  <2>2. UnitLength[f - 1] = r * u /\ From(t, f) = t[f] * u + c
    BY <1>0, UnitLengthIs, FromNext
  <2> HIDE DEF u, r, c
  <2>3. t[f] * u <= (r - 1) * u /\ 0 * u <= t[f] * u
    BY <2>1, ProductMonotone
  <2>4. (r - 1) * u = r * u - u /\ t[f] * u \in Int /\ r * u \in Int /\ 0 * u = 0
    BY <2>1
  <2> QED
    BY <2>1, <2>2, <2>3, <2>4
<1>3. From(t, 7) \in 0 .. UnitLength[6] - 1
  BY <1>0, FromNext, UnitLengthIs
<1>4. \A f \in Fields : From(t, f) \in 0 .. UnitLength[f - 1] - 1
  <2>6. From(t, 6) \in 0 .. UnitLength[5] - 1
    BY <1>2, <1>3, UpToSix
  <2>5. From(t, 5) \in 0 .. UnitLength[4] - 1
    BY <1>2, <2>6, UpToSix
  <2>4. From(t, 4) \in 0 .. UnitLength[3] - 1
    BY <1>2, <2>5, UpToSix
  <2>3. From(t, 3) \in 0 .. UnitLength[2] - 1
    BY <1>2, <2>4, UpToSix
  <2>2. From(t, 2) \in 0 .. UnitLength[1] - 1
    BY <1>2, <2>3, UpToSix
  <2>1. From(t, 1) \in 0 .. UnitLength[0] - 1
    BY <1>2, <2>2, UpToSix
  <2> QED
    BY <2>1, <2>2, <2>3, <2>4, <2>5, <2>6, UpToSix, Zenon
<1>5. Above(t, 1)
  <2>1. Value(t) = 0 * UnitLength[1 - 1] + From(t, 1) /\ (0 + 1) * UnitLength[1 - 1] <= DayLength /\ 0 \in Nat
    BY <1>0, FromNext, UnitLengthPositive, ValueIsInt DEF DayLength
  <2> QED
    BY <2>1 DEF Above
<1>6. Above(t, 2)
  BY <1>5, AboveNext, UpToSix
<1>7. Above(t, 3)
  BY <1>6, AboveNext, UpToSix
<1>8. Above(t, 4)
  BY <1>7, AboveNext, UpToSix
<1>9. Above(t, 5)
  BY <1>8, AboveNext, UpToSix
<1>10. Above(t, 6)
  BY <1>9, AboveNext, UpToSix
<1>11. \A f \in Fields : Above(t, f)
  BY <1>5, <1>6, <1>7, <1>8, <1>9, <1>10, UpToSix, Zenon
<1> QED
  BY <1>4, <1>11

(* Times that agree above a field differ by what is from the field on. *)
LEMMA SameAbove ==
  ASSUME NEW t \in [Fields -> Int], NEW u \in [Fields -> Int], NEW f \in Fields,
         \A i \in Fields : i < f => t[i] = u[i]
  PROVE  Value(t) - From(t, f) = Value(u) - From(u, f)
<1> DEFINE P(s, i) == s[i] * UnitLength[i]
<1>1. ASSUME NEW s \in [Fields -> Int]
      PROVE  /\ From(s, 1) = Value(s)
             /\ From(s, 1) = P(s, 1) + From(s, 2) /\ From(s, 2) = P(s, 2) + From(s, 3)
             /\ From(s, 3) = P(s, 3) + From(s, 4) /\ From(s, 4) = P(s, 4) + From(s, 5)
             /\ From(s, 5) = P(s, 5) + From(s, 6)
             /\ From(s, 1) \in Int /\ From(s, 2) \in Int /\ From(s, 3) \in Int
             /\ From(s, 4) \in Int /\ From(s, 5) \in Int /\ From(s, 6) \in Int
             /\ P(s, 1) \in Int /\ P(s, 2) \in Int /\ P(s, 3) \in Int /\ P(s, 4) \in Int /\ P(s, 5) \in Int
  <2>1. \A i \in 1 .. 7 : From(s, i) \in Int
    BY FromNext
  <2>2. \A i \in Fields : From(s, i) = P(s, i) + From(s, i + 1)
    BY FromNext
  <2>3. P(s, 1) \in Int /\ P(s, 2) \in Int /\ P(s, 3) \in Int /\ P(s, 4) \in Int /\ P(s, 5) \in Int
    BY Products
  <2>4. From(s, 1) = Value(s)
    BY FromNext
  <2>5. 1 \in 1 .. 7 /\ 2 \in 1 .. 7 /\ 3 \in 1 .. 7 /\ 4 \in 1 .. 7 /\ 5 \in 1 .. 7 /\ 6 \in 1 .. 7
    OBVIOUS
  <2> HIDE DEF P
  <2> QED
    BY <2>1, <2>2, <2>3, <2>4, <2>5, UpToSix, SMTT(60)
<1>2. \A i \in Fields : i < f => P(t, i) = P(u, i)
  OBVIOUS
<1>3. /\ 1 < f => P(t, 1) = P(u, 1)
      /\ 2 < f => P(t, 2) = P(u, 2)
      /\ 3 < f => P(t, 3) = P(u, 3)
      /\ 4 < f => P(t, 4) = P(u, 4)
      /\ 5 < f => P(t, 5) = P(u, 5)
  <2> HIDE DEF P
  <2> QED
    BY <1>2, UpToSix, Zenon
<1>4. f = 1 \/ f = 2 \/ f = 3 \/ f = 4 \/ f = 5 \/ f = 6
  BY UpToSix
<1>5. /\ Value(t) = P(t, 1) + From(t, 2) /\ Value(u) = P(u, 1) + From(u, 2)
  BY <1>1, Zenon
<1> HIDE DEF P
<1>6. CASE f = 1
  BY <1>1, <1>6
<1>7. CASE f = 2
  BY <1>1, <1>3, <1>7
<1>8. CASE f = 3
  BY <1>1, <1>3, <1>8
<1>9. CASE f = 4
  BY <1>1, <1>3, <1>9
<1>10. CASE f = 5
  BY <1>1, <1>3, <1>10
<1>11. CASE f = 6
  BY <1>1, <1>3, <1>11
<1> QED
  BY <1>4, <1>6, <1>7, <1>8, <1>9, <1>10, <1>11

(* RoundTime replaces a field and clears the ones below it. *)
LEMMA ReplacedValue ==
  ASSUME NEW t \in [Fields -> Int], NEW f \in Fields, NEW n \in Int
  PROVE  /\ ReplaceBelow(t, f, n) \in [Fields -> Int]
         /\ Value(ReplaceBelow(t, f, n)) = Value(t) - From(t, f) + n * UnitLength[f]
<1> DEFINE u == ReplaceBelow(t, f, n)
           G(i) == CASE i < f -> t[i] [] i = f -> n [] i > f -> 0
<1>2. u = [i \in Fields |-> G(i)]
  BY DEF ReplaceBelow
<1>0. \A i \in Fields : G(i) = IF i < f THEN t[i] ELSE IF i = f THEN n ELSE 0
  BY DEF Fields
<1> HIDE DEF u, G
<1>1. \A i \in Fields : u[i] = IF i < f THEN t[i] ELSE IF i = f THEN n ELSE 0
  BY <1>0, <1>2
<1>3. u \in [Fields -> Int]
  <2>1. \A i \in Fields : G(i) \in Int
    BY <1>0
  <2> QED
    BY <1>2, <2>1
<1>4. Value(t) - From(t, f) = Value(u) - From(u, f)
  <2>1. \A i \in Fields : i < f => t[i] = u[i]
    BY <1>1
  <2> QED
    BY <1>3, <2>1, SameAbove
<1>5. From(u, f) = n * UnitLength[f] + From(u, f + 1)
  <2>1. u[f] = n
    BY <1>1 DEF Fields
  <2> QED
    BY <1>3, <2>1, FromNext
<1>6. From(u, f + 1) = 0
  <2> DEFINE w == [i \in Fields |-> IF i < f + 1 THEN 0 ELSE u[i]]
  <2>1. \A i \in Fields : w[i] = 0
    BY <1>1 DEF Fields
  <2> HIDE DEF w
  <2>2. w[1] = 0 /\ w[2] = 0 /\ w[3] = 0 /\ w[4] = 0 /\ w[5] = 0 /\ w[6] = 0
    BY <2>1, UpToSix, Zenon
  <2>3. Value(w) = 0
    BY <2>2, UnitLengthPositive DEF Value
  <2> QED
    BY <2>3 DEF From, w
<1>7. /\ Value(t) \in Int /\ Value(u) \in Int /\ From(t, f) \in Int /\ From(u, f) \in Int
      /\ n * UnitLength[f] \in Int
  <2>1. f \in 1 .. 7 /\ f \in 0 .. 6
    BY DEF Fields
  <2>2. UnitLength[f] \in Int
    BY <2>1, UnitLengthPositive
  <2> QED
    BY <1>3, <2>1, <2>2, ValueIsInt, FromNext, ProductIsInt
<1>8. Value(u) = Value(t) - From(t, f) + n * UnitLength[f]
  BY <1>4, <1>5, <1>6, <1>7
<1> QED
  BY <1>3, <1>8 DEF u

(* The nanoseconds below a field. *)
LEMMA TimeBelowIs ==
  ASSUME NEW t \in [Fields -> Int], NEW f \in Fields
  PROVE  TimeBelow(t, f) = From(t, f)
<1> DEFINE u == [i \in Fields |-> IF i < f THEN 0 ELSE t[i]]
<1>1. u \in [Fields -> Int] /\ Value(u) \in Int
  BY ValueIsInt
<1> HIDE DEF u
<1>2. TotalDurationNanoseconds(0, u, 0) = 0 * DayLength + Value(u) - IF 0 # 0 THEN 0 ELSE 0
  BY <1>1, TotalIs
<1>3. TotalDurationNanoseconds(0, u, 0) = Value(u)
  BY <1>1, <1>2, UnitLengthPositive
<1> QED
  BY <1>3, Zenon DEF TimeBelow, From, u

(* The quotient of naturals that is truncated is the one that is floored. *)
LEMMA QuoIs ==
  ASSUME NEW n \in Nat, NEW d \in Nat \ {0}
  PROVE  Quo(n, d) = n \div d
<1>1. n \div d \in Int /\ Magnitude(n) = n /\ Magnitude(d) = d /\ Sign(d) = 1
  BY DEF Magnitude, Sign
<1>2. CASE n = 0
  BY <1>1, <1>2 DEF Quo, Sign
<1>3. CASE n # 0
  BY <1>1, <1>3 DEF Quo, Sign
<1> QED
  BY <1>2, <1>3

(* A multiple of a multiple. *)
LEMMA MultipleOfMultiple ==
  ASSUME NEW k \in Int, NEW a \in Int, NEW b \in Int
  PROVE  k * (a * b) = (k * a) * b /\ k * (a * b) = (k * b) * a
OBVIOUS

(* A field that is rounded to an increment is a whole number of it. *)
LEMMA RoundFieldIs ==
  ASSUME NEW n \in Nat, NEW L \in Nat \ {0}, NEW inc \in Nat \ {0}, NEW mode \in RoundingModes
  PROVE  LET r == RoundNumberToIncrement(n, L * inc, mode)
         IN  Quo(r, L) \in Nat /\ Quo(r, L) * L = r /\ r \in Nat
<1> DEFINE g == L * inc
           r == RoundNumberToIncrement(n, g, mode)
           k == r \div g
<1>1. g \in Nat \ {0}
  BY ProductPositive
<1> HIDE DEF g
<1>2. r \in Int /\ IsRounding(n, r, g, 0, mode)
  BY <1>1, Rounds
<1> HIDE DEF r
<1>3. r % g = 0 /\ Magnitude(r - n) < g
  BY <1>2, Zenon DEF IsRounding
<1>4. k \in Int /\ r = g * k
  BY <1>1, <1>2, <1>3
<1> HIDE DEF k
<1>5. r > -g
  BY <1>1, <1>2, <1>3 DEF Magnitude
<1>6. k > -1
  <2>1. ASSUME k <= -1
        PROVE  FALSE
    <3>1. k * g <= (-1) * g
      BY <1>1, <1>4, <2>1, ProductMonotone
    <3> QED
      BY <1>1, <1>4, <1>5, <3>1
  <2> QED
    BY <1>4, <2>1
<1>7. r = (k * inc) * L /\ k * inc \in Nat
  <2>1. g * k = k * (L * inc)
    BY <1>4, <1>1 DEF g
  <2>2. k * (L * inc) = (k * inc) * L
    BY <1>4, MultipleOfMultiple
  <2>3. k * inc \in Nat
    BY <1>4, <1>6
  <2> QED
    BY <1>4, <2>1, <2>2, <2>3
<1> DEFINE m == k * inc
<1>8. m \in Nat /\ m * L = r /\ m * L \in Nat
  BY <1>7
<1> HIDE DEF m
<1>9. Quo(r, L) = m
  BY <1>8, QuoIs, MultipleOf
<1>10. Quo(r, L) \in Nat /\ Quo(r, L) * L = r /\ r \in Nat
  BY <1>8, <1>9
<1> QED
  BY <1>10 DEF r, g

(* Midnight is the time of day that is no time. *)
LEMMA MidnightIs == Midnight \in Times /\ Value(Midnight) = 0 /\ \A t \in Times : Value(t) = 0 => t = Midnight
<1>1. \A i \in Fields : Radix[i] \in Nat \ {0} /\ UnitLength[i] \in Nat \ {0}
  BY RadixType, UnitLengthPositive DEF Fields
<1>2. Midnight \in [Fields -> Int] /\ \A i \in Fields : Midnight[i] = 0
  BY DEF Midnight
<1>3. Midnight \in Times
  BY <1>1, <1>2, TimesAre
<1>4. \A i \in Fields : Midnight[i] * UnitLength[i] = 0
  BY <1>1, <1>2
<1>5. Value(Midnight) = 0
  <2>1. /\ Midnight[1] * UnitLength[1] = 0 /\ Midnight[2] * UnitLength[2] = 0 /\ Midnight[3] * UnitLength[3] = 0
        /\ Midnight[4] * UnitLength[4] = 0 /\ Midnight[5] * UnitLength[5] = 0 /\ Midnight[6] * UnitLength[6] = 0
    BY <1>4, UpToSix, Zenon
  <2> QED
    BY <2>1 DEF Value
<1>6. ASSUME NEW t \in Times, Value(t) = 0
      PROVE  t = Midnight
  <2>1. t \in [Fields -> Int] /\ \A i \in Fields : t[i] \in Nat
    BY <1>1, TimesAre
  <2>2. ASSUME NEW a \in Nat, NEW b \in Nat \ {0}
        PROVE  a * b \in Nat /\ (a * b = 0 => a = 0)
    OBVIOUS
  <2>3. \A i \in Fields : t[i] * UnitLength[i] \in Nat /\ (t[i] * UnitLength[i] = 0 => t[i] = 0)
    BY <1>1, <2>1, <2>2
  <2> DEFINE P(i) == t[i] * UnitLength[i]
  <2>4. P(1) \in Nat /\ P(2) \in Nat /\ P(3) \in Nat /\ P(4) \in Nat /\ P(5) \in Nat /\ P(6) \in Nat
    BY <2>3, UpToSix, Zenon
  <2>5. P(1) + P(2) + P(3) + P(4) + P(5) + P(6) = 0
    BY <1>6 DEF Value
  <2>6. \A i \in Fields : P(i) = 0 => t[i] = 0
    BY <2>3
  <2> HIDE DEF P
  <2>7. P(1) = 0 /\ P(2) = 0 /\ P(3) = 0 /\ P(4) = 0 /\ P(5) = 0 /\ P(6) = 0
    BY <2>4, <2>5, SMTT(60)
  <2>8. \A i \in Fields : t[i] = 0
    BY <2>6, <2>7, UpToSix, Zenon
  <2> QED
    BY <2>1, <2>8 DEF Midnight
<1> QED
  BY <1>3, <1>5, <1>6

(* The number n is rounded to r, multiples of g, inside the h-th unit of      *)
(* length u, which begins at b.                                              *)
Inside(h, c, g, n, r, u, b, mode) ==
  /\ h \in Nat /\ c \in Nat \ {0} /\ g \in Nat \ {0} /\ n \in Nat /\ r \in Int /\ mode \in RoundingModes
  /\ u \in Nat /\ u = c * g /\ b \in Nat /\ b = h * u
  /\ n < u /\ IsRounding(n, r, g, 0, mode)

(* A number that is rounded within a unit is rounded, with the multiples     *)
(* counted from the start of that unit.                                      *)
LEMMA RoundedWithin ==
  ASSUME NEW h, NEW c, NEW g, NEW n, NEW r, NEW u, NEW b, NEW mode, Inside(h, c, g, n, r, u, b, mode)
  PROVE  /\ b \in Nat /\ IsRounding(b + n, b + r, g, b, mode) /\ r <= u
         /\ ((b + n) \div u) * u = b
<1> DEFINE k == r \div g
<1> USE DEF Inside
<1>1. u \in Nat \ {0} /\ b \in Nat
  <2>1. u \in Nat \ {0}
    BY ProductPositive
  <2>2. ASSUME NEW x \in Nat, NEW y \in Nat
        PROVE  x * y \in Nat
    OBVIOUS
  <2> QED
    BY <2>1, <2>2
<1>2. r % g = 0 /\ Magnitude(r - n) < g /\ k \in Int /\ r = k * g
  <2>1. r % g = 0 /\ Magnitude(r - n) < g
    BY Zenon DEF IsRounding
  <2>2. k \in Int /\ r = g * k
    BY <2>1
  <2> QED
    BY <2>1, <2>2
<1>3. b = (h * c) * g /\ h * c \in Nat
  <2>1. h * (c * g) = (h * c) * g
    BY MultipleOfMultiple
  <2>2. h * c \in Nat
    OBVIOUS
  <2> QED
    BY <2>1, <2>2
<1> DEFINE m == h * c + k
<1>4. m \in Int /\ m * g = b + r
  <2>1. ASSUME NEW x \in Nat, NEW y \in Int
        PROVE  (x + y) * g = x * g + y * g
    OBVIOUS
  <2> DEFINE x == h * c
  <2>2. x \in Nat /\ b = x * g
    BY <1>3
  <2> HIDE DEF x, k
  <2>3. (x + k) * g = x * g + k * g
    BY <1>2, <2>1, <2>2
  <2>4. x + k \in Int /\ (x + k) * g = b + r
    BY <1>2, <2>2, <2>3
  <2> QED
    BY <2>4 DEF x
<1>5. (b + r) % g = 0
  BY <1>4, MultipleOf
<1>6. (b + r) - (b + n) = r - n /\ (b + r) - b = r - 0
  BY <1>1
<1> HIDE DEF m, k
<1>7. /\ (b + r <= b + n) = (r <= n) /\ (b + r >= b + n) = (r >= n)
      /\ (b + r > b + n) = (r > n) /\ (b + r < b + n) = (r < n)
  BY <1>1
<1>8. IsRounding(b + n, b + r, g, b, mode)
  <2> DEFINE x == b + r
             y == b + n
  <2>1. /\ x % g = 0 /\ x - y = r - n /\ x - b = r - 0
        /\ (x <= y <=> r <= n) /\ (x >= y <=> r >= n) /\ (x > y <=> r > n) /\ (x < y <=> r < n)
    BY <1>5, <1>6, <1>1
  <2> HIDE DEF x, y
  <2> DEFINE d == 2 * Magnitude(r - n)
             even == ((r - 0) \div g) % 2 = 0
  <2>2. /\ Magnitude(r - n) < g
        /\ mode \in {"floor", "trunc"} => r <= n
        /\ mode \in {"ceil", "expand"} => r >= n
    BY Zenon DEF IsRounding
  <2>3. /\ mode \in {"halfCeil", "halfExpand"} => d < g \/ (d = g /\ r > n)
        /\ mode \in {"halfFloor", "halfTrunc"} => d < g \/ (d = g /\ r < n)
        /\ mode = "halfEven" => d < g \/ (d = g /\ even)
    <3>1. CASE mode \in {"floor", "trunc", "ceil", "expand"}
      BY <3>1
    <3>2. CASE mode \notin {"floor", "trunc", "ceil", "expand"}
      <4>1. \/ d < g
            \/ /\ d = g
               /\ CASE mode \in {"halfCeil", "halfExpand"} -> r > n
                    [] mode \in {"halfFloor", "halfTrunc"} -> r < n
                    [] mode = "halfEven" -> even
        BY <3>2, Zenon DEF IsRounding
      <4> HIDE DEF d, even
      <4>2. mode \in {"halfCeil", "halfExpand"} => d < g \/ (d = g /\ r > n)
        BY <4>1
      <4>3. mode \in {"halfFloor", "halfTrunc"} => d < g \/ (d = g /\ r < n)
        BY <4>1
      <4>4. mode = "halfEven" => d < g \/ (d = g /\ even)
        BY <4>1
      <4> QED
        BY <4>2, <4>3, <4>4
    <3> QED
      BY <3>1, <3>2
  <2>4. 2 * Magnitude(x - y) = d /\ Magnitude(x - y) < g
    BY <2>1, <2>2
  <2>5. (((x - b) \div g) % 2 = 0) <=> even
    BY <2>1, Zenon
  <2> HIDE DEF d, even
  <2>14. \/ mode \in {"floor", "trunc"} \/ mode \in {"ceil", "expand"} \/ mode \in {"halfCeil", "halfExpand"}
         \/ mode \in {"halfFloor", "halfTrunc"} \/ mode = "halfEven"
    BY DEF RoundingModes
  <2>15. IsRounding(y, x, g, b, mode)
    BY <2>1, <2>2, <2>3, <2>4, <2>5, <2>14 DEF IsRounding
  <2> QED
    BY <2>15 DEF x, y
<1>9. r <= u
  <2>1. ASSUME k >= c + 1
        PROVE  FALSE
    <3>1. (c + 1) * g <= k * g
      BY <1>2, <2>1, ProductMonotone
    <3>2. (c + 1) * g = u + g
      OBVIOUS
    <3> QED
      BY <1>1, <1>2, <3>1, <3>2 DEF Magnitude
  <2>2. k <= c
    BY <1>2, <2>1
  <2> QED
    BY <1>2, <2>2, ProductMonotone
<1>10. (b + n) \div u = h
  <2>1. ASSUME NEW w \in Nat \ {0}, n \in 0 .. w - 1
        PROVE  (h * w + n) \div w = h
    <3>1. h \in Int /\ n \in Nat
      OBVIOUS
    <3> DEFINE e == h * w + n
    <3>2. e = h * w + n
      OBVIOUS
    <3> HIDE DEF e
    <3>3. e \div w = h
      BY <2>1, <3>1, <3>2, DivisionIs
    <3> QED
      BY <3>2, <3>3, Zenon
  <2>2. n \in 0 .. u - 1
    BY <1>1
  <2> QED
    BY <1>1, <2>1, <2>2, Zenon
<1>11. ((b + n) \div u) * u = b
  BY <1>10
<1> QED
  BY <1>1, <1>8, <1>9, <1>11

(* A balanced time of at most a day's nanoseconds is in the day, or is the   *)
(* midnight that ends it.                                                    *)
LEMMA WithinADay ==
  ASSUME NEW d \in Int, NEW t \in Times, NEW v, v = d * DayLength + Value(t), v \in 0 .. DayLength
  PROVE  (d = 0 /\ Value(t) = v) \/ (d = 1 /\ t = Midnight /\ v = DayLength)
<1>1. Value(t) \in 0 .. DayLength - 1
  <2>1. From(t, 1) \in 0 .. UnitLength[1 - 1] - 1
    BY Split, UpToSix
  <2>2. t \in [Fields -> Int]
    BY TimesAre
  <2> QED
    BY <2>1, <2>2, FromNext DEF DayLength
<1>2. DayLength \in Nat \ {0}
  BY UnitLengthPositive
<1>3. d < 2
  <2> SUFFICES ASSUME d >= 2 PROVE FALSE
    OBVIOUS
  <2>1. 2 * DayLength <= d * DayLength
    BY <1>2, ProductMonotone
  <2>2. d * DayLength \in Int
    BY <1>2
  <2> QED
    BY <1>1, <1>2, <2>1, <2>2
<1>4. d > -1
  <2> SUFFICES ASSUME d <= -1 PROVE FALSE
    OBVIOUS
  <2>1. d * DayLength <= (-1) * DayLength
    BY <1>2, ProductMonotone
  <2>2. d * DayLength \in Int
    BY <1>2
  <2> QED
    BY <1>1, <1>2, <2>1, <2>2
<1>5. d = 0 \/ d = 1
  BY <1>3, <1>4
<1>6. CASE d = 0
  <2>1. v = Value(t)
    BY <1>1, <1>2, <1>6
  <2>2. Value(t) = v
    BY <2>1
  <2> QED
    BY <1>6, <2>2
<1>7. CASE d = 1
  <2>1. Value(t) = 0 /\ v = DayLength
    BY <1>1, <1>2, <1>7
  <2> QED
    BY <1>7, <2>1, MidnightIs
<1> QED
  BY <1>5, <1>6, <1>7

(* RoundTime within a unit of time: the time is rounded to the multiple that *)
(* the mode asks for, counted from the start of the unit above.              *)
LEMMA RoundTimeIs ==
  ASSUME NEW t \in Times, NEW unit, unit # "day", Field(unit) \in Fields, NEW inc \in Nat \ {0},
         Radix[Field(unit)] % inc = 0, NEW mode \in RoundingModes, NEW dayLength
  PROVE  LET f == Field(unit)
             b == RoundTime(t, inc, unit, mode, dayLength)
             v == b.deltaDays * DayLength + Value(b.time)
         IN  /\ b.time \in Times /\ v \in 0 .. DayLength
             /\ (b.deltaDays = 0 /\ Value(b.time) = v) \/ (b.deltaDays = 1 /\ b.time = Midnight /\ v = DayLength)
             /\ IsRounding(Value(t), v, UnitLength[f] * inc, StartOfUnitAbove(Value(t), f), mode)
<1> DEFINE f == Field(unit)
           L == UnitLength[f]
           g == L * inc
           n == From(t, f)
           r == RoundNumberToIncrement(n, g, mode)
           u == ReplaceBelow(t, f, Quo(r, L))
           b == RoundTime(t, inc, unit, mode, dayLength)
           v == b.deltaDays * DayLength + Value(b.time)
           c == Radix[f] \div inc
           m == StartOfUnitAbove(Value(t), f)
<1>1. t \in [Fields -> Int] /\ Value(t) \in Int /\ n \in Int
  <2>1. t \in [Fields -> Int]
    BY TimesAre
  <2>2. f \in 1 .. 7 /\ f \in Fields
    BY DEF Fields
  <2> QED
    BY <2>1, <2>2, ValueIsInt, FromNext
<1>2. L \in Nat \ {0} /\ Radix[f] \in Nat \ {0} /\ UnitLength[f - 1] = Radix[f] * L /\ f \in Fields
  <2>1. f \in Fields /\ f \in 0 .. 6
    BY DEF Fields
  <2> QED
    BY <2>1, UnitLengthPositive, RadixType, UnitLengthIs
<1>3. c \in Nat \ {0} /\ Radix[f] = c * inc
  <2> DEFINE x == Radix[f]
  <2>1. x \in Nat \ {0} /\ x % inc = 0
    BY <1>2
  <2> HIDE DEF x
  <2>2. x \div inc \in Int /\ x = inc * (x \div inc)
    BY <2>1
  <2>3. ASSUME NEW y \in Int, inc * y > 0
        PROVE  y > 0
    BY <2>3
  <2>4. x \div inc > 0
    BY <2>1, <2>2, <2>3
  <2> QED
    BY <2>2, <2>4 DEF x
<1>4. n \in Nat /\ n < UnitLength[f - 1] /\ Above(t, f)
  <2>1. UnitLength[f - 1] \in Nat
    BY <1>2, ProductPositive
  <2>2. n \in 0 .. UnitLength[f - 1] - 1
    BY <1>2, Split
  <2> QED
    BY <1>2, <2>1, <2>2, Split
<1>5. PICK h \in Nat : Value(t) = h * UnitLength[f - 1] + n /\ (h + 1) * UnitLength[f - 1] <= DayLength
  BY <1>4 DEF Above
<1>6. g \in Nat \ {0} /\ UnitLength[f - 1] = c * g
  <2>1. g \in Nat \ {0}
    BY <1>2, ProductPositive
  <2>2. ASSUME NEW x \in Nat, NEW y \in Nat
        PROVE  (x * inc) * y = x * (y * inc)
    OBVIOUS
  <2> QED
    BY <1>2, <1>3, <2>1, <2>2
<1>7. Quo(r, L) \in Nat /\ Quo(r, L) * L = r /\ r \in Nat
  <2> HIDE DEF n, L
  <2> QED
    BY <1>2, <1>4, RoundFieldIs
<1>8. b = BalanceTime(u)
  <2>1. b = BalanceTime(ReplaceBelow(t, f, RoundField(t, f, UnitLength[f], inc, mode)))
    BY Zenon DEF RoundTime
  <2>2. RoundField(t, f, UnitLength[f], inc, mode) = Quo(r, L)
    BY <1>1, <1>2, TimeBelowIs DEF RoundField
  <2> QED
    BY <2>1, <2>2
<1>9. u \in [Fields -> Int] /\ Value(u) = Value(t) - n + r
  <2> DEFINE k == Quo(r, L)
  <2>1. k \in Int /\ k * UnitLength[f] = r
    BY <1>7
  <2> HIDE DEF k, f
  <2>2. /\ ReplaceBelow(t, f, k) \in [Fields -> Int]
        /\ Value(ReplaceBelow(t, f, k)) = Value(t) - From(t, f) + k * UnitLength[f]
    BY <1>1, <1>2, <2>1, ReplacedValue, Zenon
  <2> QED
    BY <2>1, <2>2 DEF k
<1> HIDE DEF u
<1>10. b.deltaDays \in Int /\ b.time \in Times /\ v = Value(u)
  BY <1>8, <1>9, BalancedTime
<1> HIDE DEF b, v, n, r, g, L, c
<1> DEFINE e == c * g
           a == h * e
<1>11. IsRounding(n, r, g, 0, mode)
  BY <1>4, <1>6, Rounds DEF r
<1>12. n < e
  BY <1>4, <1>6
<1>13. a \in Nat /\ IsRounding(a + n, a + r, g, a, mode) /\ r <= e /\ ((a + n) \div e) * e = a
  <2>1. r \in Int
    BY <1>7
  <2>2. e = c * g /\ a = h * e
    OBVIOUS
  <2>3. e \in Nat
    BY <1>3, <1>6, ProductPositive
  <2>4. ASSUME NEW x \in Nat, NEW y \in Nat
        PROVE  x * y \in Nat
    OBVIOUS
  <2>5. a \in Nat
    BY <2>3, <2>4
  <2> HIDE DEF a, e
  <2>6. c \in Nat \ {0} /\ g \in Nat \ {0} /\ n \in Nat
    BY <1>3, <1>4, <1>6
  <2>7. e = c * g
    BY <2>2
  <2>8. a = h * e
    BY <2>2
  <2>9. Inside(h, c, g, n, r, e, a, mode)
    BY <1>11, <1>12, <2>1, <2>3, <2>5, <2>6, <2>7, <2>8 DEF Inside
  <2>10. a \in Nat /\ r <= e /\ ((a + n) \div e) * e = a
    BY ONLY <2>9, RoundedWithin
  <2>11. IsRounding(a + n, a + r, g, a, mode)
    BY ONLY <2>9, RoundedWithin, Zenon
  <2> QED
    BY <2>10, <2>11
<1>14. Value(t) = a + n
  BY <1>5, <1>6, Zenon
<1>15. v = a + r
  BY <1>1, <1>4, <1>7, <1>9, <1>10, <1>13, <1>14
<1>16. m = a
  BY <1>6, <1>13, <1>14, Zenon DEF StartOfUnitAbove
<1>17. v \in 0 .. DayLength
  <2> DEFINE w == e
  <2>1. w \in Nat
    BY <1>3, <1>6, ProductPositive
  <2>2. (h + 1) * w = h * w + w
    <3> HIDE DEF w
    <3> QED
      BY <2>1 DEF w
  <2>3. a + w <= DayLength
    BY <1>5, <1>6, <2>2
  <2>4. DayLength \in Nat
    BY UnitLengthPositive
  <2>5. r <= w
    BY <1>13
  <2> HIDE DEF a, w
  <2> QED
    BY <1>7, <1>13, <1>15, <2>1, <2>3, <2>4, <2>5
<1>18. IsRounding(Value(t), v, g, m, mode)
  BY <1>13, <1>14, <1>15, <1>16
<1> DEFINE d == b.deltaDays
           w == b.time
<1>19. d \in Int /\ w \in Times /\ v = d * DayLength + Value(w)
  BY <1>10 DEF v
<1> HIDE DEF d, w
<1>20. (d = 0 /\ Value(w) = v) \/ (d = 1 /\ w = Midnight /\ v = DayLength)
  BY <1>17, <1>19, WithinADay
<1> QED
  BY <1>10, <1>17, <1>18, <1>20, Zenon DEF b, v, g, L, m, d, w

-----------------------------------------------------------------------------
(***************************************************************************)
(* The types of dates, times and instants.                                 *)
(***************************************************************************)

GoodDates == {d \in Dates : d.day <= ISODaysInMonth(d.year, d.month)}
LooseDates == [year : Int, month : 1 .. 12, day : Int]
AnyDates == [year : Int, month : Int, day : Int]
Clocks == [Fields -> Int]
InstantRange == MinInstant .. MaxInstant
Calendars == [years : Int, months : Int, weeks : Int, days : Int]
Walls == [type : {"PlainDateTime"}, date : GoodDates, time : Times]

(* The sets of dates, from those that are valid to any three integers. *)
LEMMA DatesAre ==
  /\ GoodDates \subseteq Dates /\ Dates \subseteq LooseDates /\ LooseDates \subseteq AnyDates
  /\ Times \subseteq Clocks
  /\ \A y, m, d : /\ Date(y, m, d).year = y /\ Date(y, m, d).month = m /\ Date(y, m, d).day = d
                  /\ y \in Int /\ m \in 1 .. 12 /\ d \in Int => Date(y, m, d) \in LooseDates
                  /\ y \in Int /\ m \in Int /\ d \in Int => Date(y, m, d) \in AnyDates
<1>1. Times \subseteq Clocks
  BY DEF Times, Clocks
<1>2. GoodDates \subseteq Dates /\ Dates \subseteq LooseDates /\ LooseDates \subseteq AnyDates
  BY DEF GoodDates, Dates, LooseDates, AnyDates
<1>3. \A y, m, d : /\ Date(y, m, d).year = y /\ Date(y, m, d).month = m /\ Date(y, m, d).day = d
                   /\ y \in Int /\ m \in 1 .. 12 /\ d \in Int => Date(y, m, d) \in LooseDates
                   /\ y \in Int /\ m \in Int /\ d \in Int => Date(y, m, d) \in AnyDates
  BY DEF Date, LooseDates, AnyDates
<1> QED
  BY <1>1, <1>2, <1>3

(* BalanceISODate returns a date that there is. *)
LEMMA BalancedDateIsGood ==
  ASSUME NEW year \in Int, NEW month \in 1 .. 12, NEW day \in Int
  PROVE  BalanceISODate(year, month, day) \in GoodDates
BY BalancedDate DEF GoodDates

(* The constructor of Instant takes what lies between the two limits, and nothing else. *)
LEMMA ValidNanoseconds ==
  /\ MinInstant \in Int /\ MaxInstant \in Int /\ MinInstant <= 0 /\ 0 <= MaxInstant /\ 0 \in InstantRange
  /\ \A ns \in Int : ValidateEpochNanoseconds(ns) \subseteq InstantRange
  /\ \A ns \in InstantRange : ns \in Int /\ ValidateEpochNanoseconds(ns) = {ns}
  /\ \A ns : \A i \in ValidateEpochNanoseconds(ns) : i = ns
<1>1. DayLength \in Nat /\ MaxDays \in Nat
  BY UnitLengthPositive, RangeAssumption
<1> DEFINE m == MaxDays * DayLength
<1>2. m \in Nat /\ MaxInstant = m
  BY <1>1 DEF MaxInstant
<1>3. MinInstant = -m
  BY <1>1 DEF MinInstant
<1> HIDE DEF m
<1>4. MinInstant \in Int /\ MaxInstant \in Int /\ MinInstant <= 0 /\ 0 <= MaxInstant /\ 0 \in InstantRange
  BY <1>2, <1>3 DEF InstantRange
<1> QED
  BY <1>4 DEF ValidateEpochNanoseconds, InstantRange

(* GetEpochFromISOParts counts days and nanoseconds. *)
LEMMA EpochIs ==
  ASSUME NEW d \in LooseDates, NEW t \in Clocks
  PROVE  /\ EpochNanoseconds(d, t) \in Int /\ HostDays(d.year, d.month, d.day) \in Int
         /\ EpochNanoseconds(d, t) = HostDays(d.year, d.month, d.day) * DayLength + Value(t)
<1> DEFINE h == HostDays(d.year, d.month, d.day)
<1>1. h \in Int
  BY HostDaysIsInt DEF LooseDates
<1>2. Value(t) \in Int /\ DayLength \in Int
  BY ValueIsInt, UnitLengthPositive DEF Clocks
<1> HIDE DEF h
<1>3. TotalDurationNanoseconds(h, t, 0) = h * DayLength + Value(t) - IF h # 0 THEN 0 ELSE 0
  BY <1>1, TotalIs DEF Clocks
<1>4. h * DayLength \in Int
  BY <1>1, <1>2, ProductIsInt
<1>5. TotalDurationNanoseconds(h, t, 0) = h * DayLength + Value(t)
  BY <1>2, <1>3, <1>4
<1> QED
  BY <1>1, <1>2, <1>4, <1>5 DEF EpochNanoseconds, h

LEMMA DivModInt ==
  \A n \in Int, d \in Nat \ {0} : n \div d \in Int /\ n % d \in Int
OBVIOUS

(* The host gives every day a date. *)
LEMMA HostDateIs ==
  ASSUME NEW days \in Int
  PROVE  HostDate(days) \in LooseDates
<1>1. ASSUME NEW y \in Int, NEW m \in Int, NEW n \in Int
      PROVE  HostMonthDay(y, m, n) \in LooseDates
  <2>1. ((m + 2) % 12) + 1 \in 1 .. 12
    OBVIOUS
  <2>2. n - (153 * m + 2) \div 5 + 1 \in Int
    OBVIOUS
  <2>3. (IF m >= 10 THEN y + 1 ELSE y) \in Int
    OBVIOUS
  <2> QED
    BY <2>1, <2>2, <2>3, DatesAre, Zenon DEF HostMonthDay
<1>2. ASSUME NEW c \in Int, NEW y \in Int, NEW n \in Int
      PROVE  HostDayInCycle(c, y, n) \in LooseDates
  <2>1. ASSUME NEW x \in Int, NEW k \in Int
        PROVE  HostDayInYear(x, k) \in LooseDates
    <3>1. (5 * k + 2) \div 153 \in Int
      OBVIOUS
    <3> QED
      BY <1>1, <3>1, Zenon DEF HostDayInYear
  <2> DEFINE x == y + 400 * c
             k == n - (365 * y + y \div 4 - y \div 100)
  <2>2. HostDayInCycle(c, y, n) = HostDayInYear(x, k)
    BY DEF HostDayInCycle
  <2>3. x \in Int /\ k \in Int
    OBVIOUS
  <2> HIDE DEF x, k
  <2> QED
    BY <2>1, <2>2, <2>3, Zenon
<1>3. ASSUME NEW n \in Int
      PROVE  (n - n \div 1460 + n \div 36524 - n \div 146096) \div 365 \in Int
  OBVIOUS
<1>4. (days + 719468) % 146097 \in Int /\ (days + 719468) \div 146097 \in Int
  OBVIOUS
<1> DEFINE n == (days + 719468) % 146097
<1>5. HostDate(days) = HostDayInCycle((days + 719468) \div 146097,
                                      (n - n \div 1460 + n \div 36524 - n \div 146096) \div 365, n)
  BY DEF HostDate
<1> HIDE DEF n
<1>6. (n - n \div 1460 + n \div 36524 - n \div 146096) \div 365 \in Int
  BY <1>3, <1>4 DEF n
<1> QED
  BY <1>2, <1>4, <1>5, <1>6 DEF n

(* GetISOPartsFromEpoch returns a date and a time. *)
LEMMA PartsFromEpoch ==
  ASSUME NEW ns \in Int
  PROVE  /\ GetISOPartsFromEpoch(ns).date \in LooseDates
         /\ GetISOPartsFromEpoch(ns).time \in Clocks
<1> DEFINE t == [i \in Fields |-> (ns \div UnitLength[i]) % Radix[i]]
<1>1. \A i \in Fields : UnitLength[i] \in Nat \ {0} /\ Radix[i] \in Nat \ {0}
  BY UnitLengthPositive, RadixType DEF Fields
<1>2. \A i \in Fields : (ns \div UnitLength[i]) % Radix[i] \in Int
  BY <1>1, DivModInt
<1>3. t \in Clocks
  BY <1>2 DEF Clocks
<1>4. HostDate(ns \div DayLength) \in LooseDates
  BY UnitLengthPositive, DivModInt, HostDateIs
<1> HIDE DEF t
<1> QED
  BY <1>3, <1>4 DEF GetISOPartsFromEpoch, DateTime, t

(* The days that a balanced time leaves over go to the date. *)
LEMMA CarriedDays ==
  ASSUME NEW d \in LooseDates, NEW b, b.deltaDays \in Int, b.time \in Times
  PROVE  CarryDays(d, b) \in Walls
<1>1. d.year \in Int /\ d.month \in 1 .. 12 /\ d.day + b.deltaDays \in Int
  BY DEF LooseDates
<1>2. BalanceISODate(d.year, d.month, d.day + b.deltaDays) \in GoodDates
  BY <1>1, BalancedDateIsGood
<1> QED
  BY <1>2 DEF CarryDays, DateTime, Walls

LEMMA BalancedDateTime ==
  ASSUME NEW d \in LooseDates, NEW t \in Clocks
  PROVE  BalanceISODateTime(d, t) \in Walls
<1>1. BalanceTime(t).deltaDays \in Int /\ BalanceTime(t).time \in Times
  BY BalancedTime DEF Clocks
<1> QED
  BY <1>1, CarriedDays DEF BalanceISODateTime

(* CreateTemporalDate takes a date that there is as it is, and throws for any other. *)
LEMMA CreatedDate ==
  ASSUME NEW d \in AnyDates
  PROVE  /\ CreateTemporalDate(d) \subseteq GoodDates \cap {d}
         /\ IsValidISODate(d) <=> d \in GoodDates
<1>1. ASSUME IsValidISODate(d)
      PROVE  d \in GoodDates
  <2>1. d.month \in 1 .. 12 /\ d.year \in Int /\ d.day \in Int
    BY <1>1 DEF IsValidISODate, InRange, AnyDates
  <2>2. ISODaysInMonth(d.year, d.month) \in 28 .. 31
    BY <2>1, Types
  <2>3. d.day \in 1 .. 31 /\ d.day <= ISODaysInMonth(d.year, d.month)
    BY <1>1, <2>1, <2>2 DEF IsValidISODate, InRange
  <2>4. d = [year |-> d.year, month |-> d.month, day |-> d.day]
    BY DEF AnyDates
  <2> QED
    BY <2>1, <2>3, <2>4 DEF GoodDates, Dates
<1>2. ASSUME d \in GoodDates
      PROVE  IsValidISODate(d)
  <2>1. d.month \in 1 .. 12 /\ d.year \in Int /\ d.day \in 1 .. 31 /\ d.day <= ISODaysInMonth(d.year, d.month)
    BY <1>2 DEF GoodDates, Dates
  <2>2. ISODaysInMonth(d.year, d.month) \in 28 .. 31
    BY <2>1, Types
  <2> QED
    BY <2>1, <2>2 DEF IsValidISODate, InRange
<1> QED
  BY <1>1, <1>2 DEF CreateTemporalDate

(* CreateTemporalDateTime takes a date and a time that there are as they are. *)
LEMMA CreatedDateTime ==
  ASSUME NEW d \in AnyDates, NEW t \in Clocks
  PROVE  \A e \in CreateTemporalDateTime(DateTime(d, t)) :
            e = DateTime(d, t) /\ d \in GoodDates /\ t \in Times /\ e \in Walls
<1> SUFFICES ASSUME CreateTemporalDateTime(DateTime(d, t)) # {}
             PROVE  /\ CreateTemporalDateTime(DateTime(d, t)) = {DateTime(d, t)}
                    /\ d \in GoodDates /\ t \in Times /\ DateTime(d, t) \in Walls
  OBVIOUS
<1>1. DateTime(d, t).date = d /\ DateTime(d, t).time = t
  BY DEF DateTime
<1>2. CreateTemporalDateTime(DateTime(d, t)) = {DateTime(d, t)} /\ IsValidISODate(d) /\ IsValidTime(t)
  BY <1>1 DEF CreateTemporalDateTime
<1>3. d \in GoodDates /\ t \in Times
  BY <1>2, CreatedDate DEF Times, Clocks
<1> QED
  BY <1>2, <1>3 DEF DateTime, Walls

LEMMA WallsAre ==
  \A w \in Walls : /\ w.date \in GoodDates /\ w.date \in Dates /\ w.date \in LooseDates /\ w.date \in AnyDates
                   /\ w.time \in Times /\ w.time \in Clocks
                   /\ w = DateTime(w.date, w.time) /\ w.type = "PlainDateTime"
<1>1. \A w \in Walls : w.date \in GoodDates /\ w.time \in Times /\ w.type = "PlainDateTime"
  BY DEF Walls
<1>2. \A w \in Walls : w = DateTime(w.date, w.time)
  BY DEF Walls, DateTime
<1> QED
  BY <1>1, <1>2, DatesAre

-----------------------------------------------------------------------------
(***************************************************************************)
(* Time zones: wall-clock times and instants.                              *)
(***************************************************************************)

LEMMA RemIsInt == \A n \in Int : Rem(n, 400) \in Int /\ Quo(n, 400) \in Int
<1>1. 400 \in Nat \ {0}
  OBVIOUS
<1> QED
  BY <1>1, QuoRem

(* What the host says of an instant in a zone. *)
LEMMA OffsetIsInt ==
  ASSUME NEW z \in ZoneNames, NEW ns \in InstantRange
  PROVE  /\ GetNamedTimeZoneDateTimeParts(z, ns) \in Walls
         /\ GetNamedTimeZoneOffsetNanoseconds(z, ns) \in Int
         /\ GetOffsetNanosecondsFor(z, ns) \in Int
<1>1. HostOffset(z, ns) \in Int /\ HostOffset(z, 0) \in Int /\ ns \in Int
  BY HostOffsetAssumption, ValidNanoseconds DEF InstantRange
<1>2. ns + HostOffset(z, ns) \in Int
  BY <1>1
<1>3. HostWall(z, ns).date \in LooseDates /\ HostWall(z, ns).time \in Clocks
  BY <1>2, PartsFromEpoch DEF HostWall
<1>4. GetISOPartsFromEpoch(ns).time \in Clocks
  BY <1>1, PartsFromEpoch
<1>5. [i \in Fields |-> IF i <= 3 THEN HostWall(z, ns).time[i] ELSE GetISOPartsFromEpoch(ns).time[i]] \in Clocks
  BY <1>3, <1>4 DEF Clocks
<1>6. GetNamedTimeZoneDateTimeParts(z, ns) \in Walls
  BY <1>3, <1>5, BalancedDateTime, Zenon DEF GetNamedTimeZoneDateTimeParts, JoinFields
<1> DEFINE p == GetNamedTimeZoneDateTimeParts(z, ns)
           e == [p.date EXCEPT !.year = Rem(@, 400)]
<1>7. p.date \in Dates /\ p.time \in Clocks /\ p.date.year \in Int
  BY <1>6, WallsAre DEF Dates
<1>8. e \in LooseDates
  <2>1. Rem(p.date.year, 400) \in Int /\ p.date \in LooseDates
    BY <1>7, RemIsInt, DatesAre
  <2> HIDE DEF p
  <2> QED
    BY <2>1 DEF LooseDates
<1>9. Quo(p.date.year, 400) \in Int
  BY <1>7, RemIsInt
<1>10. CycledNanoseconds(p) = EpochNanoseconds(e, p.time) + 146097 * DayLength * Quo(p.date.year, 400)
  BY DEF CycledNanoseconds
<1>11. EpochNanoseconds(e, p.time) \in Int
  BY <1>7, <1>8, EpochIs
<1> HIDE DEF p, e
<1>12. 146097 * DayLength \in Int
  BY UnitLengthPositive
<1>13. 146097 * DayLength * Quo(p.date.year, 400) \in Int
  BY <1>9, <1>12, ProductIsInt
<1>14. GetNamedTimeZoneOffsetNanoseconds(z, ns) \in Int
  BY <1>1, <1>10, <1>11, <1>13 DEF GetNamedTimeZoneOffsetNanoseconds, p
<1> QED
  BY <1>1, <1>6, <1>14 DEF GetOffsetNanosecondsFor

(* The wall-clock time of an instant is a date and a time. *)
LEMMA PlainDateTimeFor ==
  ASSUME NEW z \in ZoneNames, NEW ns \in InstantRange
  PROVE  GetPlainDateTimeFor(z, ns) \subseteq Walls
<1> DEFINE utc == GetISOPartsFromEpoch(ns)
           t == [utc.time EXCEPT ![6] = @ + GetOffsetNanosecondsFor(z, ns)]
<1>1. utc.date \in LooseDates /\ utc.time \in Clocks
  BY ValidNanoseconds, PartsFromEpoch
<1>2. GetOffsetNanosecondsFor(z, ns) \in Int
  BY OffsetIsInt
<1> HIDE DEF utc
<1>3. t \in Clocks
  <2>1. utc.time[6] \in Int
    BY <1>1, UpToSix DEF Clocks
  <2>2. utc.time[6] + GetOffsetNanosecondsFor(z, ns) \in Int
    BY <1>2, <2>1
  <2> QED
    BY <1>1, <2>2 DEF Clocks
<1>4. ShiftedBy(utc, GetOffsetNanosecondsFor(z, ns)) = BalanceISODateTime(utc.date, t)
  BY DEF ShiftedBy
<1> HIDE DEF t
<1> DEFINE w == BalanceISODateTime(utc.date, t)
<1>5. w \in Walls
  BY <1>1, <1>3, BalancedDateTime
<1>6. GetPlainDateTimeFor(z, ns) = CreateTemporalDateTime(w)
  BY <1>4 DEF GetPlainDateTimeFor, utc
<1> HIDE DEF w
<1>7. CreateTemporalDateTime(w) \subseteq {w}
  BY DEF CreateTemporalDateTime
<1> QED
  BY <1>5, <1>6, <1>7

(* A sequence of instants is filtered to one. *)
LEMMA FilteredInstants ==
  ASSUME NEW s \in Seq(InstantRange), NEW P(_)
  PROVE  Filtered(s, P) \in Seq(InstantRange)
<1> DEFINE at(i) == IF i \in DOMAIN s /\ P(s[i]) THEN <<s[i]>> ELSE <<>>
<1>1. \A i : at(i) \in Seq(InstantRange)
  BY DEF at
<1>2. Filtered(s, P) = at(1) \o at(2)
  BY DEF Filtered
<1> HIDE DEF at
<1> QED
  BY <1>1, <1>2

(* The offsets that DisambiguatePossibleInstants measures a gap by. *)
LEMMA OffsetsAround ==
  ASSUME NEW z \in ZoneNames, NEW ns \in InstantRange
  PROVE  OffsetDayBefore(z, ns) \in Int /\ OffsetDayAfter(z, ns) \in Int
<1>1. DayLength \in Nat /\ ns \in Int /\ MinInstant \in Int /\ MaxInstant \in Int
  BY UnitLengthPositive, ValidNanoseconds
<1>2. (IF ns - DayLength < MinInstant THEN ns ELSE ns - DayLength) \in InstantRange
  BY <1>1 DEF InstantRange
<1>3. (IF ns + DayLength > MaxInstant THEN ns ELSE ns + DayLength) \in InstantRange
  BY <1>1 DEF InstantRange
<1> QED
  BY <1>2, <1>3, OffsetIsInt DEF OffsetDayBefore, OffsetDayAfter

LEMMA UTCNanoseconds ==
  ASSUME NEW dt, dt.date \in LooseDates, dt.time \in Clocks
  PROVE  GetUTCEpochNanoseconds(dt) \subseteq InstantRange
<1>1. EpochNanoseconds(dt.date, dt.time) \in Int
  BY EpochIs
<1> QED
  BY <1>1, ValidNanoseconds DEF GetUTCEpochNanoseconds

(* GetPossibleInstantsFor lists instants. *)
LEMMA PossibleInstantsAre ==
  ASSUME NEW z \in ZoneNames, NEW dt, dt.date \in LooseDates, dt.time \in Clocks
  PROVE  GetPossibleInstantsFor(z, dt) \subseteq Seq(InstantRange)
<1>1. ASSUME NEW ns \in InstantRange
      PROVE  GetNamedTimeZoneEpochNanoseconds(z, dt, ns) \subseteq Seq(InstantRange)
  <2> DEFINE o == OffsetDayBefore(z, ns)
             p == OffsetDayAfter(z, ns)
             s == Candidates(ns, o, p)
             Shows(i) == GetNamedTimeZoneDateTimeParts(z, i) = dt
  <2>1. o \in Int /\ p \in Int /\ ns \in Int
    BY OffsetsAround, ValidNanoseconds
  <2> HIDE DEF o, p
  <2>2. s \in Seq(Int)
    BY <2>1 DEF Candidates
  <2> HIDE DEF s
  <2>3. KeepCandidates(z, dt, s) =
           IF \E i \in DOMAIN s : ValidateEpochNanoseconds(s[i]) = {} THEN {} ELSE {Filtered(s, Shows)}
    BY DEF KeepCandidates
  <2>4. ASSUME ~ \E i \in DOMAIN s : ValidateEpochNanoseconds(s[i]) = {}
        PROVE  Filtered(s, Shows) \in Seq(InstantRange)
    <3>1. \A i \in DOMAIN s : s[i] \in Int
      BY <2>2
    <3>2. \A i \in DOMAIN s : s[i] \in InstantRange
      BY <2>4, <3>1, ValidNanoseconds
    <3>3. s \in Seq(InstantRange)
      BY <2>2, <3>2
    <3> HIDE DEF Shows
    <3> QED
      BY <3>3, FilteredInstants
  <2>5. KeepCandidates(z, dt, s) \subseteq Seq(InstantRange)
    BY <2>3, <2>4
  <2> QED
    BY <2>5 DEF GetNamedTimeZoneEpochNanoseconds, s, o, p
<1>2. ASSUME NEW ns \in InstantRange
      PROVE  {<<i>> : i \in ValidateEpochNanoseconds(ns - HostOffset(z, 0))} \subseteq Seq(InstantRange)
  <2>1. HostOffset(z, 0) \in Int /\ ns \in Int
    BY HostOffsetAssumption, ValidNanoseconds DEF InstantRange
  <2>2. ValidateEpochNanoseconds(ns - HostOffset(z, 0)) \subseteq InstantRange
    BY <2>1, ValidNanoseconds
  <2>3. \A i \in InstantRange : <<i>> \in Seq(InstantRange)
    OBVIOUS
  <2> DEFINE V == ValidateEpochNanoseconds(ns - HostOffset(z, 0))
  <2>4. V \subseteq InstantRange
    BY <2>2
  <2> HIDE DEF V
  <2>5. {<<i>> : i \in V} \subseteq Seq(InstantRange)
    BY <2>3, <2>4, Zenon
  <2> QED
    BY <2>5 DEF V
<1>3. GetUTCEpochNanoseconds(dt) \subseteq InstantRange
  BY UTCNanoseconds
<1>4. ASSUME NEW s \in GetPossibleInstantsFor(z, dt)
      PROVE  s \in Seq(InstantRange)
  <2>1. PICK ns \in GetUTCEpochNanoseconds(dt) :
           s \in IF z \in OffsetZones THEN {<<i>> : i \in ValidateEpochNanoseconds(ns - HostOffset(z, 0))}
                 ELSE GetNamedTimeZoneEpochNanoseconds(z, dt, ns)
    BY <1>4, Zenon DEF GetPossibleInstantsFor
  <2> QED
    BY <1>1, <1>2, <1>3, <2>1, Zenon
<1> QED
  BY <1>4

LEMMA FirstAndLast ==
  ASSUME NEW s \in Seq(InstantRange), s # <<>>
  PROVE  s[1] \in InstantRange /\ s[Len(s)] \in InstantRange
<1>1. Len(s) \in Nat /\ Len(s) > 0
  OBVIOUS
<1> QED
  BY <1>1

-----------------------------------------------------------------------------
(* Dates and durations. *)

(* RegulateISODate leaves a date that there is, or throws. *)
LEMMA RegulatedDate ==
  ASSUME NEW d \in AnyDates, NEW overflow
  PROVE  RegulateISODate(d, overflow) \subseteq GoodDates
<1>1. ConstrainISODate(d) \in GoodDates
  <2> DEFINE m == ConstrainToRange(d.month, 1, 12)
             n == ISODaysInMonth(d.year, m)
             e == ConstrainToRange(d.day, 1, n)
  <2>1. d.year \in Int /\ d.month \in Int /\ d.day \in Int
    BY DEF AnyDates
  <2>2. m \in 1 .. 12
    BY <2>1 DEF ConstrainToRange, Smaller, Greater
  <2>3. n \in 28 .. 31
    BY <2>1, <2>2, Types
  <2> HIDE DEF m, n
  <2>4. e \in 1 .. n
    BY <2>1, <2>3 DEF ConstrainToRange, Smaller, Greater
  <2>5. ConstrainISODate(d) = Date(d.year, m, e)
    BY DEF ConstrainISODate, m, n
  <2> HIDE DEF e
  <2>6. e \in 1 .. 31 /\ e <= n
    BY <2>3, <2>4
  <2> QED
    BY <2>1, <2>2, <2>5, <2>6 DEF Date, GoodDates, Dates, n
<1>2. IsValidISODate(d) => d \in GoodDates
  BY CreatedDate
<1> QED
  BY <1>1, <1>2 DEF RegulateISODate

(* AddISODate returns a date that there is, whatever it adds. *)
LEMMA AddedDate ==
  ASSUME NEW d \in GoodDates, NEW c \in Calendars, NEW overflow
  PROVE  AddISODate(d, c, overflow) \subseteq GoodDates
<1>1. d.year \in Int /\ d.month \in Int /\ d.day \in Int
  BY DEF GoodDates, Dates
<1>2. c.years \in Int /\ c.months \in Int /\ c.weeks \in Int /\ c.days \in Int
  BY DEF Calendars
<1> DEFINE b == BalanceISOYearMonth(d.year + c.years, d.month + c.months)
<1>3. b.year \in Int /\ b.month \in Int
  BY <1>1, <1>2 DEF BalanceISOYearMonth
<1>4. Date(b.year, b.month, d.day) \in AnyDates
  BY <1>1, <1>3, DatesAre
<1> HIDE DEF b
<1>5. ASSUME NEW r \in RegulateISODate(Date(b.year, b.month, d.day), overflow)
      PROVE  BalanceISODate(r.year, r.month, r.day + c.days + 7 * c.weeks) \in GoodDates
  <2>1. r \in GoodDates
    BY <1>4, RegulatedDate
  <2>2. r.year \in Int /\ r.month \in 1 .. 12 /\ r.day + c.days + 7 * c.weeks \in Int
    BY <1>2, <2>1 DEF GoodDates, Dates
  <2> QED
    BY <2>2, BalancedDateIsGood
<1> QED
  BY <1>5 DEF AddISODate, b

LEMMA CalendarDateAdded ==
  ASSUME NEW d \in GoodDates, NEW c \in Calendars, NEW overflow
  PROVE  CalendarDateAdd(d, c, overflow) \subseteq GoodDates
<1>1. \A e \in AddISODate(d, c, overflow) : CreateTemporalDate(e) \subseteq GoodDates
  BY AddedDate, CreatedDate, DatesAre
<1> QED
  BY <1>1 DEF CalendarDateAdd

LEMMA CalendarsAre ==
  /\ \A y, m, w, d \in Int : Calendar(y, m, w, d) \in Calendars
  /\ NoCalendar \in Calendars
  /\ \A c \in Calendars, n \in Int : [c EXCEPT !.days = n] \in Calendars
  /\ \A c \in Calendars : c.years \in Int /\ c.months \in Int /\ c.weeks \in Int /\ c.days \in Int
<1>1. \A y, m, w, d \in Int : Calendar(y, m, w, d) \in Calendars
  BY DEF Calendar, Calendars
<1>2. /\ \A c \in Calendars, n \in Int : [c EXCEPT !.days = n] \in Calendars
      /\ \A c \in Calendars : c.years \in Int /\ c.months \in Int /\ c.weeks \in Int /\ c.days \in Int
  BY DEF Calendars
<1> QED
  BY <1>1, <1>2 DEF NoCalendar

(* AddTime returns a time of day and the days it runs over. *)
LEMMA AddedTime ==
  ASSUME NEW t \in Clocks, NEW u \in Clocks
  PROVE  AddTime(t, u).deltaDays \in Int /\ AddTime(t, u).time \in Times
<1> DEFINE s == [i \in Fields |-> t[i] + u[i]]
<1>1. s \in [Fields -> Int]
  BY DEF Clocks
<1> HIDE DEF s
<1> QED
  BY <1>1, BalancedTime DEF AddTime, s

(* AddDateTime returns a date and a time. *)
LEMMA AddedDateTime ==
  ASSUME NEW dt, dt.date \in GoodDates, dt.time \in Clocks,
         NEW dur, dur.calendar \in Calendars, dur.time \in Clocks, NEW overflow
  PROVE  AddDateTime(dt, dur, overflow) \subseteq Walls
<1> DEFINE t == AddTime(dt.time, dur.time)
<1>1. t.deltaDays \in Int /\ t.time \in Times
  BY AddedTime
<1> HIDE DEF t
<1>2. ASSUME NEW d \in GoodDates
      PROVE  AddDays(d, dur.calendar, t, overflow) \subseteq Walls
  <2> DEFINE c == [dur.calendar EXCEPT !.days = @ + t.deltaDays]
  <2>1. c \in Calendars
    <3>1. dur.calendar.days + t.deltaDays \in Int
      BY <1>1, CalendarsAre
    <3> QED
      BY <3>1, CalendarsAre
  <2>2. AddDays(d, dur.calendar, t, overflow) = {DateTime(e, t.time) : e \in CalendarDateAdd(d, c, overflow)}
    BY DEF AddDays
  <2> HIDE DEF c
  <2>3. CalendarDateAdd(d, c, overflow) \subseteq GoodDates
    BY <2>1, CalendarDateAdded
  <2>4. \A e \in GoodDates : DateTime(e, t.time) \in Walls
    BY <1>1 DEF DateTime, Walls
  <2> QED
    BY <2>2, <2>3, <2>4
<1>3. AddDateTime(dt, dur, overflow) =
         UNION {AddDays(d, dur.calendar, t, overflow) : d \in CreateTemporalDate(dt.date)}
  BY DEF AddDateTime, t
<1>4. CreateTemporalDate(dt.date) \subseteq GoodDates
  BY CreatedDate, DatesAre
<1> QED
  BY <1>2, <1>3, <1>4, Zenon

LEMMA MovedWallClock ==
  ASSUME NEW dt, dt.date \in GoodDates, dt.time \in Clocks, NEW n \in Int
  PROVE  MoveWallClock(dt, n) \subseteq Walls
<1> DEFINE t == [Midnight EXCEPT ![6] = n]
           dur == Duration(NoCalendar, t)
<1>1. t \in Clocks
  <2>1. Midnight \in Clocks
    BY MidnightIs, DatesAre
  <2> QED
    BY <2>1 DEF Clocks
<1>2. dur.calendar = NoCalendar /\ dur.time = t
  BY DEF Duration
<1> HIDE DEF t, dur
<1>3. AddDateTime(dt, dur, "constrain") \subseteq Walls
  BY <1>1, <1>2, CalendarsAre, AddedDateTime
<1> QED
  BY <1>3 DEF MoveWallClock, t, dur

(* So does the way out of a gap. *)
LEMMA InstantInAGap ==
  ASSUME NEW z \in ZoneNames, NEW dt \in Walls, NEW ns \in InstantRange, NEW disambiguation
  PROVE  InstantInGap(z, dt, ns, disambiguation) \subseteq InstantRange
<1> DEFINE direction == IF disambiguation = "earlier" THEN -1 ELSE 1
           out == disambiguation = "reject" \/ ~ InRange(ns, MinInstant + DayLength, MaxInstant - DayLength)
           moved == MoveWallClock(dt, direction * GapLength(z, ns))
<1>1. ASSUME NEW s \in Seq(InstantRange)
      PROVE  PickInstant(s, disambiguation) \subseteq InstantRange
  BY <1>1, FirstAndLast DEF PickInstant
<1>2. ASSUME ~ out
      PROVE  moved \subseteq Walls
  <2>1. DayLength \in Nat /\ ns \in Int /\ MinInstant \in Int /\ MaxInstant \in Int
    BY UnitLengthPositive, ValidNanoseconds
  <2>2. ns - DayLength \in InstantRange /\ ns + DayLength \in InstantRange
    BY <1>2, <2>1 DEF InRange, InstantRange
  <2>3. GapLength(z, ns) \in Int
    BY <2>2, OffsetIsInt DEF GapLength
  <2>4. direction * GapLength(z, ns) \in Int
    BY <2>3
  <2> QED
    BY <2>4, WallsAre, MovedWallClock
<1>3. ASSUME ~ out
      PROVE  UNION {PickInstant(s, disambiguation) : s \in UNION {GetPossibleInstantsFor(z, m) : m \in moved}}
                \subseteq InstantRange
  <2> HIDE DEF moved
  <2>1. \A m \in moved : GetPossibleInstantsFor(z, m) \subseteq Seq(InstantRange)
    BY <1>2, <1>3, WallsAre, PossibleInstantsAre
  <2> QED
    BY <1>1, <2>1, Zenon
<1> HIDE DEF out
<1>4. InstantInGap(z, dt, ns, disambiguation) =
         IF out THEN {}
         ELSE UNION {PickInstant(s, disambiguation) : s \in UNION {GetPossibleInstantsFor(z, m) : m \in moved}}
  BY DEF InstantInGap, out
<1> QED
  BY <1>3, <1>4, Zenon

(* DisambiguatePossibleInstants chooses an instant within the limits. *)
LEMMA ChosenInstant ==
  ASSUME NEW z \in ZoneNames, NEW dt \in Walls, NEW possible \in Seq(InstantRange), NEW disambiguation
  PROVE  DisambiguatePossibleInstants(possible, z, dt, disambiguation) \subseteq InstantRange
<1> DEFINE gap == UNION {InstantInGap(z, dt, ns, disambiguation) : ns \in GetUTCEpochNanoseconds(dt)}
           length == Len(possible)
<1>1. gap \subseteq InstantRange
  <2>1. GetUTCEpochNanoseconds(dt) \subseteq InstantRange
    BY WallsAre, UTCNanoseconds
  <2>2. \A ns \in GetUTCEpochNanoseconds(dt) : InstantInGap(z, dt, ns, disambiguation) \subseteq InstantRange
    BY <2>1, InstantInAGap
  <2> QED
    BY <2>2, Zenon
<1>2. length \in Nat /\ (length >= 1 => possible[1] \in InstantRange /\ possible[length] \in InstantRange)
  BY FirstAndLast
<1> HIDE DEF gap, length
<1>3. DisambiguatePossibleInstants(possible, z, dt, disambiguation) =
        CASE length = 1 -> {possible[1]}
          [] length > 1 /\ disambiguation \in {"compatible", "earlier"} -> {possible[1]}
          [] length > 1 /\ disambiguation = "later" -> {possible[length]}
          [] length > 1 /\ disambiguation = "reject" -> {}
          [] OTHER -> gap
  BY DEF DisambiguatePossibleInstants, gap, length
<1> QED
  BY <1>1, <1>2, <1>3

LEMMA InstantFor ==
  ASSUME NEW z \in ZoneNames, NEW dt \in Walls, NEW disambiguation
  PROVE  GetInstantFor(z, dt, disambiguation) \subseteq InstantRange
<1>1. GetPossibleInstantsFor(z, dt) \subseteq Seq(InstantRange)
  BY WallsAre, PossibleInstantsAre
<1>2. \A p \in GetPossibleInstantsFor(z, dt) : DisambiguatePossibleInstants(p, z, dt, disambiguation) \subseteq InstantRange
  BY <1>1, ChosenInstant
<1> QED
  BY <1>2, Zenon DEF GetInstantFor

LEMMA InstantAtWall ==
  ASSUME NEW z \in ZoneNames, NEW d \in AnyDates, NEW t \in Clocks, NEW disambiguation
  PROVE  InstantAt(z, DateTime(d, t), disambiguation) \subseteq InstantRange
<1>1. CreateTemporalDateTime(DateTime(d, t)) \subseteq Walls
  BY CreatedDateTime
<1>2. \A e \in CreateTemporalDateTime(DateTime(d, t)) : GetInstantFor(z, e, disambiguation) \subseteq InstantRange
  BY <1>1, InstantFor
<1> QED
  BY <1>2, Zenon DEF InstantAt

(* AddInstant returns an instant within the limits. *)
LEMMA AddedInstant ==
  ASSUME NEW ns \in Int, NEW t \in Clocks
  PROVE  AddInstant(ns, t) \subseteq InstantRange
<1>1. TotalDurationNanoseconds(0, t, 0) \in Int
  <2>1. TotalDurationNanoseconds(0, t, 0) = 0 * DayLength + Value(t) - IF 0 # 0 THEN 0 ELSE 0
    BY TotalIs DEF Clocks
  <2> QED
    BY <2>1, ValueIsInt, UnitLengthPositive DEF Clocks
<1>2. ns + TotalDurationNanoseconds(0, t, 0) \in Int
  BY <1>1
<1> QED
  BY <1>2, ValidNanoseconds, Zenon DEF AddInstant

(* AddZonedDateTime returns an instant within the limits. *)
LEMMA AddedToZoned ==
  ASSUME NEW z \in ZoneNames, NEW ns \in InstantRange, NEW dur, dur.calendar \in Calendars, dur.time \in Clocks,
         NEW overflow
  PROVE  AddZonedDateTime(ns, z, dur, overflow) \subseteq InstantRange
<1> DEFINE c == dur.calendar
           moved == UNION {MoveDate(dt, c, overflow) : dt \in GetPlainDateTimeFor(z, ns)}
<1>1. ASSUME NEW dt \in Walls
      PROVE  MoveDate(dt, c, overflow) \subseteq Walls
  <2>1. dt.date \in GoodDates /\ dt.time \in Times
    BY WallsAre
  <2>2. CreateTemporalDate(dt.date) \subseteq GoodDates
    BY <2>1, CreatedDate, DatesAre
  <2>3. \A d \in CreateTemporalDate(dt.date) : CalendarDateAdd(d, c, overflow) \subseteq GoodDates
    BY <2>2, CalendarDateAdded
  <2>4. \A e \in GoodDates : DateTime(e, dt.time) \in Walls
    BY <2>1 DEF DateTime, Walls
  <2> QED
    BY <2>3, <2>4, Zenon DEF MoveDate
<1>2. moved \subseteq Walls
  BY <1>1, PlainDateTimeFor, Zenon
<1>3. AddDatePart(ns, z, c, overflow) = UNION {InstantAt(z, m, "compatible") : m \in moved}
  BY DEF AddDatePart
<1> HIDE DEF moved
<1>4. \A m \in moved : InstantAt(z, m, "compatible") \subseteq InstantRange
  <2> SUFFICES ASSUME NEW m \in moved PROVE InstantAt(z, m, "compatible") \subseteq InstantRange
    OBVIOUS
  <2>1. m = DateTime(m.date, m.time) /\ m.date \in AnyDates /\ m.time \in Clocks
    BY <1>2, WallsAre
  <2> QED
    BY <2>1, InstantAtWall
<1>5. AddDatePart(ns, z, c, overflow) \subseteq InstantRange
  BY <1>3, <1>4, Zenon
<1>6. \A i \in InstantRange : AddInstant(i, dur.time) \subseteq InstantRange
  BY ValidNanoseconds, AddedInstant
<1> QED
  BY <1>5, <1>6, Zenon DEF AddZonedDateTime, c

(* InterpretISODateTimeOffset returns an instant within the limits. *)
LEMMA InterpretedOffset ==
  ASSUME NEW z \in ZoneNames, NEW d \in AnyDates, NEW t \in Clocks, NEW behaviour, NEW offset \in Int,
         NEW disambiguation, NEW option, NEW matchMinutes
  PROVE  InterpretISODateTimeOffset(z, DateTime(d, t), behaviour, offset, disambiguation, option, matchMinutes)
            \subseteq InstantRange
<1> DEFINE dt == DateTime(d, t)
           all == InterpretISODateTimeOffset(z, dt, behaviour, offset, disambiguation, option, matchMinutes)
           ignored == behaviour = "wall" \/ option = "ignore"
           exact == behaviour = "exact" \/ option = "use"
           D == CreateTemporalDateTime(dt)
           E == UNION {UNION {ValidateEpochNanoseconds(ns - offset) : ns \in GetUTCEpochNanoseconds(e)} : e \in D}
           C(p) == ChooseMatching(MatchingOffset(z, p, offset, matchMinutes), p, z, dt, disambiguation, option)
           O == UNION {C(p) : p \in UNION {GetPossibleInstantsFor(z, e) : e \in D}}
<1>1. \A e \in D : e = dt /\ e \in Walls
  BY CreatedDateTime
<1>2. InstantAt(z, dt, disambiguation) \subseteq InstantRange
  BY InstantAtWall
<1> HIDE DEF dt, D
<1>3. E \subseteq InstantRange
  <2>1. ASSUME NEW e \in D, NEW ns \in GetUTCEpochNanoseconds(e)
        PROVE  ValidateEpochNanoseconds(ns - offset) \subseteq InstantRange
    <3>1. ns \in InstantRange
      BY <1>1, WallsAre, UTCNanoseconds
    <3>2. ns - offset \in Int
      BY <3>1, ValidNanoseconds
    <3> QED
      BY <3>2, ValidNanoseconds
  <2> DEFINE V(ns) == ValidateEpochNanoseconds(ns - offset)
             W(e) == UNION {V(ns) : ns \in GetUTCEpochNanoseconds(e)}
  <2>2. \A e \in D : \A ns \in GetUTCEpochNanoseconds(e) : V(ns) \subseteq InstantRange
    BY <2>1
  <2> HIDE DEF V
  <2>3. \A e \in D : W(e) \subseteq InstantRange
    BY <2>2
  <2> HIDE DEF W
  <2>4. UNION {W(e) : e \in D} \subseteq InstantRange
    BY <2>3
  <2> QED
    BY <2>4 DEF W, V
<1>4. O \subseteq InstantRange
  <2>1. ASSUME NEW e \in D, NEW p \in GetPossibleInstantsFor(z, e)
        PROVE  C(p) \subseteq InstantRange
    <3>1. p \in Seq(InstantRange) /\ dt \in Walls
      BY <1>1, WallsAre, PossibleInstantsAre
    <3> DEFINE M(i) == OffsetMatches(GetOffsetNanosecondsFor(z, i), offset, matchMinutes)
               m == MatchingOffset(z, p, offset, matchMinutes)
    <3>2. m = Filtered(p, M)
      BY DEF MatchingOffset
    <3> HIDE DEF M
    <3>3. Filtered(p, M) \in Seq(InstantRange)
      BY <3>1, FilteredInstants
    <3>4. m \in Seq(InstantRange)
      BY <3>2, <3>3
    <3> HIDE DEF m
    <3>5. m # <<>> => m[1] \in InstantRange
      BY <3>4, FirstAndLast
    <3>6. DisambiguatePossibleInstants(p, z, dt, disambiguation) \subseteq InstantRange
      BY <3>1, ChosenInstant
    <3>7. C(p) = CASE m # <<>> -> {m[1]}
                   [] m = <<>> /\ option = "reject" -> {}
                   [] OTHER -> DisambiguatePossibleInstants(p, z, dt, disambiguation)
      BY DEF ChooseMatching, m
    <3> HIDE DEF C
    <3> QED
      BY <3>5, <3>6, <3>7
  <2> HIDE DEF C
  <2>2. \A p \in UNION {GetPossibleInstantsFor(z, e) : e \in D} : C(p) \subseteq InstantRange
    BY <2>1
  <2> QED
    BY <2>2
<1>5. all = CASE ignored -> InstantAt(z, dt, disambiguation) [] ~ ignored /\ exact -> E [] OTHER -> O
  BY DEF InterpretISODateTimeOffset, D
<1> HIDE DEF E, O, ignored, exact, all
<1>6. all \subseteq InstantRange
  <2>1. CASE ignored
    BY <1>2, <1>5, <2>1, Zenon
  <2>2. CASE ~ ignored /\ exact
    BY <1>3, <1>5, <2>2, Zenon
  <2>3. CASE ~ ignored /\ ~ exact
    BY <1>4, <1>5, <2>3, Zenon
  <2> QED
    BY <2>1, <2>2, <2>3
<1> QED
  BY <1>6 DEF all, dt

-----------------------------------------------------------------------------
(***************************************************************************)
(* The objects that the methods return.                                    *)
(***************************************************************************)

IsFine(x) ==
  \/ x \in [type : {"Instant"}, ns : InstantRange]
  \/ x \in [type : {"ZonedDateTime"}, ns : InstantRange, zone : ZoneNames]
  \/ x \in [type : {"PlainDate", "PlainYearMonth", "PlainMonthDay"}, date : GoodDates]
  \/ x \in [type : {"PlainTime"}, time : Times]
  \/ x \in Walls
  \/ x.type = "Duration"

AllFine(s) == \A x \in s : IsFine(x)

(* Read off by type. *)
LEMMA FineAre ==
  ASSUME NEW x, IsFine(x)
  PROVE  /\ x.type \in {"Instant", "ZonedDateTime", "PlainDate", "PlainYearMonth", "PlainMonthDay", "PlainTime",
                        "PlainDateTime", "Duration"}
         /\ x.type \in {"Instant", "ZonedDateTime"} => x.ns \in InstantRange
         /\ x.type = "ZonedDateTime" => x.zone \in ZoneNames
         /\ x.type \in {"PlainDate", "PlainYearMonth", "PlainMonthDay", "PlainDateTime"} => x.date \in GoodDates
         /\ x.type \in {"PlainTime", "PlainDateTime"} => x.time \in Times
         /\ x.type = "PlainDateTime" => x \in Walls
<1>1. CASE x \in [type : {"Instant"}, ns : InstantRange]
  BY <1>1
<1>2. CASE x \in [type : {"ZonedDateTime"}, ns : InstantRange, zone : ZoneNames]
  BY <1>2
<1>3. CASE x \in [type : {"PlainDate", "PlainYearMonth", "PlainMonthDay"}, date : GoodDates]
  BY <1>3
<1>4. CASE x \in [type : {"PlainTime"}, time : Times]
  BY <1>4
<1>5. CASE x \in Walls
  BY <1>5, WallsAre
<1>6. CASE x.type = "Duration"
  BY <1>6
<1> QED
  BY <1>1, <1>2, <1>3, <1>4, <1>5, <1>6 DEF IsFine

(* What the constructors take. *)
LEMMA Made ==
  /\ \A i \in InstantRange : IsFine(Instant(i))
  /\ \A i \in InstantRange, z \in ZoneNames : IsFine(ZonedDateTime(i, z))
  /\ \A d \in GoodDates : IsFine(PlainDate(d)) /\ IsFine(PlainYearMonth(d)) /\ IsFine(PlainMonthDay(d))
  /\ \A t \in Times : IsFine(PlainTime(t))
  /\ \A w \in Walls : IsFine(w)
  /\ \A c, t : IsFine(Duration(c, t))
<1>1. \A i \in InstantRange : IsFine(Instant(i))
  BY DEF IsFine, Instant
<1>2. \A i \in InstantRange, z \in ZoneNames : IsFine(ZonedDateTime(i, z))
  BY DEF IsFine, ZonedDateTime
<1>3. \A d \in GoodDates : IsFine(PlainDate(d)) /\ IsFine(PlainYearMonth(d)) /\ IsFine(PlainMonthDay(d))
  BY DEF IsFine, PlainDate, PlainYearMonth, PlainMonthDay
<1>4. \A t \in Times : IsFine(PlainTime(t))
  BY DEF IsFine, PlainTime
<1>5. \A w \in Walls : IsFine(w)
  BY DEF IsFine
<1>6. \A c, t : IsFine(Duration(c, t))
  BY DEF IsFine, Duration
<1> QED
  BY <1>1, <1>2, <1>3, <1>4, <1>5, <1>6

(* What a program begins with or passes to a method. *)
LEMMA GivenAreFine ==
  /\ \A x \in Objects \cup Others : IsFine(x)
  /\ \A dur \in Spans : dur.calendar \in Calendars /\ dur.time \in Clocks
<1>1. ASSUME NEW x \in Shapes, Valid(x)
      PROVE  IsFine(x)
  <2>1. CASE x \in [type : {"Instant"}, ns : Int]
    <3>1. x.type = "Instant" /\ x.ns \in Int
      BY <2>1
    <3>2. ValidateEpochNanoseconds(x.ns) = {x.ns}
      BY <1>1, <3>1, Zenon DEF Valid
    <3>3. x.ns \in InstantRange
      BY <3>1, <3>2, ValidNanoseconds
    <3> QED
      BY <2>1, <3>3 DEF IsFine
  <2>2. CASE x \in [type : {"ZonedDateTime"}, ns : Int, zone : ZoneNames]
    <3>1. x.type = "ZonedDateTime" /\ x.ns \in Int
      BY <2>2
    <3>2. ValidateEpochNanoseconds(x.ns) = {x.ns}
      BY <1>1, <3>1 DEF Valid
    <3>3. x.ns \in InstantRange
      BY <3>1, <3>2, ValidNanoseconds
    <3> QED
      BY <2>2, <3>3 DEF IsFine
  <2>3. CASE x \in [type : {"PlainDate", "PlainYearMonth", "PlainMonthDay"}, date : Dates]
    <3>1. x.date \in Dates /\ x.date \in AnyDates
      BY <2>3, DatesAre
    <3>2. x.date \in GoodDates
      <4>1. CASE x.type = "PlainDate"
        <5>1. CreateTemporalDate(x.date) = {x.date}
          BY <1>1, <4>1, Zenon DEF Valid
        <5> QED
          BY <3>1, <5>1, CreatedDate
      <4>2. CASE x.type = "PlainYearMonth"
        <5>1. CreateTemporalYearMonth(x.date.year, x.date.month) = {x}
          BY <1>1, <4>2 DEF Valid
        <5>2. IsValidISODate(Date(x.date.year, x.date.month, 1)) /\ x = PlainYearMonth(Date(x.date.year, x.date.month, 1))
          BY <5>1 DEF CreateTemporalYearMonth
        <5>3. Date(x.date.year, x.date.month, 1) \in AnyDates
          BY <3>1, DatesAre DEF Dates
        <5>4. x.date = Date(x.date.year, x.date.month, 1)
          BY <5>2 DEF PlainYearMonth
        <5> QED
          BY <5>2, <5>3, <5>4, CreatedDate
      <4>3. CASE x.type = "PlainMonthDay"
        <5>1. CreateTemporalMonthDay(x.date.month, x.date.day) = {x}
          BY <1>1, <4>3 DEF Valid
        <5>2. PICK e \in CreateTemporalDate(Date(1972, x.date.month, x.date.day)) : x = PlainMonthDay(e)
          BY <5>1 DEF CreateTemporalMonthDay
        <5>3. Date(1972, x.date.month, x.date.day) \in AnyDates
          BY <3>1, DatesAre DEF Dates
        <5>4. e \in GoodDates /\ x.date = e
          BY <5>2, <5>3, CreatedDate DEF PlainMonthDay
        <5> QED
          BY <5>4
      <4> QED
        BY <2>3, <4>1, <4>2, <4>3
    <3> QED
      BY <2>3, <3>2 DEF IsFine
  <2>4. CASE x \in [type : {"PlainTime"}, time : [Fields -> Int]]
    <3>1. x.type = "PlainTime" /\ x.time \in [Fields -> Int]
      BY <2>4
    <3>2. IsValidTime(x.time)
      BY <1>1, <3>1 DEF Valid
    <3>3. x.time \in Times
      BY <3>1, <3>2 DEF Times
    <3> QED
      BY <2>4, <3>3 DEF IsFine
  <2>5. CASE x \in [type : {"PlainDateTime"}, date : Dates, time : [Fields -> Int]]
    <3>1. x.type = "PlainDateTime" /\ x.date \in AnyDates /\ x.time \in Clocks /\ x = DateTime(x.date, x.time)
      BY <2>5, DatesAre DEF Clocks, DateTime
    <3>2. CreateTemporalDateTime(x) = {x}
      BY <1>1, <3>1 DEF Valid
    <3>3. x \in Walls
      BY <3>1, <3>2, CreatedDateTime
    <3> QED
      BY <3>3, Made
  <2>6. CASE x \in [type : {"Duration"}, calendar : [years : Int, months : Int, weeks : Int, days : Int],
                    time : [Fields -> Int]]
    BY <2>6 DEF IsFine
  <2> QED
    BY <2>1, <2>2, <2>3, <2>4, <2>5, <2>6 DEF Shapes
<1>2. \A x \in Objects \cup Others : IsFine(x)
  BY <1>1, ObjectsAssumption
<1>3. ASSUME NEW dur \in Spans
      PROVE  dur.calendar \in Calendars /\ dur.time \in Clocks
  <2>1. dur \in Shapes /\ dur.type = "Duration"
    BY ObjectsAssumption, SpansAssumption
  <2>2. dur \in [type : {"Duration"}, calendar : [years : Int, months : Int, weeks : Int, days : Int],
                 time : [Fields -> Int]]
    BY <2>1 DEF Shapes
  <2> QED
    BY <2>2 DEF Calendars, Clocks
<1> QED
  BY <1>2, <1>3

(* A duration negated is a duration. *)
LEMMA SignedSpan ==
  ASSUME NEW op, NEW dur \in Spans
  PROVE  Signed(op, dur).calendar \in Calendars /\ Signed(op, dur).time \in Clocks
<1>1. dur.calendar \in Calendars /\ dur.time \in Clocks
  BY GivenAreFine
<1> DEFINE c == [f \in DOMAIN dur.calendar |-> (-1) * dur.calendar[f]]
           t == [i \in Fields |-> (-1) * dur.time[i]]
<1>2. c \in Calendars
  BY <1>1 DEF Calendars
<1>3. t \in Clocks
  BY <1>1 DEF Clocks
<1>4. Scale(-1, dur) = Duration(c, t)
  BY DEF Scale
<1> HIDE DEF c, t
<1>5. Scale(-1, dur).calendar = c /\ Scale(-1, dur).time = t
  BY <1>4 DEF Duration
<1> QED
  BY <1>1, <1>2, <1>3, <1>5 DEF Signed

-----------------------------------------------------------------------------
(* Conversions. *)

(* What a zoned date-time shows. *)
LEMMA ZonedWallClock ==
  ASSUME NEW x, IsFine(x), x.type = "ZonedDateTime"
  PROVE  dateTime(x) \subseteq Walls
BY FineAre, PlainDateTimeFor DEF dateTime

LEMMA DateOfObject ==
  ASSUME NEW x, IsFine(x), x.type \in {"PlainDate", "PlainDateTime", "ZonedDateTime"}
  PROVE  ToTemporalDate(x) \subseteq GoodDates
<1>1. CASE x.type = "PlainDate"
  <2>1. ToTemporalDate(x) = {x.date}
    BY <1>1 DEF ToTemporalDate
  <2> QED
    BY <1>1, <2>1, FineAre
<1>2. CASE x.type = "PlainDateTime"
  <2>1. ToTemporalDate(x) = CreateTemporalDate(x.date)
    BY <1>2 DEF ToTemporalDate
  <2> QED
    BY <1>2, <2>1, FineAre, CreatedDate, DatesAre
<1>3. CASE x.type = "ZonedDateTime"
  <2>1. ToTemporalDate(x) = UNION {CreateTemporalDate(dt.date) : dt \in dateTime(x)}
    BY <1>3 DEF ToTemporalDate
  <2>2. \A dt \in dateTime(x) : CreateTemporalDate(dt.date) \subseteq GoodDates
    BY <1>3, ZonedWallClock, WallsAre, CreatedDate
  <2> QED
    BY <2>1, <2>2
<1> QED
  BY <1>1, <1>2, <1>3

LEMMA TimeOfObject ==
  ASSUME NEW x, IsFine(x), x.type \in {"PlainTime", "PlainDateTime", "ZonedDateTime"}
  PROVE  ToTemporalTime(x) \subseteq Times
<1>1. CASE x.type = "ZonedDateTime"
  BY <1>1, ZonedWallClock, WallsAre DEF ToTemporalTime
<1>2. CASE x.type \in {"PlainTime", "PlainDateTime"}
  BY <1>2, FineAre DEF ToTemporalTime
<1> QED
  BY <1>1, <1>2

LEMMA DateTimeOfObject ==
  ASSUME NEW x, IsFine(x), x.type \in {"PlainDate", "PlainDateTime", "ZonedDateTime"}
  PROVE  ToTemporalDateTime(x) \subseteq Walls
<1>1. CASE x.type = "PlainDateTime"
  BY <1>1, FineAre DEF ToTemporalDateTime
<1>2. CASE x.type = "ZonedDateTime"
  BY <1>2, ZonedWallClock DEF ToTemporalDateTime
<1>3. CASE x.type = "PlainDate"
  <2>1. x.date \in AnyDates /\ Midnight \in Clocks
    BY <1>3, FineAre, DatesAre, MidnightIs
  <2> QED
    BY <1>3, <2>1, CreatedDateTime DEF ToTemporalDateTime
<1> QED
  BY <1>1, <1>2, <1>3

LEMMA ZonedAtWall ==
  ASSUME NEW z \in ZoneNames, NEW d \in GoodDates, NEW t \in Times, NEW disambiguation
  PROVE  AllFine(ZonedAt(z, DateTime(d, t), disambiguation))
<1>1. d \in AnyDates /\ t \in Clocks
  BY DatesAre
<1>2. InstantAt(z, DateTime(d, t), disambiguation) \subseteq InstantRange
  BY <1>1, InstantAtWall
<1> QED
  BY <1>2, Made DEF AllFine, ZonedAt

LEMMA YearMonthIsFine ==
  ASSUME NEW y \in Int, NEW m \in Int
  PROVE  AllFine(CreateTemporalYearMonth(y, m))
<1>1. Date(y, m, 1) \in AnyDates
  BY DatesAre
<1>2. IsValidISODate(Date(y, m, 1)) => IsFine(PlainYearMonth(Date(y, m, 1)))
  BY <1>1, CreatedDate, Made
<1> QED
  BY <1>2 DEF AllFine, CreateTemporalYearMonth

LEMMA MonthDayIsFine ==
  ASSUME NEW m \in Int, NEW d \in Int
  PROVE  AllFine(CreateTemporalMonthDay(m, d))
<1>1. Date(1972, m, d) \in AnyDates
  BY DatesAre
<1>2. \A e \in CreateTemporalDate(Date(1972, m, d)) : IsFine(PlainMonthDay(e))
  BY <1>1, CreatedDate, Made
<1> QED
  BY <1>2 DEF AllFine, CreateTemporalMonthDay

-----------------------------------------------------------------------------
(* add and subtract. *)

(* add to a date counts the time of the duration in whole days. *)
LEMMA WholeDaysAre ==
  ASSUME NEW dur, dur.calendar \in Calendars, dur.time \in Clocks
  PROVE  /\ WholeDaysOf(dur) \in Calendars
         /\ WholeDaysOf(dur).years = dur.calendar.years /\ WholeDaysOf(dur).months = dur.calendar.months
         /\ WholeDaysOf(dur).weeks = dur.calendar.weeks
         /\ WholeDaysOf(dur).days = Quo(TotalDurationNanoseconds(dur.calendar.days, dur.time, 0), DayLength)
<1> DEFINE n == TotalDurationNanoseconds(dur.calendar.days, dur.time, 0)
           q == Quo(n, DayLength)
<1>1. n \in Int
  <2>a. dur.calendar.days \in Int
    BY CalendarsAre
  <2>b. dur.time \in [Fields -> Int]
    BY DEF Clocks
  <2>c. DayLength \in Int
    BY UnitLengthPositive
  <2>0. dur.calendar.days \in Int /\ dur.time \in [Fields -> Int] /\ DayLength \in Int
    BY <2>a, <2>b, <2>c
  <2> DEFINE k == dur.calendar.days
             t == dur.time
  <2>1. k \in Int /\ t \in [Fields -> Int]
    BY <2>0
  <2> HIDE DEF k, t
  <2>2. TotalDurationNanoseconds(k, t, 0) = k * DayLength + Value(t) - IF k # 0 THEN 0 ELSE 0
    BY <2>1, TotalIs
  <2>3. k * DayLength \in Int
    BY <2>0, <2>1, ProductIsInt
  <2>4. Value(t) \in Int
    BY <2>1, ValueIsInt
  <2>5. TotalDurationNanoseconds(k, t, 0) \in Int
    BY <2>2, <2>3, <2>4
  <2> QED
    BY <2>5 DEF k, t
<1> HIDE DEF n
<1>2. q \in Int
  BY <1>1, UnitLengthPositive, QuoRem
<1>3. BalancePlainDuration(dur.calendar.days, dur.time, "day").days = q
  <2>1. IsDateUnit("day")
    <3>1. Rank("day") = 4
      BY DEF Rank, Units
    <3> QED
      BY <3>1 DEF IsDateUnit
  <2> QED
    BY <2>1 DEF BalancePlainDuration, BalanceNanoseconds, n
<1> HIDE DEF q
<1>4. WholeDaysOf(dur) = [dur.calendar EXCEPT !.days = q]
  BY <1>3 DEF WholeDaysOf
<1> QED
  BY <1>2, <1>4 DEF Calendars, q, n

(* add returns objects that their classes construct. *)
LEMMA SumIsFine ==
  ASSUME NEW x, IsFine(x), x.type \in Arithmetic,
         NEW dur, dur.calendar \in Calendars, dur.time \in Clocks, NEW overflow
  PROVE  AllFine(Add(x, dur, overflow))
<1>1. CASE x.type = "Instant"
  <2>1. AddInstant(x.ns, dur.time) \subseteq InstantRange
    BY <1>1, FineAre, ValidNanoseconds, AddedInstant
  <2>2. Add(x, dur, overflow) = AddToInstant(x, dur)
    BY <1>1 DEF Add
  <2> QED
    BY <2>1, <2>2, Made DEF AllFine, AddToInstant
<1>2. CASE x.type = "PlainDate"
  <2>1. AddISODate(x.date, WholeDaysOf(dur), overflow) \subseteq GoodDates
    BY <1>2, FineAre, WholeDaysAre, AddedDate
  <2>2. DateAdd(x.date, dur, overflow) \subseteq GoodDates
    BY <2>1, CreatedDate, DatesAre DEF DateAdd
  <2>3. Add(x, dur, overflow) = AddToPlainDate(x, dur, overflow)
    BY <1>2 DEF Add
  <2> QED
    BY <2>2, <2>3, Made DEF AllFine, AddToPlainDate
<1>3. CASE x.type = "PlainTime"
  <2> DEFINE t == AddTime(x.time, dur.time).time
  <2>1. t \in Times
    BY <1>3, FineAre, DatesAre, AddedTime
  <2> HIDE DEF t
  <2>2. RegulateTime(t, "reject") \subseteq Times
    BY <2>1 DEF RegulateTime
  <2>3. Add(x, dur, overflow) = AddToPlainTime(x, dur)
    BY <1>3 DEF Add
  <2> QED
    BY <2>2, <2>3, Made DEF AllFine, AddToPlainTime, t
<1>4. CASE x.type = "PlainDateTime"
  <2>1. AddDateTime(x, dur, overflow) \subseteq Walls
    BY <1>4, FineAre, DatesAre, AddedDateTime
  <2>2. \A w \in Walls : CreateTemporalDateTime(w) \subseteq {w}
    BY DEF CreateTemporalDateTime
  <2>3. Add(x, dur, overflow) = UNION {CreateTemporalDateTime(dt) : dt \in AddDateTime(x, dur, overflow)}
    BY <1>4 DEF Add, AddToPlainDateTime
  <2> QED
    BY <2>1, <2>2, <2>3, Made DEF AllFine
<1>5. CASE x.type = "PlainYearMonth"
  <2>1. x.date \in GoodDates
    BY <1>5, FineAre
  <2>2. FirstOfMonth(x.date) \subseteq GoodDates
    <3>1. [x.date EXCEPT !.day = 1] \in AnyDates
      BY <2>1, DatesAre DEF AnyDates
    <3> QED
      BY <3>1, CreatedDate DEF FirstOfMonth
  <2>3. LastOfMonth(x.date) \subseteq GoodDates
    <3>1. Calendar(0, 0, 0, -1) \in Calendars /\ Calendar(0, 1, 0, 0) \in Calendars
      BY DEF Calendar, Calendars
    <3>2. \A f \in FirstOfMonth(x.date) : CalendarDateAdd(f, Calendar(0, 1, 0, 0), "constrain") \subseteq GoodDates
      BY <2>2, <3>1, CalendarDateAdded
    <3> DEFINE next == UNION {CalendarDateAdd(f, Calendar(0, 1, 0, 0), "constrain") : f \in FirstOfMonth(x.date)}
    <3>3. next \subseteq GoodDates
      BY <3>2
    <3> HIDE DEF next
    <3>4. \A n \in next : CalendarDateAdd(n, Calendar(0, 0, 0, -1), "constrain") \subseteq GoodDates
      BY <3>1, <3>3, CalendarDateAdded
    <3>5. LastOfMonth(x.date) = UNION {CalendarDateAdd(n, Calendar(0, 0, 0, -1), "constrain") : n \in next}
      BY DEF LastOfMonth, next
    <3> QED
      BY <3>4, <3>5
  <2>4. MonthsFrom(x.date, WholeDaysOf(dur), overflow) \subseteq GoodDates
    <3> DEFINE c == WholeDaysOf(dur)
               start == IF CalendarSign(c) < 0 THEN LastOfMonth(x.date) ELSE FirstOfMonth(x.date)
    <3>1. c \in Calendars
      BY WholeDaysAre
    <3>2. start \subseteq GoodDates
      BY <2>2, <2>3
    <3> HIDE DEF c, start
    <3>3. \A e \in start : CalendarDateAdd(e, c, overflow) \subseteq GoodDates
      BY <3>1, <3>2, CalendarDateAdded
    <3>4. MonthsFrom(x.date, c, overflow) = UNION {CalendarDateAdd(e, c, overflow) : e \in start}
      BY DEF MonthsFrom, start
    <3> QED
      BY <3>3, <3>4 DEF c
  <2>5. \A d \in GoodDates : AllFine(CreateTemporalYearMonth(d.year, d.month))
    BY YearMonthIsFine, DatesAre DEF Dates
  <2>6. Add(x, dur, overflow) = UNION {CreateTemporalYearMonth(d.year, d.month) :
                                          d \in MonthsFrom(x.date, WholeDaysOf(dur), overflow)}
    BY <1>5 DEF Add, AddToPlainYearMonth
  <2> QED
    BY <2>4, <2>5, <2>6 DEF AllFine
<1>6. CASE x.type = "ZonedDateTime"
  <2>1. AddZonedDateTime(x.ns, x.zone, dur, overflow) \subseteq InstantRange
    BY <1>6, FineAre, AddedToZoned
  <2>2. Add(x, dur, overflow) = AddToZonedDateTime(x, dur, overflow)
    BY <1>6 DEF Add
  <2> QED
    BY <1>6, <2>1, <2>2, FineAre, Made DEF AllFine, AddToZonedDateTime
<1> QED
  BY <1>1, <1>2, <1>3, <1>4, <1>5, <1>6 DEF Arithmetic

-----------------------------------------------------------------------------
(* round. *)

LEMMA RanksAre ==
  /\ Rank("year") = 1 /\ Rank("month") = 2 /\ Rank("week") = 3 /\ Rank("day") = 4
  /\ Rank("hour") = 5 /\ Rank("minute") = 6 /\ Rank("second") = 7
  /\ Rank("millisecond") = 8 /\ Rank("microsecond") = 9 /\ Rank("nanosecond") = 10
<1>1. Rank("year") = 1 /\ Rank("month") = 2 /\ Rank("week") = 3 /\ Rank("day") = 4
  BY DEF Rank, Units
<1>2. Rank("hour") = 5 /\ Rank("minute") = 6 /\ Rank("second") = 7
  BY DEF Rank, Units
<1>3. Rank("millisecond") = 8 /\ Rank("microsecond") = 9 /\ Rank("nanosecond") = 10
  BY DEF Rank, Units
<1> QED
  BY <1>1, <1>2, <1>3

(* A unit is a day, longer or a field of a time. *)
LEMMA AskedUnit ==
  ASSUME NEW unit \in AskedUnits
  PROVE  /\ unit = "day" \/ IsDateUnit(unit) \/ Field(unit) \in Fields
         /\ unit = "day" => IsDateUnit(unit)
<1>1. PICK i \in 1 .. 10 : unit = Units[i]
  BY UnitsAssumption
<1>2. unit \in {"year", "month", "week", "day", "hour", "minute", "second", "millisecond", "microsecond",
                "nanosecond"}
  BY <1>1 DEF Units
<1>3. Rank(unit) \in 1 .. 10 /\ (unit = "day" => Rank(unit) = 4)
  BY <1>2, RanksAre
<1> QED
  BY <1>3 DEF IsDateUnit, Field, Fields

(* What the validation of the options leaves. *)
LEMMA RoundableIs ==
  ASSUME NEW unit \in AskedUnits, NEW inc \in Increments, RoundableTo(unit, inc)
  PROVE  /\ inc \in Nat \ {0}
         /\ unit = "day" => inc = 1
         /\ unit # "day" => Field(unit) \in Fields /\ Radix[Field(unit)] % inc = 0
<1>1. inc \in Nat \ {0}
  BY UnitsAssumption
<1>2. CASE unit = "day"
  BY <1>1, <1>2 DEF RoundableTo, ValidateTemporalRoundingIncrement
<1>3. CASE unit # "day"
  BY <1>1, <1>3, AskedUnit DEF RoundableTo, ValidateTemporalRoundingIncrement
<1> QED
  BY <1>1, <1>2, <1>3

(* A time rounded to days of any length. *)
LEMMA RoundedToDays ==
  ASSUME NEW t \in Times, NEW L \in Nat \ {0}, NEW mode \in RoundingModes
  PROVE  LET b == RoundTime(t, 1, "day", mode, L)
         IN  /\ b.deltaDays \in Nat /\ b.time = Midnight
             /\ IsRounding(Value(t), b.deltaDays * L, L, 0, mode)
<1> DEFINE n == Value(t)
           r == RoundNumberToIncrement(n, L, mode)
<1>1. n \in Nat
  <2>1. 1 \in Fields /\ t \in [Fields -> Int]
    BY TimesAre DEF Fields
  <2>2. From(t, 1) \in 0 .. UnitLength[1 - 1] - 1 /\ From(t, 1) = n
    BY <2>1, Split, FromNext
  <2> QED
    BY <2>2, UnitLengthPositive
<1>2. TimeBelow(t, 1) = n
  <2>1. 1 \in Fields /\ t \in [Fields -> Int]
    BY TimesAre DEF Fields
  <2> QED
    BY <2>1, TimeBelowIs, FromNext
<1> HIDE DEF n
<1>3. L * 1 = L
  OBVIOUS
<1>4. Quo(r, L) \in Nat /\ Quo(r, L) * L = r
  <2>1. 1 \in Nat \ {0}
    OBVIOUS
  <2>2. /\ Quo(RoundNumberToIncrement(n, L * 1, mode), L) \in Nat
        /\ Quo(RoundNumberToIncrement(n, L * 1, mode), L) * L = RoundNumberToIncrement(n, L * 1, mode)
    BY <1>1, <2>1, RoundFieldIs, Zenon
  <2> QED
    BY <1>3, <2>2
<1>5. RoundField(t, 1, L, 1, mode) = Quo(r, L)
  BY <1>2, <1>3 DEF RoundField
<1>6. RoundTime(t, 1, "day", mode, L) = [deltaDays |-> Quo(r, L), time |-> Midnight]
  BY <1>5 DEF RoundTime
<1>7. IsRounding(n, r, L, 0, mode)
  BY <1>1, Rounds
<1> HIDE DEF r
<1> QED
  BY <1>4, <1>6, <1>7 DEF n

(* The date-time with the days that its time carries. *)
LEMMA CarriedFromMidnight ==
  ASSUME NEW d \in GoodDates, NEW b, b.deltaDays \in Int, b.time \in Times
  PROVE  /\ CarryDays(d, b) \in Walls
         /\ EpochNanoseconds(CarryDays(d, b).date, CarryDays(d, b).time) - EpochNanoseconds(d, Midnight)
              = b.deltaDays * DayLength + Value(b.time)
         /\ EpochNanoseconds(CarryDays(d, b).date, CarryDays(d, b).time) \in Int
         /\ EpochNanoseconds(d, Midnight) \in Int
<1> DEFINE k == d.day + b.deltaDays
           e == BalanceISODate(d.year, d.month, k)
           H == HostDays(d.year, d.month, d.day)
           D == DayLength
<1>0. d \in LooseDates /\ d.year \in Int /\ d.month \in 1 .. 12 /\ d.day \in Int /\ k \in Int
  BY DatesAre DEF LooseDates
<1>1. CarryDays(d, b) \in Walls
  BY <1>0, CarriedDays
<1>2. CarryDays(d, b).date = e /\ CarryDays(d, b).time = b.time
  BY DEF CarryDays, DateTime
<1>3. e \in LooseDates /\ b.time \in Clocks
  BY <1>1, <1>2, WallsAre
<1>4. ASSUME NEW y \in Int, NEW m \in 1 .. 12, NEW n \in Int
      PROVE  LET c == BalanceISODate(y, m, n)
             IN  HostDays(c.year, c.month, c.day) = HostDays(y, m, n)
  BY BalancedDate
<1>a. ASSUME NEW y \in Int, NEW m \in 1 .. 12, NEW n \in Int, NEW j \in Int
      PROVE  HostDays(y, m, n + j) = HostDays(y, m, n) + j
  <2>1. HostDays(y, m, n + j) = HostDays(y, m, 1) + (n + j) - 1
    BY HostDaysOfDay
  <2>2. HostDays(y, m, n) = HostDays(y, m, 1) + n - 1
    BY HostDaysOfDay
  <2>3. HostDays(y, m, 1) \in Int
    <3>1. 1 \in Int
      OBVIOUS
    <3> QED
      BY <3>1, HostDaysIsInt, Zenon
  <2> QED
    BY <2>1, <2>2, <2>3
<1>5. HostDays(d.year, d.month, k) = H + b.deltaDays
  BY <1>0, <1>a, ZenonT(60)
<1>b. HostDays(e.year, e.month, e.day) = HostDays(d.year, d.month, k)
  <2> HIDE DEF k
  <2> QED
    BY <1>0, <1>4
<1> HIDE DEF e, k
<1>6. EpochNanoseconds(e, b.time) = (H + b.deltaDays) * D + Value(b.time) /\ EpochNanoseconds(e, b.time) \in Int
  BY <1>3, <1>b, <1>5, EpochIs
<1>7. EpochNanoseconds(d, Midnight) = H * D + 0 /\ EpochNanoseconds(d, Midnight) \in Int /\ H \in Int
  BY <1>0, EpochIs, MidnightIs, DatesAre
<1>8. D \in Int /\ Value(b.time) \in Int
  BY <1>3, UnitLengthPositive, ValueIsInt DEF Clocks
<1>9. ASSUME NEW x \in Int, NEW y \in Int, NEW z \in Int
      PROVE  (x + y) * z = x * z + y * z /\ x * z \in Int /\ y * z \in Int
  OBVIOUS
<1>10. (H + b.deltaDays) * D = H * D + b.deltaDays * D /\ H * D \in Int /\ b.deltaDays * D \in Int
  BY <1>7, <1>8, <1>9
<1> QED
  BY <1>1, <1>2, <1>6, <1>7, <1>8, <1>10

-----------------------------------------------------------------------------
(* round, continued. *)

(* What RoundedToGrid says of one answer. *)
OnGrid(x, r, unit, increment, mode) ==
  LET grid == (IF unit = "day" THEN DayLength ELSE UnitLength[Field(unit)]) * increment
      p == FromMidnight(x, x)
      base == IF x.type = "Instant" \/ unit = "day" THEN 0 ELSE StartOfUnitAbove(p, Field(unit))
  IN  \/ IsRounding(p, FromMidnight(x, r), grid, base, mode)
      \/ /\ x.type = "PlainTime" /\ r.time = Midnight
         /\ IsRounding(p, DayLength, grid, base, mode)

(* Instant.round: rounded within the day, and the mode decides. *)
LEMMA InstantRounded ==
  ASSUME NEW x, IsFine(x), x.type = "Instant",
         NEW unit \in AskedUnits, NEW inc \in Increments, NEW mode \in RoundingModes
  PROVE  \A r \in Round(x, inc, unit, mode) : IsFine(r) /\ OnGrid(x, r, unit, inc, mode)
<1> SUFFICES ASSUME NEW r \in Round(x, inc, unit, mode)
             PROVE  IsFine(r) /\ OnGrid(x, r, unit, inc, mode)
  OBVIOUS
<1> DEFINE ns == x.ns
           D == DayLength
           g == UnitLength[Field(unit)] * inc
           q == ns \div D
           m == ns % D
           R == RoundNumberToIncrement(m, g, mode)
<1>1. x.ns \in InstantRange /\ x.ns \in Int
  BY FineAre, ValidNanoseconds
<1>2. Round(x, inc, unit, mode) = InstantRound(x, inc, unit, mode)
  BY DEF Round
<1>3. PICK i : /\ r = Instant(i) /\ ~ IsDateUnit(unit)
               /\ i \in ValidateEpochNanoseconds(RoundInstant(x.ns, inc, unit, mode))
  BY <1>2 DEF InstantRound
<1>4. Field(unit) \in Fields /\ unit # "day" /\ inc \in Nat \ {0}
  BY <1>3, AskedUnit, UnitsAssumption
<1>5. g \in Nat \ {0}
  <2>1. UnitLength[Field(unit)] \in Nat \ {0}
    BY <1>4, UnitLengthPositive DEF Fields
  <2> QED
    BY <1>4, <2>1, ProductPositive
<1>6. D \in Nat \ {0}
  BY UnitLengthPositive
<1>7. q \in Int /\ m \in Nat /\ ns = q * D + m /\ NonNegativeDivmod(ns, D).remainder = m
  <2>1. NonNegativeDivmod(ns, D) = [quotient |-> q, remainder |-> m]
    BY <1>1, <1>6, DivmodIs
  <2>2. /\ NonNegativeDivmod(ns, D).quotient \in Int /\ NonNegativeDivmod(ns, D).remainder \in 0 .. D - 1
        /\ ns = NonNegativeDivmod(ns, D).quotient * D + NonNegativeDivmod(ns, D).remainder
    BY <1>1, <1>6, DivmodIs
  <2>3. NonNegativeDivmod(ns, D).quotient = q /\ NonNegativeDivmod(ns, D).remainder = m
    BY <2>1
  <2> QED
    BY <1>6, <2>2, <2>3
<1>8. q * D \in Int
  BY <1>6, <1>7, ProductIsInt
<1> HIDE DEF ns, D, g, q, m
<1>9. R \in Int /\ IsRounding(m, R, g, 0, mode)
  BY <1>5, <1>7, Rounds
<1>10. RoundInstant(x.ns, inc, unit, mode) = ns - m + R
  BY <1>7 DEF RoundInstant, ns, D, g
<1> HIDE DEF R
<1>11. ns - m + R = q * D + R /\ ns - m + R \in Int
  BY <1>7, <1>8, <1>9
<1>12. i = q * D + R /\ i \in InstantRange
  BY <1>3, <1>10, <1>11, ValidNanoseconds
<1>13. IsFine(r)
  BY <1>3, <1>12, Made
<1>14. FromMidnight(x, x) = m /\ FromMidnight(x, r) = R
  <2>1. r.ns = i
    BY <1>3 DEF Instant
  <2>2. FromMidnight(x, x) = ns - q * D /\ FromMidnight(x, r) = i - q * D
    BY <2>1 DEF FromMidnight, ns, q, D
  <2> QED
    BY <2>2, <1>7, <1>8, <1>9, <1>12
<1>15. OnGrid(x, r, unit, inc, mode)
  BY <1>4, <1>9, <1>14, Zenon DEF OnGrid, g
<1> QED
  BY <1>13, <1>15

(* The nanoseconds of a time of day. *)
LEMMA TimeFromMidnight ==
  ASSUME NEW t \in Times
  PROVE  TotalDurationNanoseconds(0, t, 0) = Value(t) /\ Value(t) \in Int
<1>1. t \in [Fields -> Int] /\ DayLength \in Int
  BY TimesAre, UnitLengthPositive
<1>2. TotalDurationNanoseconds(0, t, 0) = 0 * DayLength + Value(t) - IF 0 # 0 THEN 0 ELSE 0
  BY <1>1, TotalIs
<1>3. Value(t) \in Int
  BY <1>1, ValueIsInt
<1> QED
  BY <1>1, <1>2, <1>3

(* PlainTime.round: rounded within the unit above, and what fills the day is midnight. *)
LEMMA PlainTimeRounded ==
  ASSUME NEW x, IsFine(x), x.type = "PlainTime",
         NEW unit \in AskedUnits, NEW inc \in Increments, NEW mode \in RoundingModes
  PROVE  \A r \in Round(x, inc, unit, mode) : IsFine(r) /\ OnGrid(x, r, unit, inc, mode)
<1> SUFFICES ASSUME NEW r \in Round(x, inc, unit, mode)
             PROVE  IsFine(r) /\ OnGrid(x, r, unit, inc, mode)
  OBVIOUS
<1> DEFINE t == x.time
           f == Field(unit)
           b == RoundTime(t, inc, unit, mode, DayLength)
           p == Value(t)
           v == b.deltaDays * DayLength + Value(b.time)
           g == UnitLength[f] * inc
           s == StartOfUnitAbove(p, f)
<1>1. t \in Times
  BY FineAre
<1>2. Round(x, inc, unit, mode) = PlainTimeRound(x, inc, unit, mode)
  BY DEF Round
<1>3. unit # "day" /\ RoundableTo(unit, inc) /\ r = PlainTime(b.time)
  BY <1>2 DEF PlainTimeRound
<1>4. inc \in Nat \ {0} /\ f \in Fields /\ Radix[f] % inc = 0
  BY <1>3, RoundableIs
<1>5. /\ b.time \in Times
      /\ (b.deltaDays = 0 /\ Value(b.time) = v) \/ (b.deltaDays = 1 /\ b.time = Midnight /\ v = DayLength)
      /\ IsRounding(p, v, g, s, mode)
  BY <1>1, <1>3, <1>4, RoundTimeIs
<1> HIDE DEF b, v, g, s
<1>6. IsFine(r)
  BY <1>3, <1>5, Made
<1>7. r.time = b.time
  BY <1>3 DEF PlainTime
<1>8. FromMidnight(x, x) = p /\ FromMidnight(x, r) = Value(b.time)
  BY <1>1, <1>5, <1>7, TimeFromMidnight DEF FromMidnight
<1>9. OnGrid(x, r, unit, inc, mode)
  <2>1. CASE Value(b.time) = v
    BY <1>3, <1>5, <1>8, <2>1, Zenon DEF OnGrid, g, s
  <2>2. CASE b.time = Midnight /\ v = DayLength
    BY <1>3, <1>5, <1>7, <1>8, <2>2, Zenon DEF OnGrid, g, s
  <2> QED
    BY <1>5, <2>1, <2>2
<1> QED
  BY <1>6, <1>9

(* PlainDateTime.round: as a time, and the day that is full goes to the date. *)
LEMMA PlainDateTimeRounded ==
  ASSUME NEW x, IsFine(x), x.type = "PlainDateTime",
         NEW unit \in AskedUnits, NEW inc \in Increments, NEW mode \in RoundingModes
  PROVE  \A r \in Round(x, inc, unit, mode) : IsFine(r) /\ OnGrid(x, r, unit, inc, mode)
<1> SUFFICES ASSUME NEW r \in Round(x, inc, unit, mode)
             PROVE  IsFine(r) /\ OnGrid(x, r, unit, inc, mode)
  OBVIOUS
<1> DEFINE t == x.time
           d == x.date
           f == Field(unit)
           b == RoundTime(t, inc, unit, mode, DayLength)
           p == Value(t)
           v == b.deltaDays * DayLength + Value(b.time)
           g == (IF unit = "day" THEN DayLength ELSE UnitLength[f]) * inc
           s == IF unit = "day" THEN 0 ELSE StartOfUnitAbove(p, f)
<1>1. t \in Times /\ d \in GoodDates
  BY FineAre
<1>2. Round(x, inc, unit, mode) = PlainDateTimeRound(x, inc, unit, mode)
  BY DEF Round
<1>3. RoundableTo(unit, inc) /\ r \in CreateTemporalDateTime(CarryDays(d, b))
  BY <1>2 DEF PlainDateTimeRound, RoundISODateTime
<1>4. inc \in Nat \ {0} /\ unit = "day" => inc = 1
  BY <1>3, RoundableIs
<1>5. b.time \in Times /\ b.deltaDays \in Int /\ IsRounding(p, v, g, s, mode)
  <2>1. CASE unit = "day"
    <3>1. inc = 1
      BY <1>3, <2>1, RoundableIs
    <3>2. DayLength \in Nat \ {0}
      BY UnitLengthPositive
    <3>3. b.deltaDays \in Nat /\ b.time = Midnight /\ IsRounding(p, b.deltaDays * DayLength, DayLength, 0, mode)
      BY <1>1, <2>1, <3>1, <3>2, RoundedToDays
    <3>4. g = DayLength /\ s = 0
      BY <2>1, <3>1, <3>2
    <3> HIDE DEF b, g, s
    <3>5. b.deltaDays * DayLength \in Int
      BY <3>2, <3>3, ProductIsInt
    <3>6. v = b.deltaDays * DayLength
      BY <3>3, <3>5, MidnightIs
    <3> HIDE DEF v
    <3> QED
      BY <3>3, <3>4, <3>6, MidnightIs
  <2>2. CASE unit # "day"
    <3>1. inc \in Nat \ {0} /\ f \in Fields /\ Radix[f] % inc = 0
      BY <1>3, <2>2, RoundableIs
    <3>2. /\ b.time \in Times
          /\ (b.deltaDays = 0 /\ Value(b.time) = v) \/ (b.deltaDays = 1 /\ b.time = Midnight /\ v = DayLength)
          /\ IsRounding(p, v, UnitLength[f] * inc, StartOfUnitAbove(p, f), mode)
      BY <1>1, <2>2, <3>1, RoundTimeIs
    <3>3. g = UnitLength[f] * inc /\ s = StartOfUnitAbove(p, f)
      BY <2>2
    <3> HIDE DEF b, v, g, s
    <3> QED
      BY <3>2, <3>3
  <2> QED
    BY <2>1, <2>2
<1> HIDE DEF b, g, s, v
<1>6. CarryDays(d, b) \in Walls
  BY <1>1, <1>5, CarriedFromMidnight
<1>7. r = CarryDays(d, b) /\ IsFine(r)
  <2>1. CreateTemporalDateTime(CarryDays(d, b)) \subseteq {CarryDays(d, b)}
    BY DEF CreateTemporalDateTime
  <2> QED
    BY <1>3, <1>6, <2>1, Made
<1>8. FromMidnight(x, r) = v
  <2>1. FromMidnight(x, r) = EpochNanoseconds(r.date, r.time) - EpochNanoseconds(d, Midnight)
    BY DEF FromMidnight
  <2> QED
    BY <1>1, <1>5, <1>7, <2>1, CarriedFromMidnight DEF v
<1>9. FromMidnight(x, x) = p
  <2>1. FromMidnight(x, x) = EpochNanoseconds(d, t) - EpochNanoseconds(d, Midnight)
    BY DEF FromMidnight
  <2>2. d \in LooseDates /\ t \in Clocks /\ Midnight \in Clocks /\ Value(Midnight) = 0
    BY <1>1, DatesAre, MidnightIs
  <2> DEFINE h == HostDays(d.year, d.month, d.day) * DayLength
  <2>3. EpochNanoseconds(d, t) = h + p /\ EpochNanoseconds(d, Midnight) = h + 0
    BY <2>2, EpochIs
  <2>4. h \in Int
    BY <2>2, EpochIs, UnitLengthPositive, ProductIsInt
  <2>5. p \in Int
    BY <1>1, TimeFromMidnight
  <2> HIDE DEF h, p
  <2> QED
    BY <2>1, <2>3, <2>4, <2>5
<1>10. OnGrid(x, r, unit, inc, mode)
  BY <1>5, <1>8, <1>9, Zenon DEF OnGrid, g, s
<1> QED
  BY <1>7, <1>10

-----------------------------------------------------------------------------
(* The offsets that texts give. *)

LEMMA DivisionIsInt ==
  ASSUME NEW n \in Int, NEW d \in Nat \ {0}
  PROVE  n \div d \in Int /\ n % d \in Int
OBVIOUS

LEMMA ParsedOffset ==
  ASSUME NEW text, text.hours \in Int, text.minutes \in Int,
         "seconds" \in DOMAIN text => text["seconds"] \in Int,
         "fraction" \in DOMAIN text => text["fraction"] \in Int
  PROVE  ParseTimeZoneOffsetString(text) \in Int
<1> DEFINE s == IF "seconds" \in DOMAIN text THEN text["seconds"] ELSE 0
           r == IF "fraction" \in DOMAIN text THEN text["fraction"] ELSE 0
           a == UnitLength[1] * text.hours
           b == UnitLength[2] * text.minutes
           c == UnitLength[3] * s
           sign == IF text.negative THEN -1 ELSE 1
<1>1. s \in Int /\ r \in Int
  OBVIOUS
<1>2. UnitLength[1] \in Int /\ UnitLength[2] \in Int /\ UnitLength[3] \in Int
  BY UnitLengthPositive
<1> HIDE DEF s, r
<1>3. a \in Int /\ b \in Int /\ c \in Int
  BY <1>1, <1>2, ProductIsInt
<1>4. sign \in Int
  OBVIOUS
<1>5. ParseTimeZoneOffsetString(text) = sign * (a + b + c + r)
  BY DEF ParseTimeZoneOffsetString, s, r
<1> HIDE DEF a, b, c, sign
<1>6. a + b + c + r \in Int
  BY <1>1, <1>3
<1> QED
  BY <1>4, <1>5, <1>6, ProductIsInt

LEMMA FormattedOffset ==
  ASSUME NEW o \in Int
  PROVE  ParseTimeZoneOffsetString(FormatTimeZoneOffsetString(o)) \in Int
<1> DEFINE n == Magnitude(o)
           r == n % UnitLength[3]
           h == n \div UnitLength[1]
           m == (n \div UnitLength[2]) % Radix[2]
           s == (n \div UnitLength[3]) % Radix[3]
           text == FormatTimeZoneOffsetString(o)
<1>1. n \in Int
  BY DEF Magnitude
<1>2. UnitLength[1] \in Nat \ {0} /\ UnitLength[2] \in Nat \ {0} /\ UnitLength[3] \in Nat \ {0}
  BY UnitLengthPositive
<1>3. Radix[2] \in Nat \ {0} /\ Radix[3] \in Nat \ {0}
  BY RadixType DEF Fields
<1> HIDE DEF n
<1>4. h \in Int /\ m \in Int /\ s \in Int /\ r \in Int
  BY <1>1, <1>2, <1>3, DivisionIsInt
<1> HIDE DEF h, m, s, r
<1>5. text = CASE r # 0 -> [negative |-> o < 0, hours |-> h, minutes |-> m, seconds |-> s, fraction |-> r]
               [] r = 0 /\ s # 0 -> [negative |-> o < 0, hours |-> h, minutes |-> m, seconds |-> s]
               [] r = 0 /\ s = 0 -> [negative |-> o < 0, hours |-> h, minutes |-> m]
  BY DEF FormatTimeZoneOffsetString, h, m, s, r, n
<1> HIDE DEF text
<1>6. CASE r # 0
  <2>1. text = [negative |-> o < 0, hours |-> h, minutes |-> m, seconds |-> s, fraction |-> r]
    BY <1>5, <1>6
  <2>2. /\ text.hours = h /\ text.minutes = m
        /\ text["seconds"] = s /\ text["fraction"] = r
    BY <2>1
  <2>3. ParseTimeZoneOffsetString(text) \in Int
    BY <1>4, <2>2, ParsedOffset
  <2> QED
    BY <2>3 DEF text
<1>7. CASE r = 0 /\ s # 0
  <2>1. text = [negative |-> o < 0, hours |-> h, minutes |-> m, seconds |-> s]
    BY <1>5, <1>7
  <2>2. /\ text.hours = h /\ text.minutes = m /\ text["seconds"] = s
        /\ "fraction" \notin DOMAIN text
    BY <2>1
  <2>3. ParseTimeZoneOffsetString(text) \in Int
    BY <1>4, <2>2, ParsedOffset
  <2> QED
    BY <2>3 DEF text
<1>8. CASE r = 0 /\ s = 0
  <2>1. text = [negative |-> o < 0, hours |-> h, minutes |-> m]
    BY <1>5, <1>8
  <2>2. /\ text.hours = h /\ text.minutes = m
        /\ "seconds" \notin DOMAIN text /\ "fraction" \notin DOMAIN text
    BY <2>1
  <2>3. ParseTimeZoneOffsetString(text) \in Int
    BY <1>4, <2>2, ParsedOffset
  <2> QED
    BY <2>3 DEF text
<1> QED
  BY <1>6, <1>7, <1>8

LEMMA GivenOffset ==
  ASSUME NEW x, IsFine(x), x.type = "ZonedDateTime", NEW text \in OffsetTexts
  PROVE  OffsetGiven(x, text) \in Int
<1>1. CASE text = <<>>
  <2>1. GetOffsetNanosecondsFor(x.zone, x.ns) \in Int
    BY FineAre, OffsetIsInt
  <2> QED
    BY <1>1, <2>1, FormattedOffset DEF OffsetGiven
<1>2. CASE text # <<>>
  BY <1>2, PartsAssumption DEF OffsetGiven
<1> QED
  BY <1>1, <1>2

-----------------------------------------------------------------------------
(* Fields. *)

Parts(f) == \A k \in DOMAIN f : f[k] \in Int

LEMMA FieldsOfDate ==
  ASSUME NEW d \in AnyDates, NEW names
  PROVE  Parts(FieldsOf(d, names))
<1>1. d.year \in Int /\ d.month \in Int /\ d.day \in Int
  BY DEF AnyDates
<1>2. ASSUME NEW k \in names
      PROVE  (CASE k = "year" -> d.year [] k = "day" -> d.day [] OTHER -> d.month) \in Int
  <2>1. CASE k = "year"
    BY <1>1, <2>1
  <2>2. CASE k = "day"
    BY <1>1, <2>2
  <2>3. CASE k \notin {"year", "day"}
    BY <1>1, <2>3
  <2> QED
    BY <2>1, <2>2, <2>3
<1> QED
  BY <1>2 DEF Parts, FieldsOf

LEMMA MergedFields ==
  ASSUME NEW fields, Parts(fields), NEW given, Parts(given)
  PROVE  Parts(mergeFields(fields, given))
<1> DEFINE own == DOMAIN fields \ fieldKeysToIgnore(DOMAIN given)
<1>1. mergeFields(fields, given) = [f \in own \cup DOMAIN given |-> IF f \in DOMAIN given THEN given[f] ELSE fields[f]]
  BY DEF mergeFields
<1> QED
  BY <1>1 DEF Parts

LEMMA MonthOfFields ==
  ASSUME NEW f, Parts(f)
  PROVE  resolveNonLunisolarMonth(f) \subseteq Int
<1>1. CASE "monthCode" \notin DOMAIN f
  <2>1. resolveNonLunisolarMonth(f) = IF "month" \in DOMAIN f THEN {f["month"]} ELSE {}
    BY <1>1 DEF resolveNonLunisolarMonth
  <2> QED
    BY <2>1 DEF Parts
<1>2. CASE "monthCode" \in DOMAIN f
  <2>1. resolveNonLunisolarMonth(f) \subseteq {f["monthCode"]}
    BY <1>2 DEF resolveNonLunisolarMonth
  <2> QED
    BY <1>2, <2>1 DEF Parts
<1> QED
  BY <1>1, <1>2

LEMMA RegulatedFieldsAre ==
  ASSUME NEW f, Parts(f), NEW year \in Int, NEW day \in Int, NEW overflow
  PROVE  RegulatedFields(f, year, day, overflow) \subseteq GoodDates
<1> DEFINE months == UNION {resolveNonLunisolarMonth(g) : g \in PrepareTemporalFields(f)}
<1>1. \A g \in PrepareTemporalFields(f) : g = f
  BY DEF PrepareTemporalFields
<1>2. months \subseteq Int
  BY <1>1, MonthOfFields
<1> HIDE DEF months
<1>3. \A m \in months : RegulateISODate(Date(year, m, day), overflow) \subseteq GoodDates
  <2>1. \A m \in months : Date(year, m, day) \in AnyDates
    BY <1>2, DatesAre
  <2> QED
    BY <2>1, RegulatedDate
<1>4. RegulatedFields(f, year, day, overflow) = UNION {RegulateISODate(Date(year, m, day), overflow) : m \in months}
  BY DEF RegulatedFields, months
<1> QED
  BY <1>3, <1>4

LEMMA FromFieldsAre ==
  ASSUME NEW f, Parts(f), NEW overflow
  PROVE  /\ dateFromFields(f, overflow) \subseteq GoodDates
         /\ AllFine(yearMonthFromFields(f, overflow))
         /\ AllFine(monthDayFromFields(f, overflow))
<1>1. dateFromFields(f, overflow) \subseteq GoodDates
  <2>1. CASE ~ {"year", "day"} \subseteq DOMAIN f
    BY <2>1 DEF dateFromFields
  <2>2. CASE {"year", "day"} \subseteq DOMAIN f
    <3>1. f["year"] \in Int /\ f["day"] \in Int
      BY <2>2 DEF Parts
    <3> DEFINE all == RegulatedFields(f, f["year"], f["day"], overflow)
    <3>2. all \subseteq GoodDates
      BY <3>1, RegulatedFieldsAre
    <3> HIDE DEF all
    <3>3. \A d \in all : CreateTemporalDate(d) \subseteq GoodDates
      BY <3>2, CreatedDate, DatesAre
    <3>4. dateFromFields(f, overflow) = UNION {CreateTemporalDate(d) : d \in all}
      BY <2>2 DEF dateFromFields, all
    <3> QED
      BY <3>3, <3>4
  <2> QED
    BY <2>1, <2>2
<1>2. AllFine(yearMonthFromFields(f, overflow))
  <2>1. CASE "year" \notin DOMAIN f
    BY <2>1 DEF yearMonthFromFields, AllFine
  <2>2. CASE "year" \in DOMAIN f
    <3>1. f["year"] \in Int /\ 1 \in Int
      BY <2>2 DEF Parts
    <3> DEFINE all == RegulatedFields(f, f["year"], 1, overflow)
    <3>2. all \subseteq GoodDates
      BY <3>1, RegulatedFieldsAre
    <3> HIDE DEF all
    <3>3. \A d \in all : AllFine(CreateTemporalYearMonth(d.year, d.month))
      BY <3>2, DatesAre, YearMonthIsFine DEF AnyDates
    <3>4. yearMonthFromFields(f, overflow) = UNION {CreateTemporalYearMonth(d.year, d.month) : d \in all}
      BY <2>2 DEF yearMonthFromFields, all
    <3> QED
      BY <3>3, <3>4 DEF AllFine
  <2> QED
    BY <2>1, <2>2
<1>3. AllFine(monthDayFromFields(f, overflow))
  <2> DEFINE coded == "monthCode" \in DOMAIN f
             y == IF coded THEN 1972 ELSE f["year"]
  <2>1. CASE ~ ("day" \in DOMAIN f /\ (coded \/ "year" \in DOMAIN f))
    BY <2>1 DEF monthDayFromFields, AllFine
  <2>2. CASE "day" \in DOMAIN f /\ (coded \/ "year" \in DOMAIN f)
    <3>1. y \in Int /\ f["day"] \in Int
      BY <2>2 DEF Parts
    <3> DEFINE all == RegulatedFields(f, y, f["day"], overflow)
    <3>4. monthDayFromFields(f, overflow) = UNION {CreateTemporalMonthDay(d.month, d.day) : d \in all}
      BY <2>2 DEF monthDayFromFields
    <3> HIDE DEF y
    <3>2. all \subseteq GoodDates
      BY <3>1, RegulatedFieldsAre
    <3> HIDE DEF all
    <3>3. \A d \in all : AllFine(CreateTemporalMonthDay(d.month, d.day))
      BY <3>2, DatesAre, MonthDayIsFine DEF AnyDates
    <3> QED
      BY <3>3, <3>4 DEF AllFine
  <2> QED
    BY <2>1, <2>2
<1> QED
  BY <1>1, <1>2, <1>3

LEMMA RegulatedTime ==
  ASSUME NEW t \in Clocks, NEW overflow
  PROVE  RegulateTime(t, overflow) \subseteq Times
<1>1. CASE overflow = "constrain"
  <2> DEFINE u == [i \in Fields |-> ConstrainToRange(t[i], 0, Radix[i] - 1)]
  <2>1. \A i \in Fields : t[i] \in Int /\ Radix[i] \in Nat \ {0}
    BY RadixType DEF Clocks
  <2>2. \A i \in Fields : u[i] \in 0 .. Radix[i] - 1
    BY <2>1 DEF ConstrainToRange, Smaller, Greater
  <2>3. u \in [Fields -> Int]
    BY <2>1, <2>2
  <2> HIDE DEF u
  <2>4. u \in Times
    BY <2>2, <2>3, TimesAre
  <2> QED
    BY <1>1, <2>4 DEF RegulateTime, u
<1>2. CASE overflow # "constrain"
  BY <1>2 DEF RegulateTime, Times, Clocks
<1> QED
  BY <1>1, <1>2

LEMMA MergedTime ==
  ASSUME NEW t \in Clocks, NEW given \in TimeParts
  PROVE  TimeWith(t, given) \in Clocks
<1>1. \A i \in DOMAIN given : given[i] \in Int
  BY PartsAssumption
<1> QED
  BY <1>1 DEF TimeWith, Clocks

LEMMA InterpretedFields ==
  ASSUME NEW f, Parts(f), NEW t \in Clocks, NEW overflow
  PROVE  InterpretTemporalDateTimeFields(f, t, overflow) \subseteq Walls
<1>1. dateFromFields(f, overflow) \subseteq GoodDates /\ RegulateTime(t, overflow) \subseteq Times
  BY FromFieldsAre, RegulatedTime
<1>2. \A d \in GoodDates, u \in Times : DateTime(d, u) \in Walls
  BY DEF DateTime, Walls
<1> QED
  BY <1>1, <1>2 DEF InterpretTemporalDateTimeFields

-----------------------------------------------------------------------------
(* The answers of the other methods. *)

LEMMA CreatedWalls ==
  ASSUME NEW d \in AnyDates, NEW t \in Clocks
  PROVE  AllFine(CreateTemporalDateTime(DateTime(d, t)))
BY CreatedDateTime, Made DEF AllFine

(* Instants of a zone. *)
LEMMA ZonedAreFine ==
  ASSUME NEW z \in ZoneNames, NEW S, S \subseteq InstantRange
  PROVE  AllFine({ZonedDateTime(i, z) : i \in S})
BY Made DEF AllFine

LEMMA ZonedRoundIsFine ==
  ASSUME NEW x, IsFine(x), x.type = "ZonedDateTime",
         NEW unit \in AskedUnits, NEW inc \in Increments, NEW mode \in RoundingModes
  PROVE  AllFine(Round(x, inc, unit, mode))
<1> DEFINE o == GetOffsetNanosecondsFor(x.zone, x.ns)
<1>1. x.zone \in ZoneNames /\ x.ns \in InstantRange /\ o \in Int
  BY FineAre, OffsetIsInt
<1>2. Round(x, inc, unit, mode) = ZonedDateTimeRound(x, inc, unit, mode)
  BY DEF Round
<1>3. CASE ~ RoundableTo(unit, inc)
  BY <1>2, <1>3 DEF ZonedDateTimeRound, AllFine
<1>4. CASE RoundableTo(unit, inc)
  <2>1. ASSUME NEW dt \in Walls, NEW n \in Int
        PROVE  RoundWallClock(x, dt, n, inc, unit, mode) \subseteq InstantRange
    <3>1. CASE n <= 0
      BY <3>1 DEF RoundWallClock
    <3>2. CASE n > 0
      <4> DEFINE b == RoundTime(dt.time, inc, unit, mode, n)
                 w == CarryDays(dt.date, b)
      <4>1. b.deltaDays \in Int /\ b.time \in Times
        <5>1. dt.time \in Times
          BY WallsAre
        <5>2. CASE unit = "day"
          <6>1. inc = 1 /\ n \in Nat \ {0}
            BY <1>4, <3>2, <5>2, RoundableIs
          <6>2. b.deltaDays \in Nat /\ b.time = Midnight
            BY <5>1, <5>2, <6>1, RoundedToDays
          <6> QED
            BY <6>2, MidnightIs
        <5>3. CASE unit # "day"
          <6>1. inc \in Nat \ {0} /\ Field(unit) \in Fields /\ Radix[Field(unit)] % inc = 0
            BY <1>4, <5>3, RoundableIs
          <6> DEFINE v == b.deltaDays * DayLength + Value(b.time)
          <6>2. /\ b.time \in Times
                /\ (b.deltaDays = 0 /\ Value(b.time) = v) \/ (b.deltaDays = 1 /\ b.time = Midnight /\ v = DayLength)
            BY <5>1, <5>3, <6>1, RoundTimeIs
          <6> HIDE DEF b, v
          <6> QED
            BY <6>2
        <5> QED
          BY <5>2, <5>3
      <4> HIDE DEF b
      <4>2. w \in Walls
        BY <4>1, CarriedDays, WallsAre
      <4>3. w = DateTime(w.date, w.time) /\ w.date \in AnyDates /\ w.time \in Clocks
        BY <4>2, WallsAre
      <4> HIDE DEF w, o
      <4>4. InterpretISODateTimeOffset(x.zone, DateTime(w.date, w.time), "option", o, "compatible", "prefer", FALSE)
              \subseteq InstantRange
        BY <1>1, <4>3, InterpretedOffset
      <4>5. RoundWallClock(x, dt, n, inc, unit, mode) =
              InterpretISODateTimeOffset(x.zone, w, "option", o, "compatible", "prefer", FALSE)
        <5>1. ~ (n <= 0)
          BY <3>2
        <5> QED
          BY <5>1, Zenon DEF RoundWallClock, RoundISODateTime, w, b, o
      <4> QED
        BY <4>3, <4>4, <4>5
    <3> QED
      BY <3>1, <3>2
  <2>2. ASSUME NEW dt \in Walls
        PROVE  LengthOfDay(x.zone, dt.date) \subseteq Int
    <3> DEFINE I == InstantAt(x.zone, DateTime(dt.date, Midnight), "compatible")
               A(i) == AfterDays(i, x.zone, 1)
    <3>1. I \subseteq InstantRange
      BY <1>1, WallsAre, MidnightIs, DatesAre, InstantAtWall
    <3>2. \A i \in I : A(i) \subseteq InstantRange
      <4>1. Days(1).calendar \in Calendars /\ Days(1).time \in Clocks
        BY MidnightIs, DatesAre DEF Days, Duration, Calendar, Calendars
      <4> QED
        BY <1>1, <3>1, <4>1, AddedToZoned DEF AfterDays
    <3> HIDE DEF I, A
    <3>3. \A i \in I : \A j \in A(i) : j - i \in Int
      BY <3>1, <3>2, ValidNanoseconds
    <3>4. LengthOfDay(x.zone, dt.date) = UNION {{j - i : j \in A(i)} : i \in I}
      BY DEF LengthOfDay, I, A
    <3> QED
      BY <3>3, <3>4
  <2> DEFINE L(dt) == LengthOfDay(x.zone, dt.date)
             C(dt, n) == RoundWallClock(x, dt, n, inc, unit, mode)
             U(dt) == UNION {C(dt, n) : n \in L(dt)}
             all == UNION {U(dt) : dt \in dateTime(x)}
  <2>3. dateTime(x) \subseteq Walls
    BY ZonedWallClock
  <2>4. \A dt \in Walls : L(dt) \subseteq Int /\ \A n \in Int : C(dt, n) \subseteq InstantRange
    BY <2>1, <2>2
  <2>5. ZonedDateTimeRound(x, inc, unit, mode) = {ZonedDateTime(i, x.zone) : i \in all}
    BY <1>4 DEF ZonedDateTimeRound
  <2> HIDE DEF L, C
  <2>6. \A dt \in Walls : U(dt) \subseteq InstantRange
    BY <2>4
  <2> HIDE DEF U
  <2>7. all \subseteq InstantRange
    BY <2>3, <2>6
  <2> HIDE DEF all
  <2> QED
    BY <1>1, <1>2, <2>5, <2>7, ZonedAreFine
<1> QED
  BY <1>3, <1>4

LEMMA WithIsFine ==
  ASSUME NEW x, IsFine(x), x.type \in {"PlainDate", "PlainTime", "PlainDateTime", "PlainYearMonth", "PlainMonthDay"},
         NEW given \in DateParts, NEW time \in TimeParts, NEW overflow
  PROVE  AllFine(With(x, given, time, overflow))
<1>1. Parts(given)
  BY PartsAssumption DEF Parts
<1> DEFINE F(names) == mergeFields(FieldsOf(x.date, names), given)
<1>2. ASSUME x.type # "PlainTime", NEW names
      PROVE  Parts(F(names))
  <2>1. x.date \in AnyDates
    BY <1>2, FineAre, DatesAre
  <2> QED
    BY <1>1, <2>1, FieldsOfDate, MergedFields
<1> HIDE DEF F
<1>3. CASE x.type = "PlainDate"
  <2>1. With(x, given, time, overflow) = {PlainDate(d) : d \in dateFromFields(F(DateFieldNames), overflow)}
    BY <1>3 DEF With, PlainDateWith, F
  <2>2. Parts(F(DateFieldNames))
    BY <1>2, <1>3
  <2> QED
    BY <2>1, <2>2, FromFieldsAre, Made DEF AllFine
<1>4. CASE x.type = "PlainYearMonth"
  <2>1. With(x, given, time, overflow) = yearMonthFromFields(F({"year", "month", "monthCode"}), overflow)
    BY <1>4 DEF With, PlainYearMonthWith, F
  <2>2. Parts(F({"year", "month", "monthCode"}))
    BY <1>2, <1>4
  <2> QED
    BY <2>1, <2>2, FromFieldsAre
<1>5. CASE x.type = "PlainMonthDay"
  <2>1. With(x, given, time, overflow) = monthDayFromFields(F({"monthCode", "day"}), overflow)
    BY <1>5 DEF With, PlainMonthDayWith, F
  <2>2. Parts(F({"monthCode", "day"}))
    BY <1>2, <1>5
  <2> QED
    BY <2>1, <2>2, FromFieldsAre
<1>6. CASE x.type = "PlainTime"
  <2>1. With(x, given, time, overflow) = {PlainTime(t) : t \in RegulateTime(TimeWith(x.time, time), overflow)}
    BY <1>6 DEF With, PlainTimeWith
  <2>2. RegulateTime(TimeWith(x.time, time), overflow) \subseteq Times
    BY <1>6, FineAre, DatesAre, MergedTime, RegulatedTime
  <2> QED
    BY <2>1, <2>2, Made DEF AllFine
<1>7. CASE x.type = "PlainDateTime"
  <2> DEFINE all == InterpretTemporalDateTimeFields(F(DateFieldNames), TimeWith(x.time, time), overflow)
  <2>1. With(x, given, time, overflow) = UNION {CreateTemporalDateTime(e) : e \in all}
    BY <1>7 DEF With, PlainDateTimeWith, DateTimeWith, F
  <2>2. TimeWith(x.time, time) \in Clocks /\ Parts(F(DateFieldNames))
    BY <1>2, <1>7, FineAre, DatesAre, MergedTime
  <2>3. all \subseteq Walls
    BY <2>2, InterpretedFields
  <2> HIDE DEF all
  <2>4. \A e \in all : CreateTemporalDateTime(e) \subseteq {e}
    BY DEF CreateTemporalDateTime
  <2> QED
    BY <2>1, <2>3, <2>4, Made DEF AllFine
<1> QED
  BY <1>3, <1>4, <1>5, <1>6, <1>7

LEMMA ZonedWithIsFine ==
  ASSUME NEW x, IsFine(x), x.type = "ZonedDateTime", NEW given \in DateParts, NEW time \in TimeParts,
         NEW text \in OffsetTexts, NEW overflow, NEW disambiguation, NEW option
  PROVE  AllFine(ZonedDateTimeWith(x, given, time, text, overflow, disambiguation, option))
<1> DEFINE o == OffsetGiven(x, text)
           W(own) == DateTimeWith(own, given, time, overflow)
           all == UNION {W(own) : own \in dateTime(x)}
           I(dt) == InterpretISODateTimeOffset(x.zone, dt, "option", o, disambiguation, option, FALSE)
           S == UNION {I(dt) : dt \in all}
<1>1. x.zone \in ZoneNames /\ x.ns \in InstantRange /\ o \in Int
  BY FineAre, GivenOffset
<1>2. dateTime(x) \subseteq Walls
  BY ZonedWallClock
<1>3. \A own \in Walls : W(own) \subseteq Walls
  <2> SUFFICES ASSUME NEW own \in Walls
               PROVE  W(own) \subseteq Walls
    OBVIOUS
  <2>1. Parts(given)
    BY PartsAssumption DEF Parts
  <2>2. own.date \in AnyDates /\ own.time \in Clocks
    BY WallsAre
  <2>3. TimeWith(own.time, time) \in Clocks
    BY <2>2, MergedTime
  <2>4. Parts(mergeFields(FieldsOf(own.date, DateFieldNames), given))
    BY <2>1, <2>2, FieldsOfDate, MergedFields
  <2> QED
    BY <2>3, <2>4, InterpretedFields DEF DateTimeWith
<1> HIDE DEF W, o
<1>4. all \subseteq Walls
  BY <1>2, <1>3
<1> HIDE DEF all
<1>5. \A dt \in Walls : I(dt) \subseteq InstantRange
  <2> SUFFICES ASSUME NEW dt \in Walls
               PROVE  I(dt) \subseteq InstantRange
    OBVIOUS
  <2>1. dt = DateTime(dt.date, dt.time) /\ dt.date \in AnyDates /\ dt.time \in Clocks
    BY WallsAre
  <2>2. I(DateTime(dt.date, dt.time)) \subseteq InstantRange
    BY <1>1, <2>1, InterpretedOffset
  <2> HIDE DEF I
  <2> QED
    BY <2>1, <2>2
<1>6. ZonedDateTimeWith(x, given, time, text, overflow, disambiguation, option) = {ZonedDateTime(i, x.zone) : i \in S}
  BY DEF ZonedDateTimeWith, all, o, W
<1> HIDE DEF I
<1>7. S \subseteq InstantRange
  BY <1>4, <1>5
<1> HIDE DEF S
<1> QED
  BY <1>1, <1>6, <1>7, ZonedAreFine

-----------------------------------------------------------------------------
(* Conversions, continued. *)

LEMMA ZonedFromFieldsIsFine ==
  ASSUME NEW x, IsFine(x), x.type = "PlainDateTime", NEW names, NEW z \in ZoneNames, NEW text \in OffsetTexts,
         NEW overflow, NEW disambiguation, NEW option
  PROVE  AllFine(zonedFromFields(FieldsOf(x.date, names), x.time, z, text, overflow, disambiguation, option))
<1> DEFINE o == IF text = <<>> THEN 0 ELSE ParseTimeZoneOffsetString(text[1])
           h == IF text = <<>> THEN "wall" ELSE "option"
           all == InterpretTemporalDateTimeFields(FieldsOf(x.date, names), x.time, overflow)
           I(dt) == InterpretISODateTimeOffset(z, dt, h, o, disambiguation, option, FALSE)
           S == UNION {I(dt) : dt \in all}
<1>1. o \in Int
  BY PartsAssumption
<1>2. all \subseteq Walls
  <2>1. x.date \in AnyDates /\ x.time \in Clocks
    BY FineAre, DatesAre
  <2> QED
    BY <2>1, FieldsOfDate, InterpretedFields
<1> HIDE DEF o, h
<1>3. \A dt \in Walls : I(dt) \subseteq InstantRange
  <2> SUFFICES ASSUME NEW dt \in Walls
               PROVE  I(dt) \subseteq InstantRange
    OBVIOUS
  <2>1. dt = DateTime(dt.date, dt.time) /\ dt.date \in AnyDates /\ dt.time \in Clocks
    BY WallsAre
  <2>2. I(DateTime(dt.date, dt.time)) \subseteq InstantRange
    BY <1>1, <2>1, InterpretedOffset
  <2> HIDE DEF I
  <2> QED
    BY <2>1, <2>2
<1>4. zonedFromFields(FieldsOf(x.date, names), x.time, z, text, overflow, disambiguation, option)
        = {ZonedDateTime(i, z) : i \in S}
  BY Zenon DEF zonedFromFields, o, h
<1> HIDE DEF all, I
<1>5. S \subseteq InstantRange
  BY <1>2, <1>3
<1> HIDE DEF S
<1> QED
  BY <1>4, <1>5, ZonedAreFine

LEMMA WithPlainDateIsFine ==
  ASSUME NEW x, IsFine(x), x.type \in {"PlainDateTime", "ZonedDateTime"}, NEW d \in GoodDates
  PROVE  AllFine(withPlainDate(x, d))
<1>1. CASE x.type = "PlainDateTime"
  BY <1>1, FineAre, DatesAre, CreatedWalls DEF withPlainDate, PlainDateTimeWithDate
<1>2. CASE x.type = "ZonedDateTime"
  <2>1. \A dt \in dateTime(x) : AllFine(ZonedAt(x.zone, DateTime(d, dt.time), "compatible"))
    BY <1>2, FineAre, ZonedWallClock, WallsAre, ZonedAtWall
  <2>2. withPlainDate(x, d) = UNION {ZonedAt(x.zone, DateTime(d, dt.time), "compatible") : dt \in dateTime(x)}
    BY <1>2 DEF withPlainDate, ZonedDateTimeWithDate
  <2> QED
    BY <2>1, <2>2 DEF AllFine
<1> QED
  BY <1>1, <1>2

LEMMA ZonedWithTimeIsFine ==
  ASSUME NEW x, IsFine(x), x.type = "ZonedDateTime", NEW t \in Times
  PROVE  AllFine(ZonedDateTimeWithTime(x, t))
<1>1. \A dt \in dateTime(x) : AllFine(ZonedAt(x.zone, DateTime(dt.date, t), "compatible"))
  BY FineAre, ZonedWallClock, WallsAre, ZonedAtWall
<1> QED
  BY <1>1 DEF AllFine, ZonedDateTimeWithTime

LEMMA WithPlainTimeIsFine ==
  ASSUME NEW x, IsFine(x), x.type \in {"PlainDateTime", "ZonedDateTime"}, NEW t \in Times
  PROVE  AllFine(withPlainTime(x, t))
<1>1. CASE x.type = "PlainDateTime"
  BY <1>1, FineAre, DatesAre, CreatedWalls DEF withPlainTime, PlainDateTimeWithTime
<1>2. CASE x.type = "ZonedDateTime"
  BY <1>2, ZonedWithTimeIsFine DEF withPlainTime
<1> QED
  BY <1>1, <1>2

LEMMA ToZoneIsFine ==
  ASSUME NEW x, IsFine(x), x.type \in {"PlainDate", "PlainDateTime"}, NEW z \in ZoneNames, NEW disambiguation
  PROVE  AllFine(UNION {ZonedAt(z, dt, disambiguation) : dt \in ToTemporalDateTime(x)})
<1>1. ToTemporalDateTime(x) \subseteq Walls
  BY DateTimeOfObject
<1>2. \A dt \in Walls : AllFine(ZonedAt(z, dt, disambiguation))
  <2> SUFFICES ASSUME NEW dt \in Walls
               PROVE  AllFine(ZonedAt(z, dt, disambiguation))
    OBVIOUS
  <2>1. dt = DateTime(dt.date, dt.time) /\ dt.date \in GoodDates /\ dt.time \in Times
    BY WallsAre
  <2>2. AllFine(ZonedAt(z, DateTime(dt.date, dt.time), disambiguation))
    BY <2>1, ZonedAtWall
  <2> QED
    BY <2>1, <2>2
<1> QED
  BY <1>1, <1>2 DEF AllFine

LEMMA FromEpochIsFine ==
  ASSUME NEW x, IsFine(x), x.type = "Instant",
         NEW unit \in {"second", "millisecond", "microsecond", "nanosecond"}
  PROVE  AllFine(fromEpoch(epoch(x, unit), unit))
<1> DEFINE L == UnitLength[Field(unit)]
           n == epoch(x, unit)
<1>1. Field(unit) \in 0 .. 6
  BY RanksAre DEF Field
<1>2. L \in Nat \ {0}
  BY <1>1, UnitLengthPositive
<1>3. x.ns \in Int
  BY FineAre, ValidNanoseconds
<1> HIDE DEF L
<1>4. Quo(x.ns, L) \in Int
  BY <1>2, <1>3, QuoRem
<1>5. n \in Int
  BY <1>4 DEF epoch, FloorDiv, L
<1> HIDE DEF n
<1>6. n * L \in Int
  BY <1>2, <1>5, ProductIsInt
<1>7. ValidateEpochNanoseconds(n * L) \subseteq InstantRange
  BY <1>6, ValidNanoseconds
<1> QED
  BY <1>7, Made DEF AllFine, fromEpoch, L, n

LEMMA ToPlainIsFine ==
  ASSUME NEW x, IsFine(x)
  PROVE  /\ x.type = "ZonedDateTime" => AllFine(toInstant(x)) /\ AllFine(ToTemporalDateTime(x))
         /\ x.type \in {"PlainDateTime", "ZonedDateTime"} => AllFine(toPlainDate(x)) /\ AllFine(toPlainTime(x))
         /\ x.type \in {"PlainDate", "PlainDateTime", "ZonedDateTime"} =>
               AllFine(toPlainYearMonth(x)) /\ AllFine(toPlainMonthDay(x))
<1>1. ASSUME x.type = "ZonedDateTime"
      PROVE  AllFine(toInstant(x)) /\ AllFine(ToTemporalDateTime(x))
  BY <1>1, FineAre, Made, DateTimeOfObject DEF AllFine, toInstant
<1>2. ASSUME x.type \in {"PlainDateTime", "ZonedDateTime"}
      PROVE  AllFine(toPlainDate(x)) /\ AllFine(toPlainTime(x))
  BY <1>2, Made, DateOfObject, TimeOfObject DEF AllFine, toPlainDate, toPlainTime
<1>3. ASSUME x.type \in {"PlainDate", "PlainDateTime", "ZonedDateTime"}
      PROVE  AllFine(toPlainYearMonth(x)) /\ AllFine(toPlainMonthDay(x))
  <2>1. \A d \in ToTemporalDate(x) : /\ Parts(FieldsOf(d, {"year", "monthCode"}))
                                     /\ Parts(FieldsOf(d, {"monthCode", "day"}))
    BY <1>3, DateOfObject, DatesAre, FieldsOfDate
  <2>2. \A d \in ToTemporalDate(x) : AllFine(yearMonthFromFields(FieldsOf(d, {"year", "monthCode"}), "constrain"))
    BY <2>1, FromFieldsAre
  <2>3. \A d \in ToTemporalDate(x) : AllFine(monthDayFromFields(FieldsOf(d, {"monthCode", "day"}), "constrain"))
    BY <2>1, FromFieldsAre
  <2> QED
    BY <2>2, <2>3 DEF AllFine, toPlainYearMonth, toPlainMonthDay
<1> QED
  BY <1>1, <1>2, <1>3

LEMMA CombinedIsFine ==
  /\ \A x, t : IsFine(x) /\ x.type = "PlainDate" /\ t \in Times => AllFine(toPlainDateTime(x, t))
  /\ \A x, n : IsFine(x) /\ x.type = "PlainYearMonth" /\ n \in Int => AllFine(PlainYearMonthToDate(x, n))
  /\ \A x, n : IsFine(x) /\ x.type = "PlainMonthDay" /\ n \in Int => AllFine(PlainMonthDayToDate(x, n))
<1>1. ASSUME NEW x, IsFine(x), x.type = "PlainDate", NEW t \in Times
      PROVE  AllFine(toPlainDateTime(x, t))
  <2>1. \A d \in ToTemporalDate(x) : AllFine(CreateTemporalDateTime(DateTime(d, t)))
    BY <1>1, DateOfObject, DatesAre, CreatedWalls
  <2> QED
    BY <2>1 DEF AllFine, toPlainDateTime
<1>2. ASSUME NEW d \in AnyDates
      PROVE  AllFine(DateOf(d))
  <2>1. Parts(FieldsOf(d, {"year", "monthCode", "day"}))
    BY FieldsOfDate
  <2> QED
    BY <2>1, FromFieldsAre, Made DEF AllFine, DateOf
<1>3. \A d \in GoodDates, n \in Int : [d EXCEPT !.day = n] \in AnyDates /\ [d EXCEPT !.year = n] \in AnyDates
  <2>1. GoodDates \subseteq AnyDates
    BY DatesAre
  <2>2. \A d \in AnyDates, n \in Int : [d EXCEPT !.day = n] \in AnyDates /\ [d EXCEPT !.year = n] \in AnyDates
    BY DEF AnyDates
  <2> QED
    BY <2>1, <2>2
<1>4. ASSUME NEW x, IsFine(x), x.type \in {"PlainYearMonth", "PlainMonthDay"}, NEW n \in Int
      PROVE  AllFine(PlainYearMonthToDate(x, n)) /\ AllFine(PlainMonthDayToDate(x, n))
  <2>1. x.date \in GoodDates
    BY <1>4, FineAre
  <2> QED
    BY <1>2, <1>3, <2>1 DEF PlainYearMonthToDate, PlainMonthDayToDate
<1> QED
  BY <1>1, <1>4

(* Durations are not looked at more closely than their class. *)
LEMMA RejectedSpan ==
  ASSUME NEW dur, dur.type = "Duration"
  PROVE  AllFine(RejectDuration(dur))
BY DEF AllFine, RejectDuration, IsFine

LEMMA SpansAre ==
  /\ \A c, t : Duration(c, t).type = "Duration"
  /\ \A c, t, unit : BalanceWithTime(c, t, unit).type = "Duration"
  /\ \A sign, dur : Scale(sign, dur).type = "Duration"
<1>1. \A c, t : Duration(c, t).type = "Duration"
  BY DEF Duration
<1>2. \A c, b : Balance(c, b).type = "Duration"
  BY <1>1 DEF Balance
<1>3. \A c, t, unit : BalanceWithTime(c, t, unit).type = "Duration"
  BY <1>2 DEF BalanceWithTime
<1>4. \A sign, dur : Scale(sign, dur).type = "Duration"
  BY <1>1 DEF Scale
<1> QED
  BY <1>1, <1>3, <1>4

LEMMA DifferenceIsFine ==
  ASSUME NEW op, NEW x, NEW y, NEW o, x.type \in Arithmetic
  PROVE  AllFine(Difference(op, x, y, o))
<1>1. \A durations : AllFine(Oriented(op, durations))
  BY RejectedSpan, SpansAre DEF Oriented, AllFine
<1>2. CASE x.type = "Instant"
  BY <1>1, <1>2 DEF Difference, DifferenceTemporalInstant
<1>3. CASE x.type = "PlainDate"
  BY <1>1, <1>3 DEF Difference, DifferenceTemporalPlainDate
<1>4. CASE x.type = "PlainTime"
  BY <1>1, <1>4 DEF Difference, DifferenceTemporalPlainTime
<1>5. CASE x.type = "PlainDateTime"
  BY <1>1, <1>5 DEF Difference, DifferenceTemporalPlainDateTime
<1>6. CASE x.type = "PlainYearMonth"
  BY <1>1, <1>6 DEF Difference, DifferenceTemporalPlainYearMonth
<1>7. CASE x.type = "ZonedDateTime"
  BY <1>1, <1>7 DEF Difference, DifferenceTemporalZonedDateTime
<1> QED
  BY <1>2, <1>3, <1>4, <1>5, <1>6, <1>7 DEF Arithmetic

LEMMA RoundedSpanIsFine ==
  ASSUME NEW x, NEW o, NEW start
  PROVE  AllFine(roundDuration(x, o, start))
<1>1. \A s : \A dur \in GatheredSpan(x, s, start) : dur.type = "Duration"
  BY SpansAre DEF GatheredSpan
<1> DEFINE all == UNION {GatheredSpan(x, s, start) : s \in SpanSettings(x, o)}
<1>2. \A dur \in all : dur.type = "Duration"
  BY <1>1
<1>3. roundDuration(x, o, start) = UNION {RejectDuration(dur) : dur \in all}
  BY DEF roundDuration
<1> HIDE DEF all
<1> QED
  BY <1>2, <1>3, RejectedSpan DEF AllFine

AllSpans(S) == \A s \in S : s.type = "Duration"

LEMMA AddedSpanIsFine ==
  ASSUME NEW x, NEW dur, NEW relativeTo
  PROVE  AllFine(AddToDuration(x, dur, relativeTo))
<1> DEFINE A(d1, d2, start, t, largest) ==
             CASE start.kind = "date" -> AddOnDate(start.date, d1.calendar, d2.calendar, t, largest)
               [] start.kind = "zoned" -> AddOnZone(start.ns, start.zone, d1, d2, largest)
               [] start.kind = "none" -> AddAlone(d1.calendar.days + d2.calendar.days, t, largest)
<1>1. \A start \in ToRelativeTemporalObject(relativeTo) : start.kind \in {"date", "zoned", "none"}
  BY DEF ToRelativeTemporalObject, NoStart, ZonedStart, DateStart
<1>2. \A d, c1, c2, t, largest : AllSpans(AddOnDate(d, c1, c2, t, largest))
  BY SpansAre DEF AllSpans, AddOnDate
<1>3. \A ns, z, d1, d2, largest : AllSpans(AddOnZone(ns, z, d1, d2, largest))
  <2>1. \A c, from, to, z : AllSpans(DaysAfter(c, from, to, z))
    <3> SUFFICES ASSUME NEW c, NEW from, NEW to, NEW z
                 PROVE  AllSpans(DaysAfter(c, from, to, z))
      OBVIOUS
    <3> DEFINE N(at) == NanosecondsToDays(to - at, ZonedStart(at, z))
               R(at) == {Duration([c EXCEPT !.days = r.days], TimeFields(r.nanoseconds, "hour")) : r \in N(at)}
               I == AddZonedDateTime(from, z, Duration(c, Midnight), "constrain")
    <3>1. DaysAfter(c, from, to, z) = UNION {R(at) : at \in I}
      BY DEF DaysAfter
    <3> HIDE DEF N
    <3>2. \A at : AllSpans(R(at))
      BY SpansAre DEF AllSpans
    <3> HIDE DEF R, I
    <3> QED
      BY <3>1, <3>2 DEF AllSpans
  <2>2. \A from, to, z, largest : AllSpans(DifferenceZonedDateTime(from, to, z, largest))
    <3> SUFFICES ASSUME NEW from, NEW to, NEW z, NEW largest
                 PROVE  AllSpans(DifferenceZonedDateTime(from, to, z, largest))
      OBVIOUS
    <3> DEFINE all == UNION {DifferenceISODateTime(dt, du, largest) :
                               dt \in GetPlainDateTimeFor(z, from), du \in GetPlainDateTimeFor(z, to)}
    <3>1. DifferenceZonedDateTime(from, to, z, largest) =
            IF from = to THEN {Duration(NoCalendar, Midnight)}
            ELSE UNION {DaysAfter([e.calendar EXCEPT !.days = 0], from, to, z) : e \in all}
      BY DEF DifferenceZonedDateTime
    <3> HIDE DEF all
    <3>2. CASE from = to
      BY <3>1, <3>2, SpansAre DEF AllSpans
    <3>3. CASE from # to
      <4> DEFINE E(e) == DaysAfter([e.calendar EXCEPT !.days = 0], from, to, z)
      <4>1. DifferenceZonedDateTime(from, to, z, largest) = UNION {E(e) : e \in all}
        BY <3>1, <3>3
      <4>2. \A e : AllSpans(E(e))
        BY <2>1
      <4> HIDE DEF E
      <4> QED
        BY <4>1, <4>2 DEF AllSpans
    <3> QED
      BY <3>2, <3>3
  <2>3. \A from, to, z, largest : AllSpans(DifferenceOnZone(from, to, z, largest))
    BY <2>2, SpansAre DEF AllSpans, DifferenceOnZone
  <2> QED
    BY <2>3 DEF AllSpans, AddOnZone
<1>4. \A days, t, largest : AllSpans(AddAlone(days, t, largest))
  BY SpansAre DEF AllSpans, AddAlone
<1>5. ASSUME NEW start, start.kind \in {"date", "zoned", "none"}, NEW t, NEW largest
      PROVE  AllSpans(A(x, dur, start, t, largest))
  <2>1. CASE start.kind = "date"
    <3>1. A(x, dur, start, t, largest) = AddOnDate(start.date, x.calendar, dur.calendar, t, largest)
      BY <2>1
    <3> QED
      BY <1>2, <3>1
  <2>2. CASE start.kind = "zoned"
    <3>1. A(x, dur, start, t, largest) = AddOnZone(start.ns, start.zone, x, dur, largest)
      BY <2>2
    <3> QED
      BY <1>3, <3>1
  <2>3. CASE start.kind = "none"
    <3>1. A(x, dur, start, t, largest) = AddAlone(x.calendar.days + dur.calendar.days, t, largest)
      BY <2>3
    <3> QED
      BY <1>4, <3>1
  <2> QED
    BY <1>5, <2>1, <2>2, <2>3
<1>6. ASSUME NEW start, start.kind \in {"date", "zoned", "none"}
      PROVE  AllFine(AddDuration(x, dur, start))
  <2> DEFINE largest == LargerOfTwoTemporalUnits(DefaultTemporalLargestUnit(x), DefaultTemporalLargestUnit(dur))
             t == [i \in Fields |-> x.time[i] + dur.time[i]]
  <2>1. AddDuration(x, dur, start) = UNION {RejectDuration(sum) : sum \in A(x, dur, start, t, largest)}
    BY Zenon DEF AddDuration
  <2>2. AllSpans(A(x, dur, start, t, largest))
    BY <1>5, <1>6
  <2> HIDE DEF A, largest, t
  <2> QED
    BY <2>1, <2>2, RejectedSpan DEF AllFine, AllSpans
<1> QED
  BY <1>1, <1>6 DEF AddToDuration, AllFine

LEMMA ChangedSpanIsFine ==
  /\ \A x : AllFine(negated(x)) /\ AllFine(abs(x))
  /\ \A x, c, t : AllFine(withParts(x, c, t))
<1>1. \A x : AllFine(negated(x)) /\ AllFine(abs(x))
  BY SpansAre DEF AllFine, IsFine, negated, abs
<1>2. \A x, c, t : AllFine(withParts(x, c, t))
  BY SpansAre, RejectedSpan DEF withParts
<1> QED
  BY <1>1, <1>2

-----------------------------------------------------------------------------
(* The objects of a program. *)

ObjectsFine == IsFine(object) /\ (AnswersWithObject => AllFine(answer))

(* A call keeps the object, and its answer is what it returns. *)
LEMMA Returned ==
  ASSUME ObjectsFine, NEW c, NEW results, Returns(c, results), AllFine(results)
  PROVE  ObjectsFine'
<1>1. object' = object /\ answer' = results
  BY DEF Returns
<1> QED
  BY <1>1 DEF ObjectsFine

LEMMA ReturnedOther ==
  ASSUME ObjectsFine, NEW c, NEW results, Returns(c, results),
         c.method \in {"getters", "compare", "compare spans", "total", "hoursInDay", "getPossibleInstantsFor"}
  PROVE  ObjectsFine'
<1>1. object' = object /\ call' = c
  BY DEF Returns
<1> QED
  BY <1>1 DEF ObjectsFine, AnswersWithObject

(* IsFine holds of whatever a program holds, through all the calls. *)
LEMMA SpecFine == Spec => []ObjectsFine
<1>1. Init => ObjectsFine
  BY GivenAreFine DEF Init, ObjectsFine, AnswersWithObject, NoCall
<1>2. ASSUME ObjectsFine, [Next]_vars
      PROVE  ObjectsFine'
  <2> USE <1>2
  <2>0. IsFine(object)
    BY DEF ObjectsFine
  <2>1. CASE AddOrSubtract
    <3>1. PICK op \in {"add", "subtract"}, dur \in Spans, overflow \in Overflows :
             /\ object.type \in Arithmetic
             /\ Returns([method |-> op, span |-> Signed(op, dur)], Add(object, Signed(op, dur), overflow))
      BY <2>1 DEF AddOrSubtract, HasType
    <3>2. AllFine(Add(object, Signed(op, dur), overflow))
      BY <2>0, <3>1, SignedSpan, SumIsFine
    <3> QED
      BY <3>1, <3>2, Returned
  <2>2. CASE UntilOrSince
    <3>1. PICK op \in {"until", "since"}, y \in Others, o \in DifferenceOptions :
             /\ object.type \in Arithmetic
             /\ Returns([method |-> op, other |-> y, options |-> o], Difference(op, object, y, o))
      BY <2>2 DEF UntilOrSince, HasType
    <3> QED
      BY <3>1, DifferenceIsFine, Returned
  <2>3. CASE RoundTo
    <3>1. PICK unit \in AskedUnits, increment \in Increments, mode \in RoundingModes :
             /\ object.type \in {"Instant", "PlainTime", "PlainDateTime", "ZonedDateTime"}
             /\ Returns([method |-> "round", unit |-> unit, increment |-> increment, mode |-> mode],
                        Round(object, increment, unit, mode))
      BY <2>3 DEF RoundTo, HasType
    <3>2. AllFine(Round(object, increment, unit, mode))
      BY <2>0, <3>1, InstantRounded, PlainTimeRounded, PlainDateTimeRounded, ZonedRoundIsFine DEF AllFine
    <3> QED
      BY <3>1, <3>2, Returned
  <2>4. CASE WithFields
    <3>1. PICK given \in DateParts, time \in TimeParts, overflow \in Overflows :
             /\ object.type \in {"PlainDate", "PlainTime", "PlainDateTime", "PlainYearMonth", "PlainMonthDay"}
             /\ Returns([method |-> "with"], With(object, given, time, overflow))
      BY <2>4 DEF WithFields, HasType
    <3> QED
      BY <2>0, <3>1, WithIsFine, Returned
  <2>5. CASE ZonedWithFields
    <3>1. PICK given \in DateParts, time \in TimeParts, text \in OffsetTexts,
               disambiguation \in Disambiguations, option \in OffsetOptions :
             /\ object.type = "ZonedDateTime"
             /\ Returns([method |-> "zoned with", option |-> option],
                        ZonedDateTimeWith(object, given, time, text, "constrain", disambiguation, option))
      BY <2>5 DEF ZonedWithFields, HasType
    <3>2. AllFine(ZonedDateTimeWith(object, given, time, text, "constrain", disambiguation, option))
      BY <2>0, <3>1, ZonedWithIsFine
    <3> QED
      BY <3>1, <3>2, Returned
  <2>6. CASE FromFields
    <3>1. PICK z \in ZoneNames, text \in OffsetTexts, disambiguation \in Disambiguations, option \in OffsetOptions :
             /\ object.type = "PlainDateTime"
             /\ Returns([method |-> "from", zone |-> z, option |-> option],
                        zonedFromFields(FieldsOf(object.date, {"year", "month", "day"}), object.time, z, text,
                                        "reject", disambiguation, option))
      BY <2>6 DEF FromFields, HasType
    <3>2. AllFine(zonedFromFields(FieldsOf(object.date, {"year", "month", "day"}), object.time, z, text,
                                  "reject", disambiguation, option))
      BY <2>0, <3>1, ZonedFromFieldsIsFine
    <3> QED
      BY <3>1, <3>2, Returned
  <2>7. CASE ReplaceDate
    <3>1. PICK y \in Others :
             /\ object.type \in {"PlainDateTime", "ZonedDateTime"} /\ y.type \in {"PlainDate", "PlainDateTime"}
             /\ Returns([method |-> "withPlainDate"], UNION {withPlainDate(object, d) : d \in ToTemporalDate(y)})
      BY <2>7 DEF ReplaceDate, HasType
    <3>2. ToTemporalDate(y) \subseteq GoodDates
      BY <3>1, GivenAreFine, DateOfObject
    <3>3. \A d \in ToTemporalDate(y) : AllFine(withPlainDate(object, d))
      BY <2>0, <3>1, <3>2, WithPlainDateIsFine
    <3>4. AllFine(UNION {withPlainDate(object, d) : d \in ToTemporalDate(y)})
      BY <3>3 DEF AllFine
    <3> QED
      BY <3>1, <3>4, Returned
  <2>8. CASE ReplaceTime
    <3>1. PICK y \in Others :
             /\ object.type \in {"PlainDateTime", "ZonedDateTime"} /\ y.type \in {"PlainTime", "PlainDateTime"}
             /\ Returns([method |-> "withPlainTime"], UNION {withPlainTime(object, t) : t \in ToTemporalTime(y)})
      BY <2>8 DEF ReplaceTime, HasType
    <3>2. ToTemporalTime(y) \subseteq Times
      BY <3>1, GivenAreFine, TimeOfObject
    <3>3. \A t \in ToTemporalTime(y) : AllFine(withPlainTime(object, t))
      BY <2>0, <3>1, <3>2, WithPlainTimeIsFine
    <3>4. AllFine(UNION {withPlainTime(object, t) : t \in ToTemporalTime(y)})
      BY <3>3 DEF AllFine
    <3> QED
      BY <3>1, <3>4, Returned
  <2>9. CASE ReplaceZone
    <3>1. PICK z \in ZoneNames :
             /\ object.type = "ZonedDateTime"
             /\ Returns([method |-> "withTimeZone"], withTimeZone(object, z))
      BY <2>9 DEF ReplaceZone, HasType
    <3>2. AllFine(withTimeZone(object, z))
      BY <2>0, <3>1, FineAre, Made DEF AllFine, withTimeZone
    <3> QED
      BY <3>1, <3>2, Returned
  <2>10. CASE StartOfDay
    <3>1. object.type = "ZonedDateTime" /\ Returns([method |-> "startOfDay"], startOfDay(object))
      BY <2>10 DEF StartOfDay, HasType
    <3>2. AllFine(startOfDay(object))
      BY <2>0, <3>1, MidnightIs, ZonedWithTimeIsFine DEF startOfDay
    <3> QED
      BY <3>1, <3>2, Returned
  <2>11. CASE HoursInDay
    <3>1. Returns([method |-> "hoursInDay"], hoursInDay(object))
      BY <2>11 DEF HoursInDay
    <3> QED
      BY <3>1, ReturnedOther
  <2>12. CASE PossibleInstants
    <3>1. PICK z \in ZoneNames : Returns([method |-> "getPossibleInstantsFor", zone |-> z],
                                         UNION {GetPossibleInstantsFor(z, dt) : dt \in ToTemporalDateTime(object)})
      BY <2>12 DEF PossibleInstants
    <3> QED
      BY <3>1, ReturnedOther
  <2>13. CASE ToZone
    <3>1. PICK z \in ZoneNames, disambiguation \in Disambiguations :
             /\ object.type \in {"PlainDate", "PlainDateTime"}
             /\ Returns([method |-> "toZonedDateTime", zone |-> z, disambiguation |-> disambiguation],
                        UNION {ZonedAt(z, dt, disambiguation) : dt \in ToTemporalDateTime(object)})
      BY <2>13 DEF ToZone, HasType
    <3>2. AllFine(UNION {ZonedAt(z, dt, disambiguation) : dt \in ToTemporalDateTime(object)})
      BY <2>0, <3>1, ToZoneIsFine
    <3> QED
      BY <3>1, <3>2, Returned
  <2>14. CASE ShowInstant
    <3>1. CASE \E z \in ZoneNames : Returns([method |-> "toZonedDateTimeISO"], toZonedDateTimeISO(object, z))
      <4>1. PICK z \in ZoneNames : Returns([method |-> "toZonedDateTimeISO"], toZonedDateTimeISO(object, z))
        BY <3>1
      <4>2. object.type = "Instant"
        BY <2>14 DEF ShowInstant, HasType
      <4>3. AllFine(toZonedDateTimeISO(object, z))
        BY <2>0, <4>2, FineAre, Made DEF AllFine, toZonedDateTimeISO
      <4> QED
        BY <4>1, <4>3, Returned
    <3>2. CASE \E unit \in {"second", "millisecond", "microsecond", "nanosecond"} :
                  Returns([method |-> "fromEpoch", unit |-> unit], fromEpoch(epoch(object, unit), unit))
      <4>1. PICK unit \in {"second", "millisecond", "microsecond", "nanosecond"} :
                  Returns([method |-> "fromEpoch", unit |-> unit], fromEpoch(epoch(object, unit), unit))
        BY <3>2
      <4>2. object.type = "Instant"
        BY <2>14 DEF ShowInstant, HasType
      <4>3. AllFine(fromEpoch(epoch(object, unit), unit))
        BY <2>0, <4>2, FromEpochIsFine
      <4> QED
        BY <4>1, <4>3, Returned
    <3> QED
      BY <2>14, <3>1, <3>2 DEF ShowInstant
  <2>15. CASE Convert
    <3>1. CASE /\ object.type = "ZonedDateTime"
               /\ \/ Returns([method |-> "toInstant"], toInstant(object))
                  \/ Returns([method |-> "toPlainDateTime"], ToTemporalDateTime(object))
      BY <2>0, <3>1, ToPlainIsFine, Returned
    <3>2. CASE /\ object.type \in {"PlainDateTime", "ZonedDateTime"}
               /\ \/ Returns([method |-> "toPlainDate"], toPlainDate(object))
                  \/ Returns([method |-> "toPlainTime"], toPlainTime(object))
      BY <2>0, <3>2, ToPlainIsFine, Returned
    <3>3. CASE /\ object.type \in {"PlainDate", "PlainDateTime", "ZonedDateTime"}
               /\ \/ Returns([method |-> "toPlainYearMonth"], toPlainYearMonth(object))
                  \/ Returns([method |-> "toPlainMonthDay"], toPlainMonthDay(object))
      BY <2>0, <3>3, ToPlainIsFine, Returned
    <3> QED
      BY <2>15, <3>1, <3>2, <3>3 DEF Convert, HasType
  <2>16. CASE Combine
    <3>1. CASE \E y \in Others : /\ object.type = "PlainDate" /\ y.type = "PlainTime"
                                 /\ Returns([method |-> "toPlainDateTime"], toPlainDateTime(object, y.time))
      <4>1. PICK y \in Others : /\ object.type = "PlainDate" /\ y.type = "PlainTime"
                                /\ Returns([method |-> "toPlainDateTime"], toPlainDateTime(object, y.time))
        BY <3>1
      <4>2. y.time \in Times
        BY <4>1, GivenAreFine, FineAre
      <4>3. AllFine(toPlainDateTime(object, y.time))
        BY <2>0, <4>1, <4>2, CombinedIsFine
      <4> QED
        BY <4>1, <4>3, Returned
    <3>2. CASE \E y \in Others : /\ object.type = "PlainTime" /\ y.type = "PlainDate"
                                 /\ Returns([method |-> "toPlainDateTime"], toPlainDateTime(y, object.time))
      <4>1. PICK y \in Others : /\ object.type = "PlainTime" /\ y.type = "PlainDate"
                                /\ Returns([method |-> "toPlainDateTime"], toPlainDateTime(y, object.time))
        BY <3>2
      <4>2. object.time \in Times /\ IsFine(y)
        BY <2>0, <4>1, GivenAreFine, FineAre
      <4>3. AllFine(toPlainDateTime(y, object.time))
        BY <4>1, <4>2, CombinedIsFine
      <4> QED
        BY <4>1, <4>3, Returned
    <3>3. CASE /\ object.type = "PlainYearMonth"
               /\ \E n \in {1, 29, 31} : Returns([method |-> "toPlainDate"], PlainYearMonthToDate(object, n))
      <4>1. PICK n \in {1, 29, 31} : Returns([method |-> "toPlainDate"], PlainYearMonthToDate(object, n))
        BY <3>3
      <4>2. AllFine(PlainYearMonthToDate(object, n))
        BY <2>0, <3>3, CombinedIsFine
      <4> QED
        BY <4>1, <4>2, Returned
    <3>4. CASE /\ object.type = "PlainMonthDay"
               /\ \E n \in {1971, 1972} : Returns([method |-> "toPlainDate"], PlainMonthDayToDate(object, n))
      <4>1. PICK n \in {1971, 1972} : Returns([method |-> "toPlainDate"], PlainMonthDayToDate(object, n))
        BY <3>4
      <4>2. AllFine(PlainMonthDayToDate(object, n))
        BY <2>0, <3>4, CombinedIsFine
      <4> QED
        BY <4>1, <4>2, Returned
    <3> QED
      BY <2>16, <3>1, <3>2, <3>3, <3>4 DEF Combine, HasType
  <2>17. CASE ReadDate
    <3>1. Returns([method |-> "getters"], {DateGetters(d) : d \in ToTemporalDate(object)})
      BY <2>17 DEF ReadDate
    <3> QED
      BY <3>1, ReturnedOther
  <2>18. CASE CompareWith
    <3>1. PICK y \in Others : Returns([method |-> "compare", other |-> y], {Compare(object, y)})
      BY <2>18 DEF CompareWith
    <3> QED
      BY <3>1, ReturnedOther
  <2>19. CASE RoundSpan
    <3>1. PICK r \in RelativeTos, largest \in AskedUnits \cup {"none", "auto"},
               smallest \in AskedUnits \cup {"none"}, increment \in Increments, mode \in AskedModes :
             /\ HasType({"Duration"})
             /\ increment = 1 \/ smallest # "none"
             /\ Returns([method |-> "round span", relativeTo |-> r, smallest |-> smallest,
                         increment |-> increment, largest |-> largest],
                        UNION {roundDuration(object, [largest |-> largest, smallest |-> smallest,
                                                      increment |-> increment, mode |-> mode], start) :
                                  start \in ToRelativeTemporalObject(r)})
      BY <2>19 DEF RoundSpan
    <3> DEFINE A(start) == roundDuration(object, [largest |-> largest, smallest |-> smallest,
                                                  increment |-> increment, mode |-> mode], start)
    <3>2. \A start : AllFine(A(start))
      BY RoundedSpanIsFine
    <3> HIDE DEF A
    <3>3. AllFine(UNION {A(start) : start \in ToRelativeTemporalObject(r)})
      BY <3>2 DEF AllFine
    <3> QED
      BY <3>1, <3>3, Returned DEF A
  <2>20. CASE TotalOfSpan
    <3>1. PICK r \in RelativeTos, unit \in AskedUnits :
             Returns([method |-> "total", relativeTo |-> r, unit |-> unit],
                     UNION {total(object, unit, start) : start \in ToRelativeTemporalObject(r)})
      BY <2>20 DEF TotalOfSpan
    <3> QED
      BY <3>1, ReturnedOther
  <2>21. CASE AddSpans
    <3>1. PICK op \in {"add span", "subtract span"}, dur \in Spans, r \in RelativeTos :
             Returns([method |-> op, span |-> Signed(op, dur), relativeTo |-> r],
                     AddToDuration(object, Signed(op, dur), r))
      BY <2>21 DEF AddSpans
    <3> QED
      BY <3>1, AddedSpanIsFine, Returned
  <2>22. CASE CompareSpans
    <3>1. PICK dur \in Spans, r \in RelativeTos :
             Returns([method |-> "compare spans", span |-> dur, relativeTo |-> r],
                     UNION {CompareDurations(object, dur, start) : start \in ToRelativeTemporalObject(r)})
      BY <2>22 DEF CompareSpans
    <3> QED
      BY <3>1, ReturnedOther
  <2>23. CASE ChangeSpan
    <3>1. CASE Returns([method |-> "negated"], negated(object))
      BY <3>1, ChangedSpanIsFine, Returned
    <3>2. CASE Returns([method |-> "abs"], abs(object))
      BY <3>2, ChangedSpanIsFine, Returned
    <3>3. CASE \E n \in {-1, 1} : Returns([method |-> "with"], withParts(object, [days |-> n], <<>>))
      BY <3>3, ChangedSpanIsFine, Returned
    <3> QED
      BY <2>23, <3>1, <3>2, <3>3 DEF ChangeSpan
  <2>24. CASE Keep
    BY <2>24 DEF Keep, ObjectsFine, AllFine, AnswersWithObject, NoCall
  <2>25. CASE Drop
    BY <2>25 DEF Drop, ObjectsFine, AllFine, AnswersWithObject, NoCall
  <2>26. CASE UNCHANGED vars
    BY <2>26 DEF vars, ObjectsFine, AnswersWithObject
  <2> QED
    BY <2>1, <2>2, <2>3, <2>4, <2>5, <2>6, <2>7, <2>8, <2>9, <2>10, <2>11, <2>12, <2>13, <2>14, <2>15, <2>16,
       <2>17, <2>18, <2>19, <2>20, <2>21, <2>22, <2>23, <2>24, <2>25, <2>26, Zenon DEF Next
<1> QED
  BY <1>1, <1>2, PTL DEF Spec

-----------------------------------------------------------------------------
(* The calls that three properties are about. *)

(* A call is recorded as it was made. *)
LEMMA CallIs ==
  ASSUME NEW c, NEW results, Returns(c, results)
  PROVE  call' = c
BY DEF Returns

(* The calls that the properties below are about are told by their names. *)
LEMMA MethodsAre ==
  ASSUME Next
  PROVE  /\ call'.method = "round" => RoundTo
         /\ call'.method = "getters" => ReadDate
         /\ call'.method \in {"add", "subtract"} => AddOrSubtract
<1> DEFINE Other == call'.method \notin {"round", "getters", "add", "subtract"}
<1>1. CASE UntilOrSince
  <2>1. Other
    BY <1>1 DEF UntilOrSince, Returns
  <2> QED
    BY <2>1
<1>2. CASE WithFields
  <2>1. call' = [method |-> "with"]
    BY <1>2, CallIs DEF WithFields
  <2> QED
    BY <2>1
<1>16. CASE ZonedWithFields
  <2>1. PICK option :
           call' = [method |-> "zoned with", option |-> option]
    BY <1>16, CallIs DEF ZonedWithFields
  <2>2. call'.method = "zoned with"
    BY <2>1
  <2>3. Other
    BY <2>2
  <2> QED
    BY <2>3
<1>17. CASE FromFields
  <2>1. PICK z, option :
           call' = [method |-> "from", zone |-> z, option |-> option]
    BY <1>17, CallIs DEF FromFields
  <2>2. call'.method = "from"
    BY <2>1
  <2>3. Other
    BY <2>2
  <2> QED
    BY <2>3
<1>3. CASE ReplaceDate \/ ReplaceTime \/ ReplaceZone
  <2>1. Other
    BY <1>3 DEF ReplaceDate, ReplaceTime, ReplaceZone, Returns
  <2> QED
    BY <2>1
<1>4. CASE StartOfDay \/ HoursInDay \/ PossibleInstants
  <2>1. Other
    BY <1>4 DEF StartOfDay, HoursInDay, PossibleInstants, Returns
  <2> QED
    BY <2>1
<1>5. CASE ToZone \/ ShowInstant
  <2>1. Other
    BY <1>5 DEF ToZone, ShowInstant, Returns
  <2> QED
    BY <2>1
<1>6. CASE Convert
  <2>1. Other
    BY <1>6 DEF Convert, Returns
  <2> QED
    BY <2>1
<1>7. CASE Combine
  <2>1. Other
    BY <1>7 DEF Combine, Returns
  <2> QED
    BY <2>1
<1>8. CASE CompareWith
  <2>1. PICK y :
           call' = [method |-> "compare", other |-> y]
    BY <1>8, CallIs DEF CompareWith
  <2>2. call'.method = "compare"
    BY <2>1
  <2>3. Other
    BY <2>2
  <2> QED
    BY <2>3
<1>18. CASE TotalOfSpan
  <2>1. PICK r, unit :
           call' = [method |-> "total", relativeTo |-> r, unit |-> unit]
    BY <1>18, CallIs DEF TotalOfSpan
  <2>2. call'.method = "total"
    BY <2>1
  <2>3. Other
    BY <2>2
  <2> QED
    BY <2>3
<1>19. CASE CompareSpans
  <2>1. PICK dur, r :
           call' = [method |-> "compare spans", span |-> dur, relativeTo |-> r]
    BY <1>19, CallIs DEF CompareSpans
  <2>2. call'.method = "compare spans"
    BY <2>1
  <2>3. Other
    BY <2>2
  <2> QED
    BY <2>3
<1>9. CASE RoundSpan
  <2>1. PICK r, smallest, increment, largest :
           call' = [method |-> "round span", relativeTo |-> r, smallest |-> smallest,
                    increment |-> increment, largest |-> largest]
    BY <1>9, CallIs DEF RoundSpan
  <2>2. call'.method = "round span"
    BY <2>1
  <2>3. Other
    BY <2>2
  <2> QED
    BY <2>3
<1>10. CASE AddSpans
  <2>1. PICK op \in {"add span", "subtract span"}, dur \in Spans, r \in RelativeTos :
           call' = [method |-> op, span |-> Signed(op, dur), relativeTo |-> r]
    BY <1>10, CallIs DEF AddSpans
  <2>2. call'.method \in {"add span", "subtract span"}
    BY <2>1
  <2>3. Other
    BY <2>2
  <2> QED
    BY <2>3
<1>11. CASE ChangeSpan
  <2>1. Other
    BY <1>11 DEF ChangeSpan, Returns
  <2> QED
    BY <2>1
<1>12. CASE Keep \/ Drop
  <2>1. Other
    BY <1>12 DEF Keep, Drop, NoCall
  <2> QED
    BY <2>1
<1>13. CASE AddOrSubtract
  <2>1. call'.method \in {"add", "subtract"}
    BY <1>13 DEF AddOrSubtract, Returns
  <2> QED
    BY <1>13, <2>1
<1>14. CASE RoundTo
  <2>1. call'.method = "round"
    BY <1>14 DEF RoundTo, Returns
  <2> QED
    BY <1>14, <2>1
<1>15. CASE ReadDate
  <2>1. call'.method = "getters"
    BY <1>15 DEF ReadDate, Returns
  <2> QED
    BY <1>15, <2>1
<1> QED
  BY <1>1, <1>2, <1>3, <1>4, <1>5, <1>6, <1>7, <1>8, <1>9, <1>10, <1>11, <1>12, <1>13, <1>14, <1>15, <1>16, <1>17,
     <1>18, <1>19, Zenon DEF Next

(* round returns the multiple of the increment that the mode asks for
   (RoundNumberToIncrement, RoundTime, RoundISODateTime), for every object that
   a program can come to hold, every unit, increment and mode. *)
THEOREM RoundsToGrid == Spec => []RoundedToGrid
<1>1. Init => RoundedToGrid
  BY DEF Init, NoCall, RoundedToGrid
<1>2. ASSUME ObjectsFine, RoundedToGrid, [Next]_vars
      PROVE  RoundedToGrid'
  <2>1. CASE UNCHANGED vars
    BY <1>2, <2>1 DEF vars, RoundedToGrid, HasType
  <2>2. CASE Next /\ call'.method # "round"
    BY <2>2 DEF RoundedToGrid
  <2>3. CASE Next /\ call'.method = "round"
    <3>1. RoundTo
      BY <2>3, MethodsAre
    <3>2. PICK unit \in AskedUnits, increment \in Increments, mode \in RoundingModes :
             /\ object.type \in {"Instant", "PlainTime", "PlainDateTime", "ZonedDateTime"}
             /\ Returns([method |-> "round", unit |-> unit, increment |-> increment, mode |-> mode],
                        Round(object, increment, unit, mode))
      BY <3>1 DEF RoundTo, HasType
    <3>3. object' = object /\ answer' = Round(object, increment, unit, mode)
          /\ call' = [method |-> "round", unit |-> unit, increment |-> increment, mode |-> mode]
      BY <3>2 DEF Returns
    <3>4. call'.unit = unit /\ call'.increment = increment /\ call'.mode = mode
      BY <3>3
    <3>5. ASSUME object.type \in {"Instant", "PlainTime", "PlainDateTime"}
          PROVE  \A r \in answer' : OnGrid(object, r, unit, increment, mode)
      BY <1>2, <3>3, <3>5, InstantRounded, PlainTimeRounded, PlainDateTimeRounded DEF ObjectsFine
    <3> QED
      BY <3>3, <3>4, <3>5, Zenon DEF RoundedToGrid, OnGrid, HasType
  <2> QED
    BY <1>2, <2>1, <2>2, <2>3
<1> QED
  BY <1>1, <1>2, SpecFine, PTL DEF Spec

-----------------------------------------------------------------------------
(* The days of a year. *)

(* The years of the host have as many days as DaysInYear says. *)
LEMMA YearStart ==
  ASSUME NEW y \in Int
  PROVE  /\ HostDays(y, 1, 1) = MonthStart(12 * y) /\ HostDays(y, 1, 1) \in Int
         /\ HostDays(y + 1, 1, 1) = HostDays(y, 1, 1) + DaysInYear(y)
<1>1. 12 * y + 1 - 1 = 12 * y /\ 12 * (y + 1) + 1 - 1 = 12 * y + 12 /\ 12 * y \in Int /\ y + 1 \in Int
  OBVIOUS
<1>2. HostDays(y, 1, 1) = MonthStart(12 * y) + 1 - 1
  BY <1>1, MonthStartOfDate
<1>3. HostDays(y + 1, 1, 1) = MonthStart(12 * y + 12) + 1 - 1
  BY <1>1, MonthStartOfDate
<1>4. MonthStart(12 * y) \in Int /\ MonthStart(12 * y + 12) \in Int
  BY <1>1, MonthStartNext
<1>5. MonthStart(12 * y + 12) = MonthStart(12 * y) + DaysInYear(YearOf(12 * y + 10))
  BY <1>1, MonthStartNextYear
<1>6. YearOf(12 * y + 10) = y
  BY DEF YearOf
<1> QED
  BY <1>2, <1>3, <1>4, <1>5, <1>6

(* dayOfYear adds up the months before, as the host counts days. *)
LEMMA DayOfYearIs ==
  ASSUME NEW d \in GoodDates
  PROVE  /\ DayOfYear(d) = HostDay(d) - HostDays(d.year, 1, 1) + 1
         /\ HostDay(d) \in Int /\ HostDays(d.year, 1, 1) \in Int
         /\ DayOfYear(d) \in 1 .. DaysInYear(d.year)
<1> DEFINE y == d.year
           S(i) == MonthStart(12 * y + i)
           g == [i \in 0 .. 12 |-> S(i) - S(0)]
           IsLength(f) == f = [i \in 0 .. 12 |-> IF i = 0 THEN 0 ELSE f[i - 1] + ISODaysInMonth(y, i)]
           m == d.month
<1>1. y \in Int /\ m \in 1 .. 12 /\ d.day \in Int /\ d.day >= 1 /\ d.day <= ISODaysInMonth(y, m)
  BY Types DEF GoodDates, Dates
<1>2. \A i \in 0 .. 12 : S(i) \in Int
  <2>1. \A i \in 0 .. 12 : 12 * y + i \in Int
    BY <1>1
  <2> QED
    BY <2>1, MonthStartNext
<1>3. \A i \in 1 .. 12 : S(i) = S(i - 1) + ISODaysInMonth(y, i) /\ ISODaysInMonth(y, i) \in 28 .. 31
  <2> SUFFICES ASSUME NEW i \in 1 .. 12
               PROVE  S(i) = S(i - 1) + ISODaysInMonth(y, i) /\ ISODaysInMonth(y, i) \in 28 .. 31
    OBVIOUS
  <2>1. 12 * y + (i - 1) \in Int /\ (12 * y + (i - 1)) + 1 = 12 * y + i
    BY <1>1
  <2>2. MonthLength(12 * y + (i - 1)) = ISODaysInMonth(y, i)
    BY <1>1 DEF MonthLength, YearOf, MonthOf
  <2> QED
    BY <1>1, <2>1, <2>2, MonthStartNext, Types
<1> HIDE DEF S
<1>4. IsLength(g)
  <2>1. \A i \in 0 .. 12 : g[i] = IF i = 0 THEN 0 ELSE g[i - 1] + ISODaysInMonth(y, i)
    <3> SUFFICES ASSUME NEW i \in 0 .. 12
                 PROVE  g[i] = IF i = 0 THEN 0 ELSE g[i - 1] + ISODaysInMonth(y, i)
      OBVIOUS
    <3>1. CASE i = 0
      BY <1>2, <3>1
    <3>2. CASE i # 0
      <4>1. i \in 1 .. 12 /\ i - 1 \in 0 .. 12
        BY <3>2
      <4>2. S(i) = S(i - 1) + ISODaysInMonth(y, i) /\ ISODaysInMonth(y, i) \in Int
        BY <1>3, <4>1
      <4>3. S(i) \in Int /\ S(i - 1) \in Int /\ S(0) \in Int
        BY <1>2, <4>1
      <4>4. g[i] = S(i) - S(0) /\ g[i - 1] = S(i - 1) - S(0)
        BY <4>1
      <4> QED
        BY <3>2, <4>2, <4>3, <4>4
    <3> QED
      BY <3>1, <3>2
  <2>2. g = [i \in 0 .. 12 |-> g[i]]
    OBVIOUS
  <2> HIDE DEF g
  <2> QED
    BY <2>1, <2>2
<1>5. ASSUME NEW f, IsLength(f)
      PROVE  \A i \in 0 .. 12 : f[i] = S(i) - S(0)
  <2>1. f[0] = 0 /\ \A i \in 1 .. 12 : f[i] = f[i - 1] + ISODaysInMonth(y, i)
    BY <1>5
  <2> DEFINE P(i) == f[i] = S(i) - S(0)
  <2>2. P(0)
    BY <1>2, <2>1
  <2>3. \A i \in 1 .. 12 : P(i - 1) => P(i)
    <3> SUFFICES ASSUME NEW i \in 1 .. 12, P(i - 1)
                 PROVE  P(i)
      OBVIOUS
    <3>1. f[i] = f[i - 1] + ISODaysInMonth(y, i)
      BY <2>1
    <3>2. S(i) = S(i - 1) + ISODaysInMonth(y, i) /\ ISODaysInMonth(y, i) \in Int
      BY <1>3
    <3>3. S(i) \in Int /\ S(i - 1) \in Int /\ S(0) \in Int
      BY <1>2
    <3> QED
      BY <3>1, <3>2, <3>3
  <2> HIDE DEF P
  <2>4. P(0) /\ P(1) /\ P(2) /\ P(3) /\ P(4) /\ P(5) /\ P(6)
    BY <2>2, <2>3
  <2>5. P(7) /\ P(8) /\ P(9) /\ P(10) /\ P(11) /\ P(12)
    BY <2>3, <2>4
  <2>6. \A i \in 0 .. 12 : i = 0 \/ i = 1 \/ i = 2 \/ i = 3 \/ i = 4 \/ i = 5 \/ i = 6 \/ i = 7 \/ i = 8
                             \/ i = 9 \/ i = 10 \/ i = 11 \/ i = 12
    OBVIOUS
  <2>7. \A i \in 0 .. 12 : P(i)
    BY <2>4, <2>5, <2>6
  <2> QED
    BY <2>7 DEF P
<1>6. MonthsLength(y, m - 1) = S(m - 1) - S(0)
  <2> DEFINE f == CHOOSE h : IsLength(h)
  <2>1. IsLength(f)
    BY <1>4
  <2>2. MonthsLength(y, m - 1) = f[m - 1]
    BY DEF MonthsLength
  <2>3. m - 1 \in 0 .. 12
    BY <1>1
  <2> HIDE DEF f, IsLength
  <2> QED
    BY <1>5, <2>1, <2>2, <2>3
<1>7. HostDay(d) = S(m - 1) + d.day - 1
  <2>1. HostDay(d) = MonthStart(12 * y + m - 1) + d.day - 1
    BY <1>1, MonthStartOfDate DEF HostDay
  <2>2. 12 * y + m - 1 = 12 * y + (m - 1)
    BY <1>1
  <2> QED
    BY <2>1, <2>2 DEF S
<1>8. HostDays(y, 1, 1) = S(0) /\ S(0) \in Int
  <2>1. 12 * y + 0 = 12 * y
    BY <1>1
  <2> QED
    BY <1>1, <1>2, <2>1, YearStart DEF S
<1>9. S(m - 1) \in Int
  BY <1>1, <1>2
<1>10. S(m - 1) >= S(0) /\ S(m) <= S(12)
  <2>1. S(0) <= S(1) /\ S(1) <= S(2) /\ S(2) <= S(3) /\ S(3) <= S(4) /\ S(4) <= S(5) /\ S(5) <= S(6)
    BY <1>2, <1>3
  <2>2. S(6) <= S(7) /\ S(7) <= S(8) /\ S(8) <= S(9) /\ S(9) <= S(10) /\ S(10) <= S(11) /\ S(11) <= S(12)
    BY <1>2, <1>3
  <2> QED
    BY <1>1, <1>2, <2>1, <2>2
<1>11. S(12) = S(0) + DaysInYear(y)
  <2>1. S(12) = HostDays(y + 1, 1, 1)
    <3>1. y + 1 \in Int /\ 12 * (y + 1) = 12 * y + 12
      BY <1>1
    <3> QED
      BY <3>1, YearStart DEF S
  <2> QED
    BY <1>1, <1>8, <2>1, YearStart
<1>12. S(m) = S(m - 1) + ISODaysInMonth(y, m)
  BY <1>1, <1>3
<1>13. DayOfYear(d) = d.day + (S(m - 1) - S(0))
  BY <1>6 DEF DayOfYear
<1>14. DaysInYear(y) \in Int /\ ISODaysInMonth(y, m) \in Int
  BY <1>1, Types
<1> QED
  BY <1>1, <1>7, <1>8, <1>9, <1>10, <1>11, <1>12, <1>13, <1>14

-----------------------------------------------------------------------------
(* The host's date of a day. *)

(* The k-th day of the e-th year of the b-th four years of the a-th century of a cycle, all from 0. *)
InCycle(n, a, b, e, k) ==
  /\ a \in 0 .. 3 /\ b \in 0 .. 24 /\ e \in 0 .. 3
  /\ k \in Int /\ 0 <= k /\ k <= 365 /\ (k = 365 => e = 3 /\ (b = 24 => a = 3))
  /\ n = 36524 * a + 1461 * b + 365 * e + k

LEMMA DayInCycle ==
  ASSUME NEW n \in Int, 0 <= n, n <= 146096
  PROVE  \E a, b, e, k : InCycle(n, a, b, e, k)
<1>1. PICK a \in 0 .. 3, r \in Int : n = 36524 * a + r /\ 0 <= r /\ r <= 36524 /\ (r = 36524 => a = 3)
  <2>1. CASE n < 36524
    <3>1. n = 36524 * 0 + n
      BY SMT
    <3> QED
      BY <2>1, <3>1, SMT
  <2>2. CASE 36524 <= n /\ n < 73048
    <3>1. n = 36524 * 1 + (n - 36524) /\ 0 <= n - 36524 /\ n - 36524 < 36524
      BY <2>2, SMT
    <3> QED
      BY <3>1, SMT
  <2>3. CASE 73048 <= n /\ n < 109572
    <3>1. n = 36524 * 2 + (n - 73048) /\ 0 <= n - 73048 /\ n - 73048 < 36524
      BY <2>3, SMT
    <3> QED
      BY <3>1, SMT
  <2>4. CASE 109572 <= n
    <3>1. n = 36524 * 3 + (n - 109572) /\ 0 <= n - 109572 /\ n - 109572 <= 36524
      BY <2>4, SMT
    <3> QED
      BY <3>1, SMT
  <2> QED
    BY <2>1, <2>2, <2>3, <2>4, SMT
<1>2. PICK b \in 0 .. 24, q \in Int : r = 1461 * b + q /\ 0 <= q /\ q <= 1460
  <2>1. r = 1461 * (r \div 1461) + (r % 1461) /\ r \div 1461 \in 0 .. 24
        /\ r % 1461 \in Int /\ 0 <= r % 1461 /\ r % 1461 <= 1460
    BY <1>1, SMT
  <2> QED
    BY <2>1, SMT
<1>3. PICK e \in 0 .. 3, k \in Int : q = 365 * e + k /\ (k = 365 => e = 3) /\ 0 <= k /\ k <= 365
  <2>1. CASE q < 1095
    <3>1. q = 365 * (q \div 365) + (q % 365) /\ q \div 365 \in 0 .. 3
          /\ q % 365 \in Int /\ 0 <= q % 365 /\ q % 365 < 365
      BY <1>2, <2>1, SMT
    <3> QED
      BY <3>1, SMT
  <2>2. CASE q >= 1095
    <3>1. q = 365 * 3 + (q - 1095) /\ 0 <= q - 1095 /\ q - 1095 <= 365
      BY <1>2, <2>2, SMT
    <3> QED
      BY <3>1, SMT
  <2> QED
    BY <1>2, <2>1, <2>2, SMT
<1>4. n = 36524 * a + 1461 * b + 365 * e + k /\ (k = 365 /\ b = 24 => a = 3)
  BY <1>1, <1>2, <1>3, SMT
<1>5. InCycle(n, a, b, e, k)
  BY <1>1, <1>2, <1>3, <1>4, SMT DEF InCycle
<1> QED
  BY <1>5, SMT

(* The year that the host's formula finds for the day. *)
LEMMA YearInCycle ==
  ASSUME NEW n \in Int, NEW a, NEW b, NEW e, NEW k, InCycle(n, a, b, e, k), n <= 146096
  PROVE  (n - n \div 1460 + n \div 36524 - n \div 146096) \div 365 = 100 * a + 4 * b + e
<1>1. a \in 0 .. 3 /\ b \in 0 .. 24 /\ e \in 0 .. 3 /\ k \in Int /\ 0 <= k /\ k <= 365 /\ (k = 365 => e = 3 /\ (b = 24 => a = 3))
  BY SMT DEF InCycle
<1>2. n = 36524 * a + 1461 * b + 365 * e + k
  BY SMT DEF InCycle
<1> DEFINE r == 24 * a + b + 365 * e + k
           l == IF r >= 1460 THEN 1 ELSE 0
<1>3. n \div 1460 = 25 * a + b + l
  <2>1. n = 1460 * (25 * a + b) + r /\ 0 <= r /\ r <= 2919
    BY <1>1, <1>2, SMT
  <2>2. n = 1460 * (25 * a + b + l) + (r - 1460 * l) /\ 0 <= r - 1460 * l /\ r - 1460 * l <= 1459
        /\ 25 * a + b + l \in Int /\ r - 1460 * l \in Int
    BY <1>1, <2>1, SMT
  <2>3. \A q, p \in Int : 0 <= p /\ p <= 1459 => (1460 * q + p) \div 1460 = q
    BY SMT
  <2> HIDE DEF l, r
  <2> QED
    BY <2>2, <2>3, SMT
<1>4. n \div 36524 - n \div 146096 = a
  <2>1. CASE n = 146096
    <3>1. n \div 36524 = 4 /\ n \div 146096 = 1
      BY <2>1, SMT
    <3>2. a = 3
      BY <1>1, <1>2, <2>1, SMT
    <3> QED
      BY <3>1, <3>2, SMT
  <2>2. CASE n < 146096
    <3>1. n \div 146096 = 0
      BY <1>1, <1>2, <2>2, SMT
    <3>2. 0 <= 1461 * b + 365 * e + k /\ 1461 * b + 365 * e + k < 36524
      <4>1. CASE k = 365 /\ b = 24
        BY <1>1, <1>2, <2>2, <4>1, SMT
      <4>2. CASE k < 365 /\ b = 24
        BY <1>1, <4>2, SMT
      <4>3. CASE b <= 23
        BY <1>1, <4>3, SMT
      <4> QED
        BY <1>1, <4>1, <4>2, <4>3, SMT
    <3>3. n \div 36524 = a
      BY <1>1, <1>2, <3>2, SMT
    <3> QED
      BY <1>1, <3>1, <3>3, SMT
  <2> QED
    BY <1>1, <1>2, <2>1, <2>2, SMT
<1>5. 0 <= k - l /\ k - l <= 364 /\ l \in {0, 1}
  BY <1>1, SMT
<1>6. n - n \div 1460 + n \div 36524 - n \div 146096 = 365 * (100 * a + 4 * b + e) + (k - l)
  <2>1. n \div 1460 \in Int /\ n \div 36524 \in Int /\ n \div 146096 \in Int
    BY SMT
  <2> HIDE DEF l
  <2> QED
    BY <1>1, <1>2, <1>3, <1>4, <1>5, <2>1, SMT
<1>7. 100 * a + 4 * b + e \in Int /\ k - l \in Int
  BY <1>1, SMT
<1>8. \A q, p \in Int : 0 <= p /\ p <= 364 => (365 * q + p) \div 365 = q
  BY SMT
<1> HIDE DEF l
<1> QED
  BY <1>5, <1>6, <1>7, <1>8, SMT

(* The years of a cycle before the day's have as many days as come before the day's year. *)
LEMMA DaysInCycle ==
  ASSUME NEW a \in 0 .. 3, NEW b \in 0 .. 24, NEW e \in 0 .. 3
  PROVE  LET y == 100 * a + 4 * b + e
         IN  365 * y + y \div 4 - y \div 100 = 36524 * a + 1461 * b + 365 * e
<1> DEFINE y == 100 * a + 4 * b + e
<1>1. y \div 4 = 25 * a + b
  BY SMT
<1>2. y \div 100 = a
  BY SMT
<1> QED
  BY <1>1, <1>2, SMT

LEMMA HostDayInYearIs ==
  ASSUME NEW y \in Int, NEW k \in Int, 0 <= k, k <= 365
  PROVE  /\ HostDay(HostDayInYear(y, k)) = MarchStart(y) + k - 719468
         /\ HostDayInYear(y, k).year = IF k >= 306 THEN y + 1 ELSE y
<1> DEFINE m == (5 * k + 2) \div 153
           month == ((m + 2) % 12) + 1
           year == IF m >= 10 THEN y + 1 ELSE y
           q == (153 * m + 2) \div 5
           t == HostDayInYear(y, k)
<1>1. m \in 0 .. 11 /\ (m >= 10 <=> k >= 306)
  BY SMT
<1>2. t = Date(year, month, k - q + 1)
  BY SMT DEF HostDayInYear, HostMonthDay
<1>3. (month + 9) % 12 = m /\ (month <= 2 <=> m >= 10)
  <2> HIDE DEF m
  <2> QED
    BY <1>1, SMT
<1> HIDE DEF m, month, t
<1>4. q \in Int /\ year \in Int
  BY <1>1, SMT
<1>5. t.year = year /\ t.month = month /\ t.day = k - q + 1
  BY <1>2, SMT DEF Date
<1>6. HostDay(t) = HostDays(year, month, k - q + 1)
  BY <1>5, SMT DEF HostDay
<1>7. (IF month <= 2 THEN year - 1 ELSE year) = y
  BY <1>1, <1>3, SMT
<1>8. HostDays(year, month, k - q + 1) = MarchStart(y) + q + (k - q + 1) - 719469
  <2> HIDE DEF year
  <2>1. HostDays(year, month, k - q + 1) = MarchStart(y) + (153 * ((month + 9) % 12) + 2) \div 5 + (k - q + 1) - 719469
    BY <1>7, SMT DEF HostDays, MarchStart
  <2> QED
    BY <1>3, <2>1, SMT
<1>9. MarchStart(y) \in Int
  BY MarchStartNext
<1> HIDE DEF q
<1>10. HostDay(t) = MarchStart(y) + k - 719468
  BY <1>4, <1>6, <1>8, <1>9, SMT
<1> QED
  BY <1>1, <1>5, <1>10, SMT DEF t

LEMMA CycleStart ==
  ASSUME NEW a \in 0 .. 3, NEW b \in 0 .. 24, NEW e \in 0 .. 3, NEW c \in Int
  PROVE  MarchStart(100 * a + 4 * b + e + 400 * c) = 146097 * c + 36524 * a + 1461 * b + 365 * e
<1> DEFINE y == 100 * a + 4 * b + e + 400 * c
<1>1. y \div 4 = 25 * a + b + 100 * c
  BY SMT
<1>2. y \div 100 = a + 4 * c
  BY SMT
<1>3. y \div 400 = c
  BY SMT
<1> QED
  BY <1>1, <1>2, <1>3, SMT DEF MarchStart

(* The host's date of a day is on that day, and the day is in its year. *)
LEMMA HostDateIsOnDay ==
  ASSUME NEW days \in Int
  PROVE  LET y == HostDate(days).year
         IN  /\ y \in Int
             /\ HostDay(HostDate(days)) = days
             /\ HostDays(y, 1, 1) <= days /\ days < HostDays(y + 1, 1, 1)
<1> DEFINE n == (days + 719468) % 146097
           c == (days + 719468) \div 146097
           t == HostDate(days)
<1>1. n \in Int /\ 0 <= n /\ n <= 146096 /\ c \in Int /\ days + 719468 = 146097 * c + n
  BY SMT
<1>2. HostDate(days) = HostDayInCycle(c, (n - n \div 1460 + n \div 36524 - n \div 146096) \div 365, n)
  BY SMT DEF HostDate
<1> HIDE DEF n, c
<1>3. PICK a, b, e, k : InCycle(n, a, b, e, k)
  BY <1>1, DayInCycle, SMT
<1>4. a \in 0 .. 3 /\ b \in 0 .. 24 /\ e \in 0 .. 3 /\ k \in Int /\ 0 <= k /\ k <= 365
      /\ n = 36524 * a + 1461 * b + 365 * e + k
  BY <1>3, SMT DEF InCycle
<1> DEFINE w == 100 * a + 4 * b + e
           y == w + 400 * c
<1>5. w \in Int /\ y \in Int
  BY <1>1, <1>4, SMT
<1>6. t = HostDayInYear(y, k)
  <2>1. (n - n \div 1460 + n \div 36524 - n \div 146096) \div 365 = w
    BY <1>1, <1>3, YearInCycle, SMT
  <2>2. t = HostDayInCycle(c, w, n)
    BY <1>2, <2>1, SMT
  <2>3. 365 * w + w \div 4 - w \div 100 = 36524 * a + 1461 * b + 365 * e
    BY <1>4, DaysInCycle, SMT
  <2> HIDE DEF w
  <2>4. n - (365 * w + w \div 4 - w \div 100) = k
    BY <1>4, <2>3, SMT
  <2> QED
    BY <2>2, <2>4, SMT DEF HostDayInCycle
<1>7. days + 719468 = MarchStart(y) + k
  <2>1. MarchStart(y) = 146097 * c + 36524 * a + 1461 * b + 365 * e
    BY <1>1, <1>4, CycleStart, SMTT(60)
  <2> HIDE DEF y
  <2> QED
    BY <1>1, <1>4, <2>1, SMT
<1> HIDE DEF y, w, t
<1>8. MarchStart(y) \in Int /\ MarchStart(y - 1) \in Int /\ MarchStart(y + 1) \in Int
      /\ MarchStart(y) = MarchStart(y - 1) + DaysInYear(y) /\ MarchStart(y + 1) = MarchStart(y) + DaysInYear(y + 1)
  <2>1. y + 1 \in Int /\ y - 1 \in Int /\ (y + 1) - 1 = y
    BY <1>5, SMT
  <2> QED
    BY <1>5, <2>1, MarchStartNext, SMT
<1>9. DaysInYear(y) \in {365, 366} /\ DaysInYear(y + 1) \in {365, 366}
  BY <1>5, Types, SMT
<1>10. HostDay(t) = MarchStart(y) + k - 719468 /\ t.year = IF k >= 306 THEN y + 1 ELSE y
  BY <1>4, <1>5, <1>6, HostDayInYearIs, SMT
<1>11. HostDay(t) = days
  BY <1>7, <1>8, <1>10, <1>4, SMT
<1>12. \A x \in Int : HostDays(x, 1, 1) = MarchStart(x - 1) + 306 - 719468
  <2> SUFFICES ASSUME NEW x \in Int
               PROVE  HostDays(x, 1, 1) = MarchStart(x - 1) + 306 - 719468
    OBVIOUS
  <2>1. 1 \in 1 .. 12 /\ 1 <= 2
    BY SMT
  <2> QED
    BY <2>1, HostDaysByMarch, SMT
<1>13. CASE k >= 306
  <2>1. t.year = y + 1 /\ y + 1 \in Int /\ y + 2 \in Int /\ (y + 1) + 1 = y + 2 /\ (y + 2) - 1 = y + 1 /\ (y + 1) - 1 = y
    BY <1>5, <1>10, <1>13, SMT
  <2>2. HostDays(y + 1, 1, 1) = MarchStart(y) + 306 - 719468 /\ HostDays(y + 2, 1, 1) = MarchStart(y + 1) + 306 - 719468
    BY <1>12, <2>1, SMT
  <2>3. HostDays(y + 1, 1, 1) <= days /\ days < HostDays(y + 2, 1, 1)
    BY <1>4, <1>7, <1>8, <1>9, <1>13, <2>2, SMT
  <2> QED
    BY <1>11, <2>1, <2>3, SMT DEF t
<1>14. CASE k < 306
  <2>1. t.year = y /\ y + 1 \in Int /\ (y + 1) - 1 = y
    BY <1>4, <1>5, <1>10, <1>14, SMT
  <2>2. HostDays(y, 1, 1) = MarchStart(y - 1) + 306 - 719468 /\ HostDays(y + 1, 1, 1) = MarchStart(y) + 306 - 719468
    BY <1>5, <1>12, <2>1, SMT
  <2>3. HostDays(y, 1, 1) <= days /\ days < HostDays(y + 1, 1, 1)
    BY <1>4, <1>7, <1>8, <1>9, <1>14, <2>2, SMT
  <2> QED
    BY <1>5, <1>11, <2>1, <2>3, SMT DEF t
<1> QED
  BY <1>4, <1>13, <1>14, SMT

-----------------------------------------------------------------------------
(* Days of the week. *)

FourMore(z, h, w) == z = h + 4 + 7 * w

(* A remainder with the sign of the dividend, made one of 1 to 7. *)
LEMMA OneToSeven ==
  ASSUME NEW z \in Int, NEW h \in Int, NEW w \in Int, FourMore(z, h, w)
  PROVE  Rem(z, 7) + (IF Rem(z, 7) <= 0 THEN 7 ELSE 0) = ((h + 3) % 7) + 1
<1>1. (z - 1) % 7 = (h + 3) % 7
  <2>1. z - 1 = (h + 3) + 7 * w
    BY SMT DEF FourMore
  <2> QED
    BY <2>1, SMT
<1>2. CASE z > 0
  <2>1. Rem(z, 7) = z % 7
    BY <1>2, SMT DEF Rem, Sign, Magnitude
  <2>2. (z % 7) + (IF z % 7 <= 0 THEN 7 ELSE 0) = ((z - 1) % 7) + 1
    BY SMT
  <2> QED
    BY <1>1, <2>1, <2>2, SMT
<1>3. CASE z <= 0
  <2> DEFINE r == (-z) % 7
  <2>1. Rem(z, 7) = -r /\ r \in 0 .. 6
    BY <1>3, SMT DEF Rem, Sign, Magnitude
  <2>2. (IF r = 0 THEN 6 ELSE 6 - r) = (z - 1) % 7
    BY SMT
  <2> HIDE DEF r
  <2>3. (z - 1) % 7 \in Int
    BY SMT
  <2> QED
    BY <1>1, <2>1, <2>2, <2>3, SMT
<1> QED
  BY <1>2, <1>3, SMT

(* DayOfWeek, by Zeller's rule, follows the host's day count. *)
LEMMA DayOfWeekIs ==
  ASSUME NEW d \in GoodDates
  PROVE  /\ DayOfWeek(d) = ((HostDay(d) + 3) % 7) + 1
         /\ DayOfWeek(d) \in 1 .. 7
<1> DEFINE x == d.month < 3
           o == d.month + (IF x THEN 10 ELSE -2)
           n == d.year - (IF x THEN 1 ELSE 0)
           a == n \div 100
           i == n - 100 * a
           E == (26 * o - 2) \div 10
           D == (153 * ((d.month + 9) % 12) + 2) \div 5
           z == d.day + E + i + i \div 4 + a \div 4 - 2 * a
           h == HostDay(d)
<1>1. d.year \in Int /\ d.month \in 1 .. 12 /\ d.day \in Int
  BY SMT DEF GoodDates, Dates
<1>2. n \in Int /\ a \in Int /\ i \in Int /\ 0 <= i /\ i <= 99 /\ n = 100 * a + i
  BY <1>1, SMT
<1> DEFINE g == 5 - 4 * o
<1>3. E - D + 5 = 7 * g /\ g \in Int
  <2>1. CASE d.month = 1
    BY <2>1, SMT
  <2>2. CASE d.month = 2
    BY <2>2, SMT
  <2>3. CASE d.month = 3
    BY <2>3, SMT
  <2>4. CASE d.month = 4
    BY <2>4, SMT
  <2>5. CASE d.month = 5
    BY <2>5, SMT
  <2>6. CASE d.month = 6
    BY <2>6, SMT
  <2>7. CASE d.month = 7
    BY <2>7, SMT
  <2>8. CASE d.month = 8
    BY <2>8, SMT
  <2>9. CASE d.month = 9
    BY <2>9, SMT
  <2>10. CASE d.month = 10
    BY <2>10, SMT
  <2>11. CASE d.month = 11
    BY <2>11, SMT
  <2>12. CASE d.month = 12
    BY <2>12, SMT
  <2> HIDE DEF E, D, g
  <2> QED
    BY <1>1, <2>1, <2>2, <2>3, <2>4, <2>5, <2>6, <2>7, <2>8, <2>9, <2>10, <2>11, <2>12, SMT
<1>4. E \in Int /\ D \in Int
  BY <1>1, SMT
<1>5. h = 365 * n + n \div 4 - n \div 100 + n \div 400 + D + d.day - 719469
  BY <1>1, SMT DEF HostDay, HostDays
<1>6. DayOfWeek(d) = Rem(z, 7) + (IF Rem(z, 7) <= 0 THEN 7 ELSE 0)
  BY SMT DEF DayOfWeek
<1> HIDE DEF E, D, g, o
<1>7. n \div 4 = 25 * a + i \div 4 /\ n \div 400 = a \div 4 /\ n \div 100 = a
  <2> HIDE DEF i
  <2>1. n \div 100 = a
    BY SMT DEF a
  <2> HIDE DEF a, n
  <2>2. \A p, q \in Int : (100 * p + q) \div 4 = 25 * p + q \div 4
    BY SMT
  <2>3. \A p, q \in Int : 0 <= q /\ q <= 99 => (100 * p + q) \div 400 = p \div 4
    BY SMT
  <2>4. n \div 4 = 25 * a + i \div 4 /\ n \div 400 = a \div 4
    BY <1>2, <2>2, <2>3, SMT
  <2> QED
    BY <2>1, <2>4
<1> HIDE DEF n, a, i
<1>8. i \div 4 \in Int /\ a \div 4 \in Int
  BY <1>2, SMT
<1> DEFINE w == g + 102780 - 52 * i - 5218 * a
<1>9. z = h + 4 + 7 * w /\ h \in Int /\ z \in Int /\ w \in Int
  BY <1>1, <1>2, <1>3, <1>4, <1>5, <1>7, <1>8, SMT
<1> HIDE DEF z, h, w
<1>10. Rem(z, 7) + (IF Rem(z, 7) <= 0 THEN 7 ELSE 0) = ((h + 3) % 7) + 1
  <2>1. FourMore(z, h, w)
    BY <1>9, SMT DEF FourMore
  <2> QED
    BY <1>9, <2>1, OneToSeven, SMT
<1>11. ((h + 3) % 7) + 1 \in 1 .. 7
  BY <1>9, SMT
<1> QED
  BY <1>6, <1>10, <1>11, SMT DEF h

-----------------------------------------------------------------------------
(* Weeks of the year. *)

LEMMA MarchStartGrows ==
  ASSUME NEW x \in Int, NEW z \in Int, x <= z
  PROVE  MarchStart(x) <= MarchStart(z)
<1>1. x \div 4 <= z \div 4 /\ x \div 400 <= z \div 400 /\ z \div 100 <= x \div 100 + (z - x)
  BY SMT
<1>2. \A w \in {x, z} : w \div 4 \in Int /\ w \div 100 \in Int /\ w \div 400 \in Int
  BY SMT
<1> HIDE <1>2
<1> QED
  BY <1>1, <1>2, SMT DEF MarchStart

LEMMA YearStartGrows ==
  ASSUME NEW x \in Int, NEW z \in Int, x <= z
  PROVE  HostDays(x, 1, 1) <= HostDays(z, 1, 1)
<1>1. 1 \in 1 .. 12 /\ 1 <= 2
  BY SMT
<1>2. /\ HostDays(x, 1, 1) = MarchStart(x - 1) + 306 - 719468
      /\ HostDays(z, 1, 1) = MarchStart(z - 1) + 306 - 719468
  BY <1>1, HostDaysByMarch, SMT
<1>3. x - 1 \in Int /\ z - 1 \in Int /\ x - 1 <= z - 1
  BY SMT
<1>4. MarchStart(x - 1) <= MarchStart(z - 1) /\ MarchStart(x - 1) \in Int /\ MarchStart(z - 1) \in Int
  BY <1>3, MarchStartGrows, MarchStartNext, SMT
<1> QED
  BY <1>2, <1>4, SMT

(* A day is in one year. *)
LEMMA OneYear ==
  ASSUME NEW T \in Int, NEW x \in Int, NEW z \in Int,
         HostDays(x, 1, 1) <= T, T < HostDays(x + 1, 1, 1), HostDays(z, 1, 1) <= T, T < HostDays(z + 1, 1, 1)
  PROVE  x = z
<1>1. x + 1 \in Int /\ z + 1 \in Int
  BY SMT
<1>2. /\ HostDays(x, 1, 1) \in Int /\ HostDays(x + 1, 1, 1) \in Int
      /\ HostDays(z, 1, 1) \in Int /\ HostDays(z + 1, 1, 1) \in Int
  BY <1>1, YearStart, SMT
<1>3. ~ (x < z)
  <2> SUFFICES ASSUME x < z
               PROVE  FALSE
    BY SMT
  <2>1. HostDays(x + 1, 1, 1) <= HostDays(z, 1, 1)
    <3>1. x + 1 <= z
      BY SMT
    <3> QED
      BY <1>1, <3>1, YearStartGrows, SMT
  <2> QED
    BY <1>2, <2>1, SMT
<1>4. ~ (z < x)
  <2> SUFFICES ASSUME z < x
               PROVE  FALSE
    BY SMT
  <2>1. HostDays(z + 1, 1, 1) <= HostDays(x, 1, 1)
    <3>1. z + 1 <= x
      BY SMT
    <3> QED
      BY <1>1, <3>1, YearStartGrows, SMT
  <2> QED
    BY <1>2, <2>1, SMT
<1> QED
  BY <1>3, <1>4, SMT

(* The week of the year is that of the Thursday. *)
LEMMA WeekOfYearIs ==
  ASSUME NEW d \in GoodDates
  PROVE  LET t == ThursdayOf(d)
         IN  WeekOfYear(d) = [week |-> ((HostDay(t) - HostDays(t.year, 1, 1)) \div 7) + 1, year |-> t.year]
<1> DEFINE y == d.year
           J(x) == HostDays(x, 1, 1)
           H == HostDay(d)
           T == H - ((H + 3) % 7) + 3
           t == ThursdayOf(d)
           o == DayOfYear(d)
           n == DayOfWeek(d)
           a == DayOfWeek(Date(y, 1, 1))
           i == (o - n + 10) \div 7
           L == DaysInYear(y)
           M == DaysInYear(y - 1)
<1>1. y \in Int /\ y - 1 \in Int /\ y + 1 \in Int /\ y + 2 \in Int /\ (y - 1) + 1 = y /\ (y + 1) + 1 = y + 2
  BY SMT DEF GoodDates, Dates
<1>2. H \in Int /\ J(y) \in Int /\ o = H - J(y) + 1 /\ 1 <= o /\ o <= L
  BY <1>1, DayOfYearIs, Types, SMT
<1>3. n = ((H + 3) % 7) + 1 /\ n \in 1 .. 7
  BY DayOfWeekIs
<1>4. /\ J(y) = J(y - 1) + M /\ J(y + 1) = J(y) + L /\ J(y + 2) = J(y + 1) + DaysInYear(y + 1)
      /\ J(y - 1) \in Int /\ J(y + 1) \in Int /\ J(y + 2) \in Int
  BY <1>1, YearStart
<1>5. L \in {365, 366} /\ M = (IF LeapYear(y - 1) THEN 366 ELSE 365) /\ DaysInYear(y + 1) \in {365, 366}
  BY <1>1, Types DEF DaysInYear
<1>6. a = ((J(y) + 3) % 7) + 1
  <2>1. Date(y, 1, 1) \in GoodDates
    <3>1. 1 \in 1 .. 12 /\ 1 \in 1 .. 31
      BY SMT
    <3>2. 1 <= ISODaysInMonth(y, 1)
      BY <1>1, <3>1, Types
    <3> QED
      BY <1>1, <3>1, <3>2 DEF Date, GoodDates, Dates
  <2>2. HostDay(Date(y, 1, 1)) = J(y)
    BY DEF HostDay, Date
  <2> QED
    BY <2>1, <2>2, DayOfWeekIs
<1>7. T \in Int /\ T = H - n + 4 /\ T % 7 = 0
  <2>1. (H - ((H + 3) % 7) + 3) % 7 = 0
    BY <1>2, SMT
  <2> QED
    BY <1>2, <1>3, <2>1, SMT
<1>8. t.year \in Int /\ HostDay(t) = T /\ J(t.year) <= T /\ T < J(t.year + 1)
  BY <1>7, HostDateIsOnDay DEF ThursdayOf
<1>9. WeekOfYear(d) =
        CASE i < 1 -> [week |-> IF a = 5 \/ (a = 6 /\ LeapYear(y - 1)) THEN 53 ELSE 52, year |-> y - 1]
          [] i = 53 /\ L - o < 4 - n -> [week |-> 1, year |-> y + 1]
          [] OTHER -> [week |-> i, year |-> y]
  BY DEF WeekOfYear
<1> HIDE DEF H, T, t, o, n, a, i, L, M, y, J
<1>10. i = (T - J(y)) \div 7 + 1
  <2>1. o - n + 10 = (T - J(y)) + 7 * 1 /\ T - J(y) \in Int
    BY <1>2, <1>3, <1>7, SMT
  <2>2. \A x \in Int : (x + 7 * 1) \div 7 = x \div 7 + 1
    BY SMT
  <2> QED
    BY <2>1, <2>2 DEF i
<1>11. \A x \in Int : J(x) <= T /\ T < J(x + 1) => t.year = x
  BY <1>7, <1>8, OneYear DEF J
<1>12. CASE T < J(y)
  <2> DEFINE e == J(y) - T
  <2>1. e \in {1, 2, 3}
    BY <1>2, <1>3, <1>7, <1>12, SMT
  <2>2. t.year = y - 1
    <3>1. J(y - 1) <= T
      BY <1>2, <1>4, <1>5, <1>7, <2>1, SMT
    <3> QED
      BY <1>1, <1>11, <1>12, <3>1
  <2>3. i < 1
    BY <1>2, <1>7, <1>10, <1>12, SMT
  <2>4. a = e + 4
    <3>1. J(y) = T + e
      BY <1>2, <1>7, SMT
    <3>2. ASSUME NEW k \in {1, 2, 3}
          PROVE  ((T + k + 3) % 7) + 1 = k + 4
      BY <1>7, SMT
    <3> HIDE DEF e
    <3> QED
      BY <1>6, <2>1, <3>1, <3>2
  <2>5. T - J(y - 1) = M - e
    BY <1>2, <1>4, <1>5, <1>7, SMT
  <2>6. ((M - e) \div 7) + 1 = IF a = 5 \/ (a = 6 /\ LeapYear(y - 1)) THEN 53 ELSE 52
    <3> HIDE DEF e
    <3>1. CASE e = 1
      BY <1>5, <2>4, <3>1, SMT
    <3>2. CASE e = 2
      BY <1>5, <2>4, <3>2, SMT
    <3>3. CASE e = 3
      BY <1>5, <2>4, <3>3, SMT
    <3> QED
      BY <2>1, <3>1, <3>2, <3>3
  <2>7. WeekOfYear(d) = [week |-> IF a = 5 \/ (a = 6 /\ LeapYear(y - 1)) THEN 53 ELSE 52, year |-> y - 1]
    BY <1>9, <2>3
  <2>8. WeekOfYear(d) = [week |-> ((HostDay(t) - J(t.year)) \div 7) + 1, year |-> t.year]
    BY <1>8, <2>2, <2>5, <2>6, <2>7
  <2> QED
    BY <2>8 DEF t, J
<1>13. CASE T >= J(y + 1)
  <2>1. t.year = y + 1
    <3>1. T < J(y + 2)
      BY <1>2, <1>3, <1>4, <1>5, <1>7, SMT
    <3> QED
      BY <1>1, <1>11, <1>13, <3>1
  <2>2. i = 53
    <3>1. T - J(y) \in Int /\ 364 <= T - J(y) /\ T - J(y) <= 370
      BY <1>2, <1>3, <1>4, <1>5, <1>7, <1>13, SMT
    <3>2. (T - J(y)) \div 7 = 52
      BY <3>1, SMT
    <3> QED
      BY <1>10, <3>2, SMT
  <2>3. L - o < 4 - n
    BY <1>2, <1>3, <1>4, <1>5, <1>7, <1>13, SMT
  <2>4. WeekOfYear(d) = [week |-> 1, year |-> y + 1]
    BY <1>9, <2>2, <2>3, SMT
  <2>5. (T - J(y + 1)) \div 7 + 1 = 1
    <3>1. T - J(y + 1) \in Int /\ 0 <= T - J(y + 1) /\ T - J(y + 1) <= 6
      BY <1>2, <1>3, <1>4, <1>5, <1>7, <1>13, SMT
    <3>2. (T - J(y + 1)) \div 7 = 0
      BY <3>1, SMT
    <3> QED
      BY <3>2, SMT
  <2>6. WeekOfYear(d) = [week |-> ((HostDay(t) - J(t.year)) \div 7) + 1, year |-> t.year]
    BY <1>8, <2>1, <2>4, <2>5
  <2> QED
    BY <2>6 DEF t, J
<1>14. CASE J(y) <= T /\ T < J(y + 1)
  <2>1. t.year = y
    BY <1>1, <1>11, <1>14
  <2>2. ~ (i < 1)
    <3>1. T - J(y) \in Int /\ 0 <= T - J(y)
      BY <1>2, <1>7, <1>14, SMT
    <3>2. (T - J(y)) \div 7 >= 0 /\ (T - J(y)) \div 7 \in Int
      BY <3>1, SMT
    <3> QED
      BY <1>10, <3>2, SMT
  <2>3. ~ (L - o < 4 - n)
    BY <1>2, <1>3, <1>4, <1>5, <1>7, <1>14, SMT
  <2>4. WeekOfYear(d) = [week |-> i, year |-> y]
    BY <1>9, <2>2, <2>3
  <2>5. WeekOfYear(d) = [week |-> ((HostDay(t) - J(t.year)) \div 7) + 1, year |-> t.year]
    BY <1>8, <1>10, <2>1, <2>4
  <2> QED
    BY <2>5 DEF t, J
<1> QED
  BY <1>2, <1>4, <1>7, <1>12, <1>13, <1>14, SMT

-----------------------------------------------------------------------------
(* Adding days to a date. *)

(* A date that there is needs no regulating. *)
LEMMA DateIsItself ==
  ASSUME NEW d \in GoodDates, NEW overflow
  PROVE  /\ Date(d.year, d.month, d.day) = d
         /\ RegulateISODate(d, overflow) \subseteq {d}
<1>1. d \in Dates /\ d.day <= ISODaysInMonth(d.year, d.month)
  BY DEF GoodDates
<1>2. d.year \in Int /\ d.month \in 1 .. 12 /\ d.day \in 1 .. 31
  BY <1>1 DEF Dates
<1>3. Date(d.year, d.month, d.day) = d
  BY <1>1 DEF Date, Dates
<1>4. ISODaysInMonth(d.year, d.month) \in 28 .. 31
  BY <1>2, Types
<1>5. ConstrainToRange(d.month, 1, 12) = d.month
  BY <1>2 DEF ConstrainToRange, Smaller, Greater
<1>6. ConstrainToRange(d.day, 1, ISODaysInMonth(d.year, d.month)) = d.day
  BY <1>1, <1>2, <1>4 DEF ConstrainToRange, Smaller, Greater
<1>7. ConstrainISODate(d) = d
  BY <1>3, <1>5, <1>6 DEF ConstrainISODate
<1> QED
  BY <1>3, <1>7 DEF RegulateISODate

(* Days and weeks move a date by as many days. *)
LEMMA AddedDays ==
  ASSUME NEW d \in GoodDates, NEW c \in Calendars, NEW overflow, c.years = 0, c.months = 0,
         NEW e \in AddISODate(d, c, overflow)
  PROVE  HostDay(e) = HostDay(d) + c.days + 7 * c.weeks
<1>1. d.year \in Int /\ d.month \in 1 .. 12 /\ d.day \in Int
  BY DEF GoodDates, Dates
<1>2. c.weeks \in Int /\ c.days \in Int
  BY CalendarsAre
<1> DEFINE b == BalanceISOYearMonth(d.year + c.years, d.month + c.months)
           k == d.day + c.days + 7 * c.weeks
<1>3. b.year = d.year /\ b.month = d.month
  <2>1. d.year + c.years = d.year /\ d.month + c.months = d.month
    BY <1>1
  <2>2. BalanceISOYearMonth(d.year, d.month).year = d.year + (d.month - 1) \div 12
        /\ BalanceISOYearMonth(d.year, d.month).month = ((d.month - 1) % 12) + 1
    BY DEF BalanceISOYearMonth
  <2>3. (d.month - 1) \div 12 = 0 /\ (d.month - 1) % 12 = d.month - 1
    BY <1>1
  <2> QED
    BY <1>1, <2>1, <2>2, <2>3
<1>4. AddISODate(d, c, overflow) =
        {BalanceISODate(r.year, r.month, r.day + c.days + 7 * c.weeks) :
            r \in RegulateISODate(Date(b.year, b.month, d.day), overflow)}
  BY DEF AddISODate
<1> HIDE DEF b
<1>5. RegulateISODate(Date(b.year, b.month, d.day), overflow) \subseteq {d}
  BY <1>3, DateIsItself
<1>6. e = BalanceISODate(d.year, d.month, k)
  BY <1>4, <1>5
<1>7. k \in Int
  BY <1>1, <1>2
<1> HIDE DEF k
<1>8. HostDay(e) = HostDays(d.year, d.month, k)
  BY <1>1, <1>6, <1>7, BalancedDate DEF HostDay
<1>9. HostDays(d.year, d.month, k) = HostDays(d.year, d.month, 1) + k - 1
  BY <1>1, <1>7, HostDaysOfDay
<1>10. HostDays(d.year, d.month, d.day) = HostDays(d.year, d.month, 1) + d.day - 1
  BY <1>1, HostDaysOfDay
<1>11. HostDays(d.year, d.month, 1) \in Int
  <2>1. 1 \in Int
    OBVIOUS
  <2> QED
    BY <1>1, <2>1, HostDaysIsInt
<1> QED
  BY <1>1, <1>2, <1>8, <1>9, <1>10, <1>11 DEF HostDay, k

(* PlainDate.add, of a duration without years and months. *)
LEMMA DaysAddedToDate ==
  ASSUME NEW x, IsFine(x), x.type = "PlainDate", NEW dur, dur.calendar \in Calendars, dur.time \in Clocks,
         dur.calendar.years = 0, dur.calendar.months = 0, NEW overflow, NEW s \in Add(x, dur, overflow)
  PROVE  HostDay(s.date) = HostDay(x.date) + 7 * dur.calendar.weeks
                             + Quo(TotalDurationNanoseconds(dur.calendar.days, dur.time, 0), DayLength)
<1> DEFINE c == WholeDaysOf(dur)
<1>1. x.date \in GoodDates
  BY FineAre
<1>2. c \in Calendars /\ c.years = 0 /\ c.months = 0 /\ c.weeks = dur.calendar.weeks
      /\ c.days = Quo(TotalDurationNanoseconds(dur.calendar.days, dur.time, 0), DayLength)
  BY WholeDaysAre
<1>3. PICK e \in DateAdd(x.date, dur, overflow) : s = PlainDate(e)
  BY DEF Add, AddToPlainDate
<1>4. PICK f \in AddISODate(x.date, c, overflow) : e \in CreateTemporalDate(f)
  BY <1>3 DEF DateAdd
<1> HIDE DEF c
<1>5. f \in AnyDates
  BY <1>1, <1>2, AddedDate, DatesAre
<1>6. e = f
  BY <1>4, <1>5, CreatedDate
<1>7. s.date = f
  BY <1>3, <1>6 DEF PlainDate
<1>8. HostDay(f) = HostDay(x.date) + c.days + 7 * c.weeks
  BY <1>1, <1>2, AddedDays
<1>9. HostDay(x.date) \in Int /\ c.days \in Int /\ c.weeks \in Int
  BY <1>1, <1>2, DayOfYearIs, CalendarsAre
<1>10. HostDay(f) = HostDay(x.date) + 7 * c.weeks + c.days
  BY <1>8, <1>9
<1> QED
  BY <1>2, <1>7, <1>10

-----------------------------------------------------------------------------
(* The getters. *)

Agree(g, d) ==
  /\ g.dayOfWeek = ((HostDay(d) + 3) % 7) + 1
  /\ g.dayOfYear = HostDay(d) - HostDays(d.year, 1, 1) + 1
  /\ g.daysInYear = HostDays(d.year + 1, 1, 1) - HostDays(d.year, 1, 1)
  /\ LET t == ThursdayOf(d)
     IN  g.weekOfYear = [week |-> ((HostDay(t) - HostDays(t.year, 1, 1)) \div 7) + 1, year |-> t.year]

(* The getters of a date and the host's day count. *)
LEMMA GettersAgree ==
  ASSUME NEW d \in GoodDates
  PROVE  Agree(DateGetters(d), d)
<1>1. /\ DateGetters(d).dayOfWeek = DayOfWeek(d) /\ DateGetters(d).dayOfYear = DayOfYear(d)
      /\ DateGetters(d).daysInYear = DaysInYear(d.year) /\ DateGetters(d).weekOfYear = WeekOfYear(d)
  BY DEF DateGetters
<1>2. d.year \in Int
  BY DEF GoodDates, Dates
<1>3. DaysInYear(d.year) = HostDays(d.year + 1, 1, 1) - HostDays(d.year, 1, 1)
  <2>1. DaysInYear(d.year) \in Int
    BY <1>2, Types
  <2> QED
    BY <1>2, <2>1, YearStart
<1> QED
  BY <1>1, <1>3, DayOfWeekIs, DayOfYearIs, WeekOfYearIs DEF Agree

(* An object that is a zoned date-time has at most one wall-clock date. *)
LEMMA OneDate ==
  ASSUME NEW x, IsFine(x), x.type \in {"PlainDate", "PlainDateTime", "ZonedDateTime"},
         NEW d \in ToTemporalDate(x), NEW e \in ToTemporalDate(x)
  PROVE  d = e
<1>1. CASE x.type = "PlainDate"
  BY <1>1 DEF ToTemporalDate
<1>2. CASE x.type = "PlainDateTime"
  <2>1. ToTemporalDate(x) = CreateTemporalDate(x.date)
    BY <1>2 DEF ToTemporalDate
  <2> QED
    BY <1>2, <2>1, FineAre, CreatedDate, DatesAre
<1>3. CASE x.type = "ZonedDateTime"
  <2>1. ToTemporalDate(x) = UNION {CreateTemporalDate(dt.date) : dt \in dateTime(x)}
    BY <1>3 DEF ToTemporalDate
  <2>2. \A dt \in dateTime(x) : CreateTemporalDate(dt.date) \subseteq {dt.date}
    BY <1>3, ZonedWallClock, WallsAre, CreatedDate, DatesAre
  <2>3. \A u, v \in dateTime(x) : u = v
    BY DEF dateTime, GetPlainDateTimeFor, CreateTemporalDateTime
  <2> QED
    BY <2>1, <2>2, <2>3
<1> QED
  BY <1>1, <1>2, <1>3

-----------------------------------------------------------------------------

\* The two parts of DatesAgreeWithHost.
GettersRight ==
  call.method = "getters" => \A g \in answer, d \in ToTemporalDate(object) : Agree(g, d)

DaysRight ==
  call.method \in {"add", "subtract"} /\ HasType({"PlainDate"}) =>
    \A x \in answer :
       call.span.calendar.years = 0 /\ call.span.calendar.months = 0 =>
          HostDay(x.date) = HostDay(object.date) + 7 * call.span.calendar.weeks
             + Quo(TotalDurationNanoseconds(call.span.calendar.days, call.span.time, 0), DayLength)

LEMMA TwoParts == DatesAgreeWithHost <=> GettersRight /\ DaysRight
BY Zenon DEF DatesAgreeWithHost, GettersRight, DaysRight, Agree

(* The getters of dates and the arithmetic of days agree with the day count
   of the host: dayOfWeek (Zeller's rule), dayOfYear, weekOfYear and
   daysInYear, and add and subtract move a date by as many days as they are
   given. *)
THEOREM DatesAgree == Spec => []DatesAgreeWithHost
<1> DEFINE Right == GettersRight /\ DaysRight
<1>1. Init => Right
  BY DEF Init, NoCall, GettersRight, DaysRight
<1>2. ASSUME ObjectsFine, Right, [Next]_vars
      PROVE  Right'
  <2>1. CASE UNCHANGED vars
    BY <1>2, <2>1 DEF vars, GettersRight, DaysRight, HasType
  <2>2. CASE Next /\ call'.method \notin {"getters", "add", "subtract"}
    BY <2>2 DEF GettersRight, DaysRight
  <2>3. CASE Next /\ call'.method = "getters"
    <3>1. ReadDate
      BY <2>3, MethodsAre
    <3>2. /\ object.type \in {"PlainDate", "PlainDateTime", "ZonedDateTime"}
          /\ object' = object /\ answer' = {DateGetters(d) : d \in ToTemporalDate(object)}
      BY <3>1 DEF ReadDate, Returns, HasType
    <3>3. IsFine(object)
      BY <1>2 DEF ObjectsFine
    <3>4. ASSUME NEW g \in answer', NEW d \in ToTemporalDate(object)
          PROVE  Agree(g, d)
      <4>1. PICK e \in ToTemporalDate(object) : g = DateGetters(e)
        BY <3>2
      <4>2. e = d
        BY <3>2, <3>3, OneDate
      <4>3. d \in GoodDates
        BY <3>2, <3>3, DateOfObject
      <4> QED
        BY <4>1, <4>2, <4>3, GettersAgree
    <3>5. GettersRight'
      BY <3>2, <3>4 DEF GettersRight
    <3>6. DaysRight'
      BY <2>3 DEF DaysRight
    <3> QED
      BY <3>5, <3>6
  <2>4. CASE Next /\ call'.method \in {"add", "subtract"}
    <3>1. AddOrSubtract
      BY <2>4, MethodsAre
    <3>2. PICK op \in {"add", "subtract"}, dur \in Spans, overflow \in Overflows :
             Returns([method |-> op, span |-> Signed(op, dur)], Add(object, Signed(op, dur), overflow))
      BY <3>1 DEF AddOrSubtract
    <3> DEFINE s == Signed(op, dur)
    <3>3. s.calendar \in Calendars /\ s.time \in Clocks
      BY SignedSpan
    <3> HIDE DEF s
    <3>4. object' = object /\ answer' = Add(object, s, overflow) /\ call' = [method |-> op, span |-> s]
      BY <3>2 DEF Returns, s
    <3>5. call'.span = s
      BY <3>4
    <3>6. IsFine(object)
      BY <1>2 DEF ObjectsFine
    <3>7. ASSUME object.type = "PlainDate", s.calendar.years = 0, s.calendar.months = 0,
                 NEW x \in Add(object, s, overflow)
          PROVE  HostDay(x.date) = HostDay(object.date) + 7 * s.calendar.weeks
                    + Quo(TotalDurationNanoseconds(s.calendar.days, s.time, 0), DayLength)
      BY <3>3, <3>6, <3>7, DaysAddedToDate
    <3>8. DaysRight'
      BY <3>4, <3>5, <3>7, Zenon DEF DaysRight, HasType
    <3>9. GettersRight'
      BY <2>4 DEF GettersRight
    <3> QED
      BY <3>8, <3>9
  <2> QED
    BY <1>2, <2>1, <2>2, <2>3, <2>4
<1>3. Right => DatesAgreeWithHost
  BY TwoParts
<1> HIDE DEF Right
<1> QED
  BY <1>1, <1>2, <1>3, SpecFine, PTL DEF Spec
=============================================================================

------------------------ MODULE TimezoneLoaderProofs ------------------------
(***************************************************************************)
(* Proofs about TransitionSearch and TimezoneLoader, for every zone and    *)
(* every value of the constants.  The inductive invariant of the searches, *)
(* IInv, says what the walk and the bisection have already ruled out: no   *)
(* change of the zone between the instant the walk started from and the    *)
(* near end of the window.  The loader and the other users of the time     *)
(* zones only take steps of TransitionSearch, so that what is proved of    *)
(* the searches holds of those of the loader, whose table is then well     *)
(* formed and exact.                                                       *)
(***************************************************************************)
EXTENDS TimezoneLoader, WellFoundedInduction, TLAPS

-----------------------------------------------------------------------------
(***************************************************************************)
(* The searches.                                                           *)
(***************************************************************************)
Searching == phase \in {"walk", "bisect"}

(* The walk moves the window when its ends agree, the bisection narrows one *)
(* whose ends do not.                                                       *)
WindowOK ==
    /\ Searching => zone \notin FixedZones
    /\ phase = "walk" =>
          /\ right - left <= Step
          /\ leftOffset = rightOffset => left = right
    /\ phase = "bisect" => leftOffset # rightOffset /\ left < right /\ right - left <= Step

ForwardOK ==
    Searching /\ direction = "next" =>
        /\ From <= left
        /\ bound = Larger(Horizon, From + Year)
        /\ Spaced(zone) => \A c \in Time : From < c /\ c <= left => ~ ChangesAt(zone, c)

(* The changes the walk back may pass over. *)
PassedOver(c) == From > Horizon /\ c \in Horizon - Day .. From - Year

BackwardOK ==
    Searching /\ direction = "previous" =>
        /\ right < From
        /\ IF late THEN From > Horizon /\ bound = From - Year ELSE bound = FirstRule
        /\ Spaced(zone) => \A c \in Time :
              right < c /\ c < From /\ ChangesAt(zone, c) => PassedOver(c)

IInv ==
    /\ SearchTypeOK /\ WindowOK /\ ForwardOK /\ BackwardOK
    /\ FoundIsTransition /\ NextIsFirst /\ PreviousIsLast /\ NeverInvalid

-----------------------------------------------------------------------------
(* Windows. *)

(* Induction over the natural numbers, as a fact about sets. *)
LEMMA LeastElement ==
    ASSUME NEW S \in SUBSET Nat, S # {}
    PROVE  \E n \in S : \A m \in S : n <= m
  <1>1. IsWellFoundedOn(OpToRel(<, Nat), Nat)
    BY NatLessThanWellFounded, Zenon
  <1>2. PICK n \in S : \A m \in S : <<m, n>> \notin OpToRel(<, Nat)
    BY <1>1, WFMin, Zenon
  <1>3. \A m \in S : ~ (m < n)
    BY <1>2, Zenon DEF OpToRel
  <1>4. \A m \in S : m \in Nat /\ n \in Nat
    BY <1>2
  <1>5. \A m \in S : n <= m
    BY <1>3, <1>4
  <1> QED
    BY <1>2, <1>5

(* The offset stays what it is from one change to the next: by induction on *)
(* the distance, the first instant with another offset would be a change.   *)
LEMMA BetweenChanges ==
    ASSUME NEW z \in ZoneNames, NEW t \in Time, NEW u \in Time, t < u,
           \A c \in t + 1 .. u : ~ ChangesAt(z, c)
    PROVE  Offset[z][t] = Offset[z][u]
  <1> SUFFICES ASSUME Offset[z][t] # Offset[z][u] PROVE FALSE
    OBVIOUS
  <1> DEFINE Differs == {n \in Nat : t + n <= u /\ Offset[z][t + n] # Offset[z][t]}
  <1>1. t \in Int /\ u \in Int /\ MinTime \in Int /\ MaxTime \in Int /\ MinTime <= t /\ u <= MaxTime
    BY ConstantsAssumption DEF Time
  <1>2. u - t \in Differs
    <2>1. u - t \in Nat /\ t + (u - t) = u
      BY <1>1
    <2> QED
      BY <1>1, <2>1
  <1>3. PICK n \in Differs : \A m \in Differs : n <= m
    <2>1. Differs \in SUBSET Nat /\ Differs # {}
      BY <1>2
    <2> HIDE DEF Differs
    <2> QED
      BY <2>1, LeastElement
  <1>4. n \in Nat /\ t + n <= u /\ Offset[z][t + n] # Offset[z][t]
    BY <1>3
  <1>5. n # 0
    BY <1>1, <1>4
  <1>6. n - 1 \notin Differs
    BY <1>3, <1>4, <1>5
  <1>7. n - 1 \in Nat /\ t + (n - 1) <= u /\ t + (n - 1) = (t + n) - 1
    BY <1>1, <1>4, <1>5
  <1>8. Offset[z][(t + n) - 1] = Offset[z][t]
    BY <1>6, <1>7
  <1>9. t + n \in t + 1 .. u /\ (t + n) - 1 \in Time /\ t + n \in Time
    BY <1>1, <1>4, <1>5 DEF Time
  <1> QED
    BY <1>4, <1>8, <1>9 DEF ChangesAt

(* Offsets that differ have a change between them. *)
LEMMA ChangeBetween ==
    ASSUME NEW z \in ZoneNames, NEW a \in Time, NEW b \in Time, a < b,
           Offset[z][a] # Offset[z][b]
    PROVE  \E c \in a + 1 .. b : ChangesAt(z, c)
  BY BetweenChanges DEF ChangesAt

(* A window no wider than Step has at most one change. *)
LEMMA OneChange ==
    ASSUME NEW z \in ZoneNames, NEW a \in Time, NEW b \in Time, b - a <= Step, Spaced(z),
           NEW c \in a + 1 .. b, NEW d \in a + 1 .. b, ChangesAt(z, c), ChangesAt(z, d)
    PROVE  c = d
  BY ConstantsAssumption DEF Spaced, Time, ChangesAt

(* A window no wider than Step whose ends agree has no change. *)
LEMMA QuietWindow ==
    ASSUME NEW z \in ZoneNames, NEW a \in Time, NEW b \in Time, a < b, b - a <= Step,
           Spaced(z), Offset[z][a] = Offset[z][b], NEW c \in a + 1 .. b
    PROVE  ~ ChangesAt(z, c)
  <1> SUFFICES ASSUME ChangesAt(z, c) PROVE FALSE
    OBVIOUS
  <1> a \in Int /\ b \in Int /\ c \in Int /\ c - 1 \in Time /\ c \in Time
    BY ConstantsAssumption DEF Time
  <1>1. \A d \in a + 1 .. b : ChangesAt(z, d) => d = c
    BY OneChange
  <1>2. Offset[z][a] = Offset[z][c - 1]
    <2>1. CASE a = c - 1
      BY <2>1
    <2>2. CASE a < c - 1
      <3>1. \A d \in a + 1 .. c - 1 : ~ ChangesAt(z, d)
        BY <1>1
      <3> QED
        BY <2>2, <3>1, BetweenChanges
    <2> QED
      BY <2>1, <2>2
  <1>3. Offset[z][c] = Offset[z][b]
    <2>1. CASE c = b
      BY <2>1
    <2>2. CASE c < b
      <3>1. \A d \in c + 1 .. b : ~ ChangesAt(z, d)
        BY <1>1
      <3> QED
        BY <2>2, <3>1, BetweenChanges
    <2> QED
      BY <2>1, <2>2
  <1> QED
    BY <1>2, <1>3 DEF ChangesAt

(* Two halves of a window no wider than Step cannot both hold a change. *)
LEMMA OneHalf ==
    ASSUME NEW z \in ZoneNames, NEW a \in Time, NEW m \in Time, NEW b \in Time,
           a < m, m < b, b - a <= Step, Spaced(z)
    PROVE  /\ Offset[z][m] # Offset[z][b] => \A c \in a + 1 .. m : ~ ChangesAt(z, c)
           /\ Offset[z][a] # Offset[z][m] => \A c \in m + 1 .. b : ~ ChangesAt(z, c)
           /\ Offset[z][a] = Offset[z][m] \/ Offset[z][m] = Offset[z][b]
  <1> a \in Int /\ m \in Int /\ b \in Int
    BY ConstantsAssumption DEF Time
  <1>1. ASSUME NEW c \in a + 1 .. m, NEW d \in m + 1 .. b, ChangesAt(z, c), ChangesAt(z, d)
        PROVE  FALSE
    <2>1. c \in a + 1 .. b /\ d \in a + 1 .. b /\ c # d
      OBVIOUS
    <2> QED
      BY <1>1, <2>1, OneChange
  <1>2. Offset[z][m] # Offset[z][b] => \E d \in m + 1 .. b : ChangesAt(z, d)
    BY ChangeBetween
  <1>3. Offset[z][a] # Offset[z][m] => \E c \in a + 1 .. m : ChangesAt(z, c)
    BY ChangeBetween
  <1> QED
    BY <1>1, <1>2, <1>3

(* The middle of a window is inside it. *)
LEMMA MiddleInside ==
    ASSUME NEW a \in Int, NEW b \in Int, b - a > 1
    PROVE  /\ Half(a + b) \in Int
           /\ a < Half(a + b) /\ Half(a + b) < b
  BY DEF Half

-----------------------------------------------------------------------------
(* Invariance. *)

LEMMA InitIInv == SearchInit => IInv
  <1> SUFFICES ASSUME SearchInit PROVE IInv
    OBVIOUS
  <1>1. AnyZone \in ZoneNames
    BY ZonesAssumption DEF AnyZone
  <1>2. late \in BOOLEAN
    BY DEF SearchInit
  <1>3. SearchTypeOK
    BY <1>1, <1>2, ConstantsAssumption DEF SearchInit, SearchTypeOK, Time
  <1> QED
    BY <1>3
       DEF SearchInit, IInv, WindowOK, ForwardOK, BackwardOK, Searching,
           FoundIsTransition, NextIsFirst, PreviousIsLast, NeverInvalid, Time

USE DEF Searching

(* What the constants and the invariant say of the numbers a step works on. *)
LEMMA Numbers ==
    ASSUME SearchTypeOK
    PROVE  /\ FirstRule \in Int /\ MaxTime \in Int /\ MinTime \in Int /\ MinTime <= FirstRule
           /\ Step \in Nat \ {0} /\ Year \in Nat \ {0} /\ Day \in Nat \ {0}
           /\ Horizon \in Int /\ FirstRule + Day < Horizon /\ Horizon <= MaxTime
           /\ Cap \in Int /\ MinTime <= Cap /\ Cap <= MaxTime
           /\ left \in Int /\ right \in Int /\ asked \in Int
           /\ left \in Time /\ right \in Time
           /\ FirstRule <= left /\ left <= right /\ right <= MaxTime
           /\ From \in Int
  BY ConstantsAssumption DEF SearchTypeOK, Time, From, LastAsked, Larger

(* A search for the next transition begins. *)
LEMMA NextStartIInv ==
    ASSUME IInv, NEW z \in ZoneNames, NEW t \in Time, NextStart(z, t)
    PROVE  IInv'
  <1> USE Numbers DEF IInv
  <1> DEFINE from == Larger(t, FirstRule)
  <1>1. from \in FirstRule .. MaxTime /\ t \in Int /\ from >= t
    BY ConstantsAssumption DEF Time, Larger
  <1>2. From' = from
    BY DEF NextStart, From
  <1>3. SearchTypeOK'
    <2>1. late' \in BOOLEAN
      BY DEF NextStart
    <2> QED
      BY <1>1, <2>1 DEF NextStart, SearchTypeOK, Larger
  <1>4. WindowOK'
    BY <1>1 DEF NextStart, WindowOK
  <1>5. ForwardOK'
    BY <1>1, <1>2 DEF NextStart, ForwardOK, Time
  <1> QED
    BY <1>3, <1>4, <1>5
       DEF NextStart, BackwardOK, FoundIsTransition, NextIsFirst, PreviousIsLast, NeverInvalid

LEMMA WalkBackIInv ==
    ASSUME IInv, NEW z \in ZoneNames, NEW t \in Time, zone' = z, z \notin FixedZones,
           WalkBack(z, t), asked' \in Time,
           FirstRule <= LastAsked(z, t) - 1 => LastAsked(z, t) <= From',
           FirstRule > LastAsked(z, t) - 1 => LastAsked(z, t) = From',
           LastAsked(z, t) > Horizon => From' = LastAsked(z, t),
           \A c \in Time : Spaced(z) /\ LastAsked(z, t) <= c /\ c < From' /\ ChangesAt(z, c)
              => From' > Horizon /\ c \in Horizon - Day .. From' - Year
    PROVE  IInv'
  <1> USE Numbers DEF IInv
  <1> DEFINE from == LastAsked(z, t)
  <1>1. from \in Int /\ from <= MaxTime
    BY ConstantsAssumption DEF Time, LastAsked
  <1>2. From' \in Int
    BY ConstantsAssumption DEF From, Time, Larger, LastAsked
  <1>3. CASE from - 1 < FirstRule
    <2>1. phase' = "done" /\ result' = NoTransition /\ direction' = "previous"
          /\ UNCHANGED <<left, right, bound, late>>
      BY <1>3 DEF WalkBack
    <2>2. SearchTypeOK'
      BY <2>1 DEF SearchTypeOK
    <2>3. PreviousIsLast'
      <3> SUFFICES ASSUME NEW c \in Time, c < From' PROVE c < FirstRule + Step
        BY <2>1 DEF PreviousIsLast
      <3> QED
        BY <1>1, <1>3, <1>2 DEF Time
    <2> QED
      BY <2>1, <2>2, <2>3
         DEF WindowOK, ForwardOK, BackwardOK, FoundIsTransition, NextIsFirst, NeverInvalid
  <1>4. CASE from - 1 >= FirstRule
    <2>1. /\ phase' = "walk" /\ direction' = "previous"
          /\ left' = from - 1 /\ right' = from - 1
          /\ leftOffset' = Offset[z][from - 1] /\ rightOffset' = Offset[z][from - 1]
          /\ late' = (from > Horizon)
          /\ bound' = IF from > Horizon THEN from - Year ELSE FirstRule
          /\ result' = result
      BY <1>1, <1>4 DEF WalkBack
    <2>2. SearchTypeOK'
      BY <1>1, <1>4, <2>1 DEF SearchTypeOK
    <2>3. WindowOK'
      BY <1>1, <2>1 DEF WindowOK
    <2>4. BackwardOK'
      <3>1. right' < From'
        BY <1>1, <1>2, <1>4, <2>1
      <3>2. IF late' THEN From' > Horizon /\ bound' = From' - Year ELSE bound' = FirstRule
        BY <2>1
      <3>3. ASSUME NEW c \in Time, Spaced(z), right' < c, c < From', ChangesAt(z, c)
            PROVE  From' > Horizon /\ c \in Horizon - Day .. From' - Year
        <4>1. from <= c
          BY <1>1, <3>3, <2>1 DEF Time
        <4> QED
          BY <4>1, <3>3
      <3> HIDE DEF IInv
      <3> QED
        BY <2>1, <3>1, <3>2, <3>3 DEF BackwardOK, PassedOver, Spaced, ChangesAt
    <2> QED
      BY <2>1, <2>2, <2>3, <2>4
         DEF ForwardOK, FoundIsTransition, NextIsFirst, PreviousIsLast, NeverInvalid
  <1> QED
    BY <1>1, <1>3, <1>4

LEMMA PreviousStartIInv ==
    ASSUME IInv, NEW z \in ZoneNames, NEW t \in Time, PreviousStart(z, t)
    PROVE  IInv'
  <1>1. zone' = z /\ asked' = t /\ z \notin FixedZones /\ WalkBack(z, t)
    BY DEF PreviousStart
  <1>2. From' = LastAsked(z, t)
    BY <1>1 DEF From, LastAsked, WalkBack
  <1>3. LastAsked(z, t) \in Int /\ Horizon \in Int /\ FirstRule \in Int
    BY ConstantsAssumption DEF Time, LastAsked
  <1>4. ASSUME NEW c \in Time, LastAsked(z, t) <= c, c < From' PROVE FALSE
    BY <1>2, <1>3, <1>4 DEF Time
  <1> QED
    BY <1>1, <1>2, <1>3, <1>4, WalkBackIInv

LEMMA PreviousFromHorizonIInv ==
    ASSUME IInv, PreviousFromHorizon
    PROVE  IInv'
  <1> DEFINE t == Horizon - Day
  <1>1. /\ phase = "walk" /\ direction = "previous" /\ right <= bound /\ late
        /\ zone' = zone /\ asked' = asked /\ WalkBack(zone, t)
    BY DEF PreviousFromHorizon
  <1>2. From' = From
    BY <1>1 DEF From, LastAsked, WalkBack
  <1>3. From > Horizon /\ bound = From - Year /\ zone \notin FixedZones
    BY <1>1 DEF IInv, BackwardOK, WindowOK
  <1>4. LastAsked(zone, t) = t
    BY <1>1, <1>3, Numbers DEF IInv, From, LastAsked
  <1>5. ASSUME NEW c \in Time, Spaced(zone), t <= c, c < From, ChangesAt(zone, c)
        PROVE  c \in Horizon - Day .. From - Year
    <2>1. CASE c <= right
      BY <1>1, <1>3, <1>5, <2>1, Numbers DEF IInv, Time
    <2>2. CASE right < c
      BY <1>1, <1>5, <2>2 DEF IInv, BackwardOK, PassedOver
    <2> QED
      BY <2>1, <2>2, Numbers DEF IInv, Time
  <1>6. t \in Time /\ zone \in ZoneNames /\ asked \in Time
    BY Numbers DEF IInv, SearchTypeOK, Time
  <1>7. t - 1 >= FirstRule /\ t <= From /\ ~ t > Horizon
    BY <1>3, Numbers DEF IInv
  <1>8. \A c \in Time :
           Spaced(zone) /\ LastAsked(zone, t) <= c /\ c < From' /\ ChangesAt(zone, c)
              => From' > Horizon /\ c \in Horizon - Day .. From' - Year
    BY <1>2, <1>3, <1>4, <1>5
  <1>9. /\ FirstRule <= LastAsked(zone, t) - 1 => LastAsked(zone, t) <= From'
        /\ FirstRule > LastAsked(zone, t) - 1 => LastAsked(zone, t) = From'
        /\ LastAsked(zone, t) > Horizon => From' = LastAsked(zone, t)
    BY <1>2, <1>4, <1>7, Numbers DEF IInv
  <1> HIDE DEF t
  <1> QED
    BY <1>1, <1>3, <1>6, <1>8, <1>9, WalkBackIInv

LEMMA NextWindowIInv ==
    ASSUME IInv, NextWindow
    PROVE  IInv'
  <1> USE Numbers DEF IInv
  <1> DEFINE end == left + Step
  <1>1. /\ phase = "walk" /\ direction = "next" /\ leftOffset = rightOffset
        /\ right' = end /\ rightOffset' = Offset[zone][end]
        /\ left' = IF Offset[zone][end] = leftOffset THEN end ELSE left
        /\ UNCHANGED <<phase, direction, zone, asked, leftOffset, bound, late, result>>
        /\ end \in Time /\ left < end /\ end \in Int /\ end <= MaxTime
    BY DEF NextWindow, Time
  <1>2. From' = From
    BY <1>1 DEF From
  <1>3. leftOffset = Offset[zone][left] /\ zone \in ZoneNames
    BY <1>1 DEF SearchTypeOK
  <1>4. SearchTypeOK'
    <2>1. late' \in BOOLEAN
      BY <1>1 DEF SearchTypeOK
    <2> QED
      BY <1>1, <1>3, <2>1 DEF SearchTypeOK
  <1>5. WindowOK'
    BY <1>1, <1>3 DEF WindowOK
  <1>6. ForwardOK'
    <2>1. ASSUME Spaced(zone), Offset[zone][end] = leftOffset,
                 NEW c \in Time, left < c, c <= end
          PROVE  ~ ChangesAt(zone, c)
      <3>1. c \in left + 1 .. end /\ end - left <= Step
        BY <1>1, <2>1 DEF Time
      <3> HIDE DEF end
      <3> QED
        BY <1>1, <1>3, <2>1, <3>1, QuietWindow
    <2>2. ASSUME Spaced(zone), NEW c \in Time, From < c, c <= left'
          PROVE  ~ ChangesAt(zone, c)
      <3>1. CASE c <= left
        BY <1>1, <2>2, <3>1 DEF ForwardOK
      <3>2. CASE left < c
        BY <1>1, <2>1, <2>2, <3>2 DEF Time
      <3> QED
        BY <3>1, <3>2, <1>1 DEF Time
    <2>3. From <= left'
      BY <1>1 DEF ForwardOK
    <2> QED
      BY <1>1, <1>2, <2>2, <2>3 DEF ForwardOK, Spaced, ChangesAt
  <1> QED
    BY <1>1, <1>4, <1>5, <1>6
       DEF BackwardOK, FoundIsTransition, NextIsFirst, PreviousIsLast, NeverInvalid

LEMMA PreviousWindowIInv ==
    ASSUME IInv, PreviousWindow
    PROVE  IInv'
  <1> USE Numbers DEF IInv
  <1> DEFINE start == right - Step
  <1>1. /\ phase = "walk" /\ direction = "previous" /\ leftOffset = rightOffset
        /\ left' = start /\ leftOffset' = Offset[zone][start]
        /\ right' = IF Offset[zone][start] = rightOffset THEN start ELSE right
        /\ UNCHANGED <<phase, direction, zone, asked, rightOffset, bound, late, result>>
        /\ start \in Time /\ start < right /\ start \in Int /\ FirstRule <= start
    BY DEF PreviousWindow, Time
  <1>2. From' = From
    BY <1>1 DEF From
  <1>3. rightOffset = Offset[zone][right] /\ zone \in ZoneNames
    BY <1>1 DEF SearchTypeOK
  <1>4. SearchTypeOK'
    <2>1. late' \in BOOLEAN
      BY <1>1 DEF SearchTypeOK
    <2> QED
      BY <1>1, <1>3, <2>1 DEF SearchTypeOK
  <1>5. WindowOK'
    BY <1>1, <1>3 DEF WindowOK
  <1>6. BackwardOK'
    <2>1. ASSUME Spaced(zone), Offset[zone][start] = rightOffset,
                 NEW c \in Time, start < c, c <= right
          PROVE  ~ ChangesAt(zone, c)
      <3>1. c \in start + 1 .. right /\ right - start <= Step
        BY <1>1, <2>1 DEF Time
      <3> HIDE DEF start
      <3> QED
        BY <1>1, <1>3, <2>1, <3>1, QuietWindow
    <2>2. ASSUME Spaced(zone), NEW c \in Time, right' < c, c < From, ChangesAt(zone, c)
          PROVE  PassedOver(c)
      <3>1. CASE right < c
        BY <1>1, <2>2, <3>1 DEF BackwardOK
      <3>2. CASE c <= right
        BY <1>1, <2>1, <2>2, <3>2 DEF Time
      <3> QED
        BY <3>1, <3>2, <1>1 DEF Time
    <2>3. right' < From
      BY <1>1 DEF BackwardOK
    <2>4. IF late' THEN From' > Horizon /\ bound' = From' - Year ELSE bound' = FirstRule
      BY <1>1, <1>2 DEF BackwardOK
    <2> QED
      BY <1>1, <1>2, <2>2, <2>3, <2>4 DEF BackwardOK, PassedOver, Spaced, ChangesAt
  <1> QED
    BY <1>1, <1>4, <1>5, <1>6
       DEF ForwardOK, FoundIsTransition, NextIsFirst, PreviousIsLast, NeverInvalid

LEMMA WindowFoundIInv ==
    ASSUME IInv, WindowFound
    PROVE  IInv'
  <1> USE Numbers DEF IInv
  <1>1. /\ phase = "walk" /\ leftOffset # rightOffset /\ phase' = "bisect"
        /\ UNCHANGED <<direction, zone, asked, left, right, leftOffset, rightOffset, bound,
                       late, result>>
    BY DEF WindowFound, walk
  <1>2. From' = From
    BY <1>1 DEF From
  <1>3. left # right
    BY <1>1 DEF SearchTypeOK
  <1>4. SearchTypeOK'
    BY <1>1 DEF SearchTypeOK
  <1>5. WindowOK'
    BY <1>1, <1>3 DEF WindowOK
  <1>6. ForwardOK' /\ BackwardOK'
    BY <1>1, <1>2 DEF ForwardOK, BackwardOK, PassedOver, Spaced, ChangesAt
  <1> QED
    BY <1>1, <1>4, <1>5, <1>6
       DEF FoundIsTransition, NextIsFirst, PreviousIsLast, NeverInvalid

(* What a turn of the bisection starts from. *)
LEMMA Bisecting ==
    ASSUME IInv, phase = "bisect", right - left > 1
    PROVE  /\ Middle \in Int /\ Middle \in Time /\ left < Middle /\ Middle < right
           /\ right - left <= Step /\ zone \in ZoneNames
           /\ left \in Time /\ right \in Time
           /\ leftOffset = Offset[zone][left] /\ rightOffset = Offset[zone][right]
  <1>1. Middle \in Int /\ left < Middle /\ Middle < right
    BY Numbers, MiddleInside DEF IInv, Middle
  <1>2. Middle \in Time
    BY <1>1, Numbers DEF IInv, Time
  <1> QED
    BY <1>1, <1>2, Numbers DEF IInv, WindowOK, SearchTypeOK

LEMMA BisectLeftIInv ==
    ASSUME IInv, BisectLeft
    PROVE  IInv'
  <1> USE Numbers DEF IInv
  <1>1. /\ phase = "bisect" /\ right - left > 1 /\ Offset[zone][Middle] = leftOffset
        /\ left' = Middle
        /\ UNCHANGED <<phase, direction, zone, asked, right, leftOffset, rightOffset, bound,
                       late, result>>
    BY DEF BisectLeft
  <1>2. From' = From
    BY <1>1 DEF From
  <1>3. /\ Middle \in Int /\ Middle \in Time /\ left < Middle /\ Middle < right
        /\ right - left <= Step /\ zone \in ZoneNames
        /\ left \in Time /\ right \in Time
        /\ leftOffset = Offset[zone][left] /\ rightOffset = Offset[zone][right]
    BY <1>1, Bisecting
  <1>4. SearchTypeOK'
    BY <1>1, <1>3 DEF SearchTypeOK
  <1>5. WindowOK'
    BY <1>1, <1>3 DEF WindowOK
  <1>6. ForwardOK'
    <2>1. ASSUME Spaced(zone), direction = "next", NEW c \in Time, From < c, c <= Middle
          PROVE  ~ ChangesAt(zone, c)
      <3>1. CASE c <= left
        BY <1>1, <2>1, <3>1 DEF ForwardOK
      <3>2. CASE left < c
        <4>1. c \in left + 1 .. Middle
          BY <1>3, <2>1, <3>2 DEF Time
        <4>2. Offset[zone][Middle] # Offset[zone][right]
          BY <1>1, <1>3 DEF WindowOK
        <4> HIDE DEF IInv
        <4> QED
          BY <1>3, <2>1, <4>1, <4>2, OneHalf
      <3> QED
        BY <3>1, <3>2 DEF Time
    <2> QED
      BY <1>1, <1>2, <1>3, <2>1 DEF ForwardOK, Spaced, ChangesAt
  <1>7. BackwardOK'
    BY <1>1, <1>2 DEF BackwardOK, PassedOver, Spaced, ChangesAt
  <1> QED
    BY <1>1, <1>4, <1>5, <1>6, <1>7
       DEF FoundIsTransition, NextIsFirst, PreviousIsLast, NeverInvalid

LEMMA BisectRightIInv ==
    ASSUME IInv, BisectRight
    PROVE  IInv'
  <1> USE Numbers DEF IInv
  <1>1. /\ phase = "bisect" /\ right - left > 1 /\ Offset[zone][Middle] = rightOffset
        /\ right' = Middle
        /\ UNCHANGED <<phase, direction, zone, asked, left, leftOffset, rightOffset, bound,
                       late, result>>
    BY DEF BisectRight
  <1>2. From' = From
    BY <1>1 DEF From
  <1>3. /\ Middle \in Int /\ Middle \in Time /\ left < Middle /\ Middle < right
        /\ right - left <= Step /\ zone \in ZoneNames
        /\ left \in Time /\ right \in Time
        /\ leftOffset = Offset[zone][left] /\ rightOffset = Offset[zone][right]
    BY <1>1, Bisecting
  <1>4. SearchTypeOK'
    BY <1>1, <1>3 DEF SearchTypeOK
  <1>5. WindowOK'
    BY <1>1, <1>3 DEF WindowOK
  <1>6. ForwardOK'
    BY <1>1, <1>2 DEF ForwardOK, Spaced, ChangesAt
  <1>7. BackwardOK'
    <2>1. ASSUME Spaced(zone), direction = "previous",
                 NEW c \in Time, Middle < c, c < From, ChangesAt(zone, c)
          PROVE  PassedOver(c)
      <3>1. CASE right < c
        BY <1>1, <2>1, <3>1 DEF BackwardOK
      <3>2. CASE c <= right
        <4>1. c \in Middle + 1 .. right
          BY <1>3, <2>1, <3>2 DEF Time
        <4>2. Offset[zone][left] # Offset[zone][Middle]
          BY <1>1, <1>3 DEF WindowOK
        <4> HIDE DEF IInv
        <4> QED
          BY <1>3, <2>1, <4>1, <4>2, OneHalf
      <3> QED
        BY <3>1, <3>2 DEF Time
    <2>2. direction = "previous" =>
             /\ Middle < From
             /\ IF late THEN From > Horizon /\ bound = From - Year ELSE bound = FirstRule
      BY <1>1, <1>3 DEF BackwardOK
    <2> QED
      BY <1>1, <1>2, <1>3, <2>1, <2>2 DEF BackwardOK, PassedOver, Spaced, ChangesAt
  <1> QED
    BY <1>1, <1>4, <1>5, <1>6, <1>7
       DEF FoundIsTransition, NextIsFirst, PreviousIsLast, NeverInvalid

LEMMA BisectInvalidIInv ==
    ASSUME IInv, BisectInvalid
    PROVE  IInv'
  <1> USE DEF IInv
  <1>1. /\ phase = "bisect" /\ right - left > 1 /\ phase' = "invalid"
        /\ Offset[zone][Middle] # leftOffset /\ Offset[zone][Middle] # rightOffset
        /\ UNCHANGED <<direction, zone, asked, left, right, leftOffset, rightOffset, bound,
                       late, result>>
    BY DEF BisectInvalid, walk
  <1>2. ~ Spaced(zone)
    <2> HIDE DEF IInv
    <2> QED
      BY <1>1, Bisecting, Numbers, OneHalf DEF IInv
  <1>3. SearchTypeOK'
    BY <1>1 DEF SearchTypeOK
  <1> QED
    BY <1>1, <1>2, <1>3
       DEF WindowOK, ForwardOK, BackwardOK, FoundIsTransition, NextIsFirst, PreviousIsLast,
           NeverInvalid, Spaced, ChangesAt

LEMMA BisectDoneIInv ==
    ASSUME IInv, BisectDone
    PROVE  IInv'
  <1> USE Numbers DEF IInv
  <1>1. /\ phase = "bisect" /\ right - left <= 1 /\ phase' = "done" /\ result' = right
        /\ UNCHANGED <<direction, zone, asked, left, right, leftOffset, rightOffset, bound, late>>
    BY DEF BisectDone, Answer, walk
  <1>2. /\ left = right - 1 /\ zone \in ZoneNames
        /\ Offset[zone][left] # Offset[zone][right]
    BY <1>1 DEF WindowOK, SearchTypeOK
  <1>3. ChangesAt(zone, right) /\ right # NoTransition
    BY <1>2, ConstantsAssumption DEF ChangesAt
  <1>4. From' = From
    BY <1>1 DEF From
  <1>5. direction = "next" => asked <= From
    BY DEF From, Larger
  <1>6. direction = "previous" => From <= asked
    BY DEF From, LastAsked, SearchTypeOK
  <1>7. direction \in {"next", "previous"}
    BY DEF SearchTypeOK
  <1>8. SearchTypeOK'
    BY <1>1 DEF SearchTypeOK
  <1>9. IF direction = "next" THEN right > asked ELSE right < asked
    <2>1. CASE direction = "next"
      BY <1>1, <1>2, <1>5, <2>1 DEF ForwardOK
    <2>2. CASE direction = "previous"
      BY <1>1, <1>6, <2>2 DEF BackwardOK
    <2> QED
      BY <1>7, <2>1, <2>2
  <1>10. FoundIsTransition'
    BY <1>1, <1>3, <1>9 DEF FoundIsTransition, ChangesAt
  <1>11. NextIsFirst'
    <2> SUFFICES ASSUME direction = "next", Spaced(zone), NEW c \in Time,
                        ChangesAt(zone, c), c > From
                 PROVE  c >= right
      BY <1>1, <1>3, <1>4 DEF NextIsFirst, Spaced, ChangesAt
    <2>1. ~ c <= left
      BY <1>1 DEF ForwardOK
    <2> QED
      BY <1>2, <2>1 DEF Time
  <1>12. PreviousIsLast'
    <2> SUFFICES ASSUME direction = "previous", Spaced(zone), NEW c \in Time,
                        ChangesAt(zone, c), c < From, ~ PassedOver(c)
                 PROVE  c <= right
      BY <1>1, <1>3, <1>4 DEF PreviousIsLast, PassedOver, Spaced, ChangesAt
    <2> QED
      BY <1>1 DEF BackwardOK, Time
  <1> QED
    BY <1>1, <1>8, <1>10, <1>11, <1>12 DEF WindowOK, ForwardOK, BackwardOK, NeverInvalid

(* A walk forward that finds nothing. *)
LEMMA NextGivesUpIInv ==
    ASSUME IInv, NextOutOfTime \/ NextNone
    PROVE  IInv'
  <1> USE Numbers DEF IInv
  <1>1. /\ phase = "walk" /\ direction = "next" /\ phase' = "done" /\ result' = NoTransition
        /\ left + Step > MaxTime \/ left >= bound
        /\ UNCHANGED <<direction, zone, asked, left, right, leftOffset, rightOffset, bound, late>>
    BY DEF NextOutOfTime, NextNone, Answer, walk
  <1>2. From' = From
    BY <1>1 DEF From
  <1>3. SearchTypeOK'
    BY <1>1 DEF SearchTypeOK
  <1>4. NextIsFirst'
    <2> SUFFICES ASSUME Spaced(zone), NEW c \in Time, ChangesAt(zone, c), c > From
                 PROVE  c > Larger(Horizon, From + Year) \/ c > MaxTime - Step
      BY <1>1, <1>2 DEF NextIsFirst, Spaced, ChangesAt
    <2>1. ~ c <= left /\ bound = Larger(Horizon, From + Year)
      BY <1>1 DEF ForwardOK
    <2> QED
      BY <1>1, <2>1 DEF Time, SearchTypeOK
  <1> QED
    BY <1>1, <1>3, <1>4
       DEF WindowOK, ForwardOK, BackwardOK, FoundIsTransition, PreviousIsLast, NeverInvalid

(* A walk backward that finds nothing. *)
LEMMA PreviousGivesUpIInv ==
    ASSUME IInv, PreviousOutOfTime \/ PreviousNone
    PROVE  IInv'
  <1> USE Numbers DEF IInv
  <1>1. /\ phase = "walk" /\ direction = "previous" /\ phase' = "done" /\ result' = NoTransition
        /\ right - Step < FirstRule \/ (right <= bound /\ ~ late)
        /\ UNCHANGED <<direction, zone, asked, left, right, leftOffset, rightOffset, bound, late>>
    BY DEF PreviousOutOfTime, PreviousNone, Answer, walk
  <1>2. From' = From
    BY <1>1 DEF From
  <1>3. SearchTypeOK'
    BY <1>1 DEF SearchTypeOK
  <1>4. right < FirstRule + Step
    BY <1>1 DEF BackwardOK
  <1>5. PreviousIsLast'
    <2> SUFFICES ASSUME Spaced(zone), NEW c \in Time, ChangesAt(zone, c), c < From,
                        ~ PassedOver(c)
                 PROVE  c < FirstRule + Step
      BY <1>1, <1>2 DEF PreviousIsLast, PassedOver, Spaced, ChangesAt
    <2>1. ~ right < c
      BY <1>1 DEF BackwardOK
    <2> QED
      BY <1>4, <2>1 DEF Time
  <1> QED
    BY <1>1, <1>3, <1>5
       DEF WindowOK, ForwardOK, BackwardOK, FoundIsTransition, NextIsFirst, NeverInvalid

(* A zone without transitions, and the return to the caller. *)
LEMMA OutsideIInv ==
    ASSUME IInv
    PROVE  /\ \A z \in ZoneNames, t \in Time : NextFixed(z, t) \/ PreviousFixed(z, t) => IInv'
           /\ Return => IInv'
           /\ UNCHANGED searchVars => IInv'
  <1> USE Numbers DEF IInv
  <1>1. ASSUME NEW z \in ZoneNames, NEW t \in Time, NextFixed(z, t) \/ PreviousFixed(z, t)
        PROVE  IInv'
    <2>1. /\ zone' = z /\ z \in FixedZones /\ asked' = t /\ phase' = "done"
          /\ result' = NoTransition /\ direction' \in {"next", "previous"}
          /\ UNCHANGED <<left, right, leftOffset, rightOffset, bound, late>>
      BY <1>1 DEF NextFixed, PreviousFixed
    <2>2. SearchTypeOK'
      BY <2>1 DEF SearchTypeOK
    <2> QED
      BY <2>1, <2>2
         DEF WindowOK, ForwardOK, BackwardOK, FoundIsTransition, NextIsFirst, PreviousIsLast,
             NeverInvalid
  <1>2. ASSUME Return PROVE IInv'
    <2>1. AnyZone \in ZoneNames
      BY ZonesAssumption DEF AnyZone
    <2>2. late' \in BOOLEAN
      BY <1>2 DEF Return
    <2>3. SearchTypeOK'
      BY <1>2, <2>1, <2>2, ConstantsAssumption DEF Return, SearchTypeOK, Time
    <2> QED
      BY <1>2, <2>3
         DEF Return, WindowOK, ForwardOK, BackwardOK, FoundIsTransition, NextIsFirst,
             PreviousIsLast, NeverInvalid
  <1>3. ASSUME UNCHANGED searchVars PROVE IInv'
    <2>1. From' = From
      BY <1>3 DEF searchVars, From
    <2> QED
      BY <1>3, <2>1
         DEF searchVars, SearchTypeOK, WindowOK, ForwardOK, BackwardOK, PassedOver,
             FoundIsTransition, NextIsFirst, PreviousIsLast, NeverInvalid, Spaced, ChangesAt
  <1> QED
    BY <1>1, <1>2, <1>3

LEMMA StepIInv == IInv /\ [SearchNext]_searchVars => IInv'
  <1> SUFFICES ASSUME IInv, [SearchNext]_searchVars PROVE IInv'
    OBVIOUS
  <1>1. CASE SearchStep
    BY <1>1, NextWindowIInv, NextGivesUpIInv, PreviousWindowIInv, PreviousGivesUpIInv,
       PreviousFromHorizonIInv, WindowFoundIInv, BisectLeftIInv, BisectRightIInv,
       BisectInvalidIInv, BisectDoneIInv
       DEF SearchStep
  <1>2. ASSUME NEW z \in ZoneNames, NEW t \in Time, AskNext(z, t) \/ AskPrevious(z, t)
        PROVE  IInv'
    BY <1>2, OutsideIInv, NextStartIInv, PreviousStartIInv DEF AskNext, AskPrevious
  <1> QED
    BY <1>1, <1>2, OutsideIInv DEF SearchNext

(***************************************************************************)
(* The type invariant of a search holds: the windows stay inside the       *)
(* instants the host can be asked about (GetNamedTimeZoneNextTransition,   *)
(* GetNamedTimeZonePreviousTransition).                                    *)
(***************************************************************************)
THEOREM SearchTypeCorrect == SearchSpec => []SearchTypeOK
  <1>1. IInv => SearchTypeOK
    BY DEF IInv
  <1> QED
    BY <1>1, InitIInv, StepIInv, PTL DEF SearchSpec

(***************************************************************************)
(* For every zone, what a search reports is a transition on the asked side *)
(* of the asked instant (bisect).                                          *)
(***************************************************************************)
THEOREM FoundCorrect == SearchSpec => []FoundIsTransition
  <1>1. IInv => FoundIsTransition
    BY DEF IInv
  <1> QED
    BY <1>1, InitIInv, StepIInv, PTL DEF SearchSpec

(***************************************************************************)
(* For a zone whose changes are at least a window apart, the search        *)
(* forward reports the first change, the search backward the last one, and *)
(* the exception of bisect is never raised                                 *)
(* (GetNamedTimeZoneNextTransition, GetNamedTimeZonePreviousTransition).   *)
(***************************************************************************)
THEOREM SearchExactCorrect == SearchSpec => []SearchExact
  <1>1. IInv => SearchExact
    BY DEF IInv, SearchExact
  <1> QED
    BY <1>1, InitIInv, StepIInv, PTL DEF SearchSpec

-----------------------------------------------------------------------------
(***************************************************************************)
(* The loader.                                                             *)
(***************************************************************************)
LEMMA LoaderSteps == LoaderTypeOK /\ [Next]_vars => [SearchNext]_searchVars
  <1> SUFFICES ASSUME LoaderTypeOK, [Next]_vars PROVE [SearchNext]_searchVars
    OBVIOUS
  <1>1. CASE Search
    BY <1>1 DEF Search, SearchNext
  <1>2. CASE Build
    BY <1>2 DEF Build, BuildAsk, BuildFar, BuildEnd, BuildAdd, BuildFailed, SearchNext,
                LoaderTypeOK
  <1>3. CASE Query \/ QueryReturn
    BY <1>3 DEF Query, QueryReturn, SearchNext
  <1>4. CASE UNCHANGED vars
    BY <1>4 DEF vars, searchVars
  <1> QED
    BY <1>1, <1>2, <1>3, <1>4
       DEF Next, Disable, Enable, LoadDisabled, LoadUnknown, Load, Deliver

(* The instants and the offsets of a transition are integers. *)
LEMMA TransitionType ==
    ASSUME NEW z \in ZoneNames, NEW t \in Time
    PROVE  Transition(z, t) \in [start : Int, offset : Int]
  <1>1. Offset[z][t] \in Int /\ t \in Int /\ TicksPerSecond \in Nat \ {0}
    BY ZonesAssumption, LoaderAssumption, ConstantsAssumption DEF Time
  <1> QED
    BY <1>1 DEF Transition, EpochSeconds, OffsetSeconds

LEMMA LoaderInit == Init => LoaderTypeOK
  <1>1. AnyZone \in ZoneNames /\ MinTime \in Time
    BY ZonesAssumption, ConstantsAssumption DEF AnyZone, Time
  <1> QED
    BY <1>1 DEF Init, LoaderTypeOK

LEMMA LoaderTypeStep ==
    ASSUME LoaderTypeOK, SearchTypeOK, [Next]_vars
    PROVE  LoaderTypeOK'
  <1> USE DEF LoaderTypeOK
  <1>1. AnyZone \in ZoneNames /\ MinTime \in Time
    BY ZonesAssumption, ConstantsAssumption DEF AnyZone, Time
  <1>2. CASE Search \/ Query \/ QueryReturn \/ UNCHANGED vars
    BY <1>2 DEF Search, Query, QueryReturn, loaderVars, vars
  <1>3. CASE BuildAsk \/ BuildFar \/ BuildEnd \/ BuildFailed
    BY <1>3 DEF BuildAsk, BuildFar, BuildEnd, BuildFailed
  <1>4. CASE BuildAdd
    <2>1. result \in Time
      BY <1>4 DEF BuildAdd, SearchTypeOK
    <2>2. Transition(loading, result) \in [start : Int, offset : Int]
      BY <2>1, TransitionType
    <2> QED
      BY <1>4, <2>1, <2>2 DEF BuildAdd
  <1>5. CASE Disable \/ Enable \/ LoadDisabled \/ LoadUnknown \/ Deliver
    <2>1. enabled' \in BOOLEAN
      BY <1>5 DEF Disable, Enable, LoadDisabled, LoadUnknown, Deliver
    <2>2. CASE Disable \/ Enable
      BY <2>1, <2>2 DEF Disable, Enable
    <2>3. CASE LoadDisabled \/ LoadUnknown
      BY <2>1, <2>3 DEF LoadDisabled, LoadUnknown
    <2>4. CASE Deliver
      <3>1. <<>> \in Seq([start : Int, offset : Int])
        OBVIOUS
      <3> QED
        BY <1>1, <2>1, <2>4, <3>1 DEF Deliver
    <2> QED
      BY <1>5, <2>2, <2>3, <2>4
  <1>6. ASSUME NEW z \in ZoneNames, Load(z) PROVE LoaderTypeOK'
    BY <1>1, <1>6, TransitionType DEF Load
  <1> QED
    BY <1>2, <1>3, <1>4, <1>5, <1>6 DEF Next, Build

LEMMA LoaderIInv == Spec => [](LoaderTypeOK /\ IInv)
  <1>1. Init => LoaderTypeOK /\ IInv
    BY LoaderInit, InitIInv DEF Init
  <1>2. LoaderTypeOK /\ IInv /\ [Next]_vars => (LoaderTypeOK /\ IInv)'
    BY LoaderSteps, StepIInv, LoaderTypeStep DEF IInv
  <1> QED
    BY <1>1, <1>2, PTL DEF Spec

(***************************************************************************)
(* The loader's variables keep their types: startingAt never leaves the    *)
(* instants, so that the searches it asks for start at a real instant.     *)
(***************************************************************************)
THEOREM LoaderTypeCorrect == Spec => []LoaderTypeOK
  BY LoaderIInv, PTL

(***************************************************************************)
(* The searches of the loader, interleaved with those of other users, find *)
(* transitions, skip none of a spaced zone and raise nothing for one.      *)
(***************************************************************************)
THEOREM LoaderSearchesCorrect ==
    Spec => [](SearchTypeOK /\ FoundIsTransition /\ NextIsFirst /\ PreviousIsLast /\ NeverInvalid)
  <1>1. IInv => SearchTypeOK /\ FoundIsTransition /\ NextIsFirst /\ PreviousIsLast /\ NeverInvalid
    BY DEF IInv
  <1> QED
    BY <1>1, LoaderIInv, PTL

-----------------------------------------------------------------------------
(* The table. *)

(* What the last search found, and that the search of the loader is its own. *)
AnswerOK ==
    /\ phase = "done" /\ result # NoTransition => result > FirstRule /\ zone \notin FixedZones
    /\ load = "await" =>
          phase # "idle" /\ direction = "next" /\ zone = loading /\ asked = startingAt

(* The last entry of the table is the instant the next search starts from. *)
LastOK ==
    /\ load \in {"ask", "await", "ok"} => Len(table) > 0
    /\ load \in {"none", "disabled"} => table = <<>>
    /\ Len(table) > 0 => table[Len(table)] = Transition(loading, startingAt)
    /\ Len(table) = 1 => startingAt = MinTime
    /\ Len(table) > 1 => ChangesAt(loading, startingAt) /\ startingAt > FirstRule

(* The zones TableExact is about. *)
Regular(z) == Spaced(z) /\ Known(z) /\ WholeSeconds(z)

(* No entry starts after the last. *)
EntriesBelow ==
    WholeSeconds(loading) => \A i \in 1 .. Len(table) : table[i].start <= EpochSeconds(startingAt)

(* The table is exact as far as it goes. *)
ExactSoFar ==
    Len(table) > 0 /\ Regular(loading) =>
        \A t \in Time : t % TicksPerSecond = 0 /\ t <= startingAt =>
            RegimeAt(table, EpochSeconds(t)) * TicksPerSecond = Offset[loading][t]

TableInv ==
    /\ LoaderTypeOK /\ IInv /\ AnswerOK /\ LastOK
    /\ EntriesBelow /\ TableIncreasing /\ ExactSoFar /\ TableExact

LEMMA AnswerStep ==
    ASSUME LoaderTypeOK, IInv, AnswerOK, [Next]_vars
    PROVE  AnswerOK'
  <1> USE DEF AnswerOK
  <1>1. CASE Search
    <2>1. UNCHANGED <<load, loading, startingAt>>
      BY <1>1 DEF Search, loaderVars
    <2>2. CASE NextWindow \/ PreviousWindow
      BY <2>1, <2>2 DEF NextWindow, PreviousWindow
    <2>3. CASE NextOutOfTime \/ NextNone \/ PreviousOutOfTime \/ PreviousNone
      BY <2>1, <2>3 DEF NextOutOfTime, NextNone, PreviousOutOfTime, PreviousNone, Answer, walk
    <2>4. CASE PreviousFromHorizon
      BY <2>1, <2>4 DEF PreviousFromHorizon, WalkBack
    <2>5. CASE WindowFound \/ BisectLeft \/ BisectRight \/ BisectInvalid
      BY <2>1, <2>5 DEF WindowFound, BisectLeft, BisectRight, BisectInvalid, walk
    <2>6. CASE BisectDone
      <3>1. right > FirstRule /\ zone \notin FixedZones
        BY <2>6, ConstantsAssumption DEF BisectDone, IInv, WindowOK, Searching, SearchTypeOK, Time
      <3> QED
        BY <2>1, <2>6, <3>1 DEF BisectDone, Answer, walk
    <2> QED
      BY <1>1, <2>2, <2>3, <2>4, <2>5, <2>6 DEF Search, SearchStep
  <1>2. CASE BuildAsk
    BY <1>2 DEF BuildAsk, AskNext, NextFixed, NextStart
  <1>3. CASE BuildFar \/ Disable \/ Enable \/ LoadDisabled \/ LoadUnknown \/ Deliver
    BY <1>3 DEF BuildFar, Disable, Enable, LoadDisabled, LoadUnknown, Deliver, searchVars
  <1>4. CASE BuildEnd \/ BuildAdd \/ BuildFailed \/ QueryReturn
    BY <1>4 DEF BuildEnd, BuildAdd, BuildFailed, QueryReturn, Return, loaderVars
  <1>5. CASE Query
    BY <1>5 DEF Query, AskNext, AskPrevious, NextFixed, NextStart, PreviousFixed, PreviousStart, WalkBack, loaderVars
  <1>6. ASSUME NEW z \in ZoneNames, Load(z) PROVE AnswerOK'
    BY <1>6 DEF Load, searchVars
  <1>7. CASE UNCHANGED vars
    BY <1>7 DEF vars
  <1> QED
    BY <1>1, <1>2, <1>3, <1>4, <1>5, <1>6, <1>7 DEF Next, Build

(* What the loader has found: a change after startingAt. *)
LEMMA FoundByLoader ==
    ASSUME LoaderTypeOK, IInv, AnswerOK, BuildAdd
    PROVE  /\ result \in Time /\ ChangesAt(loading, result)
           /\ result > startingAt /\ result > FirstRule
           /\ Spaced(loading) =>
                 \A t \in Time : ChangesAt(loading, t) /\ startingAt < t /\ t < result => t <= FirstRule
  <1>1. /\ phase = "done" /\ result # NoTransition /\ direction = "next"
        /\ zone = loading /\ asked = startingAt
    BY DEF BuildAdd, AnswerOK
  <1>2. result \in Time /\ startingAt \in Time /\ FirstRule \in Int
    BY <1>1, ConstantsAssumption DEF IInv, SearchTypeOK, LoaderTypeOK, Time
  <1>3. ChangesAt(loading, result) /\ result > startingAt
    BY <1>1 DEF IInv, FoundIsTransition
  <1>4. result > FirstRule /\ loading \notin FixedZones
    BY <1>1 DEF AnswerOK
  <1>5. ASSUME Spaced(loading), NEW t \in Time, ChangesAt(loading, t), startingAt < t, t < result
        PROVE  t <= FirstRule
    <2> SUFFICES ASSUME ~ (t <= FirstRule) PROVE FALSE
      OBVIOUS
    <2>1. t \in Int /\ startingAt \in Int /\ result \in Int
      BY <1>2, ConstantsAssumption DEF Time
    <2>2. t > From
      BY <1>1, <1>2, <1>5, <2>1 DEF From, Larger
    <2>3. t >= result
      BY <1>1, <1>4, <1>5, <2>2 DEF IInv, NextIsFirst
    <2> QED
      BY <1>5, <2>1, <2>3
  <1> QED
    BY <1>2, <1>3, <1>4, <1>5

LEMMA LastStep ==
    ASSUME LoaderTypeOK, IInv, AnswerOK, LastOK, [Next]_vars
    PROVE  LastOK'
  <1> USE DEF LastOK
  <1>1. CASE Search \/ Query \/ QueryReturn \/ UNCHANGED vars
    BY <1>1 DEF Search, Query, QueryReturn, loaderVars, vars
  <1>2. CASE BuildAsk \/ BuildFar \/ BuildEnd \/ BuildFailed
    BY <1>2 DEF BuildAsk, BuildFar, BuildEnd, BuildFailed
  <1>3. CASE Disable \/ Enable \/ LoadDisabled \/ LoadUnknown
    BY <1>3 DEF Disable, Enable, LoadDisabled, LoadUnknown
  <1>4. CASE BuildAdd
    <2> DEFINE e == Transition(loading, result)
    <2>1. table \in Seq([start : Int, offset : Int]) /\ e \in [start : Int, offset : Int] /\ Len(table) > 0
      BY <1>4, FoundByLoader, TransitionType DEF LoaderTypeOK, BuildAdd
    <2>2. /\ table' = Append(table, e) /\ startingAt' = result /\ loading' = loading
          /\ load' = "ask"
      BY <1>4 DEF BuildAdd
    <2> HIDE DEF e
    <2>3. Len(table') = Len(table) + 1 /\ Len(table') > 1 /\ table'[Len(table')] = e
      BY <2>1, <2>2
    <2>4. ChangesAt(loading, result) /\ result > FirstRule
      BY <1>4, FoundByLoader
    <2> QED
      BY <2>2, <2>3, <2>4 DEF e
  <1>5. CASE Deliver
    BY <1>5 DEF Deliver
  <1>6. ASSUME NEW z \in ZoneNames, Load(z) PROVE LastOK'
    BY <1>6 DEF Load
  <1> QED
    BY <1>1, <1>2, <1>3, <1>4, <1>5, <1>6 DEF Next, Build

-----------------------------------------------------------------------------
(* Seconds. *)

LEMMA DivMod ==
    ASSUME NEW a \in Int, NEW n \in Nat \ {0}
    PROVE  /\ a \div n \in Int /\ a % n \in Int /\ 0 <= a % n /\ a % n < n
           /\ a = n * (a \div n) + (a % n)
  OBVIOUS

LEMMA Multiples ==
    ASSUME NEW n \in Nat \ {0}, NEW p \in Int, NEW q \in Int, p <= q
    PROVE  n * p <= n * q
  OBVIOUS

(* Division keeps the order, and the strict one below a whole second. *)
LEMMA SecondsOrdered ==
    ASSUME NEW t \in Time, NEW u \in Time, t <= u
    PROVE  /\ EpochSeconds(t) \in Int /\ EpochSeconds(u) \in Int
           /\ EpochSeconds(t) <= EpochSeconds(u)
           /\ t < u /\ u % TicksPerSecond = 0 => EpochSeconds(t) < EpochSeconds(u)
  <1> DEFINE n == TicksPerSecond
             p == EpochSeconds(t)
             q == EpochSeconds(u)
             r == t % n
             s == u % n
  <1>1. n \in Nat \ {0} /\ t \in Int /\ u \in Int
    BY LoaderAssumption, ConstantsAssumption DEF Time
  <1>2. /\ p \in Int /\ r \in Int /\ 0 <= r /\ r < n /\ t = n * p + r
        /\ q \in Int /\ s \in Int /\ 0 <= s /\ s < n /\ u = n * q + s
    BY <1>1, DivMod DEF EpochSeconds
  <1> HIDE DEF n, p, q, r, s
  <1>3. n * p \in Int /\ n * q \in Int /\ n * (q + 1) = n * q + n
    BY <1>1, <1>2
  <1>4. p <= q
    <2> SUFFICES ASSUME q + 1 <= p PROVE FALSE
      BY <1>2
    <2>1. n * (q + 1) <= n * p
      BY <1>1, <1>2, Multiples
    <2> QED
      BY <1>1, <1>2, <1>3, <2>1
  <1>5. t < u /\ s = 0 => p < q
    <2> SUFFICES ASSUME t < u, s = 0, q <= p PROVE FALSE
      BY <1>2
    <2>1. n * q <= n * p
      BY <1>1, <1>2, Multiples
    <2> QED
      BY <1>1, <1>2, <1>3, <2>1
  <1> QED
    BY <1>2, <1>4, <1>5 DEF p, q, s, n

(* An offset of whole seconds is converted exactly. *)
LEMMA OffsetExact ==
    ASSUME NEW z \in ZoneNames, NEW t \in Time, WholeSeconds(z)
    PROVE  OffsetSeconds(z, t) \in Int /\ OffsetSeconds(z, t) * TicksPerSecond = Offset[z][t]
  <1> DEFINE n == TicksPerSecond
             a == Offset[z][t]
             q == a \div n
             p == (-a) \div n
             r == (-a) % n
  <1>1. n \in Nat \ {0} /\ a \in Int /\ -a \in Int
    BY LoaderAssumption, ZonesAssumption
  <1>2. a % n = 0
    BY DEF WholeSeconds
  <1>3. q \in Int /\ a = n * q
    <2>1. a = n * q + (a % n) /\ q \in Int
      BY <1>1, DivMod
    <2> HIDE DEF q
    <2> QED
      BY <1>1, <1>2, <2>1
  <1>4. p \in Int /\ r \in Int /\ -a = n * p + r /\ 0 <= r /\ r < n
    BY <1>1, DivMod
  <1>5. OffsetSeconds(z, t) = -p
    BY DEF OffsetSeconds
  <1> HIDE DEF n, a, p, q, r
  <1>6. p + q \in Int /\ n * (p + q) = -r
    BY <1>1, <1>3, <1>4
  <1>7. CASE p + q >= 1
    <2>1. n * 1 <= n * (p + q)
      BY <1>1, <1>6, <1>7, Multiples
    <2> QED
      BY <1>1, <1>4, <1>6, <2>1
  <1>8. CASE p + q <= -1
    <2>1. n * (p + q) <= n * (-1)
      BY <1>1, <1>6, <1>8, Multiples
    <2>2. n * (-1) = -n
      BY <1>1
    <2> QED
      BY <1>1, <1>4, <1>6, <2>1, <2>2
  <1>9. CASE p + q = 0
    <2>1. -p \in Int /\ -p = q
      BY <1>3, <1>4, <1>9
    <2>2. (-p) * n = a
      BY <1>1, <1>3, <2>1
    <2> QED
      BY <1>5, <2>1, <2>2 DEF n, a
  <1> QED
    BY <1>6, <1>7, <1>8, <1>9

-----------------------------------------------------------------------------
(* Looking up a table. *)

Entry == [start : Int, offset : Int]

LEMMA GreatestElement ==
    ASSUME NEW n \in Nat, NEW S \in SUBSET (1 .. n), S # {}
    PROVE  \E i \in S : \A j \in S : j <= i
  <1> DEFINE T == {n - i : i \in S}
  <1>1. T \in SUBSET Nat /\ T # {}
    <2>1. \A i \in S : n - i \in Nat
      OBVIOUS
    <2>2. PICK i \in S : TRUE
      OBVIOUS
    <2>3. n - i \in T
      BY <2>2
    <2> QED
      BY <2>1, <2>3
  <1> HIDE DEF T
  <1>2. PICK k \in T : \A m \in T : k <= m
    BY <1>1, LeastElement
  <1>3. PICK i \in S : k = n - i
    BY <1>2 DEF T
  <1>4. ASSUME NEW j \in S PROVE j <= i
    <2>1. n - j \in T
      BY DEF T
    <2>2. k <= n - j
      BY <1>2, <2>1
    <2> QED
      BY <1>3, <2>2
  <1> QED
    BY <1>3, <1>4

LEMMA OneOrMore == ASSUME NEW n \in Nat, n > 0 PROVE n = 1 \/ n > 1
  OBVIOUS

(* After the last entry the table gives its offset. *)
LEMMA RegimeLast ==
    ASSUME NEW tb \in Seq(Entry), Len(tb) > 0, NEW s \in Int, tb[Len(tb)].start <= s
    PROVE  RegimeAt(tb, s) = tb[Len(tb)].offset
  <1> DEFINE before == {i \in 2 .. Len(tb) : tb[i].start <= s}
             last == CHOOSE i \in before : \A j \in before : j <= i
  <1>1. RegimeAt(tb, s) = IF before = {} THEN tb[1].offset ELSE tb[last].offset
    BY DEF RegimeAt
  <1>2. Len(tb) \in Nat
    OBVIOUS
  <1>3. CASE Len(tb) = 1
    <2>1. before = {}
      BY <1>3
    <2> QED
      BY <1>1, <1>3, <2>1
  <1>4. CASE Len(tb) > 1
    <2>1. Len(tb) \in before /\ \A j \in before : j <= Len(tb)
      BY <1>2, <1>4
    <2>2. before \in SUBSET Nat
      BY <1>2
    <2> HIDE DEF before
    <2>3. last \in before /\ \A j \in before : j <= last
      BY <2>1
    <2> HIDE DEF last
    <2>4. last = Len(tb)
      BY <1>2, <2>1, <2>2, <2>3
    <2> QED
      BY <1>1, <2>1, <2>4
  <1>5. Len(tb) = 1 \/ Len(tb) > 1
    BY <1>2, OneOrMore, Zenon
  <1> QED
    BY <1>3, <1>4, <1>5, Zenon

(* An entry that starts later changes nothing. *)
LEMMA RegimeKept ==
    ASSUME NEW tb \in Seq(Entry), Len(tb) > 0, NEW e \in Entry, NEW s \in Int, s < e.start
    PROVE  RegimeAt(Append(tb, e), s) = RegimeAt(tb, s)
  <1> DEFINE ta == Append(tb, e)
             before == {i \in 2 .. Len(tb) : tb[i].start <= s}
             after == {i \in 2 .. Len(ta) : ta[i].start <= s}
             last == CHOOSE i \in before : \A j \in before : j <= i
  <1>1. /\ Len(tb) \in Nat /\ Len(ta) = Len(tb) + 1 /\ ta[Len(tb) + 1] = e
        /\ \A i \in 1 .. Len(tb) : ta[i] = tb[i]
    OBVIOUS
  <1>2. e.start \in Int
    BY DEF Entry
  <1> HIDE DEF ta
  <1>3. after = before
    <2>1. ~ (ta[Len(tb) + 1].start <= s)
      BY <1>1, <1>2
    <2>2. \A i \in 2 .. Len(ta) : i = Len(tb) + 1 \/ i \in 2 .. Len(tb)
      BY <1>1
    <2>3. \A i \in 2 .. Len(tb) : ta[i] = tb[i] /\ i \in 2 .. Len(ta)
      BY <1>1
    <2> QED
      BY <2>1, <2>2, <2>3
  <1>4. RegimeAt(tb, s) = IF before = {} THEN tb[1].offset ELSE tb[last].offset
    BY DEF RegimeAt
  <1>5. RegimeAt(ta, s) = IF after = {} THEN ta[1].offset
                          ELSE ta[CHOOSE i \in after : \A j \in after : j <= i].offset
    BY DEF RegimeAt
  <1>6. RegimeAt(ta, s) = IF before = {} THEN ta[1].offset ELSE ta[last].offset
    BY <1>3, <1>5
  <1>7. before # {} => last \in before
    <2> SUFFICES ASSUME before # {} PROVE last \in before
      OBVIOUS
    <2>1. before \in SUBSET (1 .. Len(tb))
      BY <1>1
    <2> HIDE DEF before
    <2>2. \E i \in before : \A j \in before : j <= i
      BY <1>1, <2>1, GreatestElement
    <2> QED
      BY <2>2
  <1>8. ta[1] = tb[1] /\ (before # {} => ta[last] = tb[last])
    <2>1. \A i \in before : i \in 1 .. Len(tb)
      BY <1>1
    <2>2. 1 \in 1 .. Len(tb)
      BY <1>1
    <2> HIDE DEF before, last
    <2> QED
      BY <1>1, <1>7, <2>1, <2>2
  <1> HIDE DEF before, last
  <1>9. RegimeAt(ta, s) = RegimeAt(tb, s)
    BY <1>4, <1>6, <1>8
  <1> QED
    BY <1>9 DEF ta

-----------------------------------------------------------------------------
(* The table of a zone. *)

(* Between the instants of two entries nothing changes. *)
LEMMA QuietUpTo ==
    ASSUME NEW z \in ZoneNames, NEW t \in Time, NEW u \in Time, t <= u,
           \A c \in Time : t < c /\ c <= u => ~ ChangesAt(z, c)
    PROVE  Offset[z][u] = Offset[z][t]
  <1>1. t \in Int /\ u \in Int
    BY ConstantsAssumption DEF Time
  <1>2. CASE t = u
    BY <1>2
  <1>3. CASE t < u
    <2>1. \A c \in t + 1 .. u : ~ ChangesAt(z, c)
      <3>1. \A c \in t + 1 .. u : c \in Time /\ t < c /\ c <= u
        BY <1>1, ConstantsAssumption DEF Time
      <3> QED
        BY <3>1
    <2> QED
      BY <1>3, <2>1, BetweenChanges
  <1> QED
    BY <1>1, <1>2, <1>3

(* The loader adds one entry, after the others. *)
LEMMA AddedEntry ==
    ASSUME TableInv, BuildAdd
    PROVE  /\ table \in Seq(Entry) /\ Transition(loading, result) \in Entry
           /\ Len(table) \in Nat /\ Len(table) > 0
           /\ table' = Append(table, Transition(loading, result))
           /\ Len(table') = Len(table) + 1
           /\ table'[Len(table) + 1] = Transition(loading, result)
           /\ \A i \in 1 .. Len(table) : table'[i] = table[i] /\ table[i] \in Entry
           /\ startingAt' = result /\ loading' = loading /\ loading \in ZoneNames
           /\ startingAt \in Time /\ result \in Time /\ startingAt < result
  <1>1. table \in Seq(Entry) /\ loading \in ZoneNames /\ startingAt \in Time
    BY DEF TableInv, LoaderTypeOK, Entry
  <1>2. result \in Time /\ startingAt < result
    BY <1>1, FoundByLoader, ConstantsAssumption DEF TableInv, Time
  <1>3. Transition(loading, result) \in Entry
    BY <1>1, <1>2, TransitionType DEF Entry
  <1>4. Len(table) > 0
    BY DEF TableInv, LastOK, BuildAdd
  <1>5. table' = Append(table, Transition(loading, result)) /\ startingAt' = result /\ loading' = loading
    BY DEF BuildAdd
  <1> QED
    BY <1>1, <1>2, <1>3, <1>4, <1>5

LEMMA EntriesBelowAdd ==
    ASSUME TableInv, BuildAdd
    PROVE  EntriesBelow'
  <1> SUFFICES ASSUME WholeSeconds(loading), NEW i \in 1 .. Len(table) + 1
               PROVE  table'[i].start <= EpochSeconds(result)
    BY AddedEntry DEF EntriesBelow, WholeSeconds, ChangesAt
  <1>1. /\ EpochSeconds(startingAt) \in Int /\ EpochSeconds(result) \in Int
        /\ EpochSeconds(startingAt) <= EpochSeconds(result)
    BY AddedEntry, SecondsOrdered, ConstantsAssumption DEF Time
  <1>2. CASE i = Len(table) + 1
    BY <1>1, <1>2, AddedEntry DEF Transition
  <1>3. CASE i \in 1 .. Len(table)
    <2>1. table[i].start <= EpochSeconds(startingAt) /\ table[i].start \in Int
      BY <1>3, AddedEntry DEF TableInv, EntriesBelow, Entry
    <2> QED
      BY <1>1, <1>3, <2>1, AddedEntry
  <1> QED
    BY <1>2, <1>3, AddedEntry

(* The change before the added one is the last entry of the table. *)
LEMMA QuietBeforeAdded ==
    ASSUME TableInv, BuildAdd, Spaced(loading), startingAt > FirstRule \/ Known(loading),
           NEW t \in Time, startingAt <= t, t < result
    PROVE  Offset[loading][t] = Offset[loading][startingAt]
  <1>1. startingAt \in Int /\ result \in Int /\ FirstRule \in Int /\ t \in Int
    BY AddedEntry, ConstantsAssumption DEF Time
  <1>2. ASSUME NEW c \in Time, startingAt < c, c <= t PROVE ~ ChangesAt(loading, c)
    <2> SUFFICES ASSUME ChangesAt(loading, c) PROVE FALSE
      OBVIOUS
    <2>1. c \in Int /\ c < result
      BY <1>1, <1>2, ConstantsAssumption DEF Time
    <2>2. c <= FirstRule
      BY <1>2, <2>1, FoundByLoader DEF TableInv
    <2>3. Known(loading) => FirstRule < c
      BY DEF Known
    <2> QED
      BY <1>1, <1>2, <2>1, <2>2, <2>3
  <1> QED
    BY <1>2, AddedEntry, QuietUpTo

LEMMA IncreasingAdd ==
    ASSUME TableInv, BuildAdd
    PROVE  TableIncreasing'
  <1> SUFFICES ASSUME WholeSeconds(loading)
               PROVE  /\ \A i \in 1 .. Len(table) : table'[i].start < table'[i + 1].start
                      /\ \A i \in 2 .. Len(table) : Spaced(loading) =>
                            table'[i].offset # table'[i + 1].offset
    BY AddedEntry DEF TableIncreasing, WholeSeconds, Spaced, ChangesAt
  <1>1. table[Len(table)] = Transition(loading, startingAt)
    BY AddedEntry DEF TableInv, LastOK
  <1>2. ChangesAt(loading, result) /\ result % TicksPerSecond = 0
    BY AddedEntry, FoundByLoader DEF TableInv, WholeSeconds
  <1>3. ASSUME NEW i \in 1 .. Len(table) PROVE table'[i].start < table'[i + 1].start
    <2>1. CASE i = Len(table)
      <3>1. EpochSeconds(startingAt) < EpochSeconds(result)
        BY <1>2, AddedEntry, SecondsOrdered, ConstantsAssumption DEF Time
      <3> QED
        BY <1>1, <2>1, <3>1, AddedEntry DEF Transition
    <2>2. CASE i \in 1 .. Len(table) - 1
      <3>1. i + 1 \in 1 .. Len(table)
        BY <2>2, AddedEntry
      <3>2. table[i].start < table[i + 1].start
        BY <2>2, AddedEntry DEF TableInv, TableIncreasing
      <3> QED
        BY <1>3, <3>1, <3>2, AddedEntry
    <2> QED
      BY <2>1, <2>2, AddedEntry
  <1>4. ASSUME NEW i \in 2 .. Len(table), Spaced(loading)
        PROVE  table'[i].offset # table'[i + 1].offset
    <2>1. i \in 1 .. Len(table)
      BY <1>4, AddedEntry
    <2>2. CASE i = Len(table)
      <3>1. startingAt > FirstRule
        BY <1>4, <2>2, AddedEntry DEF TableInv, LastOK
      <3>2. result - 1 \in Time /\ startingAt <= result - 1 /\ result - 1 < result
        BY AddedEntry, <1>2, ConstantsAssumption DEF ChangesAt, Time
      <3>3. Offset[loading][result - 1] = Offset[loading][startingAt]
        BY <1>4, <3>1, <3>2, QuietBeforeAdded
      <3>4. Offset[loading][result] # Offset[loading][startingAt]
        BY <1>2, <3>3 DEF ChangesAt
      <3>5. /\ OffsetSeconds(loading, result) * TicksPerSecond = Offset[loading][result]
            /\ OffsetSeconds(loading, startingAt) * TicksPerSecond = Offset[loading][startingAt]
        BY AddedEntry, OffsetExact
      <3>6. OffsetSeconds(loading, result) # OffsetSeconds(loading, startingAt)
        BY <3>4, <3>5
      <3> QED
        BY <1>1, <2>1, <2>2, <3>6, AddedEntry DEF Transition
    <2>3. CASE i \in 2 .. Len(table) - 1
      <3>1. i + 1 \in 1 .. Len(table)
        BY <2>3, AddedEntry
      <3>2. table[i].offset # table[i + 1].offset
        BY <1>4, <2>3, AddedEntry DEF TableInv, TableIncreasing
      <3> QED
        BY <2>1, <3>1, <3>2, AddedEntry
    <2> QED
      BY <1>4, <2>2, <2>3, AddedEntry
  <1> QED
    BY <1>3, <1>4

(* From the last entry on, up to the next change, the table is exact. *)
LEMMA ExactAfterLast ==
    ASSUME TableInv, Len(table) > 0, WholeSeconds(loading), NEW t \in Time, startingAt <= t,
           Offset[loading][t] = Offset[loading][startingAt]
    PROVE  RegimeAt(table, EpochSeconds(t)) * TicksPerSecond = Offset[loading][t]
  <1>1. /\ table \in Seq(Entry) /\ loading \in ZoneNames /\ startingAt \in Time
        /\ table[Len(table)] = Transition(loading, startingAt)
    BY DEF TableInv, LoaderTypeOK, LastOK, Entry
  <1>2. EpochSeconds(startingAt) <= EpochSeconds(t) /\ EpochSeconds(t) \in Int
    BY <1>1, SecondsOrdered
  <1>3. RegimeAt(table, EpochSeconds(t)) = OffsetSeconds(loading, startingAt)
    BY <1>1, <1>2, RegimeLast DEF Transition
  <1> QED
    BY <1>1, <1>3, OffsetExact

LEMMA ExactAdd ==
    ASSUME TableInv, BuildAdd
    PROVE  ExactSoFar'
  <1> SUFFICES ASSUME Regular(loading), NEW t \in Time, t % TicksPerSecond = 0, t <= result
               PROVE  RegimeAt(table', EpochSeconds(t)) * TicksPerSecond = Offset[loading][t]
    BY AddedEntry DEF ExactSoFar, Regular, Spaced, Known, WholeSeconds, ChangesAt
  <1> DEFINE e == Transition(loading, result)
  <1>1. WholeSeconds(loading) /\ Spaced(loading) /\ Known(loading)
    BY DEF Regular
  <1>2. ChangesAt(loading, result) /\ result % TicksPerSecond = 0
    BY <1>1, AddedEntry, FoundByLoader DEF TableInv, WholeSeconds
  <1>3. t \in Int /\ result \in Int /\ startingAt \in Int
    BY AddedEntry, ConstantsAssumption DEF Time
  <1>4. CASE t < result
    <2>1. EpochSeconds(t) < e.start /\ EpochSeconds(t) \in Int
      BY <1>2, <1>4, AddedEntry, SecondsOrdered DEF Transition
    <2>2. RegimeAt(table', EpochSeconds(t)) = RegimeAt(table, EpochSeconds(t))
      BY <2>1, AddedEntry, RegimeKept
    <2>3. CASE t <= startingAt
      BY <2>2, <2>3, AddedEntry DEF TableInv, ExactSoFar
    <2>4. CASE startingAt < t
      <3>1. startingAt <= t
        BY <1>3, <2>4
      <3>2. Offset[loading][t] = Offset[loading][startingAt]
        BY <1>1, <1>4, <3>1, QuietBeforeAdded
      <3> QED
        BY <1>1, <2>2, <3>1, <3>2, AddedEntry, ExactAfterLast
    <2> QED
      BY <1>3, <2>3, <2>4
  <1>5. CASE t = result
    <2>1. table' \in Seq(Entry) /\ Len(table') > 0 /\ table'[Len(table')] = e
      BY AddedEntry
    <2>2. e.start = EpochSeconds(t) /\ e.offset = OffsetSeconds(loading, t)
      BY <1>5 DEF Transition
    <2>3. EpochSeconds(t) \in Int
      BY SecondsOrdered, <1>3
    <2>4. RegimeAt(table', EpochSeconds(t)) = OffsetSeconds(loading, t)
      BY <2>1, <2>2, <2>3, RegimeLast
    <2> QED
      BY <1>1, <2>4, AddedEntry, OffsetExact
  <1> QED
    BY <1>3, <1>4, <1>5

(* When a search finds nothing the zone does not change any more: the first *)
(* change to come would be within a year of the last one.                   *)
LEMMA NoneLeft ==
    ASSUME TableInv, BuildEnd, Regular(loading)
    PROVE  \A t \in Time : startingAt < t => ~ ChangesAt(loading, t)
  <1>1. /\ phase = "done" /\ result = NoTransition /\ direction = "next"
        /\ zone = loading /\ asked = startingAt /\ loading \in ZoneNames
        /\ Spaced(loading) /\ Known(loading)
    BY DEF BuildEnd, TableInv, AnswerOK, LoaderTypeOK, Regular
  <1>2. startingAt \in Time /\ startingAt \in Int /\ FirstRule \in Int /\ Horizon \in Int
        /\ Year \in Nat /\ MaxTime \in Int /\ Step \in Nat /\ MinTime \in Int
    BY ConstantsAssumption DEF TableInv, LoaderTypeOK, Time
  <1>3. CASE loading \in FixedZones
    BY <1>3, ZonesAssumption DEF ChangesAt
  <1>4. CASE loading \notin FixedZones
    <2> SUFFICES ASSUME NEW t \in Time, startingAt < t, ChangesAt(loading, t) PROVE FALSE
      OBVIOUS
    <2> DEFINE Later == {n \in Nat : startingAt < MinTime + n /\ ChangesAt(loading, MinTime + n)}
    <2>1. t - MinTime \in Later
      <3>1. t - MinTime \in Nat /\ MinTime + (t - MinTime) = t
        BY <1>2 DEF Time
      <3> QED
        BY <3>1
    <2>2. PICK n \in Later : \A m \in Later : n <= m
      <3>1. Later \in SUBSET Nat /\ Later # {}
        BY <2>1
      <3> HIDE DEF Later
      <3> QED
        BY <3>1, LeastElement
    <2> DEFINE c == MinTime + n
    <2>3. /\ c \in Time /\ c \in Int /\ startingAt < c /\ ChangesAt(loading, c)
      BY <1>2, <2>2 DEF ChangesAt, Time
    <2>4. \A u \in Time : ChangesAt(loading, u) /\ u < c => u <= startingAt
      <3> SUFFICES ASSUME NEW u \in Time, ChangesAt(loading, u), u < c, startingAt < u PROVE FALSE
        BY <1>2, <2>3 DEF Time
      <3>1. u - MinTime \in Nat /\ MinTime + (u - MinTime) = u /\ u \in Int
        BY <1>2 DEF Time
      <3>2. u - MinTime \in Later
        BY <3>1
      <3>3. n <= u - MinTime /\ n \in Nat
        BY <2>2, <3>2
      <3> QED
        BY <1>2, <3>1, <3>3
    <2> HIDE DEF c, Later
    <2>5. FirstRule < c /\ c <= MaxTime - Step
      BY <1>1, <2>3 DEF Known
    <2>6. c > From /\ From = Larger(startingAt, FirstRule)
      BY <1>1, <1>2, <2>3, <2>5 DEF From, Larger
    <2>7. c > Larger(Horizon, From + Year) \/ c > MaxTime - Step
      BY <1>1, <1>4, <2>3, <2>6 DEF TableInv, IInv, NextIsFirst
    <2>8. c > Horizon /\ c > startingAt + Year
      BY <1>2, <2>3, <2>5, <2>6, <2>7 DEF Larger
    <2>9. PICK u \in Time : ChangesAt(loading, u) /\ u < c /\ c <= u + Year
      BY <1>1, <1>2, <2>3, <2>8 DEF Known
    <2>10. u <= startingAt /\ u \in Int
      BY <1>2, <2>4, <2>9 DEF Time
    <2> QED
      BY <1>2, <2>3, <2>8, <2>9, <2>10
  <1> QED
    BY <1>3, <1>4

LEMMA ExactAtEnd ==
    ASSUME TableInv, BuildEnd \/ BuildFar
    PROVE  TableExact'
  <1> SUFFICES ASSUME Regular(loading), NEW t \in Time,
                      t % TicksPerSecond = 0, t <= AboutFifteenYearsFromNow
               PROVE  RegimeAt(table, EpochSeconds(t)) * TicksPerSecond = Offset[loading][t]
    <2>1. table' = table /\ loading' = loading
      BY DEF BuildEnd, BuildFar
    <2> QED
      BY <2>1 DEF TableExact, Regular, Spaced, Known, WholeSeconds, ChangesAt, AboutFifteenYearsFromNow
  <1>1. Len(table) > 0 /\ startingAt \in Time /\ loading \in ZoneNames /\ WholeSeconds(loading)
    BY DEF TableInv, LastOK, LoaderTypeOK, BuildEnd, BuildFar, Regular
  <1>2. t \in Int /\ startingAt \in Int /\ AboutFifteenYearsFromNow \in Int
    BY <1>1, ConstantsAssumption, LoaderAssumption DEF Time, AboutFifteenYearsFromNow
  <1>3. CASE t <= startingAt
    BY <1>1, <1>3 DEF TableInv, ExactSoFar
  <1>4. CASE startingAt < t
    <2>1. BuildEnd
      BY <1>2, <1>4 DEF BuildFar
    <2>2. Offset[loading][t] = Offset[loading][startingAt]
      BY <1>1, <1>2, <1>4, <2>1, NoneLeft, QuietUpTo
    <2> QED
      BY <1>1, <1>2, <1>4, <2>2, ExactAfterLast
  <1> QED
    BY <1>2, <1>3, <1>4

(* The table of a zone that is about to be searched. *)
LEMMA TableLoaded ==
    ASSUME TableInv, NEW z \in ZoneNames, Load(z)
    PROVE  EntriesBelow' /\ TableIncreasing' /\ ExactSoFar' /\ TableExact'
  <1> DEFINE e == Transition(z, MinTime)
  <1>1. table' = <<e>> /\ loading' = z /\ startingAt' = MinTime /\ load' = "ask"
    BY DEF Load
  <1>2. MinTime \in Time /\ MinTime \in Int /\ e \in Entry
    BY ConstantsAssumption, TransitionType DEF Time, Entry
  <1>3. e.start = EpochSeconds(MinTime) /\ e.offset = OffsetSeconds(z, MinTime)
    BY DEF Transition
  <1>4. EpochSeconds(MinTime) \in Int /\ EpochSeconds(MinTime) <= EpochSeconds(MinTime)
    BY <1>2, SecondsOrdered
  <1> HIDE DEF e
  <1>5. Len(table') = 1 /\ table'[1] = e /\ table' \in Seq(Entry)
    BY <1>1, <1>2
  <1>6. EntriesBelow' /\ TableIncreasing' /\ TableExact'
    BY <1>1, <1>3, <1>4, <1>5 DEF EntriesBelow, TableIncreasing, TableExact
  <1>7. ExactSoFar'
    <2> SUFFICES ASSUME Regular(z), NEW t \in Time, t <= MinTime
                 PROVE  RegimeAt(table', EpochSeconds(t)) * TicksPerSecond = Offset[z][t]
      BY <1>1 DEF ExactSoFar, Regular, Spaced, Known, WholeSeconds, ChangesAt
    <2>1. t = MinTime
      BY <1>2 DEF Time
    <2>2. {i \in 2 .. Len(table') : table'[i].start <= EpochSeconds(t)} = {}
      BY <1>5
    <2>3. RegimeAt(table', EpochSeconds(t)) = OffsetSeconds(z, MinTime)
      BY <1>3, <1>5, <2>2, Zenon DEF RegimeAt
    <2> QED
      BY <1>2, <2>1, <2>3, OffsetExact DEF Regular
  <1> QED
    BY <1>6, <1>7

LEMMA TableInit == Init => TableInv
  <1> SUFFICES ASSUME Init PROVE TableInv
    OBVIOUS
  <1>1. LoaderTypeOK /\ IInv
    BY LoaderInit, InitIInv DEF Init
  <1>2. table = <<>> /\ Len(table) = 0 /\ load = "none" /\ phase = "idle"
    BY DEF Init, SearchInit
  <1> QED
    BY <1>1, <1>2 DEF TableInv, AnswerOK, LastOK, EntriesBelow, TableIncreasing, ExactSoFar, TableExact

LEMMA TableStep ==
    ASSUME TableInv, [Next]_vars
    PROVE  TableInv'
  <1>1. LoaderTypeOK' /\ IInv' /\ AnswerOK' /\ LastOK'
    BY LoaderSteps, StepIInv, LoaderTypeStep, AnswerStep, LastStep DEF TableInv, IInv
  <1> SUFFICES EntriesBelow' /\ TableIncreasing' /\ ExactSoFar' /\ TableExact'
    BY <1>1 DEF TableInv
  <1> DEFINE Same == table' = table /\ loading' = loading /\ startingAt' = startingAt
  <1>2. ASSUME Same PROVE EntriesBelow' /\ TableIncreasing' /\ ExactSoFar'
    BY <1>2 DEF TableInv, EntriesBelow, TableIncreasing, ExactSoFar, Regular, Spaced, Known, WholeSeconds, ChangesAt
  <1>3. ASSUME Same, load' = load \/ load' # "ok" PROVE TableExact'
    BY <1>3 DEF TableInv, TableExact, Spaced, Known, WholeSeconds, ChangesAt
  <1>4. CASE Search \/ Query \/ QueryReturn \/ UNCHANGED vars
    BY <1>2, <1>3, <1>4 DEF Search, Query, QueryReturn, loaderVars, vars
  <1>5. CASE BuildAsk \/ BuildFailed \/ Disable \/ Enable \/ LoadDisabled \/ LoadUnknown
    BY <1>2, <1>3, <1>5 DEF BuildAsk, BuildFailed, Disable, Enable, LoadDisabled, LoadUnknown
  <1>6. CASE BuildFar \/ BuildEnd
    <2>1. Same
      BY <1>6 DEF BuildFar, BuildEnd
    <2> QED
      BY <1>2, <1>6, <2>1, ExactAtEnd
  <1>7. CASE BuildAdd
    <2>1. TableExact'
      BY <1>7 DEF BuildAdd, TableExact
    <2> QED
      BY <1>7, <2>1, EntriesBelowAdd, IncreasingAdd, ExactAdd
  <1>8. CASE Deliver
    <2>1. table' = <<>> /\ Len(table') = 0 /\ load' = "none"
      BY <1>8 DEF Deliver
    <2> QED
      BY <2>1 DEF EntriesBelow, TableIncreasing, ExactSoFar, TableExact
  <1>9. ASSUME NEW z \in ZoneNames, Load(z)
        PROVE  EntriesBelow' /\ TableIncreasing' /\ ExactSoFar' /\ TableExact'
    BY <1>9, TableLoaded
  <1> QED
    BY <1>4, <1>5, <1>6, <1>7, <1>8, <1>9 DEF Next, Build

(***************************************************************************)
(* The transitions of a table are in strictly increasing order and, for a  *)
(* spaced zone, each changes the offset: the table core bisects in is one  *)
(* it can bisect in, for every zone that changes on whole seconds.         *)
(***************************************************************************)
THEOREM TableIncreasingCorrect == Spec => []TableIncreasing
  <1>1. TableInv => TableIncreasing
    BY DEF TableInv
  <1> QED
    BY <1>1, TableInit, TableStep, PTL DEF Spec

(***************************************************************************)
(* A finished table gives the offset of the host at every second up to     *)
(* fifteen years from now: load_exn and build_transitions leave no         *)
(* transition out and add none, whatever the zone is, if its changes are   *)
(* spaced, known to the host and on whole seconds.                         *)
(***************************************************************************)
THEOREM TableExactCorrect == Spec => []TableExact
  <1>1. TableInv => TableExact
    BY DEF TableInv
  <1> QED
    BY <1>1, TableInit, TableStep, PTL DEF Spec
=============================================================================

-------------------------- MODULE TransitionSearch --------------------------
(***************************************************************************)
(* The search for the transitions of a named time zone in the JavaScript   *)
(* implementation of time zones that core loads (temporal-polyfill.js).    *)
(* The host only answers "what is the offset of this zone at this          *)
(* instant?"; the search walks from an instant in windows of Step until    *)
(* the offset differs between the ends of a window, then bisects the       *)
(* window.  Each turn of each loop is an action.                           *)
(*                                                                         *)
(* An instant is an integer (nanoseconds in the code).  The host's answer  *)
(* is the constant Offset; the constants named after lengths of time keep  *)
(* their order in the code, not their size.                                *)
(***************************************************************************)
EXTENDS Integers

CONSTANTS
    ZoneNames,      \* named zones, the fixed ones included
    FixedZones,     \* "UTC" and the zones written as an offset
    CappedZones,    \* Africa/Casablanca and Africa/El_Aaiun
    Offset,         \* Offset[z][t]: the offset of zone z at instant t
    MinTime,        \* the first representable instant
    MaxTime,        \* the last representable instant
    FirstRule,      \* no zone has a transition before this (1847)
    Step,           \* the window of the walk: two weeks
    Year,           \* 366 days
    Day,            \* 24 hours
    Horizon,        \* now + 3660 days: later rules are not known
    Cap,            \* 2088-01-01, for the capped zones
    NoTransition    \* null

Time == MinTime .. MaxTime

ASSUME ConstantsAssumption ==
    /\ MinTime \in Int /\ MaxTime \in Int
    /\ FirstRule \in Time /\ Horizon \in Time /\ Cap \in Time
    /\ Step \in Nat \ {0} /\ Year \in Nat \ {0} /\ Day \in Nat \ {0}
    /\ FirstRule + Day < Horizon
    /\ NoTransition \notin Int

ASSUME ZonesAssumption ==
    /\ ZoneNames # {}
    /\ Offset \in [ZoneNames -> [Time -> Int]]
    /\ FixedZones \subseteq ZoneNames
    /\ CappedZones \subseteq ZoneNames
    /\ \A z \in FixedZones : \A t, u \in Time : Offset[z][t] = Offset[z][u]

VARIABLES
    phase,          \* "idle", "walk", "bisect", "done" or "invalid"
    direction,      \* "next" or "previous"
    zone,           \* the zone asked about
    asked,          \* the instant the current walk started from
    left, right,    \* the ends of the window
    leftOffset, rightOffset,    \* the zone's offsets at the ends
    bound,          \* where the walk gives up
    late,           \* the walk back started after the horizon
    result          \* the answer of the last search

walk == <<direction, left, right, leftOffset, rightOffset, bound, late>>
searchVars == <<phase, direction, zone, asked, left, right, leftOffset, rightOffset, bound, late, result>>

Larger(m, n) == IF m < n THEN n ELSE m

\* BigInt division truncates.
Half(n) == IF n < 0 THEN -((-n) \div 2) ELSE n \div 2

\* Nobody searches: no locals.
AnyZone == CHOOSE z \in ZoneNames : TRUE

SearchInit ==
    /\ phase = "idle" /\ direction = "next"
    /\ zone = AnyZone
    /\ asked = FirstRule
    /\ left = FirstRule /\ right = FirstRule
    /\ leftOffset = 0 /\ rightOffset = 0
    /\ bound = FirstRule
    /\ late = FALSE
    /\ result = NoTransition

\* The caller has the answer, or the exception.
Return ==
    /\ phase \in {"done", "invalid"}
    /\ phase' = "idle" /\ direction' = "next"
    /\ zone' = AnyZone
    /\ asked' = FirstRule
    /\ left' = FirstRule /\ right' = FirstRule
    /\ leftOffset' = 0 /\ rightOffset' = 0
    /\ bound' = FirstRule
    /\ late' = FALSE
    /\ result' = NoTransition

Answer(r) ==
    /\ phase' = "done"
    /\ result' = r
    /\ UNCHANGED <<zone, asked>>
    /\ UNCHANGED walk

-----------------------------------------------------------------------------
(* The walk forward. *)

\* getNextTransition of a zone without transitions.
NextFixed(z, t) ==
    /\ z \in FixedZones
    /\ zone' = z /\ asked' = t /\ direction' = "next"
    /\ phase' = "done" /\ result' = NoTransition
    /\ UNCHANGED <<left, right, leftOffset, rightOffset, bound, late>>

\* Mutant: the walk ends at the horizon, wherever it starts.
NextStartUpToHorizon(z, t) ==
    LET from == Larger(t, FirstRule)
        offset == Offset[z][from]
    IN  /\ z \notin FixedZones
        /\ phase' = "walk" /\ direction' = "next"
        /\ zone' = z /\ asked' = t
        /\ left' = from /\ right' = from
        /\ leftOffset' = offset /\ rightOffset' = offset
        /\ bound' = Horizon
        /\ late' = FALSE
        /\ UNCHANGED result

\* GetNamedTimeZoneNextTransition up to its loop.  An instant before
\* FirstRule is replaced by FirstRule.
NextStart(z, t) ==
    LET from == Larger(t, FirstRule)
        offset == Offset[z][from]
    IN  /\ z \notin FixedZones
        /\ phase' = "walk" /\ direction' = "next"
        /\ zone' = z /\ asked' = t
        /\ left' = from /\ right' = from
        /\ leftOffset' = offset /\ rightOffset' = offset
        /\ bound' = Larger(Horizon, from + Year)
        /\ late' = FALSE
        /\ UNCHANGED result

\* Mutant: the walk does not move on.
NextWindowStuck ==
    LET end == left + Step
    IN  /\ phase = "walk" /\ direction = "next"
        /\ leftOffset = rightOffset /\ left < bound
        /\ end <= MaxTime
        /\ right' = end
        /\ rightOffset' = Offset[zone][end]
        /\ UNCHANGED <<phase, direction, zone, asked, left, leftOffset, bound, late, result>>

\* One turn of the loop: the window after the current one.
NextWindow ==
    LET end == left + Step
    IN  /\ phase = "walk" /\ direction = "next"
        /\ leftOffset = rightOffset /\ left < bound
        /\ end <= MaxTime
        /\ right' = end
        /\ rightOffset' = Offset[zone][end]
        /\ left' = IF Offset[zone][end] = leftOffset THEN end ELSE left
        /\ UNCHANGED <<phase, direction, zone, asked, leftOffset, bound, late, result>>

\* The next window ends after the last instant.
NextOutOfTime ==
    /\ phase = "walk" /\ direction = "next"
    /\ leftOffset = rightOffset /\ left < bound
    /\ left + Step > MaxTime
    /\ Answer(NoTransition)

NextNone ==
    /\ phase = "walk" /\ direction = "next"
    /\ leftOffset = rightOffset /\ left >= bound
    /\ Answer(NoTransition)

-----------------------------------------------------------------------------
(* The walk backward. *)

PreviousFixed(z, t) ==
    /\ z \in FixedZones
    /\ zone' = z /\ asked' = t /\ direction' = "previous"
    /\ phase' = "done" /\ result' = NoTransition
    /\ UNCHANGED <<left, right, leftOffset, rightOffset, bound, late>>

\* GetNamedTimeZonePreviousTransition up to its loop, walking back from the
\* instant t.  The capped zones have no transition after Cap.
LastAsked(z, t) == IF z \in CappedZones /\ Cap < t THEN Cap ELSE t

WalkBack(z, t) ==
    LET from == LastAsked(z, t)
        offset == Offset[z][from - 1]
    IN  /\ direction' = "previous"
        /\ IF from - 1 < FirstRule
           THEN /\ phase' = "done" /\ result' = NoTransition
                /\ UNCHANGED <<left, right, leftOffset, rightOffset, bound, late>>
           ELSE /\ phase' = "walk"
                /\ left' = from - 1 /\ right' = from - 1
                /\ leftOffset' = offset /\ rightOffset' = offset
                /\ late' = (from > Horizon)
                /\ bound' = IF from > Horizon THEN from - Year ELSE FirstRule
                /\ UNCHANGED result

PreviousStart(z, t) ==
    /\ z \notin FixedZones
    /\ zone' = z /\ asked' = t
    /\ WalkBack(z, t)

PreviousWindow ==
    LET start == right - Step
    IN  /\ phase = "walk" /\ direction = "previous"
        /\ leftOffset = rightOffset /\ right > bound
        /\ start >= FirstRule
        /\ left' = start
        /\ leftOffset' = Offset[zone][start]
        /\ right' = IF Offset[zone][start] = rightOffset THEN start ELSE right
        /\ UNCHANGED <<phase, direction, zone, asked, rightOffset, bound, late, result>>

\* The window before the current one starts before FirstRule.
PreviousOutOfTime ==
    /\ phase = "walk" /\ direction = "previous"
    /\ leftOffset = rightOffset /\ right > bound
    /\ right - Step < FirstRule
    /\ Answer(NoTransition)

\* A walk that started after the horizon looks back one year, then starts
\* again at the horizon.
PreviousFromHorizon ==
    /\ phase = "walk" /\ direction = "previous"
    /\ leftOffset = rightOffset /\ right <= bound
    /\ late
    /\ WalkBack(zone, Horizon - Day)
    /\ UNCHANGED <<zone, asked>>

PreviousNone ==
    /\ phase = "walk" /\ direction = "previous"
    /\ leftOffset = rightOffset /\ right <= bound
    /\ ~late
    /\ Answer(NoTransition)

-----------------------------------------------------------------------------
(* The bisection. *)

WindowFound ==
    /\ phase = "walk"
    /\ leftOffset # rightOffset
    /\ phase' = "bisect"
    /\ UNCHANGED <<zone, asked, result>>
    /\ UNCHANGED walk

Middle == Half(left + right)

BisectLeft ==
    /\ phase = "bisect"
    /\ right - left > 1
    /\ Offset[zone][Middle] = leftOffset
    /\ left' = Middle
    /\ UNCHANGED <<phase, direction, zone, asked, right, leftOffset, rightOffset, bound, late, result>>

BisectRight ==
    /\ phase = "bisect"
    /\ right - left > 1
    /\ Offset[zone][Middle] = rightOffset
    /\ Offset[zone][Middle] # leftOffset
    /\ right' = Middle
    /\ UNCHANGED <<phase, direction, zone, asked, left, leftOffset, rightOffset, bound, late, result>>

\* The middle has a third offset: the code throws "invalid state in bisection".
BisectInvalid ==
    /\ phase = "bisect"
    /\ right - left > 1
    /\ Offset[zone][Middle] \notin {leftOffset, rightOffset}
    /\ phase' = "invalid"
    /\ UNCHANGED <<zone, asked, result>>
    /\ UNCHANGED walk

\* Mutant: the last instant with the old offset.
BisectDoneLeft ==
    /\ phase = "bisect"
    /\ right - left <= 1
    /\ Answer(left)

BisectDone ==
    /\ phase = "bisect"
    /\ right - left <= 1
    /\ Answer(right)

SearchStep ==
    \/ NextWindow \/ NextOutOfTime \/ NextNone
    \/ PreviousWindow \/ PreviousOutOfTime \/ PreviousFromHorizon \/ PreviousNone
    \/ WindowFound
    \/ BisectLeft \/ BisectRight \/ BisectInvalid \/ BisectDone

AskNext(z, t) == phase = "idle" /\ (NextFixed(z, t) \/ NextStart(z, t))

AskPrevious(z, t) == phase = "idle" /\ (PreviousFixed(z, t) \/ PreviousStart(z, t))

SearchNext ==
    \/ SearchStep
    \/ Return
    \/ \E z \in ZoneNames, t \in Time : AskNext(z, t) \/ AskPrevious(z, t)

SearchSpec == SearchInit /\ [][SearchNext]_searchVars /\ WF_searchVars(SearchStep)

-----------------------------------------------------------------------------
(* What a search must answer. *)

\* The zone changes its offset at t.
ChangesAt(z, t) == t - 1 \in Time /\ t \in Time /\ Offset[z][t - 1] # Offset[z][t]

\* Two changes of the zone are never in one window of the walk.
Spaced(z) ==
    \A t, u \in Time : ChangesAt(z, t) /\ ChangesAt(z, u) /\ t < u => u - t >= Step

\* The instant a walk really starts from.
From == IF direction = "next" THEN Larger(asked, FirstRule) ELSE LastAsked(zone, asked)

\* TYPE INVARIANT of the search: the window lies in the instants the host
\* can be asked about, and its ends are labelled with their own offsets.
SearchTypeOK ==
    /\ phase \in {"idle", "walk", "bisect", "done", "invalid"}
    /\ direction \in {"next", "previous"}
    /\ zone \in ZoneNames
    /\ asked \in Time
    /\ left \in FirstRule .. MaxTime /\ right \in left .. MaxTime
    /\ bound \in Int /\ late \in BOOLEAN
    /\ result \in Time \cup {NoTransition}
    /\ phase \in {"walk", "bisect"} =>
          /\ leftOffset = Offset[zone][left]
          /\ rightOffset = Offset[zone][right]

\* What a search reports is a transition of the zone, on the asked side of
\* the asked instant, whatever the zone's offsets are (bisect,
\* GetNamedTimeZoneNextTransition, GetNamedTimeZonePreviousTransition).
FoundIsTransition ==
    phase = "done" /\ result # NoTransition =>
        /\ ChangesAt(zone, result)
        /\ IF direction = "next" THEN result > asked ELSE result < asked

\* When no two changes of the zone fit in one window, the search forward
\* skips none: it reports the first one, and reports none only when there is
\* none up to its bound.
NextIsFirst ==
    phase = "done" /\ direction = "next" /\ zone \notin FixedZones /\ Spaced(zone) =>
        \A t \in Time :
            ChangesAt(zone, t) /\ t > From =>
                IF result = NoTransition
                THEN t > Larger(Horizon, From + Year) \/ t > MaxTime - Step
                ELSE t >= result

\* The same for the search backward.  It may pass over the instants between
\* the horizon and a year before the asked one, and those of the last window
\* before FirstRule.
PreviousIsLast ==
    phase = "done" /\ direction = "previous" /\ zone \notin FixedZones /\ Spaced(zone) =>
        \A t \in Time :
            ChangesAt(zone, t) /\ t < From =>
                \/ From > Horizon /\ t \in Horizon - Day .. From - Year
                \/ IF result = NoTransition THEN t < FirstRule + Step ELSE t <= result

\* The bisection never meets a third offset in a window with one change.
NeverInvalid == phase = "invalid" => ~ Spaced(zone)

\* When no two changes fit in one window, a search in either direction reports
\* the nearest change and never throws (GetNamedTimeZoneNextTransition,
\* GetNamedTimeZonePreviousTransition).
SearchExact == NextIsFirst /\ PreviousIsLast /\ NeverInvalid
=============================================================================

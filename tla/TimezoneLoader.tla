--------------------------- MODULE TimezoneLoader ---------------------------
(***************************************************************************)
(* Timezone_js_loader: core builds the table of a time zone by asking the  *)
(* JavaScript implementation for one transition after the other, through   *)
(* the stubs of timezone_js_loader_stubs.js.  The searches themselves are  *)
(* TransitionSearch.  JavaScript runs one computation at a time: nothing   *)
(* else searches while a table is built.                                   *)
(***************************************************************************)
EXTENDS TransitionSearch, Sequences

CONSTANTS
    UnknownNames,       \* names the host has no zone for
    TicksPerSecond,     \* instants of one second
    FifteenYears,       \* 131490 hours
    Now                 \* the instant the table is built at

ASSUME LoaderAssumption ==
    /\ UnknownNames \cap ZoneNames = {}
    /\ TicksPerSecond \in Nat \ {0}
    /\ FifteenYears \in Nat /\ Now \in Time

VARIABLES
    enabled,        \* globalThis.DISABLE_TIMEZONE_JS_LOADER is undefined
    load,           \* "none", "ask", "await", "ok", "disabled" or "failed"
    loading,        \* the zone of the table
    startingAt,     \* the instant the next search starts from
    table           \* the transitions found, the first one included

loaderVars == <<enabled, load, loading, startingAt, table>>
vars == <<enabled, load, loading, startingAt, table, phase, direction, zone, asked,
          left, right, leftOffset, rightOffset, bound, late, result>>

Building == load \in {"ask", "await"}

Init ==
    /\ SearchInit
    /\ enabled = TRUE
    /\ load = "none" /\ loading = AnyZone
    /\ startingAt = MinTime
    /\ table = <<>>

\* epochSeconds: BigIntFloorDiv by the nanoseconds of a second.
EpochSeconds(t) == t \div TicksPerSecond

\* utc_offset_s_at_instant: Int64.round_up, then an exact division.
OffsetSeconds(z, t) == -((-Offset[z][t]) \div TicksPerSecond)

Transition(z, t) == [start |-> EpochSeconds(t), offset |-> OffsetSeconds(z, t)]

AboutFifteenYearsFromNow == Now + FifteenYears

Disable ==
    /\ load = "none" /\ phase = "idle"
    /\ enabled' = FALSE
    /\ UNCHANGED <<load, loading, startingAt, table>> /\ UNCHANGED searchVars

Enable ==
    /\ load = "none" /\ phase = "idle"
    /\ enabled' = TRUE
    /\ UNCHANGED <<load, loading, startingAt, table>> /\ UNCHANGED searchVars

LoadDisabled ==
    /\ load = "none" /\ phase = "idle"
    /\ ~ enabled
    /\ load' = "disabled"
    /\ UNCHANGED <<enabled, loading, startingAt, table>> /\ UNCHANGED searchVars

\* Zone.create raises for a name the host does not know.
LoadUnknown ==
    /\ load = "none" /\ phase = "idle"
    /\ enabled /\ UnknownNames # {}
    /\ load' = "failed"
    /\ UNCHANGED <<enabled, loading, startingAt, table>> /\ UNCHANGED searchVars

\* Mutant: the first entry has the offset of today.
LoadFromNow(z) ==
    /\ load = "none" /\ phase = "idle"
    /\ enabled
    /\ load' = "ask"
    /\ loading' = z
    /\ startingAt' = MinTime
    /\ table' = <<[Transition(z, Now) EXCEPT !.start = EpochSeconds(MinTime)]>>
    /\ UNCHANGED enabled /\ UNCHANGED searchVars

Load(z) ==
    /\ load = "none" /\ phase = "idle"
    /\ enabled
    /\ load' = "ask"
    /\ loading' = z
    /\ startingAt' = MinTime
    /\ table' = <<Transition(z, MinTime)>>
    /\ UNCHANGED enabled /\ UNCHANGED searchVars

BuildAsk ==
    /\ load = "ask"
    /\ startingAt <= AboutFifteenYearsFromNow
    /\ AskNext(loading, startingAt)
    /\ load' = "await"
    /\ UNCHANGED <<enabled, loading, startingAt, table>>

\* The search is past fifteen years from now.
BuildFar ==
    /\ load = "ask"
    /\ startingAt > AboutFifteenYearsFromNow
    /\ load' = "ok"
    /\ UNCHANGED <<enabled, loading, startingAt, table>> /\ UNCHANGED searchVars

\* The stub returns the instant itself for null: no transition.
BuildEnd ==
    /\ load = "await" /\ phase = "done"
    /\ result = NoTransition
    /\ load' = "ok"
    /\ Return
    /\ UNCHANGED <<enabled, loading, startingAt, table>>

BuildAdd ==
    /\ load = "await" /\ phase = "done"
    /\ result # NoTransition
    /\ load' = "ask"
    /\ startingAt' = result
    /\ table' = Append(table, Transition(loading, result))
    /\ Return
    /\ UNCHANGED <<enabled, loading>>

BuildFailed ==
    /\ load = "await" /\ phase = "invalid"
    /\ load' = "failed"
    /\ Return
    /\ UNCHANGED <<enabled, loading, startingAt, table>>

\* The caller of load takes the result.
Deliver ==
    /\ load \in {"ok", "disabled", "failed"}
    /\ load' = "none" /\ loading' = AnyZone
    /\ startingAt' = MinTime /\ table' = <<>>
    /\ UNCHANGED enabled /\ UNCHANGED searchVars

\* Another user of the time zones.
Query ==
    /\ load = "none"
    /\ \E z \in ZoneNames, t \in Time : AskNext(z, t) \/ AskPrevious(z, t)
    /\ UNCHANGED loaderVars

QueryReturn == load = "none" /\ Return /\ UNCHANGED loaderVars

Search == SearchStep /\ UNCHANGED loaderVars

Build == BuildAsk \/ BuildFar \/ BuildEnd \/ BuildAdd \/ BuildFailed

Next ==
    \/ Search
    \/ Build
    \/ Disable \/ Enable \/ LoadDisabled \/ LoadUnknown
    \/ \E z \in ZoneNames : Load(z)
    \/ Deliver
    \/ Query \/ QueryReturn

\* The loader and the searches are straight-line code: they run until they
\* return.
Spec == Init /\ [][Next]_vars /\ WF_vars(Search) /\ WF_vars(Build)

-----------------------------------------------------------------------------

\* TYPE INVARIANT of the loader.
LoaderTypeOK ==
    /\ enabled \in BOOLEAN
    /\ load \in {"none", "ask", "await", "ok", "disabled", "failed"}
    /\ loading \in ZoneNames
    /\ startingAt \in Time
    /\ table \in Seq([start : Int, offset : Int])

\* Every transition of the zone is known to the host when the table is built:
\* before the horizon, or within a year of the one before it.
Known(z) ==
    \A t \in Time : ChangesAt(z, t) =>
        /\ FirstRule < t /\ t <= MaxTime - Step
        /\ \/ t <= Horizon
           \/ \E u \in Time : ChangesAt(z, u) /\ u < t /\ t <= u + Year

WholeSeconds(z) ==
    \A t \in Time :
        /\ Offset[z][t] % TicksPerSecond = 0
        /\ ChangesAt(z, t) => t % TicksPerSecond = 0

\* How core uses a table: the offset of the last transition that is not
\* after the second asked about.
RegimeAt(transitions, seconds) ==
    LET before == {i \in 2 .. Len(transitions) : transitions[i].start <= seconds}
    IN  IF before = {} THEN transitions[1].offset
        ELSE transitions[CHOOSE i \in before : \A j \in before : j <= i].offset

\* The table gives the host's offset at every second up to fifteen years from
\* now, for a zone whose changes are spaced, known and on whole seconds
\* (load_exn, build_transitions).
TableExact ==
    load = "ok" /\ Spaced(loading) /\ Known(loading) /\ WholeSeconds(loading) =>
        \A t \in Time :
            t % TicksPerSecond = 0 /\ t <= AboutFifteenYearsFromNow =>
                RegimeAt(table, EpochSeconds(t)) * TicksPerSecond = Offset[loading][t]

\* The transitions of the table are in strictly increasing order for any zone
\* that changes on whole seconds only: core finds the regime of a time by
\* bisection in this table. After the first transition of a spaced zone no
\* entry leaves the offset as it was.
TableIncreasing ==
    Len(table) > 0 /\ WholeSeconds(loading) =>
        /\ \A i \in 1 .. Len(table) - 1 : table[i].start < table[i + 1].start
        /\ \A i \in 2 .. Len(table) - 1 : Spaced(loading) =>
              table[i].offset # table[i + 1].offset

\* A table that is being built is finished, whatever the zone's offsets are:
\* the walks and the bisections end.
LoadEnds == Building ~> ~ Building
=============================================================================

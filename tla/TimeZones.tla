------------------------------ MODULE TimeZones ------------------------------
(***************************************************************************)
(* Instants and wall-clock times of a time zone in temporal-polyfill.js.   *)
(* The host formats an instant in a zone (HostOffset); the code recovers   *)
(* the offset from the formatted fields, and the instants of a wall-clock  *)
(* time from the offsets a day before and a day after.                     *)
(***************************************************************************)
EXTENDS IsoTime

CONSTANTS
    ZoneNames,          \* the zones
    OffsetZones,        \* the ones whose name is an offset
    HostOffset(_, _)    \* the host's offset of a zone at an instant

ASSUME HostOffsetAssumption == \A z \in ZoneNames, ns \in MinInstant .. MaxInstant : HostOffset(z, ns) \in Int

\* What the host formats: the fields down to the second.
HostWall(z, ns) == GetISOPartsFromEpoch(ns + HostOffset(z, ns))

\* The fields below the second are those of the instant.
JoinFields(host, utc) ==
    BalanceISODateTime(host.date, [i \in Fields |-> IF i <= 3 THEN host.time[i] ELSE utc.time[i]])

GetNamedTimeZoneDateTimeParts(z, ns) == JoinFields(HostWall(z, ns), GetISOPartsFromEpoch(ns))

\* The year is brought into one cycle of 400, so that the host's Date can
\* represent every wall-clock time.
CycledNanoseconds(parts) ==
    EpochNanoseconds([parts.date EXCEPT !.year = Rem(@, 400)], parts.time)
        + 146097 * DayLength * Quo(parts.date.year, 400)

GetNamedTimeZoneOffsetNanoseconds(z, ns) ==
    CycledNanoseconds(GetNamedTimeZoneDateTimeParts(z, ns)) - ns

GetOffsetNanosecondsFor(z, ns) ==
    IF z \in OffsetZones THEN HostOffset(z, 0) ELSE GetNamedTimeZoneOffsetNanoseconds(z, ns)

ShiftedBy(utc, offset) == BalanceISODateTime(utc.date, [utc.time EXCEPT ![6] = @ + offset])

GetPlainDateTimeFor(z, ns) ==
    CreateTemporalDateTime(ShiftedBy(GetISOPartsFromEpoch(ns), GetOffsetNanosecondsFor(z, ns)))

\* The candidates are the instants with the offset of a day before and of a
\* day after; those whose wall-clock time is the given one are kept.
OffsetDayBefore(z, ns) ==
    GetNamedTimeZoneOffsetNanoseconds(z, IF ns - DayLength < MinInstant THEN ns ELSE ns - DayLength)

OffsetDayAfter(z, ns) ==
    GetNamedTimeZoneOffsetNanoseconds(z, IF ns + DayLength > MaxInstant THEN ns ELSE ns + DayLength)

\* Those of at most two instants that pass the test, in their order.
Filtered(s, Test(_)) ==
    LET at(i) == IF i \in DOMAIN s /\ Test(s[i]) THEN <<s[i]>> ELSE <<>>
    IN  at(1) \o at(2)

Candidates(ns, o, p) == IF o = p THEN <<ns - o>> ELSE <<ns - o, ns - p>>

KeepCandidates(z, dt, s) ==
    LET HasWallTime(i) == GetNamedTimeZoneDateTimeParts(z, i) = dt
    IN  IF \E i \in DOMAIN s : ValidateEpochNanoseconds(s[i]) = {} THEN {} ELSE {Filtered(s, HasWallTime)}

GetNamedTimeZoneEpochNanoseconds(z, dt, ns) ==
    KeepCandidates(z, dt, Candidates(ns, OffsetDayBefore(z, ns), OffsetDayAfter(z, ns)))

\* The instants at which the clocks of the zone show dt, in ascending order.
GetPossibleInstantsFor(z, dt) ==
    UNION {IF z \in OffsetZones THEN {<<i>> : i \in ValidateEpochNanoseconds(ns - HostOffset(z, 0))}
           ELSE GetNamedTimeZoneEpochNanoseconds(z, dt, ns) : ns \in GetUTCEpochNanoseconds(dt)}

-----------------------------------------------------------------------------
(* Date-times and durations of a calendar part and a time part. *)

Duration(c, t) == [type |-> "Duration", calendar |-> c, time |-> t]
NoCalendar == Calendar(0, 0, 0, 0)

CalendarFields(c) == <<c.years, c.months, c.weeks, c.days>>
DurationFields(d) == CalendarFields(d.calendar) \o d.time

FirstSign(s) ==
    IF \A i \in DOMAIN s : s[i] = 0 THEN 0
    ELSE Sign(s[CHOOSE i \in DOMAIN s : s[i] # 0 /\ \A j \in 1 .. i - 1 : s[j] = 0])

DurationSign(d) == FirstSign(DurationFields(d))
CalendarSign(c) == FirstSign(CalendarFields(c))

\* The constructor of Duration rejects fields of two signs.
OfOneSign(s) == \A i, j \in DOMAIN s : s[i] = 0 \/ s[j] = 0 \/ Sign(s[i]) = Sign(s[j])

RejectDuration(d) == IF OfOneSign(DurationFields(d)) THEN {d} ELSE {}

Scale(sign, d) ==
    Duration([f \in DOMAIN d.calendar |-> sign * d.calendar[f]], [i \in Fields |-> sign * d.time[i]])

CalendarDateAdd(d, c, overflow) ==
    IF OfOneSign(CalendarFields(c)) THEN UNION {CreateTemporalDate(e) : e \in AddISODate(d, c, overflow)}
    ELSE {}

\* t: the sum of the times, with the days it carries.
AddDays(d, c, t, overflow) ==
    {DateTime(e, t.time) : e \in CalendarDateAdd(d, [c EXCEPT !.days = @ + t.deltaDays], overflow)}

AddDateTime(dt, dur, overflow) ==
    UNION {AddDays(d, dur.calendar, AddTime(dt.time, dur.time), overflow) : d \in CreateTemporalDate(dt.date)}

-----------------------------------------------------------------------------
(* The instant of a wall-clock time that the zone has twice or never. *)

\* Mutant: a gap of the wrong sign.
GapLengthReversed(z, ns) ==
    GetOffsetNanosecondsFor(z, ns - DayLength) - GetOffsetNanosecondsFor(z, ns + DayLength)

GapLength(z, ns) == GetOffsetNanosecondsFor(z, ns + DayLength) - GetOffsetNanosecondsFor(z, ns - DayLength)

MoveWallClock(dt, ns) == AddDateTime(dt, Duration(NoCalendar, [Midnight EXCEPT ![6] = ns]), "constrain")

PickInstant(s, disambiguation) ==
    IF s = <<>> THEN {} ELSE {s[IF disambiguation = "earlier" THEN 1 ELSE Len(s)]}

\* A time in a gap is moved by the length of the gap, which is the difference
\* of the offsets around it.
InstantInGap(z, dt, ns, disambiguation) ==
    LET direction == IF disambiguation = "earlier" THEN -1 ELSE 1
    IN  IF disambiguation = "reject" \/ ~ InRange(ns, MinInstant + DayLength, MaxInstant - DayLength)
        THEN {}
        ELSE UNION {PickInstant(s, disambiguation) :
                s \in UNION {GetPossibleInstantsFor(z, m) :
                          m \in MoveWallClock(dt, direction * GapLength(z, ns))}}

DisambiguatePossibleInstants(possible, z, dt, disambiguation) ==
    CASE Len(possible) = 1 -> {possible[1]}
      [] Len(possible) > 1 /\ disambiguation \in {"compatible", "earlier"} -> {possible[1]}
      [] Len(possible) > 1 /\ disambiguation = "later" -> {possible[Len(possible)]}
      [] Len(possible) > 1 /\ disambiguation = "reject" -> {}
      [] OTHER -> UNION {InstantInGap(z, dt, ns, disambiguation) : ns \in GetUTCEpochNanoseconds(dt)}

GetInstantFor(z, dt, disambiguation) ==
    UNION {DisambiguatePossibleInstants(p, z, dt, disambiguation) : p \in GetPossibleInstantsFor(z, dt)}

\* The same of a wall-clock time that may be out of range.
InstantAt(z, dt, disambiguation) ==
    UNION {GetInstantFor(z, d, disambiguation) : d \in CreateTemporalDateTime(dt)}

\* Years to days are added to the wall-clock date, the rest to the instant.
MoveDate(dt, c, overflow) ==
    {DateTime(e, dt.time) : e \in UNION {CalendarDateAdd(d, c, overflow) : d \in CreateTemporalDate(dt.date)}}

AddDatePart(ns, z, c, overflow) ==
    UNION {InstantAt(z, moved, "compatible") :
        moved \in UNION {MoveDate(dt, c, overflow) : dt \in GetPlainDateTimeFor(z, ns)}}

AddZonedDateTime(ns, z, dur, overflow) ==
    UNION {AddInstant(i, dur.time) :
        i \in IF CalendarSign(dur.calendar) = 0 THEN {ns} ELSE AddDatePart(ns, z, dur.calendar, overflow)}

\* The offset an input carries against the offsets the zone has then: exact,
\* preferred, ignored or required.  Text may give it to the minute only.
OffsetMatches(o, offset, matchMinutes) ==
    o = offset \/ (matchMinutes /\ RoundNumberToIncrement(o, UnitLength[2], "halfExpand") = offset)

MatchingOffset(z, possible, offset, matchMinutes) ==
    LET Matches(i) == OffsetMatches(GetOffsetNanosecondsFor(z, i), offset, matchMinutes)
    IN  Filtered(possible, Matches)

ChooseMatching(matching, possible, z, dt, disambiguation, option) ==
    CASE matching # <<>> -> {matching[1]}
      [] matching = <<>> /\ option = "reject" -> {}
      [] OTHER -> DisambiguatePossibleInstants(possible, z, dt, disambiguation)

InterpretISODateTimeOffset(z, dt, behaviour, offset, disambiguation, option, matchMinutes) ==
    LET ignored == behaviour = "wall" \/ option = "ignore"
        exact == behaviour = "exact" \/ option = "use"
    IN  CASE ignored -> InstantAt(z, dt, disambiguation)
          [] ~ ignored /\ exact ->
                UNION {UNION {ValidateEpochNanoseconds(ns - offset) : ns \in GetUTCEpochNanoseconds(d)} :
                    d \in CreateTemporalDateTime(dt)}
          [] OTHER ->
                UNION {ChooseMatching(MatchingOffset(z, possible, offset, matchMinutes), possible, z, dt,
                                      disambiguation, option) :
                    possible \in UNION {GetPossibleInstantsFor(z, d) : d \in CreateTemporalDateTime(dt)}}
=============================================================================

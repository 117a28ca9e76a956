------------------------------ MODULE Durations ------------------------------
(***************************************************************************)
(* Durations in temporal-polyfill.js: balancing, rounding, adding and      *)
(* comparing them, alone or relative to a date or to a date-time of a time *)
(* zone, whose days may be longer or shorter than 24 hours.                *)
(***************************************************************************)
EXTENDS TimeZones

\* The starting point a duration is relative to: none, a date, or an instant
\* in a zone.
NoStart == [kind |-> "none"]
DateStart(d) == [kind |-> "date", date |-> d]
ZonedStart(ns, z) == [kind |-> "zoned", ns |-> ns, zone |-> z]

ZonedStarts == [kind : {"zoned"}, ns : Int, zone : ZoneNames]

IsZoned(start) == start.kind = "zoned"

\* ToTemporalDate of the starting point.
StartDate(start) ==
    CASE start.kind = "none" -> {}
      [] start.kind = "date" -> {start.date}
      [] start.kind = "zoned" -> {dt.date : dt \in GetPlainDateTimeFor(start.zone, start.ns)}

Days(n) == Duration(Calendar(0, 0, 0, n), Midnight)

-----------------------------------------------------------------------------
(* Balancing. *)

\* A number of nanoseconds in the fields from the unit down.
TimeFields(ns, unit) ==
    LET largest == IF IsDateUnit(unit) THEN 1 ELSE Field(unit)
        sign == IF ns < 0 THEN -1 ELSE 1
        Whole(i) == Magnitude(ns) \div UnitLength[i]
    IN  [i \in Fields |-> CASE i < largest -> 0
                            [] i = largest -> sign * Whole(i)
                            [] i > largest -> sign * (Whole(i) % Radix[i])]

\* BalanceDuration without a starting point.
BalanceNanoseconds(ns, unit) ==
    IF IsDateUnit(unit) THEN [days |-> Quo(ns, DayLength), time |-> TimeFields(Rem(ns, DayLength), unit)]
    ELSE [days |-> 0, time |-> TimeFields(ns, unit)]

BalancePlainDuration(days, t, unit) == BalanceNanoseconds(TotalDurationNanoseconds(days, t, 0), unit)

\* A calendar part whose days, and a time, have been balanced.
Balance(c, b) == Duration([c EXCEPT !.days = b.days], b.time)

BalanceWithTime(c, t, unit) == Balance(c, BalancePlainDuration(c.days, t, unit))

DatesAndTime(from, to, t, unit) ==
    {BalanceWithTime(DifferenceISODate(d, e, LargerOfTwoTemporalUnits("day", unit)), t, unit) :
        d \in CreateTemporalDate(from), e \in CreateTemporalDate(to)}

\* When the times differ in the other direction than the dates, a day is
\* borrowed from the date.
BorrowDay(dt, du, t, sign, unit) ==
    IF CompareISODate(du.date, dt.date) = -sign
    THEN DatesAndTime(BalanceISODate(dt.date.year, dt.date.month, dt.date.day - sign), du.date,
                      BalancePlainDuration(-sign, t, unit).time, unit)
    ELSE DatesAndTime(dt.date, du.date, t, unit)

DifferenceISODateTime(dt, du, unit) ==
    UNION {BorrowDay(dt, du, t, TimeSign(t), unit) : t \in DifferenceTime(dt.time, du.time)}

\* Mutant: every day has 24 hours.
AfterDaysOf24Hours(ns, z, n) == ValidateEpochNanoseconds(ns + n * DayLength)

\* The instant n days of the zone later.
AfterDays(ns, z, n) == AddZonedDateTime(ns, z, Days(n), "constrain")

\* The days of a zone from the instant at, one at a time, as long as they fit
\* into ns; each day starts where the one before it ended.  A day without
\* length fits for ever: the loop never ends, which is the length 0 here.
WholeDays[z \in ZoneNames, at \in Int, ns \in Int, days \in Int, sign \in {-1, 1}] ==
    UNION {IF (ns - (next - at)) * sign >= 0 /\ next # at
           THEN WholeDays[z, next, ns - (next - at), days + sign, sign]
           ELSE {[days |-> days, nanoseconds |-> ns, dayLength |-> Magnitude(next - at)]} :
        next \in AfterDays(at, z, sign)}

\* A guess that passes the end is taken back a day at a time.
TakenBack[start \in ZonedStarts, end \in Int, at \in Int, days \in Int] ==
    IF days > 0 /\ at > end
    THEN UNION {TakenBack[start, end, i, days - 1] : i \in AfterDays(start.ns, start.zone, days - 1)}
    ELSE {[at |-> at, days |-> days]}

\* The first guess is the days the wall clock shows between the two instants.
WallClockDays(z, from, to) ==
    {dur.calendar.days : dur \in
        UNION {DifferenceISODateTime(dt, du, "day") :
            dt \in GetPlainDateTimeFor(z, from), du \in GetPlainDateTimeFor(z, to)}}

Guesses(start, end) ==
    UNION {{[at |-> at, days |-> n] : at \in AfterDays(start.ns, start.zone, n)} :
        n \in WallClockDays(start.zone, start.ns, end)}

SettleGuess(start, end, g) == IF end > start.ns THEN TakenBack[start, end, g.at, g.days] ELSE {g}

CountedDays(ns, start) ==
    LET end == start.ns + ns
    IN  IF ValidateEpochNanoseconds(end) = {} THEN {}
        ELSE UNION {WholeDays[start.zone, c.at, end - c.at, c.days, Sign(ns)] :
                c \in UNION {SettleGuess(start, end, g) : g \in Guesses(start, end)}}

ZonedNanosecondsToDays(ns, start) ==
    {r \in CountedDays(ns, start) :
        /\ r.days = 0 \/ Sign(r.days) = Sign(ns)
        /\ r.nanoseconds = 0 \/ Sign(r.nanoseconds) = Sign(ns)
        /\ Magnitude(r.nanoseconds) < r.dayLength}

PlainNanosecondsToDays(ns) ==
    [days |-> Quo(ns, DayLength), nanoseconds |-> Rem(ns, DayLength), dayLength |-> DayLength]

NanosecondsToDays(ns, start) ==
    IF ns = 0 \/ ~ IsZoned(start) THEN {PlainNanosecondsToDays(ns)} ELSE ZonedNanosecondsToDays(ns, start)

\* The nanoseconds of days and a time, counted from the start.
SpanLength(days, t, start) ==
    IF IsZoned(start)
    THEN {i - start.ns :
             i \in AddZonedDateTime(start.ns, start.zone, Duration(Calendar(0, 0, 0, days), t), "constrain")}
    ELSE {TotalDurationNanoseconds(days, t, 0)}

BalanceLength(ns, unit, start) ==
    IF IsDateUnit(unit)
    THEN {[days |-> r.days, time |-> TimeFields(r.nanoseconds, unit)] : r \in NanosecondsToDays(ns, start)}
    ELSE {[days |-> 0, time |-> TimeFields(ns, unit)]}

BalanceDuration(days, t, unit, start) ==
    UNION {BalanceLength(ns, unit, start) : ns \in SpanLength(days, t, start)}

CalendarUnits == {"year", "month", "week"}

\* One step of the calendar unit in the direction of the sign.
OneStep(unit, sign) ==
    CASE unit = "year" -> Calendar(sign, 0, 0, 0)
      [] unit = "month" -> Calendar(0, sign, 0, 0)
      [] unit = "week" -> Calendar(0, 0, sign, 0)

MoveRelativeDate(d, step) ==
    {[date |-> e, days |-> DaysUntil(d, e)] : e \in CalendarDateAdd(d, step, "constrain")}

\* Turns n units, one after the other, into the days, or the months, that
\* they take.
SpendUnits[d \in Dates, days \in Int, months \in Int, unit \in CalendarUnits, n \in Int] ==
    IF n = 0 THEN {[date |-> d, days |-> days, months |-> months]}
    ELSE UNION {SpendUnits[m.date, days + m.days, months + DifferenceISODate(d, m.date, "month").months,
                           unit, n - Sign(n)] :
            m \in MoveRelativeDate(d, OneStep(unit, Sign(n)))}

\* Turns days into units as long as the next unit fits.
GatherUnits[d \in Dates, days \in Int, unit \in CalendarUnits, n \in Int, sign \in {-1, 1}] ==
    UNION {IF Magnitude(days) >= Magnitude(m.days)
           THEN GatherUnits[m.date, days - m.days, unit, n + sign, sign]
           ELSE {[date |-> d, count |-> n, days |-> days, length |-> Magnitude(m.days)]} :
        m \in MoveRelativeDate(d, OneStep(unit, sign))}

SpendYears(c, start) == UNION {SpendUnits[d, 0, 0, "year", c.years] : d \in StartDate(start)}
SpendMonths(c, start) ==
    UNION {SpendUnits[s.date, s.days, 0, "month", c.months] : s \in SpendYears(c, start)}

\* Mutant: the days of the years and months are forgotten.
SpendWeeksAlone(c, start) ==
    UNION {SpendUnits[s.date, 0, 0, "week", c.weeks] : s \in SpendMonths(c, start)}

SpendWeeks(c, start) ==
    UNION {SpendUnits[s.date, s.days, 0, "week", c.weeks] : s \in SpendMonths(c, start)}

\* The fields larger than the unit as fields of at most the unit.
UnbalanceDurationRelative(c, unit, start) ==
    CASE CalendarSign(c) = 0 \/ unit = "year" -> {c}
      [] CalendarSign(c) # 0 /\ unit = "month" ->
            {[c EXCEPT !.years = 0, !.months = @ + s.months] : s \in SpendYears(c, start)}
      [] CalendarSign(c) # 0 /\ unit = "week" ->
            {Calendar(0, 0, c.weeks, c.days + s.days) : s \in SpendMonths(c, start)}
      [] OTHER -> IF c.years = 0 /\ c.months = 0 /\ c.weeks = 0 THEN {c}
                  ELSE {Calendar(0, 0, 0, c.days + s.days) : s \in SpendWeeks(c, start)}

GatherFrom(start, days, unit, count, sign) ==
    UNION {GatherUnits[d, days, unit, count, sign] : d \in StartDate(start)}

GatherYearsAndMonths(c, sign, start) ==
    UNION {{[years |-> y.count, rest |-> m] : m \in GatherUnits[y.date, y.days, "month", c.months, sign]} :
        y \in GatherFrom(start, c.days, "year", c.years, sign)}

\* Twelve months are another year, as often as there are; the loop moves by
\* one year more than it counts.
CarryMonths(c, r, k, sign) ==
    {Calendar(r.years + sign * k, r.rest.count - 12 * sign * k, c.weeks, r.rest.days) :
        s \in SpendUnits[r.rest.date, 0, 0, "year", sign * (k + 1)]}

\* The days as fields of the unit and smaller ones.  Each turn of each loop
\* looks one unit ahead, which may throw.
BalanceDurationRelative(c, unit, start) ==
    LET sign == CalendarSign(c)
    IN  CASE sign = 0 \/ Rank(unit) > 3 -> {c}
          [] sign # 0 /\ unit = "year" ->
                UNION {CarryMonths(c, r, Magnitude(r.rest.count) \div 12, sign) :
                    r \in GatherYearsAndMonths(c, sign, start)}
          [] sign # 0 /\ unit = "month" ->
                {[c EXCEPT !.months = g.count, !.days = g.days] :
                    g \in GatherFrom(start, c.days, "month", c.months, sign)}
          [] sign # 0 /\ unit = "week" ->
                {[c EXCEPT !.weeks = g.count, !.days = g.days] :
                    g \in GatherFrom(start, c.days, "week", c.weeks, sign)}

-----------------------------------------------------------------------------
(* Rounding. *)

MoveRelativeZonedDateTime(start, c) ==
    {ZonedStart(i, start.zone) :
        i \in AddZonedDateTime(start.ns, start.zone, Duration(c, Midnight), "constrain")}

\* What is rounded: a number of nanoseconds, and those of one unit there.
Quantity(ns, length) == [ns |-> ns, length |-> length]

\* days from the date d and the time ns, as years of the length of the one
\* that follows d, on top of count years.
YearsFrom(d, days, count, ns, dayLength) ==
    {Quantity(Magnitude(m.days) * dayLength * count + days * dayLength + ns, Magnitude(m.days) * dayLength) :
        m \in MoveRelativeDate(d, OneStep("year", IF days < 0 THEN -1 ELSE 1))}

AfterWholeYears(y, days, years, count, ns, dayLength) ==
    UNION {YearsFrom(f, days - DaysUntil(y, f), count + years, ns, dayLength) :
        f \in CalendarDateAdd(y, Calendar(years, 0, 0, 0), "constrain")}

PassWholeYears(y, days, count, ns, dayLength) ==
    UNION {AfterWholeYears(y, days, DifferenceISODate(y, e, "year").years, count, ns, dayLength) :
        e \in CalendarDateAdd(y, Calendar(0, 0, 0, days), "constrain")}

\* The years of c and the days after them, from the date d.
YearQuantity(d, c, ns, dayLength) ==
    UNION {PassWholeYears(y, c.days + DaysUntil(y, w), c.years, ns, dayLength) :
        y \in CalendarDateAdd(d, Calendar(c.years, 0, 0, 0), "constrain"),
        w \in CalendarDateAdd(d, [c EXCEPT !.days = 0], "constrain")}

\* The months, or the weeks, of c with the days that fill another one.
GatheredQuantity(d, unit, count, days, ns, dayLength) ==
    {LET length == g.length * dayLength
     IN  Quantity(length * g.count + g.days * dayLength + ns, length) :
        g \in GatherUnits[d, days, unit, count, IF days < 0 THEN -1 ELSE 1]}

MonthQuantity(d, c, ns, dayLength) ==
    UNION {GatheredQuantity(m, "month", c.months, c.days + DaysUntil(m, w), ns, dayLength) :
        m \in CalendarDateAdd(d, Calendar(c.years, c.months, 0, 0), "constrain"),
        w \in CalendarDateAdd(d, [c EXCEPT !.days = 0], "constrain")}

DateQuantity(c, unit, start, ns, dayLength) ==
    CASE unit = "year" -> UNION {YearQuantity(d, c, ns, dayLength) : d \in StartDate(start)}
      [] unit = "month" -> UNION {MonthQuantity(d, c, ns, dayLength) : d \in StartDate(start)}
      [] unit = "week" ->
            UNION {GatheredQuantity(d, "week", c.weeks, c.days, ns, dayLength) : d \in StartDate(start)}
      [] unit = "day" -> {Quantity(dayLength * c.days + ns, dayLength)}

\* The count replaces the field of the unit; the smaller date fields vanish.
Truncated(c, unit, count) ==
    CASE unit = "year" -> Calendar(count, 0, 0, 0)
      [] unit = "month" -> Calendar(c.years, count, 0, 0)
      [] unit = "week" -> Calendar(c.years, c.months, count, 0)
      [] unit = "day" -> [c EXCEPT !.days = count]

Count(q, increment, mode) ==
    Quo(RoundNumberToIncrement(q.ns, q.length * increment, mode), q.length)

\* The rounded duration, and the total that Duration.total reports.
TimeRounded(dur, f, q, increment, mode) ==
    [duration |-> Duration(dur.calendar, ReplaceBelow(dur.time, f, Count(q, increment, mode))), total |-> q]

RoundToTimeUnit(dur, increment, unit, mode) ==
    LET f == Field(unit)
    IN  {TimeRounded(dur, f, Quantity(TimeBelow(dur.time, f), UnitLength[f]), increment, mode)}

DateRounded(c, unit, q, increment, mode) ==
    [duration |-> Duration(Truncated(c, unit, Count(q, increment, mode)), Midnight), total |-> q]

RoundDates(c, increment, unit, mode, start, ns, dayLength) ==
    {DateRounded(c, unit, q, increment, mode) : q \in DateQuantity(c, unit, start, ns, dayLength)}

\* inDays: the time part of the duration in days, as NanosecondsToDays has it.
RoundToDateUnit(dur, increment, unit, mode, start, inDays) ==
    UNION {RoundDates([dur.calendar EXCEPT !.days = @ + r.days], increment, unit, mode, start,
                      r.nanoseconds, r.dayLength) : r \in inDays}

TimePart(dur) == TotalDurationNanoseconds(0, dur.time, 0)

\* Relative to a date, or to nothing.
RoundPlainDuration(dur, increment, unit, mode, start) ==
    IF IsDateUnit(unit)
    THEN RoundToDateUnit(dur, increment, unit, mode, start, {PlainNanosecondsToDays(TimePart(dur))})
    ELSE RoundToTimeUnit(dur, increment, unit, mode)

RoundDuration(dur, increment, unit, mode, start) ==
    IF IsZoned(start) /\ IsDateUnit(unit)
    THEN RoundToDateUnit(dur, increment, unit, mode, start,
             UNION {NanosecondsToDays(TimePart(dur), z) : z \in MoveRelativeZonedDateTime(start, dur.calendar)})
    ELSE RoundPlainDuration(dur, increment, unit, mode, start)

-----------------------------------------------------------------------------
(* Adding and comparing durations. *)

DefaultTemporalLargestUnit(dur) ==
    LET s == DurationFields(dur)
    IN  IF \A i \in 1 .. 10 : s[i] = 0 THEN "nanosecond"
        ELSE Units[CHOOSE i \in 1 .. 10 : s[i] # 0 /\ \A j \in 1 .. i - 1 : s[j] = 0]

DifferenceInstant(from, to, increment, smallest, largest, mode) ==
    {BalancePlainDuration(0, r.duration.time, largest).time :
        r \in RoundToTimeUnit(Duration(NoCalendar, TimeFields(to - from, "second")), increment, smallest, mode)}

\* The days, and the time left, after the calendar part c that has no days.
DaysAfter(c, from, to, z) ==
    UNION {{Duration([c EXCEPT !.days = r.days], TimeFields(r.nanoseconds, "hour")) :
               r \in NanosecondsToDays(to - at, ZonedStart(at, z))} :
        at \in AddZonedDateTime(from, z, Duration(c, Midnight), "constrain")}

DifferenceZonedDateTime(from, to, z, largest) ==
    IF from = to THEN {Duration(NoCalendar, Midnight)}
    ELSE UNION {DaysAfter([dur.calendar EXCEPT !.days = 0], from, to, z) :
            dur \in UNION {DifferenceISODateTime(dt, du, largest) :
                dt \in GetPlainDateTimeFor(z, from), du \in GetPlainDateTimeFor(z, to)}}

\* The sum of two durations from a date, from an instant of a zone, and from
\* nothing.
AddOnDate(d, c1, c2, t, largest) ==
    {BalanceWithTime(DifferenceISODate(d, f, LargerOfTwoTemporalUnits("day", largest)), t, largest) :
        f \in UNION {CalendarDateAdd(e, c2, "constrain") : e \in CalendarDateAdd(d, c1, "constrain")}}

DifferenceOnZone(from, to, z, largest) ==
    IF IsDateUnit(largest) THEN DifferenceZonedDateTime(from, to, z, largest)
    ELSE {Duration(NoCalendar, t) : t \in DifferenceInstant(from, to, 1, "nanosecond", largest, "halfExpand")}

AddOnZone(ns, z, d1, d2, largest) ==
    UNION {DifferenceOnZone(ns, to, z, largest) :
        to \in UNION {AddZonedDateTime(i, z, d2, "constrain") : i \in AddZonedDateTime(ns, z, d1, "constrain")}}

AddAlone(days, t, largest) ==
    IF Rank(largest) <= 3 THEN {} ELSE {BalanceWithTime(Calendar(0, 0, 0, days), t, largest)}

AddDuration(d1, d2, start) ==
    LET largest == LargerOfTwoTemporalUnits(DefaultTemporalLargestUnit(d1), DefaultTemporalLargestUnit(d2))
        time == [i \in Fields |-> d1.time[i] + d2.time[i]]
    IN  UNION {RejectDuration(sum) : sum \in
            CASE start.kind = "date" -> AddOnDate(start.date, d1.calendar, d2.calendar, time, largest)
              [] start.kind = "zoned" -> AddOnZone(start.ns, start.zone, d1, d2, largest)
              [] start.kind = "none" -> AddAlone(d1.calendar.days + d2.calendar.days, time, largest)}

\* The time part of a rounded duration may have filled the day, from at to
\* next, that follows its date part.
AdjustDay(dur, ns, sign, at, next, increment, unit, mode, start) ==
    IF (ns - (next - at)) * sign >= 0
    THEN {Duration(d.calendar, TimeFields(RoundInstant(ns - (next - at), increment, unit, mode), "hour")) :
             d \in AddDuration(Duration(dur.calendar, Midnight), Days(sign), start)}
    ELSE {dur}

AdjustRoundedDurationDays(dur, increment, unit, mode, start) ==
    LET ns == TimePart(dur)
    IN  IF ~ IsZoned(start) \/ IsDateUnit(unit) \/ (unit = "nanosecond" /\ increment = 1) THEN {dur}
        ELSE UNION {UNION {AdjustDay(dur, ns, Sign(ns), s.ns, next, increment, unit, mode, start) :
                              next \in AfterDays(s.ns, s.zone, Sign(ns))} :
                s \in MoveRelativeZonedDateTime(start, dur.calendar)}

\* Mutant: the zone's offset never changes.
NoOffsetShift(start, c) == {0}

\* The change of the zone's offset over the date part of a duration.
CalculateOffsetShift(start, c) ==
    IF ~ IsZoned(start) THEN {0}
    ELSE {GetOffsetNanosecondsFor(start.zone, i) - GetOffsetNanosecondsFor(start.zone, start.ns) :
            i \in AddZonedDateTime(start.ns, start.zone, Duration(c, Midnight), "constrain")}

\* Duration.compare: the lengths of the two, in days of 24 hours.
NeedsStart(c) == c.years # 0 \/ c.months # 0 \/ c.weeks # 0

InDays(c, needed, start) == IF needed THEN UnbalanceDurationRelative(c, "day", start) ELSE {c}

ComparedLength(d, needed, start) ==
    {TotalDurationNanoseconds(c.days, d.time, shift) :
        shift \in CalculateOffsetShift(start, d.calendar), c \in InDays(d.calendar, needed, start)}

CompareDurations(d1, d2, start) ==
    LET needed == NeedsStart(d1.calendar) \/ NeedsStart(d2.calendar)
    IN  {Sign(m - n) : m \in ComparedLength(d1, needed, start), n \in ComparedLength(d2, needed, start)}
=============================================================================

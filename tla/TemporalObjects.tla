--------------------------- MODULE TemporalObjects ---------------------------
(***************************************************************************)
(* The classes of temporal-polyfill.js: what the constructors accept and   *)
(* what the methods return, with the ISO 8601 calendar.  An object is a    *)
(* record with its type and its slots.  A method is the set of its one     *)
(* result, empty when it throws.                                           *)
(***************************************************************************)
EXTENDS Durations

Instant(ns) == [type |-> "Instant", ns |-> ns]
PlainDate(d) == [type |-> "PlainDate", date |-> d]
PlainTime(t) == [type |-> "PlainTime", time |-> t]
PlainYearMonth(d) == [type |-> "PlainYearMonth", date |-> d]
PlainMonthDay(d) == [type |-> "PlainMonthDay", date |-> d]
ZonedDateTime(ns, z) == [type |-> "ZonedDateTime", ns |-> ns, zone |-> z]

\* The slots of a year-month hold a day, those of a month-day a year.
CreateTemporalYearMonth(y, m) ==
    IF /\ IsValidISODate(Date(y, m, 1))
       /\ InRange(y, MinYear, MaxYear)
       /\ y = MinYear => InRange(m, MinMonth, 12)
       /\ y = MaxYear => InRange(m, 1, MaxMonth)
    THEN {PlainYearMonth(Date(y, m, 1))} ELSE {}

CreateTemporalMonthDay(m, d) == {PlainMonthDay(e) : e \in CreateTemporalDate(Date(1972, m, d))}

\* The wall-clock time of an object with a zone.
dateTime(x) == GetPlainDateTimeFor(x.zone, x.ns)

\* The instant of a wall-clock time, in the zone.
ZonedAt(z, dt, disambiguation) == {ZonedDateTime(i, z) : i \in InstantAt(z, dt, disambiguation)}

-----------------------------------------------------------------------------
(* Conversions of arguments. *)

ToTemporalDate(x) ==
    CASE x.type = "PlainDate" -> {x.date}
      [] x.type = "PlainDateTime" -> CreateTemporalDate(x.date)
      [] x.type = "ZonedDateTime" -> UNION {CreateTemporalDate(dt.date) : dt \in dateTime(x)}

ToTemporalDateTime(x) ==
    CASE x.type = "PlainDateTime" -> {x}
      [] x.type = "ZonedDateTime" -> dateTime(x)
      [] x.type = "PlainDate" -> CreateTemporalDateTime(DateTime(x.date, Midnight))

ToTemporalTime(x) ==
    CASE x.type = "ZonedDateTime" -> {dt.time : dt \in dateTime(x)}
      [] x.type \in {"PlainTime", "PlainDateTime"} -> {x.time}

\* Both hold the nanoseconds of the instant.
ToTemporalInstant(x) == IF x.type \in {"Instant", "ZonedDateTime"} THEN {x.ns} ELSE {}

\* What a duration is relative to; NoObject when it is not given.
NoObject == [type |-> "none"]

ToRelativeTemporalObject(x) ==
    CASE x = NoObject -> {NoStart}
      [] x.type = "ZonedDateTime" -> {ZonedStart(x.ns, x.zone)}
      [] OTHER -> {DateStart(d) : d \in ToTemporalDate(x)}

-----------------------------------------------------------------------------
(* Fields.  What a caller gives, or an object has, of "year", "month",       *)
(* "monthCode" and "day" is a function from their names; a month code is     *)
(* the number in it.                                                         *)

FieldsOf(d, names) ==
    [f \in names |-> CASE f = "year" -> d.year [] f = "day" -> d.day [] OTHER -> d.month]

\* A month replaces a month code, and the other way round.
fieldKeysToIgnore(names) ==
    names \cup (IF "month" \in names THEN {"monthCode"} ELSE {})
          \cup (IF "monthCode" \in names THEN {"month"} ELSE {})

mergeFields(fields, given) ==
    LET kept == DOMAIN fields \ fieldKeysToIgnore(DOMAIN given)
    IN  [f \in kept \cup DOMAIN given |-> IF f \in DOMAIN given THEN given[f] ELSE fields[f]]

\* PrepareTemporalFields converts months and days to positive integers.
PrepareTemporalFields(fields) ==
    IF \E f \in DOMAIN fields \cap {"month", "day"} : fields[f] < 1 THEN {} ELSE {fields}

resolveNonLunisolarMonth(f) ==
    CASE "monthCode" \notin DOMAIN f -> IF "month" \in DOMAIN f THEN {f.month} ELSE {}
      [] "monthCode" \in DOMAIN f ->
            IF ("month" \in DOMAIN f => f.month = f.monthCode) /\ InRange(f.monthCode, 1, 12)
            THEN {f.monthCode} ELSE {}

\* The date with the year and the day, and the month the fields name.
RegulatedFields(f, year, day, overflow) ==
    UNION {RegulateISODate(Date(year, m, day), overflow) :
        m \in UNION {resolveNonLunisolarMonth(g) : g \in PrepareTemporalFields(f)}}

dateFromFields(f, overflow) ==
    IF {"year", "day"} \subseteq DOMAIN f
    THEN UNION {CreateTemporalDate(d) : d \in RegulatedFields(f, f.year, f.day, overflow)} ELSE {}

yearMonthFromFields(f, overflow) ==
    IF "year" \in DOMAIN f
    THEN UNION {CreateTemporalYearMonth(d.year, d.month) : d \in RegulatedFields(f, f.year, 1, overflow)}
    ELSE {}

\* The year only limits the day, and only when the month has no code.
monthDayFromFields(f, overflow) ==
    LET coded == "monthCode" \in DOMAIN f
    IN  IF "day" \in DOMAIN f /\ (coded \/ "year" \in DOMAIN f)
        THEN UNION {CreateTemporalMonthDay(d.month, d.day) :
                d \in RegulatedFields(f, IF coded THEN 1972 ELSE f.year, f.day, overflow)}
        ELSE {}

\* The given fields of a time over those it has.
TimeWith(t, given) == [i \in Fields |-> IF i \in DOMAIN given THEN given[i] ELSE t[i]]

InterpretTemporalDateTimeFields(fields, time, overflow) ==
    {DateTime(d, t) : d \in dateFromFields(fields, overflow), t \in RegulateTime(time, overflow)}

\* The text of an offset leaves out the seconds when they are zero.
FormatTimeZoneOffsetString(o) ==
    LET n == Magnitude(o)
        h == n \div UnitLength[1]
        m == (n \div UnitLength[2]) % Radix[2]
        s == (n \div UnitLength[3]) % Radix[3]
        r == n % UnitLength[3]
    IN  CASE r # 0 -> [negative |-> o < 0, hours |-> h, minutes |-> m, seconds |-> s, fraction |-> r]
          [] r = 0 /\ s # 0 -> [negative |-> o < 0, hours |-> h, minutes |-> m, seconds |-> s]
          [] r = 0 /\ s = 0 -> [negative |-> o < 0, hours |-> h, minutes |-> m]

ParseTimeZoneOffsetString(text) ==
    LET part(f) == IF f \in DOMAIN text THEN text[f] ELSE 0
    IN  (IF text.negative THEN -1 ELSE 1)
          * (UnitLength[1] * text.hours + UnitLength[2] * text.minutes
               + UnitLength[3] * part("seconds") + part("fraction"))

-----------------------------------------------------------------------------
(* add and subtract. *)

\* Calendar.dateAdd: whole days of the time part count.
WholeDaysOf(dur) ==
    [dur.calendar EXCEPT !.days = BalancePlainDuration(dur.calendar.days, dur.time, "day").days]

DateAdd(d, dur, overflow) == UNION {CreateTemporalDate(e) : e \in AddISODate(d, WholeDaysOf(dur), overflow)}

\* Mutant: the sum is not checked against the range of instants.
AddToInstantUnchecked(x, dur) ==
    IF CalendarSign(dur.calendar) # 0 THEN {} ELSE {Instant(x.ns + TotalDurationNanoseconds(0, dur.time, 0))}

AddToInstant(x, dur) ==
    IF CalendarSign(dur.calendar) # 0 THEN {} ELSE {Instant(i) : i \in AddInstant(x.ns, dur.time)}

AddToPlainDate(x, dur, overflow) == {PlainDate(d) : d \in DateAdd(x.date, dur, overflow)}

AddToPlainTime(x, dur) ==
    {PlainTime(t) : t \in RegulateTime(AddTime(x.time, dur.time).time, "reject")}

AddToPlainDateTime(x, dur, overflow) ==
    UNION {CreateTemporalDateTime(dt) : dt \in AddDateTime(x, dur, overflow)}

\* From the first day of the month, or from the last one when going back.
FirstOfMonth(d) == CreateTemporalDate([d EXCEPT !.day = 1])

LastOfMonth(d) ==
    UNION {CalendarDateAdd(next, Calendar(0, 0, 0, -1), "constrain") :
        next \in UNION {CalendarDateAdd(f, Calendar(0, 1, 0, 0), "constrain") : f \in FirstOfMonth(d)}}

MonthsFrom(d, c, overflow) ==
    UNION {CalendarDateAdd(e, c, overflow) :
        e \in IF CalendarSign(c) < 0 THEN LastOfMonth(d) ELSE FirstOfMonth(d)}

AddToPlainYearMonth(x, dur, overflow) ==
    UNION {CreateTemporalYearMonth(d.year, d.month) : d \in MonthsFrom(x.date, WholeDaysOf(dur), overflow)}

AddToZonedDateTime(x, dur, overflow) ==
    {ZonedDateTime(i, x.zone) : i \in AddZonedDateTime(x.ns, x.zone, dur, overflow)}

AddToDuration(x, dur, relativeTo) ==
    UNION {AddDuration(x, dur, start) : start \in ToRelativeTemporalObject(relativeTo)}

Add(x, dur, overflow) ==
    CASE x.type = "Instant" -> AddToInstant(x, dur)
      [] x.type = "PlainDate" -> AddToPlainDate(x, dur, overflow)
      [] x.type = "PlainTime" -> AddToPlainTime(x, dur)
      [] x.type = "PlainDateTime" -> AddToPlainDateTime(x, dur, overflow)
      [] x.type = "PlainYearMonth" -> AddToPlainYearMonth(x, dur, overflow)
      [] x.type = "ZonedDateTime" -> AddToZonedDateTime(x, dur, overflow)

-----------------------------------------------------------------------------
(* until and since. *)

\* Every option is in the set, or the method throws.
ValidateTemporalRoundingIncrement(increment, dividend, inclusive) ==
    increment <= (IF inclusive THEN dividend ELSE dividend - 1) /\ dividend % increment = 0

InGroup(unit, group) == group = "datetime" \/ IsDateUnit(unit) = (group = "date")

\* largest may be "auto", smallest "default".
GetDifferenceSettings(op, o, group, disallowed, fallback, defaultLargest) ==
    LET smallest == IF o.smallest = "default" THEN fallback ELSE o.smallest
        largest == IF o.largest = "auto" THEN LargerOfTwoTemporalUnits(defaultLargest, smallest)
                   ELSE o.largest
        mode == IF op = "since" THEN NegateTemporalRoundingMode(o.mode) ELSE o.mode
    IN  IF /\ \A u \in {smallest, largest} : InGroup(u, group) /\ u \notin disallowed
           /\ LargerOfTwoTemporalUnits(largest, smallest) = largest
           /\ ~ IsDateUnit(smallest) =>
                 ValidateTemporalRoundingIncrement(o.increment, Radix[Field(smallest)], FALSE)
        THEN {[largest |-> largest, smallest |-> smallest, increment |-> o.increment, mode |-> mode]}
        ELSE {}

PlainRounded(dur, s, start) ==
    {r.duration : r \in RoundPlainDuration(dur, s.increment, s.smallest, s.mode, start)}

\* The date units are left alone when nothing is rounded.
RoundedDates(c, s, finest, start) ==
    IF s.smallest = finest /\ s.increment = 1 THEN {Duration(c, Midnight)}
    ELSE PlainRounded(Duration(c, Midnight), s, start)

\* The difference is computed forward and negated for since.
Oriented(op, durations) ==
    UNION {RejectDuration(Scale(IF op = "since" THEN -1 ELSE 1, dur)) : dur \in durations}

InstantDurations(from, to, s) ==
    {Duration(NoCalendar, t) : t \in DifferenceInstant(from, to, s.increment, s.smallest, s.largest, s.mode)}

DifferenceTemporalInstant(op, x, y, o) ==
    Oriented(op, UNION {InstantDurations(x.ns, to, s) : to \in ToTemporalInstant(y),
                            s \in GetDifferenceSettings(op, o, "time", {}, "nanosecond", "second")})

DifferenceTemporalPlainDate(op, x, y, o) ==
    Oriented(op, UNION {RoundedDates(DifferenceISODate(x.date, y.date, s.largest), s, "day",
                                     DateStart(x.date)) :
                            s \in GetDifferenceSettings(op, o, "date", {}, "day", "day")})

PlainTimeDurations(t, s) ==
    {Duration(NoCalendar, BalancePlainDuration(0, dur.time, s.largest).time) :
        dur \in PlainRounded(Duration(NoCalendar, t), s, NoStart)}

DifferenceTemporalPlainTime(op, x, y, o) ==
    Oriented(op, UNION {PlainTimeDurations(t, s) : t \in DifferenceTime(x.time, y.time),
                            s \in GetDifferenceSettings(op, o, "time", {}, "nanosecond", "hour")})

PlainDateTimeDurations(x, y, s) ==
    {BalanceWithTime(r.calendar, r.time, s.largest) :
        r \in UNION {PlainRounded(dur, s, DateStart(x.date)) : dur \in DifferenceISODateTime(x, y, s.largest)}}

DifferenceTemporalPlainDateTime(op, x, y, o) ==
    Oriented(op, UNION {PlainDateTimeDurations(x, y, s) :
                            s \in GetDifferenceSettings(op, o, "datetime", {}, "nanosecond", "day")})

\* Between the first days of the months.
DifferenceTemporalPlainYearMonth(op, x, y, o) ==
    Oriented(op, UNION {RoundedDates(DifferenceISODate(d, e, s.largest), s, "month", DateStart(d)) :
                            d \in FirstOfMonth(x.date), e \in FirstOfMonth(y.date),
                            s \in GetDifferenceSettings(op, o, "date", {"week", "day"}, "month", "year")})

\* Units up to the hour need no zone; larger ones need the same zone.
ZonedRounded(dur, s, start) ==
    UNION {AdjustRoundedDurationDays(r.duration, s.increment, s.smallest, s.mode, start) :
        r \in RoundDuration(dur, s.increment, s.smallest, s.mode, start)}

ZonedDurations(x, y, s) ==
    CASE ~ IsDateUnit(s.largest) -> InstantDurations(x.ns, y.ns, s)
      [] IsDateUnit(s.largest) /\ x.zone # y.zone -> {}
      [] IsDateUnit(s.largest) /\ x.zone = y.zone ->
            UNION {ZonedRounded(dur, s, ZonedStart(x.ns, x.zone)) :
                dur \in DifferenceZonedDateTime(x.ns, y.ns, x.zone, s.largest)}

DifferenceTemporalZonedDateTime(op, x, y, o) ==
    Oriented(op, UNION {ZonedDurations(x, y, s) :
                            s \in GetDifferenceSettings(op, o, "datetime", {}, "nanosecond", "hour")})

Difference(op, x, y, o) ==
    CASE x.type = "Instant" -> DifferenceTemporalInstant(op, x, y, o)
      [] x.type = "PlainDate" -> DifferenceTemporalPlainDate(op, x, y, o)
      [] x.type = "PlainTime" -> DifferenceTemporalPlainTime(op, x, y, o)
      [] x.type = "PlainDateTime" -> DifferenceTemporalPlainDateTime(op, x, y, o)
      [] x.type = "PlainYearMonth" -> DifferenceTemporalPlainYearMonth(op, x, y, o)
      [] x.type = "ZonedDateTime" -> DifferenceTemporalZonedDateTime(op, x, y, o)

-----------------------------------------------------------------------------
(* round. *)

\* A day is only rounded to whole days.
RoundableTo(unit, increment) ==
    IF unit = "day" THEN ValidateTemporalRoundingIncrement(increment, 1, TRUE)
    ELSE ~ IsDateUnit(unit) /\ ValidateTemporalRoundingIncrement(increment, Radix[Field(unit)], FALSE)

InstantRound(x, increment, unit, mode) ==
    {Instant(i) : i \in
        IF ~ IsDateUnit(unit)
           /\ ValidateTemporalRoundingIncrement(increment, DayLength \div UnitLength[Field(unit)], TRUE)
        THEN ValidateEpochNanoseconds(RoundInstant(x.ns, increment, unit, mode)) ELSE {}}

PlainTimeRound(x, increment, unit, mode) ==
    IF unit # "day" /\ RoundableTo(unit, increment)
    THEN {PlainTime(RoundTime(x.time, increment, unit, mode, DayLength).time)} ELSE {}

PlainDateTimeRound(x, increment, unit, mode) ==
    IF RoundableTo(unit, increment)
    THEN CreateTemporalDateTime(RoundISODateTime(x, increment, unit, mode, DayLength)) ELSE {}

\* The length of the day the instant is in decides how a zoned date-time is
\* rounded to days; the offset it has is kept if the zone allows it.
LengthOfDay(z, d) ==
    UNION {{j - i : j \in AfterDays(i, z, 1)} : i \in InstantAt(z, DateTime(d, Midnight), "compatible")}

RoundWallClock(x, dt, n, increment, unit, mode) ==
    IF n <= 0 THEN {}
    ELSE InterpretISODateTimeOffset(x.zone, RoundISODateTime(dt, increment, unit, mode, n), "option",
             GetOffsetNanosecondsFor(x.zone, x.ns), "compatible", "prefer", FALSE)

ZonedDateTimeRound(x, increment, unit, mode) ==
    IF ~ RoundableTo(unit, increment) THEN {}
    ELSE {ZonedDateTime(i, x.zone) :
             i \in UNION {UNION {RoundWallClock(x, dt, n, increment, unit, mode) :
                                    n \in LengthOfDay(x.zone, dt.date)} : dt \in dateTime(x)}}

Round(x, increment, unit, mode) ==
    CASE x.type = "Instant" -> InstantRound(x, increment, unit, mode)
      [] x.type = "PlainTime" -> PlainTimeRound(x, increment, unit, mode)
      [] x.type = "PlainDateTime" -> PlainDateTimeRound(x, increment, unit, mode)
      [] x.type = "ZonedDateTime" -> ZonedDateTimeRound(x, increment, unit, mode)

-----------------------------------------------------------------------------
(* with, and the other methods that replace a part. *)

DateFieldNames == {"year", "month", "monthCode", "day"}

\* given: fields of the date; time: fields of the time.
PlainDateWith(x, given, overflow) ==
    {PlainDate(d) : d \in dateFromFields(mergeFields(FieldsOf(x.date, DateFieldNames), given), overflow)}

PlainYearMonthWith(x, given, overflow) ==
    yearMonthFromFields(mergeFields(FieldsOf(x.date, {"year", "month", "monthCode"}), given), overflow)

PlainMonthDayWith(x, given, overflow) ==
    monthDayFromFields(mergeFields(FieldsOf(x.date, {"monthCode", "day"}), given), overflow)

PlainTimeWith(x, time, overflow) ==
    {PlainTime(t) : t \in RegulateTime(TimeWith(x.time, time), overflow)}

DateTimeWith(dt, given, time, overflow) ==
    InterpretTemporalDateTimeFields(mergeFields(FieldsOf(dt.date, DateFieldNames), given),
                                    TimeWith(dt.time, time), overflow)

PlainDateTimeWith(x, given, time, overflow) ==
    UNION {CreateTemporalDateTime(e) : e \in DateTimeWith(x, given, time, overflow)}

\* offset: the text of an offset, or <<>>: then the offset the object has.
OffsetGiven(x, offset) ==
    ParseTimeZoneOffsetString(
        IF offset = <<>> THEN FormatTimeZoneOffsetString(GetOffsetNanosecondsFor(x.zone, x.ns)) ELSE offset[1])

ZonedDateTimeWith(x, given, time, offset, overflow, disambiguation, option) ==
    {ZonedDateTime(i, x.zone) :
        i \in UNION {InterpretISODateTimeOffset(x.zone, dt, "option", OffsetGiven(x, offset),
                                                disambiguation, option, FALSE) :
                  dt \in UNION {DateTimeWith(own, given, time, overflow) : own \in dateTime(x)}}}

With(x, given, time, overflow) ==
    CASE x.type = "PlainDate" -> PlainDateWith(x, given, overflow)
      [] x.type = "PlainYearMonth" -> PlainYearMonthWith(x, given, overflow)
      [] x.type = "PlainMonthDay" -> PlainMonthDayWith(x, given, overflow)
      [] x.type = "PlainTime" -> PlainTimeWith(x, time, overflow)
      [] x.type = "PlainDateTime" -> PlainDateTimeWith(x, given, time, overflow)

PlainDateTimeWithDate(x, d) == CreateTemporalDateTime(DateTime(d, x.time))

ZonedDateTimeWithDate(x, d) ==
    UNION {ZonedAt(x.zone, DateTime(d, dt.time), "compatible") : dt \in dateTime(x)}

PlainDateTimeWithTime(x, t) == CreateTemporalDateTime(DateTime(x.date, t))

ZonedDateTimeWithTime(x, t) ==
    UNION {ZonedAt(x.zone, DateTime(dt.date, t), "compatible") : dt \in dateTime(x)}

withPlainDate(x, d) ==
    IF x.type = "PlainDateTime" THEN PlainDateTimeWithDate(x, d) ELSE ZonedDateTimeWithDate(x, d)

withPlainTime(x, t) ==
    IF x.type = "PlainDateTime" THEN PlainDateTimeWithTime(x, t) ELSE ZonedDateTimeWithTime(x, t)

withTimeZone(x, z) == {ZonedDateTime(x.ns, z)}

startOfDay(x) == ZonedDateTimeWithTime(x, Midnight)

\* From midnight to the next midnight, in nanoseconds.
BetweenMidnights(z, d, e) ==
    {j - i : i \in InstantAt(z, DateTime(d, Midnight), "compatible"),
             j \in InstantAt(z, DateTime(e, Midnight), "compatible")}

hoursInDay(x) ==
    UNION {UNION {BetweenMidnights(x.zone, dt.date, e) :
                     e \in AddISODate(dt.date, Calendar(0, 0, 0, 1), "reject")} : dt \in dateTime(x)}

-----------------------------------------------------------------------------
(* Conversions between the classes. *)

toInstant(x) == {Instant(x.ns)}
toZonedDateTimeISO(x, z) == {ZonedDateTime(x.ns, z)}
toPlainDate(x) == {PlainDate(d) : d \in ToTemporalDate(x)}
toPlainTime(x) == {PlainTime(t) : t \in ToTemporalTime(x)}
toPlainDateTime(x, t) == UNION {CreateTemporalDateTime(DateTime(d, t)) : d \in ToTemporalDate(x)}
toPlainYearMonth(x) ==
    UNION {yearMonthFromFields(FieldsOf(d, {"year", "monthCode"}), "constrain") : d \in ToTemporalDate(x)}
toPlainMonthDay(x) ==
    UNION {monthDayFromFields(FieldsOf(d, {"monthCode", "day"}), "constrain") : d \in ToTemporalDate(x)}

\* A year-month given its day, a month-day given its year.
DateOf(d) ==
    {PlainDate(e) : e \in dateFromFields(FieldsOf(d, {"year", "monthCode", "day"}), "reject")}

PlainYearMonthToDate(x, n) == DateOf([x.date EXCEPT !.day = n])

PlainMonthDayToDate(x, n) == DateOf([x.date EXCEPT !.year = n])

\* ZonedDateTime.from with the fields of a date-time; offset is <<>> or the
\* text of one.
zonedFromFields(fields, time, z, offset, overflow, disambiguation, option) ==
    LET given == IF offset = <<>> THEN 0 ELSE ParseTimeZoneOffsetString(offset[1])
        behaviour == IF offset = <<>> THEN "wall" ELSE "option"
    IN  {ZonedDateTime(i, z) :
            i \in UNION {InterpretISODateTimeOffset(z, dt, behaviour, given, disambiguation, option, FALSE) :
                      dt \in InterpretTemporalDateTimeFields(fields, time, overflow)}}

\* The getters of a date.
DateGetters(d) ==
    [dayOfWeek |-> DayOfWeek(d), dayOfYear |-> DayOfYear(d), weekOfYear |-> WeekOfYear(d),
     daysInWeek |-> 7, daysInMonth |-> ISODaysInMonth(d.year, d.month),
     daysInYear |-> DaysInYear(d.year), monthsInYear |-> 12, inLeapYear |-> LeapYear(d.year)]

fromEpoch(n, unit) == {Instant(i) : i \in ValidateEpochNanoseconds(n * UnitLength[Field(unit)])}
epoch(x, unit) == FloorDiv(x.ns, UnitLength[Field(unit)])

Compare(x, y) ==
    CASE x.type \in {"Instant", "ZonedDateTime"} -> Sign(x.ns - y.ns)
      [] x.type \in {"PlainDate", "PlainYearMonth"} -> CompareISODate(x.date, y.date)
      [] x.type = "PlainTime" -> CompareTime(x.time, y.time)
      [] x.type = "PlainDateTime" -> CompareISODateTime(x, y)

-----------------------------------------------------------------------------
(* Durations. *)

\* A unit that is not given is "none".
SpanSettings(x, o) ==
    LET smallest == IF o.smallest = "none" THEN "nanosecond" ELSE o.smallest
        largest == IF o.largest \in {"none", "auto"}
                   THEN LargerOfTwoTemporalUnits(DefaultTemporalLargestUnit(x), smallest) ELSE o.largest
    IN  IF /\ ~ (o.smallest = "none" /\ o.largest = "none")
           /\ LargerOfTwoTemporalUnits(largest, smallest) = largest
           /\ ~ IsDateUnit(smallest) =>
                 ValidateTemporalRoundingIncrement(o.increment, Radix[Field(smallest)], FALSE)
        THEN {[o EXCEPT !.largest = largest, !.smallest = smallest]} ELSE {}

\* Unbalance, round, adjust the days, balance the time and then the days.
RoundedSpan(x, s, start) ==
    UNION {ZonedRounded(Duration(c, x.time), s, start) :
        c \in UnbalanceDurationRelative(x.calendar, s.largest, start)}

BalancedSpan(x, s, start) ==
    UNION {{Balance(r.calendar, b) : b \in BalanceDuration(r.calendar.days, r.time, s.largest, start)} :
        r \in RoundedSpan(x, s, start)}

GatheredSpan(x, s, start) ==
    UNION {{Duration(c, b.time) : c \in BalanceDurationRelative(b.calendar, s.largest, start)} :
        b \in BalancedSpan(x, s, start)}

roundDuration(x, o, start) ==
    UNION {RejectDuration(dur) : dur \in UNION {GatheredSpan(x, s, start) : s \in SpanSettings(x, o)}}

\* The time is balanced from where the fields larger than days lead to.
TotalStart(c, start) ==
    IF IsZoned(start) THEN MoveRelativeZonedDateTime(start, [c EXCEPT !.days = 0]) ELSE {NoStart}

TotalBalanced(x, unit, start) ==
    UNION {{Balance(c, b) :
               b \in UNION {BalanceDuration(c.days, x.time, unit, s) : s \in TotalStart(c, start)}} :
        c \in UnbalanceDurationRelative(x.calendar, unit, start)}

\* A ratio: nanoseconds over those of a unit.
total(x, unit, start) ==
    {r.total : r \in UNION {RoundDuration(dur, 1, unit, "trunc", start) :
                               dur \in TotalBalanced(x, unit, start)}}

negated(x) == {Scale(-1, x)}
abs(x) == {Duration([f \in DOMAIN x.calendar |-> Magnitude(x.calendar[f])],
                    [i \in Fields |-> Magnitude(x.time[i])])}

\* Duration.with: the given parts replace those of the duration.
withParts(x, calendar, time) ==
    RejectDuration(Duration([f \in DOMAIN x.calendar |->
                                IF f \in DOMAIN calendar THEN calendar[f] ELSE x.calendar[f]],
                            TimeWith(x.time, time)))
=============================================================================

----------------------------- MODULE MCTemporal -----------------------------
(***************************************************************************)
(* An instance of Temporal with short days: 4 hours of 3 minutes of 2      *)
(* seconds, and so on, 96 nanoseconds in all; the instants are those of    *)
(* about three years before and after 1970.                                *)
(***************************************************************************)
EXTENDS Temporal

MCRadix == <<4, 3, 2, 2, 1, 2>>
MCMaxDays == 1100

\* Where the zones change their offset.
SpringForward == 59 * 96 + 32       \* at midnight of 1 March
FallBack == 243 * 96 + 16           \* at midnight of 1 September
SkippedDay == 90 * 96 + 48          \* 1 April does not exist

MCHostOffset(z, ns) ==
    CASE z = "utc" -> 0
      [] z = "plus" -> 40
      [] z = "dst" -> IF ns >= SpringForward /\ ns < FallBack THEN -16 ELSE -32
      [] z = "skip" -> IF ns < SkippedDay THEN -48 ELSE 48

MCZoneNames == {"utc", "plus", "dst", "skip"}
MCOffsetZones == {"plus"}

At(h, n) == [Midnight EXCEPT ![1] = h, ![6] = n]
LastTime == [i \in Fields |-> Radix[i] - 1]

\* Half a minute past one: of the three minutes of an hour, the even ones are
\* not those of the day.
HalfMinute == [Midnight EXCEPT ![1] = 1, ![3] = 1]

MCInstants == {Instant(i) : i \in {-1, SpringForward - 5, MinInstant, MaxInstant}}
MCZoned ==
    {ZonedDateTime(SpringForward - 97, "dst"), ZonedDateTime(SpringForward + 9, "dst"),
     ZonedDateTime(SpringForward + 44, "dst"), ZonedDateTime(FallBack - 12, "dst"), ZonedDateTime(FallBack + 4, "dst"),
     ZonedDateTime(SkippedDay - 60, "skip"), ZonedDateTime(SkippedDay + 20, "skip"),
     ZonedDateTime(MaxInstant, "plus"), ZonedDateTime(MinInstant, "utc")}
MCDates ==
    {Date(1970, 1, 31), Date(1970, 3, 1), Date(1972, 2, 29), Date(1971, 1, 2), Date(1969, 12, 29),
     Date(1966, 12, 27), Date(1973, 1, 5)}
MCDateTimes ==
    {DateTime(Date(1970, 1, 31), LastTime), DateTime(Date(1970, 3, 1), At(0, 1)),
     DateTime(Date(1970, 4, 1), At(1, 0)), DateTime(Date(1970, 8, 31), LastTime),
     DateTime(Date(1972, 2, 29), At(1, 1)), DateTime(Date(1966, 12, 26), At(0, 1)),
     DateTime(Date(1973, 1, 5), LastTime)}
MCYearMonths == {PlainYearMonth(Date(y, m, 1)) : y \in {1972}, m \in {1, 2}}
    \cup {PlainYearMonth(Date(1966, 12, 1)), PlainYearMonth(Date(1973, 1, 1))}

MCSpans ==
    {Duration(Calendar(0, 0, 0, 1), Midnight), Duration(Calendar(0, 2, 0, 0), Midnight),
     Duration(Calendar(1, 1, 0, 1), Midnight), Duration(Calendar(0, 0, 9, 0), At(1, 0)),
     Duration(NoCalendar, At(3, 18)), Duration(NoCalendar, At(3, 28)), Duration(Calendar(0, -1, 0, -1), At(-1, -1))}

MCObjects ==
    {x \in MCInstants \cup MCZoned \cup {PlainDate(d) : d \in MCDates} \cup MCDateTimes
           \cup {PlainTime(t) : t \in {Midnight, At(1, 1), HalfMinute, LastTime}} \cup MCYearMonths
           \cup {PlainMonthDay(Date(1972, 2, 29))} \cup MCSpans : Valid(x)}

MCRelativeTos ==
    {NoObject, PlainDate(Date(1970, 1, 31)), DateTime(Date(1972, 1, 30), Midnight),
     ZonedDateTime(SpringForward - 90, "dst"), ZonedDateTime(FallBack - 40, "dst")}

MCDateParts ==
    {<<>>, [monthCode |-> 13], [month |-> 3, day |-> 1], [day |-> 31], [month |-> 3, monthCode |-> 4]}
MCTimeParts == {<<>>, [i \in {1} |-> 0], [i \in {1, 6} |-> 3]}
MCOffsetTexts == {<<>>, <<FormatTimeZoneOffsetString(-16)>>, <<FormatTimeZoneOffsetString(-9)>>}
MCUnits == {"year", "month", "week", "day", "hour", "minute", "nanosecond"}
=============================================================================

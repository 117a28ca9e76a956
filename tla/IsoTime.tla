------------------------------- MODULE IsoTime -------------------------------
(***************************************************************************)
(* The arithmetic of wall-clock times, instants and date-times in          *)
(* temporal-polyfill.js.  A time is the sequence of its six fields, hour   *)
(* to nanosecond; the constant Radix gives how many of each make one of    *)
(* the field before it (24, 60, 60, 1000, 1000, 1000 in the code).  An     *)
(* instant is a number of nanoseconds since 1 January 1970.                *)
(***************************************************************************)
EXTENDS IsoCalendar

CONSTANTS
    Radix,      \* the lengths of the units of time
    MaxDays,    \* instants lie at most so many days from the epoch (10^8)
    MinYear,    \* the year of the first instant (-271821)
    MaxYear,    \* the year of the last one (275760)
    MinMonth,   \* the month of the first instant (4)
    MaxMonth    \* the month of the last one (9)

ASSUME RadixAssumption == Radix \in [1 .. 6 -> Nat \ {0}]
ASSUME RangeAssumption == MaxDays \in Nat /\ MinYear \in Int /\ MaxYear \in Int

Fields == 1 .. 6

\* Date units, then time units, from the largest to the smallest.
Units == <<"year", "month", "week", "day", "hour", "minute", "second",
           "millisecond", "microsecond", "nanosecond">>

Rank(unit) == CHOOSE i \in 1 .. 10 : Units[i] = unit

LargerOfTwoTemporalUnits(u, v) == IF Rank(u) > Rank(v) THEN v ELSE u

IsDateUnit(unit) == Rank(unit) <= 4

\* The field of a time unit.
Field(unit) == Rank(unit) - 4

\* Nanoseconds of one of each field, and of a day as the field 0.
UnitLength[i \in 0 .. 6] == IF i = 6 THEN 1 ELSE Radix[i + 1] * UnitLength[i + 1]

DayLength == UnitLength[0]

Midnight == [i \in Fields |-> 0]
Noon == [Midnight EXCEPT ![1] = Radix[1] \div 2]

-----------------------------------------------------------------------------
(* Times. *)

IsValidTime(t) == \A i \in Fields : InRange(t[i], 0, Radix[i] - 1)

RegulateTime(t, overflow) ==
    IF overflow = "constrain" THEN {[i \in Fields |-> ConstrainToRange(t[i], 0, Radix[i] - 1)]}
    ELSE IF IsValidTime(t) THEN {t} ELSE {}

\* Carries each field into the one before it, from the nanoseconds up.
BalanceTime(t) ==
    LET balanced[i \in 1 .. 7] ==
            IF i = 7 THEN [quotient |-> 0, remainder |-> 0]
            ELSE NonNegativeDivmod(t[i] + balanced[i + 1].quotient, Radix[i])
    IN  [deltaDays |-> balanced[1].quotient, time |-> [i \in Fields |-> balanced[i].remainder]]

\* The nanoseconds of a number of days and a time; a shift of the offset
\* only counts when there are days.
TotalDurationNanoseconds(days, t, offsetShift) ==
    LET sum[i \in 0 .. 6] == IF i = 0 THEN days ELSE t[i] + sum[i - 1] * Radix[i]
    IN  sum[6] - IF days # 0 THEN offsetShift ELSE 0

TimeSign(t) ==
    IF \A i \in Fields : t[i] = 0 THEN 0
    ELSE Sign(t[CHOOSE i \in Fields : t[i] # 0 /\ \A j \in 1 .. i - 1 : t[j] = 0])

AddTime(t, delta) == BalanceTime([i \in Fields |-> t[i] + delta[i]])

CompareTime(t, u) == TimeSign([i \in Fields |-> t[i] - u[i]])

\* Balanced as a positive time, whatever the order of the two.
DifferenceTime(t, u) ==
    LET sign == -CompareTime(t, u)
        Signed(b) == {[i \in Fields |-> sign * b.time[i]] : n \in {0} \cap {b.deltaDays}}
    IN  Signed(BalanceTime([i \in Fields |-> sign * (u[i] - t[i])]))

-----------------------------------------------------------------------------
(* Rounding. *)

RoundingModes == {"ceil", "floor", "expand", "trunc", "halfCeil", "halfFloor",
                  "halfExpand", "halfTrunc", "halfEven"}

\* Whether a number between the quotient q and the next one away from zero
\* goes to the latter; twice is two times its distance from the former.
AwayFromZero(q, sign, twice, increment, mode) ==
    LET tie == twice = increment
        past == twice > increment
    IN  CASE mode = "ceil" -> sign > 0
          [] mode = "floor" -> sign < 0
          [] mode = "expand" -> TRUE
          [] mode = "trunc" -> FALSE
          [] mode = "halfCeil" -> past \/ (tie /\ sign > 0)
          [] mode = "halfFloor" -> past \/ (tie /\ sign < 0)
          [] mode = "halfExpand" -> past \/ tie
          [] mode = "halfTrunc" -> past
          [] mode = "halfEven" -> past \/ (tie /\ Magnitude(q) % 2 = 1)

\* Mutant: negative numbers are rounded in the direction of positive ones.
RoundQuotientAsPositive(q, r, increment, mode) ==
    IF r # 0 /\ AwayFromZero(q, 1, Magnitude(2 * r), increment, mode) THEN q + Sign(r) ELSE q

RoundQuotient(q, r, increment, mode) ==
    LET sign == IF r < 0 THEN -1 ELSE 1
    IN  IF r # 0 /\ AwayFromZero(q, sign, Magnitude(2 * r), increment, mode) THEN q + sign ELSE q

RoundNumberToIncrement(n, increment, mode) ==
    IF increment = 1 THEN n
    ELSE RoundQuotient(Quo(n, increment), Rem(n, increment), increment, mode) * increment

\* "since" differences are negated after they are rounded.
NegateTemporalRoundingMode(mode) ==
    CASE mode = "ceil" -> "floor"
      [] mode = "floor" -> "ceil"
      [] mode = "halfCeil" -> "halfFloor"
      [] mode = "halfFloor" -> "halfCeil"
      [] OTHER -> mode

\* An instant is rounded within its UTC day.
RoundInstant(ns, increment, unit, mode) ==
    LET r == NonNegativeDivmod(ns, DayLength).remainder
    IN  ns - r + RoundNumberToIncrement(r, UnitLength[Field(unit)] * increment, mode)

\* The fields below the unit are rounded into it; the fields above stay.
TimeBelow(t, f) == TotalDurationNanoseconds(0, [i \in Fields |-> IF i < f THEN 0 ELSE t[i]], 0)

ReplaceBelow(t, f, n) == [i \in Fields |-> CASE i < f -> t[i] [] i = f -> n [] i > f -> 0]

\* Mutant: the increment is forgotten.
RoundFieldToUnit(t, f, length, increment, mode) ==
    Quo(RoundNumberToIncrement(TimeBelow(t, f), length, mode), length)

RoundField(t, f, length, increment, mode) ==
    Quo(RoundNumberToIncrement(TimeBelow(t, f), length * increment, mode), length)

RoundTime(t, increment, unit, mode, dayLength) ==
    LET f == Field(unit)
    IN  IF unit = "day" THEN [deltaDays |-> RoundField(t, 1, dayLength, increment, mode), time |-> Midnight]
        ELSE BalanceTime(ReplaceBelow(t, f, RoundField(t, f, UnitLength[f], increment, mode)))

-----------------------------------------------------------------------------
(* Date-times and instants. *)

DateTime(d, t) == [type |-> "PlainDateTime", date |-> d, time |-> t]

\* A date and a balanced time with the days to add to the date.
CarryDays(d, b) == DateTime(BalanceISODate(d.year, d.month, d.day + b.deltaDays), b.time)

BalanceISODateTime(d, t) == CarryDays(d, BalanceTime(t))

RoundISODateTime(dt, increment, unit, mode, dayLength) ==
    CarryDays(dt.date, RoundTime(dt.time, increment, unit, mode, dayLength))

\* The host's Date: days from 1 January 1970 to a day that need not be in its
\* month, and back.
HostDays(year, month, day) ==
    LET y == IF month <= 2 THEN year - 1 ELSE year
    IN  365 * y + y \div 4 - y \div 100 + y \div 400
          + (153 * ((month + 9) % 12) + 2) \div 5 + day - 719469

\* m counts the months from March, n the days of the year from 1 March.
HostMonthDay(y, m, n) ==
    Date(IF m >= 10 THEN y + 1 ELSE y, ((m + 2) % 12) + 1, n - (153 * m + 2) \div 5 + 1)

HostDayInYear(y, n) == HostMonthDay(y, (5 * n + 2) \div 153, n)

\* The n-th day of a cycle of 400 years, in its year y.
HostDayInCycle(cycle, y, n) == HostDayInYear(y + 400 * cycle, n - (365 * y + y \div 4 - y \div 100))

HostDate(days) ==
    LET n == (days + 719468) % 146097
    IN  HostDayInCycle((days + 719468) \div 146097,
                       (n - n \div 1460 + n \div 36524 - n \div 146096) \div 365, n)

MinInstant == -MaxDays * DayLength
MaxInstant == MaxDays * DayLength

ValidateEpochNanoseconds(ns) == IF ns < MinInstant \/ ns > MaxInstant THEN {} ELSE {ns}

EpochNanoseconds(d, t) == TotalDurationNanoseconds(HostDays(d.year, d.month, d.day), t, 0)

GetUTCEpochNanoseconds(dt) == ValidateEpochNanoseconds(EpochNanoseconds(dt.date, dt.time))

GetISOPartsFromEpoch(ns) ==
    DateTime(HostDate(ns \div DayLength),
             [i \in Fields |-> (ns \div UnitLength[i]) % Radix[i]])

\* A date-time may lie up to a day outside the instants, so that every
\* instant has a wall-clock time in every zone.
DateTimeInRange(dt) ==
    LET Shifted(days, ns) ==
            EpochNanoseconds([dt.date EXCEPT !.day = @ + days], [dt.time EXCEPT ![6] = @ + ns])
    IN  /\ InRange(dt.date.year, MinYear, MaxYear)
        /\ dt.date.year = MinYear => ValidateEpochNanoseconds(Shifted(1, -1)) # {}
        /\ dt.date.year = MaxYear => ValidateEpochNanoseconds(Shifted(-1, 1)) # {}

CreateTemporalDate(d) ==
    IF IsValidISODate(d) /\ DateTimeInRange(DateTime(d, Noon)) THEN {d} ELSE {}

CreateTemporalDateTime(dt) ==
    IF IsValidISODate(dt.date) /\ IsValidTime(dt.time) /\ DateTimeInRange(dt) THEN {dt} ELSE {}

AddInstant(ns, t) == ValidateEpochNanoseconds(ns + TotalDurationNanoseconds(0, t, 0))

CompareISODateTime(dt, du) ==
    LET c == CompareISODate(dt.date, du.date)
    IN  IF c # 0 THEN c ELSE CompareTime(dt.time, du.time)
=============================================================================

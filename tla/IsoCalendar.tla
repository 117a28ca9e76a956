----------------------------- MODULE IsoCalendar -----------------------------
(***************************************************************************)
(* The arithmetic of ISO dates in temporal-polyfill.js: validity, balance, *)
(* comparison, addition and difference, day and week numbers.  A date is a *)
(* record of year, month and day; a part of a duration made of years,      *)
(* months, weeks and days is a record of these four.                       *)
(***************************************************************************)
EXTENDS JsNumbers, Sequences

LeapYear(y) == y % 4 = 0 /\ (y % 100 # 0 \/ y % 400 = 0)

DaysInYear(y) == IF LeapYear(y) THEN 366 ELSE 365

ISODaysInMonth(y, m) ==
    IF m = 2 /\ LeapYear(y) THEN 29
    ELSE <<31, 28, 31, 30, 31, 30, 31, 31, 30, 31, 30, 31>>[m]

Date(y, m, d) == [year |-> y, month |-> m, day |-> d]

Dates == [year : Int, month : 1 .. 12, day : 1 .. 31]

\* Zeller's congruence, with March as the first month.  2.6 * o - .2 is
\* computed in doubles, which are exact enough for its floor.
DayOfWeek(d) ==
    LET o == d.month + IF d.month < 3 THEN 10 ELSE -2
        n == d.year - IF d.month < 3 THEN 1 ELSE 0
        a == n \div 100
        i == n - 100 * a
        s == Rem(d.day + (26 * o - 2) \div 10 + i + i \div 4 + a \div 4 - 2 * a, 7)
    IN  s + IF s <= 0 THEN 7 ELSE 0

\* The days of the first m months of the year.
MonthsLength(y, m) ==
    LET length[i \in 0 .. 12] == IF i = 0 THEN 0 ELSE length[i - 1] + ISODaysInMonth(y, i)
    IN  length[m]

DayOfYear(d) == d.day + MonthsLength(d.year, d.month - 1)

\* Mutant: the last days of a year are never in the first week of the next.
WeekOfYearWithoutNext(d) ==
    LET i == (DayOfYear(d) - DayOfWeek(d) + 10) \div 7
        a == DayOfWeek(Date(d.year, 1, 1))
    IN  IF i < 1
        THEN [week |-> IF a = 5 \/ (a = 6 /\ LeapYear(d.year - 1)) THEN 53 ELSE 52, year |-> d.year - 1]
        ELSE [week |-> i, year |-> d.year]

WeekOfYear(d) ==
    LET o == DayOfYear(d)
        n == DayOfWeek(d)
        a == DayOfWeek(Date(d.year, 1, 1))
        i == (o - n + 10) \div 7
    IN  CASE i < 1 -> [week |-> IF a = 5 \/ (a = 6 /\ LeapYear(d.year - 1)) THEN 53 ELSE 52,
                       year |-> d.year - 1]
          [] i = 53 /\ DaysInYear(d.year) - o < 4 - n -> [week |-> 1, year |-> d.year + 1]
          [] OTHER -> [week |-> i, year |-> d.year]

-----------------------------------------------------------------------------
(* Balance. *)

BalanceISOYearMonth(y, m) == [year |-> y + (m - 1) \div 12, month |-> ((m - 1) % 12) + 1]

\* The loops of BalanceISODate carry a year and a month, which are one number
\* here, 12 * year + month - 1, and a day that need not be in the month: the
\* pair p.
YearOf(k) == k \div 12
MonthOf(k) == (k % 12) + 1
MonthLength(k) == ISODaysInMonth(YearOf(k), MonthOf(k))

\* The year of days that follows month k crosses 29 February of the next year
\* unless k is January or February; the one before it, of the year before.
YearsBack[p \in Int \X Int] ==
    LET length == DaysInYear(YearOf(p[1] - 2))
    IN  IF p[2] < -length THEN YearsBack[<<p[1] - 12, p[2] + length>>] ELSE p

YearsForward[p \in Int \X Int] ==
    LET length == DaysInYear(YearOf(p[1] + 10))
    IN  IF p[2] > length THEN YearsForward[<<p[1] + 12, p[2] - length>>] ELSE p

MonthsBack[p \in Int \X Int] ==
    IF p[2] < 1 THEN MonthsBack[<<p[1] - 1, p[2] + MonthLength(p[1] - 1)>>] ELSE p

MonthsForward[p \in Int \X Int] ==
    IF p[2] > MonthLength(p[1]) THEN MonthsForward[<<p[1] + 1, p[2] - MonthLength(p[1])>>]
    ELSE Date(YearOf(p[1]), MonthOf(p[1]), p[2])

\* Whole cycles of 400 years first, then the loops.
BalanceISODate(year, month, day) ==
    LET cycles == IF Magnitude(day) > 146097 THEN Quo(day, 146097) ELSE 0
        k == 12 * year + month - 1
    IN  MonthsForward[MonthsBack[YearsForward[YearsBack[<<k + 4800 * cycles, day - 146097 * cycles>>]]]]

-----------------------------------------------------------------------------
(* Validity.  An operation that may throw a RangeError is a set: its one     *)
(* result, or no element when it throws.                                     *)

IsValidISODate(d) == InRange(d.month, 1, 12) /\ InRange(d.day, 1, ISODaysInMonth(d.year, d.month))

ConstrainISODate(d) ==
    LET m == ConstrainToRange(d.month, 1, 12)
    IN  Date(d.year, m, ConstrainToRange(d.day, 1, ISODaysInMonth(d.year, m)))

RegulateISODate(d, overflow) ==
    IF overflow = "constrain" THEN {ConstrainISODate(d)}
    ELSE IF IsValidISODate(d) THEN {d} ELSE {}

CompareISODate(d, e) ==
    IF d.year # e.year THEN Sign(d.year - e.year)
    ELSE IF d.month # e.month THEN Sign(d.month - e.month)
    ELSE Sign(d.day - e.day)

-----------------------------------------------------------------------------
(* Addition and difference. *)

Calendar(y, m, w, d) == [years |-> y, months |-> m, weeks |-> w, days |-> d]

AddISODate(d, c, overflow) ==
    LET b == BalanceISOYearMonth(d.year + c.years, d.month + c.months)
    IN  {BalanceISODate(r.year, r.month, r.day + c.days + 7 * c.weeks) :
            r \in RegulateISODate(Date(b.year, b.month, d.day), overflow)}

\* Mutant: the days of the wrong month.
DaysLeftOfEndMonth(r, e, sign) ==
    CASE r.month = e.month -> e.day - r.day
      [] r.month # e.month /\ sign < 0 -> -r.day - (ISODaysInMonth(e.year, e.month) - e.day)
      [] r.month # e.month /\ sign > 0 -> e.day + (ISODaysInMonth(e.year, e.month) - r.day)

\* The days from r, which a whole number of months brought next to e.
DaysLeft(r, e, sign) ==
    CASE r.month = e.month -> e.day - r.day
      [] r.month # e.month /\ sign < 0 -> -r.day - (ISODaysInMonth(e.year, e.month) - e.day)
      [] r.month # e.month /\ sign > 0 -> e.day + (ISODaysInMonth(r.year, r.month) - r.day)

AfterMonths(d, n) == CHOOSE r \in AddISODate(d, Calendar(0, n, 0, 0), "constrain") : TRUE

MonthsAndDays(n, days, unit) ==
    IF unit = "year" THEN Calendar(Quo(n, 12), Rem(n, 12), 0, days) ELSE Calendar(0, n, 0, days)

\* Years and months, together a number of months: the guess from the fields,
\* less one when that passes the end, and the days that are left.
CountMonths(d, e, sign, n, unit) == MonthsAndDays(n, DaysLeft(AfterMonths(d, n), e, sign), unit)

DifferenceInMonths(d, e, unit) ==
    LET sign == -CompareISODate(d, e)
        guess == 12 * (e.year - d.year) + e.month - d.month
    IN  IF sign = 0 THEN Calendar(0, 0, 0, 0)
        ELSE CountMonths(d, e, sign,
                 IF CompareISODate(AfterMonths(d, guess), e) = sign THEN guess - sign ELSE guess, unit)

\* The days from a date to a later one: those of the whole years between.
DaysForward(d, e) ==
    LET years[y \in Int] == IF y < e.year THEN DaysInYear(y) + years[y + 1] ELSE 0
    IN  DayOfYear(e) - DayOfYear(d) + years[d.year]

SignedDays(d, e) == IF CompareISODate(d, e) < 0 THEN DaysForward(d, e) ELSE -DaysForward(e, d)

\* Days, and weeks if asked for.
WeeksAndDays(n, unit) ==
    IF unit = "week" THEN Calendar(0, 0, Quo(n, 7), Rem(n, 7)) ELSE Calendar(0, 0, 0, n)

DifferenceInDays(d, e, unit) == WeeksAndDays(SignedDays(d, e), unit)

DifferenceISODate(d, e, largestUnit) ==
    IF largestUnit \in {"year", "month"} THEN DifferenceInMonths(d, e, largestUnit)
    ELSE DifferenceInDays(d, e, largestUnit)

DaysUntil(d, e) == DifferenceInDays(d, e, "day").days
=============================================================================

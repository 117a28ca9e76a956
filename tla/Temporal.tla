------------------------------ MODULE Temporal ------------------------------
(***************************************************************************)
(* A program that calls the methods of temporal-polyfill.js, one after the *)
(* other, on the object it holds.  Objects are immutable: a call leaves    *)
(* the object and has an answer, which is empty when the call throws; the  *)
(* program may go on with the answer in place of the object.               *)
(***************************************************************************)
EXTENDS TemporalObjects, FiniteSets

CONSTANTS
    Objects,        \* what the program starts with
    Others,         \* the objects it passes as arguments
    Spans,          \* the durations it passes
    RelativeTos,    \* the starting points it gives durations
    DateParts,      \* the fields of dates it passes to with
    TimeParts,      \* the fields of times it passes to with
    OffsetTexts,    \* the offsets it passes, <<>> for none
    AskedUnits,     \* the units it asks for
    AskedModes,     \* the rounding modes it asks for when it rounds differences
    Increments,     \* the increments it rounds to
    KeptMethods,    \* the calls whose answer it may go on with
    MaxKept         \* how many answers it goes on with

\* The constructor of the class accepts the slots of the object.
Valid(x) ==
    CASE x.type = "Instant" -> ValidateEpochNanoseconds(x.ns) = {x.ns}
      [] x.type = "ZonedDateTime" -> ValidateEpochNanoseconds(x.ns) = {x.ns} /\ dateTime(x) # {}
      [] x.type = "PlainDate" -> CreateTemporalDate(x.date) = {x.date}
      [] x.type = "PlainTime" -> IsValidTime(x.time)
      [] x.type = "PlainDateTime" -> CreateTemporalDateTime(x) = {x}
      [] x.type = "PlainYearMonth" -> CreateTemporalYearMonth(x.date.year, x.date.month) = {x}
      [] x.type = "PlainMonthDay" -> CreateTemporalMonthDay(x.date.month, x.date.day) = {x}
      [] x.type = "Duration" -> RejectDuration(x) = {x}

\* The objects of each class, with the types of their slots.
Shapes ==
    [type : {"Instant"}, ns : Int] \cup [type : {"ZonedDateTime"}, ns : Int, zone : ZoneNames]
        \cup [type : {"PlainDate", "PlainYearMonth", "PlainMonthDay"}, date : Dates]
        \cup [type : {"PlainTime"}, time : [Fields -> Int]]
        \cup [type : {"PlainDateTime"}, date : Dates, time : [Fields -> Int]]
        \cup [type : {"Duration"}, calendar : [years : Int, months : Int, weeks : Int, days : Int],
               time : [Fields -> Int]]

ASSUME ObjectsAssumption ==
    \A x \in Objects \cup Others \cup Spans \cup (RelativeTos \ {NoObject}) : x \in Shapes /\ Valid(x)
ASSUME SpansAssumption == \A x \in Spans : x.type = "Duration"
ASSUME PartsAssumption ==
    /\ \A given \in DateParts : \A f \in DOMAIN given : given[f] \in Int
    /\ \A given \in TimeParts : \A i \in DOMAIN given : given[i] \in Int
    /\ \A text \in OffsetTexts : text # <<>> => ParseTimeZoneOffsetString(text[1]) \in Int
ASSUME UnitsAssumption == AskedUnits \subseteq {Units[i] : i \in 1 .. 10} /\ Increments \subseteq Nat \ {0}
ASSUME KeptAssumption == MaxKept \in Nat

Overflows == {"constrain", "reject"}
Disambiguations == {"compatible", "earlier", "later", "reject"}
OffsetOptions == {"prefer", "use", "ignore", "reject"}

VARIABLES
    object,     \* the object the program holds
    call,       \* the call it has just made
    answer,     \* what the call returned
    kept        \* the answers it went on with

vars == <<object, call, answer, kept>>

NoCall == [method |-> "none"]

Init ==
    /\ object \in Objects
    /\ call = NoCall
    /\ answer = {}
    /\ kept = 0

Returns(c, results) ==
    /\ call = NoCall
    /\ call' = c
    /\ answer' = results
    /\ UNCHANGED <<object, kept>>

HasType(types) == object.type \in types

Arithmetic == {"Instant", "PlainDate", "PlainTime", "PlainDateTime", "PlainYearMonth", "ZonedDateTime"}

\* An instant may be given as a date-time of a zone.
Accepts(y) == y.type = object.type \/ (HasType({"Instant"}) /\ y.type = "ZonedDateTime")

\* A largest unit alone, or a smallest unit to round to.
DifferenceOptions ==
    [largest : AskedUnits \cup {"auto"}, smallest : {"default"}, increment : {1}, mode : {"trunc"}]
        \cup [largest : {"auto"}, smallest : AskedUnits, increment : Increments, mode : AskedModes]

Signed(op, dur) == IF op \in {"subtract", "subtract span"} THEN Scale(-1, dur) ELSE dur

-----------------------------------------------------------------------------
(* The calls. *)

AddOrSubtract ==
    \E op \in {"add", "subtract"}, dur \in Spans, overflow \in Overflows :
        /\ HasType(Arithmetic)
        /\ Returns([method |-> op, span |-> Signed(op, dur)], Add(object, Signed(op, dur), overflow))

UntilOrSince ==
    \E op \in {"until", "since"}, y \in Others, o \in DifferenceOptions :
        /\ HasType(Arithmetic) /\ Accepts(y)
        /\ Returns([method |-> op, other |-> y, options |-> o], Difference(op, object, y, o))

RoundTo ==
    \E unit \in AskedUnits, increment \in Increments, mode \in RoundingModes :
        /\ HasType({"Instant", "PlainTime", "PlainDateTime", "ZonedDateTime"})
        /\ Returns([method |-> "round", unit |-> unit, increment |-> increment, mode |-> mode],
                   Round(object, increment, unit, mode))

WithFields ==
    \E given \in DateParts, time \in TimeParts, overflow \in Overflows :
        /\ HasType({"PlainDate", "PlainTime", "PlainDateTime", "PlainYearMonth", "PlainMonthDay"})
        /\ Returns([method |-> "with"], With(object, given, time, overflow))

ZonedWithFields ==
    \E given \in DateParts, time \in TimeParts, text \in OffsetTexts,
            disambiguation \in Disambiguations, option \in OffsetOptions :
        /\ HasType({"ZonedDateTime"})
        /\ Returns([method |-> "zoned with", option |-> option],
                   ZonedDateTimeWith(object, given, time, text, "constrain", disambiguation, option))

\* ZonedDateTime.from the fields of a date-time.
FromFields ==
    \E z \in ZoneNames, text \in OffsetTexts, disambiguation \in Disambiguations, option \in OffsetOptions :
        /\ HasType({"PlainDateTime"})
        /\ Returns([method |-> "from", zone |-> z, option |-> option],
                   zonedFromFields(FieldsOf(object.date, {"year", "month", "day"}), object.time, z, text,
                                   "reject", disambiguation, option))

ReplaceDate ==
    \E y \in Others :
        /\ HasType({"PlainDateTime", "ZonedDateTime"}) /\ y.type \in {"PlainDate", "PlainDateTime"}
        /\ Returns([method |-> "withPlainDate"],
                   UNION {withPlainDate(object, d) : d \in ToTemporalDate(y)})

ReplaceTime ==
    \E y \in Others :
        /\ HasType({"PlainDateTime", "ZonedDateTime"}) /\ y.type \in {"PlainTime", "PlainDateTime"}
        /\ Returns([method |-> "withPlainTime"],
                   UNION {withPlainTime(object, t) : t \in ToTemporalTime(y)})

ReplaceZone ==
    \E z \in ZoneNames :
        /\ HasType({"ZonedDateTime"})
        /\ Returns([method |-> "withTimeZone"], withTimeZone(object, z))

StartOfDay ==
    /\ HasType({"ZonedDateTime"})
    /\ Returns([method |-> "startOfDay"], startOfDay(object))

HoursInDay ==
    /\ HasType({"ZonedDateTime"})
    /\ Returns([method |-> "hoursInDay"], hoursInDay(object))

PossibleInstants ==
    \E z \in ZoneNames :
        /\ HasType({"PlainDate", "PlainDateTime"})
        /\ Returns([method |-> "getPossibleInstantsFor", zone |-> z],
                   UNION {GetPossibleInstantsFor(z, dt) : dt \in ToTemporalDateTime(object)})

\* A date alone starts at midnight, and is always disambiguated the same way.
ToZone ==
    \E z \in ZoneNames, disambiguation \in Disambiguations :
        /\ HasType({"PlainDate", "PlainDateTime"})
        /\ HasType({"PlainDate"}) => disambiguation = "compatible"
        /\ Returns([method |-> "toZonedDateTime", zone |-> z, disambiguation |-> disambiguation],
                   UNION {ZonedAt(z, dt, disambiguation) : dt \in ToTemporalDateTime(object)})

\* An instant shown in a zone, or made from a count of seconds or less.
ShowInstant ==
    /\ HasType({"Instant"})
    /\ \/ \E z \in ZoneNames : Returns([method |-> "toZonedDateTimeISO"], toZonedDateTimeISO(object, z))
       \/ \E unit \in {"second", "millisecond", "microsecond", "nanosecond"} :
              Returns([method |-> "fromEpoch", unit |-> unit], fromEpoch(epoch(object, unit), unit))

Convert ==
    \/ /\ HasType({"ZonedDateTime"})
       /\ \/ Returns([method |-> "toInstant"], toInstant(object))
          \/ Returns([method |-> "toPlainDateTime"], ToTemporalDateTime(object))
    \/ /\ HasType({"PlainDateTime", "ZonedDateTime"})
       /\ \/ Returns([method |-> "toPlainDate"], toPlainDate(object))
          \/ Returns([method |-> "toPlainTime"], toPlainTime(object))
    \/ /\ HasType({"PlainDate", "PlainDateTime", "ZonedDateTime"})
       /\ \/ Returns([method |-> "toPlainYearMonth"], toPlainYearMonth(object))
          \/ Returns([method |-> "toPlainMonthDay"], toPlainMonthDay(object))

\* A date from two parts.
Combine ==
    \/ \E y \in Others :
          \/ /\ HasType({"PlainDate"}) /\ y.type = "PlainTime"
             /\ Returns([method |-> "toPlainDateTime"], toPlainDateTime(object, y.time))
          \/ /\ HasType({"PlainTime"}) /\ y.type = "PlainDate"
             /\ Returns([method |-> "toPlainDateTime"], toPlainDateTime(y, object.time))
    \/ /\ HasType({"PlainYearMonth"})
       /\ \E n \in {1, 29, 31} : Returns([method |-> "toPlainDate"], PlainYearMonthToDate(object, n))
    \/ /\ HasType({"PlainMonthDay"})
       /\ \E n \in {1971, 1972} : Returns([method |-> "toPlainDate"], PlainMonthDayToDate(object, n))

ReadDate ==
    /\ HasType({"PlainDate", "PlainDateTime", "ZonedDateTime"})
    /\ Returns([method |-> "getters"], {DateGetters(d) : d \in ToTemporalDate(object)})

CompareWith ==
    \E y \in Others :
        /\ HasType(Arithmetic) /\ Accepts(y)
        /\ Returns([method |-> "compare", other |-> y], {Compare(object, y)})

RoundSpan ==
    \E r \in RelativeTos, largest \in AskedUnits \cup {"none", "auto"},
            smallest \in AskedUnits \cup {"none"}, increment \in Increments, mode \in AskedModes :
        /\ HasType({"Duration"})
        /\ increment = 1 \/ smallest # "none"
        /\ Returns([method |-> "round span", relativeTo |-> r, smallest |-> smallest,
                    increment |-> increment, largest |-> largest],
                   UNION {roundDuration(object, [largest |-> largest, smallest |-> smallest,
                                                 increment |-> increment, mode |-> mode], start) :
                             start \in ToRelativeTemporalObject(r)})

TotalOfSpan ==
    \E r \in RelativeTos, unit \in AskedUnits :
        /\ HasType({"Duration"})
        /\ Returns([method |-> "total", relativeTo |-> r, unit |-> unit],
                   UNION {total(object, unit, start) : start \in ToRelativeTemporalObject(r)})

AddSpans ==
    \E op \in {"add span", "subtract span"}, dur \in Spans, r \in RelativeTos :
        /\ HasType({"Duration"})
        /\ Returns([method |-> op, span |-> Signed(op, dur), relativeTo |-> r],
                   AddToDuration(object, Signed(op, dur), r))

CompareSpans ==
    \E dur \in Spans, r \in RelativeTos :
        /\ HasType({"Duration"})
        /\ Returns([method |-> "compare spans", span |-> dur, relativeTo |-> r],
                   UNION {CompareDurations(object, dur, start) : start \in ToRelativeTemporalObject(r)})

ChangeSpan ==
    /\ HasType({"Duration"})
    /\ \/ Returns([method |-> "negated"], negated(object))
       \/ Returns([method |-> "abs"], abs(object))
       \/ \E n \in {-1, 1} : Returns([method |-> "with"], withParts(object, [days |-> n], <<>>))

-----------------------------------------------------------------------------

AnswersWithObject ==
    call.method \notin {"none", "getters", "compare", "compare spans", "total", "hoursInDay",
                        "getPossibleInstantsFor"}

\* The program goes on with the answer.
Keep ==
    /\ AnswersWithObject /\ call.method \in KeptMethods
    /\ kept < MaxKept
    /\ object' \in answer
    /\ call' = NoCall /\ answer' = {}
    /\ kept' = kept + 1

\* It goes on with what it had.
Drop ==
    /\ call # NoCall
    /\ call' = NoCall /\ answer' = {}
    /\ UNCHANGED <<object, kept>>

Next ==
    \/ AddOrSubtract \/ UntilOrSince \/ RoundTo
    \/ WithFields \/ ZonedWithFields \/ FromFields \/ ReplaceDate \/ ReplaceTime \/ ReplaceZone
    \/ StartOfDay \/ HoursInDay \/ PossibleInstants \/ ToZone \/ ShowInstant \/ Convert \/ Combine
    \/ ReadDate \/ CompareWith \/ RoundSpan \/ TotalOfSpan \/ AddSpans \/ CompareSpans \/ ChangeSpan
    \/ Keep \/ Drop

Spec == Init /\ [][Next]_vars

-----------------------------------------------------------------------------
(* What the answers must be. *)

\* TYPE INVARIANT: every object a program gets from a call is one that its
\* class would construct, and a zoned one has a wall-clock time.
ObjectsValid ==
    /\ kept \in 0 .. MaxKept
    /\ Cardinality(answer) <= 1
    /\ AnswersWithObject => \A x \in answer : Valid(x)

Unrounded == call.method \in {"until", "since"} /\ call.options.smallest = "default"

MonthsFromLateDay ==
    /\ call.options.largest \in {"year", "month"}
    /\ HasType({"PlainDateTime", "ZonedDateTime"})
    /\ \E d \in ToTemporalDate(object) : d.day > 28

\* x.add(x.until(y)) is y and x.subtract(x.since(y)) is y, for every class and
\* every largest unit (DifferenceTemporal..., AddDurationTo...).  Two things
\* are excepted: months counted with a time of day from a day that not every
\* month has, and going back from the last year-month there is, which throws
\* as it looks at the month after.
DifferenceAddsUp ==
    Unrounded /\ ~ MonthsFromLateDay =>
        \A d \in answer :
            LET e == IF call.method = "since" THEN Scale(-1, d) ELSE d
                sum == Add(object, e, "constrain")
            IN  \/ \E s \in sum : Compare(s, call.other) = 0
                \/ /\ sum = {} /\ DurationSign(e) < 0
                   /\ object = PlainYearMonth(Date(MaxYear, MaxMonth, 1))

-----------------------------------------------------------------------------
(* Rounding. *)

\* q is the multiple of g that the mode chooses for p; even ones are counted
\* from base.
IsRounding(p, q, g, base, mode) ==
    /\ q % g = 0
    /\ Magnitude(q - p) < g
    /\ mode \in {"floor", "trunc"} => q <= p
    /\ mode \in {"ceil", "expand"} => q >= p
    /\ mode \notin {"floor", "trunc", "ceil", "expand"} =>
          \/ 2 * Magnitude(q - p) < g
          \/ /\ 2 * Magnitude(q - p) = g
             /\ CASE mode \in {"halfCeil", "halfExpand"} -> q > p
                  [] mode \in {"halfFloor", "halfTrunc"} -> q < p
                  [] mode = "halfEven" -> ((q - base) \div g) % 2 = 0

\* Where an object is from the midnight before x, on the clock x reads.
FromMidnight(x, y) ==
    LET time(t) == TotalDurationNanoseconds(0, t, 0)
    IN  CASE x.type = "Instant" -> y.ns - (x.ns \div DayLength) * DayLength
          [] x.type = "PlainTime" -> time(y.time)
          [] x.type = "PlainDateTime" -> EpochNanoseconds(y.date, y.time) - EpochNanoseconds(x.date, Midnight)

\* The start of the unit above the unit that p is rounded to, in which the
\* even multiples are counted: the fields above stay as they are.
StartOfUnitAbove(p, f) == (p \div UnitLength[f - 1]) * UnitLength[f - 1]

\* round returns the multiple of the increment, counted from midnight, that
\* the rounding mode asks for: never one further than the next, never past
\* the day's end except into the midnight that follows, and ties go where the
\* mode sends them (RoundNumberToIncrement, RoundTime, RoundISODateTime).
RoundedToGrid ==
    call.method = "round" /\ HasType({"Instant", "PlainTime", "PlainDateTime"}) =>
        LET grid == (IF call.unit = "day" THEN DayLength ELSE UnitLength[Field(call.unit)]) * call.increment
            p == FromMidnight(object, object)
            base == IF HasType({"Instant"}) \/ call.unit = "day" THEN 0
                    ELSE StartOfUnitAbove(p, Field(call.unit))
        IN  \A r \in answer :
                \/ IsRounding(p, FromMidnight(object, r), grid, base, call.mode)
                \/ /\ HasType({"PlainTime"}) /\ r.time = Midnight
                   /\ IsRounding(p, DayLength, grid, base, call.mode)

-----------------------------------------------------------------------------
(* Wall clocks. *)

WallClock(x) == IF x.type = "PlainDate" THEN DateTime(x.date, Midnight) ELSE x

WallNanoseconds(x) == EpochNanoseconds(WallClock(x).date, WallClock(x).time)

\* The instants at which the clocks of the zone show the wall-clock time ns.
Showing(z, ns) == {i \in ns - DayLength .. ns + DayLength : i + HostOffset(z, i) = ns}

\* getPossibleInstantsFor finds every instant at which the clocks of the zone
\* show the time, none in a gap and two in an overlap, and the earlier first
\* (GetNamedTimeZoneEpochNanoseconds looks at two offsets only).
PossibleInstantsExact ==
    call.method = "getPossibleInstantsFor" =>
        \A s \in answer :
            /\ {s[i] : i \in DOMAIN s} = Showing(call.zone, WallNanoseconds(object))
            /\ \A i, j \in DOMAIN s : i < j => s[i] < s[j]

\* A wall-clock time that exists once is kept; of one that exists twice the
\* earlier or the later is taken; one that does not exist is moved out of the
\* gap by its length, backwards for "earlier" and forwards otherwise; "reject"
\* throws for both (DisambiguatePossibleInstants).
GapsAndOverlaps ==
    call.method = "toZonedDateTime" =>
        LET ns == WallNanoseconds(object)
            shown == Showing(call.zone, ns)
            gap == HostOffset(call.zone, ns + DayLength) - HostOffset(call.zone, ns - DayLength)
        IN  \A x \in answer :
                IF shown = {}
                THEN /\ call.disambiguation # "reject"
                     /\ x.ns + HostOffset(x.zone, x.ns) =
                           ns + IF call.disambiguation = "earlier" THEN -gap ELSE gap
                ELSE /\ x.ns \in shown
                     /\ call.disambiguation = "reject" => shown = {x.ns}
                     /\ \A i \in shown : IF call.disambiguation = "later" THEN i <= x.ns ELSE x.ns <= i

\* Wall-clock times lead to the right instants, listed or chosen.
WallClocksExact == PossibleInstantsExact /\ GapsAndOverlaps

\* Counted in days, a difference of zoned date-times has as many days as fit:
\* they do not lead past the end and one more would, although the days of the
\* zone differ in length (NanosecondsToDays).
DayCountExact ==
    Unrounded /\ HasType({"ZonedDateTime"}) /\ call.options.largest = "day" =>
        \A d \in answer :
            LET forward == object.ns <= call.other.ns
                n == Magnitude(d.calendar.days)
                Within(days) ==
                    \A i \in AddZonedDateTime(object.ns, object.zone, Days(IF forward THEN days ELSE -days),
                                              "constrain") :
                        IF forward THEN i <= call.other.ns ELSE call.other.ns <= i
            IN  /\ Within(n)
                /\ object.ns # call.other.ns => ~ Within(n + 1)

-----------------------------------------------------------------------------
(* Durations. *)

\* Where a duration leads from a starting point.
EndOf(dur, r) ==
    IF r.type = "ZonedDateTime" THEN AddZonedDateTime(r.ns, r.zone, dur, "constrain")
    ELSE IF r = NoObject THEN {TotalDurationNanoseconds(dur.calendar.days, dur.time, 0)}
    ELSE {EpochNanoseconds(e.date, e.time) :
             e \in AddDateTime(DateTime(WallClock(r).date, Midnight), dur, "constrain")}

\* Months are added one by one, and from a day that not every month has they
\* lead to another day than months added together.
MonthsOneByOne(dur, r) ==
    /\ Magnitude(dur.calendar.months) > 1
    /\ r # NoObject /\ \E d \in ToTemporalDate(r) : d.day > 28

\* A duration that is only balanced, and not rounded, leads to where it led
\* before (Duration.round: UnbalanceDurationRelative, BalanceDuration,
\* BalanceDurationRelative), except for MonthsOneByOne.
BalanceKeepsEnd ==
    call.method = "round span" /\ call.smallest \in {"none", "nanosecond"} /\ call.increment = 1 =>
        \A d \in answer :
            \/ EndOf(d, call.relativeTo) = EndOf(object, call.relativeTo)
            \/ \E x \in {d, object} : MonthsOneByOne(x, call.relativeTo)

\* The date part of the duration leads into a gap of the zone.
LeadsIntoGap(dur, r) ==
    /\ r.type = "ZonedDateTime"
    /\ \E dt \in UNION {MoveDate(own, dur.calendar, "constrain") : own \in dateTime(r)} :
          Showing(r.zone, WallNanoseconds(dt)) = {}

\* Durations compare as the points they lead to (Duration.compare), except
\* for MonthsOneByOne and for days that lead into a gap, whose length the
\* code takes from the offset behind the gap (CalculateOffsetShift).
SpansComparedByEnds ==
    call.method = "compare spans" =>
        \A c \in answer :
            \/ \A i \in EndOf(object, call.relativeTo), j \in EndOf(call.span, call.relativeTo) : c = Sign(i - j)
            \/ \E x \in {object, call.span} :
                  MonthsOneByOne(x, call.relativeTo) \/ LeadsIntoGap(x, call.relativeTo)

-----------------------------------------------------------------------------
(* Rounded differences. *)

\* How far y is from x.
Elapsed(x, y) ==
    IF x.type = "ZonedDateTime" THEN y.ns - x.ns ELSE FromMidnight(x, y) - FromMidnight(x, x)

\* The mode that does to -p what the given one does to p.
Mirrored(mode) ==
    CASE mode = "ceil" -> "floor"
      [] mode = "floor" -> "ceil"
      [] mode = "halfCeil" -> "halfFloor"
      [] mode = "halfFloor" -> "halfCeil"
      [] OTHER -> mode

IsSignedRounding(p, q, g, base, mode) ==
    IF p < 0 THEN IsRounding(-p, -q, g, base, Mirrored(mode)) ELSE IsRounding(p, q, g, base, mode)

RoundedDifference(units) ==
    /\ call.method \in {"until", "since"} /\ call.options.smallest \in units
    /\ HasType({"Instant", "PlainTime", "PlainDateTime", "ZonedDateTime"})

Orientation == IF call.method = "since" THEN -1 ELSE 1

\* A difference in units of fixed length is the multiple of the increment
\* that the mode asks for, also when it is negative and when it was computed
\* the other way round (since).
FixedDifferences ==
    RoundedDifference({"day", "hour", "minute", "nanosecond"})
        /\ ~ (HasType({"ZonedDateTime"}) /\ call.options.smallest = "day") =>
        LET unit == call.options.smallest
            p == Orientation * Elapsed(object, call.other)
            base == IF HasType({"Instant", "ZonedDateTime"}) \/ unit \in {"day", "hour"} THEN 0
                    ELSE StartOfUnitAbove(Magnitude(p), Field(unit))
        IN  \A d \in answer :
                IsSignedRounding(p, TotalDurationNanoseconds(d.calendar.days, d.time, 0),
                                 (IF unit = "day" THEN DayLength ELSE UnitLength[Field(unit)]) * call.options.increment,
                                 base, call.options.mode)

\* A difference of zoned date-times in days leads to the day the mode asks
\* for, by the lengths that the days of the zone have, unless one of the days
\* begins in a gap: the code measures the next from behind the gap.
ZonedDayDifferences ==
    RoundedDifference({"day"}) /\ HasType({"ZonedDateTime"}) /\ call.options.increment = 1 =>
        \A d \in answer :
            LET Off(n) == {Orientation * (i - call.other.ns) :
                              i \in AddZonedDateTime(object.ns, object.zone, Days(Orientation * n), "constrain")}
                n == d.calendar.days
            IN  \/ \E m \in n - 1 .. n + 1 : LeadsIntoGap(Days(Orientation * m), object)
                \/ /\ call.options.mode = "floor"
                   /\ \A o \in Off(n) : o <= 0
                   /\ Off(n + 1) # Off(n) => \A o \in Off(n + 1) : o > 0
                \/ /\ call.options.mode = "halfExpand"
                   /\ \A o \in Off(n), b \in Off(n - 1) \cup Off(n + 1) : Magnitude(o) <= Magnitude(b)
                \/ call.options.mode \notin {"floor", "halfExpand"}

\* until and since round as they are asked to, forwards and backwards and on
\* days that have no 24 hours (RoundDuration, NegateTemporalRoundingMode).
DifferencesRounded == FixedDifferences /\ ZonedDayDifferences

\* The answers of until and since.
DifferencesExact == DifferenceAddsUp /\ DifferencesRounded

-----------------------------------------------------------------------------
(* Dates. *)

HostDay(d) == HostDays(d.year, d.month, d.day)

\* The Thursday of the date's week.
ThursdayOf(d) == HostDate(HostDay(d) - ((HostDay(d) + 3) % 7) + 3)

\* The code's own arithmetic of dates agrees with the host's: weekdays, days
\* and weeks of the year (a week belongs to the year of its Thursday), and
\* weeks and days move a date by as many days.
DatesAgreeWithHost ==
    /\ call.method = "getters" =>
          \A g \in answer, d \in ToTemporalDate(object) :
              /\ g.dayOfWeek = ((HostDay(d) + 3) % 7) + 1
              /\ g.dayOfYear = HostDay(d) - HostDays(d.year, 1, 1) + 1
              /\ g.daysInYear = HostDays(d.year + 1, 1, 1) - HostDays(d.year, 1, 1)
              /\ LET t == ThursdayOf(d)
                 IN  g.weekOfYear = [week |-> ((HostDay(t) - HostDays(t.year, 1, 1)) \div 7) + 1, year |-> t.year]
    /\ call.method \in {"add", "subtract"} /\ HasType({"PlainDate"}) =>
          \A x \in answer :
              LET c == call.span.calendar
              IN  c.years = 0 /\ c.months = 0 =>
                     HostDay(x.date) = HostDay(object.date) + 7 * c.weeks
                         + Quo(TotalDurationNanoseconds(c.days, call.span.time, 0), DayLength)
=============================================================================

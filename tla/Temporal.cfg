SPECIFICATION Spec
CONSTANTS
    Radix <- MCRadix
    MaxDays <- MCMaxDays
    MinYear = 1966
    MaxYear = 1973
    MinMonth = 12
    MaxMonth = 1
    ZoneNames <- MCZoneNames
    OffsetZones <- MCOffsetZones
    HostOffset <- MCHostOffset
    Objects <- MCObjects
    Others <- MCObjects
    Spans <- MCSpans
    RelativeTos <- MCRelativeTos
    DateParts <- MCDateParts
    TimeParts <- MCTimeParts
    OffsetTexts <- MCOffsetTexts
    AskedUnits <- MCUnits
    AskedModes = {"floor", "halfExpand"}
    Increments = {1, 2}
    KeptMethods = {"startOfDay", "abs"}
    MaxKept = 1
INVARIANTS
    ObjectsValid
    DifferencesExact
    RoundedToGrid
    WallClocksExact
    DayCountExact
    BalanceKeepsEnd
    SpansComparedByEnds
    DatesAgreeWithHost

SPECIFICATION Spec
CONSTANTS
    ZoneNames <- MCZoneNames
    FixedZones <- MCFixedZones
    CappedZones <- MCCappedZones
    UnknownNames <- MCUnknownNames
    Offset <- MCZones
    MinTime <- MCMinTime
    MaxTime <- MCMaxTime
    FirstRule <- MCFirstRule
    Step = 3
    Year = 5
    Day = 1
    Horizon = 6
    Cap = 9
    null = null
    NoTransition = null
    TicksPerSecond = 2
    FifteenYears = 8
    Now <- MCNow
INVARIANTS
    FoundIsTransition
    SearchExact
    TableExact
PROPERTIES
    LoadEnds

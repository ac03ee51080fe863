SPECIFICATION Spec
CONSTANTS
    Processes = {p1, p2}
    Prefetch = 1
    MaxEvents = 2
CHECK_DEADLOCK FALSE
INVARIANTS
    AckedIsAppliedOnce
    FlagIsLatest
    UsedProductIsWhole
PROPERTIES
    EventsSettle

SPECIFICATION PresenceSpec
CONSTANTS
    Agents = {a1, a2, a3}
    Distances = {1, 2}
    Radius = 1
    Wanted = 1
    Overscan = 2
    TTL = 1
    MaxSearch = 1
    MaxClock = 2
SYMMETRY Symmetry
CHECK_DEADLOCK FALSE
INVARIANTS
    CandidatesAreRecent
    WhoIsThereIsFound

CONSTANTS
    Callers = {c1}
    Hints <- MCHints
    kMaxTimedMs = 2
    kMaxHoldMs = 1
    kMaxRequests = 2
    kFirstHandle = 1
    MaxHandle = 3
    UnitsPerMs = 2
    MaxClock = 3
    MaxFaults = 1
SPECIFICATION Spec
INVARIANT HalInLine
INVARIANT HandlesDistinct
INVARIANT CoveredAfterSuccess

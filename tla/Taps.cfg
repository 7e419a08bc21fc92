CONSTANTS
    kIdleNs = 1
    kIdleCheckMs = 1
    kEarlyNs = 1
    kEarlyDelayNs = 1
    Used = {"single", "double"}
    MaxClock = 5
    MaxFaults = 1
    MaxCrashes = 1
SPECIFICATION Spec
INVARIANT OneShot
INVARIANT ReadyToSleep
INVARIANT DriverMatches
INVARIANT OffInTime
PROPERTY HeldTapFresh
PROPERTY ActiveTapKept

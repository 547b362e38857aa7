\* Three callers, one failing call, one crash.
CONSTANTS
    Callers = {c1, c2, c3}
    None = None
    Dead = Dead
    StaleAfter = 2
    Timeout = 1
    MaxFaults = 1
    MaxCrashes = 1
SPECIFICATION Spec
INVARIANTS
    TypeOK
PROPERTIES
    ActsAsLock
    EveryCallEnds
    AbandonedIsCleared

\* Two callers, one crash.
CONSTANTS
    Callers = {c1, c2}
    None = None
    Dead = Dead
    StaleAfter = 2
    Timeout = 1
    MaxFaults = 0
    MaxCrashes = 1
SPECIFICATION Spec
PROPERTY
    CallersSerialize

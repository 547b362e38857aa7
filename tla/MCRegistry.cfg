\* Three peers for three addresses and two names, one owner; long enough for
\* a second warning after RewarnAfter.
CONSTANTS
    PeerIds = {p1, p2, p3}
    PersonIds = {o1}
    Names = {n1, n2}
    ClientKeys = {k1}
    None = None
    FirstHost = 1
    LastHost = 3
    WarnWindows = {0, 3}
    RewarnAfter = 1
    ExpiryTimes = {3}
    MaxNow = 3
    MaxRevision = 5
SYMMETRY IdSymmetry
SPECIFICATION Spec
INVARIANTS
    TypeOK
    UniqueIdentity
    LifecycleCoherent
    NoDeviceWithoutPerson
PROPERTIES
    TransitionsAudited
    WarningsSpaced
CHECK_DEADLOCK FALSE

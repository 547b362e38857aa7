\* Four snapshots, of which retention keeps two; two failing calls and a
\* crash, each at any moment.
CONSTANTS
    MaxSnapshots = 4
    RetentionCount = 2
    ImportTimes = {1, 5}
    MaxFaults = 2
    MaxCrashes = 1
SPECIFICATION Spec
INVARIANTS
    TypeOK
    WholeSnapshotStays
    RemovalsAudited
PROPERTIES
    RetentionKeepsRecent
CHECK_DEADLOCK FALSE

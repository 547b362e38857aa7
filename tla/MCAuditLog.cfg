\* Six events, two lines to a file: three rotations, two of which prune, so
\* that one can find what another has left over; one failing or short call, a
\* crash and a query, each at any moment.
CONSTANTS
    MaxEvents = 6
    MaxLines = 1
    RetentionCount = 1
    Limit = 2
    CreatedAt <- MCCreatedAt
    None = None
    MaxFaults = 1
    MaxCrashes = 1
    MaxQueries = 1
SPECIFICATION Spec
INVARIANTS
    TypeOK
    LoggedIsReadable
    LogIsInOrder
    RetentionKeepsNewest
    QueryIsSnapshot
PROPERTIES
    EveryEventSettles
CHECK_DEADLOCK FALSE

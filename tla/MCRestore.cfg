\* Two updates, a client that reconciles and one that asks for the status,
\* one crash or failing command.
CONSTANTS
    Updates = {u1, u2}
    Posts = {post}
    Statuses = {status}
    Restorer = restorer
    None = None
    MaxFaults = 1
SPECIFICATION Spec
INVARIANTS
    TypeOK
    RestoreIsAllOrNothing
    LaterUpdatesStay
PROPERTIES
    TunnelReturns

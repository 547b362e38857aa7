\* Two peers, one queued and one unqueued reconcile at a time, one fault or
\* outside change and one crash at any moment.
CONSTANTS
    Peers = {p1, p2}
    Posts = {post}
    Statuses = {get}
    None = None
    Stale = Stale
    MaxFaults = 1
    MaxCrashes = 1
SPECIFICATION Spec
INVARIANTS
    TypeOK
    SuccessMeansSynced
    FailureAddsNobody
PROPERTIES
    OthersLinkIsKept
    QueuedApplyIsCurrent
    EveryRequestEnds
    KernelConverges

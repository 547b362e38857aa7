\* Two peers, one queued and one unqueued reconcile, nothing fails.
CONSTANTS
    Peers = {p1, p2}
    Posts = {post}
    Statuses = {get}
    None = None
    Stale = Stale
    MaxFaults = 0
    MaxCrashes = 0
SPECIFICATION Spec
PROPERTIES
    RevokedNeverApplied

\* Two updates beside a restore, nothing fails.
CONSTANTS
    Updates = {u1, u2}
    Posts = {post}
    Statuses = {status}
    Restorer = restorer
    None = None
    MaxFaults = 0
SPECIFICATION Spec
PROPERTY
    QueueSerializesSaves

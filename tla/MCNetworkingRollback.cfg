\* One call at a time, one failing command.
CONSTANTS
    Calls = {c1}
    Forwards = 2
    Egresses = {eth0}
    Override = None
    None = None
    MaxFaults = 1
    MaxChanges = 1
SPECIFICATION Spec
PROPERTY
    RollbackSparesOthers

\* Two overlapping calls, two forward rules and two interfaces.
CONSTANTS
    Calls = {c1, c2}
    Forwards = 2
    Egresses = {eth0, eth1}
    Override = None
    None = None
    MaxFaults = 2
    MaxChanges = 1
SPECIFICATION Spec
INVARIANTS
    TypeOK
    AppliedMeansInPlace
    FewCopies
PROPERTY
    RulesConverge

\* Two updates and two readers, one crash at any moment.
CONSTANTS
    Writers = {w1, w2}
    Readers = {r1, r2}
    None = None
    Partial = Partial
    MaxCrashes = 1
SPECIFICATION Spec
INVARIANTS
    TypeOK
    AnswersAreTrue
    ReadsAreCurrent
PROPERTIES
    SerialUpdates
    EveryRequestAnswered

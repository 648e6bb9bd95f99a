\* Two legs, the background reader, one attempt of the close, a claim, a failure.
CONSTANTS
    NULL = NULL
    Legs = {l1, l2}
    Readers = {"background"}
    MaxAttempts = 1
    MaxClaims = 1
    MaxFailures = 1
    Consumers = {}
SPECIFICATION Spec
INVARIANTS
    TypeOK
PROPERTIES
    EmptiedIsClosed
CHECK_DEADLOCK FALSE

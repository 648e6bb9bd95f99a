\* Two legs, two readers, two attempts of the close, two senders of its card.
CONSTANTS
    NULL = NULL
    Legs = {l1, l2}
    Readers = {"urgent", "background"}
    MaxAttempts = 2
    MaxClaims = 0
    MaxFailures = 0
    Consumers = {c1, c2}
SPECIFICATION Spec
SYMMETRY Symmetry
INVARIANTS
    ClosedIsEmpty
    OneAccount
    CardOnce
CHECK_DEADLOCK FALSE

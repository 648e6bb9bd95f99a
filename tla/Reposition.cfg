\* A ladder, its child and one generation more, one fault.
CONSTANTS
    MaxLadders = 3
    Repositioned = {1}
    MaxJit = 1
    MaxTries = 2
    MaxFaults = 1
    NULL = NULL
SPECIFICATION Spec
INVARIANTS
    TypeOK
    InvestedOnce
    CancelledNeverMints
    ManualAndClosed
PROPERTIES
    RepositionEnds
CHECK_DEADLOCK FALSE

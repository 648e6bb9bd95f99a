\* Two ladders, two flow sessions, two previews, two opens, restarts at any time.
CONSTANTS
    NULL = NULL
    Ladders = {l1, l2}
    MaxSessions = 2
    MaxRevision = 6
    MaxPreviews = 2
    MaxOpens = 2
SPECIFICATION Spec
SYMMETRY LadderSymmetry
INVARIANTS
    TypeOK
    CancelledNeverMints
PROPERTIES
    OvertakenHasNoEffect
CHECK_DEADLOCK FALSE

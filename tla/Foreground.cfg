\* Two foreground processes and two workers that wait as long as a marker
\* lives and a little more, one time unit standing for about a second.
CONSTANTS
    f1 = f1
    f2 = f2
    b1 = b1
    b2 = b2
    NONE = NONE
    Foreground = {f1, f2}
    Background = {b1, b2}
    Ttl = 8
    AcquireTime = 0
    Busy = 1
    MaxDelay = 1
    Attempts = 4
    Budget = 6
    Tries = 3
    Window = 1
    MaxWait = 8
    HandoffWait = 1
SPECIFICATION Spec
SYMMETRY MCSymmetry
INVARIANTS
    TypeOK
    BypassOnce
PROPERTIES
    GivesUpOnlyToPeers
    TurnedAwayByNewDemand
CHECK_DEADLOCK FALSE

\* Three rows: a collect or a partial close beside a full close and its burn.
CONSTANTS
    InitialLiquidity = 2
    MaxIntents = 3
    MaxPreviews = 2
SPECIFICATION Spec
INVARIANTS
    TypeOK
    LandedIsKept
    CloseTakesTheRest


PROPERTIES
    ConfirmedIsBooked

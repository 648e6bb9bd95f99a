\* A ladder and its child, no fault.
CONSTANTS
    MaxLadders = 2
    Repositioned = {1}
    MaxJit = 1
    MaxTries = 1
    MaxFaults = 0
    NULL = NULL
SPECIFICATION Spec
PROPERTIES
    CloseIsBooked
CHECK_DEADLOCK FALSE

\* One intent and everything that may befall it.  The mint is journalled under
\* the label its readers use and there is a second provider, for every action to
\* occur; what is checked here is proved for either label and either provider.
CONSTANTS
    i1 = i1
    i2 = i2
    v1 = v1
    v2 = v2
    NULL = NULL
    Intents = {i1}
    First = i1
    TerminalReason = "GAS_CAP"
    Stages <- MCStages
    Variants = {v1, v2}
    MaxNonce = 1
    LateDelivery = FALSE
    MintLabel = "V4_MINT"
    AlternateProvider = TRUE
SYMMETRY MCSymmetry
SPECIFICATION Spec
INVARIANTS
    TypeOK
    MintsOnce
    RetryableNeverBroadcast
CHECK_DEADLOCK FALSE

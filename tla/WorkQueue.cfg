\* Two cycles under one owner name, aborting, losing and retaking leases; all as coded.
CONSTANTS
    e1 = e1
    r1 = r1
    r2 = r2
    open = open
    close = close
    v1 = v1
    NULL = NULL
    Executors = {e1}
    Reconcilers = {r1, r2}
    Stages = {open}
    BatchStages = {open}
    Variants = {v1}
    MaxNonce = 0
    MaxAttempt = 0
    LateDelivery = TRUE
    AtomicEvidence = FALSE
SPECIFICATION WorkSpec
SYMMETRY MCSymmetry
INVARIANTS
    WorkTypeOK
    OpenRowsReachable
PROPERTIES
    WorkEndsOnce
    ImplementsJournal
CHECK_DEADLOCK FALSE

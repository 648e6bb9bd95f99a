\* One cycle after the other and an executor that may die anywhere; all as coded.
CONSTANTS
    e1 = e1
    r1 = r1
    r2 = r2
    open = open
    close = close
    v1 = v1
    NULL = NULL
    Executors = {e1}
    Reconcilers = {r1}
    Stages = {open}
    BatchStages = {open}
    Variants = {v1}
    MaxNonce = 0
    MaxAttempt = 0
    LateDelivery = TRUE
    AtomicEvidence = FALSE
SPECIFICATION FairWorkSpec
PROPERTIES
    ConsumedRowSettles
    ConfirmedProjected
CHECK_DEADLOCK FALSE

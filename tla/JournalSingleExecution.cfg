\* Two stages of one wallet, evidence read at one instant and no late delivery.
\* Without the first FailedNeverLands does not hold.
CONSTANTS
    e1 = e1
    e2 = e2
    r1 = r1
    open = open
    close = close
    v1 = v1
    v2 = v2
    NULL = NULL
    Executors = {e1}
    Reconcilers = {r1}
    Stages = {open, close}
    Variants = {v1}
    MaxNonce = 1
    MaxAttempt = 1
    LateDelivery = FALSE
    AtomicEvidence = TRUE
SPECIFICATION Spec
SYMMETRY MCSymmetry
INVARIANTS
    TypeOK
    JournalBeforeBroadcast
    AttemptsInOrder
    SingleExecution
    FailedNeverLands
    NonceExclusive
    ConfirmedExecuted
PROPERTIES
    RowsSettleOnce
    ImplementsAuthority
CHECK_DEADLOCK FALSE

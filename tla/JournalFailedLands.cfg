\* Hash and nonces are read by separate calls: a row is given up as not
\* landed although its transaction was mined between the two.
CONSTANTS
    e1 = e1
    e2 = e2
    r1 = r1
    open = open
    close = close
    v1 = v1
    v2 = v2
    NULL = NULL
    Executors = {e1}
    Reconcilers = {r1}
    Stages = {open}
    Variants = {v1}
    MaxNonce = 1
    MaxAttempt = 1
    LateDelivery = FALSE
    AtomicEvidence = FALSE
SPECIFICATION Spec
INVARIANTS
    FailedNeverLands
CHECK_DEADLOCK FALSE

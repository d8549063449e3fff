CONSTANTS
    m1 = m1
    m2 = m2
    d1 = d1
    d2 = d2
    d3 = d3
    d4 = d4
    r1 = r1
    r2 = r2
    r3 = r3
    p1 = p1
    p2 = p2
    live = live
    dlq = dlq
    NoQueue = NoQueue
    NoDelivery = NoDelivery
    Message = {m1, m2}
    Delivery = {d1, d2, d3, d4}
    Queue = {live, dlq}
    Sources = {live}
    Run = {r1, r2, r3}
    Process = {p1, p2}
    QueueOf <- MCQueueOf
    ProcessOf <- MCProcessOf
    DeadLetter <- MCDeadLetter
    MaxRetries <- MCMaxRetries
    BatchSize <- MCSingle
    MaxConcurrency <- MCMaxConcurrency
    BatchTimeout = 1
    Delays = {0, 1}
    Lease = 1
    MaxMessages = 2
SYMMETRY Identities
SPECIFICATION Spec
INVARIANTS
    AttemptsWithinPolicy

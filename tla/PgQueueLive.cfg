CONSTANTS
    m1 = m1
    m2 = m2
    d1 = d1
    d2 = d2
    d3 = d3
    d4 = d4
    r1 = r1
    r2 = r2
    r3 = r3
    p1 = p1
    p2 = p2
    live = live
    dlq = dlq
    NoQueue = NoQueue
    NoDelivery = NoDelivery
    Message = {m1, m2}
    Delivery = {d1, d2, d3}
    Queue = {live, dlq}
    Sources = {live}
    Run = {r1, r3}
    Process = {p1, p2}
    QueueOf <- MCOneEach
    ProcessOf <- MCOneProcess
    DeadLetter <- MCDeadLetter
    MaxRetries <- MCMaxRetries
    BatchSize <- MCBatchSize
    MaxConcurrency <- MCSerial
    BatchTimeout = 1
    Delays = {0}
    Lease = 1
    MaxMessages = 2
SPECIFICATION FairSpec
PROPERTIES
    EventuallyResolved

SPECIFICATION FairSpec
CONSTANTS
    queue = queue
    Op = {o1, o2, o3}
    Key = {queue}
    KeyOf <- MCKeyOf
    MaxConcurrent <- MCMaxConcurrent
    Call = {c1}
    Loop = {l1, l2}
    LoopKey <- MCLoopKey
    NoOp = NoOp
    Request = {r1, r2}
    Owners = {"process", "direct"}
INVARIANTS TypeOK PoolOutlivesWork OverdueReachesAll
PROPERTIES ShutdownEnds
CHECK_DEADLOCK FALSE

SPECIFICATION FairSpec
CONSTANTS
    m1 = m1 m2 = m2 
    c1 = c1 c2 = c2
    p1 = p1
    h1 = h1 h2 = h2
    Message = {m1, m2}
    Chunk = {c1, c2}
    Pass = {p1}
    Holder = {h1, h2}
    Main = Main Dead = Dead
    Queue = {Main, Dead}
    Sources = {Main}
    NoQueue = NoQueue Nobody = Nobody NoMessage = NoMessage
    Lanes = {"ledger", "positions", "transaction"}
    BatchSize = 1
    PassOf <- MCPassOf
    Rows <- MCRows
    ChunkOf <- MCChunkOf
    DeadLetter <- MCDeadLetter
    MaxHolders <- MCMaxHolders
    MaxRetries <- MCMaxRetries
INVARIANTS TypeOK NothingLost 
CHECK_DEADLOCK FALSE
PROPERTIES PassCloses

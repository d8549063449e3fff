CONSTANTS
    Tick = {1, 2}
    Endpoint = {"near", "archive"}
    Oldest <- MCOldest
    Floor = 1
    MaxPerTick = 3
    FlushEvery = 2
    MaxHead = 4
    MaxFaults = 2
SPECIFICATION FairSpec
INVARIANTS TypeOK WatermarkCovered
PROPERTIES ImplementsFrontier CatchesUp

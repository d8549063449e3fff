CONSTANTS
    Null = Null
    Window = 3
    MaxHead = 5
    MaxFaults = 2
SPECIFICATION Spec
INVARIANTS TypeOK CursorIsReceipt EmittedIsOwed
PROPERTIES EmittedIsWritten

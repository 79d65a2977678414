SPECIFICATION Spec
CONSTANTS
    None = None
    Workers = {w1, w2}
    Variants = {x, y}
    Chunk = 3
    EventLimit = 3
    StdoutLimit = 2
    MaxWritten = 4
    MaxCalls = 2
    MaxFaults = 2
INVARIANTS
    AcceptedIsWhole
    NothingLeftRunning
    CountsAreOfKeptBytes
    OneRecordPerRun
PROPERTIES
    CallsEnd

SPECIFICATION MigrationSpec
CONSTANTS
    k1 = k1
    k2 = k2
    NoOne = NoOne
    Openers = {k1, k2}
    MaxInterrupts = 1
INVARIANT
    InterruptedStoreUsable
CHECK_DEADLOCK FALSE

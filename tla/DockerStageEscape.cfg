SPECIFICATION StageSpec
INVARIANT
    LiveProcessesAreUncertain
CHECK_DEADLOCK FALSE

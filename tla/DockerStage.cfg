SPECIFICATION StageSpec
INVARIANTS
    CertainMeansNothingRuns
    CaptureIsFinal
    RetainedIsComplete
PROPERTIES
    StageEnds
CHECK_DEADLOCK FALSE

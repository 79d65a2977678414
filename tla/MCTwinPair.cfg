SPECIFICATION PairSpec
CONSTANT
    Profiles <- MCProfiles
INVARIANTS
    CompleteIsEarned
    ExecutorsNeedPreconditions
PROPERTIES
    UncertaintyStopsTheRun
    AttemptEnds
CHECK_DEADLOCK FALSE

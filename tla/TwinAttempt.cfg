SPECIFICATION AttemptSpec
CONSTANTS
    Runners = {r1, r2}
    Approvals = {a1, a2}
    Configs = {c1, c2}
    StageCount = 2
INVARIANTS
    AtMostOneExecution
    CompletedRowsHaveRecords
    AnswersAreBound
PROPERTIES
    EveryRunEnds
CHECK_DEADLOCK FALSE

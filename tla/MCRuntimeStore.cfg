SPECIFICATION Spec
CONSTANTS
    s1 = s1
    o1 = o1
    o2 = o2
    q1 = q1
    q2 = q2
    a = a
    b = b
    p1 = p1
    p2 = p2
    None = None
    Scopes = {s1}
    Ops = {o1, o2}
    Requests = {q1, q2}
    Caps = {a, b}
    Outcomes = {"out"}
    PreparedIds = {p1, p2}
    Candidates <- MCCandidates
    MaxTickets = 3
    MaxClock = 1
    MaxTTL = 1
SYMMETRY IdSymmetry
INVARIANTS
    RowAlwaysVerifies
    ReceiptsChain
    ReceiptsAreBound
PROPERTIES
    NoSwapUnderLiveProcess
    ImplementsPointer
CHECK_DEADLOCK FALSE

SPECIFICATION RaceSpec
CONSTANTS
    s1 = s1
    o1 = o1
    q1 = q1
    ca = ca
    cb = cb
    k1 = k1
    k2 = k2
    None = None
    Clients = {k1, k2}
    Approvals <- MCNoApprovals
    Scopes = {s1}
    Ops = {o1}
    Requests = {q1}
    Caps = {ca, cb}
    Outcomes = {"out"}
    PreparedIds = {1, 2}
    Candidates <- MCCandidatesRace
    MaxTickets = 1
    MaxClock = 0
    MaxTTL = 1
INVARIANTS
    AnswersAgree
PROPERTIES
    EveryCallEnds
CHECK_DEADLOCK FALSE

SPECIFICATION ControlSpec
CONSTANTS
    s1 = s1
    o1 = o1
    q1 = q1
    ca = ca
    cb = cb
    k1 = k1
    k2 = k2
    None = None
    Clients = {k1, k2}
    Approvals <- MCApprovals
    Scopes = {s1}
    Ops = {o1}
    Requests = {q1}
    Caps = {ca, cb}
    Outcomes = {"out"}
    PreparedIds = {1}
    Candidates <- MCCandidates
    MaxTickets = 2
    MaxClock = 1
    MaxTTL = 2
SYMMETRY ClientSymmetry
INVARIANTS
    CommittedCallsReplay
PROPERTIES
    AuthorizedWhenCommitted
CHECK_DEADLOCK FALSE

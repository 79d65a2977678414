SPECIFICATION MCSpec
CONSTANTS
    A = A
    B1 = B1
    B2 = B2
    idA = idA
    idB = idB
    idC = idC
    a1 = a1
    a2 = a2
    b1 = b1
    b2 = b2
    None = None
    Capsules = {A, B1, B2}
    Atoms = {a1, a2, b1, b2}
    Ids = {idA, idB, idC}
    Nodes <- MCNodes
    Libraries <- MCLibraries
    Policies <- MCPolicies
    MaxChanges = 4
    MaxCalls = 2
INVARIANTS
    ClosureIsLeast
    ViewsPreserve
    ReasonsHold
    ReplayIsExact
PROPERTIES
    DisclosureIsAdmitted
    CallsReturn

SPECIFICATION MCSpec
CONSTANTS
    c1 = c1
    md = md
    txt = txt
    sh = sh
    Shards = {sh}
    ShardOf <- MCShardOf
    None = None
    Writers = {w1, w2}
    Digests = {c1}
    MediaTypes = {md, txt}
    Sources <- MCSources
    Authors = {alice}
    Approvers = {bob}
    MaxClock = 1
    Lifetimes = {1}
    Plain <- MCPlain
    Versions = {v1}
    Packages = {k1}
    MaxCaptures = 2
    MaxApprovals = 1
    MaxFaults = 3
SYMMETRY Symmetry
INVARIANTS
    AcknowledgedStays
    EvidenceStays
    PublicationsAgree
    PermitsAreStable
    AtomsAsReviewed
PROPERTIES
    FreshAtCommit

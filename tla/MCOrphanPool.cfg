SPECIFICATION Spec
CONSTANTS
    base = base
    parent = parent
    child = child
    wrong = wrong
    cheap = cheap
    last = last
    bare = bare
    huge = huge
    Tx <- MCTx
    Root = base
    Spends <- MCSpends
    Outputs <- MCOutputs
    Verdict <- MCVerdict
    Large = {huge}
    Peer = {p1, p2}
    ExpireTime = 2
    ExpireInterval = 1
    p1 = p1
    p2 = p2
    Settings <- MCSettings
INVARIANTS
    IndexExact
    OrphansBounded
PROPERTY
    ResolvedAtOnce
CHECK_DEADLOCK FALSE

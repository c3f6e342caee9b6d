SPECIFICATION Spec
CONSTANTS
    g = g
    b1 = b1
    b2 = b2
    b3 = b3
    c1 = c1
    p = p
    q = q
    Block <- MCBlock
    Genesis = g
    Parent <- MCParent
    Peer = {p, q}
    Preferred = {p}
    Settings <- MCSettings
    MaxInTransit = 2
    Window = 1
    MaxToAnnounce = 2
    MaxPoints = 2
    None = None
INVARIANTS
    DownloadsAgree
    TransitBounded
    CommonBlockIsFull

    
CHECK_DEADLOCK FALSE

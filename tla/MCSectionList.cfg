CONSTANTS
    b0 = b0
    b1 = b1
    b2 = b2
    m1 = m1
    m2 = m2
    m3 = m3
    NULL = NULL
    Block <- MCBlock
    Separate <- MCSeparate
    LoReserve = 3
    HalfRange = 4
    Headers <- MCHeaders
    Linkers <- MCLinkers
SYMMETRY Addresses
SPECIFICATION Spec
CHECK_DEADLOCK FALSE
INVARIANTS
    TypeOK
    IndexIsRank
    CountReadsBack
    WalkReadsLive
    FreedOnce
    NothingLeft
PROPERTIES
    DelscnKeepsLinks
    ImplementsSectionSeq

CONSTANTS
    d1 = d1
    d2 = d2
    d3 = d3
    NULL = NULL
    Desc = {d1, d2, d3}
    Image <- MCImage
    File <- MCOneFile
    Kind <- MCKind
    Size <- MCSize
    Header <- MCHeader
    Offset <- MCLiveOffset
    MaxHeld = 1
    MaxLost = 0
SPECIFICATION FairSpec
PROPERTIES
    ImplementsHandles
    EndReturns

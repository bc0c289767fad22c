CONSTANTS
    d1 = d1
    d2 = d2
    d3 = d3
    NULL = NULL
    Desc = {d1, d2, d3}
    Image <- MCImage
    File <- MCFile
    Kind <- MCKind
    Size <- MCSize
    Header <- MCHeader
    Offset <- MCOffset
    MaxHeld = 2
    MaxLost = 1
SYMMETRY Addresses
SPECIFICATION Spec
INVARIANTS
    TypeOK
    RefCountExact
    MembersAgree
    ArchiveOutlivesMembers
    HandlesAreOpen
    MemberOpenOnce
    MemberInsideArchive
    NoLeak
    MembersOfDisabledAreDisabled

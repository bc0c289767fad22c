\* Tables of two cells' alignment, five sections and three program headers.
CONSTANTS
    TableAlign = 2
    LoReserve = 5
    PnXnum = 2
    Stored <- Files
    Blocks <- AllBlocks
    Places = {4, 12}
    Sizes = {1, 3}
    PhCounts = {0, 1, 2}
    MaxScn = 5
    MaxData = 2
    MaxCalls = 3
SPECIFICATION Spec
CHECK_DEADLOCK FALSE
INVARIANTS
    TypeOK
    LaidApart
    LayoutSettles
    SavedReadsBack

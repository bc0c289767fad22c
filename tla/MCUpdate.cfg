CONSTANTS
    Classes = {32, 64}
    AddrAlign = 2
    LoReserve = 4
    PnXnum = 2
    Word = 64
    Byte = {0, 1, 2}
    Stored <- LibraryFiles
    Blocks <- BothBlocks
    Places <- BothPlaces
    Sizes <- BothSizes
    PhCounts <- BothPhCounts
    Settable <- BothSettable
    Unmarked <- BothUnmarked
    MaxScn = 4
    MaxData = 2
    MaxCalls = 3
SPECIFICATION Spec
INVARIANTS TypeOK SavedReadsBack LayoutSettles SectionsApart DataAligned WritesInside

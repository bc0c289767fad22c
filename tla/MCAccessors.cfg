CONSTANTS
    Byte     = 2
    Sym      = 3
    Word     = 6
    Wide     = 12
    MaxCalls = 2
SPECIFICATION Spec
INVARIANT AcceptedReadsBack
PROPERTY OnlyTheRecord
CHECK_DEADLOCK FALSE

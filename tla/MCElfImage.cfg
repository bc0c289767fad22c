SPECIFICATION Spec
CONSTANTS
    Files <- Layouts
    Sizes = {0, 2}
    MaxEdits = 2
INVARIANTS
    DataIsCurrent
    RawIsTheFile
    BuffersReturned
CHECK_DEADLOCK FALSE

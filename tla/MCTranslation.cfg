\* Every call of AllCalls; a number of 2^16 and more is beyond every buffer.
SPECIFICATION Spec
CONSTANTS
    LwordAlign = 8
    Huge = 65536
    Calls <- AllCalls
INVARIANTS
    TypeOK
    TranslatedExactly
    WholeTablesTranslate
    StaysInside
    ConvertedSoFar

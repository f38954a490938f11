SPECIFICATION ChainsSpec
CONSTANTS
    Names = {1, 2, 3, 4, 5, 6, 7}
    EmptyName = 0
    NULL = NULL
    Handle = Handle
    Freed = Freed
    CHAIN_INDEX_BUCKET_LEN = 2
    CHAIN_INDEX_INSERT_MAX = 2
    Programs <- Straight
    MaxParsed = 5
    Keys = {1, 2, 3, 4, 5, 6, 7, 8}
    MaxSize = 7
INVARIANTS LookupExact JumpsResolved ListInOrder TypeOK RightSection
PROPERTY SearchEnds
CHECK_DEADLOCK FALSE

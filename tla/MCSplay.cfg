CONSTANTS
    Num = {1, 2, 3, 4, 5, 6, 7}
    Key = {"a", "b", "c", "d"}
    Data = {x, y}
    nrows = 3
    hash_fcn <- MCHash
    LHead = {"g", "h"}
    Entry = {"p", "q", "r"}
    Bucket = {"g", "h"}
    HNode = {"p", "q", "r"}
    AddrKey <- MCAddrKey
    Rec = {"x", "y"}
    hash_table_size = 4
    MaxNodes = 3
    Elem = {1, 2, 3, 4}
    heapSize = 4
    MaxInserts = 2
    KmpPattern <- MCKmpPattern
    KmpText <- MCKmpText
    Lists <- MCLists
    Texts <- MCTexts
    NMax = {2, 9}
    KeyLists <- MCKeyLists
    Sources <- MCSources
    InFront <- MCInFront
    BLOCK_SIZE <- MCBLOCK_SIZE
    LENGTH_SIZE <- MCLENGTH_SIZE
    DIGEST_SIZE <- MCDIGEST_SIZE
    LenBits = 7
    MaxMessage = 17
    Piece <- MCPiece
    MaxKey = 9
    MaxText = 5
    Hashes <- MCHashes
    KeyLengths = {0, 1, 16, 160, 161}
    CodeDigits = {1, 6, 8}
    Secrets <- MCSecrets
    BadLengths <- MCBadLengths
    BufSizes = {1, 8, 12}
    BufferBits = 16
SPECIFICATION Spec
INVARIANT SplayKeeps
CHECK_DEADLOCK FALSE

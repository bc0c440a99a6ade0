CONSTANTS
    a = a
    b = b
    Item <- MCItem
    Event <- MCEvent
    ArgLists <- MCArgLists
    Entry = {e1, e2, e3}
    NULL = NULL
    QueueMax = 4
    ReadMax = 3
    MaxEvents = 2
    Conn = {c1}
    BUFF_SIZE = 3
    Bytes <- MCBytes
    MaxBytes = 3
    Writer = {w1, w2, w3}
    Level <- MCLevel
    SystemLevel = 3
    MaxGone = 2
    MaxRecords = 2
    Thread = {"t", "u"}
    LOG_FILE_SIZE_MAX = 0
    MaxZlogs = 3
    MaxSecond = 2
    MaxOpens = 2
    Bodies <- MCBodies
    MY_BUF_SIZE = 10
    SIZE_MOD = 32
SPECIFICATION ProgramsSpec
INVARIANTS Accounted ForwardsInOrder MovedOrFailed OneStream KeepsRecords DecodesData
PROPERTIES NoEarlyEnd InOrder EndsAsSaid EndWithPeers LogsEnd
CHECK_DEADLOCK FALSE

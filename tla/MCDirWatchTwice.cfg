CONSTANTS
    a = a
    b = b
    Item <- MCItem
    Event <- MCEvent
    ArgLists <- MCTwice
    Entry = {e1, e2, e3}
    NULL = NULL
    QueueMax = 6
    ReadMax = 3
    MaxEvents = 2
SPECIFICATION FairSpec
PROPERTY Ends
CHECK_DEADLOCK FALSE

CONSTANTS
    compute_code <- MCcompute_code
    SixDigit <- MCSixDigit
    ScratchCode <- MCScratch
    Secret <- MCSecret
    STEP = 30
    SKEW_SEARCH = 1
    None = None
    Login = {p1, p2}
    Killable = {p1}
    Params <- MCParams
    Entry <- MCEntry
    InitFile <- MCInitFile
    MaxTime = 1
    MaxLogins = 2
    NoFile = NoFile
    NoOne = NoOne
    a = a
    b = b
SPECIFICATION FreshFairSpec
PROPERTIES Atomic LoginEnds
CHECK_DEADLOCK FALSE

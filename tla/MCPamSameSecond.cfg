CONSTANTS
    compute_code <- MCcompute_code
    SixDigit <- MCSixDigit
    ScratchCode <- MCScratch
    Secret <- MCSecret
    STEP = 1
    SKEW_SEARCH = 1
    None = None
    Login = {p1, p2}
    Killable = {}
    Params <- AnyParam
    Entry <- CodeOrScratch
    InitFile <- WithScratch
    MaxTime = 0
    MaxLogins = 3
    NoFile = NoFile
    NoOne = NoOne
    a = a
SPECIFICATION Spec
SYMMETRY Symmetric
INVARIANT ScratchNeverReused
CHECK_DEADLOCK FALSE

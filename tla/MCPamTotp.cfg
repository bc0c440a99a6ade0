CONSTANTS
    compute_code <- MCcompute_code
    SixDigit <- MCSixDigit
    ScratchCode <- MCScratch
    Secret <- MCSecret
    STEP = 1
    SKEW_SEARCH = 6
    None = None
    Login = {p1, p2}
    Killable = {}
    Params <- AnyParam
    Entry <- Steps
    InitFile <- Accounts
    MaxTime = 2
    MaxLogins = 3
    NoFile = NoFile
    NoOne = NoOne
    a = a
SPECIFICATION Spec
SYMMETRY Symmetric
INVARIANTS StepSingleUse RateBound
PROPERTY SkewAgrees
CHECK_DEADLOCK FALSE

CONSTANTS
    compute_code <- MCcompute_code
    SixDigit <- MCSixDigit
    ScratchCode <- MCScratch
    Secret <- MCSecret
    STEP = 1
    SKEW_SEARCH = 6
    None = None
    Login = {p1, p2}
    Killable = {}
    Params <- AnyParam
    Entry <- Third
    InitFile <- Taught
    MaxTime = 1
    MaxLogins = 2
    NoFile = NoFile
    NoOne = NoOne
    a = a
SPECIFICATION Spec
SYMMETRY Symmetric
INVARIANT StepNeverReused
CHECK_DEADLOCK FALSE

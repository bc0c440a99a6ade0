CONSTANTS
    compute_code <- MCcompute_code
    SixDigit <- MCSixDigit
    ScratchCode <- MCScratch
    Secret <- MCSecret
    STEP = 30
    SKEW_SEARCH = 1
    None = None
    Login = {p1}
    Killable = {}
    Params <- MCParams
    Entry <- MCEntry
    InitFile <- MCInitFile
    MaxTime = 1
    MaxLogins = 0
    NoFile = NoFile
    NoOne = NoOne
    Setter = {s1, s2}
    Argument <- MCArgument
    MaxOptions <- MCMaxOptions
    Drawn <- MCDrawn
    SecretOf <- MCSecretOf
    a = a
    s1 = s1
    s2 = s2
SPECIFICATION AccountSpec
INVARIANT MinimalWindowUsable
CHECK_DEADLOCK FALSE

SPECIFICATION Spec

CONSTANTS
    Kinds = {"arrow", "sheet", "glint"}
    Lengths <- MCLengths
    Cadences <- MCCadences
    Strengths <- MCStrengths
    Floor <- MCFloor
    FadeLen <- MCFadeLen
    Gaps = {4, 22, 30, 183}
    FirstStrikes = {10, 30}
    StormTime = 60
    Ambient = 1
    Full = 20
    Lags = {1, 2}
    MissLags = {7}
    Misses = {FALSE, TRUE}

INVARIANTS
    TypeOK
    SteadyFlash

PROPERTIES
    PauseBeforeStrike

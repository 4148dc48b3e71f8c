SPECIFICATION FairSpec

CONSTANTS
    v1 = v1
    v2 = v2
    v2early = v2early
    v2late = v2late
    Images <- MCImages
    Health <- MCHealth
    Layout <- MCLayout
    Factory = v1
    Rollbacks = {FALSE, TRUE}
    Blank = Blank
    None = None

INVARIANTS
    TypeOK
    AlwaysBootable
    SettingsKept

PROPERTIES
    ServesAgain
    ImplementsTrial

SPECIFICATION Spec

CONSTANTS
    Commands = {"set_settings"}
    Patches <- MCPatches
    Profiles = {"plants"}
    DefaultProfile = "plants"
    Slots = {}
    Hours <- MCHours
    FallbackHour = "day"
    Schedule <- MCSchedule
    Dim <- MCDim
    Full = 2
    MaxLevel = 3
    MoonLevel = 1
    FeedTime = 1
    StormTime = 1
    GapMin = 2
    GapMax = 3
    SntpGrace = 1
    Readings = {}
    Reports = {}
    FlashFaults = TRUE
    Absent = Absent

INVARIANTS
    CleanMeansStored

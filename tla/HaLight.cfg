SPECIFICATION HaFairSpec

CONSTANTS
    Commands = {"set_operation_mode", "set_manual_rgbw", "set_pump", "scene_manual_moon", "scene_feed_15min", "scene_end_special", "set_settings"}
    Patches <- MCPatches
    Profiles = {"plants"}
    DefaultProfile = "plants"
    Slots = {}
    Hours <- MCHours
    FallbackHour = "day"
    Schedule <- MCSchedule
    Dim <- MCDim
    Full = 1
    MaxLevel = 1
    MoonLevel = 1
    FeedTime = 1
    StormTime = 1
    GapMin = 2
    GapMax = 2
    SntpGrace = 0
    Readings = {}
    Reports = {"thunder"}
    FlashFaults = FALSE
    Absent = Absent

INVARIANTS
    HaHolds
    StormOnlyInAuto
    CalmBetweenStorms

PROPERTIES
    HaLearns
    LightFollowsScene
    PumpResumes

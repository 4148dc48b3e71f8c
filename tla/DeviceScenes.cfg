SPECIFICATION Spec

CONSTANTS
    Commands = {"set_operation_mode", "set_manual_rgbw", "scene_show_guests", "scene_manual_moon", "scene_lightning", "scene_end_special", "set_settings"}
    Patches <- MCStormPatches
    Profiles = {"plants"}
    DefaultProfile = "plants"
    Slots = {}
    Hours <- MCHours
    FallbackHour = "day"
    Schedule <- MCSchedule
    Dim <- MCDim
    Full = 1
    MaxLevel = 1
    MoonLevel = 1
    FeedTime = 1
    StormTime = 1
    GapMin = 2
    GapMax = 2
    SntpGrace = 1
    Readings = {}
    Reports = {"thunder"}
    FlashFaults = TRUE
    Absent = Absent

INVARIANTS
    TypeOK
    SceneExclusive
    ReportHonest
    SceneRemembered

PROPERTIES
    StormOwnsLight
    ImplementsArbiter
    ImportAloneForgets

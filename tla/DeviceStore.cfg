SPECIFICATION FairFlashSpec

CONSTANTS
    Commands = {"set_pump", "set_schedule", "set_flags", "save_preset", "load_preset", "scene_feed_15min"}
    Patches = {}
    Profiles = {"plants"}
    DefaultProfile = "plants"
    Slots = {1}
    Hours = {"day"}
    FallbackHour = "day"
    Schedule <- MCSchedule
    Dim <- MCDim
    Full = 2
    MaxLevel = 2
    MoonLevel = 1
    FeedTime = 1
    StormTime = 1
    GapMin = 2
    GapMax = 3
    SntpGrace = 0
    Readings = {"cool", "mid", "hot"}
    Reports = {}
    FlashFaults = TRUE
    Absent = Absent

INVARIANTS
    CleanMeansStored

PROPERTIES
    ThrottleHolds
    EventuallyStored

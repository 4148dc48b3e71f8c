SPECIFICATION FairSpec

CONSTANTS
    Plans <- MCPlans
    Step = 20

INVARIANTS
    TypeOK
    NightLightIsArc

PROPERTIES
    DayThroughTwilight
    TwilightMonotone
    SunReturns

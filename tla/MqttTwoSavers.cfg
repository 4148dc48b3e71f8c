SPECIFICATION Spec

CONSTANTS
    BrokerA = BrokerA
    BrokerB = BrokerB
    Off = Off
    Null = Null
    h1 = h1
    h2 = h2
    Configs <- MCConfigs
    Enabled <- MCEnabled
    Handles <- MCHandles
    MaxCmdQueue = 2
    MaxCmds = 1
    Panels = {TRUE}
    Drops = TRUE

INVARIANTS
    SavedAndReconnected

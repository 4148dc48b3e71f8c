SPECIFICATION FairSpec

CONSTANTS
    BrokerA = BrokerA
    BrokerB = BrokerB
    Off = Off
    Null = Null
    h1 = h1
    h2 = h2
    Configs <- MCConfigs
    Enabled <- MCEnabled
    Handles <- MCOneHandle
    MaxCmdQueue = 2
    MaxCmds = 3
    Panels = {FALSE, TRUE}
    Drops = TRUE

INVARIANTS
    TypeOK
    CommandsInOrder
    ClientReplaced
    ConnectedHonest
    NoStaleHandle

PROPERTIES
    CommandsLeave

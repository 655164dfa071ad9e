CONSTANTS
    Apps <- AllApps
    Devices = {1, 5}
    HasVirtualCdj = TRUE
    MaxEvents <- ComeAndGo
    MaxTotal = 4
    NoMaster = NoMaster
    NoTitle = NoTitle
    MaxPanels = 4
    BarLength = 4
    Bars = 2
    Tempi = {1, 3}
    MaxDevices = 4
    MaxBeatHistory = 1
    MaxHistory = 1
    MaxOscLog = 2
    MaxBpmSamples = 1
SPECIFICATION AppsSpec
INVARIANTS
    DisplayFollowsNetwork
    LossTakesBeatAndStatus
    CountFollowsNetwork
    EventsMatchPoll

CONSTANTS
    Apps = {"ableton-link"}
    Devices = {1}
    HasVirtualCdj = FALSE
    MaxEvents <- OneBeat
    MaxTotal = 5
    NoMaster = NoMaster
    NoTitle = NoTitle
    MaxPanels = 4
    BarLength = 4
    Bars = 2
    Tempi = {1, 3}
    MaxDevices = 4
    MaxBeatHistory = 1
    MaxHistory = 1
    MaxOscLog = 2
    MaxBpmSamples = 1
SPECIFICATION AppsSpec
INVARIANT DownbeatSyncs

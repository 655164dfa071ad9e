CONSTANTS
    Apps <- WheelOnly
    Databases = {"large"}
    TracksOf <- SmallDatabases
    Analysed <- SmallAnalysed
    Length <- SmallLength
    Whole = 2
    LoopsOf <- SmallLoops
    Title <- SmallTitle
    WithArtwork = {"a", "c", "e"}
    ItemsOf <- SmallItems
    Bpm <- SmallBpm
    MinBpm = 1
    MaxBpm = 8
    FirstMin = 3
    FirstMax = 5
    FirstStep = 2
    MaxStep = 3
    TopOf <- SmallTop
    Children <- SmallChildren
    KeysOf <- TwoKeys
    Rows = 2
    Nothing = Nothing
SPECIFICATION AppsSpec
INVARIANT ClickSelectsDrawn

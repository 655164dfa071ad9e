CONSTANTS
    Apps <- AllApps
    Databases = {"large", "small", "empty"}
    TracksOf <- SmallDatabases
    Analysed <- SmallAnalysed
    Length <- SmallLength
    Whole = 2
    LoopsOf <- SmallLoops
    Title <- SmallTitle
    WithArtwork = {"a", "c", "e"}
    ItemsOf <- SmallItems
    Bpm <- SmallBpm
    MinBpm = 1
    MaxBpm = 8
    FirstMin = 3
    FirstMax = 5
    FirstStep = 2
    MaxStep = 3
    TopOf <- SmallTop
    Children <- SmallChildren
    KeysOf <- SmallKeys
    Rows = 2
    Nothing = Nothing
SPECIFICATION AppsSpec
INVARIANTS
    AppTypeOK
    HighlightDrawn
    HighlightShown
    DataOfTrack
    DataShownOnceLoaded
    PlayheadInData
    LoopInTrack
    ArtworkOfHighlight
    TrackOfDatabase
    RangeOrdered
    ResultsInRange
    PanelsFollow
    PanelHighlightDrawn
    SelectedKeyOnWheel
    MinorKeysPlaced
    CompatibleBothWays

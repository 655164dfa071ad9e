CONSTANTS
    Devices = {1, 2}
    HasVirtualCdj = TRUE
    MaxEvents <- SafetyEvents
SPECIFICATION Spec
CONSTRAINT OneOfVirtualCdj
INVARIANTS
    TypeOK
    ExactlyOnceInOrder
    LatestBeatCoversQueue
    LatestStatusCoversQueue
    OnlyInFlightBeatOutlivesLoss
PROPERTIES
    CachesOnlyAdvance
    ImplementsEventChannel
    ImplementsEventFeed

CONSTANTS
    Devices = {1}
    HasVirtualCdj = TRUE
    MaxEvents <- Few
    Object = object
    None = None
    MaxFailed = 0
    StoppingKinds = {"update", "master"}
SPECIFICATION FairSystemSpec
INVARIANT NoWaitCycle
PROPERTIES
    NothingQueuedOnceStopped
    DeliveredUnlessDestroyed
    MainThreadReturns
CHECK_DEADLOCK FALSE

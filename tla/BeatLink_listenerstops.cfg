CONSTANTS
    Devices = {1}
    HasVirtualCdj = TRUE
    MaxEvents <- TwoBeats
    Object = object
    None = None
    MaxFailed = 0
    StoppingKinds = {"beat"}
SPECIFICATION FairSystemSpec
PROPERTY CallsReturn
CHECK_DEADLOCK FALSE

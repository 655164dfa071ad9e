CONSTANTS
    Instances = {a, b}
    None = None
    MaxFailed = 1
SPECIFICATION FairSpec
INVARIANTS
    TypeOK
    OnlyFailedStartsDangle
    RunningIsListening
    StoppedIsQuiet
    RegistrationsCountStarts
PROPERTY CallsReturn
CHECK_DEADLOCK FALSE

CONSTANTS
    Instances = {a}
    None = None
    MaxFailed = 2
SPECIFICATION Spec
INVARIANT OneCallPerBeat
CHECK_DEADLOCK FALSE

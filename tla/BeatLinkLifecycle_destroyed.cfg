CONSTANTS
    Instances = {a, b}
    None = None
    MaxFailed = 1
SPECIFICATION Spec
INVARIANT NoCallIntoDestroyed
CHECK_DEADLOCK FALSE

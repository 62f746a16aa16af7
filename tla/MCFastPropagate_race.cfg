SPECIFICATION Spec
CONSTANTS
    MaxTime = 5
    MaxUpdates = 2
    Offsets = {0}
    Threading = {TRUE}
INVARIANTS CacheCurrent
CHECK_DEADLOCK FALSE

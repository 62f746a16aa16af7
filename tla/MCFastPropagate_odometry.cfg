SPECIFICATION Spec
CONSTANTS
    MaxTime = 6
    MaxUpdates = 3
    Offsets <- BothWays
    Threading = {TRUE, FALSE}
INVARIANTS JoinedCacheIsExact OdometryFollows
CHECK_DEADLOCK FALSE

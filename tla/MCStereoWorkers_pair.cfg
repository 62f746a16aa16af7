SPECIFICATION LiveSpec
CONSTANTS
    c1 = c1
    c2 = c2
    Callers <- CallersSet
    None = None
    MaxCalls = 3
INVARIANT ContextAlive
PROPERTIES ImplementsJobPair RunReturns StopEnds
CHECK_DEADLOCK FALSE

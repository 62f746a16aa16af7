SPECIFICATION LiveSpec
CONSTANTS
    ImuTimes = {1, 2, 3, 4, 5, 6}
    SourceTimes = {2, 4, 5}
    Jumps = {0, 1}
    AgesNeeded = 1
    MaxRestarts = 1
    QueueSize = 2
    Margin = 1
    Keep = 4
    FirstSpan = 2
    FirstCount = 2
    MaxBuffer = 5
    MaxBatch = 4
    CutBatch = 3
PROPERTIES ImplementsBatches BatchesExact NotStarved PairsLeave
CHECK_DEADLOCK FALSE

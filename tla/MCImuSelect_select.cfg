SPECIFICATION SelectSpec
CONSTANTS
    MaxStamp = 5
    MaxReadings = 5
INVARIANT WholePeriod Exact
CHECK_DEADLOCK FALSE

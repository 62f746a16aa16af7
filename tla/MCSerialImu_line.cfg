SPECIFICATION Spec
CONSTANTS
    Word = 64
    Boots <- NearWraps
    Period = 2
    Stalls = {4, 24, 26}
    Unit = 40
    Paces = {39, 41}
    Limit = 10
    Gain = 2
    Block = 3
    Delays = {0, 80}
    Holds = {160}
    MaxGap = 4
    ResetGap = 24
    Window = 12
    Startup = 24
    MaxFaults = 2
    MaxSamples = 12
    None = None
INVARIANTS ClockTracks DroppedExact HealthyRuns
PROPERTIES StampsIncrease BreaksAreSeen
CHECK_DEADLOCK FALSE

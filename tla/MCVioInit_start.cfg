SPECIFICATION LiveSpec
CONSTANTS
    MaxTime = 12
    MaxCloneSize = 2
    Window = 4
    Slack = 1
    Offsets <- BothSigns
    InitTime = 2
    MaxLag = 2
INVARIANTS PropagationCovered WindowSuffices NeverExits OneWriter
PROPERTIES CatchUpFits RunningEnds
CHECK_DEADLOCK FALSE

SPECIFICATION Spec
CONSTANTS
    Points = {"p1"}
    Corners = {"a1"}
    Cams = {0}
    CamOf <- OneCam
    Views = 1
    MaxTime = 6
    MaxCloneSize = 2
    MaxSlam = 1
    MaxMsckf = 2
    SlamDelay = 0
    MinMeas = 2
    TryZupt = FALSE
    ZuptOnlyAtBeginning = FALSE
INVARIANTS InformationUsedOnce
CHECK_DEADLOCK FALSE

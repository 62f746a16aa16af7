SPECIFICATION Spec
CONSTANTS
    Points = {"p1", "p2"}
    Corners = {"a1"}
    Cams = {0, 1}
    CamOf <- TwoCam
    Views = 2
    MaxTime = 5
    MaxCloneSize = 2
    MaxSlam = 1
    MaxMsckf = 1
    SlamDelay = 3
    MinMeas = 1
    TryZupt = TRUE
    ZuptOnlyAtBeginning = FALSE
INVARIANTS InformationUsedOnce AnchorsInWindow Bounded UpdatesAtClone
PROPERTY ClonesTakeMeasurements
CHECK_DEADLOCK FALSE

SPECIFICATION FairSpec
CONSTANTS
    NumCameras = 2
    CamStamps = {1, 2, 3}
    ImuStamps = {1, 2, 3, 5}
    CalibDt <- MovingDt
    TrackDelta = 1
    MultiThreadingSubs = {TRUE, FALSE}
    MultiThreadingPubs = TRUE
INVARIANT OneUpdateWorker FedInOrder QuietAfterStop CoveredByImu
PROPERTY ImplementsDelivery QueuedIsFed ShutdownCompletes
CHECK_DEADLOCK FALSE

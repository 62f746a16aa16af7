SPECIFICATION Spec
CONSTANTS
    Cells = {1, 2}
    NumFeatures = 3
    MinMatches = 2
    NumAruco = 2
    Tags = {0, 1}
    Kinds = {"KLT", "ORB", "ARUCO"}
    Modes = {"mono", "binocular", "stereo"}
    MaxImages = 3
    MaxIds = 5
    MaxPairs = 2
    MaxMasked = 2
INVARIANT IdNamesPoint SharedByPairs
PROPERTY NeverReturns TwinsPart
CHECK_DEADLOCK FALSE

SPECIFICATION CovSpec
CONSTANTS
    CtorOrder <- MCCtorOrder
    Clones <- MCClones
    Landmarks <- MCLandmarks
    Size <- MCSize
INVARIANTS IdsPointAtOwnRows

SPECIFICATION Spec
CONSTANTS
    b1 = b1
    b2 = b2
    b3 = b3
    Blocks <- MCBlocks
    InitUnits = 3
    GrowUnits = 2
    UserData <- MCUserData
SYMMETRY Symmetry
INVARIANTS BlocksAreSound NoUnitLost FreeChainIntact
PROPERTY Implements

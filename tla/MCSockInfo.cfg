SPECIFICATION Spec
CONSTANTS
    tcp = tcp
    unix = unix
    i1 = i1
    i2 = i2
    n1 = n1
    n2 = n2
    n3 = n3
    n4 = n4
    NoSock = NoSock
    NoNode = NoNode
    Files <- TwoFiles
    States = {1, 2}
    Inos <- TwoInos
    Nodes <- FourNodes
    MaxChanges = 1
    MaxDups = 1
    MaxFailures = 1
CHECK_DEADLOCK FALSE
SYMMETRY Symmetric
INVARIANTS NodesAreOwned CursorIsLive LookupIsExact UnlistedWasDuplicated

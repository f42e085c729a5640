SPECIFICATION Spec
CONSTANTS
    f1 = f1
    f2 = f2
    e1 = e1
    e2 = e2
    e3 = e3
    NoFile = NoFile
    NoEp = NoEp
    Files <- TwoFiles
    Eps <- ThreeEps
    MaxFaults = 1
CHECK_DEADLOCK FALSE
INVARIANTS
    RecordsAreSound
    NoChildOutlivesWorker
    StopLeavesNoChild
    OneInstancePerRecord
PROPERTY StopReturns
PROPERTY EnabledPluginRuns

SPECIFICATION Spec
CONSTANTS
    A = A
    B = B
    NoApp = NoApp
    Running = {1}
    MaxPid = 3
    Cmds = {"a", "b"}
    Spaced = {"b"}
    Flags = 7
    Names <- TwoNames
    RuleSets <- TwoRules
    Usage <- MCUsage
    MaxSum = 2
    MaxChanges = 3
CHECK_DEADLOCK FALSE
INVARIANTS ListsAgree SumIsExact
PROPERTIES AppIsCollected UnboundIsExplained

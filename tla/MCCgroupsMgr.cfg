SPECIFICATION Spec
CONSTANTS
    a = a
    b = b
    s1 = s1
    s2 = s2
    Root = Root
    NoHier = NoHier
    Cgroups <- Two
    Parent <- MCParent
    Subsys <- TwoHierarchies
    Matching <- MCMatching
    SubpathMatching <- MCSubpath
    max_cgroups_num = 1
    MaxChanges = 2
    MaxFailures = 1
CHECK_DEADLOCK FALSE
INVARIANTS ObjectsAreCounted CollectionIsLive DiscoveryIsExact
PROPERTIES ListsCatchUp FiniHangsOnLostSignal

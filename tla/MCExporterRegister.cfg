CONSTANTS
    Configs <- MCConfigs
    Word16 = 8
    Word32 = 4
    RandMax = 8
    TriesCap = 6
SPECIFICATION Spec
INVARIANTS BackoffIsSound TriesBounded AcceptedIsListed
CHECK_DEADLOCK FALSE
PROPERTY RegisterEnds

CONSTANTS
    Routines <- MCOne
    Sent = {"TERM", "HUP", "CHLD"}
    MaxOutside = 1
SPECIFICATION Spec
INVARIANT ScrapedIsInitialized
CHECK_DEADLOCK FALSE

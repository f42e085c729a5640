CONSTANTS
    Routines <- MCRoutines
    Sent = {"TERM", "HUP", "BUS"}
    MaxOutside = 2
    MaxSpawns = 2
SPECIFICATION DaemonSpec
INVARIANTS RoutinesAreServed LookupIsWhole EnvoyIsOwned
CHECK_DEADLOCK FALSE
PROPERTIES ExitIsServed KilledStops

SPECIFICATION Spec
CONSTANTS
    Clients = 3
    Descriptors = 3
    MaxThreads = 4
CHECK_DEADLOCK FALSE
INVARIANTS TypeOK ServesOwnOrLater ToldAtExit FirstThreeSafe ExclusiveUntilRemoved
PROPERTIES NewestServed ExitEnds

SPECIFICATION Spec
CONSTANTS
    Clients = 2
    Descriptors = 2
    MaxThreads = 2
CHECK_DEADLOCK FALSE
INVARIANTS DedicatedServer

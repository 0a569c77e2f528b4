SPECIFICATION Spec
CONSTANTS
    MaxNumber = 9
    Keys <- AKey
    Values <- BinaryValues
    Durations <- Forever
    UserOptions <- SomeOptions
    MaxClients = 1
    MaxCalls = 2
    MaxCuts = 0
    Faults = {}
INVARIANTS GetReturnsStored
CHECK_DEADLOCK FALSE

SPECIFICATION Spec
CONSTANTS
    MaxNumber = 9
    Keys <- AKey
    Values <- TextValues
    Durations <- SomeDurations
    UserOptions <- SomeOptions
    MaxClients = 2
    MaxCalls = 2
    MaxCuts = 1
    Faults = {"factory", "break", "cancel", "long", "refuse"}
INVARIANTS TypeOK RequestsAreUnderstood RefusedOnlyIfTooLong GetReturnsStored PanicsOnlyOnCut OptionsSound
PROPERTIES ActsAsStore
CHECK_DEADLOCK FALSE

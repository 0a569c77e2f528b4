SPECIFICATION FairSpec
CONSTANTS
    Fd = {fd1}
    Connected = {fd1}
    NoFd = NoFd
    WaitId = {w1, w2}
    EventsBufLen = 2
    MaxPolls = 2
    MaxSpawned = 2
    Conditions = {{"EPOLLIN"}}
    Faults = {"timeout"}
PROPERTIES TimeoutReturns
CHECK_DEADLOCK FALSE

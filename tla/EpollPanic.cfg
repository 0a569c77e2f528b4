SPECIFICATION Spec
CONSTANTS
    Fd = {fd1, fd2}
    Connected = {fd1, fd2}
    NoFd = NoFd
    WaitId = {w1, w2}
    EventsBufLen = 2
    MaxPolls = 2
    MaxSpawned = 2
    Conditions = {{"EPOLLIN"}}
    Faults = {}
INVARIANTS NoPanic
CHECK_DEADLOCK FALSE

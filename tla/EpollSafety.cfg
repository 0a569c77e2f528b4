SPECIFICATION Spec
CONSTANTS
    Fd = {fd1, fd2}
    Connected = {fd1, fd2}
    NoFd = NoFd
    WaitId = {w1, w2}
    EventsBufLen = 2
    MaxPolls = 1
    MaxSpawned = 1
    Conditions = {{"EPOLLIN"}}
    Faults = {"timeout", "waitErr", "close"}
SYMMETRY Symmetry
INVARIANTS TypeOK SingleWaitLoop WaitingIsRegistered UnitsAreCurrent EventsHaveProcessor
CHECK_DEADLOCK FALSE

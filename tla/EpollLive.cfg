SPECIFICATION FairSpec
CONSTANTS
    Fd = {fd1}
    Connected = {}
    NoFd = NoFd
    WaitId = {w1, w2}
    EventsBufLen = 1
    MaxPolls = 3
    MaxSpawned = 2
    Conditions = {{"EPOLLIN"}, {"EPOLLOUT"}, {"EPOLLERR", "EPOLLHUP"}}
    Faults = {}
INVARIANTS NoPanic SomeoneWillAnswer NothingUnexpected
PROPERTIES NilMeansReady ReadyPollReturns KeepsPromise
CHECK_DEADLOCK FALSE

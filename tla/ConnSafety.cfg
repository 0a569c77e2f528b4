SPECIFICATION LogSpec
CONSTANTS
    G = {g1, g2}
    Fd = {fd1, fd2}
    NoSocket = NoSocket
    RetryAmount = 2
    SendBufMinLen = 2
    SendBufMaxLen = 3
    ReceiveBufMinLen = 2
    ReceiveBufMaxLen = 3
    CmdLens = {3}
    ReplyLens = {4}
    MaxCalls = 2
    Faults = {"cancel", "timeout", "poller", "close", "refuse", "noFd", "userClose"}
SYMMETRY Symmetry
INVARIANTS TypeOK MutualExclusion BuffersClean BuffersBounded NoStraySocket NilSocketUnused PolledIsUsed OncePerConnection
PROPERTIES ServesOneByOne
CHECK_DEADLOCK FALSE

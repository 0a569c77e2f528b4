SPECIFICATION ClientsSpec
CONSTANTS
    G = {g1}
    H = {h1}
    Fd = {fd1, fd2, fd3}
    NoSocket = NoSocket
    RetryAmount = 2
    SendBufMinLen = 1
    SendBufMaxLen = 1
    ReceiveBufMinLen = 1
    ReceiveBufMaxLen = 1
    CmdLens = {1}
    ReplyLens = {1}
    MaxCalls = 3
    Faults = {"close", "refuse"}
SYMMETRY Symmetry
INVARIANTS NumbersApart NoCrossTalk
CHECK_DEADLOCK FALSE

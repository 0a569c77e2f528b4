SPECIFICATION Spec
CONSTANTS
    G = {g1}
    Fd = {fd1}
    NoSocket = NoSocket
    RetryAmount = 2
    SendBufMinLen = 2
    SendBufMaxLen = 2
    ReceiveBufMinLen = 2
    ReceiveBufMaxLen = 2
    CmdLens = {1}
    ReplyLens = {1}
    MaxCalls = 2
    Faults = {"cancel"}
INVARIANTS ReplyIsOwn
CHECK_DEADLOCK FALSE

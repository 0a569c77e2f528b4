SPECIFICATION Spec
CONSTANTS
    G = {g1}
    Fd = {fd1}
    NoSocket = NoSocket
    RetryAmount = 2
    SendBufMinLen = 1
    SendBufMaxLen = 1
    ReceiveBufMinLen = 1
    ReceiveBufMaxLen = 4
    CmdLens = {1}
    ReplyLens = {3}
    MaxCalls = 1
    Faults = {}
INVARIANTS ReplyIsWhole
CHECK_DEADLOCK FALSE

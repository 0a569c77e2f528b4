SPECIFICATION FairSpec
CONSTANTS
    G = {g1, g2}
    Fd = {fd1}
    NoSocket = NoSocket
    RetryAmount = 2
    SendBufMinLen = 1
    SendBufMaxLen = 2
    ReceiveBufMinLen = 2
    ReceiveBufMaxLen = 2
    CmdLens = {2}
    ReplyLens = {2}
    MaxCalls = 2
    Faults = {"cancel", "timeout", "fragment", "close", "refuse", "userClose"}
PROPERTIES CancelledReturns EveryCallReturns
CHECK_DEADLOCK FALSE

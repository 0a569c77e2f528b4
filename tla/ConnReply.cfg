SPECIFICATION LogSpec
CONSTANTS
    G = {g1, g2}
    Fd = {fd1, fd2}
    NoSocket = NoSocket
    RetryAmount = 2
    SendBufMinLen = 1
    SendBufMaxLen = 2
    ReceiveBufMinLen = 2
    ReceiveBufMaxLen = 2
    CmdLens = {1, 2, 3}
    ReplyLens = {1, 2, 3}
    MaxCalls = 3
    Faults = {"partialSend", "close", "refuse"}
SYMMETRY Symmetry
INVARIANTS ReplyIsOwn ReplyIsWhole StreamIsCommands NoBadFdWhileUp OncePerConnection
PROPERTIES ServesFaithfully NothingLate
CHECK_DEADLOCK FALSE

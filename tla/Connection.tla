---------------------------- MODULE Connection -----------------------------
(***************************************************************************)
(* A Connection (internal/connection/connection.go) with what it drives:   *)
(* the client loop of redis_driver.go around Process, the Transmitter      *)
(* (Send, Receive), the Socket (Connect, Close) and, as the environment,   *)
(* the kernel's sockets and the Redis server at the other end.             *)
(*                                                                         *)
(* Goroutines call the commands of one Client.  Each command spins until   *)
(* Process lets it in, and Process runs encode, send, receive and decode   *)
(* for one command at a time.  poll() is abstracted to what its caller     *)
(* sees, its result; module Epoll is the detailed model of it.             *)
(*                                                                         *)
(* Messages are sequences of units.  A unit is a piece of a request or of  *)
(* a reply: [id |-> the command, part |-> which piece, of |-> how many].   *)
(* Buffer lengths count units.                                             *)
(***************************************************************************)
EXTENDS Buffers, FiniteSets, Sequences

CONSTANTS
    G,                \* goroutines that call commands of the client
    Fd,               \* descriptors that the process may get from socket(2)
    NoSocket,         \* nil, as a value of c.socket
    RetryAmount,      \* opts.RetryAmount after InitOptions (1 + the retries)
    SendBufMinLen, SendBufMaxLen, ReceiveBufMinLen, ReceiveBufMaxLen,
    CmdLens,          \* lengths of encoded commands
    ReplyLens,        \* lengths of replies
    MaxCalls,         \* bound: number of commands called
    Faults            \* what may go wrong: see AllFaults

AllFaults == {
    "cancel",         \* contexts are cancelled
    "timeout",        \* poll() may time out
    "poller",         \* poll() may return an error of another socket or time
    "partialSend",    \* the kernel takes a part of the bytes, or none
    "fragment",       \* a reply arrives in two pieces
    "close",          \* the server closes or resets a connection
    "refuse",         \* the server or the kernel refuses to connect
    "noFd",           \* socket(2) fails
    "userClose" }     \* Client.Close is called

ASSUME FdAssumption == NoSocket \notin Fd
ASSUME OptsAssumption ==
    /\ RetryAmount \in Nat \ {0, 1}
    /\ SendBufMinLen \in Nat \ {0} /\ SendBufMaxLen \in Nat
    /\ ReceiveBufMinLen \in Nat \ {0} /\ ReceiveBufMaxLen \in Nat
    /\ SendBufMinLen <= SendBufMaxLen /\ ReceiveBufMinLen <= ReceiveBufMaxLen
ASSUME BoundsAssumption ==
    /\ CmdLens \subseteq Nat \ {0} /\ ReplyLens \subseteq Nat \ {0}
    /\ MaxCalls \in Nat
    /\ Faults \subseteq AllFaults

VARIABLES
    \* goroutines
    pc,                                     \* where each one is
    cmd,                                    \* its command
    ctxDone,                                \* ctx.Err() # nil
    sendRetries, recvRetries, connRetries,  \* retriesAvailable of each function
    ret,                                    \* who called connect(), and how
    err,                                    \* the error Process returns
    reply,                                  \* the result Process returns
    \* type Connection
    processing,                             \* c.processing
    socket,                                 \* c.socket
    msgrFd,                                 \* c.msgr.SocketFd
    sendBuf,                                \* data is Buf[:WritePos]
    recvBuf,                                \* data is Buf[:WritePos]
    calls,                                  \* commands called so far
    \* the kernel and the server (external)
    kernel,                                 \* state of each socket
    inbox,                                  \* sent, not yet read by the server
    wire,                                   \* rest of a reply on its way
    queue                                   \* the kernel's receive queue

localVars  == <<cmd, ctxDone, calls>>
retryVars  == <<sendRetries, recvRetries, connRetries, ret>>
outVars    == <<err, reply>>
connVars   == <<processing, socket, msgrFd>>
bufVars    == <<sendBuf, recvBuf>>
streamVars == <<inbox, wire, queue>>
vars == <<pc, localVars, retryVars, outVars, connVars, bufVars, kernel, streamVars>>

NoCmd   == [id |-> 0, len |-> 0]
NoReply == [id |-> 0, got |-> 0, of |-> 0]

\* Encode: the bytes of a command.
Request(c) == [i \in 1..c.len |-> [id |-> c.id, part |-> i, of |-> c.len]]

\* What the server answers to bytes that are no command; it then closes.
ProtocolError == [id |-> 0, part |-> 1, of |-> 1]

SendLabels == {"send", "sendPoll"}
RecvLabels == {"receive", "recvPoll"}
ConnLabels == {"connect", "connPoll"}
WorkLabels == {"begin", "encode", "decode", "clear", "stop"}
              \cup SendLabels \cup RecvLabels \cup ConnLabels

\* Process has set c.processing for g and not yet reset it.
Inside(g) == pc[g] \in WorkLabels

-----------------------------------------------------------------------------
(***************************************************************************)
(* The loops of send(), receive() and connect() count retriesAvailable     *)
(* down; those of the client, send() and receive() look at the context.    *)
(***************************************************************************)

\* Mutant: one attempt too many.
exhausted_OffByOne(retries) == retries < 0

exhausted(retries) == retries = 0

\* Mutant: a timeout is not counted.
decrement_Missing(retries) == retries

decrement(retries) == retries - 1

\* Mutant: the context is looked at only before the loop.
ctxErr_Ignored(g) == FALSE

ctxErr(g) == ctxDone[g]

GoTo(g, label) == pc' = [pc EXCEPT ![g] = label]

\* Mutant: the error is lost, Process returns nil and nil.
Fail_Silent(g, e) == GoTo(g, "clear") /\ UNCHANGED err

\* Process returns an error: the deferred calls run next.
Fail(g, e) == GoTo(g, "clear") /\ err' = [err EXCEPT ![g] = e]

(***************************************************************************)
(* The client: Ping, Hello3, SetValueForKey, GetValueByKey.                *)
(***************************************************************************)
Start(g) ==
    /\ pc[g] = "idle"
    /\ calls < MaxCalls
    /\ calls' = calls + 1
    /\ \E len \in CmdLens : cmd' = [cmd EXCEPT ![g] = [id |-> calls + 1, len |-> len]]
    /\ GoTo(g, "client")
    /\ UNCHANGED <<ctxDone, retryVars, outVars, connVars, bufVars, kernel, streamVars>>

Cancel(g) ==
    /\ "cancel" \in Faults
    /\ pc[g] \notin {"idle", "dead"} /\ ~ctxDone[g]
    /\ ctxDone' = [ctxDone EXCEPT ![g] = TRUE]
    /\ UNCHANGED <<pc, cmd, calls, retryVars, outVars, connVars, bufVars, kernel, streamVars>>

\* The command returns, and its locals are gone.
Return(g) ==
    /\ GoTo(g, "idle")
    /\ cmd' = [cmd EXCEPT ![g] = NoCmd]
    /\ ctxDone' = [ctxDone EXCEPT ![g] = FALSE]
    /\ err' = [err EXCEPT ![g] = "nil"]
    /\ reply' = [reply EXCEPT ![g] = NoReply]

\* "for ctx.Err() == nil": the context ends before Process is entered.
LeaveLoop(g) ==
    /\ pc[g] = "client" /\ ctxDone[g]
    /\ Return(g)
    /\ UNCHANGED <<calls, retryVars, connVars, bufVars, kernel, streamVars>>

\* Mutant: the flag is not looked at.
isProcessing_Ignored == FALSE

isProcessing == processing

\* Process sets c.processing under c.mu.  While it is set Process returns
\* ErrConnectionCmdInProcess and the client calls it again: no step.
EnterProcess(g) ==
    /\ pc[g] = "client" /\ ~ctxDone[g]
    /\ ~isProcessing
    /\ processing' = TRUE
    /\ GoTo(g, "begin")
    /\ UNCHANGED <<localVars, retryVars, outVars, socket, msgrFd, bufVars, kernel, streamVars>>

\* First check of the context: clearBufs is not deferred yet.
Begin(g) ==
    /\ pc[g] = "begin"
    /\ IF ctxDone[g] THEN GoTo(g, "stop") /\ err' = [err EXCEPT ![g] = "ctx"]
       ELSE GoTo(g, "encode") /\ UNCHANGED err
    /\ UNCHANGED <<localVars, retryVars, reply, connVars, bufVars, kernel, streamVars>>

\* Encode, or grow the buffer and try again, or give up.
EncodeCmd(g) ==
    /\ pc[g] = "encode"
    /\ IF Len(sendBuf.data) + cmd[g].len <= sendBuf.len
       THEN /\ sendBuf' = [sendBuf EXCEPT !.data = @ \o Request(cmd[g])]
            /\ sendRetries' = [sendRetries EXCEPT ![g] = RetryAmount]
            /\ recvRetries' = [recvRetries EXCEPT ![g] = RetryAmount]
            /\ GoTo(g, "send")
            /\ UNCHANGED err
       ELSE /\ UNCHANGED <<sendRetries, recvRetries>>
            /\ IF canIncrease(sendBuf.len, SendBufMaxLen)
               THEN /\ sendBuf' = [sendBuf EXCEPT !.len = increasedLen(@, SendBufMaxLen)]
                    /\ UNCHANGED <<pc, err>>
               ELSE Fail(g, "ErrSendBufTooShort") /\ UNCHANGED sendBuf
    /\ UNCHANGED <<localVars, connRetries, ret, reply, connVars, recvBuf, kernel, streamVars>>

\* The result of Decode on what was received: the first reply, or as much of
\* it as is there; an error if the bytes are not the beginning of a reply.
DecodedReply(data) ==
    LET first == data[1]
    IN  [id  |-> first.id,
         of  |-> first.of,
         got |-> Cardinality({i \in 1..Len(data) :
                                i <= first.of /\ data[i] = [first EXCEPT !.part = i]})]

DecodeReply(g) ==
    /\ pc[g] = "decode"
    /\ LET first == recvBuf.data[1]
       IN  IF ctxDone[g] THEN Fail(g, "ctx") /\ UNCHANGED reply
           ELSE IF first = ProtocolError \/ first.part # 1
                THEN Fail(g, "other") /\ UNCHANGED reply
           ELSE /\ reply' = [reply EXCEPT ![g] = DecodedReply(recvBuf.data)]
                /\ GoTo(g, "clear")
                /\ UNCHANGED err
    /\ UNCHANGED <<localVars, retryVars, connVars, bufVars, kernel, streamVars>>

\* Mutant: SentBytes is forgotten.
clearedSendBuf_Sent == [sendBuf EXCEPT !.data = <<>>]

\* Mutant: WritePos is forgotten.
clearedSendBuf_Data == [sendBuf EXCEPT !.sent = 0]

clearedSendBuf == [sendBuf EXCEPT !.data = <<>>, !.sent = 0]

\* Mutant: the receive buffer is forgotten.
clearedRecvBuf_Missing == recvBuf

clearedRecvBuf == [recvBuf EXCEPT !.data = <<>>]

\* The deferred calls, in their order: clearBufs, then stopProcessing.
ClearBufs(g) ==
    /\ pc[g] = "clear"
    /\ sendBuf' = clearedSendBuf
    /\ recvBuf' = clearedRecvBuf
    /\ GoTo(g, "stop")
    /\ UNCHANGED <<localVars, retryVars, outVars, connVars, kernel, streamVars>>

StopProcessing(g) ==
    /\ pc[g] = "stop"
    /\ processing' = FALSE
    /\ Return(g)
    /\ UNCHANGED <<calls, retryVars, socket, msgrFd, bufVars, kernel, streamVars>>

-----------------------------------------------------------------------------
(***************************************************************************)
(* poll(), as its callers see it.                                          *)
(***************************************************************************)
Writable(fd) == kernel[fd] \in {"up", "eof"}
Readable(fd) == kernel[fd] = "eof" \/ (kernel[fd] = "up" /\ queue[fd] # <<>>)

PollLabels == {"sendPoll", "recvPoll", "connPoll"}

\* What poll() returns, if it does.  It may also not return, even after its deadline,
\* since it then waits for e.mu, which processEvents may hold while it sends to this
\* very call (run EpollTimeout): a call that hangs stays at its label for ever,
\* and no fairness makes it leave.
PollOutcomes(fd, ready) ==
    (IF ready THEN {"nil"} ELSE {})
    \cup (IF "timeout" \in Faults THEN {"ErrPollTimeout"} ELSE {})
    \cup (IF kernel[fd] \in {"failed", "reset"} THEN {"ErrConnectionClosed"} ELSE {})
    \cup (IF kernel[fd] \in {"closed", "fresh"} THEN {"other"} ELSE {})
    \cup (IF "poller" \in Faults THEN {"nil", "other"} ELSE {})

-----------------------------------------------------------------------------
(***************************************************************************)
(* connect() and reconnect().  ret[g] says who called and what follows:    *)
(*   "send"     reconnect() in send(): send everything again;              *)
(*   "resend"   reconnect() in receive(): send() again, then receive;      *)
(*   "trunc"    reconnect() in receive(): the reply was too long;          *)
(*   "sendConn", "recvConn"  connect() alone: go on.                       *)
(***************************************************************************)
callConnect(g, caller) ==
    /\ GoTo(g, "connect")
    /\ ret' = [ret EXCEPT ![g] = caller]
    /\ connRetries' = [connRetries EXCEPT ![g] = RetryAmount]

\* Mutant: the old socket is not closed.
closeSocket_Missing(fd) == kernel

closeSocket(fd) == [kernel EXCEPT ![fd] = "closed"]

\* No byte of the connection reaches its client any more.  (What the server may still
\* read of one that the client has closed is kept in CommandLog.)
dropStreams(fd) ==
    /\ inbox' = [inbox EXCEPT ![fd] = <<>>]
    /\ wire' = [wire EXCEPT ![fd] = <<>>]
    /\ queue' = [queue EXCEPT ![fd] = <<>>]

\* Close the socket, take a new one (any free descriptor) and connect() it.
reconnect(g, caller) ==
    /\ dropStreams(socket)
    /\ \/ \E fd \in Fd :
             /\ closeSocket(socket)[fd] = "closed"
             /\ socket' = fd
             /\ kernel' = [closeSocket(socket) EXCEPT ![fd] = "fresh"]
             /\ callConnect(g, caller)
             /\ UNCHANGED err
       \/ /\ "noFd" \in Faults
          /\ socket' = NoSocket
          /\ kernel' = closeSocket(socket)
          /\ Fail(g, "other")
          /\ UNCHANGED <<ret, connRetries>>
    /\ UNCHANGED <<processing, msgrFd>>

noReconnect(g) == UNCHANGED <<ret, connRetries, connVars, kernel, streamVars>>

\* Mutant: the new socket is sent the rest only.
rewind_Missing == sendBuf

rewind == [sendBuf EXCEPT !.sent = 0]

\* Mutant: the messenger keeps the old descriptor.
ChangeSocketFd_Missing == msgrFd

ChangeSocketFd == socket

\* connect() returns nil to its caller.
connected(g) ==
    /\ msgrFd' = IF ret[g] \in {"send", "resend", "trunc"} THEN ChangeSocketFd ELSE msgrFd
    /\ sendBuf' = IF ret[g] \in {"send", "resend"} THEN rewind ELSE sendBuf
    /\ sendRetries' = IF ret[g] = "resend" THEN [sendRetries EXCEPT ![g] = RetryAmount]
                                           ELSE sendRetries
    /\ \/ ret[g] \in {"send", "resend", "sendConn"} /\ GoTo(g, "send") /\ UNCHANGED err
       \/ ret[g] = "recvConn" /\ GoTo(g, "receive") /\ UNCHANGED err
       \/ ret[g] = "trunc" /\ Fail(g, "ErrRecvBufTooShort")

notConnected == UNCHANGED <<msgrFd, sendBuf, sendRetries>>

\* One round of the loop of connect(), up to the result of connect(2).  EISCONN
\* counts as success; the kernel says so of a connection that was reset, too.  It
\* reports a failed attempt once, and the next connect(2) is a new attempt.
Connect(g) ==
    /\ pc[g] = "connect"
    /\ \/ /\ exhausted(connRetries[g])
          /\ Fail(g, "ErrOperationRetriesFailed")
          /\ notConnected /\ UNCHANGED kernel
       \/ /\ ~exhausted(connRetries[g]) /\ kernel[socket] = "fresh"
          /\ kernel' = [kernel EXCEPT ![socket] = "connecting"]
          /\ GoTo(g, "connPoll")
          /\ notConnected /\ UNCHANGED err
       \/ /\ ~exhausted(connRetries[g]) /\ kernel[socket] = "connecting"
          /\ Fail(g, "ErrConnectionInProcess")
          /\ notConnected /\ UNCHANGED kernel
       \/ /\ ~exhausted(connRetries[g]) /\ kernel[socket] \in {"up", "eof", "reset"}
          /\ connected(g) /\ UNCHANGED kernel
       \/ /\ ~exhausted(connRetries[g])
          /\ kernel[socket] \in {"failed", "closed"}
                \/ (kernel[socket] = "fresh" /\ "refuse" \in Faults)
          /\ Fail(g, "other")
          /\ notConnected
          /\ kernel' = IF kernel[socket] = "failed" THEN [kernel EXCEPT ![socket] = "fresh"]
                                                    ELSE kernel
    /\ UNCHANGED <<localVars, recvRetries, connRetries, ret, reply, processing, socket,
                   recvBuf, streamVars>>

ConnectPoll(g) ==
    /\ pc[g] = "connPoll"
    /\ \E outcome \in PollOutcomes(socket, Writable(socket)) :
          \/ /\ outcome = "nil"
             /\ connected(g)
             /\ UNCHANGED connRetries
          \/ /\ outcome = "ErrPollTimeout"
             /\ connRetries' = [connRetries EXCEPT ![g] = decrement(@)]
             /\ GoTo(g, "connect")
             /\ notConnected /\ UNCHANGED err
          \/ /\ outcome \in {"ErrConnectionClosed", "other"}
             /\ Fail(g, outcome)
             /\ notConnected /\ UNCHANGED connRetries
    /\ UNCHANGED <<localVars, recvRetries, ret, reply, processing, socket,
                   recvBuf, kernel, streamVars>>

-----------------------------------------------------------------------------
(***************************************************************************)
(* send().                                                                 *)
(***************************************************************************)

\* Head of the loop: the context is done, or no retry is left.
GiveUpSend(g) ==
    /\ pc[g] = "send"
    /\ \/ ctxErr(g) /\ Fail(g, "ctx")
       \/ ~ctxErr(g) /\ exhausted(sendRetries[g]) /\ Fail(g, "ErrOperationRetriesFailed")
    /\ UNCHANGED <<localVars, retryVars, reply, connVars, bufVars, kernel, streamVars>>

Sending(g) == pc[g] = "send" /\ ~ctxErr(g) /\ ~exhausted(sendRetries[g])

addSentBytes(n) == [sendBuf EXCEPT !.sent = @ + n]

\* sendmsg(2) takes n units: all of them, or ErrSendMsgTrunc and once more.
\* A peer that has closed throws them away.
SendBytes(g) ==
    /\ Sending(g)
    /\ Writable(msgrFd)
    /\ LET rest == Len(sendBuf.data) - sendBuf.sent
       IN  \E n \in 0..rest :
             /\ n = rest \/ (n > 0 /\ "partialSend" \in Faults)
             /\ sendBuf' = addSentBytes(n)
             /\ inbox' = IF kernel[msgrFd] = "up"
                         THEN [inbox EXCEPT ![msgrFd] =
                                 @ \o SubSeq(sendBuf.data, sendBuf.sent + 1, sendBuf.sent + n)]
                         ELSE inbox
             /\ GoTo(g, IF n = rest THEN "receive" ELSE "send")
    /\ UNCHANGED <<localVars, retryVars, outVars, connVars, recvBuf, kernel, wire, queue>>

\* Mutant: EBADF is taken for EAGAIN.
WouldBlock_BadFd(fd) == kernel[fd] \in {"connecting", "closed"}

WouldBlock(fd) == kernel[fd] = "connecting"

\* EAGAIN: poll("outcome").
SendBlocked(g) ==
    /\ Sending(g)
    /\ \/ WouldBlock(msgrFd)
       \/ Writable(msgrFd) /\ "partialSend" \in Faults
    /\ GoTo(g, "sendPoll")
    /\ UNCHANGED <<localVars, retryVars, outVars, connVars, bufVars, kernel, streamVars>>

\* EPIPE or ECONNRESET: reconnect().
SendBroken(g) ==
    /\ Sending(g)
    /\ kernel[msgrFd] \in {"failed", "reset", "fresh", "eof"}
    /\ reconnect(g, "send")
    /\ UNCHANGED <<localVars, sendRetries, recvRetries, reply, bufVars>>

\* ENOTCONN: connect() on the same socket.
SendNotConnected(g) ==
    /\ Sending(g)
    /\ kernel[msgrFd] \in {"failed", "fresh"}
    /\ callConnect(g, "sendConn")
    /\ UNCHANGED <<localVars, sendRetries, recvRetries, outVars, connVars, bufVars,
                   kernel, streamVars>>

\* EBADF, or an error of the connection attempt.
SendFails(g) ==
    /\ Sending(g)
    /\ \/ kernel[msgrFd] = "closed" /\ Fail(g, "ErrSocketBadFD")
       \/ kernel[msgrFd] = "failed" /\ Fail(g, "other")
    /\ UNCHANGED <<localVars, retryVars, reply, connVars, bufVars, kernel, streamVars>>

SendPoll(g) ==
    /\ pc[g] = "sendPoll"
    /\ \E outcome \in PollOutcomes(socket, Writable(socket)) :
          \/ /\ outcome \in {"nil", "ErrPollTimeout"}
             /\ sendRetries' = [sendRetries EXCEPT ![g] =
                                  IF outcome = "nil" THEN @ ELSE decrement(@)]
             /\ GoTo(g, "send")
             /\ UNCHANGED err
             /\ noReconnect(g)
          \/ /\ outcome = "ErrConnectionClosed"
             /\ reconnect(g, "send")
             /\ UNCHANGED sendRetries
          \/ /\ outcome = "other"
             /\ Fail(g, "other")
             /\ UNCHANGED sendRetries
             /\ noReconnect(g)
    /\ UNCHANGED <<localVars, recvRetries, reply, bufVars>>

-----------------------------------------------------------------------------
(***************************************************************************)
(* receive().                                                              *)
(***************************************************************************)
GiveUpReceive(g) ==
    /\ pc[g] = "receive"
    /\ \/ ctxErr(g) /\ Fail(g, "ctx")
       \/ ~ctxErr(g) /\ exhausted(recvRetries[g]) /\ Fail(g, "ErrOperationRetriesFailed")
    /\ UNCHANGED <<localVars, retryVars, reply, connVars, bufVars, kernel, streamVars>>

Receiving(g) == pc[g] = "receive" /\ ~ctxErr(g) /\ ~exhausted(recvRetries[g])

\* "n == len(buf.Buf)": only then SIOCINQ is asked whether bytes are left.
BufferFilled(n) == n = recvBuf.len

\* Mutant: the last place of the buffer is not used.
freeSpace_OffByOne == recvBuf.len - Len(recvBuf.data) - 1

freeSpace == recvBuf.len - Len(recvBuf.data)

\* recvmsg(2) takes what is there and fits.  If it filled the buffer and left
\* some, the buffer grows, and if it cannot the connection is replaced.
ReceiveBytes(g) ==
    /\ Receiving(g)
    /\ kernel[msgrFd] \in {"up", "eof"} /\ queue[msgrFd] # <<>> /\ freeSpace > 0
    /\ LET here == queue[msgrFd]
           n    == IF Len(here) < freeSpace THEN Len(here) ELSE freeSpace
           left == SubSeq(here, n + 1, Len(here))
           data == recvBuf.data \o SubSeq(here, 1, n)
           take(len) == /\ recvBuf' = [len |-> len, data |-> data]
                        /\ queue' = [queue EXCEPT ![msgrFd] = left]
                        /\ UNCHANGED <<err, ret, connRetries, connVars, kernel, inbox, wire>>
       IN  \/ /\ ~(BufferFilled(n) /\ left # <<>>)
              /\ take(recvBuf.len)
              /\ GoTo(g, "decode")
           \/ /\ BufferFilled(n) /\ left # <<>>
              /\ canIncrease(recvBuf.len, ReceiveBufMaxLen)
              /\ take(increasedLen(recvBuf.len, ReceiveBufMaxLen))
              /\ UNCHANGED pc
           \/ /\ BufferFilled(n) /\ left # <<>>
              /\ ~canIncrease(recvBuf.len, ReceiveBufMaxLen)
              /\ recvBuf' = [recvBuf EXCEPT !.data = data]
              /\ reconnect(g, "trunc")
    /\ UNCHANGED <<localVars, sendRetries, recvRetries, reply, sendBuf>>

\* Mutant: the command is sent again, on the same connection, instead of waiting.
ReceiveBlocked_SendsAgain(g) ==
    /\ Receiving(g)
    /\ kernel[msgrFd] = "up" /\ queue[msgrFd] = <<>>
    /\ sendBuf' = rewind
    /\ GoTo(g, "send")
    /\ UNCHANGED <<localVars, retryVars, outVars, connVars, recvBuf, kernel, streamVars>>

\* EAGAIN: poll("income").
ReceiveBlocked(g) ==
    /\ Receiving(g)
    /\ WouldBlock(msgrFd) \/ (kernel[msgrFd] = "up" /\ queue[msgrFd] = <<>>)
    /\ GoTo(g, "recvPoll")
    /\ UNCHANGED <<localVars, retryVars, outVars, connVars, bufVars, kernel, streamVars>>

\* n = 0: the peer has closed, or there is no room left.
ReceiveClosed(g) ==
    /\ Receiving(g)
    /\ \/ kernel[msgrFd] \in {"failed", "reset", "fresh"}
       \/ kernel[msgrFd] = "eof" /\ queue[msgrFd] = <<>>
       \/ Readable(msgrFd) /\ freeSpace = 0
    /\ reconnect(g, "resend")
    /\ UNCHANGED <<localVars, sendRetries, recvRetries, reply, bufVars>>

\* ENOTCONN: connect() on the same socket.
ReceiveNotConnected(g) ==
    /\ Receiving(g)
    /\ kernel[msgrFd] \in {"failed", "fresh"}
    /\ callConnect(g, "recvConn")
    /\ UNCHANGED <<localVars, sendRetries, recvRetries, outVars, connVars, bufVars,
                   kernel, streamVars>>

\* The errors after which receive() waits and goes on.  A client alone never meets
\* the second (what it could send on is connected); it takes another client that
\* got the number its messenger still holds (module Clients).
ReceiveWaits(g) == Receiving(g) /\ (ReceiveBlocked(g) \/ ReceiveNotConnected(g))

\* EBADF; ECONNRESET is not among the errors that Receive translates.
ReceiveFails(g) ==
    /\ Receiving(g)
    /\ \/ kernel[msgrFd] = "closed" /\ Fail(g, "ErrSocketBadFD")
       \/ kernel[msgrFd] \in {"failed", "reset"} /\ Fail(g, "other")
    /\ UNCHANGED <<localVars, retryVars, reply, connVars, bufVars, kernel, streamVars>>

\* Unlike send(), receive() returns ErrConnectionClosed of poll().
ReceivePoll(g) ==
    /\ pc[g] = "recvPoll"
    /\ \E outcome \in PollOutcomes(socket, Readable(socket)) :
          \/ /\ outcome \in {"nil", "ErrPollTimeout"}
             /\ recvRetries' = [recvRetries EXCEPT ![g] =
                                  IF outcome = "nil" THEN @ ELSE decrement(@)]
             /\ GoTo(g, "receive")
             /\ UNCHANGED err
          \/ /\ outcome \in {"ErrConnectionClosed", "other"}
             /\ Fail(g, outcome)
             /\ UNCHANGED recvRetries
    /\ UNCHANGED <<localVars, sendRetries, connRetries, ret, reply, connVars, bufVars,
                   kernel, streamVars>>

-----------------------------------------------------------------------------
(***************************************************************************)
(* Client.Close, from any goroutine and at any time: c.socket.Close().     *)
(* After a reconnect() that got no socket c.socket is nil, and the call    *)
(* kills the process.                                                      *)
(***************************************************************************)
CloseClient ==
    /\ "userClose" \in Faults
    /\ \/ /\ socket = NoSocket
          /\ pc' = [g \in G |-> "dead"]
          /\ UNCHANGED <<kernel, streamVars>>
       \/ /\ socket # NoSocket
          /\ kernel' = closeSocket(socket)
          /\ dropStreams(socket)
          /\ UNCHANGED pc
    /\ UNCHANGED <<localVars, retryVars, outVars, connVars, bufVars>>

(***************************************************************************)
(* The kernel and the server (external).                                   *)
(***************************************************************************)
kernelOnly == UNCHANGED <<pc, localVars, retryVars, outVars, connVars, bufVars>>

Establish(fd) ==
    /\ kernel[fd] = "connecting"
    /\ kernel' = [kernel EXCEPT ![fd] = "up"]
    /\ kernelOnly /\ UNCHANGED streamVars

Refuse(fd) ==
    /\ "refuse" \in Faults
    /\ kernel[fd] = "connecting"
    /\ kernel' = [kernel EXCEPT ![fd] = "failed"]
    /\ kernelOnly /\ UNCHANGED streamVars

\* The server closes: what it has not read or sent is lost, what has arrived
\* can still be received.
PeerClose(fd) ==
    /\ "close" \in Faults
    /\ kernel[fd] = "up"
    /\ kernel' = [kernel EXCEPT ![fd] = "eof"]
    /\ inbox' = [inbox EXCEPT ![fd] = <<>>]
    /\ wire' = [wire EXCEPT ![fd] = <<>>]
    /\ kernelOnly /\ UNCHANGED queue

PeerReset(fd) ==
    /\ "close" \in Faults
    /\ kernel[fd] \in {"up", "eof"}
    /\ kernel' = [kernel EXCEPT ![fd] = "reset"]
    /\ dropStreams(fd)
    /\ kernelOnly

\* The server reads one command and answers; to anything else it answers with
\* a protocol error, and closes.
Serve(fd) ==
    /\ kernel[fd] = "up" /\ inbox[fd] # <<>> /\ wire[fd] = <<>>
    /\ LET first == Head(inbox[fd])
           bytes == SubSeq(inbox[fd], 1, first.of)
       IN  /\ Len(inbox[fd]) >= first.of
           /\ \/ /\ bytes = Request([id |-> first.id, len |-> first.of])
                 /\ inbox' = [inbox EXCEPT ![fd] = SubSeq(@, first.of + 1, Len(@))]
                 /\ \E len \in ReplyLens : \E n \in 1..len :
                       LET answer == Request([id |-> first.id, len |-> len])
                       IN  /\ n = len \/ "fragment" \in Faults
                           /\ queue' = [queue EXCEPT ![fd] = @ \o SubSeq(answer, 1, n)]
                           /\ wire' = [wire EXCEPT ![fd] = SubSeq(answer, n + 1, len)]
                 /\ UNCHANGED kernel
              \/ /\ bytes # Request([id |-> first.id, len |-> first.of])
                 /\ inbox' = [inbox EXCEPT ![fd] = <<>>]
                 /\ queue' = [queue EXCEPT ![fd] = Append(@, ProtocolError)]
                 /\ kernel' = [kernel EXCEPT ![fd] = "eof"]
                 /\ UNCHANGED wire
    /\ kernelOnly

\* The rest of a reply arrives.
Arrive(fd) ==
    /\ kernel[fd] = "up" /\ wire[fd] # <<>>
    /\ queue' = [queue EXCEPT ![fd] = @ \o wire[fd]]
    /\ wire' = [wire EXCEPT ![fd] = <<>>]
    /\ kernelOnly /\ UNCHANGED <<kernel, inbox>>

-----------------------------------------------------------------------------
\* NewConnector has returned.
NewConnector ==
    /\ pc = [g \in G |-> "idle"]
    /\ cmd = [g \in G |-> NoCmd]
    /\ ctxDone = [g \in G |-> FALSE]
    /\ calls = 0
    /\ sendRetries = [g \in G |-> RetryAmount]
    /\ recvRetries = [g \in G |-> RetryAmount]
    /\ connRetries = [g \in G |-> RetryAmount]
    /\ ret = [g \in G |-> "send"]
    /\ err = [g \in G |-> "nil"]
    /\ reply = [g \in G |-> NoReply]
    /\ processing = FALSE
    /\ socket \in Fd
    /\ msgrFd = socket
    /\ sendBuf = [len |-> SendBufMinLen, data |-> <<>>, sent |-> 0]
    /\ recvBuf = [len |-> ReceiveBufMinLen, data |-> <<>>]

noBytes ==
    LET empty == [fd \in Fd |-> <<>>] IN inbox = empty /\ wire = empty /\ queue = empty

\* The first socket is connected.
Init ==
    /\ NewConnector
    /\ kernel = [fd \in Fd |-> IF fd = socket THEN "up" ELSE "closed"]
    /\ noBytes

SendStep(g) ==
    \/ GiveUpSend(g) \/ SendBytes(g) \/ SendBlocked(g) \/ SendBroken(g)
    \/ SendNotConnected(g) \/ SendFails(g) \/ SendPoll(g)

ReceiveStep(g) ==
    \/ GiveUpReceive(g) \/ ReceiveBytes(g) \/ ReceiveWaits(g) \/ ReceiveClosed(g)
    \/ ReceiveFails(g) \/ ReceivePoll(g)

\* What g does once its command is called.
Step(g) ==
    \/ LeaveLoop(g) \/ EnterProcess(g) \/ Begin(g) \/ EncodeCmd(g)
    \/ SendStep(g) \/ ReceiveStep(g) \/ Connect(g) \/ ConnectPoll(g)
    \/ DecodeReply(g) \/ ClearBufs(g) \/ StopProcessing(g)

Peer(fd) ==
    \/ Establish(fd) \/ Refuse(fd) \/ PeerClose(fd) \/ PeerReset(fd)
    \/ Serve(fd) \/ Arrive(fd)

Next ==
    \/ \E g \in G : Start(g) \/ Cancel(g) \/ Step(g)
    \/ \E fd \in Fd : Peer(fd)
    \/ CloseClient

Spec == Init /\ [][Next]_vars

(***************************************************************************)
(* Fairness: a goroutine that can run does, except that poll() need not    *)
(* return.  Nothing is assumed of the server, of the kernel, or of who     *)
(* calls, cancels and closes.                                              *)
(***************************************************************************)
FairSpec == Spec /\ \A g \in G : WF_vars(pc[g] \notin PollLabels /\ Step(g))

-----------------------------------------------------------------------------
(***************************************************************************)
(* Properties.                                                             *)
(***************************************************************************)
Error == {"nil", "ctx", "ErrSendBufTooShort", "ErrRecvBufTooShort",
          "ErrOperationRetriesFailed", "ErrConnectionInProcess",
          "ErrConnectionClosed", "ErrSocketBadFD", "other"}
Unit == [id : Nat, part : Nat \ {0}, of : Nat \ {0}]
State == {"closed", "fresh", "connecting", "up", "eof", "failed", "reset"}

TypeOK ==
    /\ pc \in [G -> {"idle", "client", "dead"} \cup WorkLabels]
    /\ cmd \in [G -> [id : Nat, len : Nat]]
    /\ ctxDone \in [G -> BOOLEAN]
    /\ calls \in Nat
    /\ sendRetries \in [G -> 0..RetryAmount]
    /\ recvRetries \in [G -> 0..RetryAmount]
    /\ connRetries \in [G -> 0..RetryAmount]
    /\ ret \in [G -> {"send", "resend", "trunc", "sendConn", "recvConn"}]
    /\ err \in [G -> Error]
    /\ reply \in [G -> [id : Nat, got : Nat, of : Nat]]
    /\ processing \in BOOLEAN
    /\ socket \in Fd \cup {NoSocket}
    /\ msgrFd \in Fd
    /\ sendBuf \in [len : Nat, data : Seq(Unit), sent : Nat]
    /\ recvBuf \in [len : Nat, data : Seq(Unit)]
    /\ kernel \in [Fd -> State]
    /\ inbox \in [Fd -> Seq(Unit)]
    /\ wire \in [Fd -> Seq(Unit)]
    /\ queue \in [Fd -> Seq(Unit)]

\* "all the threads go through one connection one after the other" (README.md):
\* at most one goroutine is between startProcessing and stopProcessing, and
\* only while the flag is set.
MutualExclusion ==
    /\ \A g, h \in G : Inside(g) /\ Inside(h) => g = h
    /\ \A g \in G : Inside(g) => processing

\* Whoever enters Process finds the buffers empty, whatever the way in which
\* the command before it left (the first return of Process skips clearBufs).
BuffersClean ==
    ~processing => sendBuf.data = <<>> /\ sendBuf.sent = 0 /\ recvBuf.data = <<>>

\* No index of the buffers runs past its limit, and neither buffer grows past
\* the maximum of the options.
BuffersBounded ==
    /\ sendBuf.sent <= Len(sendBuf.data)
    /\ Len(sendBuf.data) <= sendBuf.len /\ sendBuf.len <= SendBufMaxLen
    /\ Len(recvBuf.data) <= recvBuf.len /\ recvBuf.len <= ReceiveBufMaxLen

\* However many reconnects there were and however they ended, the process has
\* at most one socket open, and it is c.socket: no descriptor leaks.
NoStraySocket == \A fd \in Fd : kernel[fd] # "closed" => fd = socket

UsesSocket(g) == pc[g] \in ConnLabels \cup {"sendPoll", "recvPoll"}

\* Once reconnect() has left c.socket nil, Process never calls a method of it:
\* the messenger's descriptor is closed, so every send ends in EBADF first.
NilSocketUnused ==
    socket = NoSocket => /\ kernel[msgrFd] = "closed"
                         /\ \A g \in G : ~UsesSocket(g)

\* poll() waits on c.socket while Send and Receive use the descriptor of the
\* messenger: whenever a goroutine waits for I/O, the two are the same.
PolledIsUsed ==
    \A g \in G : pc[g] \in {"sendPoll", "recvPoll"} => msgrFd = socket

\* A command gets the reply to itself, not to another command of the client.
ReplyIsOwn == \A g \in G : reply[g] # NoReply => reply[g].id = cmd[g].id

\* A command gets its reply entire.
ReplyIsWhole == \A g \in G : reply[g].got = reply[g].of

Follows(u, v) == IF u.part < u.of THEN v = [u EXCEPT !.part = @ + 1] ELSE v.part = 1

\* What the server reads is commands one after the other, the last one maybe
\* not finished: no part of a command is lost, repeated or mixed with another.
StreamIsCommands ==
    \A fd \in Fd :
        /\ inbox[fd] # <<>> => Head(inbox[fd]).part = 1
        /\ \A i \in 1..(Len(inbox[fd]) - 1) : Follows(inbox[fd][i], inbox[fd][i + 1])

(***************************************************************************)
(* The connection as those who call it see it (CommandService).            *)
(***************************************************************************)
phase == [g \in G |-> IF pc[g] \in {"idle", "dead"} THEN pc[g]
                      ELSE IF pc[g] = "client" THEN "waiting" ELSE "active"]

answer == [g \in G |-> IF err[g] # "nil" THEN "error"
                       ELSE IF reply[g] = NoReply THEN "none"
                       ELSE IF reply[g].id # cmd[g].id THEN "foreign"
                       ELSE IF reply[g].got < reply[g].of THEN "cut" ELSE "own"]

AnyAnswer == INSTANCE CommandService WITH Answers <- {"own", "cut", "foreign", "error"}
OwnAnswer == INSTANCE CommandService WITH Answers <- {"own", "error"}

\* Whatever fails, and whoever cancels, closes or competes: commands are served
\* one at a time, and each leaves with exactly one answer, an error or a reply.
ServesOneByOne == AnyAnswer!Spec

\* While nobody cancels, replies arrive in one piece and the receive buffer does not
\* grow, the answer is an error or the whole reply to the command itself.
ServesFaithfully == OwnAnswer!Spec

\* While c.socket is connected no command fails on a closed descriptor: a
\* reconnect() that succeeds moves the messenger to the new socket.  (After
\* one that fails, the messenger may keep the descriptor of the old one.)
NoBadFdWhileUp ==
    \A g \in G : err[g] = "ErrSocketBadFD" => socket = NoSocket \/ kernel[socket] # "up"

\* No call of poll() by g lasts for ever: each returns, if only ErrPollTimeout.
PollReturns(g) == []<>(pc[g] \notin PollLabels)

\* A command whose context is done returns if its own calls of poll() do, whatever
\* the server and the other commands do: also one that spins in front of a command
\* that is in poll() for ever.
CancelledReturns ==
    \A g \in G : PollReturns(g) => (ctxDone[g] ~> pc[g] = "idle")

Breaks(fd) == kernel[fd] \in {"connecting", "up", "eof"} /\ kernel'[fd] \in {"eof", "failed", "reset"}

\* "there will be RetryAmount + 1 attempts in all" (options.go), of everything but
\* reconnects and poll() itself: if connections break finitely often and poll()
\* returns, every command returns, whether the server answers or not.
EveryCallReturns ==
    (\A g \in G : PollReturns(g)) /\ <>[][\A fd \in Fd : ~Breaks(fd)]_vars
        => \A g \in G : pc[g] = "client" ~> pc[g] = "idle"

=============================================================================

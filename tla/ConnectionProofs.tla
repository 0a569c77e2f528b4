-------------------------- MODULE ConnectionProofs --------------------------
(***************************************************************************)
(* Proofs about Connection, for any goroutines, descriptors, options,      *)
(* lengths of commands and replies, and all the faults of AllFaults: the   *)
(* mutex, the waits in poll(), the types of all variables, the retries and *)
(* the indexes of the buffers.                                             *)
(***************************************************************************)
EXTENDS Connection, TLAPS, SequenceTheorems, FiniteSetTheorems

-----------------------------------------------------------------------------
(***************************************************************************)
(* Growth of the buffers.                                                  *)
(***************************************************************************)

\* A buffer that may grow becomes longer and no longer than its maximum, so
\* that the loop which encodes and grows ends.
THEOREM GrowthIsBounded ==
    ASSUME NEW len \in Nat \ {0}, NEW max \in Nat, canIncrease(len, max)
    PROVE  /\ increasedLen(len, max) \in Nat
           /\ len < increasedLen(len, max)
           /\ increasedLen(len, max) <= max
BY DEF canIncrease, availableSpaceLen, increasedLen

-----------------------------------------------------------------------------
(***************************************************************************)
(* The shape of a step.                                                    *)
(***************************************************************************)
Labels == {"idle", "client", "dead"} \cup WorkLabels

Shape ==
    /\ pc \in [G -> Labels]
    /\ kernel \in [Fd -> State]
    /\ socket \in Fd \cup {NoSocket}
    /\ msgrFd \in Fd
    /\ DOMAIN sendBuf = {"len", "data", "sent"}
    /\ DOMAIN recvBuf = {"len", "data"}

\* Steps of a goroutine that stays between startProcessing and stopProcessing.
Inner(g) ==
    \/ Begin(g) \/ EncodeCmd(g) \/ SendStep(g) \/ ReceiveStep(g)
    \/ Connect(g) \/ ConnectPoll(g) \/ DecodeReply(g) \/ ClearBufs(g)

\* A call of reconnect() goes to connect() or to the deferred calls.
LEMMA ReconnectMoves ==
    ASSUME NEW g \in G, NEW caller, reconnect(g, caller)
    PROVE  /\ \E label \in WorkLabels : pc' = [pc EXCEPT ![g] = label]
           /\ processing' = processing
BY DEF reconnect, callConnect, Fail, GoTo, WorkLabels, ConnLabels

\* A connect() that succeeds goes on to send, receive or the deferred calls.
LEMMA ConnectedMoves ==
    ASSUME NEW g \in G, connected(g)
    PROVE  \E label \in WorkLabels : pc' = [pc EXCEPT ![g] = label]
BY DEF connected, Fail, GoTo, WorkLabels, SendLabels, RecvLabels

\* What a goroutine inside Process does moves it alone, and keeps it inside.
LEMMA InnerMoves ==
    ASSUME Shape, NEW g \in G, Inner(g)
    PROVE  /\ Inside(g)
           /\ processing' = processing
           /\ \E label \in WorkLabels : pc' = [pc EXCEPT ![g] = label]
<1> DEFINE Goal == /\ Inside(g)
                   /\ processing' = processing
                   /\ \E label \in WorkLabels : pc' = [pc EXCEPT ![g] = label]
<1> USE DEF Inside, WorkLabels, SendLabels, RecvLabels, ConnLabels
<1>1. CASE Begin(g)
  BY <1>1 DEF Begin, GoTo, connVars
<1>2. CASE EncodeCmd(g)
  BY <1>2 DEF EncodeCmd, Fail, GoTo, connVars, Shape
<1>3. CASE SendStep(g)
  <2>1. CASE GiveUpSend(g) \/ SendFails(g)
    BY <2>1 DEF GiveUpSend, Sending, SendFails, Fail, GoTo, connVars
  <2>2. CASE SendBytes(g)
    BY <2>2 DEF SendBytes, Sending, GoTo, connVars
  <2>3. CASE SendBlocked(g) \/ SendNotConnected(g)
    BY <2>3 DEF SendBlocked, SendNotConnected, Sending, callConnect, GoTo, connVars
  <2>4. CASE SendBroken(g)
    BY <2>4, ReconnectMoves DEF SendBroken, Sending
  <2>5. CASE SendPoll(g)
    <3>1. Inside(g)
      BY <2>5 DEF SendPoll
    <3>2. \/ reconnect(g, "send")
          \/ /\ GoTo(g, "send") \/ Fail(g, "other")
             /\ UNCHANGED connVars
      BY <2>5 DEF SendPoll, noReconnect
    <3>3. QED
      BY <3>1, <3>2, ReconnectMoves DEF GoTo, Fail, connVars
  <2>6. QED
    BY <1>3, <2>1, <2>2, <2>3, <2>4, <2>5 DEF SendStep
<1>4. CASE ReceiveStep(g)
  <2>1. CASE GiveUpReceive(g) \/ ReceiveFails(g)
    BY <2>1 DEF GiveUpReceive, Receiving, ReceiveFails, Fail, GoTo, connVars
  <2>2. CASE ReceiveBytes(g)
    <3>1. Inside(g)
      BY <2>2 DEF ReceiveBytes, Receiving
    <3>2. \/ reconnect(g, "trunc")
          \/ /\ GoTo(g, "decode") \/ UNCHANGED pc
             /\ UNCHANGED connVars
      BY <2>2 DEF ReceiveBytes
    <3>3. QED
      BY <3>1, <3>2, ReconnectMoves DEF GoTo, connVars, Shape
  <2>3. CASE ReceiveBlocked(g) \/ ReceiveNotConnected(g)
    BY <2>3 DEF ReceiveBlocked, ReceiveNotConnected, Receiving, callConnect, GoTo, connVars
  <2>4. CASE ReceiveClosed(g)
    BY <2>4, ReconnectMoves DEF ReceiveClosed, Receiving
  <2>5. CASE ReceivePoll(g)
    BY <2>5 DEF ReceivePoll, Fail, GoTo, connVars
  <2>6. QED
    BY <1>4, <2>1, <2>2, <2>3, <2>4, <2>5 DEF ReceiveStep, ReceiveWaits
<1>5. CASE Connect(g)
  <2>1. pc[g] = "connect" /\ processing' = processing
    BY <1>5 DEF Connect
  <2>2. \/ connected(g)
        \/ GoTo(g, "connPoll")
        \/ \E e : Fail(g, e)
    BY <1>5 DEF Connect
  <2>3. QED
    BY <2>1, <2>2, ConnectedMoves DEF GoTo, Fail
<1>6. CASE ConnectPoll(g)
  <2>1. pc[g] = "connPoll" /\ processing' = processing
    BY <1>6 DEF ConnectPoll
  <2>2. \/ connected(g)
        \/ GoTo(g, "connect")
        \/ \E e : Fail(g, e)
    BY <1>6 DEF ConnectPoll
  <2>3. QED
    BY <2>1, <2>2, ConnectedMoves DEF GoTo, Fail
<1>7. CASE DecodeReply(g)
  <2>1. pc[g] = "decode" /\ processing' = processing
    BY <1>7 DEF DecodeReply, connVars
  <2>2. GoTo(g, "clear") \/ \E e : Fail(g, e)
    BY <1>7 DEF DecodeReply
  <2>3. QED
    BY <2>1, <2>2 DEF GoTo, Fail
<1>8. CASE ClearBufs(g)
  BY <1>8 DEF ClearBufs, GoTo, connVars
<1>9. QED
  BY <1>1, <1>2, <1>3, <1>4, <1>5, <1>6, <1>7, <1>8 DEF Inner


-----------------------------------------------------------------------------
(***************************************************************************)
(* The inductive invariant.  MutualExclusion is what makes the rest hold:  *)
(* the goroutine that steps inside Process is the only one that touches    *)
(* the buffers, the socket and the messenger.                              *)
(***************************************************************************)
Empty == sendBuf.data = <<>> /\ sendBuf.sent = 0 /\ recvBuf.data = <<>>

\* The buffers are empty where Process starts and where it ends.
CleanAtEnds == \A g \in G : pc[g] \in {"begin", "stop"} => Empty

\* What is known of c.socket, the messenger and the kernel.
SocketInv == NoStraySocket /\ NilSocketUnused

BufferInv == BuffersClean /\ CleanAtEnds

IInv == Shape /\ MutualExclusion /\ SocketInv /\ BufferInv

LEMMA InitIInv == Init => IInv
BY FdAssumption DEF Init, NewConnector, noBytes, IInv, Shape, Labels, WorkLabels, State, MutualExclusion, Inside,
   SocketInv, NoStraySocket, NilSocketUnused, UsesSocket, ConnLabels, SendLabels,
   RecvLabels, BufferInv, BuffersClean, CleanAtEnds, Empty

\* A step inside Process preserves mutual exclusion.
LEMMA InnerExclusion ==
    ASSUME Shape, MutualExclusion, NEW g \in G, Inner(g)
    PROVE  MutualExclusion'
<1>1. PICK label \in WorkLabels : pc' = [pc EXCEPT ![g] = label]
  BY InnerMoves
<1>2. Inside(g) /\ processing' = processing
  BY InnerMoves
<1>3. \A h \in G : pc'[h] \in WorkLabels => Inside(h)
  BY <1>1, <1>2 DEF Shape, Inside
<1>4. QED
  BY <1>2, <1>3 DEF MutualExclusion, Inside

-----------------------------------------------------------------------------
(***************************************************************************)
(* The socket.                                                             *)
(***************************************************************************)
SocketShape ==
    /\ kernel \in [Fd -> State]
    /\ socket \in Fd \cup {NoSocket}
    /\ msgrFd \in Fd

\* While c.socket is nil every socket is closed.
LEMMA NilMeansClosed ==
    ASSUME Shape, NoStraySocket, socket = NoSocket, NEW fd \in Fd
    PROVE  kernel[fd] = "closed"
BY FdAssumption DEF NoStraySocket

UsingLabels == ConnLabels \cup {"sendPoll", "recvPoll"}

\* A step that changes no socket, and moves the messenger at most to
\* c.socket; with c.socket nil it does not go where the socket is used.
LEMMA QuietStep ==
    ASSUME Shape, SocketInv, NEW g \in G, NEW label,
           pc' = [pc EXCEPT ![g] = label],
           UNCHANGED <<kernel, socket>>,
           msgrFd' = msgrFd \/ (msgrFd' = socket /\ socket # NoSocket),
           socket = NoSocket => label \notin UsingLabels
    PROVE  (SocketShape /\ SocketInv)'
<1>1. SocketShape'
  BY DEF Shape, SocketShape
<1>2. NoStraySocket'
  BY DEF SocketInv, NoStraySocket
<1>3. NilSocketUnused'
  BY DEF SocketInv, NilSocketUnused, UsesSocket, UsingLabels, Shape
<1>4. QED
  BY <1>1, <1>2, <1>3 DEF SocketInv

\* reconnect() closes the old socket before it takes another, or none.
LEMMA ReconnectSocket ==
    ASSUME Shape, MutualExclusion, SocketInv, NEW g \in G, NEW caller,
           Inside(g), socket # NoSocket, reconnect(g, caller)
    PROVE  (SocketShape /\ SocketInv)'
<1>1. msgrFd' = msgrFd /\ socket \in Fd
  BY DEF reconnect, Shape
<1>2. closeSocket(socket) \in [Fd -> State] /\ \A fd \in Fd : closeSocket(socket)[fd] = "closed"
  BY <1>1 DEF closeSocket, Shape, State, SocketInv, NoStraySocket
<1>3. CASE \E fd \in Fd : socket' = fd /\ kernel' = [closeSocket(socket) EXCEPT ![fd] = "fresh"]
  <2>1. PICK fd \in Fd : socket' = fd /\ kernel' = [closeSocket(socket) EXCEPT ![fd] = "fresh"]
    BY <1>3
  <2>2. SocketShape'
    BY <2>1, <1>1, <1>2 DEF SocketShape, State, Shape
  <2>3. NoStraySocket'
    BY <2>1, <1>2 DEF NoStraySocket
  <2>4. NilSocketUnused'
    BY <2>1, FdAssumption DEF NilSocketUnused
  <2>5. QED
    BY <2>2, <2>3, <2>4 DEF SocketInv
<1>4. CASE socket' = NoSocket /\ kernel' = closeSocket(socket) /\ Fail(g, "other")
  <2>1. SocketShape'
    BY <1>4, <1>1, <1>2 DEF SocketShape, Shape
  <2>2. NoStraySocket'
    BY <1>4, <1>2 DEF NoStraySocket
  <2>3. \A h \in G : pc'[h] \notin UsingLabels
    BY <1>4 DEF Fail, GoTo, MutualExclusion, Inside, UsingLabels, ConnLabels, WorkLabels,
       SendLabels, RecvLabels, Shape
  <2>4. kernel'[msgrFd'] = "closed"
    BY <1>4, <1>1, <1>2 DEF Shape
  <2>5. QED
    BY <2>1, <2>2, <2>3, <2>4 DEF SocketInv, NilSocketUnused, UsesSocket, UsingLabels
<1>5. QED
  BY <1>3, <1>4 DEF reconnect

\* Whoever uses the socket has one.
LEMMA UserHasSocket ==
    ASSUME SocketInv, NEW g \in G, pc[g] \in UsingLabels
    PROVE  socket # NoSocket
BY DEF SocketInv, NilSocketUnused, UsesSocket, UsingLabels

\* Whoever finds the messenger's descriptor open has a socket.
LEMMA OpenHasSocket ==
    ASSUME SocketInv, kernel[msgrFd] # "closed"
    PROVE  socket # NoSocket
BY DEF SocketInv, NilSocketUnused

\* What a goroutine does inside Process preserves the facts of the socket.
LEMMA InnerSocket ==
    ASSUME Shape, MutualExclusion, SocketInv, NEW g \in G, Inner(g)
    PROVE  (SocketShape /\ SocketInv)'
<1> DEFINE Quiet(label) == /\ pc' = [pc EXCEPT ![g] = label]
                           /\ UNCHANGED <<kernel, socket, msgrFd>>
<1> USE DEF UsingLabels, ConnLabels
<1>1. ASSUME NEW label, Quiet(label), label \notin UsingLabels
      PROVE  (SocketShape /\ SocketInv)'
  BY <1>1, QuietStep
<1>2. ASSUME NEW label, Quiet(label), socket # NoSocket
      PROVE  (SocketShape /\ SocketInv)'
  BY <1>2, QuietStep
<1>3. Inside(g)
  BY InnerMoves
<1>4. CASE Begin(g)
  BY <1>4, <1>1 DEF Begin, GoTo, connVars
<1>5. CASE EncodeCmd(g)
  <2>1. \E label : Quiet(label) /\ label \in {"encode", "send", "clear"}
    BY <1>5 DEF EncodeCmd, Fail, GoTo, connVars, Shape
  <2>2. QED
    BY <2>1, <1>1
<1>6. CASE SendStep(g)
  <2>1. CASE GiveUpSend(g) \/ SendFails(g)
    <3>1. Quiet("clear")
      BY <2>1 DEF GiveUpSend, SendFails, Fail, GoTo, connVars
    <3>2. QED
      BY <3>1, <1>1
  <2>2. CASE SendBytes(g)
    <3>1. Quiet("send") \/ Quiet("receive")
      BY <2>2 DEF SendBytes, GoTo, connVars
    <3>2. QED
      BY <3>1, <1>1
  <2>3. CASE SendBlocked(g) \/ SendNotConnected(g)
    <3>1. Quiet("sendPoll") \/ Quiet("connect")
      BY <2>3 DEF SendBlocked, SendNotConnected, callConnect, GoTo, connVars
    <3>2. socket # NoSocket
      BY <2>3, OpenHasSocket DEF SendBlocked, SendNotConnected, WouldBlock, Writable
    <3>3. QED
      BY <3>1, <3>2, <1>2
  <2>4. CASE SendBroken(g)
    <3>1. socket # NoSocket /\ reconnect(g, "send")
      BY <2>4, OpenHasSocket DEF SendBroken
    <3>2. QED
      BY <3>1, <1>3, ReconnectSocket
  <2>5. CASE SendPoll(g)
    <3>1. socket # NoSocket
      BY <2>5, UserHasSocket DEF SendPoll
    <3>2. reconnect(g, "send") \/ Quiet("send") \/ Quiet("clear")
      BY <2>5 DEF SendPoll, noReconnect, connVars, GoTo, Fail
    <3>3. QED
      BY <3>1, <3>2, <1>2, <1>3, ReconnectSocket
  <2>6. QED
    BY <1>6, <2>1, <2>2, <2>3, <2>4, <2>5 DEF SendStep
<1>7. CASE ReceiveStep(g)
  <2>1. CASE GiveUpReceive(g) \/ ReceiveFails(g)
    <3>1. Quiet("clear")
      BY <2>1 DEF GiveUpReceive, ReceiveFails, Fail, GoTo, connVars
    <3>2. QED
      BY <3>1, <1>1
  <2>2. CASE ReceiveBytes(g)
    <3>1. socket # NoSocket
      BY <2>2, OpenHasSocket DEF ReceiveBytes
    <3>2. pc' = pc => pc' = [pc EXCEPT ![g] = pc[g]]
      BY DEF Shape
    <3>3. reconnect(g, "trunc") \/ Quiet("decode") \/ Quiet(pc[g])
      BY <2>2, <3>2 DEF ReceiveBytes, connVars, GoTo
    <3>4. QED
      BY <3>1, <3>3, <1>2, <1>3, ReconnectSocket
  <2>3. CASE ReceiveBlocked(g) \/ ReceiveNotConnected(g)
    <3>1. Quiet("recvPoll") \/ Quiet("connect")
      BY <2>3 DEF ReceiveBlocked, ReceiveNotConnected, callConnect, GoTo, connVars
    <3>2. socket # NoSocket
      BY <2>3, OpenHasSocket DEF ReceiveBlocked, ReceiveNotConnected, WouldBlock
    <3>3. QED
      BY <3>1, <3>2, <1>2
  <2>4. CASE ReceiveClosed(g)
    <3>1. socket # NoSocket /\ reconnect(g, "resend")
      BY <2>4, OpenHasSocket DEF ReceiveClosed, Readable
    <3>2. QED
      BY <3>1, <1>3, ReconnectSocket
  <2>5. CASE ReceivePoll(g)
    <3>1. Quiet("receive") \/ Quiet("clear")
      BY <2>5 DEF ReceivePoll, Fail, GoTo, connVars
    <3>2. QED
      BY <3>1, <1>1
  <2>6. QED
    BY <1>7, <2>1, <2>2, <2>3, <2>4, <2>5 DEF ReceiveStep, ReceiveWaits
<1>8. ASSUME connected(g), UNCHANGED <<kernel, socket>>, pc[g] \in ConnLabels
      PROVE  (SocketShape /\ SocketInv)'
  <2>1. socket # NoSocket
    BY <1>8, UserHasSocket
  <2>2. PICK label : pc' = [pc EXCEPT ![g] = label]
    BY <1>8 DEF connected, GoTo, Fail
  <2>3. msgrFd' = msgrFd \/ msgrFd' = socket
    BY <1>8 DEF connected, ChangeSocketFd
  <2>4. QED
    BY <1>8, <2>1, <2>2, <2>3, QuietStep
<1>9. CASE Connect(g)
  <2>1. pc[g] = "connect" /\ socket # NoSocket /\ socket' = socket
    BY <1>9, UserHasSocket DEF Connect
  <2>2. CASE kernel[socket] = "fresh" /\ kernel' = [kernel EXCEPT ![socket] = "connecting"]
             /\ msgrFd' = msgrFd
    BY <2>1, <2>2 DEF SocketShape, Shape, State, SocketInv, NoStraySocket, NilSocketUnused
  <2>3. CASE connected(g) /\ UNCHANGED kernel
    BY <2>1, <2>3, <1>8
  <2>4. CASE Quiet("clear")
    BY <2>4, <1>1
  <2>5. CASE kernel[socket] = "failed" /\ kernel' = [kernel EXCEPT ![socket] = "fresh"]
             /\ msgrFd' = msgrFd
    BY <2>1, <2>5 DEF SocketShape, Shape, State, SocketInv, NoStraySocket, NilSocketUnused
  <2>6. QED
    BY <1>9, <2>2, <2>3, <2>4, <2>5 DEF Connect, notConnected, Fail, GoTo
<1>10. CASE ConnectPoll(g)
  <2>1. pc[g] = "connPoll" /\ UNCHANGED <<kernel, socket>>
    BY <1>10 DEF ConnectPoll
  <2>2. CASE connected(g)
    BY <2>1, <2>2, <1>8
  <2>3. CASE Quiet("connect") \/ Quiet("clear")
    BY <2>1, <2>3, <1>2, UserHasSocket
  <2>4. QED
    BY <1>10, <2>1, <2>2, <2>3 DEF ConnectPoll, notConnected, Fail, GoTo
<1>11. CASE DecodeReply(g)
  <2>1. Quiet("clear")
    BY <1>11 DEF DecodeReply, Fail, GoTo, connVars
  <2>2. QED
    BY <2>1, <1>1
<1>12. CASE ClearBufs(g)
  BY <1>12, <1>1 DEF ClearBufs, GoTo, connVars
<1>13. QED
  BY <1>4, <1>5, <1>6, <1>7, <1>9, <1>10, <1>11, <1>12 DEF Inner

-----------------------------------------------------------------------------
(***************************************************************************)
(* The buffers.                                                            *)
(***************************************************************************)
BufferShape == /\ DOMAIN sendBuf = {"len", "data", "sent"}
               /\ DOMAIN recvBuf = {"len", "data"}

\* reconnect() leads to no end of Process.
LEMMA ReconnectEnds ==
    ASSUME Shape, NEW g \in G, NEW caller, reconnect(g, caller)
    PROVE  pc'[g] \notin {"begin", "stop"}
BY DEF reconnect, callConnect, Fail, GoTo, Shape

\* Process reaches its end through Begin, before it has used the buffers, or
\* through clearBufs.
LEMMA InnerEnds ==
    ASSUME Shape, CleanAtEnds, NEW g \in G, Inner(g)
    PROVE  /\ BufferShape'
           /\ pc'[g] \in {"begin", "stop"} => Empty'
<1> USE DEF Shape, BufferShape
<1> DEFINE Goal == BufferShape' /\ (pc'[g] \in {"begin", "stop"} => Empty')
<1>1. CASE Begin(g)
  BY <1>1 DEF Begin, bufVars, CleanAtEnds, Empty
<1>2. CASE EncodeCmd(g)
  BY <1>2 DEF EncodeCmd, Fail, GoTo
<1>3. CASE SendStep(g)
  <2>1. CASE GiveUpSend(g) \/ SendFails(g)
    BY <2>1 DEF GiveUpSend, SendFails, Fail, GoTo, bufVars
  <2>2. CASE SendBytes(g)
    BY <2>2 DEF SendBytes, addSentBytes, GoTo
  <2>3. CASE SendBlocked(g) \/ SendNotConnected(g)
    BY <2>3 DEF SendBlocked, SendNotConnected, callConnect, GoTo, bufVars
  <2>4. CASE SendBroken(g)
    BY <2>4, ReconnectEnds DEF SendBroken, bufVars
  <2>5. CASE SendPoll(g)
    <3>1. reconnect(g, "send") \/ GoTo(g, "send") \/ Fail(g, "other")
      BY <2>5 DEF SendPoll
    <3>2. UNCHANGED bufVars
      BY <2>5 DEF SendPoll
    <3>3. QED
      BY <3>1, <3>2, ReconnectEnds DEF GoTo, Fail, bufVars
  <2>6. QED
    BY <1>3, <2>1, <2>2, <2>3, <2>4, <2>5 DEF SendStep
<1>4. CASE ReceiveStep(g)
  <2>1. CASE GiveUpReceive(g) \/ ReceiveFails(g)
    BY <2>1 DEF GiveUpReceive, ReceiveFails, Fail, GoTo, bufVars
  <2>2. CASE ReceiveBytes(g)
    <3>1. sendBuf' = sendBuf /\ DOMAIN recvBuf' = {"len", "data"}
      BY <2>2 DEF ReceiveBytes
    <3>2. pc[g] = "receive" /\ (reconnect(g, "trunc") \/ GoTo(g, "decode") \/ UNCHANGED pc)
      BY <2>2 DEF ReceiveBytes, Receiving
    <3>3. QED
      BY <3>1, <3>2, ReconnectEnds DEF GoTo
  <2>3. CASE ReceiveBlocked(g) \/ ReceiveNotConnected(g)
    BY <2>3 DEF ReceiveBlocked, ReceiveNotConnected, callConnect, GoTo, bufVars
  <2>4. CASE ReceiveClosed(g)
    BY <2>4, ReconnectEnds DEF ReceiveClosed, bufVars
  <2>5. CASE ReceivePoll(g)
    BY <2>5 DEF ReceivePoll, Fail, GoTo, bufVars
  <2>6. QED
    BY <1>4, <2>1, <2>2, <2>3, <2>4, <2>5 DEF ReceiveStep, ReceiveWaits
<1>5. ASSUME connected(g)
      PROVE  /\ DOMAIN sendBuf' = {"len", "data", "sent"}
             /\ pc'[g] \notin {"begin", "stop"}
  BY <1>5 DEF connected, rewind, GoTo, Fail
<1>6. CASE Connect(g)
  <2>1. recvBuf' = recvBuf
    BY <1>6 DEF Connect
  <2>2. \/ connected(g)
        \/ sendBuf' = sendBuf /\ (GoTo(g, "connPoll") \/ \E e : Fail(g, e))
    BY <1>6 DEF Connect, notConnected
  <2>3. QED
    BY <2>1, <2>2, <1>5 DEF GoTo, Fail
<1>7. CASE ConnectPoll(g)
  <2>1. recvBuf' = recvBuf
    BY <1>7 DEF ConnectPoll
  <2>2. \/ connected(g)
        \/ sendBuf' = sendBuf /\ (GoTo(g, "connect") \/ \E e : Fail(g, e))
    BY <1>7 DEF ConnectPoll, notConnected
  <2>3. QED
    BY <2>1, <2>2, <1>5 DEF GoTo, Fail
<1>8. CASE DecodeReply(g)
  <2>1. UNCHANGED bufVars /\ (GoTo(g, "clear") \/ \E e : Fail(g, e))
    BY <1>8 DEF DecodeReply
  <2>2. QED
    BY <2>1 DEF GoTo, Fail, bufVars
<1>9. CASE ClearBufs(g)
  BY <1>9 DEF ClearBufs, clearedSendBuf, clearedRecvBuf, Empty
<1>10. QED
  BY <1>1, <1>2, <1>3, <1>4, <1>6, <1>7, <1>8, <1>9 DEF Inner

-----------------------------------------------------------------------------
(***************************************************************************)
(* Every step preserves the invariant.                                     *)
(***************************************************************************)
LEMMA InnerInvariant ==
    ASSUME IInv, NEW g \in G, Inner(g)
    PROVE  IInv'
<1> USE DEF IInv
<1>1. PICK label \in WorkLabels : pc' = [pc EXCEPT ![g] = label]
  BY InnerMoves
<1>2. Inside(g) /\ processing' = processing
  BY InnerMoves
<1>3. MutualExclusion'
  BY InnerExclusion
<1>4. (SocketShape /\ SocketInv)'
  BY InnerSocket
<1>5. BufferShape' /\ (pc'[g] \in {"begin", "stop"} => Empty')
  BY InnerEnds DEF BufferInv
<1>6. Shape'
  BY <1>1, <1>4, <1>5 DEF Shape, SocketShape, BufferShape, Labels
<1>7. BuffersClean'
  BY <1>2 DEF MutualExclusion, BuffersClean
<1>8. \A h \in G \ {g} : pc'[h] \notin {"begin", "stop"}
  BY <1>1, <1>2 DEF MutualExclusion, Shape, Inside, WorkLabels
<1>9. CleanAtEnds'
  BY <1>5, <1>8 DEF CleanAtEnds
<1>10. QED
  BY <1>3, <1>4, <1>6, <1>7, <1>9 DEF BufferInv

\* The steps outside Process, and those that enter and leave it.
LEMMA OuterInvariant ==
    ASSUME IInv, NEW g \in G,
           \/ Start(g) \/ Cancel(g) \/ LeaveLoop(g)
           \/ EnterProcess(g) \/ StopProcessing(g)
    PROVE  IInv'
<1> USE DEF IInv, Shape, Labels, WorkLabels, SendLabels, RecvLabels, ConnLabels,
            Inside, MutualExclusion, SocketInv, NoStraySocket, NilSocketUnused, UsesSocket,
            BufferInv, BuffersClean, CleanAtEnds, Empty
<1>1. CASE Start(g) \/ Cancel(g) \/ LeaveLoop(g)
  BY <1>1 DEF Start, Cancel, LeaveLoop, Return, GoTo, connVars, bufVars
<1>2. CASE EnterProcess(g)
  BY <1>2 DEF EnterProcess, isProcessing, GoTo, bufVars
<1>3. CASE StopProcessing(g)
  BY <1>3 DEF StopProcessing, Return, GoTo, bufVars
<1>4. QED
  BY <1>1, <1>2, <1>3

\* Client.Close closes c.socket, or ends every goroutine.
LEMMA CloseInvariant == IInv /\ CloseClient => IInv'
<1> SUFFICES ASSUME IInv, CloseClient PROVE IInv'
  OBVIOUS
<1> USE DEF IInv, Shape, Labels, WorkLabels, SendLabels, RecvLabels, ConnLabels, State,
            Inside, MutualExclusion, SocketInv, NoStraySocket, NilSocketUnused, UsesSocket,
            BufferInv, BuffersClean, CleanAtEnds, Empty
<1>1. CASE socket = NoSocket /\ pc' = [g \in G |-> "dead"] /\ UNCHANGED kernel
  BY <1>1 DEF CloseClient, connVars, bufVars
<1>2. CASE socket # NoSocket /\ kernel' = closeSocket(socket) /\ UNCHANGED pc
  BY <1>2 DEF CloseClient, closeSocket, connVars, bufVars
<1>3. QED
  BY <1>1, <1>2 DEF CloseClient

\* The kernel and the server open no socket that is closed.
LEMMA PeerInvariant ==
    ASSUME IInv, NEW fd \in Fd, Peer(fd)
    PROVE  IInv'
<1>1. kernelOnly /\ \/ UNCHANGED kernel
                    \/ /\ kernel[fd] # "closed"
                       /\ \E s \in State : kernel' = [kernel EXCEPT ![fd] = s]
  BY DEF Peer, Establish, Refuse, PeerClose, PeerReset, Serve, Arrive, State
<1>2. UNCHANGED <<pc, processing, socket, msgrFd, sendBuf, recvBuf>>
  BY <1>1 DEF kernelOnly, connVars, bufVars
<1>3. kernel' \in [Fd -> State] /\ \A f \in Fd : kernel[f] = "closed" => kernel'[f] = "closed"
  BY <1>1 DEF IInv, Shape
<1>4. Shape' /\ SocketInv'
  BY <1>2, <1>3 DEF IInv, Shape, SocketInv, NoStraySocket, NilSocketUnused, UsesSocket
<1>5. MutualExclusion' /\ BufferInv'
  BY <1>2 DEF IInv, MutualExclusion, Inside, BufferInv, BuffersClean, CleanAtEnds, Empty
<1>6. QED
  BY <1>4, <1>5 DEF IInv

LEMMA NextIInv == IInv /\ [Next]_vars => IInv'
<1> SUFFICES ASSUME IInv, [Next]_vars PROVE IInv'
  OBVIOUS
<1>1. CASE UNCHANGED vars
  BY <1>1 DEF vars, connVars, bufVars, IInv, Shape, MutualExclusion, Inside, SocketInv,
     NoStraySocket, NilSocketUnused, UsesSocket, BufferInv, BuffersClean, CleanAtEnds, Empty
<1>2. ASSUME NEW g \in G, Start(g) \/ Cancel(g) \/ Step(g) PROVE IInv'
  BY <1>2, InnerInvariant, OuterInvariant DEF Step, Inner
<1>3. QED
  BY <1>1, <1>2, PeerInvariant, CloseInvariant DEF Next

\* The invariant holds of every reachable state.
THEOREM Invariance == Spec => []IInv
BY InitIInv, NextIInv, PTL DEF Spec

\* At most one goroutine is inside Process (startProcessing, stopProcessing).
THEOREM OneCommandAtATime == Spec => []MutualExclusion
<1>1. IInv => MutualExclusion
  BY DEF IInv
<1>2. QED
  BY <1>1, Invariance, PTL

\* Every command starts with empty buffers (the deferred calls of Process).
THEOREM CommandsStartClean == Spec => []BuffersClean
<1>1. IInv => BuffersClean
  BY DEF IInv, BufferInv
<1>2. QED
  BY <1>1, Invariance, PTL

\* No sequence of reconnects leaks a descriptor (reconnect, Socket.Close).
THEOREM NoLeak == Spec => []NoStraySocket
<1>1. IInv => NoStraySocket
  BY DEF IInv, SocketInv
<1>2. QED
  BY <1>1, Invariance, PTL

\* Process never calls a method of a nil c.socket.
THEOREM NilIsHarmlessInProcess == Spec => []NilSocketUnused
<1>1. IInv => NilSocketUnused
  BY DEF IInv, SocketInv
<1>2. QED
  BY <1>1, Invariance, PTL

-----------------------------------------------------------------------------
(***************************************************************************)
(* Who waits for I/O waits on the descriptor that it uses: an invariant on *)
(* top of IInv.  A goroutine starts to wait only when the messenger's      *)
(* descriptor is open, and an open one is c.socket (NoStraySocket); while  *)
(* it waits, nobody else is inside Process to change either.               *)
(***************************************************************************)
IOLabels == {"sendPoll", "recvPoll"}

LEMMA InnerPolls ==
    ASSUME IInv, PolledIsUsed, NEW g \in G, Inner(g)
    PROVE  PolledIsUsed'
<1>1. PICK label \in WorkLabels : pc' = [pc EXCEPT ![g] = label]
  BY InnerMoves DEF IInv
<1>2. Inside(g)
  BY InnerMoves DEF IInv
<1>3. \A h \in G \ {g} : pc'[h] \notin IOLabels
  BY <1>1, <1>2 DEF IInv, Shape, MutualExclusion, Inside, IOLabels, WorkLabels, SendLabels,
     RecvLabels
<1>4. pc'[g] \in IOLabels => msgrFd' = socket'
  <2> USE DEF IInv, Shape, IOLabels, GoTo, Fail
  <2>1. ASSUME NEW caller, reconnect(g, caller)
        PROVE  pc'[g] \notin IOLabels
    BY <2>1 DEF reconnect, callConnect
  <2>2. CASE Begin(g) \/ EncodeCmd(g) \/ DecodeReply(g) \/ ClearBufs(g)
    BY <2>2 DEF Begin, EncodeCmd, DecodeReply, ClearBufs
  <2>3. CASE SendStep(g)
    <3>1. CASE SendBlocked(g)
      BY <3>1 DEF SendBlocked, WouldBlock, Writable, SocketInv, NoStraySocket, connVars
    <3>2. CASE ~SendBlocked(g)
      BY <2>1, <2>3, <3>2 DEF SendStep, GiveUpSend, SendBytes, SendBroken, SendNotConnected,
         SendFails, SendPoll, callConnect
    <3>3. QED
      BY <3>1, <3>2
  <2>4. CASE ReceiveStep(g)
    <3>1. CASE ReceiveBlocked(g)
      BY <3>1 DEF ReceiveBlocked, WouldBlock, SocketInv, NoStraySocket, connVars
    <3>2. CASE ReceiveBytes(g)
      BY <2>1, <3>2 DEF ReceiveBytes, Receiving
    <3>3. CASE ~ReceiveBlocked(g) /\ ~ReceiveBytes(g)
      BY <2>1, <2>4, <3>3 DEF ReceiveStep, ReceiveWaits, GiveUpReceive, ReceiveNotConnected,
         ReceiveClosed, ReceiveFails, ReceivePoll, callConnect
    <3>4. QED
      BY <3>1, <3>2, <3>3
  <2>5. CASE Connect(g) \/ ConnectPoll(g)
    <3>1. \/ connected(g) \/ GoTo(g, "connect") \/ GoTo(g, "connPoll")
          \/ \E e : Fail(g, e)
      BY <2>5 DEF Connect, ConnectPoll
    <3>2. QED
      BY <3>1 DEF connected
  <2>6. QED
    BY <2>2, <2>3, <2>4, <2>5 DEF Inner
<1>5. QED
  BY <1>3, <1>4 DEF PolledIsUsed, IOLabels

LEMMA NextPolls == IInv /\ PolledIsUsed /\ [Next]_vars => PolledIsUsed'
<1> SUFFICES ASSUME IInv, PolledIsUsed, [Next]_vars PROVE PolledIsUsed'
  OBVIOUS
<1> USE DEF PolledIsUsed, IInv, Shape, Labels
<1>1. CASE UNCHANGED vars
  BY <1>1 DEF vars, connVars
<1>2. ASSUME NEW g \in G,
             \/ Start(g) \/ Cancel(g) \/ LeaveLoop(g)
             \/ EnterProcess(g) \/ StopProcessing(g)
      PROVE  PolledIsUsed'
  BY <1>2 DEF Start, Cancel, LeaveLoop, EnterProcess, StopProcessing, Return, GoTo, connVars
<1>3. CASE \E fd \in Fd : Peer(fd)
  BY <1>3 DEF Peer, Establish, Refuse, PeerClose, PeerReset, Serve, Arrive, kernelOnly, connVars
<1>4. CASE CloseClient
  BY <1>4 DEF CloseClient, connVars
<1>5. QED
  BY <1>1, <1>2, <1>3, <1>4, InnerPolls DEF Next, Step, Inner

\* Whenever a goroutine waits in poll() for I/O, it waits on the descriptor that
\* Send and Receive use, however many reconnects there were (ChangeSocketFd).
THEOREM PollsWhatItUses == Spec => []PolledIsUsed
<1>1. Init => PolledIsUsed
  BY DEF Init, NewConnector, PolledIsUsed
<1>2. QED
  BY <1>1, NextPolls, Invariance, PTL DEF Spec

-----------------------------------------------------------------------------
(***************************************************************************)
(* Messages.                                                               *)
(***************************************************************************)
Message == [id : Nat, len : Nat]

\* A request, or a reply, is the sequence of its units.
LEMMA RequestUnits ==
    ASSUME NEW c \in Message
    PROVE  /\ Request(c) \in Seq(Unit)
           /\ Len(Request(c)) = c.len
           /\ \A i \in 1..c.len : Request(c)[i] = [id |-> c.id, part |-> i, of |-> c.len]
<1>1. Request(c) \in [1..c.len -> Unit]
  BY DEF Request, Message, Unit
<1>2. Request(c) \in Seq(Unit)
  BY <1>1, SeqDef DEF Message
<1>3. DOMAIN Request(c) = 1..c.len
  BY DEF Request
<1>4. Len(Request(c)) = c.len
  BY <1>2, <1>3, LenProperties DEF Message
<1>5. QED
  BY <1>2, <1>4 DEF Request

\* A piece of a sequence of units is one, too.
LEMMA PieceOfUnits ==
    ASSUME NEW s \in Seq(Unit), NEW m \in Nat \ {0}, NEW n \in 0..Len(s)
    PROVE  /\ SubSeq(s, m, n) \in Seq(Unit)
           /\ Len(SubSeq(s, m, n)) = IF m <= n THEN n - m + 1 ELSE 0
<1>1. \A i \in m..n : s[i] \in Unit
  BY ElementOfSeq
<1>2. QED
  BY <1>1, SubSeqProperties

\* DecodedReply counts: its result is a natural number.
LEMMA DecodedType ==
    ASSUME NEW data \in Seq(Unit), data # <<>>
    PROVE  DecodedReply(data) \in [id : Nat, got : Nat, of : Nat]
<1> DEFINE whole == {i \in 1..Len(data) :
                        i <= data[1].of /\ data[i] = [data[1] EXCEPT !.part = i]}
<1>1. data[1] \in Unit
  BY EmptySeq, ElementOfSeq
<1>2. IsFiniteSet(1..Len(data))
  BY FS_Interval, LenProperties
<1>3. IsFiniteSet(whole)
  BY <1>2, FS_Subset
<1>4. Cardinality(whole) \in Nat
  BY <1>3, FS_CardinalityType
<1>5. QED
  BY <1>1, <1>4 DEF DecodedReply, Unit

-----------------------------------------------------------------------------
(***************************************************************************)
(* The inductive invariant, on top of IInv.                                *)
(***************************************************************************)

\* Where a retry is about to be counted down, one is left.
RetriesLeft ==
    \A g \in G : /\ pc[g] = "sendPoll" => sendRetries[g] # 0
                 /\ pc[g] = "recvPoll" => recvRetries[g] # 0
                 /\ pc[g] = "connPoll" => connRetries[g] # 0

\* Decode has something to read.
DecodeHasData == \A g \in G : pc[g] = "decode" => recvBuf.data # <<>>

Callers == {"send", "resend", "trunc", "sendConn", "recvConn"}

\* The types of the variables of goroutines, but for reply.
LocalType ==
    /\ cmd \in [G -> Message]
    /\ ctxDone \in [G -> BOOLEAN]
    /\ calls \in Nat
    /\ sendRetries \in [G -> 0..RetryAmount]
    /\ recvRetries \in [G -> 0..RetryAmount]
    /\ connRetries \in [G -> 0..RetryAmount]
    /\ ret \in [G -> Callers]
    /\ err \in [G -> Error]
    /\ processing \in BOOLEAN

BufferType ==
    /\ sendBuf \in [len : Nat, data : Seq(Unit), sent : Nat]
    /\ recvBuf \in [len : Nat, data : Seq(Unit)]

StreamType ==
    /\ inbox \in [Fd -> Seq(Unit)]
    /\ wire \in [Fd -> Seq(Unit)]
    /\ queue \in [Fd -> Seq(Unit)]

ReplyType == reply \in [G -> [id : Nat, got : Nat, of : Nat]]

TInv == /\ LocalType /\ BufferType /\ StreamType /\ ReplyType
        /\ RetriesLeft /\ BuffersBounded /\ DecodeHasData

\* IInv, Shape among it, says the rest.
LEMMA TypesAreTyped == IInv /\ TInv => TypeOK
BY DEF IInv, Shape, Labels, TInv, LocalType, BufferType, StreamType, ReplyType, Callers,
   Message, TypeOK

LEMMA InitTInv == Init => TInv
<1> SUFFICES ASSUME Init PROVE TInv
  OBVIOUS
<1> <<>> \in Seq(Unit) /\ Len(<<>>) = 0
  BY EmptySeq
<1> USE OptsAssumption DEF Init, NewConnector
<1>1. LocalType
  <2>1. cmd \in [G -> Message] /\ calls \in Nat
    BY DEF Message, NoCmd
  <2>2. ctxDone \in [G -> BOOLEAN] /\ processing \in BOOLEAN
    OBVIOUS
  <2>3. RetryAmount \in 0..RetryAmount
    OBVIOUS
  <2>4. ret \in [G -> Callers] /\ err \in [G -> Error]
    BY DEF Callers, Error
  <2>5. QED
    BY <2>1, <2>2, <2>3, <2>4 DEF LocalType
<1>2. BufferType /\ BuffersBounded
  BY DEF BufferType, BuffersBounded
<1>3. StreamType
  BY DEF StreamType, noBytes
<1>4. ReplyType
  BY DEF ReplyType, NoReply
<1>5. RetriesLeft /\ DecodeHasData
  BY DEF RetriesLeft, DecodeHasData
<1>6. QED
  BY <1>1, <1>2, <1>3, <1>4, <1>5 DEF TInv

-----------------------------------------------------------------------------
(***************************************************************************)
(* The goroutines.                                                         *)
(***************************************************************************)
LocalVars == <<cmd, ctxDone, calls, sendRetries, recvRetries, connRetries, ret, err>>

\* What a goroutine inside Process may do to its own variables.
LEMMA ReconnectLocals ==
    ASSUME LocalType, RetriesLeft, Shape, NEW g \in G, NEW caller \in Callers,
           reconnect(g, caller),
           UNCHANGED <<cmd, ctxDone, calls, sendRetries, recvRetries>>
    PROVE  LocalType' /\ RetriesLeft'
BY OptsAssumption DEF LocalType, RetriesLeft, Shape, reconnect, callConnect, Fail, GoTo, Error

LEMMA ConnectedLocals ==
    ASSUME LocalType, RetriesLeft, Shape, NEW g \in G,
           connected(g),
           UNCHANGED <<cmd, ctxDone, calls, recvRetries, connRetries, ret, processing>>
    PROVE  LocalType' /\ RetriesLeft'
BY OptsAssumption DEF LocalType, RetriesLeft, Shape, connected, Fail, GoTo, Error

\* A retry that is left can be counted down.
LEMMA CountDown ==
    ASSUME NEW retries \in [G -> 0..RetryAmount], NEW g \in G, retries[g] # 0
    PROVE  [retries EXCEPT ![g] = decrement(@)] \in [G -> 0..RetryAmount]
<1>1. decrement(retries[g]) \in 0..RetryAmount
  BY OptsAssumption DEF decrement
<1>2. QED
  BY <1>1

LEMMA LocalStep ==
    ASSUME LocalType, RetriesLeft, Shape, NEW g \in G,
           Start(g) \/ Cancel(g) \/ Step(g)
    PROVE  LocalType' /\ RetriesLeft'
<1> USE DEF LocalType, RetriesLeft, Shape, GoTo, Fail, Error, Callers, Message,
            localVars, retryVars, outVars, connVars, exhausted, decrement
<1>1. CASE Start(g)
  BY <1>1, BoundsAssumption DEF Start
<1>2. CASE Cancel(g)
  BY <1>2 DEF Cancel
<1>3. CASE LeaveLoop(g) \/ StopProcessing(g)
  <2>1. Return(g) /\ UNCHANGED <<calls, sendRetries, recvRetries, connRetries, ret>>
    BY <1>3 DEF LeaveLoop, StopProcessing
  <2>2. processing' \in BOOLEAN
    BY <1>3 DEF LeaveLoop, StopProcessing
  <2>3. ctxDone' \in [G -> BOOLEAN] /\ err' \in [G -> Error]
    BY <2>1 DEF Return
  <2>4. cmd' \in [G -> Message]
    BY <2>1 DEF Return, NoCmd
  <2>5. RetriesLeft'
    BY <2>1 DEF Return
  <2>6. QED
    BY <2>1, <2>2, <2>3, <2>4, <2>5
<1>4. CASE EnterProcess(g) \/ Begin(g) \/ ClearBufs(g)
  BY <1>4 DEF EnterProcess, Begin, ClearBufs
<1>5. CASE EncodeCmd(g)
  <2>1. UNCHANGED <<cmd, ctxDone, calls, connRetries, ret, processing>>
    BY <1>5 DEF EncodeCmd
  <2>2. CASE /\ GoTo(g, "send") /\ UNCHANGED err
             /\ sendRetries' = [sendRetries EXCEPT ![g] = RetryAmount]
             /\ recvRetries' = [recvRetries EXCEPT ![g] = RetryAmount]
    BY <2>1, <2>2, OptsAssumption
  <2>3. CASE /\ UNCHANGED <<sendRetries, recvRetries>>
             /\ UNCHANGED <<pc, err>> \/ Fail(g, "ErrSendBufTooShort")
    BY <2>1, <2>3
  <2>4. QED
    BY <1>5, <2>2, <2>3 DEF EncodeCmd
<1>6. CASE SendStep(g)
  <2>1. CASE GiveUpSend(g) \/ SendBytes(g) \/ SendBlocked(g) \/ SendFails(g)
    <3>1. CASE GiveUpSend(g)
      BY <3>1 DEF GiveUpSend
    <3>2. CASE SendBytes(g)
      BY <3>2 DEF SendBytes, Sending
    <3>3. CASE SendBlocked(g)
      BY <3>3 DEF SendBlocked, Sending
    <3>4. CASE SendFails(g)
      BY <3>4 DEF SendFails, Sending
    <3>5. QED
      BY <2>1, <3>1, <3>2, <3>3, <3>4
  <2>2. CASE SendBroken(g)
    BY <2>2, ReconnectLocals DEF SendBroken
  <2>3. CASE SendNotConnected(g)
    BY <2>3, OptsAssumption DEF SendNotConnected, callConnect
  <2>4. CASE SendPoll(g)
    <3>1. CASE reconnect(g, "send") /\ UNCHANGED sendRetries
      BY <2>4, <3>1, ReconnectLocals DEF SendPoll
    <3>2. CASE noReconnect(g) /\ Fail(g, "other") /\ UNCHANGED sendRetries
      BY <2>4, <3>2 DEF SendPoll, noReconnect
    <3>3. CASE /\ noReconnect(g) /\ GoTo(g, "send") /\ UNCHANGED err
               /\ \E counts \in BOOLEAN :
                     sendRetries' = [sendRetries EXCEPT ![g] =
                                       IF counts THEN decrement(@) ELSE @]
      <4>1. UNCHANGED <<cmd, ctxDone, calls, recvRetries>> /\ pc[g] = "sendPoll"
        BY <2>4 DEF SendPoll
      <4>2. sendRetries' \in [G -> 0..RetryAmount]
        BY <3>3, <4>1, CountDown
      <4>3. QED
        BY <3>3, <4>1, <4>2 DEF noReconnect
    <3>4. QED
      BY <2>4, <3>1, <3>2, <3>3 DEF SendPoll
  <2>5. QED
    BY <1>6, <2>1, <2>2, <2>3, <2>4 DEF SendStep
<1>7. CASE ReceiveStep(g)
  <2>1. CASE GiveUpReceive(g) \/ ReceiveFails(g) \/ ReceiveBlocked(g)
    BY <2>1 DEF GiveUpReceive, ReceiveFails, ReceiveBlocked, Receiving
  <2>2. CASE ReceiveBytes(g)
    <3>1. UNCHANGED <<cmd, ctxDone, calls, sendRetries, recvRetries>> /\ pc[g] = "receive"
      BY <2>2 DEF ReceiveBytes, Receiving
    <3>2. \/ reconnect(g, "trunc")
          \/ /\ GoTo(g, "decode") \/ UNCHANGED pc
             /\ UNCHANGED <<err, ret, connRetries, connVars>>
      BY <2>2 DEF ReceiveBytes
    <3>3. QED
      BY <3>1, <3>2, ReconnectLocals
  <2>3. CASE ReceiveClosed(g)
    BY <2>3, ReconnectLocals DEF ReceiveClosed
  <2>4. CASE ReceiveNotConnected(g)
    BY <2>4, OptsAssumption DEF ReceiveNotConnected, callConnect
  <2>5. CASE ReceivePoll(g)
    <3>1. /\ UNCHANGED <<cmd, ctxDone, calls, sendRetries, connRetries, ret, processing>>
          /\ pc[g] = "recvPoll"
      BY <2>5 DEF ReceivePoll
    <3>2. recvRetries' = recvRetries \/ recvRetries' = [recvRetries EXCEPT ![g] = decrement(@)]
      BY <2>5 DEF ReceivePoll
    <3>3. recvRetries' \in [G -> 0..RetryAmount]
      BY <3>1, <3>2, CountDown
    <3>4. CASE GoTo(g, "receive") /\ UNCHANGED err
      BY <3>1, <3>2, <3>3, <3>4
    <3>5. CASE \E e \in Error : Fail(g, e)
      BY <3>1, <3>2, <3>3, <3>5
    <3>6. QED
      BY <2>5, <3>4, <3>5 DEF ReceivePoll
  <2>6. QED
    BY <1>7, <2>1, <2>2, <2>3, <2>4, <2>5 DEF ReceiveStep, ReceiveWaits
<1>8. CASE Connect(g)
  <2>1. UNCHANGED <<cmd, ctxDone, calls, recvRetries, connRetries, ret, processing>>
    BY <1>8 DEF Connect
  <2>2. \/ connected(g)
        \/ /\ \/ GoTo(g, "connPoll") /\ ~exhausted(connRetries[g]) /\ UNCHANGED err
              \/ \E e \in Error : Fail(g, e)
           /\ UNCHANGED sendRetries
    BY <1>8 DEF Connect, notConnected
  <2>3. QED
    BY <2>1, <2>2, ConnectedLocals
<1>9. CASE ConnectPoll(g)
  <2>1. /\ UNCHANGED <<cmd, ctxDone, calls, recvRetries, ret, processing>>
        /\ pc[g] = "connPoll"
    BY <1>9 DEF ConnectPoll
  <2>2. \/ connected(g) /\ UNCHANGED connRetries
        \/ /\ GoTo(g, "connect") /\ UNCHANGED <<err, sendRetries>>
           /\ connRetries' = [connRetries EXCEPT ![g] = decrement(@)]
        \/ (\E e \in Error : Fail(g, e)) /\ UNCHANGED <<connRetries, sendRetries>>
    BY <1>9 DEF ConnectPoll, notConnected
  <2>3. CASE connected(g) /\ UNCHANGED connRetries
    BY <2>1, <2>3, ConnectedLocals
  <2>4. CASE /\ GoTo(g, "connect") /\ UNCHANGED <<err, sendRetries>>
             /\ connRetries' = [connRetries EXCEPT ![g] = decrement(@)]
    <3>1. connRetries' \in [G -> 0..RetryAmount]
      BY <2>1, <2>4, CountDown
    <3>2. QED
      BY <2>1, <2>4, <3>1
  <2>5. CASE (\E e \in Error : Fail(g, e)) /\ UNCHANGED <<connRetries, sendRetries>>
    BY <2>1, <2>5
  <2>6. QED
    BY <2>2, <2>3, <2>4, <2>5
<1>10. CASE DecodeReply(g)
  BY <1>10 DEF DecodeReply
<1>11. QED
  BY <1>1, <1>2, <1>3, <1>4, <1>5, <1>6, <1>7, <1>8, <1>9, <1>10 DEF Step

-----------------------------------------------------------------------------
(***************************************************************************)
(* The buffers.                                                            *)
(***************************************************************************)
LimitsInv == BufferType /\ BuffersBounded /\ DecodeHasData

\* Only a goroutine inside Process is moved to decode, or finds another there.
LEMMA OneDecodes ==
    ASSUME Shape, MutualExclusion, NEW g \in G, Inside(g), NEW label,
           pc' = [pc EXCEPT ![g] = label],
           label = "decode" => recvBuf'.data # <<>>
    PROVE  DecodeHasData'
BY DEF Shape, MutualExclusion, Inside, WorkLabels, DecodeHasData

\* A step that leaves the buffers alone and brings nobody to decode.
LEMMA SameBuffers ==
    ASSUME LimitsInv, UNCHANGED bufVars,
           \A h \in G : pc'[h] = "decode" => pc[h] = "decode"
    PROVE  LimitsInv'
BY DEF LimitsInv, BufferType, BuffersBounded, DecodeHasData, bufVars

\* EncodeCmd writes the command where it fits, or grows the buffer.
LEMMA EncodeBuffers ==
    ASSUME LimitsInv, LocalType, NEW g \in G, EncodeCmd(g)
    PROVE  BufferType' /\ BuffersBounded'
<1> USE DEF LimitsInv, BufferType, BuffersBounded
<1>1. recvBuf' = recvBuf
  BY DEF EncodeCmd
<1>2. CASE sendBuf' = sendBuf
  BY <1>1, <1>2
<1>3. CASE /\ Len(sendBuf.data) + cmd[g].len <= sendBuf.len
           /\ sendBuf' = [sendBuf EXCEPT !.data = sendBuf.data \o Request(cmd[g])]
  <2>1. Request(cmd[g]) \in Seq(Unit) /\ Len(Request(cmd[g])) = cmd[g].len
    BY RequestUnits DEF LocalType
  <2>2. cmd[g].len \in Nat
    BY DEF LocalType, Message
  <2> DEFINE data == sendBuf.data \o Request(cmd[g])
  <2>3. data \in Seq(Unit) /\ Len(data) = Len(sendBuf.data) + cmd[g].len
    BY <2>1, ConcatProperties
  <2>4. sendBuf' = [sendBuf EXCEPT !.data = data]
    BY <1>3
  <2> HIDE DEF data
  <2>5. sendBuf'.len = sendBuf.len /\ sendBuf'.data = data /\ sendBuf'.sent = sendBuf.sent
    BY <2>4
  <2>6. Len(sendBuf.data) \in Nat
    BY LenProperties
  <2>7. sendBuf'.sent <= Len(data) /\ Len(data) <= sendBuf'.len
    BY <1>3, <2>2, <2>3, <2>5, <2>6
  <2>8. sendBuf' \in [len : Nat, data : Seq(Unit), sent : Nat]
    BY <2>3, <2>4
  <2>9. QED
    BY <1>1, <2>5, <2>7, <2>8
<1>4. CASE /\ canIncrease(sendBuf.len, SendBufMaxLen)
           /\ sendBuf' = [sendBuf EXCEPT !.len = increasedLen(@, SendBufMaxLen)]
  <2>1. /\ increasedLen(sendBuf.len, SendBufMaxLen) \in Nat
        /\ sendBuf.len <= increasedLen(sendBuf.len, SendBufMaxLen)
        /\ increasedLen(sendBuf.len, SendBufMaxLen) <= SendBufMaxLen
    BY <1>4, OptsAssumption, SMTT(30) DEF canIncrease, availableSpaceLen, increasedLen
  <2>2. Len(sendBuf.data) \in Nat
    BY LenProperties
  <2>3. QED
    BY <1>1, <1>4, <2>1, <2>2, OptsAssumption
<1>5. QED
  BY <1>2, <1>3, <1>4 DEF EncodeCmd

\* SendBytes takes no more than the rest of the command.
LEMMA SendBuffers ==
    ASSUME LimitsInv, NEW g \in G, SendBytes(g)
    PROVE  BufferType' /\ BuffersBounded'
<1> USE DEF LimitsInv, BufferType, BuffersBounded
<1>1. PICK n \in 0..(Len(sendBuf.data) - sendBuf.sent) : sendBuf' = addSentBytes(n)
  BY DEF SendBytes
<1>2. recvBuf' = recvBuf /\ Len(sendBuf.data) \in Nat
  BY LenProperties DEF SendBytes
<1>3. sendBuf.sent + n \in Nat /\ sendBuf.sent + n <= Len(sendBuf.data)
  BY <1>1, <1>2
<1>4. sendBuf' = [sendBuf EXCEPT !.sent = sendBuf.sent + n]
  BY <1>1 DEF addSentBytes
<1>5. QED
  BY <1>2, <1>3, <1>4

\* What recvmsg(2) returns: at least one unit, and no more than fits.
LEMMA ReceivedPiece ==
    ASSUME BufferType, BuffersBounded, StreamType, msgrFd \in Fd,
           queue[msgrFd] # <<>>, freeSpace > 0,
           NEW n, n = IF Len(queue[msgrFd]) < freeSpace THEN Len(queue[msgrFd]) ELSE freeSpace
    PROVE  /\ n \in 1..Len(queue[msgrFd])
           /\ SubSeq(queue[msgrFd], n + 1, Len(queue[msgrFd])) \in Seq(Unit)
           /\ recvBuf.data \o SubSeq(queue[msgrFd], 1, n) \in Seq(Unit)
           /\ Len(recvBuf.data \o SubSeq(queue[msgrFd], 1, n)) \in 1..recvBuf.len
<1> DEFINE here == queue[msgrFd]
<1>1. here \in Seq(Unit) /\ Len(here) \in Nat \ {0}
  BY EmptySeq, LenProperties DEF StreamType
<1>2. recvBuf.data \in Seq(Unit) /\ Len(recvBuf.data) \in Nat /\ recvBuf.len \in Nat
  BY LenProperties DEF BufferType
<1> HIDE DEF here
<1>3. n \in 1..Len(here) /\ n <= freeSpace
  BY <1>1, <1>2 DEF freeSpace, here
<1>4. SubSeq(here, n + 1, Len(here)) \in Seq(Unit)
  BY <1>1, <1>3, PieceOfUnits
<1>5. SubSeq(here, 1, n) \in Seq(Unit) /\ Len(SubSeq(here, 1, n)) = n
  BY <1>1, <1>3, PieceOfUnits
<1>6. /\ recvBuf.data \o SubSeq(here, 1, n) \in Seq(Unit)
      /\ Len(recvBuf.data \o SubSeq(here, 1, n)) = Len(recvBuf.data) + n
  BY <1>2, <1>5, ConcatProperties
<1>7. Len(recvBuf.data) + n \in 1..recvBuf.len
  BY <1>1, <1>2, <1>3 DEF freeSpace
<1>8. QED
  BY <1>3, <1>4, <1>6, <1>7 DEF here

\* ReceiveBytes fills the buffer at most, and moves on with something to decode.
LEMMA ReceiveBuffers ==
    ASSUME LimitsInv, StreamType, Shape, NEW g \in G, ReceiveBytes(g)
    PROVE  /\ BufferType' /\ BuffersBounded'
           /\ recvBuf'.data # <<>>
           /\ queue' \in [Fd -> Seq(Unit)] \/ \E caller : reconnect(g, caller)
<1> DEFINE n == IF Len(queue[msgrFd]) < freeSpace THEN Len(queue[msgrFd]) ELSE freeSpace
           left == SubSeq(queue[msgrFd], n + 1, Len(queue[msgrFd]))
           data == recvBuf.data \o SubSeq(queue[msgrFd], 1, n)
<1>1. /\ left \in Seq(Unit) /\ data \in Seq(Unit)
      /\ Len(data) \in 1..recvBuf.len
  BY ReceivedPiece DEF LimitsInv, Shape, ReceiveBytes
<1>2. data # <<>>
  BY <1>1, EmptySeq
<1>3. sendBuf' = sendBuf
  BY DEF ReceiveBytes
<1>4. \/ /\ recvBuf' = [len |-> recvBuf.len, data |-> data]
         /\ queue' = [queue EXCEPT ![msgrFd] = left]
      \/ /\ canIncrease(recvBuf.len, ReceiveBufMaxLen)
         /\ recvBuf' = [len |-> increasedLen(recvBuf.len, ReceiveBufMaxLen), data |-> data]
         /\ queue' = [queue EXCEPT ![msgrFd] = left]
      \/ /\ recvBuf' = [recvBuf EXCEPT !.data = data]
         /\ reconnect(g, "trunc")
  BY DEF ReceiveBytes
<1>5. /\ canIncrease(recvBuf.len, ReceiveBufMaxLen)
         => /\ increasedLen(recvBuf.len, ReceiveBufMaxLen) \in Nat
            /\ recvBuf.len <= increasedLen(recvBuf.len, ReceiveBufMaxLen)
            /\ increasedLen(recvBuf.len, ReceiveBufMaxLen) <= ReceiveBufMaxLen
  BY OptsAssumption DEF LimitsInv, BufferType, canIncrease, availableSpaceLen, increasedLen
<1> HIDE DEF data, left
<1>6. recvBuf'.data = data
  BY <1>4 DEF LimitsInv, BufferType
<1>7. /\ recvBuf' \in [len : Nat, data : Seq(Unit)]
      /\ Len(recvBuf'.data) <= recvBuf'.len /\ recvBuf'.len <= ReceiveBufMaxLen
  <2>1. recvBuf.len \in Nat /\ Len(data) \in Nat /\ Len(data) <= recvBuf.len
    BY <1>1 DEF LimitsInv, BufferType
  <2>2. /\ recvBuf'.len \in Nat /\ recvBuf.len <= recvBuf'.len
        /\ recvBuf'.len <= ReceiveBufMaxLen
    BY <1>4, <1>5, OptsAssumption DEF LimitsInv, BufferType, BuffersBounded
  <2>3. recvBuf' = [len |-> recvBuf'.len, data |-> data]
    BY <1>4 DEF LimitsInv, BufferType
  <2>4. QED
    BY <1>1, <1>6, <2>1, <2>2, <2>3, OptsAssumption
<1>8. queue' \in [Fd -> Seq(Unit)] \/ \E caller : reconnect(g, caller)
  BY <1>1, <1>4 DEF StreamType
<1>9. QED
  BY <1>2, <1>3, <1>6, <1>7, <1>8 DEF LimitsInv, BufferType, BuffersBounded

\* A connect() that succeeds rewinds the command at most.
LEMMA ConnectedBuffers ==
    ASSUME LimitsInv, NEW g \in G, connected(g), recvBuf' = recvBuf
    PROVE  BufferType' /\ BuffersBounded'
<1>1. sendBuf' = sendBuf \/ sendBuf' = rewind
  BY DEF connected
<1>2. Len(sendBuf.data) \in Nat
  BY LenProperties DEF LimitsInv, BufferType
<1>3. QED
  BY <1>1, <1>2 DEF rewind, LimitsInv, BufferType, BuffersBounded

\* Where reconnect() and connect() lead, it is not to decode.
LEMMA NoDecodeYet ==
    ASSUME Shape, NEW g \in G,
           (\E caller : reconnect(g, caller)) \/ connected(g)
    PROVE  pc'[g] # "decode"
BY DEF Shape, reconnect, connected, callConnect, Fail, GoTo

LEMMA InnerBuffers ==
    ASSUME IInv, LimitsInv, LocalType, StreamType, NEW g \in G, Inner(g)
    PROVE  LimitsInv'
<1> USE DEF IInv
<1>1. PICK label \in WorkLabels : pc' = [pc EXCEPT ![g] = label]
  BY InnerMoves
<1>2. Inside(g)
  BY InnerMoves
<1>3. pc'[g] = label
  BY <1>1 DEF Shape
<1>4. ASSUME UNCHANGED bufVars, pc'[g] # "decode"
      PROVE  LimitsInv'
  BY <1>1, <1>3, <1>4, SameBuffers DEF Shape
<1>5. ASSUME BufferType', BuffersBounded', pc'[g] = "decode" => recvBuf'.data # <<>>
      PROVE  LimitsInv'
  BY <1>1, <1>2, <1>3, <1>5, OneDecodes DEF LimitsInv
<1>6. CASE Begin(g)
  BY <1>6, <1>4 DEF Begin, GoTo, Shape
<1>7. CASE EncodeCmd(g)
  <2>1. pc'[g] # "decode"
    BY <1>7 DEF EncodeCmd, Fail, GoTo, Shape
  <2>2. QED
    BY <1>7, <2>1, <1>5, EncodeBuffers
<1>8. CASE SendStep(g)
  <2>1. CASE GiveUpSend(g) \/ SendFails(g)
    BY <2>1, <1>4 DEF GiveUpSend, SendFails, Fail, GoTo, Shape
  <2>2. CASE SendBytes(g)
    <3>1. pc'[g] # "decode"
      BY <2>2 DEF SendBytes, GoTo, Shape
    <3>2. QED
      BY <2>2, <3>1, <1>5, SendBuffers
  <2>3. CASE SendBlocked(g) \/ SendNotConnected(g)
    BY <2>3, <1>4 DEF SendBlocked, SendNotConnected, callConnect, GoTo, Shape
  <2>4. CASE SendBroken(g)
    BY <2>4, <1>4, NoDecodeYet DEF SendBroken
  <2>5. CASE SendPoll(g)
    <3>1. reconnect(g, "send") \/ GoTo(g, "send") \/ Fail(g, "other")
      BY <2>5 DEF SendPoll
    <3>2. pc'[g] # "decode"
      BY <3>1, NoDecodeYet DEF GoTo, Fail, Shape
    <3>3. QED
      BY <2>5, <3>2, <1>4 DEF SendPoll
  <2>6. QED
    BY <1>8, <2>1, <2>2, <2>3, <2>4, <2>5 DEF SendStep
<1>9. CASE ReceiveStep(g)
  <2>1. CASE GiveUpReceive(g) \/ ReceiveFails(g)
    BY <2>1, <1>4 DEF GiveUpReceive, ReceiveFails, Fail, GoTo, Shape
  <2>2. CASE ReceiveBytes(g)
    BY <2>2, <1>5, ReceiveBuffers
  <2>3. CASE ReceiveBlocked(g) \/ ReceiveNotConnected(g)
    BY <2>3, <1>4 DEF ReceiveBlocked, ReceiveNotConnected, callConnect, GoTo, Shape
  <2>4. CASE ReceiveClosed(g)
    BY <2>4, <1>4, NoDecodeYet DEF ReceiveClosed
  <2>5. CASE ReceivePoll(g)
    BY <2>5, <1>4 DEF ReceivePoll, Fail, GoTo, Shape
  <2>6. QED
    BY <1>9, <2>1, <2>2, <2>3, <2>4, <2>5 DEF ReceiveStep, ReceiveWaits
<1>10. CASE Connect(g) \/ ConnectPoll(g)
  <2>1. recvBuf' = recvBuf
    BY <1>10 DEF Connect, ConnectPoll
  <2>2. \/ connected(g)
        \/ sendBuf' = sendBuf /\ (GoTo(g, "connect") \/ GoTo(g, "connPoll") \/ \E e : Fail(g, e))
    BY <1>10 DEF Connect, ConnectPoll, notConnected
  <2>3. CASE connected(g)
    BY <2>1, <2>3, <1>5, NoDecodeYet, ConnectedBuffers
  <2>4. QED
    BY <2>1, <2>2, <2>3, <1>4 DEF GoTo, Fail, Shape, bufVars
<1>11. CASE DecodeReply(g)
  BY <1>11, <1>4 DEF DecodeReply, Fail, GoTo, Shape
<1>12. CASE ClearBufs(g)
  <2>1. BufferType' /\ BuffersBounded'
    <3>1. <<>> \in Seq(Unit) /\ Len(<<>>) = 0
      BY EmptySeq
    <3>2. sendBuf' = clearedSendBuf /\ recvBuf' = clearedRecvBuf
      BY <1>12 DEF ClearBufs
    <3>3. BufferType'
      BY <3>1, <3>2 DEF clearedSendBuf, clearedRecvBuf, LimitsInv, BufferType
    <3>4. /\ sendBuf'.len = sendBuf.len /\ sendBuf'.data = <<>> /\ sendBuf'.sent = 0
          /\ recvBuf'.len = recvBuf.len /\ recvBuf'.data = <<>>
      BY <3>2 DEF clearedSendBuf, clearedRecvBuf, LimitsInv, BufferType
    <3>5. QED
      BY <3>1, <3>3, <3>4 DEF LimitsInv, BufferType, BuffersBounded
  <2>2. pc'[g] # "decode"
    BY <1>12 DEF ClearBufs, GoTo, Shape
  <2>3. QED
    BY <2>1, <2>2, <1>5
<1>13. QED
  BY <1>6, <1>7, <1>8, <1>9, <1>10, <1>11, <1>12 DEF Inner

-----------------------------------------------------------------------------
(***************************************************************************)
(* The bytes on their way, and the replies.                                *)
(***************************************************************************)
LEMMA DroppedStreams ==
    ASSUME StreamType, NEW fd, dropStreams(fd)
    PROVE  StreamType'
<1>1. <<>> \in Seq(Unit)
  BY EmptySeq
<1>2. QED
  BY <1>1 DEF StreamType, dropStreams

LEMMA InnerStreams ==
    ASSUME IInv, LimitsInv, StreamType, NEW g \in G, Inner(g)
    PROVE  StreamType'
<1>1. CASE SendBytes(g)
  <2>1. PICK n \in 0..(Len(sendBuf.data) - sendBuf.sent) :
          inbox' = IF kernel[msgrFd] = "up"
                   THEN [inbox EXCEPT ![msgrFd] =
                           @ \o SubSeq(sendBuf.data, sendBuf.sent + 1, sendBuf.sent + n)]
                   ELSE inbox
    BY <1>1 DEF SendBytes
  <2> DEFINE piece == SubSeq(sendBuf.data, sendBuf.sent + 1, sendBuf.sent + n)
  <2>2. sendBuf.data \in Seq(Unit) /\ sendBuf.sent \in Nat /\ Len(sendBuf.data) \in Nat
    BY LenProperties DEF LimitsInv, BufferType
  <2>3. sendBuf.sent + 1 \in Nat \ {0} /\ sendBuf.sent + n \in 0..Len(sendBuf.data)
    BY <2>1, <2>2, SMTT(30)
  <2>4. piece \in Seq(Unit)
    BY <2>2, <2>3, PieceOfUnits
  <2> HIDE DEF piece
  <2>5. inbox[msgrFd] \o piece \in Seq(Unit)
    BY <2>4, ConcatProperties DEF StreamType, IInv, Shape
  <2>6. inbox' \in [Fd -> Seq(Unit)]
    BY <2>1, <2>5 DEF StreamType, piece
  <2>7. QED
    BY <1>1, <2>6 DEF SendBytes, StreamType
<1>2. CASE ReceiveBytes(g)
  <2>1. queue' \in [Fd -> Seq(Unit)] \/ \E caller : reconnect(g, caller)
    BY <1>2, ReceiveBuffers DEF IInv
  <2>2. UNCHANGED <<inbox, wire>> \/ \E caller : reconnect(g, caller)
    BY <1>2 DEF ReceiveBytes
  <2>3. QED
    BY <2>1, <2>2, DroppedStreams DEF reconnect, StreamType
<1>3. ASSUME (\E caller : reconnect(g, caller)) \/ UNCHANGED streamVars
      PROVE  StreamType'
  BY <1>3, DroppedStreams DEF reconnect, streamVars, StreamType
<1>4. CASE SendStep(g) /\ ~SendBytes(g)
  BY <1>3, <1>4 DEF SendStep, GiveUpSend, SendBlocked, SendBroken, SendNotConnected, SendFails,
     SendPoll, noReconnect
<1>5. CASE ReceiveStep(g) /\ ~ReceiveBytes(g)
  BY <1>3, <1>5 DEF ReceiveStep, ReceiveWaits, GiveUpReceive, ReceiveBlocked,
     ReceiveNotConnected, ReceiveClosed, ReceiveFails, ReceivePoll
<1>6. CASE Begin(g) \/ EncodeCmd(g) \/ Connect(g) \/ ConnectPoll(g)
           \/ DecodeReply(g) \/ ClearBufs(g)
  BY <1>3, <1>6 DEF Begin, EncodeCmd, Connect, ConnectPoll, DecodeReply, ClearBufs
<1>7. QED
  BY <1>1, <1>2, <1>4, <1>5, <1>6 DEF Inner

\* Of all steps inside Process only DecodeReply sets a reply.
LEMMA OtherReplies ==
    ASSUME NEW g \in G, Inner(g), ~DecodeReply(g)
    PROVE  reply' = reply
<1>1. CASE SendStep(g)
  BY <1>1 DEF SendStep, GiveUpSend, SendBytes, SendBlocked, SendBroken, SendNotConnected,
     SendFails, SendPoll, outVars
<1>2. CASE ReceiveStep(g)
  BY <1>2 DEF ReceiveStep, ReceiveWaits, GiveUpReceive, ReceiveBytes, ReceiveBlocked,
     ReceiveNotConnected, ReceiveClosed, ReceiveFails, ReceivePoll, outVars
<1>3. CASE Begin(g) \/ EncodeCmd(g) \/ Connect(g) \/ ConnectPoll(g) \/ ClearBufs(g)
  BY <1>3 DEF Begin, EncodeCmd, Connect, ConnectPoll, ClearBufs, outVars
<1>4. QED
  BY <1>1, <1>2, <1>3 DEF Inner

LEMMA InnerReplies ==
    ASSUME TInv, NEW g \in G, Inner(g)
    PROVE  ReplyType'
<1>1. CASE DecodeReply(g)
  <2>1. DecodedReply(recvBuf.data) \in [id : Nat, got : Nat, of : Nat]
    BY <1>1, DecodedType DEF DecodeReply, TInv, DecodeHasData, BufferType
  <2>2. reply' = reply \/ reply' = [reply EXCEPT ![g] = DecodedReply(recvBuf.data)]
    BY <1>1 DEF DecodeReply
  <2>3. QED
    BY <2>1, <2>2 DEF TInv, ReplyType
<1>2. CASE ~DecodeReply(g)
  BY <1>2, OtherReplies DEF TInv, ReplyType
<1>3. QED
  BY <1>1, <1>2

\* The kernel and the server: what is in the streams stays units.
LEMMA PeerStreams ==
    ASSUME StreamType, NEW fd \in Fd, Peer(fd)
    PROVE  StreamType'
<1> USE DEF StreamType
<1> <<>> \in Seq(Unit)
  BY EmptySeq
<1>1. CASE Establish(fd) \/ Refuse(fd) \/ PeerClose(fd)
  BY <1>1 DEF Establish, Refuse, PeerClose, streamVars
<1>2. CASE PeerReset(fd)
  BY <1>2, DroppedStreams DEF PeerReset
<1>3. CASE Serve(fd)
  <2> DEFINE first == Head(inbox[fd])
  <2>1. inbox[fd] \in Seq(Unit) /\ inbox[fd] # <<>> /\ Len(inbox[fd]) \in Nat
    BY <1>3, LenProperties DEF Serve
  <2>2. first \in Unit
    BY <2>1, HeadTailProperties
  <2>3. first.of \in Nat \ {0} /\ first.id \in Nat
    BY <2>2 DEF Unit
  <2>4. first.of <= Len(inbox[fd])
    BY <1>3, <2>1, <2>3 DEF Serve
  <2>5. CASE /\ inbox' = [inbox EXCEPT ![fd] = SubSeq(@, first.of + 1, Len(@))]
             /\ \E len \in ReplyLens : \E n \in 1..len :
                  LET replied == Request([id |-> first.id, len |-> len])
                  IN  /\ queue' = [queue EXCEPT ![fd] = @ \o SubSeq(replied, 1, n)]
                      /\ wire' = [wire EXCEPT ![fd] = SubSeq(replied, n + 1, len)]
    <3>1. PICK len \in ReplyLens : \E n \in 1..len :
             LET replied == Request([id |-> first.id, len |-> len])
             IN  /\ queue' = [queue EXCEPT ![fd] = @ \o SubSeq(replied, 1, n)]
                 /\ wire' = [wire EXCEPT ![fd] = SubSeq(replied, n + 1, len)]
      BY <2>5
    <3>2. PICK n \in 1..len :
             LET replied == Request([id |-> first.id, len |-> len])
             IN  /\ queue' = [queue EXCEPT ![fd] = @ \o SubSeq(replied, 1, n)]
                 /\ wire' = [wire EXCEPT ![fd] = SubSeq(replied, n + 1, len)]
      BY <3>1
    <3> DEFINE replied == Request([id |-> first.id, len |-> len])
    <3>3. len \in Nat \ {0}
      BY BoundsAssumption
    <3>4. [id |-> first.id, len |-> len] \in Message
      BY <2>3, <3>3 DEF Message
    <3>5. replied \in Seq(Unit) /\ Len(replied) = len
      BY <3>4, RequestUnits
    <3> HIDE DEF replied
    <3>6. SubSeq(replied, 1, n) \in Seq(Unit) /\ SubSeq(replied, n + 1, len) \in Seq(Unit)
      BY <3>3, <3>5, PieceOfUnits
    <3>7. queue[fd] \o SubSeq(replied, 1, n) \in Seq(Unit)
      BY <3>6, ConcatProperties
    <3>8. SubSeq(inbox[fd], first.of + 1, Len(inbox[fd])) \in Seq(Unit)
      BY <2>1, <2>3, PieceOfUnits
    <3>9. /\ inbox' = [inbox EXCEPT ![fd] = SubSeq(inbox[fd], first.of + 1, Len(inbox[fd]))]
          /\ queue' = [queue EXCEPT ![fd] = queue[fd] \o SubSeq(replied, 1, n)]
          /\ wire' = [wire EXCEPT ![fd] = SubSeq(replied, n + 1, len)]
      BY <2>5, <3>2 DEF replied
    <3> HIDE DEF first
    <3>10. QED
      BY <3>6, <3>7, <3>8, <3>9
  <2>6. CASE /\ inbox' = [inbox EXCEPT ![fd] = <<>>]
             /\ queue' = [queue EXCEPT ![fd] = Append(@, ProtocolError)]
             /\ UNCHANGED wire
    <3>1. ProtocolError \in Unit
      BY DEF ProtocolError, Unit
    <3>2. Append(queue[fd], ProtocolError) \in Seq(Unit)
      BY <3>1, AppendProperties
    <3>3. QED
      BY <2>6, <3>2
  <2>7. QED
    BY <1>3, <2>5, <2>6 DEF Serve
<1>4. CASE Arrive(fd)
  <2>1. queue[fd] \o wire[fd] \in Seq(Unit)
    BY ConcatProperties
  <2>2. QED
    BY <1>4, <2>1 DEF Arrive
<1>5. QED
  BY <1>1, <1>2, <1>3, <1>4 DEF Peer

-----------------------------------------------------------------------------
(***************************************************************************)
(* Every step preserves the types.                                         *)
(***************************************************************************)
LEMMA InnerTypes ==
    ASSUME IInv, TInv, NEW g \in G, Inner(g)
    PROVE  TInv'
<1>1. Start(g) \/ Cancel(g) \/ Step(g)
  BY DEF Inner, Step
<1>2. LocalType' /\ RetriesLeft'
  BY <1>1, LocalStep DEF IInv, TInv
<1>3. LimitsInv
  BY DEF TInv, LimitsInv
<1>4. LimitsInv' /\ StreamType'
  BY <1>3, InnerBuffers, InnerStreams DEF TInv
<1>5. ReplyType'
  BY InnerReplies
<1>6. QED
  BY <1>2, <1>4, <1>5 DEF TInv, LimitsInv

LEMMA OuterTypes ==
    ASSUME IInv, TInv, NEW g \in G,
           \/ Start(g) \/ Cancel(g) \/ LeaveLoop(g)
           \/ EnterProcess(g) \/ StopProcessing(g)
    PROVE  TInv'
<1>1. LocalType' /\ RetriesLeft'
  BY LocalStep DEF Step, IInv, TInv
<1>2. UNCHANGED <<bufVars, streamVars>>
  BY DEF Start, Cancel, LeaveLoop, EnterProcess, StopProcessing
<1>3. \A h \in G : pc'[h] = "decode" => pc[h] = "decode"
  BY DEF Start, Cancel, LeaveLoop, EnterProcess, StopProcessing, Return, GoTo, IInv, Shape
<1>4. LimitsInv'
  BY <1>2, <1>3, SameBuffers DEF TInv, LimitsInv
<1>5. StreamType'
  BY <1>2 DEF TInv, StreamType, streamVars
<1>6. ReplyType'
  BY DEF Start, Cancel, LeaveLoop, EnterProcess, StopProcessing, Return, NoReply, outVars,
     TInv, ReplyType
<1>7. QED
  BY <1>1, <1>4, <1>5, <1>6 DEF TInv, LimitsInv

\* Client.Close, the kernel and the server: they touch no local variable, and
\* no goroutine goes anywhere but to its end.
LEMMA OtherTypes ==
    ASSUME IInv, TInv, CloseClient \/ \E fd \in Fd : Peer(fd)
    PROVE  TInv'
<1>1. UNCHANGED <<localVars, retryVars, outVars, connVars, bufVars>>
  BY DEF CloseClient, Peer, Establish, Refuse, PeerClose, PeerReset, Serve, Arrive, kernelOnly
<1>2. pc' = pc \/ pc' = [g \in G |-> "dead"]
  BY DEF CloseClient, Peer, Establish, Refuse, PeerClose, PeerReset, Serve, Arrive, kernelOnly
<1>3. LocalType'
  BY <1>1 DEF TInv, LocalType, localVars, retryVars, outVars, connVars
<1>4. RetriesLeft'
  BY <1>1, <1>2 DEF TInv, RetriesLeft, retryVars
<1>5. LimitsInv'
  BY <1>1, <1>2, SameBuffers DEF TInv, LimitsInv
<1>6. StreamType'
  BY PeerStreams, DroppedStreams DEF TInv, CloseClient, StreamType, streamVars
<1>7. ReplyType'
  BY <1>1 DEF TInv, ReplyType, outVars
<1>8. QED
  BY <1>3, <1>4, <1>5, <1>6, <1>7 DEF TInv, LimitsInv

LEMMA NextTInv == IInv /\ TInv /\ [Next]_vars => TInv'
<1> SUFFICES ASSUME IInv, TInv, [Next]_vars PROVE TInv'
  OBVIOUS
<1>1. CASE UNCHANGED vars
  BY <1>1 DEF vars, localVars, retryVars, outVars, connVars, bufVars, streamVars, TInv, LocalType,
     BufferType, StreamType, ReplyType, RetriesLeft, BuffersBounded, DecodeHasData
<1>2. ASSUME NEW g \in G, Start(g) \/ Cancel(g) \/ Step(g) PROVE TInv'
  BY <1>2, InnerTypes, OuterTypes DEF Step, Inner
<1>3. QED
  BY <1>1, <1>2, OtherTypes DEF Next

\* The types hold of every reachable state, with what ConnectionProofs says of it
\* (all of Process, the kernel and the server).
THEOREM TypeInvariance == Spec => [](IInv /\ TInv)
<1>1. Init => TInv
  BY InitTInv
<1>2. IInv /\ TInv /\ [Next]_vars => TInv'
  BY NextTInv
<1>3. QED
  BY <1>1, <1>2, Invariance, PTL DEF Spec

\* Every variable keeps its type; in particular no counter of retries goes below
\* zero, whatever the loops of send(), receive() and connect() do.
THEOREM TypeCorrect == Spec => []TypeOK
<1>1. IInv /\ TInv => TypeOK
  BY TypesAreTyped
<1>2. QED
  BY <1>1, TypeInvariance, PTL

\* SentBytes and WritePos never run past their limits, and no buffer grows past
\* the maximum of the options (EncodeCmd, addSentBytes, ReceiveBytes, growth).
THEOREM BuffersStayBounded == Spec => []BuffersBounded
<1>1. TInv => BuffersBounded
  BY DEF TInv
<1>2. QED
  BY <1>1, TypeInvariance, PTL

=============================================================================

-------------------------- MODULE ConnectionFaithful --------------------------
(***************************************************************************)
(* A connection gives every command its own reply, entire, or an error,    *)
(* as long as nothing makes Process return while a reply is on its way and *)
(* no reply comes, or is taken, in pieces (FaithfulSetting).  Connections  *)
(* may break, refuse, take requests piece by piece, run out of descriptors *)
(* and be closed by the user at any time.                                  *)
(***************************************************************************)
EXTENDS ConnectionService

\* What the theorems of this module assume of the environment and the options.
\* Each part is needed: the runs ConnCancelReply and ConnTruncated show what
\* happens without the first and without the last.
FaithfulSetting ==
    /\ Faults \cap {"cancel", "timeout", "poller", "fragment"} = {}
    /\ ReceiveBufMinLen = ReceiveBufMaxLen

-----------------------------------------------------------------------------
(***************************************************************************)
(* The inductive invariant.  Bytes are on their way only between the first *)
(* send(2) of a command and the last recv(2) of its reply: there is one    *)
(* stream, that of the messenger's descriptor, and what is in it is the    *)
(* request, in front of the server, or its reply, behind it.               *)
(***************************************************************************)
StreamLabels == SendLabels \cup RecvLabels

IsReplyTo(c, s) == \E len \in ReplyLens : s = Request([id |-> c.id, len |-> len])

NoBytesOn(fd) == inbox[fd] = <<>> /\ queue[fd] = <<>>

Quiet == \A fd \in Fd : NoBytesOn(fd)

\* No context ends, and no retry is used up.
Undisturbed ==
    \A g \in G : ~ctxDone[g] /\ sendRetries[g] # 0 /\ recvRetries[g] # 0

SingleStream ==
    /\ recvBuf.len = ReceiveBufMinLen
    /\ \A fd \in Fd : /\ wire[fd] = <<>>
                      /\ fd # msgrFd \/ kernel[fd] \notin {"up", "eof"} => NoBytesOn(fd)
    /\ (\A g \in G : pc[g] \notin StreamLabels) => Quiet

NotYetUp == {"fresh", "connecting", "failed"}

\* A part of the request is sent.  The server answers to none of it yet.
SendState(g) ==
    /\ sendBuf.data = Request(cmd[g]) /\ sendBuf.sent < cmd[g].len /\ recvBuf.data = <<>>
    /\ queue[msgrFd] = <<>>
    /\ kernel[msgrFd] = "up" => inbox[msgrFd] = SubSeq(Request(cmd[g]), 1, sendBuf.sent)
    /\ kernel[msgrFd] # "up" => inbox[msgrFd] = <<>>
    /\ kernel[msgrFd] \in NotYetUp => sendBuf.sent = 0

\* All of it is sent: the request, or the reply, is there, or both are lost.
ReceiveState(g) ==
    /\ sendBuf.data = Request(cmd[g]) /\ sendBuf.sent = cmd[g].len /\ recvBuf.data = <<>>
    /\ kernel[msgrFd] \notin NotYetUp
    /\ \/ kernel[msgrFd] = "up" /\ inbox[msgrFd] = Request(cmd[g]) /\ queue[msgrFd] = <<>>
       \/ kernel[msgrFd] # "up" /\ NoBytesOn(msgrFd)
       \/ inbox[msgrFd] = <<>> /\ IsReplyTo(cmd[g], queue[msgrFd])

\* Nothing is on its way.  What was sent of the request will be sent again.
ConnectState(g) ==
    /\ sendBuf.data = Request(cmd[g])
    /\ ret[g] # "trunc" => recvBuf.data = <<>>
    /\ ret[g] = "sendConn" => sendBuf.sent = 0
    /\ ret[g] # "recvConn"

StateOf(g) ==
    /\ Inside(g) => cmd[g].len > 0
    /\ pc[g] = "encode" => Empty
    /\ pc[g] \in SendLabels => SendState(g)
    /\ pc[g] \in RecvLabels => ReceiveState(g)
    /\ pc[g] \in ConnLabels => ConnectState(g)
    /\ pc[g] = "decode" => IsReplyTo(cmd[g], recvBuf.data)

CommandState == \A g \in G : StateOf(g) /\ (pc[g] = "client" => cmd[g].len > 0)

OwnReplies ==
    \A g \in G : reply[g] # NoReply => reply[g].id = cmd[g].id /\ reply[g].got = reply[g].of

FInv == Undisturbed /\ SingleStream /\ CommandState /\ OwnReplies

\* What holds anyway.
Base == SInv /\ PolledIsUsed

LEMMA InitFInv == Init => FInv
<1> SUFFICES ASSUME Init PROVE FInv
  OBVIOUS
<1> USE DEF Init, NewConnector
<1>1. Undisturbed
  BY OptsAssumption DEF Undisturbed
<1>2. SingleStream
  BY DEF SingleStream, Quiet, NoBytesOn, noBytes
<1>3. CommandState
  BY DEF CommandState, StateOf, Inside, WorkLabels, SendLabels, RecvLabels, ConnLabels
<1>4. OwnReplies
  BY DEF OwnReplies
<1>5. QED
  BY <1>1, <1>2, <1>3, <1>4 DEF FInv

-----------------------------------------------------------------------------
(***************************************************************************)
(* Messages.                                                               *)
(***************************************************************************)

\* Nothing was sent, or all of it.
LEMMA RequestPieces ==
    ASSUME NEW c \in Message
    PROVE  /\ SubSeq(Request(c), 1, 0) = <<>>
           /\ SubSeq(Request(c), 1, c.len) = Request(c)
           /\ c.len > 0 => Request(c) # <<>> /\ Head(Request(c)) = [id |-> c.id, part |-> 1, of |-> c.len]
<1>1. Request(c) \in Seq(Unit) /\ Len(Request(c)) = c.len
  BY RequestUnits
<1>2. SubSeq(Request(c), 1, 0) = <<>>
  BY SubSeqEmpty
<1>3. SubSeq(Request(c), 1, c.len) = Request(c)
  BY <1>1, SubSeqFull
<1>4. ASSUME c.len > 0
      PROVE  Request(c) # <<>> /\ Head(Request(c)) = [id |-> c.id, part |-> 1, of |-> c.len]
  <2>1. Request(c) # <<>>
    BY <1>1, <1>4, EmptySeq
  <2>2. Head(Request(c)) = Request(c)[1]
    BY <1>1, <2>1
  <2>3. 1 \in 1..c.len
    BY <1>4 DEF Message
  <2>4. QED
    BY <2>1, <2>2, <2>3, RequestUnits
<1>5. QED
  BY <1>2, <1>3, <1>4

\* A request is sent on where it was left.
LEMMA RequestContinued ==
    ASSUME NEW c \in Message, NEW sent \in 0..c.len, NEW n \in 0..(c.len - sent)
    PROVE  SubSeq(Request(c), 1, sent) \o SubSeq(Request(c), sent + 1, sent + n)
             = SubSeq(Request(c), 1, sent + n)
<1>1. Request(c) \in Seq(Unit) /\ Len(Request(c)) = c.len /\ c.len \in Nat
  BY RequestUnits DEF Message
<1>2. 1 \in 1..(Len(Request(c)) + 1) /\ sent \in 1-1..Len(Request(c)) /\ sent + n \in sent..Len(Request(c))
  BY <1>1
<1>3. QED
  BY <1>1, <1>2, ConcatAdjacentSubSeq

\* A whole reply is decoded as one.
LEMMA WholeDecoded ==
    ASSUME NEW c \in Message, c.len > 0
    PROVE  /\ Request(c)[1] = [id |-> c.id, part |-> 1, of |-> c.len]
           /\ DecodedReply(Request(c)) = [id |-> c.id, of |-> c.len, got |-> c.len]
<1> DEFINE data == Request(c)
           there == {i \in 1..Len(data) :
                        i <= data[1].of /\ data[i] = [data[1] EXCEPT !.part = i]}
<1>1. /\ Len(data) = c.len /\ 1 \in 1..c.len /\ c.len \in Nat
      /\ \A i \in 1..c.len : data[i] = [id |-> c.id, part |-> i, of |-> c.len]
  BY RequestUnits DEF Message
<1>2. data[1] = [id |-> c.id, part |-> 1, of |-> c.len]
  BY <1>1
<1> HIDE DEF data
<1>3. there = 1..c.len
  BY <1>1, <1>2
<1>4. Cardinality(1..c.len) = c.len
  BY <1>1, FS_Interval
<1>5. DecodedReply(data) = [id |-> data[1].id, of |-> data[1].of, got |-> Cardinality(there)]
  BY Zenon DEF DecodedReply
<1> HIDE DEF there
<1>6. DecodedReply(data) = [id |-> c.id, of |-> c.len, got |-> c.len]
  BY <1>2, <1>3, <1>4, <1>5
<1>7. QED
  BY <1>2, <1>6 DEF data

\* The reply to a command, as a message.
LEMMA ReplyMessage ==
    ASSUME NEW c \in Message, NEW s, IsReplyTo(c, s)
    PROVE  \E len \in ReplyLens :
              /\ [id |-> c.id, len |-> len] \in Message
              /\ len > 0
              /\ s = Request([id |-> c.id, len |-> len])
<1>1. PICK len \in ReplyLens : s = Request([id |-> c.id, len |-> len])
  BY DEF IsReplyTo
<1>2. len \in Nat \ {0}
  BY BoundsAssumption
<1>3. QED
  BY <1>1, <1>2 DEF Message

-----------------------------------------------------------------------------
(***************************************************************************)
(* What poll() may return in this setting.                                 *)
(***************************************************************************)
LEMMA FaithfulPoll ==
    ASSUME FaithfulSetting, NEW fd, NEW ready, NEW outcome \in PollOutcomes(fd, ready)
    PROVE  \/ outcome = "nil" /\ ready
           \/ outcome = "ErrConnectionClosed" /\ kernel[fd] \in {"failed", "reset"}
           \/ outcome = "other" /\ kernel[fd] \in {"closed", "fresh"}
BY DEF FaithfulSetting, PollOutcomes

-----------------------------------------------------------------------------
(***************************************************************************)
(* The context and the retries.                                            *)
(***************************************************************************)
LEMMA UndisturbedStep ==
    ASSUME FaithfulSetting, Undisturbed, SInv, NEW g \in G,
           Start(g) \/ Cancel(g) \/ Step(g)
    PROVE  Undisturbed'
<1> DEFINE Kept(retries, retries1) ==
              retries1 = retries \/ retries1 = [retries EXCEPT ![g] = RetryAmount]
<1>1. /\ sendRetries \in [G -> 0..RetryAmount] /\ recvRetries \in [G -> 0..RetryAmount]
      /\ ctxDone \in [G -> BOOLEAN]
  BY DEF SInv, TInv, LocalType
<1>2. ASSUME ctxDone' = ctxDone \/ ctxDone' = [ctxDone EXCEPT ![g] = FALSE],
             Kept(sendRetries, sendRetries'), Kept(recvRetries, recvRetries')
      PROVE  Undisturbed'
  BY <1>1, <1>2, OptsAssumption DEF Undisturbed
<1>3. CASE Start(g) \/ LeaveLoop(g) \/ EnterProcess(g) \/ Begin(g) \/ DecodeReply(g)
           \/ ClearBufs(g) \/ StopProcessing(g)
  BY <1>2, <1>3 DEF Start, LeaveLoop, EnterProcess, Begin, DecodeReply, ClearBufs,
     StopProcessing, Return, localVars, retryVars
<1>4. CASE Cancel(g)
  BY <1>4 DEF Cancel, FaithfulSetting
<1>5. CASE EncodeCmd(g)
  BY <1>2, <1>5 DEF EncodeCmd, localVars
<1>6. CASE SendStep(g)
  <2>1. sendRetries' = sendRetries
    <3>1. CASE SendPoll(g)
      <4>1. PICK outcome \in PollOutcomes(socket, Writable(socket)) :
               outcome = "ErrPollTimeout" \/ sendRetries' = sendRetries
        BY <3>1, <1>1 DEF SendPoll
      <4>2. PollOutcomes(socket, Writable(socket)) \cap {"ErrPollTimeout"} = {}
        BY DEF FaithfulSetting, PollOutcomes
      <4>3. QED
        BY <4>1, <4>2
    <3>2. QED
      BY <1>6, <3>1 DEF SendStep, GiveUpSend, SendBytes, SendBlocked, SendBroken,
         SendNotConnected, SendFails, retryVars
  <2>2. UNCHANGED <<ctxDone, recvRetries>>
    BY <1>6 DEF SendStep, GiveUpSend, SendBytes, SendBlocked, SendBroken, SendNotConnected,
       SendFails, SendPoll, localVars, retryVars
  <2>3. QED
    BY <2>1, <2>2, <1>2
<1>7. CASE ReceiveStep(g)
  <2>1. recvRetries' = recvRetries
    <3>1. CASE ReceivePoll(g)
      <4>1. PICK outcome \in PollOutcomes(socket, Readable(socket)) :
               outcome = "ErrPollTimeout" \/ recvRetries' = recvRetries
        BY <3>1, <1>1 DEF ReceivePoll
      <4>2. PollOutcomes(socket, Readable(socket)) \cap {"ErrPollTimeout"} = {}
        BY DEF FaithfulSetting, PollOutcomes
      <4>3. QED
        BY <4>1, <4>2
    <3>2. QED
      BY <1>7, <3>1 DEF ReceiveStep, ReceiveWaits, GiveUpReceive, ReceiveBytes, ReceiveBlocked,
         ReceiveNotConnected, ReceiveClosed, ReceiveFails, retryVars
  <2>2. UNCHANGED <<ctxDone, sendRetries>>
    BY <1>7 DEF ReceiveStep, ReceiveWaits, GiveUpReceive, ReceiveBytes, ReceiveBlocked,
       ReceiveNotConnected, ReceiveClosed, ReceiveFails, ReceivePoll, localVars, retryVars
  <2>3. QED
    BY <2>1, <2>2, <1>2
<1>8. CASE Connect(g) \/ ConnectPoll(g)
  <2>1. UNCHANGED <<ctxDone, recvRetries>>
    BY <1>8 DEF Connect, ConnectPoll, localVars
  <2>2. connected(g) \/ sendRetries' = sendRetries
    BY <1>8 DEF Connect, ConnectPoll, notConnected
  <2>3. Kept(sendRetries, sendRetries')
    BY <2>2 DEF connected
  <2>4. QED
    BY <2>1, <2>3, <1>2
<1>9. QED
  BY <1>3, <1>4, <1>5, <1>6, <1>7, <1>8 DEF Step

-----------------------------------------------------------------------------
(***************************************************************************)
(* The replies.                                                            *)
(***************************************************************************)
LEMMA OwnRepliesStep ==
    ASSUME SInv, CommandState, OwnReplies, NEW g \in G,
           Start(g) \/ Cancel(g) \/ Step(g)
    PROVE  OwnReplies'
<1>1. reply \in [G -> [id : Nat, got : Nat, of : Nat]] /\ cmd \in [G -> Message]
  BY DEF SInv, TInv, ReplyType, LocalType
<1>2. CASE Start(g)
  BY <1>1, <1>2 DEF Start, outVars, SInv, ResultsInv, NoResult, EndLabels, OwnReplies
<1>3. CASE Cancel(g) \/ EnterProcess(g)
  BY <1>3 DEF Cancel, EnterProcess, localVars, outVars, OwnReplies
<1>4. CASE LeaveLoop(g) \/ StopProcessing(g)
  BY <1>1, <1>4 DEF LeaveLoop, StopProcessing, Return, OwnReplies
<1>5. CASE Inner(g) /\ reply' = reply
  BY <1>5, InnerResults DEF SInv, OwnReplies
<1>6. CASE DecodeReply(g) /\ reply' # reply
  <2>1. reply' = [reply EXCEPT ![g] = DecodedReply(recvBuf.data)] /\ cmd' = cmd
    BY <1>6 DEF DecodeReply, localVars
  <2>2. IsReplyTo(cmd[g], recvBuf.data)
    BY <1>6 DEF DecodeReply, CommandState, StateOf
  <2>3. PICK len \in ReplyLens :
           /\ [id |-> cmd[g].id, len |-> len] \in Message
           /\ len > 0
           /\ recvBuf.data = Request([id |-> cmd[g].id, len |-> len])
    BY <1>1, <2>2, ReplyMessage
  <2>4. DecodedReply(recvBuf.data) = [id |-> cmd[g].id, of |-> len, got |-> len]
    BY <2>3, WholeDecoded
  <2>5. reply'[g].id = cmd[g].id /\ reply'[g].got = reply'[g].of
    BY <1>1, <2>1, <2>4
  <2>6. \A h \in G \ {g} : reply'[h] = reply[h]
    BY <1>1, <2>1
  <2>7. QED
    BY <2>1, <2>5, <2>6 DEF OwnReplies
<1>7. CASE Inner(g) /\ ~DecodeReply(g)
  BY <1>5, <1>7, OtherReplies
<1>8. QED
  BY <1>2, <1>3, <1>4, <1>5, <1>6, <1>7 DEF Step, Inner

-----------------------------------------------------------------------------
(***************************************************************************)
(* The stream.                                                             *)
(***************************************************************************)

\* Inside Process the others do not matter.
LEMMA OnlyTheOneInside ==
    ASSUME Base, CommandState, NEW g \in G, Inner(g), StateOf(g)'
    PROVE  CommandState'
<1>1. PICK label \in WorkLabels : pc' = [pc EXCEPT ![g] = label]
  BY InnerMoves DEF Base, SInv, IInv
<1>2. Inside(g) /\ cmd' = cmd
  BY InnerMoves, InnerResults DEF Base, SInv, IInv
<1>3. \A h \in G \ {g} : pc'[h] = pc[h] /\ pc'[h] \notin WorkLabels
  BY <1>1, <1>2 DEF Base, SInv, IInv, Shape, MutualExclusion, Inside
<1>4. \A h \in G \ {g} : StateOf(h)'
  BY <1>3 DEF StateOf, Inside, WorkLabels
<1>5. \A h \in G : pc'[h] = "client" => pc[h] = "client"
  BY <1>1 DEF Base, SInv, IInv, Shape, WorkLabels, SendLabels, RecvLabels, ConnLabels
<1>6. QED
  BY <1>2, <1>4, <1>5 DEF CommandState

\* Where no byte is on its way, no descriptor matters.
LEMMA QuietStream ==
    ASSUME Quiet', recvBuf'.len = ReceiveBufMinLen, \A fd \in Fd : wire'[fd] = <<>>
    PROVE  SingleStream'
BY DEF SingleStream, Quiet

\* The messenger's descriptor is the only one with bytes.
LEMMA QuietIf ==
    ASSUME SingleStream, Shape, NoBytesOn(msgrFd)
    PROVE  Quiet
BY DEF SingleStream, Quiet

\* A command that ends in silence.
LEMMA EndsQuietly ==
    ASSUME Base, FInv, NEW g \in G, Inner(g), Quiet,
           UNCHANGED streamVars, recvBuf'.len = recvBuf.len, \E e : Fail(g, e)
    PROVE  SingleStream' /\ CommandState'
<1>1. pc'[g] = "clear"
  BY DEF Fail, GoTo, Base, SInv, IInv, Shape
<1>2. cmd' = cmd /\ cmd[g].len > 0
  BY InnerMoves, InnerResults DEF Base, SInv, IInv, FInv, CommandState, StateOf
<1>3. StateOf(g)'
  BY <1>1, <1>2 DEF StateOf, SendLabels, RecvLabels, ConnLabels
<1>4. Quiet'
  BY DEF Quiet, NoBytesOn, streamVars
<1>5. QED
  BY <1>3, <1>4, OnlyTheOneInside, QuietStream DEF FInv, SingleStream, streamVars

\* reconnect() drops the bytes of the old socket, the only ones there are.
LEMMA ReconnectCore ==
    ASSUME Base, FInv, NEW g \in G, Inner(g), NEW caller \in {"send", "resend", "trunc"},
           reconnect(g, caller), msgrFd = socket,
           sendBuf' = sendBuf, sendBuf.data = Request(cmd[g]),
           recvBuf'.len = recvBuf.len, caller # "trunc" => recvBuf'.data = <<>>
    PROVE  SingleStream' /\ CommandState'
<1> USE DEF FInv
<1>1. cmd' = cmd /\ cmd[g].len > 0
  BY InnerMoves, InnerResults DEF Base, SInv, IInv, CommandState, StateOf
<1>2. \A fd \in Fd : NoBytesOn(fd)' /\ wire'[fd] = <<>>
  BY DEF reconnect, dropStreams, SingleStream, NoBytesOn, Base, SInv, TInv, StreamType
<1>3. SingleStream'
  BY <1>2, QuietStream DEF Quiet, SingleStream
<1>4. CASE callConnect(g, caller)
  <2>1. pc'[g] = "connect" /\ ret'[g] = caller
    BY <1>4 DEF callConnect, GoTo, Base, SInv, IInv, Shape, TInv, LocalType
  <2>2. StateOf(g)'
    BY <1>1, <2>1 DEF StateOf, SendLabels, RecvLabels, ConnLabels, ConnectState
  <2>3. QED
    BY <1>3, <2>2, OnlyTheOneInside
<1>5. CASE Fail(g, "other")
  <2>1. pc'[g] = "clear"
    BY <1>5 DEF Fail, GoTo, Base, SInv, IInv, Shape
  <2>2. StateOf(g)'
    BY <1>1, <2>1 DEF StateOf, SendLabels, RecvLabels, ConnLabels
  <2>3. QED
    BY <1>3, <2>2, OnlyTheOneInside
<1>6. QED
  BY <1>4, <1>5 DEF reconnect

\* Nothing is on its way before send() and after receive().
LEMMA QuietInside ==
    ASSUME Base, SingleStream, NEW g \in G, Inside(g), pc[g] \notin StreamLabels
    PROVE  Quiet
<1>1. \A h \in G \ {g} : ~Inside(h)
  BY DEF Base, SInv, IInv, MutualExclusion
<1>2. \A h \in G : pc[h] \notin StreamLabels
  BY <1>1 DEF Inside, WorkLabels, StreamLabels
<1>3. QED
  BY <1>2 DEF SingleStream

\* encode, decode and the deferred calls.
LEMMA CalmCore ==
    ASSUME Base, FInv, NEW g \in G,
           Begin(g) \/ EncodeCmd(g) \/ DecodeReply(g) \/ ClearBufs(g)
    PROVE  SingleStream' /\ CommandState'
<1> USE DEF FInv
<1>1. Inner(g) /\ Inside(g) /\ pc[g] \notin StreamLabels
  BY InnerMoves DEF Base, SInv, IInv, Inner, Begin, EncodeCmd, DecodeReply, ClearBufs, StreamLabels,
     SendLabels, RecvLabels
<1>2. Quiet /\ UNCHANGED <<kernel, connVars, streamVars>> /\ recvBuf'.len = recvBuf.len
  BY <1>1, QuietInside DEF Begin, EncodeCmd, DecodeReply, ClearBufs, clearedRecvBuf, bufVars,
     Base, SInv, TInv, BufferType
<1>3. SingleStream'
  BY <1>2, QuietStream DEF Quiet, NoBytesOn, streamVars, SingleStream
<1>4. cmd' = cmd /\ cmd[g].len > 0 /\ cmd[g] \in Message /\ pc \in [G -> Labels]
  BY <1>1, InnerResults DEF Base, SInv, IInv, Shape, TInv, LocalType, CommandState, StateOf
<1>5. ASSUME pc'[g] \in {"stop", "clear"}
      PROVE  StateOf(g)'
  BY <1>4, <1>5 DEF StateOf, SendLabels, RecvLabels, ConnLabels
<1>6. CASE Begin(g)
  <2>1. pc'[g] = "stop" \/ (pc'[g] = "encode" /\ UNCHANGED bufVars)
    BY <1>4, <1>6 DEF Begin, GoTo
  <2>2. Empty
    BY <1>6 DEF Begin, Base, SInv, IInv, BufferInv, CleanAtEnds
  <2>3. StateOf(g)'
    BY <1>4, <1>5, <2>1, <2>2 DEF StateOf, Empty, bufVars, SendLabels, RecvLabels, ConnLabels
  <2>4. QED
    BY <1>1, <1>3, <2>3, OnlyTheOneInside
<1>7. CASE EncodeCmd(g)
  <2>1. Empty /\ recvBuf' = recvBuf
    BY <1>7 DEF EncodeCmd, CommandState, StateOf
  <2>2. CASE /\ sendBuf' = [sendBuf EXCEPT !.data = @ \o Request(cmd[g])]
             /\ GoTo(g, "send")
    <3>1. Request(cmd[g]) \in Seq(Unit)
      BY <1>4, RequestUnits
    <3>2. sendBuf.data \o Request(cmd[g]) = Request(cmd[g])
      BY <2>1, <3>1, ConcatEmptySeq DEF Empty
    <3>3. sendBuf'.data = Request(cmd[g]) /\ sendBuf'.sent = 0
      BY <2>1, <2>2, <3>2 DEF Empty, Base, SInv, TInv, BufferType
    <3>4. NoBytesOn(msgrFd)' /\ SubSeq(Request(cmd[g]), 1, 0) = <<>>
      BY <1>2, <1>4, RequestPieces DEF Quiet, NoBytesOn, connVars, streamVars, Base, SInv, IInv, Shape
    <3>5. SendState(g)'
      BY <1>4, <2>1, <3>3, <3>4 DEF SendState, NoBytesOn, Empty
    <3>6. pc'[g] = "send"
      BY <1>4, <2>2 DEF GoTo
    <3>7. StateOf(g)'
      BY <1>4, <3>5, <3>6 DEF StateOf, SendLabels, RecvLabels, ConnLabels
    <3>8. QED
      BY <1>1, <1>3, <3>7, OnlyTheOneInside
  <2>3. CASE /\ sendBuf' = [sendBuf EXCEPT !.len = increasedLen(@, SendBufMaxLen)]
             /\ UNCHANGED pc
    <3>1. Empty'
      BY <2>1, <2>3 DEF Empty, Base, SInv, TInv, BufferType
    <3>2. pc'[g] = "encode"
      BY <1>7, <2>3 DEF EncodeCmd
    <3>3. StateOf(g)'
      BY <1>4, <3>1, <3>2 DEF StateOf, SendLabels, RecvLabels, ConnLabels
    <3>4. QED
      BY <1>1, <1>3, <3>3, OnlyTheOneInside
  <2>4. CASE pc'[g] = "clear"
    BY <1>1, <1>3, <1>5, <2>4, OnlyTheOneInside
  <2>5. QED
    BY <1>4, <1>7, <2>2, <2>3, <2>4 DEF EncodeCmd, Fail, GoTo
<1>8. CASE DecodeReply(g) \/ ClearBufs(g)
  <2>1. pc'[g] \in {"stop", "clear"}
    BY <1>4, <1>8 DEF DecodeReply, ClearBufs, Fail, GoTo
  <2>2. QED
    BY <1>1, <1>3, <1>5, <2>1, OnlyTheOneInside
<1>9. QED
  BY <1>6, <1>7, <1>8

\* connect(): whoever sends next sends from the beginning.
LEMMA ConnectCore ==
    ASSUME Base, FInv, NEW g \in G, Connect(g) \/ ConnectPoll(g)
    PROVE  SingleStream' /\ CommandState'
<1> USE DEF FInv
<1>1. Inner(g) /\ Inside(g) /\ pc[g] \in ConnLabels
  BY InnerMoves DEF Base, SInv, IInv, Inner, Connect, ConnectPoll, ConnLabels
<1>2. Quiet
  BY <1>1, QuietInside DEF StreamLabels, SendLabels, RecvLabels, ConnLabels
<1>3. UNCHANGED <<cmd, ret, socket, recvBuf, streamVars>>
  BY DEF Connect, ConnectPoll, localVars
<1>4. SingleStream'
  BY <1>2, <1>3, QuietStream DEF Quiet, NoBytesOn, streamVars, SingleStream
<1>5. ConnectState(g) /\ cmd[g].len > 0 /\ cmd[g] \in Message /\ pc \in [G -> Labels]
  BY <1>1 DEF CommandState, StateOf, Base, SInv, IInv, Shape, TInv, LocalType
<1>6. CASE connected(g)
  <2>1. socket \in Fd /\ msgrFd \in Fd
    BY <1>1, UserHasSocket DEF Base, SInv, IInv, Shape, UsingLabels
  <2>2. msgrFd' \in Fd
    BY <1>6, <2>1 DEF connected, ChangeSocketFd
  <2>3. NoBytesOn(msgrFd)' /\ SubSeq(Request(cmd[g]), 1, 0) = <<>>
    BY <1>2, <1>3, <1>5, <2>2, RequestPieces DEF Quiet, NoBytesOn, streamVars
  <2>4. CASE ret[g] # "trunc"
    <3>1. sendBuf'.data = Request(cmd[g]) /\ sendBuf'.sent = 0
      BY <1>5, <1>6, <2>4 DEF connected, rewind, ConnectState, Base, SInv, TInv, BufferType
    <3>2. SendState(g)'
      BY <1>3, <1>5, <2>3, <2>4, <3>1 DEF SendState, ConnectState, NoBytesOn
    <3>3. pc'[g] = "send"
      BY <1>5, <1>6, <2>4 DEF connected, ConnectState, GoTo
    <3>4. StateOf(g)'
      BY <1>3, <1>5, <3>2, <3>3 DEF StateOf, SendLabels, RecvLabels, ConnLabels
    <3>5. QED
      BY <1>1, <1>4, <3>4, OnlyTheOneInside
  <2>5. CASE ret[g] = "trunc"
    <3>1. pc'[g] = "clear"
      BY <1>5, <1>6, <2>5 DEF connected, Fail, GoTo
    <3>2. StateOf(g)'
      BY <1>3, <1>5, <3>1 DEF StateOf, SendLabels, RecvLabels, ConnLabels
    <3>3. QED
      BY <1>1, <1>4, <3>2, OnlyTheOneInside
  <2>6. QED
    BY <2>4, <2>5
<1>7. CASE sendBuf' = sendBuf /\ (GoTo(g, "connect") \/ GoTo(g, "connPoll"))
  <2>1. pc'[g] \in ConnLabels
    BY <1>5, <1>7 DEF GoTo, ConnLabels
  <2>2. ConnectState(g)'
    BY <1>3, <1>5, <1>7 DEF ConnectState
  <2>3. StateOf(g)'
    BY <1>3, <1>5, <2>1, <2>2 DEF StateOf, SendLabels, RecvLabels, ConnLabels
  <2>4. QED
    BY <1>1, <1>4, <2>3, OnlyTheOneInside
<1>8. CASE \E e : Fail(g, e)
  BY <1>1, <1>2, <1>3, <1>8, EndsQuietly
<1>9. QED
  BY <1>6, <1>7, <1>8 DEF Connect, ConnectPoll, notConnected

\* A goroutine goes on to send, or to receive, and nothing else happens.
LEMMA GoesOn ==
    ASSUME Base, FInv, NEW g \in G, Inner(g),
           UNCHANGED <<kernel, msgrFd, bufVars, streamVars>>,
           \/ pc[g] \in SendLabels /\ pc'[g] \in SendLabels
           \/ pc[g] \in RecvLabels /\ pc'[g] \in RecvLabels
    PROVE  SingleStream' /\ CommandState'
<1>1. SingleStream'
  BY DEF FInv, SingleStream, NoBytesOn, Quiet, StreamLabels, bufVars, streamVars
<1>2. cmd' = cmd /\ cmd[g].len > 0 /\ StateOf(g)
  BY InnerMoves, InnerResults DEF FInv, Base, SInv, IInv, CommandState, StateOf
<1>3. SendState(g) => SendState(g)'
  BY <1>2 DEF SendState, bufVars, streamVars
<1>4. ReceiveState(g) => ReceiveState(g)'
  BY <1>2 DEF ReceiveState, IsReplyTo, NoBytesOn, bufVars, streamVars
<1>5. StateOf(g)'
  BY <1>2, <1>3, <1>4 DEF StateOf, SendLabels, RecvLabels, ConnLabels
<1>6. QED
  BY <1>1, <1>5, OnlyTheOneInside DEF FInv

LEMMA SendCore ==
    ASSUME FaithfulSetting, Base, FInv, NEW g \in G, SendStep(g)
    PROVE  SingleStream' /\ CommandState'
<1> USE DEF FInv
<1>1. Inner(g) /\ Inside(g)
  BY InnerMoves DEF Base, SInv, IInv, Inner
<1>2. pc[g] \in SendLabels
  BY DEF SendStep, GiveUpSend, SendBytes, SendBlocked, SendBroken, SendNotConnected, SendFails,
     SendPoll, Sending, SendLabels
<1>3. SendState(g) /\ cmd[g].len > 0 /\ cmd[g] \in Message /\ pc \in [G -> Labels]
  BY <1>1, <1>2 DEF CommandState, StateOf, Base, SInv, IInv, Shape, TInv, LocalType
<1>4. kernel[msgrFd] \notin {"up", "eof"} => Quiet
  BY QuietIf DEF Base, SInv, IInv, Shape, SingleStream
<1>5. kernel[msgrFd] # "closed" => msgrFd = socket
  BY DEF Base, SInv, IInv, Shape, SocketInv, NoStraySocket
<1>6. CASE GiveUpSend(g)
  BY <1>6 DEF GiveUpSend, ctxErr, exhausted, Undisturbed
<1>7. CASE SendBytes(g)
  <2>1. PICK n \in 0..(Len(sendBuf.data) - sendBuf.sent) :
          /\ sendBuf' = addSentBytes(n)
          /\ inbox' = IF kernel[msgrFd] = "up"
                      THEN [inbox EXCEPT ![msgrFd] =
                              @ \o SubSeq(sendBuf.data, sendBuf.sent + 1, sendBuf.sent + n)]
                      ELSE inbox
          /\ GoTo(g, IF n = Len(sendBuf.data) - sendBuf.sent THEN "receive" ELSE "send")
    BY <1>7 DEF SendBytes
  <2>2. /\ UNCHANGED <<cmd, msgrFd, recvBuf, kernel, wire, queue>>
        /\ kernel[msgrFd] \in {"up", "eof"} /\ msgrFd \in Fd
    BY <1>7 DEF SendBytes, Writable, localVars, connVars, Base, SInv, IInv, Shape
  <2> DEFINE c == cmd[g]
             sent == sendBuf.sent
  <2>3. sendBuf.data = Request(c) /\ Len(Request(c)) = c.len /\ c.len \in Nat
        /\ sent \in 0..c.len /\ sendBuf \in [len : Nat, data : Seq(Unit), sent : Nat]
    BY <1>3, RequestUnits DEF SendState, Message, Base, SInv, TInv, BufferType
  <2>4. n \in 0..(c.len - sent) /\ sent + n \in 0..c.len
    BY <2>1, <2>3
  <2>5. sendBuf'.data = Request(c) /\ sendBuf'.sent = sent + n
    BY <2>1, <2>3 DEF addSentBytes
  <2>6. kernel[msgrFd] = "up" => inbox' = [inbox EXCEPT ![msgrFd] = SubSeq(Request(c), 1, sent + n)]
    <3>1. SubSeq(Request(c), 1, sent) \o SubSeq(Request(c), sent + 1, sent + n)
            = SubSeq(Request(c), 1, sent + n)
      BY <1>3, <2>3, <2>4, RequestContinued
    <3>2. QED
      BY <1>3, <2>1, <2>3, <3>1 DEF SendState
  <2>7. kernel[msgrFd] # "up" => inbox' = inbox
    BY <2>1
  <2>8. pc'[g] \in StreamLabels
    BY <1>3, <2>1 DEF GoTo, StreamLabels, SendLabels, RecvLabels
  <2>9. SingleStream'
    <3>1. \A fd \in Fd \ {msgrFd} : inbox'[fd] = inbox[fd]
      BY <2>6, <2>7 DEF Base, SInv, TInv, StreamType
    <3>2. QED
      BY <2>2, <2>8, <3>1 DEF SingleStream, NoBytesOn
  <2>10. inbox'[msgrFd] = IF kernel[msgrFd] = "up" THEN SubSeq(Request(c), 1, sent + n) ELSE <<>>
    BY <1>3, <2>2, <2>6, <2>7 DEF SendState, Base, SInv, TInv, StreamType
  <2>11. CASE sent + n < c.len
    <3>1. pc'[g] = "send"
      BY <1>3, <2>1, <2>3, <2>4, <2>11 DEF GoTo
    <3>2. SendState(g)'
      BY <1>3, <2>2, <2>5, <2>10, <2>11 DEF SendState, NotYetUp
    <3>3. StateOf(g)'
      BY <1>3, <2>2, <3>1, <3>2 DEF StateOf, SendLabels, RecvLabels, ConnLabels
    <3>4. QED
      BY <1>1, <2>9, <3>3, OnlyTheOneInside
  <2>12. CASE sent + n = c.len
    <3>1. pc'[g] = "receive"
      BY <1>3, <2>1, <2>3, <2>4, <2>12 DEF GoTo
    <3>2. inbox'[msgrFd] = IF kernel[msgrFd] = "up" THEN Request(c) ELSE <<>>
      BY <1>3, <2>10, <2>12, RequestPieces
    <3>3. ReceiveState(g)'
      BY <1>3, <2>2, <2>5, <2>12, <3>2 DEF SendState, ReceiveState, NoBytesOn, NotYetUp
    <3>4. StateOf(g)'
      BY <1>3, <2>2, <3>1, <3>3 DEF StateOf, SendLabels, RecvLabels, ConnLabels
    <3>5. QED
      BY <1>1, <2>9, <3>4, OnlyTheOneInside
  <2>13. QED
    BY <2>3, <2>4, <2>11, <2>12
<1>8. CASE SendBlocked(g)
  <2>1. pc'[g] \in SendLabels
    BY <1>3, <1>8 DEF SendBlocked, GoTo, SendLabels
  <2>2. QED
    BY <1>1, <1>2, <1>8, <2>1, GoesOn DEF SendBlocked, connVars
<1>9. CASE SendBroken(g)
  <2>1. msgrFd = socket /\ reconnect(g, "send") /\ UNCHANGED bufVars
    BY <1>5, <1>9 DEF SendBroken
  <2>2. QED
    BY <1>1, <1>3, <2>1, ReconnectCore DEF SendState, bufVars
<1>10. CASE SendNotConnected(g)
  <2>1. /\ kernel[msgrFd] \in NotYetUp /\ kernel[msgrFd] \notin {"up", "eof"}
        /\ callConnect(g, "sendConn")
        /\ UNCHANGED <<cmd, kernel, connVars, bufVars, streamVars>>
    BY <1>10 DEF SendNotConnected, NotYetUp, localVars
  <2>2. pc'[g] = "connect" /\ ret'[g] = "sendConn"
    BY <1>3, <2>1 DEF callConnect, GoTo, Base, SInv, TInv, LocalType
  <2>3. ConnectState(g)'
    BY <1>3, <2>1, <2>2 DEF SendState, ConnectState, bufVars
  <2>4. StateOf(g)'
    BY <1>3, <2>1, <2>2, <2>3 DEF StateOf, SendLabels, RecvLabels, ConnLabels
  <2>5. SingleStream'
    BY <1>4, <2>1, QuietStream DEF Quiet, NoBytesOn, streamVars, bufVars, SingleStream
  <2>6. QED
    BY <1>1, <2>4, <2>5, OnlyTheOneInside
<1>11. CASE SendFails(g)
  BY <1>1, <1>4, <1>11, EndsQuietly DEF SendFails, bufVars
<1>12. CASE SendPoll(g)
  <2>1. msgrFd = socket
    BY <1>12 DEF SendPoll, Base, PolledIsUsed
  <2>2. PICK outcome \in PollOutcomes(socket, Writable(socket)) :
          \/ /\ outcome \in {"nil", "ErrPollTimeout"}
             /\ GoTo(g, "send") /\ noReconnect(g)
          \/ outcome = "ErrConnectionClosed" /\ reconnect(g, "send")
          \/ outcome = "other" /\ Fail(g, "other") /\ noReconnect(g)
    BY <1>12 DEF SendPoll
  <2>3. \/ outcome = "nil"
        \/ outcome = "ErrConnectionClosed" /\ kernel[socket] \in {"failed", "reset"}
        \/ outcome = "other" /\ kernel[socket] \in {"closed", "fresh"}
    BY FaithfulPoll
  <2>4. UNCHANGED bufVars
    BY <1>12 DEF SendPoll
  <2>5. CASE GoTo(g, "send") /\ noReconnect(g)
    <3>1. pc'[g] \in SendLabels
      BY <1>3, <2>5 DEF GoTo, SendLabels
    <3>2. QED
      BY <1>1, <1>2, <2>4, <2>5, <3>1, GoesOn DEF noReconnect, connVars
  <2>6. CASE reconnect(g, "send")
    BY <1>1, <1>3, <2>1, <2>4, <2>6, ReconnectCore DEF SendState, bufVars
  <2>7. CASE Fail(g, "other") /\ noReconnect(g) /\ kernel[socket] \in {"closed", "fresh"}
    BY <1>1, <1>4, <2>1, <2>4, <2>7, EndsQuietly DEF noReconnect, bufVars
  <2>8. QED
    BY <2>2, <2>3, <2>5, <2>6, <2>7
<1>13. QED
  BY <1>6, <1>7, <1>8, <1>9, <1>10, <1>11, <1>12 DEF SendStep

LEMMA ReceiveCore ==
    ASSUME FaithfulSetting, Base, FInv, NEW g \in G, ReceiveStep(g)
    PROVE  SingleStream' /\ CommandState'
<1> USE DEF FInv
<1>1. Inner(g) /\ Inside(g)
  BY InnerMoves DEF Base, SInv, IInv, Inner
<1>2. pc[g] \in RecvLabels
  BY DEF ReceiveStep, ReceiveWaits, GiveUpReceive, ReceiveBytes, ReceiveBlocked,
     ReceiveNotConnected, ReceiveClosed, ReceiveFails, ReceivePoll, Receiving, RecvLabels
<1>3. ReceiveState(g) /\ cmd[g].len > 0 /\ cmd[g] \in Message /\ pc \in [G -> Labels]
  BY <1>1, <1>2 DEF CommandState, StateOf, Base, SInv, IInv, Shape, TInv, LocalType
<1>4. kernel[msgrFd] \notin {"up", "eof"} => Quiet
  BY QuietIf DEF Base, SInv, IInv, Shape, SingleStream
<1>5. kernel[msgrFd] # "closed" => msgrFd = socket
  BY DEF Base, SInv, IInv, Shape, SocketInv, NoStraySocket
<1>6. freeSpace = recvBuf.len /\ freeSpace > 0 /\ ~canIncrease(recvBuf.len, ReceiveBufMaxLen)
  <2>1. recvBuf.len = ReceiveBufMinLen /\ Len(recvBuf.data) = 0
    BY <1>3, EmptySeq DEF SingleStream, ReceiveState
  <2>2. QED
    BY <2>1, OptsAssumption DEF FaithfulSetting, freeSpace, canIncrease, availableSpaceLen
<1>7. CASE GiveUpReceive(g)
  BY <1>7 DEF GiveUpReceive, ctxErr, exhausted, Undisturbed
<1>8. CASE ReceiveBytes(g)
  <2> DEFINE here == queue[msgrFd]
             n == IF Len(here) < freeSpace THEN Len(here) ELSE freeSpace
             left == SubSeq(here, n + 1, Len(here))
             data == recvBuf.data \o SubSeq(here, 1, n)
  <2>1. /\ kernel[msgrFd] \in {"up", "eof"} /\ here # <<>> /\ msgrFd \in Fd
        /\ UNCHANGED <<cmd, sendBuf>>
    BY <1>8 DEF ReceiveBytes, localVars, Base, SInv, IInv, Shape
  <2>2. inbox[msgrFd] = <<>> /\ IsReplyTo(cmd[g], here)
    BY <1>3, <2>1 DEF ReceiveState, NoBytesOn
  <2>3. here \in Seq(Unit) /\ Len(here) \in Nat \ {0}
    BY <2>1, EmptySeq DEF Base, SInv, TInv, StreamType
  <2>4. recvBuf.len \in Nat
    BY DEF Base, SInv, TInv, BufferType
  <2>5. CASE Len(here) <= freeSpace
    <3>1. n = Len(here)
      BY <1>6, <2>3, <2>4, <2>5
    <3>2. left = <<>>
      BY <2>3, <3>1, SubSeqEmpty
    <3>3. data = here
      BY <1>3, <2>3, <3>1, SubSeqFull, ConcatEmptySeq DEF ReceiveState
    <3>4. /\ recvBuf' = [len |-> recvBuf.len, data |-> data]
          /\ queue' = [queue EXCEPT ![msgrFd] = left]
          /\ UNCHANGED <<connVars, kernel, inbox, wire>>
          /\ GoTo(g, "decode")
      BY <1>8, <3>2 DEF ReceiveBytes
    <3> HIDE DEF here, n, left, data
    <3>5. recvBuf'.len = recvBuf.len /\ IsReplyTo(cmd[g], recvBuf'.data)
      BY <2>2, <3>3, <3>4
    <3>6. NoBytesOn(msgrFd)'
      BY <2>1, <2>2, <3>2, <3>4 DEF NoBytesOn, connVars, Base, SInv, TInv, StreamType
    <3>7. \A fd \in Fd \ {msgrFd} : NoBytesOn(fd)'
      BY <3>4 DEF SingleStream, NoBytesOn, Base, SInv, TInv, StreamType
    <3>8. Quiet'
      BY <3>4, <3>6, <3>7 DEF Quiet, connVars
    <3>9. SingleStream'
      BY <3>4, <3>5, <3>8, QuietStream DEF SingleStream
    <3>10. pc'[g] = "decode"
      BY <1>3, <3>4 DEF GoTo
    <3>11. StateOf(g)'
      BY <1>3, <2>1, <3>5, <3>10 DEF StateOf, IsReplyTo, SendLabels, RecvLabels, ConnLabels
    <3>12. QED
      BY <1>1, <3>9, <3>11, OnlyTheOneInside
  <2>6. CASE ~(Len(here) <= freeSpace)
    <3>1. n = freeSpace /\ n + 1 \in 1..Len(here)
      BY <1>6, <2>3, <2>4, <2>6
    <3>2. Len(left) # 0
      BY <2>3, <3>1, PieceOfUnits
    <3>3. BufferFilled(n) /\ left # <<>>
      BY <1>6, <3>1, <3>2 DEF BufferFilled
    <3>4. recvBuf' = [recvBuf EXCEPT !.data = data] /\ reconnect(g, "trunc")
      BY <1>6, <1>8, <3>3 DEF ReceiveBytes
    <3>5. recvBuf'.len = recvBuf.len
      BY <3>4 DEF Base, SInv, TInv, BufferType
    <3>6. QED
      BY <1>1, <1>3, <1>5, <2>1, <3>4, <3>5, ReconnectCore DEF ReceiveState
  <2>7. QED
    BY <2>5, <2>6
<1>9. CASE ReceiveBlocked(g)
  <2>1. pc'[g] \in RecvLabels
    BY <1>3, <1>9 DEF ReceiveBlocked, GoTo, RecvLabels
  <2>2. QED
    BY <1>1, <1>2, <1>9, <2>1, GoesOn DEF ReceiveBlocked, connVars
<1>10. CASE ReceiveClosed(g)
  <2>1. msgrFd = socket /\ reconnect(g, "resend") /\ UNCHANGED bufVars
    BY <1>5, <1>10 DEF ReceiveClosed, Readable
  <2>2. QED
    BY <1>1, <1>3, <2>1, ReconnectCore DEF ReceiveState, bufVars
<1>11. CASE ReceiveNotConnected(g)
  BY <1>3, <1>11 DEF ReceiveNotConnected, ReceiveState, NotYetUp
<1>12. CASE ReceiveFails(g)
  BY <1>1, <1>4, <1>12, EndsQuietly DEF ReceiveFails, bufVars
<1>13. CASE ReceivePoll(g)
  <2>1. msgrFd = socket
    BY <1>13 DEF ReceivePoll, Base, PolledIsUsed
  <2>2. PICK outcome \in PollOutcomes(socket, Readable(socket)) :
          \/ outcome \in {"nil", "ErrPollTimeout"} /\ GoTo(g, "receive")
          \/ outcome \in {"ErrConnectionClosed", "other"} /\ Fail(g, outcome)
    BY <1>13 DEF ReceivePoll
  <2>3. \/ outcome = "nil"
        \/ outcome \in {"ErrConnectionClosed", "other"}
           /\ kernel[socket] \in {"failed", "reset", "closed", "fresh"}
    BY FaithfulPoll
  <2>4. UNCHANGED <<kernel, connVars, bufVars, streamVars>>
    BY <1>13 DEF ReceivePoll
  <2>5. CASE GoTo(g, "receive")
    <3>1. pc'[g] \in RecvLabels
      BY <1>3, <2>5 DEF GoTo, RecvLabels
    <3>2. QED
      BY <1>1, <1>2, <2>4, <3>1, GoesOn DEF connVars
  <2>6. CASE Fail(g, outcome) /\ kernel[socket] \in {"failed", "reset", "closed", "fresh"}
    BY <1>1, <1>4, <2>1, <2>4, <2>6, EndsQuietly DEF bufVars
  <2>7. QED
    BY <2>2, <2>3, <2>5, <2>6
<1>14. QED
  BY <1>7, <1>8, <1>9, <1>10, <1>11, <1>12, <1>13 DEF ReceiveStep, ReceiveWaits

-----------------------------------------------------------------------------
(***************************************************************************)
(* The steps outside Process, those of the kernel and the server, Close.   *)
(***************************************************************************)
OuterLabels == {"idle", "client", "begin", "stop"}

LEMMA OuterCore ==
    ASSUME Base, FInv, NEW g \in G,
           \/ Start(g) \/ Cancel(g) \/ LeaveLoop(g)
           \/ EnterProcess(g) \/ StopProcessing(g)
    PROVE  SingleStream' /\ CommandState'
<1> USE DEF FInv
<1>1. pc \in [G -> Labels] /\ cmd \in [G -> Message]
  BY DEF Base, SInv, IInv, Shape, TInv, LocalType
<1>2. UNCHANGED <<kernel, msgrFd, ret, bufVars, streamVars>>
  BY DEF Start, Cancel, LeaveLoop, EnterProcess, StopProcessing, connVars, retryVars
<1>3. \/ pc' = pc /\ cmd' = cmd
      \/ /\ pc[g] \in OuterLabels /\ pc'[g] \in OuterLabels
         /\ \A h \in G \ {g} : pc'[h] = pc[h] /\ cmd'[h] = cmd[h]
  BY <1>1 DEF Start, Cancel, LeaveLoop, EnterProcess, StopProcessing, Return, GoTo, localVars,
     OuterLabels
<1>4. SingleStream'
  <2>1. (\A h \in G : pc'[h] \notin StreamLabels) => \A h \in G : pc[h] \notin StreamLabels
    BY <1>3 DEF OuterLabels, StreamLabels, SendLabels, RecvLabels
  <2>2. QED
    BY <1>2, <2>1 DEF SingleStream, Quiet, NoBytesOn, bufVars, streamVars
<1>5. ASSUME NEW h \in G, pc'[h] = pc[h], cmd'[h] = cmd[h]
      PROVE  StateOf(h)' /\ (pc'[h] = "client" => cmd'[h].len > 0)
  <2>1. SendState(h) => SendState(h)'
    BY <1>2, <1>5 DEF SendState, bufVars, streamVars
  <2>2. ReceiveState(h) => ReceiveState(h)'
    BY <1>2, <1>5 DEF ReceiveState, IsReplyTo, NoBytesOn, bufVars, streamVars
  <2>3. ConnectState(h) => ConnectState(h)'
    BY <1>2, <1>5 DEF ConnectState, bufVars
  <2>4. StateOf(h) /\ (pc[h] = "client" => cmd[h].len > 0)
    BY DEF CommandState
  <2>5. QED
    BY <1>2, <1>5, <2>1, <2>2, <2>3, <2>4 DEF StateOf, Inside, IsReplyTo, Empty, bufVars
<1>6. ASSUME pc'[g] \in OuterLabels, ~UNCHANGED <<pc, cmd>>
      PROVE  StateOf(g)' /\ (pc'[g] = "client" => cmd'[g].len > 0)
  <2>1. pc'[g] \in {"client", "begin"} => cmd'[g].len > 0
    <3>1. CASE Start(g)
      BY <1>1, <3>1, BoundsAssumption DEF Start
    <3>2. CASE EnterProcess(g)
      BY <3>2 DEF EnterProcess, localVars, CommandState
    <3>3. CASE LeaveLoop(g) \/ StopProcessing(g)
      BY <1>1, <3>3 DEF LeaveLoop, StopProcessing, Return, GoTo
    <3>4. QED
      BY <1>6, <3>1, <3>2, <3>3 DEF Cancel
  <2>2. pc'[g] # "stop"
    BY <1>1, <1>6 DEF Start, Cancel, LeaveLoop, EnterProcess, StopProcessing, Return, GoTo
  <2>3. QED
    BY <1>6, <2>1, <2>2 DEF StateOf, OuterLabels, Inside, WorkLabels, SendLabels, RecvLabels,
       ConnLabels
<1>7. CommandState'
  BY <1>3, <1>5, <1>6 DEF CommandState
<1>8. QED
  BY <1>4, <1>7

\* The kernel and the server leave Process alone.
LEMMA PeerKeeps ==
    ASSUME kernelOnly
    PROVE  /\ UNCHANGED <<pc, cmd, ret, msgrFd, sendBuf, recvBuf>>
           /\ Undisturbed => Undisturbed'
           /\ OwnReplies => OwnReplies'
BY DEF kernelOnly, localVars, retryVars, outVars, connVars, bufVars, Undisturbed, OwnReplies

\* Whatever changes on the way, it is enough to look at who sends or receives.
LEMMA WaitersOnly ==
    ASSUME CommandState, UNCHANGED <<pc, cmd, ret, msgrFd, sendBuf, recvBuf>>,
           \A g \in G : /\ pc[g] \in SendLabels => SendState(g)'
                        /\ pc[g] \in RecvLabels => ReceiveState(g)'
    PROVE  CommandState'
<1>1. ASSUME NEW g \in G
      PROVE  StateOf(g)' /\ (pc'[g] = "client" => cmd'[g].len > 0)
  <2>1. StateOf(g) /\ (pc[g] = "client" => cmd[g].len > 0)
    BY DEF CommandState
  <2>2. ConnectState(g) => ConnectState(g)'
    BY DEF ConnectState
  <2>3. QED
    BY <2>1, <2>2 DEF StateOf, Inside, IsReplyTo, Empty
<1>2. QED
  BY <1>1 DEF CommandState

\* The server, the kernel or Close drop what is on a connection and change its
\* state to one in which none comes up.
LEMMA DroppedCore ==
    ASSUME Base, FInv, NEW fd \in Fd, NEW s \in {"closed", "reset"},
           kernel' = [kernel EXCEPT ![fd] = s], dropStreams(fd),
           UNCHANGED <<pc, cmd, ret, msgrFd, sendBuf, recvBuf>>
    PROVE  SingleStream' /\ CommandState'
<1> USE DEF FInv
<1>1. /\ kernel'[fd] = s /\ inbox'[fd] = <<>> /\ wire'[fd] = <<>> /\ queue'[fd] = <<>>
      /\ \A f \in Fd \ {fd} : /\ kernel'[f] = kernel[f] /\ inbox'[f] = inbox[f]
                              /\ wire'[f] = wire[f] /\ queue'[f] = queue[f]
  BY DEF dropStreams, Base, SInv, IInv, Shape, TInv, StreamType
<1>2. SingleStream'
  BY <1>1 DEF SingleStream, Quiet, NoBytesOn
<1>3. msgrFd \in Fd
  BY DEF Base, SInv, IInv, Shape
<1>4. ASSUME NEW g \in G, pc[g] \in SendLabels
      PROVE  SendState(g)'
  BY <1>1, <1>3, <1>4 DEF CommandState, StateOf, SendState, NotYetUp
<1>5. ASSUME NEW g \in G, pc[g] \in RecvLabels
      PROVE  ReceiveState(g)'
  BY <1>1, <1>3, <1>5, SMTT(30)
     DEF CommandState, StateOf, ReceiveState, NoBytesOn, NotYetUp, IsReplyTo
<1>6. QED
  BY <1>2, <1>4, <1>5, WaitersOnly

LEMMA CloseCore ==
    ASSUME Base, FInv, CloseClient
    PROVE  SingleStream' /\ CommandState'
<1> USE DEF FInv
<1>1. UNCHANGED <<cmd, ret, msgrFd, sendBuf, recvBuf>>
  BY DEF CloseClient, localVars, retryVars, connVars, bufVars
<1>2. CASE socket # NoSocket /\ kernel' = closeSocket(socket) /\ dropStreams(socket) /\ UNCHANGED pc
  <2>1. socket \in Fd /\ kernel' = [kernel EXCEPT ![socket] = "closed"]
    BY <1>2 DEF closeSocket, Base, SInv, IInv, Shape
  <2>2. QED
    BY <1>1, <1>2, <2>1, DroppedCore
<1>3. CASE /\ socket = NoSocket /\ pc' = [g \in G |-> "dead"]
           /\ UNCHANGED <<kernel, streamVars>>
  <2>1. \A fd \in Fd : NoBytesOn(fd) /\ wire[fd] = <<>>
    BY <1>3, NilMeansClosed DEF SingleStream, Base, SInv, IInv, SocketInv
  <2>2. SingleStream'
    BY <1>1, <1>3, <2>1 DEF SingleStream, Quiet, NoBytesOn, streamVars
  <2>3. CommandState'
    BY <1>3 DEF CommandState, StateOf, Inside, WorkLabels, SendLabels, RecvLabels, ConnLabels
  <2>4. QED
    BY <2>2, <2>3
<1>4. QED
  BY <1>2, <1>3 DEF CloseClient

\* A server that has bytes in front of it has the request of the one who waits.
LEMMA OneInFront ==
    ASSUME Base, FInv, NEW fd \in Fd, inbox[fd] # <<>>
    PROVE  /\ fd = msgrFd /\ kernel[fd] \in {"up", "eof"}
           /\ \E g \in G : pc[g] \in StreamLabels /\ Inside(g) /\ StateOf(g)
BY DEF FInv, SingleStream, Quiet, NoBytesOn, CommandState, StreamLabels, Inside, WorkLabels

\* What it reads is the whole of it.
LEMMA ServesTheRequest ==
    ASSUME FaithfulSetting, Base, FInv, NEW fd \in Fd, Serve(fd)
    PROVE  \E g \in G :
              /\ pc[g] \in RecvLabels /\ ReceiveState(g) /\ cmd[g] \in Message
              /\ fd = msgrFd /\ inbox[fd] = Request(cmd[g]) /\ queue[fd] = <<>>
              /\ Head(inbox[fd]).id = cmd[g].id
              /\ inbox' = [inbox EXCEPT ![fd] = <<>>]
              /\ \E len \in ReplyLens :
                    queue' = [queue EXCEPT ![fd] = Request([id |-> cmd[g].id, len |-> len])]
              /\ wire' = [wire EXCEPT ![fd] = <<>>]
              /\ UNCHANGED kernel
<1>1. fd = msgrFd /\ kernel[fd] = "up" /\ inbox[fd] # <<>>
  BY OneInFront DEF Serve
<1>2. PICK g \in G : pc[g] \in StreamLabels /\ Inside(g) /\ StateOf(g)
  BY <1>1, OneInFront
<1>3. cmd[g] \in Message /\ cmd[g].len \in Nat /\ cmd[g].len > 0
  BY <1>2 DEF Base, SInv, TInv, LocalType, Message, StateOf
<1> DEFINE c == cmd[g]
           first == Head(inbox[fd])
<1>4. /\ Request(c) \in Seq(Unit) /\ Len(Request(c)) = c.len
      /\ Head(Request(c)) = [id |-> c.id, part |-> 1, of |-> c.len]
      /\ \A i \in 1..c.len : Request(c)[i] = [id |-> c.id, part |-> i, of |-> c.len]
  BY <1>3, RequestUnits, RequestPieces
<1>5. pc[g] \in RecvLabels
  <2> SUFFICES ASSUME pc[g] \in SendLabels PROVE FALSE
    BY <1>2 DEF StreamLabels
  <2> DEFINE sent == sendBuf.sent
  <2>1. inbox[fd] = SubSeq(Request(c), 1, sent) /\ sent \in 0..(c.len - 1)
    BY <1>1, <1>2, <1>3 DEF StateOf, SendState, Base, SInv, TInv, BufferType
  <2>2. sent # 0
    BY <1>1, <1>3, <2>1, RequestPieces
  <2>3. Len(inbox[fd]) = sent
    BY <1>3, <1>4, <2>1, <2>2, PieceOfUnits
  <2>4. first = Request(c)[1]
    BY <1>3, <1>4, <2>1, <2>2, HeadTailOfSubSeq
  <2>5. first.of = c.len
    BY <1>3, <1>4, <2>4
  <2>6. Len(inbox[fd]) >= first.of
    BY DEF Serve
  <2> HIDE DEF first
  <2>7. QED
    BY <1>3, <2>1, <2>3, <2>5, <2>6
<1>6. ReceiveState(g)
  BY <1>2, <1>5 DEF StateOf
<1>7. inbox[fd] = Request(c) /\ queue[fd] = <<>>
  BY <1>1, <1>6 DEF ReceiveState, NoBytesOn
<1>8. first.id = c.id /\ first.of = c.len
  BY <1>4, <1>7
<1>9. SubSeq(inbox[fd], 1, first.of) = Request([id |-> first.id, len |-> first.of])
  <2>1. [id |-> first.id, len |-> first.of] = c
    BY <1>3, <1>8 DEF Message
  <2>2. SubSeq(inbox[fd], 1, first.of) = Request(c)
    BY <1>3, <1>7, <1>8, RequestPieces
  <2>3. QED
    BY <2>1, <2>2
<1>10. SubSeq(inbox[fd], first.of + 1, Len(inbox[fd])) = <<>>
  BY <1>3, <1>4, <1>7, <1>8, SubSeqEmpty
<1>11. inbox' = [inbox EXCEPT ![fd] = SubSeq(inbox[fd], first.of + 1, Len(inbox[fd]))] /\ UNCHANGED kernel
  BY <1>9 DEF Serve
<1>12. inbox' = [inbox EXCEPT ![fd] = <<>>]
  BY <1>10, <1>11
<1>13. PICK len \in ReplyLens : \E n \in 1..len :
          LET replied == Request([id |-> first.id, len |-> len])
          IN  /\ n = len \/ "fragment" \in Faults
              /\ queue' = [queue EXCEPT ![fd] = @ \o SubSeq(replied, 1, n)]
              /\ wire' = [wire EXCEPT ![fd] = SubSeq(replied, n + 1, len)]
  BY <1>9 DEF Serve
<1> DEFINE replied == Request([id |-> first.id, len |-> len])
<1>14. /\ queue' = [queue EXCEPT ![fd] = queue[fd] \o SubSeq(replied, 1, len)]
       /\ wire' = [wire EXCEPT ![fd] = SubSeq(replied, len + 1, len)]
  BY <1>13 DEF FaithfulSetting
<1>15. len \in Nat /\ [id |-> first.id, len |-> len] \in Message
  BY <1>3, <1>8, BoundsAssumption DEF Message
<1>16. replied \in Seq(Unit) /\ SubSeq(replied, 1, len) = replied /\ SubSeq(replied, len + 1, len) = <<>>
  BY <1>15, RequestUnits, RequestPieces, SubSeqEmpty
<1>17. queue[fd] \o SubSeq(replied, 1, len) = replied
  BY <1>7, <1>16, ConcatEmptySeq
<1>18. queue' = [queue EXCEPT ![fd] = Request([id |-> c.id, len |-> len])]
  BY <1>8, <1>14, <1>17
<1>19. wire' = [wire EXCEPT ![fd] = <<>>]
  BY <1>14, <1>16
<1>20. QED
  BY <1>1, <1>3, <1>5, <1>6, <1>7, <1>8, <1>11, <1>12, <1>18, <1>19

LEMMA PeerCore ==
    ASSUME FaithfulSetting, Base, FInv, NEW fd \in Fd, Peer(fd)
    PROVE  SingleStream' /\ CommandState'
<1> USE DEF FInv
<1>1. kernelOnly
  BY DEF Peer, Establish, Refuse, PeerClose, PeerReset, Serve, Arrive
<1>2. UNCHANGED <<pc, cmd, ret, msgrFd, sendBuf, recvBuf>>
  BY <1>1, PeerKeeps
<1>3. msgrFd \in Fd /\ kernel \in [Fd -> State] /\ inbox \in [Fd -> Seq(Unit)]
      /\ wire \in [Fd -> Seq(Unit)] /\ queue \in [Fd -> Seq(Unit)]
  BY DEF Base, SInv, IInv, Shape, TInv, StreamType
<1>4. CASE Establish(fd) \/ Refuse(fd)
  <2>1. /\ kernel[fd] = "connecting" /\ UNCHANGED streamVars
        /\ \E s \in {"up", "failed"} : kernel' = [kernel EXCEPT ![fd] = s]
    BY <1>4 DEF Establish, Refuse
  <2>2. NoBytesOn(fd)
    BY <2>1 DEF SingleStream
  <2>3. SingleStream'
    BY <1>2, <1>3, <2>1, <2>2 DEF SingleStream, Quiet, NoBytesOn, streamVars
  <2>4. ASSUME NEW g \in G, pc[g] \in SendLabels
        PROVE  SendState(g)'
    <3>1. SendState(g) /\ SubSeq(Request(cmd[g]), 1, 0) = <<>>
      BY <2>4, RequestPieces DEF CommandState, StateOf, Base, SInv, TInv, LocalType
    <3>2. CASE fd = msgrFd
      BY <1>2, <1>3, <2>1, <2>2, <3>1, <3>2 DEF SendState, NoBytesOn, NotYetUp, streamVars
    <3>3. CASE fd # msgrFd
      BY <1>2, <1>3, <2>1, <3>1, <3>3 DEF SendState, streamVars
    <3>4. QED
      BY <3>2, <3>3
  <2>5. ASSUME NEW g \in G, pc[g] \in RecvLabels
        PROVE  ReceiveState(g)'
    BY <1>2, <1>3, <2>1, <2>5 DEF CommandState, StateOf, ReceiveState, IsReplyTo, NoBytesOn,
       NotYetUp, streamVars
  <2>6. QED
    BY <1>2, <2>3, <2>4, <2>5, WaitersOnly
<1>5. CASE PeerClose(fd)
  <2>1. /\ kernel[fd] = "up" /\ kernel' = [kernel EXCEPT ![fd] = "eof"]
        /\ inbox' = [inbox EXCEPT ![fd] = <<>>] /\ wire' = [wire EXCEPT ![fd] = <<>>]
        /\ UNCHANGED queue
    BY <1>5 DEF PeerClose
  <2>2. SingleStream'
    BY <1>2, <1>3, <2>1 DEF SingleStream, Quiet, NoBytesOn
  <2>3. ASSUME NEW g \in G, pc[g] \in SendLabels
        PROVE  SendState(g)'
    BY <1>2, <1>3, <2>1, <2>3 DEF CommandState, StateOf, SendState, NotYetUp
  <2>4. ASSUME NEW g \in G, pc[g] \in RecvLabels
        PROVE  ReceiveState(g)'
    BY <1>2, <1>3, <2>1, <2>4 DEF CommandState, StateOf, ReceiveState, IsReplyTo, NoBytesOn,
       NotYetUp
  <2>5. QED
    BY <1>2, <2>2, <2>3, <2>4, WaitersOnly
<1>6. CASE PeerReset(fd)
  BY <1>2, <1>6, DroppedCore DEF PeerReset
<1>7. CASE Serve(fd)
  <2>1. PICK g \in G :
              /\ pc[g] \in RecvLabels /\ ReceiveState(g) /\ cmd[g] \in Message
              /\ fd = msgrFd /\ inbox[fd] = Request(cmd[g]) /\ queue[fd] = <<>>
              /\ inbox' = [inbox EXCEPT ![fd] = <<>>]
              /\ \E len \in ReplyLens :
                    queue' = [queue EXCEPT ![fd] = Request([id |-> cmd[g].id, len |-> len])]
              /\ wire' = [wire EXCEPT ![fd] = <<>>]
              /\ UNCHANGED kernel
    BY <1>7, ServesTheRequest
  <2>2. kernel[fd] = "up" /\ Inside(g) /\ pc[g] \in StreamLabels
    BY <1>7, <2>1 DEF Serve, Inside, WorkLabels, StreamLabels
  <2>3. SingleStream'
    BY <1>2, <1>3, <2>1, <2>2 DEF SingleStream, Quiet, NoBytesOn
  <2>4. ReceiveState(g)'
    BY <1>2, <1>3, <2>1 DEF ReceiveState, IsReplyTo
  <2>5. \A h \in G : pc[h] \in StreamLabels => h = g
    BY <2>2 DEF Base, SInv, IInv, MutualExclusion, Inside, WorkLabels, StreamLabels
  <2>6. QED
    BY <1>2, <2>1, <2>3, <2>4, <2>5, WaitersOnly DEF StreamLabels, SendLabels, RecvLabels
<1>8. CASE Arrive(fd)
  BY <1>8 DEF Arrive, SingleStream
<1>9. QED
  BY <1>4, <1>5, <1>6, <1>7, <1>8 DEF Peer

-----------------------------------------------------------------------------
(***************************************************************************)
(* Every step preserves the invariant.                                     *)
(***************************************************************************)
LEMMA NextFInv ==
    ASSUME FaithfulSetting
    PROVE  Base /\ FInv /\ [Next]_vars => FInv'
<1> SUFFICES ASSUME Base, FInv, [Next]_vars PROVE FInv'
  OBVIOUS
<1>1. CASE UNCHANGED vars
  BY <1>1 DEF vars, localVars, retryVars, outVars, connVars, bufVars, streamVars, FInv,
     Undisturbed, SingleStream, Quiet, NoBytesOn, CommandState, StateOf, Inside, Empty,
     SendState, ReceiveState, ConnectState, IsReplyTo, OwnReplies
<1>2. ASSUME NEW g \in G, Start(g) \/ Cancel(g) \/ Step(g) PROVE FInv'
  <2>1. Undisturbed' /\ OwnReplies'
    BY <1>2, UndisturbedStep, OwnRepliesStep DEF Base, FInv
  <2>2. SingleStream' /\ CommandState'
    BY <1>2, OuterCore, CalmCore, SendCore, ReceiveCore, ConnectCore DEF Step
  <2>3. QED
    BY <2>1, <2>2 DEF FInv
<1>3. CASE \E fd \in Fd : Peer(fd)
  <2>1. PICK fd \in Fd : Peer(fd)
    BY <1>3
  <2>2. kernelOnly
    BY <2>1 DEF Peer, Establish, Refuse, PeerClose, PeerReset, Serve, Arrive
  <2>3. QED
    BY <2>1, <2>2, PeerCore, PeerKeeps DEF FInv
<1>4. CASE CloseClient
  <2>1. Undisturbed' /\ OwnReplies'
    BY <1>4 DEF CloseClient, localVars, retryVars, outVars, FInv, Undisturbed, OwnReplies
  <2>2. QED
    BY <1>4, <2>1, CloseCore DEF FInv
<1>5. QED
  BY <1>1, <1>2, <1>3, <1>4 DEF Next

\* What holds in every setting: mutual exclusion, the types, the results and the
\* descriptors (Process, reconnect).
THEOREM BaseInvariance == Spec => []Base
<1>1. SInv /\ PolledIsUsed <=> Base
  BY DEF Base
<1>2. QED
  BY <1>1, ResultsInvariance, PollsWhatItUses, PTL

\* In the setting above no byte of another command is ever on its way while a
\* command waits (send, receive, connect, reconnect).
THEOREM FaithfulInvariance ==
    ASSUME FaithfulSetting
    PROVE  Spec => [](Base /\ FInv)
<1>1. Base /\ FInv /\ [Next]_vars => FInv'
  BY NextFInv
<1>2. QED
  BY <1>1, InitFInv, BaseInvariance, PTL DEF Spec

-----------------------------------------------------------------------------
(***************************************************************************)
(* What it is good for.                                                    *)
(***************************************************************************)

\* A command never gets the reply to another one: no error path of send(),
\* receive() or connect() leaves a reply behind that the next command would read.
THEOREM NoForeignReply ==
    ASSUME FaithfulSetting
    PROVE  Spec => []ReplyIsOwn
<1>1. FInv => ReplyIsOwn
  BY DEF FInv, OwnReplies, ReplyIsOwn
<1>2. QED
  BY <1>1, FaithfulInvariance, PTL

\* A command never gets a part of its reply: one that does not fit the receive
\* buffer is an error (BufferFilled, canIncrease, reconnect in receive()).
THEOREM NoCutReply ==
    ASSUME FaithfulSetting
    PROVE  Spec => []ReplyIsWhole
<1>1. FInv => ReplyIsWhole
  BY DEF FInv, OwnReplies, ReplyIsWhole, NoReply
<1>2. QED
  BY <1>1, FaithfulInvariance, PTL

\* The server reads commands and nothing else, however often send() was cut short
\* or began again on another socket (addSentBytes, rewind).
THEOREM ServerReadsCommands ==
    ASSUME FaithfulSetting
    PROVE  Spec => []StreamIsCommands
<1>1. Base /\ FInv => StreamIsCommands
  <2> SUFFICES ASSUME Base, FInv, NEW fd \in Fd, inbox[fd] # <<>>
               PROVE  /\ Head(inbox[fd]).part = 1
                      /\ \A i \in 1..(Len(inbox[fd]) - 1) : Follows(inbox[fd][i], inbox[fd][i + 1])
    BY EmptySeq DEF StreamIsCommands
  <2>1. PICK g \in G : pc[g] \in StreamLabels /\ Inside(g) /\ StateOf(g)
    BY OneInFront
  <2> DEFINE c == cmd[g]
  <2>2. fd = msgrFd /\ c \in Message /\ c.len \in Nat /\ c.len > 0
    BY <2>1, OneInFront DEF StateOf, Base, SInv, TInv, LocalType, Message
  <2>3. PICK n \in 0..c.len : inbox[fd] = SubSeq(Request(c), 1, n)
    <3>1. CASE pc[g] \in SendLabels
      BY <2>1, <2>2, <3>1 DEF StateOf, SendState, Base, SInv, TInv, BufferType
    <3>2. CASE pc[g] \in RecvLabels
      <4>1. inbox[fd] = Request(c)
        BY <2>1, <2>2, <3>2 DEF StateOf, ReceiveState, NoBytesOn
      <4>2. c.len \in 0..c.len
        BY <2>2
      <4>3. QED
        BY <2>2, <4>1, <4>2, RequestPieces
    <3>3. QED
      BY <2>1, <3>1, <3>2 DEF StreamLabels
  <2>4. n # 0
    BY <2>2, <2>3, RequestPieces
  <2>5. /\ Request(c) \in Seq(Unit) /\ Len(Request(c)) = c.len
        /\ \A i \in 1..c.len : Request(c)[i] = [id |-> c.id, part |-> i, of |-> c.len]
    BY <2>2, RequestUnits
  <2>6. \A i \in 1..n : Request(c)[i] \in Unit
    BY <2>5, ElementOfSeq
  <2>7. /\ Len(inbox[fd]) = n
        /\ \A i \in 1..n : inbox[fd][i] = [id |-> c.id, part |-> i, of |-> c.len]
    BY <2>3, <2>4, <2>5, <2>6, SubSeqProperties
  <2>8. Head(inbox[fd]) = inbox[fd][1]
    BY DEF Base, SInv, TInv, StreamType
  <2>9. Head(inbox[fd]).part = 1
    <3>1. 1 \in 1..n
      BY <2>2, <2>4
    <3>2. inbox[fd][1] = [id |-> c.id, part |-> 1, of |-> c.len]
      BY <2>7, <3>1
    <3>3. QED
      BY <2>8, <3>2
  <2>10. ASSUME NEW i \in 1..(Len(inbox[fd]) - 1)
         PROVE  Follows(inbox[fd][i], inbox[fd][i + 1])
    <3>1. i \in 1..n /\ i + 1 \in 1..n /\ i < c.len
      BY <2>2, <2>7
    <3>2. /\ inbox[fd][i] = [id |-> c.id, part |-> i, of |-> c.len]
          /\ inbox[fd][i + 1] = [id |-> c.id, part |-> i + 1, of |-> c.len]
      BY <2>7, <3>1
    <3>3. QED
      BY <3>1, <3>2 DEF Follows
  <2>11. QED
    BY <2>9, <2>10
<1>2. QED
  BY <1>1, FaithfulInvariance, PTL

-----------------------------------------------------------------------------
(***************************************************************************)
(* The same as a refinement: the answers are the command's own.            *)
(***************************************************************************)
LEMMA StepOwn ==
    SInv /\ TInv' /\ OwnReplies' /\ [Next]_vars => [OwnAnswer!Next]_(OwnAnswer!vars)
<1> SUFFICES ASSUME SInv, OwnReplies', TInv', [Next]_vars
             PROVE  OwnAnswer!Next \/ UNCHANGED <<phase, answer>>
  BY DEF OwnAnswer!vars
<1>1. AnyAnswer!Next \/ UNCHANGED <<phase, answer>>
  BY StepService DEF AnyAnswer!vars
<1>2. ASSUME NEW g \in G, AnyAnswer!Decide(g)
      PROVE  OwnAnswer!Decide(g)
  <2>1. PICK a \in {"own", "cut", "foreign", "error"} : answer' = [answer EXCEPT ![g] = a]
    BY <1>2 DEF AnyAnswer!Decide
  <2>2. answer'[g] = a
    BY <2>1 DEF answer
  <2>3. answer'[g] \in {"none", "own", "error"}
    BY DEF OwnReplies, TInv, ReplyType, answer
  <2>4. a \in {"own", "error"}
    BY <2>1, <2>2, <2>3
  <2>5. QED
    BY <1>2, <2>1, <2>4 DEF AnyAnswer!Decide, OwnAnswer!Decide
<1>3. QED
  BY <1>1, <1>2 DEF AnyAnswer!Next, AnyAnswer!Call, AnyAnswer!Abandon, AnyAnswer!Enter,
     AnyAnswer!Leave, AnyAnswer!Crash, AnyAnswer!Move, OwnAnswer!Next, OwnAnswer!Call,
     OwnAnswer!Abandon, OwnAnswer!Enter, OwnAnswer!Leave, OwnAnswer!Crash, OwnAnswer!Move

\* The connection serves commands one at a time and gives each its own whole
\* reply, or an error, decided once.
THEOREM FaithfulService ==
    ASSUME FaithfulSetting
    PROVE  Spec => ServesFaithfully
<1>1. SInv /\ TInv' /\ OwnReplies' /\ [Next]_vars => [OwnAnswer!Next]_(OwnAnswer!vars)
  BY StepOwn
<1>2. Base /\ FInv => SInv /\ TInv /\ OwnReplies
  BY DEF Base, SInv, FInv
<1>3. Init => OwnAnswer!Init
  BY DEF Init, NewConnector, OwnAnswer!Init, phase, answer
<1>4. QED
  BY <1>1, <1>2, <1>3, FaithfulInvariance, PTL DEF Spec, ServesFaithfully, OwnAnswer!Spec

=============================================================================

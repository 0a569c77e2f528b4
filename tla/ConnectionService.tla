-------------------------- MODULE ConnectionService --------------------------
(***************************************************************************)
(* Connection implements CommandService: whatever fails, commands are      *)
(* served one at a time, and each leaves Process with one answer.          *)
(***************************************************************************)
EXTENDS ConnectionProofs

-----------------------------------------------------------------------------
(***************************************************************************)
(* The results of Process: none of them is set before Process ends, and    *)
(* one of them is when it ends.                                            *)
(***************************************************************************)
EndLabels == {"clear", "stop"}

NoResult(g) == err[g] = "nil" /\ reply[g] = NoReply

ResultsInv ==
    \A g \in G : /\ pc[g] \notin EndLabels \cup {"dead"} => NoResult(g)
                 /\ pc[g] \in EndLabels => ~NoResult(g)

SInv == IInv /\ TInv /\ ResultsInv

\* What is decoded is a part of a reply, and not the zero value of one.
LEMMA DecodedSomething ==
    ASSUME TInv, NEW g \in G, DecodeReply(g)
    PROVE  DecodedReply(recvBuf.data) # NoReply
<1>1. recvBuf.data[1] \in Unit
  BY EmptySeq, ElementOfSeq, LenProperties DEF DecodeReply, TInv, BufferType, DecodeHasData
<1>2. DecodedReply(recvBuf.data).of \in Nat \ {0}
  BY <1>1 DEF DecodedReply, Unit
<1>3. QED
  BY <1>2 DEF NoReply

\* Inside Process the results change once, where it starts to end.
LEMMA InnerResults ==
    ASSUME IInv, TInv, NEW g \in G, Inner(g)
    PROVE  /\ cmd' = cmd
           /\ \/ /\ UNCHANGED <<err, reply>>
                 /\ pc'[g] \in EndLabels <=> pc[g] \in EndLabels
              \/ /\ pc[g] \notin EndLabels /\ pc'[g] \in EndLabels
                 /\ \/ /\ UNCHANGED reply
                       /\ \E e \in Error \ {"nil"} : err' = [err EXCEPT ![g] = e]
                    \/ /\ UNCHANGED err
                       /\ \E r : r # NoReply /\ reply' = [reply EXCEPT ![g] = r]
<1> DEFINE Goes(label) == GoTo(g, label) /\ label \notin EndLabels /\ UNCHANGED <<err, reply>>
           Fails == UNCHANGED reply /\ \E e \in Error \ {"nil"} : Fail(g, e)
<1> USE DEF IInv, Shape, EndLabels
<1>1. ASSUME NEW label, Goes(label)
      PROVE  UNCHANGED <<err, reply>> /\ pc'[g] \notin EndLabels
  BY <1>1 DEF GoTo
<1>2. ASSUME Fails
      PROVE  /\ pc'[g] \in EndLabels /\ UNCHANGED reply
             /\ \E e \in Error \ {"nil"} : err' = [err EXCEPT ![g] = e]
  BY <1>2 DEF Fail, GoTo
<1>3. ASSUME NEW caller, reconnect(g, caller), UNCHANGED reply
      PROVE  Fails \/ \E label : Goes(label)
  BY <1>3 DEF reconnect, callConnect, Error
<1>4. ASSUME connected(g), UNCHANGED reply
      PROVE  Fails \/ \E label : Goes(label)
  BY <1>4 DEF connected, Error
<1> DEFINE Moves == cmd' = cmd /\ pc[g] \notin EndLabels /\ (Fails \/ \E label : Goes(label))
<1>5. CASE Moves
  BY <1>1, <1>2, <1>5
<1>6. CASE Begin(g)
  BY <1>6 DEF Begin, GoTo, localVars, Error
<1>7. CASE EncodeCmd(g)
  <2>1. cmd' = cmd /\ pc[g] \notin EndLabels /\ UNCHANGED reply
    BY <1>7 DEF EncodeCmd, localVars
  <2>2. Goes("send") \/ Fails \/ UNCHANGED <<pc, err>>
    BY <1>7, <2>1 DEF EncodeCmd, Error
  <2>3. QED
    BY <2>1, <2>2, <1>5
<1>8. CASE SendStep(g)
  <2>1. cmd' = cmd /\ pc[g] \notin EndLabels /\ UNCHANGED reply
    BY <1>8 DEF SendStep, GiveUpSend, SendBytes, SendBlocked, SendBroken, SendNotConnected,
       SendFails, SendPoll, Sending, localVars, outVars
  <2>2. CASE GiveUpSend(g) \/ SendFails(g)
    BY <2>1, <2>2, <1>5 DEF GiveUpSend, SendFails, Error
  <2>3. CASE SendBytes(g)
    <3>1. Goes("send") \/ Goes("receive")
      BY <2>3 DEF SendBytes, outVars
    <3>2. QED
      BY <2>1, <3>1, <1>5
  <2>4. CASE SendBlocked(g) \/ SendNotConnected(g)
    <3>1. Goes("sendPoll") \/ Goes("connect")
      BY <2>4 DEF SendBlocked, SendNotConnected, callConnect, outVars
    <3>2. QED
      BY <2>1, <3>1, <1>5
  <2>5. CASE SendBroken(g)
    BY <2>1, <2>5, <1>3, <1>5 DEF SendBroken
  <2>6. CASE SendPoll(g)
    <3>1. reconnect(g, "send") \/ Goes("send") \/ Fails
      BY <2>1, <2>6 DEF SendPoll, Error
    <3>2. QED
      BY <2>1, <3>1, <1>3, <1>5
  <2>7. QED
    BY <1>8, <2>2, <2>3, <2>4, <2>5, <2>6 DEF SendStep
<1>9. CASE ReceiveStep(g)
  <2>1. cmd' = cmd /\ pc[g] \notin EndLabels /\ UNCHANGED reply
    BY <1>9 DEF ReceiveStep, ReceiveWaits, GiveUpReceive, ReceiveBytes, ReceiveBlocked,
       ReceiveNotConnected, ReceiveClosed, ReceiveFails, ReceivePoll, Receiving, localVars, outVars
  <2>2. CASE GiveUpReceive(g) \/ ReceiveFails(g)
    BY <2>1, <2>2, <1>5 DEF GiveUpReceive, ReceiveFails, Error
  <2>3. CASE ReceiveBytes(g)
    <3>1. reconnect(g, "trunc") \/ Goes("decode") \/ UNCHANGED <<pc, err>>
      BY <2>1, <2>3 DEF ReceiveBytes
    <3>2. QED
      BY <2>1, <3>1, <1>3, <1>5
  <2>4. CASE ReceiveBlocked(g) \/ ReceiveNotConnected(g)
    <3>1. Goes("recvPoll") \/ Goes("connect")
      BY <2>4 DEF ReceiveBlocked, ReceiveNotConnected, callConnect, outVars
    <3>2. QED
      BY <2>1, <3>1, <1>5
  <2>5. CASE ReceiveClosed(g)
    BY <2>1, <2>5, <1>3, <1>5 DEF ReceiveClosed
  <2>6. CASE ReceivePoll(g)
    <3>1. Goes("receive") \/ Fails
      BY <2>1, <2>6 DEF ReceivePoll, Error
    <3>2. QED
      BY <2>1, <3>1, <1>5
  <2>7. QED
    BY <1>9, <2>2, <2>3, <2>4, <2>5, <2>6 DEF ReceiveStep, ReceiveWaits
<1>10. CASE Connect(g) \/ ConnectPoll(g)
  <2>1. cmd' = cmd /\ pc[g] \notin EndLabels /\ UNCHANGED reply
    BY <1>10 DEF Connect, ConnectPoll, localVars
  <2>2. connected(g) \/ Goes("connect") \/ Goes("connPoll") \/ Fails
    BY <1>10, <2>1 DEF Connect, ConnectPoll, Error
  <2>3. QED
    BY <2>1, <2>2, <1>4, <1>5
<1>11. CASE DecodeReply(g)
  <2>1. cmd' = cmd /\ pc[g] \notin EndLabels
    BY <1>11 DEF DecodeReply, localVars
  <2>2. \/ Fails
        \/ /\ GoTo(g, "clear") /\ UNCHANGED err
           /\ reply' = [reply EXCEPT ![g] = DecodedReply(recvBuf.data)]
    BY <1>11 DEF DecodeReply, Error
  <2>3. DecodedReply(recvBuf.data) # NoReply
    BY <1>11, DecodedSomething
  <2>4. QED
    BY <2>1, <2>2, <2>3, <1>5 DEF GoTo
<1>12. CASE ClearBufs(g)
  BY <1>12 DEF ClearBufs, GoTo, localVars, outVars
<1>13. QED
  BY <1>6, <1>7, <1>8, <1>9, <1>10, <1>11, <1>12 DEF Inner

LEMMA InnerResultsInv ==
    ASSUME SInv, NEW g \in G, Inner(g)
    PROVE  ResultsInv'
<1>1. PICK label \in WorkLabels : pc' = [pc EXCEPT ![g] = label]
  BY InnerMoves DEF SInv, IInv
<1>2. Inside(g)
  BY InnerMoves DEF SInv, IInv
<1>3. /\ err \in [G -> Error] /\ pc \in [G -> Labels]
      /\ reply \in [G -> [id : Nat, got : Nat, of : Nat]]
  BY DEF SInv, IInv, Shape, TInv, LocalType, ReplyType
<1>4. CASE UNCHANGED <<err, reply>> /\ (pc'[g] \in EndLabels <=> pc[g] \in EndLabels)
  <2>1. pc[g] # "dead" /\ label # "dead"
    BY <1>2 DEF Inside, WorkLabels, SendLabels, RecvLabels, ConnLabels
  <2>2. pc'[g] = label /\ \A h \in G \ {g} : pc'[h] = pc[h]
    BY <1>1, <1>3
  <2>3. \A h \in G : NoResult(h)' <=> NoResult(h)
    BY <1>4 DEF NoResult
  <2>4. QED
    BY <1>4, <2>1, <2>2, <2>3 DEF SInv, ResultsInv
<1>5. QED
  BY <1>1, <1>2, <1>3, <1>4, InnerResults DEF SInv, ResultsInv, NoResult

LEMMA NextResultsInv == SInv /\ [Next]_vars => ResultsInv'
<1> SUFFICES ASSUME SInv, [Next]_vars PROVE ResultsInv'
  OBVIOUS
<1> USE DEF SInv, IInv, Shape, ResultsInv, NoResult, EndLabels
<1>1. CASE UNCHANGED vars
  BY <1>1 DEF vars, outVars
<1>2. ASSUME NEW g \in G, Start(g) \/ Cancel(g) \/ EnterProcess(g)
      PROVE  ResultsInv'
  BY <1>2 DEF Start, Cancel, EnterProcess, GoTo, outVars
<1>3. ASSUME NEW g \in G, LeaveLoop(g) \/ StopProcessing(g)
      PROVE  ResultsInv'
  <2>1. CASE LeaveLoop(g)
    BY <2>1 DEF LeaveLoop, Return, GoTo, TInv, LocalType, ReplyType
  <2>2. CASE StopProcessing(g)
    BY <2>2 DEF StopProcessing, Return, GoTo, TInv, LocalType, ReplyType
  <2>3. QED
    BY <1>3, <2>1, <2>2
<1>4. CASE CloseClient \/ \E fd \in Fd : Peer(fd)
  <2>1. UNCHANGED outVars /\ (pc' = pc \/ pc' = [g \in G |-> "dead"])
    BY <1>4 DEF CloseClient, Peer, Establish, Refuse, PeerClose, PeerReset, Serve, Arrive,
       kernelOnly
  <2>2. QED
    BY <2>1 DEF outVars
<1>5. QED
  BY <1>1, <1>2, <1>3, <1>4, InnerResultsInv DEF Next, Step, Inner

\* A goroutine in Process has a result exactly when it is at the deferred calls
\* (the returns of Process).
THEOREM ResultsInvariance == Spec => []SInv
<1>1. Init => ResultsInv
  BY DEF Init, NewConnector, ResultsInv, NoResult, EndLabels
<1>2. IInv /\ TInv /\ ResultsInv <=> SInv
  BY DEF SInv
<1>3. QED
  BY <1>1, <1>2, NextResultsInv, TypeInvariance, PTL DEF Spec

-----------------------------------------------------------------------------
(***************************************************************************)
(* The refinement: what a step does to the phase and the answer of a       *)
(* command.                                                                *)
(***************************************************************************)
PhaseOf(label) ==
    IF label \in {"idle", "dead"} THEN label
    ELSE IF label = "client" THEN "waiting" ELSE "active"

\* Active is inside Process.
LEMMA PhaseIs ==
    ASSUME Shape, NEW g \in G
    PROVE  /\ phase[g] = PhaseOf(pc[g])
           /\ phase[g] = "active" <=> Inside(g)
BY DEF phase, PhaseOf, Shape, Labels, Inside, WorkLabels, SendLabels, RecvLabels, ConnLabels

LEMMA PhaseMoves ==
    ASSUME Shape, NEW g \in G, NEW label, pc' = [pc EXCEPT ![g] = label]
    PROVE  phase' = [phase EXCEPT ![g] = PhaseOf(label)]
BY DEF phase, PhaseOf, Shape

\* An answer is there as soon as there is a result.
LEMMA AnswerIs ==
    ASSUME NEW g \in G
    PROVE  /\ answer[g] \in {"none", "error", "own", "cut", "foreign"}
           /\ answer[g] = "none" <=> NoResult(g)
BY DEF answer, NoResult

\* It is a function of the command and the results.
LEMMA AnswerStays ==
    ASSUME UNCHANGED <<cmd, err, reply>>
    PROVE  answer' = answer
BY DEF answer

LEMMA AnswerDecided ==
    ASSUME TInv, cmd' = cmd, NEW g \in G,
           \/ /\ UNCHANGED reply
              /\ \E e \in Error \ {"nil"} : err' = [err EXCEPT ![g] = e]
           \/ /\ UNCHANGED err
              /\ \E r : r # NoReply /\ reply' = [reply EXCEPT ![g] = r]
    PROVE  \E a \in {"own", "cut", "foreign", "error"} : answer' = [answer EXCEPT ![g] = a]
<1>1. err \in [G -> Error] /\ reply \in [G -> [id : Nat, got : Nat, of : Nat]]
  BY DEF TInv, LocalType, ReplyType
<1>2. answer'[g] \in {"own", "cut", "foreign", "error"}
  BY <1>1 DEF answer
<1>3. \A h \in G \ {g} : answer'[h] = answer[h]
  BY <1>1 DEF answer
<1>4. answer = [h \in G |-> answer[h]] /\ answer' = [h \in G |-> answer'[h]]
  BY DEF answer
<1>5. answer' = [answer EXCEPT ![g] = answer'[g]]
  BY <1>3, <1>4
<1>6. QED
  BY <1>2, <1>5

\* Nothing of a command that returns is left.
LEMMA AnswerForgotten ==
    ASSUME TInv, NEW g \in G, Return(g)
    PROVE  answer' = [answer EXCEPT ![g] = "none"]
<1>1. /\ err \in [G -> Error] /\ reply \in [G -> [id : Nat, got : Nat, of : Nat]]
      /\ cmd \in [G -> Message]
  BY DEF TInv, LocalType, ReplyType
<1>2. answer'[g] = "none"
  BY <1>1 DEF answer, Return
<1>3. \A h \in G \ {g} : answer'[h] = answer[h]
  BY <1>1 DEF answer, Return
<1>4. QED
  BY <1>2, <1>3 DEF answer

LEMMA InitService == Init => AnyAnswer!Init
BY DEF Init, NewConnector, AnyAnswer!Init, phase, answer

LEMMA StepService == SInv /\ [Next]_vars => [AnyAnswer!Next]_(AnyAnswer!vars)
<1> SUFFICES ASSUME SInv, [Next]_vars
             PROVE  AnyAnswer!Next \/ UNCHANGED <<phase, answer>>
  BY DEF AnyAnswer!vars
<1> USE DEF SInv, IInv
<1>1. CASE UNCHANGED vars
  BY <1>1 DEF vars, localVars, outVars, phase, answer
<1>2. ASSUME NEW g \in G, Start(g) PROVE AnyAnswer!Call(g)
  <2>1. phase' = [phase EXCEPT ![g] = "waiting"] /\ phase[g] = "idle"
    BY <1>2, PhaseIs, PhaseMoves DEF Start, GoTo, PhaseOf
  <2>2. NoResult(g) /\ UNCHANGED <<err, reply>> /\ cmd \in [G -> Message]
    BY <1>2 DEF Start, outVars, ResultsInv, EndLabels, TInv, LocalType
  <2>3. \A h \in G \ {g} : cmd'[h] = cmd[h]
    BY <1>2, <2>2 DEF Start
  <2>4. answer' = answer
    BY <2>2, <2>3 DEF answer, NoResult
  <2>5. QED
    BY <2>1, <2>4 DEF AnyAnswer!Call, AnyAnswer!Move
<1>3. ASSUME NEW g \in G, Cancel(g) PROVE UNCHANGED <<phase, answer>>
  BY <1>3, AnswerStays DEF Cancel, phase, outVars
<1>4. ASSUME NEW g \in G, LeaveLoop(g) PROVE AnyAnswer!Abandon(g)
  <2>1. phase' = [phase EXCEPT ![g] = "idle"] /\ phase[g] = "waiting"
    BY <1>4, PhaseIs, PhaseMoves DEF LeaveLoop, Return, GoTo, PhaseOf
  <2>2. answer[g] = "none"
    BY <1>4, AnswerIs DEF LeaveLoop, ResultsInv, EndLabels
  <2>3. answer' = [answer EXCEPT ![g] = "none"]
    BY <1>4, AnswerForgotten DEF LeaveLoop
  <2>4. answer' = answer
    BY <2>2, <2>3 DEF answer
  <2>5. QED
    BY <2>1, <2>4 DEF AnyAnswer!Abandon, AnyAnswer!Move
<1>5. ASSUME NEW g \in G, EnterProcess(g) PROVE AnyAnswer!Enter(g)
  <2>1. phase' = [phase EXCEPT ![g] = PhaseOf("begin")]
    BY <1>5, PhaseMoves DEF EnterProcess, GoTo
  <2>2. phase[g] = PhaseOf("client")
    BY <1>5, PhaseIs DEF EnterProcess
  <2>3. phase' = [phase EXCEPT ![g] = "active"] /\ phase[g] = "waiting"
    BY <2>1, <2>2 DEF PhaseOf
  <2>4. \A h \in G : phase[h] # "active"
    BY <1>5, PhaseIs DEF EnterProcess, isProcessing, MutualExclusion
  <2>5. answer' = answer
    BY <1>5, AnswerStays DEF EnterProcess, localVars, outVars
  <2>6. QED
    BY <2>3, <2>4, <2>5 DEF AnyAnswer!Enter, AnyAnswer!Move
<1>6. ASSUME NEW g \in G, Inner(g) PROVE AnyAnswer!Decide(g) \/ UNCHANGED <<phase, answer>>
  <2>1. PICK label \in WorkLabels : pc' = [pc EXCEPT ![g] = label]
    BY <1>6, InnerMoves
  <2>2. Inside(g)
    BY <1>6, InnerMoves
  <2>3. PhaseOf(label) = "active"
    BY <2>1 DEF PhaseOf, WorkLabels, SendLabels, RecvLabels, ConnLabels
  <2>4. phase[g] = "active" /\ phase' = phase
    <3>1. phase[g] = "active" /\ phase' = [phase EXCEPT ![g] = "active"]
      BY <2>1, <2>2, <2>3, PhaseIs, PhaseMoves
    <3>2. phase = [h \in G |-> phase[h]]
      BY DEF phase
    <3>3. QED
      BY <3>1, <3>2
  <2>5. CASE UNCHANGED <<err, reply>>
    BY <1>6, <2>4, <2>5, InnerResults, AnswerStays
  <2>6. CASE ~UNCHANGED <<err, reply>>
    <3>1. \E a \in {"own", "cut", "foreign", "error"} : answer' = [answer EXCEPT ![g] = a]
      BY <1>6, <2>6, InnerResults, AnswerDecided
    <3>2. answer[g] = "none"
      BY <1>6, <2>2, <2>6, InnerResults, AnswerIs
         DEF ResultsInv, EndLabels, Inside, WorkLabels, SendLabels, RecvLabels, ConnLabels
    <3>3. QED
      BY <2>4, <3>1, <3>2 DEF AnyAnswer!Decide
  <2>7. QED
    BY <2>5, <2>6
<1>7. ASSUME NEW g \in G, StopProcessing(g) PROVE AnyAnswer!Leave(g)
  <2>1. phase' = [phase EXCEPT ![g] = "idle"] /\ phase[g] = "active"
    BY <1>7, PhaseIs, PhaseMoves DEF StopProcessing, Return, GoTo, PhaseOf
  <2>2. answer[g] # "none"
    BY <1>7, AnswerIs DEF StopProcessing, ResultsInv, EndLabels
  <2>3. answer' = [answer EXCEPT ![g] = "none"]
    BY <1>7, AnswerForgotten DEF StopProcessing
  <2>4. QED
    BY <2>1, <2>2, <2>3 DEF AnyAnswer!Leave, AnyAnswer!Move
<1>8. CASE CloseClient \/ \E fd \in Fd : Peer(fd)
  <2>1. /\ UNCHANGED <<localVars, outVars>>
        /\ pc' = pc \/ pc' = [g \in G |-> "dead"]
    BY <1>8 DEF CloseClient, Peer, Establish, Refuse, PeerClose, PeerReset, Serve, Arrive,
       kernelOnly
  <2>2. answer' = answer
    BY <2>1, AnswerStays DEF localVars, outVars
  <2>3. phase' = phase \/ phase' = [g \in G |-> "dead"]
    BY <2>1 DEF phase
  <2>4. QED
    BY <2>2, <2>3 DEF AnyAnswer!Next, AnyAnswer!Crash
<1>9. QED
  BY <1>1, <1>2, <1>3, <1>4, <1>5, <1>6, <1>7, <1>8 DEF Next, Step, Inner, AnyAnswer!Next

\* Whatever fails, and whoever cancels, closes or competes: commands are served one at
\* a time, and each leaves Process with exactly one answer (startProcessing,
\* the returns of Process and its deferred calls).
THEOREM ServiceImplemented == Spec => ServesOneByOne
<1>1. SInv /\ [Next]_vars => [AnyAnswer!Next]_(AnyAnswer!vars)
  BY StepService
<1>2. QED
  BY <1>1, InitService, ResultsInvariance, PTL DEF Spec, ServesOneByOne, AnyAnswer!Spec

-----------------------------------------------------------------------------
(***************************************************************************)
(* ErrSocketBadFD.  The messenger's descriptor is closed, and another one  *)
(* is c.socket, after a reconnect() whose connect() has failed.  When      *)
(* poll() neither times out nor returns another socket's error, that       *)
(* attempt is then over: the socket will not come up by itself, and the    *)
(* error that every command gets from now on does not hide a connection.   *)
(***************************************************************************)

\* After a poll() that times out the attempt is still in progress, and may succeed.
PollSetting == Faults \cap {"timeout", "poller"} = {}

ComesUp(fd) == kernel[fd] \in {"connecting", "up"}

\* Outside connect(), a c.socket that the messenger does not have is not up.
NoSocketMissed ==
    socket # NoSocket /\ msgrFd # socket /\ (\A g \in G : pc[g] \notin ConnLabels)
        => ~ComesUp(socket)

FdState(g) ==
    /\ pc[g] = "connect" => kernel[socket] \in {"fresh", "failed", "closed"}
    /\ pc[g] \in ConnLabels /\ ret[g] \in {"sendConn", "recvConn"} => msgrFd = socket
    /\ err[g] = "ErrSocketBadFD" => socket = NoSocket \/ ~ComesUp(socket)
    /\ pc[g] = "dead" => socket = NoSocket /\ \A h \in G : pc[h] = "dead"

FdInv == NoSocketMissed /\ \A g \in G : FdState(g)

LEMMA FdPoll ==
    ASSUME PollSetting, NEW fd, NEW ready, NEW outcome \in PollOutcomes(fd, ready)
    PROVE  \/ outcome = "nil" /\ ready
           \/ outcome = "ErrConnectionClosed" /\ kernel[fd] \in {"failed", "reset"}
           \/ outcome = "other" /\ kernel[fd] \in {"closed", "fresh"}
BY DEF PollSetting, PollOutcomes

\* Inside Process the others do not matter.
LEMMA OnlyOneUsesFds ==
    ASSUME SInv, FdInv, NEW g \in G, Inner(g),
           pc'[g] \notin ConnLabels /\ socket' # NoSocket /\ msgrFd' # socket' => ~ComesUp(socket)',
           FdState(g)'
    PROVE  FdInv'
<1>1. PICK label \in WorkLabels : pc' = [pc EXCEPT ![g] = label]
  BY InnerMoves DEF SInv, IInv
<1>2. Inside(g)
  BY InnerMoves DEF SInv, IInv
<1>3. ASSUME NEW h \in G \ {g}
      PROVE  /\ pc'[h] = pc[h] /\ pc'[h] \notin WorkLabels \cup {"dead"}
             /\ err'[h] = "nil"
  <2>1. pc'[h] = pc[h] /\ pc[h] \notin WorkLabels
    BY <1>1, <1>2, <1>3 DEF SInv, IInv, Shape, MutualExclusion, Inside
  <2>2. pc[h] # "dead"
    BY <1>2, <1>3 DEF FdInv, FdState, Inside, WorkLabels, SendLabels, RecvLabels, ConnLabels
  <2>3. err[h] = "nil"
    BY <2>1, <2>2 DEF SInv, ResultsInv, NoResult, EndLabels, WorkLabels
  <2>4. err'[h] = err[h]
    BY <1>3, InnerResults DEF SInv, TInv, LocalType
  <2>5. QED
    BY <2>1, <2>2, <2>3, <2>4
<1>4. \A h \in G \ {g} : FdState(h)'
  BY <1>3 DEF FdState, WorkLabels, ConnLabels
<1>5. NoSocketMissed'
  BY DEF NoSocketMissed, ComesUp
<1>6. QED
  BY <1>4, <1>5 DEF FdInv

\* What is done outside connect() to no socket.
LEMMA KeepsFds ==
    ASSUME SInv, FdInv, NEW g \in G, Inner(g), UNCHANGED <<kernel, socket, msgrFd>>,
           pc[g] \notin ConnLabels, pc'[g] \notin ConnLabels,
           err'[g] = "ErrSocketBadFD" => err[g] = "ErrSocketBadFD" \/ ~ComesUp(msgrFd)
    PROVE  FdInv'
<1>1. /\ Inside(g) /\ \A h \in G : pc[h] \notin ConnLabels
      /\ pc'[g] # "dead"
  BY InnerMoves DEF SInv, IInv, Shape, MutualExclusion, Inside, WorkLabels, SendLabels, RecvLabels,
     ConnLabels
<1>2. socket # NoSocket /\ msgrFd # socket => ~ComesUp(socket)
  BY <1>1 DEF FdInv, NoSocketMissed
<1>3. FdState(g)'
  BY <1>1, <1>2 DEF FdInv, FdState, ComesUp, ConnLabels
<1>4. QED
  BY <1>2, <1>3, OnlyOneUsesFds DEF ComesUp

LEMMA ReconnectFds ==
    ASSUME SInv, FdInv, NEW g \in G, Inner(g), NEW caller \in {"send", "resend", "trunc"},
           pc[g] \notin EndLabels, reconnect(g, caller)
    PROVE  FdInv'
<1>1. /\ pc \in [G -> Labels] /\ kernel \in [Fd -> State] /\ msgrFd' = msgrFd
      /\ ret \in [G -> Callers] /\ err \in [G -> Error]
  BY DEF reconnect, SInv, IInv, Shape, TInv, LocalType
<1>2. err[g] = "nil"
  <2>1. pc[g] # "dead"
    BY InnerMoves DEF SInv, IInv, Inside, WorkLabels, SendLabels, RecvLabels, ConnLabels
  <2>2. QED
    BY <2>1 DEF SInv, ResultsInv, NoResult
<1>3. CASE \E fd \in Fd : /\ socket' = fd
                          /\ kernel' = [closeSocket(socket) EXCEPT ![fd] = "fresh"]
                          /\ callConnect(g, caller)
                          /\ UNCHANGED err
  <2>1. pc'[g] = "connect" /\ ret'[g] = caller /\ err'[g] = "nil"
    BY <1>1, <1>2, <1>3 DEF callConnect, GoTo
  <2>2. kernel'[socket'] = "fresh"
    BY <1>1, <1>3 DEF closeSocket
  <2>3. FdState(g)'
    BY <2>1, <2>2 DEF FdState
  <2>4. QED
    BY <2>1, <2>3, OnlyOneUsesFds DEF ConnLabels
<1>4. CASE socket' = NoSocket /\ Fail(g, "other")
  <2>1. pc'[g] = "clear" /\ err'[g] = "other"
    BY <1>1, <1>4 DEF Fail, GoTo
  <2>2. FdState(g)'
    BY <2>1 DEF FdState, ConnLabels
  <2>3. QED
    BY <1>4, <2>2, OnlyOneUsesFds
<1>5. QED
  BY <1>3, <1>4 DEF reconnect

\* connect() moves the messenger, or ends with its socket down.
LEMMA ConnectFds ==
    ASSUME PollSetting, SInv, FdInv, NEW g \in G, Connect(g) \/ ConnectPoll(g)
    PROVE  FdInv'
<1>1. /\ Inner(g) /\ pc[g] \in ConnLabels /\ FdState(g) /\ UNCHANGED <<socket, ret>>
      /\ pc \in [G -> Labels] /\ kernel \in [Fd -> State] /\ err \in [G -> Error]
      /\ ret[g] \in Callers
  BY DEF Inner, Connect, ConnectPoll, ConnLabels, FdInv, SInv, IInv, Shape, TInv, LocalType
<1>2. socket \in Fd /\ err[g] = "nil"
  BY <1>1, UserHasSocket DEF SInv, IInv, Shape, UsingLabels, ResultsInv, NoResult, EndLabels, ConnLabels
<1>3. CASE connected(g)
  <2>1. msgrFd' = socket'
    BY <1>1, <1>3 DEF connected, ChangeSocketFd, FdState, Callers
  <2>2. pc'[g] \in {"send", "receive", "clear"} /\ err'[g] # "ErrSocketBadFD"
    BY <1>1, <1>2, <1>3 DEF connected, Fail, GoTo
  <2>3. FdState(g)'
    BY <2>1, <2>2 DEF FdState, ConnLabels
  <2>4. QED
    BY <1>1, <2>1, <2>3, OnlyOneUsesFds
<1>4. ASSUME NEW e \in Error \ {"ErrSocketBadFD"}, Fail(g, e), ~ComesUp(socket)'
      PROVE  FdInv'
  <2>1. pc'[g] = "clear" /\ err'[g] = e
    BY <1>1, <1>4 DEF Fail, GoTo
  <2>2. FdState(g)'
    BY <1>4, <2>1 DEF FdState, ConnLabels
  <2>3. QED
    BY <1>1, <1>4, <2>2, OnlyOneUsesFds
<1>5. CASE Connect(g)
  <2>1. kernel[socket] \in {"fresh", "failed", "closed"}
    BY <1>1, <1>5 DEF Connect, FdState
  <2>2. CASE connected(g)
    BY <1>3, <2>2
  <2>3. CASE GoTo(g, "connPoll") /\ notConnected /\ UNCHANGED err
    <3>1. pc'[g] = "connPoll" /\ UNCHANGED <<err, msgrFd>>
      BY <1>1, <2>3 DEF GoTo, notConnected
    <3>2. FdState(g)'
      BY <1>1, <1>2, <3>1 DEF FdState
    <3>3. QED
      BY <1>1, <3>1, <3>2, OnlyOneUsesFds DEF ConnLabels
  <2>4. CASE \E e \in {"ErrOperationRetriesFailed", "other"} :
                /\ Fail(g, e)
                /\ kernel' = kernel \/ kernel' = [kernel EXCEPT ![socket] = "fresh"]
    <3>1. ~ComesUp(socket)'
      BY <1>1, <1>2, <2>1, <2>4 DEF ComesUp
    <3>2. QED
      BY <1>4, <2>4, <3>1 DEF Error
  <2>5. QED
    BY <1>5, <2>1, <2>2, <2>3, <2>4 DEF Connect
<1>6. CASE ConnectPoll(g)
  <2>1. PICK outcome \in PollOutcomes(socket, Writable(socket)) :
          \/ outcome = "nil" /\ connected(g)
          \/ outcome = "ErrPollTimeout"
          \/ outcome \in {"ErrConnectionClosed", "other"} /\ Fail(g, outcome)
    BY <1>6 DEF ConnectPoll
  <2>2. \/ outcome = "nil"
        \/ outcome \in {"ErrConnectionClosed", "other"}
           /\ kernel[socket] \in {"failed", "reset", "closed", "fresh"}
    BY FdPoll
  <2>3. UNCHANGED <<kernel, socket>>
    BY <1>6 DEF ConnectPoll
  <2>4. CASE connected(g)
    BY <1>3, <2>4
  <2>5. CASE Fail(g, outcome) /\ outcome \in {"ErrConnectionClosed", "other"}
             /\ kernel[socket] \in {"failed", "reset", "closed", "fresh"}
    BY <1>4, <2>3, <2>5 DEF ComesUp, Error
  <2>6. QED
    BY <2>1, <2>2, <2>4, <2>5
<1>7. QED
  BY <1>5, <1>6

LEMMA TransferFds ==
    ASSUME PollSetting, SInv, FdInv, NEW g \in G, SendStep(g) \/ ReceiveStep(g)
    PROVE  FdInv'
<1>1. Inner(g) /\ pc[g] \in SendLabels \cup RecvLabels
  BY DEF Inner, SendStep, GiveUpSend, SendBytes, SendBlocked, SendBroken, SendNotConnected,
     SendFails, SendPoll, Sending, SendLabels, ReceiveStep, ReceiveWaits, GiveUpReceive,
     ReceiveBytes, ReceiveBlocked, ReceiveNotConnected, ReceiveClosed, ReceiveFails, ReceivePoll,
     Receiving, RecvLabels
<1>2. /\ pc[g] \notin ConnLabels /\ pc[g] \notin EndLabels
      /\ pc \in [G -> Labels] /\ err \in [G -> Error]
      /\ ret \in [G -> Callers]
  BY <1>1 DEF ConnLabels, SendLabels, RecvLabels, EndLabels, SInv, IInv, Shape, TInv, LocalType
<1>3. err[g] = "nil"
  BY <1>1, <1>2 DEF SInv, ResultsInv, NoResult, SendLabels, RecvLabels
<1>4. CASE /\ UNCHANGED <<kernel, connVars>>
           /\ \/ UNCHANGED err /\ \E label \in {"send", "receive", "sendPoll", "recvPoll", "decode"} :
                                     GoTo(g, label)
              \/ UNCHANGED <<pc, err>>
              \/ \E e \in Error \ {"ErrSocketBadFD"} : Fail(g, e)
              \/ Fail(g, "ErrSocketBadFD") /\ kernel[msgrFd] = "closed"
  <2>1. pc'[g] \notin ConnLabels
    BY <1>2, <1>4 DEF GoTo, Fail, ConnLabels
  <2>2. err'[g] = "ErrSocketBadFD" => ~ComesUp(msgrFd)
    BY <1>2, <1>3, <1>4 DEF GoTo, Fail, ComesUp
  <2>3. QED
    BY <1>1, <1>2, <1>4, <2>1, <2>2, KeepsFds DEF connVars
<1>5. CASE \E caller \in {"send", "resend", "trunc"} : reconnect(g, caller)
  BY <1>1, <1>2, <1>5, ReconnectFds
<1>6. CASE SendNotConnected(g) \/ ReceiveNotConnected(g)
  <2>1. PICK caller \in {"sendConn", "recvConn"} : callConnect(g, caller)
    BY <1>6 DEF SendNotConnected, ReceiveNotConnected
  <2>2. UNCHANGED <<kernel, socket, msgrFd, err>> /\ kernel[msgrFd] \in {"fresh", "failed"}
    BY <1>6 DEF SendNotConnected, ReceiveNotConnected, outVars, connVars
  <2>3. msgrFd = socket
    BY <2>2 DEF SInv, IInv, Shape, SocketInv, NoStraySocket
  <2>4. pc'[g] = "connect"
    BY <1>2, <2>1 DEF callConnect, GoTo
  <2>5. FdState(g)'
    BY <1>3, <2>2, <2>3, <2>4 DEF FdState
  <2>6. QED
    BY <1>1, <2>4, <2>5, OnlyOneUsesFds DEF ConnLabels
<1>7. CASE SendStep(g) /\ ~SendNotConnected(g)
  <2>1. CASE GiveUpSend(g) \/ SendBytes(g) \/ SendBlocked(g) \/ SendFails(g)
    BY <1>4, <2>1 DEF GiveUpSend, SendBytes, SendBlocked, SendFails, outVars, Error
  <2>2. CASE SendBroken(g)
    BY <1>5, <2>2 DEF SendBroken
  <2>3. CASE SendPoll(g)
    BY <1>4, <1>5, <2>3 DEF SendPoll, noReconnect, Error
  <2>4. QED
    BY <1>7, <2>1, <2>2, <2>3 DEF SendStep
<1>8. CASE ReceiveStep(g) /\ ~ReceiveNotConnected(g)
  <2>1. CASE GiveUpReceive(g) \/ ReceiveBlocked(g) \/ ReceiveFails(g)
    BY <1>4, <2>1 DEF GiveUpReceive, ReceiveBlocked, ReceiveFails, outVars, Error
  <2>2. CASE ReceiveClosed(g)
    BY <1>5, <2>2 DEF ReceiveClosed
  <2>3. CASE ReceiveBytes(g)
    <3>1. \/ reconnect(g, "trunc")
          \/ /\ UNCHANGED <<kernel, connVars, err>>
             /\ GoTo(g, "decode") \/ UNCHANGED pc
      BY <2>3 DEF ReceiveBytes
    <3>2. QED
      BY <1>4, <1>5, <3>1
  <2>4. CASE ReceivePoll(g)
    BY <1>4, <2>4 DEF ReceivePoll, Error
  <2>5. QED
    BY <1>8, <2>1, <2>2, <2>3, <2>4 DEF ReceiveStep, ReceiveWaits
<1>9. QED
  BY <1>6, <1>7, <1>8

LEMMA CalmFds ==
    ASSUME SInv, FdInv, NEW g \in G, Begin(g) \/ EncodeCmd(g) \/ DecodeReply(g) \/ ClearBufs(g)
    PROVE  FdInv'
<1>1. Inner(g) /\ UNCHANGED <<kernel, socket, msgrFd>>
  BY DEF Inner, Begin, EncodeCmd, DecodeReply, ClearBufs, connVars
<1>2. pc[g] \notin ConnLabels /\ pc'[g] \notin ConnLabels
  BY DEF Begin, EncodeCmd, DecodeReply, ClearBufs, Fail, GoTo, ConnLabels, SInv, IInv, Shape
<1>3. err'[g] = "ErrSocketBadFD" => err[g] = "ErrSocketBadFD"
  BY DEF Begin, EncodeCmd, DecodeReply, ClearBufs, Fail, outVars, SInv, TInv, LocalType
<1>4. QED
  BY <1>1, <1>2, <1>3, KeepsFds

LEMMA OuterFds ==
    ASSUME SInv, FdInv, NEW g \in G,
           \/ Start(g) \/ Cancel(g) \/ LeaveLoop(g)
           \/ EnterProcess(g) \/ StopProcessing(g)
    PROVE  FdInv'
<1>1. /\ UNCHANGED <<kernel, socket, msgrFd, ret>>
      /\ pc \in [G -> Labels] /\ err \in [G -> Error]
  BY DEF Start, Cancel, LeaveLoop, EnterProcess, StopProcessing, connVars, retryVars, SInv, IInv,
     Shape, TInv, LocalType
<1>2. \/ UNCHANGED <<pc, err>>
      \/ /\ pc[g] \notin ConnLabels \cup {"dead"} /\ pc'[g] \notin ConnLabels \cup {"dead"}
         /\ err'[g] \in {err[g], "nil"}
         /\ \A h \in G \ {g} : pc'[h] = pc[h] /\ err'[h] = err[h]
  BY <1>1 DEF Start, Cancel, LeaveLoop, EnterProcess, StopProcessing, Return, GoTo, outVars,
     ConnLabels
<1>3. QED
  BY <1>1, <1>2 DEF FdInv, FdState, NoSocketMissed, ComesUp, ConnLabels

\* The kernel takes no socket up by itself, and Close takes one down.
LEMMA EnvironmentFds ==
    ASSUME SInv, FdInv, CloseClient \/ \E fd \in Fd : Peer(fd)
    PROVE  FdInv'
<1> USE DEF FdInv, FdState, NoSocketMissed, ComesUp
<1>1. kernel \in [Fd -> State] /\ UNCHANGED <<socket, msgrFd, ret, err>>
  BY DEF CloseClient, Peer, Establish, Refuse, PeerClose, PeerReset, Serve, Arrive, kernelOnly,
     retryVars, outVars, connVars, SInv, IInv, Shape
<1>2. CASE \E fd \in Fd : Peer(fd)
  <2>1. PICK fd \in Fd : /\ pc' = pc
                         /\ \/ kernel' = kernel
                            \/ /\ kernel[fd] \in {"connecting", "up", "eof"}
                               /\ \E s \in State \ {"connecting"} :
                                     /\ kernel' = [kernel EXCEPT ![fd] = s]
                                     /\ s = "up" => kernel[fd] = "connecting"
    <3>1. PICK fd \in Fd : Peer(fd)
      BY <1>2
    <3>2. pc' = pc
      BY <3>1 DEF Peer, Establish, Refuse, PeerClose, PeerReset, Serve, Arrive, kernelOnly
    <3>3. CASE Establish(fd) \/ Refuse(fd)
      BY <3>2, <3>3 DEF Establish, Refuse, State
    <3>4. CASE PeerClose(fd) \/ PeerReset(fd)
      BY <3>2, <3>4 DEF PeerClose, PeerReset, State
    <3>5. CASE Serve(fd) \/ Arrive(fd)
      BY <3>2, <3>5, ZenonT(30) DEF Serve, Arrive, State
    <3>6. QED
      BY <3>1, <3>3, <3>4, <3>5 DEF Peer
  <2>2. socket \in Fd \cup {NoSocket}
    BY DEF SInv, IInv, Shape
  <2>3. socket = NoSocket => kernel' = kernel
    BY <2>1, NilMeansClosed DEF SInv, IInv, SocketInv
  <2>4. socket \in Fd => /\ ~ComesUp(socket) => ~ComesUp(socket)'
                         /\ kernel[socket] \in {"fresh", "failed", "closed"} => kernel'[socket] = kernel[socket]
    BY <1>1, <2>1
  <2>5. QED
    BY <1>1, <2>1, <2>2, <2>3, <2>4
<1>3. CASE CloseClient /\ socket = NoSocket
  BY <1>1, <1>3, FdAssumption DEF CloseClient, ConnLabels, SInv, IInv, Shape
<1>4. CASE CloseClient /\ socket # NoSocket
  <2>1. socket \in Fd /\ kernel' = [kernel EXCEPT ![socket] = "closed"] /\ pc' = pc
    BY <1>4 DEF CloseClient, closeSocket, SInv, IInv, Shape
  <2>2. kernel'[socket'] = "closed"
    BY <1>1, <2>1
  <2>3. QED
    BY <1>1, <2>1, <2>2
<1>5. QED
  BY <1>2, <1>3, <1>4

LEMMA NextFdInv ==
    ASSUME PollSetting
    PROVE  SInv /\ FdInv /\ [Next]_vars => FdInv'
<1> SUFFICES ASSUME SInv, FdInv, [Next]_vars PROVE FdInv'
  OBVIOUS
<1>1. CASE UNCHANGED vars
  BY <1>1 DEF vars, retryVars, outVars, connVars, FdInv, FdState, NoSocketMissed, ComesUp
<1>2. QED
  BY <1>1, OuterFds, CalmFds, TransferFds, ConnectFds, EnvironmentFds DEF Next, Step

\* No command fails on a closed descriptor while c.socket is connected: a reconnect()
\* that succeeds moves the messenger (ChangeSocketFd), and one that fails leaves
\* no connection attempt behind.
THEOREM NoConnectionMissed ==
    ASSUME PollSetting
    PROVE  Spec => []NoBadFdWhileUp
<1>1. Init => FdInv
  BY DEF Init, NewConnector, FdInv, FdState, NoSocketMissed, ConnLabels
<1>2. FdInv => NoBadFdWhileUp
  BY DEF FdInv, FdState, ComesUp, NoBadFdWhileUp
<1>3. QED
  BY <1>1, <1>2, NextFdInv, ResultsInvariance, PTL DEF Spec

=============================================================================

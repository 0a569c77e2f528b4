---------------------------- MODULE EpollProofs ----------------------------
(***************************************************************************)
(* Proofs about the poller, for any finite number of sockets, any size of  *)
(* e.eventsBuf and all the faults of AllFaults; and, for one socket whose  *)
(* calls have no deadline, that it does not panic, leaves nobody waiting   *)
(* without a goroutine that works for it, and answers truly.               *)
(***************************************************************************)
EXTENDS Epoll, FiniteSetTheorems, TLAPS

-----------------------------------------------------------------------------
(***************************************************************************)
(* The operators of Epoll keep the types.                                  *)
(***************************************************************************)

\* What processEvents answers for an event is a set of the driver's errors.
LEMMA VerdictType == \A fd, flags : Verdict(fd, flags) \in SUBSET Err
BY DEF Verdict, Err

\* processPollError turns errors into errors.
LEMMA ProcessPollErrorType ==
    \A errs \in SUBSET Err : processPollError(errs) \in SUBSET Err
BY DEF processPollError, Err

\* handleEpollError yields errors of the driver.
LEMMA CtlErrorType == \A fd : CtlError(fd) \in SUBSET Err
BY DEF CtlError, Err

\* epoll_wait reports flags.
LEMMA ReportedType ==
    ASSUME TypeOK
    PROVE  \A fd \in Fd : Reported(fd) \in SUBSET Flag
BY DEF TypeOK, Reported, Flag

\* The number of events of a batch fits e.eventsBuf and is not zero.
LEMMA BatchSize ==
    ASSUME NEW batch \in SUBSET EpollInstance, batch # {},
           \/ batch = EpollInstance /\ Cardinality(batch) <= EventsBufLen
           \/ Cardinality(batch) = EventsBufLen
    PROVE  Cardinality(batch) \in 1..EventsBufLen
<1>1. IsFiniteSet(batch)
  BY FdAssumption, FS_Subset DEF EpollInstance
<1>2. Cardinality(batch) \in Nat /\ Cardinality(batch) # 0
  BY <1>1, FS_CardinalityType, FS_EmptySet
<1>3. QED
  BY <1>2, BoundsAssumption

-----------------------------------------------------------------------------
(***************************************************************************)
(* Type correctness, one step for each action.                             *)
(***************************************************************************)
LEMMA TypeInit == Init => TypeOK
<1> SUFFICES ASSUME Init PROVE TypeOK
  OBVIOUS
<1>1. sockets \in [Fd -> [event : EventType \cup {NoEvent}, chan : Nat]]
  BY DEF Init, NoUnit
<1>2. interest \in [Fd -> SUBSET Flag] /\ cond \in [Fd -> SUBSET Flag]
  BY DEF Init, Flag
<1>3. NoEvents \in [Fd -> SUBSET Err] /\ NoEvents \in [Fd -> SUBSET Flag]
  BY DEF NoEvents
<1>4. QED
  BY <1>1, <1>2, <1>3, BoundsAssumption DEF Init, TypeOK

\* Every step of the poller, of its callers and of the kernel keeps the types.
LEMMA TypeNext == TypeOK /\ [Next]_vars => TypeOK'
<1> SUFFICES ASSUME TypeOK, [Next]_vars PROVE TypeOK'
  OBVIOUS
<1>1. ASSUME NEW fd \in Fd, KernelEvent(fd) PROVE TypeOK'
  BY <1>1, EnvAssumption
     DEF TypeOK, KernelEvent, pollVars, loopVars, senderVars, errVars
<1>2. ASSUME NEW fd \in Fd, SocketIO(fd) PROVE TypeOK'
  BY <1>2 DEF TypeOK, SocketIO, pollVars, loopVars, senderVars, errVars
<1>3. ASSUME NEW fd \in Fd, CloseSocket(fd) PROVE TypeOK'
  BY <1>3 DEF TypeOK, CloseSocket, pollVars, loopVars, senderVars, errVars
<1>4. ASSUME NEW fd \in Fd, NewSocket(fd) PROVE TypeOK'
  BY <1>4 DEF TypeOK, NewSocket, pollVars, loopVars, senderVars, errVars
<1>5. ASSUME NEW fd \in Fd, NEW type \in EventType, StartPoll(fd, type) PROVE TypeOK'
  BY <1>5 DEF TypeOK, StartPoll, loopVars, senderVars, errVars, kernelVars
<1>6. ASSUME NEW fd \in Fd, Expire(fd) PROVE TypeOK'
  BY <1>6 DEF TypeOK, Expire, loopVars, senderVars, errVars, kernelVars
<1>7. ASSUME NEW fd \in Fd, CheckDeadline(fd) PROVE TypeOK'
  <2>1. {"ErrPollTimeout"} \in SUBSET Err
    BY DEF Err
  <2>2. CASE expired[fd]
    BY <1>7, <2>1, <2>2 DEF TypeOK, CheckDeadline, Return,
                            loopVars, senderVars, errVars, kernelVars
  <2>3. CASE ~expired[fd]
    BY <1>7, <2>3 DEF TypeOK, CheckDeadline, GoTo, loopVars, senderVars, errVars, kernelVars
  <2>4. QED
    BY <2>2, <2>3
<1>8. ASSUME NEW fd \in Fd, AddUnexpErr(fd) PROVE TypeOK'
  BY <1>8, ProcessPollErrorType
     DEF TypeOK, AddUnexpErr, Return, NoEvent, deleteSocketUnexpErr,
         loopVars, senderVars, errVars, kernelVars
<1>9. ASSUME NEW fd \in Fd, AddError(fd) PROVE TypeOK'
  <2>1. CASE GoTo(fd, "check")
    BY <1>9, <2>1 DEF TypeOK, AddError, GoTo, loopVars, senderVars, errVars, kernelVars
  <2>2. CASE \E e \in SUBSET Err : Return(fd, e)
    BY <1>9, <2>2 DEF TypeOK, AddError, Return, NoEvent,
                      loopVars, senderVars, errVars, kernelVars
  <2>3. GoTo(fd, "check") \/ \E e \in SUBSET Err : Return(fd, e)
    BY <1>9, CtlErrorType, ProcessPollErrorType DEF AddError
  <2>4. QED
    BY <2>1, <2>2, <2>3
<1>10. ASSUME NEW fd \in Fd, AddUnit(fd) PROVE TypeOK'
  <2>1. EventMask(event[fd]) \in SUBSET Flag
    BY DEF EventMask, Flag
  <2>2. sockets' \in [Fd -> [event : EventType \cup {NoEvent}, chan : Nat]]
    BY <1>10 DEF TypeOK, AddUnit, addSocketInPolling
  <2>3. QED
    BY <1>10, <2>1, <2>2 DEF TypeOK, AddUnit, GoTo, senderVars, errVars
<1>11. ASSUME NEW fd \in Fd, SelectTimeout(fd) PROVE TypeOK'
  BY <1>11 DEF TypeOK, SelectTimeout, GoTo, loopVars, senderVars, errVars, kernelVars
<1>12. ASSUME NEW fd \in Fd, DeleteSocketFromPolling(fd) PROVE TypeOK'
  BY <1>12 DEF TypeOK, DeleteSocketFromPolling, deleteSocketFromPolling, Return,
               NoUnit, NoEvent, Err, loopVars, senderVars, errVars, kernelVars
<1>13. ASSUME NEW w \in WaitId, WaitSyscall(w) PROVE TypeOK'
  <2>1. PICK batch \in SUBSET EpollInstance :
            /\ batch # {}
            /\ \/ batch = EpollInstance /\ Cardinality(batch) <= EventsBufLen
               \/ Cardinality(batch) = EventsBufLen
            /\ eventsBuf' = [fd \in Fd |-> IF fd \in batch THEN Reported(fd) ELSE {}]
            /\ waitN' = [waitN EXCEPT ![w] = Cardinality(batch)]
    BY <1>13 DEF WaitSyscall
  <2>2. Cardinality(batch) \in 1..EventsBufLen
    BY <2>1, BatchSize
  <2>3. waitN' \in [WaitId -> Nat]
    BY <2>1, <2>2, BoundsAssumption DEF TypeOK
  <2>4. eventsBuf' \in [Fd -> SUBSET Flag]
    BY <2>1, ReportedType
  <2>5. QED
    BY <1>13, <2>3, <2>4 DEF TypeOK, WaitSyscall, pollVars, senderVars, errVars, kernelVars
<1>14. ASSUME NEW w \in WaitId, WaitError(w) PROVE TypeOK'
  BY <1>14 DEF TypeOK, WaitError, Err, pollVars, senderVars, kernelVars
<1>15. ASSUME NEW w \in WaitId, WaitBatch(w) PROVE TypeOK'
  <2>1. readyEvents' \in [Fd -> SUBSET Flag] /\ eventsBuf' \in [Fd -> SUBSET Flag]
    BY <1>15 DEF TypeOK, WaitBatch, addReadyEvents, NoEvents
  <2>2. spawned' \in [1..EventsBufLen -> Nat] /\ waitN' \in [WaitId -> Nat]
    <3>1. spawned \in [1..EventsBufLen -> Nat] /\ waitN \in [WaitId -> Nat]
      BY DEF TypeOK
    <3>2. /\ spawned' = [spawned EXCEPT ![waitN[w]] = @ + 1]
          /\ waitN' = [waitN EXCEPT ![w] = 0]
      BY <1>15 DEF WaitBatch
    <3>3. waitN' \in [WaitId -> Nat]
      BY <3>1, <3>2
    <3>4. CASE waitN[w] \in 1..EventsBufLen
      BY <3>1, <3>2, <3>3, <3>4
    <3>5. CASE waitN[w] \notin 1..EventsBufLen
      <4>1. spawned' = spawned
        BY <3>1, <3>2, <3>5
      <4>2. QED
        BY <3>1, <3>3, <4>1
    <3>6. QED
      BY <3>4, <3>5
  <2>3. polling' \in BOOLEAN /\ waitPc' \in [WaitId -> {"dead", "syscall", "lock"}]
    <3>1. CASE AllReady(waitN[w])
      BY <1>15, <3>1 DEF TypeOK, WaitBatch, stopPolling
    <3>2. CASE ~AllReady(waitN[w])
      BY <1>15, <3>2 DEF TypeOK, WaitBatch
    <3>3. QED
      BY <3>1, <3>2
  <2>4. QED
    BY <1>15, <2>1, <2>2, <2>3
       DEF TypeOK, WaitBatch, pollVars, senderVars, errVars, kernelVars
<1>16. ASSUME NEW n \in 1..EventsBufLen, ProcessEvents(n) PROVE TypeOK'
  <2>1. spawned' \in [1..EventsBufLen -> Nat]
    <3>1. spawned \in [1..EventsBufLen -> Nat] /\ spawned[n] > 0
      BY <1>16 DEF TypeOK, ProcessEvents
    <3>2. spawned[n] - 1 \in Nat
      BY <3>1
    <3>3. spawned' = [spawned EXCEPT ![n] = @ - 1]
      BY <1>16 DEF ProcessEvents
    <3>4. QED
      BY <3>1, <3>2, <3>3
  <2>2. CASE Cardinality(ReadyFds) # n
    BY <1>16, <2>1, <2>2 DEF TypeOK, ProcessEvents, pollVars, kernelVars
  <2>3. CASE Cardinality(ReadyFds) = n
    <3>1. verdict' \in [Fd -> SUBSET Err]
      <4>1. verdict' = [fd \in Fd |-> IF fd \in ReadyFds
                                        THEN Verdict(fd, readyEvents[fd]) ELSE {}]
        BY <1>16, <2>3 DEF ProcessEvents
      <4>2. \A fd \in Fd : Verdict(fd, readyEvents[fd]) \in SUBSET Err
        BY VerdictType
      <4>3. QED
        BY <4>1, <4>2
    <3>2. toSend' \in SUBSET Fd
      BY <1>16, <2>3 DEF ProcessEvents, ReadyFds
    <3>3. QED
      BY <1>16, <2>1, <2>3, <3>1, <3>2 DEF TypeOK, ProcessEvents, pollVars, kernelVars
  <2>4. QED
    BY <2>2, <2>3
<1>17. CASE PushError
  BY <1>17 DEF TypeOK, PushError, pollVars, loopVars, kernelVars
<1>18. ASSUME NEW fd \in Fd, NobodyWaits(fd) PROVE TypeOK'
  BY <1>18 DEF TypeOK, NobodyWaits, pollVars, loopVars, errVars, kernelVars
<1>19. ASSUME NEW fd \in Fd, BlockOnChan(fd) PROVE TypeOK'
  BY <1>19 DEF TypeOK, BlockOnChan, pollVars, loopVars, errVars, kernelVars
<1>20. ASSUME NEW fd \in Fd, Deliver(fd) PROVE TypeOK'
  <2>1. processPollError(verdict[fd]) \in SUBSET Err
    BY ProcessPollErrorType DEF TypeOK
  <2>2. QED
    BY <1>20, <2>1 DEF TypeOK, Deliver, Return, deleteSocketFromPolling, NoUnit, NoEvent,
                       loopVars, errVars, kernelVars
<1>21. CASE Unlock
  BY <1>21 DEF TypeOK, Unlock, clearReadyEvents, NoEvents, pollVars, errVars, kernelVars
<1>22. CASE UNCHANGED vars
  BY <1>22 DEF TypeOK, vars, pollVars, loopVars, senderVars, errVars, kernelVars
<1>23. QED
  BY <1>1, <1>2, <1>3, <1>4, <1>5, <1>6, <1>7, <1>8, <1>9, <1>10, <1>11, <1>12,
     <1>13, <1>14, <1>15, <1>16, <1>17, <1>18, <1>19, <1>20, <1>21, <1>22
     DEF Next, Environment, Poll, LockedCall, Wait, Sender

\* The state of the poller, of its goroutines and of its callers always has
\* the types of the Go declarations.
THEOREM TypeCorrect == Spec => []TypeOK
BY TypeInit, TypeNext, PTL DEF Spec

-----------------------------------------------------------------------------
(***************************************************************************)
(* The inductive invariant behind the safety properties.                   *)
(***************************************************************************)

\* Only a failed epoll_wait starts pushError, and after it no wait() runs.
PushersComeFromDeath == (pushers > 0 \/ mu = "pushError") => LoopDied

\* Whoever blocks on a channel holds e.mu, and the unit it found in
\* e.sockets is still there.
BlockedOnUnit == sendTo # NoFd => mu # "free" /\ isSocketInPolling(sendTo)

\* wait() asks for the mutex with a batch that is not empty.
BatchInHand == \A w \in WaitId : waitPc[w] = "lock" => waitN[w] \in 1..EventsBufLen

IInv ==
    /\ TypeOK
    /\ SingleWaitLoop
    /\ PushersComeFromDeath
    /\ BlockedOnUnit
    /\ WaitingIsRegistered
    /\ UnitsAreCurrent

\* Nothing is registered and nobody runs at the start.
LEMMA InvInit == Init => IInv
<1> SUFFICES ASSUME Init PROVE IInv
  OBVIOUS
<1>1. TypeOK
  BY TypeInit
<1>2. SingleWaitLoop /\ PushersComeFromDeath /\ BlockedOnUnit
  BY DEF Init, SingleWaitLoop, Looping, PushersComeFromDeath, BlockedOnUnit
<1>3. WaitingIsRegistered /\ UnitsAreCurrent
  BY DEF Init, WaitingIsRegistered, UnitsAreCurrent, PastAdd, isSocketInPolling, NoUnit
<1>4. QED
  BY <1>1, <1>2, <1>3 DEF IInv

\* A dead wait() loop is never started again: Add sees e.polling set.
LEMMA DeathIsFinal ==
    ASSUME IInv, [Next]_vars, LoopDied
    PROVE  LoopDied'
<1>1. ASSUME NEW fd \in Fd, AddUnit(fd) PROVE LoopDied'
  BY <1>1 DEF AddUnit, LoopDied, Looping, isPolling
<1>2. ASSUME NEW w \in WaitId, Wait(w) PROVE LoopDied'
  BY <1>2 DEF Wait, WaitSyscall, WaitError, WaitBatch, LoopDied, Looping
<1>3. CASE UNCHANGED <<polling, waitPc>>
  BY <1>3 DEF LoopDied, Looping
<1>4. \/ UNCHANGED <<polling, waitPc>>
      \/ \E fd \in Fd : AddUnit(fd)
      \/ \E w \in WaitId : Wait(w)
  BY DEF Next, Environment, KernelEvent, SocketIO, CloseSocket, NewSocket,
         Poll, StartPoll, Expire, CheckDeadline, LockedCall, AddUnexpErr, AddError,
         DeleteSocketFromPolling, SelectTimeout, Sender, NobodyWaits, BlockOnChan,
         Deliver, ProcessEvents, PushError, Unlock, vars, loopVars
<1>5. QED
  BY <1>1, <1>2, <1>3, <1>4

\* Every step keeps the loop unique and ties pushError to its death.
LEMMA LoopNext ==
    ASSUME IInv, [Next]_vars
    PROVE  SingleWaitLoop' /\ PushersComeFromDeath'
<1> USE DEF IInv
<1>1. ASSUME NEW fd \in Fd, AddUnit(fd) PROVE SingleWaitLoop' /\ PushersComeFromDeath'
  <2>1. SingleWaitLoop'
    BY <1>1 DEF AddUnit, SingleWaitLoop, Looping, isPolling, TypeOK
  <2>2. UNCHANGED <<pushers, mu>>
    BY <1>1 DEF AddUnit, senderVars, errVars
  <2>3. QED
    BY <2>1, <2>2, DeathIsFinal DEF PushersComeFromDeath
<1>2. ASSUME NEW w \in WaitId, WaitSyscall(w) PROVE SingleWaitLoop' /\ PushersComeFromDeath'
  <2>1. SingleWaitLoop'
    BY <1>2 DEF WaitSyscall, SingleWaitLoop, Looping, TypeOK
  <2>2. UNCHANGED <<pushers, mu>>
    BY <1>2 DEF WaitSyscall, senderVars, errVars
  <2>3. QED
    BY <2>1, <2>2, DeathIsFinal DEF PushersComeFromDeath
<1>3. ASSUME NEW w \in WaitId, WaitError(w) PROVE SingleWaitLoop' /\ PushersComeFromDeath'
  <2>1. SingleWaitLoop'
    BY <1>3 DEF WaitError, SingleWaitLoop, Looping, TypeOK
  <2>2. LoopDied'
    BY <1>3 DEF WaitError, SingleWaitLoop, LoopDied, Looping, TypeOK
  <2>3. QED
    BY <2>1, <2>2 DEF PushersComeFromDeath
<1>4. ASSUME NEW w \in WaitId, WaitBatch(w) PROVE SingleWaitLoop' /\ PushersComeFromDeath'
  <2>1. SingleWaitLoop'
    <3>1. waitPc[w] = "lock" /\ waitPc \in [WaitId -> {"dead", "syscall", "lock"}]
      BY <1>4 DEF WaitBatch, TypeOK
    <3>2. \/ polling' = FALSE /\ waitPc' = [waitPc EXCEPT ![w] = "dead"]
          \/ polling' = polling /\ waitPc' = [waitPc EXCEPT ![w] = "syscall"]
      BY <1>4 DEF WaitBatch, stopPolling
    <3>3. QED
      BY <3>1, <3>2 DEF SingleWaitLoop, Looping
  <2>2. UNCHANGED <<pushers, mu>>
    BY <1>4 DEF WaitBatch, senderVars, errVars
  <2>3. QED
    BY <2>1, <2>2, DeathIsFinal DEF PushersComeFromDeath
<1>5. CASE /\ UNCHANGED <<polling, waitPc>>
           /\ pushers' > 0 => pushers > 0
           /\ mu' = "pushError" => mu = "pushError" \/ pushers > 0
  <2>1. SingleWaitLoop'
    BY <1>5 DEF SingleWaitLoop, Looping
  <2>2. QED
    BY <1>5, <2>1, DeathIsFinal DEF PushersComeFromDeath
<1>6. \/ \E fd \in Fd : AddUnit(fd)
      \/ \E w \in WaitId : WaitSyscall(w) \/ WaitError(w) \/ WaitBatch(w)
      \/ /\ UNCHANGED <<polling, waitPc>>
         /\ pushers' > 0 => pushers > 0
         /\ mu' = "pushError" => mu = "pushError" \/ pushers > 0
  BY DEF Next, Environment, KernelEvent, SocketIO, CloseSocket, NewSocket,
         Poll, StartPoll, Expire, CheckDeadline, LockedCall, AddUnexpErr, AddError,
         DeleteSocketFromPolling, SelectTimeout, Wait, Sender, NobodyWaits, BlockOnChan,
         Deliver, ProcessEvents, PushError, Unlock, vars, loopVars, senderVars, errVars,
         TypeOK
<1>7. QED
  BY <1>1, <1>2, <1>3, <1>4, <1>5, <1>6

\* Steps that touch none of the callers, of e.sockets and of the kernel's
\* registrations keep what is said about them.
LEMMA RegistrationFrame ==
    ASSUME IInv, [Next]_vars,
           UNCHANGED <<pc, event, chan, sockets, open, interest>>
    PROVE  WaitingIsRegistered' /\ UnitsAreCurrent'
BY DeathIsFinal
   DEF IInv, WaitingIsRegistered, UnitsAreCurrent, PastAdd, isSocketInPolling

\* Steps of a caller that does not wait, before or after, keep it too.
LEMMA OutsiderFrame ==
    ASSUME IInv, [Next]_vars, NEW fd \in Fd,
           UNCHANGED <<sockets, open, interest>>,
           ~PastAdd(fd), ~PastAdd(fd)',
           \A other \in Fd \ {fd} : /\ pc'[other] = pc[other]
                                    /\ event'[other] = event[other]
                                    /\ chan'[other] = chan[other]
    PROVE  WaitingIsRegistered' /\ UnitsAreCurrent'
<1>1. WaitingIsRegistered'
  BY DEF IInv, WaitingIsRegistered, PastAdd
<1>2. UnitsAreCurrent'
  BY DeathIsFinal DEF IInv, UnitsAreCurrent, PastAdd, isSocketInPolling
<1>3. QED
  BY <1>1, <1>2

\* Every step keeps the callers that wait registered, and the units awaited.
LEMMA RegistrationNext ==
    ASSUME IInv, [Next]_vars
    PROVE  WaitingIsRegistered' /\ UnitsAreCurrent'
<1> DEFINE Goal == WaitingIsRegistered' /\ UnitsAreCurrent'
<1>1. ASSUME NEW fd \in Fd, KernelEvent(fd) \/ SocketIO(fd) \/ Expire(fd)
                             \/ NobodyWaits(fd) \/ BlockOnChan(fd)
      PROVE  Goal
  BY <1>1, RegistrationFrame
     DEF KernelEvent, SocketIO, Expire, NobodyWaits, BlockOnChan, pollVars, kernelVars
<1>2. ASSUME NEW fd \in Fd, CloseSocket(fd) PROVE Goal
  <2>1. WaitingIsRegistered'
    BY <1>2 DEF IInv, TypeOK, CloseSocket, WaitingIsRegistered, PastAdd, pollVars
  <2>2. UnitsAreCurrent'
    BY <1>2, DeathIsFinal
       DEF IInv, CloseSocket, UnitsAreCurrent, PastAdd, isSocketInPolling, pollVars
  <2>3. QED
    BY <2>1, <2>2
<1>3. ASSUME NEW fd \in Fd, NewSocket(fd) PROVE Goal
  <2>1. WaitingIsRegistered'
    BY <1>3 DEF IInv, TypeOK, NewSocket, WaitingIsRegistered, PastAdd, pollVars
  <2>2. UnitsAreCurrent'
    BY <1>3, DeathIsFinal
       DEF IInv, NewSocket, UnitsAreCurrent, PastAdd, isSocketInPolling, pollVars
  <2>3. QED
    BY <2>1, <2>2
<1>4. ASSUME NEW fd \in Fd, NEW type \in EventType, StartPoll(fd, type) PROVE Goal
  BY <1>4, OutsiderFrame DEF IInv, TypeOK, StartPoll, PastAdd, kernelVars
<1>5. ASSUME NEW fd \in Fd, CheckDeadline(fd) PROVE Goal
  <2>1. Return(fd, {"ErrPollTimeout"}) \/ GoTo(fd, "lockAdd")
    BY <1>5 DEF CheckDeadline
  <2>2. pc[fd] = "check" /\ UNCHANGED <<chan, sockets, open, interest>>
    BY <1>5 DEF CheckDeadline, kernelVars
  <2>3. QED
    BY <2>1, <2>2, OutsiderFrame DEF IInv, TypeOK, Return, GoTo, PastAdd
<1>6. ASSUME NEW fd \in Fd, AddUnexpErr(fd) \/ AddError(fd) PROVE Goal
  <2>1. \/ \E e : Return(fd, e)
        \/ GoTo(fd, "check")
    BY <1>6 DEF AddUnexpErr, AddError
  <2>2. pc[fd] = "lockAdd" /\ UNCHANGED <<chan, sockets, open, interest>>
    BY <1>6 DEF AddUnexpErr, AddError, kernelVars
  <2>3. QED
    BY <2>1, <2>2, OutsiderFrame DEF IInv, TypeOK, Return, GoTo, PastAdd
<1>7. ASSUME NEW fd \in Fd, AddUnit(fd) PROVE Goal
  <2>1. /\ pc' = [pc EXCEPT ![fd] = "select"]
        /\ UNCHANGED <<event, chan, open>>
        /\ sockets' = [sockets EXCEPT ![fd] = [event |-> event[fd], chan |-> chan[fd]]]
        /\ interest' = [interest EXCEPT ![fd] = EventMask(event[fd])]
    BY <1>7 DEF AddUnit, GoTo, addSocketInPolling
  <2>2. WaitingIsRegistered'
    BY <2>1 DEF IInv, TypeOK, WaitingIsRegistered, PastAdd, EventMask
  <2>3. UnitsAreCurrent'
    BY <2>1, DeathIsFinal
       DEF IInv, TypeOK, UnitsAreCurrent, PastAdd, isSocketInPolling
  <2>4. QED
    BY <2>2, <2>3
<1>8. ASSUME NEW fd \in Fd, SelectTimeout(fd) PROVE Goal
  <2>1. /\ pc[fd] = "select" /\ pc' = [pc EXCEPT ![fd] = "lockDelete"]
        /\ UNCHANGED <<event, chan, sockets, open, interest>>
    BY <1>8 DEF SelectTimeout, GoTo, kernelVars
  <2>2. WaitingIsRegistered'
    BY <2>1 DEF IInv, TypeOK, WaitingIsRegistered, PastAdd
  <2>3. UnitsAreCurrent'
    BY <2>1, DeathIsFinal
       DEF IInv, TypeOK, UnitsAreCurrent, PastAdd, isSocketInPolling
  <2>4. QED
    BY <2>2, <2>3
<1>9. ASSUME NEW fd \in Fd, DeleteSocketFromPolling(fd) PROVE Goal
  <2>1. /\ pc' = [pc EXCEPT ![fd] = "idle"]
        /\ event' = [event EXCEPT ![fd] = NoEvent]
        /\ sockets' = [sockets EXCEPT ![fd] = NoUnit]
        /\ UNCHANGED <<chan, open, interest>>
    BY <1>9 DEF DeleteSocketFromPolling, deleteSocketFromPolling, Return, kernelVars
  <2>2. WaitingIsRegistered'
    BY <2>1 DEF IInv, TypeOK, WaitingIsRegistered, PastAdd
  <2>3. UnitsAreCurrent'
    BY <2>1, DeathIsFinal
       DEF IInv, TypeOK, UnitsAreCurrent, PastAdd, isSocketInPolling, NoUnit
  <2>4. QED
    BY <2>2, <2>3
<1>10. ASSUME NEW fd \in Fd, Deliver(fd) PROVE Goal
  <2>1. /\ pc' = [pc EXCEPT ![fd] = "idle"]
        /\ event' = [event EXCEPT ![fd] = NoEvent]
        /\ UNCHANGED <<chan, open, interest>>
        /\ sendTo = fd
        /\ sockets' = IF mu = "processEvents" THEN [sockets EXCEPT ![fd] = NoUnit]
                      ELSE sockets
    BY <1>10 DEF Deliver, deleteSocketFromPolling, Return, kernelVars
  <2>2. mu # "processEvents" => LoopDied
    BY <2>1, FdAssumption DEF IInv, TypeOK, BlockedOnUnit, PushersComeFromDeath
  <2>3. WaitingIsRegistered'
    BY <2>1 DEF IInv, TypeOK, WaitingIsRegistered, PastAdd
  <2>4. UnitsAreCurrent'
    BY <2>1, <2>2, DeathIsFinal
       DEF IInv, TypeOK, UnitsAreCurrent, PastAdd, isSocketInPolling, NoUnit
  <2>5. QED
    BY <2>3, <2>4
<1>11. ASSUME NEW w \in WaitId, Wait(w) PROVE Goal
  BY <1>11, RegistrationFrame
     DEF Wait, WaitSyscall, WaitError, WaitBatch, pollVars, kernelVars
<1>12. ASSUME NEW n \in 1..EventsBufLen, ProcessEvents(n) PROVE Goal
  BY <1>12, RegistrationFrame DEF ProcessEvents, pollVars, kernelVars
<1>13. CASE PushError \/ Unlock \/ UNCHANGED vars
  BY <1>13, RegistrationFrame DEF PushError, Unlock, vars, pollVars, kernelVars
<1>14. QED
  BY <1>1, <1>2, <1>3, <1>4, <1>5, <1>6, <1>7, <1>8, <1>9, <1>10, <1>11, <1>12, <1>13
     DEF Next, Environment, Poll, LockedCall, Sender

\* A goroutine that blocks on a channel keeps e.mu, so its unit stays.
LEMMA BlockedNext ==
    ASSUME IInv, [Next]_vars
    PROVE  BlockedOnUnit'
<1>1. CASE UNCHANGED <<mu, sendTo, sockets>>
  BY <1>1 DEF IInv, BlockedOnUnit, isSocketInPolling
<1>2. CASE mu = "free" /\ sendTo' = sendTo
  BY <1>2 DEF IInv, BlockedOnUnit
<1>3. CASE sendTo' = NoFd
  BY <1>3 DEF BlockedOnUnit
<1>4. ASSUME NEW fd \in Fd, BlockOnChan(fd) PROVE BlockedOnUnit'
  BY <1>4 DEF BlockOnChan, BlockedOnUnit, isSocketInPolling
<1>5. \/ UNCHANGED <<mu, sendTo, sockets>>
      \/ mu = "free" /\ sendTo' = sendTo
      \/ sendTo' = NoFd
      \/ \E fd \in Fd : BlockOnChan(fd)
  BY DEF Next, Environment, KernelEvent, SocketIO, CloseSocket, NewSocket, CanLock,
         Poll, StartPoll, Expire, CheckDeadline, LockedCall, AddUnexpErr, AddError, AddUnit,
         DeleteSocketFromPolling, SelectTimeout, Wait, WaitSyscall, WaitError, WaitBatch,
         Sender, NobodyWaits, Deliver, ProcessEvents, PushError, Unlock, vars, senderVars
<1>6. QED
  BY <1>1, <1>2, <1>3, <1>4, <1>5

\* The poller always satisfies the inductive invariant.
THEOREM Invariance == Spec => []IInv
<1>1. IInv /\ [Next]_vars => IInv'
  BY TypeNext, LoopNext, BlockedNext, RegistrationNext DEF IInv
<1>2. QED
  BY InvInit, <1>1, PTL DEF Spec

\* For any number of sockets and whatever fails, two wait() goroutines are
\* never alive together: e.eventsBuf, written by epoll_wait without the
\* mutex, has one writer.
THEOREM OneLoop == Spec => []SingleWaitLoop
<1>1. IInv => SingleWaitLoop
  BY DEF IInv
<1>2. QED
  BY <1>1, Invariance, PTL

\* For any number of sockets, a call of poll() that is past Add has its own unit
\* in e.sockets and the right interest in the kernel.
THEOREM WaitersAreRegistered == Spec => []WaitingIsRegistered
<1>1. IInv => WaitingIsRegistered
  BY DEF IInv
<1>2. QED
  BY <1>1, Invariance, PTL

\* For any number of sockets, and as long as epoll_wait has not failed, no unit in
\* e.sockets outlives its call of poll().
THEOREM UnitsHaveCallers == Spec => []UnitsAreCurrent
<1>1. IInv => UnitsAreCurrent
  BY DEF IInv
<1>2. QED
  BY <1>1, Invariance, PTL

-----------------------------------------------------------------------------
(***************************************************************************)
(* No event is stranded.                                                   *)
(***************************************************************************)
EInv == TypeOK /\ BatchInHand /\ EventsHaveProcessor

\* Every step keeps a processEvents goroutine for the stored events.
LEMMA ProcessorNext ==
    ASSUME EInv, [Next]_vars
    PROVE  BatchInHand' /\ EventsHaveProcessor'
<1> USE DEF EInv
<1> DEFINE Goal == BatchInHand' /\ EventsHaveProcessor'
<1>1. ASSUME NEW fd \in Fd, AddUnit(fd) PROVE Goal
  <2>1. BatchInHand'
    BY <1>1 DEF AddUnit, BatchInHand, TypeOK
  <2>2. EventsHaveProcessor'
    BY <1>1 DEF AddUnit, EventsHaveProcessor, ReadyFds, senderVars, errVars
  <2>3. QED
    BY <2>1, <2>2
<1>2. ASSUME NEW w \in WaitId, WaitSyscall(w) PROVE Goal
  <2>1. PICK batch \in SUBSET EpollInstance :
            /\ batch # {}
            /\ \/ batch = EpollInstance /\ Cardinality(batch) <= EventsBufLen
               \/ Cardinality(batch) = EventsBufLen
            /\ waitN' = [waitN EXCEPT ![w] = Cardinality(batch)]
    BY <1>2 DEF WaitSyscall
  <2>2. Cardinality(batch) \in 1..EventsBufLen
    BY <2>1, BatchSize
  <2>3. waitPc' = [waitPc EXCEPT ![w] = "lock"]
    BY <1>2 DEF WaitSyscall
  <2>4. BatchInHand'
    BY <2>1, <2>2, <2>3 DEF BatchInHand, TypeOK
  <2>5. EventsHaveProcessor'
    BY <1>2 DEF WaitSyscall, EventsHaveProcessor, ReadyFds, senderVars, errVars
  <2>6. QED
    BY <2>4, <2>5
<1>3. ASSUME NEW w \in WaitId, WaitError(w) PROVE Goal
  <2>1. BatchInHand'
    BY <1>3 DEF WaitError, BatchInHand, TypeOK
  <2>2. EventsHaveProcessor'
    BY <1>3 DEF WaitError, EventsHaveProcessor, ReadyFds, senderVars
  <2>3. QED
    BY <2>1, <2>2
<1>4. ASSUME NEW w \in WaitId, WaitBatch(w) PROVE Goal
  <2>1. \E place \in {"dead", "syscall"} : waitPc' = [waitPc EXCEPT ![w] = place]
    BY <1>4 DEF WaitBatch
  <2>2. /\ waitPc[w] = "lock"
        /\ spawned' = [spawned EXCEPT ![waitN[w]] = @ + 1]
        /\ waitN' = [waitN EXCEPT ![w] = 0]
    BY <1>4 DEF WaitBatch
  <2>3. BatchInHand'
    BY <2>1, <2>2 DEF BatchInHand, TypeOK
  <2>4. waitN[w] \in 1..EventsBufLen
    BY <2>2 DEF BatchInHand
  <2>5. spawned'[waitN[w]] > 0
    BY <2>2, <2>4 DEF TypeOK
  <2>6. EventsHaveProcessor'
    BY <2>4, <2>5 DEF EventsHaveProcessor
  <2>7. QED
    BY <2>3, <2>6
<1>5. ASSUME NEW n \in 1..EventsBufLen, ProcessEvents(n) PROVE Goal
  <2>1. BatchInHand'
    BY <1>5 DEF ProcessEvents, BatchInHand
  <2>2. panicked' \/ mu' = "processEvents"
    BY <1>5 DEF ProcessEvents
  <2>3. QED
    BY <2>1, <2>2 DEF EventsHaveProcessor
<1>6. CASE PushError
  <2>1. BatchInHand'
    BY <1>6 DEF PushError, BatchInHand, loopVars
  <2>2. EventsHaveProcessor'
    BY <1>6 DEF PushError, CanLock, EventsHaveProcessor, ReadyFds, loopVars
  <2>3. QED
    BY <2>1, <2>2
<1>7. CASE Unlock
  <2>1. BatchInHand'
    BY <1>7 DEF Unlock, BatchInHand
  <2>2. CASE mu = "processEvents"
    <3>1. readyEvents' = NoEvents
      BY <1>7, <2>2 DEF Unlock, clearReadyEvents
    <3>2. QED
      BY <2>1, <3>1 DEF EventsHaveProcessor, ReadyFds, NoEvents
  <2>3. CASE mu # "processEvents"
    BY <1>7, <2>1, <2>3 DEF Unlock, EventsHaveProcessor, ReadyFds, errVars
  <2>4. QED
    BY <2>2, <2>3
<1>8. CASE UNCHANGED <<waitPc, waitN, readyEvents, spawned, mu, panicked>>
  BY <1>8 DEF BatchInHand, EventsHaveProcessor, ReadyFds
<1>9. \/ \E fd \in Fd : AddUnit(fd)
      \/ \E w \in WaitId : WaitSyscall(w) \/ WaitError(w) \/ WaitBatch(w)
      \/ \E n \in 1..EventsBufLen : ProcessEvents(n)
      \/ PushError
      \/ Unlock
      \/ UNCHANGED <<waitPc, waitN, readyEvents, spawned, mu, panicked>>
  BY DEF Next, Environment, KernelEvent, SocketIO, CloseSocket, NewSocket,
         Poll, StartPoll, Expire, CheckDeadline, LockedCall, AddUnexpErr, AddError,
         DeleteSocketFromPolling, SelectTimeout, Wait, Sender, NobodyWaits, BlockOnChan,
         Deliver, vars, loopVars, senderVars, errVars
<1>10. QED
  BY <1>1, <1>2, <1>3, <1>4, <1>5, <1>6, <1>7, <1>8, <1>9

\* For any number of sockets, the events that wait() has stored in
\* e.readyEvents have a processEvents goroutine that will look at them.
THEOREM NoStrandedEvents == Spec => []EventsHaveProcessor
<1>1. Init => EInv
  BY TypeInit DEF Init, EInv, BatchInHand, EventsHaveProcessor, ReadyFds, NoEvents
<1>2. EInv /\ [Next]_vars => EInv'
  BY TypeNext, ProcessorNext DEF EInv
<1>3. EInv => EventsHaveProcessor
  BY DEF EInv
<1>4. QED
  BY <1>1, <1>2, <1>3, PTL DEF Spec

-----------------------------------------------------------------------------
(***************************************************************************)
(* A single socket whose calls have no deadline.  The poller then goes     *)
(* through the same cycle for every question: Still, Watched by the loop,  *)
(* Stored in e.readyEvents, Answering, and Still again; and it is in one   *)
(* of the four at any time.  (EpollPanic shows that two sockets break the  *)
(* cycle.)                                                                 *)
(***************************************************************************)

\* Nothing of the socket is in the poller.
Still(fd) ==
    /\ pc[fd] # "select"
    /\ mu = "free" /\ toSend = {}
    /\ sockets[fd] = NoUnit
    /\ eventsBuf[fd] = {} /\ readyEvents[fd] = {}
    /\ ~polling /\ \A n \in 1..EventsBufLen : spawned[n] = 0

\* wait() is in epoll_wait, or on its way to store an event of the socket.
Watched(fd) ==
    /\ pc[fd] = "select"
    /\ mu = "free" /\ toSend = {}
    /\ isSocketInPolling(fd)
    /\ readyEvents[fd] = {}
    /\ \E w \in WaitId : Looping(w)
    /\ \A w \in WaitId : waitPc[w] = "lock" => waitN[w] = 1 /\ eventsBuf[fd] # {}
    /\ \A n \in 1..EventsBufLen : spawned[n] = 0

\* wait() has ended, and one processEvents(1) is going to run.
Stored(fd) ==
    /\ pc[fd] = "select"
    /\ mu = "free" /\ toSend = {}
    /\ isSocketInPolling(fd)
    /\ eventsBuf[fd] = {} /\ readyEvents[fd] # {}
    /\ ~polling /\ \A n \in 1..EventsBufLen : spawned[n] = IF n = 1 THEN 1 ELSE 0

\* processEvents holds the mutex: the caller waits for its answer, or has it.
Answering(fd) ==
    /\ mu = "processEvents"
    /\ \/ pc[fd] = "select" /\ isSocketInPolling(fd) /\ toSend = {fd}
       \/ pc[fd] # "select" /\ sockets[fd] = NoUnit /\ toSend = {}
    /\ eventsBuf[fd] = {}
    /\ ~polling /\ \A n \in 1..EventsBufLen : spawned[n] = 0

\* A call of poll() has a number and a question.
Asked(fd) == pc[fd] # "idle" => chan[fd] # 0 /\ event[fd] # NoEvent

Cycle(fd) ==
    /\ Asked(fd)
    /\ ~panicked /\ pushers = 0 /\ socketsUnexpErr[fd] = {}
    /\ pc[fd] # "lockDelete" /\ ~expired[fd]
    /\ sendTo # NoFd => toSend = {fd}
    /\ Still(fd) \/ Watched(fd) \/ Stored(fd) \/ Answering(fd)

\* The poller starts still.
LEMMA CycleInit ==
    ASSUME NEW f, Fd = {f}, Init
    PROVE  Cycle(f)
BY DEF Init, Cycle, Asked, Still, NoEvents

\* The kernel reports the one socket or nothing.
LEMMA OneBatch ==
    ASSUME NEW f, Fd = {f}, TypeOK, NEW w \in WaitId, WaitSyscall(w)
    PROVE  /\ eventsBuf' = [fd \in Fd |-> Reported(fd)] /\ Reported(f) # {}
           /\ waitN' = [waitN EXCEPT ![w] = 1]
<1>1. PICK batch \in SUBSET EpollInstance :
          /\ batch # {}
          /\ eventsBuf' = [fd \in Fd |-> IF fd \in batch THEN Reported(fd) ELSE {}]
          /\ waitN' = [waitN EXCEPT ![w] = Cardinality(batch)]
  BY DEF WaitSyscall
<1>2. batch = {f} /\ Reported(f) # {}
  BY <1>1 DEF EpollInstance
<1>3. Cardinality(batch) = 1
  BY <1>2, FS_Singleton
<1>4. QED
  BY <1>1, <1>2, <1>3

\* What the loop and processEvents count: the one socket, if it is in the map.
LEMMA OneCounted ==
    ASSUME NEW f, Fd = {f}
    PROVE  /\ pollingSocketsLen = IF isSocketInPolling(f) THEN 1 ELSE 0
           /\ Cardinality(ReadyFds) = IF readyEvents[f] # {} THEN 1 ELSE 0
<1>1. Cardinality({f}) = 1 /\ Cardinality({}) = 0
  BY FS_Singleton, FS_EmptySet
<1>2. /\ {fd \in Fd : isSocketInPolling(fd)} = IF isSocketInPolling(f) THEN {f} ELSE {}
      /\ ReadyFds = IF readyEvents[f] # {} THEN {f} ELSE {}
  BY DEF ReadyFds
<1>3. QED
  BY <1>1, <1>2 DEF pollingSocketsLen

\* What the kernel, the peer and the caller do between two critical sections.
LEMMA CycleOutside ==
    ASSUME NEW f, Fd = {f}, Faults \subseteq {"close"}, IInv, Cycle(f),
           \/ Environment(f) \/ CheckDeadline(f) \/ Expire(f) \/ SelectTimeout(f)
           \/ \E type \in EventType : StartPoll(f, type)
    PROVE  Cycle(f)'
<1> DEFINE Moves == /\ UNCHANGED <<loopVars, senderVars, errVars, sockets, socketsUnexpErr>>
                    /\ pc'[f] # "lockDelete" /\ ~expired'[f]
                    /\ pc'[f] = "select" <=> pc[f] = "select"
                    /\ Asked(f)'
<1>1. CASE Environment(f)
  <2>1. UNCHANGED <<pollVars, loopVars, senderVars, errVars, sockets, socketsUnexpErr>>
    BY <1>1 DEF Environment, KernelEvent, SocketIO, CloseSocket, NewSocket
  <2>2. Moves
    BY <2>1 DEF Cycle, Asked, pollVars
  <2>3. QED
    BY <2>1, <2>2 DEF Cycle, Still, Watched, Stored, Answering, Looping, isSocketInPolling,
       loopVars, senderVars, errVars
<1>2. ASSUME NEW type \in EventType, StartPoll(f, type) PROVE Moves
  <2>1. chan'[f] = chan[f] + 1 /\ chan[f] \in Nat /\ event'[f] = type /\ pc'[f] = "check"
        /\ pc[f] = "idle" /\ expired' = expired
    BY <1>2 DEF StartPoll, IInv, TypeOK
  <2>2. type # NoEvent
    BY DEF EventType, NoEvent
  <2>3. chan[f] + 1 # 0
    BY <2>1
  <2>4. Asked(f)'
    BY <2>1, <2>2, <2>3 DEF Asked
  <2>5. QED
    BY <1>2, <2>1, <2>4 DEF StartPoll, Cycle
<1>3. CASE CheckDeadline(f)
  <2>1. pc[f] = "check" /\ GoTo(f, "lockAdd") /\ UNCHANGED chan
    BY <1>3 DEF CheckDeadline, Cycle
  <2>2. Moves
    BY <1>3, <2>1 DEF CheckDeadline, GoTo, Cycle, Asked, IInv, TypeOK
  <2>3. QED
    BY <2>2 DEF Cycle, Still, Watched, Stored, Answering, Looping, isSocketInPolling,
       loopVars, senderVars, errVars
<1>4. ~Expire(f) /\ ~SelectTimeout(f)
  BY DEF Expire, SelectTimeout, Cycle
<1>5. CASE \E type \in EventType : StartPoll(f, type)
  BY <1>2, <1>5 DEF Cycle, Still, Watched, Stored, Answering, Looping, isSocketInPolling,
     loopVars, senderVars, errVars
<1>6. QED
  BY <1>1, <1>3, <1>4, <1>5

\* Add, which finds nothing in the poller.
LEMMA CycleAdd ==
    ASSUME NEW f, Fd = {f}, Faults \subseteq {"close"}, IInv, Cycle(f), LockedCall(f)
    PROVE  Cycle(f)'
<1>1. Still(f) /\ pc[f] = "lockAdd"
  BY DEF Cycle, LockedCall, AddUnexpErr, AddError, AddUnit, DeleteSocketFromPolling,
     CanLock, Watched, Stored, Answering
<1>2. ~AddUnexpErr(f) /\ ~DeleteSocketFromPolling(f)
  BY <1>1 DEF Cycle, AddUnexpErr, DeleteSocketFromPolling
<1>3. CASE AddError(f)
  <2>1. UNCHANGED <<loopVars, senderVars, errVars, sockets, socketsUnexpErr>>
    BY <1>3 DEF AddError
  <2>2. pc'[f] \in {"check", "idle"} /\ ~expired'[f] /\ Asked(f)'
    BY <1>3 DEF AddError, GoTo, Return, IInv, TypeOK, Cycle, Asked
  <2>3. QED
    BY <1>1, <2>1, <2>2 DEF Cycle, Still, loopVars, senderVars, errVars
<1>4. CASE AddUnit(f)
  <2>1. /\ UNCHANGED <<waitN, eventsBuf, readyEvents, spawned, senderVars, errVars,
                      socketsUnexpErr, expired>>
        /\ polling' /\ pc'[f] = "select" /\ Asked(f)'
    BY <1>4 DEF AddUnit, GoTo, IInv, TypeOK, Cycle, Asked
  <2>2. isSocketInPolling(f)'
    BY <1>1, <1>4 DEF AddUnit, addSocketInPolling, isSocketInPolling, IInv, TypeOK, Cycle, Asked
  <2>3. \A w \in WaitId : waitPc[w] = "dead"
    BY <1>1 DEF Still, IInv, SingleWaitLoop, Looping
  <2>4. PICK w \in WaitId : waitPc' = [waitPc EXCEPT ![w] = "syscall"]
    BY <1>1, <1>4 DEF AddUnit, isPolling, Still
  <2>5. Looping(w)' /\ \A v \in WaitId : waitPc'[v] # "lock"
    BY <2>3, <2>4 DEF Looping, IInv, TypeOK
  <2>6. QED
    BY <1>1, <2>1, <2>2, <2>5 DEF Cycle, Still, Watched, senderVars, errVars
<1>5. QED
  BY <1>2, <1>3, <1>4 DEF LockedCall

\* wait(): the batch is the one event, and it ends the loop, since the one
\* socket is in the map.
LEMMA CycleWait ==
    ASSUME NEW f, Fd = {f}, Faults \subseteq {"close"}, IInv, Cycle(f),
           NEW w \in WaitId, Wait(w)
    PROVE  Cycle(f)'
<1>1. Looping(w) /\ polling
  BY DEF Wait, WaitSyscall, WaitError, WaitBatch, Looping, IInv, SingleWaitLoop
<1>2. Watched(f)
  BY <1>1 DEF Cycle, Still, Stored, Answering
<1>3. UNCHANGED <<pollVars, mu, toSend, sendTo, pushers, panicked, sockets, socketsUnexpErr>>
  BY DEF Wait, WaitSyscall, WaitError, WaitBatch, senderVars, errVars
<1>4. \A v \in WaitId \ {w} : waitPc[v] = "dead"
  BY <1>1 DEF IInv, SingleWaitLoop, Looping
<1>5. CASE WaitSyscall(w)
  <2>1. /\ eventsBuf'[f] # {} /\ waitN'[w] = 1
    <3>1. eventsBuf' = [fd \in Fd |-> Reported(fd)] /\ Reported(f) # {}
          /\ waitN' = [waitN EXCEPT ![w] = 1]
      BY <1>5, OneBatch DEF IInv
    <3>2. QED
      BY <3>1 DEF IInv, TypeOK
  <2>2. waitPc' = [waitPc EXCEPT ![w] = "lock"] /\ UNCHANGED <<readyEvents, spawned>>
    BY <1>5 DEF WaitSyscall
  <2>3. Looping(w)' /\ \A v \in WaitId : waitPc'[v] = "lock" => v = w
    BY <1>4, <2>2 DEF Looping, IInv, TypeOK
  <2>4. Watched(f)'
    BY <1>2, <1>3, <2>1, <2>2, <2>3 DEF Watched, isSocketInPolling, pollVars
  <2>5. QED
    BY <1>3, <2>4 DEF Cycle, Asked, pollVars
<1>6. CASE WaitBatch(w)
  <2>1. waitN[w] = 1 /\ eventsBuf[f] # {}
    BY <1>2, <1>6 DEF Watched, WaitBatch
  <2>2. AllReady(1)
    BY <1>2, OneCounted DEF AllReady, Watched
  <2>3. /\ polling' = FALSE /\ eventsBuf' = NoEvents /\ readyEvents'[f] = eventsBuf[f]
        /\ spawned' = [spawned EXCEPT ![1] = @ + 1]
    BY <1>6, <2>1, <2>2 DEF WaitBatch, stopPolling, addReadyEvents
  <2>4. Stored(f)'
    BY <1>2, <1>3, <2>1, <2>3, BoundsAssumption
       DEF Watched, Stored, isSocketInPolling, pollVars, NoEvents, IInv, TypeOK
  <2>5. QED
    BY <1>3, <2>4 DEF Cycle, Asked, pollVars
<1>7. ~WaitError(w)
  BY DEF WaitError
<1>8. QED
  BY <1>5, <1>6, <1>7 DEF Wait

\* processEvents: it finds one event, as it was told.
LEMMA CycleProcess ==
    ASSUME NEW f, Fd = {f}, IInv, Cycle(f),
           NEW n \in 1..EventsBufLen, ProcessEvents(n)
    PROVE  /\ Stored(f) /\ Answering(f)' /\ Cycle(f)'
           /\ verdict'[f] = Verdict(f, readyEvents[f])
<1>1. Stored(f) /\ n = 1
  BY DEF ProcessEvents, CanLock, Cycle, Still, Watched, Stored, Answering
<1>2. Cardinality(ReadyFds) = 1 /\ ReadyFds = {f}
  BY <1>1, OneCounted DEF Stored, ReadyFds
<1>3. /\ mu' = "processEvents" /\ toSend' = {f} /\ verdict'[f] = Verdict(f, readyEvents[f])
      /\ spawned' = [spawned EXCEPT ![1] = @ - 1]
      /\ UNCHANGED <<panicked, sendTo, pushers, polling, eventsBuf, pollVars, sockets,
                     socketsUnexpErr>>
  BY <1>1, <1>2 DEF ProcessEvents
<1>4. Answering(f)'
  BY <1>1, <1>3 DEF Stored, Answering, isSocketInPolling, pollVars, IInv, TypeOK
<1>5. QED
  BY <1>1, <1>3, <1>4 DEF Cycle, Asked, pollVars

\* The caller is there: it gets its answer, and the unit goes.
LEMMA CycleAnswer ==
    ASSUME NEW f, Fd = {f}, IInv, Cycle(f), Sender(f) \/ Unlock
    PROVE  Cycle(f)'
<1>1. Answering(f)
  BY FdAssumption DEF Sender, NobodyWaits, BlockOnChan, Deliver, Unlock, Cycle, Still,
     Watched, Stored
<1>2. CASE Unlock
  <2>1. Still(f)'
    BY <1>1, <1>2 DEF Unlock, Answering, Still, clearReadyEvents, NoEvents, pollVars
  <2>2. QED
    BY <1>2, <2>1 DEF Unlock, Cycle, Asked, pollVars, errVars
<1>3. CASE Sender(f)
  <2>1. pc[f] = "select" /\ isSocketInPolling(f) /\ toSend = {f}
    BY <1>1, <1>3 DEF Answering, Sender, NobodyWaits, BlockOnChan, Deliver
  <2>2. CASE BlockOnChan(f)
    BY <1>1, <2>1, <2>2 DEF BlockOnChan, Cycle, Asked, Answering, pollVars, loopVars, errVars,
       isSocketInPolling
  <2>3. CASE Deliver(f)
    <3>1. /\ pc'[f] = "idle" /\ ~expired'[f] /\ sockets'[f] = NoUnit
          /\ toSend' = {} /\ sendTo' = NoFd
          /\ UNCHANGED <<mu, loopVars, errVars, socketsUnexpErr>>
      BY <1>1, <2>1, <2>3 DEF Deliver, Return, Answering, deleteSocketFromPolling, IInv, TypeOK
    <3>2. QED
      BY <1>1, <3>1 DEF Cycle, Asked, Answering, loopVars, errVars
  <2>4. QED
    BY <1>3, <2>1, <2>2, <2>3 DEF Sender, NobodyWaits
<1>4. QED
  BY <1>2, <1>3

\* No step leaves the cycle.
LEMMA CycleNext ==
    ASSUME NEW f, Fd = {f}, Faults \subseteq {"close"}
    PROVE  IInv /\ Cycle(f) /\ [Next]_vars => Cycle(f)'
<1> SUFFICES ASSUME IInv, Cycle(f), [Next]_vars PROVE Cycle(f)'
  OBVIOUS
<1>1. ASSUME UNCHANGED vars PROVE Cycle(f)'
  BY <1>1 DEF vars, pollVars, loopVars, senderVars, errVars, Cycle, Asked, Still, Watched,
     Stored, Answering, isSocketInPolling, Looping
<1>2. ASSUME Environment(f) \/ Poll(f) PROVE Cycle(f)'
  BY <1>2, CycleOutside, CycleAdd DEF Poll
<1>3. ASSUME Sender(f) \/ Unlock PROVE Cycle(f)'
  BY <1>3, CycleAnswer
<1>4. ASSUME NEW w \in WaitId, Wait(w) PROVE Cycle(f)'
  BY <1>4, CycleWait
<1>5. ASSUME NEW n \in 1..EventsBufLen, ProcessEvents(n) PROVE Cycle(f)'
  BY <1>5, CycleProcess
<1>6. ~PushError
  BY DEF PushError, Cycle
<1>7. QED
  BY <1>1, <1>2, <1>3, <1>4, <1>5, <1>6 DEF Next

\* A poller with one socket and no deadline keeps to its cycle, whenever the
\* peer breaks the connection and whenever Client.Close closes it (Add, wait,
\* processEvents, poll).
THEOREM CycleInvariance ==
    ASSUME NEW f, Fd = {f}, Faults \subseteq {"close"}
    PROVE  Spec => [](IInv /\ Cycle(f))
BY CycleInit, CycleNext, Invariance, PTL DEF Spec

\* The panic of processEvents, which "should not happen", does not.
THEOREM OneSocketNeverPanics ==
    ASSUME NEW f, Fd = {f}, Faults \subseteq {"close"}
    PROVE  Spec => []NoPanic
<1>1. Cycle(f) => NoPanic
  BY DEF Cycle, NoPanic
<1>2. QED
  BY <1>1, CycleInvariance, PTL

\* processEvents stores no result for a call to come (socketsUnexpErr).
THEOREM OneSocketExpectsAll ==
    ASSUME NEW f, Fd = {f}, Faults \subseteq {"close"}
    PROVE  Spec => []NothingUnexpected
<1>1. Cycle(f) => NothingUnexpected
  BY DEF Cycle, NothingUnexpected
<1>2. QED
  BY <1>1, CycleInvariance, PTL

\* Whoever is in the select of poll() has a wait() or a processEvents that works
\* for it: the loop ends only with an event in hand.
THEOREM OneSocketIsServed ==
    ASSUME NEW f, Fd = {f}, Faults \subseteq {"close"}
    PROVE  Spec => []SomeoneWillAnswer
<1>1. Cycle(f) => SomeoneWillAnswer
  BY BoundsAssumption DEF Cycle, Still, Watched, Stored, Answering, SomeoneWillAnswer
<1>2. QED
  BY <1>1, CycleInvariance, PTL

-----------------------------------------------------------------------------
(***************************************************************************)
(* The same socket, which nobody closes while it is polled: the answers    *)
(* are true.  What wait() has taken from the kernel stays true until the   *)
(* caller has its answer, since data are read, and buffers filled, outside *)
(* poll() only.                                                            *)
(***************************************************************************)
Happened(fd, flags) == flags \subseteq cond[fd] \cap (interest[fd] \cup {"EPOLLERR", "EPOLLHUP"})

IsReady(fd) == EventMask(event[fd]) \subseteq cond[fd]
IsBroken(fd) == cond[fd] \cap {"EPOLLERR", "EPOLLHUP"} # {}

TrueAnswer(fd) == IF verdict[fd] = {} THEN IsReady(fd) ELSE IsBroken(fd)

Truth(fd) ==
    pc[fd] = "select" =>
        /\ open[fd]
        /\ Happened(fd, eventsBuf[fd]) /\ Happened(fd, readyEvents[fd])
        /\ toSend # {} => TrueAnswer(fd)

\* processEvents says nil of what was asked, and an error of what is broken.
LEMMA VerdictIsTrue ==
    ASSUME IInv, NEW fd \in Fd, Asked(fd), pc[fd] = "select", open[fd],
           readyEvents[fd] # {}, Happened(fd, readyEvents[fd])
    PROVE  IF Verdict(fd, readyEvents[fd]) = {} THEN IsReady(fd) ELSE IsBroken(fd)
<1> DEFINE flags == readyEvents[fd]
<1>1. event[fd] \in EventType /\ sockets[fd].event = event[fd]
  BY DEF Asked, IInv, TypeOK, WaitingIsRegistered, PastAdd
<1>2. interest[fd] = EventMask(event[fd])
  BY DEF IInv, WaitingIsRegistered, PastAdd, EventMask
<1>3. /\ flags \subseteq cond[fd]
      /\ flags \subseteq EventMask(event[fd]) \cup {"EPOLLERR", "EPOLLHUP"}
  BY <1>2 DEF Happened
<1>4. CASE flags \cap {"EPOLLERR", "EPOLLHUP"} # {}
  <2>1. Verdict(fd, flags) # {}
    BY <1>4 DEF Verdict
  <2>2. IsBroken(fd)
    BY <1>3, <1>4 DEF IsBroken
  <2>3. QED
    BY <2>1, <2>2
<1>5. CASE flags \cap {"EPOLLERR", "EPOLLHUP"} = {}
  <2>1. flags = EventMask(event[fd])
    BY <1>3, <1>5 DEF EventMask
  <2>2. IsReady(fd)
    BY <1>3, <2>1 DEF IsReady
  <2>3. "EPOLLERR" \notin flags /\ "EPOLLHUP" \notin flags
    BY <1>5
  <2>4. \/ "EPOLLIN" \in flags /\ sockets[fd].event = "income"
        \/ "EPOLLOUT" \in flags /\ sockets[fd].event \in {"outcome", "connect"}
    BY <1>1, <2>1 DEF EventMask, EventType
  <2>5. Verdict(fd, flags) = {}
    BY <2>3, <2>4 DEF Verdict
  <2>6. QED
    BY <2>2, <2>5
<1>6. QED
  BY <1>4, <1>5

\* processPollError makes nil of nothing but nil.
LEMMA NilStaysNil == \A errs : processPollError(errs) = {} <=> errs = {}
BY DEF processPollError

\* No step makes false what is in hand, or answers on anything else.
LEMMA TruthNext ==
    ASSUME NEW f, Fd = {f}, Faults = {}
    PROVE  IInv /\ Cycle(f) /\ Truth(f) /\ [Next]_vars => Truth(f)'
<1> SUFFICES ASSUME IInv, Cycle(f), Truth(f), [Next]_vars PROVE Truth(f)'
  OBVIOUS
<1>1. ASSUME pc'[f] # "select" PROVE Truth(f)'
  BY <1>1 DEF Truth
<1>2. ASSUME pc[f] = "select", cond[f] \subseteq cond'[f],
             UNCHANGED <<pc, event, open, interest, eventsBuf, readyEvents, toSend, verdict>>
      PROVE  Truth(f)'
  BY <1>2 DEF Truth, Happened, TrueAnswer, IsReady, IsBroken
<1>3. ASSUME UNCHANGED <<pc, event, kernelVars, eventsBuf, readyEvents, toSend, verdict>>
      PROVE  Truth(f)'
  BY <1>1, <1>2, <1>3 DEF kernelVars
<1>4. ASSUME Environment(f) PROVE Truth(f)'
  <2>1. CASE KernelEvent(f)
    <3>1. cond[f] \subseteq cond'[f]
      BY <2>1 DEF KernelEvent, IInv, TypeOK
    <3>2. QED
      BY <2>1, <3>1, <1>1, <1>2 DEF KernelEvent, pollVars, loopVars, senderVars
  <2>2. CASE SocketIO(f) \/ CloseSocket(f) \/ NewSocket(f)
    BY <2>2, <1>1 DEF SocketIO, CloseSocket, NewSocket, pollVars
  <2>3. QED
    BY <1>4, <2>1, <2>2 DEF Environment
<1>5. ASSUME Poll(f) PROVE Truth(f)'
  <2>1. CASE AddUnit(f)
    <3>1. Still(f)
      BY <2>1 DEF Cycle, AddUnit, CanLock, Watched, Stored, Answering
    <3>2. open[f]
      BY <2>1 DEF AddUnit, CtlError
    <3>3. QED
      BY <2>1, <3>1, <3>2 DEF AddUnit, Still, Truth, Happened, senderVars
  <2>2. CASE ~AddUnit(f)
    <3>1. pc'[f] # "select"
      BY <1>5, <2>2 DEF Poll, LockedCall, StartPoll, Expire, CheckDeadline, AddUnexpErr, AddError,
         DeleteSocketFromPolling, SelectTimeout, Return, GoTo, Cycle, IInv, TypeOK
    <3>2. QED
      BY <1>1, <3>1
  <2>3. QED
    BY <2>1, <2>2
<1>6. ASSUME NEW w \in WaitId, Wait(w) PROVE Truth(f)'
  <2>1. UNCHANGED <<pollVars, kernelVars, toSend, verdict>>
    BY <1>6 DEF Wait, WaitSyscall, WaitError, WaitBatch, senderVars
  <2>2. CASE WaitSyscall(w)
    <3>1. eventsBuf'[f] = Reported(f) /\ UNCHANGED readyEvents
      BY <2>2, OneBatch DEF WaitSyscall, IInv
    <3>2. Happened(f, Reported(f))
      BY DEF Happened, Reported
    <3>3. QED
      BY <2>1, <3>1, <3>2 DEF Truth, Happened, TrueAnswer, IsReady, IsBroken, pollVars, kernelVars
  <2>3. CASE WaitBatch(w)
    <3>1. eventsBuf'[f] = {} /\ readyEvents'[f] \in {eventsBuf[f], readyEvents[f]}
      BY <2>3 DEF WaitBatch, addReadyEvents, NoEvents
    <3>2. QED
      BY <2>1, <3>1 DEF Truth, Happened, TrueAnswer, IsReady, IsBroken, pollVars, kernelVars
  <2>4. QED
    BY <1>6, <2>2, <2>3 DEF Wait, WaitError
<1>7. ASSUME NEW n \in 1..EventsBufLen, ProcessEvents(n) PROVE Truth(f)'
  <2>1. Stored(f) /\ verdict'[f] = Verdict(f, readyEvents[f])
    BY <1>7, CycleProcess
  <2>2. UNCHANGED <<pollVars, kernelVars, eventsBuf, readyEvents>>
    BY <1>7 DEF ProcessEvents
  <2>3. open[f] /\ Happened(f, readyEvents[f])
    BY <2>1 DEF Truth, Stored
  <2>4. IF Verdict(f, readyEvents[f]) = {} THEN IsReady(f) ELSE IsBroken(f)
    BY <2>1, <2>3, VerdictIsTrue DEF Stored, Cycle
  <2>5. QED
    BY <2>1, <2>2, <2>4 DEF Truth, Happened, TrueAnswer, IsReady, IsBroken, pollVars, kernelVars
<1>8. ASSUME Sender(f) \/ Unlock PROVE Truth(f)'
  <2>1. Answering(f)
    BY <1>8, FdAssumption DEF Sender, NobodyWaits, BlockOnChan, Deliver, Unlock, Cycle, Still,
       Watched, Stored
  <2>2. CASE Deliver(f)
    BY <2>2, <1>1 DEF Deliver, Return, IInv, TypeOK
  <2>3. CASE BlockOnChan(f)
    BY <2>3, <1>3 DEF BlockOnChan, pollVars, loopVars
  <2>4. CASE Unlock
    BY <2>1, <2>4, <1>1 DEF Unlock, Answering, pollVars
  <2>5. ~NobodyWaits(f)
    BY <2>1 DEF NobodyWaits, Answering
  <2>6. QED
    BY <1>8, <2>2, <2>3, <2>4, <2>5 DEF Sender
<1>9. ASSUME UNCHANGED vars PROVE Truth(f)'
  BY <1>9, <1>3 DEF vars, pollVars, loopVars, senderVars
<1>10. ~PushError
  BY DEF PushError, Cycle
<1>11. QED
  BY <1>4, <1>5, <1>6, <1>7, <1>8, <1>9, <1>10 DEF Next

\* What is in e.eventsBuf and e.readyEvents, and the answers computed of it, stays
\* true while the caller waits (processEvents, epollSyscalls).
THEOREM TruthInvariance ==
    ASSUME NEW f, Fd = {f}, Faults = {}
    PROVE  Spec => [](IInv /\ Cycle(f) /\ Truth(f))
<1>1. Init => Truth(f)
  BY DEF Init, Truth
<1>2. Spec => [](IInv /\ Cycle(f))
  BY CycleInvariance
<1>3. QED
  BY <1>1, <1>2, TruthNext, PTL DEF Spec

\* A caller leaves the select with an answer only, and with a true one.
LEMMA AnswersAreTrue ==
    ASSUME NEW f, Fd = {f}, Faults = {}, IInv, Cycle(f), Truth(f), [Next]_vars,
           pc[f] = "select", pc'[f] # "select"
    PROVE  /\ pc' = [pc EXCEPT ![f] = "idle"]
           /\ \/ result' = {} /\ IsReady(f)
              \/ result' # {} /\ IsBroken(f)
<1>1. Deliver(f)
  <2>1. ~Environment(f) /\ ~Poll(f)
    BY DEF Environment, KernelEvent, SocketIO, CloseSocket, NewSocket, Poll, LockedCall, StartPoll,
       Expire, CheckDeadline, AddUnexpErr, AddError, AddUnit, DeleteSocketFromPolling,
       SelectTimeout, Cycle, pollVars
  <2>2. ~NobodyWaits(f) /\ ~BlockOnChan(f) /\ ~Unlock /\ ~PushError /\ pc' # pc
    BY DEF NobodyWaits, BlockOnChan, Unlock, PushError, pollVars
  <2>3. \A w \in WaitId : ~Wait(w)
    BY DEF Wait, WaitSyscall, WaitError, WaitBatch, pollVars
  <2>4. \A n \in 1..EventsBufLen : ~ProcessEvents(n)
    BY DEF ProcessEvents, pollVars
  <2>5. QED
    BY <2>1, <2>2, <2>3, <2>4 DEF Next, Sender, vars, pollVars
<1>2. toSend # {}
  BY <1>1, FdAssumption DEF Deliver, Cycle
<1>3. TrueAnswer(f)
  BY <1>2 DEF Truth
<1>4. QED
  BY <1>1, <1>3, NilStaysNil DEF Deliver, Return, TrueAnswer

\* When poll() returns nil to a caller in select, the socket is ready for what the
\* caller asked ("nil for the event income means that there is incoming data").
THEOREM NilIsTrue ==
    ASSUME NEW f, Fd = {f}, Faults = {}
    PROVE  Spec => NilMeansReady
<1> DEFINE Means == \A fd \in Fd : pc[fd] = "select" /\ pc'[fd] = "idle" /\ result' = {} =>
                        EventMask(event[fd]) \subseteq cond[fd]
<1>1. IInv /\ Cycle(f) /\ Truth(f) /\ [Next]_vars => Means
  BY AnswersAreTrue DEF IsReady
<1>2. QED
  BY <1>1, TruthInvariance, PTL DEF Spec, NilMeansReady

(***************************************************************************)
(* poll() keeps its promise to a connection (PollService), as far as it is *)
(* about what may happen: every step is a question, a refusal, a question  *)
(* that is taken, a true answer, or nothing that a connection sees.        *)
(***************************************************************************)
StageOf(label) ==
    IF label = "idle" THEN "idle"
    ELSE IF label \in {"select", "lockDelete"} THEN "accepted" ELSE "asked"

Stage == [fd \in Fd |-> IF pc[fd] = "idle" THEN "idle"
                       ELSE IF PastAdd(fd) THEN "accepted" ELSE "asked"]

\* The question about the socket is where its caller is in poll().
LEMMA StageIs == Stage = [fd \in Fd |-> StageOf(pc[fd])]
BY DEF Stage, StageOf, PastAdd

\* A caller that moves takes its question along.
LEMMA StageMoves ==
    ASSUME IInv, NEW f \in Fd, NEW label, pc' = [pc EXCEPT ![f] = label]
    PROVE  Stage' = [Stage EXCEPT ![f] = StageOf(label)]
<1>1. Stage' = [fd \in Fd |-> StageOf(pc'[fd])]
  BY DEF Stage, StageOf, PastAdd
<1>2. QED
  BY <1>1, StageIs DEF IInv, TypeOK

\* What a question comes to, for the connection that asked it.
LEMMA PromiseSteps ==
    ASSUME NEW f, Fd = {f}, Faults = {}, IInv, Cycle(f), Truth(f), [Next]_vars
    PROVE  \/ UNCHANGED <<Stage, result>>
           \/ /\ pc[f] = "idle" /\ Stage' = [Stage EXCEPT ![f] = "asked"] /\ result' = {}
           \/ /\ Stage[f] = "asked" /\ Stage' = [Stage EXCEPT ![f] = "idle"] /\ result' # {}
           \/ /\ Stage[f] = "asked" /\ Stage' = [Stage EXCEPT ![f] = "accepted"]
              /\ result' = result
           \/ /\ pc[f] = "select" /\ Stage' = [Stage EXCEPT ![f] = "idle"]
              /\ \/ result' = {} /\ IsReady(f)
                 \/ result' # {} /\ IsBroken(f)
<1>1. pc[f] \in {"idle", "check", "lockAdd", "select", "lockDelete"} /\ Stage[f] = StageOf(pc[f])
  BY StageIs DEF IInv, TypeOK
<1>2. CASE UNCHANGED <<pc, result>>
  BY <1>2 DEF Stage, PastAdd
<1>3. CASE pc[f] = "select" /\ pc'[f] # "select"
  <2>1. /\ pc' = [pc EXCEPT ![f] = "idle"]
        /\ \/ result' = {} /\ IsReady(f)
           \/ result' # {} /\ IsBroken(f)
    BY <1>3, AnswersAreTrue
  <2>2. Stage' = [Stage EXCEPT ![f] = "idle"]
    BY <1>1, <2>1, StageMoves DEF StageOf
  <2>3. QED
    BY <1>3, <2>1, <2>2
<1>4. CASE Poll(f) /\ pc[f] # "select"
  <2>1. CASE \E type \in EventType : StartPoll(f, type)
    <3>1. pc[f] = "idle" /\ pc' = [pc EXCEPT ![f] = "check"] /\ result' = {}
      BY <2>1 DEF StartPoll
    <3>2. QED
      BY <1>1, <3>1, StageMoves DEF StageOf
  <2>2. CASE CheckDeadline(f)
    <3>1. pc[f] = "check" /\ pc' = [pc EXCEPT ![f] = "lockAdd"] /\ result' = result
      BY <2>2 DEF CheckDeadline, GoTo, Cycle
    <3>2. StageOf("lockAdd") = Stage[f]
      BY <1>1, <3>1 DEF StageOf
    <3>3. Stage' = Stage
      <4>1. Stage' = [Stage EXCEPT ![f] = Stage[f]]
        BY <1>1, <3>1, <3>2, StageMoves
      <4>2. QED
        BY <4>1, StageIs
    <3>4. QED
      BY <3>1, <3>3
  <2>3. CASE AddError(f)
    <3>1. PICK errs : /\ errs # {} /\ pc[f] = "lockAdd"
                      /\ IF errs = {"ErrSocketAlreadyAdded"} THEN GoTo(f, "check")
                         ELSE Return(f, processPollError(errs))
      BY <2>3 DEF AddError
    <3>2. CASE GoTo(f, "check")
      <4>1. StageOf("check") = Stage[f]
        BY <1>1, <3>1 DEF StageOf
      <4>2. Stage' = Stage
        <5>1. Stage' = [Stage EXCEPT ![f] = Stage[f]]
          BY <1>1, <3>2, <4>1, StageMoves DEF GoTo
        <5>2. QED
          BY <5>1, StageIs
      <4>3. QED
        BY <3>2, <4>2 DEF GoTo
    <3>3. CASE Return(f, processPollError(errs))
      <4>1. pc' = [pc EXCEPT ![f] = "idle"] /\ result' # {}
        BY <3>1, <3>3, NilStaysNil DEF Return
      <4>2. QED
        BY <1>1, <3>1, <4>1, StageMoves DEF StageOf
    <3>4. QED
      BY <3>1, <3>2, <3>3
  <2>4. CASE AddUnit(f)
    <3>1. pc[f] = "lockAdd" /\ pc' = [pc EXCEPT ![f] = "select"] /\ result' = result
      BY <2>4 DEF AddUnit, GoTo
    <3>2. QED
      BY <1>1, <3>1, StageMoves DEF StageOf
  <2>5. ~Expire(f) /\ ~SelectTimeout(f) /\ ~AddUnexpErr(f) /\ ~DeleteSocketFromPolling(f)
    BY DEF Expire, SelectTimeout, AddUnexpErr, DeleteSocketFromPolling, Cycle
  <2>6. QED
    BY <1>4, <2>1, <2>2, <2>3, <2>4, <2>5 DEF Poll, LockedCall
<1>5. Poll(f) /\ pc[f] = "select" => FALSE
  BY DEF Poll, LockedCall, StartPoll, Expire, CheckDeadline, AddUnexpErr, AddError, AddUnit,
     DeleteSocketFromPolling, SelectTimeout, Cycle
<1>6. Deliver(f) => pc[f] = "select" /\ pc'[f] # "select"
  BY DEF Deliver, Return, IInv, TypeOK
<1>7. CASE ~Poll(f) /\ ~Deliver(f)
  <2>1. Environment(f) \/ NobodyWaits(f) \/ BlockOnChan(f) \/ Unlock \/ PushError
            => UNCHANGED <<pc, result>>
    BY DEF Environment, KernelEvent, SocketIO, CloseSocket, NewSocket, NobodyWaits, BlockOnChan,
       Unlock, PushError, pollVars
  <2>2. \A w \in WaitId : Wait(w) => UNCHANGED <<pc, result>>
    BY DEF Wait, WaitSyscall, WaitError, WaitBatch, pollVars
  <2>3. \A n \in 1..EventsBufLen : ProcessEvents(n) => UNCHANGED <<pc, result>>
    BY DEF ProcessEvents, pollVars
  <2>4. QED
    BY <1>2, <1>7, <2>1, <2>2, <2>3 DEF Next, Sender, vars, pollVars
<1>8. QED
  BY <1>3, <1>4, <1>5, <1>6, <1>7

\* Each of them is a step of PollService.
LEMMA StepPromise ==
    ASSUME NEW f, Fd = {f}, Faults = {}
    PROVE  IInv /\ Cycle(f) /\ Truth(f) /\ [Next]_vars => [Promise!Next]_(Promise!vars)
<1> SUFFICES ASSUME IInv, Cycle(f), Truth(f), [Next]_vars PROVE Promise!Next
  OBVIOUS
<1>1. /\ Stage[f] = StageOf(pc[f])
      /\ f \in Fd
  BY StageIs
<1>2. CASE UNCHANGED <<Stage, result>>
  <2>1. Promise!Environment
    BY <1>2 DEF Promise!Environment, Stage
  <2>2. QED
    BY <2>1 DEF Promise!Next
<1>3. CASE pc[f] = "idle" /\ Stage' = [Stage EXCEPT ![f] = "asked"] /\ result' = {}
  <2>1. Stage[f] = "idle"
    BY <1>1, <1>3 DEF StageOf
  <2>2. Promise!Ask(f)
    BY <1>3, <2>1 DEF Promise!Ask, Promise!Move, Stage
  <2>3. QED
    BY <1>1, <2>2 DEF Promise!Next
<1>4. CASE Stage[f] = "asked" /\ Stage' = [Stage EXCEPT ![f] = "idle"] /\ result' # {}
  <2>1. Promise!Reject(f)
    BY <1>4 DEF Promise!Reject, Promise!Move, Stage
  <2>2. QED
    BY <1>1, <2>1 DEF Promise!Next
<1>5. CASE Stage[f] = "asked" /\ Stage' = [Stage EXCEPT ![f] = "accepted"] /\ result' = result
  <2>1. Promise!Accept(f)
    BY <1>5 DEF Promise!Accept, Promise!Move, Stage
  <2>2. QED
    BY <1>1, <2>1 DEF Promise!Next
<1>6. CASE /\ pc[f] = "select" /\ Stage' = [Stage EXCEPT ![f] = "idle"]
           /\ \/ result' = {} /\ IsReady(f)
              \/ result' # {} /\ IsBroken(f)
  <2>1. Stage[f] = "accepted"
    BY <1>1, <1>6 DEF StageOf
  <2>2. Promise!Move(f, "accepted", "idle")
    BY <1>6, <2>1 DEF Promise!Move, Stage
  <2>3. Promise!Answer(f)
    BY <1>1, <1>6, <2>2 DEF Promise!Answer, IsReady, IsBroken
  <2>4. QED
    BY <1>1, <2>3 DEF Promise!Next
<1>7. QED
  BY <1>2, <1>3, <1>4, <1>5, <1>6, PromiseSteps

\* poll() answers a question once, with nil only when the socket is ready for it and
\* with an error only when its connection is broken (poll, Add, processEvents).
THEOREM AnswersKeepThePromise ==
    ASSUME NEW f, Fd = {f}, Faults = {}
    PROVE  Spec => Promise!Safety
<1>1. Init => Promise!Init
  BY DEF Init, Promise!Init
<1>2. QED
  BY <1>1, StepPromise, TruthInvariance, PTL DEF Spec, Promise!Safety

=============================================================================

------------------------------- MODULE Epoll -------------------------------
(***************************************************************************)
(* The poller of the driver: pkg/polling/polling.go (type Epoll), with its *)
(* only caller, Connection.poll of internal/connection/connection.go.      *)
(*                                                                         *)
(* One Epoll serves every Connection of the process.  A Connection has one *)
(* socket and at most one goroutine inside poll(), so a caller is named by *)
(* its descriptor.  The goroutines are                                     *)
(*   - the callers, which Add a unit and then select on its ResultChan;    *)
(*   - wait(), the loop around epoll_wait, started by Add;                 *)
(*   - processEvents(n), started by wait() for every batch of n events;    *)
(*   - pushError(), started by wait() when epoll_wait fails.               *)
(* A critical section of e.mu that cannot block is one step.  The two that *)
(* can, because they send on an unbuffered channel with the mutex held,    *)
(* are several steps, and mu says which of the two goroutines holds it.    *)
(***************************************************************************)
EXTENDS Integers, FiniteSets

CONSTANTS
    Fd,            \* socket descriptors
    Connected,     \* those whose connection is established at the start
    NoFd,          \* "no descriptor"
    WaitId,        \* names for wait() goroutines
    EventsBufLen,  \* len(e.eventsBuf)
    MaxPolls,      \* bound: calls of poll() on one descriptor
    MaxSpawned,    \* bound: processEvents(n) goroutines not yet run, for each n
    Conditions,    \* the sets of flags that the kernel may raise on a socket
    Faults         \* what may go wrong: see AllFaults

\* timeout: the deadline of a poll() may pass.  waitErr: epoll_wait may fail.
\* close: Client.Close may close a socket while it is being polled.
AllFaults == {"timeout", "waitErr", "close"}

Flag == {"EPOLLIN", "EPOLLOUT", "EPOLLERR", "EPOLLHUP"}

ASSUME FdAssumption == IsFiniteSet(Fd) /\ NoFd \notin Fd /\ Connected \subseteq Fd
ASSUME BoundsAssumption ==
    EventsBufLen \in Nat \ {0} /\ MaxPolls \in Nat /\ MaxSpawned \in Nat
ASSUME EnvAssumption == Conditions \subseteq SUBSET Flag /\ Faults \subseteq AllFaults

VARIABLES
    \* poll(): one caller for each descriptor
    pc,               \* where the caller is
    event,            \* pUnit.EventType
    chan,             \* pUnit.ResultChan: the number of this call of poll()
    expired,          \* has the deadline passed
    result,           \* what poll() last returned, as a set of errors ({} is nil),
                      \* forgotten when the next call starts
    \* type Epoll
    mu,               \* "free", or the goroutine that blocks with e.mu held
    polling,          \* e.polling
    sockets,          \* e.sockets: descriptor -> unit (the zero unit if absent)
    socketsUnexpErr,  \* e.socketsUnexpErr: descriptor -> set of errors
    eventsBuf,        \* e.eventsBuf[:n], until wait() has stored it
    readyEvents,      \* e.readyEvents: the last event of each descriptor
    err,              \* e.err
    panicked,         \* the process died in processEvents
    \* goroutines
    waitPc, waitN,    \* wait(): place in the loop, and n
    spawned,          \* n -> number of processEvents(n) waiting for e.mu
    pushers,          \* number of pushError() waiting for e.mu
    toSend,           \* descriptors the holder of e.mu has not answered yet
    verdict,          \* readySockets: what it will answer
    sendTo,           \* the descriptor on whose channel it is blocked
    \* the kernel (external)
    open, interest, cond

pollVars   == <<pc, event, chan, expired, result>>
loopVars   == <<polling, waitPc, waitN, eventsBuf, readyEvents, spawned>>
senderVars == <<mu, toSend, verdict, sendTo>>
errVars    == <<err, pushers, panicked>>
kernelVars == <<open, interest, cond>>
vars == <<pollVars, loopVars, senderVars, errVars, kernelVars,
          sockets, socketsUnexpErr>>

EventType == {"connect", "income", "outcome"}
NoEvent == ""      \* the EventType of the zero unit
Err == {"ErrSocketEvent", "ErrSocketHUPEvent", "ErrSocketRDHUPEvent",
        "ErrPollDiffEventType", "ErrPollTimeout", "ErrPollBadFD",
        "ErrSocketAlreadyAdded", "ErrSocketNotAdded", "ErrConnectionClosed",
        "ErrConnectionReset", "EPIPE", "ETIMEDOUT", "ECONNRESET", "EBADF",
        "ErrEpollWait"}

\* The zero models.PollingUnit, which Go returns for a key that is absent.
NoUnit == [event |-> NoEvent, chan |-> 0]
NoEvents == [fd \in Fd |-> {}]

-----------------------------------------------------------------------------
(***************************************************************************)
(* The kernel: a socket is registered with at most one of EPOLLIN and      *)
(* EPOLLOUT, level triggered; errors are reported whatever the interest,   *)
(* EPOLLRDHUP never, since the driver does not ask for it.                 *)
(***************************************************************************)
Reported(fd) ==
    IF interest[fd] = {} THEN {}
    ELSE cond[fd] \cap (interest[fd] \cup {"EPOLLERR", "EPOLLHUP"})

EpollInstance == {fd \in Fd : Reported(fd) # {}}

\* What the socket's peer and the network do.
KernelEvent(fd) ==
    /\ ~panicked
    /\ open[fd]
    /\ \E flags \in Conditions :
          /\ ~(flags \subseteq cond[fd])
          /\ cond' = [cond EXCEPT ![fd] = @ \cup flags]
    /\ UNCHANGED <<open, interest, pollVars, loopVars, senderVars, errVars,
                   sockets, socketsUnexpErr>>

\* The Connection, outside poll(), reads the pending data or fills the send
\* buffer.
SocketIO(fd) ==
    /\ ~panicked
    /\ pc[fd] = "idle"
    /\ \E flag \in cond[fd] \cap {"EPOLLIN", "EPOLLOUT"} :
          cond' = [cond EXCEPT ![fd] = @ \ {flag}]
    /\ UNCHANGED <<open, interest, pollVars, loopVars, senderVars, errVars,
                   sockets, socketsUnexpErr>>

\* reconnect() closes the socket outside poll(), Client.Close at any time.
\* The kernel drops the descriptor from the epoll instance; e.sockets and
\* e.socketsUnexpErr are not told.
CloseSocket(fd) ==
    /\ ~panicked
    /\ open[fd]
    /\ pc[fd] = "idle" \/ "close" \in Faults
    /\ open' = [open EXCEPT ![fd] = FALSE]
    /\ interest' = [interest EXCEPT ![fd] = {}]
    /\ cond' = [cond EXCEPT ![fd] = {}]
    /\ UNCHANGED <<pollVars, loopVars, senderVars, errVars, sockets, socketsUnexpErr>>

\* reconnect() creates the new socket, which gets the lowest free number:
\* the one that was just closed.
NewSocket(fd) ==
    /\ ~panicked
    /\ ~open[fd]
    /\ pc[fd] = "idle"
    /\ open' = [open EXCEPT ![fd] = TRUE]
    /\ UNCHANGED <<interest, cond, pollVars, loopVars, senderVars, errVars,
                   sockets, socketsUnexpErr>>

-----------------------------------------------------------------------------
(***************************************************************************)
(* Small methods of Epoll, called with the mutex held.                     *)
(***************************************************************************)
CanLock == ~panicked /\ mu = "free"      \* e.mu.Lock() does not block

isSocketInPolling(fd) == sockets[fd].chan # 0

pollingSocketsLen == Cardinality({fd \in Fd : isSocketInPolling(fd)})

\* Mutants: the flag is not looked at; the flag is always found set.
isPolling_Ignored == FALSE
isPolling_Stuck == TRUE

isPolling == polling

\* Mutant: the flag is not reset.
stopPolling_Missing == UNCHANGED polling

stopPolling == polling' = FALSE

addSocketInPolling(fd) ==
    [sockets EXCEPT ![fd] = [event |-> event[fd], chan |-> chan[fd]]]

\* Mutant: the unit stays in the map.
deleteSocketFromPolling_Missing(fd) == sockets

deleteSocketFromPolling(fd) == [sockets EXCEPT ![fd] = NoUnit]

deleteSocketUnexpErr(fd) == [socketsUnexpErr EXCEPT ![fd] = {}]

\* addReadyEvents appends the batch; of several events of a descriptor
\* processEvents keeps the last one (readySockets is a map that each event
\* overwrites), so that is what the model stores.
addReadyEvents ==
    [fd \in Fd |-> IF eventsBuf[fd] # {} THEN eventsBuf[fd] ELSE readyEvents[fd]]

\* Mutant: the events stay.
clearReadyEvents_Missing == readyEvents

clearReadyEvents == NoEvents

\* Mutant: the two constructors are swapped.
EventMask_Swapped(type) == IF type = "income" THEN {"EPOLLOUT"} ELSE {"EPOLLIN"}

\* newIncomeEvent and newOutcomeEvent
EventMask(type) == IF type = "income" THEN {"EPOLLIN"} ELSE {"EPOLLOUT"}

\* epoll_ctl with EPOLL_CTL_ADD for connect and EPOLL_CTL_MOD for the others,
\* as handleEpollError translates its error.
CtlError(fd) ==
    IF ~open[fd] THEN {"ErrPollBadFD"}
    ELSE IF event[fd] = "connect" /\ interest[fd] # {} THEN {"ErrSocketAlreadyAdded"}
    ELSE IF event[fd] # "connect" /\ interest[fd] = {} THEN {"ErrSocketNotAdded"}
    ELSE {}

\* Connection.processPollError on an error built by errors.Join.
processPollError(errs) ==
    IF errs \cap {"ErrSocketEvent", "ErrSocketHUPEvent", "ErrSocketRDHUPEvent"} # {}
       THEN {"ErrConnectionClosed"}
    ELSE IF errs \cap {"EPIPE", "ETIMEDOUT"} # {} THEN {"ErrConnectionClosed"}
    ELSE IF "ECONNRESET" \in errs THEN {"ErrConnectionReset"}
    ELSE errs

\* Mutants: the error flags are not looked at; the flags are answered as such.
Verdict_ErrorsIgnored(fd, flags) == {}
Verdict_RawFlags(fd, flags) == flags

\* Mutant: EPOLLOUT does not end the wait for a connection.
Verdict_Connect(fd, flags) ==
    IF flags \cap {"EPOLLERR", "EPOLLHUP"} # {} THEN {"ErrSocketEvent"}
    ELSE IF \/ "EPOLLIN" \in flags /\ sockets[fd].event = "income"
            \/ "EPOLLOUT" \in flags /\ sockets[fd].event = "outcome"
         THEN {}
         ELSE {"ErrPollDiffEventType"}

\* The entry of readySockets that processEvents computes for an event.  The
\* value getsockopt(SO_ERROR) reads is thrown away: only a failure of the
\* call itself, on a closed descriptor, is an error.
Verdict(fd, flags) ==
    LET errs == (IF open[fd] THEN {} ELSE {"EBADF"})
                \cup (IF "EPOLLERR" \in flags THEN {"ErrSocketEvent"} ELSE {})
                \cup (IF "EPOLLHUP" \in flags THEN {"ErrSocketHUPEvent"} ELSE {})
    IN  IF errs # {} THEN errs
        ELSE IF \/ "EPOLLIN" \in flags /\ sockets[fd].event = "income"
                \/ "EPOLLOUT" \in flags /\ sockets[fd].event \in {"outcome", "connect"}
             THEN {}
             ELSE {"ErrPollDiffEventType"}

-----------------------------------------------------------------------------
(***************************************************************************)
(* Connection.poll.                                                        *)
(***************************************************************************)
\* poll() returns, and its locals are gone.
Return(fd, errs) ==
    /\ pc' = [pc EXCEPT ![fd] = "idle"]
    /\ result' = errs
    /\ event' = [event EXCEPT ![fd] = NoEvent]
    /\ expired' = [expired EXCEPT ![fd] = FALSE]

GoTo(fd, label) ==
    /\ pc' = [pc EXCEPT ![fd] = label]
    /\ UNCHANGED <<result, event, expired>>

StartPoll(fd, type) ==
    /\ ~panicked
    /\ pc[fd] = "idle"
    /\ chan[fd] < MaxPolls
    /\ pc' = [pc EXCEPT ![fd] = "check"]
    /\ event' = [event EXCEPT ![fd] = type]
    /\ chan' = [chan EXCEPT ![fd] = @ + 1]
    /\ result' = {}
    /\ UNCHANGED <<expired, loopVars, senderVars, errVars, kernelVars, sockets, socketsUnexpErr>>

\* Time passes the deadline of a call in progress.
Expire(fd) ==
    /\ ~panicked
    /\ "timeout" \in Faults
    /\ pc[fd] \in {"check", "select"}
    /\ ~expired[fd]
    /\ expired' = [expired EXCEPT ![fd] = TRUE]
    /\ UNCHANGED <<pc, event, chan, result, loopVars, senderVars, errVars,
                   kernelVars, sockets, socketsUnexpErr>>

\* Head of the first loop: give up, or go and call Add.
CheckDeadline(fd) ==
    /\ ~panicked
    /\ pc[fd] = "check"
    /\ IF expired[fd] THEN Return(fd, {"ErrPollTimeout"}) ELSE GoTo(fd, "lockAdd")
    /\ UNCHANGED <<chan, loopVars, senderVars, errVars,
                   kernelVars, sockets, socketsUnexpErr>>

\* Add, first case: the error of an earlier event that nobody waited for.
AddUnexpErr(fd) ==
    /\ pc[fd] = "lockAdd" /\ CanLock
    /\ socketsUnexpErr[fd] # {}
    /\ socketsUnexpErr' = deleteSocketUnexpErr(fd)
    /\ Return(fd, processPollError(socketsUnexpErr[fd]))
    /\ UNCHANGED <<chan, loopVars, senderVars, errVars,
                   kernelVars, sockets>>

\* Add, second case: the descriptor is in e.sockets, or epoll_ctl fails.
\* poll() tries again on ErrSocketAlreadyAdded and returns the other errors.
AddError(fd) ==
    /\ pc[fd] = "lockAdd" /\ CanLock
    /\ socketsUnexpErr[fd] = {}
    /\ LET e == IF isSocketInPolling(fd) THEN {"ErrSocketAlreadyAdded"} ELSE CtlError(fd)
       IN  /\ e # {}
           /\ IF e = {"ErrSocketAlreadyAdded"} THEN GoTo(fd, "check")
              ELSE Return(fd, processPollError(e))
    /\ UNCHANGED <<chan, loopVars, senderVars, errVars,
                   kernelVars, sockets, socketsUnexpErr>>

\* Add, last case: the unit is registered, and wait() started if need be.
AddUnit(fd) ==
    /\ pc[fd] = "lockAdd" /\ CanLock
    /\ socketsUnexpErr[fd] = {}
    /\ ~isSocketInPolling(fd)
    /\ CtlError(fd) = {}
    /\ interest' = [interest EXCEPT ![fd] = EventMask(event[fd])]
    /\ sockets' = addSocketInPolling(fd)
    /\ polling' = TRUE
    /\ IF isPolling THEN UNCHANGED waitPc
       ELSE \E w \in WaitId : /\ waitPc[w] = "dead"
                              /\ waitPc' = [waitPc EXCEPT ![w] = "syscall"]
    /\ GoTo(fd, "select")
    /\ UNCHANGED <<chan, waitN, eventsBuf, readyEvents, spawned,
                   senderVars, errVars, open, cond, socketsUnexpErr>>

\* Second loop, default branch of the select: nobody is sending on the
\* channel and the deadline has passed.
SelectTimeout(fd) ==
    /\ ~panicked
    /\ pc[fd] = "select"
    /\ expired[fd]
    /\ sendTo # fd
    /\ GoTo(fd, "lockDelete")
    /\ UNCHANGED <<chan, loopVars, senderVars, errVars,
                   kernelVars, sockets, socketsUnexpErr>>

DeleteSocketFromPolling(fd) ==
    /\ pc[fd] = "lockDelete" /\ CanLock
    /\ sockets' = deleteSocketFromPolling(fd)
    /\ Return(fd, {"ErrPollTimeout"})
    /\ UNCHANGED <<chan, loopVars, senderVars, errVars,
                   kernelVars, socketsUnexpErr>>

-----------------------------------------------------------------------------
(***************************************************************************)
(* wait().                                                                 *)
(***************************************************************************)

\* epoll_wait returns n > 0 events, as many as eventsBuf holds.  (n = 0 goes
\* round the loop and changes nothing.)
WaitSyscall(w) ==
    /\ ~panicked
    /\ waitPc[w] = "syscall"
    /\ \E batch \in SUBSET EpollInstance :
          /\ batch # {}
          /\ \/ batch = EpollInstance /\ Cardinality(batch) <= EventsBufLen
             \/ Cardinality(batch) = EventsBufLen
          /\ eventsBuf' = [fd \in Fd |-> IF fd \in batch THEN Reported(fd) ELSE {}]
          /\ waitN' = [waitN EXCEPT ![w] = Cardinality(batch)]
    /\ waitPc' = [waitPc EXCEPT ![w] = "lock"]
    /\ UNCHANGED <<polling, readyEvents, spawned, pollVars, senderVars, errVars,
                   kernelVars, sockets, socketsUnexpErr>>

\* epoll_wait fails: the loop ends, e.polling stays true.
WaitError(w) ==
    /\ ~panicked
    /\ "waitErr" \in Faults
    /\ waitPc[w] = "syscall"
    /\ err' = {"ErrEpollWait"}
    /\ pushers' = pushers + 1
    /\ waitPc' = [waitPc EXCEPT ![w] = "dead"]
    /\ UNCHANGED <<polling, waitN, eventsBuf, readyEvents, spawned, panicked, pollVars,
                   senderVars, kernelVars, sockets, socketsUnexpErr>>

\* Mutant: the comparison the other way round.
AllReady_Inverted(n) == n # pollingSocketsLen

\* "n == e.pollingSocketsLen()": as many events as sockets waited for.
AllReady(n) == n = pollingSocketsLen

WaitBatch(w) ==
    /\ waitPc[w] = "lock" /\ CanLock
    /\ spawned[waitN[w]] < MaxSpawned
    /\ readyEvents' = addReadyEvents
    /\ eventsBuf' = NoEvents
    /\ spawned' = [spawned EXCEPT ![waitN[w]] = @ + 1]
    /\ IF AllReady(waitN[w])
          THEN stopPolling /\ waitPc' = [waitPc EXCEPT ![w] = "dead"]
          ELSE waitPc' = [waitPc EXCEPT ![w] = "syscall"] /\ UNCHANGED polling
    /\ waitN' = [waitN EXCEPT ![w] = 0]
    /\ UNCHANGED <<pollVars, senderVars, errVars, kernelVars, sockets, socketsUnexpErr>>

-----------------------------------------------------------------------------
(***************************************************************************)
(* processEvents(n) and pushError().                                       *)
(***************************************************************************)
ReadyFds == {fd \in Fd : readyEvents[fd] # {}}

\* Take the mutex, compute readySockets, panic if their number is not n.
ProcessEvents(n) ==
    /\ CanLock /\ spawned[n] > 0
    /\ spawned' = [spawned EXCEPT ![n] = @ - 1]
    /\ IF Cardinality(ReadyFds) # n
          THEN panicked' = TRUE /\ UNCHANGED <<mu, toSend, verdict>>
          ELSE /\ mu' = "processEvents"
               /\ toSend' = ReadyFds
               /\ verdict' = [fd \in Fd |-> IF fd \in ReadyFds
                                              THEN Verdict(fd, readyEvents[fd]) ELSE {}]
               /\ UNCHANGED panicked
    /\ UNCHANGED <<sendTo, err, pushers, polling, waitPc, waitN, eventsBuf, readyEvents,
                   pollVars, kernelVars, sockets, socketsUnexpErr>>

\* pushError takes the mutex; GetError reads e.err and clears it.
PushError ==
    /\ CanLock /\ pushers > 0
    /\ pushers' = pushers - 1
    /\ err' = {}
    /\ mu' = "pushError"
    /\ toSend' = {fd \in Fd : isSocketInPolling(fd)}
    /\ verdict' = [fd \in Fd |-> IF isSocketInPolling(fd) THEN err ELSE {}]
    /\ UNCHANGED <<sendTo, panicked, loopVars, pollVars, kernelVars, sockets, socketsUnexpErr>>

\* The range over the map reaches fd, which has no channel: nobody waits.
NobodyWaits(fd) ==
    /\ mu # "free" /\ sendTo = NoFd /\ fd \in toSend
    /\ ~isSocketInPolling(fd)
    /\ socketsUnexpErr' = [socketsUnexpErr EXCEPT ![fd] = verdict[fd]]
    /\ toSend' = toSend \ {fd}
    /\ verdict' = [verdict EXCEPT ![fd] = {}]
    /\ UNCHANGED <<mu, sendTo, loopVars, pollVars, errVars, kernelVars, sockets>>

\* The range over the map reaches fd, and the goroutine blocks on its channel.
BlockOnChan(fd) ==
    /\ mu # "free" /\ sendTo = NoFd /\ fd \in toSend
    /\ isSocketInPolling(fd)
    /\ sendTo' = fd
    /\ UNCHANGED <<mu, toSend, verdict, loopVars, pollVars, errVars, kernelVars,
                   sockets, socketsUnexpErr>>

\* The rendezvous: "ch <- v.Err" meets "<-pUnit.ResultChan".  processEvents
\* then deletes the socket; pushError does not.
Deliver(fd) ==
    /\ sendTo = fd
    /\ pc[fd] = "select"
    /\ sockets[fd].chan = chan[fd]
    /\ Return(fd, processPollError(verdict[fd]))
    /\ sendTo' = NoFd
    /\ toSend' = toSend \ {fd}
    /\ verdict' = [verdict EXCEPT ![fd] = {}]
    /\ sockets' = IF mu = "processEvents" THEN deleteSocketFromPolling(fd) ELSE sockets
    /\ UNCHANGED <<mu, chan, loopVars, errVars, kernelVars, socketsUnexpErr>>

\* Everyone is answered: processEvents clears e.readyEvents, both unlock.
Unlock ==
    /\ mu # "free" /\ sendTo = NoFd /\ toSend = {}
    /\ mu' = "free"
    /\ readyEvents' = IF mu = "processEvents" THEN clearReadyEvents ELSE readyEvents
    /\ UNCHANGED <<toSend, verdict, sendTo, polling, waitPc, waitN, eventsBuf, spawned,
                   pollVars, errVars, kernelVars, sockets, socketsUnexpErr>>

-----------------------------------------------------------------------------
\* A connected socket was added to the epoll instance by the poll() of its
\* connect(), and is writable.
Init ==
    /\ pc = [fd \in Fd |-> "idle"]
    /\ event = [fd \in Fd |-> NoEvent]
    /\ chan = [fd \in Fd |-> 0]
    /\ expired = [fd \in Fd |-> FALSE]
    /\ result = {}
    /\ mu = "free"
    /\ polling = FALSE
    /\ sockets = [fd \in Fd |-> NoUnit]
    /\ socketsUnexpErr = NoEvents
    /\ eventsBuf = NoEvents
    /\ readyEvents = NoEvents
    /\ err = {}
    /\ panicked = FALSE
    /\ waitPc = [w \in WaitId |-> "dead"]
    /\ waitN = [w \in WaitId |-> 0]
    /\ spawned = [n \in 1..EventsBufLen |-> 0]
    /\ pushers = 0
    /\ toSend = {}
    /\ verdict = NoEvents
    /\ sendTo = NoFd
    /\ open = [fd \in Fd |-> TRUE]
    /\ interest = [fd \in Fd |-> IF fd \in Connected THEN {"EPOLLOUT"} ELSE {}]
    /\ cond = interest

Environment(fd) ==
    KernelEvent(fd) \/ SocketIO(fd) \/ CloseSocket(fd) \/ NewSocket(fd)

\* The methods of Epoll that take e.mu in the caller's goroutine.
LockedCall(fd) ==
    AddUnexpErr(fd) \/ AddError(fd) \/ AddUnit(fd) \/ DeleteSocketFromPolling(fd)

Poll(fd) ==
    \/ \E type \in EventType : StartPoll(fd, type)
    \/ Expire(fd)
    \/ CheckDeadline(fd)
    \/ LockedCall(fd)
    \/ SelectTimeout(fd)

Wait(w) == WaitSyscall(w) \/ WaitError(w) \/ WaitBatch(w)

Sender(fd) == NobodyWaits(fd) \/ BlockOnChan(fd) \/ Deliver(fd)

Next ==
    \/ \E fd \in Fd : Environment(fd) \/ Poll(fd) \/ Sender(fd)
    \/ \E w \in WaitId : Wait(w)
    \/ \E n \in 1..EventsBufLen : ProcessEvents(n)
    \/ PushError
    \/ Unlock

Spec == Init /\ [][Next]_vars

(***************************************************************************)
(* Fairness.  Goroutines that can run do run.  An operation that waits for *)
(* e.mu is strongly fair: sync.Mutex hands the lock to a waiter that has   *)
(* starved for 1 ms.  The clock advances, so deadlines pass.  Nothing is   *)
(* assumed of the kernel, of the peer or of who calls poll().              *)
(***************************************************************************)
Fairness ==
    /\ \A fd \in Fd :
          /\ WF_vars(Expire(fd) \/ CheckDeadline(fd) \/ SelectTimeout(fd))
          /\ SF_vars(LockedCall(fd))
          /\ WF_vars(Sender(fd))
    /\ \A w \in WaitId : /\ WF_vars(WaitSyscall(w))
                         /\ SF_vars(WaitBatch(w))
    /\ \A n \in 1..EventsBufLen : SF_vars(ProcessEvents(n))
    /\ SF_vars(PushError)
    /\ WF_vars(Unlock)

FairSpec == Spec /\ Fairness

-----------------------------------------------------------------------------
(***************************************************************************)
(* Properties.                                                             *)
(***************************************************************************)
TypeOK ==
    /\ pc \in [Fd -> {"idle", "check", "lockAdd", "select", "lockDelete"}]
    /\ event \in [Fd -> EventType \cup {NoEvent}]
    /\ chan \in [Fd -> Nat]
    /\ expired \in [Fd -> BOOLEAN]
    /\ result \in SUBSET Err
    /\ mu \in {"free", "processEvents", "pushError"}
    /\ polling \in BOOLEAN
    /\ sockets \in [Fd -> [event : EventType \cup {NoEvent}, chan : Nat]]
    /\ socketsUnexpErr \in [Fd -> SUBSET Err]
    /\ eventsBuf \in [Fd -> SUBSET Flag]
    /\ readyEvents \in [Fd -> SUBSET Flag]
    /\ err \in SUBSET Err
    /\ panicked \in BOOLEAN
    /\ waitPc \in [WaitId -> {"dead", "syscall", "lock"}]
    /\ waitN \in [WaitId -> Nat]
    /\ spawned \in [1..EventsBufLen -> Nat]
    /\ pushers \in Nat
    /\ toSend \in SUBSET Fd
    /\ verdict \in [Fd -> SUBSET Err]
    /\ sendTo \in Fd \cup {NoFd}
    /\ open \in [Fd -> BOOLEAN]
    /\ interest \in [Fd -> SUBSET Flag]
    /\ cond \in [Fd -> SUBSET Flag]

Looping(w) == waitPc[w] # "dead"

\* epoll_wait has failed once: e.polling says that wait() runs, and nothing
\* ever runs it again.
LoopDied == polling /\ \A w \in WaitId : ~Looping(w)

\* At most one wait() goroutine is alive, and only while e.polling is set.
\* Two of them would share e.eventsBuf, which is written without the mutex.
SingleWaitLoop ==
    /\ \A v, w \in WaitId : Looping(v) /\ Looping(w) => v = w
    /\ \A w \in WaitId : Looping(w) => polling

\* The call of poll() is past Add and has not returned.  At lockDelete its deadline
\* has passed: it has left the select and reads its channel no more.
PastAdd(fd) == pc[fd] \in {"select", "lockDelete"}

\* A call of poll() that is past Add has its own unit in e.sockets, and the
\* kernel watches its socket, if it is still open, for the event it wants.
WaitingIsRegistered ==
    \A fd \in Fd : PastAdd(fd) =>
        /\ sockets[fd] = [event |-> event[fd], chan |-> chan[fd]]
        /\ open[fd] => interest[fd] = IF event[fd] = "income" THEN {"EPOLLIN"}
                                                             ELSE {"EPOLLOUT"}

\* A unit does not outlive its call: unless epoll_wait has failed, each unit in
\* e.sockets is that of the current call of poll() on its descriptor, which has
\* not returned, however the calls before it ended.  An answer to an earlier call
\* therefore finds no channel.  That the caller still reads the channel is not
\* said, and not so: see TimeoutReturns.
UnitsAreCurrent ==
    \A fd \in Fd : isSocketInPolling(fd) =>
        LoopDied \/ (PastAdd(fd) /\ sockets[fd].chan = chan[fd])

\* Events that wait() has stored in e.readyEvents always have a processEvents
\* goroutine that will run or is running: none is stranded.
EventsHaveProcessor ==
    ReadyFds # {} => \/ \E n \in 1..EventsBufLen : spawned[n] > 0
                     \/ mu = "processEvents"
                     \/ panicked

\* With a single socket, a caller in select has someone to answer it: the
\* wait() loop, or a processEvents that has not finished.  (With two sockets
\* the loop may have stopped too early, having counted the event of an idle one.)
SomeoneWillAnswer ==
    \A fd \in Fd : pc[fd] = "select" =>
        \/ \E w \in WaitId : Looping(w)
        \/ \E n \in 1..EventsBufLen : spawned[n] > 0
        \/ mu # "free"
        \/ panicked

\* "if some desynchronisation or strange situation happened.  This should not
\* happen" (polling.go, above the panic of processEvents).
NoPanic == ~panicked

\* "nil for the event income means that there is incoming data ..." (comment
\* of Connection.poll): when poll() returns nil, the socket is ready for what
\* the caller asked.
NilMeansReady ==
    [][\A fd \in Fd :
          pc[fd] = "select" /\ pc'[fd] = "idle" /\ result' = {} =>
              EventMask(event[fd]) \subseteq cond[fd]]_vars

\* "Polling timeout ... When it is reached ErrPollTimeout is returned"
\* (options.go): a call of poll() whose deadline has passed returns.
TimeoutReturns == \A fd \in Fd : expired[fd] ~> pc[fd] = "idle"

\* A caller in select whose socket is ready for the event gets its answer.
ReadyPollReturns ==
    \A fd \in Fd :
        pc[fd] = "select" /\ EventMask(event[fd]) \subseteq cond[fd] ~> pc[fd] = "idle"

\* With a single socket and no deadline, every event is one that somebody waits
\* for: no result is stored for a later Add to return.
NothingUnexpected == \A fd \in Fd : socketsUnexpErr[fd] = {}

(***************************************************************************)
(* poll() as a connection sees it (PollService).                           *)
(***************************************************************************)
Promise == INSTANCE PollService WITH
    stage   <- [fd \in Fd |-> IF pc[fd] = "idle" THEN "idle"
                             ELSE IF PastAdd(fd) THEN "accepted" ELSE "asked"],
    outcome <- IF result = {} THEN "nil" ELSE "error",
    ready   <- [fd \in Fd |-> EventMask(event[fd]) \subseteq cond[fd]],
    broken  <- [fd \in Fd |-> cond[fd] \cap {"EPOLLERR", "EPOLLHUP"} # {}]

\* With a single socket and no deadline, poll() keeps its promise: a unit that
\* Add has taken is answered once the socket is ready or broken, and truly.
KeepsPromise == Promise!Spec

=============================================================================

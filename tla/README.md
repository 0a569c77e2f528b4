# A verification project for redis_driver

TLA+ models of the driver's poller, of its connection and of the client above
them, down to the bytes of RESP; the TLC runs that check them on small
instances; and TLAPS proofs of what holds for every instance. Paths below are relative to the repository's root.

## 1. Inventory

| component | state | operations | interacts with |
|---|---|---|---|
| **Client** (`redis_driver.go`) | options, connector | `Ping`, `Hello3`, `SetValueForKey`, `GetValueByKey`, `Close`, `NewClient` | spins on `Connection.Process` while it returns `ErrConnectionCmdInProcess` |
| **Connection** (`internal/connection/connection.go`) | `processing` under `mu`; current socket, messenger; send buffer (`WritePos`, `SentBytes`), receive buffer (`WritePos`) | `Process` = encode, `send`, `receive`, decode; `connect`, `reconnect`, `poll`, `Close`, growth of the buffers | calls translator, transmitter, socket; `poll` adds a unit to the poller and waits on its channel |
| **Poller** (`pkg/polling/polling.go`) | one per process: `sockets`, `socketsUnexpErr`, `readyEvents`, `polling`, `err` under `mu`; `eventsBuf` without it | `Add`, `DeleteSocketFromPolling`, goroutines `wait`, `processEvents`, `pushError` | epoll; the result channels of the callers |
| **Transmitter** (`internal/transmitter`) | descriptor | `Send`, `Receive`, `ChangeSocketFd` | sendmsg, recvmsg, SIOCINQ; translates errno |
| **Socket** (`internal/socket`) | descriptor | `NewSocket`, `Connect`, `Close` | socket, connect, close; translates errno |
| **Translator** (`internal/translator`) | the slice and the error of the call in progress | `Encode`, `Decode` | the buffers of the connection |
| **Options** (`options`) | values | `InitOptions` | read by everyone |
| **Factory** (`internal/connection/factory.go`) | the process-wide `Epoll` behind `sync.Once` | constructors | |
| **Models** (`internal/models`) | - | data types, error values | |

What is hard in this code:

* *goroutines and the mutex of the poller.* `processEvents` and `pushError`
  send on unbuffered channels with `e.mu` held; the receiver polls with a
  deadline and may be on its way to take the same mutex. `wait` starts one
  `processEvents` per batch, in no order, over one shared slice of events.
* *state keyed by descriptor number.* Units, stored errors, ready events and
  the epoll registration outlive the call, and the socket, they belong to.
* *failure in the middle.* The peer closes or resets between any two system
  calls, sends are partial, `reconnect` may fail after it has closed the old
  socket, and each path must leave buffers, messenger and socket consistent.
* *one byte stream for all commands.* A command abandoned by its context or
  after its last retry leaves bytes behind for the next one.
* *termination.* Retries, reconnects and contexts are counted in different
  loops that call each other.

What makes each part correct: *poller* - one wait loop, every waiting caller is
registered and gets exactly the answer to its own question, nobody waits for
ever. *Connection* - one command at a time, starting from empty buffers that stay
in bounds, one open descriptor; the reply is the command's own and entire; every
command ends. *Transmitter/Socket* - each errno leads to the right one of
"wait", "reconnect", "connect", "give up". *Translator* - decode inverts what the
server encodes, within the buffer. *Options* - after `InitOptions` every value
satisfies what the others assume.

## 2. Modules

| module | what it is |
|---|---|
| `PollService` | abstract: what `poll()` promises to a connection |
| `Epoll` | the poller with its callers (`Connection.poll`) and the kernel's epoll |
| `EpollProofs` | theorems about `Epoll` |
| `CommandService` | abstract: what a connection promises to the goroutines that share it |
| `Buffers` | growth of the buffers (`increaseSendBuf`, `increaseRecvBuf`) |
| `Connection` | client loop, connection, transmitter, socket; kernel sockets and server as environment |
| `CommandLog` | `Connection` with the history of what the server has executed |
| `Clients` | two instances of `Connection` over one table of descriptors |
| `ConnectionProofs` | theorems about `Buffers` and `Connection`: mutual exclusion, clean buffers, sockets, types and bounds |
| `ConnectionService` | `Connection` implements `CommandService`, under every fault |
| `ConnectionFaithful` | every reply is the command's own and entire, under stated assumptions |
| `CommandLogProofs` | theorems about `CommandLog`: what the server executes, how often and when |
| `ClientsProofs` | theorems about `Clients`: sockets and commands of two clients stay apart |
| `KeyValue` | abstract: what a client promises to the program |
| `Options` | `InitOptions` |
| `Translator` | `Encode` and `Decode` with all parsers, as operators |
| `Client` | `NewClient`, the commands, encoding, a Redis server that reads RESP, decoding |
| `CodecProofs` | theorems about `Encode`, `Decode` and the server's reading of a request |
| `ClientProofs` | theorems about `Options` and `Client`; `Client` implements `KeyValue` |
| `MCEpoll`, `MCConnection`, `MCCommandLog`, `MCClients`, `MCClient` | instances for TLC |

The driver is modelled in three layers, each against an abstract specification
of what the layer above relies on:

    Client      implements  KeyValue          (run ClientStore; proved for values without CR)
    Connection  implements  CommandService    (runs ConnSafety, ConnReply; proved)
    Epoll       implements  PollService       (run EpollLive; its safety proved)

`Clients` composes two connections side by side; `Client` composes `Options`, `Buffers`
and `Translator`.

### Epoll

A caller is named by its descriptor: a connection has one socket and at most one
goroutine in `poll()`. Each call of `poll()` has a new channel, modelled by its
number, so that a unit left behind by an earlier call can be told from the
current one.

| state | code |
|---|---|
| `pc`, `event`, `chan`, `expired`, `result` | locals of `Connection.poll`: place, `pUnit.EventType`, `pUnit.ResultChan`, "deadline has passed", the error returned |
| `sockets`, `socketsUnexpErr`, `readyEvents`, `eventsBuf`, `polling`, `err` | fields of `Epoll` |
| `mu` | `e.mu`, when a goroutine blocks with it held |
| `waitPc`, `waitN`, `spawned`, `pushers`, `toSend`, `verdict`, `sendTo` | the goroutines `wait`, `processEvents(n)`, `pushError` and their locals |
| `open`, `interest`, `cond` | the kernel: open sockets, registered events, readiness |

Granularity: a critical section of `e.mu` that cannot block is one action
(`AddUnexpErr`, `AddError`, `AddUnit`, `DeleteSocketFromPolling`, `WaitBatch`). The
two that can block are split at each channel operation: `ProcessEvents` /
`PushError` take the mutex, `NobodyWaits` / `BlockOnChan` pick the next entry of the
map in any order, `Deliver` is the rendezvous, `Unlock` ends. `WaitSyscall` is
outside the mutex, as in the code. A result is a set of errors because
`processEvents` joins them. `readyEvents` keeps the last event of each descriptor:
`readySockets` is a map that later events overwrite, and its size is what the code
compares. `EPOLLRDHUP` never occurs, since it is not asked for. Descriptor numbers
are reused by the connection that closed them (lowest free number).

### Connection

A goroutine goes `idle` → `client` (the spin) → the labels inside `Process`
(`begin`, `encode`, `send`, `sendPoll`, `receive`, `recvPoll`, `connect`, `connPoll`, `decode`,
`clear`, `stop`) → `idle`. `connect()` and `reconnect()` are called from three places;
`ret` says from where. `clear` and `stop` are the two deferred calls in their
order; the first return of `Process` skips `clear`, as in the code.

| state | code |
|---|---|
| `sendRetries`, `recvRetries`, `connRetries` | `retriesAvailable` of `send`, `receive`, `connect` |
| `processing`, `socket`, `msgrFd` | `c.processing`, `c.socket` (`NoSocket` is nil), `c.msgr.SocketFd` |
| `sendBuf`, `recvBuf` | length, `Buf[:WritePos]`, `SentBytes` |
| `kernel`, `inbox`, `wire`, `queue` | per descriptor: socket state (`closed`, `fresh`, `connecting`, `up`, `eof`, `failed`, `reset`); bytes the server has not read; the rest of a reply on its way; the receive queue |

Bytes are abstracted to units that carry the command they belong to, their
position and the number of units of the whole message: enough to tell a lost,
repeated, foreign or cut message. `DecodedReply` is what `Decode` yields of them. The
action for one outcome of a system call contains what `Send`/`Receive` translate
the errno to and what `send()`/`receive()` do with it. `poll()` is its result:
`nil`, `ErrPollTimeout`, `ErrConnectionClosed` or another error; with the fault
`poller` also what `Epoll` shows may come from another call or socket.
`ErrConnectionReset` takes the branch of `ErrConnectionClosed` everywhere and is not
distinguished in `send`; `poll()` cannot return it, since `SO_ERROR`'s value is dropped.

Failures of the environment are named in the constant `Faults`, so that each run
says what it assumes: `cancel`, `timeout`, `poller`, `partialSend`, `fragment`, `close`,
`refuse`, `noFd`, `userClose`.

`reset` is a connection that the peer has reset: a call reports ECONNRESET or, once
that error has been taken (`poll()` takes it too), EPIPE or the end of the stream;
the model leaves open which. `failed` is an attempt that was refused: the socket
was never connected, and ENOTCONN is possible as well.

`CommandService` is seen through `phase` (the spin is "waiting", everything inside
`Process` is "active") and `answer` (which of "own", "cut", "foreign", "error" the
reply and the error held for the caller amount to). `ServesOneByOne` admits all
four, under every fault; `ServesFaithfully` admits "own" and "error".

`poll()` may also not return at all: a call whose deadline passes while
`processEvents` sends to it waits for the mutex that the sender holds (run
`EpollTimeout`). In `Connection` such a call stays at its label for ever, which
`FairSpec` allows.

`CommandLog` adds two history variables: `executed`, the commands that the server has
executed on the connection of each descriptor, and `lingering`, the connections that
the client has closed while the server had bytes to read. close(2) delivers
what the kernel has taken, so that a command may be executed on them after it has
failed (`ExecuteLate`), which `dropStreams` in `Connection`, where only what reaches the client
counts, does not show. A connection breaks because the server or its host
ends it, and what the server has not read is lost then; one that only the client's
kernel gives up (keepalive, retransmissions) is not modelled.

### Clients

Client A is `Connection` itself (EXTENDS), client B an INSTANCE with variables of its
own and the same `kernel`, `inbox`, `wire`, `queue` and `calls`. All they share in the code is
the kernel's table of descriptors (and the poller, which `Connection` sees
by its contract only). `owner` and `stranded` are history: who called a command, and
which clients have had a `reconnect` that failed after it had closed the old
socket. From then on the messenger of such a client holds a number that the
other client may get from socket(2), and what it sends goes there: without the
exemption TLC finds a command of A on the connection of B within three calls.
It is also the only way in which `receive()` meets ENOTCONN (`ReceiveNotConnected`).
`noFd` and `userClose` are left out: with them `c.socket` is nil or closed for good while
the other client takes the number, and `Connection` polls a socket that is not
its own.

### Client, Translator, Options

A byte is a symbol. Words and numbers are one symbol each, so that lengths in
bytes are exact for numbers below 10, which `MaxNumber` = 9 ensures in the runs (the
theorems are for any `MaxNumber` from 5 on); what Encode and Decode compare and count is otherwise byte by
byte, so that the limits of the buffers, the CR LF rules and the indexes at the
end of the data are the code's. Parsers return the code's index, object and
`decodingErr`; a runtime error (an index past the end, a negative `make`) is the
result "panic", and the client is then `dead`. The recursion of the parsers into each
other is a function from the depth of nesting (`Parts`): a part that is nested deeper than there are bytes is nested
in itself, which happens after "_" because it returns the index 0
(`decoding.go`), and the stack overflows.

| state | code |
|---|---|
| `opts` | the `*Options` of the program, which every `NewClient` changes |
| `poller` | `epoll`, `epollErr` and `once` of factory.go |
| `op`, `pc`, `answer` | the method, its place, what it returned |
| `sendBuf`, `received` | `Buf[:WritePos]` and length; `Buf[:WritePos]` of the receive buffer |
| `decodingErr` | `Translator.decodingErr`, which outlives the call |
| `requests`, `stray` | what the kernel has taken and the server has not executed, on the connection in use and on those that were left |
| `store`, `mortal`, `proto`, `inbox` | the server: values, keys with a time limit, version of RESP on the connection; the bytes it has sent |
| `awaiting`, `behind`, `reply`, `effect` | history: whether the last request is that of the call that lasts; whether the connection owed or held a reply to an earlier call when the call began; the reply to the call and what it meant |

One goroutine calls, on one client at a time. send(2) hands the request to the
kernel (`Send`), and the server executes it later (`Execute`), be it when the call that
sent it has returned: a call can be given up before it sends, between the two and
after both (`GiveUp`), and the next one then meets its reply. A connection that
is left, by a second `NewClient` or because a reply was too long (`TooLong`),
keeps its requests, and the server gets to them at any time (`ExecuteStray`). When the server
or its host ends the connection (`Broken`), what it has not executed is lost. A request
of which only a part was sent is `Connection`'s subject. A single Receive takes
all that has arrived or, `MaxCuts` times, a part of it. How often send, receive
and reconnect are retried is `Connection`'s business, too, and is here a choice: `Reconnect` (a
new connection, in RESP2 because nobody says HELLO there) or `GiveUp`. PX is in
milliseconds; durations are in microseconds, so that those below a millisecond can
be told.

`KeyValue` is a map: a call takes effect while it lasts, once or more often, and its
answer tells the effect or is an error; after an error it may take effect
later, any number of calls later (`late`, `SetLate`). `excused` are the answers that need not be true: `Client` sets
it where the reply was cut, or where the connection owed or held a reply to an
earlier call when the call began (run `ConnCancelReply` shows what comes of that).

## 3. Runs

Passing runs:

| run | instance | shows |
|---|---|---|
| `EpollSafety` | 2 connected sockets, 1 poll each, timeouts, Close at any time, `epoll_wait` fails; 1.7M states | `TypeOK`, `SingleWaitLoop`, `WaitingIsRegistered`, `UnitsAreCurrent`, `EventsHaveProcessor` |
| `EpollLive` | 1 socket, 3 polls, no fault, fair; 1.9k states | `NoPanic`, `SomeoneWillAnswer`, `NothingUnexpected`, `NilMeansReady`, `ReadyPollReturns`; implements `PollService` (`KeepsPromise`), its liveness included |
| `ConnSafety` | 2 goroutines, 2 descriptors, both buffers grow, every fault but `fragment` and `partialSend`, with the history of `CommandLog`; 1.3M states | `TypeOK`, `MutualExclusion`, `BuffersClean`, `BuffersBounded`, `NoStraySocket`, `NilSocketUnused`, `PolledIsUsed`, `OncePerConnection`; implements `CommandService` with any answer (`ServesOneByOne`) |
| `ConnReply` | 2 goroutines, 3 commands, the send buffer grows, replies that do not fit, partial sends, closes, refusals; 76k states | `ReplyIsOwn`, `ReplyIsWhole`, `StreamIsCommands`, `NoBadFdWhileUp`, `OncePerConnection`, `NothingLate`; implements `CommandService` with own answers (`ServesFaithfully`) |
| `ConnLive` | 2 goroutines, cancellation, timeouts, fragments, closes, refusals, Close at any time, fair; 216k states | `CancelledReturns`, `EveryCallReturns` |
| `ClientsApart` | 2 clients with a goroutine each, 3 descriptors, 3 commands, closes, refusals; 0.8M states | `NumbersApart`, `NoCrossTalk` |
| `ClientStore` | `NewClient` twice from one Options, 2 commands, cancellation, failures, lost connections, error replies, a reply cut or too long; 0.75M states | `TypeOK`, `RequestsAreUnderstood`, `RefusedOnlyIfTooLong`, `GetReturnsStored`, `PanicsOnlyOnCut`, `OptionsSound`; implements `KeyValue` (`ActsAsStore`) |

Runs that find a disagreement between the code and what its comments, options
or README say (each is described under `findings` in `PROJECT.json`):

| run | property violated | in short |
|---|---|---|
| `EpollPanic` | `NoPanic` | two batches before the first `processEvents`: panic, with no fault |
| `EpollTimeout` | `TimeoutReturns` | sender holds `e.mu`, receiver waits for `e.mu` |
| `ConnCancelReply` | `ReplyIsOwn` | the next command gets the cancelled one's reply |
| `ConnTruncated` | `ReplyIsWhole` | a reply longer than twice the buffer is cut |
| `ClientBinary` | `GetReturnsStored` | a value that holds CR or CR LF comes back without it or cut |

`NoPanic`, `ReplyIsOwn`, `ReplyIsWhole` and `GetReturnsStored` appear in both tables. The
passing run shows how far the property does hold (one socket without timeouts;
nobody cancels and the receive buffer does not grow; values without CR), the other one which
circumstance breaks it.

More things the models show, for which no run is kept:

* With two sockets the wait loop may stop too early: `wait` compares counts, and an
  idle socket that is writable is counted (`polling.go:134`, `149`), so that the other
  caller is left without a loop. `SomeoneWillAnswer` holds for one socket only.
* `NilMeansReady` fails once deadlines pass (`Faults = {"timeout"}` in `EpollLive`): an event
  stored for a call that has timed out answers the next call (`polling.go:168`).
* With deadlines, ordinary readiness that nobody waits for any more is stored in
  `socketsUnexpErr` as `ErrPollDiffEventType` and makes the next `Add` fail
  (`polling.go:230`); `NothingUnexpected` says that without them nothing is stored.
* When the connection is lost after the receive buffer has grown, the part of the
  reply that it holds is not dropped, and the reply to the command that is sent
  again is appended to it (`connection.go:471` resets `SentBytes` alone):
  `ReplyIsWhole` fails in `ConnReply` with `ReceiveBufMinLen = 1`.
* Reconnects are not counted as attempts (`options.go:15` has the option,
  `connection.go:371` the loop): a server that accepts and closes keeps one
  command running for ever. `EveryCallReturns` therefore assumes that connections
  break finitely often.
* A command that was cancelled, timed out or was cut off by Close may be executed after it
  has returned, between or after later ones (`connection.go:398`, `488`):
  `NothingLate` is checked without these, and `KeyValue` has `SetLate` for it.
* A command given up when half of it is sent leaves the server in the middle of it,
  on a connection that is used again (`connection.go:398`): `StreamIsCommands` is
  checked without cancellation and timeouts.
* The retry of a connection attempt that timed out fails with `ErrConnectionInProcess`
  (EALREADY) while attempts remain (`connection.go:134`, `socket.go:142`).
* `Client.Close` after a `reconnect` that got no descriptor calls a method of a nil
  interface (`connection.go:497`, `507`): action `CloseClient`, label `dead`.
* After a `reconnect` whose connect failed, commands of the client can reach the
  connection of another client of the process (see `Clients`).
* Two clients from one Options value get different numbers of attempts: every
  `InitOptions` adds one (`options.go:84`; theorem `OnlyAttemptsDrift`).
* A reply that is cut inside an error, or between a key and its value, ends the
  process (`decoding.go:279`). `PanicsOnlyOnCut` says that nothing else does.
* A value set for less than a millisecond never expires (`redis_driver.go:124`).
* The error of the first `NewEpoll` is kept by `sync.Once`: no later `NewClient` can
  succeed (`factory.go:33`).

### Bounds

* *Sockets and goroutines.* Two connections are enough for the poller to mix them
  up, and one isolates what a connection does to itself. Two goroutines contend
  for `Process`; more of them only queue in the spin. Two descriptors let a
  reconnect take the same number or another one; two clients need a third, so
  that a number can be free while both have one.
* *Polls and commands* (`MaxPolls`, `MaxCalls`). A call meets what at most one earlier
  call left behind, since the next call of the same descriptor consumes or
  replaces it; three polls cover connect, outcome and income of one socket. Cross
  talk between clients takes three commands: one that strands A, one with which
  B takes the number, and the next one of A.
* *`MaxSpawned`* bounds the `processEvents` goroutines that wait for the mutex; a
  level-triggered event is reported on every round, so that without it the
  number is unbounded. Two are enough for the panic; with one in `EpollSafety` the
  loop waits, which only removes states in which more of the same wait.
* *`EventsBufLen`* is 5 in the code and at least the number of sockets here.
* *Buffers* have one growth by doubling and one up to a maximum that is no multiple
  (2 to 3 in `ConnSafety`, 1 to 2 in `ConnReply`; 4 to 38 in `ClientStore`, where the longest command does not fit);
  a command fits only after growth, a reply only just or not.
* *Values and options* of `ClientStore`: an empty value, a short one, one with bytes that
  mean something in RESP, one of a type Encode refuses; for ever, half a millisecond
  (which comes to the same) and two milliseconds; options that ask for defaults, and
  limits that contradict each other. Two calls are a Set and a Get. `MaxClients` is 2, so
  that one Options value and the poller are used again, and the request of a Set that
  was given up can be executed late, on a connection that was left, before, between
  and after the steps of the Get. The HELLO of `NewClient` is a call as well, whose
  reply a command can meet.
* *`MaxCuts`* is 1: one reply arrives in pieces. What the calls after it make of the
  rest is `Connection`'s subject; here it may end the process, and once is enough.
* *`RetryAmount`* is 2: a first attempt and one retry, the smallest value that
  `InitOptions` can leave (theorem `InitOptionsIsSound`).
* *`Conditions`*, *`Faults`* select what the environment does in a run.

Deadlock is not checked: every run bounds its calls, so that the system stops
when they are done. That callers are not stuck is stated by the liveness
properties instead.

### Fairness

`Epoll!Fairness`: goroutines that can run do run (weak fairness); operations that wait
for `e.mu` are strongly fair, because `sync.Mutex` hands the lock over to a waiter
that has starved for a millisecond; the clock advances, so that deadlines pass.
`Connection!FairSpec`: each goroutine that can take a step takes one, except for the
return of `poll()` (`PollLabels`): nothing makes a goroutine leave it, since `EpollTimeout`
shows a call that never does, its deadline notwithstanding. Nothing is
assumed of the kernel, the network, the server, or of who calls, cancels and
closes. The spin of a command that waits for `Process` is no step; what is fair is
its entry, once the connection is free and stays free. That another command
might win the race for ever is excluded by `MaxCalls`, not by the code: starvation
in the spin is a hazard that these runs do not speak about. Both properties are
conditional. `CancelledReturns` says that a command whose context is done returns if
its own calls of `poll()` do (`PollReturns`): for one that spins in front of `Process` this
holds even if the command inside hangs. `EveryCallReturns` assumes that every
call of `poll()` returns and that from some time on no connection breaks any more. The safety of `PollService` and
its promise `Answered` are checked together under `Epoll!FairSpec`.

## 4. Proofs

TLAPS (SMT, Zenon, LS4) checks every leaf. The assumptions on the constants are the
named `ASSUME`s of the modules: `NoFd` and `NoSocket` are no descriptors, the set of
descriptors of the poller is finite (it is counted), bounds and lengths are
naturals, minima do not exceed maxima (what `InitOptions` establishes). A theorem
that needs more of the environment says so in its `ASSUME`.

| theorem | of | states | beyond the modules' assumptions |
|---|---|---|---|
| `TypeCorrect`, `OneLoop`, `WaitersAreRegistered`, `UnitsHaveCallers`, `NoStrandedEvents` | `Epoll` | `TypeOK`, `SingleWaitLoop`, `WaitingIsRegistered`, `UnitsAreCurrent`, `EventsHaveProcessor` | |
| `OneSocketNeverPanics`, `OneSocketExpectsAll`, `OneSocketIsServed` | `Epoll` | `NoPanic`, `NothingUnexpected`, `SomeoneWillAnswer` | one socket; no deadline passes, `epoll_wait` does not fail |
| `NilIsTrue`, `AnswersKeepThePromise` | `Epoll` | `NilMeansReady`, the safety of `PollService` | one socket, no fault |
| `OneCommandAtATime`, `CommandsStartClean`, `NoLeak`, `NilIsHarmlessInProcess`, `PollsWhatItUses` | `Connection` | `MutualExclusion`, `BuffersClean`, `NoStraySocket`, `NilSocketUnused`, `PolledIsUsed` | |
| `TypeCorrect`, `BuffersStayBounded` | `Connection` | `TypeOK`, `BuffersBounded` | |
| `ServiceImplemented` | `Connection` | `ServesOneByOne` | |
| `NoConnectionMissed` | `Connection` | `NoBadFdWhileUp` | `PollSetting` |
| `NoForeignReply`, `NoCutReply`, `ServerReadsCommands`, `FaithfulService` | `Connection` | `ReplyIsOwn`, `ReplyIsWhole`, `StreamIsCommands`, `ServesFaithfully` | `FaithfulSetting` |
| `AtMostOncePerConnection` | `CommandLog` | `OncePerConnection` | |
| `ExecutedInTime` | `CommandLog` | `NothingLate` | `FaithfulSetting`, nobody calls Close |
| `SocketsStayApart`, `CommandsStayApart` | `Clients` | `NumbersApart`, `NoCrossTalk` | |
| `GrowthIsBounded` | `Buffers` | growth increases a buffer, up to its maximum | |
| `InitOptionsIsSound`, `OnlyAttemptsDrift` | `Options` | what `InitOptions` returns, once and again | |
| `EncodeIsUnderstood` | `Translator` | `Encode` of a command into an empty buffer: within the buffer and read by the server as the same parameters, or an error, nothing written, and "too short" only if it is | |
| `ReadBackUnlessCR` | `Translator` | `Decode` returns the value of a bulk string if, and only if, no byte of it is CR | |
| `ClientTypeOK`, `ClientOptionsSound`, `ClientRequestsAreUnderstood`, `ClientRefusedOnlyIfTooLong`, `ClientPanicsOnlyOnCut` | `Client` | `TypeOK`, `OptionsSound`, `RequestsAreUnderstood`, `RefusedOnlyIfTooLong`, `PanicsOnlyOnCut` | |
| `ClientGetReturnsStored`, `ClientActsAsStore` | `Client` | `GetReturnsStored`, `ActsAsStore` | `Textual` |

The settings are constraints on `Faults`, on the number of sockets and on the limits
of a buffer; `Textual` says that no value contains CR. Except for that one socket, no
theorem bounds the number of goroutines, descriptors, clients, commands or retries, or
the lengths of commands and replies in `Connection`; in `Client` a key or value is at most
`MaxNumber` long, whatever that is.

### The poller

`TypeOK` is inductive by itself. The invariant `IInv` of `SingleWaitLoop`,
`WaitingIsRegistered` and `UnitsAreCurrent` adds to them `PushersComeFromDeath`
(pushError runs only after `epoll_wait` has failed,
and then no loop is ever started again, lemma `DeathIsFinal`; without it a unit that
pushError has answered but not deleted would refute `UnitsAreCurrent`) and
`BlockedOnUnit` (who blocks on a channel holds `e.mu`, and the unit is still in the map,
so that `Deliver` meets the call it found there). `EventsHaveProcessor` has an
invariant of its own, `EInv`: it adds `BatchInHand`, that `wait` asks for the mutex with
`n` in `1..EventsBufLen`, so that storing the batch leaves a `processEvents(n)` behind.
Frame lemmas (`RegistrationFrame`, `OutsiderFrame`) dispose of the actions that touch
nothing an invariant speaks of; the others have one step each.

With one socket and no deadline the poller goes through a cycle, `Cycle`: `Still`
(nothing of the socket is in it), `Watched` (a loop in `epoll_wait` or with the one
event in hand), `Stored` (the loop has ended, one `processEvents(1)` is to run), `Answering`
(it holds the mutex). The counts that the code compares are 0 or 1 then
(`OneCounted`), the loop ends exactly when it has the event, and `processEvents`
finds the one event that it was told of: no panic, nobody waits without a goroutine
at work, nothing is stored for later. Client.Close may close the socket at any
time. The theorems are about one socket because `NoPanic` is false with two (run
`EpollPanic`), and `SomeoneWillAnswer` as well. If moreover nobody closes the socket
under a call, `Truth` is invariant: flags taken from the kernel still hold when the
answer is delivered, because data are read outside `poll()` only. That makes
`poll()` a `PollService` but for its promise to answer at all, which is liveness.

### The connection

*Control* (`ConnectionProofs`). `InnerMoves` shows that whatever a goroutine does inside
`Process` moves only itself and stays inside, whence mutual exclusion; given that,
the goroutine that steps is the only one that uses buffers and sockets. `BuffersClean` needs
`CleanAtEnds` (the buffers are empty at `begin` and `stop`), `NoStraySocket` and
`NilSocketUnused` are inductive together: with c.socket nil every descriptor is closed,
the messenger's too, so that each send ends in EBADF before anything could call
a method of the nil socket. `ReconnectSocket` is the central lemma: close, then
take another descriptor or none. `PolledIsUsed` is inductive relative to that invariant.

*Types* (also `ConnectionProofs`). `TInv` adds to the types what keeps the arithmetic in them:
a retry is counted down only where it was found positive (`RetriesLeft`), and `decode`
is reached only with a unit in the receive buffer (`DecodeHasData`). Buffers stay in their limits because `SendBytes` takes no
more than the rest of the command, `ReceiveBytes` no more than what is free, and
both buffers grow by `GrowthIsBounded`.

*Service* (`ConnectionService`). `ResultsInv` says that a goroutine in `Process` holds a
result, a reply or an error, exactly when it is at the deferred calls. Every step
is then one of `CommandService`: by `InnerResults` a step inside `Process` decides the
answer or changes nothing that the caller sees, and by mutual exclusion only one
command is active. For `NoBadFdWhileUp` the invariant `FdInv` follows the one case
in which the messenger and c.socket differ: inside `connect()` called by `reconnect()`.
`PollSetting` excludes that `poll()` times out or returns what is not so, since after
that the attempt is still in progress and may succeed when the command has failed.

*Faithfulness* (`ConnectionFaithful`). `FInv` says that bytes are on their way only between the first
send(2) of a command and the last recv(2) of its reply, that they are on the
messenger's descriptor alone, and that they are a beginning of its request, the whole of
it, or its reply; what a closed or broken connection held is gone. Whoever sends goes on behind
what the server has in front of it, or begins at 0 on an empty connection: that is what `reconnect`, `connect` and the resets of `SentBytes` have to
get right on each path. `FaithfulSetting` is what this takes: no context ends, no
deadline passes and `poll()` says what is so (otherwise `Process` returns while a reply is on
its way, run `ConnCancelReply`), no reply comes in pieces, and the receive buffer does
not grow (otherwise a reply is cut, run `ConnTruncated`). Closes, refusals, partial
sends, failures to get a descriptor and `Client.Close` are not excluded.

*Executions* (`CommandLogProofs`). `LInv` calls a command heard of on a connection when
it was executed there or its first unit is in front of the server. A request is
begun only from position 0 of the buffer, on a connection that has not heard of it
(`Unheard`): where the command starts, or behind a `reconnect`, whose new descriptor is
`Unused`. `LingerInv` says the same of a connection that was closed: what is left to
read there are units of commands, each at most once, of which none has been executed there.
Hence `OncePerConnection`, under every fault. `NothingLate` follows from `FInv`: what
the server has in front of it is the request of the one that waits, and
nobody closes a live connection that holds a request (`NobodyLeaves`): `reconnect()` is called after the
server has ended the connection, or when a reply has arrived. With Close, which leaves one at any time, it would be
false, hence the second assumption of `ExecutedInTime`.

*Two clients* (`ClientsProofs`). `Apart`: both sockets are open and different, since a number that a
client takes was closed, or its own. `ClientsInv` adds whose units are where: in a
client's send buffer are its own (`SideA`, `SideB`), they go to the messenger's
descriptor, which is the client's socket unless `connect()` runs inside `reconnect()`
(`StrayA`) or has failed there (`stranded`), and what was sent on a number is dropped
before another client takes it. The lemmas about the steps of a client are there
twice, once for the instance `B`: a theorem about `Connection` speaks of its own variables
and cannot be cited for an instance with others.

### The client

*Options* (`ClientProofs`). For all integers a program may write, what `InitOptions`
returns is `Sound` (`InitOptionsIsSound`: the assumptions that `Connection` and `Buffers`
make of their constants), and applying it again changes `RetryAmount`, by one,
and nothing else (`OnlyAttemptsDrift`). Both rest on `BufLimitsAgree`: the limits of a
buffer are positive, in order, and a fixed point.

*Encoding* (`CodecProofs`). `Writes`, `Scans`, `Parts`, `Elements`, `Pairs`, `Read` and
`EncodedLens` recur over functions. That each has a solution is proved from the
library's theorem on minima of well-founded relations; from there on `ScansDef` and its
like give one step of the recursion, and the lemma `Induction`, about a set of numbers, the rest.
`EncodeIsUnderstood` goes through the parameters: `Written` says that the first k have
been written, that the server, whatever follows, reads them and stops behind
the last one (`Extends`), or that there was an error, and it has a reason. The
keys and values may contain any byte: the server reads by length.

*Decoding* (`CodecProofs`). One lemma for each reply a server gives, from `DecodesWord` to
`DecodesHello` (a map whose second value is an array). The client reads by CR LF and not by
length: `DecodesBulk` needs a text without CR, and `ReadBackUnlessCR` shows that any
other text is lost: what the loop has read from some place on cannot be what is
there if a CR is yet to come (`ScanLoses`, by induction from the end). The run `ClientBinary` shows what it
does to a Get.

*The invariant* (`ClientProofs`). `IInv` adds to the properties what their steps need:
`RequestIs` (what is in the buffer is the command of the call, empty before it is encoded),
`NothingRemembered` (the `decodingErr` of an earlier reply is gone, or it would be
returned by the next call), `NothingBefore` and `ReceivedIs` (no answer and no bytes from before),
`EffectIs` (a reply of the server says what it has done, `Replied`) and `GetReturned`,
which is `GetReturnsStored` also while there is no client. Three parts keep the
order of requests and replies: `SentIs` (what was sent and not executed is an encoded call),
`OwnIsLast` (the call that waits is the last one sent) and `InStep` (on a connection that
owed nothing when the call began, nothing but its own request and reply is on the way). `RefusedOnlyIfTooLong` speaks
of limits that a later `NewClient` sets again from the same Options; that they stay what they were (`LimitKept`) is
`OnlyAttemptsDrift`. `RepliesDecode` is the central lemma: a whole reply is
decoded to what the server has done (`Told`), and it never ends the process.
`IInv` was checked by TLC on the instance of `ClientStore`.

*The store* (`ClientProofs`). `ClientActsAsStore` maps each step: what moves bytes only
is a stutter or forgets calls that were given up (`Unseen`), a return is an answer that tells the effect
(`AnswerIsEffect`) or an error of the client's own, after which the call may still be among the
requests (`ReturnAbandons`), and `Execute` is the effect of the call that lasts if its request is at the
head and was not abandoned, else the late effect of one that returned, as
`ExecuteStray` always is. That a late effect is that of a call which was given up is the
content of `SentIs`: the server reads in a request the parameters of the call it was sent for.
An answer is true unless the reply was cut or `behind`; both are in the statement because
the code does not tell whose reply it decodes, nor whether it is entire.

### Left to TLC

* Liveness: `ReadyPollReturns`, `CancelledReturns`, `EveryCallReturns`, the promise `Answered`
  of `PollService` (the prover has no way to reason about ENABLED and fairness here).
* What `Decode` makes of bytes that are neither a reply of the server nor cut from one;
  TLC sees those that arise in `ClientStore` and `ClientBinary`. `DecodedText` and `PartText` say
  for any input only that nothing is invented: text comes from the data.
* `Epoll` with deadlines or several sockets, beyond the theorems of the first row:
  `NoPanic`, `NothingUnexpected` and `NilMeansReady` are false there.

## 5. Not modelled

* **Socket options** (`NewSocket`): they set kernel parameters that no property sees.
  Whether `NewSocket` succeeds is a choice.
* **Bytes of a number or a word**: one symbol each, hence numbers below 10 in the runs.
* **Doubles, booleans, big numbers, sets and pushes of RESP3**: the code has no parser
  for them and answers `ErrUnsupportedDataType`, as the model does.
* **The detailed poller under the detailed connection**: `Connection` uses the results
  of `poll()`; that `Epoll` gives no others is what `PollService` is for, and holds for one
  socket without deadlines. With deadlines, or two sockets, `Connection` is
  checked with the fault `poller`, under which `poll()` may say nil or fail at any time.
* **`connect(2)` that succeeds at once** does not happen for a non-blocking TCP socket.
* **Errors that need a broken program or machine** (EFAULT, EINVAL, ENOMEM, ENOTSOCK, EINTR)
  are the member `other` of the errors.
* **Models** (`internal/models`) has no behaviour: its values are members of `Err` and `Error`.

## 6. Plan

Done, in this order: the poller (`Epoll`) and its proofs; the connection (`Buffers`,
`Connection`) and its first proofs; the abstract specifications and the
refinements; the client with options, translator and factory; two clients; the
types, the service, the faithfulness and the executions of a connection, the
separation of two clients and the cycle of a poller with one socket as theorems;
encoding, decoding and the client, and that it implements `KeyValue`, as theorems.

Next, proofs:

1. How far `ReplyIsOwn` holds with a receive buffer that grows: with replies of at
   most its length after one growth, and connections that do not break in between
   (TLC first).
2. What `Options` promises to `Connection`, as one theorem that instantiates its
   assumptions.

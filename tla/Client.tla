------------------------------- MODULE Client ------------------------------
(***************************************************************************)
(* The client as the program sees it (redis_driver.go), with what a call   *)
(* goes through: the options, the factory, the command and its parameters, *)
(* Encode with the growth of the send buffer, send, a Redis server that    *)
(* reads RESP by its lengths, one Receive, Decode and the type of the      *)
(* result.  The server executes what it was sent when it gets to it, also  *)
(* when the call that sent it has returned.                                *)
(*                                                                         *)
(* One goroutine calls, on one client at a time; how goroutines share a    *)
(* client, and how a connection breaks and is made again, is the subject   *)
(* of Connection, and so is a request of which only a part was sent: here  *)
(* the kernel takes a request whole.  Times are in microseconds.           *)
(***************************************************************************)
EXTENDS Translator, FiniteSets, Buffers, Options

CONSTANTS
    Keys,           \* keys, sequences of symbols
    Values,         \* values, sequences of symbols, or Unsupported
    Durations,      \* times a value is stored for, 0 for ever
    UserOptions,    \* what the program may put in its Options
    MaxClients,     \* bound: calls of NewClient
    MaxCalls,       \* bound: calls of a command
    MaxCuts,        \* bound: replies that arrive in pieces
    Faults          \* subset of {"factory", "break", "cancel", "long", "refuse"}

Absent == <<"absent">>

ASSUME ClientAssumption ==
    /\ IsFiniteSet(Keys) /\ Absent \notin Values /\ Unsupported \notin Keys
    /\ \A part \in Keys \cup Values :
          part \in Seq(Range(part)) /\ Len(part) <= MaxNumber
    /\ Durations \subseteq Int /\ \A d \in Durations : d \div 1000 <= MaxNumber
    /\ UserOptions \subseteq Options
    /\ MaxClients \in Nat /\ MaxCalls \in Nat /\ MaxCuts \in Nat

VARIABLES
    opts,           \* the one Options value of the program
    poller,         \* epoll and epollErr of factory.go: "none", "made" or "failed"
    pc,             \* "none" (no client), "idle", or where the call is; "dead" after a panic
    op,             \* the call
    sendBuf,        \* [data |-> what is before WritePos, len |-> length of the buffer]
    received,       \* what Receive has put before WritePos
    decodingErr,    \* of the Translator
    answer,         \* what the last call returned, for Get the value with it
    store, mortal,  \* server: the value of each key, and the keys that expire
    requests,       \* sent on the connection and not yet executed, in that order
    stray,          \* the same of connections that are not used any more
    proto,          \* server: version of RESP on the connection
    inbox,          \* bytes on their way to the client
    awaiting,       \* history: the last request is that of the call that lasts
    behind,         \* history: the connection owed, or held, a reply to an earlier
                    \* call when the call began
    reply, effect,  \* history: the reply to the call, and what it meant
    clients, calls, cuts    \* counters for the bounds

bufVars == <<sendBuf, received, decodingErr>>
wireVars == <<requests, stray, proto, inbox, awaiting, behind>>
serverVars == <<store, mortal, wireVars, reply, effect>>
counters == <<clients, calls, cuts>>
vars == <<opts, poller, pc, op, bufVars, answer, serverVars, counters>>

-----------------------------------------------------------------------------
Command(name, key, value, duration) ==
    [name |-> name, key |-> key, value |-> value, duration |-> duration]

Hello(name) == Command(name, <<>>, <<>>, 0)

Calls ==
    {Hello("Ping"), Hello("Hello3"), Hello("NewClient")}
        \cup {Command("Get", k, <<>>, 0) : k \in Keys}
        \cup {Command("Set", k, v, d) : k \in Keys, v \in Values, d \in Durations}

\* duration.Milliseconds()
Milliseconds(duration) == duration \div 1000

\* Mutant: any duration is passed on, in whatever fraction of a millisecond.
expiry_Rounded(duration) ==
    IF duration > 0 THEN << <<"PX">>, Itoa(1 + Milliseconds(duration)) >> ELSE <<>>

\* PX counts whole milliseconds: a shorter time is no time limit at all.
expiry(duration) ==
    IF Milliseconds(duration) > 0
    THEN << <<"PX">>, Itoa(Milliseconds(duration)) >> ELSE <<>>

\* args of each method
args(c) ==
    CASE c.name = "Ping" -> << <<"PING">> >>
      [] c.name \in {"Hello3", "NewClient"} -> << <<"HELLO">>, <<"3">> >>
      [] c.name = "Set" -> << <<"SET">>, c.key, c.value >> \o expiry(c.duration)
      [] c.name = "Get" -> << <<"GET">>, c.key >>

\* The type each method asserts of its result; Set ignores it.
asserts(c, object) ==
    CASE c.name \in {"Ping", "Get"} -> object.type = "[]byte"
      [] c.name \in {"Hello3", "NewClient"} -> object.type = "map"
      [] c.name = "Set" -> TRUE

Result(err, text) == [err |-> err, text |-> text]

\* Mutant: the request stays in the buffer.
clearBufs_Missing(buf) == buf

clearBufs(buf) == [buf EXCEPT !.data = <<>>]

\* A call returns; NewClient without a client if HELLO failed.
Return(result) ==
    /\ answer' = result
    /\ pc' = IF op.name = "NewClient" /\ result.err # "nil" THEN "none" ELSE "idle"
    /\ sendBuf' = clearBufs(sendBuf)
    /\ awaiting' = FALSE

Begin(c) ==
    /\ op' = c /\ pc' = "encode"
    /\ behind' = (inbox' # <<>> \/ requests' # <<>>)
    /\ received' = <<>> /\ reply' = <<>> /\ effect' = Result("none", <<>>)

-----------------------------------------------------------------------------
\* once.Do(polling.NewEpoll): the result is kept for ever, an error too.
NewPoller ==
    poller' \in IF poller # "none" THEN {poller}
               ELSE {"made"} \cup (IF "factory" \in Faults THEN {"failed"} ELSE {})

(***************************************************************************)
(* NewClient: InitOptions on the caller's Options, then NewConnector with  *)
(* the socket, the poller that all clients share and the connection; then  *)
(* HELLO 3 for RESP3.  Another client takes the place of the first, and    *)
(* nobody closes the first: its connection stays.                          *)
(***************************************************************************)
NewClient ==
    /\ pc \in {"none", "idle"} /\ clients < MaxClients
    /\ clients' = clients + 1
    /\ opts' = InitOptions(opts)
    /\ NewPoller /\ poller' = "made"
    /\ sendBuf' = [data |-> <<>>, len |-> opts'.SendBufMinLen]
    /\ decodingErr' = "nil"
    /\ proto' = 2 /\ inbox' = <<>> /\ requests' = <<>>
    /\ stray' = stray \o requests
    /\ IF opts'.ProtoVersion = 3 THEN Begin(Hello("NewClient"))
       ELSE /\ pc' = "idle"
            /\ UNCHANGED <<op, received, behind, reply, effect>>
    /\ UNCHANGED <<answer, store, mortal, awaiting, calls, cuts>>

\* There is no socket, no poller, or no connection.
NewClientFails ==
    /\ "factory" \in Faults
    /\ pc \in {"none", "idle"} /\ clients < MaxClients
    /\ clients' = clients + 1
    /\ opts' = InitOptions(opts)
    /\ UNCHANGED poller \/ NewPoller
    /\ pc' = "none"
    /\ UNCHANGED <<op, bufVars, answer, serverVars, calls, cuts>>

\* A method of the client is called, and Process begins.
Call ==
    /\ pc = "idle" /\ calls < MaxCalls
    /\ calls' = calls + 1
    /\ UNCHANGED <<opts, poller, sendBuf, decodingErr, answer, store, mortal, requests,
                   stray, proto, inbox, awaiting, clients, cuts>>
    /\ \E c \in Calls \ {Hello("NewClient")} : Begin(c)

\* One turn of the loop of Process around Encode.
EncodeCmd ==
    /\ pc = "encode"
    /\ LET buf == Encode(sendBuf.data, sendBuf.len, args(op))
       IN  \/ /\ buf.err = "nil"
              /\ sendBuf' = [sendBuf EXCEPT !.data = buf.data]
              /\ pc' = "send"
              /\ UNCHANGED <<answer, awaiting>>
           \/ /\ buf.err = "ErrSendBufTooShort"
              /\ canIncrease(sendBuf.len, opts.SendBufMaxLen)
              /\ sendBuf' = [data |-> buf.data,
                             len |-> increasedLen(sendBuf.len, opts.SendBufMaxLen)]
              /\ UNCHANGED <<pc, answer, awaiting>>
           \/ /\ \/ buf.err = "ErrUnsupportedDataType"
                 \/ /\ buf.err = "ErrSendBufTooShort"
                    /\ ~canIncrease(sendBuf.len, opts.SendBufMaxLen)
              /\ Return(Result(buf.err, <<>>))
    /\ UNCHANGED <<opts, poller, op, received, decodingErr, store, mortal, requests,
                   stray, proto, inbox, behind, reply, effect, counters>>

\* The kernel takes the request.
Send ==
    /\ pc = "send" /\ pc' = "receive"
    /\ requests' = Append(requests, [call |-> op, bytes |-> sendBuf.data])
    /\ awaiting' = TRUE
    /\ UNCHANGED <<opts, poller, op, bufVars, answer, store, mortal, stray, proto, inbox,
                   behind, reply, effect, counters>>

\* The server, or its host, ends the connection: what it has not executed is lost.
Broken ==
    /\ "break" \in Faults
    /\ pc \in {"send", "receive"}
    /\ proto' = 2 /\ inbox' = <<>> /\ requests' = <<>>

\* send() or receive() finds the connection closed: reconnect() and, from the
\* first byte, send() again.  Nobody says HELLO on the new connection.
Reconnect ==
    /\ Broken
    /\ pc' = "send"
    /\ awaiting' = FALSE /\ behind' = FALSE
    /\ UNCHANGED <<opts, poller, op, bufVars, answer, store, mortal, stray, reply, effect,
                   counters>>

\* What has arrived does not fit in the receive buffer: reconnect() leaves the old
\* connection with what the server has not executed yet.
TooLong ==
    /\ "long" \in Faults
    /\ pc = "receive" /\ inbox # <<>>
    /\ proto' = 2 /\ inbox' = <<>> /\ requests' = <<>>
    /\ stray' = stray \o requests

\* The connection is lost and reconnect() fails; or the reply is too long; or the
\* context ends, or else the last retry, before the request is sent, or before the
\* server has executed it, or before its reply is there.  Nothing is taken back:
\* what was sent is executed, and answered, all the same.
GiveUp ==
    /\ \/ Broken /\ UNCHANGED stray
       \/ TooLong
       \/ /\ "cancel" \in Faults /\ pc \in {"encode", "send", "receive"}
          /\ UNCHANGED <<proto, inbox, requests, stray>>
    /\ Return(Result("other", <<>>))
    /\ UNCHANGED <<opts, poller, op, received, decodingErr, store, mortal, behind, reply,
                   effect, counters>>

\* One recvmsg(2) takes what has arrived.
Receive ==
    /\ pc = "receive"
    /\ \E n \in 1..Len(inbox) :
          /\ cuts' = IF n = Len(inbox) THEN cuts ELSE cuts + 1
          /\ cuts' <= MaxCuts
          /\ received' = SubSeq(inbox, 1, n)
          /\ inbox' = SubSeq(inbox, n + 1, Len(inbox))
    /\ pc' = "decode"
    /\ UNCHANGED <<opts, poller, op, sendBuf, decodingErr, answer, store, mortal, requests,
                   stray, proto, awaiting, behind, reply, effect, clients, calls>>

\* What Process and the method make of the result of Decode; if the context has
\* ended the method returns its error, whatever the reply says.
Conclude(r) ==
    /\ decodingErr' = r.decodingErr
    /\ \/ /\ r.err = "panic"
          /\ pc' = "dead"
          /\ UNCHANGED <<sendBuf, answer, awaiting>>
       \/ /\ r.err # "panic" /\ "cancel" \in Faults
          /\ Return(Result("other", <<>>))
       \/ /\ r.err \notin {"nil", "panic"}
          /\ Return(Result(r.err, <<>>))
       \/ /\ r.err = "nil" /\ ~asserts(op, r.object)
          /\ Return(Result("ErrTypeAssert", <<>>))
       \/ /\ r.err = "nil" /\ asserts(op, r.object)
          /\ Return(Result("nil", IF op.name = "Get" THEN r.object.text ELSE <<>>))

\* Decode, and the type assertion of the method.
DecodeReply ==
    /\ pc = "decode"
    /\ Conclude(Decode(received, decodingErr))
    /\ UNCHANGED <<opts, poller, op, received, store, mortal, requests, stray, proto, inbox,
                   behind, reply, effect, counters>>

-----------------------------------------------------------------------------
(***************************************************************************)
(* The server (external).                                                  *)
(***************************************************************************)
\* The next string of a request, by its length.
ReadString(bytes, read) ==
    LET at == read.next
        len == Atoi(<<bytes[at + 1]>>)
    IN  IF /\ read.ok /\ at + 5 <= Len(bytes) /\ bytes[at] = "$"
           /\ at + 5 + len <= Len(bytes)
           /\ SubSeq(bytes, at + 4 + len, at + 5 + len) = CRLF
        THEN [next |-> at + 6 + len, ok |-> TRUE,
              strings |-> Append(read.strings, SubSeq(bytes, at + 4, at + 3 + len))]
        ELSE [read EXCEPT !.ok = FALSE]

\* What has been read of a request after each of its n strings.
Read(bytes, n) ==
    LET read[k \in 0..n] ==
            IF k = 0 THEN [next |-> 5, ok |-> TRUE, strings |-> <<>>]
            ELSE ReadString(bytes, read[k - 1])
    IN  read

\* The strings of a request; << Unsupported >> if it is none.
Understood(bytes) ==
    LET n == Atoi(<<bytes[2]>>)
        read == Read(bytes, n)[n]
    IN  IF Len(bytes) >= 4 /\ bytes[1] = "*" /\ n >= 0 /\ read.ok
        THEN read.strings ELSE << Unsupported >>

Bulk(text) == Line("$", Len(text)) \o text \o CRLF
NullReply == IF proto = 3 THEN <<"_">> \o CRLF ELSE Line("$", -1)
HelloReply ==
    Line("%", 2) \o Bulk(<<"proto">>) \o Line(":", 3) \o Bulk(<<"modules">>) \o Line("*", 0)
ErrorReply == <<"-", "ERR">> \o CRLF

IsSet(req) == Len(req) \in {3, 5} /\ req[1] = <<"SET">>

\* SET, with PX if the value expires.
Write(req) ==
    /\ store' = Updated(store, req[2], req[3])
    /\ mortal' = IF Len(req) = 5 THEN mortal \cup {req[2]} ELSE mortal \ {req[2]}

\* The server executes the next request of the connection and answers, to the call
\* that lasts or to one that has returned.  The answer is on its way before the
\* client receives.
Execute ==
    /\ requests # <<>> /\ requests' = Tail(requests)
    /\ LET req == Understood(Head(requests).bytes)
           own == awaiting /\ Len(requests) = 1
           answers(bytes, result) ==
               /\ inbox' = inbox \o bytes
               /\ reply' = IF own THEN bytes ELSE reply
               /\ effect' = IF own THEN result ELSE effect
               /\ awaiting' = (awaiting /\ ~own)
       IN  \/ /\ req = << <<"PING">> >>
              /\ answers(<<"+", "PONG">> \o CRLF, Result("nil", <<>>))
              /\ UNCHANGED <<store, mortal, proto>>
           \/ /\ req = << <<"HELLO">>, <<"3">> >>
              /\ proto' = 3
              /\ answers(HelloReply, Result("nil", <<>>))
              /\ UNCHANGED <<store, mortal>>
           \/ /\ IsSet(req) /\ Write(req)
              /\ answers(<<"+", "OK">> \o CRLF, Result("nil", <<>>))
              /\ UNCHANGED proto
           \/ /\ Len(req) = 2 /\ req[1] = <<"GET">>
              /\ IF req[2] \in DOMAIN store /\ store[req[2]] # Absent
                 THEN answers(Bulk(store[req[2]]), Result("nil", store[req[2]]))
                 ELSE answers(NullReply, Result("ErrNoValue", <<>>))
              /\ UNCHANGED <<store, mortal, proto>>
           \/ /\ "refuse" \in Faults \/ Unsupported \in Range(req)
              /\ answers(ErrorReply, Result("ErrRedisException", <<>>))
              /\ UNCHANGED <<store, mortal, proto>>
    /\ UNCHANGED <<opts, poller, pc, op, bufVars, answer, stray, behind, counters>>

\* The server gets to a request of an earlier connection: its reply finds nobody.  (The
\* order among them is not kept.)
ExecuteStray(i) ==
    /\ stray' = SubSeq(stray, 1, i - 1) \o SubSeq(stray, i + 1, Len(stray))
    /\ LET req == Understood(stray[i].bytes)
       IN  \/ IsSet(req) /\ Write(req)
           \/ ("refuse" \in Faults \/ ~IsSet(req)) /\ UNCHANGED <<store, mortal>>
    /\ UNCHANGED <<opts, poller, pc, op, bufVars, answer, requests, proto, inbox, awaiting,
                   behind, reply, effect, counters>>

\* The time of a value is over.
Expire ==
    /\ \E k \in mortal : /\ store' = [store EXCEPT ![k] = Absent]
                         /\ mortal' = mortal \ {k}
    /\ UNCHANGED <<opts, poller, pc, op, bufVars, answer, wireVars, reply, effect, counters>>

-----------------------------------------------------------------------------
Init ==
    /\ opts \in UserOptions
    /\ poller = "none" /\ pc = "none" /\ op = Hello("NewClient")
    /\ sendBuf = [data |-> <<>>, len |-> 0]
    /\ received = <<>> /\ decodingErr = "nil"
    /\ answer = Result("none", <<>>)
    /\ store = [k \in Keys |-> Absent] /\ mortal = {}
    /\ requests = <<>> /\ stray = <<>> /\ proto = 2 /\ inbox = <<>>
    /\ awaiting = FALSE /\ behind = FALSE
    /\ reply = <<>> /\ effect = Result("none", <<>>)
    /\ clients = 0 /\ calls = 0 /\ cuts = 0

Next ==
    \/ NewClient \/ NewClientFails \/ Call \/ EncodeCmd \/ Send \/ Reconnect \/ GiveUp
    \/ Receive \/ DecodeReply \/ Execute \/ Expire
    \/ \E i \in DOMAIN stray : ExecuteStray(i)

Spec == Init /\ [][Next]_vars

-----------------------------------------------------------------------------
(***************************************************************************)
(* Properties.                                                             *)
(***************************************************************************)
Symbols == (UNION {Range(k) : k \in Keys}) \cup (UNION {Range(v) : v \in Values})
              \cup Range(numeral) \cup {"$", "*", "+", "-", "_", "%", ":", "CR", "LF"}
              \cup {"PING", "PONG", "HELLO", "3", "SET", "GET", "PX", "OK", "ERR",
                    "proto", "modules", "absent"}

StateTypeOK ==
    /\ opts \in Options
    /\ poller \in {"none", "made", "failed"}
    /\ pc \in {"none", "idle", "encode", "send", "receive", "decode", "dead"}
    /\ op \in Calls
    /\ DOMAIN sendBuf = {"data", "len"} /\ sendBuf.data \in Seq(Symbols)
    /\ Len(sendBuf.data) <= sendBuf.len
    /\ \A bytes \in {received, inbox, reply, answer.text, effect.text} :
          bytes \in Seq(Symbols)
    /\ store \in [Keys -> Values \cup {Absent}] /\ mortal \subseteq Keys
    /\ proto \in {2, 3}
    /\ clients \in 0..MaxClients /\ calls \in 0..MaxCalls /\ cuts \in 0..MaxCuts

SentTypeOK ==
    /\ {requests, stray} \subseteq Seq([call : Calls, bytes : Seq(Symbols)])
    /\ awaiting \in BOOLEAN /\ behind \in BOOLEAN

TypeOK == StateTypeOK /\ SentTypeOK

\* The server reads exactly the parameters of the call, whatever bytes the value
\* has and however often the buffer had to grow.
RequestsAreUnderstood == pc = "send" => Understood(sendBuf.data) = args(op)

\* SendBufMaxLen is the limit it says it is (options.go): a command is refused as
\* too long only if it does not fit in that many bytes, whatever the growth
\* of the buffer began with.
EncodedLens(params) ==
    LET sum[k \in 0..Len(params)] == IF k = 0 THEN 4 ELSE sum[k - 1] + 6 + Len(params[k])
    IN  sum

EncodedLen(params) == EncodedLens(params)[Len(params)]

RefusedOnlyIfTooLong ==
    (pc \in {"none", "idle"} /\ answer.err = "ErrSendBufTooShort" /\ received = <<>>)
        => EncodedLen(args(op)) > opts.SendBufMaxLen

Returned(name) == pc = "idle" /\ op.name = name
ReplyIsWhole == received # <<>> /\ received = reply

\* "GetValueByKey gets the value by the key.  Always returns a slice of bytes
\* regardless of what was written" (redis_driver.go): when the whole reply has
\* arrived and the context lasts, Get returns what the server had stored, byte for byte, and
\* ErrNoValue if nothing is stored, in RESP3 and in the RESP2 of a connection
\* that was made again.
GetReturnsStored ==
    Returned("Get") /\ ReplyIsWhole /\ answer.err # "other" => answer = effect

\* The process survives every reply that has arrived whole: it can die only on
\* one that was cut, or on what is left of one.
PanicsOnlyOnCut == pc = "dead" => ~ReplyIsWhole

\* Every client made from the Options of the program has options the connection
\* can work with.
OptionsSound == clients > 0 => Sound(opts)

\* The calls that have returned before the server got to their requests.
CallsOf(sent) == {sent[i].call : i \in DOMAIN sent}
GivenUp == IF awaiting THEN SubSeq(requests, 1, Len(requests) - 1) ELSE requests
Abandoned == CallsOf(stray) \cup CallsOf(GivenUp)

ReplyIsCut == Len(received) < Len(reply)

\* The client as the program sees it.
Store == INSTANCE KeyValue WITH
    Calls <- Calls, Absent <- Absent, Millisecond <- 1000,
    call <- IF pc \in {"none", "idle"} THEN [name |-> "none"] ELSE op,
    late <- Abandoned,
    excused <- behind \/ ReplyIsCut

\* Every call of the client is a call on a map from keys to values: a Set takes
\* effect while it lasts or, if it was given up, at any time later; a value
\* disappears only if it was stored for a millisecond or more; and an answer tells
\* what the effect was, unless the reply was cut, or the connection owed or held a
\* reply to an earlier call when the call began.
ActsAsStore == Store!Spec

=============================================================================

---------------------------- MODULE ClientProofs ----------------------------
(***************************************************************************)
(* Proofs about Client, for every set of keys, values, durations, options  *)
(* and faults, and without a bound on the number of calls.                 *)
(***************************************************************************)
EXTENDS CodecProofs

-----------------------------------------------------------------------------
(***************************************************************************)
(* InitOptions.                                                            *)
(***************************************************************************)
\* Whatever limits the caller gave for a buffer, the ones in force are positive
\* and do not contradict each other.
LEMMA BufLimitsAgree ==
    ASSUME NEW min \in Int, NEW max \in Int
    PROVE  /\ bufLimits(min, max) \in [min : Nat \ {0}, max : Nat \ {0}]
           /\ bufLimits(min, max).min <= bufLimits(min, max).max
BY DEF bufLimits, orDefault, MinLen, MaxLen, KB, MB

\* Whatever the caller put in the options, InitOptions leaves options on which
\* the connection can rely: at least one retry, a known protocol version,
\* positive times and limits of the buffers that do not contradict each other.
THEOREM InitOptionsIsSound ==
    ASSUME NEW o \in Options
    PROVE  InitOptions(o) \in Options /\ Sound(InitOptions(o))
<1> DEFINE r == InitOptions(o)
           s == bufLimits(o.SendBufMinLen, o.SendBufMaxLen)
           t == bufLimits(o.ReceiveBufMinLen, o.ReceiveBufMaxLen)
<1>1. /\ s \in [min : Nat \ {0}, max : Nat \ {0}] /\ s.min <= s.max
      /\ t \in [min : Nat \ {0}, max : Nat \ {0}] /\ t.min <= t.max
  BY BufLimitsAgree DEF Options
<1>2. /\ r.SendBufMinLen = s.min /\ r.SendBufMaxLen = s.max
      /\ r.ReceiveBufMinLen = t.min /\ r.ReceiveBufMaxLen = t.max
  BY DEF InitOptions
<1>3. /\ r.ProtoVersion \in {2, 3}
      /\ r.RetryAmount \in Nat /\ r.RetryAmount >= 2
      /\ r.KeepAliveIdle \in Nat \ {0} /\ r.KeepAliveInterval \in Nat \ {0}
      /\ r.KeepAliveCheckAmount \in Nat \ {0} /\ r.PollingTimeout \in Nat \ {0}
  BY DEF InitOptions, Options, attempts, orDefault
<1>4. r = [ProtoVersion |-> r.ProtoVersion, RetryAmount |-> r.RetryAmount,
           KeepAliveIdle |-> r.KeepAliveIdle,
           KeepAliveInterval |-> r.KeepAliveInterval,
           KeepAliveCheckAmount |-> r.KeepAliveCheckAmount,
           SendBufMinLen |-> r.SendBufMinLen, SendBufMaxLen |-> r.SendBufMaxLen,
           ReceiveBufMinLen |-> r.ReceiveBufMinLen,
           ReceiveBufMaxLen |-> r.ReceiveBufMaxLen,
           PollingTimeout |-> r.PollingTimeout]
  BY DEF InitOptions
<1> HIDE DEF r, s, t
<1>5. r \in Options
  BY <1>1, <1>2, <1>3, <1>4 DEF Options
<1>6. Sound(r)
  BY <1>1, <1>2, <1>3 DEF Sound
<1>7. QED
  BY <1>5, <1>6 DEF r

\* InitOptions is not idempotent, and only the number of attempts is to blame:
\* options it has already been called on are changed in that field alone, by
\* one on every further call, so that clients made from one Options value do
\* not agree on how often they try.
THEOREM OnlyAttemptsDrift ==
    ASSUME NEW o \in Options, Sound(o)
    PROVE  InitOptions(o) = [o EXCEPT !.RetryAmount = @ + 1]
<1>1. /\ bufLimits(o.SendBufMinLen, o.SendBufMaxLen)
             = [min |-> o.SendBufMinLen, max |-> o.SendBufMaxLen]
      /\ bufLimits(o.ReceiveBufMinLen, o.ReceiveBufMaxLen)
             = [min |-> o.ReceiveBufMinLen, max |-> o.ReceiveBufMaxLen]
  BY DEF Options, Sound, bufLimits, orDefault
<1>2. QED
  BY <1>1 DEF InitOptions, Options, Sound, attempts, orDefault

-----------------------------------------------------------------------------
(***************************************************************************)
(* The inductive invariant.                                                *)
(***************************************************************************)
\* Between two commands, and before a command is encoded, nothing is in the
\* buffer; from then on it is what the server is to execute.
RequestIs ==
    /\ sendBuf \in [data : Seq(Symbols), len : Nat]
    /\ pc \in {"none", "idle", "encode"} => sendBuf.data = <<>>
    /\ pc \in {"send", "receive", "decode"} => Understood(sendBuf.data) = args(op)

\* What has been sent, and what the server makes of it.
Requests ==
    {q \in [call : Calls, bytes : Seq(Symbols)] : Understood(q.bytes) = args(q.call)}

SentIs ==
    /\ requests \in Seq(Requests) /\ stray \in Seq(Requests)
    /\ awaiting \in BOOLEAN /\ behind \in BOOLEAN

\* The call that waits for the server is the last it was sent.
OwnIsLast ==
    awaiting => /\ pc \in {"receive", "decode", "dead"}
                /\ requests # <<>> /\ requests[Len(requests)].call = op

\* No error of an earlier reply is remembered.
NothingRemembered == decodingErr = "nil"

\* Nothing has happened to a program that has called no NewClient.
NothingBefore == clients = 0 => pc = "none" /\ answer.err = "none"

\* Nothing has been received before the one Receive of a call.
ReceivedIs ==
    /\ pc \in {"encode", "send", "receive"} => received = <<>>
    /\ pc = "decode" => received # <<>>

\* The process ends on nothing else.
DeadIs == pc = "dead" => Decode(received, "nil").err = "panic"

\* What an execution is worth that brings no value.
OK == Result("nil", <<>>)
NoValue == Result("ErrNoValue", <<>>)
Refusal == Result("ErrRedisException", <<>>)

\* The nil of RESP2.
NullBulk == Line("$", -1)

\* Each reply is one that the command can have, and says what the command has done.
RepliedTo(c, bytes, result) ==
    \/ bytes = ErrorReply /\ result = Refusal
    \/ c.name = "Ping" /\ bytes = TwoOnLine("+", "PONG") /\ result = OK
    \/ c.name \in {"Hello3", "NewClient"} /\ bytes = HelloReply /\ result = OK
    \/ c.name = "Set" /\ bytes = TwoOnLine("+", "OK") /\ result = OK
    \/ c.name = "Get" /\ \E v \in Values : bytes = Bulk(v) /\ result = Result("nil", v)
    \/ c.name = "Get" /\ bytes \in {Null, NullBulk} /\ result = NoValue

Replied == RepliedTo(op, reply, effect)

\* The last reply to the call tells its last effect.
EffectIs == reply # <<>> => Replied

\* On a connection that owed nothing when the call began, the request of the call is
\* the only one, and what arrives is its reply.
InStep ==
    ~behind =>
        /\ pc \in {"encode", "send"} => requests = <<>> /\ inbox = <<>>
        /\ pc = "receive" =>
              \/ awaiting /\ Len(requests) = 1 /\ inbox = <<>>
              \/ ~awaiting /\ requests = <<>> /\ inbox = reply /\ effect.err # "none"
        /\ pc \in {"decode", "dead"} =>
              /\ ~awaiting /\ requests = <<>> /\ effect.err # "none"
              /\ Len(received) <= Len(reply)
              /\ received = SubSeq(reply, 1, Len(received))

\* Values that are text: no byte of them ends a line.
Textual == \A v \in Values : "CR" \notin Range(v)

\* GetReturnsStored, also while there is no client: the next NewClient may find
\* the answer that is left.
GetReturned ==
    pc \in {"none", "idle"} /\ op.name = "Get" /\ ReplyIsWhole /\ answer.err # "other"
        => answer = effect

\* What does not depend on the order of the requests.
Base ==
    /\ StateTypeOK /\ RequestIs /\ NothingRemembered /\ OptionsSound /\ NothingBefore
    /\ ReceivedIs /\ DeadIs /\ EffectIs /\ RefusedOnlyIfTooLong /\ PanicsOnlyOnCut
    /\ Textual => GetReturned

\* The invariant: each conjunct is disturbed by steps that the others are needed for.
IInv == Base /\ SentIs /\ OwnIsLast /\ InStep

-----------------------------------------------------------------------------
(***************************************************************************)
(* Calls, their parameters and the symbols they are made of.               *)
(***************************************************************************)
\* Where symbols come from.
LEMMA SymbolsAre ==
    /\ {"CR", "LF", "$", "*", "+", "-", "_", "%", ":"} \subseteq Symbols
    /\ {"PING", "PONG", "HELLO", "3", "SET", "GET", "PX", "OK", "ERR",
        "proto", "modules", "absent"} \subseteq Symbols
    /\ Range(numeral) \subseteq Symbols
    /\ \A part \in Keys \cup Values : Range(part) \subseteq Symbols
<1> DEFINE A == UNION {Range(k) : k \in Keys}
           B == UNION {Range(v) : v \in Values}
           C == Range(numeral)
           D == {"$", "*", "+", "-", "_", "%", ":", "CR", "LF"}
           E == {"PING", "PONG", "HELLO", "3", "SET", "GET", "PX", "OK", "ERR",
                 "proto", "modules", "absent"}
<1>1. Symbols = A \cup B \cup C \cup D \cup E
  BY DEF Symbols
<1>2. {"CR", "LF", "$", "*", "+", "-", "_", "%", ":"} \subseteq D
  OBVIOUS
<1>3. \A part \in Keys : Range(part) \subseteq A
  OBVIOUS
<1>4. \A part \in Values : Range(part) \subseteq B
  OBVIOUS
<1> HIDE DEF A, B, C, D, E
<1>5. /\ A \subseteq Symbols /\ B \subseteq Symbols /\ C \subseteq Symbols
      /\ D \subseteq Symbols /\ E \subseteq Symbols
  BY <1>1
<1>6. \A part \in Keys \cup Values : Range(part) \subseteq Symbols
  BY <1>3, <1>4, <1>5
<1>7. {"CR", "LF", "$", "*", "+", "-", "_", "%", ":"} \subseteq Symbols
  <2> DEFINE F == {"CR", "LF", "$", "*", "+", "-", "_", "%", ":"}
  <2>1. F \subseteq D
    BY <1>2
  <2> HIDE DEF F
  <2>2. F \subseteq Symbols
    BY <2>1, <1>5
  <2>3. QED
    BY <2>2 DEF F
<1>8. QED
  BY <1>5, <1>6, <1>7, Zenon DEF C, E

\* A symbol of each kind is a symbol.
LEMMA AlphabetIs ==
    /\ Marks \subseteq Symbols
    /\ "PING" \in Symbols /\ "PONG" \in Symbols /\ "HELLO" \in Symbols /\ "3" \in Symbols
    /\ "SET" \in Symbols /\ "GET" \in Symbols /\ "PX" \in Symbols /\ "OK" \in Symbols
    /\ "ERR" \in Symbols /\ "proto" \in Symbols /\ "modules" \in Symbols /\ "absent" \in Symbols
<1>1. \A n \in -1..MaxNumber : numeral[n] \in Range(numeral)
  <2>1. DOMAIN numeral = -1..MaxNumber
    BY Zenon DEF numeral
  <2>2. QED
    BY <2>1, Zenon DEF Range
<1>2. {"CR", "LF", "$", "*", "+", "-", "_", "%", ":"} \subseteq Symbols
  BY SymbolsAre, Zenon
<1>3. Range(numeral) \subseteq Symbols
  BY SymbolsAre, Zenon
<1>4. Marks \subseteq Symbols
  BY <1>1, <1>2, <1>3, Zenon DEF Marks
<1>5. {"PING", "PONG", "HELLO", "3", "SET", "GET", "PX", "OK", "ERR",
       "proto", "modules", "absent"} \subseteq Symbols
  BY SymbolsAre, Zenon
<1>6. QED
  BY <1>4, <1>5

\* Sequences over a set are sequences over a larger one.
LEMMA SeqOverLarger ==
    ASSUME NEW S, NEW T, S \subseteq T, NEW s \in Seq(S)
    PROVE  s \in Seq(T)
OBVIOUS

\* A key or a value is a sequence of symbols that is not longer than a number can say.
LEMMA PartIsText ==
    ASSUME NEW part \in Keys \cup Values
    PROVE  part \in Seq(Symbols) /\ Len(part) <= MaxNumber
<1>1. part \in Seq(Range(part)) /\ Len(part) <= MaxNumber
  BY ClientAssumption, Zenon
<1>2. Range(part) \subseteq Symbols
  BY SymbolsAre, Zenon
<1>3. part \in Seq(Symbols)
  BY <1>1, <1>2, SeqOverLarger, Zenon
<1>4. QED
  BY <1>1, <1>3

\* Each call has the name of one method, and what that method takes.
LEMMA CallIs ==
    ASSUME NEW c \in Calls
    PROVE  \/ c.name = "Ping" /\ c = Hello("Ping")
           \/ c.name \in {"Hello3", "NewClient"}
           \/ c.name = "Get" /\ c.key \in Keys
           \/ /\ c.name = "Set" /\ c.key \in Keys /\ c.value \in Values
              /\ c.duration \in Durations
BY DEF Calls, Hello, Command

\* The parameters of each method.
LEMMA ArgsAre ==
    ASSUME NEW c \in Calls
    PROVE  /\ c.name = "Ping" => args(c) = << <<"PING">> >>
           /\ c.name \in {"Hello3", "NewClient"} => args(c) = << <<"HELLO">>, <<"3">> >>
           /\ c.name = "Get" => args(c) = << <<"GET">>, c.key >>
           /\ c.name = "Set" =>
                 args(c) = << <<"SET">>, c.key, c.value >> \o expiry(c.duration)
BY CallIs, Zenon DEF args

\* Commands of one, two and three words, and of three and an option with its number.
LEMMA CommandsAre ==
    ASSUME NEW T, NEW a \in Seq(T), NEW b \in Seq(T), NEW c \in Seq(T),
           Len(a) <= MaxNumber, Len(b) <= MaxNumber, Len(c) <= MaxNumber,
           NEW x \in Seq(T), NEW y \in Seq(T), Len(x) <= MaxNumber, Len(y) <= MaxNumber
    PROVE  /\ IsCommand(T, <<a>>) /\ IsCommand(T, <<a, b>>)
           /\ IsCommand(T, <<a, b, c>>) /\ IsCommand(T, <<a, b, c>> \o <<>>)
           /\ IsCommand(T, <<a, b, c>> \o <<x, y>>)
<1> DEFINE S == Seq(T)
           s == <<a, b, c>>
           t == <<x, y>>
<1>1. IsCommand(T, <<a>>)
  BY DEF IsCommand
<1>2. IsCommand(T, <<a, b>>)
  BY DEF IsCommand
<1>3. IsCommand(T, <<a, b, c>>)
  BY DEF IsCommand
<1>4. s \in Seq(S) /\ Len(s) = 3 /\ \A k \in 1..3 : Len(s[k]) <= MaxNumber
  OBVIOUS
<1>5. t \in Seq(S) /\ Len(t) = 2 /\ \A k \in 1..2 : Len(t[k]) <= MaxNumber
  OBVIOUS
<1>6. s \o <<>> = s
  <2> HIDE DEF s, S
  <2>1. QED
    BY <1>4, ConcatEmptySeq
<1>7. IsCommand(T, s \o t)
  <2> HIDE DEF s, t, S
  <2>1. s \in Seq(S) /\ t \in Seq(S)
    BY <1>4, <1>5
  <2>2. /\ s \o t \in Seq(S) /\ Len(s \o t) = Len(s) + Len(t)
        /\ \A k \in 1..Len(s) : (s \o t)[k] = s[k]
        /\ \A k \in 1..Len(t) : (s \o t)[Len(s) + k] = t[k]
    BY <2>1, Concat
  <2>3. ASSUME NEW k \in 1..Len(s \o t) PROVE Len((s \o t)[k]) <= MaxNumber
    <3>1. k \in 1..5 /\ k \in Int
      BY <1>4, <1>5, <2>2
    <3>2. CASE k \in 1..3
      BY <1>4, <2>2, <3>2
    <3>3. CASE k \in 4..5
      <4>1. k - 3 \in 1..2 /\ 3 + (k - 3) = k
        BY <3>3
      <4>2. (s \o t)[k] = t[k - 3]
        <5>1. Len(s) = 3 /\ k - 3 \in 1..Len(t)
          BY <1>4, <1>5, <4>1
        <5>2. (s \o t)[Len(s) + (k - 3)] = t[k - 3]
          BY <2>2, <5>1, Zenon
        <5>3. Len(s) + (k - 3) = k
          BY <4>1, <5>1
        <5>4. QED
          BY <5>2, <5>3, Zenon
      <4>3. QED
        BY <1>5, <4>1, <4>2
    <3>4. QED
      BY <3>1, <3>2, <3>3
  <2>4. Len(s \o t) = 5
    BY <1>4, <1>5, <2>2
  <2>5. s \o t \in Seq(Seq(T))
    BY <2>2 DEF S
  <2> DEFINE u == s \o t
  <2>6. u \in Seq(Seq(T)) /\ Len(u) \in 1..5 /\ \A k \in 1..Len(u) : Len(u[k]) <= MaxNumber
    <3>1. u \in Seq(Seq(T)) /\ Len(u) = 5
      BY <2>4, <2>5
    <3>2. \A k \in 1..Len(u) : Len(u[k]) <= MaxNumber
      BY <2>3
    <3> HIDE DEF u
    <3>3. QED
      BY <3>1, <3>2
  <2> HIDE DEF u
  <2>7. IsCommand(T, u)
    BY <2>6, Zenon DEF IsCommand
  <2>8. QED
    BY <2>7, Zenon DEF u
<1>8. QED
  BY <1>1, <1>2, <1>3, <1>6, <1>7

\* A word is a text.
LEMMA WordIsText ==
    ASSUME NEW T, NEW x \in T
    PROVE  <<x>> \in Seq(T) /\ Len(<<x>>) = 1 /\ Len(<<x>>) <= MaxNumber
BY MaxNumberIsNat

\* Encode gets a command from each method.
LEMMA ArgsIsCommand ==
    ASSUME NEW c \in Calls
    PROVE  IsCommand(Symbols, args(c))
<1> DEFINE Text(x) == x \in Seq(Symbols) /\ Len(x) <= MaxNumber
           key == c.key
           value == c.value
           ms == Milliseconds(c.duration)
<1>1. /\ Text(<<"PING">>) /\ Text(<<"HELLO">>) /\ Text(<<"3">>) /\ Text(<<"SET">>)
      /\ Text(<<"GET">>) /\ Text(<<"PX">>)
  BY AlphabetIs, WordIsText, Zenon
<1>2. CASE c.name = "Ping"
  <2> HIDE DEF Text
  <2> DEFINE w == <<"PING">>
  <2>1. Text(w)
    BY <1>1
  <2> HIDE DEF w
  <2>2. IsCommand(Symbols, <<w>>)
    BY <2>1, CommandsAre, Zenon DEF Text
  <2>3. args(c) = <<w>>
    BY <1>2, ArgsAre, Zenon DEF w
  <2>4. QED
    BY <2>2, <2>3, Zenon
<1>3. CASE c.name \in {"Hello3", "NewClient"}
  <2> HIDE DEF Text
  <2> DEFINE w == <<"HELLO">>
             x == <<"3">>
  <2>1. Text(w) /\ Text(x)
    BY <1>1
  <2> HIDE DEF w, x
  <2>2. IsCommand(Symbols, <<w, x>>)
    BY <2>1, CommandsAre, Zenon DEF Text
  <2>3. args(c) = <<w, x>>
    BY <1>3, ArgsAre, Zenon DEF w, x
  <2>4. QED
    BY <2>2, <2>3, Zenon
<1>4. CASE c.name = "Get" /\ c.key \in Keys
  <2> DEFINE w == <<"GET">>
  <2>1. Text(w) /\ Text(key)
    BY <1>1, <1>4, PartIsText, Zenon
  <2> HIDE DEF w, key, Text
  <2>2. IsCommand(Symbols, <<w, key>>)
    BY <2>1, CommandsAre, Zenon DEF Text
  <2>3. args(c) = <<w, key>>
    BY <1>4, ArgsAre, Zenon DEF w, key
  <2>4. QED
    BY <2>2, <2>3, Zenon
<1>5. CASE /\ c.name = "Set" /\ c.key \in Keys /\ c.value \in Values
           /\ c.duration \in Durations
  <2> DEFINE w == <<"SET">>
             p == <<"PX">>
             n == Itoa(ms)
  <2>1. Text(w) /\ Text(key) /\ Text(value) /\ Text(p)
    BY <1>1, <1>5, PartIsText, Zenon
  <2>2. ms > 0 => Text(n)
    <3>1. ms \in Int /\ ms <= MaxNumber
      <4>1. Durations \subseteq Int /\ \A d \in Durations : d \div 1000 <= MaxNumber
        BY ClientAssumption, Zenon
      <4>2. c.duration \in Durations
        BY <1>5
      <4>3. c.duration \in Int /\ c.duration \div 1000 <= MaxNumber
        <5> DEFINE d == c.duration
        <5>1. d \in Durations
          BY <4>2
        <5> HIDE DEF d
        <5>2. d \in Int
          BY <4>1, <5>1
        <5>3. d \div 1000 <= MaxNumber
          BY <4>1, <5>1
        <5>4. QED
          BY <5>2, <5>3 DEF d
      <4>4. QED
        BY <4>3 DEF Milliseconds
    <3> HIDE DEF ms
    <3>2. ms > 0 => ms \in -1..MaxNumber
      BY <3>1, MaxNumberIsNat
    <3>3. ms > 0 => numeral[ms] \in Symbols
      BY <3>2, AlphabetIs, MarksInAlphabet
    <3>4. QED
      BY <3>3, WordIsText, Zenon DEF Itoa
  <2>3. CASE ms > 0
    <3>1. Text(n)
      BY <2>2, <2>3
    <3> HIDE DEF w, p, n, key, value, Text, ms
    <3>2. IsCommand(Symbols, <<w, key, value>> \o <<p, n>>)
      BY <2>1, <3>1, CommandsAre, Zenon DEF Text
    <3>3. args(c) = <<w, key, value>> \o <<p, n>>
      <4>1. expiry(c.duration) = <<p, n>>
        BY <2>3, Zenon DEF expiry, ms, p, n
      <4>2. QED
        BY <1>5, <4>1, ArgsAre, Zenon DEF w, key, value
    <3>4. QED
      BY <3>2, <3>3, Zenon
  <2>4. CASE ~(ms > 0)
    <3> HIDE DEF w, p, n, key, value, Text, ms
    <3>2. IsCommand(Symbols, <<w, key, value>> \o <<>>)
      BY <2>1, CommandsAre, Zenon DEF Text
    <3>3. args(c) = <<w, key, value>> \o <<>>
      <4>1. expiry(c.duration) = <<>>
        BY <2>4, Zenon DEF expiry, ms, p, n
      <4>2. QED
        BY <1>5, <4>1, ArgsAre, Zenon DEF w, key, value
    <3>4. QED
      BY <3>2, <3>3, Zenon
  <2>5. QED
    BY <2>3, <2>4
<1>6. QED
  BY CallIs, <1>2, <1>3, <1>4, <1>5, Zenon

\* What the server can tell the commands apart by.
LEMMA ArgsShape ==
    ASSUME NEW c \in Calls
    PROVE  /\ c.name = "Ping" => Len(args(c)) = 1 /\ args(c)[1] = <<"PING">>
           /\ c.name \in {"Hello3", "NewClient"} =>
                 Len(args(c)) = 2 /\ args(c)[1] = <<"HELLO">>
           /\ c.name = "Get" =>
                 Len(args(c)) = 2 /\ args(c)[1] = <<"GET">> /\ args(c)[2] = c.key
           /\ c.name = "Set" =>
                 /\ args(c)[1] = <<"SET">> /\ args(c)[2] = c.key /\ args(c)[3] = c.value
                 /\ Milliseconds(c.duration) > 0 => Len(args(c)) = 5
                 /\ ~(Milliseconds(c.duration) > 0) => Len(args(c)) = 3
<1>1. c.name = "Ping" => Len(args(c)) = 1 /\ args(c)[1] = <<"PING">>
  <2> DEFINE w == <<"PING">>
  <2>1. c.name = "Ping" => args(c) = <<w>>
    BY ArgsAre, Zenon DEF w
  <2> HIDE DEF w
  <2>2. c.name = "Ping" => Len(args(c)) = 1 /\ args(c)[1] = w
    BY <2>1
  <2>3. QED
    BY <2>2, Zenon DEF w
<1>2. c.name \in {"Hello3", "NewClient"} => Len(args(c)) = 2 /\ args(c)[1] = <<"HELLO">>
  <2> DEFINE w == <<"HELLO">>
             x == <<"3">>
  <2>1. c.name \in {"Hello3", "NewClient"} => args(c) = <<w, x>>
    BY ArgsAre, Zenon DEF w, x
  <2> HIDE DEF w, x
  <2>2. c.name \in {"Hello3", "NewClient"} => Len(args(c)) = 2 /\ args(c)[1] = w
    BY <2>1
  <2>3. QED
    BY <2>2, Zenon DEF w
<1>3. c.name = "Get" => Len(args(c)) = 2 /\ args(c)[1] = <<"GET">> /\ args(c)[2] = c.key
  <2> DEFINE w == <<"GET">>
             x == c.key
  <2>1. c.name = "Get" => args(c) = <<w, x>>
    BY ArgsAre, Zenon DEF w, x
  <2> HIDE DEF w, x
  <2>2. c.name = "Get" => Len(args(c)) = 2 /\ args(c)[1] = w /\ args(c)[2] = x
    BY <2>1
  <2>3. QED
    BY <2>2, Zenon DEF w, x
<1>4. ASSUME c.name = "Set"
      PROVE  /\ args(c)[1] = <<"SET">> /\ args(c)[2] = c.key /\ args(c)[3] = c.value
             /\ Milliseconds(c.duration) > 0 => Len(args(c)) = 5
             /\ ~(Milliseconds(c.duration) > 0) => Len(args(c)) = 3
  <2> DEFINE s == << <<"SET">>, c.key, c.value >>
             t == expiry(c.duration)
             T == {<<"SET">>, c.key, c.value, <<"PX">>, Itoa(Milliseconds(c.duration))}
  <2>1. args(c) = s \o t
    BY <1>4, ArgsAre
  <2>2. /\ s \in Seq(T) /\ Len(s) = 3
        /\ s[1] = <<"SET">> /\ s[2] = c.key /\ s[3] = c.value
    BY DEF s, T
  <2>3. /\ t \in Seq(T)
        /\ Milliseconds(c.duration) > 0 => Len(t) = 2
        /\ ~(Milliseconds(c.duration) > 0) => Len(t) = 0
    BY DEF expiry
  <2> HIDE DEF s, t, T
  <2>4. /\ Len(s \o t) = 3 + Len(t) /\ Len(t) \in Nat
        /\ (s \o t)[1] = s[1] /\ (s \o t)[2] = s[2] /\ (s \o t)[3] = s[3]
    <3>1. /\ Len(s \o t) = Len(s) + Len(t)
          /\ \A k \in 1..Len(s) : (s \o t)[k] = s[k]
      BY <2>2, <2>3, Concat, ZenonT(30)
    <3>2. Len(t) \in Nat
      BY <2>3
    <3>3. QED
      BY <2>2, <3>1, <3>2
  <2> DEFINE u == s \o t
  <2> HIDE DEF u
  <2>5. /\ Len(u) = 3 + Len(t)
        /\ u[1] = <<"SET">> /\ u[2] = c.key /\ u[3] = c.value
    BY <2>2, <2>4, Zenon DEF u
  <2>6. args(c) = u
    BY <2>1, Zenon DEF u
  <2>7. /\ Milliseconds(c.duration) > 0 => Len(u) = 5
        /\ ~(Milliseconds(c.duration) > 0) => Len(u) = 3
    <3> DEFINE more == Milliseconds(c.duration) > 0
    <3>1. (more => Len(t) = 2) /\ (~more => Len(t) = 0)
      BY <2>3
    <3> HIDE DEF more
    <3>2. ASSUME NEW m \in Nat, NEW n, n = 3 + m
          PROVE  (m = 2 => n = 5) /\ (m = 0 => n = 3)
      BY <3>2
    <3>3. (Len(t) = 2 => Len(u) = 5) /\ (Len(t) = 0 => Len(u) = 3)
      BY <2>4, <2>5, <3>2, Zenon
    <3>4. (more => Len(u) = 5) /\ (~more => Len(u) = 3)
      BY <3>1, <3>3, Zenon
    <3>5. QED
      BY <3>4 DEF more
  <2>8. QED
    BY <2>5, <2>6, <2>7, Zenon
<1>5. QED
  BY <1>1, <1>2, <1>3, <1>4

\* The server does what the command says, and nothing else.
LEMMA RequestsDiffer ==
    ASSUME NEW c \in Calls, NEW req, req = args(c)
    PROVE  /\ req = << <<"PING">> >> => c.name = "Ping"
           /\ req = << <<"HELLO">>, <<"3">> >> => c.name \in {"Hello3", "NewClient"}
           /\ Len(req) \in {3, 5} /\ req[1] = <<"SET">> =>
                 /\ c.name = "Set" /\ c.key \in Keys /\ c.value \in Values
                 /\ c.duration \in Durations
                 /\ req[2] = c.key /\ req[3] = c.value
                 /\ Len(req) = 5 <=> Milliseconds(c.duration) > 0
           /\ Len(req) = 2 /\ req[1] = <<"GET">> =>
                 c.name = "Get" /\ c.key \in Keys /\ req[2] = c.key
<1>1. /\ <<"PING">> # <<"HELLO">> /\ <<"PING">> # <<"GET">> /\ <<"PING">> # <<"SET">>
      /\ <<"HELLO">> # <<"GET">> /\ <<"HELLO">> # <<"SET">> /\ <<"GET">> # <<"SET">>
  OBVIOUS
<1>2. c.name \in {"Ping", "Hello3", "NewClient", "Get", "Set"}
  BY CallIs
<1>3. /\ c.name = "Get" => c.key \in Keys
      /\ c.name = "Set" => c.key \in Keys /\ c.value \in Values /\ c.duration \in Durations
  BY CallIs
<1>4. /\ c.name = "Ping" => Len(req) = 1 /\ req[1] = <<"PING">>
      /\ c.name \in {"Hello3", "NewClient"} => Len(req) = 2 /\ req[1] = <<"HELLO">>
      /\ c.name = "Get" => Len(req) = 2 /\ req[1] = <<"GET">> /\ req[2] = c.key
      /\ c.name = "Set" =>
            /\ req[1] = <<"SET">> /\ req[2] = c.key /\ req[3] = c.value
            /\ Milliseconds(c.duration) > 0 => Len(req) = 5
            /\ ~(Milliseconds(c.duration) > 0) => Len(req) = 3
  BY ArgsShape, Zenon
<1>5. req = << <<"PING">> >> => Len(req) = 1 /\ req[1] = <<"PING">>
  OBVIOUS
<1>6. req = << <<"HELLO">>, <<"3">> >> => Len(req) = 2 /\ req[1] = <<"HELLO">>
  OBVIOUS
<1>7. QED
  BY <1>1, <1>2, <1>3, <1>4, <1>5, <1>6

-----------------------------------------------------------------------------
(***************************************************************************)
(* Every step keeps the invariant.                                         *)
(***************************************************************************)
\* Nothing has changed.
LEMMA StutterKeeps ==
    ASSUME IInv, UNCHANGED vars
    PROVE  Base'
<1>1. StateTypeOK' /\ RequestIs'
  BY DEF IInv, Base, vars, bufVars, serverVars, wireVars, counters, StateTypeOK, RequestIs
<1>2. NothingRemembered' /\ OptionsSound' /\ NothingBefore' /\ ReceivedIs' /\ DeadIs'
  BY DEF IInv, Base, vars, bufVars, serverVars, counters, NothingRemembered,
         OptionsSound, NothingBefore, ReceivedIs, DeadIs
<1>3. Replied => Replied'
  BY DEF Replied, RepliedTo, vars, serverVars, ErrorReply, HelloReply
<1>4. EffectIs'
  BY <1>3 DEF IInv, Base, EffectIs, vars, serverVars
<1>5. RefusedOnlyIfTooLong' /\ PanicsOnlyOnCut' /\ (Textual => GetReturned)'
  BY DEF IInv, Base, vars, bufVars, serverVars, RefusedOnlyIfTooLong,
         PanicsOnlyOnCut, GetReturned, ReplyIsWhole, Textual
<1>6. QED
  BY <1>1, <1>2, <1>4, <1>5 DEF IInv, Base

\* A command is called: the buffer is empty, and nothing has been received.
LEMMA CallKeeps ==
    ASSUME IInv, Call
    PROVE  Base'
<1>1. PICK c \in Calls : Begin(c)
  BY DEF Call
<1>2. StateTypeOK'
  <2>1. <<>> \in Seq(Symbols)
    OBVIOUS
  <2>2. QED
    BY <1>1, <2>1, ClientAssumption DEF IInv, Base, StateTypeOK, Call, Begin, Result
<1>3. RequestIs'
  BY <1>1 DEF IInv, Base, RequestIs, Call, Begin
<1>4. NothingRemembered' /\ OptionsSound' /\ NothingBefore' /\ ReceivedIs' /\ DeadIs'
  BY <1>1 DEF IInv, Base, NothingRemembered, OptionsSound, NothingBefore, ReceivedIs, DeadIs,
              Call, Begin
<1>5. EffectIs' /\ RefusedOnlyIfTooLong' /\ PanicsOnlyOnCut'
  BY <1>1 DEF EffectIs, RefusedOnlyIfTooLong, PanicsOnlyOnCut, Begin
<1>6. GetReturned'
  BY <1>1 DEF GetReturned, Begin
<1>7. QED
  BY <1>2, <1>3, <1>4, <1>5, <1>6 DEF IInv, Base

\* The request is sent: it is as it was.
LEMMA SendKeeps ==
    ASSUME IInv, Send
    PROVE  Base'
<1>1. StateTypeOK'
  BY DEF IInv, Base, StateTypeOK, Send, bufVars, counters
<1>2. RequestIs'
  <2>1. args(op)' = args(op) /\ sendBuf' = sendBuf
    BY DEF Send, args, expiry, bufVars
  <2>2. Understood(sendBuf.data)' = Understood(sendBuf.data)
    BY <2>1
  <2>3. QED
    BY <2>1, <2>2 DEF IInv, Base, RequestIs, Send
<1>3. NothingRemembered' /\ OptionsSound' /\ NothingBefore' /\ ReceivedIs' /\ DeadIs'
  BY DEF IInv, Base, NothingRemembered, OptionsSound, NothingBefore, ReceivedIs, DeadIs,
         Send, bufVars, counters
<1>4. Replied => Replied'
  BY DEF Replied, RepliedTo, Send, ErrorReply, HelloReply
<1>5. EffectIs'
  BY <1>4 DEF IInv, Base, EffectIs, Send
<1>6. RefusedOnlyIfTooLong' /\ PanicsOnlyOnCut' /\ GetReturned'
  BY DEF RefusedOnlyIfTooLong, PanicsOnlyOnCut, GetReturned, Send
<1>7. QED
  BY <1>1, <1>2, <1>3, <1>5, <1>6 DEF Base

\* A connection is made again: the request is what it was.
LEMMA ReconnectKeeps ==
    ASSUME IInv, Reconnect
    PROVE  Base'
<1>1. StateTypeOK'
  <2>1. <<>> \in Seq(Symbols)
    OBVIOUS
  <2>2. QED
    BY <2>1 DEF IInv, Base, StateTypeOK, Reconnect, Broken, bufVars, counters
<1>2. RequestIs'
  BY DEF IInv, Base, RequestIs, Reconnect, Broken, bufVars
<1>3. NothingRemembered' /\ OptionsSound' /\ NothingBefore' /\ ReceivedIs' /\ DeadIs'
  BY DEF IInv, Base, NothingRemembered, OptionsSound, NothingBefore, ReceivedIs, DeadIs,
         Reconnect, Broken, bufVars, counters
<1>4. Replied => Replied'
  BY DEF Replied, RepliedTo, Reconnect, ErrorReply, HelloReply
<1>5. EffectIs'
  BY <1>4 DEF IInv, Base, EffectIs, Reconnect
<1>6. RefusedOnlyIfTooLong' /\ PanicsOnlyOnCut' /\ GetReturned'
  BY DEF RefusedOnlyIfTooLong, PanicsOnlyOnCut, GetReturned, Reconnect
<1>7. QED
  BY <1>1, <1>2, <1>3, <1>5, <1>6 DEF IInv, Base

\* A value expires: what a call was worth is not touched.
LEMMA ExpireKeeps ==
    ASSUME IInv, Expire
    PROVE  Base'
<1>1. PICK k \in mortal : /\ store' = [store EXCEPT ![k] = Absent]
                          /\ mortal' = mortal \ {k}
  BY DEF Expire
<1>2. StateTypeOK'
  BY <1>1 DEF IInv, Base, StateTypeOK, Expire, bufVars, wireVars, counters
<1>3. RequestIs'
  BY DEF IInv, Base, RequestIs, Expire, bufVars
<1>4. NothingRemembered' /\ OptionsSound' /\ NothingBefore' /\ ReceivedIs' /\ DeadIs'
  BY DEF IInv, Base, NothingRemembered, OptionsSound, NothingBefore, ReceivedIs, DeadIs,
         Expire, bufVars, counters
<1>5. Replied => Replied'
  BY DEF Replied, RepliedTo, Expire, ErrorReply, HelloReply
<1>6. EffectIs'
  BY <1>5 DEF IInv, Base, EffectIs, Expire
<1>7. RefusedOnlyIfTooLong' /\ PanicsOnlyOnCut' /\ (Textual => GetReturned)'
  BY DEF IInv, Base, RefusedOnlyIfTooLong, PanicsOnlyOnCut, GetReturned, ReplyIsWhole, Expire,
         bufVars, counters, Textual
<1>8. QED
  BY <1>2, <1>3, <1>4, <1>6, <1>7 DEF IInv, Base

\* From the second client on, the length the send buffer may have is what it was.
LEMMA OptionsKept ==
    ASSUME opts \in Options, clients > 0 => Sound(opts)
    PROVE  /\ InitOptions(opts) \in Options /\ Sound(InitOptions(opts))
           /\ InitOptions(opts).SendBufMinLen \in Nat
           /\ clients > 0 => InitOptions(opts).SendBufMaxLen = opts.SendBufMaxLen
<1>1. InitOptions(opts) \in Options /\ Sound(InitOptions(opts))
  BY InitOptionsIsSound
<1>2. InitOptions(opts).SendBufMinLen \in Nat
  <2> DEFINE r == InitOptions(opts)
  <2>1. r \in Options /\ Sound(r)
    BY <1>1
  <2> HIDE DEF r
  <2>2. r.SendBufMinLen \in Int /\ r.SendBufMinLen > 0
    BY <2>1 DEF Options, Sound
  <2>3. QED
    BY <2>2 DEF r
<1>3. clients > 0 => InitOptions(opts).SendBufMaxLen = opts.SendBufMaxLen
  <2>1. ASSUME clients > 0
        PROVE  InitOptions(opts).SendBufMaxLen = opts.SendBufMaxLen
    <3>1. Sound(opts)
      BY <2>1
    <3>2. InitOptions(opts) = [opts EXCEPT !.RetryAmount = @ + 1]
      BY <3>1, OnlyAttemptsDrift
    <3>3. QED
      BY <3>2 DEF Options
  <2>2. QED
    BY <2>1
<1>4. QED
  BY <1>1, <1>2, <1>3

\* Another client, made or not, leaves the last answer and what it was about.
LEMMA LimitKept ==
    ASSUME IInv, opts' = InitOptions(opts), pc \in {"none", "idle"},
           UNCHANGED <<op, received, answer>>
    PROVE  /\ opts' \in Options /\ Sound(opts') /\ opts'.SendBufMinLen \in Nat
           /\ RefusedOnlyIfTooLong'
<1>1. opts \in Options /\ clients \in Nat /\ (clients > 0 => Sound(opts))
  BY ClientAssumption DEF IInv, Base, StateTypeOK, OptionsSound
<1>2. /\ opts' \in Options /\ Sound(opts') /\ opts'.SendBufMinLen \in Nat
      /\ clients > 0 => opts'.SendBufMaxLen = opts.SendBufMaxLen
  BY <1>1, OptionsKept
<1>3. CASE clients = 0
  <2>1. answer.err = "none"
    BY <1>3 DEF IInv, Base, NothingBefore
  <2>2. QED
    BY <1>2, <2>1 DEF RefusedOnlyIfTooLong
<1>4. CASE clients > 0
  <2>1. opts'.SendBufMaxLen = opts.SendBufMaxLen
    BY <1>2, <1>4
  <2>2. EncodedLen(args(op))' = EncodedLen(args(op))
    BY DEF EncodedLen, EncodedLens, args, expiry
  <2>3. QED
    BY <1>2, <2>1, <2>2 DEF IInv, Base, RefusedOnlyIfTooLong
<1>5. QED
  BY <1>1, <1>3, <1>4

\* A client is made.
LEMMA NewClientKeeps ==
    ASSUME IInv, NewClient
    PROVE  Base'
<1>1. /\ opts' = InitOptions(opts) /\ pc \in {"none", "idle"}
      /\ sendBuf' = [data |-> <<>>, len |-> opts'.SendBufMinLen]
      /\ decodingErr' = "nil" /\ proto' = 2 /\ inbox' = <<>> /\ poller' = "made"
      /\ clients' = clients + 1 /\ clients < MaxClients
      /\ UNCHANGED <<answer, store, mortal, calls, cuts>>
  BY DEF NewClient
<1>2. CASE Begin(Hello("NewClient"))
  <2>1. /\ op' = Hello("NewClient") /\ pc' = "encode" /\ received' = <<>>
        /\ reply' = <<>> /\ effect' = Result("none", <<>>)
    BY <1>2 DEF Begin
  <2>2. opts' \in Options /\ Sound(opts') /\ opts'.SendBufMinLen \in Nat
    <3>1. opts \in Options /\ (clients > 0 => Sound(opts))
      BY DEF IInv, Base, StateTypeOK, OptionsSound
    <3>2. QED
      BY <1>1, <3>1, OptionsKept
  <2>3. op' \in Calls
    BY <2>1 DEF Calls
  <2>4. StateTypeOK'
    <3>1. <<>> \in Seq(Symbols) /\ Len(<<>>) = 0
      OBVIOUS
    <3>2. clients' \in 0..MaxClients
      BY <1>1, ClientAssumption DEF IInv, Base, StateTypeOK
    <3>3. QED
      BY <1>1, <2>1, <2>2, <2>3, <3>1, <3>2 DEF IInv, Base, StateTypeOK, Result
  <2>5. RequestIs'
    <3>1. <<>> \in Seq(Symbols)
      OBVIOUS
    <3>2. QED
      BY <1>1, <2>1, <2>2, <3>1 DEF RequestIs
  <2>6. NothingRemembered' /\ OptionsSound' /\ ReceivedIs' /\ DeadIs'
    BY <1>1, <2>1, <2>2 DEF NothingRemembered, OptionsSound, ReceivedIs, DeadIs
  <2>7. NothingBefore'
    BY <1>1, ClientAssumption DEF IInv, Base, StateTypeOK, NothingBefore
  <2>8. EffectIs' /\ RefusedOnlyIfTooLong' /\ PanicsOnlyOnCut' /\ GetReturned'
    BY <2>1 DEF EffectIs, RefusedOnlyIfTooLong, PanicsOnlyOnCut, GetReturned
  <2>9. QED
    BY <2>4, <2>5, <2>6, <2>7, <2>8 DEF IInv, Base
<1>3. CASE pc' = "idle" /\ UNCHANGED <<op, received, reply, effect>>
  <2>1. /\ opts' \in Options /\ Sound(opts') /\ opts'.SendBufMinLen \in Nat
        /\ RefusedOnlyIfTooLong'
    BY <1>1, <1>3, LimitKept
  <2>2. StateTypeOK'
    <3>1. <<>> \in Seq(Symbols) /\ Len(<<>>) = 0
      OBVIOUS
    <3>2. clients' \in 0..MaxClients
      BY <1>1, ClientAssumption DEF IInv, Base, StateTypeOK
    <3>3. QED
      BY <1>1, <1>3, <2>1, <3>1, <3>2 DEF IInv, Base, StateTypeOK
  <2>3. RequestIs'
    <3>1. <<>> \in Seq(Symbols)
      OBVIOUS
    <3>2. QED
      BY <1>1, <1>3, <2>1, <3>1 DEF RequestIs
  <2>4. NothingRemembered' /\ OptionsSound' /\ ReceivedIs' /\ DeadIs'
    BY <1>1, <1>3, <2>1 DEF NothingRemembered, OptionsSound, ReceivedIs, DeadIs
  <2>5. NothingBefore'
    BY <1>1, ClientAssumption DEF IInv, Base, StateTypeOK, NothingBefore
  <2>6. EffectIs'
    <3>1. Replied => Replied'
      BY <1>3 DEF Replied, RepliedTo, ErrorReply, HelloReply
    <3>2. QED
      BY <1>3, <3>1 DEF IInv, Base, EffectIs
  <2>7. PanicsOnlyOnCut' /\ (Textual => GetReturned)'
    BY <1>1, <1>3 DEF IInv, Base, PanicsOnlyOnCut, GetReturned, ReplyIsWhole, Textual
  <2>8. QED
    BY <2>1, <2>2, <2>3, <2>4, <2>5, <2>6, <2>7 DEF IInv, Base
<1>4. QED
  BY <1>2, <1>3 DEF NewClient

\* No client is made.
LEMMA NewClientFailsKeeps ==
    ASSUME IInv, NewClientFails
    PROVE  Base'
<1>1. /\ opts' = InitOptions(opts) /\ pc \in {"none", "idle"} /\ pc' = "none"
      /\ clients' = clients + 1 /\ clients < MaxClients
      /\ poller' = poller \/ poller' \in {poller, "made", "failed"}
      /\ UNCHANGED <<op, bufVars, answer, serverVars, calls, cuts>>
  BY DEF NewClientFails, NewPoller
<1>2. /\ opts' \in Options /\ Sound(opts') /\ RefusedOnlyIfTooLong'
  BY <1>1, LimitKept DEF bufVars
<1>3. StateTypeOK'
  <2>1. clients' \in 0..MaxClients
    BY <1>1, ClientAssumption DEF IInv, Base, StateTypeOK
  <2>2. QED
    BY <1>1, <1>2, <2>1 DEF IInv, Base, StateTypeOK, bufVars, serverVars, wireVars
<1>4. RequestIs'
  BY <1>1 DEF IInv, Base, RequestIs, bufVars
<1>5. NothingRemembered' /\ OptionsSound' /\ ReceivedIs' /\ DeadIs'
  BY <1>1, <1>2 DEF IInv, Base, NothingRemembered, OptionsSound, ReceivedIs, DeadIs, bufVars
<1>6. NothingBefore'
  BY <1>1, ClientAssumption DEF IInv, Base, StateTypeOK, NothingBefore
<1>7. EffectIs'
  <2>1. Replied => Replied'
    BY <1>1 DEF Replied, RepliedTo, ErrorReply, HelloReply, serverVars
  <2>2. QED
    BY <1>1, <2>1 DEF IInv, Base, EffectIs, serverVars
<1>8. PanicsOnlyOnCut' /\ (Textual => GetReturned)'
  BY <1>1 DEF IInv, Base, PanicsOnlyOnCut, GetReturned, ReplyIsWhole, Textual, bufVars, serverVars
<1>9. QED
  BY <1>2, <1>3, <1>4, <1>5, <1>6, <1>7, <1>8 DEF IInv, Base

\* What a call leaves when it returns: the answer, an empty buffer and a client
\* that is ready for the next call, or none.
LEMMA ReturnIs ==
    ASSUME IInv, NEW result, Return(result)
    PROVE  /\ pc' \in {"none", "idle"} /\ answer' = result
           /\ sendBuf' = [data |-> <<>>, len |-> sendBuf.len] /\ sendBuf.len \in Nat
BY DEF IInv, Base, RequestIs, Return, clearBufs

\* When a call returns, only its answer has to be looked at.
LEMMA ReturnKeeps ==
    ASSUME IInv, NEW result, Return(result), result.text \in Seq(Symbols),
           pc # "none", clients > 0, decodingErr' = "nil",
           UNCHANGED <<opts, poller, op, received, store, mortal, reply, effect, counters>>,
           proto' \in {2, 3}, inbox' \in Seq(Symbols),
           RefusedOnlyIfTooLong', (Textual => GetReturned)'
    PROVE  Base'
<1>1. /\ pc' \in {"none", "idle"} /\ answer' = result
      /\ sendBuf' = [data |-> <<>>, len |-> sendBuf.len] /\ sendBuf.len \in Nat
  BY ReturnIs
<1>2. <<>> \in Seq(Symbols) /\ Len(<<>>) = 0
  OBVIOUS
<1>3. StateTypeOK'
  BY <1>1, <1>2 DEF IInv, Base, StateTypeOK, counters
<1>4. RequestIs'
  BY <1>1, <1>2 DEF RequestIs
<1>5. NothingRemembered' /\ OptionsSound' /\ ReceivedIs' /\ DeadIs'
  BY <1>1 DEF IInv, Base, NothingRemembered, OptionsSound, ReceivedIs, DeadIs, counters
<1>6. NothingBefore'
  BY <1>1, ClientAssumption DEF IInv, Base, StateTypeOK, NothingBefore, counters
<1>7. EffectIs'
  <2>1. Replied => Replied'
    BY DEF Replied, RepliedTo, ErrorReply, HelloReply
  <2>2. QED
    BY <1>1, <2>1 DEF IInv, Base, EffectIs
<1>8. PanicsOnlyOnCut'
  BY <1>1 DEF PanicsOnlyOnCut
<1>9. QED
  BY <1>3, <1>4, <1>5, <1>6, <1>7, <1>8 DEF IInv, Base

\* A call that lasts is a call of a client.
LEMMA CallOfClient ==
    ASSUME IInv, pc # "none"
    PROVE  clients > 0 /\ clients \in Nat
BY ClientAssumption DEF IInv, Base, StateTypeOK, NothingBefore

\* A call that is given up tells nothing.
LEMMA GiveUpKeeps ==
    ASSUME IInv, GiveUp
    PROVE  Base'
<1> DEFINE r == Result("other", <<>>)
<1>1. /\ pc # "none" /\ Return(r) /\ proto' \in {2, 3} /\ inbox' \in Seq(Symbols)
      /\ UNCHANGED <<opts, poller, op, received, store, mortal, reply, effect, counters>>
      /\ decodingErr' = "nil"
  <2>1. <<>> \in Seq(Symbols) /\ proto \in {2, 3} /\ inbox \in Seq(Symbols)
    BY DEF IInv, Base, StateTypeOK
  <2>2. QED
    BY <2>1 DEF GiveUp, Broken, TooLong, IInv, Base, NothingRemembered
<1>2. answer'.err = "other"
  BY <1>1 DEF Return, Result
<1>3. RefusedOnlyIfTooLong' /\ (Textual => GetReturned)'
  BY <1>2 DEF RefusedOnlyIfTooLong, GetReturned
<1>4. r.text \in Seq(Symbols)
  BY DEF Result
<1> HIDE DEF r
<1>5. clients > 0
  BY <1>1, CallOfClient
<1>6. QED
  BY <1>1, <1>3, <1>4, <1>5, ReturnKeeps

\* Something has been received.
LEMMA ReceiveKeeps ==
    ASSUME IInv, Receive
    PROVE  Base'
<1>1. PICK n \in 1..Len(inbox) : /\ received' = SubSeq(inbox, 1, n)
                                 /\ inbox' = SubSeq(inbox, n + 1, Len(inbox))
                                 /\ cuts' \in {cuts, cuts + 1} /\ cuts' <= MaxCuts
  BY DEF Receive
<1>2. /\ pc = "receive" /\ pc' = "decode"
      /\ UNCHANGED <<opts, poller, op, sendBuf, decodingErr, answer, store, mortal, proto,
                     reply, effect, clients, calls>>
  BY DEF Receive
<1>3. received' \in Seq(Symbols) /\ received' # <<>> /\ inbox' \in Seq(Symbols)
  <2>1. inbox \in Seq(Symbols)
    BY DEF IInv, Base, StateTypeOK
  <2>2. QED
    BY <1>1, <2>1
<1>4. StateTypeOK'
  <2>1. cuts' \in 0..MaxCuts
    BY <1>1, ClientAssumption DEF IInv, Base, StateTypeOK
  <2>2. QED
    BY <1>2, <1>3, <2>1 DEF IInv, Base, StateTypeOK
<1>5. RequestIs'
  <2>1. Understood(sendBuf.data)' = Understood(sendBuf.data) /\ args(op)' = args(op)
    BY <1>2 DEF args, expiry
  <2>2. QED
    BY <1>2, <2>1 DEF IInv, Base, RequestIs
<1>6. NothingRemembered' /\ OptionsSound' /\ ReceivedIs' /\ DeadIs'
  BY <1>2, <1>3 DEF IInv, Base, NothingRemembered, OptionsSound, ReceivedIs, DeadIs
<1>7. NothingBefore'
  BY <1>2 DEF IInv, Base, NothingBefore
<1>8. EffectIs'
  <2>1. Replied => Replied'
    BY <1>2 DEF Replied, RepliedTo, ErrorReply, HelloReply
  <2>2. QED
    BY <1>2, <2>1 DEF IInv, Base, EffectIs
<1>9. RefusedOnlyIfTooLong' /\ PanicsOnlyOnCut' /\ (Textual => GetReturned)'
  BY <1>2 DEF RefusedOnlyIfTooLong, PanicsOnlyOnCut, GetReturned
<1>10. QED
  BY <1>4, <1>5, <1>6, <1>7, <1>8, <1>9 DEF IInv, Base

\* A command is written, or the buffer grows, or the command is refused, and for
\* its length only if the buffer is as long as it may be and still too short.
LEMMA EncodeCmdKeeps ==
    ASSUME IInv, EncodeCmd
    PROVE  Base'
<1> DEFINE params == args(op)
           buf == Encode(<<>>, sendBuf.len, params)
<1>1. /\ pc = "encode" /\ sendBuf.data = <<>> /\ sendBuf.len \in Nat /\ op \in Calls
      /\ sendBuf = [data |-> <<>>, len |-> sendBuf.len]
      /\ opts \in Options /\ received = <<>> /\ decodingErr = "nil"
      /\ inbox \in Seq(Symbols) /\ proto \in {2, 3}
  BY DEF IInv, Base, StateTypeOK, RequestIs, NothingRemembered, ReceivedIs, EncodeCmd
<1>2. EncodedWell(Symbols, sendBuf.len, params, buf)
  <2>1. Marks \subseteq Symbols /\ IsCommand(Symbols, params)
    BY <1>1, AlphabetIs, ArgsIsCommand
  <2> HIDE DEF params
  <2>2. QED
    BY <1>1, <2>1, EncodeIsUnderstood, Zenon
<1>3. /\ UNCHANGED <<opts, poller, op, received, decodingErr, store, mortal, proto, inbox,
                     reply, effect, counters>>
      /\ \/ /\ buf.err = "nil"
            /\ sendBuf' = [sendBuf EXCEPT !.data = buf.data]
            /\ pc' = "send" /\ UNCHANGED answer
         \/ /\ buf.err = "ErrSendBufTooShort"
            /\ canIncrease(sendBuf.len, opts.SendBufMaxLen)
            /\ sendBuf' = [data |-> buf.data,
                           len |-> increasedLen(sendBuf.len, opts.SendBufMaxLen)]
            /\ UNCHANGED <<pc, answer>>
         \/ /\ \/ buf.err = "ErrUnsupportedDataType"
               \/ /\ buf.err = "ErrSendBufTooShort"
                  /\ ~canIncrease(sendBuf.len, opts.SendBufMaxLen)
            /\ Return(Result(buf.err, <<>>))
  BY <1>1 DEF EncodeCmd
<1> HIDE DEF params, buf
<1>4. params' = params
  BY <1>3 DEF params, args, expiry
<1>5. Replied => Replied'
  BY <1>3 DEF Replied, RepliedTo, ErrorReply, HelloReply, serverVars
<1>6. /\ buf.err \in WriteErrors /\ buf.data \in Seq(Symbols) /\ Len(buf.data) <= sendBuf.len
      /\ buf.err = "nil" => Understood(buf.data) = params
      /\ buf.err # "nil" => buf.data = <<>>
      /\ buf.err = "ErrSendBufTooShort" => EncodedLen(params) > sendBuf.len
  BY <1>2, Zenon DEF EncodedWell
<1>7. CASE pc' \in {"send", "encode"} /\ UNCHANGED answer /\ RequestIs'
             /\ Len(sendBuf'.data) <= sendBuf'.len /\ sendBuf'.data \in Seq(Symbols)
             /\ DOMAIN sendBuf' = {"data", "len"}
  <2>1. StateTypeOK'
    BY <1>3, <1>7 DEF IInv, Base, StateTypeOK, counters
  <2>2. NothingRemembered' /\ OptionsSound' /\ ReceivedIs' /\ DeadIs'
    BY <1>3, <1>1, <1>7 DEF IInv, Base, NothingRemembered, OptionsSound, ReceivedIs, DeadIs,
                            counters
  <2>3. NothingBefore'
    BY <1>1, <1>3, CallOfClient DEF NothingBefore, counters
  <2>4. EffectIs'
    BY <1>3, <1>5, <1>7 DEF IInv, Base, EffectIs
  <2>5. RefusedOnlyIfTooLong' /\ PanicsOnlyOnCut' /\ (Textual => GetReturned)'
    BY <1>7 DEF RefusedOnlyIfTooLong, PanicsOnlyOnCut, GetReturned
  <2>6. QED
    BY <1>7, <2>1, <2>2, <2>3, <2>4, <2>5 DEF IInv, Base
<1>8. CASE /\ buf.err = "nil"
           /\ sendBuf' = [sendBuf EXCEPT !.data = buf.data]
           /\ pc' = "send" /\ UNCHANGED answer
  <2>1. sendBuf' = [data |-> buf.data, len |-> sendBuf.len]
    BY <1>1, <1>8
  <2>2. args(op)' = params
    BY <1>4 DEF params
  <2>3. RequestIs'
    BY <1>1, <1>6, <1>8, <2>1, <2>2 DEF RequestIs
  <2>4. QED
    BY <1>6, <1>7, <1>8, <2>1, <2>3
<1>9. CASE /\ buf.err = "ErrSendBufTooShort"
           /\ canIncrease(sendBuf.len, opts.SendBufMaxLen)
           /\ sendBuf' = [data |-> buf.data,
                          len |-> increasedLen(sendBuf.len, opts.SendBufMaxLen)]
           /\ UNCHANGED <<pc, answer>>
  <2>1. buf.data = <<>> /\ Len(<<>>) = 0 /\ <<>> \in Seq(Symbols)
    BY <1>6, <1>9
  <2>2. sendBuf'.len \in Nat /\ sendBuf'.data = <<>> /\ DOMAIN sendBuf' = {"data", "len"}
    <3>1. opts.SendBufMaxLen \in Int
      BY <1>1 DEF Options
    <3>2. increasedLen(sendBuf.len, opts.SendBufMaxLen) \in Nat
      BY <1>1, <1>9, <3>1 DEF increasedLen, canIncrease, availableSpaceLen
    <3>3. QED
      BY <1>9, <2>1, <3>2
  <2>3. RequestIs'
    BY <1>1, <1>9, <2>1, <2>2 DEF RequestIs
  <2>4. QED
    BY <1>1, <1>7, <1>9, <2>1, <2>2, <2>3
<1>10. CASE /\ \/ buf.err = "ErrUnsupportedDataType"
               \/ /\ buf.err = "ErrSendBufTooShort"
                  /\ ~canIncrease(sendBuf.len, opts.SendBufMaxLen)
            /\ Return(Result(buf.err, <<>>))
  <2>1. answer' = Result(buf.err, <<>>)
    BY <1>10 DEF Return
  <2>2. RefusedOnlyIfTooLong'
    <3>1. ASSUME answer'.err = "ErrSendBufTooShort"
          PROVE  EncodedLen(args(op))' > opts'.SendBufMaxLen
      <4>1. buf.err = "ErrSendBufTooShort"
        BY <2>1, <3>1 DEF Result
      <4>2. EncodedLen(params) > sendBuf.len
        BY <1>6, <4>1
      <4>3. sendBuf.len >= opts.SendBufMaxLen
        BY <1>1, <1>10, <4>1 DEF canIncrease, availableSpaceLen, Options
      <4>4. EncodedLen(args(op))' = EncodedLen(params)
        BY <1>4 DEF params, EncodedLen, EncodedLens
      <4>5. EncodedLen(params) \in Int
        <5>1. IsCommand(Symbols, params)
          BY <1>1, ArgsIsCommand DEF params
        <5>2. QED
          BY <5>1, EncodedLensType DEF IsCommand, EncodedLen
      <4>6. QED
        BY <1>1, <1>3, <4>2, <4>3, <4>4, <4>5 DEF Options
    <3>2. QED
      BY <3>1 DEF RefusedOnlyIfTooLong
  <2>3. (Textual => GetReturned)'
    <3>1. ASSUME ReplyIsWhole'
          PROVE  FALSE
      BY <1>1, <1>3, <3>1 DEF ReplyIsWhole
    <3>2. QED
      BY <3>1 DEF GetReturned
  <2>4. Result(buf.err, <<>>).text \in Seq(Symbols)
    BY DEF Result
  <2>5. clients > 0
    BY <1>1, CallOfClient
  <2> DEFINE r == Result(buf.err, <<>>)
  <2>6. Return(r) /\ r.text \in Seq(Symbols)
    BY <1>10, <2>4
  <2> HIDE DEF r
  <2>7. /\ UNCHANGED <<opts, poller, op, received, store, mortal, reply, effect, counters>>
        /\ proto' \in {2, 3} /\ inbox' \in Seq(Symbols) /\ decodingErr' = "nil"
        /\ pc # "none"
    BY <1>1, <1>3 DEF serverVars
  <2>8. QED
    BY <2>2, <2>3, <2>5, <2>6, <2>7, ReturnKeeps
<1>11. QED
  BY <1>3, <1>8, <1>9, <1>10

-----------------------------------------------------------------------------
(***************************************************************************)
(* What a whole reply is decoded to.                                       *)
(***************************************************************************)
\* A stored value, whatever its bytes, does not end the process.
LEMMA BulkIsSafe ==
    ASSUME NEW v \in Seq(Symbols), Len(v) <= MaxNumber, NEW d, d = Bulk(v)
    PROVE  Decode(d, "nil").err # "panic"
<1> DEFINE n == Len(v)
           parts == Parts(d)[Len(d) - 1]
           p == parsePart(d, 1, parts)
<1>1. /\ d \in Seq(Symbols) /\ Len(d) = n + 6 /\ d[1] = "$"
  BY AlphabetIs, BulkIs
<1>2. n \in Nat
  OBVIOUS
<1>3. Len(d) \in Nat /\ Len(d) # 0
  BY <1>1, <1>2
<1>4. d # <<>>
  BY <1>3, NonEmpty, Zenon
<1>5. p = parseBulkString(d, 1)
  BY <1>1 DEF parsePart
<1>6. parseBulkString(d, 1).err \in {"nil", "ErrNoValue"}
  BY DEF parseBulkString, Parsed
<1> HIDE DEF p
<1>7. p.err # "panic"
  BY <1>5, <1>6
<1>8. Decode(d, "nil").err = p.err
  BY <1>3, <1>4, DecodeIs DEF p
<1>9. QED
  BY <1>7, <1>8

\* The method is told what the server has done, by an object of the type it expects,
\* for Get with the value, or else by the error.
Told(c, result, r) ==
    \/ /\ r.err = "nil" /\ asserts(c, r.object)
       /\ result = Result("nil", IF c.name = "Get" THEN r.object.text ELSE <<>>)
    \/ r.err \notin {"nil", "panic"} /\ result = Result(r.err, <<>>)

\* A value that is text has no byte that ends a line, wherever it is looked for.
LEMMA TextHasNoCR ==
    ASSUME Textual, NEW v \in Values
    PROVE  \A k \in 1..Len(v) : v[k] # "CR"
<1>1. v \in Seq(Symbols)
  BY PartIsText
<1>2. DOMAIN v = 1..Len(v)
  BY <1>1
<1>3. "CR" \notin Range(v)
  BY DEF Textual
<1>4. QED
  BY <1>2, <1>3, Zenon DEF Range

\* A whole reply never ends the process, and the method is told what the server has
\* done, Get if the value is text.
LEMMA RepliesDecode ==
    ASSUME NEW c, NEW bytes, NEW result, RepliedTo(c, bytes, result),
           NEW r, r = Decode(bytes, "nil")
    PROVE  r.err # "panic" /\ (Textual => Told(c, result, r))
<1> DEFINE failure(err) == [object |-> Nil, err |-> err, decodingErr |-> "nil"]
           value(object) == [object |-> object, err |-> "nil", decodingErr |-> "nil"]
<1>1. Marks \subseteq Symbols /\ "ERR" \in Symbols /\ "PONG" \in Symbols
      /\ "OK" \in Symbols /\ "proto" \in Symbols /\ "modules" \in Symbols
  BY AlphabetIs
<1>2. CASE bytes = ErrorReply /\ result = Refusal
  <2>1. r = failure("ErrRedisException")
    BY <1>1, <1>2, DecodesError, Zenon
  <2>2. r.err = "ErrRedisException"
    BY <2>1
  <2>3. QED
    BY <1>2, <2>2 DEF Told, Refusal
<1>3. CASE c.name # "Get" /\ result = OK
             /\ \E object : r = value(object) /\ asserts(c, object)
  <2>1. r.err = "nil" /\ asserts(c, r.object)
    BY <1>3
  <2>2. QED
    BY <1>3, <2>1 DEF Told, OK
<1>4. CASE c.name = "Ping" /\ bytes = TwoOnLine("+", "PONG") /\ result = OK
  <2>1. "PONG" # "CR"
    OBVIOUS
  <2>2. r = value(Bytes(<<"PONG">>))
    BY <1>1, <1>4, <2>1, DecodesWord, Zenon
  <2>3. asserts(c, Bytes(<<"PONG">>))
    BY <1>4 DEF asserts, Bytes, Object
  <2>4. QED
    BY <1>3, <1>4, <2>2, <2>3
<1>5. CASE c.name \in {"Hello3", "NewClient"} /\ bytes = HelloReply /\ result = OK
  <2>1. PICK map : r = value(Map(map))
    BY <1>1, <1>5, DecodesHello, Zenon
  <2>2. asserts(c, Map(map))
    BY <1>5 DEF asserts, Map, Object
  <2>3. QED
    BY <1>3, <1>5, <2>1, <2>2
<1>6. CASE c.name = "Set" /\ bytes = TwoOnLine("+", "OK") /\ result = OK
  <2>1. "OK" # "CR"
    OBVIOUS
  <2>2. r = value(Bytes(<<"OK">>))
    BY <1>1, <1>6, <2>1, DecodesWord, Zenon
  <2>3. asserts(c, Bytes(<<"OK">>))
    BY <1>6 DEF asserts
  <2>4. QED
    BY <1>3, <1>6, <2>2, <2>3
<1>7. ASSUME NEW v \in Values, c.name = "Get", bytes = Bulk(v), result = Result("nil", v)
      PROVE  r.err # "panic" /\ (Textual => Told(c, result, r))
  <2>1. v \in Seq(Symbols) /\ Len(v) <= MaxNumber
    BY PartIsText
  <2>2. r.err # "panic"
    BY <1>7, <2>1, BulkIsSafe
  <2>3. ASSUME Textual
        PROVE  Told(c, result, r)
    <3>1. \A k \in 1..Len(v) : v[k] # "CR"
      BY <2>3, TextHasNoCR
    <3>2. r = value(Bytes(v))
      BY <1>1, <1>7, <2>1, <3>1, DecodesBulk, Zenon
    <3>3. r.err = "nil" /\ r.object = Bytes(v)
      BY <3>2
    <3>4. asserts(c, r.object) /\ r.object.text = v
      BY <1>7, <3>3 DEF asserts, Bytes, Object
    <3>5. QED
      BY <1>7, <3>3, <3>4, Zenon DEF Told
  <2>4. QED
    BY <2>2, <2>3
<1>8. CASE bytes \in {Null, NullBulk} /\ result = NoValue
  <2>1. r = failure("ErrNoValue")
    <3>1. CASE bytes = Null
      BY <1>1, <3>1, DecodesNull, Zenon
    <3>2. CASE bytes = NullBulk
      <4> DEFINE n == -1
      <4>1. n \in -1..MaxNumber /\ n < 0
        BY MaxNumberIsNat
      <4>2. bytes = Line("$", n)
        BY <3>2, Zenon DEF NullBulk
      <4> HIDE DEF n
      <4>3. QED
        BY <1>1, <4>1, <4>2, DecodesNullBulk, Zenon
    <3>3. QED
      BY <1>8, <3>1, <3>2
  <2>2. r.err = "ErrNoValue"
    BY <2>1
  <2>3. QED
    BY <1>8, <2>2 DEF Told, NoValue
<1>9. QED
  BY <1>2, <1>4, <1>5, <1>6, <1>7, <1>8, Zenon DEF RepliedTo

\* A reply is decoded, and nothing of its error is kept.
LEMMA DecodeReplyIs ==
    ASSUME IInv, DecodeReply, NEW r, r = Decode(received, "nil")
    PROVE  /\ pc = "decode" /\ decodingErr' = "nil"
           /\ UNCHANGED <<opts, poller, op, received, store, mortal, requests, stray, proto,
                          inbox, behind, reply, effect, counters>>
           /\ \/ /\ r.err = "panic" /\ pc' = "dead"
                 /\ UNCHANGED <<sendBuf, answer>>
              \/ Return(Result("other", <<>>))
              \/ /\ r.err \notin {"nil", "panic"}
                 /\ Return(Result(r.err, <<>>))
              \/ /\ r.err = "nil" /\ ~asserts(op, r.object)
                 /\ Return(Result("ErrTypeAssert", <<>>))
              \/ /\ r.err = "nil" /\ asserts(op, r.object)
                 /\ Return(Result("nil", IF op.name = "Get" THEN r.object.text ELSE <<>>))
<1>1. decodingErr = "nil"
  BY DEF IInv, Base, NothingRemembered
<1>2. Decode(received, decodingErr) = r
  BY <1>1
<1>3. r.decodingErr = "nil"
  BY DEF Decode, getDecodingErr
<1>4. QED
  BY <1>2, <1>3, Zenon DEF DecodeReply, Conclude

\* What the method returns of a reply that has been decoded.
Answered(r, result) ==
    \/ result = Result("other", <<>>)
    \/ r.err \notin {"nil", "panic"} /\ result = Result(r.err, <<>>)
    \/ r.err = "nil" /\ ~asserts(op, r.object) /\ result = Result("ErrTypeAssert", <<>>)
    \/ /\ r.err = "nil" /\ asserts(op, r.object)
       /\ result = Result("nil", IF op.name = "Get" THEN r.object.text ELSE <<>>)

\* A method returns what it has been told.
LEMMA ToldIsReturned ==
    ASSUME NEW r, NEW result, Told(op, effect, r), Answered(r, result), result.err # "other"
    PROVE  result = effect
<1>1. result # Result("other", <<>>)
  BY DEF Result
<1>2. QED
  BY <1>1, Zenon DEF Told, Answered

\* What is returned is made of symbols.
LEMMA ReturnedIsText ==
    ASSUME NEW r, NEW result, received \in Seq(Symbols), r = Decode(received, "nil"),
           Answered(r, result)
    PROVE  result.text \in Seq(Symbols)
<1>1. <<>> \in Seq(Symbols)
  OBVIOUS
<1>2. CASE r.err = "nil" /\ asserts(op, r.object) /\ op.name = "Get"
             /\ result = Result("nil", r.object.text)
  <2>1. r.object.type = "[]byte"
    BY <1>2 DEF asserts
  <2>2. r.object.text \in Seq(Symbols)
    BY <2>1, DecodedText
  <2>3. QED
    BY <1>2, <2>2 DEF Result
<1>3. CASE \E err : result = Result(err, <<>>)
  BY <1>1, <1>3 DEF Result
<1>4. QED
  BY <1>2, <1>3 DEF Answered

\* A reply is decoded: the process ends only on one that was cut, and Get returns
\* what it has been told.
LEMMA DecodeReplyKeeps ==
    ASSUME IInv, DecodeReply
    PROVE  Base'
<1> DEFINE r == Decode(received, "nil")
<1>1. /\ pc = "decode" /\ decodingErr' = "nil"
      /\ UNCHANGED <<opts, poller, op, received, store, mortal, proto, inbox, reply, effect,
                     counters>>
      /\ \/ /\ r.err = "panic" /\ pc' = "dead"
            /\ UNCHANGED <<sendBuf, answer>>
         \/ \E result : Return(result) /\ Answered(r, result)
  <2>1. /\ pc = "decode" /\ decodingErr' = "nil"
        /\ UNCHANGED <<opts, poller, op, received, store, mortal, proto, inbox, reply,
                       effect, counters>>
        /\ \/ /\ r.err = "panic" /\ pc' = "dead"
              /\ UNCHANGED <<sendBuf, answer>>
           \/ Return(Result("other", <<>>))
           \/ /\ r.err \notin {"nil", "panic"}
              /\ Return(Result(r.err, <<>>))
           \/ /\ r.err = "nil" /\ ~asserts(op, r.object)
              /\ Return(Result("ErrTypeAssert", <<>>))
           \/ /\ r.err = "nil" /\ asserts(op, r.object)
              /\ Return(Result("nil", IF op.name = "Get" THEN r.object.text ELSE <<>>))
    BY DecodeReplyIs
  <2> HIDE DEF r
  <2>2. QED
    BY <2>1, Zenon DEF Answered
<1>2. /\ received \in Seq(Symbols) /\ received # <<>>
      /\ reply # <<>> => Replied
      /\ inbox \in Seq(Symbols) /\ proto \in {2, 3}
  BY <1>1 DEF IInv, Base, StateTypeOK, EffectIs, ReceivedIs
<1>3. ReplyIsWhole => r.err # "panic" /\ (Textual => Told(op, effect, r))
  <2>1. ASSUME ReplyIsWhole
        PROVE  r.err # "panic" /\ (Textual => Told(op, effect, r))
    <3>1. Replied /\ r = Decode(reply, "nil")
      BY <1>2, <2>1 DEF ReplyIsWhole
    <3> HIDE DEF r
    <3>2. QED
      BY <3>1, RepliesDecode DEF Replied
  <2>2. QED
    BY <2>1
<1>4. ReplyIsWhole' <=> ReplyIsWhole
  BY <1>1 DEF ReplyIsWhole
<1>5. r = Decode(received, "nil")
  OBVIOUS
<1> HIDE DEF r
<1>6. CASE r.err = "panic" /\ pc' = "dead" /\ UNCHANGED <<sendBuf, answer>>
  <2>1. StateTypeOK'
    BY <1>1, <1>6 DEF IInv, Base, StateTypeOK, counters
  <2>2. RequestIs'
    BY <1>1, <1>6 DEF IInv, Base, RequestIs
  <2>3. NothingRemembered' /\ OptionsSound' /\ ReceivedIs'
    BY <1>1, <1>6 DEF IInv, Base, NothingRemembered, OptionsSound, ReceivedIs, counters
  <2>4. NothingBefore'
    BY <1>1, CallOfClient DEF NothingBefore, counters
  <2>5. EffectIs'
    <3>1. Replied => Replied'
      BY <1>1 DEF Replied, RepliedTo, ErrorReply, HelloReply
    <3>2. QED
      BY <1>1, <1>2, <3>1 DEF EffectIs
  <2>6. PanicsOnlyOnCut' /\ DeadIs'
    BY <1>1, <1>3, <1>4, <1>5, <1>6 DEF PanicsOnlyOnCut, DeadIs
  <2>7. RefusedOnlyIfTooLong' /\ (Textual => GetReturned)'
    BY <1>6 DEF RefusedOnlyIfTooLong, GetReturned
  <2>8. QED
    BY <2>1, <2>2, <2>3, <2>4, <2>5, <2>6, <2>7 DEF IInv, Base
<1>7. ASSUME NEW result, Return(result), Answered(r, result)
      PROVE  Base'
  <2>1. answer' = result
    BY <1>7 DEF Return
  <2>2. result.text \in Seq(Symbols)
    BY <1>2, <1>5, <1>7, ReturnedIsText
  <2>3. RefusedOnlyIfTooLong'
    BY <1>1, <1>2 DEF RefusedOnlyIfTooLong
  <2>4. (Textual => GetReturned)'
    <3>1. ASSUME Textual, ReplyIsWhole', op.name = "Get", answer'.err # "other"
          PROVE  answer' = effect'
      <4>1. Told(op, effect, r)
        BY <1>3, <1>4, <3>1
      <4>2. result = effect
        BY <1>7, <2>1, <3>1, <4>1, ToldIsReturned
      <4>3. QED
        BY <1>1, <2>1, <4>2
    <3>2. op' = op /\ (Textual' <=> Textual)
      BY <1>1 DEF Textual
    <3>3. QED
      BY <3>1, <3>2 DEF GetReturned
  <2>5. /\ pc # "none" /\ clients > 0
        /\ UNCHANGED <<opts, poller, op, received, store, mortal, reply, effect, counters>>
        /\ proto' \in {2, 3} /\ inbox' \in Seq(Symbols) /\ decodingErr' = "nil"
    BY <1>1, <1>2, CallOfClient
  <2>6. QED
    BY <1>7, <2>2, <2>3, <2>4, <2>5, ReturnKeeps
<1>8. QED
  BY <1>1, <1>6, <1>7

-----------------------------------------------------------------------------
(***************************************************************************)
(* What the server does, in terms of the call and not of its bytes.        *)
(***************************************************************************)
\* Keeping a Set.
SetKept(c) ==
    /\ c.name = "Set" /\ c.key \in Keys /\ c.value \in Values /\ c.duration \in Durations
    /\ store' = Updated(store, c.key, c.value)
    /\ mortal' = IF Milliseconds(c.duration) > 0 THEN mortal \cup {c.key}
                                                 ELSE mortal \ {c.key}

\* The server has done what the call says, or has refused to, and answers.
Served(c, bytes, result) ==
    \/ /\ c.name = "Ping"
       /\ bytes = TwoOnLine("+", "PONG") /\ result = OK
       /\ UNCHANGED <<store, mortal, proto>>
    \/ /\ c.name \in {"Hello3", "NewClient"}
       /\ bytes = HelloReply /\ result = OK
       /\ proto' = 3 /\ UNCHANGED <<store, mortal>>
    \/ /\ SetKept(c)
       /\ bytes = TwoOnLine("+", "OK") /\ result = OK
       /\ UNCHANGED proto
    \/ /\ c.name = "Get" /\ c.key \in Keys /\ store[c.key] # Absent
       /\ bytes = Bulk(store[c.key]) /\ result = Result("nil", store[c.key])
       /\ UNCHANGED <<store, mortal, proto>>
    \/ /\ c.name = "Get" /\ c.key \in Keys /\ store[c.key] = Absent
       /\ bytes \in {Null, NullBulk} /\ result = NoValue
       /\ UNCHANGED <<store, mortal, proto>>
    \/ /\ bytes = ErrorReply /\ result = Refusal
       /\ UNCHANGED <<store, mortal, proto>>

\* The request that is executed is that of the call that lasts.
OwnIsNext == awaiting /\ Len(requests) = 1

\* The reply is on its way.
Answers(bytes, result) ==
    /\ inbox' = inbox \o bytes
    /\ reply' = IF OwnIsNext THEN bytes ELSE reply
    /\ effect' = IF OwnIsNext THEN result ELSE effect
    /\ awaiting' = (awaiting /\ ~OwnIsNext)

\* What has been sent was sent by a call, and is understood.
LEMMA RequestIsOfCall ==
    ASSUME NEW s \in Seq(Requests), NEW i \in 1..Len(s)
    PROVE  /\ s[i] \in Requests
           /\ s[i].call \in Calls /\ Understood(s[i].bytes) = args(s[i].call)
<1>1. s[i] \in Requests
  OBVIOUS
<1>2. QED
  BY <1>1 DEF Requests

\* What has been sent has its type.
LEMMA RequestsAreRecords == Seq(Requests) \subseteq Seq([call : Calls, bytes : Seq(Symbols)])
<1> DEFINE R == [call : Calls, bytes : Seq(Symbols)]
<1>1. Requests \subseteq R
  BY DEF Requests
<1> HIDE DEF R
<1>2. ASSUME NEW s \in Seq(Requests) PROVE s \in Seq(R)
  BY <1>1, <1>2, SeqOverLarger, Zenon
<1>3. QED
  BY <1>2 DEF R

\* The first of the requests.
LEMMA HeadIsOfCall ==
    ASSUME SentIs, requests # <<>>
    PROVE  /\ Head(requests) = requests[1] /\ Len(requests) \in Nat \ {0}
           /\ Head(requests).call \in Calls
           /\ Understood(Head(requests).bytes) = args(Head(requests).call)
<1>1. requests \in Seq(Requests)
  BY DEF SentIs
<1>2. /\ Head(requests) = requests[1] /\ Len(requests) \in Nat \ {0}
      /\ 1 \in 1..Len(requests)
  BY <1>1
<1>3. QED
  BY <1>1, <1>2, RequestIsOfCall

\* The server writes what a call says that is a Set.
LEMMA WriteIs ==
    ASSUME NEW c \in Calls, NEW req, req = args(c), IsSet(req), Write(req)
    PROVE  SetKept(c)
<1>1. /\ c.name = "Set" /\ c.key \in Keys /\ c.value \in Values /\ c.duration \in Durations
      /\ req[2] = c.key /\ req[3] = c.value
      /\ Len(req) = 5 <=> Milliseconds(c.duration) > 0
  BY RequestsDiffer, Zenon DEF IsSet
<1>2. store' = Updated(store, c.key, c.value)
  BY <1>1, Zenon DEF Write
<1>3. mortal' = IF Milliseconds(c.duration) > 0 THEN mortal \cup {c.key}
                                                 ELSE mortal \ {c.key}
  <2> DEFINE more == Milliseconds(c.duration) > 0
             five == Len(req) = 5
  <2>1. five <=> more
    BY <1>1, Zenon
  <2>2. mortal' = IF five THEN mortal \cup {c.key} ELSE mortal \ {c.key}
    BY <1>1, Zenon DEF Write
  <2> HIDE DEF more, five
  <2>3. mortal' = IF more THEN mortal \cup {c.key} ELSE mortal \ {c.key}
    BY <2>1, <2>2, Zenon
  <2>4. QED
    BY <2>3, Zenon DEF more
<1>4. QED
  BY <1>1, <1>2, <1>3, Zenon DEF SetKept

\* Because it has understood the request.
LEMMA ExecuteIs ==
    ASSUME IInv, Execute, NEW c, c = Head(requests).call
    PROVE  /\ requests # <<>> /\ c \in Calls /\ requests' = Tail(requests)
           /\ \E bytes, result : Served(c, bytes, result) /\ Answers(bytes, result)
           /\ UNCHANGED <<opts, poller, pc, op, bufVars, answer, stray, behind, counters>>
<1> DEFINE req == Understood(Head(requests).bytes)
           Goal == \E bytes, result : Served(c, bytes, result) /\ Answers(bytes, result)
<1>1. /\ requests # <<>> /\ requests' = Tail(requests)
      /\ UNCHANGED <<opts, poller, pc, op, bufVars, answer, stray, behind, counters>>
  BY DEF Execute
<1>2. req = args(c) /\ c \in Calls /\ store \in [Keys -> Values \cup {Absent}]
  BY <1>1, HeadIsOfCall DEF IInv, Base, StateTypeOK
<1>3. /\ req = << <<"PING">> >> => c.name = "Ping"
      /\ req = << <<"HELLO">>, <<"3">> >> => c.name \in {"Hello3", "NewClient"}
      /\ Len(req) = 2 /\ req[1] = <<"GET">> =>
            c.name = "Get" /\ c.key \in Keys /\ req[2] = c.key
  BY <1>2, RequestsDiffer, Zenon
<1>4. \/ /\ req = << <<"PING">> >>
         /\ Answers(<<"+", "PONG">> \o CRLF, Result("nil", <<>>))
         /\ UNCHANGED <<store, mortal, proto>>
      \/ /\ req = << <<"HELLO">>, <<"3">> >>
         /\ proto' = 3
         /\ Answers(HelloReply, Result("nil", <<>>))
         /\ UNCHANGED <<store, mortal>>
      \/ /\ IsSet(req) /\ Write(req)
         /\ Answers(<<"+", "OK">> \o CRLF, Result("nil", <<>>))
         /\ UNCHANGED proto
      \/ /\ Len(req) = 2 /\ req[1] = <<"GET">>
         /\ IF req[2] \in DOMAIN store /\ store[req[2]] # Absent
            THEN Answers(Bulk(store[req[2]]), Result("nil", store[req[2]]))
            ELSE Answers(NullReply, Result("ErrNoValue", <<>>))
         /\ UNCHANGED <<store, mortal, proto>>
      \/ /\ Answers(ErrorReply, Result("ErrRedisException", <<>>))
         /\ UNCHANGED <<store, mortal, proto>>
  BY Zenon DEF Execute, Answers, OwnIsNext
<1> HIDE DEF req
<1>5. CASE /\ req = << <<"PING">> >>
           /\ Answers(<<"+", "PONG">> \o CRLF, Result("nil", <<>>))
           /\ UNCHANGED <<store, mortal, proto>>
  <2>1. c.name = "Ping"
    BY <1>3, <1>5, Zenon
  <2>2. Goal
    BY <1>5, <2>1, Zenon DEF Served, TwoOnLine, OK
  <2>3. QED
    BY <1>1, <1>2, <2>2
<1>6. CASE /\ req = << <<"HELLO">>, <<"3">> >>
           /\ proto' = 3
           /\ Answers(HelloReply, Result("nil", <<>>))
           /\ UNCHANGED <<store, mortal>>
  <2>1. c.name \in {"Hello3", "NewClient"}
    BY <1>3, <1>6, Zenon
  <2>2. Goal
    BY <1>6, <2>1, Zenon DEF Served, OK
  <2>3. QED
    BY <1>1, <1>2, <2>2
<1>7. CASE /\ IsSet(req) /\ Write(req)
           /\ Answers(<<"+", "OK">> \o CRLF, Result("nil", <<>>))
           /\ UNCHANGED proto
  <2>1. SetKept(c)
    BY <1>2, <1>7, WriteIs, Zenon
  <2>2. Goal
    BY <1>7, <2>1, Zenon DEF Served, TwoOnLine, OK
  <2>3. QED
    BY <1>1, <1>2, <2>2
<1>8. CASE /\ Len(req) = 2 /\ req[1] = <<"GET">>
           /\ IF req[2] \in DOMAIN store /\ store[req[2]] # Absent
              THEN Answers(Bulk(store[req[2]]), Result("nil", store[req[2]]))
              ELSE Answers(NullReply, Result("ErrNoValue", <<>>))
           /\ UNCHANGED <<store, mortal, proto>>
  <2>1. c.name = "Get" /\ c.key \in Keys /\ req[2] = c.key
    BY <1>3, <1>8, Zenon
  <2>2. DOMAIN store = Keys
    BY <1>2
  <2>3. IF store[c.key] # Absent
        THEN Answers(Bulk(store[c.key]), Result("nil", store[c.key]))
        ELSE Answers(NullReply, Result("ErrNoValue", <<>>))
    BY <1>8, <2>1, <2>2, Zenon
  <2>4. NullReply \in {Null, NullBulk}
    BY Zenon DEF NullReply, Null, NullBulk
  <2>5. CASE store[c.key] # Absent
    <3>1. Goal
      BY <1>8, <2>1, <2>3, <2>5, Zenon DEF Served
    <3>2. QED
      BY <1>1, <1>2, <3>1
  <2>6. CASE store[c.key] = Absent
    <3>1. Goal
      BY <1>8, <2>1, <2>3, <2>4, <2>6, Zenon DEF Served, NoValue
    <3>2. QED
      BY <1>1, <1>2, <3>1
  <2>7. QED
    BY <2>5, <2>6
<1>9. CASE /\ Answers(ErrorReply, Result("ErrRedisException", <<>>))
           /\ UNCHANGED <<store, mortal, proto>>
  <2>1. Goal
    BY <1>9, Zenon DEF Served, Refusal
  <2>2. QED
    BY <1>1, <1>2, <2>1
<1>10. QED
  BY <1>4, <1>5, <1>6, <1>7, <1>8, <1>9, Zenon

\* What is written is what can be stored.
LEMMA WrittenIsStored ==
    ASSUME StateTypeOK, NEW c, SetKept(c)
    PROVE  store' \in [Keys -> Values \cup {Absent}] /\ mortal' \subseteq Keys
<1>1. /\ store \in [Keys -> Values \cup {Absent}] /\ mortal \subseteq Keys
      /\ c.key \in Keys /\ c.value \in Values
      /\ store' = Updated(store, c.key, c.value)
      /\ mortal' \in {mortal \cup {c.key}, mortal \ {c.key}}
  BY Zenon DEF StateTypeOK, SetKept
<1>2. store' \in [Keys -> Values \cup {Absent}]
  BY <1>1 DEF Updated
<1>3. QED
  BY <1>1, <1>2

\* What the server has done is told by its reply.
LEMMA ServedIsReplied ==
    ASSUME IInv, NEW c, NEW bytes, NEW result, Served(c, bytes, result)
    PROVE  /\ RepliedTo(c, bytes, result) /\ result.err # "none"
           /\ result.text \in Seq(Symbols) /\ bytes \in Seq(Symbols)
           /\ store' \in [Keys -> Values \cup {Absent}] /\ mortal' \subseteq Keys
           /\ proto' \in {2, 3}
<1>1. /\ store \in [Keys -> Values \cup {Absent}] /\ mortal \subseteq Keys
      /\ proto \in {2, 3} /\ StateTypeOK
  BY DEF IInv, Base, StateTypeOK
<1>2. /\ Marks \subseteq Symbols /\ "ERR" \in Symbols /\ "PONG" \in Symbols
      /\ "OK" \in Symbols /\ "proto" \in Symbols /\ "modules" \in Symbols
      /\ "+" \in Symbols /\ "CR" \in Symbols /\ "LF" \in Symbols
  BY AlphabetIs, MarksInAlphabet
<1>3. <<>> \in Seq(Symbols)
  OBVIOUS
<1>4. /\ store' \in [Keys -> Values \cup {Absent}] /\ mortal' \subseteq Keys
      /\ proto' \in {2, 3}
  <2>1. CASE UNCHANGED <<store, mortal>> /\ proto' \in {proto, 3}
    BY <1>1, <2>1
  <2>2. CASE SetKept(c) /\ UNCHANGED proto
    BY <1>1, <2>2, WrittenIsStored
  <2>3. QED
    BY <2>1, <2>2 DEF Served
<1>5. /\ OK.err # "none" /\ OK.text \in Seq(Symbols)
      /\ NoValue.err # "none" /\ NoValue.text \in Seq(Symbols)
      /\ Refusal.err # "none" /\ Refusal.text \in Seq(Symbols)
  BY <1>3 DEF OK, NoValue, Refusal, Result
<1>6. CASE c.name = "Ping" /\ bytes = TwoOnLine("+", "PONG") /\ result = OK
  <2>1. RepliedTo(c, bytes, result)
    BY <1>6, Zenon DEF RepliedTo
  <2>2. bytes \in Seq(Symbols)
    BY <1>2, <1>6, LineOfTwo, Zenon
  <2>3. QED
    BY <1>4, <1>5, <1>6, <2>1, <2>2, Zenon
<1>7. CASE c.name \in {"Hello3", "NewClient"} /\ bytes = HelloReply /\ result = OK
  <2>1. RepliedTo(c, bytes, result)
    BY <1>7, Zenon DEF RepliedTo
  <2>2. bytes \in Seq(Symbols)
    BY <1>2, <1>7, DecodesHello, Zenon
  <2>3. QED
    BY <1>4, <1>5, <1>7, <2>1, <2>2, Zenon
<1>8. CASE c.name = "Set" /\ bytes = TwoOnLine("+", "OK") /\ result = OK
  <2>1. RepliedTo(c, bytes, result)
    BY <1>8, Zenon DEF RepliedTo
  <2>2. bytes \in Seq(Symbols)
    BY <1>2, <1>8, LineOfTwo, Zenon
  <2>3. QED
    BY <1>4, <1>5, <1>8, <2>1, <2>2, Zenon
<1>9. CASE /\ c.name = "Get" /\ c.key \in Keys /\ store[c.key] # Absent
           /\ bytes = Bulk(store[c.key]) /\ result = Result("nil", store[c.key])
  <2> DEFINE v == store[c.key]
  <2>1. v \in Values
    BY <1>1, <1>9
  <2>2. v \in Seq(Symbols) /\ Len(v) <= MaxNumber
    BY <2>1, PartIsText
  <2>3. result = Result("nil", v) /\ bytes = Bulk(v)
    BY <1>9
  <2> HIDE DEF v
  <2>4. RepliedTo(c, bytes, result)
    BY <1>9, <2>1, <2>3, Zenon DEF RepliedTo
  <2>5. bytes \in Seq(Symbols)
    BY <1>2, <2>2, <2>3, BulkIs, Zenon
  <2>6. result.err # "none" /\ result.text \in Seq(Symbols)
    BY <2>2, <2>3 DEF Result
  <2>7. QED
    BY <1>4, <2>4, <2>5, <2>6, Zenon
<1>10. CASE c.name = "Get" /\ bytes \in {Null, NullBulk} /\ result = NoValue
  <2>1. RepliedTo(c, bytes, result)
    BY <1>10, Zenon DEF RepliedTo
  <2>2. CASE bytes = Null
    <3>1. bytes \in Seq(Symbols)
      BY <1>2, <2>2, DecodesNull, Zenon
    <3>2. QED
      BY <1>4, <1>5, <1>10, <2>1, <3>1, Zenon
  <2>3. CASE bytes = NullBulk
    <3> DEFINE n == -1
    <3>1. n \in -1..MaxNumber /\ n < 0
      BY MaxNumberIsNat
    <3>2. bytes = Line("$", n)
      BY <2>3, Zenon DEF NullBulk
    <3> HIDE DEF n
    <3>3. bytes \in Seq(Symbols)
      BY <1>2, <3>1, <3>2, DecodesNullBulk, Zenon
    <3>4. QED
      BY <1>4, <1>5, <1>10, <2>1, <3>3, Zenon
  <2>4. QED
    BY <1>10, <2>2, <2>3
<1>11. CASE bytes = ErrorReply /\ result = Refusal
  <2>1. RepliedTo(c, bytes, result)
    BY <1>11, Zenon DEF RepliedTo
  <2>2. bytes \in Seq(Symbols)
    BY <1>2, <1>11, DecodesError, Zenon
  <2>3. QED
    BY <1>4, <1>5, <1>11, <2>1, <2>2, Zenon
<1>12. QED
  BY <1>6, <1>7, <1>8, <1>9, <1>10, <1>11, Zenon DEF Served, SetKept

\* What a step of the server leaves as it is, besides the effect on the call that
\* lasts: a call that returned before may still be executed, in any state of the
\* client.
LEMMA ServerKeeps ==
    ASSUME IInv, NEW bytes, bytes \in Seq(Symbols), inbox' = bytes,
           store' \in [Keys -> Values \cup {Absent}], mortal' \subseteq Keys,
           proto' \in {2, 3}, effect'.text \in Seq(Symbols), reply' \in Seq(Symbols),
           reply' # <<>> => Replied',
           pc \in {"none", "idle"} => UNCHANGED <<reply, effect>>,
           UNCHANGED <<opts, poller, pc, op, bufVars, answer, counters>>
    PROVE  Base'
<1>1. StateTypeOK'
  BY DEF IInv, Base, StateTypeOK, bufVars, counters
<1>2. RequestIs'
  <2>1. args(op)' = args(op) /\ sendBuf' = sendBuf
    BY DEF args, expiry, bufVars
  <2>2. Understood(sendBuf.data)' = Understood(sendBuf.data)
    BY <2>1
  <2>3. QED
    BY <2>1, <2>2 DEF IInv, Base, RequestIs
<1>3. NothingRemembered' /\ OptionsSound' /\ NothingBefore' /\ ReceivedIs' /\ DeadIs'
  BY DEF IInv, Base, NothingRemembered, OptionsSound, NothingBefore, ReceivedIs, DeadIs,
         bufVars, counters
<1>4. EffectIs'
  BY DEF EffectIs
<1>5. RefusedOnlyIfTooLong'
  BY DEF IInv, Base, RefusedOnlyIfTooLong, bufVars
<1>6. PanicsOnlyOnCut'
  <2>1. ASSUME pc' = "dead", ReplyIsWhole'
        PROVE  FALSE
    <3> DEFINE r == Decode(received', "nil")
    <3>1. received' = received /\ received # <<>> /\ reply' = received /\ Replied'
      BY <2>1 DEF ReplyIsWhole, bufVars
    <3>2. r.err = "panic"
      BY <2>1, <3>1 DEF IInv, Base, DeadIs
    <3>3. r = Decode(reply', "nil")
      BY <3>1
    <3> HIDE DEF r
    <3>4. r.err # "panic"
      BY <3>1, <3>3, RepliesDecode DEF Replied
    <3>5. QED
      BY <3>2, <3>4
  <2>2. QED
    BY <2>1 DEF PanicsOnlyOnCut
<1>7. (Textual => GetReturned)'
  BY DEF IInv, Base, GetReturned, ReplyIsWhole, Textual, bufVars
<1>8. QED
  BY <1>1, <1>2, <1>3, <1>4, <1>5, <1>6, <1>7 DEF Base

\* The server has executed the request of a call, perhaps one that has returned.
LEMMA ExecuteKeeps ==
    ASSUME IInv, Execute
    PROVE  Base'
<1> DEFINE c == Head(requests).call
<1>1. PICK bytes, result : Served(c, bytes, result) /\ Answers(bytes, result)
  BY ExecuteIs, Zenon
<1>2. /\ requests # <<>>
      /\ UNCHANGED <<opts, poller, pc, op, bufVars, answer, stray, behind, counters>>
  BY ExecuteIs, Zenon
<1>3. OwnIsNext => c = op /\ pc \notin {"none", "idle"}
  <2>1. Head(requests) = requests[1]
    BY <1>2, HeadIsOfCall DEF IInv
  <2>2. QED
    BY <2>1 DEF IInv, OwnIsLast, OwnIsNext
<1> HIDE DEF c
<1>4. /\ RepliedTo(c, bytes, result) /\ result.err # "none"
      /\ result.text \in Seq(Symbols) /\ bytes \in Seq(Symbols)
      /\ store' \in [Keys -> Values \cup {Absent}] /\ mortal' \subseteq Keys
      /\ proto' \in {2, 3}
  BY <1>1, ServedIsReplied
<1>5. /\ inbox \in Seq(Symbols) /\ reply \in Seq(Symbols) /\ effect.text \in Seq(Symbols)
      /\ reply # <<>> => Replied
  BY DEF IInv, Base, StateTypeOK, EffectIs
<1>6. inbox' = inbox \o bytes /\ inbox \o bytes \in Seq(Symbols)
  BY <1>1, <1>4, <1>5 DEF Answers
<1>7. /\ effect'.text \in Seq(Symbols) /\ reply' \in Seq(Symbols)
      /\ reply' # <<>> => Replied'
      /\ pc \in {"none", "idle"} => UNCHANGED <<reply, effect>>
  <2>1. CASE OwnIsNext
    <3>1. reply' = bytes /\ effect' = result /\ op' = c /\ pc \notin {"none", "idle"}
      BY <1>1, <1>2, <1>3, <2>1 DEF Answers
    <3>2. Replied'
      BY <1>4, <3>1 DEF Replied
    <3>3. QED
      BY <1>4, <3>1, <3>2
  <2>2. CASE ~OwnIsNext
    <3>1. UNCHANGED <<reply, effect, op>>
      BY <1>1, <1>2, <2>2 DEF Answers
    <3>2. Replied' <=> Replied
      BY <3>1 DEF Replied
    <3>3. QED
      BY <1>5, <3>1, <3>2
  <2>3. QED
    BY <2>1, <2>2
<1>8. QED
  BY <1>2, <1>4, <1>6, <1>7, ServerKeeps

\* What the server does with a request of an earlier connection.
LEMMA ExecuteStrayIs ==
    ASSUME IInv, NEW i \in DOMAIN stray, ExecuteStray(i), NEW c, c = stray[i].call
    PROVE  /\ c \in Calls /\ i \in 1..Len(stray)
           /\ stray' = SubSeq(stray, 1, i - 1) \o SubSeq(stray, i + 1, Len(stray))
           /\ SetKept(c) \/ UNCHANGED <<store, mortal>>
           /\ UNCHANGED <<opts, poller, pc, op, bufVars, answer, requests, proto, inbox,
                          awaiting, behind, reply, effect, counters>>
<1> DEFINE req == Understood(stray[i].bytes)
<1>1. i \in 1..Len(stray) /\ stray \in Seq(Requests)
  BY DEF IInv, SentIs
<1>2. c \in Calls /\ req = args(c)
  BY <1>1, RequestIsOfCall
<1>3. /\ stray' = SubSeq(stray, 1, i - 1) \o SubSeq(stray, i + 1, Len(stray))
      /\ \/ IsSet(req) /\ Write(req)
         \/ UNCHANGED <<store, mortal>>
      /\ UNCHANGED <<opts, poller, pc, op, bufVars, answer, requests, proto, inbox,
                     awaiting, behind, reply, effect, counters>>
  BY Zenon DEF ExecuteStray
<1> HIDE DEF req
<1>4. ASSUME IsSet(req), Write(req) PROVE SetKept(c)
  BY <1>2, <1>4, WriteIs, Zenon
<1>5. QED
  BY <1>1, <1>2, <1>3, <1>4

\* The server has executed it.
LEMMA ExecuteStrayKeeps ==
    ASSUME IInv, NEW i \in DOMAIN stray, ExecuteStray(i)
    PROVE  Base'
<1> DEFINE c == stray[i].call
<1>1. /\ SetKept(c) \/ UNCHANGED <<store, mortal>>
      /\ UNCHANGED <<opts, poller, pc, op, bufVars, answer, requests, proto, inbox,
                     awaiting, behind, reply, effect, counters>>
  BY ExecuteStrayIs, Zenon
<1> HIDE DEF c
<1>2. /\ store \in [Keys -> Values \cup {Absent}] /\ mortal \subseteq Keys
      /\ proto \in {2, 3} /\ StateTypeOK /\ inbox \in Seq(Symbols)
      /\ reply \in Seq(Symbols) /\ effect.text \in Seq(Symbols)
      /\ reply # <<>> => Replied
  BY DEF IInv, Base, StateTypeOK, EffectIs
<1>3. store' \in [Keys -> Values \cup {Absent}] /\ mortal' \subseteq Keys
  BY <1>1, <1>2, WrittenIsStored
<1>4. Replied' <=> Replied
  BY <1>1 DEF Replied
<1>5. QED
  BY <1>1, <1>2, <1>3, <1>4, ServerKeeps

-----------------------------------------------------------------------------
(***************************************************************************)
(* The requests, their order and what the connection owes.                 *)
(***************************************************************************)
Orderly == SentIs /\ OwnIsLast /\ InStep

\* Nothing sent is a sequence of requests.
LEMMA NoRequests == <<>> \in Seq(Requests)
OBVIOUS

\* Nothing is sent, executed or received.
LEMMA OrderKept ==
    ASSUME IInv,
           UNCHANGED <<op, received, requests, stray, inbox, awaiting, behind, reply, effect>>,
           \/ pc' = pc
           \/ pc \in {"none", "idle"} /\ pc' = "none"
           \/ pc = "encode" /\ pc' = "send"
           \/ pc = "decode" /\ pc' = "dead"
    PROVE  Orderly'
BY DEF IInv, Orderly, SentIs, OwnIsLast, InStep

\* A call has returned, and waits for nothing.
LEMMA ReturnKeepsOrder ==
    ASSUME IInv, NEW result, Return(result), requests' \in {requests, <<>>},
           stray' \in {stray, stray \o requests}, UNCHANGED behind
    PROVE  Orderly'
<1>1. pc' \in {"none", "idle"} /\ awaiting' = FALSE
  BY DEF Return
<1>2. SentIs'
  <2>1. stray \o requests \in Seq(Requests)
    BY Concat DEF IInv, SentIs
  <2>2. QED
    BY <1>1, <2>1, NoRequests DEF IInv, SentIs
<1>3. OwnIsLast' /\ InStep'
  BY <1>1 DEF OwnIsLast, InStep
<1>4. QED
  BY <1>2, <1>3 DEF Orderly

\* A call begins, on a connection whose debts it knows.
LEMMA BeginKeepsOrder ==
    ASSUME IInv, NEW c, Begin(c), pc \in {"none", "idle"}, UNCHANGED awaiting,
           requests' \in {requests, <<>>}, stray' \in {stray, stray \o requests}
    PROVE  Orderly'
<1>1. pc' = "encode" /\ behind' = (inbox' # <<>> \/ requests' # <<>>)
  BY DEF Begin
<1>2. awaiting = FALSE
  BY DEF IInv, SentIs, OwnIsLast
<1>3. SentIs'
  <2>1. stray \o requests \in Seq(Requests)
    BY Concat DEF IInv, SentIs
  <2>2. QED
    BY <1>1, <1>2, <2>1, NoRequests DEF IInv, SentIs
<1>4. OwnIsLast' /\ InStep'
  BY <1>1, <1>2 DEF OwnIsLast, InStep
<1>5. QED
  BY <1>3, <1>4 DEF Orderly

\* The request of the call is sent after those of the calls before it.
LEMMA SendKeepsOrder ==
    ASSUME IInv, Send
    PROVE  Orderly'
<1> DEFINE q == [call |-> op, bytes |-> sendBuf.data]
<1>1. /\ pc = "send" /\ pc' = "receive" /\ requests' = Append(requests, q)
      /\ awaiting' = TRUE
      /\ UNCHANGED <<op, stray, inbox, behind>>
  BY DEF Send
<1>2. q \in Requests /\ q.call = op
  BY <1>1 DEF IInv, Base, StateTypeOK, RequestIs, Requests
<1> HIDE DEF q
<1>3. requests \in Seq(Requests)
  BY DEF IInv, SentIs
<1>4. /\ requests' \in Seq(Requests) /\ requests' # <<>>
      /\ Len(requests') = Len(requests) + 1 /\ requests'[Len(requests')] = q
  BY <1>1, <1>2, <1>3
<1>5. SentIs'
  BY <1>1, <1>4 DEF IInv, SentIs
<1>6. OwnIsLast'
  BY <1>1, <1>2, <1>4 DEF OwnIsLast
<1>7. InStep'
  <2>1. ASSUME ~behind' PROVE Len(requests') = 1 /\ inbox' = <<>>
    BY <1>1, <1>4, <2>1 DEF IInv, InStep
  <2>2. QED
    BY <1>1, <2>1 DEF InStep
<1>8. QED
  BY <1>5, <1>6, <1>7 DEF Orderly

\* A new connection owes nothing.
LEMMA ReconnectKeepsOrder ==
    ASSUME IInv, Reconnect
    PROVE  Orderly'
<1>1. /\ pc' = "send" /\ requests' = <<>> /\ inbox' = <<>> /\ awaiting' = FALSE
      /\ behind' = FALSE /\ UNCHANGED stray
  BY DEF Reconnect, Broken
<1>2. SentIs'
  BY <1>1, NoRequests DEF IInv, SentIs
<1>3. QED
  BY <1>1, <1>2 DEF Orderly, OwnIsLast, InStep

\* What is received on a connection that owed nothing is of the reply to the call.
LEMMA ReceiveKeepsOrder ==
    ASSUME IInv, Receive
    PROVE  Orderly'
<1>1. PICK n \in 1..Len(inbox) : received' = SubSeq(inbox, 1, n)
  BY DEF Receive
<1>2. /\ pc = "receive" /\ pc' = "decode"
      /\ UNCHANGED <<op, requests, stray, awaiting, behind, reply, effect>>
  BY DEF Receive
<1>3. SentIs' /\ OwnIsLast'
  BY <1>2 DEF IInv, SentIs, OwnIsLast
<1>4. InStep'
  <2>1. SUFFICES ASSUME ~behind'
                 PROVE  /\ ~awaiting' /\ requests' = <<>> /\ effect'.err # "none"
                        /\ Len(received') <= Len(reply')
                        /\ received' = SubSeq(reply', 1, Len(received'))
    BY <1>2 DEF InStep
  <2>2. inbox \in Seq(Symbols) /\ inbox # <<>>
    BY DEF IInv, Base, StateTypeOK
  <2>3. ~awaiting /\ requests = <<>> /\ inbox = reply /\ effect.err # "none"
    BY <1>2, <2>1, <2>2 DEF IInv, InStep
  <2>4. Len(received') = n /\ n <= Len(inbox)
    BY <1>1, <2>2
  <2>5. QED
    BY <1>1, <1>2, <2>3, <2>4
<1>5. QED
  BY <1>3, <1>4 DEF Orderly

\* The server executes the first request, and the last stays the last.
LEMMA ExecuteKeepsOrder ==
    ASSUME IInv, Execute
    PROVE  Orderly'
<1> DEFINE c == Head(requests).call
<1>1. /\ requests # <<>> /\ requests' = Tail(requests)
      /\ UNCHANGED <<opts, poller, pc, op, bufVars, answer, stray, behind, counters>>
  BY ExecuteIs, Zenon
<1>2. PICK bytes, result : Served(c, bytes, result) /\ Answers(bytes, result)
  BY ExecuteIs, Zenon
<1>3. result.err # "none" /\ bytes \in Seq(Symbols)
  BY <1>2, ServedIsReplied
<1> HIDE DEF c
<1>4. requests \in Seq(Requests) /\ awaiting \in BOOLEAN /\ stray \in Seq(Requests)
      /\ behind \in BOOLEAN
  BY DEF IInv, SentIs
<1>5. /\ requests' \in Seq(Requests) /\ Len(requests) \in Nat \ {0}
      /\ Len(requests') = Len(requests) - 1
      /\ \A i \in 1..Len(requests') : requests'[i] = requests[i + 1]
  BY <1>1, <1>4
<1>6. SentIs'
  BY <1>1, <1>2, <1>4, <1>5 DEF SentIs, Answers
<1>7. OwnIsLast'
  <2>1. CASE awaiting' = FALSE
    BY <2>1 DEF OwnIsLast
  <2>2. CASE awaiting' = TRUE
    <3>1. awaiting /\ Len(requests) # 1 /\ pc' = pc /\ op' = op
      BY <1>1, <1>2, <2>2 DEF Answers, OwnIsNext
    <3>2. /\ pc \in {"receive", "decode", "dead"} /\ requests[Len(requests)].call = op
      BY <3>1 DEF IInv, OwnIsLast
    <3>3. Len(requests') \in 1..Len(requests') /\ Len(requests') + 1 = Len(requests)
      BY <1>5, <3>1
    <3>4. requests'[Len(requests')] = requests[Len(requests)] /\ requests' # <<>>
      BY <1>5, <3>3
    <3>5. QED
      BY <3>1, <3>2, <3>4 DEF OwnIsLast
  <2>3. QED
    BY <1>2, <1>4, <2>1, <2>2 DEF Answers
<1>8. InStep'
  <2>1. SUFFICES ASSUME ~behind', pc' \notin {"none", "idle"}
                 PROVE  /\ pc' = "receive" /\ ~awaiting' /\ requests' = <<>>
                        /\ inbox' = reply' /\ effect'.err # "none"
    BY DEF InStep
  <2>2. pc = "receive" /\ awaiting /\ Len(requests) = 1 /\ inbox = <<>>
    BY <1>1, <2>1 DEF IInv, InStep, Base, StateTypeOK
  <2>3. OwnIsNext
    BY <2>2 DEF OwnIsNext
  <2>4. <<>> \o bytes = bytes
    BY <1>3, ConcatEmptySeq
  <2>5. inbox' = bytes /\ reply' = bytes /\ effect' = result /\ ~awaiting'
    BY <1>2, <2>2, <2>3, <2>4 DEF Answers
  <2>6. requests' = <<>>
    BY <1>5, <2>2
  <2>7. QED
    BY <1>1, <1>3, <2>2, <2>5, <2>6
<1>9. QED
  BY <1>6, <1>7, <1>8 DEF Orderly

\* Earlier clients have connections of their own.
LEMMA ExecuteStrayKeepsOrder ==
    ASSUME IInv, NEW i \in DOMAIN stray, ExecuteStray(i)
    PROVE  Orderly'
<1>1. /\ i \in 1..Len(stray)
      /\ stray' = SubSeq(stray, 1, i - 1) \o SubSeq(stray, i + 1, Len(stray))
      /\ UNCHANGED <<opts, poller, pc, op, bufVars, answer, requests, proto, inbox,
                     awaiting, behind, reply, effect, counters>>
  BY ExecuteStrayIs, Zenon
<1>2. stray \in Seq(Requests)
  BY DEF IInv, SentIs
<1>3. SubSeq(stray, 1, i - 1) \in Seq(Requests)
      /\ SubSeq(stray, i + 1, Len(stray)) \in Seq(Requests)
  BY <1>1, <1>2
<1>4. stray' \in Seq(Requests)
  BY <1>1, <1>3, Concat
<1>5. SentIs'
  BY <1>1, <1>4 DEF IInv, SentIs
<1>6. OwnIsLast' /\ InStep'
  BY <1>1 DEF IInv, OwnIsLast, InStep, bufVars
<1>7. QED
  BY <1>5, <1>6 DEF Orderly

\* Every step keeps the order.
LEMMA NextKeepsOrder ==
    ASSUME IInv, [Next]_vars
    PROVE  Orderly'
<1>1. CASE NewClient
  <2>1. /\ pc \in {"none", "idle"} /\ UNCHANGED awaiting /\ requests' = <<>>
        /\ stray' = stray \o requests
    BY <1>1 DEF NewClient
  <2>2. CASE Begin(Hello("NewClient"))
    BY <2>1, <2>2, BeginKeepsOrder
  <2>3. CASE pc' = "idle" /\ UNCHANGED behind
    <3>1. SentIs'
      BY <2>1, <2>3 DEF IInv, SentIs
    <3>2. OwnIsLast' /\ InStep'
      BY <2>1, <2>3 DEF IInv, SentIs, OwnIsLast, InStep
    <3>3. QED
      BY <3>1, <3>2 DEF Orderly
  <2>4. QED
    BY <1>1, <2>2, <2>3 DEF NewClient
<1>2. CASE NewClientFails \/ Expire \/ UNCHANGED vars
  <2>1. /\ UNCHANGED <<op, received, requests, stray, inbox, awaiting, behind, reply, effect>>
        /\ \/ pc' = pc
           \/ pc \in {"none", "idle"} /\ pc' = "none"
    <3>1. CASE NewClientFails
      BY <3>1 DEF NewClientFails, bufVars, serverVars, wireVars
    <3>2. CASE Expire
      <4>1. UNCHANGED <<pc, op, bufVars, wireVars, reply, effect>>
        BY <3>2 DEF Expire
      <4>2. QED
        BY <4>1 DEF bufVars, wireVars
    <3>3. CASE UNCHANGED vars
      <4>1. UNCHANGED <<pc, op, bufVars, wireVars, reply, effect>>
        BY <3>3 DEF vars, serverVars
      <4>2. QED
        BY <4>1 DEF bufVars, wireVars
    <3>4. QED
      BY <1>2, <3>1, <3>2, <3>3
  <2>2. QED
    BY <2>1, OrderKept
<1>3. CASE Call
  <2>1. PICK c : Begin(c)
    BY <1>3 DEF Call
  <2>2. pc \in {"none", "idle"} /\ UNCHANGED <<awaiting, requests, stray>>
    BY <1>3 DEF Call
  <2>3. QED
    BY <2>1, <2>2, BeginKeepsOrder
<1>4. CASE EncodeCmd
  <2>1. /\ pc = "encode"
        /\ UNCHANGED <<op, received, requests, stray, inbox, behind, reply, effect>>
        /\ \/ pc' \in {"encode", "send"} /\ UNCHANGED awaiting
           \/ \E result : Return(result)
    BY <1>4 DEF EncodeCmd
  <2>2. CASE pc' \in {"encode", "send"} /\ UNCHANGED awaiting
    BY <2>1, <2>2, OrderKept
  <2>3. CASE \E result : Return(result)
    BY <2>1, <2>3, ReturnKeepsOrder
  <2>4. QED
    BY <2>1, <2>2, <2>3
<1>5. CASE GiveUp
  <2>1. /\ requests' \in {requests, <<>>} /\ stray' \in {stray, stray \o requests}
        /\ UNCHANGED behind /\ Return(Result("other", <<>>))
    BY <1>5 DEF GiveUp, Broken, TooLong
  <2>2. QED
    BY <2>1, ReturnKeepsOrder
<1>6. CASE DecodeReply
  <2>1. /\ pc = "decode"
        /\ UNCHANGED <<op, received, requests, stray, inbox, behind, reply, effect>>
        /\ \/ pc' = "dead" /\ UNCHANGED awaiting
           \/ \E result : Return(result)
    BY <1>6, Zenon DEF DecodeReply, Conclude
  <2>2. CASE pc' = "dead" /\ UNCHANGED awaiting
    BY <2>1, <2>2, OrderKept
  <2>3. CASE \E result : Return(result)
    BY <2>1, <2>3, ReturnKeepsOrder
  <2>4. QED
    BY <2>1, <2>2, <2>3
<1>7. CASE Send
  BY <1>7, SendKeepsOrder
<1>8. CASE Reconnect
  BY <1>8, ReconnectKeepsOrder
<1>9. CASE Receive
  BY <1>9, ReceiveKeepsOrder
<1>10. CASE Execute
  BY <1>10, ExecuteKeepsOrder
<1>11. CASE \E i \in DOMAIN stray : ExecuteStray(i)
  BY <1>11, ExecuteStrayKeepsOrder
<1>12. QED
  BY <1>1, <1>2, <1>3, <1>4, <1>5, <1>6, <1>7, <1>8, <1>9, <1>10, <1>11 DEF Next

-----------------------------------------------------------------------------
(***************************************************************************)
(* The invariant.                                                          *)
(***************************************************************************)
\* A program that has called nothing satisfies the invariant.
LEMMA InitIsRight ==
    ASSUME Init
    PROVE  IInv
<1>1. opts \in Options /\ MaxClients \in Nat /\ MaxCalls \in Nat /\ MaxCuts \in Nat
  BY ClientAssumption DEF Init
<1>2. <<>> \in Seq(Symbols) /\ Len(<<>>) = 0
  OBVIOUS
<1>3. op \in Calls /\ op.name = "NewClient"
  BY DEF Init, Calls, Hello, Command
<1>4. StateTypeOK
  BY <1>1, <1>2, <1>3 DEF Init, StateTypeOK, Result
<1>5. RequestIs
  BY <1>2 DEF Init, RequestIs
<1>6. /\ NothingRemembered /\ OptionsSound /\ NothingBefore /\ ReceivedIs /\ DeadIs
      /\ EffectIs
  BY <1>1 DEF Init, NothingRemembered, OptionsSound, NothingBefore, ReceivedIs, DeadIs,
              EffectIs, Result
<1>7. RefusedOnlyIfTooLong /\ PanicsOnlyOnCut /\ GetReturned
  BY <1>3 DEF Init, RefusedOnlyIfTooLong, PanicsOnlyOnCut, GetReturned, Result
<1>8. SentIs /\ OwnIsLast /\ InStep
  BY NoRequests DEF Init, SentIs, OwnIsLast, InStep
<1>9. QED
  BY <1>4, <1>5, <1>6, <1>7, <1>8 DEF IInv, Base

\* Every step of the program, the connection and the server keeps it.
LEMMA NextKeeps ==
    ASSUME IInv, [Next]_vars
    PROVE  IInv'
<1>1. Base'
  <2>1. CASE NewClient
    BY <2>1, NewClientKeeps
  <2>2. CASE NewClientFails
    BY <2>2, NewClientFailsKeeps
  <2>3. CASE Call
    BY <2>3, CallKeeps
  <2>4. CASE EncodeCmd
    BY <2>4, EncodeCmdKeeps
  <2>5. CASE Send
    BY <2>5, SendKeeps
  <2>6. CASE Reconnect
    BY <2>6, ReconnectKeeps
  <2>7. CASE GiveUp
    BY <2>7, GiveUpKeeps
  <2>8. CASE Receive
    BY <2>8, ReceiveKeeps
  <2>9. CASE DecodeReply
    BY <2>9, DecodeReplyKeeps
  <2>10. CASE Execute
    BY <2>10, ExecuteKeeps
  <2>11. CASE Expire
    BY <2>11, ExpireKeeps
  <2>12. CASE \E i \in DOMAIN stray : ExecuteStray(i)
    BY <2>12, ExecuteStrayKeeps
  <2>13. CASE UNCHANGED vars
    BY <2>13, StutterKeeps
  <2>14. QED
    BY <2>1, <2>2, <2>3, <2>4, <2>5, <2>6, <2>7, <2>8, <2>9, <2>10, <2>11, <2>12, <2>13
       DEF Next
<1>2. Orderly'
  BY NextKeepsOrder
<1>3. QED
  BY <1>1, <1>2 DEF IInv, Orderly

\* The invariant holds in every state.
THEOREM InvariantHolds == Spec => []IInv
<1>1. Init => IInv
  BY InitIsRight
<1>2. IInv /\ [Next]_vars => IInv'
  BY NextKeeps
<1>3. QED
  BY <1>1, <1>2, PTL DEF Spec

-----------------------------------------------------------------------------
(***************************************************************************)
(* The properties.                                                         *)
(***************************************************************************)
\* Every variable has its type, whatever the program puts in its calls and
\* however the replies are cut.
THEOREM ClientTypeOK == Spec => []TypeOK
<1>1. IInv => TypeOK
  <2>1. Seq(Requests) \subseteq Seq([call : Calls, bytes : Seq(Symbols)])
    BY RequestsAreRecords
  <2>2. QED
    BY <2>1 DEF IInv, Base, SentIs, TypeOK, SentTypeOK
<1>2. QED
  BY <1>1, InvariantHolds, PTL

\* The connection can work with the options of every client, whatever the program
\* has put in them and however often they are used.
THEOREM ClientOptionsSound == Spec => []OptionsSound
<1>1. IInv => OptionsSound
  BY DEF IInv, Base
<1>2. QED
  BY <1>1, InvariantHolds, PTL

\* The server reads exactly the parameters of the call: binary values, empty ones
\* and those that look like RESP, and whatever the buffer was before it grew.
THEOREM ClientRequestsAreUnderstood == Spec => []RequestsAreUnderstood
<1>1. IInv => RequestsAreUnderstood
  BY DEF IInv, Base, RequestIs, RequestsAreUnderstood
<1>2. QED
  BY <1>1, InvariantHolds, PTL

\* A command that fits in SendBufMaxLen bytes is never refused for its length,
\* although the clients before it have changed the options.
THEOREM ClientRefusedOnlyIfTooLong == Spec => []RefusedOnlyIfTooLong
<1>1. IInv => RefusedOnlyIfTooLong
  BY DEF IInv, Base
<1>2. QED
  BY <1>1, InvariantHolds, PTL

\* A reply that has arrived whole never ends the process, even one whose value
\* Decode cannot read.
THEOREM ClientPanicsOnlyOnCut == Spec => []PanicsOnlyOnCut
<1>1. IInv => PanicsOnlyOnCut
  BY DEF IInv, Base
<1>2. QED
  BY <1>1, InvariantHolds, PTL

\* Get returns byte for byte what the server had stored, and ErrNoValue if that is
\* nothing, in both versions of the protocol, as long as no value has a byte in it
\* that ends a line.
THEOREM ClientGetReturnsStored == ASSUME Textual PROVE Spec => []GetReturnsStored
<1>1. IInv => GetReturnsStored
  BY DEF IInv, Base, GetReturned, GetReturnsStored, Returned
<1>2. QED
  BY <1>1, InvariantHolds, PTL

-----------------------------------------------------------------------------
(***************************************************************************)
(* The client implements KeyValue.                                         *)
(***************************************************************************)
\* The call that lasts, as KeyValue sees it.
Lasting == IF pc \in {"none", "idle"} THEN [name |-> "none"] ELSE op

\* There is a call unless the client is idle.
LEMMA LastingIs ==
    ASSUME IInv
    PROVE  /\ pc \in {"none", "idle"} => Lasting = Store!NoCall
           /\ pc \notin {"none", "idle"} => Lasting = op /\ op # Store!NoCall
           /\ op \in Calls
<1>1. op \in Calls
  BY DEF IInv, Base, StateTypeOK
<1>2. op.name # "none"
  BY <1>1, CallIs
<1>3. op # [name |-> "none"]
  BY <1>2
<1>4. QED
  BY <1>1, <1>3 DEF Lasting, Store!NoCall

\* Each call has the request it came with among those of the sequence.
LEMMA CallsOfMore ==
    ASSUME NEW s \in Seq(Requests), NEW t \in Seq(Requests),
           \A j \in 1..Len(t) : \E k \in 1..Len(s) : t[j] = s[k]
    PROVE  CallsOf(t) \subseteq CallsOf(s)
<1>1. DOMAIN s = 1..Len(s) /\ DOMAIN t = 1..Len(t)
  OBVIOUS
<1>2. QED
  BY <1>1, Zenon DEF CallsOf

\* The calls of two sequences.
LEMMA CallsOfBoth ==
    ASSUME NEW s \in Seq(Requests), NEW t \in Seq(Requests)
    PROVE  CallsOf(s \o t) = CallsOf(s) \cup CallsOf(t)
<1> DEFINE u == s \o t
<1>1. /\ u \in Seq(Requests) /\ Len(u) = Len(s) + Len(t)
      /\ \A k \in 1..Len(s) : u[k] = s[k]
      /\ \A k \in 1..Len(t) : u[Len(s) + k] = t[k]
  BY Concat
<1> HIDE DEF u
<1>2. DOMAIN s = 1..Len(s) /\ DOMAIN t = 1..Len(t) /\ DOMAIN u = 1..Len(u)
  BY <1>1
<1>3. Len(s) \in Nat /\ Len(t) \in Nat
  OBVIOUS
<1>4. \A j \in 1..Len(u) : \/ \E k \in 1..Len(s) : u[j] = s[k]
                           \/ \E k \in 1..Len(t) : u[j] = t[k]
  <2>1. TAKE j \in 1..Len(u)
  <2>2. CASE j <= Len(s)
    <3>1. j \in 1..Len(s)
      BY <1>3, <2>2
    <3>2. QED
      BY <1>1, <3>1
  <2>3. CASE j > Len(s)
    <3>1. j - Len(s) \in 1..Len(t) /\ Len(s) + (j - Len(s)) = j
      BY <1>1, <1>3, <2>3
    <3>2. QED
      BY <1>1, <3>1
  <2>4. QED
    BY <1>3, <2>2, <2>3
<1>5. /\ \A k \in 1..Len(s) : k \in 1..Len(u)
      /\ \A k \in 1..Len(t) : Len(s) + k \in 1..Len(u)
  BY <1>1, <1>3
<1>6. CallsOf(u) \subseteq CallsOf(s) \cup CallsOf(t)
  BY <1>2, <1>4, Zenon DEF CallsOf
<1>7. CallsOf(s) \subseteq CallsOf(u) /\ CallsOf(t) \subseteq CallsOf(u)
  <2>1. \A k \in 1..Len(s) : s[k].call \in CallsOf(u)
    <3>1. TAKE k \in 1..Len(s)
    <3>2. u[k] = s[k] /\ k \in DOMAIN u
      BY <1>1, <1>2, <1>5
    <3>3. QED
      BY <3>2, Zenon DEF CallsOf
  <2>2. \A k \in 1..Len(t) : t[k].call \in CallsOf(u)
    <3>1. TAKE k \in 1..Len(t)
    <3>2. u[Len(s) + k] = t[k] /\ Len(s) + k \in DOMAIN u
      BY <1>1, <1>2, <1>5
    <3> DEFINE m == Len(s) + k
    <3>3. u[m] = t[k] /\ m \in DOMAIN u
      BY <3>2
    <3> HIDE DEF m
    <3>4. QED
      BY <3>3, Zenon DEF CallsOf
  <2>3. QED
    BY <1>2, <2>1, <2>2, Zenon DEF CallsOf
<1>8. QED
  BY <1>6, <1>7, Zenon DEF u

\* Nobody gave up.
LEMMA CallsOfNone == CallsOf(<<>>) = {}
BY DEF CallsOf

\* What was given up is among what was sent.
LEMMA GivenUpIs ==
    ASSUME SentIs
    PROVE  /\ GivenUp \in Seq(Requests) /\ CallsOf(GivenUp) \subseteq CallsOf(requests)
           /\ requests \in Seq(Requests) /\ stray \in Seq(Requests)
           /\ ~awaiting => GivenUp = requests
<1>1. requests \in Seq(Requests) /\ stray \in Seq(Requests)
  BY DEF SentIs
<1>2. CASE ~awaiting
  BY <1>1, <1>2 DEF GivenUp
<1>3. CASE awaiting
  <2> DEFINE t == SubSeq(requests, 1, Len(requests) - 1)
  <2>1. /\ t \in Seq(Requests)
        /\ \A j \in 1..Len(t) : j \in 1..Len(requests) /\ t[j] = requests[j]
    BY <1>1
  <2>2. GivenUp = t
    BY <1>3 DEF GivenUp
  <2> HIDE DEF t
  <2>3. CallsOf(t) \subseteq CallsOf(requests)
    BY <1>1, <2>1, CallsOfMore
  <2>4. QED
    BY <1>1, <1>3, <2>1, <2>2, <2>3
<1>4. QED
  BY <1>2, <1>3

\* Nothing is sent and nothing returns.
LEMMA SameAbandoned ==
    ASSUME UNCHANGED <<requests, stray, awaiting>>
    PROVE  Abandoned' = Abandoned
BY DEF Abandoned, GivenUp, CallsOf

\* A call that returns may leave its own request, and no other.
LEMMA ReturnAbandons ==
    ASSUME IInv, awaiting' = FALSE,
           \/ UNCHANGED stray /\ requests' \in {requests, <<>>}
           \/ stray' = stray \o requests /\ requests' = <<>>
    PROVE  /\ Abandoned' \subseteq Abandoned \cup {op}
           /\ ~awaiting /\ UNCHANGED <<requests, stray>> => Abandoned' = Abandoned
           /\ requests' = <<>> /\ UNCHANGED stray => Abandoned' \subseteq Abandoned
<1>1. /\ Abandoned = CallsOf(stray) \cup CallsOf(GivenUp)
      /\ Abandoned' = CallsOf(stray') \cup CallsOf(requests')
  BY DEF Abandoned, GivenUp, CallsOf
<1>2. /\ requests \in Seq(Requests) /\ (~awaiting => GivenUp = requests)
      /\ GivenUp \in Seq(Requests)
      /\ CallsOf(stray \o requests) = CallsOf(stray) \cup CallsOf(requests)
  BY GivenUpIs, CallsOfBoth DEF IInv, SentIs
<1>3. CallsOf(requests) \subseteq CallsOf(GivenUp) \cup {op}
  <2>1. CASE ~awaiting
    BY <1>2, <2>1
  <2>2. CASE awaiting
    <3>1. Len(requests) \in Nat \ {0} /\ requests[Len(requests)].call = op
      BY <1>2, <2>2 DEF IInv, OwnIsLast
    <3>2. /\ DOMAIN GivenUp = 1..(Len(requests) - 1)
          /\ \A k \in 1..(Len(requests) - 1) : GivenUp[k] = requests[k]
      BY <1>2, <2>2, <3>1 DEF GivenUp
    <3>3. DOMAIN requests = 1..Len(requests)
      BY <1>2
    <3>4. ASSUME NEW k \in DOMAIN requests
          PROVE  requests[k].call \in CallsOf(GivenUp) \cup {op}
      <4>1. CASE k = Len(requests)
        BY <3>1, <4>1
      <4>2. CASE k # Len(requests)
        <5>1. k \in 1..(Len(requests) - 1)
          BY <3>1, <3>3, <4>2
        <5>2. k \in DOMAIN GivenUp /\ GivenUp[k] = requests[k]
          BY <3>2, <5>1
        <5>3. QED
          BY <5>2, Zenon DEF CallsOf
      <4>3. QED
        BY <4>1, <4>2
    <3>5. QED
      BY <3>4, Zenon DEF CallsOf
  <2>3. QED
    BY <2>1, <2>2
<1>4. QED
  BY <1>1, <1>2, <1>3, CallsOfNone

\* The requests of the client go where those of the clients before it are.
LEMMA NewClientAbandons ==
    ASSUME IInv, pc \in {"none", "idle"}, requests' = <<>>, stray' = stray \o requests,
           UNCHANGED awaiting
    PROVE  Abandoned' = Abandoned
<1>1. awaiting = FALSE /\ requests \in Seq(Requests) /\ stray \in Seq(Requests)
  BY DEF IInv, SentIs, OwnIsLast
<1>2. Abandoned = CallsOf(stray) \cup CallsOf(requests)
  BY <1>1 DEF Abandoned, GivenUp
<1>3. Abandoned' = CallsOf(stray \o requests) \cup CallsOf(<<>>)
  BY <1>1 DEF Abandoned, GivenUp, CallsOf
<1>4. QED
  BY <1>1, <1>2, <1>3, CallsOfBoth, CallsOfNone

\* A request that is sent is awaited.
LEMMA SendAbandons ==
    ASSUME IInv, Send
    PROVE  Abandoned' = Abandoned
<1> DEFINE q == [call |-> op, bytes |-> sendBuf.data]
<1>1. /\ pc = "send" /\ awaiting' = TRUE /\ UNCHANGED stray
      /\ requests' = Append(requests, q)
  BY DEF Send
<1> HIDE DEF q
<1>2. awaiting = FALSE /\ requests \in Seq(Requests)
  BY <1>1 DEF IInv, SentIs, OwnIsLast
<1>3. SubSeq(requests', 1, Len(requests') - 1) = requests
  BY <1>1, <1>2
<1>4. GivenUp' = requests /\ GivenUp = requests
  BY <1>1, <1>2, <1>3 DEF GivenUp
<1>5. QED
  BY <1>1, <1>4 DEF Abandoned, CallsOf

\* The server executes the request of the call that lasts, or one that was given up.
LEMMA ExecuteAbandons ==
    ASSUME IInv, Execute
    PROVE  /\ Abandoned' \subseteq Abandoned
           /\ OwnIsNext => Abandoned' = Abandoned /\ Head(requests).call = op
           /\ ~OwnIsNext => Head(requests).call \in Abandoned
<1> DEFINE c == Head(requests).call
<1>1. /\ requests # <<>> /\ requests' = Tail(requests) /\ UNCHANGED stray
      /\ awaiting' = (awaiting /\ ~OwnIsNext)
  BY DEF Execute, OwnIsNext
<1>2. requests \in Seq(Requests) /\ awaiting \in BOOLEAN
  BY DEF IInv, SentIs
<1>3. /\ requests' \in Seq(Requests) /\ Len(requests) \in Nat \ {0}
      /\ Len(requests') = Len(requests) - 1
      /\ \A i \in 1..Len(requests') : requests'[i] = requests[i + 1]
      /\ Head(requests) = requests[1]
  BY <1>1, <1>2
<1>4. /\ GivenUp \in Seq(Requests) /\ (~awaiting => GivenUp = requests)
      /\ awaiting => /\ Len(GivenUp) = Len(requests) - 1
                     /\ \A k \in 1..(Len(requests) - 1) : GivenUp[k] = requests[k]
  <2>1. GivenUp \in Seq(Requests)
    BY GivenUpIs DEF IInv
  <2>2. QED
    BY <1>2, <1>3, <2>1 DEF GivenUp
<1>5. /\ GivenUp' \in Seq(Requests) /\ (~awaiting' => GivenUp' = requests')
      /\ awaiting' => /\ Len(GivenUp') = Len(requests') - 1
                      /\ \A k \in 1..(Len(requests') - 1) : GivenUp'[k] = requests'[k]
  <2>1. CASE ~awaiting'
    BY <1>3, <2>1 DEF GivenUp
  <2>2. CASE awaiting'
    <3>1. Len(requests) # 1
      BY <1>1, <2>2 DEF OwnIsNext
    <3>2. Len(requests') \in Nat \ {0}
      BY <1>3, <3>1
    <3>3. GivenUp' = SubSeq(requests', 1, Len(requests') - 1)
      BY <2>2 DEF GivenUp
    <3>4. QED
      BY <1>3, <2>2, <3>2, <3>3
  <2>3. QED
    BY <2>1, <2>2
<1>6. /\ Abandoned = CallsOf(stray) \cup CallsOf(GivenUp)
      /\ Abandoned' = CallsOf(stray) \cup CallsOf(GivenUp')
  BY <1>1 DEF Abandoned, CallsOf
<1>7. CASE OwnIsNext
  <2>1. awaiting /\ Len(requests) = 1 /\ ~awaiting'
    BY <1>1, <1>7 DEF OwnIsNext
  <2>2. requests' = <<>> /\ GivenUp' = <<>> /\ GivenUp = <<>>
    BY <1>3, <1>4, <1>5, <2>1
  <2>3. Head(requests).call = op
    BY <1>3, <2>1 DEF IInv, OwnIsLast
  <2>4. QED
    BY <1>6, <1>7, <2>2, <2>3
<1>8. CASE ~OwnIsNext
  <2>1. /\ (awaiting' <=> awaiting) /\ (awaiting => Len(requests) >= 2)
    BY <1>1, <1>2, <1>3, <1>8 DEF OwnIsNext
  <2>2. \A j \in 1..Len(GivenUp') : j + 1 \in 1..Len(GivenUp) /\ GivenUp'[j] = GivenUp[j + 1]
    <3>1. CASE awaiting
      <4>1. /\ Len(GivenUp) = Len(requests) - 1 /\ Len(GivenUp') = Len(requests) - 2
            /\ Len(requests) \in Nat
        BY <1>3, <1>4, <1>5, <2>1, <3>1
      <4>2. ASSUME NEW j \in 1..Len(GivenUp')
            PROVE  /\ j + 1 \in 1..Len(GivenUp)
                   /\ GivenUp'[j] = requests'[j] /\ requests'[j] = requests[j + 1]
                   /\ GivenUp[j + 1] = requests[j + 1]
        <5>1. /\ j + 1 \in 1..(Len(requests) - 1) /\ j \in 1..Len(requests')
              /\ j \in 1..(Len(requests') - 1)
          BY <1>3, <4>1
        <5>2. QED
          BY <1>3, <1>4, <1>5, <2>1, <3>1, <4>1, <5>1
      <4>3. QED
        BY <4>2
    <3>2. CASE ~awaiting
      BY <1>3, <1>4, <1>5, <2>1, <3>2
    <3>3. QED
      BY <3>1, <3>2
  <2>3. CallsOf(GivenUp') \subseteq CallsOf(GivenUp)
    BY <1>4, <1>5, <2>2, CallsOfMore
  <2>4. 1 \in DOMAIN GivenUp /\ GivenUp[1] = Head(requests)
    <3>1. CASE awaiting
      BY <1>3, <1>4, <2>1, <3>1
    <3>2. CASE ~awaiting
      BY <1>3, <1>4, <3>2
    <3>3. QED
      BY <3>1, <3>2
  <2>5. Head(requests).call \in CallsOf(GivenUp)
    BY <2>4, Zenon DEF CallsOf
  <2>6. QED
    BY <1>6, <1>8, <2>3, <2>5
<1>9. QED
  BY <1>7, <1>8

\* The request of an earlier client is executed, and is gone.
LEMMA ExecuteStrayAbandons ==
    ASSUME IInv, NEW i \in DOMAIN stray, ExecuteStray(i)
    PROVE  Abandoned' \subseteq Abandoned /\ stray[i].call \in Abandoned
<1>1. /\ i \in 1..Len(stray)
      /\ stray' = SubSeq(stray, 1, i - 1) \o SubSeq(stray, i + 1, Len(stray))
      /\ UNCHANGED <<requests, awaiting>>
  BY ExecuteStrayIs, Zenon
<1>2. stray \in Seq(Requests)
  BY DEF IInv, SentIs
<1> DEFINE s == SubSeq(stray, 1, i - 1)
           t == SubSeq(stray, i + 1, Len(stray))
<1>3. /\ s \in Seq(Requests) /\ \A j \in 1..Len(s) : j \in 1..Len(stray) /\ s[j] = stray[j]
  BY <1>1, <1>2
<1>4. /\ t \in Seq(Requests)
      /\ \A j \in 1..Len(t) : i + j \in 1..Len(stray) /\ t[j] = stray[i + j]
  BY <1>1, <1>2
<1>5. stray' = s \o t
  BY <1>1
<1> HIDE DEF s, t
<1>6. CallsOf(s) \subseteq CallsOf(stray) /\ CallsOf(t) \subseteq CallsOf(stray)
  BY <1>2, <1>3, <1>4, CallsOfMore
<1>7. CallsOf(s \o t) = CallsOf(s) \cup CallsOf(t)
  BY <1>3, <1>4, CallsOfBoth
<1>8. /\ Abandoned = CallsOf(stray) \cup CallsOf(GivenUp)
      /\ Abandoned' = CallsOf(s \o t) \cup CallsOf(GivenUp)
  BY <1>1, <1>5 DEF Abandoned, GivenUp, CallsOf
<1>9. stray[i].call \in CallsOf(stray)
  BY Zenon DEF CallsOf
<1>10. QED
  BY <1>6, <1>7, <1>8, <1>9

\* Steps that the program does not see.
Unseen ==
    /\ UNCHANGED <<store, mortal, Lasting, effect, answer>>
    /\ Abandoned' \subseteq Abandoned

\* Which steps those are.
LEMMA UnseenSteps ==
    ASSUME IInv
    PROVE  /\ UNCHANGED vars => Unseen
           /\ NewClient => Unseen \/ Begin(Hello("NewClient"))
           /\ NewClientFails => Unseen
           /\ Send => Unseen
           /\ Reconnect => Unseen
           /\ Receive => Unseen
           /\ EncodeCmd => Unseen \/ \E err \in WriteErrors \ {"nil"} :
                                        Return(Result(err, <<>>))
           /\ DecodeReply => Unseen \/ \E result : Return(result)
<1>1. UNCHANGED vars => Unseen
  <2>1. SUFFICES ASSUME UNCHANGED vars PROVE Unseen
    OBVIOUS
  <2>2. Abandoned' = Abandoned
    BY <2>1, SameAbandoned DEF vars, bufVars, serverVars, wireVars, counters
  <2>3. QED
    BY <2>1, <2>2 DEF vars, bufVars, serverVars, counters, Unseen, Lasting
<1>2. NewClient => Unseen \/ Begin(Hello("NewClient"))
  <2>1. SUFFICES ASSUME NewClient, ~Begin(Hello("NewClient")) PROVE Unseen
    OBVIOUS
  <2>2. Abandoned' = Abandoned
    BY <2>1, NewClientAbandons DEF NewClient
  <2>3. QED
    BY <2>1, <2>2 DEF NewClient, Unseen, Lasting
<1>3. NewClientFails => Unseen
  <2>1. SUFFICES ASSUME NewClientFails PROVE Unseen
    OBVIOUS
  <2>2. Abandoned' = Abandoned
    BY <2>1, SameAbandoned DEF NewClientFails, serverVars, wireVars
  <2>3. QED
    BY <2>1, <2>2 DEF NewClientFails, Unseen, Lasting, serverVars
<1>4. Send => Unseen
  <2>1. SUFFICES ASSUME Send PROVE Unseen
    OBVIOUS
  <2>2. QED
    BY <2>1, SendAbandons DEF Send, Unseen, Lasting
<1>5. Reconnect => Unseen
  <2>1. SUFFICES ASSUME Reconnect PROVE Unseen
    OBVIOUS
  <2>2. Abandoned' \subseteq Abandoned
    BY <2>1, ReturnAbandons DEF Reconnect, Broken
  <2>3. QED
    BY <2>1, <2>2 DEF Reconnect, Broken, Unseen, Lasting
<1>6. Receive => Unseen
  <2>1. SUFFICES ASSUME Receive PROVE Unseen
    OBVIOUS
  <2>2. Abandoned' = Abandoned
    BY <2>1, SameAbandoned DEF Receive
  <2>3. QED
    BY <2>1, <2>2 DEF Receive, Unseen, Lasting
<1>7. EncodeCmd => Unseen \/ \E err \in WriteErrors \ {"nil"} : Return(Result(err, <<>>))
  <2>1. SUFFICES ASSUME EncodeCmd
                 PROVE  Unseen \/ \E err \in WriteErrors \ {"nil"} : Return(Result(err, <<>>))
    OBVIOUS
  <2>2. /\ pc = "encode"
        /\ UNCHANGED <<op, store, mortal, requests, stray, effect>>
        /\ \/ pc' \in {"send", "encode"} /\ UNCHANGED <<answer, awaiting>>
           \/ Return(Result("ErrUnsupportedDataType", <<>>))
           \/ Return(Result("ErrSendBufTooShort", <<>>))
    BY <2>1 DEF EncodeCmd
  <2>3. CASE pc' \in {"send", "encode"} /\ UNCHANGED <<answer, awaiting>>
    <3>1. Abandoned' = Abandoned
      BY <2>2, <2>3, SameAbandoned
    <3>2. QED
      BY <2>2, <2>3, <3>1 DEF Unseen, Lasting
  <2>4. /\ "ErrUnsupportedDataType" \in WriteErrors \ {"nil"}
        /\ "ErrSendBufTooShort" \in WriteErrors \ {"nil"}
    BY DEF WriteErrors
  <2>5. QED
    BY <2>2, <2>3, <2>4
<1>8. DecodeReply => Unseen \/ \E result : Return(result)
  <2>1. SUFFICES ASSUME DecodeReply PROVE Unseen \/ \E result : Return(result)
    OBVIOUS
  <2>2. /\ pc = "decode" /\ UNCHANGED <<op, store, mortal, requests, stray, effect>>
        /\ \/ pc' = "dead" /\ UNCHANGED <<sendBuf, answer, awaiting>>
           \/ \E result : Return(result)
    BY <2>1, Zenon DEF DecodeReply, Conclude
  <2>3. CASE pc' = "dead" /\ UNCHANGED <<sendBuf, answer, awaiting>>
    <3>1. Abandoned' = Abandoned
      BY <2>2, <2>3, SameAbandoned
    <3>2. QED
      BY <2>2, <2>3, <3>1 DEF Unseen, Lasting
  <2>4. QED
    BY <2>2, <2>3
<1>9. QED
  BY <1>1, <1>2, <1>3, <1>4, <1>5, <1>6, <1>7, <1>8

\* What DecodeReply returns is what the server has done, or no answer at all, or the
\* answer is excused.
LEMMA AnswerIsEffect ==
    ASSUME Textual, IInv, DecodeReply, NEW result, Return(result),
           ~behind, ~ReplyIsCut, answer'.err \in {"nil", "ErrNoValue"}
    PROVE  effect.err # "none" /\ answer' = effect /\ ~awaiting
<1> DEFINE r == Decode(received, "nil")
<1>1. /\ pc = "decode"
      /\ \/ r.err = "panic" /\ pc' = "dead"
         \/ \E x : Return(x) /\ Answered(r, x)
  BY DecodeReplyIs, Zenon DEF Answered
<1>2. pc' \in {"none", "idle"} /\ answer' = result
  BY ReturnIs
<1>3. PICK x : Return(x) /\ Answered(r, x)
  BY <1>1, <1>2
<1>4. x = result
  BY <1>2, <1>3, ReturnIs
<1>5. /\ effect.err # "none" /\ ~awaiting /\ received # <<>>
      /\ Len(received) <= Len(reply) /\ received = SubSeq(reply, 1, Len(received))
      /\ reply \in Seq(Symbols) /\ received \in Seq(Symbols)
      /\ reply # <<>> => Replied
  BY <1>1 DEF IInv, Base, StateTypeOK, EffectIs, ReceivedIs, InStep
<1>6. received = reply
  <2>1. Len(received) = Len(reply)
    BY <1>5 DEF ReplyIsCut
  <2>2. SubSeq(reply, 1, Len(reply)) = reply
    BY <1>5
  <2>3. QED
    BY <1>5, <2>1, <2>2
<1>7. RepliedTo(op, reply, effect) /\ r = Decode(reply, "nil")
  BY <1>5, <1>6 DEF Replied
<1> HIDE DEF r
<1>8. Told(op, effect, r)
  BY <1>7, RepliesDecode
<1>9. QED
  BY <1>2, <1>3, <1>4, <1>5, <1>8, ToldIsReturned

\* A Set takes effect.
LEMMA WrittenIsWrite ==
    ASSUME StateTypeOK, NEW c, SetKept(c)
    PROVE  c.name = "Set" /\ Store!Write(c)
<1>1. /\ c.name = "Set" /\ c.key \in Keys /\ c.duration \in Durations
      /\ store' = Updated(store, c.key, c.value)
      /\ mortal' = IF Milliseconds(c.duration) > 0 THEN mortal \cup {c.key}
                                                   ELSE mortal \ {c.key}
      /\ store \in [Keys -> Values \cup {Absent}]
  BY Zenon DEF SetKept, StateTypeOK
<1>2. store' = [store EXCEPT ![c.key] = c.value]
  BY <1>1 DEF Updated
<1>3. Milliseconds(c.duration) > 0 <=> c.duration >= 1000
  <2>1. Durations \subseteq Int
    BY ClientAssumption, Zenon
  <2>2. c.duration \in Int
    BY <1>1, <2>1
  <2>3. QED
    BY <2>2 DEF Milliseconds
<1>4. mortal' = IF c.duration >= 1000 THEN mortal \cup {c.key} ELSE mortal \ {c.key}
  BY <1>1, <1>3, ZenonT(30)
<1>5. QED
  BY <1>1, <1>2, <1>4, Zenon DEF Store!Write

\* Set, Get, a call that has nothing to do with the map, or a refusal, of the call that
\* lasts; or a Set of one that has returned, or what changes nothing.
LEMMA ExecuteIsEffect ==
    ASSUME IInv, Execute
    PROVE  Store!Next
<1> DEFINE c == Head(requests).call
<1>1. PICK bytes, result : Served(c, bytes, result) /\ Answers(bytes, result)
  BY ExecuteIs, Zenon
<1>2. UNCHANGED <<pc, op, answer>>
  BY ExecuteIs, Zenon
<1>3. Lasting' = Lasting
  BY <1>2 DEF Lasting
<1>4. /\ Abandoned' \subseteq Abandoned
      /\ OwnIsNext => Abandoned' = Abandoned /\ c = op
      /\ ~OwnIsNext => c \in Abandoned
  BY ExecuteAbandons
<1> HIDE DEF c
<1>5. StateTypeOK
  BY DEF IInv, Base
<1>6. CASE ~OwnIsNext
  <2>1. UNCHANGED <<effect, answer>>
    BY <1>1, <1>2, <1>6 DEF Answers
  <2>2. CASE SetKept(c)
    <3>1. Store!SetLate
      BY <1>3, <1>4, <1>5, <1>6, <2>1, <2>2, WrittenIsWrite, Zenon DEF Store!SetLate, Lasting
    <3>2. QED
      BY <3>1 DEF Store!Next
  <2>3. CASE UNCHANGED <<store, mortal>>
    <3>1. Store!Environment
      BY <1>3, <1>4, <2>1, <2>3 DEF Store!Environment, Lasting
    <3>2. QED
      BY <3>1 DEF Store!Next
  <2>4. QED
    BY <1>1, <2>2, <2>3 DEF Served
<1>7. CASE OwnIsNext
  <2>1. c = op /\ Abandoned' = Abandoned /\ effect' = result
    BY <1>1, <1>4, <1>7 DEF Answers
  <2>2. pc \notin {"none", "idle"}
    BY <1>7 DEF IInv, OwnIsLast, OwnIsNext
  <2>3. Lasting = op /\ Lasting' = op /\ op # Store!NoCall
    BY <1>3, <2>2, LastingIs
  <2>4. CASE SetKept(op) /\ result = OK
    <3>1. op.name = "Set" /\ Store!Write(op)
      BY <1>5, <2>4, WrittenIsWrite
    <3>2. Store!Set
      BY <1>2, <2>1, <2>3, <2>4, <3>1, Zenon
         DEF Store!Set, Store!Result, Lasting, OK, Result
    <3>3. QED
      BY <3>2 DEF Store!Next
  <2>5. CASE /\ op.name = "Get" /\ UNCHANGED <<store, mortal>>
             /\ result = IF store[op.key] = Absent THEN NoValue
                                                   ELSE Result("nil", store[op.key])
    <3>1. Store!Get
      BY <1>2, <2>1, <2>3, <2>5 DEF Store!Get, Store!Result, Lasting, NoValue, Result
    <3>2. QED
      BY <3>1 DEF Store!Next
  <2>6. CASE /\ op.name \in {"Ping", "Hello3", "NewClient"} /\ result = OK
             /\ UNCHANGED <<store, mortal>>
    <3>1. Store!Other
      BY <1>2, <2>1, <2>3, <2>6 DEF Store!Other, Store!Result, Lasting, OK, Result
    <3>2. QED
      BY <3>1 DEF Store!Next
  <2>7. CASE result = Refusal /\ UNCHANGED <<store, mortal>>
    <3>1. Store!Refuse
      BY <1>2, <2>1, <2>3, <2>7
         DEF Store!Refuse, Store!NoCall, Store!Result, Lasting, Refusal, Result
    <3>2. QED
      BY <3>1 DEF Store!Next
  <2>8. QED
    BY <1>1, <2>1, <2>4, <2>5, <2>6, <2>7 DEF Served
<1>8. QED
  BY <1>6, <1>7

\* The request of an earlier client: a Set that was given up, or nothing.
LEMMA ExecuteStrayIsEffect ==
    ASSUME IInv, NEW i \in DOMAIN stray, ExecuteStray(i)
    PROVE  Store!Next
<1> DEFINE c == stray[i].call
<1>1. /\ SetKept(c) \/ UNCHANGED <<store, mortal>>
      /\ UNCHANGED <<pc, op, answer, effect>>
  BY ExecuteStrayIs, Zenon
<1>2. Abandoned' \subseteq Abandoned /\ c \in Abandoned
  BY ExecuteStrayAbandons
<1> HIDE DEF c
<1>3. StateTypeOK
  BY DEF IInv, Base
<1>4. Lasting' = Lasting
  BY <1>1 DEF Lasting
<1>5. CASE SetKept(c)
  <2>1. Store!SetLate
    BY <1>1, <1>2, <1>3, <1>4, <1>5, WrittenIsWrite, Zenon DEF Store!SetLate, Lasting
  <2>2. QED
    BY <2>1 DEF Store!Next
<1>6. CASE UNCHANGED <<store, mortal>>
  <2>1. Store!Environment
    BY <1>1, <1>2, <1>4, <1>6 DEF Store!Environment, Lasting
  <2>2. QED
    BY <2>1 DEF Store!Next
<1>7. QED
  BY <1>1, <1>5, <1>6

\* The call begins.
LEMMA BeginInvokes ==
    ASSUME IInv, NEW c \in Calls, Begin(c), pc \in {"none", "idle"},
           UNCHANGED <<store, mortal, answer>>, Abandoned' = Abandoned
    PROVE  Store!Invoke
<1>1. Lasting = Store!NoCall
  BY LastingIs
<1>2. Lasting' = c /\ effect' = Store!NoEffect
  BY DEF Begin, Lasting, Store!NoEffect, Result
<1>3. QED
  BY <1>1, <1>2 DEF Store!Invoke, Lasting

\* The call returns.
LEMMA ReturnAnswers ==
    ASSUME IInv, NEW result, Return(result), pc \notin {"none", "idle"},
           UNCHANGED <<store, mortal, effect>>,
           \/ UNCHANGED stray /\ requests' \in {requests, <<>>}
           \/ stray' = stray \o requests /\ requests' = <<>>,
           \/ /\ effect.err # "none" /\ answer' = effect /\ ~awaiting
              /\ UNCHANGED <<requests, stray>>
           \/ behind \/ ReplyIsCut \/ answer'.err \notin {"nil", "ErrNoValue"}
    PROVE  Store!Answer
<1>1. Lasting # Store!NoCall /\ Lasting = op
  BY LastingIs
<1>2. Lasting' = Store!NoCall
  BY ReturnIs DEF Lasting, Store!NoCall
<1>3. effect.err # "none" => effect # Store!NoEffect
  BY DEF Store!NoEffect
<1>4. /\ Abandoned' \subseteq Abandoned \cup {Lasting}
      /\ ~awaiting /\ UNCHANGED <<requests, stray>> => Abandoned' = Abandoned
  <2>1. awaiting' = FALSE
    BY DEF Return
  <2>2. QED
    BY <1>1, <2>1, ReturnAbandons
<1>5. QED
  BY <1>1, <1>2, <1>3, <1>4, Zenon DEF Store!Answer, Lasting

\* Each step of the client is a step of KeyValue.
LEMMA StepIsOfStore ==
    ASSUME Textual, IInv, [Next]_vars
    PROVE  Store!Next
<1>1. ASSUME Unseen PROVE Store!Next
  BY <1>1 DEF Unseen, Lasting, Store!Next, Store!Environment
<1>2. Hello("NewClient") \in Calls
  BY DEF Calls
<1>3. CASE NewClient
  <2>1. ASSUME Begin(Hello("NewClient")) PROVE Store!Invoke
    <3>1. pc \in {"none", "idle"} /\ UNCHANGED <<store, mortal, answer>>
      BY <1>3 DEF NewClient
    <3>2. Abandoned' = Abandoned
      BY <1>3, NewClientAbandons DEF NewClient
    <3>3. QED
      BY <1>2, <2>1, <3>1, <3>2, BeginInvokes
  <2>2. QED
    BY <1>1, <1>3, <2>1, UnseenSteps DEF Store!Next
<1>4. CASE Call
  <2>1. PICK c \in Calls : Begin(c)
    BY <1>4 DEF Call
  <2>2. Store!Invoke
    <3>1. pc \in {"none", "idle"} /\ UNCHANGED <<store, mortal, answer>>
      BY <1>4 DEF Call
    <3>2. Abandoned' = Abandoned
      BY <1>4, SameAbandoned DEF Call
    <3>3. QED
      BY <2>1, <3>1, <3>2, BeginInvokes
  <2>3. QED
    BY <2>2 DEF Store!Next
<1>5. CASE EncodeCmd
  <2>1. ASSUME NEW err \in WriteErrors \ {"nil"}, Return(Result(err, <<>>))
        PROVE  Store!Answer
    <3>1. /\ pc \notin {"none", "idle"}
          /\ UNCHANGED <<store, mortal, effect, stray, requests>>
      BY <1>5 DEF EncodeCmd
    <3>2. answer'.err \notin {"nil", "ErrNoValue"}
      BY <2>1 DEF Return, Result, WriteErrors
    <3>3. QED
      BY <2>1, <3>1, <3>2, ReturnAnswers
  <2>2. QED
    BY <1>1, <1>5, <2>1, UnseenSteps DEF Store!Next
<1>6. CASE GiveUp
  <2>1. /\ pc \notin {"none", "idle"} /\ UNCHANGED <<store, mortal, effect>>
        /\ Return(Result("other", <<>>))
        /\ \/ UNCHANGED stray /\ requests' \in {requests, <<>>}
           \/ stray' = stray \o requests /\ requests' = <<>>
    BY <1>6 DEF GiveUp, Broken, TooLong
  <2>2. answer'.err \notin {"nil", "ErrNoValue"}
    BY <2>1 DEF Return, Result
  <2>3. Store!Answer
    BY <2>1, <2>2, ReturnAnswers
  <2>4. QED
    BY <2>3 DEF Store!Next
<1>7. CASE DecodeReply
  <2>1. ASSUME NEW result, Return(result) PROVE Store!Answer
    <3>1. /\ pc \notin {"none", "idle"}
          /\ UNCHANGED <<store, mortal, effect, stray, requests>>
      BY <1>7, Zenon DEF DecodeReply, Conclude
    <3>2. ~behind /\ ~ReplyIsCut /\ answer'.err \in {"nil", "ErrNoValue"}
              => effect.err # "none" /\ answer' = effect /\ ~awaiting
      BY <1>7, <2>1, AnswerIsEffect
    <3>3. QED
      BY <2>1, <3>1, <3>2, ReturnAnswers
  <2>2. QED
    BY <1>1, <1>7, <2>1, UnseenSteps DEF Store!Next
<1>8. CASE Execute
  BY <1>8, ExecuteIsEffect
<1>9. CASE Expire
  <2>1. Abandoned' = Abandoned
    BY <1>9, SameAbandoned DEF Expire, wireVars
  <2>2. Store!Expire
    BY <1>9, <2>1 DEF Expire, Store!Expire
  <2>3. QED
    BY <2>2 DEF Store!Next
<1>10. CASE NewClientFails \/ Send \/ Reconnect \/ Receive \/ UNCHANGED vars
  BY <1>1, <1>10, UnseenSteps
<1>11. CASE \E i \in DOMAIN stray : ExecuteStray(i)
  BY <1>11, ExecuteStrayIsEffect
<1>12. QED
  BY <1>3, <1>4, <1>5, <1>6, <1>7, <1>8, <1>9, <1>10, <1>11 DEF Next

\* What the program sees is a map from keys to values, however the client, the
\* connection and the server take turns, as long as no value has a byte in it that
\* ends a line: a Set is written while its call lasts, or later if the call was given
\* up, and never for another reason; and on a connection that owed nothing a whole
\* reply is answered with what the server did.
THEOREM ClientActsAsStore == ASSUME Textual PROVE Spec => ActsAsStore
<1>1. Init => Store!Init
  BY CallsOfNone DEF Init, Store!Init, Store!NoCall, Store!NoEffect, Result, Abandoned, GivenUp
<1>2. IInv /\ [Next]_vars => [Store!Next]_(Store!vars)
  BY StepIsOfStore
<1>3. QED
  BY <1>1, <1>2, InvariantHolds, PTL DEF Spec, ActsAsStore, Store!Spec
=============================================================================

----------------------------- MODULE MCClient ------------------------------
(***************************************************************************)
(* Instances of Client for TLC.                                            *)
(***************************************************************************)
EXTENDS Client

AKey == {<<"k">>}

\* A value is empty, short, holds a byte that means something in RESP, or is of
\* a type that Encode refuses.
TextValues == {<<>>, <<"a">>, <<"$", "LF">>, Unsupported}

\* With these bytes a value is not text.
BinaryValues == {<<"a">>, <<"CR", "a">>, <<"a", "CR", "LF">>}

\* For ever, half a millisecond, two milliseconds.
SomeDurations == {0, 500, 2000}
Forever == {0}

\* What a program writes: the rest is zero, which asks for the default.
Written(protoVersion, retries, min, max) ==
    [ProtoVersion |-> protoVersion, RetryAmount |-> retries, KeepAliveIdle |-> 0,
     KeepAliveInterval |-> 0, KeepAliveCheckAmount |-> 0,
     SendBufMinLen |-> min, SendBufMaxLen |-> max,
     ReceiveBufMinLen |-> 0, ReceiveBufMaxLen |-> 0, PollingTimeout |-> 0]

\* A buffer that grows up to the longest command but one; limits that
\* contradict each other.
SomeOptions == {Written(0, 0, 4, 38), Written(2, 1, 20, 10)}

=============================================================================

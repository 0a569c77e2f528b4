------------------------------ MODULE Options ------------------------------
(***************************************************************************)
(* options/options.go: the parameters of a client and InitOptions, which   *)
(* NewClient calls on the caller's own Options to replace what is missing  *)
(* or senseless by defaults.  Times are in milliseconds.                   *)
(***************************************************************************)
EXTENDS Integers

KB == 1024
MB == 1024 * KB

\* The fields of struct Options that InitOptions looks at.
Options == [ProtoVersion : Int, RetryAmount : Int, KeepAliveIdle : Int,
            KeepAliveInterval : Int, KeepAliveCheckAmount : Int,
            SendBufMinLen : Int, SendBufMaxLen : Int,
            ReceiveBufMinLen : Int, ReceiveBufMaxLen : Int,
            PollingTimeout : Int]

\* "if o.F <= 0 { o.F = default }"
orDefault(value, default) == IF value <= 0 THEN default ELSE value

MinLen == 8 * KB
MaxLen == 100 * MB

\* Mutant: limits that contradict each other are kept.
bufLimits_Kept(min, max) ==
    [min |-> orDefault(min, MinLen), max |-> orDefault(max, MaxLen)]

\* The limits of a buffer: a minimum above the maximum, each after its own
\* default, replaces both.
bufLimits(min, max) ==
    IF orDefault(min, MinLen) > orDefault(max, MaxLen)
    THEN [min |-> MinLen, max |-> MaxLen]
    ELSE [min |-> orDefault(min, MinLen), max |-> orDefault(max, MaxLen)]

attempts(retries) == orDefault(retries, 3) + 1

InitOptions(o) ==
    LET send == bufLimits(o.SendBufMinLen, o.SendBufMaxLen)
        recv == bufLimits(o.ReceiveBufMinLen, o.ReceiveBufMaxLen)
    IN  [ProtoVersion |-> IF o.ProtoVersion < 2 \/ o.ProtoVersion > 3
                          THEN 3 ELSE o.ProtoVersion,
         RetryAmount |-> attempts(o.RetryAmount),
         KeepAliveIdle |-> orDefault(o.KeepAliveIdle, 300),
         KeepAliveInterval |-> orDefault(o.KeepAliveInterval, 60),
         KeepAliveCheckAmount |-> orDefault(o.KeepAliveCheckAmount, 5),
         SendBufMinLen |-> send.min, SendBufMaxLen |-> send.max,
         ReceiveBufMinLen |-> recv.min, ReceiveBufMaxLen |-> recv.max,
         PollingTimeout |-> orDefault(o.PollingTimeout, 50)]

\* What the rest of the driver takes for granted (Connection!OptsAssumption).
Sound(o) ==
    /\ o.ProtoVersion \in {2, 3}
    /\ o.RetryAmount >= 2
    /\ \A n \in {o.KeepAliveIdle, o.KeepAliveInterval, o.KeepAliveCheckAmount,
                 o.SendBufMinLen, o.ReceiveBufMinLen, o.PollingTimeout} : n > 0
    /\ o.SendBufMinLen <= o.SendBufMaxLen
    /\ o.ReceiveBufMinLen <= o.ReceiveBufMaxLen

=============================================================================

------------------------------ MODULE Buffers ------------------------------
(***************************************************************************)
(* The growth of the send and receive buffers of a Connection              *)
(* (increaseSendBuf and increaseRecvBuf of internal/connection/            *)
(* connection.go, which are the same code twice): double the length if the *)
(* maximum allows it, otherwise take the maximum.                          *)
(***************************************************************************)
EXTENDS Integers

availableSpaceLen(len, max) == max - len

canIncrease(len, max) == availableSpaceLen(len, max) > 0

\* Mutant: the last growth forgets the maximum.
increasedLen_Unbounded(len, max) == len * 2

increasedLen(len, max) ==
    IF len * 2 <= max THEN len * 2 ELSE len + availableSpaceLen(len, max)

=============================================================================

---------------------------- MODULE PollService ----------------------------
(***************************************************************************)
(* What poll() promises to a connection, without goroutines, mutex, maps   *)
(* or epoll: a question about a socket that is taken gets one answer, nil  *)
(* only while the socket is ready for it, an error only while the socket   *)
(* is broken, and it does get an answer once it is either.                 *)
(***************************************************************************)
CONSTANT Fd

VARIABLES
    stage,      \* of the question about each socket
    outcome,    \* the last answer to anybody: "nil" or "error"
    ready,      \* is each socket ready for what it is asked (environment)
    broken      \* has its connection failed (environment)

vars == <<stage, outcome, ready, broken>>

Init == stage = [fd \in Fd |-> "idle"] /\ outcome = "nil"

Move(fd, from, to) == stage[fd] = from /\ stage' = [stage EXCEPT ![fd] = to]

Ask(fd) == Move(fd, "idle", "asked") /\ outcome' = "nil"

\* The poller does not take the question.
Reject(fd) == Move(fd, "asked", "idle") /\ outcome' = "error"

Accept(fd) == Move(fd, "asked", "accepted") /\ UNCHANGED outcome

Answer(fd) ==
    /\ Move(fd, "accepted", "idle")
    /\ \/ ready[fd] /\ outcome' = "nil"
       \/ broken[fd] /\ outcome' = "error"

Environment == UNCHANGED <<stage, outcome>>

Next == Environment \/ \E fd \in Fd : Ask(fd) \/ Reject(fd) \/ Accept(fd) \/ Answer(fd)

Answered ==
    \A fd \in Fd : stage[fd] = "accepted" /\ (ready[fd] \/ broken[fd]) ~> stage[fd] = "idle"

\* Without the last promise, that there is an answer.
Safety == Init /\ [][Next]_vars

Spec == Safety /\ Answered

=============================================================================

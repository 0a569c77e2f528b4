--------------------------- MODULE CommandService --------------------------
(***************************************************************************)
(* What a Connection promises to the goroutines that share it, without     *)
(* buffers, sockets or retries: commands are served one at a time, and     *)
(* each gets one answer, decided once, before it leaves.                   *)
(*                                                                         *)
(* Answers says what an answer may be: "own", the entire reply to the      *)
(* command; "cut", a part of it; "foreign", (a part of) the reply to       *)
(* another command; "error".                                               *)
(***************************************************************************)
CONSTANTS G, Answers

VARIABLES
    phase,      \* where the command of each goroutine is
    answer      \* what it will return: "none" until it is decided

vars == <<phase, answer>>

TypeOK ==
    /\ phase \in [G -> {"idle", "waiting", "active", "dead"}]
    /\ answer \in [G -> Answers \cup {"none"}]

Init == phase = [g \in G |-> "idle"] /\ answer = [g \in G |-> "none"]

Move(g, from, to) == phase[g] = from /\ phase' = [phase EXCEPT ![g] = to]

Call(g) == Move(g, "idle", "waiting") /\ UNCHANGED answer

\* The context ends while the connection serves others.
Abandon(g) == Move(g, "waiting", "idle") /\ UNCHANGED answer

Enter(g) ==
    /\ \A h \in G : phase[h] # "active"
    /\ Move(g, "waiting", "active")
    /\ UNCHANGED answer

Decide(g) ==
    /\ phase[g] = "active" /\ answer[g] = "none"
    /\ \E a \in Answers : answer' = [answer EXCEPT ![g] = a]
    /\ UNCHANGED phase

Leave(g) ==
    /\ answer[g] # "none"
    /\ Move(g, "active", "idle")
    /\ answer' = [answer EXCEPT ![g] = "none"]

\* The process ends.
Crash == phase' = [g \in G |-> "dead"] /\ UNCHANGED answer

Next ==
    \/ \E g \in G : Call(g) \/ Abandon(g) \/ Enter(g) \/ Decide(g) \/ Leave(g)
    \/ Crash

Spec == Init /\ [][Next]_vars

=============================================================================

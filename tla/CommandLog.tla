----------------------------- MODULE CommandLog ----------------------------
(***************************************************************************)
(* Connection with a history variable: what the server has executed on     *)
(* each connection.  A command whose connection breaks while its reply is  *)
(* awaited is sent again (the branch ErrConnectionClosed of receive()), so *)
(* that "executed" is not the same as "answered".                          *)
(***************************************************************************)
EXTENDS Connection

VARIABLES
    executed,   \* the commands executed on the connection of each descriptor
    lingering   \* the connections that the client has closed with bytes on their
                \* way to the server: what the server has not read and has executed

logVars == <<vars, executed, lingering>>

\* The server executes the command at the head of what fd has received: of
\* all steps only this one takes bytes from a connection that stays up.
Executes(fd) == kernel'[fd] = "up" /\ Len(inbox'[fd]) < Len(inbox[fd])

\* Close or reconnect() closes a live connection (c.socket): close(2) still delivers
\* what the kernel has taken.  Of a connection that the server has closed or
\* reset, nothing is left to deliver.
Leaves(fd) ==
    kernel[fd] = "up" /\ inbox[fd] # <<>> /\ kernel'[fd] \in {"closed", "fresh"}

LogInit == Init /\ executed = [fd \in Fd |-> <<>>] /\ lingering = <<>>

\* A step of the connection.  A descriptor that is closed, or taken again, is
\* another connection.
ConnectionStep ==
    /\ Next
    /\ executed' = [fd \in Fd |->
                      IF kernel'[fd] \in {"closed", "fresh"} THEN <<>>
                      ELSE IF Executes(fd) THEN Append(executed[fd], Head(inbox[fd]).id)
                      ELSE executed[fd]]
    /\ \/ /\ \A fd \in Fd : ~Leaves(fd)
          /\ UNCHANGED lingering
       \/ \E fd \in Fd :
             /\ Leaves(fd)
             /\ lingering' =
                   Append(lingering, [unread |-> inbox[fd], executed |-> executed[fd]])

\* The server executes a command of a connection that the client has closed: the
\* reply finds nobody.
ExecuteLate(i) ==
    LET bytes == lingering[i].unread
        first == Head(bytes)
    IN  /\ bytes # <<>> /\ Len(bytes) >= first.of
        /\ SubSeq(bytes, 1, first.of) = Request([id |-> first.id, len |-> first.of])
        /\ lingering' = [lingering EXCEPT ![i] =
                           [unread |-> SubSeq(bytes, first.of + 1, Len(bytes)),
                            executed |-> Append(@.executed, first.id)]]
        /\ UNCHANGED <<vars, executed>>

LogNext == ConnectionStep \/ \E i \in DOMAIN lingering : ExecuteLate(i)

LogSpec == LogInit /\ [][LogNext]_logVars

-----------------------------------------------------------------------------
(***************************************************************************)
(* Properties.                                                             *)
(***************************************************************************)

\* "send again through the new socket" (connection.go, receive): a command is
\* executed twice only on two connections, never on one, and not on one either
\* that the client has closed meanwhile.
OncePerConnection ==
    \A history \in {executed[fd] : fd \in Fd}
                    \cup {lingering[i].executed : i \in DOMAIN lingering} :
        \A i, j \in DOMAIN history : history[i] = history[j] => i = j

Awaited(id) == \E g \in G : Inside(g) /\ cmd[g].id = id

\* A command is executed while its caller waits for it: what has returned, be it
\* with an error, has no effect later, neither on the connection in use nor on one
\* that was replaced.  (Nobody cancels, no poll times out and nobody calls Close
\* in the run: after each of these a command may be executed that has failed.)
NothingLate ==
    [][/\ \A fd \in Fd : Executes(fd) => Awaited(Head(inbox[fd]).id)
       /\ \A i \in DOMAIN lingering :
             lingering'[i] # lingering[i] => Awaited(Head(lingering[i].unread).id)]_logVars

=============================================================================

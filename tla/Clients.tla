------------------------------ MODULE Clients ------------------------------
(***************************************************************************)
(* Two clients in one process, A (Connection) and B.  They have nothing in *)
(* common but the kernel's table of descriptors: a number that one of them *)
(* closes is the next one that the other may get from socket(2), and the   *)
(* messenger of a client keeps the number of its old socket until          *)
(* reconnect() has succeeded.                                              *)
(*                                                                         *)
(* Commands are numbered by the one counter "calls".  socket(2) does not   *)
(* fail, so that c.socket is never nil, and nobody calls Close.            *)
(***************************************************************************)
EXTENDS Connection

CONSTANT H      \* goroutines of client B

ASSUME ClientsAssumption ==
    /\ G \cap H = {}
    /\ Faults \cap {"noFd", "userClose"} = {}

VARIABLES pcB, cmdB, ctxDoneB, sendRetriesB, recvRetriesB, connRetriesB, retB, errB,
          replyB, processingB, socketB, msgrFdB, sendBufB, recvBufB,
          owner,        \* history: the client that called each command
          stranded      \* history: the clients of which a reconnect() has failed

varsA == <<pc, cmd, ctxDone, retryVars, outVars, connVars, bufVars>>
varsB == <<pcB, cmdB, ctxDoneB, sendRetriesB, recvRetriesB, connRetriesB, retB, errB,
           replyB, processingB, socketB, msgrFdB, sendBufB, recvBufB>>
clientsVars == <<vars, varsB, owner, stranded>>

B == INSTANCE Connection WITH
    G <- H, pc <- pcB, cmd <- cmdB, ctxDone <- ctxDoneB, sendRetries <- sendRetriesB,
    recvRetries <- recvRetriesB, connRetries <- connRetriesB, ret <- retB, err <- errB,
    reply <- replyB, processing <- processingB, socket <- socketB, msgrFd <- msgrFdB,
    sendBuf <- sendBufB, recvBuf <- recvBufB

\* reconnect() has closed the old socket and returns the error of connect().
Strands(oldPc, newPc, caller, newErr) ==
    /\ oldPc \in ConnLabels /\ newPc = "clear"
    /\ caller \in {"send", "resend", "trunc"} /\ newErr # "ErrRecvBufTooShort"

StepA ==
    /\ \E g \in G :
          /\ Start(g) \/ Cancel(g) \/ Step(g)
          /\ stranded' = IF Strands(pc[g], pc'[g], ret[g], err'[g])
                         THEN stranded \cup {"A"} ELSE stranded
    /\ owner' = IF calls' # calls THEN Append(owner, "A") ELSE owner
    /\ UNCHANGED varsB

StepB ==
    /\ \E h \in H :
          /\ B!Start(h) \/ B!Cancel(h) \/ B!Step(h)
          /\ stranded' = IF Strands(pcB[h], pcB'[h], retB[h], errB'[h])
                         THEN stranded \cup {"B"} ELSE stranded
    /\ owner' = IF calls' # calls THEN Append(owner, "B") ELSE owner
    /\ UNCHANGED varsA

PeerStep ==
    /\ \E fd \in Fd : Peer(fd)
    /\ UNCHANGED <<varsB, owner, stranded>>

ClientsInit ==
    /\ NewConnector /\ B!NewConnector /\ socket # socketB
    /\ kernel = [fd \in Fd |-> IF fd \in {socket, socketB} THEN "up" ELSE "closed"]
    /\ noBytes
    /\ owner = <<>> /\ stranded = {}

ClientsNext == StepA \/ StepB \/ PeerStep

ClientsSpec == ClientsInit /\ [][ClientsNext]_clientsVars

-----------------------------------------------------------------------------
(***************************************************************************)
(* Properties.                                                             *)
(***************************************************************************)

\* However often both reconnect, and whether connect() succeeds or fails, each
\* open number is the socket of one client: no client closes the other's socket
\* or loses its own.
NumbersApart ==
    /\ socket # socketB
    /\ \A fd \in Fd : kernel[fd] # "closed" => fd \in {socket, socketB}

BytesOf(client, fd) ==
    \A i \in DOMAIN inbox[fd] : owner[inbox[fd][i].id] = client

\* Until a reconnect() of a client has failed, none of its commands reaches the
\* connection of the other, although the numbers of their sockets change hands.
\* (After a failure its messenger keeps a number that the other may get.)
NoCrossTalk ==
    /\ "A" \notin stranded => BytesOf("B", socketB)
    /\ "B" \notin stranded => BytesOf("A", socket)

=============================================================================

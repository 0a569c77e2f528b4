---------------------------- MODULE ClientsProofs -----------------------------
(***************************************************************************)
(* Two clients share the kernel's table of descriptors: for any number of  *)
(* goroutines, descriptors and commands, neither closes or loses the       *)
(* socket of the other, and none of its commands reaches the connection of *)
(* the other until a reconnect() has failed.                               *)
(*                                                                         *)
(* A theorem about one client cannot be cited for the other, which is an   *)
(* instance; the lemmas about the steps of a client are stated twice.      *)
(***************************************************************************)
EXTENDS Clients, ConnectionProofs

-----------------------------------------------------------------------------
(***************************************************************************)
(* What a step of a client may do with the table of descriptors: nothing,  *)
(* change the state of its own socket, or close it and take a number that  *)
(* is then closed.  The socket goes from s to s1, the kernel from k to k1, *)
(* and what was sent from in to in1.                                       *)
(***************************************************************************)
Table == [Fd -> State]

Stays(s, s1, k, k1) == s1 = s /\ k1 = k

Changes(s, s1, k, k1) ==
    \E state \in State \ {"closed"} : s1 = s /\ k1 = [k EXCEPT ![s] = state]

Takes(s, s1, k, k1) ==
    /\ s1 \in Fd
    /\ s1 = s \/ k[s1] = "closed"
    /\ k1 = [k EXCEPT ![s] = "closed", ![s1] = "fresh"]

SocketMove(s, s1, k, k1) == Stays(s, s1, k, k1) \/ Changes(s, s1, k, k1) \/ Takes(s, s1, k, k1)

\* Bytes go, if at all, with the socket on which they were sent.
QuietMove(s, s1, k, k1, in, in1) ==
    \/ (Stays(s, s1, k, k1) \/ Changes(s, s1, k, k1)) /\ in1 = in
    \/ Takes(s, s1, k, k1) /\ in1 = [in EXCEPT ![s] = <<>>]

\* reconnect() takes another number: socket(2) does not fail.
LEMMA ReconnectMove ==
    ASSUME kernel \in Table, socket \in Fd, NEW g \in G, NEW caller, reconnect(g, caller)
    PROVE  QuietMove(socket, socket', kernel, kernel', inbox, inbox')
BY ClientsAssumption DEF reconnect, closeSocket, dropStreams, QuietMove, Takes, Table

LEMMA ConnectMove ==
    ASSUME kernel \in Table, socket \in Fd, NEW g \in G, Connect(g) \/ ConnectPoll(g)
    PROVE  QuietMove(socket, socket', kernel, kernel', inbox, inbox')
<1>1. UNCHANGED <<socket, inbox>>
  BY DEF Connect, ConnectPoll, streamVars
<1>2. \/ kernel' = kernel
      \/ kernel' = [kernel EXCEPT ![socket] = "connecting"]
      \/ kernel' = [kernel EXCEPT ![socket] = "fresh"]
  BY DEF Connect, ConnectPoll
<1>3. QED
  BY <1>1, <1>2 DEF QuietMove, Stays, Changes, State

LEMMA TransferMove ==
    ASSUME kernel \in Table, socket \in Fd, NEW g \in G,
           SendStep(g) \/ ReceiveStep(g), ~SendBytes(g)
    PROVE  QuietMove(socket, socket', kernel, kernel', inbox, inbox')
<1>1. CASE SendStep(g)
  <2>1. CASE SendPoll(g)
    BY <2>1, ReconnectMove DEF SendPoll, noReconnect, connVars, streamVars, QuietMove, Stays
  <2>2. CASE SendBroken(g)
    BY <2>2, ReconnectMove DEF SendBroken
  <2>3. QED
    BY <1>1, <2>1, <2>2 DEF SendStep, GiveUpSend, SendBlocked, SendNotConnected,
       SendFails, connVars, streamVars, QuietMove, Stays
<1>2. CASE ReceiveStep(g)
  <2>1. CASE ReceiveBytes(g)
    BY <2>1, ReconnectMove DEF ReceiveBytes, connVars, QuietMove, Stays
  <2>2. CASE ReceiveClosed(g)
    BY <2>2, ReconnectMove DEF ReceiveClosed
  <2>3. QED
    BY <1>2, <2>1, <2>2 DEF ReceiveStep, GiveUpReceive, ReceiveWaits, ReceiveBlocked,
       ReceiveNotConnected, ReceiveFails, ReceivePoll, connVars, streamVars, QuietMove, Stays
<1>3. QED
  BY <1>1, <1>2

LEMMA StepMove ==
    ASSUME kernel \in Table, socket \in Fd, NEW g \in G, Start(g) \/ Cancel(g) \/ Step(g)
    PROVE  \/ SendBytes(g) /\ UNCHANGED <<socket, kernel>>
           \/ QuietMove(socket, socket', kernel, kernel', inbox, inbox')
<1>1. CASE Connect(g) \/ ConnectPoll(g)
  BY <1>1, ConnectMove
<1>2. CASE SendStep(g) \/ ReceiveStep(g)
  BY <1>2, TransferMove DEF SendBytes, connVars
<1>3. CASE ~(Connect(g) \/ ConnectPoll(g) \/ SendStep(g) \/ ReceiveStep(g))
  <2>1. UNCHANGED <<socket, kernel, inbox>>
    BY <1>3 DEF Start, Cancel, Step, LeaveLoop, EnterProcess, Begin, EncodeCmd, DecodeReply,
       ClearBufs, StopProcessing, connVars, streamVars
  <2>2. QED
    BY <2>1 DEF QuietMove, Stays
<1>4. QED
  BY <1>1, <1>2, <1>3

\* The same of client B.
LEMMA ReconnectMoveB ==
    ASSUME kernel \in Table, socketB \in Fd, NEW h \in H, NEW caller, B!reconnect(h, caller)
    PROVE  QuietMove(socketB, socketB', kernel, kernel', inbox, inbox')
BY ClientsAssumption DEF B!reconnect, B!closeSocket, B!dropStreams, QuietMove, Takes, Table

LEMMA ConnectMoveB ==
    ASSUME kernel \in Table, socketB \in Fd, NEW h \in H, B!Connect(h) \/ B!ConnectPoll(h)
    PROVE  QuietMove(socketB, socketB', kernel, kernel', inbox, inbox')
<1>1. UNCHANGED <<socketB, inbox>>
  BY DEF B!Connect, B!ConnectPoll, B!streamVars
<1>2. \/ kernel' = kernel
      \/ kernel' = [kernel EXCEPT ![socketB] = "connecting"]
      \/ kernel' = [kernel EXCEPT ![socketB] = "fresh"]
  BY DEF B!Connect, B!ConnectPoll
<1>3. QED
  BY <1>1, <1>2 DEF QuietMove, Stays, Changes, State

LEMMA TransferMoveB ==
    ASSUME kernel \in Table, socketB \in Fd, NEW h \in H,
           B!SendStep(h) \/ B!ReceiveStep(h), ~B!SendBytes(h)
    PROVE  QuietMove(socketB, socketB', kernel, kernel', inbox, inbox')
<1>1. CASE B!SendStep(h)
  <2>1. CASE B!SendPoll(h)
    BY <2>1, ReconnectMoveB DEF B!SendPoll, B!noReconnect, B!connVars, B!streamVars,
       QuietMove, Stays
  <2>2. CASE B!SendBroken(h)
    BY <2>2, ReconnectMoveB DEF B!SendBroken
  <2>3. QED
    BY <1>1, <2>1, <2>2 DEF B!SendStep, B!GiveUpSend, B!SendBlocked, B!SendNotConnected,
       B!SendFails, B!connVars, B!streamVars, QuietMove, Stays
<1>2. CASE B!ReceiveStep(h)
  <2>1. CASE B!ReceiveBytes(h)
    BY <2>1, ReconnectMoveB DEF B!ReceiveBytes, B!connVars, QuietMove, Stays
  <2>2. CASE B!ReceiveClosed(h)
    BY <2>2, ReconnectMoveB DEF B!ReceiveClosed
  <2>3. QED
    BY <1>2, <2>1, <2>2 DEF B!ReceiveStep, B!GiveUpReceive, B!ReceiveWaits,
       B!ReceiveBlocked, B!ReceiveNotConnected, B!ReceiveFails, B!ReceivePoll, B!connVars,
       B!streamVars, QuietMove, Stays
<1>3. QED
  BY <1>1, <1>2

LEMMA StepMoveB ==
    ASSUME kernel \in Table, socketB \in Fd, NEW h \in H, B!Start(h) \/ B!Cancel(h) \/ B!Step(h)
    PROVE  \/ B!SendBytes(h) /\ UNCHANGED <<socketB, kernel>>
           \/ QuietMove(socketB, socketB', kernel, kernel', inbox, inbox')
<1>1. CASE B!Connect(h) \/ B!ConnectPoll(h)
  BY <1>1, ConnectMoveB
<1>2. CASE B!SendStep(h) \/ B!ReceiveStep(h)
  BY <1>2, TransferMoveB DEF B!SendBytes, B!connVars
<1>3. CASE ~(B!Connect(h) \/ B!ConnectPoll(h) \/ B!SendStep(h) \/ B!ReceiveStep(h))
  <2>1. UNCHANGED <<socketB, kernel, inbox>>
    BY <1>3 DEF B!Start, B!Cancel, B!Step, B!LeaveLoop, B!EnterProcess, B!Begin,
       B!EncodeCmd, B!DecodeReply, B!ClearBufs, B!StopProcessing, B!connVars, B!streamVars
  <2>2. QED
    BY <2>1 DEF QuietMove, Stays
<1>4. QED
  BY <1>1, <1>2, <1>3

-----------------------------------------------------------------------------
(***************************************************************************)
(* The inductive invariant: both sockets are open, too.  A number that one *)
(* client takes was closed, or its own, so that it is not the other's.     *)
(***************************************************************************)
Apart ==
    /\ kernel \in Table /\ socket \in Fd /\ socketB \in Fd
    /\ kernel[socket] # "closed" /\ kernel[socketB] # "closed"
    /\ NumbersApart

\* A step of the client whose socket is s leaves that of the other, t, alone.
LEMMA MoveKeepsApart ==
    ASSUME NEW k \in Table, NEW s \in Fd, NEW t \in Fd, NEW k1, NEW s1,
           SocketMove(s, s1, k, k1),
           s # t, k[s] # "closed", k[t] # "closed",
           \A fd \in Fd : k[fd] # "closed" => fd \in {s, t}
    PROVE  /\ k1 \in Table /\ s1 \in Fd /\ s1 # t
           /\ k1[s1] # "closed" /\ k1[t] # "closed"
           /\ \A fd \in Fd : k1[fd] # "closed" => fd \in {s1, t}
<1>1. CASE Stays(s, s1, k, k1)
  BY <1>1 DEF Stays
<1>2. CASE Changes(s, s1, k, k1)
  BY <1>2 DEF Changes, Table
<1>3. CASE Takes(s, s1, k, k1)
  BY <1>3 DEF Takes, Table, State
<1>4. QED
  BY <1>1, <1>2, <1>3 DEF SocketMove

\* The peer, the network and the kernel close no descriptor and open none.
LEMMA PeerKeepsApart ==
    ASSUME kernel \in Table, NEW fd \in Fd, Peer(fd)
    PROVE  /\ kernel' \in Table /\ socket' = socket
           /\ \A f \in Fd : kernel'[f] = "closed" <=> kernel[f] = "closed"
<1>1. socket' = socket
  BY DEF Peer, Establish, Refuse, PeerClose, PeerReset, Serve, Arrive, kernelOnly, connVars
<1>2. \/ kernel' = kernel
      \/ /\ kernel[fd] # "closed"
         /\ \E state \in State \ {"closed"} : kernel' = [kernel EXCEPT ![fd] = state]
  <2>1. {"up", "failed", "eof", "reset"} \subseteq State \ {"closed"}
    BY DEF State
  <2>2. QED
    BY <2>1 DEF Peer, Establish, Refuse, PeerClose, PeerReset, Serve, Arrive
<1>3. QED
  BY <1>1, <1>2 DEF Table

LEMMA InitApart == ClientsInit => Apart
BY DEF ClientsInit, NewConnector, B!NewConnector, Apart, Table, NumbersApart, State

LEMMA NextApart == Apart /\ [ClientsNext]_clientsVars => Apart'
<1> SUFFICES ASSUME Apart, [ClientsNext]_clientsVars PROVE Apart'
  OBVIOUS
<1>1. CASE StepA
  <2>1. socketB' = socketB /\ SocketMove(socket, socket', kernel, kernel')
    BY <1>1, StepMove DEF StepA, varsB, Apart, SocketMove, QuietMove, Stays
  <2>2. QED
    BY <2>1, MoveKeepsApart DEF Apart, NumbersApart
<1>2. CASE StepB
  <2>1. socket' = socket /\ SocketMove(socketB, socketB', kernel, kernel')
    BY <1>2, StepMoveB DEF StepB, varsA, connVars, Apart, SocketMove, QuietMove, Stays
  <2>2. QED
    BY <2>1, MoveKeepsApart DEF Apart, NumbersApart
<1>3. CASE PeerStep
  BY <1>3, PeerKeepsApart DEF PeerStep, varsB, Apart, NumbersApart
<1>4. CASE UNCHANGED clientsVars
  BY <1>4 DEF clientsVars, vars, varsB, connVars, Apart, NumbersApart
<1>5. QED
  BY <1>1, <1>2, <1>3, <1>4 DEF ClientsNext

\* Each client has a socket of its own, which is open (NewSocket, reconnect).
THEOREM ApartInvariance == ClientsSpec => []Apart
BY InitApart, NextApart, PTL DEF ClientsSpec

\* However often the clients reconnect (Socket.Close and NewSocket in reconnect()),
\* and whether their connect() succeeds or fails, no client closes the other's
\* socket, loses its own or leaves one open.
THEOREM SocketsStayApart == ClientsSpec => []NumbersApart
<1>1. Apart => NumbersApart
  BY DEF Apart
<1>2. QED
  BY <1>1, ApartInvariance, PTL

-----------------------------------------------------------------------------
(***************************************************************************)
(* Whose bytes are where.  A client sends on its messenger's descriptor,   *)
(* which is its socket except while connect() runs in reconnect() and      *)
(* after it has failed there; and a number is closed before it changes     *)
(* hands, with nothing left of what was sent on it.                        *)
(***************************************************************************)
Owns(client, id) == id \in 1..calls /\ owner[id] = client

OwnUnits(client, s) == \A i \in 1..Len(s) : Owns(client, s[i].id)

\* connect() runs in reconnect(), which goes on with ChangeSocketFd.
Replacing == {"send", "resend", "trunc"}

StrayA == \E g \in G : pc[g] \in ConnLabels /\ ret[g] \in Replacing
StrayB == \E h \in H : pcB[h] \in ConnLabels /\ retB[h] \in Replacing

SideA ==
    /\ pc \in [G -> Labels] /\ cmd \in [G -> Message]
    /\ DOMAIN ret = G /\ DOMAIN err = G /\ msgrFd \in Fd
    /\ DOMAIN sendBuf = {"len", "data", "sent"}
    /\ sendBuf.data \in Seq(Unit) /\ sendBuf.sent \in Nat
    /\ MutualExclusion
    /\ \A g \in G : pc[g] # "idle" => Owns("A", cmd[g].id)
    /\ OwnUnits("A", sendBuf.data)
    /\ "A" \in stranded \/ msgrFd = socket \/ StrayA

SideB ==
    /\ pcB \in [H -> Labels] /\ cmdB \in [H -> Message]
    /\ DOMAIN retB = H /\ DOMAIN errB = H /\ msgrFdB \in Fd
    /\ DOMAIN sendBufB = {"len", "data", "sent"}
    /\ sendBufB.data \in Seq(Unit) /\ sendBufB.sent \in Nat
    /\ B!MutualExclusion
    /\ \A h \in H : pcB[h] # "idle" => Owns("B", cmdB[h].id)
    /\ OwnUnits("B", sendBufB.data)
    /\ "B" \in stranded \/ msgrFdB = socketB \/ StrayB

Known == \A fd \in Fd : \A i \in 1..Len(inbox[fd]) : inbox[fd][i].id \in 1..calls

Shared ==
    /\ calls \in Nat /\ owner \in Seq({"A", "B"}) /\ Len(owner) = calls
    /\ inbox \in [Fd -> Seq(Unit)]
    /\ \A fd \in Fd : kernel[fd] = "closed" => inbox[fd] = <<>>
    /\ Known

ClientsInv == Apart /\ Shared /\ SideA /\ SideB /\ NoCrossTalk

\* A command that is called is its client's; the others stay whose they were.
OwnerMove(client) ==
    /\ calls' \in {calls, calls + 1}
    /\ owner' = IF calls' # calls THEN Append(owner, client) ELSE owner

LEMMA OwnersStay ==
    ASSUME Shared, NEW client \in {"A", "B"}, OwnerMove(client)
    PROVE  /\ calls' \in Nat /\ owner' \in Seq({"A", "B"}) /\ Len(owner') = calls'
           /\ 1..calls \subseteq 1..calls'
           /\ \A id \in 1..calls : owner'[id] = owner[id]
           /\ calls' = calls + 1 => calls' \in 1..calls' /\ owner'[calls'] = client
<1>1. CASE calls' = calls
  BY <1>1 DEF Shared, OwnerMove
<1>2. CASE calls' = calls + 1
  <2>1. owner' = Append(owner, client)
    BY <1>2 DEF Shared, OwnerMove
  <2>2. /\ owner' \in Seq({"A", "B"}) /\ Len(owner') = calls + 1
        /\ \A id \in 1..calls : owner'[id] = owner[id]
        /\ owner'[calls + 1] = client
    BY <2>1, AppendProperties DEF Shared
  <2>3. QED
    BY <1>2, <2>2 DEF Shared
<1>3. QED
  BY <1>1, <1>2 DEF OwnerMove

OwnsNext(client, id) == id \in 1..calls' /\ owner'[id] = client

LEMMA OwnedStays ==
    ASSUME Shared, NEW client \in {"A", "B"}, OwnerMove(client)
    PROVE  \A who, id : Owns(who, id) => OwnsNext(who, id)
BY OwnersStay DEF Owns, OwnsNext

\* The step of a client whose socket is s, and who sends on fd: what is sent to
\* the other's socket t is the other's.
SendMove(me, fd, s, s1) ==
    /\ Stays(s, s1, kernel, kernel')
    /\ kernel[fd] # "closed"
    /\ me \in stranded \/ fd = s
    /\ \E piece \in Seq(Unit) : /\ OwnUnits(me, piece)
                                /\ inbox' = [inbox EXCEPT ![fd] = @ \o piece]

LEMMA Appended ==
    ASSUME NEW s \in Seq(Unit), NEW piece \in Seq(Unit),
           NEW i \in 1..Len(s \o piece)
    PROVE  \/ i \in 1..Len(s) /\ (s \o piece)[i] = s[i]
           \/ i - Len(s) \in 1..Len(piece) /\ (s \o piece)[i] = piece[i - Len(s)]
<1>1. /\ Len(s) \in Nat /\ Len(piece) \in Nat /\ Len(s \o piece) = Len(s) + Len(piece)
      /\ (s \o piece)[i] = IF i <= Len(s) THEN s[i] ELSE piece[i - Len(s)]
  BY ConcatProperties, LenProperties
<1>2. CASE i <= Len(s)
  BY <1>1, <1>2
<1>3. CASE ~(i <= Len(s))
  BY <1>1, <1>3
<1>4. QED
  BY <1>2, <1>3

LEMMA InboxMoves ==
    ASSUME Shared, kernel \in Table, NEW me \in {"A", "B"}, OwnerMove(me),
           NEW fd \in Fd, NEW s \in Fd, NEW t \in Fd, NEW s1, s # t, kernel[t] # "closed",
           \/ SendMove(me, fd, s, s1)
           \/ QuietMove(s, s1, kernel, kernel', inbox, inbox')
    PROVE  /\ Shared'
           /\ BytesOf(me, s) => \A i \in DOMAIN inbox'[s1] : owner'[inbox'[s1][i].id] = me
           /\ me \notin stranded =>
                \A who : BytesOf(who, t) => \A i \in DOMAIN inbox'[t] : owner'[inbox'[t][i].id] = who
<1>1. /\ calls' \in Nat /\ owner' \in Seq({"A", "B"}) /\ Len(owner') = calls'
      /\ 1..calls \subseteq 1..calls'
      /\ \A id \in 1..calls : owner'[id] = owner[id]
  BY OwnersStay
<1>2. inbox \in [Fd -> Seq(Unit)] /\ \A f \in Fd : DOMAIN inbox[f] = 1..Len(inbox[f])
  BY LenProperties DEF Shared
<1>3. \A f \in Fd : \A i \in DOMAIN inbox[f] : /\ inbox[f][i].id \in 1..calls
                                             /\ owner'[inbox[f][i].id] = owner[inbox[f][i].id]
  BY <1>1, <1>2 DEF Shared, Known
<1>4. CASE QuietMove(s, s1, kernel, kernel', inbox, inbox')
  <2>1. <<>> \in Seq(Unit) /\ Len(<<>>) = 0 /\ DOMAIN <<>> = {}
    BY EmptySeq
  <2>2. /\ inbox' \in [Fd -> Seq(Unit)]
        /\ \A f \in Fd : inbox'[f] \in {inbox[f], <<>>}
        /\ inbox'[t] = inbox[t]
        /\ inbox'[s1] = <<>> \/ (s1 = s /\ inbox'[s1] = inbox[s1])
    BY <1>2, <1>4, <2>1 DEF QuietMove, Stays, Changes, Takes, Shared
  <2>3. \A f \in Fd : kernel'[f] = "closed" => inbox'[f] = <<>>
    BY <1>2, <1>4, <2>2 DEF QuietMove, Stays, Changes, Takes, Shared, Table
  <2>4. Known'
    BY <1>1, <1>2, <1>3, <2>1, <2>2 DEF Known
  <2>5. Shared'
    BY <1>1, <2>2, <2>3, <2>4 DEF Shared
  <2>6. ASSUME BytesOf(me, s)
        PROVE  \A i \in DOMAIN inbox'[s1] : owner'[inbox'[s1][i].id] = me
    <3>1. CASE inbox'[s1] = <<>>
      BY <2>1, <3>1
    <3>2. CASE s1 = s /\ inbox'[s1] = inbox[s1]
      BY <1>3, <2>6, <3>2 DEF BytesOf
    <3>3. QED
      BY <2>2, <3>1, <3>2
  <2>7. ASSUME NEW who, BytesOf(who, t)
        PROVE  \A i \in DOMAIN inbox'[t] : owner'[inbox'[t][i].id] = who
    BY <1>3, <2>2, <2>7 DEF BytesOf
  <2>8. QED
    BY <2>5, <2>6, <2>7
<1>5. CASE SendMove(me, fd, s, s1)
  <2>1. PICK piece \in Seq(Unit) : /\ OwnUnits(me, piece)
                                   /\ inbox' = [inbox EXCEPT ![fd] = inbox[fd] \o piece]
    BY <1>2, <1>5 DEF SendMove
  <2>2. inbox[fd] \o piece \in Seq(Unit)
    BY <1>2, ConcatProperties
  <2>3. inbox' \in [Fd -> Seq(Unit)] /\ \A f \in Fd : DOMAIN inbox'[f] = 1..Len(inbox'[f])
    BY <1>2, <2>1, <2>2, LenProperties
  <2>4. ASSUME NEW i \in DOMAIN inbox'[fd]
        PROVE  \/ i \in DOMAIN inbox[fd] /\ inbox'[fd][i] = inbox[fd][i]
               \/ Owns(me, inbox'[fd][i].id)
    <3>1. inbox'[fd] = inbox[fd] \o piece /\ i \in 1..Len(inbox[fd] \o piece)
      BY <1>2, <2>1, <2>3
    <3>2. CASE i \in 1..Len(inbox[fd]) /\ (inbox[fd] \o piece)[i] = inbox[fd][i]
      BY <1>2, <3>1, <3>2
    <3>3. CASE /\ i - Len(inbox[fd]) \in 1..Len(piece)
               /\ (inbox[fd] \o piece)[i] = piece[i - Len(inbox[fd])]
      <4>1. Owns(me, piece[i - Len(inbox[fd])].id)
        BY <2>1, <3>3 DEF OwnUnits
      <4>2. QED
        BY <3>1, <3>3, <4>1
    <3>4. inbox[fd] \in Seq(Unit)
      BY <1>2
    <3>5. QED
      BY <3>1, <3>2, <3>3, <3>4, Appended
  <2>5. \A i \in DOMAIN inbox'[fd] : \/ i \in DOMAIN inbox[fd] /\ inbox'[fd][i] = inbox[fd][i]
                                   \/ /\ inbox'[fd][i].id \in 1..calls
                                      /\ owner'[inbox'[fd][i].id] = me
    BY <1>1, <2>4 DEF Owns
  <2>6. \A f \in Fd \ {fd} : inbox'[f] = inbox[f]
    BY <1>2, <2>1
  <2>7. Known'
    <3>1. \A f \in Fd : \A i \in DOMAIN inbox'[f] : inbox'[f][i].id \in 1..calls'
      BY <1>1, <1>3, <2>5, <2>6
    <3>2. QED
      BY <2>3, <3>1 DEF Known
  <2>8. Shared'
    BY <1>1, <1>5, <2>3, <2>6, <2>7 DEF Shared, SendMove, Stays
  <2>9. BytesOf(me, s) => \A i \in DOMAIN inbox'[s1] : owner'[inbox'[s1][i].id] = me
    <3>1. s1 = s
      BY <1>5 DEF SendMove, Stays
    <3>2. CASE fd = s
      BY <1>3, <2>5, <3>1, <3>2 DEF BytesOf
    <3>3. CASE fd # s
      BY <1>3, <2>6, <3>1, <3>3 DEF BytesOf
    <3>4. QED
      BY <3>2, <3>3
  <2>10. me \notin stranded => inbox'[t] = inbox[t]
    BY <1>5, <2>6 DEF SendMove
  <2>11. QED
    BY <1>3, <2>8, <2>9, <2>10 DEF BytesOf
<1>6. QED
  BY <1>4, <1>5

-----------------------------------------------------------------------------
(***************************************************************************)
(* The steps of a client and what it knows of itself.                      *)
(***************************************************************************)

\* A step moves one goroutine; the flag lets it into Process alone.
ControlMove(p, p1, flag, flag1, g) ==
    \E label \in Labels :
        /\ p1 = [p EXCEPT ![g] = label]
        /\ \/ p[g] \in WorkLabels /\ label \in WorkLabels /\ flag1 = flag
           \/ p[g] \in WorkLabels /\ label = "idle" /\ flag1 = FALSE
           \/ p[g] \notin WorkLabels /\ label \notin WorkLabels /\ flag1 = flag
           \/ ~flag /\ flag1 = TRUE

LEMMA PieceOwned ==
    ASSUME NEW client, NEW s \in Seq(Unit), OwnUnits(client, s),
           NEW m \in Nat, NEW n \in 0..(Len(s) - m)
    PROVE  /\ SubSeq(s, m + 1, m + n) \in Seq(Unit)
           /\ OwnUnits(client, SubSeq(s, m + 1, m + n))
<1> DEFINE piece == SubSeq(s, m + 1, m + n)
<1>1. Len(s) \in Nat
  BY LenProperties
<1>2. m + 1 \in Nat \ {0} /\ m + n \in 0..Len(s) /\ (m + n) - (m + 1) + 1 = n
  BY <1>1
<1>3. \A i \in (m + 1)..(m + n) : s[i] \in Unit
  BY <1>1, <1>2, ElementOfSeq
<1>4. /\ piece \in Seq(Unit)
      /\ Len(piece) = IF m + 1 <= m + n THEN (m + n) - (m + 1) + 1 ELSE 0
      /\ \A i \in 1..((m + n) - (m + 1) + 1) : piece[i] = s[(m + 1) + i - 1]
  BY <1>2, <1>3, SubSeqProperties
<1> HIDE DEF piece
<1>5. Len(piece) = n /\ \A i \in 1..n : piece[i] = s[(m + 1) + i - 1] /\ (m + 1) + i - 1 \in 1..Len(s)
  BY <1>1, <1>2, <1>4
<1>6. OwnUnits(client, piece)
  BY <1>5 DEF OwnUnits
<1>7. QED
  BY <1>4, <1>6 DEF piece

LEMMA ReconnectControl ==
    ASSUME pc \in [G -> Labels], NEW g \in G, NEW caller,
           reconnect(g, caller), pc[g] \in WorkLabels
    PROVE  ControlMove(pc, pc', processing, processing', g)
BY DEF reconnect, callConnect, Fail, GoTo, ControlMove, Labels, WorkLabels, SendLabels,
   RecvLabels, ConnLabels

LEMMA ConnectControl ==
    ASSUME pc \in [G -> Labels], NEW g \in G, Connect(g) \/ ConnectPoll(g)
    PROVE  ControlMove(pc, pc', processing, processing', g)
<1>1. pc[g] \in WorkLabels /\ processing' = processing
  BY DEF Connect, ConnectPoll, WorkLabels, SendLabels, RecvLabels, ConnLabels
<1>2. \E label \in WorkLabels : pc' = [pc EXCEPT ![g] = label]
  BY DEF Connect, ConnectPoll, connected, Fail, GoTo, WorkLabels, SendLabels, RecvLabels,
     ConnLabels
<1>3. QED
  BY <1>1, <1>2 DEF ControlMove, Labels

LEMMA TransferControl ==
    ASSUME pc \in [G -> Labels], NEW g \in G, SendStep(g) \/ ReceiveStep(g)
    PROVE  ControlMove(pc, pc', processing, processing', g)
<1>1. pc[g] \in WorkLabels
  BY DEF SendStep, GiveUpSend, SendBytes, SendBlocked, SendBroken, SendNotConnected, SendFails,
     SendPoll, Sending, ReceiveStep, GiveUpReceive, ReceiveBytes, ReceiveWaits, ReceiveClosed,
     ReceiveFails, ReceivePoll, Receiving, WorkLabels, SendLabels, RecvLabels, ConnLabels
<1>2. \/ \E caller : reconnect(g, caller)
      \/ /\ processing' = processing
         /\ pc' = pc \/ \E label \in WorkLabels : pc' = [pc EXCEPT ![g] = label]
  <2>1. CASE SendStep(g)
    <3>1. CASE SendPoll(g)
      BY <3>1 DEF SendPoll, noReconnect, connVars, Fail, GoTo, WorkLabels, SendLabels,
         RecvLabels, ConnLabels
    <3>2. CASE SendBytes(g)
      BY <3>2 DEF SendBytes, connVars, GoTo, WorkLabels, SendLabels, RecvLabels, ConnLabels
    <3>3. QED
      BY <2>1, <3>1, <3>2 DEF SendStep, GiveUpSend, SendBlocked, SendBroken,
         SendNotConnected, SendFails, callConnect, connVars, Fail, GoTo, WorkLabels,
         SendLabels, RecvLabels, ConnLabels
  <2>2. CASE ReceiveStep(g)
    <3>1. CASE ReceiveBytes(g)
      BY <3>1 DEF ReceiveBytes, connVars, GoTo, WorkLabels, SendLabels, RecvLabels, ConnLabels
    <3>2. QED
      BY <2>2, <3>1 DEF ReceiveStep, GiveUpReceive, ReceiveWaits, ReceiveBlocked,
         ReceiveClosed, ReceiveNotConnected, ReceiveFails, ReceivePoll, callConnect,
         connVars, Fail, GoTo, WorkLabels, SendLabels, RecvLabels, ConnLabels
  <2>3. QED
    BY <2>1, <2>2
<1>3. CASE pc' = pc /\ processing' = processing
  BY <1>1, <1>3 DEF ControlMove, Labels
<1>4. QED
  BY <1>1, <1>2, <1>3, ReconnectControl DEF ControlMove, Labels

LEMMA StepControl ==
    ASSUME pc \in [G -> Labels], NEW g \in G, Start(g) \/ Cancel(g) \/ Step(g)
    PROVE  ControlMove(pc, pc', processing, processing', g)
<1>1. CASE Connect(g) \/ ConnectPoll(g)
  BY <1>1, ConnectControl
<1>2. CASE SendStep(g) \/ ReceiveStep(g)
  BY <1>2, TransferControl
<1>3. CASE Start(g) \/ LeaveLoop(g) \/ EnterProcess(g) \/ StopProcessing(g)
  BY <1>3 DEF Start, LeaveLoop, EnterProcess, StopProcessing, isProcessing, Return, GoTo,
     connVars, ControlMove, Labels, WorkLabels, SendLabels, RecvLabels, ConnLabels
<1>4. CASE Cancel(g)
  BY <1>4 DEF Cancel, connVars, ControlMove, Labels
<1>5. CASE Begin(g) \/ EncodeCmd(g) \/ DecodeReply(g) \/ ClearBufs(g)
  <2>1. pc[g] \in WorkLabels /\ processing' = processing
    BY <1>5 DEF Begin, EncodeCmd, DecodeReply, ClearBufs, connVars, WorkLabels, SendLabels,
       RecvLabels, ConnLabels
  <2>2. pc' = pc \/ \E label \in WorkLabels : pc' = [pc EXCEPT ![g] = label]
    BY <1>5 DEF Begin, EncodeCmd, DecodeReply, ClearBufs, Fail, GoTo, WorkLabels,
       SendLabels, RecvLabels, ConnLabels
  <2>3. QED
    BY <2>1, <2>2 DEF ControlMove, Labels
<1>6. QED
  BY <1>1, <1>2, <1>3, <1>4, <1>5 DEF Step

\* A step calls a command, or ends one, or neither.
LEMMA StepCommand ==
    ASSUME SideA, NEW g \in G, Start(g) \/ Cancel(g) \/ Step(g)
    PROVE  \/ UNCHANGED <<cmd, calls>> /\ pc[g] # "idle"
           \/ cmd' = [cmd EXCEPT ![g] = NoCmd] /\ calls' = calls /\ pc'[g] = "idle"
           \/ /\ \E len \in CmdLens : cmd' = [cmd EXCEPT ![g] = [id |-> calls + 1, len |-> len]]
              /\ calls' = calls + 1
<1>1. CASE Start(g)
  BY <1>1 DEF Start
<1>2. CASE LeaveLoop(g) \/ StopProcessing(g)
  BY <1>2 DEF LeaveLoop, StopProcessing, Return, GoTo, SideA, NoCmd
<1>3. CASE Cancel(g) \/ EnterProcess(g) \/ Begin(g) \/ EncodeCmd(g) \/ DecodeReply(g) \/ ClearBufs(g)
  BY <1>3 DEF Cancel, EnterProcess, Begin, EncodeCmd, DecodeReply, ClearBufs, localVars
<1>4. CASE SendStep(g) \/ ReceiveStep(g) \/ Connect(g) \/ ConnectPoll(g)
  <2>1. UNCHANGED <<cmd, calls>>
    BY <1>4 DEF SendStep, GiveUpSend, SendBytes, SendBlocked, SendBroken, SendNotConnected,
       SendFails, SendPoll, ReceiveStep, GiveUpReceive, ReceiveBytes, ReceiveWaits,
       ReceiveBlocked, ReceiveClosed, ReceiveNotConnected, ReceiveFails, ReceivePoll,
       Connect, ConnectPoll, localVars
  <2>2. pc[g] # "idle"
    BY <1>4 DEF SendStep, GiveUpSend, SendBytes, SendBlocked, SendBroken, SendNotConnected,
       SendFails, SendPoll, Sending, ReceiveStep, GiveUpReceive, ReceiveBytes, ReceiveWaits,
       ReceiveClosed, ReceiveFails, ReceivePoll, Receiving, Connect, ConnectPoll
  <2>3. QED
    BY <2>1, <2>2
<1>5. QED
  BY <1>1, <1>2, <1>3, <1>4 DEF Step

\* Nothing but the command that is encoded is put into the send buffer.
LEMMA StepBuffer ==
    ASSUME SideA, NEW g \in G, Start(g) \/ Cancel(g) \/ Step(g)
    PROVE  /\ DOMAIN sendBuf' = {"len", "data", "sent"} /\ sendBuf'.sent \in Nat
           /\ \/ sendBuf'.data \in {sendBuf.data, <<>>}
              \/ sendBuf'.data = sendBuf.data \o Request(cmd[g]) /\ pc[g] = "encode"
<1> USE DEF SideA
<1>1. CASE EncodeCmd(g) \/ ClearBufs(g)
  <2>1. CASE ClearBufs(g)
    BY <2>1 DEF ClearBufs, clearedSendBuf
  <2>2. CASE EncodeCmd(g)
    <3>1. /\ pc[g] = "encode"
          /\ \/ sendBuf' = [sendBuf EXCEPT !.data = sendBuf.data \o Request(cmd[g])]
             \/ \E len : sendBuf' = [sendBuf EXCEPT !.len = len]
             \/ sendBuf' = sendBuf
      BY <2>2 DEF EncodeCmd
    <3>2. QED
      BY <3>1
  <2>3. QED
    BY <1>1, <2>1, <2>2
<1>2. CASE Connect(g) \/ ConnectPoll(g)
  <2>1. sendBuf' \in {sendBuf, rewind}
    BY <1>2 DEF Connect, ConnectPoll, connected, notConnected
  <2>2. QED
    BY <2>1 DEF rewind
<1>3. CASE SendBytes(g)
  <2>1. PICK n \in 0..(Len(sendBuf.data) - sendBuf.sent) : sendBuf' = addSentBytes(n)
    BY <1>3 DEF SendBytes
  <2>2. QED
    BY <2>1 DEF addSentBytes
<1>4. CASE (SendStep(g) /\ ~SendBytes(g)) \/ ReceiveStep(g)
  BY <1>4 DEF SendStep, GiveUpSend, SendBlocked, SendBroken, SendNotConnected, SendFails,
     SendPoll, ReceiveStep, GiveUpReceive, ReceiveBytes, ReceiveWaits, ReceiveBlocked,
     ReceiveClosed, ReceiveNotConnected, ReceiveFails, ReceivePoll, bufVars
<1>5. CASE ~(EncodeCmd(g) \/ ClearBufs(g) \/ Connect(g) \/ ConnectPoll(g) \/ SendStep(g) \/ ReceiveStep(g))
  BY <1>5 DEF Step, Start, Cancel, LeaveLoop, EnterProcess, Begin, DecodeReply,
     StopProcessing, bufVars
<1>6. QED
  BY <1>1, <1>2, <1>3, <1>4, <1>5

\* Whoever is in Process, and not in connect() for reconnect(), finds the
\* messenger on the socket, unless a reconnect() has failed.
LEMMA NotStray ==
    ASSUME SideA, NEW g \in G, pc[g] \in WorkLabels, ~(pc[g] \in ConnLabels /\ ret[g] \in Replacing)
    PROVE  "A" \in stranded \/ msgrFd = socket
BY DEF SideA, StrayA, MutualExclusion, Inside, WorkLabels, SendLabels, RecvLabels, ConnLabels

LEMMA ReconnectLink ==
    ASSUME SideA, NEW g \in G, NEW caller \in Replacing, reconnect(g, caller)
    PROVE  /\ msgrFd' = msgrFd /\ DOMAIN ret' = G /\ DOMAIN err' = G
           /\ StrayA'
BY ClientsAssumption DEF SideA, reconnect, callConnect, GoTo, StrayA, WorkLabels,
   SendLabels, RecvLabels, ConnLabels

LEMMA ConnectLink ==
    ASSUME SideA, socket \in Fd, NEW g \in G, Connect(g) \/ ConnectPoll(g),
           stranded' = IF Strands(pc[g], pc'[g], ret[g], err'[g]) THEN stranded \cup {"A"} ELSE stranded
    PROVE  /\ msgrFd' \in Fd /\ DOMAIN ret' = G /\ DOMAIN err' = G
           /\ "A" \in stranded' \/ msgrFd' = socket' \/ StrayA'
<1>1. /\ pc[g] \in ConnLabels /\ pc[g] \in WorkLabels /\ UNCHANGED <<socket, ret>>
      /\ DOMAIN ret = G /\ DOMAIN err = G /\ DOMAIN pc = G /\ msgrFd \in Fd
  BY DEF Connect, ConnectPoll, SideA, WorkLabels, SendLabels, RecvLabels, ConnLabels
<1>2. ret[g] \notin Replacing => "A" \in stranded \/ msgrFd = socket
  BY <1>1, NotStray
<1>3. stranded \subseteq stranded'
  OBVIOUS
<1>4. CASE connected(g)
  <2>1. /\ msgrFd' = IF ret[g] \in Replacing THEN socket ELSE msgrFd
        /\ DOMAIN err' = G
    BY <1>1, <1>4 DEF connected, Fail, ChangeSocketFd, Replacing
  <2>2. QED
    BY <1>1, <1>2, <1>3, <2>1
<1>5. CASE msgrFd' = msgrFd /\ err' = err /\ (GoTo(g, "connect") \/ GoTo(g, "connPoll"))
  <2>1. ret[g] \in Replacing => StrayA'
    BY <1>1, <1>5 DEF GoTo, StrayA, WorkLabels, SendLabels, RecvLabels, ConnLabels
  <2>2. QED
    BY <1>1, <1>2, <1>3, <1>5, <2>1
<1>6. CASE msgrFd' = msgrFd /\ \E e : e # "ErrRecvBufTooShort" /\ Fail(g, e)
  <2>1. pc'[g] = "clear" /\ err'[g] # "ErrRecvBufTooShort" /\ DOMAIN err' = G
    BY <1>1, <1>6 DEF Fail, GoTo
  <2>2. ret[g] \in Replacing => "A" \in stranded'
    BY <1>1, <2>1 DEF Strands, Replacing
  <2>3. QED
    BY <1>1, <1>2, <1>3, <1>6, <2>1, <2>2
<1>7. QED
  <2>1. CASE Connect(g)
    BY <2>1, <1>4, <1>5, <1>6 DEF Connect, notConnected
  <2>2. CASE ConnectPoll(g)
    BY <2>2, <1>4, <1>5, <1>6 DEF ConnectPoll, notConnected
  <2>3. QED
    BY <2>1, <2>2

\* Where neither connect() nor reconnect() runs.
LEMMA KeepsLink ==
    ASSUME SideA, NEW g \in G, pc[g] \notin ConnLabels,
           ControlMove(pc, pc', processing, processing', g),
           UNCHANGED <<msgrFd, socket>>, DOMAIN ret' = G, DOMAIN err' = G,
           \A x \in G \ {g} : ret'[x] = ret[x]
    PROVE  /\ msgrFd' \in Fd /\ DOMAIN ret' = G /\ DOMAIN err' = G
           /\ "A" \in stranded \/ msgrFd' = socket' \/ StrayA'
<1>1. \A x \in G \ {g} : pc'[x] = pc[x]
  BY DEF ControlMove, SideA
<1>2. StrayA => StrayA'
  BY <1>1 DEF StrayA
<1>3. QED
  BY <1>2 DEF SideA

LEMMA TransferLink ==
    ASSUME SideA, NEW g \in G, SendStep(g) \/ ReceiveStep(g)
    PROVE  /\ msgrFd' \in Fd /\ DOMAIN ret' = G /\ DOMAIN err' = G
           /\ "A" \in stranded \/ msgrFd' = socket' \/ StrayA'
<1>1. pc \in [G -> Labels] /\ ControlMove(pc, pc', processing, processing', g)
  BY TransferControl DEF SideA
<1>2. pc[g] \notin ConnLabels /\ DOMAIN ret = G /\ DOMAIN err = G /\ msgrFd \in Fd
  BY DEF SideA, SendStep, GiveUpSend, SendBytes, SendBlocked, SendBroken, SendNotConnected,
     SendFails, SendPoll, Sending, ReceiveStep, GiveUpReceive, ReceiveBytes, ReceiveWaits,
     ReceiveClosed, ReceiveFails, ReceivePoll, Receiving, WorkLabels, SendLabels,
     RecvLabels, ConnLabels
<1>3. \/ \E caller \in Replacing : reconnect(g, caller)
      \/ /\ UNCHANGED <<msgrFd, socket>> /\ DOMAIN ret' = G /\ DOMAIN err' = G
         /\ ret' = ret \/ callConnect(g, "sendConn") \/ callConnect(g, "recvConn")
  <2> USE <1>2 DEF Replacing
  <2>1. CASE SendStep(g)
    <3>1. CASE SendPoll(g)
      BY <3>1 DEF SendPoll, noReconnect, connVars, Fail
    <3>2. CASE SendBytes(g)
      BY <3>2 DEF SendBytes, connVars, retryVars, outVars
    <3>3. QED
      BY <2>1, <3>1, <3>2 DEF SendStep, GiveUpSend, SendBlocked, SendBroken, SendNotConnected,
         SendFails, callConnect, connVars, retryVars, outVars, Fail
  <2>2. CASE ReceiveStep(g)
    <3>1. CASE ReceiveBytes(g)
      BY <3>1 DEF ReceiveBytes, connVars
    <3>2. QED
      BY <2>2, <3>1 DEF ReceiveStep, GiveUpReceive, ReceiveWaits, ReceiveBlocked,
         ReceiveClosed, ReceiveNotConnected, ReceiveFails, ReceivePoll, callConnect,
         connVars, retryVars, outVars, Fail
  <2>3. QED
    BY <2>1, <2>2
<1>4. CASE \E caller \in Replacing : reconnect(g, caller)
  BY <1>2, <1>4, ReconnectLink
<1>5. CASE /\ UNCHANGED <<msgrFd, socket>> /\ DOMAIN ret' = G /\ DOMAIN err' = G
           /\ ret' = ret \/ callConnect(g, "sendConn") \/ callConnect(g, "recvConn")
  <2>1. \A x \in G \ {g} : ret'[x] = ret[x]
    BY <1>2, <1>5 DEF callConnect
  <2>2. QED
    BY <1>1, <1>2, <1>5, <2>1, KeepsLink
<1>6. QED
  BY <1>3, <1>4, <1>5

LEMMA StepLink ==
    ASSUME SideA, socket \in Fd, NEW g \in G, Start(g) \/ Cancel(g) \/ Step(g),
           stranded' = IF Strands(pc[g], pc'[g], ret[g], err'[g]) THEN stranded \cup {"A"} ELSE stranded
    PROVE  /\ msgrFd' \in Fd /\ DOMAIN ret' = G /\ DOMAIN err' = G
           /\ "A" \in stranded' \/ msgrFd' = socket' \/ StrayA'
<1>1. CASE Connect(g) \/ ConnectPoll(g)
  BY <1>1, ConnectLink
<1>2. CASE SendStep(g) \/ ReceiveStep(g)
  BY <1>2, TransferLink
<1>3. CASE Cancel(g)
  <2>1. UNCHANGED <<pc, ret, err, msgrFd, socket>>
    BY <1>3 DEF Cancel, retryVars, outVars, connVars
  <2>2. QED
    BY <2>1 DEF SideA, StrayA
<1>4. CASE ~(Cancel(g) \/ Connect(g) \/ ConnectPoll(g) \/ SendStep(g) \/ ReceiveStep(g))
  <2>1. pc[g] \notin ConnLabels /\ UNCHANGED <<msgrFd, socket, ret>>
    BY <1>4 DEF Start, Step, LeaveLoop, EnterProcess, Begin, EncodeCmd, DecodeReply,
       ClearBufs, StopProcessing, connVars, retryVars, WorkLabels, SendLabels, RecvLabels,
       ConnLabels
  <2>2. DOMAIN ret' = G /\ DOMAIN err' = G
    BY <1>4, <2>1 DEF Start, Step, LeaveLoop, EnterProcess, Begin, EncodeCmd, DecodeReply,
       ClearBufs, StopProcessing, Return, Fail, outVars, SideA
  <2>3. ControlMove(pc, pc', processing, processing', g)
    BY StepControl DEF SideA
  <2>4. QED
    BY <2>1, <2>2, <2>3, KeepsLink
<1>5. QED
  BY <1>1, <1>2, <1>3, <1>4

LEMMA StepExclusion ==
    ASSUME pc \in [G -> Labels], MutualExclusion, NEW g \in G,
           ControlMove(pc, pc', processing, processing', g)
    PROVE  MutualExclusion'
<1>1. PICK label \in Labels :
        /\ pc' = [pc EXCEPT ![g] = label]
        /\ \/ pc[g] \in WorkLabels /\ label \in WorkLabels /\ processing' = processing
           \/ pc[g] \in WorkLabels /\ label = "idle" /\ processing' = FALSE
           \/ pc[g] \notin WorkLabels /\ label \notin WorkLabels /\ processing' = processing
           \/ ~processing /\ processing' = TRUE
  BY DEF ControlMove
<1>2. /\ \A x, y \in G : pc[x] \in WorkLabels /\ pc[y] \in WorkLabels => x = y
      /\ \A x \in G : pc[x] \in WorkLabels => processing
  BY DEF MutualExclusion, Inside, WorkLabels, SendLabels, RecvLabels, ConnLabels
<1>3. "idle" \notin WorkLabels
  BY DEF WorkLabels, SendLabels, RecvLabels, ConnLabels
<1>4. /\ \A x, y \in G : pc'[x] \in WorkLabels /\ pc'[y] \in WorkLabels => x = y
      /\ \A x \in G : pc'[x] \in WorkLabels => processing'
  BY <1>1, <1>2, <1>3
<1>5. QED
  BY <1>4 DEF MutualExclusion, Inside, WorkLabels, SendLabels, RecvLabels, ConnLabels

LEMMA StepSide ==
    ASSUME SideA, Shared, socket \in Fd, OwnerMove("A"),
           NEW g \in G, Start(g) \/ Cancel(g) \/ Step(g),
           stranded' = IF Strands(pc[g], pc'[g], ret[g], err'[g]) THEN stranded \cup {"A"} ELSE stranded
    PROVE  SideA'
<1>1. ControlMove(pc, pc', processing, processing', g)
  BY StepControl DEF SideA
<1>2. pc' \in [G -> Labels] /\ \A x \in G \ {g} : pc'[x] = pc[x]
  BY <1>1 DEF ControlMove, SideA
<1>3. MutualExclusion'
  BY <1>1, StepExclusion DEF SideA
<1>4. cmd' \in [G -> Message] /\ \A x \in G : pc'[x] # "idle" => OwnsNext("A", cmd'[x].id)
  <2> USE DEF SideA
  <2>1. CASE UNCHANGED <<cmd, calls>> /\ pc[g] # "idle"
    BY <1>2, <2>1, OwnedStays
  <2>2. CASE cmd' = [cmd EXCEPT ![g] = NoCmd] /\ calls' = calls /\ pc'[g] = "idle"
    <3>1. cmd' \in [G -> Message]
      BY <2>2 DEF Message, NoCmd
    <3>2. ASSUME NEW x \in G, pc'[x] # "idle"
          PROVE  x # g /\ pc[x] # "idle" /\ cmd'[x] = cmd[x]
      BY <1>2, <2>2, <3>2
    <3>3. QED
      BY <3>1, <3>2, OwnedStays
  <2>3. CASE /\ \E len \in CmdLens : cmd' = [cmd EXCEPT ![g] = [id |-> calls + 1, len |-> len]]
             /\ calls' = calls + 1
    <3>1. cmd' \in [G -> Message] /\ cmd'[g].id = calls' /\ \A x \in G \ {g} : cmd'[x] = cmd[x]
      BY <2>3, BoundsAssumption DEF Message, Shared
    <3>2. OwnsNext("A", cmd'[g].id)
      BY <2>3, <3>1, OwnersStay DEF OwnsNext
    <3>3. ASSUME NEW x \in G \ {g}, pc'[x] # "idle"
          PROVE  OwnsNext("A", cmd'[x].id)
      <4>1. cmd'[x] = cmd[x] /\ Owns("A", cmd[x].id)
        BY <1>2, <3>1, <3>3
      <4>2. QED
        BY <4>1, OwnedStays
    <3>4. QED
      BY <3>1, <3>2, <3>3
  <2>4. QED
    BY <2>1, <2>2, <2>3, StepCommand
<1>5. /\ sendBuf'.data \in Seq(Unit)
      /\ \A i \in 1..Len(sendBuf'.data) : OwnsNext("A", sendBuf'.data[i].id)
  <2>1. sendBuf.data \in Seq(Unit) /\ OwnUnits("A", sendBuf.data)
    BY DEF SideA
  <2>2. CASE sendBuf'.data = sendBuf.data
    BY <2>1, <2>2, OwnedStays DEF OwnUnits
  <2>3. CASE sendBuf'.data = <<>>
    BY <2>3, EmptySeq DEF OwnUnits
  <2>4. CASE sendBuf'.data = sendBuf.data \o Request(cmd[g]) /\ pc[g] = "encode"
    <3>1. cmd[g] \in Message /\ Owns("A", cmd[g].id)
      BY <2>4 DEF SideA
    <3>2. /\ Request(cmd[g]) \in Seq(Unit) /\ Len(Request(cmd[g])) = cmd[g].len
          /\ \A i \in 1..cmd[g].len : Request(cmd[g])[i].id = cmd[g].id
      BY <3>1, RequestUnits DEF Request
    <3>3. OwnUnits("A", Request(cmd[g]))
      BY <3>1, <3>2 DEF OwnUnits
    <3>4. sendBuf.data \o Request(cmd[g]) \in Seq(Unit)
      BY <2>1, <3>2, ConcatProperties
    <3>5. OwnUnits("A", sendBuf.data \o Request(cmd[g]))
      BY <2>1, <3>2, <3>3, Appended DEF OwnUnits
    <3>6. \A i \in 1..Len(sendBuf'.data) : Owns("A", sendBuf'.data[i].id)
      BY <2>4, <3>5 DEF OwnUnits
    <3>7. QED
      BY <2>4, <3>4, <3>6, OwnedStays
  <2>5. QED
    BY <2>2, <2>3, <2>4, StepBuffer
<1>6. DOMAIN sendBuf' = {"len", "data", "sent"} /\ sendBuf'.sent \in Nat
  BY StepBuffer
<1>7. /\ msgrFd' \in Fd /\ DOMAIN ret' = G /\ DOMAIN err' = G
      /\ "A" \in stranded' \/ msgrFd' = socket' \/ StrayA'
  BY StepLink
<1>8. /\ (\A x \in G : pc[x] # "idle" => Owns("A", cmd[x].id))'
      /\ OwnUnits("A", sendBuf.data)'
  BY <1>4, <1>5 DEF OwnUnits, Owns, OwnsNext
<1>9. QED
  BY <1>2, <1>3, <1>4, <1>5, <1>6, <1>7, <1>8 DEF SideA

\* What is sent is the client's own, and goes to its socket.
LEMMA StepSends ==
    ASSUME SideA, Apart, NEW g \in G, SendBytes(g)
    PROVE  SendMove("A", msgrFd, socket, socket') \/ inbox' = inbox
<1>1. /\ pc[g] = "send" /\ kernel[msgrFd] \in {"up", "eof"}
      /\ UNCHANGED <<socket, kernel>>
  BY DEF SendBytes, Sending, Writable, connVars
<1>2. "A" \in stranded \/ msgrFd = socket
  BY <1>1, NotStray DEF WorkLabels, SendLabels, RecvLabels, ConnLabels
<1>3. PICK n \in 0..(Len(sendBuf.data) - sendBuf.sent) :
        inbox' = IF kernel[msgrFd] = "up"
                 THEN [inbox EXCEPT ![msgrFd] =
                         inbox[msgrFd] \o SubSeq(sendBuf.data, sendBuf.sent + 1, sendBuf.sent + n)]
                 ELSE inbox
  BY DEF SendBytes
<1>4. CASE inbox' = inbox
  BY <1>4
<1>5. CASE kernel[msgrFd] = "up"
  <2> DEFINE piece == SubSeq(sendBuf.data, sendBuf.sent + 1, sendBuf.sent + n)
  <2>1. /\ sendBuf.data \in Seq(Unit) /\ sendBuf.sent \in Nat /\ Len(sendBuf.data) \in Nat
        /\ OwnUnits("A", sendBuf.data)
    BY LenProperties DEF SideA
  <2>2. piece \in Seq(Unit) /\ OwnUnits("A", piece)
    BY <2>1, PieceOwned
  <2>3. QED
    BY <1>1, <1>2, <1>3, <1>5, <2>2 DEF SendMove, Stays
<1>6. QED
  BY <1>3, <1>4, <1>5

\* The same of client B.
LEMMA ReconnectControlB ==
    ASSUME pcB \in [H -> Labels], NEW h \in H, NEW caller,
           B!reconnect(h, caller), pcB[h] \in WorkLabels
    PROVE  ControlMove(pcB, pcB', processingB, processingB', h)
BY DEF B!reconnect, B!callConnect, B!Fail, B!GoTo, ControlMove, Labels, WorkLabels,
   SendLabels, RecvLabels, ConnLabels, B!WorkLabels, B!SendLabels, B!RecvLabels,
   B!ConnLabels

LEMMA ConnectControlB ==
    ASSUME pcB \in [H -> Labels], NEW h \in H, B!Connect(h) \/ B!ConnectPoll(h)
    PROVE  ControlMove(pcB, pcB', processingB, processingB', h)
<1>1. pcB[h] \in WorkLabels /\ processingB' = processingB
  BY DEF B!Connect, B!ConnectPoll, WorkLabels, SendLabels, RecvLabels, ConnLabels, B!WorkLabels,
       B!SendLabels, B!RecvLabels, B!ConnLabels
<1>2. \E label \in WorkLabels : pcB' = [pcB EXCEPT ![h] = label]
  BY DEF B!Connect, B!ConnectPoll, B!connected, B!Fail, B!GoTo, WorkLabels, SendLabels,
     RecvLabels, ConnLabels, B!WorkLabels, B!SendLabels, B!RecvLabels, B!ConnLabels
<1>3. QED
  BY <1>1, <1>2 DEF ControlMove, Labels

LEMMA TransferControlB ==
    ASSUME pcB \in [H -> Labels], NEW h \in H, B!SendStep(h) \/ B!ReceiveStep(h)
    PROVE  ControlMove(pcB, pcB', processingB, processingB', h)
<1>1. pcB[h] \in WorkLabels
  BY DEF B!SendStep, B!GiveUpSend, B!SendBytes, B!SendBlocked, B!SendBroken,
     B!SendNotConnected, B!SendFails, B!SendPoll, B!Sending, B!ReceiveStep, B!GiveUpReceive,
     B!ReceiveBytes, B!ReceiveWaits, B!ReceiveClosed, B!ReceiveFails, B!ReceivePoll,
     B!Receiving, WorkLabels, SendLabels, RecvLabels, ConnLabels, B!WorkLabels,
     B!SendLabels, B!RecvLabels, B!ConnLabels
<1>2. \/ \E caller : B!reconnect(h, caller)
      \/ /\ processingB' = processingB
         /\ pcB' = pcB \/ \E label \in WorkLabels : pcB' = [pcB EXCEPT ![h] = label]
  <2>1. CASE B!SendStep(h)
    <3>1. CASE B!SendPoll(h)
      BY <3>1 DEF B!SendPoll, B!noReconnect, B!connVars, B!Fail, B!GoTo, WorkLabels,
         SendLabels, RecvLabels, ConnLabels, B!WorkLabels, B!SendLabels, B!RecvLabels,
         B!ConnLabels
    <3>2. CASE B!SendBytes(h)
      BY <3>2 DEF B!SendBytes, B!connVars, B!GoTo, WorkLabels, SendLabels, RecvLabels,
         ConnLabels, B!WorkLabels, B!SendLabels, B!RecvLabels, B!ConnLabels
    <3>3. QED
      BY <2>1, <3>1, <3>2 DEF B!SendStep, B!GiveUpSend, B!SendBlocked, B!SendBroken,
         B!SendNotConnected, B!SendFails, B!callConnect, B!connVars, B!Fail, B!GoTo,
         WorkLabels, SendLabels, RecvLabels, ConnLabels, B!WorkLabels, B!SendLabels,
         B!RecvLabels, B!ConnLabels
  <2>2. CASE B!ReceiveStep(h)
    <3>1. CASE B!ReceiveBytes(h)
      BY <3>1 DEF B!ReceiveBytes, B!connVars, B!GoTo, WorkLabels, SendLabels, RecvLabels,
         ConnLabels, B!WorkLabels, B!SendLabels, B!RecvLabels, B!ConnLabels
    <3>2. QED
      BY <2>2, <3>1 DEF B!ReceiveStep, B!GiveUpReceive, B!ReceiveWaits, B!ReceiveBlocked,
         B!ReceiveClosed, B!ReceiveNotConnected, B!ReceiveFails, B!ReceivePoll,
         B!callConnect, B!connVars, B!Fail, B!GoTo, WorkLabels, SendLabels, RecvLabels,
         ConnLabels, B!WorkLabels, B!SendLabels, B!RecvLabels, B!ConnLabels
  <2>3. QED
    BY <2>1, <2>2
<1>3. CASE pcB' = pcB /\ processingB' = processingB
  BY <1>1, <1>3 DEF ControlMove, Labels
<1>4. QED
  BY <1>1, <1>2, <1>3, ReconnectControlB DEF ControlMove, Labels

LEMMA StepControlB ==
    ASSUME pcB \in [H -> Labels], NEW h \in H, B!Start(h) \/ B!Cancel(h) \/ B!Step(h)
    PROVE  ControlMove(pcB, pcB', processingB, processingB', h)
<1>1. CASE B!Connect(h) \/ B!ConnectPoll(h)
  BY <1>1, ConnectControlB
<1>2. CASE B!SendStep(h) \/ B!ReceiveStep(h)
  BY <1>2, TransferControlB
<1>3. CASE B!Start(h) \/ B!LeaveLoop(h) \/ B!EnterProcess(h) \/ B!StopProcessing(h)
  BY <1>3 DEF B!Start, B!LeaveLoop, B!EnterProcess, B!StopProcessing, B!isProcessing,
     B!Return, B!GoTo, B!connVars, ControlMove, Labels, WorkLabels, SendLabels, RecvLabels,
     ConnLabels, B!WorkLabels, B!SendLabels, B!RecvLabels, B!ConnLabels
<1>4. CASE B!Cancel(h)
  BY <1>4 DEF B!Cancel, B!connVars, ControlMove, Labels
<1>5. CASE B!Begin(h) \/ B!EncodeCmd(h) \/ B!DecodeReply(h) \/ B!ClearBufs(h)
  <2>1. pcB[h] \in WorkLabels /\ processingB' = processingB
    BY <1>5 DEF B!Begin, B!EncodeCmd, B!DecodeReply, B!ClearBufs, B!connVars, WorkLabels,
       SendLabels, RecvLabels, ConnLabels, B!WorkLabels, B!SendLabels, B!RecvLabels,
       B!ConnLabels
  <2>2. pcB' = pcB \/ \E label \in WorkLabels : pcB' = [pcB EXCEPT ![h] = label]
    BY <1>5 DEF B!Begin, B!EncodeCmd, B!DecodeReply, B!ClearBufs, B!Fail, B!GoTo,
       WorkLabels, SendLabels, RecvLabels, ConnLabels, B!WorkLabels, B!SendLabels,
       B!RecvLabels, B!ConnLabels
  <2>3. QED
    BY <2>1, <2>2 DEF ControlMove, Labels
<1>6. QED
  BY <1>1, <1>2, <1>3, <1>4, <1>5 DEF B!Step

LEMMA StepCommandB ==
    ASSUME SideB, NEW h \in H, B!Start(h) \/ B!Cancel(h) \/ B!Step(h)
    PROVE  \/ UNCHANGED <<cmdB, calls>> /\ pcB[h] # "idle"
           \/ cmdB' = [cmdB EXCEPT ![h] = NoCmd] /\ calls' = calls /\ pcB'[h] = "idle"
           \/ /\ \E len \in CmdLens : cmdB' = [cmdB EXCEPT ![h] = [id |-> calls + 1, len |-> len]]
              /\ calls' = calls + 1
<1>1. CASE B!Start(h)
  BY <1>1 DEF B!Start
<1>2. CASE B!LeaveLoop(h) \/ B!StopProcessing(h)
  BY <1>2 DEF B!LeaveLoop, B!StopProcessing, B!Return, B!GoTo, SideB, NoCmd, B!NoCmd
<1>3. CASE B!Cancel(h) \/ B!EnterProcess(h) \/ B!Begin(h) \/ B!EncodeCmd(h) \/ B!DecodeReply(h) \/ B!ClearBufs(h)
  BY <1>3 DEF B!Cancel, B!EnterProcess, B!Begin, B!EncodeCmd, B!DecodeReply, B!ClearBufs,
     B!localVars
<1>4. CASE B!SendStep(h) \/ B!ReceiveStep(h) \/ B!Connect(h) \/ B!ConnectPoll(h)
  <2>1. UNCHANGED <<cmdB, calls>>
    BY <1>4 DEF B!SendStep, B!GiveUpSend, B!SendBytes, B!SendBlocked, B!SendBroken,
       B!SendNotConnected, B!SendFails, B!SendPoll, B!ReceiveStep, B!GiveUpReceive,
       B!ReceiveBytes, B!ReceiveWaits, B!ReceiveBlocked, B!ReceiveClosed,
       B!ReceiveNotConnected, B!ReceiveFails, B!ReceivePoll, B!Connect, B!ConnectPoll,
       B!localVars
  <2>2. pcB[h] # "idle"
    BY <1>4 DEF B!SendStep, B!GiveUpSend, B!SendBytes, B!SendBlocked, B!SendBroken,
       B!SendNotConnected, B!SendFails, B!SendPoll, B!Sending, B!ReceiveStep,
       B!GiveUpReceive, B!ReceiveBytes, B!ReceiveWaits, B!ReceiveClosed, B!ReceiveFails,
       B!ReceivePoll, B!Receiving, B!Connect, B!ConnectPoll
  <2>3. QED
    BY <2>1, <2>2
<1>5. QED
  BY <1>1, <1>2, <1>3, <1>4 DEF B!Step

LEMMA StepBufferB ==
    ASSUME SideB, NEW h \in H, B!Start(h) \/ B!Cancel(h) \/ B!Step(h)
    PROVE  /\ DOMAIN sendBufB' = {"len", "data", "sent"} /\ sendBufB'.sent \in Nat
           /\ \/ sendBufB'.data \in {sendBufB.data, <<>>}
              \/ sendBufB'.data = sendBufB.data \o B!Request(cmdB[h]) /\ pcB[h] = "encode"
<1> USE DEF SideB
<1>1. CASE B!EncodeCmd(h) \/ B!ClearBufs(h)
  <2>1. CASE B!ClearBufs(h)
    BY <2>1 DEF B!ClearBufs, B!clearedSendBuf
  <2>2. CASE B!EncodeCmd(h)
    <3>1. /\ pcB[h] = "encode"
          /\ \/ sendBufB' = [sendBufB EXCEPT !.data = sendBufB.data \o B!Request(cmdB[h])]
             \/ \E len : sendBufB' = [sendBufB EXCEPT !.len = len]
             \/ sendBufB' = sendBufB
      BY <2>2 DEF B!EncodeCmd
    <3>2. QED
      BY <3>1
  <2>3. QED
    BY <1>1, <2>1, <2>2
<1>2. CASE B!Connect(h) \/ B!ConnectPoll(h)
  <2>1. sendBufB' \in {sendBufB, B!rewind}
    BY <1>2 DEF B!Connect, B!ConnectPoll, B!connected, B!notConnected
  <2>2. QED
    BY <2>1 DEF B!rewind
<1>3. CASE B!SendBytes(h)
  <2>1. PICK n \in 0..(Len(sendBufB.data) - sendBufB.sent) : sendBufB' = B!addSentBytes(n)
    BY <1>3 DEF B!SendBytes
  <2>2. QED
    BY <2>1 DEF B!addSentBytes
<1>4. CASE (B!SendStep(h) /\ ~B!SendBytes(h)) \/ B!ReceiveStep(h)
  BY <1>4 DEF B!SendStep, B!GiveUpSend, B!SendBlocked, B!SendBroken, B!SendNotConnected,
     B!SendFails, B!SendPoll, B!ReceiveStep, B!GiveUpReceive, B!ReceiveBytes,
     B!ReceiveWaits, B!ReceiveBlocked, B!ReceiveClosed, B!ReceiveNotConnected,
     B!ReceiveFails, B!ReceivePoll, B!bufVars
<1>5. CASE ~(B!EncodeCmd(h) \/ B!ClearBufs(h) \/ B!Connect(h) \/ B!ConnectPoll(h) \/ B!SendStep(h) \/ B!ReceiveStep(h))
  BY <1>5 DEF B!Step, B!Start, B!Cancel, B!LeaveLoop, B!EnterProcess, B!Begin,
     B!DecodeReply, B!StopProcessing, B!bufVars
<1>6. QED
  BY <1>1, <1>2, <1>3, <1>4, <1>5

LEMMA NotStrayB ==
    ASSUME SideB, NEW h \in H, pcB[h] \in WorkLabels, ~(pcB[h] \in ConnLabels /\ retB[h] \in Replacing)
    PROVE  "B" \in stranded \/ msgrFdB = socketB
BY DEF SideB, StrayB, B!MutualExclusion, B!Inside, WorkLabels, SendLabels, RecvLabels,
   ConnLabels, B!WorkLabels, B!SendLabels, B!RecvLabels, B!ConnLabels

LEMMA ReconnectLinkB ==
    ASSUME SideB, NEW h \in H, NEW caller \in Replacing, B!reconnect(h, caller)
    PROVE  /\ msgrFdB' = msgrFdB /\ DOMAIN retB' = H /\ DOMAIN errB' = H
           /\ StrayB'
BY ClientsAssumption DEF SideB, B!reconnect, B!callConnect, B!GoTo, StrayB, WorkLabels,
   SendLabels, RecvLabels, ConnLabels, B!WorkLabels, B!SendLabels, B!RecvLabels,
   B!ConnLabels

LEMMA ConnectLinkB ==
    ASSUME SideB, socketB \in Fd, NEW h \in H, B!Connect(h) \/ B!ConnectPoll(h),
           stranded' = IF Strands(pcB[h], pcB'[h], retB[h], errB'[h]) THEN stranded \cup {"B"} ELSE stranded
    PROVE  /\ msgrFdB' \in Fd /\ DOMAIN retB' = H /\ DOMAIN errB' = H
           /\ "B" \in stranded' \/ msgrFdB' = socketB' \/ StrayB'
<1>1. /\ pcB[h] \in ConnLabels /\ pcB[h] \in WorkLabels /\ UNCHANGED <<socketB, retB>>
      /\ DOMAIN retB = H /\ DOMAIN errB = H /\ DOMAIN pcB = H /\ msgrFdB \in Fd
  BY DEF B!Connect, B!ConnectPoll, SideB, WorkLabels, SendLabels, RecvLabels, ConnLabels,
     B!WorkLabels, B!SendLabels, B!RecvLabels, B!ConnLabels
<1>2. retB[h] \notin Replacing => "B" \in stranded \/ msgrFdB = socketB
  BY <1>1, NotStrayB
<1>3. stranded \subseteq stranded'
  OBVIOUS
<1>4. CASE B!connected(h)
  <2>1. /\ msgrFdB' = IF retB[h] \in Replacing THEN socketB ELSE msgrFdB
        /\ DOMAIN errB' = H
    BY <1>1, <1>4 DEF B!connected, B!Fail, B!ChangeSocketFd, Replacing
  <2>2. QED
    BY <1>1, <1>2, <1>3, <2>1
<1>5. CASE msgrFdB' = msgrFdB /\ errB' = errB /\ (B!GoTo(h, "connect") \/ B!GoTo(h, "connPoll"))
  <2>1. retB[h] \in Replacing => StrayB'
    BY <1>1, <1>5 DEF B!GoTo, StrayB, WorkLabels, SendLabels, RecvLabels, ConnLabels,
       B!WorkLabels, B!SendLabels, B!RecvLabels, B!ConnLabels
  <2>2. QED
    BY <1>1, <1>2, <1>3, <1>5, <2>1
<1>6. CASE msgrFdB' = msgrFdB /\ \E e : e # "ErrRecvBufTooShort" /\ B!Fail(h, e)
  <2>1. pcB'[h] = "clear" /\ errB'[h] # "ErrRecvBufTooShort" /\ DOMAIN errB' = H
    BY <1>1, <1>6 DEF B!Fail, B!GoTo
  <2>2. retB[h] \in Replacing => "B" \in stranded'
    BY <1>1, <2>1 DEF Strands, Replacing
  <2>3. QED
    BY <1>1, <1>2, <1>3, <1>6, <2>1, <2>2
<1>7. QED
  <2>1. CASE B!Connect(h)
    BY <2>1, <1>4, <1>5, <1>6 DEF B!Connect, B!notConnected
  <2>2. CASE B!ConnectPoll(h)
    BY <2>2, <1>4, <1>5, <1>6 DEF B!ConnectPoll, B!notConnected
  <2>3. QED
    BY <2>1, <2>2

LEMMA KeepsLinkB ==
    ASSUME SideB, NEW h \in H, pcB[h] \notin ConnLabels,
           ControlMove(pcB, pcB', processingB, processingB', h),
           UNCHANGED <<msgrFdB, socketB>>, DOMAIN retB' = H, DOMAIN errB' = H,
           \A x \in H \ {h} : retB'[x] = retB[x]
    PROVE  /\ msgrFdB' \in Fd /\ DOMAIN retB' = H /\ DOMAIN errB' = H
           /\ "B" \in stranded \/ msgrFdB' = socketB' \/ StrayB'
<1>1. \A x \in H \ {h} : pcB'[x] = pcB[x]
  BY DEF ControlMove, SideB
<1>2. StrayB => StrayB'
  BY <1>1 DEF StrayB
<1>3. QED
  BY <1>2 DEF SideB

LEMMA TransferLinkB ==
    ASSUME SideB, NEW h \in H, B!SendStep(h) \/ B!ReceiveStep(h)
    PROVE  /\ msgrFdB' \in Fd /\ DOMAIN retB' = H /\ DOMAIN errB' = H
           /\ "B" \in stranded \/ msgrFdB' = socketB' \/ StrayB'
<1>1. pcB \in [H -> Labels] /\ ControlMove(pcB, pcB', processingB, processingB', h)
  BY TransferControlB DEF SideB
<1>2. pcB[h] \notin ConnLabels /\ DOMAIN retB = H /\ DOMAIN errB = H /\ msgrFdB \in Fd
  BY DEF SideB, B!SendStep, B!GiveUpSend, B!SendBytes, B!SendBlocked, B!SendBroken,
     B!SendNotConnected, B!SendFails, B!SendPoll, B!Sending, B!ReceiveStep, B!GiveUpReceive,
     B!ReceiveBytes, B!ReceiveWaits, B!ReceiveClosed, B!ReceiveFails, B!ReceivePoll,
     B!Receiving, WorkLabels, SendLabels, RecvLabels, ConnLabels, B!WorkLabels,
     B!SendLabels, B!RecvLabels, B!ConnLabels
<1>3. \/ \E caller \in Replacing : B!reconnect(h, caller)
      \/ /\ UNCHANGED <<msgrFdB, socketB>> /\ DOMAIN retB' = H /\ DOMAIN errB' = H
         /\ retB' = retB \/ B!callConnect(h, "sendConn") \/ B!callConnect(h, "recvConn")
  <2> USE <1>2 DEF Replacing
  <2>1. CASE B!SendStep(h)
    <3>1. CASE B!SendPoll(h)
      BY <3>1 DEF B!SendPoll, B!noReconnect, B!connVars, B!Fail
    <3>2. CASE B!SendBytes(h)
      BY <3>2 DEF B!SendBytes, B!connVars, B!retryVars, B!outVars
    <3>3. QED
      BY <2>1, <3>1, <3>2 DEF B!SendStep, B!GiveUpSend, B!SendBlocked, B!SendBroken,
         B!SendNotConnected, B!SendFails, B!callConnect, B!connVars, B!retryVars, B!outVars,
         B!Fail
  <2>2. CASE B!ReceiveStep(h)
    <3>1. CASE B!ReceiveBytes(h)
      BY <3>1 DEF B!ReceiveBytes, B!connVars
    <3>2. QED
      BY <2>2, <3>1 DEF B!ReceiveStep, B!GiveUpReceive, B!ReceiveWaits, B!ReceiveBlocked,
         B!ReceiveClosed, B!ReceiveNotConnected, B!ReceiveFails, B!ReceivePoll,
         B!callConnect, B!connVars, B!retryVars, B!outVars, B!Fail
  <2>3. QED
    BY <2>1, <2>2
<1>4. CASE \E caller \in Replacing : B!reconnect(h, caller)
  BY <1>2, <1>4, ReconnectLinkB
<1>5. CASE /\ UNCHANGED <<msgrFdB, socketB>> /\ DOMAIN retB' = H /\ DOMAIN errB' = H
           /\ retB' = retB \/ B!callConnect(h, "sendConn") \/ B!callConnect(h, "recvConn")
  <2>1. \A x \in H \ {h} : retB'[x] = retB[x]
    BY <1>2, <1>5 DEF B!callConnect
  <2>2. QED
    BY <1>1, <1>2, <1>5, <2>1, KeepsLinkB
<1>6. QED
  BY <1>3, <1>4, <1>5

LEMMA StepLinkB ==
    ASSUME SideB, socketB \in Fd, NEW h \in H, B!Start(h) \/ B!Cancel(h) \/ B!Step(h),
           stranded' = IF Strands(pcB[h], pcB'[h], retB[h], errB'[h]) THEN stranded \cup {"B"} ELSE stranded
    PROVE  /\ msgrFdB' \in Fd /\ DOMAIN retB' = H /\ DOMAIN errB' = H
           /\ "B" \in stranded' \/ msgrFdB' = socketB' \/ StrayB'
<1>1. CASE B!Connect(h) \/ B!ConnectPoll(h)
  BY <1>1, ConnectLinkB
<1>2. CASE B!SendStep(h) \/ B!ReceiveStep(h)
  BY <1>2, TransferLinkB
<1>3. CASE B!Cancel(h)
  <2>1. UNCHANGED <<pcB, retB, errB, msgrFdB, socketB>>
    BY <1>3 DEF B!Cancel, B!retryVars, B!outVars, B!connVars
  <2>2. QED
    BY <2>1 DEF SideB, StrayB
<1>4. CASE ~(B!Cancel(h) \/ B!Connect(h) \/ B!ConnectPoll(h) \/ B!SendStep(h) \/ B!ReceiveStep(h))
  <2>1. pcB[h] \notin ConnLabels /\ UNCHANGED <<msgrFdB, socketB, retB>>
    BY <1>4 DEF B!Start, B!Step, B!LeaveLoop, B!EnterProcess, B!Begin, B!EncodeCmd,
       B!DecodeReply, B!ClearBufs, B!StopProcessing, B!connVars, B!retryVars, WorkLabels,
       SendLabels, RecvLabels, ConnLabels, B!WorkLabels, B!SendLabels, B!RecvLabels,
       B!ConnLabels
  <2>2. DOMAIN retB' = H /\ DOMAIN errB' = H
    BY <1>4, <2>1 DEF B!Start, B!Step, B!LeaveLoop, B!EnterProcess, B!Begin, B!EncodeCmd,
       B!DecodeReply, B!ClearBufs, B!StopProcessing, B!Return, B!Fail, B!outVars, SideB
  <2>3. ControlMove(pcB, pcB', processingB, processingB', h)
    BY StepControlB DEF SideB
  <2>4. QED
    BY <2>1, <2>2, <2>3, KeepsLinkB
<1>5. QED
  BY <1>1, <1>2, <1>3, <1>4

LEMMA StepExclusionB ==
    ASSUME pcB \in [H -> Labels], B!MutualExclusion, NEW h \in H,
           ControlMove(pcB, pcB', processingB, processingB', h)
    PROVE  B!MutualExclusion'
<1>1. PICK label \in Labels :
        /\ pcB' = [pcB EXCEPT ![h] = label]
        /\ \/ pcB[h] \in WorkLabels /\ label \in WorkLabels /\ processingB' = processingB
           \/ pcB[h] \in WorkLabels /\ label = "idle" /\ processingB' = FALSE
           \/ pcB[h] \notin WorkLabels /\ label \notin WorkLabels /\ processingB' = processingB
           \/ ~processingB /\ processingB' = TRUE
  BY DEF ControlMove
<1>2. /\ \A x, y \in H : pcB[x] \in WorkLabels /\ pcB[y] \in WorkLabels => x = y
      /\ \A x \in H : pcB[x] \in WorkLabels => processingB
  BY DEF B!MutualExclusion, B!Inside, WorkLabels, SendLabels, RecvLabels, ConnLabels,
     B!WorkLabels, B!SendLabels, B!RecvLabels, B!ConnLabels
<1>3. "idle" \notin WorkLabels
  BY DEF WorkLabels, SendLabels, RecvLabels, ConnLabels, B!WorkLabels,
       B!SendLabels, B!RecvLabels, B!ConnLabels
<1>4. /\ \A x, y \in H : pcB'[x] \in WorkLabels /\ pcB'[y] \in WorkLabels => x = y
      /\ \A x \in H : pcB'[x] \in WorkLabels => processingB'
  BY <1>1, <1>2, <1>3
<1>5. QED
  BY <1>4 DEF B!MutualExclusion, B!Inside, WorkLabels, SendLabels, RecvLabels, ConnLabels,
     B!WorkLabels, B!SendLabels, B!RecvLabels, B!ConnLabels

LEMMA StepSideB ==
    ASSUME SideB, Shared, socketB \in Fd, OwnerMove("B"),
           NEW h \in H, B!Start(h) \/ B!Cancel(h) \/ B!Step(h),
           stranded' = IF Strands(pcB[h], pcB'[h], retB[h], errB'[h]) THEN stranded \cup {"B"} ELSE stranded
    PROVE  SideB'
<1>1. ControlMove(pcB, pcB', processingB, processingB', h)
  BY StepControlB DEF SideB
<1>2. pcB' \in [H -> Labels] /\ \A x \in H \ {h} : pcB'[x] = pcB[x]
  BY <1>1 DEF ControlMove, SideB
<1>3. B!MutualExclusion'
  BY <1>1, StepExclusionB DEF SideB
<1>4. cmdB' \in [H -> Message] /\ \A x \in H : pcB'[x] # "idle" => OwnsNext("B", cmdB'[x].id)
  <2> USE DEF SideB
  <2>1. CASE UNCHANGED <<cmdB, calls>> /\ pcB[h] # "idle"
    BY <1>2, <2>1, OwnedStays
  <2>2. CASE cmdB' = [cmdB EXCEPT ![h] = NoCmd] /\ calls' = calls /\ pcB'[h] = "idle"
    <3>1. cmdB' \in [H -> Message]
      BY <2>2 DEF Message, NoCmd, B!NoCmd
    <3>2. ASSUME NEW x \in H, pcB'[x] # "idle"
          PROVE  x # h /\ pcB[x] # "idle" /\ cmdB'[x] = cmdB[x]
      BY <1>2, <2>2, <3>2
    <3>3. QED
      BY <3>1, <3>2, OwnedStays
  <2>3. CASE /\ \E len \in CmdLens : cmdB' = [cmdB EXCEPT ![h] = [id |-> calls + 1, len |-> len]]
             /\ calls' = calls + 1
    <3>1. cmdB' \in [H -> Message] /\ cmdB'[h].id = calls' /\ \A x \in H \ {h} : cmdB'[x] = cmdB[x]
      BY <2>3, BoundsAssumption DEF Message, Shared
    <3>2. OwnsNext("B", cmdB'[h].id)
      BY <2>3, <3>1, OwnersStay DEF OwnsNext
    <3>3. ASSUME NEW x \in H \ {h}, pcB'[x] # "idle"
          PROVE  OwnsNext("B", cmdB'[x].id)
      <4>1. cmdB'[x] = cmdB[x] /\ Owns("B", cmdB[x].id)
        BY <1>2, <3>1, <3>3
      <4>2. QED
        BY <4>1, OwnedStays
    <3>4. QED
      BY <3>1, <3>2, <3>3
  <2>4. QED
    BY <2>1, <2>2, <2>3, StepCommandB
<1>5. /\ sendBufB'.data \in Seq(Unit)
      /\ \A i \in 1..Len(sendBufB'.data) : OwnsNext("B", sendBufB'.data[i].id)
  <2>1. sendBufB.data \in Seq(Unit) /\ OwnUnits("B", sendBufB.data)
    BY DEF SideB
  <2>2. CASE sendBufB'.data = sendBufB.data
    BY <2>1, <2>2, OwnedStays DEF OwnUnits
  <2>3. CASE sendBufB'.data = <<>>
    BY <2>3, EmptySeq DEF OwnUnits
  <2>4. CASE sendBufB'.data = sendBufB.data \o B!Request(cmdB[h]) /\ pcB[h] = "encode"
    <3>1. cmdB[h] \in Message /\ Owns("B", cmdB[h].id)
      BY <2>4 DEF SideB
    <3>2. /\ B!Request(cmdB[h]) \in Seq(Unit) /\ Len(B!Request(cmdB[h])) = cmdB[h].len
          /\ \A i \in 1..cmdB[h].len : B!Request(cmdB[h])[i].id = cmdB[h].id
      BY <3>1, RequestUnits DEF Request, B!Request
    <3>3. OwnUnits("B", B!Request(cmdB[h]))
      BY <3>1, <3>2 DEF OwnUnits
    <3>4. sendBufB.data \o B!Request(cmdB[h]) \in Seq(Unit)
      BY <2>1, <3>2, ConcatProperties
    <3>5. OwnUnits("B", sendBufB.data \o B!Request(cmdB[h]))
      BY <2>1, <3>2, <3>3, Appended DEF OwnUnits
    <3>6. \A i \in 1..Len(sendBufB'.data) : Owns("B", sendBufB'.data[i].id)
      BY <2>4, <3>5 DEF OwnUnits
    <3>7. QED
      BY <2>4, <3>4, <3>6, OwnedStays
  <2>5. QED
    BY <2>2, <2>3, <2>4, StepBufferB
<1>6. DOMAIN sendBufB' = {"len", "data", "sent"} /\ sendBufB'.sent \in Nat
  BY StepBufferB
<1>7. /\ msgrFdB' \in Fd /\ DOMAIN retB' = H /\ DOMAIN errB' = H
      /\ "B" \in stranded' \/ msgrFdB' = socketB' \/ StrayB'
  BY StepLinkB
<1>8. /\ (\A x \in H : pcB[x] # "idle" => Owns("B", cmdB[x].id))'
      /\ OwnUnits("B", sendBufB.data)'
  BY <1>4, <1>5 DEF OwnUnits, Owns, OwnsNext
<1>9. QED
  BY <1>2, <1>3, <1>4, <1>5, <1>6, <1>7, <1>8 DEF SideB

LEMMA StepSendsB ==
    ASSUME SideB, Apart, NEW h \in H, B!SendBytes(h)
    PROVE  SendMove("B", msgrFdB, socketB, socketB') \/ inbox' = inbox
<1>1. /\ pcB[h] = "send" /\ kernel[msgrFdB] \in {"up", "eof"}
      /\ UNCHANGED <<socketB, kernel>>
  BY DEF B!SendBytes, B!Sending, B!Writable, B!connVars
<1>2. "B" \in stranded \/ msgrFdB = socketB
  BY <1>1, NotStrayB DEF WorkLabels, SendLabels, RecvLabels, ConnLabels, B!WorkLabels,
       B!SendLabels, B!RecvLabels, B!ConnLabels
<1>3. PICK n \in 0..(Len(sendBufB.data) - sendBufB.sent) :
        inbox' = IF kernel[msgrFdB] = "up"
                 THEN [inbox EXCEPT ![msgrFdB] =
                         inbox[msgrFdB] \o SubSeq(sendBufB.data, sendBufB.sent + 1, sendBufB.sent + n)]
                 ELSE inbox
  BY DEF B!SendBytes
<1>4. CASE inbox' = inbox
  BY <1>4
<1>5. CASE kernel[msgrFdB] = "up"
  <2> DEFINE piece == SubSeq(sendBufB.data, sendBufB.sent + 1, sendBufB.sent + n)
  <2>1. /\ sendBufB.data \in Seq(Unit) /\ sendBufB.sent \in Nat /\ Len(sendBufB.data) \in Nat
        /\ OwnUnits("B", sendBufB.data)
    BY LenProperties DEF SideB
  <2>2. piece \in Seq(Unit) /\ OwnUnits("B", piece)
    BY <2>1, PieceOwned
  <2>3. QED
    BY <1>1, <1>2, <1>3, <1>5, <2>2 DEF SendMove, Stays
<1>6. QED
  BY <1>3, <1>4, <1>5

-----------------------------------------------------------------------------
(***************************************************************************)
(* The kernel and the servers: nothing is put into what was sent.          *)
(***************************************************************************)
LEMMA PeerTakes ==
    ASSUME inbox \in [Fd -> Seq(Unit)], NEW fd \in Fd, Peer(fd)
    PROVE  /\ inbox' \in [Fd -> Seq(Unit)]
           /\ \A f \in Fd : inbox[f] = <<>> => inbox'[f] = <<>>
           /\ \A f \in Fd : \A i \in 1..Len(inbox'[f]) :
                \E j \in 1..Len(inbox[f]) : inbox'[f][i] = inbox[f][j]
<1>1. <<>> \in Seq(Unit) /\ Len(<<>>) = 0
  BY EmptySeq
<1>2. CASE inbox' = inbox
  BY <1>2
<1>3. CASE inbox' = [inbox EXCEPT ![fd] = <<>>]
  BY <1>1, <1>3
<1>4. CASE Serve(fd) /\ inbox' = [inbox EXCEPT ![fd] = SubSeq(@, Head(inbox[fd]).of + 1, Len(@))]
  <2> DEFINE s == inbox[fd]
             k == Head(s).of
  <2>1. s \in Seq(Unit) /\ s # <<>> /\ Len(s) \in Nat
    BY <1>4, LenProperties DEF Serve
  <2>2. Head(s) \in Unit
    BY <2>1, HeadTailProperties
  <2>3. k \in Nat \ {0}
    BY <2>2 DEF Unit
  <2>4. \A i \in (k + 1)..Len(s) : s[i] \in Unit
    BY <2>1, <2>3, ElementOfSeq
  <2> HIDE DEF s, k
  <2>5. /\ SubSeq(s, k + 1, Len(s)) \in Seq(Unit)
        /\ Len(SubSeq(s, k + 1, Len(s))) = IF k + 1 <= Len(s) THEN Len(s) - (k + 1) + 1 ELSE 0
        /\ \A i \in 1..(Len(s) - (k + 1) + 1) : SubSeq(s, k + 1, Len(s))[i] = s[(k + 1) + i - 1]
    BY <2>1, <2>3, <2>4, SubSeqProperties
  <2>6. ASSUME NEW i \in 1..Len(SubSeq(s, k + 1, Len(s)))
        PROVE  \E j \in 1..Len(s) : SubSeq(s, k + 1, Len(s))[i] = s[j]
    <3>1. i \in 1..(Len(s) - (k + 1) + 1) /\ (k + 1) + i - 1 \in 1..Len(s)
      BY <2>1, <2>3, <2>5
    <3>2. QED
      BY <2>5, <3>1
  <2>7. inbox' = [inbox EXCEPT ![fd] = SubSeq(s, k + 1, Len(s))]
    BY <1>4 DEF s, k
  <2>8. \A f \in Fd : \A i \in 1..Len(inbox'[f]) :
          \E j \in 1..Len(inbox[f]) : inbox'[f][i] = inbox[f][j]
    <3>1. ASSUME NEW f \in Fd \ {fd}
          PROVE  inbox'[f] = inbox[f]
      BY <2>7
    <3>2. inbox'[fd] = SubSeq(s, k + 1, Len(s))
      BY <2>7
    <3>3. \A i \in 1..Len(inbox'[fd]) : \E j \in 1..Len(inbox[fd]) : inbox'[fd][i] = inbox[fd][j]
      BY <2>6, <3>2 DEF s
    <3>4. QED
      BY <3>1, <3>3
  <2>9. QED
    BY <2>1, <2>5, <2>7, <2>8 DEF s
<1>5. QED
  BY <1>2, <1>3, <1>4 DEF Peer, Establish, Refuse, PeerClose, PeerReset, Serve, Arrive,
     dropStreams, streamVars

LEMMA PeerInv ==
    ASSUME ClientsInv, PeerStep
    PROVE  Shared' /\ NoCrossTalk'
<1>1. PICK fd \in Fd : Peer(fd)
  BY DEF PeerStep
<1>2. /\ UNCHANGED <<calls, socket, socketB, owner, stranded>>
      /\ \A f \in Fd : kernel'[f] = "closed" <=> kernel[f] = "closed"
  BY <1>1, PeerKeepsApart DEF PeerStep, varsB, ClientsInv, Apart, Peer, Establish, Refuse,
     PeerClose, PeerReset, Serve, Arrive, kernelOnly, localVars
<1>3. /\ inbox' \in [Fd -> Seq(Unit)]
      /\ \A f \in Fd : inbox[f] = <<>> => inbox'[f] = <<>>
      /\ \A f \in Fd : \A i \in 1..Len(inbox'[f]) :
           \E j \in 1..Len(inbox[f]) : inbox'[f][i] = inbox[f][j]
  BY <1>1, PeerTakes DEF ClientsInv, Shared
<1>4. Shared'
  BY <1>2, <1>3 DEF ClientsInv, Shared, Known
<1>5. \A f \in Fd : DOMAIN inbox[f] = 1..Len(inbox[f]) /\ DOMAIN inbox'[f] = 1..Len(inbox'[f])
  BY <1>3, LenProperties DEF ClientsInv, Shared
<1>6. \A client : \A f \in Fd : BytesOf(client, f) =>
        \A i \in DOMAIN inbox'[f] : owner[inbox'[f][i].id] = client
  <2>1. ASSUME NEW client, NEW f \in Fd, BytesOf(client, f), NEW i \in DOMAIN inbox'[f]
        PROVE  owner[inbox'[f][i].id] = client
    <3>1. PICK j \in 1..Len(inbox[f]) : inbox'[f][i] = inbox[f][j]
      BY <1>3, <1>5
    <3>2. QED
      BY <1>5, <2>1, <3>1 DEF BytesOf
  <2>2. QED
    BY <2>1
<1>7. NoCrossTalk'
  BY <1>2, <1>6, ZenonT(30) DEF ClientsInv, Apart, NoCrossTalk, BytesOf
<1>8. QED
  BY <1>4, <1>7

-----------------------------------------------------------------------------
(***************************************************************************)
(* Every step preserves the invariant.                                     *)
(***************************************************************************)
LEMMA StepAInv ==
    ASSUME ClientsInv, StepA
    PROVE  Shared' /\ SideA' /\ SideB' /\ NoCrossTalk'
<1>1. PICK g \in G :
        /\ Start(g) \/ Cancel(g) \/ Step(g)
        /\ stranded' = IF Strands(pc[g], pc'[g], ret[g], err'[g]) THEN stranded \cup {"A"} ELSE stranded
  BY DEF StepA
<1>2. SideA /\ SideB /\ Shared /\ Apart /\ NoCrossTalk /\ kernel \in Table /\ socket \in Fd /\ socketB \in Fd
      /\ socket # socketB /\ kernel[socketB] # "closed" /\ msgrFd \in Fd
  BY DEF ClientsInv, Apart, NumbersApart, SideA
<1>3. OwnerMove("A")
  BY <1>1, <1>2, StepCommand DEF OwnerMove, StepA
<1>4. SideA'
  BY <1>1, <1>2, <1>3, StepSide
<1>5. stranded \subseteq stranded' /\ UNCHANGED varsB
  BY <1>1 DEF StepA
<1>6. SideB'
  <2>1. \A who, id : Owns(who, id) => Owns(who, id)'
    BY <1>2, <1>3, OwnedStays DEF Owns, OwnsNext
  <2>2. /\ pcB' \in [H -> Labels] /\ cmdB' \in [H -> Message]
        /\ DOMAIN retB' = H /\ DOMAIN errB' = H /\ msgrFdB' \in Fd
        /\ DOMAIN sendBufB' = {"len", "data", "sent"}
        /\ sendBufB'.data \in Seq(Unit) /\ sendBufB'.sent \in Nat
    BY <1>2, <1>5 DEF varsB, SideB
  <2>3. B!MutualExclusion'
    BY <1>2, <1>5 DEF varsB, SideB, B!MutualExclusion, B!Inside
  <2>4. (\A h \in H : pcB[h] # "idle" => Owns("B", cmdB[h].id))'
    BY <1>2, <1>5, <2>1 DEF varsB, SideB
  <2>5. OwnUnits("B", sendBufB.data)'
    BY <1>2, <1>5, <2>1 DEF varsB, SideB, OwnUnits
  <2>6. ("B" \in stranded \/ msgrFdB = socketB \/ StrayB)'
    BY <1>2, <1>5 DEF varsB, SideB, StrayB
  <2>7. QED
    BY <2>2, <2>3, <2>4, <2>5, <2>6 DEF SideB
<1>7. SendMove("A", msgrFd, socket, socket') \/ QuietMove(socket, socket', kernel, kernel', inbox, inbox')
  BY <1>1, <1>2, StepMove, StepSends DEF QuietMove, Stays
<1>8. /\ Shared'
      /\ BytesOf("A", socket) => \A i \in DOMAIN inbox'[socket'] : owner'[inbox'[socket'][i].id] = "A"
      /\ "A" \notin stranded =>
           \A who : BytesOf(who, socketB) => \A i \in DOMAIN inbox'[socketB] : owner'[inbox'[socketB][i].id] = who
  BY <1>2, <1>3, <1>7, InboxMoves
<1>9. NoCrossTalk'
  BY <1>2, <1>5, <1>8 DEF NoCrossTalk, BytesOf, varsB
<1>10. QED
  BY <1>4, <1>6, <1>8, <1>9

LEMMA StepBInv ==
    ASSUME ClientsInv, StepB
    PROVE  Shared' /\ SideA' /\ SideB' /\ NoCrossTalk'
<1>1. PICK h \in H :
        /\ B!Start(h) \/ B!Cancel(h) \/ B!Step(h)
        /\ stranded' = IF Strands(pcB[h], pcB'[h], retB[h], errB'[h]) THEN stranded \cup {"B"} ELSE stranded
  BY DEF StepB
<1>2. SideA /\ SideB /\ Shared /\ Apart /\ NoCrossTalk /\ kernel \in Table /\ socket \in Fd /\ socketB \in Fd
      /\ socket # socketB /\ kernel[socket] # "closed" /\ msgrFdB \in Fd
  BY DEF ClientsInv, Apart, NumbersApart, SideB
<1>3. OwnerMove("B")
  BY <1>1, <1>2, StepCommandB DEF OwnerMove, StepB
<1>4. SideB'
  BY <1>1, <1>2, <1>3, StepSideB
<1>5. stranded \subseteq stranded' /\ UNCHANGED varsA
  BY <1>1 DEF StepB
<1>6. UNCHANGED <<pc, cmd, ret, err, processing, socket, msgrFd, sendBuf>>
  BY <1>5 DEF varsA, retryVars, outVars, connVars, bufVars
<1>7. SideA'
  <2>1. \A who, id : Owns(who, id) => Owns(who, id)'
    BY <1>2, <1>3, OwnedStays DEF Owns, OwnsNext
  <2>2. /\ pc' \in [G -> Labels] /\ cmd' \in [G -> Message]
        /\ DOMAIN ret' = G /\ DOMAIN err' = G /\ msgrFd' \in Fd
        /\ DOMAIN sendBuf' = {"len", "data", "sent"}
        /\ sendBuf'.data \in Seq(Unit) /\ sendBuf'.sent \in Nat
    BY <1>2, <1>6 DEF SideA
  <2>3. MutualExclusion'
    BY <1>2, <1>6 DEF SideA, MutualExclusion, Inside
  <2>4. (\A g \in G : pc[g] # "idle" => Owns("A", cmd[g].id))'
    BY <1>2, <1>6, <2>1 DEF SideA
  <2>5. OwnUnits("A", sendBuf.data)'
    BY <1>2, <1>6, <2>1 DEF SideA, OwnUnits
  <2>6. ("A" \in stranded \/ msgrFd = socket \/ StrayA)'
    BY <1>2, <1>5, <1>6 DEF SideA, StrayA
  <2>7. QED
    BY <2>2, <2>3, <2>4, <2>5, <2>6 DEF SideA
<1>8. SendMove("B", msgrFdB, socketB, socketB')
        \/ QuietMove(socketB, socketB', kernel, kernel', inbox, inbox')
  BY <1>1, <1>2, StepMoveB, StepSendsB DEF QuietMove, Stays
<1>9. /\ Shared'
      /\ BytesOf("B", socketB) => \A i \in DOMAIN inbox'[socketB'] : owner'[inbox'[socketB'][i].id] = "B"
      /\ "B" \notin stranded =>
           \A who : BytesOf(who, socket) => \A i \in DOMAIN inbox'[socket] : owner'[inbox'[socket][i].id] = who
  BY <1>2, <1>3, <1>8, InboxMoves
<1>10. NoCrossTalk'
  BY <1>2, <1>5, <1>6, <1>9 DEF NoCrossTalk, BytesOf
<1>11. QED
  BY <1>4, <1>7, <1>9, <1>10

\* A step of the kernel or of a server, and no step: what a client is does not change.
LEMMA SidesStay ==
    ASSUME ClientsInv, UNCHANGED <<varsA, varsB, calls, owner, stranded>>
    PROVE  SideA' /\ SideB'
<1>1. UNCHANGED <<pc, cmd, ret, err, processing, socket, msgrFd, sendBuf>>
  BY DEF varsA, retryVars, outVars, connVars, bufVars
<1>2. UNCHANGED <<pcB, cmdB, retB, errB, processingB, socketB, msgrFdB, sendBufB>>
  BY DEF varsB
<1>3. SideA'
  BY <1>1 DEF ClientsInv, SideA, MutualExclusion, Inside, StrayA, Owns, OwnUnits
<1>4. SideB'
  BY <1>2 DEF ClientsInv, SideB, B!MutualExclusion, B!Inside, StrayB, Owns, OwnUnits
<1>5. QED
  BY <1>3, <1>4

LEMMA InitClientsInv == ClientsInit => ClientsInv
<1> SUFFICES ASSUME ClientsInit PROVE ClientsInv
  OBVIOUS
<1>1. <<>> \in Seq(Unit) /\ <<>> \in Seq({"A", "B"}) /\ Len(<<>>) = 0 /\ DOMAIN <<>> = {}
  BY EmptySeq
<1>2. Apart
  BY InitApart
<1>3. Shared /\ NoCrossTalk
  BY <1>1, <1>2 DEF ClientsInit, NewConnector, noBytes, Shared, Known, NoCrossTalk, BytesOf,
     Apart
<1>4. SideA
  BY <1>1 DEF ClientsInit, NewConnector, SideA, Labels, Message, NoCmd, MutualExclusion, Inside,
     WorkLabels, SendLabels, RecvLabels, ConnLabels, OwnUnits
<1>5. SideB
  BY <1>1 DEF ClientsInit, B!NewConnector, SideB, Labels, Message, B!NoCmd,
     B!MutualExclusion, B!Inside, B!WorkLabels, B!SendLabels, B!RecvLabels, B!ConnLabels,
     OwnUnits
<1>6. QED
  BY <1>2, <1>3, <1>4, <1>5 DEF ClientsInv

LEMMA NextClientsInv == ClientsInv /\ Apart' /\ [ClientsNext]_clientsVars => ClientsInv'
<1> SUFFICES ASSUME ClientsInv, Apart', [ClientsNext]_clientsVars PROVE ClientsInv'
  OBVIOUS
<1>1. CASE StepA
  BY <1>1, StepAInv DEF ClientsInv
<1>2. CASE StepB
  BY <1>2, StepBInv DEF ClientsInv
<1>3. CASE PeerStep
  <2>1. UNCHANGED <<varsA, varsB, calls, owner, stranded>>
    BY <1>3 DEF PeerStep, Peer, Establish, Refuse, PeerClose, PeerReset, Serve, Arrive,
       kernelOnly, varsA, localVars
  <2>2. QED
    BY <1>3, <2>1, PeerInv, SidesStay DEF ClientsInv
<1>4. CASE UNCHANGED clientsVars
  <2>1. UNCHANGED <<varsA, varsB, calls, owner, stranded, inbox, kernel, socket, socketB>>
    BY <1>4 DEF clientsVars, vars, varsA, varsB, localVars, connVars, streamVars
  <2>2. Shared' /\ NoCrossTalk'
    BY <2>1 DEF ClientsInv, Shared, Known, NoCrossTalk, BytesOf
  <2>3. QED
    BY <2>1, <2>2, SidesStay DEF ClientsInv
<1>5. QED
  BY <1>1, <1>2, <1>3, <1>4 DEF ClientsNext

\* What a client sends is on its own connection (Send, ChangeSocketFd, reconnect).
THEOREM ClientsInvariance == ClientsSpec => []ClientsInv
BY InitClientsInv, NextClientsInv, ApartInvariance, PTL DEF ClientsSpec

\* Until a reconnect() of a client has failed, none of its commands reaches the
\* connection of the other client, although socket(2) gives both the same numbers.
THEOREM CommandsStayApart == ClientsSpec => []NoCrossTalk
<1>1. ClientsInv => NoCrossTalk
  BY DEF ClientsInv
<1>2. QED
  BY <1>1, ClientsInvariance, PTL

=============================================================================

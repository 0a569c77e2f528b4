--------------------------- MODULE CommandLogProofs ---------------------------
(***************************************************************************)
(* What the server executes.  Whatever fails, is cancelled or times out, a *)
(* connection executes no command twice; and as long as a connection gives *)
(* every command its own reply (ConnectionFaithful) and nobody closes it,  *)
(* no command is executed after it has returned.                           *)
(***************************************************************************)
EXTENDS CommandLog, ConnectionFaithful

-----------------------------------------------------------------------------
(***************************************************************************)
(* The inductive invariant: a connection has not heard of a command that   *)
(* was not begun to be sent on it.  Only send() from position 0 begins a   *)
(* request, and it does so on the connection on which the command starts,  *)
(* or on one that reconnect() has just made.                               *)
(***************************************************************************)

\* A unit that begins a request.
Begins(u, id) == u.part = 1 /\ u.id = id

\* The command was executed, or its request was begun: of a connection with these
\* bytes in front of the server and this history.
HeardIn(bytes, history, id) ==
    \/ \E i \in 1..Len(history) : history[i] = id
    \/ \E i \in 1..Len(bytes) : Begins(bytes[i], id)

OnceIn(bytes, history) ==
    /\ \A i, j \in 1..Len(history) : history[i] = history[j] => i = j
    /\ \A i, j \in 1..Len(bytes) : bytes[i].part = 1 /\ Begins(bytes[j], bytes[i].id) => i = j
    /\ \A i \in 1..Len(bytes), j \in 1..Len(history) : ~Begins(bytes[i], history[j])

Heard(fd, id) == HeardIn(inbox[fd], executed[fd], id)

Once(fd) == OnceIn(inbox[fd], executed[fd])

Unused(fd) == inbox[fd] = <<>> /\ executed[fd] = <<>>

LogType == executed \in [Fd -> Seq(Nat)]

OnceEach == \A fd \in Fd : Once(fd)

\* Nothing is heard before a connection is up and after it is closed.
SilentIfDown == \A fd \in Fd : kernel[fd] \in NotYetUp \cup {"closed"} => Unused(fd)

Calling(g) == pc[g] \notin {"idle", "dead"}

Numbered ==
    /\ \A fd \in Fd, id \in Nat : Heard(fd, id) => id <= calls
    /\ \A g \in G : Calling(g) => cmd[g].id <= calls
    /\ \A g, h \in G : Calling(g) /\ Calling(h) /\ cmd[g].id = cmd[h].id => g = h

\* Where the request of g is not begun yet.
Unheard(g) ==
    /\ pc[g] \in {"client", "begin", "encode"} => \A fd \in Fd : ~Heard(fd, cmd[g].id)
    /\ pc[g] = "encode" => Empty
    /\ pc[g] \in StreamLabels \cup ConnLabels => sendBuf.data = Request(cmd[g])
    /\ pc[g] \in SendLabels /\ sendBuf.sent = 0 => ~Heard(msgrFd, cmd[g].id)
    /\ pc[g] \in ConnLabels =>
          /\ ret[g] = "sendConn" /\ sendBuf.sent = 0 => ~Heard(msgrFd, cmd[g].id)
          /\ ret[g] \in {"send", "resend", "trunc"} => Unused(socket)

LInv == LogType /\ OnceEach /\ SilentIfDown /\ Numbered /\ \A g \in G : Unheard(g)

LEMMA InitLInv == LogInit => LInv
<1> SUFFICES ASSUME LogInit PROVE LInv
  OBVIOUS
<1> <<>> \in Seq(Nat) /\ Len(<<>>) = 0
  BY EmptySeq
<1> USE DEF LogInit, Init, NewConnector, noBytes
<1>1. LogType /\ \A fd \in Fd : Unused(fd)
  BY DEF LogType, Unused
<1>2. OnceEach /\ SilentIfDown
  BY <1>1 DEF OnceEach, Once, OnceIn, SilentIfDown, Unused
<1>3. \A fd \in Fd : \A id : ~Heard(fd, id)
  BY <1>1 DEF Heard, HeardIn, Unused
<1>4. Numbered
  BY <1>3 DEF Numbered, Calling
<1>5. \A g \in G : Unheard(g)
  BY DEF Unheard, StreamLabels, SendLabels, RecvLabels, ConnLabels
<1>6. QED
  BY <1>1, <1>2, <1>4, <1>5 DEF LInv

-----------------------------------------------------------------------------
(***************************************************************************)
(* Steps after which a connection has heard of nothing new.                *)
(***************************************************************************)
Recedes(fd) ==
    /\ executed'[fd] \in Seq(Nat)
    /\ Once(fd)'
    /\ \A id : Heard(fd, id)' => Heard(fd, id)
    /\ Unused(fd) => Unused(fd)'

LEMMA LogStep ==
    ASSUME ConnectionStep, NEW fd \in Fd
    PROVE  executed'[fd] = IF kernel'[fd] \in {"closed", "fresh"} THEN <<>>
                           ELSE IF Executes(fd) THEN Append(executed[fd], Head(inbox[fd]).id)
                           ELSE executed[fd]
BY DEF ConnectionStep

\* Bytes stay, or are dropped.
LEMMA Dropped ==
    ASSUME LInv, ConnectionStep, NEW fd \in Fd, inbox'[fd] \in {inbox[fd], <<>>}, ~Executes(fd)
    PROVE  Recedes(fd)
<1>1. executed'[fd] \in {executed[fd], <<>>} /\ executed[fd] \in Seq(Nat) /\ Once(fd)
  BY LogStep DEF LInv, LogType, OnceEach
<1>2. <<>> \in Seq(Nat) /\ Len(<<>>) = 0
  BY EmptySeq
<1>3. Once(fd)'
  <2>1. CASE executed'[fd] = executed[fd] /\ inbox'[fd] = inbox[fd]
    BY <1>1, <2>1 DEF Once, OnceIn, Begins
  <2>2. CASE executed'[fd] = executed[fd] /\ inbox'[fd] = <<>>
    BY <1>1, <1>2, <2>2 DEF Once, OnceIn, Begins
  <2>3. CASE executed'[fd] = <<>> /\ inbox'[fd] = inbox[fd]
    BY <1>1, <1>2, <2>3 DEF Once, OnceIn, Begins
  <2>4. CASE executed'[fd] = <<>> /\ inbox'[fd] = <<>>
    BY <1>2, <2>4 DEF Once, OnceIn, Begins
  <2>5. QED
    BY <1>1, <2>1, <2>2, <2>3, <2>4
<1>4. \A id : Heard(fd, id)' => Heard(fd, id)
  BY <1>1, <1>2 DEF Heard, HeardIn, Begins
<1>5. QED
  BY <1>1, <1>2, <1>3, <1>4 DEF Recedes, Unused

\* Where no byte moves, none is taken.
LEMMA NoneTaken ==
    ASSUME TInv, NEW fd \in Fd, inbox'[fd] = inbox[fd]
    PROVE  ~Executes(fd)
<1>1. Len(inbox[fd]) \in Nat
  BY LenProperties DEF TInv, StreamType
<1>2. QED
  BY <1>1 DEF Executes

\* A command at the head of what has arrived is executed, and gone from there.
LEMMA HeadExecuted ==
    ASSUME NEW s \in Seq(Unit), NEW ex \in Seq(Nat), s # <<>>, OnceIn(s, ex),
           Len(s) >= Head(s).of,
           SubSeq(s, 1, Head(s).of) = Request([id |-> Head(s).id, len |-> Head(s).of])
    PROVE  /\ SubSeq(s, Head(s).of + 1, Len(s)) \in Seq(Unit)
           /\ Len(SubSeq(s, Head(s).of + 1, Len(s))) < Len(s)
           /\ Append(ex, Head(s).id) \in Seq(Nat)
           /\ OnceIn(SubSeq(s, Head(s).of + 1, Len(s)), Append(ex, Head(s).id))
           /\ \A id : HeardIn(SubSeq(s, Head(s).of + 1, Len(s)), Append(ex, Head(s).id), id)
                         => HeardIn(s, ex, id)
<1> DEFINE first == Head(s)
           k == first.of
           rest == SubSeq(s, k + 1, Len(s))
           done == Append(ex, first.id)
<1>1. Len(s) \in Nat /\ Len(ex) \in Nat
  BY LenProperties
<1>2. first \in Unit /\ first = s[1] /\ 1 \in 1..Len(s)
  BY <1>1, EmptySeq, HeadTailProperties
<1>3. k \in Nat \ {0} /\ first.id \in Nat
  BY <1>2 DEF Unit
<1>4. first.part = 1
  <2>1. SubSeq(s, 1, k)[1] = first
    BY <1>1, <1>2, <1>3, \A i \in 1..k : s[i] \in Unit, SubSeqProperties
  <2>2. Request([id |-> first.id, len |-> k])[1].part = 1
    BY <1>3 DEF Request
  <2>3. QED
    BY <2>1, <2>2
<1>5. /\ rest \in Seq(Unit) /\ Len(rest) = Len(s) - k
      /\ \A i \in 1..(Len(s) - k) : rest[i] = s[i + k] /\ i + k \in 2..Len(s)
  <2>1. \A i \in (k + 1)..Len(s) : s[i] \in Unit
    BY <1>1, <1>3, ElementOfSeq
  <2>2. k + 1 \in Int /\ Len(s) \in Int /\ Len(s) - (k + 1) + 1 = Len(s) - k
    BY <1>1, <1>3
  <2> HIDE DEF k, rest
  <2>3. /\ SubSeq(s, k + 1, Len(s)) \in Seq(Unit)
        /\ Len(SubSeq(s, k + 1, Len(s))) = IF k + 1 <= Len(s) THEN Len(s) - (k + 1) + 1 ELSE 0
        /\ \A i \in 1..(Len(s) - (k + 1) + 1) : SubSeq(s, k + 1, Len(s))[i] = s[(k + 1) + i - 1]
    BY <2>1, <2>2, SubSeqProperties
  <2>4. Len(s) >= k /\ rest = SubSeq(s, k + 1, Len(s))
    BY DEF k, rest
  <2>5. rest \in Seq(Unit) /\ Len(rest) = Len(s) - k
    <3>1. \A n, m \in Nat : n >= m => (IF m + 1 <= n THEN n - (m + 1) + 1 ELSE 0) = n - m
      OBVIOUS
    <3>2. k \in Nat
      BY <1>3
    <3>3. QED
      BY <1>1, <2>3, <2>4, <3>1, <3>2
  <2>6. ASSUME NEW i \in 1..(Len(s) - k)
        PROVE  rest[i] = s[i + k] /\ i + k \in 2..Len(s)
    <3>1. (k + 1) + i - 1 = i + k /\ i + k \in 2..Len(s)
      BY <1>1, <1>3
    <3>2. i \in 1..(Len(s) - (k + 1) + 1)
      BY <2>2
    <3>3. rest[i] = s[(k + 1) + i - 1]
      BY <2>3, <2>4, <3>2
    <3>4. QED
      BY <3>1, <3>3
  <2>7. QED
    BY <2>5, <2>6
<1>6. Len(rest) \in Nat /\ Len(rest) < Len(s)
  <2>1. \A n, m, l \in Nat : l = n - m /\ m # 0 => l < n
    OBVIOUS
  <2>2. Len(rest) \in Nat
    BY <1>5, LenProperties
  <2>3. k \in Nat /\ k # 0
    BY <1>3
  <2> HIDE DEF k, rest
  <2>4. QED
    BY <1>1, <1>5, <2>1, <2>2, <2>3
<1>7. /\ done \in Seq(Nat) /\ Len(done) = Len(ex) + 1
      /\ \A i \in 1..Len(ex) : done[i] = ex[i]
      /\ done[Len(ex) + 1] = first.id
  BY <1>3, AppendProperties
<1>8. k \in Nat \ {0} /\ first.id \in Nat
  BY <1>3
<1> HIDE DEF first, k, rest, done
<1>9. \A i \in 1..Len(rest) : i + k \in 1..Len(s) /\ i + k \in 2..Len(s) /\ rest[i] = s[i + k] /\ i \in Nat
  <2>1. ASSUME NEW i \in 1..Len(rest)
        PROVE  i + k \in 1..Len(s) /\ i + k \in 2..Len(s) /\ rest[i] = s[i + k] /\ i \in Nat
    <3>1. i \in 1..(Len(s) - k)
      BY <1>5
    <3>2. rest[i] = s[i + k] /\ i + k \in 2..Len(s)
      BY <1>5, <3>1
    <3>3. \A n \in Nat : \A m \in 2..n : m \in 1..n
      OBVIOUS
    <3>4. i \in Nat
      BY <1>6
    <3>5. QED
      BY <1>1, <3>2, <3>3, <3>4
  <2>2. QED
    BY <2>1
<1>10. \A i \in 1..Len(ex) : ex[i] # first.id
  BY <1>2, <1>4 DEF OnceIn, Begins
<1>11. \A i \in 2..Len(s) : ~(s[i].part = 1 /\ s[i].id = first.id)
  BY <1>1, <1>2, <1>4 DEF OnceIn, Begins
<1>12. OnceIn(rest, done)
  <2>1. ASSUME NEW i \in 1..Len(done), NEW j \in 1..Len(done), done[i] = done[j]
        PROVE  i = j
    <3>1. \A m, n \in 1..Len(ex) : ex[m] = ex[n] => m = n
      BY DEF OnceIn
    <3>2. i \in 1..Len(ex) \cup {Len(ex) + 1} /\ j \in 1..Len(ex) \cup {Len(ex) + 1}
      BY <1>1, <1>7
    <3>3. QED
      BY <1>7, <1>10, <2>1, <3>1, <3>2
  <2>2. ASSUME NEW i \in 1..Len(rest), NEW j \in 1..Len(rest),
               rest[i].part = 1, rest[j].part = 1, rest[j].id = rest[i].id
        PROVE  i = j
    <3>1. /\ i + k \in 1..Len(s) /\ s[i + k] = rest[i]
          /\ j + k \in 1..Len(s) /\ s[j + k] = rest[j]
          /\ i \in Nat /\ j \in Nat
      BY <1>9
    <3>2. i + k = j + k
      BY <2>2, <3>1 DEF OnceIn, Begins
    <3>3. QED
      BY <1>8, <3>1, <3>2
  <2>3. ASSUME NEW i \in 1..Len(rest), NEW j \in 1..Len(done),
               rest[i].part = 1, rest[i].id = done[j]
        PROVE  FALSE
    <3>1. i + k \in 2..Len(s) /\ s[i + k].part = 1 /\ s[i + k].id = done[j]
      BY <1>9, <2>3
    <3>2. CASE j = Len(ex) + 1
      BY <1>7, <1>11, <3>1, <3>2
    <3>3. CASE j \in 1..Len(ex)
      <4>1. ~Begins(s[i + k], ex[j])
        BY <1>9, <3>3 DEF OnceIn
      <4>2. QED
        BY <1>7, <3>1, <3>3, <4>1 DEF Begins
    <3>4. QED
      BY <1>1, <1>7, <3>2, <3>3
  <2>4. QED
    BY <2>1, <2>2, <2>3 DEF OnceIn, Begins
<1>13. ASSUME NEW id, HeardIn(rest, done, id)
       PROVE  HeardIn(s, ex, id)
  <2>1. CASE \E i \in 1..Len(done) : done[i] = id
    <3>1. id = first.id \/ \E i \in 1..Len(ex) : ex[i] = id
      BY <1>1, <1>7, <2>1
    <3>2. QED
      BY <1>2, <1>4, <3>1 DEF HeardIn, Begins
  <2>2. CASE \E i \in 1..Len(rest) : Begins(rest[i], id)
    <3>1. PICK i \in 1..Len(rest) : rest[i].part = 1 /\ rest[i].id = id
      BY <2>2 DEF Begins
    <3>2. i + k \in 1..Len(s) /\ s[i + k].part = 1 /\ s[i + k].id = id
      BY <1>9, <3>1
    <3>3. QED
      BY <3>2 DEF HeardIn, Begins
  <2>3. QED
    BY <1>13, <2>1, <2>2 DEF HeardIn
<1>14. QED
  BY <1>5, <1>6, <1>7, <1>12, <1>13 DEF rest, done, k, first

\* The server executes a command of a connection in use.
LEMMA Served ==
    ASSUME LInv, Shape, TInv, TInv', ConnectionStep, NEW fd \in Fd, Serve(fd), kernel' = kernel
    PROVE  Recedes(fd)
<1> DEFINE s == inbox[fd]
           k == Head(s).of
           ex == executed[fd]
           rest == SubSeq(s, k + 1, Len(s))
           done == Append(ex, Head(s).id)
<1>1. s \in Seq(Unit) /\ s # <<>> /\ ex \in Seq(Nat) /\ OnceIn(s, ex)
  BY DEF Serve, TInv, StreamType, LInv, LogType, OnceEach, Once
<1>2. kernel[fd] = "up" /\ kernel' # [kernel EXCEPT ![fd] = "eof"]
  BY DEF Serve, Shape
<1>3. /\ Len(s) >= k
      /\ SubSeq(s, 1, k) = Request([id |-> Head(s).id, len |-> k])
      /\ inbox' = [inbox EXCEPT ![fd] = rest]
  BY <1>2 DEF Serve
<1>4. inbox'[fd] = rest
  BY <1>3 DEF TInv, StreamType
<1> HIDE DEF rest, done, s, ex, k
<1>5. /\ Len(rest) < Len(s) /\ done \in Seq(Nat) /\ OnceIn(rest, done)
      /\ \A id : HeardIn(rest, done, id) => HeardIn(s, ex, id)
  BY <1>1, <1>3, HeadExecuted DEF rest, done, k
<1>6. executed'[fd] = done
  <2>1. Executes(fd)
    BY <1>2, <1>4, <1>5 DEF Executes, s
  <2>2. QED
    BY <1>2, <2>1, LogStep DEF done, s, ex
<1>7. QED
  BY <1>1, <1>4, <1>5, <1>6 DEF Recedes, Unused, Once, Heard, s, ex

\* Nothing new is heard anywhere.
LEMMA AllRecede ==
    ASSUME LInv, ConnectionStep, \A fd \in Fd : Recedes(fd)
    PROVE  LogType' /\ OnceEach'
<1>1. DOMAIN executed' = Fd /\ executed' = [fd \in Fd |-> executed'[fd]]
  BY DEF ConnectionStep
<1>2. QED
  BY <1>1 DEF Recedes, LogType, OnceEach

LEMMA NothingMoves ==
    ASSUME LInv, TInv, ConnectionStep, UNCHANGED inbox, NEW fd \in Fd
    PROVE  Recedes(fd)
BY NoneTaken, Dropped

-----------------------------------------------------------------------------
(***************************************************************************)
(* The kernel and the server, Close, and the steps outside Process.        *)
(***************************************************************************)
LEMMA PeerLog ==
    ASSUME LInv, SInv, TInv', ConnectionStep, NEW fd \in Fd, Peer(fd)
    PROVE  LInv'
<1>1. /\ kernel \in [Fd -> State] /\ inbox \in [Fd -> Seq(Unit)] /\ TInv /\ Shape
      /\ UNCHANGED <<pc, cmd, calls, ret, socket, msgrFd, sendBuf, recvBuf>>
  BY DEF SInv, IInv, Shape, TInv, StreamType, Peer, Establish, Refuse, PeerClose, PeerReset, Serve,
     Arrive, kernelOnly, localVars, retryVars, connVars, bufVars
<1>2. ASSUME NEW f \in Fd PROVE Recedes(f)
  <2>1. CASE inbox'[f] = inbox[f]
    BY <1>1, <2>1, NoneTaken, Dropped
  <2>2. CASE f = fd /\ inbox'[f] = <<>> /\ kernel'[f] \in {"eof", "reset"}
    BY <2>2, Dropped DEF Executes
  <2>3. CASE f = fd /\ Serve(fd) /\ kernel' = kernel
    BY <1>1, <2>3, Served
  <2>4. QED
    <3>1. CASE Establish(fd) \/ Refuse(fd) \/ Arrive(fd)
      BY <2>1, <3>1 DEF Establish, Refuse, Arrive, streamVars
    <3>2. CASE PeerClose(fd) \/ PeerReset(fd)
      BY <1>1, <2>1, <2>2, <3>2 DEF PeerClose, PeerReset, dropStreams
    <3>3. CASE Serve(fd)
      BY <1>1, <2>1, <2>2, <2>3, <3>3 DEF Serve
    <3>4. QED
      BY <3>1, <3>2, <3>3 DEF Peer
<1>3. \A f \in Fd : kernel'[f] \in NotYetUp \cup {"closed"} => kernel[f] \in NotYetUp \cup {"closed"}
  BY <1>1 DEF Peer, Establish, Refuse, PeerClose, PeerReset, Serve, Arrive, NotYetUp
<1>4. SilentIfDown'
  BY <1>2, <1>3 DEF LInv, SilentIfDown, Recedes
<1>5. Numbered'
  BY <1>1, <1>2 DEF LInv, Numbered, Calling, Recedes
<1>6. ASSUME NEW g \in G PROVE Unheard(g)'
  <2>1. Unheard(g) /\ msgrFd \in Fd /\ (pc[g] \in ConnLabels => socket \in Fd)
    BY <1>1, UserHasSocket DEF LInv, SInv, IInv, Shape, UsingLabels
  <2>2. Empty => Empty'
    BY <1>1 DEF Empty
  <2>3. QED
    BY <1>1, <1>2, <2>1, <2>2 DEF Unheard, Recedes
<1>7. QED
  BY <1>2, <1>4, <1>5, <1>6, AllRecede DEF LInv

LEMMA CloseLog ==
    ASSUME LInv, SInv, TInv', ConnectionStep, CloseClient
    PROVE  LInv'
<1>1. /\ kernel \in [Fd -> State] /\ inbox \in [Fd -> Seq(Unit)] /\ TInv
      /\ UNCHANGED <<cmd, calls, ret, socket, msgrFd, sendBuf, recvBuf>>
      /\ pc' = pc \/ pc' = [g \in G |-> "dead"]
  BY DEF SInv, IInv, Shape, TInv, StreamType, CloseClient, localVars, retryVars, connVars, bufVars
<1>2. \/ UNCHANGED <<kernel, inbox>>
      \/ /\ socket \in Fd
         /\ kernel' = [kernel EXCEPT ![socket] = "closed"]
         /\ inbox' = [inbox EXCEPT ![socket] = <<>>]
  BY DEF CloseClient, closeSocket, dropStreams, streamVars, SInv, IInv, Shape
<1>3. ASSUME NEW f \in Fd
      PROVE  /\ Recedes(f)
             /\ kernel'[f] = kernel[f] \/ Unused(f)'
  <2>1. CASE inbox'[f] = inbox[f] /\ kernel'[f] = kernel[f]
    BY <1>1, <2>1, NoneTaken, Dropped
  <2>2. CASE inbox'[f] = <<>> /\ kernel'[f] = "closed"
    <3>1. Recedes(f)
      BY <2>2, Dropped DEF Executes
    <3>2. executed'[f] = <<>>
      BY <2>2, LogStep
    <3>3. QED
      BY <2>2, <3>1, <3>2 DEF Unused
  <2>3. QED
    BY <1>1, <1>2, <2>1, <2>2
<1>4. SilentIfDown'
  BY <1>3 DEF LInv, SilentIfDown, Recedes
<1>5. Numbered'
  BY <1>1, <1>3 DEF LInv, Numbered, Calling, Recedes
<1>6. ASSUME NEW g \in G PROVE Unheard(g)'
  <2>1. Unheard(g) /\ msgrFd \in Fd /\ (pc[g] \in ConnLabels => socket \in Fd)
    BY UserHasSocket DEF LInv, SInv, IInv, Shape, UsingLabels
  <2>2. Empty => Empty'
    BY <1>1 DEF Empty
  <2>3. CASE pc' = pc
    BY <1>1, <1>3, <2>1, <2>2, <2>3 DEF Unheard, Recedes
  <2>4. CASE pc' = [h \in G |-> "dead"]
    BY <2>4 DEF Unheard, StreamLabels, SendLabels, RecvLabels, ConnLabels
  <2>5. QED
    BY <1>1, <2>3, <2>4
<1>7. QED
  BY <1>3, <1>4, <1>5, <1>6, AllRecede DEF LInv

LEMMA OuterLog ==
    ASSUME LInv, SInv, TInv', ConnectionStep, NEW g \in G,
           \/ Start(g) \/ Cancel(g) \/ LeaveLoop(g)
           \/ EnterProcess(g) \/ StopProcessing(g)
    PROVE  LInv'
<1>1. /\ pc \in [G -> Labels] /\ cmd \in [G -> Message] /\ calls \in Nat /\ TInv
      /\ UNCHANGED <<ret, socket, msgrFd, sendBuf, recvBuf, kernel, inbox>>
  BY DEF SInv, IInv, Shape, TInv, LocalType, Start, Cancel, LeaveLoop, EnterProcess, StopProcessing,
     retryVars, connVars, bufVars, streamVars
<1>2. \A fd \in Fd : Recedes(fd)
  BY <1>1, NothingMoves
<1>3. SilentIfDown'
  BY <1>1, <1>2 DEF LInv, SilentIfDown, Recedes
<1>4. \A h \in G \ {g} : pc'[h] = pc[h] /\ cmd'[h] = cmd[h]
  BY <1>1 DEF Start, Cancel, LeaveLoop, EnterProcess, StopProcessing, Return, GoTo, localVars
<1>5. ASSUME NEW h \in G, pc'[h] = pc[h], cmd'[h] = cmd[h]
      PROVE  Unheard(h)'
  <2>1. Unheard(h) /\ msgrFd \in Fd /\ (pc[h] \in ConnLabels => socket \in Fd)
    BY UserHasSocket DEF LInv, SInv, IInv, Shape, UsingLabels
  <2>2. Empty => Empty'
    BY <1>1 DEF Empty
  <2>3. QED
    BY <1>1, <1>2, <1>5, <2>1, <2>2 DEF Unheard, Recedes
<1>6. CASE Start(g)
  <2>1. /\ pc'[g] = "client" /\ cmd'[g].id = calls + 1 /\ calls' = calls + 1
    BY <1>1, <1>6 DEF Start, GoTo
  <2>2. \A fd \in Fd : ~Heard(fd, cmd[g].id)'
    <3>1. calls + 1 \in Nat /\ ~(calls + 1 <= calls)
      BY <1>1
    <3>2. \A fd \in Fd : ~Heard(fd, calls + 1)
      BY <3>1 DEF LInv, Numbered
    <3>3. QED
      BY <1>2, <2>1, <3>2 DEF Recedes
  <2>3. Unheard(g)'
    BY <2>1, <2>2 DEF Unheard, StreamLabels, SendLabels, RecvLabels, ConnLabels
  <2>4. \A h \in G : Unheard(h)'
    BY <1>4, <1>5, <2>3
  <2>5. \A h \in G : Calling(h)' => h = g \/ (Calling(h) /\ cmd'[h].id <= calls)
    BY <1>4 DEF LInv, Numbered, Calling
  <2>6. \A fd \in Fd, id \in Nat : Heard(fd, id)' => id <= calls'
    BY <1>1, <1>2, <2>1 DEF LInv, Numbered, Recedes
  <2>7. \A h \in G : Calling(h)' => cmd'[h].id <= calls'
    BY <1>1, <1>4, <2>1, <2>5 DEF Message
  <2>8. ASSUME NEW h \in G, NEW j \in G, Calling(h)', Calling(j)', cmd'[h].id = cmd'[j].id
        PROVE  h = j
    BY <1>1, <1>4, <2>1, <2>5, <2>8 DEF LInv, Numbered
  <2>9. QED
    BY <1>2, <1>3, <2>4, <2>6, <2>7, <2>8, AllRecede DEF LInv, Numbered
<1>7. CASE Cancel(g) \/ EnterProcess(g)
  <2>1. /\ UNCHANGED <<cmd, calls>>
        /\ pc' = pc \/ (pc[g] = "client" /\ pc'[g] = "begin")
    BY <1>1, <1>7 DEF Cancel, EnterProcess, GoTo, localVars
  <2>2. Unheard(g)'
    <3>1. CASE pc' = pc
      BY <1>5, <2>1, <3>1
    <3>2. CASE pc[g] = "client" /\ pc'[g] = "begin"
      BY <1>2, <2>1, <3>2 DEF LInv, Unheard, Recedes, StreamLabels, SendLabels, RecvLabels, ConnLabels
    <3>3. QED
      BY <2>1, <3>1, <3>2
  <2>3. \A h \in G : Calling(h)' => Calling(h)
    BY <1>4, <2>1 DEF Calling
  <2>4. Numbered'
    BY <1>2, <2>1, <2>3 DEF LInv, Numbered, Recedes
  <2>5. QED
    BY <1>2, <1>3, <1>4, <1>5, <2>1, <2>2, <2>4, AllRecede DEF LInv
<1>8. CASE LeaveLoop(g) \/ StopProcessing(g)
  <2>1. pc'[g] = "idle" /\ calls' = calls
    BY <1>1, <1>8 DEF LeaveLoop, StopProcessing, Return, GoTo
  <2>2. Unheard(g)'
    BY <2>1 DEF Unheard, StreamLabels, SendLabels, RecvLabels, ConnLabels
  <2>3. \A h \in G : Calling(h)' => h # g /\ Calling(h)
    BY <1>4, <2>1 DEF Calling
  <2>4. Numbered'
    BY <1>2, <1>4, <2>1, <2>3 DEF LInv, Numbered, Recedes
  <2>5. QED
    BY <1>2, <1>3, <1>4, <1>5, <2>2, <2>4, AllRecede DEF LInv
<1>9. QED
  BY <1>6, <1>7, <1>8

-----------------------------------------------------------------------------
(***************************************************************************)
(* The steps inside Process.                                               *)
(***************************************************************************)

\* connect(2) is called: a new attempt, or the result of the last one.
Attempts(g) ==
    /\ pc[g] \in ConnLabels /\ kernel[socket] \in NotYetUp
    /\ \E s \in NotYetUp : kernel' = [kernel EXCEPT ![socket] = s]

\* The connection is replaced.
Replaces(g) ==
    /\ pc[g] \in StreamLabels /\ socket \in Fd /\ UNCHANGED sendBuf
    /\ \E caller \in {"send", "resend", "trunc"} : reconnect(g, caller)

\* Who replaces a connection has one.
LEMMA HasSocket ==
    ASSUME SInv, NEW g \in G, kernel[msgrFd] # "closed" \/ pc[g] = "sendPoll"
    PROVE  socket \in Fd
BY UserHasSocket, OpenHasSocket DEF SInv, IInv, Shape, UsingLabels

\* What becomes of the sockets and of what the server has not read.
LEMMA InnerInbox ==
    ASSUME SInv, NEW g \in G, Inner(g)
    PROVE  /\ UNCHANGED <<cmd, calls>>
           /\ \/ SendBytes(g)
              \/ Replaces(g)
              \/ inbox' = inbox /\ (kernel' = kernel \/ Attempts(g))
<1>1. CASE Begin(g) \/ EncodeCmd(g) \/ DecodeReply(g) \/ ClearBufs(g)
  BY <1>1 DEF Begin, EncodeCmd, DecodeReply, ClearBufs, localVars, streamVars
<1>2. CASE Connect(g)
  <2>1. kernel' = kernel \/ Attempts(g)
    BY <1>2 DEF Connect, Attempts, NotYetUp, ConnLabels
  <2>2. QED
    BY <1>2, <2>1 DEF Connect, localVars, streamVars
<1>3. CASE ConnectPoll(g)
  BY <1>3 DEF ConnectPoll, localVars, streamVars
<1>4. CASE SendStep(g)
  <2>1. /\ pc[g] \in StreamLabels /\ UNCHANGED <<cmd, calls>>
        /\ pc[g] = "sendPoll" => socket \in Fd
    BY <1>4, HasSocket DEF SendStep, GiveUpSend, SendBytes, SendBlocked, SendBroken, SendNotConnected,
       SendFails, SendPoll, Sending, SendLabels, StreamLabels, localVars
  <2>2. QED
    BY <1>4, HasSocket, <2>1 DEF Replaces, SendStep, GiveUpSend, SendBlocked, SendBroken, SendNotConnected, SendFails,
       SendPoll, noReconnect, bufVars, streamVars
<1>5. CASE ReceiveStep(g)
  <2>1. pc[g] \in StreamLabels /\ UNCHANGED <<cmd, calls>>
    BY <1>5 DEF ReceiveStep, ReceiveWaits, GiveUpReceive, ReceiveBytes, ReceiveBlocked,
       ReceiveNotConnected, ReceiveClosed, ReceiveFails, ReceivePoll, Receiving, RecvLabels,
       StreamLabels, localVars
  <2>2. CASE ReceiveBytes(g)
    <3>1. /\ UNCHANGED sendBuf /\ (reconnect(g, "trunc") \/ UNCHANGED <<kernel, inbox>>)
          /\ socket \in Fd
      BY HasSocket, <2>2 DEF ReceiveBytes
    <3>2. QED
      BY <2>1, <3>1 DEF Replaces
  <2>3. QED
    BY <1>5, HasSocket, <2>1, <2>2 DEF Replaces, ReceiveStep, ReceiveWaits, GiveUpReceive, ReceiveBlocked,
       ReceiveNotConnected, ReceiveClosed, ReceiveFails, ReceivePoll, Readable, bufVars, streamVars
<1>6. QED
  BY <1>1, <1>2, <1>3, <1>4, <1>5 DEF Inner

\* What a reconnect() does to each descriptor.
LEMMA ReconnectDrops ==
    ASSUME SInv, NEW g \in G, NEW caller, socket \in Fd, reconnect(g, caller), NEW fd \in Fd
    PROVE  \/ inbox'[fd] = inbox[fd] /\ kernel'[fd] = kernel[fd]
           \/ inbox'[fd] \in {inbox[fd], <<>>} /\ kernel'[fd] \in {"closed", "fresh"}
<1>1. kernel \in [Fd -> State] /\ inbox \in [Fd -> Seq(Unit)]
  BY DEF SInv, IInv, Shape, TInv, StreamType
<1>2. QED
  BY <1>1 DEF reconnect, closeSocket, dropStreams

\* In Process the others are not concerned.
LEMMA OthersUnheard ==
    ASSUME LInv, SInv, NEW g \in G, Inner(g), Unheard(g)',
           \A fd \in Fd : \A id : Heard(fd, id)' => Heard(fd, id) \/ id = cmd[g].id
    PROVE  Numbered' /\ \A h \in G : Unheard(h)'
<1>1. PICK label \in WorkLabels : pc' = [pc EXCEPT ![g] = label]
  BY InnerMoves DEF SInv, IInv
<1>2. Inside(g) /\ UNCHANGED <<cmd, calls>>
  BY InnerMoves, InnerInbox DEF SInv, IInv
<1>3. \A h \in G \ {g} : pc'[h] = pc[h] /\ pc'[h] \notin WorkLabels
  BY <1>1, <1>2 DEF SInv, IInv, Shape, MutualExclusion, Inside
<1>4. Calling(g) /\ \A h \in G : Calling(h)' => Calling(h)
  BY <1>2, <1>3 DEF Calling, Inside, WorkLabels, SendLabels, RecvLabels, ConnLabels
<1>5. ASSUME NEW h \in G \ {g}
      PROVE  Unheard(h)'
  <2>1. pc'[h] = "client" => \A fd \in Fd : ~Heard(fd, cmd[h].id)'
    <3>1. pc[h] = "client" => Calling(h) /\ cmd[h].id # cmd[g].id /\ \A fd \in Fd : ~Heard(fd, cmd[h].id)
      BY <1>4 DEF LInv, Unheard, Numbered, Calling
    <3>2. QED
      BY <1>2, <1>3, <3>1
  <2>2. QED
    BY <1>3, <2>1 DEF Unheard, WorkLabels, StreamLabels
<1>6. Numbered'
  BY <1>2, <1>4 DEF LInv, Numbered
<1>7. QED
  BY <1>5, <1>6

LEMMA ReconnectLog ==
    ASSUME LInv, SInv, TInv', ConnectionStep, NEW g \in G, Inner(g), Replaces(g)
    PROVE  LInv'
<1> PICK caller \in {"send", "resend", "trunc"} : reconnect(g, caller)
  BY DEF Replaces
<1> socket \in Fd /\ UNCHANGED sendBuf /\ pc[g] \in StreamLabels
  BY DEF Replaces
<1>1. \A fd \in Fd : /\ inbox'[fd] = inbox[fd] \/ inbox'[fd] = <<>>
                     /\ kernel'[fd] = kernel[fd] \/ kernel'[fd] \in {"closed", "fresh"}
                     /\ inbox'[fd] = inbox[fd] \/ kernel'[fd] \in {"closed", "fresh"}
  BY ReconnectDrops
<1>2. \A fd \in Fd : Recedes(fd)
  BY <1>1, NoneTaken, Dropped DEF Executes, SInv
<1>3. cmd' = cmd /\ pc \in [G -> Labels] /\ ret \in [G -> Callers]
      /\ kernel \in [Fd -> State] /\ inbox \in [Fd -> Seq(Unit)]
  BY InnerInbox DEF SInv, IInv, Shape, TInv, LocalType, StreamType
<1>4. \A fd \in Fd : kernel'[fd] = "closed" => inbox'[fd] = <<>>
  BY <1>3 DEF reconnect, closeSocket, dropStreams, LInv, SilentIfDown, Unused
<1>5. \A fd \in Fd : kernel'[fd] = "fresh" => inbox'[fd] = <<>>
  BY <1>3 DEF reconnect, closeSocket, dropStreams, LInv, SilentIfDown, Unused, NotYetUp
<1>6. \A fd \in Fd : kernel'[fd] \in {"closed", "fresh"} => Unused(fd)'
  BY <1>4, <1>5, LogStep DEF Unused
<1>7. SilentIfDown'
  BY <1>1, <1>2, <1>6 DEF LInv, SilentIfDown, Recedes
<1>8. Unheard(g)'
  <2>1. CASE \E fd \in Fd : /\ socket' = fd
                            /\ kernel' = [closeSocket(socket) EXCEPT ![fd] = "fresh"]
                            /\ callConnect(g, caller)
    <3>1. pc'[g] = "connect" /\ ret'[g] = caller /\ socket' \in Fd /\ kernel'[socket'] = "fresh"
      BY <1>3, <2>1 DEF callConnect, GoTo, closeSocket
    <3>2. Unused(socket)'
      BY <1>6, <3>1
    <3>3. sendBuf'.data = Request(cmd'[g])
      BY <1>3 DEF LInv, Unheard
    <3>4. QED
      BY <3>1, <3>2, <3>3 DEF Unheard, SendLabels, ConnLabels
  <2>2. CASE Fail(g, "other")
    <3>1. pc'[g] = "clear"
      BY <1>3, <2>2 DEF Fail, GoTo
    <3>2. QED
      BY <3>1 DEF Unheard, StreamLabels, SendLabels, RecvLabels, ConnLabels
  <2>3. QED
    BY <2>1, <2>2 DEF reconnect
<1>9. QED
  BY <1>2, <1>7, <1>8, AllRecede, OthersUnheard DEF LInv, Recedes

\* A part of a request behind what was sent before.
Behind(s, c, sent, n) == s \o SubSeq(Request(c), sent + 1, sent + n)

LEMMA RequestAppended ==
    ASSUME NEW c \in Message, NEW s \in Seq(Unit), NEW sent \in 0..c.len, NEW n \in 0..(c.len - sent)
    PROVE  /\ Len(Behind(s, c, sent, n)) = Len(s) + n
           /\ \A i \in 1..Len(s) : Behind(s, c, sent, n)[i] = s[i]
           /\ \A i \in 1..n : Behind(s, c, sent, n)[Len(s) + i]
                                = [id |-> c.id, part |-> sent + i, of |-> c.len]
<1> DEFINE r == SubSeq(Request(c), sent + 1, sent + n)
           t == s \o r
<1>1. /\ Request(c) \in Seq(Unit) /\ Len(Request(c)) = c.len /\ c.len \in Nat
      /\ \A i \in 1..c.len : Request(c)[i] = [id |-> c.id, part |-> i, of |-> c.len]
  BY RequestUnits DEF Message
<1>2. \A i \in (sent + 1)..(sent + n) : Request(c)[i] \in Unit
  BY <1>1, ElementOfSeq
<1>3. /\ r \in Seq(Unit)
      /\ Len(r) = IF sent + 1 <= sent + n THEN (sent + n) - (sent + 1) + 1 ELSE 0
      /\ \A i \in 1..((sent + n) - (sent + 1) + 1) : r[i] = Request(c)[(sent + 1) + i - 1]
  BY <1>2, SubSeqProperties
<1>4. Len(r) = n /\ \A i \in 1..n : r[i] = Request(c)[sent + i]
  <2>1. (sent + n) - (sent + 1) + 1 = n /\ \A i \in 1..n : (sent + 1) + i - 1 = sent + i
    OBVIOUS
  <2> HIDE DEF r
  <2>2. QED
    BY <1>3, <2>1
<1>5. \A i \in 1..n : r[i] = [id |-> c.id, part |-> sent + i, of |-> c.len]
  <2> HIDE DEF r
  <2>1. \A i \in 1..n : sent + i \in 1..c.len
    BY <1>1
  <2>2. QED
    BY <1>1, <1>4, <2>1
<1>6. Len(s) \in Nat /\ n \in Nat
  BY <1>1, LenProperties
<1> HIDE DEF r
<1>7. /\ Len(t) = Len(s) + Len(r)
      /\ \A i \in 1..(Len(s) + Len(r)) : t[i] = IF i <= Len(s) THEN s[i] ELSE r[i - Len(s)]
  BY <1>3, ConcatProperties
<1> HIDE DEF t
<1>8. ASSUME NEW i \in 1..n
      PROVE  t[Len(s) + i] = r[i]
  <2>1. /\ Len(s) + i \in 1..(Len(s) + Len(r)) /\ ~(Len(s) + i <= Len(s))
        /\ (Len(s) + i) - Len(s) = i
    BY <1>4, <1>6
  <2>2. QED
    BY <1>7, <2>1
<1>9. \A i \in 1..Len(s) : t[i] = s[i]
  <2>1. \A i \in 1..Len(s) : i \in 1..(Len(s) + Len(r)) /\ i <= Len(s)
    BY <1>4, <1>6
  <2>2. QED
    BY <1>7, <2>1
<1>10. QED
  <2>1. Behind(s, c, sent, n) = t
    BY DEF Behind, t, r
  <2>2. QED
    BY <1>4, <1>5, <1>7, <1>8, <1>9, <2>1

LEMMA SendBytesLog ==
    ASSUME LInv, SInv, TInv', ConnectionStep, NEW g \in G, SendBytes(g)
    PROVE  LInv'
<1> DEFINE c == cmd[g]
           s == inbox[msgrFd]
           s1 == inbox'[msgrFd]
           ex == executed[msgrFd]
           sent == sendBuf.sent
<1>1. /\ pc[g] = "send" /\ kernel[msgrFd] \in {"up", "eof"} /\ msgrFd \in Fd
      /\ UNCHANGED <<cmd, kernel, msgrFd, socket, ret>> /\ Inner(g) /\ pc \in [G -> Labels]
      /\ c \in Message /\ c.len \in Nat /\ sendBuf.data = Request(c) /\ Unheard(g)
      /\ sendBuf \in [len : Nat, data : Seq(Unit), sent : Nat] /\ inbox \in [Fd -> Seq(Unit)]
  BY DEF SendBytes, Sending, Writable, localVars, retryVars, connVars, Inner, SendStep, LInv, Unheard,
     SInv, IInv, Shape, TInv, LocalType, BufferType, StreamType, Message, StreamLabels, SendLabels
<1>2. Len(sendBuf.data) = c.len /\ sent \in 0..c.len
  BY <1>1, RequestUnits DEF SInv, TInv, BuffersBounded
<1>3. PICK n \in 0..(c.len - sent) :
        /\ n = c.len - sent \/ n > 0
        /\ sendBuf' = addSentBytes(n)
        /\ inbox' = IF kernel[msgrFd] = "up"
                    THEN [inbox EXCEPT ![msgrFd] = @ \o SubSeq(sendBuf.data, sent + 1, sent + n)]
                    ELSE inbox
        /\ GoTo(g, IF n = c.len - sent THEN "receive" ELSE "send")
  BY <1>2 DEF SendBytes
<1>4. sendBuf'.data = Request(c) /\ sendBuf'.sent = sent + n
  BY <1>1, <1>3 DEF addSentBytes
<1>5. Unheard(g)'
  <2>1. CASE n = c.len - sent
    <3>1. pc'[g] = "receive"
      BY <1>1, <1>3, <2>1 DEF GoTo
    <3>2. QED
      BY <1>1, <1>4, <3>1 DEF Unheard, SendLabels, ConnLabels
  <2>2. CASE n # c.len - sent
    <3>1. pc'[g] = "send" /\ sendBuf'.sent # 0
      BY <1>1, <1>2, <1>3, <1>4, <2>2 DEF GoTo
    <3>2. QED
      BY <1>1, <1>4, <3>1 DEF Unheard, SendLabels, ConnLabels
  <2>3. QED
    BY <2>1, <2>2
<1>6. \A fd \in Fd \ {msgrFd} : Recedes(fd)
  BY <1>1, <1>3, NoneTaken, Dropped DEF SInv
<1>7. CASE inbox' = inbox
  <2>1. \A fd \in Fd : Recedes(fd)
    BY <1>7, NothingMoves DEF SInv
  <2>2. SilentIfDown'
    BY <1>1, <2>1 DEF LInv, SilentIfDown, Recedes
  <2>3. QED
    BY <1>1, <1>5, <2>1, <2>2, AllRecede, OthersUnheard DEF LInv, Recedes
<1>8. CASE kernel[msgrFd] = "up"
  <2>1. /\ s \in Seq(Unit) /\ Len(s) \in Nat
        /\ s1 = Behind(s, c, sent, n)
    BY <1>1, <1>3, <1>8, LenProperties DEF Behind
  <2> c \in Message /\ n \in 0..(c.len - sent) /\ n \in Nat /\ sent \in 0..c.len /\ sent \in Nat
    BY <1>1, <1>2
  <2> HIDE DEF s, s1, ex, c, sent
  <2>2. /\ Len(s1) = Len(s) + n
        /\ \A i \in 1..Len(s) : s1[i] = s[i]
        /\ \A i \in 1..n : s1[Len(s) + i] = [id |-> c.id, part |-> sent + i, of |-> c.len]
    BY <2>1, RequestAppended
  <2>3. executed'[msgrFd] = ex /\ ex \in Seq(Nat) /\ Once(msgrFd)
    <3>1. ~(Len(s1) < Len(s))
      BY <2>1, <2>2
    <3>2. ~Executes(msgrFd)
      BY <3>1 DEF Executes, s, s1
    <3>3. QED
      BY <1>1, <1>8, <3>2, LogStep DEF LInv, LogType, OnceEach, ex
  <2>4. ASSUME NEW i \in 1..Len(s1), i \notin 1..Len(s)
        PROVE  s1[i].id = c.id /\ (s1[i].part = 1 => i = Len(s) + 1 /\ sent = 0)
    <3> DEFINE k == i - Len(s)
    <3>1. k \in 1..n /\ Len(s) + k = i
      BY <2>1, <2>2, <2>4
    <3>2. s1[Len(s) + k] = [id |-> c.id, part |-> sent + k, of |-> c.len]
      BY <2>2, <3>1
    <3>3. s1[i].id = c.id /\ s1[i].part = sent + k
      BY <3>1, <3>2
    <3>4. sent + k = 1 => k = 1 /\ sent = 0
      BY <3>1
    <3>5. QED
      BY <2>1, <3>1, <3>3, <3>4
  <2>5. \A i \in 1..Len(s1) : i \in 1..Len(s) \/ s1[i].id = c.id
    BY <2>4
  <2>6. \A i \in 1..Len(s1) : s1[i].part = 1 => i \in 1..Len(s) \/ (i = Len(s) + 1 /\ sent = 0)
    BY <2>4
  <2>7. sent = 0 => /\ \A i \in 1..Len(s) : ~(s[i].part = 1 /\ s[i].id = c.id)
                    /\ \A i \in 1..Len(ex) : ex[i] # c.id
    BY <1>1 DEF Unheard, SendLabels, Heard, HeardIn, Begins, s, ex, c, sent
  <2>8. Once(msgrFd)'
    <3>1. \A i, j \in 1..Len(s1) : s1[i].part = 1 /\ s1[j].part = 1 /\ s1[j].id = s1[i].id => i = j
      BY <2>2, <2>3, <2>5, <2>6, <2>7 DEF Once, OnceIn, Begins, s
    <3>2. \A i \in 1..Len(s1), j \in 1..Len(ex) : ~(s1[i].part = 1 /\ s1[i].id = ex[j])
      <4>1. SUFFICES ASSUME NEW i \in 1..Len(s1), NEW j \in 1..Len(ex),
                            s1[i].part = 1, s1[i].id = ex[j]
                     PROVE  FALSE
        OBVIOUS
      <4>2. CASE i \in 1..Len(s)
        BY <2>2, <2>3, <4>1, <4>2, SMTT(30) DEF Once, OnceIn, Begins, s, ex
      <4>3. CASE i \notin 1..Len(s)
        BY <2>4, <2>7, <4>1, <4>3
      <4>4. QED
        BY <4>2, <4>3
    <3>3. QED
      BY <1>1, <2>3, <3>1, <3>2 DEF Once, OnceIn, Begins, s1, ex
  <2>9. \A id : Heard(msgrFd, id)' => Heard(msgrFd, id) \/ id = c.id
    BY <1>1, <2>2, <2>3, <2>5 DEF Heard, HeardIn, Begins, s, s1, ex
  <2>10. LogType' /\ OnceEach'
    <3>1. \A fd \in Fd : executed'[fd] \in Seq(Nat)
      BY <1>6, <2>3 DEF Recedes
    <3>2. \A fd \in Fd : Once(fd)'
      BY <1>1, <1>6, <2>8 DEF Recedes
    <3>3. DOMAIN executed' = Fd /\ executed' = [fd \in Fd |-> executed'[fd]]
      BY DEF ConnectionStep
    <3>4. QED
      BY <3>1, <3>2, <3>3 DEF LogType, OnceEach
  <2>11. SilentIfDown'
    BY <1>1, <1>6 DEF LInv, SilentIfDown, Recedes, NotYetUp
  <2>12. \A fd \in Fd : \A id : Heard(fd, id)' => Heard(fd, id) \/ id = cmd[g].id
    BY <1>1, <1>6, <2>9 DEF Recedes, c
  <2>13. QED
    BY <1>1, <1>5, <2>10, <2>11, <2>12, OthersUnheard DEF LInv
<1>9. QED
  BY <1>3, <1>7, <1>8

\* Where nothing is sent and no connection is replaced: what the command that g
\* executes may have sent is as it was.
LEMMA CalmUnheard ==
    ASSUME LInv, SInv, NEW g \in G, Inner(g), ~SendBytes(g), ~Replaces(g),
           kernel' = kernel \/ Attempts(g),
           \A fd \in Fd : Recedes(fd)
    PROVE  Unheard(g)'
<1>1. /\ pc \in [G -> Labels] /\ cmd' = cmd /\ cmd[g] \in Message /\ Unheard(g)
      /\ ret \in [G -> Callers] /\ sendBuf \in [len : Nat, data : Seq(Unit), sent : Nat]
      /\ msgrFd \in Fd /\ (pc[g] \in ConnLabels => socket \in Fd)
  BY InnerInbox, UserHasSocket DEF SInv, IInv, Shape, TInv, LocalType, BufferType, LInv, UsingLabels
<1>2. \A fd \in Fd : ~Heard(fd, cmd[g].id) => ~Heard(fd, cmd[g].id)'
  BY <1>1 DEF Recedes
<1>3. CASE pc'[g] \in {"clear", "stop", "decode"}
  BY <1>3 DEF Unheard, StreamLabels, SendLabels, RecvLabels, ConnLabels
<1>4. CASE /\ pc'[g] \in SendLabels /\ pc[g] \in SendLabels
           /\ UNCHANGED <<sendBuf, msgrFd>>
  BY <1>1, <1>2, <1>4 DEF Unheard, StreamLabels, SendLabels, RecvLabels, ConnLabels
<1>5. CASE pc'[g] \in RecvLabels /\ pc[g] \in RecvLabels /\ UNCHANGED sendBuf
  BY <1>1, <1>5 DEF Unheard, StreamLabels, SendLabels, RecvLabels, ConnLabels
<1>6. CASE /\ pc'[g] = "connect" /\ UNCHANGED <<sendBuf, msgrFd>>
           /\ \/ ret'[g] = "sendConn" /\ pc[g] \in SendLabels
              \/ ret'[g] = "recvConn" /\ pc[g] \in RecvLabels
  BY <1>1, <1>2, <1>6 DEF Unheard, StreamLabels, SendLabels, RecvLabels, ConnLabels
<1>7. CASE /\ pc'[g] \in ConnLabels /\ pc[g] \in ConnLabels
           /\ UNCHANGED <<sendBuf, msgrFd, socket, ret>>
  BY <1>1, <1>2, <1>7 DEF Unheard, Recedes, StreamLabels, SendLabels, RecvLabels, ConnLabels
<1>8. CASE Begin(g)
  <2>1. Empty /\ UNCHANGED bufVars /\ pc'[g] \in {"stop", "encode"}
    BY <1>1, <1>8 DEF Begin, GoTo, SInv, IInv, BufferInv, CleanAtEnds
  <2>2. CASE pc'[g] = "encode"
    BY <1>1, <1>2, <1>8, <2>1, <2>2 DEF Begin, Unheard, Empty, bufVars, StreamLabels, SendLabels,
       RecvLabels, ConnLabels
  <2>3. QED
    BY <1>3, <2>1, <2>2
<1>9. CASE EncodeCmd(g)
  <2>1. pc[g] = "encode" /\ Empty /\ UNCHANGED <<msgrFd, recvBuf>>
    BY <1>1, <1>9 DEF EncodeCmd, Unheard, connVars
  <2>2. CASE /\ sendBuf' = [sendBuf EXCEPT !.data = @ \o Request(cmd[g])]
             /\ GoTo(g, "send")
    <3>1. sendBuf'.data = Request(cmd[g])
      BY <1>1, <2>1, <2>2, RequestUnits, ConcatEmptySeq DEF Empty
    <3>2. pc'[g] = "send" /\ ~Heard(msgrFd, cmd[g].id)'
      BY <1>1, <1>2, <2>1, <2>2 DEF Unheard, GoTo
    <3>3. QED
      BY <1>1, <2>1, <3>1, <3>2 DEF Unheard, ConnLabels
  <2>3. CASE /\ sendBuf' = [sendBuf EXCEPT !.len = increasedLen(@, SendBufMaxLen)]
             /\ UNCHANGED pc
    <3>1. Empty' /\ pc'[g] = "encode"
      BY <1>1, <2>1, <2>3 DEF Empty
    <3>2. QED
      BY <1>1, <1>2, <2>1, <3>1 DEF Unheard, StreamLabels, SendLabels, RecvLabels, ConnLabels
  <2>4. CASE pc'[g] = "clear"
    BY <1>3, <2>4
  <2>5. QED
    BY <1>1, <1>9, <2>2, <2>3, <2>4 DEF EncodeCmd, Fail, GoTo
<1>10. CASE DecodeReply(g) \/ ClearBufs(g)
  BY <1>1, <1>3, <1>10 DEF DecodeReply, ClearBufs, Fail, GoTo
<1>11. CASE SendStep(g)
  <2>1. CASE GiveUpSend(g) \/ SendFails(g)
    BY <1>1, <1>3, <2>1 DEF GiveUpSend, SendFails, Fail, GoTo
  <2>2. CASE SendBlocked(g)
    BY <1>1, <1>4, <2>2 DEF SendBlocked, Sending, GoTo, SendLabels, connVars, bufVars
  <2>3. CASE SendNotConnected(g)
    BY <1>1, <1>6, <2>3 DEF SendNotConnected, Sending, callConnect, GoTo, SendLabels, connVars, bufVars
  <2>4. CASE SendPoll(g) /\ (GoTo(g, "send") \/ Fail(g, "other")) /\ noReconnect(g)
    BY <1>1, <1>3, <1>4, <2>4 DEF SendPoll, Fail, GoTo, noReconnect, SendLabels, connVars, bufVars
  <2>5. ~SendBroken(g)
    BY HasSocket DEF SendBroken, Sending, Replaces, StreamLabels, SendLabels, bufVars
  <2>6. SendPoll(g) => ~reconnect(g, "send")
    BY HasSocket DEF SendPoll, Replaces, StreamLabels, SendLabels, bufVars
  <2>7. SendPoll(g) => (GoTo(g, "send") \/ Fail(g, "other")) /\ noReconnect(g)
    BY <2>6 DEF SendPoll
  <2>8. QED
    BY <1>11, <2>1, <2>2, <2>3, <2>4, <2>5, <2>7 DEF SendStep
<1>12. CASE ReceiveStep(g)
  <2>1. CASE GiveUpReceive(g) \/ ReceiveFails(g)
    BY <1>1, <1>3, <2>1 DEF GiveUpReceive, ReceiveFails, Fail, GoTo
  <2>2. CASE ReceiveBlocked(g)
    BY <1>1, <1>5, <2>2 DEF ReceiveBlocked, Receiving, GoTo, RecvLabels, bufVars
  <2>3. CASE ReceiveNotConnected(g)
    BY <1>1, <1>6, <2>3 DEF ReceiveNotConnected, Receiving, callConnect, GoTo, RecvLabels, connVars,
       bufVars
  <2>4. CASE ReceivePoll(g)
    BY <1>1, <1>3, <1>5, <2>4 DEF ReceivePoll, Fail, GoTo, RecvLabels, bufVars
  <2>5. ~ReceiveClosed(g)
    BY HasSocket DEF ReceiveClosed, Receiving, Readable, Replaces, StreamLabels, RecvLabels, bufVars
  <2>6. CASE ReceiveBytes(g)
    <3>1. pc[g] = "receive" /\ UNCHANGED sendBuf /\ ~reconnect(g, "trunc")
      BY <2>6, HasSocket DEF ReceiveBytes, Receiving, Replaces, StreamLabels, RecvLabels
    <3>2. GoTo(g, "decode") \/ UNCHANGED pc
      BY <2>6, <3>1 DEF ReceiveBytes
    <3>3. QED
      BY <1>1, <1>3, <1>5, <3>1, <3>2 DEF GoTo, RecvLabels
  <2>7. QED
    BY <1>12, <2>1, <2>2, <2>3, <2>4, <2>5, <2>6 DEF ReceiveStep, ReceiveWaits
<1>13. CASE Connect(g) \/ ConnectPoll(g)
  <2>1. pc[g] \in ConnLabels /\ UNCHANGED <<socket, ret>>
    BY <1>13 DEF Connect, ConnectPoll, ConnLabels
  <2>2. CASE connected(g)
    <3>1. CASE ret[g] \in {"send", "resend"}
      <4>1. pc'[g] = "send" /\ msgrFd' = socket /\ sendBuf'.data = Request(cmd[g])
        BY <1>1, <2>1, <2>2, <3>1 DEF connected, GoTo, ChangeSocketFd, rewind, Unheard
      <4>2. Unused(socket)'
        BY <1>1, <2>1, <3>1 DEF Unheard, Recedes
      <4>3. ~Heard(msgrFd, cmd[g].id)'
        BY <2>1, <4>1, <4>2, EmptySeq DEF Heard, HeardIn, Unused
      <4>4. QED
        BY <1>1, <4>1, <4>3 DEF Unheard, ConnLabels
    <3>2. CASE ret[g] = "sendConn"
      <4>1. pc'[g] = "send" /\ UNCHANGED <<sendBuf, msgrFd>>
        BY <1>1, <2>2, <3>2 DEF connected, GoTo
      <4>2. QED
        BY <1>1, <1>2, <2>1, <3>2, <4>1 DEF Unheard, ConnLabels
    <3>3. CASE ret[g] = "recvConn"
      <4>1. pc'[g] = "receive" /\ UNCHANGED sendBuf
        BY <1>1, <2>2, <3>3 DEF connected, GoTo
      <4>2. QED
        BY <1>1, <2>1, <4>1 DEF Unheard, SendLabels, ConnLabels
    <3>4. CASE ret[g] = "trunc"
      BY <1>1, <1>3, <2>2, <3>4 DEF connected, Fail, GoTo
    <3>5. QED
      BY <1>1, <3>1, <3>2, <3>3, <3>4 DEF Callers
  <2>3. CASE notConnected /\ (GoTo(g, "connect") \/ GoTo(g, "connPoll") \/ \E e : Fail(g, e))
    BY <1>1, <1>3, <1>7, <2>1, <2>3 DEF notConnected, Fail, GoTo, ConnLabels
  <2>4. QED
    BY <1>13, <2>2, <2>3 DEF Connect, ConnectPoll
<1>14. QED
  BY <1>8, <1>9, <1>10, <1>11, <1>12, <1>13 DEF Inner

LEMMA InnerLog ==
    ASSUME LInv, SInv, TInv', ConnectionStep, NEW g \in G, Inner(g)
    PROVE  LInv'
<1>1. CASE SendBytes(g)
  BY <1>1, SendBytesLog
<1>2. CASE Replaces(g)
  BY <1>2, ReconnectLog
<1>3. CASE ~SendBytes(g) /\ ~Replaces(g)
  <2>1. UNCHANGED inbox /\ (kernel' = kernel \/ Attempts(g))
    BY <1>3, InnerInbox
  <2>2. \A fd \in Fd : Recedes(fd)
    BY <2>1, NothingMoves DEF SInv
  <2>3. SilentIfDown'
    BY <2>1, <2>2 DEF LInv, SilentIfDown, Recedes, Attempts, SInv, IInv, Shape
  <2>4. Unheard(g)'
    BY <1>3, <2>1, <2>2, CalmUnheard
  <2>5. QED
    BY <2>2, <2>3, <2>4, AllRecede, OthersUnheard DEF LInv, Recedes
<1>4. QED
  BY <1>1, <1>2, <1>3

-----------------------------------------------------------------------------
(***************************************************************************)
(* No command is executed twice on a connection.                           *)
(***************************************************************************)
LEMMA NextLInv == SInv /\ TInv' /\ LInv /\ [LogNext]_logVars => LInv'
<1> SUFFICES ASSUME SInv, TInv', LInv, [LogNext]_logVars PROVE LInv'
  OBVIOUS
<1>1. CASE UNCHANGED <<vars, executed>>
  <2>1. UNCHANGED <<pc, cmd, ret, msgrFd, socket, sendBuf, recvBuf, calls, kernel, inbox, executed>>
    BY <1>1 DEF vars, localVars, retryVars, connVars, bufVars, streamVars
  <2>2. LogType' /\ OnceEach' /\ SilentIfDown'
    BY <2>1 DEF LInv, LogType, OnceEach, Once, OnceIn, Begins, SilentIfDown, Unused
  <2>3. \A fd, id : Heard(fd, id)' <=> Heard(fd, id)
    BY <2>1 DEF Heard, HeardIn, Begins
  <2>4. Numbered'
    BY <2>1, <2>3 DEF LInv, Numbered, Calling
  <2>5. \A g \in G : Unheard(g)'
    BY <2>1, <2>3 DEF LInv, Unheard, Unused, Empty
  <2>6. QED
    BY <2>2, <2>4, <2>5 DEF LInv
<1>2. CASE ConnectionStep
  BY <1>2, OuterLog, InnerLog, PeerLog, CloseLog DEF ConnectionStep, Next, Step, Inner
<1>3. QED
  BY <1>1, <1>2 DEF LogNext, ExecuteLate, logVars

\* The connections that the client has closed: what the server has executed there
\* and what it has still to read.
LingerInv ==
    /\ lingering \in Seq([unread : Seq(Unit), executed : Seq(Nat)])
    /\ \A i \in 1..Len(lingering) : OnceIn(lingering[i].unread, lingering[i].executed)

LEMMA NextLingerInv == TInv /\ LInv /\ LingerInv /\ [LogNext]_logVars => LingerInv'
<1> DEFINE Entry == [unread : Seq(Unit), executed : Seq(Nat)]
<1> SUFFICES ASSUME TInv, LInv, LingerInv, [LogNext]_logVars PROVE LingerInv'
  OBVIOUS
<1>1. lingering \in Seq(Entry) /\ Len(lingering) \in Nat /\ DOMAIN lingering = 1..Len(lingering)
  BY LenProperties DEF LingerInv
<1>2. CASE UNCHANGED lingering
  BY <1>2 DEF LingerInv
<1>3. ASSUME NEW fd \in Fd,
             lingering' = Append(lingering, [unread |-> inbox[fd], executed |-> executed[fd]])
      PROVE  LingerInv'
  <2> DEFINE e == [unread |-> inbox[fd], executed |-> executed[fd]]
  <2>1. e \in Entry /\ OnceIn(e.unread, e.executed)
    BY DEF TInv, StreamType, LInv, LogType, OnceEach, Once
  <2> HIDE DEF e, Entry
  <2>2. lingering' = Append(lingering, e)
    BY <1>3 DEF e
  <2>3. /\ lingering' \in Seq(Entry) /\ Len(lingering') = Len(lingering) + 1
        /\ \A i \in 1..Len(lingering) : lingering'[i] = lingering[i]
        /\ lingering'[Len(lingering) + 1] = e
    BY <1>1, <2>1, <2>2, AppendProperties
  <2>4. ASSUME NEW i \in 1..Len(lingering')
        PROVE  OnceIn(lingering'[i].unread, lingering'[i].executed)
    <3>1. i = Len(lingering) + 1 \/ i \in 1..Len(lingering)
      BY <1>1, <2>3
    <3>2. QED
      BY <2>1, <2>3, <3>1 DEF LingerInv
  <2>5. QED
    BY <2>3, <2>4 DEF LingerInv, Entry
<1>4. ASSUME NEW i \in DOMAIN lingering, ExecuteLate(i)
      PROVE  LingerInv'
  <2> DEFINE s == lingering[i].unread
             ex == lingering[i].executed
             k == Head(s).of
             rest == SubSeq(s, k + 1, Len(s))
             done == Append(ex, Head(s).id)
             e == [unread |-> rest, executed |-> done]
  <2>1. lingering[i] \in Entry /\ OnceIn(s, ex)
    BY <1>1, ElementOfSeq DEF LingerInv
  <2>2. s \in Seq(Unit) /\ ex \in Seq(Nat)
    BY <2>1
  <2>3. /\ s # <<>> /\ Len(s) >= k
        /\ SubSeq(s, 1, k) = Request([id |-> Head(s).id, len |-> k])
        /\ lingering' = [lingering EXCEPT ![i] = e]
    BY <1>4 DEF ExecuteLate
  <2> HIDE DEF rest, done, s, ex, k
  <2>4. /\ rest \in Seq(Unit) /\ done \in Seq(Nat) /\ OnceIn(rest, done)
    BY <2>1, <2>2, <2>3, HeadExecuted DEF rest, done, k
  <2>5. e \in Entry /\ OnceIn(e.unread, e.executed)
    BY <2>4
  <2> HIDE DEF e, Entry
  <2>6. /\ lingering' \in Seq(Entry) /\ Len(lingering') = Len(lingering)
        /\ \A j \in 1..Len(lingering) : lingering'[j] = IF j = i THEN e ELSE lingering[j]
    BY <1>1, <2>3, <2>5, ExceptSeq
  <2>7. QED
    BY <2>5, <2>6 DEF LingerInv, Entry
<1>5. QED
  BY <1>2, <1>3, <1>4 DEF LogNext, ConnectionStep, logVars

\* The history only watches.
LEMMA LogImplementsSpec == LogSpec => Spec
<1>1. LogInit => Init
  BY DEF LogInit
<1>2. [LogNext]_logVars => [Next]_vars
  BY DEF LogNext, ConnectionStep, ExecuteLate, logVars
<1>3. QED
  BY <1>1, <1>2, PTL DEF LogSpec, Spec

\* What has been heard of stays unique (encode, addSentBytes, rewind, reconnect).
THEOREM LogInvariance == LogSpec => [](SInv /\ LInv /\ LingerInv)
<1>1. SInv => TInv
  BY DEF SInv
<1>2. LogInit => LingerInv
  BY EmptySeq DEF LogInit, LingerInv
<1>3. QED
  BY <1>1, <1>2, InitLInv, NextLInv, NextLingerInv, LogImplementsSpec, ResultsInvariance, PTL DEF LogSpec

\* "send again through the new socket" (connection.go, receive): whatever fails,
\* times out or is cancelled, a connection executes a command at most once.
THEOREM AtMostOncePerConnection == LogSpec => []OncePerConnection
<1>1. LInv /\ LingerInv => OncePerConnection
  <2> SUFFICES ASSUME LInv, LingerInv,
                      NEW history \in {executed[fd] : fd \in Fd}
                                        \cup {lingering[i].executed : i \in DOMAIN lingering}
               PROVE  \A i, j \in DOMAIN history : history[i] = history[j] => i = j
    BY DEF OncePerConnection
  <2>1. CASE \E fd \in Fd : history = executed[fd]
    <3>1. PICK fd \in Fd : history = executed[fd]
      BY <2>1
    <3>2. DOMAIN history = 1..Len(history) /\ OnceIn(inbox[fd], history)
      BY <3>1, LenProperties DEF LInv, LogType, OnceEach, Once
    <3>3. QED
      BY <3>2 DEF OnceIn
  <2>2. CASE \E i \in DOMAIN lingering : history = lingering[i].executed
    <3>1. PICK i \in DOMAIN lingering : history = lingering[i].executed
      BY <2>2
    <3>2. i \in 1..Len(lingering) /\ lingering[i] \in [unread : Seq(Unit), executed : Seq(Nat)]
      BY LenProperties, ElementOfSeq DEF LingerInv
    <3>3. DOMAIN history = 1..Len(history) /\ OnceIn(lingering[i].unread, history)
      BY <3>1, <3>2, LenProperties DEF LingerInv
    <3>4. QED
      BY <3>3 DEF OnceIn
  <2>3. QED
    BY <2>1, <2>2
<1>2. QED
  BY <1>1, LogInvariance, PTL

-----------------------------------------------------------------------------
(***************************************************************************)
(* No command is executed after it has returned.                           *)
(***************************************************************************)

\* Only the server takes bytes from a connection that stays up.
LEMMA ExecutesServes ==
    ASSUME SInv, [Next]_vars, NEW fd \in Fd, Executes(fd)
    PROVE  Serve(fd)
<1> USE DEF SInv
<1>1. inbox'[fd] # inbox[fd]
  BY NoneTaken
<1>2. kernel'[fd] = "up" /\ inbox \in [Fd -> Seq(Unit)] /\ kernel \in [Fd -> State]
  BY DEF Executes, TInv, StreamType, IInv, Shape
<1>3. ASSUME NEW g \in G, Inner(g) PROVE FALSE
  <2>1. CASE SendBytes(g)
    <3>1. /\ sendBuf.data \in Seq(Unit) /\ sendBuf.sent \in Nat /\ Len(sendBuf.data) \in Nat
          /\ inbox[fd] \in Seq(Unit) /\ Len(inbox[fd]) \in Nat
      BY LenProperties DEF TInv, BufferType, StreamType
    <3>2. PICK n \in 0..(Len(sendBuf.data) - sendBuf.sent) :
            inbox' = IF kernel[msgrFd] = "up"
                     THEN [inbox EXCEPT ![msgrFd] =
                             @ \o SubSeq(sendBuf.data, sendBuf.sent + 1, sendBuf.sent + n)]
                     ELSE inbox
      BY <2>1 DEF SendBytes
    <3> DEFINE piece == SubSeq(sendBuf.data, sendBuf.sent + 1, sendBuf.sent + n)
    <3>3. inbox'[fd] = inbox[fd] \o piece
      BY <1>1, <1>2, <3>2
    <3>4. sendBuf.sent + 1 \in Nat \ {0} /\ sendBuf.sent + n \in 0..Len(sendBuf.data)
      <4>1. \A a, b \in Nat : \A k \in 0..(b - a) : a + 1 \in Nat \ {0} /\ a + k \in 0..b
        OBVIOUS
      <4>2. QED
        BY <3>1, <4>1
    <3>5. piece \in Seq(Unit) /\ Len(piece) \in Nat
      <4> HIDE DEF piece
      <4>1. piece \in Seq(Unit)
        BY <3>1, <3>4, PieceOfUnits DEF piece
      <4>2. QED
        BY <4>1, LenProperties
    <3> HIDE DEF piece
    <3>6. Len(inbox'[fd]) = Len(inbox[fd]) + Len(piece)
      BY <3>1, <3>3, <3>5, ConcatProperties
    <3>7. QED
      BY <3>1, <3>5, <3>6 DEF Executes
  <2>2. CASE Replaces(g)
    BY <1>1, <1>2, <2>2, ReconnectDrops DEF Replaces
  <2>3. QED
    BY <1>1, <1>3, <2>1, <2>2, InnerInbox
<1>4. ~UNCHANGED inbox
  BY <1>1
<1>5. \A g \in G : ~(Start(g) \/ Cancel(g) \/ LeaveLoop(g) \/ EnterProcess(g) \/ StopProcessing(g))
  BY <1>4 DEF Start, Cancel, LeaveLoop, EnterProcess, StopProcessing, streamVars
<1>6. ~CloseClient
  BY <1>1, <1>2 DEF CloseClient, closeSocket, dropStreams, streamVars, IInv, Shape
<1>7. PICK f \in Fd : Peer(f)
  BY <1>3, <1>4, <1>5, <1>6 DEF Next, Step, Inner, vars, streamVars
<1>8. QED
  BY <1>1, <1>2, <1>4, <1>7 DEF Peer, Establish, Refuse, PeerClose, PeerReset, Serve, Arrive,
     dropStreams, streamVars

\* While nobody calls Close the client gives up no connection on which a request is
\* still to be read: reconnect() replaces only what has failed or has answered.
LEMMA NobodyLeaves ==
    ASSUME FaithfulSetting, "userClose" \notin Faults, Base, FInv, Next, NEW fd \in Fd
    PROVE  ~Leaves(fd)
<1> SUFFICES ASSUME Leaves(fd) PROVE FALSE
  OBVIOUS
<1>1. /\ kernel[fd] = "up" /\ kernel' # kernel /\ inbox[fd] # <<>>
      /\ fd = socket /\ fd = msgrFd
      /\ kernel'[fd] \in {"closed", "fresh"} /\ kernel \in [Fd -> State]
  BY DEF Leaves, Base, SInv, IInv, Shape, SocketInv, NoStraySocket, FInv, SingleStream, NoBytesOn
<1>2. ASSUME NEW g \in G, pc[g] \in RecvLabels
      PROVE  queue[msgrFd] = <<>>
  BY <1>1, <1>2 DEF FInv, CommandState, StateOf, ReceiveState
<1>3. ASSUME NEW g \in G, SendStep(g)
      PROVE  FALSE
  <2>1. CASE SendPoll(g)
    <3>1. PICK outcome \in PollOutcomes(socket, Writable(socket)) :
             outcome = "ErrConnectionClosed" \/ noReconnect(g)
      BY <2>1 DEF SendPoll
    <3>2. outcome = "ErrConnectionClosed" => kernel[socket] \in {"failed", "reset"}
      BY FaithfulPoll
    <3>3. QED
      BY <1>1, <2>1, <3>1, <3>2 DEF noReconnect
  <2>2. QED
    BY <1>1, <1>3, <2>1 DEF SendStep, GiveUpSend, SendBytes, SendBlocked, SendBroken, SendNotConnected,
       SendFails
<1>4. ASSUME NEW g \in G, ReceiveStep(g)
      PROVE  FALSE
  <2>1. ~ReceiveBytes(g)
    BY <1>2 DEF ReceiveBytes, Receiving, RecvLabels
  <2>2. ~ReceiveClosed(g)
    BY <1>1, <1>2 DEF ReceiveClosed, Receiving, Readable, RecvLabels
  <2>3. QED
    BY <1>1, <1>4, <2>1, <2>2 DEF ReceiveStep, ReceiveWaits, GiveUpReceive, ReceiveBlocked,
       ReceiveNotConnected, ReceiveFails, ReceivePoll
<1>5. ASSUME NEW g \in G, Connect(g) \/ ConnectPoll(g)
      PROVE  FALSE
  BY <1>1, <1>5 DEF Connect, ConnectPoll
<1>6. ASSUME NEW g \in G, Inner(g)
      PROVE  FALSE
  BY <1>1, <1>3, <1>4, <1>5, <1>6 DEF Inner, Begin, EncodeCmd, DecodeReply, ClearBufs
<1>7. ASSUME NEW g \in G,
             Start(g) \/ Cancel(g) \/ LeaveLoop(g) \/ EnterProcess(g) \/ StopProcessing(g)
      PROVE  FALSE
  BY <1>1, <1>7 DEF Start, Cancel, LeaveLoop, EnterProcess, StopProcessing
<1>8. ASSUME NEW f \in Fd, Peer(f)
      PROVE  FALSE
  BY <1>1, <1>8 DEF Peer, Establish, Refuse, PeerClose, PeerReset, Serve, Arrive
<1>9. ~CloseClient
  BY DEF CloseClient
<1>10. QED
  BY <1>6, <1>7, <1>8, <1>9 DEF Next, Step, Inner

\* A command is executed while its caller waits for it in Process: no error path
\* of send(), receive() or connect() leaves a request behind that is executed later,
\* neither on the connection in use nor on one that reconnect() has given up.
THEOREM ExecutedInTime ==
    ASSUME FaithfulSetting, "userClose" \notin Faults
    PROVE  LogSpec => NothingLate
<1> DEFINE NoneLeft == lingering = <<>>
           InTime == /\ \A fd \in Fd : Executes(fd) => Awaited(Head(inbox[fd]).id)
                     /\ \A i \in DOMAIN lingering :
                           lingering'[i] # lingering[i] => Awaited(Head(lingering[i].unread).id)
<1>1. LogInit => NoneLeft
  BY DEF LogInit
<1>2. Base /\ FInv /\ NoneLeft /\ [LogNext]_logVars => NoneLeft'
  <2> SUFFICES ASSUME Base, FInv, NoneLeft, [LogNext]_logVars PROVE NoneLeft'
    OBVIOUS
  <2>1. DOMAIN lingering = {}
    OBVIOUS
  <2>2. ConnectionStep => UNCHANGED lingering
    BY NobodyLeaves DEF ConnectionStep
  <2>3. QED
    BY <2>1, <2>2 DEF LogNext, logVars
<1>3. ASSUME Base, FInv, NoneLeft, [LogNext]_logVars
      PROVE  [InTime]_logVars
  <2>1. [Next]_vars
    BY <1>3 DEF LogNext, ConnectionStep, ExecuteLate, logVars
  <2>2. ASSUME NEW fd \in Fd, Executes(fd)
        PROVE  Awaited(Head(inbox[fd]).id)
    <3>1. Serve(fd)
      BY <1>3, <2>1, <2>2, ExecutesServes DEF Base
    <3>2. PICK g \in G : pc[g] \in RecvLabels /\ Head(inbox[fd]).id = cmd[g].id
      BY <1>3, <3>1, ServesTheRequest
    <3>3. QED
      BY <3>2 DEF Awaited, Inside, WorkLabels
  <2>3. DOMAIN lingering = {}
    BY <1>3
  <2>4. QED
    BY <2>2, <2>3
<1>4. QED
  BY <1>1, <1>2, <1>3, LogImplementsSpec, FaithfulInvariance, PTL DEF LogSpec, NothingLate

=============================================================================

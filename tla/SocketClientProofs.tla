-------------------------- MODULE SocketClientProofs --------------------------
(* Theorems about SocketClient, for every value of its constants. *)
EXTENDS SocketClient, SequenceTheorems, TLAPS

-----------------------------------------------------------------------------
(* Sequences and packets *)

LEMMA HeadTailType ==
  ASSUME NEW S, NEW q \in Seq(S), q # <<>>
  PROVE  Head(q) \in S /\ Tail(q) \in Seq(S) /\ Len(q) \in Nat \ {0}
  OBVIOUS

LEMMA SubSeqType ==
  ASSUME NEW S, NEW q \in Seq(S), NEW k \in 0..Len(q)
  PROVE  SubSeq(q, 1, k) \in Seq(S) /\ SubSeq(q, k + 1, Len(q)) \in Seq(S)
  <1>1. Len(q) \in Nat
    OBVIOUS
  <1>2. \A i \in 1..Len(q) : q[i] \in S
    BY ElementOfSeq
  <1>3. SubSeq(q, 1, k) \in Seq(S)
    BY <1>1, <1>2, SubSeqProperties
  <1>4. SubSeq(q, k + 1, Len(q)) \in Seq(S)
    BY <1>1, <1>2, SubSeqProperties
  <1> QED
    BY <1>3, <1>4

LEMMA FreshType ==
  ASSUME NEW id \in PacketId
  PROVE  Fresh(id) \in Packet
  BY DEF Fresh, Packet

LEMMA PushedType ==
  ASSUME queue \in Seq(Packet), NEW id \in PacketId
  PROVE  Pushed(id) \in Seq(Packet)
  <1>1. Fresh(id) \in Packet
    BY FreshType
  <1> QED
    BY <1>1 DEF Pushed

-----------------------------------------------------------------------------
(* Type correctness *)

LEMMA TypeInit == Init => TypeOK
  <1> SUFFICES ASSUME Init PROVE TypeOK
    OBVIOUS
  <1> USE DEF Init, NoSock
  <1>1. /\ sock_fd \in Sockets \cup {NoSock} /\ is_connected \in BOOLEAN
        /\ cpc \in {"idle", "handshake", "redirected"}
        /\ ret \in {"none", "ok", "failed"}
        /\ xpc \in {"idle", "closing", "destroying", "waiting", "freed"}
    OBVIOUS
  <1>2. /\ last_seq \in 0..MaxSeq /\ pipe \in 0..PipeCapacity
        /\ nsock \in 0..MaxConnects /\ (cpc # "idle" => nsock # 0)
        /\ nframes \in 0..MaxFrames /\ nbeat \in 0..MaxBeats
        /\ nsent \in [Senders -> 0..MaxSends]
    BY BoundsAssumption
  <1>3. /\ queue \in Seq(Packet) /\ rbuf \in Seq(Frame) /\ wire \in Seq(Written)
        /\ delivered \in Seq(Frame) /\ inq \in [Sockets -> Seq(Frame)]
    BY EmptySeq
  <1>4. /\ spc \in [Senders -> {"idle", "notify"}]
        /\ wpc \in [Workers -> WorkerStates]
        /\ caller \in [Workers -> {"ack", "out", "beat"}]
        /\ pfd \in [Workers -> Sockets \cup {NoSock}]
        /\ want \in [Workers -> BOOLEAN]
        /\ rev \in [Workers -> SUBSET {"in", "out", "pipe"}]
    BY DEF WorkerStates
  <1>5. /\ eof \in [Sockets -> BOOLEAN] /\ shut \in [Sockets -> BOOLEAN]
        /\ full \in [Sockets -> BOOLEAN]
        /\ told \in [Workers -> {"nothing", "connected", "disconnected"}]
    OBVIOUS
  <1> QED
    BY <1>1, <1>2, <1>3, <1>4, <1>5 DEF TypeOK

LEMMA TypeConnect == TypeOK /\ Connect => TypeOK'
  <1> SUFFICES ASSUME TypeOK, Connect PROVE TypeOK'
    OBVIOUS
  <1> USE DEF TypeOK, object, app, connector, locals, net, history, bounds,
              ConnectUnchanged, Shutdown, NoSock
  <1>1. CASE ConnectRejected
    BY <1>1 DEF ConnectRejected
  <1>2. CASE ConnectNoSocket
    BY <1>2 DEF ConnectNoSocket
  <1>3. CASE ConnectOpen
    BY <1>3, BoundsAssumption DEF ConnectOpen, Sockets
  <1>4. CASE ConnectFail
    BY <1>4 DEF ConnectFail
  <1>5. CASE ConnectRedirect
    BY <1>5 DEF ConnectRedirect
  <1>6. CASE ConnectEstablish
    <2>1. nsock \in Sockets /\ inq[nsock] \in Seq(Frame)
      BY <1>6, BoundsAssumption DEF ConnectEstablish, Sockets
    <2>2. PICK k \in 0..Len(inq[nsock]) :
            /\ rbuf' = SubSeq(inq[nsock], 1, k)
            /\ inq' = [inq EXCEPT ![nsock] = SubSeq(@, k + 1, Len(@))]
      BY <1>6 DEF ConnectEstablish
    <2>3. /\ SubSeq(inq[nsock], 1, k) \in Seq(Frame)
          /\ SubSeq(inq[nsock], k + 1, Len(inq[nsock])) \in Seq(Frame)
      BY <2>1, SubSeqType
    <2>4. rbuf' \in Seq(Frame) /\ inq' \in [Sockets -> Seq(Frame)]
      BY <2>2, <2>3
    <2>5. wpc' \in [Workers -> WorkerStates]
      BY <1>6 DEF ConnectEstablish, Goto, WorkerStates
    <2> QED
      BY <1>6, <2>4, <2>5 DEF ConnectEstablish
  <1> QED
    BY <1>1, <1>2, <1>3, <1>4, <1>5, <1>6 DEF Connect

LEMMA TypeApplication ==
  TypeOK /\ ((\E t \in Senders : SendPush(t) \/ SendNotify(t)) \/ CloseStore \/ Closer)
    => TypeOK'
  <1> SUFFICES ASSUME TypeOK,
                      (\E t \in Senders : SendPush(t) \/ SendNotify(t)) \/ CloseStore \/ Closer
               PROVE  TypeOK'
    OBVIOUS
  <1> USE DEF TypeOK, object, app, connector, locals, net, history, bounds
  <1>1. ASSUME NEW t \in Senders, SendPush(t) PROVE TypeOK'
    <2> DEFINE id == [kind |-> "user", by |-> t, n |-> nsent[t] + 1]
    <2>1. nsent[t] + 1 \in 1..MaxSends /\ nsent' \in [Senders -> 0..MaxSends]
      BY <1>1, BoundsAssumption DEF SendPush
    <2>2. id \in PacketId
      BY <2>1 DEF PacketId
    <2>3. queue' \in Seq(Packet)
      BY <1>1, <2>2, PushedType DEF SendPush
    <2> QED
      BY <1>1, <2>1, <2>3 DEF SendPush
  <1>2. ASSUME NEW t \in Senders, SendNotify(t) PROVE TypeOK'
    BY <1>2, BoundsAssumption DEF SendNotify, Notify
  <1>3. CASE CloseStore
    BY <1>3 DEF CloseStore
  <1>4. CASE CloseNotify
    BY <1>4, BoundsAssumption DEF CloseNotify, Notify
  <1>5. CASE WaitEnds
    BY <1>5 DEF WaitEnds
  <1> QED
    BY <1>1, <1>2, <1>3, <1>4, <1>5 DEF Closer

LEMMA TypeRead ==
  ASSUME TypeOK, NEW w \in Workers, HandleRead(w)
  PROVE  TypeOK'
  <1> USE DEF TypeOK, app, connector, bounds, ReadUnchanged, At
  <1>1. ASSUME TakeFrame, Incoming # <<>>
        PROVE  /\ rbuf' \in Seq(Frame) /\ inq' \in [Sockets -> Seq(Frame)]
               /\ Head(Incoming) \in Frame
    <2>1. CASE rbuf # <<>>
      <3>1. Head(rbuf) \in Frame /\ Tail(rbuf) \in Seq(Frame)
        BY <2>1, HeadTailType
      <3> QED
        BY <1>1, <2>1, <3>1 DEF TakeFrame, Incoming
    <2>2. CASE rbuf = <<>>
      <3>1. sock_fd \in Sockets /\ Incoming = inq[sock_fd] /\ inq[sock_fd] # <<>>
        BY <1>1, <2>2 DEF Incoming
      <3>2. Head(inq[sock_fd]) \in Frame /\ Tail(inq[sock_fd]) \in Seq(Frame)
        BY <3>1, HeadTailType
      <3> QED
        BY <1>1, <2>2, <3>1, <3>2 DEF TakeFrame
    <2> QED
      BY <2>1, <2>2
  <1>2. \A pc \in WorkerStates : Goto(w, pc) => wpc' \in [Workers -> WorkerStates]
    BY DEF Goto
  <1>3. CASE ReadZeroLength(w)
    BY <1>1, <1>3 DEF ReadZeroLength
  <1>4. CASE ReadInvalid(w)
    BY <1>1, <1>2, <1>4 DEF ReadInvalid, WorkerStates
  <1>5. CASE ReadMessage(w)
    <2>1. Head(Incoming).seq \in 0..MaxSeq
      BY <1>1, <1>5 DEF ReadMessage, Frame
    <2>2. last_seq' \in 0..MaxSeq
      BY <1>5, <2>1 DEF ReadMessage
    <2>3. delivered' \in Seq(Frame)
      BY <1>1, <1>5 DEF ReadMessage
    <2>4. wpc' \in [Workers -> WorkerStates]
      BY <1>2, <1>5 DEF ReadMessage, WorkerStates
    <2> QED
      BY <1>1, <1>5, <2>2, <2>3, <2>4 DEF ReadMessage
  <1>6. CASE ReadEof(w)
    BY <1>2, <1>6 DEF ReadEof, WorkerStates
  <1>7. CASE ReadNothing(w)
    <2>1. wpc' \in [Workers -> WorkerStates] /\ caller' \in [Workers -> {"ack", "out", "beat"}]
      BY <1>2, <1>7 DEF ReadNothing, AfterIn, WorkerStates
    <2> QED
      BY <1>7, <2>1 DEF ReadNothing
  <1> QED
    BY <1>3, <1>4, <1>5, <1>6, <1>7 DEF HandleRead

\* A change of the fields other than id of the packet at the head.
LEMMA HeadUpdateType ==
  ASSUME queue \in Seq(Packet), queue # <<>>
  PROVE  \A s \in Sockets, c \in BOOLEAN :
           [queue EXCEPT ![1].on = s, ![1].cut = c] \in Seq(Packet)
  <1>1. 1 \in 1..Len(queue) /\ queue[1] \in Packet
    BY HeadTailType, ElementOfSeq
  <1>2. ASSUME NEW e \in Packet PROVE [queue EXCEPT ![1] = e] \in Seq(Packet)
    BY <1>1, <1>2, ExceptSeq
  <1>3. ASSUME NEW s \in Sockets, NEW c \in BOOLEAN
        PROVE  [queue EXCEPT ![1].on = s, ![1].cut = c] \in Seq(Packet)
    <2>1. [queue[1] EXCEPT !.on = s, !.cut = c] \in Packet
      BY <1>1 DEF Packet
    <2>2. [queue EXCEPT ![1].on = s, ![1].cut = c]
            = [queue EXCEPT ![1] = [queue[1] EXCEPT !.on = s, !.cut = c]]
      BY <1>1
    <2> QED
      BY <1>2, <2>1, <2>2
  <1> QED
    BY <1>3

LEMMA TypeWrite ==
  ASSUME TypeOK, NEW w \in Workers, SendAck(w) \/ HandleWrite(w)
  PROVE  TypeOK'
  <1> USE DEF TypeOK, object, app, connector, locals, net, history, bounds,
              WriteUnchanged, At
  <1>1. \A pc \in WorkerStates : Goto(w, pc) => wpc' \in [Workers -> WorkerStates]
    BY DEF Goto
  <1>2. Return(w) => wpc' \in [Workers -> WorkerStates]
    BY <1>1 DEF Return, WorkerStates
  <1>3. CASE SendAck(w)
    <2>1. [kind |-> "ack", n |-> last_seq] \in PacketId
      BY DEF PacketId
    <2>2. queue' \in Seq(Packet)
      BY <1>3, <2>1, PushedType DEF SendAck
    <2>3. wpc' \in [Workers -> WorkerStates]
      BY <1>1, <1>3 DEF SendAck, WorkerStates
    <2> QED
      BY <1>3, <2>2, <2>3 DEF SendAck
  <1>4. CASE WriteDone(w)
    BY <1>2, <1>4 DEF WriteDone
  <1>5. CASE WriteAll(w)
    <2> DEFINE p == Head(queue)
               e == [id |-> p.id, sock |-> sock_fd, cut |-> Cut(p)]
    <2>1. sock_fd \in Sockets /\ p \in Packet
      BY <1>5, HeadTailType DEF WriteAll, Accepts
    <2>2. e \in Written
      BY <2>1 DEF Packet, Written, Cut
    <2>3. wire' \in Seq(Written)
      BY <1>5, <2>2 DEF WriteAll
    <2>4. full' \in [Sockets -> BOOLEAN] /\ wpc' \in [Workers -> WorkerStates]
      BY <1>1, <1>5, <2>1 DEF WriteAll, WorkerStates
    <2> QED
      BY <1>5, <2>3, <2>4 DEF WriteAll
  <1>6. CASE WritePart(w)
    <2>1. sock_fd \in Sockets /\ Head(queue) \in Packet
      BY <1>6, HeadTailType DEF WritePart, Accepts
    <2>2. Cut(Head(queue)) \in BOOLEAN
      BY <2>1 DEF Cut, Packet
    <2>3. queue' \in Seq(Packet)
      BY <1>6, <2>1, <2>2, HeadUpdateType DEF WritePart
    <2> QED
      BY <1>2, <1>6, <2>3 DEF WritePart
  <1>7. CASE WriteRefused(w)
    BY <1>2, <1>7 DEF WriteRefused
  <1>8. CASE Pop(w)
    BY <1>1, <1>8, HeadTailType DEF Pop, WorkerStates
  <1> QED
    BY <1>3, <1>4, <1>5, <1>6, <1>7, <1>8 DEF HandleWrite

LEMMA TypeLoop ==
  ASSUME TypeOK, NEW w \in Workers,
         \/ Enter(w) \/ OnConnect(w) \/ Test(w) \/ Arm(w) \/ Poll(w)
         \/ SendHeartbeat(w) \/ PollError(w) \/ DrainOne(w) \/ DrainEnd(w)
         \/ ClearConnected(w) \/ ShutSock(w) \/ UnsetSock(w) \/ OnDisconnect(w)
  PROVE  TypeOK'
  <1> USE DEF TypeOK, object, app, connector, locals, net, history, bounds,
              LoopUnchanged, At
  <1>1. \A pc \in WorkerStates : Goto(w, pc) => wpc' \in [Workers -> WorkerStates]
    BY DEF Goto
  <1>2. ForgetLocals(w) =>
          /\ caller' \in [Workers -> {"ack", "out", "beat"}]
          /\ pfd' \in [Workers -> Sockets \cup {NoSock}]
          /\ want' \in [Workers -> BOOLEAN]
          /\ rev' \in [Workers -> SUBSET {"in", "out", "pipe"}]
    BY DEF ForgetLocals
  <1>3. CASE Enter(w)
    BY <1>1, <1>3 DEF Enter, WorkerStates
  <1>4. CASE OnConnect(w)
    BY <1>1, <1>4 DEF OnConnect, WorkerStates
  <1>5. CASE Test(w)
    BY <1>1, <1>2, <1>5 DEF Test, WorkerStates
  <1>6. CASE Arm(w)
    BY <1>1, <1>6 DEF Arm, WorkerStates
  <1>7. CASE Poll(w)
    <2>1. Ready(w) \in SUBSET {"in", "out", "pipe"}
      BY DEF Ready
    <2>2. rev' \in [Workers -> SUBSET {"in", "out", "pipe"}]
      BY <1>7, <2>1 DEF Poll
    <2>3. wpc' \in [Workers -> WorkerStates] /\ caller' \in [Workers -> {"ack", "out", "beat"}]
      BY <1>1, <1>7 DEF Poll, AfterIn, WorkerStates
    <2> QED
      BY <1>7, <2>2, <2>3 DEF Poll
  <1>8. CASE SendHeartbeat(w)
    <2>1. nbeat + 1 \in 1..MaxBeats /\ nbeat' \in 0..MaxBeats
      BY <1>8, BoundsAssumption DEF SendHeartbeat
    <2>2. [kind |-> "beat", n |-> nbeat + 1] \in PacketId
      BY <2>1 DEF PacketId
    <2>3. queue' \in Seq(Packet)
      BY <1>8, <2>2, PushedType DEF SendHeartbeat
    <2>4. wpc' \in [Workers -> WorkerStates]
      BY <1>1, <1>8 DEF SendHeartbeat, WorkerStates
    <2> QED
      BY <1>8, <2>1, <2>3, <2>4 DEF SendHeartbeat
  <1>9. CASE PollError(w)
    BY <1>1, <1>9 DEF PollError, WorkerStates
  <1>10. CASE DrainOne(w)
    BY <1>10, BoundsAssumption DEF DrainOne
  <1>11. CASE DrainEnd(w)
    BY <1>1, <1>11 DEF DrainEnd, WorkerStates
  <1>12. CASE ClearConnected(w)
    BY <1>1, <1>2, <1>12 DEF ClearConnected, WorkerStates
  <1>13. CASE ShutSock(w)
    BY <1>1, <1>13 DEF ShutSock, Shutdown, WorkerStates
  <1>14. CASE UnsetSock(w)
    BY <1>1, <1>14 DEF UnsetSock, WorkerStates
  <1>15. CASE OnDisconnect(w)
    BY <1>1, <1>15 DEF OnDisconnect, WorkerStates
  <1> QED
    BY <1>3, <1>4, <1>5, <1>6, <1>7, <1>8, <1>9, <1>10, <1>11, <1>12, <1>13,
       <1>14, <1>15

LEMMA TypeServer ==
  ASSUME TypeOK, NEW s \in Sockets, Server(s)
  PROVE  TypeOK'
  <1> USE DEF TypeOK, object, app, connector, locals, history, ServerUnchanged
  <1>1. ASSUME NEW f \in Frame, ServerSend(s, f) PROVE TypeOK'
    <2>1. inq' \in [Sockets -> Seq(Frame)] /\ nframes' \in 0..MaxFrames
      BY <1>1, BoundsAssumption DEF ServerSend
    <2> QED
      BY <1>1, <2>1 DEF ServerSend
  <1>2. CASE ServerClose(s)
    BY <1>2 DEF ServerClose
  <1>3. CASE ServerRead(s)
    BY <1>3 DEF ServerRead
  <1> QED
    BY <1>1, <1>2, <1>3 DEF Server

\* Every variable of every reachable state has its type; in particular the pipe
\* never holds more than its capacity and a Connect that waits for an answer has
\* opened a socket.
THEOREM TypeCorrect == Spec => []TypeOK
  <1>1. Init => TypeOK
    BY TypeInit
  <1>2. TypeOK /\ [Next]_vars => TypeOK'
    <2>1. ASSUME TypeOK, Next PROVE TypeOK'
      BY <2>1, TypeConnect, TypeApplication, TypeRead, TypeWrite, TypeLoop,
         TypeServer DEF Next, WorkerStep
    <2>2. ASSUME TypeOK, UNCHANGED vars PROVE TypeOK'
      BY <2>2 DEF TypeOK, vars, object, app, connector, locals, net, history,
                  bounds
    <2> QED
      BY <2>1, <2>2
  <1> QED
    BY <1>1, <1>2, PTL DEF Spec

-----------------------------------------------------------------------------
(* One worker, one socket: the application that waits for the disconnect    *)
(* callback before it connects again                                        *)

\* SocketOwned alone is not inductive: that Connect starts no second worker rests
\* on the disconnect callback being the last thing a worker does, and that the
\* worker it starts owns sock_fd_ on the numbering of sockets.
Ownership ==
  /\ OneWorker
  /\ SocketOwned
  /\ \A w \in Workers : Alive(w) => cpc = "idle" /\ w = nsock
  /\ cpc = "handshake" => sock_fd = nsock
  /\ \A w \in Workers :
       /\ At(w, "none") => told[w] = "nothing"
       /\ told[w] = "disconnected" => At(w, "gone")
       /\ ~At(w, "none") => w <= nsock /\ (cpc = "handshake" => w < nsock)

\* States in which a worker owns the socket.
Owning == WorkerStates \ {"none", "bye", "gone"}

\* A step of w that neither takes nor gives up the socket.
Moves(w) ==
  /\ wpc[w] \in Owning
  /\ \E pc \in Owning : Goto(w, pc)
  /\ UNCHANGED <<sock_fd, cpc, nsock, told>>

Stays == UNCHANGED <<sock_fd, cpc, nsock, told, wpc>>

LEMMA StaysKeepsOwnership == Ownership /\ Stays => Ownership'
  BY DEF Ownership, Stays, OneWorker, SocketOwned, Alive, At

LEMMA MovesKeepsOwnership ==
  ASSUME TypeOK, Ownership, NEW w \in Workers, Moves(w)
  PROVE  Ownership'
  <1>1. PICK pc \in Owning : wpc' = [wpc EXCEPT ![w] = pc]
    BY DEF Moves, Goto
  <1>2. \A v \in Workers : wpc'[v] = IF v = w THEN pc ELSE wpc[v]
    BY <1>1 DEF TypeOK
  <1>3. UNCHANGED <<sock_fd, cpc, nsock, told>> /\ wpc[w] \in Owning
    BY DEF Moves
  <1> QED
    BY <1>2, <1>3 DEF Ownership, Owning, OneWorker, SocketOwned, Alive, At

\* A careful application calls Connect when no worker is left.
LEMMA ConnectAlone ==
  ASSUME "reconnect_early" \notin Liberties, Ownership, Connect
  PROVE  \A w \in Workers : ~Alive(w)
  <1>1. cpc # "idle" \/ MayConnect
    BY DEF Connect, ConnectRejected, ConnectNoSocket, ConnectOpen, ConnectFail,
           ConnectRedirect, ConnectEstablish, CallsConnect
  <1> QED
    BY <1>1 DEF Ownership, MayConnect, Alive, At

LEMMA ConnectKeepsOwnership ==
  ASSUME "reconnect_early" \notin Liberties, TypeOK, Ownership, Connect
  PROVE  Ownership'
  <1>1. \A w \in Workers : ~Alive(w)
    BY ConnectAlone
  <1> USE <1>1 DEF Ownership, OneWorker, SocketOwned, Alive, At, ConnectUnchanged,
                   history
  <1>2. nsock \in Nat
    BY BoundsAssumption DEF TypeOK
  <1>3. CASE ConnectRejected
    BY <1>2, <1>3 DEF ConnectRejected
  <1>4. CASE ConnectNoSocket
    BY <1>2, <1>4 DEF ConnectNoSocket
  <1>5. CASE ConnectOpen
    BY <1>2, <1>5 DEF ConnectOpen, Workers, Sockets
  <1>6. CASE ConnectFail
    BY <1>6 DEF ConnectFail
  <1>7. CASE ConnectRedirect
    BY <1>7 DEF ConnectRedirect
  <1>8. CASE ConnectEstablish
    <2>1. /\ cpc = "handshake" /\ cpc' = "idle" /\ sock_fd = nsock
          /\ wpc' = [wpc EXCEPT ![nsock] = "spawned"]
          /\ UNCHANGED <<sock_fd, nsock, told>>
      BY <1>8 DEF ConnectEstablish, Goto
    <2>2. nsock \in Workers /\ wpc[nsock] = "none"
      BY <1>2, <2>1, BoundsAssumption DEF TypeOK, Workers, Sockets
    <2>3. \A w \in Workers : wpc'[w] = IF w = nsock THEN "spawned" ELSE wpc[w]
      BY <2>1, <2>2 DEF TypeOK
    <2> QED
      BY <1>2, <2>1, <2>2, <2>3 DEF Workers, Sockets
  <1> QED
    BY <1>3, <1>4, <1>5, <1>6, <1>7, <1>8 DEF Connect

\* The steps of a worker that move it inside Loop.
InLoop(w) ==
  \/ Enter(w) \/ Test(w) \/ HandleRead(w) \/ SendAck(w) \/ HandleWrite(w)
  \/ Arm(w) \/ Poll(w) \/ SendHeartbeat(w) \/ PollError(w) \/ DrainOne(w)
  \/ DrainEnd(w) \/ ClearConnected(w) \/ ShutSock(w)

LEMMA InLoopMoves ==
  ASSUME TypeOK, NEW w \in Workers, InLoop(w)
  PROVE  Moves(w) \/ (Stays /\ wpc[w] \in Owning)
  <1> USE DEF Moves, Stays, At, object, connector, history, Owning, WorkerStates,
              LoopUnchanged
  <1>1. CASE Enter(w) \/ Test(w) \/ Arm(w) \/ SendHeartbeat(w) \/ PollError(w)
             \/ DrainOne(w) \/ DrainEnd(w) \/ ClearConnected(w) \/ ShutSock(w)
    BY <1>1 DEF Enter, Test, Arm, SendHeartbeat, PollError, DrainOne, DrainEnd,
                ClearConnected, ShutSock
  <1>2. CASE HandleRead(w)
    BY <1>2 DEF HandleRead, ReadZeroLength, ReadInvalid, ReadMessage, ReadEof,
                ReadNothing, AfterIn, ReadUnchanged
  <1>3. CASE SendAck(w)
    BY <1>3 DEF SendAck
  <1>4. CASE HandleWrite(w)
    <2>1. caller[w] \in {"ack", "out", "beat"}
      BY DEF TypeOK
    <2> QED
      BY <1>4, <2>1 DEF HandleWrite, WriteDone, WriteAll, WritePart, WriteRefused,
                        Pop, Return, WriteUnchanged
  <1>5. CASE Poll(w)
    BY <1>5 DEF Poll, AfterIn
  <1> QED
    BY <1>1, <1>2, <1>3, <1>4, <1>5 DEF InLoop

LEMMA WorkerKeepsOwnership ==
  ASSUME TypeOK, Ownership, NEW w \in Workers,
         WorkerStep(w) \/ SendHeartbeat(w) \/ PollError(w)
  PROVE  Ownership'
  <1>1. CASE InLoop(w)
    BY <1>1, InLoopMoves, MovesKeepsOwnership, StaysKeepsOwnership
  <1>2. CASE OnConnect(w)
    <2>1. \A v \in Workers : /\ wpc'[v] = IF v = w THEN "test" ELSE wpc[v]
                             /\ told'[v] = IF v = w THEN "connected" ELSE told[v]
      BY <1>2 DEF OnConnect, Goto, TypeOK
    <2>2. wpc[w] = "oncb" /\ UNCHANGED <<sock_fd, cpc, nsock>>
      BY <1>2 DEF OnConnect, At, object, LoopUnchanged, connector
    <2> QED
      BY <2>1, <2>2 DEF Ownership, OneWorker, SocketOwned, Alive, At
  <1>3. CASE UnsetSock(w)
    <2>1. \A v \in Workers : wpc'[v] = IF v = w THEN "bye" ELSE wpc[v]
      BY <1>3 DEF UnsetSock, Goto, TypeOK
    <2>2. wpc[w] = "unset" /\ UNCHANGED <<cpc, nsock, told>>
      BY <1>3 DEF UnsetSock, At, LoopUnchanged, connector
    <2> QED
      BY <2>1, <2>2 DEF Ownership, OneWorker, SocketOwned, Alive, At
  <1>4. CASE OnDisconnect(w)
    <2>1. \A v \in Workers : /\ wpc'[v] = IF v = w THEN "gone" ELSE wpc[v]
                             /\ told'[v] = IF v = w THEN "disconnected" ELSE told[v]
      BY <1>4 DEF OnDisconnect, Goto, TypeOK
    <2>2. wpc[w] = "bye" /\ UNCHANGED <<sock_fd, cpc, nsock>>
      BY <1>4 DEF OnDisconnect, At, object, LoopUnchanged, connector
    <2> QED
      BY <2>1, <2>2 DEF Ownership, OneWorker, SocketOwned, Alive, At
  <1> QED
    BY <1>1, <1>2, <1>3, <1>4 DEF WorkerStep, InLoop

LEMMA OthersKeepOwnership ==
  ASSUME Ownership,
         \/ \E t \in Senders : SendPush(t) \/ SendNotify(t)
         \/ CloseStore \/ Closer
         \/ \E s \in Sockets : Server(s)
         \/ UNCHANGED vars
  PROVE  Ownership'
  <1>1. Stays
    BY DEF Stays, SendPush, SendNotify, CloseStore, Closer, CloseNotify, WaitEnds,
           Server, ServerSend, ServerClose, ServerRead, ServerUnchanged, vars,
           object, connector, history
  <1> QED
    BY <1>1, StaysKeepsOwnership

LEMMA OwnershipInit == Init => Ownership
  BY DEF Init, Ownership, OneWorker, SocketOwned, Alive, At

LEMMA OwnershipStep ==
  ASSUME "reconnect_early" \notin Liberties, TypeOK, Ownership, [Next]_vars
  PROVE  Ownership'
  BY ConnectKeepsOwnership, WorkerKeepsOwnership, OthersKeepOwnership DEF Next

\* A careful application never has two workers in one client, and a worker that
\* reads, writes, shuts down or resets sock_fd_ does so to its own connection.
THEOREM OwnsItsSocket ==
  ASSUME "reconnect_early" \notin Liberties
  PROVE  Spec => [](OneWorker /\ SocketOwned)
  <1>1. Init => TypeOK /\ Ownership
    BY TypeInit, OwnershipInit
  <1>2. TypeOK /\ Ownership /\ [Next]_vars => Ownership'
    BY OwnershipStep
  <1>3. Ownership => OneWorker /\ SocketOwned
    BY DEF Ownership
  <1> QED
    BY <1>1, <1>2, <1>3, TypeCorrect, PTL DEF Spec

-----------------------------------------------------------------------------
(* Wakeups *)

Woken == NoLostWakeup /\ CloseNoticed

\* Where CloseNoticed speaks of a worker.
Watched == {"read", "ack", "write", "pop", "arm", "poll"}

LEMMA WokenConnect ==
  ASSUME "reconnect_early" \notin Liberties, TypeOK, Ownership, Connect
  PROVE  Woken'
  <1>1. \A w \in Workers : ~Alive(w)
    BY ConnectAlone
  <1>2. \A w \in Workers : wpc'[w] \in {"none", "gone", "spawned"}
    BY <1>1 DEF Connect, ConnectRejected, ConnectNoSocket, ConnectOpen, ConnectFail,
                ConnectRedirect, ConnectEstablish, Goto, Alive, TypeOK
  <1> QED
    BY <1>2 DEF Woken, NoLostWakeup, CloseNoticed, At

LEMMA WokenApplication ==
  ASSUME TypeOK, Woken,
         \/ \E t \in Senders : SendPush(t) \/ SendNotify(t)
         \/ CloseStore \/ Closer
  PROVE  Woken'
  <1> USE DEF Woken, NoLostWakeup, CloseNoticed, At, object, locals, TypeOK
  <1>1. ASSUME NEW t \in Senders, SendPush(t) PROVE Woken'
    BY <1>1 DEF SendPush
  <1>2. ASSUME NEW t \in Senders, SendNotify(t) PROVE Woken'
    BY <1>2, BoundsAssumption DEF SendNotify, Notify
  <1>3. CASE CloseStore
    BY <1>3 DEF CloseStore
  <1>4. CASE CloseNotify
    BY <1>4, BoundsAssumption DEF CloseNotify, Notify
  <1>5. CASE WaitEnds
    BY <1>5 DEF WaitEnds
  <1> QED
    BY <1>1, <1>2, <1>3, <1>4, <1>5 DEF Closer

\* A step of the only worker leaves the others where they are; it is enough to
\* look at the worker itself.
LEMMA WokenByOne ==
  ASSUME TypeOK, OneWorker, NEW w \in Workers, Alive(w),
         NEW pc \in WorkerStates, wpc' = [wpc EXCEPT ![w] = pc],
         pc \in Watched => is_connected' \/ pipe' > 0 \/ xpc' \in {"closing", "destroying"},
         pc = "poll" /\ ~want'[w] => queue' = <<>>
  PROVE  Woken'
  <1>1. \A v \in Workers : wpc'[v] = IF v = w THEN pc ELSE wpc[v]
    BY DEF TypeOK
  <1>2. \A v \in Workers : v # w => wpc'[v] \in {"none", "gone"}
    BY <1>1 DEF OneWorker, Alive
  <1> QED
    BY <1>1, <1>2 DEF Woken, NoLostWakeup, CloseNoticed, At, Watched

\* HandleRead and HandleWrite leave is_connected_, the pipe and Close() alone;
\* from a watched state they go to another one, or to one that is not watched.
LEMMA WokenInSession ==
  ASSUME TypeOK, OneWorker, Woken, NEW w \in Workers, wpc[w] \in Watched,
         HandleRead(w) \/ SendAck(w) \/ HandleWrite(w) \/ SendHeartbeat(w)
  PROVE  Woken'
  <1> USE DEF object, app, At, Watched, WorkerStates
  <1>1. is_connected \/ pipe > 0 \/ xpc \in {"closing", "destroying"}
    BY DEF Woken, CloseNoticed
  <1>2. UNCHANGED <<is_connected, pipe, xpc>>
    BY DEF HandleRead, ReadZeroLength, ReadInvalid, ReadMessage, ReadEof,
           ReadNothing, ReadUnchanged, SendAck, HandleWrite, WriteDone, WriteAll,
           WritePart, WriteRefused, Pop, WriteUnchanged, SendHeartbeat
  <1>3. \E pc \in WorkerStates \ {"poll"} : wpc' = [wpc EXCEPT ![w] = pc]
    <2>1. CASE HandleRead(w)
      <3>1. (wpc' = wpc /\ wpc[w] = "read")
              \/ \E pc \in WorkerStates \ {"poll"} : Goto(w, pc)
        BY <2>1 DEF HandleRead, ReadZeroLength, ReadInvalid, ReadMessage, ReadEof,
                    ReadNothing, AfterIn
      <3> QED
        BY <3>1 DEF Goto, TypeOK
    <2>2. CASE SendAck(w) \/ SendHeartbeat(w)
      BY <2>2 DEF SendAck, SendHeartbeat, Goto
    <2>3. CASE HandleWrite(w)
      <3>1. caller[w] \in {"ack", "out", "beat"}
        BY DEF TypeOK
      <3>2. \E pc \in WorkerStates \ {"poll"} : Goto(w, pc)
        BY <2>3, <3>1 DEF HandleWrite, WriteDone, WriteAll, WritePart,
                          WriteRefused, Pop, Return
      <3> QED
        BY <3>2 DEF Goto
    <2> QED
      BY <2>1, <2>2, <2>3
  <1>4. Alive(w)
    BY DEF Alive
  <1> QED
    BY <1>1, <1>2, <1>3, <1>4, WokenByOne

LEMMA WokenLoop ==
  ASSUME TypeOK, OneWorker, Woken, NEW w \in Workers,
         \/ Enter(w) \/ OnConnect(w) \/ Test(w) \/ Arm(w) \/ Poll(w)
         \/ PollError(w) \/ DrainOne(w) \/ DrainEnd(w)
         \/ ClearConnected(w) \/ ShutSock(w) \/ UnsetSock(w) \/ OnDisconnect(w)
  PROVE  Woken'
  <1> USE DEF object, app, At, Goto, Watched, WorkerStates, LoopUnchanged, Alive
  <1>1. CASE Test(w)
    BY <1>1, WokenByOne DEF Test
  <1>2. CASE Arm(w)
    <2>1. is_connected \/ pipe > 0 \/ xpc \in {"closing", "destroying"}
      BY <1>2 DEF Arm, Woken, CloseNoticed
    <2>2. /\ UNCHANGED <<is_connected, pipe, xpc, queue>>
          /\ wpc[w] = "arm" /\ wpc' = [wpc EXCEPT ![w] = "poll"]
          /\ want'[w] = (queue # <<>>)
      BY <1>2 DEF Arm, TypeOK
    <2> QED
      BY <2>1, <2>2, WokenByOne
  <1>3. CASE Poll(w)
    <2>1. is_connected \/ pipe > 0 \/ xpc \in {"closing", "destroying"}
      BY <1>3 DEF Poll, Woken, CloseNoticed
    <2>2. /\ UNCHANGED <<is_connected, pipe, xpc>> /\ wpc[w] = "poll"
          /\ \E pc \in {"read", "write", "drain"} : wpc' = [wpc EXCEPT ![w] = pc]
      BY <1>3 DEF Poll, AfterIn
    <2> QED
      BY <2>1, <2>2, WokenByOne
  <1>4. CASE DrainOne(w)
    <2>1. wpc[w] = "drain" /\ wpc' = [wpc EXCEPT ![w] = "drain"]
      BY <1>4 DEF DrainOne, TypeOK
    <2> QED
      BY <2>1, WokenByOne
  <1>5. CASE Enter(w) \/ OnConnect(w) \/ PollError(w) \/ DrainEnd(w)
               \/ ClearConnected(w) \/ ShutSock(w) \/ UnsetSock(w) \/ OnDisconnect(w)
    <2>1. /\ wpc[w] \notin {"none", "gone"}
          /\ \E pc \in WorkerStates \ Watched : wpc' = [wpc EXCEPT ![w] = pc]
      BY <1>5 DEF Enter, OnConnect, PollError, DrainEnd, ClearConnected, ShutSock,
                  UnsetSock, OnDisconnect
    <2> QED
      BY <2>1, WokenByOne
  <1> QED
    BY <1>1, <1>2, <1>3, <1>4, <1>5

LEMMA WokenOthers ==
  ASSUME Woken, (\E s \in Sockets : Server(s)) \/ UNCHANGED vars
  PROVE  Woken'
  <1>1. UNCHANGED <<wpc, want, queue, pipe, spc, is_connected, xpc>>
    BY DEF Server, ServerSend, ServerClose, ServerRead, ServerUnchanged, vars,
           object, app, locals
  <1> QED
    BY <1>1 DEF Woken, NoLostWakeup, CloseNoticed, At

LEMMA WokenStep ==
  ASSUME "reconnect_early" \notin Liberties, TypeOK, Ownership, Woken, [Next]_vars
  PROVE  Woken'
  <1>1. ASSUME NEW w \in Workers, WorkerStep(w) \/ SendHeartbeat(w) \/ PollError(w)
        PROVE  Woken'
    <2>1. OneWorker
      BY DEF Ownership
    <2>2. CASE HandleRead(w) \/ SendAck(w) \/ HandleWrite(w) \/ SendHeartbeat(w)
      <3>1. wpc[w] \in Watched
        BY <2>2 DEF HandleRead, ReadZeroLength, ReadInvalid, ReadMessage, ReadEof,
                    ReadNothing, SendAck, HandleWrite, WriteDone, WriteAll,
                    WritePart, WriteRefused, Pop, SendHeartbeat, At, Watched
      <3> QED
        BY <2>1, <2>2, <3>1, WokenInSession
    <2> QED
      BY <1>1, <2>1, <2>2, WokenLoop DEF WorkerStep
  <1> QED
    BY <1>1, WokenConnect, WokenApplication, WokenOthers DEF Next

\* A worker never sleeps over a message or over a Close() that it was not told of:
\* the byte in the pipe, or the thread about to write it, outlives every drain.
THEOREM NoWakeupIsLost ==
  ASSUME "reconnect_early" \notin Liberties
  PROVE  Spec => [](NoLostWakeup /\ CloseNoticed)
  <1>1. Init => TypeOK /\ Ownership /\ Woken
    BY TypeInit, OwnershipInit DEF Init, Woken, NoLostWakeup, CloseNoticed, At
  <1>2. TypeOK /\ Ownership /\ [Next]_vars => Ownership'
    BY OwnershipStep
  <1>3. TypeOK /\ Ownership /\ Woken /\ [Next]_vars => Woken'
    BY WokenStep
  <1>4. Woken => NoLostWakeup /\ CloseNoticed
    BY DEF Woken
  <1> QED
    BY <1>1, <1>2, <1>3, <1>4, TypeCorrect, PTL DEF Spec

\* A worker that is inside the loop sees a Close(), or will be woken for it.
THEOREM CloseIsNoticed ==
  ASSUME "reconnect_early" \notin Liberties
  PROVE  Spec => []CloseNoticed
  <1>1. Spec => [](NoLostWakeup /\ CloseNoticed)
    BY NoWakeupIsLost
  <1> QED
    BY <1>1, PTL

-----------------------------------------------------------------------------
(* The destructor *)

\* Once Close() or the destructor has begun nobody connects, and when it is done
\* no worker owns the socket.
Ending ==
  /\ xpc # "idle" => cpc = "idle"
  /\ OnlyCallbackLeft

\* What has no owner to begin with has none later.
LEMMA EndingWorker ==
  ASSUME TypeOK, Ending, NEW w \in Workers,
         WorkerStep(w) \/ SendHeartbeat(w) \/ PollError(w)
  PROVE  Ending'
  <1>1. UNCHANGED <<xpc, cpc>>
    BY DEF WorkerStep, Enter, OnConnect, Test, HandleRead, ReadZeroLength, ReadInvalid,
           ReadMessage, ReadEof, ReadNothing, ReadUnchanged, SendAck, HandleWrite,
           WriteDone, WriteAll, WritePart, WriteRefused, Pop, WriteUnchanged, Arm, Poll,
           SendHeartbeat, PollError, DrainOne, DrainEnd, ClearConnected, ShutSock,
           UnsetSock, OnDisconnect, LoopUnchanged, app, connector
  <1>2. CASE xpc # "freed"
    BY <1>1, <1>2 DEF Ending, OnlyCallbackLeft
  <1>3. CASE xpc = "freed"
    <2>1. wpc[w] \notin Owning
      BY <1>3 DEF Ending, OnlyCallbackLeft, Owning
    <2>2. ~InLoop(w) /\ ~OnConnect(w) /\ ~UnsetSock(w)
      <3>1. ~OnConnect(w) /\ ~UnsetSock(w)
        BY <2>1 DEF OnConnect, UnsetSock, At, Owning, WorkerStates
      <3> QED
        BY <2>1, <3>1, InLoopMoves DEF Moves
    <2>3. OnDisconnect(w)
      BY <2>2 DEF WorkerStep, InLoop
    <2>4. \A v \in Workers : wpc'[v] = IF v = w THEN "gone" ELSE wpc[v]
      BY <2>3 DEF OnDisconnect, Goto, TypeOK
    <2> QED
      BY <1>1, <2>4 DEF Ending, OnlyCallbackLeft
  <1> QED
    BY <1>2, <1>3

LEMMA EndingConnect ==
  ASSUME Ending, Connect
  PROVE  Ending'
  <1>1. xpc = "idle"
    BY DEF Ending, Connect, ConnectRejected, ConnectNoSocket, ConnectOpen, ConnectFail,
           ConnectRedirect, ConnectEstablish, CallsConnect, MayConnect
  <1>2. UNCHANGED xpc
    BY DEF Connect, ConnectRejected, ConnectNoSocket, ConnectOpen, ConnectFail,
           ConnectRedirect, ConnectEstablish, ConnectUnchanged, app
  <1> QED
    BY <1>1, <1>2 DEF Ending, OnlyCallbackLeft

LEMMA EndingApplication ==
  ASSUME TypeOK, Ownership, Ending,
         \/ \E t \in Senders : SendPush(t) \/ SendNotify(t)
         \/ CloseStore \/ Closer
  PROVE  Ending'
  <1> USE DEF Ending, OnlyCallbackLeft, object, app, connector
  <1>1. ASSUME NEW t \in Senders, SendPush(t) \/ SendNotify(t) PROVE Ending'
    BY <1>1 DEF SendPush, SendNotify
  <1>2. CASE CloseStore
    BY <1>2 DEF CloseStore, MayClose, MayDestroy, MayShut
  <1>3. CASE CloseNotify
    BY <1>3 DEF CloseNotify
  <1>4. CASE WaitEnds
    <2>1. \A w \in Workers : wpc[w] \in {"none", "bye", "gone"}
      BY <1>4 DEF WaitEnds, Ownership, SocketOwned, NoSock, Workers, Sockets
    <2> QED
      BY <1>4, <2>1 DEF WaitEnds
  <1> QED
    BY <1>1, <1>2, <1>3, <1>4 DEF Closer

LEMMA EndingStep ==
  ASSUME TypeOK, Ownership, Ending, [Next]_vars
  PROVE  Ending'
  <1>1. ASSUME (\E s \in Sockets : Server(s)) \/ UNCHANGED vars PROVE Ending'
    <2>1. UNCHANGED <<xpc, cpc, wpc>>
      BY <1>1 DEF Server, ServerSend, ServerClose, ServerRead, ServerUnchanged, vars,
                  app, connector
    <2> QED
      BY <2>1 DEF Ending, OnlyCallbackLeft
  <1> QED
    BY <1>1, EndingConnect, EndingApplication, EndingWorker DEF Next

\* When the destructor returns the worker of the last connection has left the loop
\* and released the socket: what it may still do to the object is disconnect_cb_.
THEOREM DestructorLeavesCallback ==
  ASSUME "reconnect_early" \notin Liberties
  PROVE  Spec => []OnlyCallbackLeft
  <1>1. Init => TypeOK /\ Ownership /\ Ending
    BY TypeInit, OwnershipInit DEF Init, Ending, OnlyCallbackLeft
  <1>2. TypeOK /\ Ownership /\ [Next]_vars => Ownership'
    BY OwnershipStep
  <1>3. TypeOK /\ Ownership /\ Ending /\ [Next]_vars => Ending'
    BY EndingStep
  <1>4. Ending => OnlyCallbackLeft
    BY DEF Ending
  <1> QED
    BY <1>1, <1>2, <1>3, <1>4, TypeCorrect, PTL DEF Spec

=============================================================================

------------------------ MODULE SocketClientWireProofs ------------------------
(***************************************************************************)
(* What leaves the client, for every value of the constants: write_queue_  *)
(* and the wire together keep the order of the pushes (the refinement of   *)
(* MessageOutbox), a packet is cut only at the front of a connection, and  *)
(* every sequence number is acknowledged once and in order.                *)
(***************************************************************************)
EXTENDS SocketClientProofs

-----------------------------------------------------------------------------
(* Identities of packets *)

LEMMA IdsOf ==
  ASSUME NEW S, \A e \in S : e.id \in PacketId, NEW q \in Seq(S)
  PROVE  /\ Ids(q) \in Seq(PacketId) /\ Len(Ids(q)) = Len(q)
         /\ \A i \in 1..Len(q) : Ids(q)[i] = q[i].id
<1>1. Ids(q) = [i \in 1..Len(q) |-> q[i].id] /\ Len(q) \in Nat
  BY DEF Ids
<1>2. \A i \in 1..Len(q) : q[i].id \in PacketId
  BY ElementOfSeq
<1>. QED
  BY <1>1, <1>2

LEMMA IdsAppend ==
  ASSUME NEW S, \A e \in S : e.id \in PacketId, NEW q \in Seq(S), NEW e \in S
  PROVE  Ids(Append(q, e)) = Append(Ids(q), e.id)
<1>1. /\ Append(q, e) \in Seq(S) /\ Len(Append(q, e)) = Len(q) + 1
      /\ \A i \in 1..Len(q) : Append(q, e)[i] = q[i]
      /\ Append(q, e)[Len(q) + 1] = e
  BY AppendProperties
<1>. DEFINE lhs == Ids(Append(q, e))
            rhs == Append(Ids(q), e.id)
<1>2. /\ lhs \in Seq(PacketId) /\ Len(lhs) = Len(q) + 1
      /\ \A i \in 1..(Len(q) + 1) : lhs[i] = Append(q, e)[i].id
  BY <1>1, IdsOf
<1>3. /\ rhs \in Seq(PacketId) /\ Len(rhs) = Len(q) + 1
      /\ \A i \in 1..Len(q) : rhs[i] = q[i].id
      /\ rhs[Len(q) + 1] = e.id
  BY IdsOf, AppendProperties
<1>. HIDE DEF lhs, rhs
<1>4. \A i \in 1..Len(lhs) : lhs[i] = rhs[i]
  BY <1>1, <1>2, <1>3
<1>. QED
  BY <1>2, <1>3, <1>4, SeqEqual DEF lhs, rhs

LEMMA IdsTail ==
  ASSUME NEW S, \A e \in S : e.id \in PacketId, NEW q \in Seq(S), q # <<>>
  PROVE  Ids(Tail(q)) = Tail(Ids(q)) /\ Head(Ids(q)) = Head(q).id /\ Ids(q) # <<>>
<1>1. Tail(q) \in Seq(S) /\ Len(Tail(q)) = Len(q) - 1 /\ Len(q) \in Nat \ {0}
  OBVIOUS
<1>2. /\ Ids(q) \in Seq(PacketId) /\ Len(Ids(q)) = Len(q)
      /\ \A i \in 1..Len(q) : Ids(q)[i] = q[i].id
  BY IdsOf
<1>3. /\ Ids(Tail(q)) \in Seq(PacketId) /\ Len(Ids(Tail(q))) = Len(q) - 1
      /\ \A i \in 1..(Len(q) - 1) : Ids(Tail(q))[i] = Tail(q)[i].id
  BY <1>1, IdsOf
<1>4. /\ Tail(Ids(q)) \in Seq(PacketId) /\ Len(Tail(Ids(q))) = Len(q) - 1
      /\ \A i \in 1..(Len(q) - 1) : Tail(Ids(q))[i] = Ids(q)[i + 1]
  BY <1>1, <1>2, HeadTailProperties
<1>5. \A i \in 1..(Len(q) - 1) : Ids(Tail(q))[i] = Tail(Ids(q))[i]
  <2>1. \A i \in 1..(Len(q) - 1) : i + 1 \in 1..Len(q) /\ Tail(q)[i] = q[i + 1]
    BY <1>1
  <2>. QED
    BY <1>2, <1>3, <1>4, <2>1
<1>6. Ids(Tail(q)) = Tail(Ids(q))
  BY <1>3, <1>4, <1>5, SeqEqual
<1>. QED
  BY <1>1, <1>2, <1>6

\* An element moves from the front of t to the end of s.
LEMMA Moved ==
  ASSUME NEW S, NEW s \in Seq(S), NEW t \in Seq(S), t # <<>>
  PROVE  /\ Append(s, Head(t)) \o Tail(t) = s \o t
         /\ (s \o t)[Len(s) + 1] = Head(t) /\ Len(s \o t) > Len(s)
<1>1. Len(t) \in Nat \ {0} /\ Head(t) = t[1] /\ Head(t) \in S /\ Tail(t) \in Seq(S)
  OBVIOUS
<1>2. t = <<Head(t)>> \o Tail(t)
  <2>1. SubSeq(t, 1, Len(t)) = t
    BY SubSeqFull
  <2>2. SubSeq(t, 1, Len(t)) = <<t[1]>> \o SubSeq(t, 2, Len(t))
    <3>1. 1 \in 1..Len(t) /\ Len(t) \in 1..Len(t) /\ 1 + 1 = 2
      BY <1>1
    <3>. QED
      BY <3>1, SubSeqRecursiveFirst
  <2>3. Tail(t) = SubSeq(t, 2, Len(t))
    BY TailIsSubSeq
  <2>. QED
    BY <1>1, <2>1, <2>2, <2>3
<1>3. Append(s, Head(t)) = s \o <<Head(t)>> /\ <<Head(t)>> \in Seq(S)
  BY <1>1, AppendIsConcat
<1>4. (s \o <<Head(t)>>) \o Tail(t) = s \o (<<Head(t)>> \o Tail(t))
  BY <1>1, <1>3, ConcatAssociative
<1>5. (s \o t)[Len(s) + 1] = t[1] /\ Len(s \o t) = Len(s) + Len(t)
  <2>1. Len(s) \in Nat
    OBVIOUS
  <2>. QED
    BY <1>1, <2>1, ConcatProperties
<1>6. Len(s) + Len(t) > Len(s)
  BY <1>1
<1>. QED
  BY <1>1, <1>2, <1>3, <1>4, <1>5, <1>6

LEMMA AddedLast ==
  ASSUME NEW S, NEW s \in Seq(S), NEW t \in Seq(S), NEW e \in S
  PROVE  s \o Append(t, e) = Append(s \o t, e)
<1>1. <<e>> \in Seq(S) /\ s \o t \in Seq(S)
  BY ConcatProperties
<1>2. Append(t, e) = t \o <<e>> /\ Append(s \o t, e) = (s \o t) \o <<e>>
  BY <1>1, AppendIsConcat
<1>. QED
  BY <1>1, <1>2, ConcatAssociative

-----------------------------------------------------------------------------
(* What a step does to the queue, the wire and the acknowledgements *)

\* No worker comes to or leaves pc.
Nobody(pc) == \A v \in Workers : wpc'[v] = pc <=> wpc[v] = pc

\* A step that neither pushes nor writes.
Quiet == UNCHANGED <<queue, wire>> /\ Nobody("pop") /\ nsock <= nsock'

\* A step that takes no sequence number and acknowledges none.
Deaf == UNCHANGED <<delivered, last_seq>> /\ Nobody("ack")

Pushes(id) ==
  /\ queue' = Pushed(id)
  /\ UNCHANGED <<wire, nsock>> /\ Nobody("pop")

LEMMA GotoMoves ==
  ASSUME TypeOK, NEW w \in Workers, NEW pc, Goto(w, pc)
  PROVE  \A v \in Workers : wpc'[v] = IF v = w THEN pc ELSE wpc[v]
  BY DEF Goto, TypeOK

LEMMA ConnectIsQuiet ==
  ASSUME TypeOK, Ownership, Connect
  PROVE  Quiet /\ Deaf
<1>1. UNCHANGED <<queue, wire, delivered, last_seq>>
  BY DEF Connect, ConnectRejected, ConnectNoSocket, ConnectOpen, ConnectFail,
         ConnectRedirect, ConnectEstablish, ConnectUnchanged, history
<1>2. nsock <= nsock'
  BY BoundsAssumption
     DEF Connect, ConnectRejected, ConnectNoSocket, ConnectOpen, ConnectFail,
         ConnectRedirect, ConnectEstablish, TypeOK
<1>3. CASE UNCHANGED wpc
  BY <1>1, <1>2, <1>3 DEF Quiet, Deaf, Nobody
<1>4. CASE ConnectEstablish
  <2>1. nsock \in Workers /\ wpc[nsock] = "none"
    BY <1>4, BoundsAssumption DEF ConnectEstablish, Ownership, At, TypeOK, Workers, Sockets
  <2>2. \A v \in Workers : wpc'[v] = IF v = nsock THEN "spawned" ELSE wpc[v]
    BY <1>4, <2>1, GotoMoves DEF ConnectEstablish
  <2>. QED
    BY <1>1, <1>2, <2>1, <2>2 DEF Quiet, Deaf, Nobody
<1>. QED
  BY <1>3, <1>4 DEF Connect, ConnectRejected, ConnectNoSocket, ConnectOpen, ConnectFail,
                    ConnectRedirect

LEMMA ApplicationPushes ==
  ASSUME TypeOK,
         \/ \E t \in Senders : SendPush(t) \/ SendNotify(t)
         \/ CloseStore \/ Closer
  PROVE  Deaf /\ (Quiet \/ \E id \in PacketId : ~IsAck(id) /\ Pushes(id))
<1>1. Deaf /\ Nobody("pop") /\ UNCHANGED <<wire, nsock>> /\ nsock \in Nat
  <2>1. UNCHANGED <<wire, nsock, wpc, delivered, last_seq>>
    BY DEF SendPush, SendNotify, CloseStore, Closer, CloseNotify, WaitEnds, object,
           history, connector
  <2>. QED
    BY <2>1, BoundsAssumption DEF Deaf, Nobody, TypeOK
<1>2. ASSUME NEW t \in Senders, SendPush(t)
      PROVE  \E id \in PacketId : ~IsAck(id) /\ queue' = Pushed(id)
  <2>. DEFINE id == [kind |-> "user", by |-> t, n |-> nsent[t] + 1]
  <2>1. nsent[t] + 1 \in 1..MaxSends
    BY <1>2, BoundsAssumption DEF SendPush, TypeOK
  <2>2. id \in PacketId /\ ~IsAck(id)
    BY <2>1 DEF PacketId, IsAck
  <2>. QED
    BY <1>2, <2>2 DEF SendPush
<1>3. CASE UNCHANGED queue
  BY <1>1, <1>3 DEF Quiet
<1>. QED
  BY <1>1, <1>2, <1>3
     DEF SendNotify, CloseStore, Closer, CloseNotify, WaitEnds, Pushes

LEMMA ServerIsQuiet ==
  ASSUME TypeOK, (\E s \in Sockets : Server(s)) \/ UNCHANGED vars
  PROVE  Quiet /\ Deaf
<1>1. UNCHANGED <<queue, wire, wpc, nsock, delivered, last_seq>>
  BY DEF Server, ServerSend, ServerClose, ServerRead, ServerUnchanged, vars, object,
         connector, history
<1>. QED
  BY <1>1, BoundsAssumption DEF Quiet, Deaf, Nobody, TypeOK

\* A worker that moves between states other than these two.
LEMMA NobodyMoves ==
  ASSUME TypeOK, NEW w \in Workers, NEW pc, wpc[w] # pc,
         wpc' = wpc \/ \E q \in WorkerStates \ {pc} : Goto(w, q)
  PROVE  Nobody(pc)
  BY GotoMoves DEF Nobody

LEMMA ReadIsQuiet ==
  ASSUME TypeOK, NEW w \in Workers, HandleRead(w)
  PROVE  Quiet /\ (Deaf \/ ReadMessage(w))
<1>. USE DEF ReadZeroLength, ReadInvalid, ReadMessage, ReadEof, ReadNothing, AfterIn,
             WorkerStates, HandleRead
<1>1. UNCHANGED <<queue, wire, nsock>> /\ nsock \in Nat /\ wpc[w] = "read"
  BY BoundsAssumption DEF ReadUnchanged, connector, At, TypeOK
<1>2. wpc' = wpc \/ \E q \in WorkerStates \ {"pop"} : Goto(w, q)
  OBVIOUS
<1>3. Nobody("pop")
  BY <1>1, <1>2, NobodyMoves
<1>4. ASSUME ~ReadMessage(w)
      PROVE  Deaf
  <2>1. wpc' = wpc \/ \E q \in WorkerStates \ {"ack"} : Goto(w, q)
    BY <1>4
  <2>2. UNCHANGED <<delivered, last_seq>>
    BY <1>4
  <2>. QED
    BY <1>1, <2>1, <2>2, NobodyMoves DEF Deaf
<1>. QED
  BY <1>1, <1>3, <1>4 DEF Quiet

LEMMA WriteIsDeaf ==
  ASSUME TypeOK, NEW w \in Workers, HandleWrite(w)
  PROVE  Deaf /\ (Quiet \/ WriteAll(w) \/ WritePart(w) \/ Pop(w))
<1>. USE DEF HandleWrite, WriteDone, WriteAll, WritePart, WriteRefused, Pop, Return,
             WorkerStates, WriteUnchanged
<1>1. UNCHANGED <<nsock, delivered, last_seq>> /\ nsock \in Nat /\ wpc[w] \in {"write", "pop"}
  BY BoundsAssumption DEF connector, object, At, TypeOK
<1>2. caller[w] \in {"ack", "out", "beat"}
  BY DEF TypeOK
<1>3. \E q \in WorkerStates \ {"ack"} : Goto(w, q)
  BY <1>2
<1>4. Deaf
  BY <1>1, <1>3, NobodyMoves DEF Deaf
<1>5. ASSUME ~(WriteAll(w) \/ WritePart(w) \/ Pop(w))
      PROVE  Quiet
  <2>1. UNCHANGED <<queue, wire>> /\ wpc[w] = "write"
    BY <1>5 DEF At
  <2>2. \E q \in WorkerStates \ {"pop"} : Goto(w, q)
    BY <1>2, <1>5
  <2>. QED
    BY <1>1, <2>1, <2>2, NobodyMoves DEF Quiet
<1>. QED
  BY <1>4, <1>5

LEMMA LoopIsQuiet ==
  ASSUME TypeOK, NEW w \in Workers,
         \/ Enter(w) \/ OnConnect(w) \/ Test(w) \/ Arm(w) \/ Poll(w)
         \/ PollError(w) \/ DrainOne(w) \/ DrainEnd(w)
         \/ ClearConnected(w) \/ ShutSock(w) \/ UnsetSock(w) \/ OnDisconnect(w)
  PROVE  Quiet /\ Deaf
<1>. USE DEF Enter, OnConnect, Test, Arm, Poll, PollError, DrainOne, DrainEnd,
             ClearConnected, ShutSock, UnsetSock, OnDisconnect, AfterIn, WorkerStates
<1>1. /\ UNCHANGED <<queue, wire, nsock, delivered, last_seq>> /\ nsock \in Nat
      /\ wpc[w] \notin {"pop", "ack"}
  BY BoundsAssumption DEF LoopUnchanged, connector, object, At, TypeOK
<1>2. wpc' = wpc \/ \E q \in WorkerStates \ {"pop", "ack"} : Goto(w, q)
  OBVIOUS
<1>3. Nobody("pop") /\ Nobody("ack")
  BY <1>1, <1>2, NobodyMoves
<1>. QED
  BY <1>1, <1>3 DEF Quiet, Deaf

LEMMA HeartbeatPushes ==
  ASSUME TypeOK, NEW w \in Workers, SendHeartbeat(w)
  PROVE  Deaf /\ \E id \in PacketId : ~IsAck(id) /\ Pushes(id)
<1>. DEFINE id == [kind |-> "beat", n |-> nbeat + 1]
<1>1. id \in PacketId /\ ~IsAck(id)
  <2>1. nbeat + 1 \in 1..MaxBeats
    BY BoundsAssumption DEF SendHeartbeat, TypeOK
  <2>. QED
    BY <2>1 DEF PacketId, IsAck
<1>2. Nobody("pop") /\ Nobody("ack")
  BY NobodyMoves DEF SendHeartbeat, At, WorkerStates
<1>3. queue' = Pushed(id) /\ UNCHANGED <<wire, nsock, delivered, last_seq>>
  BY DEF SendHeartbeat, history, connector, object
<1>. QED
  BY <1>1, <1>2, <1>3 DEF Deaf, Pushes

LEMMA AckPushes ==
  ASSUME TypeOK, NEW w \in Workers, SendAck(w)
  PROVE  /\ [kind |-> "ack", n |-> last_seq] \in PacketId
         /\ Pushes([kind |-> "ack", n |-> last_seq])
<1>1. Nobody("pop")
  BY NobodyMoves DEF SendAck, At, WorkerStates
<1>. QED
  BY <1>1 DEF SendAck, Pushes, PacketId, history, connector, TypeOK

LEMMA StepKinds ==
  ASSUME TypeOK, Ownership, [Next]_vars
  PROVE  \/ Quiet /\ Deaf
         \/ Deaf /\ \E id \in PacketId : ~IsAck(id) /\ Pushes(id)
         \/ \E w \in Workers : ReadMessage(w) /\ Quiet
         \/ \E w \in Workers : SendAck(w)
         \/ Deaf /\ \E w \in Workers : WriteAll(w) \/ WritePart(w) \/ Pop(w)
<1>1. ASSUME NEW w \in Workers, WorkerStep(w)
      PROVE  \/ Quiet /\ Deaf
             \/ ReadMessage(w) /\ Quiet
             \/ SendAck(w)
             \/ Deaf /\ (WriteAll(w) \/ WritePart(w) \/ Pop(w))
  BY <1>1, ReadIsQuiet, WriteIsDeaf, LoopIsQuiet DEF WorkerStep
<1>. QED
  BY <1>1, ConnectIsQuiet, ApplicationPushes, ServerIsQuiet, LoopIsQuiet, HeartbeatPushes
     DEF Next

-----------------------------------------------------------------------------
(* The order of the pushes *)

\* What is popped is there: pushes come at the other end of the queue, and the one
\* worker is the only one to pop.
Front == Popping => queue # <<>>

LEMMA AcceptedType ==
  ASSUME TypeOK
  PROVE  /\ Unsent \in Seq(Packet)
         /\ Ids(wire) \in Seq(PacketId) /\ Ids(Unsent) \in Seq(PacketId)
         /\ Accepted \in Seq(PacketId)
<1>1. (\A e \in Packet : e.id \in PacketId) /\ \A e \in Written : e.id \in PacketId
  BY DEF Packet, Written
<1>2. Unsent \in Seq(Packet)
  BY HeadTailType DEF TypeOK, Unsent
<1>3. Ids(wire) \in Seq(PacketId) /\ Ids(Unsent) \in Seq(PacketId)
  BY <1>1, <1>2, IdsOf DEF TypeOK
<1>. QED
  BY <1>2, <1>3, ConcatProperties DEF Accepted

LEMMA QuietKeeps ==
  ASSUME Quiet
  PROVE  Accepted' = Accepted /\ Ids(wire)' = Ids(wire) /\ Popping' = Popping
<1>1. Popping' = Popping
  BY DEF Quiet, Nobody, Popping, At
<1>. QED
  BY <1>1 DEF Quiet, Accepted, Ids, Unsent

LEMMA PushAccepts ==
  ASSUME TypeOK, Front, NEW id \in PacketId, Pushes(id)
  PROVE  /\ Accepted' = Append(Accepted, id) /\ Ids(wire)' = Ids(wire)
         /\ Popping' = Popping /\ queue' # <<>>
<1>1. Popping' = Popping
  BY DEF Pushes, Nobody, Popping, At
<1>2. Fresh(id) \in Packet /\ Fresh(id).id = id
  BY FreshType DEF Fresh
<1>3. queue' = Append(queue, Fresh(id)) /\ queue' # <<>> /\ queue \in Seq(Packet)
  <2>1. queue \in Seq(Packet) /\ queue' = Append(queue, Fresh(id))
    BY DEF Pushes, Pushed, TypeOK
  <2>. QED
    BY <1>2, <2>1, AppendProperties
<1>4. Unsent' = Append(Unsent, Fresh(id))
  <2>1. CASE Popping
    BY <1>1, <1>2, <1>3, <2>1, HeadTailAppend DEF Unsent, Front
  <2>2. CASE ~Popping
    BY <1>1, <1>3, <2>2 DEF Unsent
  <2>. QED
    BY <2>1, <2>2
<1>5. Ids(Append(Unsent, Fresh(id))) = Append(Ids(Unsent), id)
  <2>1. \A e \in Packet : e.id \in PacketId
    BY DEF Packet
  <2>. QED
    BY <1>2, <2>1, AcceptedType, IdsAppend
<1>6. Ids(wire)' = Ids(wire) /\ Ids(Unsent)' = Append(Ids(Unsent), id)
  BY <1>4, <1>5 DEF Pushes, Ids
<1>7. Ids(wire) \o Append(Ids(Unsent), id) = Append(Ids(wire) \o Ids(Unsent), id)
  BY AcceptedType, AddedLast
<1>. QED
  BY <1>1, <1>3, <1>6, <1>7 DEF Accepted

LEMMA OnlyOnePops ==
  ASSUME OneWorker, NEW w \in Workers, At(w, "write")
  PROVE  ~Popping
  BY DEF OneWorker, Alive, Popping, At

LEMMA WriteAllWrites ==
  ASSUME TypeOK, OneWorker, NEW w \in Workers, WriteAll(w)
  PROVE  /\ Accepted' = Accepted /\ Len(Ids(wire)) < Len(Accepted)
         /\ Ids(wire)' = Append(Ids(wire), Accepted[Len(Ids(wire)) + 1])
         /\ ~Popping /\ Popping' /\ queue # <<>> /\ queue' = queue
<1>1. ~Popping /\ queue # <<>> /\ queue' = queue /\ Unsent = queue
  BY OnlyOnePops DEF WriteAll, Unsent
<1>2. Popping'
  BY GotoMoves DEF WriteAll, Popping, At
<1>3. /\ queue \in Seq(Packet) /\ wire \in Seq(Written) /\ Head(queue) \in Packet
      /\ \A e \in Packet : e.id \in PacketId
      /\ \A e \in Written : e.id \in PacketId
  BY <1>1, HeadTailType DEF TypeOK, Packet, Written
<1>. DEFINE e == [id |-> Head(queue).id, sock |-> sock_fd, cut |-> Cut(Head(queue))]
<1>4. wire' = Append(wire, e) /\ e.id = Head(queue).id
  BY DEF WriteAll
<1>5. e \in Written
  <2>1. sock_fd \in Sockets
    BY DEF WriteAll, Accepts, TypeOK
  <2>2. Cut(Head(queue)) \in BOOLEAN
    BY <1>3 DEF Cut, Packet
  <2>3. Head(queue).id \in PacketId
    BY <1>3
  <2>. QED
    BY <2>1, <2>2, <2>3 DEF Written
<1>. HIDE DEF e
<1>6. Ids(wire') = Append(Ids(wire), Head(queue).id)
  BY <1>3, <1>4, <1>5, IdsAppend
<1>7. /\ Ids(Tail(queue)) = Tail(Ids(queue)) /\ Head(Ids(queue)) = Head(queue).id
      /\ Ids(queue) # <<>>
  BY <1>1, <1>3, IdsTail
<1>8. Unsent' = Tail(queue)
  BY <1>1, <1>2 DEF Unsent
<1>9. Ids(wire)' = Append(Ids(wire), Head(Ids(queue))) /\ Ids(Unsent)' = Tail(Ids(queue))
  BY <1>6, <1>7, <1>8 DEF Ids
<1>10. Accepted = Ids(wire) \o Ids(queue)
  BY <1>1 DEF Accepted
<1>11. Accepted' = Append(Ids(wire), Head(Ids(queue))) \o Tail(Ids(queue))
  BY <1>9 DEF Accepted
<1>12. Ids(wire) \in Seq(PacketId) /\ Ids(queue) \in Seq(PacketId)
  BY <1>1, AcceptedType
<1>13. /\ Append(Ids(wire), Head(Ids(queue))) \o Tail(Ids(queue)) = Ids(wire) \o Ids(queue)
       /\ (Ids(wire) \o Ids(queue))[Len(Ids(wire)) + 1] = Head(Ids(queue))
       /\ Len(Ids(wire) \o Ids(queue)) > Len(Ids(wire))
  BY <1>7, <1>12, Moved
<1>14. Len(Ids(wire) \o Ids(queue)) \in Nat /\ Len(Ids(wire)) \in Nat
  BY <1>10, <1>12, AcceptedType
<1>. QED
  BY <1>1, <1>2, <1>9, <1>10, <1>11, <1>13, <1>14

LEMMA PartKeeps ==
  ASSUME TypeOK, OneWorker, NEW w \in Workers, WritePart(w)
  PROVE  /\ Accepted' = Accepted /\ Ids(wire)' = Ids(wire)
         /\ ~Popping /\ ~Popping' /\ wire' = wire
<1>1. ~Popping
  BY OnlyOnePops DEF WritePart
<1>2. ~Popping'
  <2>1. caller[w] \in {"ack", "out", "beat"}
    BY DEF TypeOK
  <2>2. \E q \in WorkerStates \ {"pop"} : Goto(w, q)
    BY <2>1 DEF WritePart, Return, WorkerStates
  <2>. QED
    BY <1>1, <2>2, GotoMoves DEF Popping, At
<1>3. Ids(queue') = Ids(queue)
  <2>1. /\ queue \in Seq(Packet) /\ 1 \in DOMAIN queue /\ queue[1] \in Packet
        /\ queue' = [queue EXCEPT ![1].on = sock_fd, ![1].cut = Cut(Head(queue))]
    BY HeadTailType, ElementOfSeq DEF WritePart, TypeOK
  <2>2. DOMAIN queue' = DOMAIN queue /\ \A i \in DOMAIN queue : queue'[i].id = queue[i].id
    BY <2>1 DEF Packet
  <2>. QED
    BY <2>2 DEF Ids
<1>4. wire' = wire
  BY DEF WritePart
<1>5. Ids(Unsent)' = Ids(Unsent)
  BY <1>1, <1>2, <1>3 DEF Unsent, Ids
<1>. QED
  BY <1>1, <1>2, <1>4, <1>5 DEF Accepted, Ids

LEMMA PopKeeps ==
  ASSUME TypeOK, OneWorker, NEW w \in Workers, Pop(w)
  PROVE  Accepted' = Accepted /\ Ids(wire)' = Ids(wire) /\ Popping /\ ~Popping'
<1>1. Popping
  BY DEF Pop, Popping
<1>2. ~Popping'
  BY GotoMoves DEF Pop, Popping, At, OneWorker, Alive
<1>3. Unsent' = Unsent /\ wire' = wire
  BY <1>1, <1>2 DEF Pop, Unsent
<1>. QED
  BY <1>1, <1>2, <1>3 DEF Accepted, Ids

LEMMA FrontInit == Init => Front
  BY DEF Init, Front, Popping, At

LEMMA FrontStep ==
  ASSUME TypeOK, Ownership, Front, [Next]_vars
  PROVE  Front'
<1>1. OneWorker
  BY DEF Ownership
<1>2. ASSUME NEW id \in PacketId, Pushes(id)
      PROVE  Front'
  BY <1>2, PushAccepts DEF Front
<1>3. ASSUME Quiet
      PROVE  Front'
  BY <1>3, QuietKeeps DEF Quiet, Front
<1>. QED
  BY <1>1, <1>2, <1>3, StepKinds, AckPushes, WriteAllWrites, PartKeeps, PopKeeps DEF Front

\* Connections that come and go, writes in pieces and the acknowledgements and
\* heartbeats in between leave the order of the pushes as it is: what is written is at
\* all times the beginning of what was pushed, nothing twice and nothing left out.
THEOREM KeepsTheOrder ==
  ASSUME "reconnect_early" \notin Liberties
  PROVE  Spec => OutboxSpec
<1>1. Init => Outbox!Init
  BY DEF Init, Outbox!Init, Accepted, Unsent, Ids, Popping, At
<1>2. ASSUME TypeOK, Ownership, Front, [Next]_vars
      PROVE  [Outbox!Next]_<<Accepted, Ids(wire)>>
  <2>1. OneWorker
    BY <1>2 DEF Ownership
  <2>2. ASSUME NEW id \in PacketId, Pushes(id)
        PROVE  Outbox!Next
    BY <1>2, <2>2, PushAccepts DEF Outbox!Next, Outbox!Accept
  <2>3. ASSUME NEW w \in Workers, WriteAll(w)
        PROVE  Outbox!Next
    BY <1>2, <2>1, <2>3, WriteAllWrites DEF Outbox!Next, Outbox!Write
  <2>4. ASSUME Quiet \/ \E w \in Workers : WritePart(w) \/ Pop(w)
        PROVE  UNCHANGED <<Accepted, Ids(wire)>>
    BY <1>2, <2>1, <2>4, QuietKeeps, PartKeeps, PopKeeps
  <2>. QED
    BY <1>2, <2>2, <2>3, <2>4, StepKinds, AckPushes
<1>3. Init => TypeOK /\ Ownership /\ Front
  BY TypeInit, OwnershipInit, FrontInit
<1>4. TypeOK /\ Ownership /\ Front /\ [Next]_vars => Ownership' /\ Front'
  BY OwnershipStep, FrontStep
<1>. QED
  BY <1>1, <1>2, <1>3, <1>4, TypeCorrect, PTL DEF Spec, OutboxSpec, Outbox!Spec

-----------------------------------------------------------------------------
(* Packets in two pieces *)

\* Only the packet at the front has bytes on a socket, on the newest one that was
\* written to; once it is cut nothing but it may start that socket.
Fragments ==
  /\ \A i \in DOMAIN wire : wire[i].sock <= nsock
  /\ \A i \in DOMAIN queue : i > 1 => queue[i].on = NoSock
  /\ \A i \in DOMAIN queue : queue[i].on = NoSock => ~queue[i].cut
  /\ queue # <<>> => queue[1].on <= nsock
  /\ queue # <<>> /\ ~Popping /\ queue[1].on # NoSock =>
       \A j \in DOMAIN wire :
         /\ wire[j].sock <= queue[1].on
         /\ queue[1].cut => wire[j].sock # queue[1].on

LEMMA Numbers ==
  ASSUME TypeOK
  PROVE  /\ nsock \in Nat /\ DOMAIN queue = 1..Len(queue) /\ DOMAIN wire = 1..Len(wire)
         /\ Len(queue) \in Nat /\ Len(wire) \in Nat /\ (queue # <<>> => Len(queue) >= 1)
         /\ \A i \in DOMAIN queue : queue[i].on \in Nat /\ queue[i].cut \in BOOLEAN
         /\ \A i \in DOMAIN wire : wire[i].sock \in Nat
<1>1. queue \in Seq(Packet) /\ wire \in Seq(Written) /\ nsock \in Nat
  BY BoundsAssumption DEF TypeOK
<1>2. \A e \in Packet : e.on \in Nat /\ e.cut \in BOOLEAN
  BY BoundsAssumption DEF Packet, Sockets, NoSock
<1>3. \A e \in Written : e.sock \in Nat
  BY BoundsAssumption DEF Written, Sockets
<1>. QED
  BY <1>1, <1>2, <1>3, ElementOfSeq, HeadTailType

LEMMA FragmentsQuiet ==
  ASSUME TypeOK, TypeOK', Fragments, CutOnlyFirst, Quiet
  PROVE  Fragments' /\ CutOnlyFirst'
<1>1. Popping' = Popping /\ UNCHANGED <<queue, wire>> /\ nsock <= nsock'
  BY QuietKeeps DEF Quiet
<1>2. nsock \in Nat /\ nsock' \in Nat
  BY BoundsAssumption DEF TypeOK
<1>3. /\ \A i \in DOMAIN wire : wire[i].sock \in Nat
      /\ queue # <<>> => queue[1].on \in Nat
  BY Numbers
<1>4. \A k \in Nat : k <= nsock => k <= nsock'
  BY <1>1, <1>2
<1>5. Fragments'
  BY <1>1, <1>3, <1>4 DEF Fragments
<1>. QED
  BY <1>1, <1>5 DEF CutOnlyFirst

LEMMA FragmentsPush ==
  ASSUME TypeOK, Front, Fragments, CutOnlyFirst, NEW id \in PacketId, Pushes(id)
  PROVE  Fragments' /\ CutOnlyFirst'
<1>1. Popping' = Popping /\ UNCHANGED <<wire, nsock>> /\ nsock \in Nat
  BY PushAccepts, BoundsAssumption DEF Pushes, TypeOK
<1>2. /\ queue' \in Seq(Packet) /\ Len(queue') = Len(queue) + 1
      /\ \A i \in 1..Len(queue) : queue'[i] = queue[i]
      /\ queue'[Len(queue) + 1].on = NoSock /\ ~queue'[Len(queue) + 1].cut
  <2>1. Fresh(id) \in Packet /\ Fresh(id).on = NoSock /\ ~Fresh(id).cut
    BY FreshType DEF Fresh
  <2>2. queue \in Seq(Packet) /\ queue' = Append(queue, Fresh(id))
    BY DEF TypeOK, Pushes, Pushed
  <2>. QED
    BY <2>1, <2>2, AppendProperties
<1>3. /\ DOMAIN queue' = 1..(Len(queue) + 1) /\ DOMAIN queue = 1..Len(queue)
      /\ Len(queue) \in Nat /\ (queue # <<>> => Len(queue) >= 1)
  BY <1>2, Numbers
<1>4. \A i \in DOMAIN queue' : i \in DOMAIN queue \/ i = Len(queue) + 1
  BY <1>3
<1>5. /\ \A i \in DOMAIN queue' : i > 1 => queue'[i].on = NoSock
      /\ \A i \in DOMAIN queue' : queue'[i].on = NoSock => ~queue'[i].cut
  BY <1>2, <1>3, <1>4 DEF Fragments
<1>6. (queue'[1] = queue[1] /\ queue # <<>>) \/ queue'[1].on = NoSock
  <2>1. CASE queue = <<>>
    BY <1>2, <1>3, <2>1
  <2>2. CASE queue # <<>>
    BY <1>2, <1>3, <2>2
  <2>. QED
    BY <2>1, <2>2
<1>7. NoSock <= nsock
  BY <1>1 DEF NoSock
<1>. QED
  BY <1>1, <1>5, <1>6, <1>7 DEF Fragments, CutOnlyFirst

\* The worker that writes is the one of the newest socket.
LEMMA WritesToNewest ==
  ASSUME Ownership, NEW w \in Workers, At(w, "write")
  PROVE  sock_fd = nsock
  BY DEF Ownership, SocketOwned, Alive, At

\* The new socket was not written to before, if the packet has bytes on another one.
LEMMA CutIsFirst ==
  ASSUME TypeOK, Fragments, ~Popping, queue # <<>>, sock_fd = nsock, Cut(Head(queue))
  PROVE  \A j \in DOMAIN wire : wire[j].sock # nsock
<1>1. Head(queue) = queue[1] /\ 1 \in DOMAIN queue
  BY HeadTailType DEF TypeOK
<1>2. queue[1].on \in Nat /\ nsock \in Nat /\ \A j \in DOMAIN wire : wire[j].sock \in Nat
  BY <1>1, Numbers
<1>3. queue[1].on # NoSock /\ queue[1].on <= nsock
  BY <1>1 DEF Cut, Fragments
<1>4. \A j \in DOMAIN wire : /\ wire[j].sock <= queue[1].on
                             /\ queue[1].cut => wire[j].sock # queue[1].on
  BY <1>3 DEF Fragments
<1>5. CASE queue[1].on = nsock
  BY <1>1, <1>3, <1>4, <1>5 DEF Cut
<1>6. CASE queue[1].on < nsock
  BY <1>2, <1>4, <1>6
<1>. QED
  BY <1>2, <1>3, <1>5, <1>6

LEMMA FragmentsWriteAll ==
  ASSUME TypeOK, Ownership, Fragments, CutOnlyFirst, NEW w \in Workers, WriteAll(w)
  PROVE  Fragments' /\ CutOnlyFirst'
<1>. DEFINE e == [id |-> Head(queue).id, sock |-> sock_fd, cut |-> Cut(Head(queue))]
<1>1. /\ ~Popping /\ Popping' /\ queue # <<>> /\ queue' = queue
      /\ sock_fd = nsock /\ nsock' = nsock
  BY WriteAllWrites, WritesToNewest DEF Ownership, WriteAll, WriteUnchanged, connector
<1>2. wire' = Append(wire, e) /\ e.sock = nsock /\ e.cut = Cut(Head(queue))
  BY <1>1 DEF WriteAll
<1>. HIDE DEF e
<1>3. /\ DOMAIN wire' = 1..(Len(wire) + 1) /\ DOMAIN wire = 1..Len(wire) /\ Len(wire) \in Nat
      /\ \A i \in 1..Len(wire) : wire'[i] = wire[i]
      /\ wire'[Len(wire) + 1] = e /\ nsock \in Nat
  BY <1>2, Numbers DEF TypeOK
<1>4. \A i \in DOMAIN wire' : i \in DOMAIN wire \/ i = Len(wire) + 1
  BY <1>3
<1>5. \A i \in DOMAIN wire' : wire'[i].sock <= nsock
  BY <1>2, <1>3, <1>4 DEF Fragments
<1>6. Fragments'
  BY <1>1, <1>5 DEF Fragments
<1>7. e.cut => \A j \in DOMAIN wire : wire[j].sock # e.sock
  BY <1>1, <1>2, CutIsFirst
<1>8. CutOnlyFirst'
  <2>. SUFFICES ASSUME NEW i \in DOMAIN wire', NEW j \in DOMAIN wire', wire'[i].cut, j < i
                PROVE  wire'[j].sock # wire'[i].sock
    BY DEF CutOnlyFirst
  <2>1. j \in DOMAIN wire /\ wire'[j] = wire[j]
    BY <1>3
  <2>2. CASE i = Len(wire) + 1
    BY <1>3, <1>7, <2>1, <2>2
  <2>3. CASE i \in DOMAIN wire
    BY <1>3, <2>1, <2>3 DEF CutOnlyFirst
  <2>. QED
    BY <1>4, <2>2, <2>3
<1>. QED
  BY <1>6, <1>8

LEMMA FragmentsWritePart ==
  ASSUME TypeOK, Ownership, Fragments, CutOnlyFirst, NEW w \in Workers, WritePart(w)
  PROVE  Fragments' /\ CutOnlyFirst'
<1>1. /\ ~Popping /\ ~Popping' /\ queue # <<>> /\ wire' = wire
      /\ sock_fd = nsock /\ nsock' = nsock /\ nsock \in Nat /\ nsock # NoSock
  <2>1. OneWorker
    BY DEF Ownership
  <2>2. ~Popping /\ ~Popping' /\ wire' = wire
    BY <2>1, PartKeeps
  <2>3. At(w, "write") /\ queue # <<>> /\ sock_fd # NoSock
    BY DEF WritePart, Accepts
  <2>4. sock_fd = nsock
    BY <2>3, WritesToNewest
  <2>5. nsock' = nsock
    BY DEF WritePart, WriteUnchanged, connector
  <2>6. nsock \in Nat
    BY Numbers
  <2>. QED
    BY <2>2, <2>3, <2>4, <2>5, <2>6
<1>2. /\ 1 \in DOMAIN queue /\ queue[1] \in Packet /\ Head(queue) = queue[1]
      /\ queue' = [queue EXCEPT ![1].on = sock_fd, ![1].cut = Cut(Head(queue))]
  BY HeadTailType, ElementOfSeq DEF WritePart, TypeOK
<1>3. /\ DOMAIN queue' = DOMAIN queue /\ \A i \in DOMAIN queue : i # 1 => queue'[i] = queue[i]
      /\ queue'[1].on = nsock /\ queue'[1].cut = Cut(Head(queue))
  BY <1>1, <1>2 DEF Packet
<1>4. \A j \in DOMAIN wire : wire[j].sock <= nsock
  BY DEF Fragments
<1>5. queue'[1].cut => \A j \in DOMAIN wire : wire[j].sock # nsock
  BY <1>1, <1>3, CutIsFirst
<1>6. \A i \in DOMAIN queue' : i > 1 => queue'[i].on = NoSock /\ ~queue'[i].cut
  BY <1>3 DEF Fragments
<1>7. \A i \in DOMAIN queue' : queue'[i].on = NoSock => ~queue'[i].cut
  <2>1. DOMAIN queue = 1..Len(queue) /\ Len(queue) \in Nat
    BY Numbers
  <2>2. \A i \in DOMAIN queue' : i = 1 \/ i > 1
    BY <1>3, <2>1
  <2>. QED
    BY <1>1, <1>3, <1>6, <2>2
<1>8. nsock <= nsock
  BY <1>1
<1>. QED
  BY <1>1, <1>3, <1>4, <1>5, <1>6, <1>7, <1>8 DEF Fragments, CutOnlyFirst

LEMMA FragmentsPop ==
  ASSUME TypeOK, Ownership, Front, Fragments, CutOnlyFirst, NEW w \in Workers, Pop(w)
  PROVE  Fragments' /\ CutOnlyFirst'
<1>1. Popping /\ queue # <<>> /\ queue' = Tail(queue) /\ UNCHANGED <<wire, nsock>>
  BY PopKeeps DEF Ownership, Front, Pop, WriteUnchanged, connector
<1>2. queue \in Seq(Packet) /\ Len(queue) \in Nat \ {0} /\ nsock \in Nat
  BY <1>1, HeadTailType, BoundsAssumption DEF TypeOK
<1>3. /\ Tail(queue) \in Seq(Packet) /\ Len(Tail(queue)) = Len(queue) - 1
      /\ \A i \in 1..Len(Tail(queue)) : Tail(queue)[i] = queue[i + 1]
  BY <1>1, <1>2, HeadTailProperties
<1>4. \A i \in DOMAIN queue' : queue'[i] = queue[i + 1] /\ i + 1 \in DOMAIN queue /\ i + 1 > 1
  BY <1>1, <1>2, <1>3
<1>5. \A i \in DOMAIN queue' : queue'[i].on = NoSock /\ ~queue'[i].cut
  BY <1>4 DEF Fragments
<1>6. queue' # <<>> => 1 \in DOMAIN queue'
  BY <1>1, <1>3
<1>7. NoSock <= nsock
  BY <1>2 DEF NoSock
<1>. QED
  BY <1>1, <1>5, <1>6, <1>7 DEF Fragments, CutOnlyFirst

LEMMA FragmentsInit == Init => Fragments /\ CutOnlyFirst
  BY DEF Init, Fragments, CutOnlyFirst

LEMMA FragmentsStep ==
  ASSUME TypeOK, TypeOK', Ownership, Front, Fragments, CutOnlyFirst, [Next]_vars
  PROVE  Fragments' /\ CutOnlyFirst'
  BY StepKinds, AckPushes, FragmentsQuiet, FragmentsPush, FragmentsWriteAll,
     FragmentsWritePart, FragmentsPop

\* A packet that one connection began is finished by the next that writes, before
\* anything else: no packet follows another on a socket and is the rest of one.
THEOREM CutComesFirst ==
  ASSUME "reconnect_early" \notin Liberties
  PROVE  Spec => []CutOnlyFirst
<1>1. Init => TypeOK /\ Ownership /\ Front /\ Fragments /\ CutOnlyFirst
  BY TypeInit, OwnershipInit, FrontInit, FragmentsInit
<1>2. TypeOK /\ Ownership /\ Front /\ [Next]_vars => Ownership' /\ Front'
  BY OwnershipStep, FrontStep
<1>3. TypeOK /\ TypeOK' /\ Ownership /\ Front /\ Fragments /\ CutOnlyFirst /\ [Next]_vars
        => Fragments' /\ CutOnlyFirst'
  BY FragmentsStep
<1>. QED
  BY <1>1, <1>2, <1>3, TypeCorrect, PTL DEF Spec

-----------------------------------------------------------------------------
(* Acknowledgements *)

IsAckOf(i, n) == i \in DOMAIN Accepted /\ IsAck(Accepted[i]) /\ Accepted[i].n = n

\* The application was given the message with sequence number n.
Heard(n) == \E j \in DOMAIN delivered : delivered[j].kind = "msg" /\ delivered[j].seq = n

Acking == \E w \in Workers : At(w, "ack")

\* last_seq_ is above every number acknowledged until it is acknowledged itself, and
\* SendAck finds it unchanged.
AckTrail ==
  /\ \A i, j \in DOMAIN Accepted :
       IsAck(Accepted[i]) /\ IsAck(Accepted[j]) /\ i < j => Accepted[i].n < Accepted[j].n
  /\ \A i \in DOMAIN Accepted :
       IsAck(Accepted[i]) =>
         /\ Accepted[i].n <= last_seq /\ (Acking => Accepted[i].n # last_seq)
         /\ Heard(Accepted[i].n)
  /\ last_seq > 0 => Heard(last_seq) /\ (Acking \/ \E i \in DOMAIN Accepted : IsAckOf(i, last_seq))
  /\ Acking => last_seq > 0

LEMMA AcksAreNumbered ==
  ASSUME TypeOK
  PROVE  /\ DOMAIN Accepted = 1..Len(Accepted) /\ Len(Accepted) \in Nat
         /\ last_seq \in Nat
         /\ \A i \in DOMAIN Accepted : IsAck(Accepted[i]) => Accepted[i].n \in Nat
<1>1. Accepted \in Seq(PacketId)
  BY AcceptedType
<1>2. \A id \in PacketId : IsAck(id) => id.n \in Nat
  BY BoundsAssumption DEF PacketId, IsAck
<1>3. last_seq \in Nat
  BY BoundsAssumption DEF TypeOK
<1>. QED
  BY <1>1, <1>2, <1>3, ElementOfSeq

\* Nothing is pushed, taken or acknowledged.
LEMMA TrailStays ==
  ASSUME AckTrail, Deaf, Accepted' = Accepted
  PROVE  AckTrail'
<1>1. (Acking' <=> Acking) /\ UNCHANGED <<delivered, last_seq>>
  BY DEF Deaf, Nobody, Acking, At
<1>. QED
  BY <1>1 DEF AckTrail, Heard, IsAckOf

\* A packet of another kind is pushed.
LEMMA TrailPush ==
  ASSUME TypeOK, AckTrail, Deaf, NEW id \in PacketId, ~IsAck(id),
         Accepted' = Append(Accepted, id)
  PROVE  AckTrail'
<1>1. (Acking' <=> Acking) /\ UNCHANGED <<delivered, last_seq>>
  BY DEF Deaf, Nobody, Acking, At
<1>2. /\ DOMAIN Accepted' = 1..(Len(Accepted) + 1) /\ Accepted'[Len(Accepted) + 1] = id
      /\ \A i \in 1..Len(Accepted) : Accepted'[i] = Accepted[i]
  BY AcceptedType, AppendProperties
<1>3. DOMAIN Accepted = 1..Len(Accepted) /\ Len(Accepted) \in Nat
  BY AcksAreNumbered
<1>4. \A i \in DOMAIN Accepted' :
        IsAck(Accepted'[i]) => i \in DOMAIN Accepted /\ Accepted'[i] = Accepted[i]
  BY <1>2, <1>3
<1>5. \A i \in DOMAIN Accepted : i \in DOMAIN Accepted' /\ Accepted'[i] = Accepted[i]
  BY <1>2, <1>3
<1>6. \A i, j \in DOMAIN Accepted' :
        IsAck(Accepted'[i]) /\ IsAck(Accepted'[j]) /\ i < j => Accepted'[i].n < Accepted'[j].n
  BY <1>4 DEF AckTrail
<1>7. \A n : Heard(n)' <=> Heard(n)
  BY <1>1 DEF Heard
<1>8. \A i \in DOMAIN Accepted' :
        IsAck(Accepted'[i]) =>
          /\ Accepted'[i].n <= last_seq /\ (Acking => Accepted'[i].n # last_seq)
          /\ Heard(Accepted'[i].n)
  BY <1>4 DEF AckTrail
<1>9. \A i \in DOMAIN Accepted : IsAckOf(i, last_seq) => IsAckOf(i, last_seq)'
  BY <1>1, <1>5 DEF IsAckOf
<1>. QED
  BY <1>1, <1>5, <1>6, <1>7, <1>8, <1>9 DEF AckTrail

LEMMA IncomingFrame ==
  ASSUME TypeOK, Incoming # <<>>
  PROVE  Head(Incoming) \in Frame
<1>1. Incoming \in Seq(Frame)
  BY DEF Incoming, TypeOK
<1>. QED
  BY <1>1, HeadTailType

\* A message is handed over; a number above last_seq_ is taken and SendAck comes next.
LEMMA TrailRead ==
  ASSUME TypeOK, OneWorker, AckTrail, NEW w \in Workers, ReadMessage(w), Quiet
  PROVE  AckTrail'
<1>. DEFINE f == Head(Incoming)
<1>1. Accepted' = Accepted
  BY QuietKeeps
<1>2. ~Acking
  BY DEF Acking, OneWorker, Alive, ReadMessage, At
<1>3. delivered' = Append(delivered, f) /\ f \in Frame /\ f.seq \in Nat
  <2>1. delivered' = Append(delivered, f) /\ Incoming # <<>>
    BY DEF ReadMessage
  <2>2. f \in Frame
    BY <2>1, IncomingFrame
  <2>. QED
    BY <2>1, <2>2, BoundsAssumption DEF Frame
<1>4. \/ last_seq' = last_seq /\ (wpc' = wpc \/ Goto(w, "clear"))
      \/ f.kind = "msg" /\ f.seq > last_seq /\ last_seq' = f.seq /\ Goto(w, "ack")
  BY DEF ReadMessage
<1>. HIDE DEF f
<1>5. /\ DOMAIN delivered' = 1..(Len(delivered) + 1) /\ DOMAIN delivered = 1..Len(delivered)
      /\ \A j \in 1..Len(delivered) : delivered'[j] = delivered[j]
      /\ delivered'[Len(delivered) + 1] = f /\ Len(delivered) \in Nat
  BY <1>3, AppendProperties DEF TypeOK
<1>6. \A n : Heard(n) => Heard(n)'
  <2>1. \A j \in DOMAIN delivered : j \in DOMAIN delivered' /\ delivered'[j] = delivered[j]
    BY <1>5
  <2>. QED
    BY <2>1 DEF Heard
<1>7. f.kind = "msg" =>
        \E j \in DOMAIN delivered' : delivered'[j].kind = "msg" /\ delivered'[j].seq = f.seq
  <2>1. Len(delivered) + 1 \in DOMAIN delivered'
    BY <1>5
  <2>. QED
    BY <1>5, <2>1
<1>8. CASE last_seq' = last_seq /\ (wpc' = wpc \/ Goto(w, "clear"))
  <2>1. ~Acking'
    BY <1>2, <1>8, GotoMoves DEF Acking, At
  <2>. QED
    BY <1>1, <1>2, <1>6, <1>8, <2>1 DEF AckTrail, IsAckOf
<1>9. CASE f.kind = "msg" /\ f.seq > last_seq /\ last_seq' = f.seq /\ Goto(w, "ack")
  <2>1. Acking'
    BY <1>9, GotoMoves DEF Acking, At
  <2>2. last_seq' > 0 /\ Heard(last_seq)'
    BY <1>3, <1>7, <1>9, AcksAreNumbered DEF Heard
  <2>3. \A i \in DOMAIN Accepted :
          IsAck(Accepted[i]) => Accepted[i].n <= f.seq /\ Accepted[i].n # f.seq
    <3>1. \A i \in DOMAIN Accepted :
            IsAck(Accepted[i]) => Accepted[i].n <= last_seq /\ Accepted[i].n \in Nat
      BY AcksAreNumbered DEF AckTrail
    <3>2. \A k \in Nat : k <= last_seq => k <= f.seq /\ k # f.seq
      BY <1>3, <1>9, AcksAreNumbered
    <3>. QED
      BY <3>1, <3>2
  <2>4. \A i \in DOMAIN Accepted : IsAck(Accepted[i]) => Heard(Accepted[i].n)'
    BY <1>1, <1>6 DEF AckTrail, Heard
  <2>. QED
    BY <1>1, <1>9, <2>1, <2>2, <2>3, <2>4 DEF AckTrail
<1>. QED
  BY <1>4, <1>8, <1>9

LEMMA TrailAck ==
  ASSUME TypeOK, OneWorker, Front, AckTrail, NEW w \in Workers, SendAck(w)
  PROVE  AckTrail'
<1>. DEFINE id == [kind |-> "ack", n |-> last_seq]
<1>1. id \in PacketId /\ Accepted' = Append(Accepted, id)
  BY AckPushes, PushAccepts
<1>2. IsAck(id) /\ id.n = last_seq
  BY DEF IsAck
<1>. HIDE DEF id
<1>3. Acking /\ UNCHANGED <<delivered, last_seq>>
  BY DEF Acking, SendAck, object, history
<1>4. ~Acking'
  BY GotoMoves DEF Acking, SendAck, At, OneWorker, Alive
<1>5. /\ DOMAIN Accepted' = 1..(Len(Accepted) + 1) /\ Accepted'[Len(Accepted) + 1] = id
      /\ \A i \in 1..Len(Accepted) : Accepted'[i] = Accepted[i]
  BY <1>1, AcceptedType, AppendProperties
<1>6. DOMAIN Accepted = 1..Len(Accepted) /\ Len(Accepted) \in Nat /\ last_seq \in Nat
  BY AcksAreNumbered
<1>7. \A i \in DOMAIN Accepted' :
        \/ i \in DOMAIN Accepted /\ Accepted'[i] = Accepted[i] /\ i <= Len(Accepted)
        \/ i = Len(Accepted) + 1 /\ Accepted'[i] = id
  BY <1>5, <1>6
<1>8. \A n : Heard(n)' <=> Heard(n)
  BY <1>3 DEF Heard
<1>9. last_seq > 0 /\ Heard(last_seq)
  BY <1>3 DEF AckTrail
<1>10. \A i \in DOMAIN Accepted :
         IsAck(Accepted[i]) =>
           /\ Accepted[i].n < last_seq /\ Accepted[i].n <= last_seq
           /\ Heard(Accepted[i].n)
  BY <1>3, AcksAreNumbered DEF AckTrail
<1>11. \A i, j \in DOMAIN Accepted' :
         IsAck(Accepted'[i]) /\ IsAck(Accepted'[j]) /\ i < j => Accepted'[i].n < Accepted'[j].n
  <2>. SUFFICES ASSUME NEW i \in DOMAIN Accepted', NEW j \in DOMAIN Accepted',
                       IsAck(Accepted'[i]), IsAck(Accepted'[j]), i < j
                PROVE  Accepted'[i].n < Accepted'[j].n
    OBVIOUS
  <2>1. i \in DOMAIN Accepted /\ Accepted'[i] = Accepted[i]
    BY <1>5, <1>6, <1>7
  <2>2. CASE j \in DOMAIN Accepted /\ Accepted'[j] = Accepted[j]
    BY <2>1, <2>2 DEF AckTrail
  <2>3. CASE Accepted'[j] = id
    BY <1>2, <1>10, <2>1, <2>3
  <2>. QED
    BY <1>7, <2>2, <2>3
<1>12. last_seq <= last_seq
  BY <1>6
<1>13. \A i \in DOMAIN Accepted' :
         IsAck(Accepted'[i]) => Accepted'[i].n <= last_seq /\ Heard(Accepted'[i].n)
  BY <1>2, <1>7, <1>9, <1>10, <1>12
<1>14. \E i \in DOMAIN Accepted' : Accepted'[i] = id
  <2>1. Len(Accepted) + 1 \in DOMAIN Accepted'
    BY <1>5, <1>6
  <2>. QED
    BY <1>5, <2>1
<1>15. (\E i \in DOMAIN Accepted : IsAckOf(i, last_seq))'
  BY <1>2, <1>3, <1>14 DEF IsAckOf
<1>. QED
  BY <1>3, <1>4, <1>8, <1>9, <1>11, <1>13, <1>15 DEF AckTrail

LEMMA TrailInit == Init => AckTrail
<1>. SUFFICES ASSUME Init
              PROVE  AckTrail
  OBVIOUS
<1>1. ~Acking /\ last_seq = 0 /\ ~(last_seq > 0)
  BY DEF Init, Acking, At
<1>2. DOMAIN Accepted = {}
  <2>1. ~Popping /\ wire = <<>> /\ queue = <<>>
    BY DEF Init, Popping, At
  <2>2. Ids(wire) = <<>> /\ Ids(Unsent) = <<>>
    BY <2>1 DEF Ids, Unsent
  <2>. QED
    BY <2>2 DEF Accepted
<1>. QED
  BY <1>1, <1>2 DEF AckTrail

LEMMA TrailStep ==
  ASSUME TypeOK, Ownership, Front, AckTrail, [Next]_vars
  PROVE  AckTrail'
<1>1. OneWorker
  BY DEF Ownership
<1>2. ASSUME Deaf, NEW id \in PacketId, ~IsAck(id), Pushes(id)
      PROVE  AckTrail'
  BY <1>2, PushAccepts, TrailPush
<1>3. ASSUME Deaf, NEW w \in Workers, WriteAll(w) \/ WritePart(w) \/ Pop(w)
      PROVE  AckTrail'
  BY <1>1, <1>3, WriteAllWrites, PartKeeps, PopKeeps, TrailStays
<1>4. ASSUME Quiet, Deaf
      PROVE  AckTrail'
  BY <1>4, QuietKeeps, TrailStays
<1>. QED
  BY <1>1, <1>2, <1>3, <1>4, StepKinds, TrailRead, TrailAck

\* What the trail says is what the run checks: with the acks ascending and none above
\* last_seq_, the one with that number is the last.
LEMMA TrailInOrder ==
  ASSUME TypeOK, AckTrail
  PROVE  AcksInOrder
<1>. DEFINE Acks == {i \in DOMAIN Accepted : IsAck(Accepted[i])}
<1>1. \A i, j \in Acks : i < j => Accepted[i].n < Accepted[j].n
  BY DEF AckTrail
<1>2. \A i \in Acks : Heard(Accepted[i].n)
  BY DEF AckTrail
<1>3. ASSUME NEW i \in Acks, Accepted[i].n = last_seq
      PROVE  \A j \in Acks : j <= i
  <2>. SUFFICES ASSUME NEW j \in Acks, i < j
                PROVE  FALSE
    BY AcksAreNumbered
  <2>1. Accepted[i].n < Accepted[j].n
    BY <1>1
  <2>2. Accepted[j].n <= last_seq /\ Accepted[j].n \in Nat /\ last_seq \in Nat
    BY AcksAreNumbered DEF AckTrail
  <2>. QED
    BY <1>3, <2>1, <2>2
<1>4. last_seq > 0 => \/ \E w \in Workers : At(w, "ack")
                      \/ \E i \in Acks : Accepted[i].n = last_seq
  BY DEF AckTrail, Acking, IsAckOf
<1>. QED
  BY <1>1, <1>2, <1>3, <1>4 DEF AcksInOrder, Heard

\* Every sequence number that the client takes is acknowledged once and in order, when
\* the application has its message, and no acknowledgement is lost with a connection.
THEOREM AcknowledgesInOrder ==
  ASSUME "reconnect_early" \notin Liberties
  PROVE  Spec => []AcksInOrder
<1>1. Init => TypeOK /\ Ownership /\ Front /\ AckTrail
  BY TypeInit, OwnershipInit, FrontInit, TrailInit
<1>2. TypeOK /\ Ownership /\ Front /\ [Next]_vars => Ownership' /\ Front'
  BY OwnershipStep, FrontStep
<1>3. TypeOK /\ Ownership /\ Front /\ AckTrail /\ [Next]_vars => AckTrail'
  BY TrailStep
<1>4. TypeOK /\ AckTrail => AcksInOrder
  BY TrailInOrder
<1>. QED
  BY <1>1, <1>2, <1>3, <1>4, TypeCorrect, PTL DEF Spec
=============================================================================

---------------------------- MODULE SocketClient ----------------------------
(***************************************************************************)
(* The connection object of the C++ client (cpp/src/socketclient.cc): one  *)
(* SocketClient, the worker thread that each successful Connect spawns,    *)
(* the application threads that call it, the kernel's sockets and the      *)
(* notify pipe, and the server at the other end.                           *)
(*                                                                         *)
(* One action is one step of a thread between two points where another     *)
(* thread can observe or change the shared fields: sock_fd_, is_connected_,*)
(* write_queue_, the pipe.  Sockets are numbered in the order Connect opens*)
(* them and NoSock is the -1 of sock_fd_; the worker of a connection bears *)
(* the number of its socket.  Packets are written in at most two pieces    *)
(* and keep of their bytes only which connection got the first ones; the   *)
(* byte level is the subject of PacketWriter and PacketReader.             *)
(***************************************************************************)
EXTENDS Naturals, Sequences, FiniteSets

CONSTANTS
  Senders,       \* application threads that send messages
  MaxConnects,   \* bound: sockets opened in a behaviour
  MaxSends,      \* bound: messages per sender
  MaxFrames,     \* bound: frames the server sends
  MaxBeats,      \* bound: heartbeats
  MaxSeq,        \* bound: sequence numbers the server uses
  FrameKinds,    \* the kinds of frame the server sends
  PipeCapacity,  \* bytes the notify pipe holds before send() blocks
  Liberties      \* what the application does not wait for, see below

(***************************************************************************)
(* Liberties an application may take with the public API:                  *)
(*   reconnect_early       Connect again as soon as isConnected() is false,*)
(*                         without waiting for the disconnect callback     *)
(*   close_before_connect  close without waiting for the connect callback  *)
(*   close_after_failure   destroy the client after a Connect that failed  *)
(***************************************************************************)
AllLiberties == {"reconnect_early", "close_before_connect", "close_after_failure"}

ASSUME BoundsAssumption ==
  /\ MaxConnects \in Nat /\ MaxSends \in Nat /\ MaxFrames \in Nat
  /\ MaxBeats \in Nat /\ MaxSeq \in Nat
  /\ PipeCapacity \in Nat \ {0}

ASSUME ChoicesAssumption ==
  /\ FrameKinds \subseteq {"msg", "zero", "invalid", "badseq"}
  /\ Liberties \subseteq AllLiberties

NoSock  == 0
Sockets == 1..MaxConnects
Workers == Sockets

\* A frame the server sends: a message with sequence number seq (0 when it has
\* none), a frame of length zero, one that does not parse or has no type, or a
\* message whose handling throws (a sequence number that is not an integer).
Frame == [kind : FrameKinds, seq : 0..MaxSeq]

\* The identity of a packet in write_queue_.
PacketId == [kind : {"user"}, by : Senders, n : 1..MaxSends]
            \cup [kind : {"ack"}, n : 0..MaxSeq]
            \cup [kind : {"beat"}, n : 1..MaxBeats]

\* on is the socket that got the first bytes of the packet, NoSock before that.
\* cut tells that the packet continued on another socket where it had stopped.
Packet == [id : PacketId, on : Sockets \cup {NoSock}, cut : BOOLEAN]

\* A packet the kernel has taken whole, on which socket.
Written == [id : PacketId, sock : Sockets, cut : BOOLEAN]

Fresh(id) == [id |-> id, on |-> NoSock, cut |-> FALSE]

VARIABLES
  sock_fd,       \* sock_fd_
  is_connected,  \* is_connected_
  last_seq,      \* last_seq_
  queue,         \* write_queue_
  rbuf,          \* whole frames in the reader of current_read_packet_
  pipe,          \* bytes in the notify pipe
  cpc,           \* the thread that calls Connect
  ret,           \* what the last Connect returned
  nsock,         \* sockets opened so far
  xpc,           \* the thread that closes and destroys the client
  spc,           \* each sender
  nsent,         \* messages each sender has pushed
  wpc,           \* each worker
  caller,        \* who called the HandleWrite that a worker is in
  pfd,           \* pfds[0].fd of each worker
  want,          \* POLLOUT is set in pfds[0].events
  rev,           \* the events poll() reported
  inq,           \* frames that reached a socket and are unread
  eof,           \* the server closed its end of the socket
  shut,          \* the client called shutdown() on the socket
  full,          \* the kernel's send buffer of the socket is full
  wire,          \* history: packets written, with socket and integrity
  delivered,     \* history: frames handed to message_cb_
  told,          \* history: the last callback each worker made
  nframes,       \* frames the server has sent
  nbeat          \* heartbeats pushed

object    == <<sock_fd, is_connected, last_seq>>
app       == <<xpc, spc, nsent>>
connector == <<cpc, ret, nsock>>
locals    == <<caller, pfd, want, rev>>
net       == <<inq, eof, shut, full>>
history   == <<wire, delivered, told>>
bounds    == <<nframes, nbeat>>
vars      == <<object, queue, rbuf, pipe, app, connector, wpc, locals, net,
               history, bounds>>

-----------------------------------------------------------------------------
(* Types and initial state *)

WorkerStates ==
  {"none", "spawned", "oncb", "test", "read", "ack", "write", "pop", "arm",
   "poll", "drain", "clear", "shut", "unset", "bye", "gone"}

TypeOK ==
  /\ sock_fd \in Sockets \cup {NoSock}
  /\ is_connected \in BOOLEAN
  /\ last_seq \in 0..MaxSeq
  /\ queue \in Seq(Packet)
  /\ rbuf \in Seq(Frame)
  /\ pipe \in 0..PipeCapacity
  /\ cpc \in {"idle", "handshake", "redirected"}
  /\ ret \in {"none", "ok", "failed"}
  /\ nsock \in 0..MaxConnects /\ (cpc # "idle" => nsock # 0)
  /\ xpc \in {"idle", "closing", "destroying", "waiting", "freed"}
  /\ spc \in [Senders -> {"idle", "notify"}]
  /\ nsent \in [Senders -> 0..MaxSends]
  /\ wpc \in [Workers -> WorkerStates]
  /\ caller \in [Workers -> {"ack", "out", "beat"}]
  /\ pfd \in [Workers -> Sockets \cup {NoSock}]
  /\ want \in [Workers -> BOOLEAN]
  /\ rev \in [Workers -> SUBSET {"in", "out", "pipe"}]
  /\ inq \in [Sockets -> Seq(Frame)]
  /\ eof \in [Sockets -> BOOLEAN]
  /\ shut \in [Sockets -> BOOLEAN]
  /\ full \in [Sockets -> BOOLEAN]
  /\ wire \in Seq(Written)
  /\ delivered \in Seq(Frame)
  /\ told \in [Workers -> {"nothing", "connected", "disconnected"}]
  /\ nframes \in 0..MaxFrames
  /\ nbeat \in 0..MaxBeats

Init ==
  /\ sock_fd = NoSock /\ is_connected = FALSE /\ last_seq = 0
  /\ queue = <<>> /\ rbuf = <<>> /\ pipe = 0
  /\ cpc = "idle" /\ ret = "none" /\ nsock = 0
  /\ xpc = "idle"
  /\ spc = [t \in Senders |-> "idle"]
  /\ nsent = [t \in Senders |-> 0]
  /\ wpc = [w \in Workers |-> "none"]
  /\ caller = [w \in Workers |-> "out"]
  /\ pfd = [w \in Workers |-> NoSock]
  /\ want = [w \in Workers |-> FALSE]
  /\ rev = [w \in Workers |-> {}]
  /\ inq = [s \in Sockets |-> <<>>]
  /\ eof = [s \in Sockets |-> FALSE]
  /\ shut = [s \in Sockets |-> FALSE]
  /\ full = [s \in Sockets |-> FALSE]
  /\ wire = <<>> /\ delivered = <<>>
  /\ told = [w \in Workers |-> "nothing"]
  /\ nframes = 0 /\ nbeat = 0

-----------------------------------------------------------------------------
(* Who may call what, and when *)

At(w, pc) == wpc[w] = pc
Goto(w, pc) == wpc' = [wpc EXCEPT ![w] = pc]

\* Between the connect callback of a worker and its disconnect callback.
InSession(w) == wpc[w] \notin {"none", "spawned", "oncb", "gone"}

\* A worker whose connect callback has not returned.
Starting == \E w \in Workers : wpc[w] \in {"spawned", "oncb"}

\* The application calls Connect when no connection is up.  The careful one
\* waits for the disconnect callback of the last worker; the one that reconnects
\* early looks at isConnected() and at the connect callback only.
MayConnect ==
  /\ xpc = "idle"
  /\ IF "reconnect_early" \in Liberties
     THEN ~is_connected /\ ~Starting
     ELSE \A w \in Workers : At(w, "none") \/ told[w] = "disconnected"

MayShut == cpc = "idle" /\ ("close_before_connect" \in Liberties \/ ~Starting)

\* Close() is for a connection that is up or starts; a worker that is already on
\* its way out is not told again.
MayClose == MayShut /\ (is_connected \/ Starting)

\* The destructor is not called while another call of the application runs.
MayDestroy ==
  /\ MayShut
  /\ \A t \in Senders : spc[t] = "idle"
  /\ "close_after_failure" \in Liberties \/ ret # "failed"

-----------------------------------------------------------------------------
(* Connect *)

CallsConnect == (cpc = "idle" /\ MayConnect) \/ cpc = "redirected"

ConnectUnchanged ==
  UNCHANGED <<is_connected, last_seq, queue, pipe, app, locals, eof, full, history,
              bounds>>

\* Codes -1 and -2: a bad option or an unknown host; no field is touched.
ConnectRejected ==
  /\ CallsConnect
  /\ cpc' = "idle" /\ ret' = "failed"
  /\ UNCHANGED <<nsock, sock_fd, rbuf, wpc, shut, inq>> /\ ConnectUnchanged

\* Code -3: socket() fails, and its -1 is already in sock_fd_.
ConnectNoSocket ==
  /\ CallsConnect
  /\ sock_fd' = NoSock
  /\ cpc' = "idle" /\ ret' = "failed"
  /\ UNCHANGED <<nsock, rbuf, wpc, shut, inq>> /\ ConnectUnchanged

ConnectOpen ==
  /\ CallsConnect
  /\ nsock < MaxConnects
  /\ nsock' = nsock + 1
  /\ sock_fd' = nsock + 1
  /\ cpc' = "handshake"
  /\ UNCHANGED <<ret, rbuf, wpc, shut, inq>> /\ ConnectUnchanged

\* ::shutdown(sock_fd_, SHUT_RDWR)
Shutdown(s) == shut' = IF s = NoSock THEN shut ELSE [shut EXCEPT ![s] = TRUE]

\* Codes -4 to -8: connect, send, recv or the answer fails.  sock_fd_ is shut
\* down and keeps its value.
ConnectFail ==
  /\ cpc = "handshake"
  /\ Shutdown(sock_fd)
  /\ cpc' = "idle" /\ ret' = "failed"
  /\ UNCHANGED <<nsock, sock_fd, rbuf, wpc, inq>> /\ ConnectUnchanged

\* HTTP 303: shut this socket down and call Connect again, for the new address.
ConnectRedirect ==
  /\ cpc = "handshake" /\ sock_fd # NoSock
  /\ inq[nsock] = <<>>
  /\ Shutdown(sock_fd)
  /\ cpc' = "redirected"
  /\ UNCHANGED <<ret, nsock, sock_fd, rbuf, wpc, inq>> /\ ConnectUnchanged

\* HTTP 200: a new current_read_packet_ that holds the k frames that came along
\* with the response, and a new worker.
ConnectEstablish ==
  /\ cpc = "handshake" /\ sock_fd # NoSock
  /\ \E k \in 0..Len(inq[nsock]) :
       /\ rbuf' = SubSeq(inq[nsock], 1, k)
       /\ inq' = [inq EXCEPT ![nsock] = SubSeq(@, k + 1, Len(@))]
  /\ Goto(nsock, "spawned")
  /\ cpc' = "idle" /\ ret' = "ok"
  /\ UNCHANGED <<nsock, sock_fd, shut>> /\ ConnectUnchanged

Connect ==
  \/ ConnectRejected \/ ConnectNoSocket \/ ConnectOpen
  \/ ConnectFail \/ ConnectRedirect \/ ConnectEstablish

-----------------------------------------------------------------------------
(* Send, Publish, Subscribe, Unsubscribe: SendMessage; Close; the destructor *)

Pushed(id) == Append(queue, Fresh(id))

SendPush(t) ==
  /\ xpc \in {"idle", "closing"}
  /\ spc[t] = "idle" /\ nsent[t] < MaxSends
  /\ nsent' = [nsent EXCEPT ![t] = @ + 1]
  /\ queue' = Pushed([kind |-> "user", by |-> t, n |-> nsent[t] + 1])
  /\ spc' = [spc EXCEPT ![t] = "notify"]
  /\ UNCHANGED <<object, rbuf, pipe, xpc, connector, wpc, locals, net, history,
                 bounds>>

\* One byte into pipe_[0], which is blocking: no step while the pipe is full.
Notify == pipe < PipeCapacity /\ pipe' = pipe + 1

SendNotify(t) ==
  /\ spc[t] = "notify"
  /\ Notify
  /\ spc' = [spc EXCEPT ![t] = "idle"]
  /\ UNCHANGED <<object, queue, rbuf, xpc, nsent, connector, wpc, locals, net,
                 history, bounds>>

\* Close(), and Close() as the first thing WaitForClose() does.
CloseStore ==
  /\ xpc = "idle"
  /\ is_connected' = FALSE
  /\ \/ MayClose /\ xpc' = "closing"
     \/ MayDestroy /\ xpc' = "destroying"
  /\ UNCHANGED <<sock_fd, last_seq, queue, rbuf, pipe, spc, nsent, connector,
                 wpc, locals, net, history, bounds>>

CloseNotify ==
  /\ xpc \in {"closing", "destroying"}
  /\ Notify
  /\ xpc' = IF xpc = "closing" THEN "idle" ELSE "waiting"
  /\ UNCHANGED <<object, queue, rbuf, spc, nsent, connector, wpc, locals, net,
                 history, bounds>>

\* Faulty: is_connected_ is what WaitForClose looks at.
WaitEndsEarly ==
  /\ xpc = "waiting" /\ ~is_connected
  /\ xpc' = "freed"
  /\ UNCHANGED <<object, queue, rbuf, pipe, spc, nsent, connector, wpc, locals,
                 net, history, bounds>>

\* WaitForClose sees sock_fd_ == -1, and the destructor frees the object.
WaitEnds ==
  /\ xpc = "waiting" /\ sock_fd = NoSock
  /\ xpc' = "freed"
  /\ UNCHANGED <<object, queue, rbuf, pipe, spc, nsent, connector, wpc, locals,
                 net, history, bounds>>

Closer == CloseNotify \/ WaitEnds

-----------------------------------------------------------------------------
(* HandleRead: one action per frame it takes from the reader or the socket *)

\* After POLLIN comes POLLOUT, then the notify pipe.
AfterIn(w, events) ==
  IF "out" \in events
  THEN Goto(w, "write") /\ caller' = [caller EXCEPT ![w] = "out"]
  ELSE Goto(w, "drain") /\ UNCHANGED caller

Incoming == IF rbuf # <<>> \/ sock_fd = NoSock THEN rbuf ELSE inq[sock_fd]

TakeFrame ==
  IF rbuf # <<>>
  THEN rbuf' = Tail(rbuf) /\ UNCHANGED inq
  ELSE inq' = [inq EXCEPT ![sock_fd] = Tail(@)] /\ UNCHANGED rbuf

ReadUnchanged ==
  UNCHANGED <<sock_fd, is_connected, queue, pipe, app, connector, pfd, want,
              rev, eof, shut, full, wire, told, bounds>>

ReadZeroLength(w) ==
  /\ At(w, "read") /\ Incoming # <<>> /\ Head(Incoming).kind = "zero"
  /\ TakeFrame
  /\ UNCHANGED <<wpc, caller, last_seq, delivered>> /\ ReadUnchanged

ReadInvalid(w) ==
  /\ At(w, "read") /\ Incoming # <<>> /\ Head(Incoming).kind = "invalid"
  /\ TakeFrame
  /\ Goto(w, "clear")
  /\ UNCHANGED <<caller, last_seq, delivered>> /\ ReadUnchanged

\* Faulty: acknowledges the last sequence number again (seq < last_seq_).
ReadMessageAgain(w) ==
  /\ At(w, "read") /\ Incoming # <<>> /\ Head(Incoming).kind \in {"msg", "badseq"}
  /\ TakeFrame
  /\ LET f == Head(Incoming) IN
       /\ delivered' = Append(delivered, f)
       /\ IF f.kind = "msg" /\ f.seq > 0 /\ f.seq >= last_seq
          THEN Goto(w, "ack") /\ last_seq' = f.seq
          ELSE UNCHANGED <<wpc, last_seq>>
  /\ UNCHANGED caller /\ ReadUnchanged

\* message_cb_, then the sequence number: an exception on the way ends the
\* session; a number above last_seq_ is kept and acknowledged.
ReadMessage(w) ==
  /\ At(w, "read") /\ Incoming # <<>> /\ Head(Incoming).kind \in {"msg", "badseq"}
  /\ TakeFrame
  /\ LET f == Head(Incoming) IN
       /\ delivered' = Append(delivered, f)
       /\ CASE f.kind = "badseq" -> Goto(w, "clear") /\ UNCHANGED last_seq
            [] f.kind = "msg" /\ f.seq > last_seq ->
                 Goto(w, "ack") /\ last_seq' = f.seq
            [] OTHER -> UNCHANGED <<wpc, last_seq>>
  /\ UNCHANGED caller /\ ReadUnchanged

\* read() returned 0.
ReadEof(w) ==
  /\ At(w, "read") /\ Incoming = <<>>
  /\ sock_fd # NoSock /\ (eof[sock_fd] \/ shut[sock_fd])
  /\ Goto(w, "clear")
  /\ UNCHANGED <<caller, last_seq, rbuf, inq, delivered>> /\ ReadUnchanged

\* No more data, or an error of read() (a sock_fd_ of -1 among them): back to
\* the first HandleRead of Loop or to the one that answers POLLIN.
ReadNothing(w) ==
  /\ At(w, "read") /\ Incoming = <<>>
  /\ sock_fd # NoSock => ~eof[sock_fd] /\ ~shut[sock_fd]
  /\ IF "in" \in rev[w] THEN AfterIn(w, rev[w]) ELSE Goto(w, "arm") /\ UNCHANGED caller
  /\ UNCHANGED <<last_seq, rbuf, inq, delivered>> /\ ReadUnchanged

HandleRead(w) ==
  \/ ReadZeroLength(w) \/ ReadInvalid(w) \/ ReadMessage(w)
  \/ ReadEof(w) \/ ReadNothing(w)

-----------------------------------------------------------------------------
(* SendAck and SendHeartbeat push a packet and call HandleWrite *)

SendAck(w) ==
  /\ At(w, "ack")
  /\ queue' = Pushed([kind |-> "ack", n |-> last_seq])
  /\ Goto(w, "write") /\ caller' = [caller EXCEPT ![w] = "ack"]
  /\ UNCHANGED <<object, rbuf, pipe, app, connector, pfd, want, rev, net,
                 history, bounds>>

-----------------------------------------------------------------------------
(* HandleWrite: Front and write(), TryPop once a packet is out *)

WriteUnchanged ==
  UNCHANGED <<object, rbuf, pipe, app, connector, locals, inq, eof, shut,
              delivered, told, bounds>>

\* Where HandleWrite returns to: its callers all go on, since a write() of at
\* least one byte never returns 0.
Return(w) ==
  Goto(w, CASE caller[w] = "ack"  -> "read"
            [] caller[w] = "out"  -> "drain"
            [] caller[w] = "beat" -> "test")

WriteDone(w) ==
  /\ At(w, "write") /\ queue = <<>>
  /\ Return(w)
  /\ UNCHANGED <<queue, full, wire>> /\ WriteUnchanged

Accepts(s) == s # NoSock /\ ~shut[s] /\ ~full[s]

Cut(p) == p.cut \/ p.on \notin {NoSock, sock_fd}

\* The kernel takes what is left of the packet.
WriteAll(w) ==
  /\ At(w, "write") /\ queue # <<>> /\ Accepts(sock_fd)
  /\ LET p == Head(queue) IN
       wire' = Append(wire, [id |-> p.id, sock |-> sock_fd, cut |-> Cut(p)])
  /\ \E b \in BOOLEAN : full' = [full EXCEPT ![sock_fd] = b]
  /\ Goto(w, "pop")
  /\ UNCHANGED queue /\ WriteUnchanged

\* Faulty: a packet that went out in part is taken for sent.
WritePartPops(w) ==
  /\ At(w, "write") /\ queue # <<>> /\ Accepts(sock_fd)
  /\ queue' = Tail(queue)
  /\ full' = [full EXCEPT ![sock_fd] = TRUE]
  /\ Return(w)
  /\ UNCHANGED wire /\ WriteUnchanged

\* Faulty: the packet goes to the end of the queue.
WritePartRequeues(w) ==
  /\ At(w, "write") /\ queue # <<>> /\ Accepts(sock_fd)
  /\ Head(queue).on # sock_fd
  /\ queue' = Append(Tail(queue), [Head(queue) EXCEPT !.on = sock_fd, !.cut = Cut(Head(queue))])
  /\ full' = [full EXCEPT ![sock_fd] = TRUE]
  /\ Return(w)
  /\ UNCHANGED wire /\ WriteUnchanged

\* The kernel takes a part of it and is full.
WritePart(w) ==
  /\ At(w, "write") /\ queue # <<>> /\ Accepts(sock_fd)
  /\ Head(queue).on # sock_fd
  /\ queue' = [queue EXCEPT ![1].on = sock_fd, ![1].cut = Cut(Head(queue))]
  /\ full' = [full EXCEPT ![sock_fd] = TRUE]
  /\ Return(w)
  /\ UNCHANGED wire /\ WriteUnchanged

\* write() returns -1: EAGAIN, or an error of the connection.  What that does to
\* the bytes that follow is in PacketWriter.
WriteRefused(w) ==
  /\ At(w, "write") /\ queue # <<>>
  /\ Accepts(sock_fd) => eof[sock_fd]
  /\ Return(w)
  /\ UNCHANGED <<queue, full, wire>> /\ WriteUnchanged

Pop(w) ==
  /\ At(w, "pop")
  /\ queue' = IF queue = <<>> THEN queue ELSE Tail(queue)
  /\ Goto(w, "write")
  /\ UNCHANGED <<full, wire>> /\ WriteUnchanged

HandleWrite(w) ==
  WriteDone(w) \/ WriteAll(w) \/ WritePart(w) \/ WriteRefused(w) \/ Pop(w)

-----------------------------------------------------------------------------
(* Loop *)

LoopUnchanged == UNCHANGED <<queue, rbuf, app, connector, net, wire, delivered, nframes>>

\* The thread starts, and is_connected_ goes up before anything looks at it.
Enter(w) ==
  /\ At(w, "spawned")
  /\ is_connected' = TRUE
  /\ Goto(w, "oncb")
  /\ UNCHANGED <<sock_fd, last_seq, pipe, locals, told, nbeat>> /\ LoopUnchanged

OnConnect(w) ==
  /\ At(w, "oncb")
  /\ told' = [told EXCEPT ![w] = "connected"]
  /\ Goto(w, "test")
  /\ UNCHANGED <<object, pipe, locals, nbeat>> /\ LoopUnchanged

\* The locals of an iteration, when it begins and when the loop is left.
ForgetLocals(w) ==
  /\ caller' = [caller EXCEPT ![w] = "out"]
  /\ pfd' = [pfd EXCEPT ![w] = NoSock]
  /\ want' = [want EXCEPT ![w] = FALSE]
  /\ rev' = [rev EXCEPT ![w] = {}]

\* Faulty: goes to poll() without the HandleRead that comes first.
TestSkipsRead(w) ==
  /\ At(w, "test")
  /\ Goto(w, IF is_connected THEN "arm" ELSE "clear")
  /\ ForgetLocals(w)
  /\ UNCHANGED <<object, pipe, told, nbeat>> /\ LoopUnchanged

\* while (is_connected_): the first HandleRead of the iteration, or the exit.
Test(w) ==
  /\ At(w, "test")
  /\ Goto(w, IF is_connected THEN "read" ELSE "clear")
  /\ ForgetLocals(w)
  /\ UNCHANGED <<object, pipe, told, nbeat>> /\ LoopUnchanged

\* Faulty: never asks for POLLOUT.
ArmReadOnly(w) ==
  /\ At(w, "arm")
  /\ pfd' = [pfd EXCEPT ![w] = sock_fd]
  /\ Goto(w, "poll")
  /\ UNCHANGED <<object, pipe, caller, want, rev, told, nbeat>> /\ LoopUnchanged

\* pfds[0].fd and pfds[0].events; the queue is looked at here and not again.
Arm(w) ==
  /\ At(w, "arm")
  /\ pfd' = [pfd EXCEPT ![w] = sock_fd]
  /\ want' = [want EXCEPT ![w] = queue # <<>>]
  /\ Goto(w, "poll")
  /\ UNCHANGED <<object, pipe, caller, rev, told, nbeat>> /\ LoopUnchanged

Readable(s) == s # NoSock /\ (inq[s] # <<>> \/ eof[s] \/ shut[s])
Writable(s) == s # NoSock /\ (~full[s] \/ shut[s])

\* Faulty: the pipe is not polled.
ReadyNoPipe(w) ==
  {e \in {"in", "out"} :
     IF e = "in" THEN Readable(pfd[w]) ELSE want[w] /\ Writable(pfd[w])}

Ready(w) ==
  {e \in {"in", "out", "pipe"} :
     CASE e = "in"   -> Readable(pfd[w])
       [] e = "out"  -> want[w] /\ Writable(pfd[w])
       [] e = "pipe" -> pipe > 0}

\* poll() returns a positive number: POLLIN first, then POLLOUT, then the pipe.
Poll(w) ==
  /\ At(w, "poll") /\ Ready(w) # {}
  /\ rev' = [rev EXCEPT ![w] = Ready(w)]
  /\ IF "in" \in Ready(w) THEN Goto(w, "read") /\ UNCHANGED caller ELSE AfterIn(w, Ready(w))
  /\ UNCHANGED <<object, pipe, pfd, want, told, nbeat>> /\ LoopUnchanged

\* poll() returns 0: no event for keepalive_interval_sec_.
SendHeartbeat(w) ==
  /\ At(w, "poll") /\ Ready(w) = {}
  /\ nbeat < MaxBeats
  /\ nbeat' = nbeat + 1
  /\ queue' = Pushed([kind |-> "beat", n |-> nbeat + 1])
  /\ Goto(w, "write") /\ caller' = [caller EXCEPT ![w] = "beat"]
  /\ UNCHANGED <<object, rbuf, pipe, app, connector, pfd, want, rev, net,
                 history, nframes>>

\* poll() returns -1: a signal is enough.
PollError(w) ==
  /\ At(w, "poll")
  /\ Goto(w, "clear")
  /\ UNCHANGED <<object, pipe, locals, told, nbeat>> /\ LoopUnchanged

\* while (::read(pfds[1].fd, &c, 1) == 1), when poll() reported the pipe.
DrainOne(w) ==
  /\ At(w, "drain") /\ "pipe" \in rev[w] /\ pipe > 0
  /\ pipe' = pipe - 1
  /\ UNCHANGED <<object, wpc, locals, told, nbeat>> /\ LoopUnchanged

\* Faulty: polls again without a look at is_connected_.
DrainPollsAgain(w) ==
  /\ At(w, "drain") /\ ("pipe" \notin rev[w] \/ pipe = 0)
  /\ Goto(w, "arm")
  /\ UNCHANGED <<object, pipe, locals, told, nbeat>> /\ LoopUnchanged

\* Faulty: polls again with the events of before.
DrainPollsTheSame(w) ==
  /\ At(w, "drain") /\ ("pipe" \notin rev[w] \/ pipe = 0)
  /\ Goto(w, "poll")
  /\ UNCHANGED <<object, pipe, locals, told, nbeat>> /\ LoopUnchanged

DrainEnd(w) ==
  /\ At(w, "drain") /\ ("pipe" \notin rev[w] \/ pipe = 0)
  /\ Goto(w, "test")
  /\ UNCHANGED <<object, pipe, locals, told, nbeat>> /\ LoopUnchanged

\* The way out: is_connected_ = false, shutdown(sock_fd_), sock_fd_ = -1,
\* disconnect_cb_().
ClearConnected(w) ==
  /\ At(w, "clear")
  /\ is_connected' = FALSE
  /\ Goto(w, "shut")
  /\ ForgetLocals(w)
  /\ UNCHANGED <<sock_fd, last_seq, pipe, told, nbeat>> /\ LoopUnchanged

\* Faulty: disconnect_cb_ is called before sock_fd_ is reset.
ShutSockTells(w) ==
  /\ At(w, "shut")
  /\ Shutdown(sock_fd)
  /\ told' = [told EXCEPT ![w] = "disconnected"]
  /\ Goto(w, "unset")
  /\ UNCHANGED <<object, pipe, locals, queue, rbuf, app, connector, inq, eof,
                 full, wire, delivered, bounds>>

ShutSock(w) ==
  /\ At(w, "shut")
  /\ Shutdown(sock_fd)
  /\ Goto(w, "unset")
  /\ UNCHANGED <<object, pipe, locals, told, queue, rbuf, app, connector, inq,
                 eof, full, wire, delivered, bounds>>

\* Faulty: sock_fd_ keeps its value.
UnsetSockForgotten(w) ==
  /\ At(w, "unset")
  /\ Goto(w, "bye")
  /\ UNCHANGED <<object, pipe, locals, told, nbeat>> /\ LoopUnchanged

UnsetSock(w) ==
  /\ At(w, "unset")
  /\ sock_fd' = NoSock
  /\ Goto(w, "bye")
  /\ UNCHANGED <<is_connected, last_seq, pipe, locals, told, nbeat>> /\ LoopUnchanged

OnDisconnect(w) ==
  /\ At(w, "bye")
  /\ told' = [told EXCEPT ![w] = "disconnected"]
  /\ Goto(w, "gone")
  /\ UNCHANGED <<object, pipe, locals, nbeat>> /\ LoopUnchanged

\* Every step a worker takes by itself.  A failing poll() is not one of them,
\* nor is the heartbeat, which waits for the timeout.
WorkerStep(w) ==
  \/ Enter(w) \/ OnConnect(w) \/ Test(w) \/ HandleRead(w) \/ SendAck(w)
  \/ HandleWrite(w) \/ Arm(w) \/ Poll(w) \/ DrainOne(w) \/ DrainEnd(w)
  \/ ClearConnected(w) \/ ShutSock(w) \/ UnsetSock(w) \/ OnDisconnect(w)

-----------------------------------------------------------------------------
(* The server, and the kernel between it and the client *)

ServerUnchanged ==
  UNCHANGED <<object, queue, rbuf, pipe, app, connector, wpc, locals, shut,
              history, nbeat>>

ServerSend(s, f) ==
  /\ s <= nsock /\ ~eof[s] /\ ~shut[s]
  /\ nframes < MaxFrames
  /\ nframes' = nframes + 1
  /\ inq' = [inq EXCEPT ![s] = Append(@, f)]
  /\ UNCHANGED <<eof, full>> /\ ServerUnchanged

ServerClose(s) ==
  /\ s <= nsock /\ ~eof[s] /\ ~shut[s]
  /\ eof' = [eof EXCEPT ![s] = TRUE]
  /\ UNCHANGED <<inq, full, nframes>> /\ ServerUnchanged

\* The server reads, and the send buffer of the client has room again; of a
\* socket that is shut down it does not matter any more.
ServerRead(s) ==
  /\ full[s] /\ ~shut[s]
  /\ full' = [full EXCEPT ![s] = FALSE]
  /\ UNCHANGED <<inq, eof, nframes>> /\ ServerUnchanged

Server(s) ==
  \/ \E f \in Frame : (f.kind # "msg" => f.seq = 0) /\ ServerSend(s, f)
  \/ ServerClose(s) \/ ServerRead(s)

-----------------------------------------------------------------------------
(* The system *)

Next ==
  \/ Connect
  \/ \E t \in Senders : SendPush(t) \/ SendNotify(t)
  \/ CloseStore \/ Closer
  \/ \E w \in Workers : WorkerStep(w) \/ SendHeartbeat(w) \/ PollError(w)
  \/ \E s \in Sockets : Server(s)

Spec == Init /\ [][Next]_vars

\* Threads that can run do run, and the server reads what it is sent.  Nothing
\* makes the application connect, send or close, nor the server send.
Fairness ==
  /\ \A w \in Workers : WF_vars(WorkerStep(w))
  /\ \A t \in Senders : WF_vars(SendNotify(t))
  /\ WF_vars(Closer)
  /\ \A s \in Sockets : WF_vars(ServerRead(s))

FairSpec == Spec /\ Fairness

-----------------------------------------------------------------------------
(* Safety *)

Alive(w) == wpc[w] \notin {"none", "gone"}

\* A worker that has not left the loop and released the socket owns sock_fd_:
\* what it polls, reads, writes, shuts down and resets is its own connection,
\* and no Connect is under way.
SocketOwned ==
  \A w \in Workers :
    wpc[w] \notin {"none", "bye", "gone"} => sock_fd = w /\ cpc = "idle"

\* At most one worker is in Loop at a time: write_queue_, the read packet and
\* the pipe have one consumer.
OneWorker == \A v, w \in Workers : Alive(v) /\ Alive(w) => v = w

\* A worker never sleeps in poll() over a packet it did not ask POLLOUT for,
\* unless a byte is in the pipe or the sender is about to write it.
NoLostWakeup ==
  \A w \in Workers :
    At(w, "poll") /\ ~want[w] /\ queue # <<>> =>
      pipe > 0 \/ \E t \in Senders : spc[t] = "notify"

\* A worker that has passed the test of is_connected_ and goes to sleep is woken
\* for a Close(): it sees is_connected_, or a byte that it has yet to drain is in
\* the pipe, or Close() is about to write it.
CloseNoticed ==
  \A w \in Workers :
    wpc[w] \in {"read", "ack", "write", "pop", "arm", "poll"} =>
      is_connected \/ pipe > 0 \/ xpc \in {"closing", "destroying"}

Popping == \E w \in Workers : At(w, "pop")

\* What is left in write_queue_ for the socket.
Unsent == IF Popping /\ queue # <<>> THEN Tail(queue) ELSE queue

Ids(packets) == [i \in DOMAIN packets |-> packets[i].id]
IsAck(id) == id.kind = "ack"

\* All that was pushed, on the wire or still to come.
Accepted == Ids(wire) \o Ids(Unsent)

\* Every sequence number that the client takes is acknowledged once, in order,
\* after message_cb_ saw its message; an ack survives the end of a connection.
AcksInOrder ==
  LET Acks == {i \in DOMAIN Accepted : IsAck(Accepted[i])} IN
  /\ \A i, j \in Acks : i < j => Accepted[i].n < Accepted[j].n
  /\ \A i \in Acks :
       \E j \in DOMAIN delivered :
         delivered[j].kind = "msg" /\ delivered[j].seq = Accepted[i].n
  /\ last_seq > 0 =>
       \/ \E w \in Workers : At(w, "ack")
       \/ \E i \in Acks : Accepted[i].n = last_seq /\ \A j \in Acks : j <= i

\* The client is freed only when no worker runs in it any more.
NoUseAfterFree == xpc = "freed" => \A w \in Workers : ~Alive(w)

\* When the destructor has returned, a worker has at most disconnect_cb_ to call.
OnlyCallbackLeft == xpc = "freed" => \A w \in Workers : wpc[w] \in {"none", "bye", "gone"}

\* A packet that another connection began is finished by the next connection that
\* writes, before anything else: what is cut is the first packet of its socket.
CutOnlyFirst ==
  \A i, j \in DOMAIN wire : wire[i].cut /\ j < i => wire[j].sock # wire[i].sock

\* What the application pushed is written in the order of the pushes, nothing
\* twice and nothing left out, whatever connections come and go on the way.
Outbox == INSTANCE MessageOutbox
            WITH Packets <- PacketId,
                 written <- Ids(wire),
                 accepted <- Accepted

OutboxSpec == Outbox!Spec

-----------------------------------------------------------------------------
(* Liveness *)

\* After Close() every worker leaves the loop and says so, but for one that was only
\* coming up: its is_connected_ = true overwrites the false of Close(), it drains the
\* byte, and the connection that was closed goes on.
CloseEnds ==
  (xpc = "closing") ~> (is_connected \/ \A w \in Workers : ~Alive(w))

\* The three ways in which the destructor does stay where it is.  Its Close() blocks
\* on a full pipe that has lost its reader; a Connect that failed behind socket()
\* has left a number in sock_fd_ that no worker is there to reset; the worker of a
\* connection that had just come up overwrote its is_connected_ = false.
NobodyDrains == xpc = "destroying" /\ pipe = PipeCapacity /\ \A w \in Workers : ~Alive(w)
NobodyResets == xpc = "waiting" /\ ret = "failed" /\ sock_fd # NoSock
Overwritten  == xpc = "waiting" /\ is_connected

\* From the first thing it does the destructor comes to its end in every other case,
\* whatever it finds: no connection, one that comes up, is up, or goes.
DestructorReturns ==
  (xpc = "destroying") ~> (xpc = "freed" \/ NobodyDrains \/ NobodyResets \/ Overwritten)

\* A sender that notifies does not stay blocked on the pipe while a worker runs.
SenderReturns ==
  \A t \in Senders :
    (spc[t] = "notify" /\ \E w \in Workers : InSession(w))
      ~> (spc[t] = "idle" \/ \A w \in Workers : ~Alive(w))

\* A message pushed while a session is up is written, unless the session ends.
MessagesGoOut ==
  \A t \in Senders, n \in 1..MaxSends, w \in Workers :
    LET id == [kind |-> "user", by |-> t, n |-> n] IN
      (InSession(w) /\ \E i \in DOMAIN queue : queue[i].id = id)
        ~> (~InSession(w) \/ \E i \in DOMAIN wire : wire[i].id = id)

\* Frames that came along with the HTTP response are read without waiting for
\* the socket.
EarlyFramesRead == (rbuf # <<>>) ~> (rbuf = <<>> \/ \A w \in Workers : ~Alive(w))

=============================================================================

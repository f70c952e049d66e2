----------------------------- MODULE AckSession -----------------------------
(***************************************************************************)
(* Sequence numbers end to end: a server that keeps a message for the user *)
(* until it is acknowledged and sends it again on the next connection, and *)
(* the client of cpp/src/socketclient.cc, which hands every message to     *)
(* message_cb_ but acknowledges only numbers above last_seq_.  Connections *)
(* are made as in Handshake and get lost, with what is under way in either *)
(* direction; the process may die and start again.                         *)
(*                                                                         *)
(* The server is external: it numbers the messages of a user from 1, sends *)
(* on a new connection at least those that are not settled, in order, and  *)
(* takes an ack either for one message or for all up to it.  It ignores what*)
(* it cannot read, and on the same connection whatever comes behind that.  *)
(* A frame is the sequence number of its message; the write queue holds    *)
(* acks only.                                                              *)
(***************************************************************************)
EXTENDS Handshake, Functions

CONSTANT MaxMessages  \* bound: messages for the user

ASSUME MessagesAssumption == MaxMessages \in Nat

Messages == 1..MaxMessages

VARIABLES
  published,  \* messages the server has got for the user
  settled,    \* those it will not send again
  cumulative, \* whether an ack stands for all messages up to it
  up,         \* acks the kernel has taken and the server has not read
  last_seq,   \* last_seq_
  acks,       \* acks in write_queue_
  part,       \* what write() has made of the first of them: "none" of it is out,
              \* it is "begun" on this connection, or "bent": begun on an earlier
              \* one, or misplaced by the -1 of a refused write()
  garbled,    \* bytes out of place have gone out on this connection
  delivered,  \* history: messages for which message_cb_ has returned
  lost        \* history: acks written that the server does not get to read

server == <<published, settled, cumulative>>
client == <<last_seq, acks, part, garbled, delivered>>
vars   == <<handshake, server, up, client, lost>>

TypeOK ==
  /\ host \in Servers \cup {Nowhere}
  /\ hpc \in {"idle", "resolve", "opened", "received", "up", "dead"}
  /\ reader \in Seq(Messages) /\ net \in Seq(Messages)
  /\ early \in 0..Len(net)
  /\ open \in 0..1 /\ failures \in 0..MaxFailures
  /\ circular \in BOOLEAN
  /\ published \in 0..MaxMessages
  /\ settled \subseteq Messages /\ delivered \subseteq Messages /\ lost \subseteq Messages
  /\ cumulative \in BOOLEAN
  /\ up \in Seq(Messages) /\ acks \in Seq(Messages)
  /\ part \in {"none", "begun", "bent"} /\ garbled \in BOOLEAN
  /\ last_seq \in 0..MaxMessages

Init ==
  /\ HandshakeInit
  /\ published = 0 /\ settled = {} /\ cumulative \in BOOLEAN
  /\ up = <<>> /\ last_seq = 0 /\ acks = <<>> /\ part = "none" /\ garbled = FALSE
  /\ delivered = {} /\ lost = {}

-----------------------------------------------------------------------------
(* The server *)

\* From the n-th message on, all before it being settled.
From(n) == [i \in 1..(published - n + 1) |-> n + i - 1]
Backlogs == {From(n) : n \in {m \in 1..(published + 1) : 1..(m - 1) \subseteq settled}}

\* It knows of the connection as soon as it has accepted it.
Serving == hpc = "up" \/ (hpc = "received" /\ Verdict(chunk) = "accepted")

Publish ==
  /\ published < MaxMessages
  /\ published' = published + 1
  /\ net' = IF Serving THEN Append(net, published + 1) ELSE net
  /\ UNCHANGED <<host, hpc, chunk, early, reader, open, failures, circular,
                 settled, cumulative, up, client, lost>>

ReadAck ==
  /\ up # <<>>
  /\ settled' = settled \cup (IF cumulative THEN 1..Head(up) ELSE {Head(up)})
  /\ up' = Tail(up)
  /\ UNCHANGED <<handshake, published, cumulative, client, lost>>

-----------------------------------------------------------------------------
(* The client *)

Connecting ==
  /\ Connect
  /\ UNCHANGED <<server, up, client, lost>>

\* A server answers, and one that accepts sends a backlog.
ServerAnswers ==
  /\ \E frames \in Backlogs : Recv(frames)
  /\ UNCHANGED <<server, up, client, lost>>

ConnectFails ==
  /\ NoSocket \/ NoAnswer
  /\ UNCHANGED <<server, up, client, lost>>

\* HandleRead, the reader first: message_cb_ gets every message, a number above
\* last_seq_ is kept and acknowledged.
HandleRead ==
  /\ hpc = "up" /\ reader \o net # <<>>
  /\ reader' = IF reader = <<>> THEN reader ELSE Tail(reader)
  /\ net' = IF reader = <<>> THEN Tail(net) ELSE net
  /\ LET seq == Head(reader \o net) IN
       /\ delivered' = delivered \cup {seq}
       /\ IF seq <= last_seq THEN UNCHANGED <<last_seq, acks>>
          ELSE last_seq' = seq /\ acks' = Append(acks, seq)
  /\ UNCHANGED <<host, hpc, chunk, early, open, failures, circular,
                 part, garbled, server, up, lost>>

Writing == hpc = "up" /\ acks # <<>>

WriteUnchanged == UNCHANGED <<handshake, server, last_seq, delivered>>

\* The kernel takes what is left of the packet.
WriteAll ==
  /\ Writing
  /\ acks' = Tail(acks) /\ part' = "none"
  /\ garbled' = (garbled \/ part = "bent")
  /\ IF garbled' THEN lost' = lost \cup {Head(acks)} /\ UNCHANGED up
     ELSE up' = Append(up, Head(acks)) /\ UNCHANGED lost
  /\ WriteUnchanged

\* It takes less than that.
WritePart ==
  /\ Writing
  /\ part' = IF part = "bent" THEN "bent" ELSE "begun"
  /\ garbled' = (garbled \/ part = "bent")
  /\ UNCHANGED <<up, acks, lost>> /\ WriteUnchanged

\* It takes nothing, and the next write() begins a byte too early.
WriteRefused ==
  /\ Writing
  /\ part' = "bent"
  /\ UNCHANGED <<up, acks, garbled, lost>> /\ WriteUnchanged

HandleWrite == WriteAll \/ WritePart \/ WriteRefused

\* Faulty: the write queue is emptied at the end of a connection.
LoseForgetsQueue ==
  /\ hpc = "up" /\ Failure
  /\ hpc' = "idle" /\ Shutdown
  /\ reader' = <<>> /\ up' = <<>> /\ acks' = <<>> /\ part' = "none" /\ garbled' = FALSE
  /\ lost' = lost \cup Range(up)
  /\ UNCHANGED <<host, circular, server, last_seq, delivered>>

\* The connection ends, or message_cb_ throws and HandleRead ends it.  The worker
\* shuts the socket down; the write queue and last_seq_ stay, and so does what has
\* become of the first packet.
Lose ==
  /\ hpc = "up" /\ Failure
  /\ hpc' = "idle" /\ Shutdown
  /\ reader' = <<>> /\ up' = <<>>
  /\ lost' = lost \cup Range(up)
  /\ part' = IF part = "none" THEN "none" ELSE "bent"
  /\ garbled' = FALSE
  /\ UNCHANGED <<host, circular, server, last_seq, acks, delivered>>

\* The process is killed.
Die ==
  /\ hpc # "dead" /\ Failure
  /\ hpc' = "dead"
  /\ UNCHANGED <<host, chunk, early, reader, net, open, circular,
                 server, up, client, lost>>

\* A new SocketClient in a new process; the kernel has closed the sockets.
Restart ==
  /\ hpc = "dead"
  /\ host' = Entry /\ hpc' = "idle" /\ chunk' = <<>> /\ early' = 0
  /\ reader' = <<>> /\ net' = <<>> /\ open' = 0
  /\ last_seq' = 0 /\ acks' = <<>> /\ part' = "none" /\ garbled' = FALSE
  /\ up' = <<>> /\ lost' = {}
  /\ UNCHANGED <<failures, circular, server, delivered>>

-----------------------------------------------------------------------------
Next ==
  \/ Publish \/ ReadAck
  \/ Connecting \/ ServerAnswers \/ ConnectFails \/ HandleRead \/ HandleWrite \/ Lose \/ Die \/ Restart

Spec == Init /\ [][Next]_vars

\* The application connects again, the system starts the process again, both
\* ends read what they are sent, and the kernel takes what is written.  Failures,
\* new messages and the answer of a server need not happen.
FairSpec ==
  /\ Spec
  /\ WF_vars(Connecting) /\ WF_vars(HandleRead) /\ WF_vars(WriteAll \/ WritePart)
  /\ WF_vars(ReadAck) /\ WF_vars(Restart)

-----------------------------------------------------------------------------
\* The server forgets a message only after message_cb_ has had it.
SettledIsDelivered == settled \subseteq delivered

\* No message is handed over before those with a lower number, so last_seq_
\* stands for all of them.
NoGap == \A n \in delivered : 1..n \subseteq delivered

\* A socket is shut down before the next one is opened, and when Connect or the
\* worker is done with it.
SocketsShut == hpc # "dead" => open = IF hpc \in {"opened", "received", "up"} THEN 1 ELSE 0

\* Every message is handed to message_cb_, whatever the number of connections and
\* processes it takes, unless a call of Connect never returns.
EveryMessageArrives ==
  \A n \in Messages : (n <= published) ~> (n \in delivered \/ Silence \/ Circle)

\* A message that was handed over is settled, unless its ack was written in vain,
\* the client does not send it again: it was under way when the connection ended,
\* was cut in two by the end of a connection, or came behind bytes out of place.
\* What waits in the queue at the end of a connection goes out on a later one.
AckedUnlessLost ==
  \A n \in Messages :
    (n \in delivered) ~> (n \in settled \/ n \in lost \/ Silence \/ Circle)

\* A call of Connect ends, through any number of redirects and behind an answer cut
\* anywhere, but for a server that never answers and for servers that redirect in
\* a circle.
ConnectReturns ==
  (hpc \in {"resolve", "opened", "received"})
    ~> (hpc \in {"idle", "up", "dead"} \/ Silence \/ Circle)
=============================================================================

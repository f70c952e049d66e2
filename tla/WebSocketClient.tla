--------------------------- MODULE WebSocketClient ---------------------------
(***************************************************************************)
(* The clients of the browser (javascript/src/xcomet-client.js) and of     *)
(* Node.js (nodejs/index.js): one connection each, never made again, with  *)
(* a heartbeat timer that every packet restarts, and an ack for every      *)
(* message before the application sees it.                                 *)
(*                                                                         *)
(* JavaScript runs one handler at a time, so a handler is an action, with  *)
(* the callback of the application in it: the callback may return, send,   *)
(* close or throw.  What the application catches of its own calls, and the *)
(* error event of a connection, which is a callback and no more, change    *)
(* nothing that the properties see.                                        *)
(***************************************************************************)
EXTENDS Naturals, Sequences, FiniteSets

CONSTANTS
  MaxFrames,  \* bound: frames the server sends
  MaxSeq      \* bound: sequence numbers it uses

ASSUME BoundsAssumption == MaxFrames \in Nat /\ MaxSeq \in Nat

VARIABLES
  platform,   \* "browser" or "node"
  handlers,   \* those of onOpen, onError, onClose, onMessage that are functions
  ready,      \* the state of the connection
  conn,       \* conn_ is defined
  timer,      \* keepAliveTimer_, 0 while it is undefined
  live,       \* the intervals that have not been cleared
  inbox,      \* frames on their way to the client
  frames,     \* frames the server has sent
  crashed,    \* an exception that nobody caught has ended the process
  acked,      \* history: sequence numbers whose ack was passed to the connection
  handed,     \* history: those of the messages onMessage was called for
  beat,       \* history: changes with every packet that is passed on
  started,    \* history: the heartbeat was started
  early,      \* history: the application sent without a connection
  late,       \* history: it sent after the connection had ended
  threw       \* history: one of its callbacks threw, other than onMessage

keepalive == <<timer, live>>
network   == <<inbox, frames>>
messages  == <<acked, handed>>
history   == <<beat, started, early, late, threw>>
vars      == <<platform, handlers, ready, conn, keepalive, network, crashed, messages, history>>

Callbacks == {"onOpen", "onError", "onClose", "onMessage"}
Reactions == {"return", "send", "close", "throw"}

\* A frame is the sequence number of its message, NoSeq if it has none or is no
\* JSON, or Binary, or Null, the JSON null.
NoSeq  == 0
Binary == MaxSeq + 1
Null   == MaxSeq + 2
Frames == 0..Null

TypeOK ==
  /\ platform \in {"browser", "node"} /\ handlers \subseteq Callbacks
  /\ ready \in {"connecting", "open", "closing", "closed"}
  /\ conn \in BOOLEAN /\ (ready = "open" => conn)
  /\ timer \in 0..2 /\ live \subseteq 1..2
  /\ inbox \in Seq(Frames) /\ frames \in 0..MaxFrames
  /\ crashed \in BOOLEAN
  /\ acked \subseteq 0..MaxSeq /\ handed \subseteq 0..MaxSeq
  /\ beat \in {0, 1} /\ started \in BOOLEAN
  /\ early \in BOOLEAN /\ late \in BOOLEAN /\ threw \in BOOLEAN

Idle ==
  /\ conn = FALSE
  /\ inbox = <<>> /\ frames = 0 /\ crashed = FALSE
  /\ acked = {} /\ handed = {}
  /\ beat = 0 /\ started = FALSE /\ early = FALSE /\ late = FALSE /\ threw = FALSE

\* Faulty: the heartbeat is started with the constructor.
InitBeating ==
  /\ platform \in {"browser", "node"} /\ handlers \in SUBSET Callbacks
  /\ ready = "connecting" /\ Idle
  /\ timer = 1 /\ live = {1}

\* The constructor starts to connect; the application sets the callbacks.
Init ==
  /\ platform \in {"browser", "node"} /\ handlers \in SUBSET Callbacks
  /\ ready = "connecting" /\ Idle
  /\ timer = 0 /\ live = {}

-----------------------------------------------------------------------------
(* sendPacket and what the application calls *)

Browser == platform = "browser"
Node    == platform = "node"

NewTimer(others) == CHOOSE i \in 1..(Cardinality(others) + 1) : i \notin others

\* Faulty: the interval that runs is not cleared.
RestartKeepsOld ==
  /\ timer' = NewTimer(live)
  /\ live' = live \cup {timer'}

\* Faulty: the interval is cleared and no other one is set.
RestartOnlyClears ==
  /\ live' = live \ {timer}
  /\ UNCHANGED timer

RestartKeepAlive ==
  /\ timer' = NewTimer(live \ {timer})
  /\ live' = (live \ {timer}) \cup {timer'}

\* conn_ is undefined, or the WebSocket is not open yet.
Throws == IF Node THEN ~conn ELSE ready = "connecting"

Passed == beat' = 1 - beat

\* The timer is restarted before it turns out whether there is a connection.
SendPacket ==
  /\ RestartKeepAlive
  /\ started' = TRUE
  /\ IF Throws THEN UNCHANGED beat ELSE Passed

\* send, publish, sub and unsub, from outside a callback.
Send ==
  /\ ~crashed
  /\ SendPacket
  /\ early' = (early \/ Throws) /\ late' = (late \/ ready = "closed")
  /\ UNCHANGED <<platform, handlers, ready, conn, network, crashed, messages, threw>>

Close ==
  /\ ~crashed
  /\ ready = "open" \/ (Browser /\ ready = "connecting")
  /\ ready' = "closing"
  /\ UNCHANGED <<platform, handlers, conn, keepalive, network, crashed, messages, history>>

\* The interval is over: nobody catches what the heartbeat throws.
Fire ==
  /\ ~crashed /\ live # {}
  /\ SendPacket
  /\ crashed' = (Node /\ Throws)
  /\ UNCHANGED <<platform, handlers, ready, conn, network, messages, early, late, threw>>

-----------------------------------------------------------------------------
(* The handlers of the constructor *)

\* How a callback may end; one that is no function is not called.
Reaction(callback) == IF callback \in handlers THEN Reactions ELSE {"return"}

\* An exception that leaves a callback ends a Node.js process.
Escapes(r) == crashed' = (Node /\ r = "throw") /\ threw' = (threw \/ r = "throw")

\* The browser starts the heartbeat only for an onOpen that is a function.
Opened ==
  /\ ~crashed /\ ready = "connecting"
  /\ conn' = TRUE
  /\ \E r \in Reaction("onOpen") :
       /\ ready' = IF r = "close" THEN "closing" ELSE "open"
       /\ IF r = "throw" \/ (Browser /\ "onOpen" \notin handlers)
          THEN UNCHANGED <<keepalive, started>>
          ELSE RestartKeepAlive /\ started' = TRUE
       /\ IF r = "send" THEN Passed ELSE UNCHANGED beat
       /\ Escapes(r)
  /\ UNCHANGED <<platform, handlers, network, messages, early, late>>

\* Node.js: nobody listens to the event that tells of it.
ConnectFailed ==
  /\ ~crashed /\ Node /\ ready = "connecting"
  /\ ready' = "closed"
  /\ UNCHANGED <<platform, handlers, conn, keepalive, network, crashed, messages, history>>

\* Faulty: the timer outlives the connection.
ClosedKeepsTimer ==
  /\ ~crashed
  /\ ready \in {"open", "closing"} \/ (Browser /\ ready = "connecting")
  /\ ready' = "closed" /\ inbox' = <<>>
  /\ \E r \in Reaction("onClose") \ {"close"} :
       /\ IF r = "send" THEN RestartKeepAlive ELSE UNCHANGED keepalive
       /\ late' = (late \/ r = "send") /\ started' = (started \/ r = "send")
       /\ Escapes(r)
  /\ UNCHANGED <<platform, handlers, conn, frames, messages, beat, early>>

\* The browser clears the timer first, also when the connection never came up.
Closed ==
  /\ ~crashed
  /\ ready \in {"open", "closing"} \/ (Browser /\ ready = "connecting")
  /\ ready' = "closed" /\ inbox' = <<>>
  /\ \E r \in Reaction("onClose") \ {"close"} :
       /\ IF r = "send" THEN RestartKeepAlive
          ELSE /\ live' = IF Browser THEN live \ {timer} ELSE live
               /\ UNCHANGED timer
       /\ late' = (late \/ r = "send") /\ started' = (started \/ r = "send")
       /\ Escapes(r)
  /\ UNCHANGED <<platform, handlers, conn, frames, messages, beat, early>>

\* Node.js still reads after a close() of its own.
Reads ==
  /\ ~crashed /\ inbox # <<>>
  /\ ready = "open" \/ (Node /\ ready = "closing")

Then(r) == ready' = IF r = "close" THEN "closing" ELSE ready

\* Node.js passes on what is not text as an error, if there is someone to pass it to;
\* seq() throws for a Null, before anything is acknowledged.
Rejects(f) == f = Null \/ (Node /\ f = Binary /\ "onError" \in handlers)

OnUnexpected ==
  /\ Reads /\ Rejects(Head(inbox))
  /\ inbox' = Tail(inbox)
  /\ \E r \in Reaction("onError") :
       /\ Then(r) /\ Escapes(r)
       /\ IF r = "send" THEN SendPacket ELSE UNCHANGED <<keepalive, beat, started>>
  /\ UNCHANGED <<platform, handlers, conn, frames, messages, early, late>>

\* What seq() returns for it: utf8Data is undefined for a binary frame.
SeqOf(f) == IF f = Binary THEN NoSeq ELSE f

\* onMessage, and onError for what it throws; what that throws nobody catches.
Handled(r) ==
  IF r = "throw"
  THEN \E e \in Reaction("onError") : Then(e) /\ Escapes(e)
  ELSE Then(r) /\ UNCHANGED <<crashed, threw>>

\* Faulty: the ack comes after onMessage, and not after one that throws.
OnMessageAcksLast ==
  /\ Reads /\ ~Rejects(Head(inbox))
  /\ inbox' = Tail(inbox)
  /\ SendPacket
  /\ \E r \in Reaction("onMessage") :
       /\ Handled(r)
       /\ acked' = IF r = "throw" THEN acked ELSE acked \cup {SeqOf(Head(inbox))}
  /\ handed' = IF "onMessage" \in handlers THEN handed \cup {SeqOf(Head(inbox))} ELSE handed
  /\ UNCHANGED <<platform, handlers, conn, frames, early, late>>

\* The ack goes first, for whatever came.
OnMessage ==
  /\ Reads /\ ~Rejects(Head(inbox))
  /\ inbox' = Tail(inbox)
  /\ SendPacket
  /\ acked' = acked \cup {SeqOf(Head(inbox))}
  /\ handed' = IF "onMessage" \in handlers THEN handed \cup {SeqOf(Head(inbox))} ELSE handed
  /\ \E r \in Reaction("onMessage") : Handled(r)
  /\ UNCHANGED <<platform, handlers, conn, frames, early, late>>

\* The server is external.
ServerSend ==
  /\ ready = "open" /\ frames < MaxFrames
  /\ frames' = frames + 1
  /\ \E f \in Frames : inbox' = Append(inbox, f)
  /\ UNCHANGED <<platform, handlers, ready, conn, keepalive, crashed, messages, history>>

-----------------------------------------------------------------------------
Next ==
  \/ Send \/ Close \/ Fire
  \/ Opened \/ ConnectFailed \/ Closed \/ OnUnexpected \/ OnMessage
  \/ ServerSend

Spec == Init /\ [][Next]_vars

\* The event loop gets round to a timer that is due.
FairSpec == Spec /\ WF_vars(Fire)

-----------------------------------------------------------------------------
\* No interval runs that the client has no number of, and so cannot clear.
OneTimer == live \subseteq {timer}

\* In the browser no heartbeat is due after the connection has ended, unless the
\* application sent something after it.
SilentAfterClose == Browser /\ ready = "closed" /\ ~late => live = {}

\* By itself the client never ends the process: only a heartbeat that an early
\* packet of the application has started may find no connection.
CrashesOnlyForApplication == crashed => early \/ threw

\* The application sees no message that was not acknowledged before.
HandedIsAcked == handed \subseteq acked

\* A connection that has sent anything never falls silent while it is up.
NeverSilent ==
  \A b \in {0, 1} :
    (started /\ ready = "open" /\ beat = b) ~> (beat # b \/ ready # "open" \/ crashed)
=============================================================================

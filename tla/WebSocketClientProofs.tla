------------------------- MODULE WebSocketClientProofs -------------------------
(***************************************************************************)
(* The heartbeat timer and the acks of the JavaScript clients, for any     *)
(* number of frames and sequence numbers and any behaviour of the callbacks*)
(* of the application.                                                     *)
(***************************************************************************)
EXTENDS WebSocketClient, FiniteSetTheorems, TLAPS

\* In Node.js a connection that is open or closing has conn_; in the browser only
\* an open one need have it, since close() may come before onopen.
Connected ==
  /\ ready = "open" => conn
  /\ Node /\ ready = "closing" => conn

\* A heartbeat that finds no connection was started by an early packet.
Heartbeats == Node /\ live # {} /\ ~conn => early

IInv ==
  /\ TypeOK /\ OneTimer /\ Connected /\ Heartbeats
  /\ SilentAfterClose /\ CrashesOnlyForApplication /\ HandedIsAcked

-----------------------------------------------------------------------------
\* What runs is the interval that timer names, so a restart leaves one: the other
\* is cleared, and the number it had is free again.
LEMMA Restarted ==
  ASSUME OneTimer, RestartKeepAlive
  PROVE  timer' = 1 /\ live' = {1}
  <1>1. live \ {timer} = {}
    BY DEF OneTimer
  <1>2. NewTimer({}) = 1
    <2>1. Cardinality({}) = 0
      BY FS_EmptySet
    <2>2. \A i : i \in 1..(Cardinality({}) + 1) <=> i = 1
      BY <2>1
    <2> QED
      BY <2>2 DEF NewTimer
  <1> QED
    BY <1>1, <1>2 DEF RestartKeepAlive

LEMMA Sent ==
  ASSUME TypeOK, OneTimer, SendPacket
  PROVE  /\ timer' = 1 /\ live' = {1} /\ started' = TRUE
         /\ beat' \in {0, 1}
  BY Restarted DEF SendPacket, Passed, TypeOK

\* A frame is taken from the inbox.
LEMMA Taken ==
  ASSUME TypeOK, Reads
  PROVE  Head(inbox) \in Frames /\ Tail(inbox) \in Seq(Frames)
  BY DEF TypeOK, Reads

LEMMA SeqOfType ==
  ASSUME NEW f \in Frames, f # Null
  PROVE  SeqOf(f) \in 0..MaxSeq
  BY BoundsAssumption DEF SeqOf, Frames, Null, Binary, NoSeq

-----------------------------------------------------------------------------
LEMMA InitHolds == Init => IInv
  <1> SUFFICES ASSUME Init PROVE IInv
    OBVIOUS
  <1>1. /\ conn \in BOOLEAN /\ crashed \in BOOLEAN /\ started \in BOOLEAN
        /\ early \in BOOLEAN /\ late \in BOOLEAN /\ threw \in BOOLEAN
        /\ ready \in {"connecting", "open", "closing", "closed"} /\ ready # "open"
        /\ platform \in {"browser", "node"} /\ handlers \subseteq Callbacks
    BY DEF Init, Idle
  <1>2. /\ timer \in 0..2 /\ live \subseteq 1..2 /\ frames \in 0..MaxFrames
        /\ acked \subseteq 0..MaxSeq /\ handed \subseteq 0..MaxSeq /\ beat \in {0, 1}
    BY BoundsAssumption DEF Init, Idle
  <1>3. inbox \in Seq(Frames)
    BY DEF Init, Idle
  <1>4. TypeOK
    BY <1>1, <1>2, <1>3 DEF TypeOK
  <1> QED
    BY <1>4 DEF Init, Idle, IInv, OneTimer, Connected, Heartbeats, SilentAfterClose,
                CrashesOnlyForApplication, HandedIsAcked

LEMMA SendStep ==
  ASSUME IInv, Send
  PROVE  IInv'
  <1>1. /\ timer' = 1 /\ live' = {1} /\ started' = TRUE /\ beat' \in {0, 1}
    BY Sent DEF IInv, Send
  <1>2. TypeOK'
    BY <1>1 DEF IInv, TypeOK, Send, network, messages, Throws
  <1> QED
    BY <1>1, <1>2 DEF IInv, Send, network, messages, OneTimer, Connected, Heartbeats,
       SilentAfterClose, CrashesOnlyForApplication, HandedIsAcked, Throws, Node,
       Browser, TypeOK

LEMMA FireStep ==
  ASSUME IInv, Fire
  PROVE  IInv'
  <1>1. /\ timer' = 1 /\ live' = {1} /\ started' = TRUE /\ beat' \in {0, 1}
    BY Sent DEF IInv, Fire
  <1>2. TypeOK'
    BY <1>1 DEF IInv, TypeOK, Fire, network, messages
  <1> QED
    BY <1>1, <1>2 DEF IInv, Fire, network, messages, OneTimer, Connected, Heartbeats,
       SilentAfterClose, CrashesOnlyForApplication, HandedIsAcked, Throws, Node, Browser

LEMMA OpenedStep ==
  ASSUME IInv, Opened
  PROVE  IInv'
  <1>1. PICK r \in Reaction("onOpen") :
          /\ ready' = IF r = "close" THEN "closing" ELSE "open"
          /\ UNCHANGED <<keepalive, started>>
               \/ (RestartKeepAlive /\ started' = TRUE)
          /\ Passed \/ UNCHANGED beat
          /\ Escapes(r)
    BY DEF Opened
  <1>2. live' \subseteq {timer'} /\ timer' \in 0..2 /\ live' \subseteq 1..2
    <2>1. CASE UNCHANGED keepalive
      BY <2>1 DEF IInv, OneTimer, TypeOK, keepalive
    <2>2. CASE RestartKeepAlive
      BY <2>2, Restarted DEF IInv
    <2> QED
      BY <1>1, <2>1, <2>2
  <1>3. beat' \in {0, 1}
    BY <1>1 DEF IInv, TypeOK, Passed
  <1>4. crashed' \in BOOLEAN /\ threw' \in BOOLEAN /\ (crashed' => threw')
    BY <1>1 DEF IInv, TypeOK, Escapes
  <1>5. started' \in BOOLEAN
    BY <1>1 DEF IInv, TypeOK
  <1> QED
    BY <1>1, <1>2, <1>3, <1>4, <1>5 DEF IInv, TypeOK, Opened, network, messages, OneTimer,
       Connected, Heartbeats, SilentAfterClose, CrashesOnlyForApplication, HandedIsAcked,
       Node, Browser

LEMMA ClosedStep ==
  ASSUME IInv, Closed
  PROVE  IInv'
  <1>1. PICK r \in Reaction("onClose") \ {"close"} :
          /\ IF r = "send" THEN RestartKeepAlive
             ELSE /\ live' = IF Browser THEN live \ {timer} ELSE live
                  /\ UNCHANGED timer
          /\ late' = (late \/ r = "send") /\ started' = (started \/ r = "send")
          /\ Escapes(r)
    BY DEF Closed
  <1>2. /\ live' \subseteq {timer'} /\ timer' \in 0..2 /\ live' \subseteq 1..2
        /\ Browser /\ r # "send" => live' = {}
    <2>1. CASE r = "send"
      BY <1>1, <2>1, Restarted DEF IInv
    <2>2. CASE r # "send"
      BY <1>1, <2>2 DEF IInv, OneTimer, TypeOK
    <2> QED
      BY <2>1, <2>2
  <1>3. /\ started' \in BOOLEAN /\ late' \in BOOLEAN /\ (r = "send" => late')
        /\ crashed' \in BOOLEAN /\ threw' \in BOOLEAN /\ (crashed' => threw')
    BY <1>1 DEF IInv, TypeOK, Escapes
  <1>4. Node => conn
    BY DEF Closed, IInv, Connected, Browser, Node
  <1>5. ready' = "closed" /\ inbox' = <<>> /\ inbox' \in Seq(Frames)
    BY DEF Closed
  <1> QED
    BY <1>2, <1>3, <1>4, <1>5 DEF IInv, TypeOK, Closed, messages, OneTimer, Connected,
       Heartbeats, SilentAfterClose, CrashesOnlyForApplication, HandedIsAcked, Node,
       Browser

LEMMA UnexpectedStep ==
  ASSUME IInv, OnUnexpected
  PROVE  IInv'
  <1>1. Reads /\ inbox' = Tail(inbox)
    BY DEF OnUnexpected
  <1>2. PICK r \in Reaction("onError") :
          /\ Then(r) /\ Escapes(r)
          /\ SendPacket \/ UNCHANGED <<keepalive, beat, started>>
    BY DEF OnUnexpected
  <1>3. /\ live' \subseteq {timer'} /\ timer' \in 0..2 /\ live' \subseteq 1..2
        /\ started' \in BOOLEAN /\ beat' \in {0, 1}
    <2>1. CASE UNCHANGED <<keepalive, beat, started>>
      BY <2>1 DEF IInv, OneTimer, TypeOK, keepalive
    <2>2. CASE SendPacket
      BY <2>2, Sent DEF IInv
    <2> QED
      BY <1>2, <2>1, <2>2
  <1>4. crashed' \in BOOLEAN /\ threw' \in BOOLEAN /\ (crashed' => threw')
    BY <1>2 DEF IInv, TypeOK, Escapes
  <1>5. inbox' \in Seq(Frames)
    BY <1>1, Taken DEF IInv
  <1>6. conn /\ ready \in {"open", "closing"} /\ ready' \in {"open", "closing"}
    BY <1>1, <1>2 DEF Reads, IInv, Connected, Then
  <1> QED
    BY <1>1, <1>3, <1>4, <1>5, <1>6 DEF IInv, TypeOK, OnUnexpected, messages, OneTimer,
       Connected, Heartbeats, SilentAfterClose, CrashesOnlyForApplication, HandedIsAcked,
       Node, Browser

LEMMA MessageStep ==
  ASSUME IInv, OnMessage
  PROVE  IInv'
  <1> DEFINE n == SeqOf(Head(inbox))
  <1>1. Reads /\ inbox' = Tail(inbox) /\ SendPacket /\ Head(inbox) # Null
    BY DEF OnMessage, Rejects
  <1>2. inbox' \in Seq(Frames) /\ n \in 0..MaxSeq
    BY <1>1, Taken, SeqOfType DEF IInv
  <1>3. /\ timer' = 1 /\ live' = {1} /\ started' = TRUE /\ beat' \in {0, 1}
    BY <1>1, Sent DEF IInv
  <1>4. /\ acked' = acked \cup {n} /\ handed' \in {handed, handed \cup {n}}
    BY DEF OnMessage
  <1>5. PICK r \in Reaction("onMessage") : Handled(r)
    BY DEF OnMessage
  <1>6. /\ ready' \in {"closing", ready}
        /\ crashed' \in BOOLEAN /\ threw' \in BOOLEAN
        /\ (crashed' => threw') \/ UNCHANGED <<crashed, threw>>
    <2>1. CASE r = "throw"
      <3>1. PICK e \in Reaction("onError") : Then(e) /\ Escapes(e)
        BY <1>5, <2>1 DEF Handled
      <3>2. ready' \in {"closing", ready}
        BY <3>1 DEF Then
      <3>3. crashed' \in BOOLEAN /\ threw' \in BOOLEAN /\ (crashed' => threw')
        BY <3>1 DEF IInv, TypeOK, Escapes
      <3> QED
        BY <3>2, <3>3
    <2>2. CASE r # "throw"
      BY <1>5, <2>2 DEF Handled, Then, IInv, TypeOK
    <2> QED
      BY <2>1, <2>2
  <1>7. /\ ready \in {"open", "closing"} /\ conn
    BY <1>1 DEF Reads, IInv, Connected
  <1>8. UNCHANGED <<platform, handlers, conn, frames, early, late>>
    BY DEF OnMessage
  <1>9. TypeOK'
    <2>1. acked' \subseteq 0..MaxSeq /\ handed' \subseteq 0..MaxSeq
      BY <1>2, <1>4 DEF IInv, TypeOK
    <2>2. ready' \in {"connecting", "open", "closing", "closed"} /\ (ready' = "open" => conn')
      BY <1>6, <1>7, <1>8
    <2>3. timer' \in 0..2 /\ live' \subseteq 1..2 /\ started' \in BOOLEAN
      BY <1>3
    <2> QED
      BY <1>2, <1>3, <1>6, <1>8, <2>1, <2>2, <2>3 DEF IInv, TypeOK
  <1>10. Heartbeats' /\ SilentAfterClose' /\ CrashesOnlyForApplication'
    BY <1>6, <1>7, <1>8 DEF IInv, Heartbeats, SilentAfterClose, CrashesOnlyForApplication,
       Node, Browser
  <1>11. HandedIsAcked'
    BY <1>4 DEF IInv, HandedIsAcked
  <1> QED
    BY <1>3, <1>6, <1>7, <1>8, <1>9, <1>10, <1>11 DEF IInv, OneTimer, Connected, Node

LEMMA OtherStep ==
  ASSUME IInv, Close \/ ConnectFailed \/ ServerSend \/ UNCHANGED vars
  PROVE  IInv'
  <1> USE DEF IInv, TypeOK, OneTimer, Connected, Heartbeats, SilentAfterClose,
              CrashesOnlyForApplication, HandedIsAcked, Node, Browser, keepalive,
              network, messages, history
  <1>1. CASE Close
    BY <1>1 DEF Close
  <1>2. CASE ConnectFailed
    BY <1>2 DEF ConnectFailed
  <1>3. CASE ServerSend
    BY <1>3, BoundsAssumption DEF ServerSend
  <1>4. CASE UNCHANGED vars
    BY <1>4 DEF vars
  <1> QED
    BY <1>1, <1>2, <1>3, <1>4

LEMMA Invariance == Spec => []IInv
  <1>1. Init => IInv
    BY InitHolds
  <1>2. IInv /\ [Next]_vars => IInv'
    BY SendStep, FireStep, OpenedStep, ClosedStep, UnexpectedStep, MessageStep,
       OtherStep DEF Next
  <1> QED
    BY <1>1, <1>2, PTL DEF Spec

-----------------------------------------------------------------------------
\* However often packets restart the heartbeat, one interval runs at most, and the
\* client knows which.
THEOREM OneTimerRuns == Spec => [](TypeOK /\ OneTimer)
  <1>1. IInv => TypeOK /\ OneTimer
    BY DEF IInv
  <1> QED
    BY <1>1, Invariance, PTL

\* In the browser the heartbeat ends with the connection, also with one that never
\* came up, unless the application sends afterwards.
THEOREM ClosedIsSilent == Spec => []SilentAfterClose
  <1>1. IInv => SilentAfterClose
    BY DEF IInv
  <1> QED
    BY <1>1, Invariance, PTL

\* A process that ends by an uncaught exception ends by one of the application's: a
\* callback that threw, or a packet sent before there was a connection.
THEOREM CrashIsOfApplication == Spec => []CrashesOnlyForApplication
  <1>1. IInv => CrashesOnlyForApplication
    BY DEF IInv
  <1> QED
    BY <1>1, Invariance, PTL

\* The ack of a message goes to the connection before the application sees it.
THEOREM AckComesFirst == Spec => []HandedIsAcked
  <1>1. IInv => HandedIsAcked
    BY DEF IInv
  <1> QED
    BY <1>1, Invariance, PTL
=============================================================================

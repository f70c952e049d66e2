-------------------------- MODULE AckSessionProofs --------------------------
(***************************************************************************)
(* What the acknowledgements of the C++ client are worth, for any number of*)
(* servers, messages, connections and processes: the server forgets only   *)
(* what message_cb_ has had, and message_cb_ gets the messages in order.   *)
(***************************************************************************)
EXTENDS AckSession, TLAPS

(***************************************************************************)
(* The frames between the server and message_cb_ are a run of consecutive  *)
(* numbers up to the last one published, and all before the run has been   *)
(* delivered: what came along with the response is the beginning of it.    *)
(***************************************************************************)
Runs(n) ==
  /\ 1..(n - 1) \subseteq delivered
  /\ Len(reader) + Len(net) = published - n + 1
  /\ \A i \in 1..Len(reader) : reader[i] = n + i - 1
  /\ \A i \in 1..Len(net) : net[i] = n + Len(reader) + i - 1

Waits(n) ==
  /\ 1..(n - 1) \subseteq delivered
  /\ Len(net) = published - n + 1
  /\ \A i \in 1..Len(net) : net[i] = n + i - 1

Flow ==
  /\ hpc = "up" => \E n \in 1..(published + 1) : Runs(n)
  /\ hpc = "received" /\ Verdict(chunk) = "accepted" => \E n \in 1..(published + 1) : Waits(n)

\* Every ack on its way is for a message that has been delivered.
AcksDelivered ==
  /\ \A i \in DOMAIN up : up[i] \in delivered
  /\ \A i \in DOMAIN acks : acks[i] \in delivered

\* An address in the answer is that of a server; the worker does not start before
\* the buffer is empty.
Buffer ==
  /\ \A url \in Location(chunk) : url.to \in Servers
  /\ hpc = "up" => early = 0

IInv == TypeOK /\ Flow /\ AcksDelivered /\ NoGap /\ SettledIsDelivered /\ SocketsShut /\ Buffer

-----------------------------------------------------------------------------
(* Sequences *)

LEMMA HeadTail ==
  ASSUME NEW S, NEW q \in Seq(S), q # <<>>
  PROVE  /\ Len(q) \in Nat \ {0} /\ Head(q) = q[1] /\ Head(q) \in S
         /\ Tail(q) \in Seq(S) /\ Len(Tail(q)) = Len(q) - 1
         /\ \A i \in 1..Len(Tail(q)) : Tail(q)[i] = q[i + 1]
  OBVIOUS

LEMMA Cut ==
  ASSUME NEW S, NEW q \in Seq(S), NEW k \in 0..Len(q)
  PROVE  /\ SubSeq(q, 1, k) \in Seq(S) /\ Len(SubSeq(q, 1, k)) = k
         /\ \A i \in 1..k : SubSeq(q, 1, k)[i] = q[i]
         /\ SubSeq(q, k + 1, Len(q)) \in Seq(S) /\ Len(SubSeq(q, k + 1, Len(q))) = Len(q) - k
         /\ \A i \in 1..(Len(q) - k) : SubSeq(q, k + 1, Len(q))[i] = q[k + i]
<1>1. Len(q) \in Nat
  OBVIOUS
<1>2. \A i \in 1..Len(q) : q[i] \in S
  OBVIOUS
<1>. QED
  BY <1>1, <1>2

\* The first of the frames that the worker can get at.
LEMMA First ==
  ASSUME NEW S, NEW p \in Seq(S), NEW q \in Seq(S), p \o q # <<>>
  PROVE  /\ p # <<>> => Head(p \o q) = Head(p)
         /\ p = <<>> => q # <<>> /\ Head(p \o q) = Head(q)
<1>1. CASE p = <<>>
  <2>1. p \o q = q
    BY <1>1
  <2>. QED
    BY <1>1, <2>1
<1>2. CASE p # <<>>
  <2>1. Len(p) \in Nat \ {0} /\ Len(p \o q) \in Nat \ {0} /\ (p \o q)[1] = p[1]
    BY <1>2
  <2>. QED
    BY <1>2, <2>1
<1>. QED
  BY <1>1, <1>2

-----------------------------------------------------------------------------
(* The answers of the servers *)

Parts == {Part(p) : p \in {"200", "303", "401", "http://", "blank"}}
Urls  == {Url(t, form) : t \in Servers, form \in UrlForms}

LEMMA AnswersType ==
  ASSUME NEW s \in Servers \cup {Nowhere}, NEW answer \in Answers(s)
  PROVE  /\ answer \in Seq(Parts \cup Urls)
         /\ Has(answer, "200") => answer = Accepting
<1>1. CASE answer \in {Accepting, Refusing}
  <2>1. \A p \in {"200", "401", "blank"} : Part(p) \in Parts
    BY DEF Parts
  <2>2. Accepting \in Seq(Parts \cup Urls) /\ Refusing \in Seq(Parts \cup Urls)
    BY <2>1 DEF Accepting, Refusing
  <2>3. Part("401").is # "200" /\ Part("blank").is # "200"
    BY DEF Part
  <2>4. ~Has(Refusing, "200")
    BY <2>3 DEF Refusing, Has
  <2>. QED
    BY <1>1, <2>2, <2>4
<1>2. ASSUME NEW t \in Targets(s), NEW form \in UrlForms,
             answer = Redirecting(Url(t, form))
      PROVE  answer \in Seq(Parts \cup Urls) /\ ~Has(answer, "200")
  <2>1. t \in Servers
    BY <1>2, HandshakeAssumption DEF Targets, Servers, Nowhere
  <2>2. Url(t, form) \in Urls
    BY <2>1 DEF Urls
  <2>3. Part("303") \in Parts /\ Part("http://") \in Parts /\ Part("blank") \in Parts
    BY DEF Parts
  <2>4. answer \in Seq(Parts \cup Urls)
    BY <1>2, <2>2, <2>3 DEF Redirecting
  <2>5. Part("303").is # "200" /\ Part("http://").is # "200" /\ Part("blank").is # "200"
    BY DEF Part
  <2>6. Url(t, form).is # "200"
    BY DEF Url
  <2>. QED
    BY <1>2, <2>4, <2>5, <2>6 DEF Redirecting, Has
<1>. QED
  BY <1>1, <1>2 DEF Answers

LEMMA PrefixOfAnswer ==
  ASSUME NEW s \in Servers \cup {Nowhere}, NEW answer \in Answers(s), NEW k \in 0..Len(answer)
  PROVE  /\ \A url \in Location(SubSeq(answer, 1, k)) : url.to \in Servers
         /\ Verdict(SubSeq(answer, 1, k)) = "accepted" => answer = Accepting
<1>. DEFINE c == SubSeq(answer, 1, k)
<1>1. /\ answer \in Seq(Parts \cup Urls)
      /\ Has(answer, "200") => answer = Accepting
  BY AnswersType
<1>2. c \in Seq(Parts \cup Urls) /\ Len(c) = k /\ \A i \in 1..k : c[i] = answer[i]
  BY <1>1, Cut
<1>. HIDE DEF c
<1>3. \A p \in Parts : p.is # "url"
  BY DEF Parts, Part
<1>4. \A url \in Urls : url.to \in Servers
  BY DEF Urls, Url
<1>5. \A url \in Location(c) : url.to \in Servers
  BY <1>2, <1>3, <1>4 DEF Location
<1>6. Verdict(c) = "accepted" => Has(c, "200")
  BY DEF Verdict
<1>7. Has(c, "200") => Has(answer, "200")
  <2>1. Len(answer) \in Nat /\ DOMAIN answer = 1..Len(answer) /\ DOMAIN c = 1..k
    BY <1>1, <1>2
  <2>. QED
    BY <1>2, <2>1 DEF Has
<1>. QED
  BY <1>1, <1>5, <1>6, <1>7 DEF c

LEMMA NoAddressInNothing == Location(<<>>) = {} /\ Verdict(<<>>) # "accepted"
  BY DEF Location, Verdict, Has

LEMMA BacklogType ==
  ASSUME TypeOK, NEW frames \in Backlogs
  PROVE  /\ frames \in Seq(Messages)
         /\ \E n \in 1..(published + 1) :
              /\ 1..(n - 1) \subseteq settled
              /\ Len(frames) = published - n + 1
              /\ \A i \in 1..Len(frames) : frames[i] = n + i - 1
<1>1. PICK n \in 1..(published + 1) : 1..(n - 1) \subseteq settled /\ frames = From(n)
  BY DEF Backlogs
<1>2. published \in 0..MaxMessages /\ n \in Nat /\ published - n + 1 \in Nat
  BY MessagesAssumption DEF TypeOK
<1>3. \A i \in 1..(published - n + 1) : n + i - 1 \in Messages
  BY <1>2, MessagesAssumption DEF Messages
<1>4. frames \in Seq(Messages) /\ Len(frames) = published - n + 1
  BY <1>1, <1>2, <1>3 DEF From
<1>. QED
  BY <1>1, <1>2, <1>4 DEF From

-----------------------------------------------------------------------------
(* Types *)

LEMMA TypeInit == Init => TypeOK /\ Buffer
<1>. SUFFICES ASSUME Init
              PROVE  TypeOK /\ Buffer
  OBVIOUS
<1>. USE DEF Init, HandshakeInit
<1>1. host \in Servers \cup {Nowhere} /\ failures \in 0..MaxFailures
  BY HandshakeAssumption DEF Entry, Servers
<1>2. published \in 0..MaxMessages /\ last_seq \in 0..MaxMessages
  BY MessagesAssumption
<1>3. reader \in Seq(Messages) /\ net \in Seq(Messages) /\ early \in 0..Len(net)
      /\ up \in Seq(Messages) /\ acks \in Seq(Messages)
  OBVIOUS
<1>4. cumulative \in BOOLEAN
  OBVIOUS
<1>5. /\ hpc \in {"idle", "resolve", "opened", "received", "up", "dead"} /\ open \in 0..1
      /\ settled \subseteq Messages /\ delivered \subseteq Messages /\ lost \subseteq Messages
  OBVIOUS
<1>6. Buffer
  BY NoAddressInNothing DEF Buffer
<1>. QED
  BY <1>1, <1>2, <1>3, <1>4, <1>5, <1>6 DEF TypeOK

LEMMA ShutdownType ==
  ASSUME SocketsShut, TypeOK, Shutdown, hpc \in {"opened", "received", "up"}
  PROVE  /\ open' = 0 /\ early' = 0 /\ early' \in 0..Len(net') /\ net' = <<>>
         /\ net' \in Seq(Messages) /\ Buffer'
  BY NoAddressInNothing DEF SocketsShut, TypeOK, Shutdown, Buffer, Location

LEMMA FailureType ==
  ASSUME TypeOK, Failure
  PROVE  failures' \in 0..MaxFailures
  BY HandshakeAssumption DEF TypeOK, Failure

LEMMA RecvType ==
  ASSUME TypeOK, NEW frames \in Seq(Messages), Recv(frames)
  PROVE  /\ net' \in Seq(Messages) /\ early' \in 0..Len(net') /\ Buffer'
         /\ Verdict(chunk') = "accepted" => net' = frames
<1>1. PICK answer \in Answers(host) : \E k \in 0..Len(answer) :
        /\ chunk' = SubSeq(answer, 1, k)
        /\ net' = IF answer = Accepting THEN frames ELSE <<>>
        /\ early' \in IF k = Len(answer) THEN 0..Len(net') ELSE {0}
  BY DEF Recv
<1>2. PICK k \in 0..Len(answer) :
        /\ chunk' = SubSeq(answer, 1, k)
        /\ net' = IF answer = Accepting THEN frames ELSE <<>>
        /\ early' \in IF k = Len(answer) THEN 0..Len(net') ELSE {0}
  BY <1>1
<1>3. host \in Servers \cup {Nowhere}
  BY DEF TypeOK
<1>4. net' \in Seq(Messages) /\ Len(net') \in Nat
  BY <1>2
<1>5. hpc' = "received"
  BY DEF Recv
<1>. QED
  BY <1>2, <1>3, <1>4, <1>5, PrefixOfAnswer DEF Buffer

LEMMA TypeConnect ==
  ASSUME TypeOK, Buffer, SocketsShut, Connect,
         UNCHANGED <<server, up, client, lost>>
  PROVE  TypeOK' /\ Buffer' /\ SocketsShut'
<1>. USE DEF server, client
<1>1. CASE Call
  BY <1>1, HandshakeAssumption DEF Call, TypeOK, Buffer, SocketsShut, Entry, Servers
<1>2. CASE NoSocket
  BY <1>2, FailureType DEF NoSocket, TypeOK, Buffer, SocketsShut
<1>3. CASE Socket
  BY <1>3 DEF Socket, TypeOK, Buffer, SocketsShut
<1>4. CASE Malformed
  BY <1>4, ShutdownType, FailureType DEF Malformed, TypeOK, SocketsShut
<1>5. CASE Redirected
  <2>1. \A url \in Location(chunk) : ParseIpPort(url) \in Servers \cup {Nowhere}
    BY DEF Buffer, ParseIpPort
  <2>. QED
    BY <1>5, <2>1, ShutdownType DEF Redirected, TypeOK, SocketsShut
<1>6. CASE Established
  <2>1. early \in 0..Len(net) /\ net \in Seq(Messages)
    BY DEF TypeOK
  <2>2. reader' \in Seq(Messages) /\ net' \in Seq(Messages) /\ early' \in 0..Len(net')
    BY <1>6, <2>1, Cut DEF Established
  <2>. QED
    BY <1>6, <2>2, NoAddressInNothing DEF Established, TypeOK, SocketsShut, Buffer
<1>7. CASE Crash
  BY <1>7, ShutdownType, FailureType DEF Crash, TypeOK, SocketsShut
<1>. QED
  BY <1>1, <1>2, <1>3, <1>4, <1>5, <1>6, <1>7 DEF Connect, NoAddress

LEMMA TypeStep ==
  ASSUME TypeOK, Buffer, SocketsShut, [Next]_vars
  PROVE  TypeOK' /\ Buffer' /\ SocketsShut'
<1>. USE DEF server, client
<1>1. CASE Publish
  <2>1. published' \in 0..MaxMessages /\ published + 1 \in Messages
    BY <1>1, MessagesAssumption DEF Publish, TypeOK, Messages
  <2>2. net' \in Seq(Messages) /\ early' \in 0..Len(net')
    BY <1>1, <2>1 DEF Publish, TypeOK
  <2>. QED
    BY <1>1, <2>1, <2>2 DEF Publish, TypeOK, Buffer, SocketsShut
<1>2. CASE ReadAck
  <2>1. Head(up) \in Messages /\ up' \in Seq(Messages)
    BY <1>2, HeadTail DEF ReadAck, TypeOK
  <2>2. settled' \subseteq Messages
    <3>1. 1..Head(up) \subseteq Messages
      BY <2>1, MessagesAssumption DEF Messages
    <3>. QED
      BY <1>2, <2>1, <3>1 DEF ReadAck, TypeOK
  <2>. QED
    BY <1>2, <2>1, <2>2 DEF ReadAck, TypeOK, Buffer, SocketsShut, handshake
<1>3. CASE Connecting \/ ServerAnswers
  <2>1. ASSUME NEW frames \in Backlogs, Recv(frames), UNCHANGED <<server, up, client, lost>>
        PROVE  TypeOK' /\ Buffer' /\ SocketsShut'
    <3>1. frames \in Seq(Messages)
      BY BacklogType
    <3>2. /\ net' \in Seq(Messages) /\ early' \in 0..Len(net') /\ Buffer'
      BY <2>1, <3>1, RecvType
    <3>. QED
      BY <2>1, <3>2 DEF Recv, TypeOK, SocketsShut
  <2>. QED
    BY <1>3, <2>1, TypeConnect DEF Connecting, ServerAnswers
<1>4. CASE ConnectFails
  <2>1. CASE NoSocket
    BY <1>4, <2>1, FailureType DEF ConnectFails, NoSocket, TypeOK, Buffer, SocketsShut
  <2>2. CASE NoAnswer
    BY <1>4, <2>2, ShutdownType, FailureType DEF ConnectFails, NoAnswer, TypeOK, SocketsShut
  <2>. QED
    BY <1>4, <2>1, <2>2 DEF ConnectFails
<1>5. CASE HandleRead
  <2>. DEFINE seq == Head(reader \o net)
  <2>1. /\ reader \in Seq(Messages) /\ net \in Seq(Messages) /\ seq \in Messages
        /\ reader = <<>> => net # <<>>
    BY <1>5, First, HeadTail DEF HandleRead, TypeOK
  <2>2. reader' \in Seq(Messages) /\ net' \in Seq(Messages)
    BY <1>5, <2>1, HeadTail DEF HandleRead
  <2>3. early' = 0 /\ early' \in 0..Len(net')
    BY <1>5, <2>2 DEF HandleRead, Buffer
  <2>4. /\ delivered' = delivered \cup {seq}
        /\ \/ UNCHANGED <<last_seq, acks>>
           \/ last_seq' = seq /\ acks' = Append(acks, seq)
    BY <1>5 DEF HandleRead
  <2>. HIDE DEF seq
  <2>5. delivered' \subseteq Messages /\ acks' \in Seq(Messages)
    <3>1. delivered \subseteq Messages /\ acks \in Seq(Messages) /\ seq \in Messages
      BY <2>1 DEF TypeOK
    <3>2. delivered' \subseteq Messages
      BY <2>4, <3>1
    <3>3. acks' \in Seq(Messages)
      BY <2>4, <3>1
    <3>. QED
      BY <3>2, <3>3
  <2>6. last_seq' \in 0..MaxMessages
    BY <2>1, <2>4, MessagesAssumption DEF TypeOK, Messages
  <2>. QED
    BY <1>5, <2>2, <2>3, <2>5, <2>6 DEF HandleRead, TypeOK, Buffer, SocketsShut
<1>6. CASE HandleWrite
  <2>1. UNCHANGED <<handshake, server, last_seq, delivered>>
    BY <1>6 DEF HandleWrite, WriteAll, WritePart, WriteRefused, WriteUnchanged
  <2>2. /\ UNCHANGED acks \/ (acks # <<>> /\ acks' = Tail(acks))
        /\ UNCHANGED up \/ (acks # <<>> /\ up' = Append(up, Head(acks)))
        /\ UNCHANGED lost \/ (acks # <<>> /\ lost' = lost \cup {Head(acks)})
    BY <1>6 DEF HandleWrite, WriteAll, WritePart, WriteRefused, Writing
  <2>3. acks \in Seq(Messages) /\ up \in Seq(Messages) /\ lost \subseteq Messages
    BY DEF TypeOK
  <2>4. acks # <<>> => Head(acks) \in Messages /\ Tail(acks) \in Seq(Messages)
    BY <2>3, HeadTail
  <2>5. acks' \in Seq(Messages) /\ lost' \subseteq Messages
    BY <2>2, <2>3, <2>4
  <2>6. up' \in Seq(Messages)
    BY <2>2, <2>3, <2>4
  <2>7. part' \in {"none", "begun", "bent"}
    BY <1>6 DEF HandleWrite, WriteAll, WritePart, WriteRefused, TypeOK
  <2>8. garbled' \in BOOLEAN
    BY <1>6, Zenon DEF HandleWrite, WriteAll, WritePart, WriteRefused, TypeOK
  <2>9. Buffer' /\ SocketsShut'
    BY <2>1 DEF Buffer, SocketsShut, handshake
  <2>10. TypeOK'
    BY <2>1, <2>5, <2>6, <2>7, <2>8, ZenonT(30) DEF TypeOK, handshake
  <2>. QED
    BY <2>9, <2>10
<1>7. CASE Lose
  <2>1. Range(up) \subseteq Messages
    BY DEF TypeOK, Range
  <2>2. part' \in {"none", "begun", "bent"} /\ garbled' \in BOOLEAN
    BY <1>7 DEF Lose, TypeOK
  <2>3. reader' \in Seq(Messages) /\ up' \in Seq(Messages) /\ lost' \subseteq Messages
    BY <1>7, <2>1 DEF Lose, TypeOK
  <2>4. /\ open' = 0 /\ early' \in 0..Len(net') /\ net' \in Seq(Messages) /\ Buffer'
        /\ failures' \in 0..MaxFailures
    BY <1>7, ShutdownType, FailureType DEF Lose
  <2>. QED
    BY <1>7, <2>2, <2>3, <2>4 DEF Lose, TypeOK, SocketsShut
<1>8. CASE Die
  BY <1>8, FailureType DEF Die, TypeOK, Buffer, SocketsShut
<1>9. CASE Restart
  <2>1. host' \in Servers \cup {Nowhere} /\ last_seq' \in 0..MaxMessages
    BY <1>9, HandshakeAssumption, MessagesAssumption DEF Restart, Entry, Servers
  <2>2. chunk' = <<>> /\ Buffer'
    BY <1>9, NoAddressInNothing DEF Restart, Buffer
  <2>3. reader' \in Seq(Messages) /\ net' \in Seq(Messages) /\ early' \in 0..Len(net')
        /\ up' \in Seq(Messages) /\ acks' \in Seq(Messages)
    BY <1>9 DEF Restart
  <2>4. lost' \subseteq Messages /\ open' \in 0..1
    BY <1>9 DEF Restart
  <2>5. TypeOK'
    BY <1>9, <2>1, <2>3, <2>4 DEF Restart, TypeOK
  <2>. QED
    BY <1>9, <2>2, <2>5 DEF Restart, SocketsShut
<1>10. CASE UNCHANGED vars
  BY <1>10 DEF vars, handshake, TypeOK, Buffer, SocketsShut
<1>. QED
  BY <1>1, <1>2, <1>3, <1>4, <1>5, <1>6, <1>7, <1>8, <1>9, <1>10 DEF Next

-----------------------------------------------------------------------------
(* The run of frames *)

LEMMA FlowPublish ==
  ASSUME TypeOK, Flow, Publish
  PROVE  Flow'
<1>1. /\ reader \in Seq(Messages) /\ net \in Seq(Messages) /\ published \in Nat
      /\ Len(reader) \in Nat /\ Len(net) \in Nat
  BY MessagesAssumption DEF TypeOK
<1>2. ASSUME Serving
      PROVE  /\ net' = Append(net, published + 1) /\ Len(net') = Len(net) + 1
             /\ \A i \in 1..Len(net) : net'[i] = net[i]
             /\ net'[Len(net) + 1] = published + 1
             /\ published' = published + 1 /\ UNCHANGED <<reader, delivered, hpc, chunk>>
  BY <1>1, <1>2 DEF Publish, client
<1>3. ASSUME hpc = "up", NEW n \in 1..(published + 1), Runs(n)
      PROVE  n \in 1..(published' + 1) /\ Runs(n)'
  <2>1. Serving
    BY <1>3 DEF Serving
  <2>2. /\ 1..(n - 1) \subseteq delivered' /\ n \in 1..(published' + 1)
        /\ Len(reader') + Len(net') = published' - n + 1
        /\ \A i \in 1..Len(reader') : reader'[i] = n + i - 1
    <3>1. 1..(n - 1) \subseteq delivered'
      BY <1>2, <1>3, <2>1 DEF Runs
    <3>2. n \in 1..(published' + 1) /\ Len(reader') + Len(net') = published' - n + 1
      BY <1>1, <1>2, <1>3, <2>1 DEF Runs
    <3>3. \A i \in 1..Len(reader') : reader'[i] = n + i - 1
      BY <1>2, <1>3, <2>1 DEF Runs
    <3>. QED
      BY <3>1, <3>2, <3>3
  <2>3. ASSUME NEW i \in 1..Len(net')
        PROVE  net'[i] = n + Len(reader') + i - 1
    <3>1. CASE i \in 1..Len(net)
      BY <1>2, <1>3, <2>1, <3>1 DEF Runs
    <3>2. CASE i = Len(net) + 1
      BY <1>1, <1>2, <1>3, <2>1, <3>2 DEF Runs
    <3>. QED
      BY <1>1, <1>2, <2>1, <3>1, <3>2
  <2>. QED
    BY <2>2, <2>3 DEF Runs
<1>4. ASSUME hpc = "received", Verdict(chunk) = "accepted", NEW n \in 1..(published + 1), Waits(n)
      PROVE  n \in 1..(published' + 1) /\ Waits(n)'
  <2>1. Serving
    BY <1>4 DEF Serving
  <2>2. /\ 1..(n - 1) \subseteq delivered' /\ n \in 1..(published' + 1)
        /\ Len(net') = published' - n + 1
    <3>1. 1..(n - 1) \subseteq delivered'
      BY <1>2, <1>4, <2>1 DEF Waits
    <3>2. n \in 1..(published' + 1)
      BY <1>1, <1>2, <2>1
    <3>3. Len(net) = published - n + 1
      BY <1>4 DEF Waits
    <3>4. Len(net') = Len(net) + 1 /\ published' = published + 1
      BY <1>2, <2>1
    <3>5. published \in Nat
      BY <1>1
    <3>6. Len(net') = published' - n + 1
      BY <3>3, <3>4, <3>5
    <3>. QED
      BY <3>1, <3>2, <3>6
  <2>3. ASSUME NEW i \in 1..Len(net')
        PROVE  net'[i] = n + i - 1
    <3>1. CASE i \in 1..Len(net)
      BY <1>2, <1>4, <2>1, <3>1 DEF Waits
    <3>2. CASE i = Len(net) + 1
      BY <1>1, <1>2, <1>4, <2>1, <3>2 DEF Waits
    <3>. QED
      BY <1>1, <1>2, <2>1, <3>1, <3>2
  <2>. QED
    BY <2>2, <2>3 DEF Waits
<1>5. UNCHANGED <<hpc, chunk>>
  BY DEF Publish
<1>. QED
  BY <1>3, <1>4, <1>5 DEF Flow

\* The frames that came along with the response are the first of the run.
LEMMA FlowEstablished ==
  ASSUME TypeOK, Flow, Established, UNCHANGED <<server, client>>
  PROVE  Flow'
<1>1. PICK n \in 1..(published + 1) : Waits(n)
  BY DEF Flow, Established
<1>2. /\ net \in Seq(Messages) /\ early \in 0..Len(net) /\ Len(net) \in Nat
      /\ published \in Nat
  BY MessagesAssumption DEF TypeOK
<1>3. /\ Len(reader') = early /\ \A i \in 1..early : reader'[i] = net[i]
      /\ Len(net') = Len(net) - early
      /\ \A i \in 1..(Len(net) - early) : net'[i] = net[early + i]
  BY <1>2, Cut DEF Established
<1>4. Len(reader') + Len(net') = published - n + 1 /\ 1..(n - 1) \subseteq delivered
  BY <1>1, <1>2, <1>3 DEF Waits
<1>5. \A i \in 1..Len(reader') : reader'[i] = n + i - 1
  BY <1>1, <1>2, <1>3 DEF Waits
<1>6. ASSUME NEW i \in 1..Len(net')
      PROVE  net'[i] = n + Len(reader') + i - 1
  <2>1. net'[i] = net[early + i] /\ early + i \in 1..Len(net)
    BY <1>2, <1>3
  <2>. QED
    BY <1>1, <1>2, <1>3, <2>1 DEF Waits
<1>7. Runs(n)'
  BY <1>4, <1>5, <1>6 DEF Runs, server, client
<1>. QED
  BY <1>7 DEF Flow, Established, server

LEMMA FlowRecv ==
  ASSUME TypeOK, SettledIsDelivered, NEW frames \in Backlogs, Recv(frames),
         UNCHANGED <<server, client>>
  PROVE  Flow'
<1>1. Verdict(chunk') = "accepted" => net' = frames
  BY BacklogType, RecvType
<1>2. PICK n \in 1..(published + 1) :
        /\ 1..(n - 1) \subseteq settled
        /\ Len(frames) = published - n + 1
        /\ \A i \in 1..Len(frames) : frames[i] = n + i - 1
  BY BacklogType
<1>3. Verdict(chunk') = "accepted" => Waits(n)'
  BY <1>1, <1>2 DEF Waits, SettledIsDelivered, server, client
<1>. QED
  BY <1>3 DEF Flow, Recv, server

\* message_cb_ gets the next number of the run, and no other.
LEMMA NextOfTheRun ==
  ASSUME TypeOK, Flow, HandleRead
  PROVE  \E n \in 1..published :
           /\ n = Head(reader \o net) /\ 1..(n - 1) \subseteq delivered
           /\ Runs(n + 1)'
<1>1. PICK n \in 1..(published + 1) : Runs(n)
  BY DEF Flow, HandleRead
<1>2. /\ reader \in Seq(Messages) /\ net \in Seq(Messages) /\ published \in Nat
      /\ Len(reader) \in Nat /\ Len(net) \in Nat /\ reader \o net # <<>>
  BY MessagesAssumption DEF TypeOK, HandleRead
<1>3. delivered' = delivered \cup {Head(reader \o net)} /\ published' = published
  BY DEF HandleRead, server
<1>4. CASE reader # <<>>
  <2>1. Head(reader \o net) = reader[1] /\ Len(reader) > 0
    BY <1>2, <1>4, First, HeadTail
  <2>2. reader[1] = n /\ n \in 1..published
    BY <1>1, <1>2, <2>1 DEF Runs
  <2>3. /\ net' = net /\ Len(reader') = Len(reader) - 1
        /\ \A i \in 1..Len(reader') : reader'[i] = reader[i + 1]
    BY <1>2, <1>4, HeadTail DEF HandleRead
  <2>4. /\ 1..n \subseteq delivered' /\ Len(reader') + Len(net') = published' - n
        /\ Len(reader') \in Nat
    BY <1>1, <1>2, <1>3, <2>1, <2>2, <2>3 DEF Runs
  <2>5. ASSUME NEW i \in 1..Len(reader')
        PROVE  reader'[i] = n + i
    BY <1>1, <1>2, <2>1, <2>2, <2>3 DEF Runs
  <2>6. ASSUME NEW i \in 1..Len(net')
        PROVE  net'[i] = n + Len(reader') + i
    BY <1>1, <1>2, <2>1, <2>2, <2>3 DEF Runs
  <2>7. Runs(n + 1)'
    <3>1. 1..(n + 1 - 1) \subseteq delivered' /\ Len(reader') + Len(net') = published' - (n + 1) + 1
      BY <1>2, <1>3, <2>2, <2>4
    <3>2. \A i \in 1..Len(reader') : reader'[i] = n + 1 + i - 1
      BY <1>2, <2>2, <2>5
    <3>3. \A i \in 1..Len(net') : net'[i] = n + 1 + Len(reader') + i - 1
      BY <1>2, <2>2, <2>4, <2>6
    <3>. QED
      BY <3>1, <3>2, <3>3 DEF Runs
  <2>. QED
    BY <1>1, <2>1, <2>2, <2>7 DEF Runs
<1>5. CASE reader = <<>>
  <2>1. Head(reader \o net) = net[1] /\ Len(net) > 0 /\ Len(reader) = 0
    BY <1>2, <1>5, First, HeadTail
  <2>2. net[1] = n /\ n \in 1..published
    BY <1>1, <1>2, <2>1 DEF Runs
  <2>3. /\ reader' = reader /\ Len(net') = Len(net) - 1
        /\ \A i \in 1..Len(net') : net'[i] = net[i + 1]
    BY <1>2, <1>5, <2>1, HeadTail DEF HandleRead
  <2>4. /\ 1..n \subseteq delivered' /\ Len(reader') + Len(net') = published' - n
        /\ Len(reader') = 0
    BY <1>1, <1>2, <1>3, <2>1, <2>2, <2>3 DEF Runs
  <2>5. ASSUME NEW i \in 1..Len(net')
        PROVE  net'[i] = n + i
    BY <1>1, <1>2, <2>1, <2>2, <2>3 DEF Runs
  <2>6. Runs(n + 1)'
    <3>1. 1..(n + 1 - 1) \subseteq delivered' /\ Len(reader') + Len(net') = published' - (n + 1) + 1
      BY <1>2, <1>3, <2>2, <2>4
    <3>2. \A i \in 1..Len(net') : net'[i] = n + 1 + Len(reader') + i - 1
      BY <1>2, <2>2, <2>4, <2>5
    <3>. QED
      BY <2>4, <3>1, <3>2 DEF Runs
  <2>. QED
    BY <1>1, <2>1, <2>2, <2>6 DEF Runs
<1>. QED
  BY <1>4, <1>5

LEMMA FlowStep ==
  ASSUME TypeOK, Flow, SettledIsDelivered, [Next]_vars
  PROVE  Flow'
<1>1. CASE Connecting
  <2>1. CASE Call \/ NoSocket \/ Socket \/ Malformed \/ Redirected \/ Crash
    BY <2>1 DEF Call, NoSocket, Socket, Malformed, Redirected, Crash, Flow
  <2>. QED
    BY <1>1, <2>1, FlowEstablished DEF Connecting, Connect, NoAddress
<1>2. CASE ConnectFails \/ Lose \/ Die \/ Restart
  BY <1>2 DEF ConnectFails, NoSocket, NoAnswer, Lose, Die, Restart, Flow
<1>3. CASE HandleRead
  <2>1. PICK n \in 1..published : Runs(n + 1)'
    BY <1>3, NextOfTheRun
  <2>2. n + 1 \in 1..(published' + 1) /\ hpc' = "up"
    BY <1>3, MessagesAssumption DEF HandleRead, server, TypeOK
  <2>. QED
    BY <2>1, <2>2 DEF Flow
<1>4. CASE ReadAck \/ HandleWrite \/ UNCHANGED vars
  BY <1>4 DEF ReadAck, HandleWrite, WriteAll, WritePart, WriteRefused, WriteUnchanged, vars, handshake, server, client, Flow, Runs, Waits
<1>. QED
  BY <1>1, <1>2, <1>3, <1>4, FlowPublish, FlowRecv DEF Next, ServerAnswers

-----------------------------------------------------------------------------
(* Delivery and acknowledgement *)

Handed == AcksDelivered /\ NoGap /\ SettledIsDelivered

LEMMA HandedRead ==
  ASSUME TypeOK, Flow, Handed, HandleRead
  PROVE  Handed'
<1>. DEFINE seq == Head(reader \o net)
<1>1. PICK n \in 1..published : n = seq /\ 1..(n - 1) \subseteq delivered
  BY NextOfTheRun
<1>2. /\ delivered' = delivered \cup {seq} /\ UNCHANGED <<up, settled>>
      /\ UNCHANGED acks \/ acks' = Append(acks, seq)
  BY DEF HandleRead, server
<1>. HIDE DEF seq
<1>3. published \in Nat /\ delivered \subseteq Nat /\ acks \in Seq(Messages)
  BY MessagesAssumption DEF TypeOK, Messages
<1>4. NoGap'
  <2>1. 1..n \subseteq delivered'
    BY <1>1, <1>2, <1>3
  <2>. QED
    BY <1>1, <1>2, <2>1 DEF Handed, NoGap
<1>5. \A i \in DOMAIN acks' : acks'[i] \in delivered'
  <2>1. CASE acks' = Append(acks, seq)
    <3>1. /\ DOMAIN acks' = 1..(Len(acks) + 1) /\ acks'[Len(acks) + 1] = seq
          /\ \A i \in 1..Len(acks) : acks'[i] = acks[i]
          /\ Len(acks) \in Nat /\ DOMAIN acks = 1..Len(acks)
      BY <1>3, <2>1
    <3>. QED
      BY <1>2, <3>1 DEF Handed, AcksDelivered
  <2>. QED
    BY <1>2, <2>1 DEF Handed, AcksDelivered
<1>. QED
  BY <1>2, <1>4, <1>5 DEF Handed, AcksDelivered, SettledIsDelivered

LEMMA HandedStep ==
  ASSUME TypeOK, Flow, Handed, [Next]_vars
  PROVE  Handed'
<1>. USE DEF Handed, AcksDelivered, NoGap, SettledIsDelivered
<1>1. CASE ReadAck
  <2>1. /\ up \in Seq(Messages) /\ up # <<>> /\ UNCHANGED <<delivered, acks>>
        /\ up' = Tail(up) /\ settled' \subseteq settled \cup {Head(up)} \cup 1..Head(up)
    BY <1>1 DEF ReadAck, TypeOK, client
  <2>2. /\ Head(up) = up[1] /\ 1 \in DOMAIN up
        /\ \A i \in DOMAIN up' : up'[i] = up[i + 1] /\ i + 1 \in DOMAIN up
    BY <2>1, HeadTail
  <2>3. settled' \subseteq delivered'
    BY <2>1, <2>2
  <2>. QED
    BY <2>1, <2>2, <2>3
<1>2. CASE HandleWrite
  <2>1. /\ acks \in Seq(Messages) /\ acks # <<>> /\ UNCHANGED <<delivered, settled>>
        /\ up \in Seq(Messages) /\ (UNCHANGED up \/ up' = Append(up, Head(acks)))
        /\ (UNCHANGED acks \/ acks' = Tail(acks))
    BY <1>2 DEF HandleWrite, WriteAll, WritePart, WriteRefused, Writing, WriteUnchanged, TypeOK,
                server
  <2>2. Head(acks) = acks[1] /\ 1 \in DOMAIN acks
        /\ \A i \in DOMAIN Tail(acks) : Tail(acks)[i] = acks[i + 1] /\ i + 1 \in DOMAIN acks
    BY <2>1, HeadTail
  <2>. DEFINE longer == Append(up, Head(acks))
  <2>3. /\ DOMAIN up = 1..Len(up) /\ DOMAIN longer = 1..(Len(up) + 1) /\ Len(up) \in Nat
        /\ longer[Len(up) + 1] = Head(acks) /\ \A i \in 1..Len(up) : longer[i] = up[i]
    BY <2>1
  <2>4. \A i \in DOMAIN longer : longer[i] \in delivered
    BY <2>2, <2>3
  <2>5. \A i \in DOMAIN up' : up'[i] \in delivered
    <3>1. CASE UNCHANGED up
      BY <3>1
    <3>2. CASE up' = longer
      BY <2>4, <3>2
    <3>. QED
      BY <2>1, <3>1, <3>2
  <2>6. \A i \in DOMAIN acks' : acks'[i] \in delivered
    <3>1. CASE UNCHANGED acks
      BY <3>1
    <3>2. CASE acks' = Tail(acks)
      BY <2>2, <3>2
    <3>. QED
      BY <2>1, <3>1, <3>2
  <2>. QED
    BY <2>1, <2>5, <2>6
<1>3. CASE Publish \/ Connecting \/ ServerAnswers \/ ConnectFails \/ Die \/ UNCHANGED vars
  BY <1>3 DEF Publish, Connecting, ServerAnswers, ConnectFails, Die, vars, server, client
<1>4. CASE Lose \/ Restart
  BY <1>4 DEF Lose, Restart, server, client
<1>. QED
  BY <1>1, <1>2, <1>3, <1>4, HandedRead DEF Next

LEMMA IInvInit == Init => IInv
<1>. SUFFICES ASSUME Init
              PROVE  IInv
  OBVIOUS
<1>1. Flow /\ SocketsShut
  BY DEF Init, HandshakeInit, Flow, SocketsShut
<1>2. AcksDelivered /\ NoGap /\ SettledIsDelivered
  BY DEF Init, AcksDelivered, NoGap, SettledIsDelivered
<1>. QED
  BY <1>1, <1>2, TypeInit DEF IInv

LEMMA IInvStep == IInv /\ [Next]_vars => IInv'
  BY TypeStep, FlowStep, HandedStep DEF IInv, Handed

LEMMA Invariance == Spec => []IInv
  BY IInvInit, IInvStep, PTL DEF Spec

\* Every variable keeps its type, and Connect leaves no socket open behind it:
\* whatever the answers, the redirects and the failures.
THEOREM TypeCorrect == Spec => [](TypeOK /\ SocketsShut)
<1>1. IInv => TypeOK /\ SocketsShut
  BY DEF IInv
<1>. QED
  BY <1>1, Invariance, PTL

\* The server forgets a message only after message_cb_ has had it, whether it
\* takes an ack for one message or for all up to it, and whatever was lost.
THEOREM NothingIsForgotten == Spec => []SettledIsDelivered
<1>1. IInv => SettledIsDelivered
  BY DEF IInv
<1>. QED
  BY <1>1, Invariance, PTL

\* message_cb_ never sees a message before those with a lower number.
THEOREM InOrder == Spec => []NoGap
<1>1. IInv => NoGap
  BY DEF IInv
<1>. QED
  BY <1>1, Invariance, PTL
=============================================================================

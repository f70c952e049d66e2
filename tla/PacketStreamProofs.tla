------------------------- MODULE PacketStreamProofs -------------------------
(***************************************************************************)
(* For any number of packets and refusals and a buffer of any size: both   *)
(* ends of a connection keep to their buffers; a packet is written whole   *)
(* exactly if no write() was refused; the reader hands over what was       *)
(* written, and sees the end of the connection only where it is.           *)
(***************************************************************************)
EXTENDS PacketStream, TLAPS, SequenceTheorems, FiniteSetTheorems,
        WellFoundedInduction

\* What is on the stream: a length is one that Format wrote.
Sent == {x \in Byte : x.b = "len" => x.v \in 1..15}

LEMMA SentBytes ==
  /\ CR \in Sent /\ LF \in Sent /\ Stray \in Sent
  /\ \A n \in 1..15 : [b |-> "len", v |-> n] \in Sent
  /\ \A x \in Int : [b |-> "data", v |-> x] \in Sent
  /\ Sent \subseteq Byte
  BY DEF Sent, Byte, CR, LF, Stray

LEMMA HeaderLines ==
  ASSUME NEW n \in 1..15
  PROVE  Header(n) \in Seq(Sent) /\ Len(Header(n)) = 3
  BY SentBytes DEF Header

LEMMA Bodies ==
  ASSUME NEW i \in Int, NEW n \in Nat
  PROVE  Body(i, n) \in Seq(Sent) /\ Len(Body(i, n)) = n + 2
<1>1. Content(i, n) \in Seq(Sent) /\ Len(Content(i, n)) = n
  BY SentBytes DEF Content
<1>2. <<CR, LF>> \in Seq(Sent) /\ Len(<<CR, LF>>) = 2
  BY SentBytes
<1>. QED
  BY <1>1, <1>2 DEF Body

-----------------------------------------------------------------------------
(* The writer *)

\* left_ and buf_start_ in front of the header, or of the content.
Position ==
  /\ left \in Int /\ start \in Int
  /\ state = "NONE" => left = 0 /\ start = 0
  /\ state = "DATA_LEN" => left + start = 3
  /\ state = "DATA_BODY" => left + start = Size
  /\ state # "NONE" => Queued /\ left >= 1 /\ start >= -refusals

Writing ==
  /\ sizes \in [Packets -> Lengths]
  /\ cur \in 1..(NumPackets + 1)
  /\ state \in {"NONE", "DATA_LEN", "DATA_BODY"}
  /\ Position
  /\ stream \in Seq(Sent)
  /\ refusals \in 0..MaxRefusals
  /\ log \in Seq([from : Nat, to : Nat, refused : Nat])

LEMMA FrontSize ==
  ASSUME Writing, Queued
  PROVE  cur \in Packets /\ sizes[cur] \in 1..15 /\ Size \in 3..17
<1>1. cur \in Packets
  BY FormatAssumption DEF Writing, Queued, Packets
<1>2. sizes[cur] \in 1..15
  BY <1>1, FormatAssumption DEF Writing
<1>. QED
  BY <1>1, <1>2 DEF Size

LEMMA AreaBytes ==
  ASSUME Writing, Queued, state # "NONE"
  PROVE  Area \in Seq(Sent) /\ Len(Area) = left + start
<1>1. sizes[cur] \in 1..15 /\ sizes[cur] \in Nat /\ cur \in Int
  BY FrontSize DEF Packets
<1>2. CASE state = "DATA_LEN"
  BY <1>1, <1>2, HeaderLines DEF Area, Writing, Position
<1>3. CASE state = "DATA_BODY"
  BY <1>1, <1>3, Bodies DEF Area, Writing, Position, Size
<1>. QED
  BY <1>2, <1>3 DEF Writing

LEMMA BytesSent ==
  ASSUME Writing, Queued, state # "NONE", NEW k \in 0..left
  PROVE  Bytes(k) \in Seq(Sent) /\ Len(Bytes(k)) = k
<1>0. /\ start \in Int /\ left \in Int
      /\ Area \in Seq(Sent) /\ Len(Area) = left + start
  BY AreaBytes DEF Writing, Position
<1>1. \A j \in 1..k : At(start + j) \in Sent
  BY <1>0, SentBytes DEF At
<1>. QED
  BY <1>1 DEF Bytes, Writing, Position

LEMMA WritingType == Writing => WriterTypeOK
<1>. SUFFICES ASSUME Writing
              PROVE  WriterTypeOK
  OBVIOUS
<1>1. stream \in Seq(Byte)
  BY SentBytes, SeqMonotonic DEF Writing
<1>2. left \in 0..(17 + MaxRefusals) /\ start \in (-MaxRefusals)..17
  BY FrontSize, RefusalsAssumption DEF Writing, Position
<1>. QED
  BY <1>1, <1>2 DEF Writing, WriterTypeOK

LEMMA WritingInit == WriterInit => Writing
  BY FormatAssumption, RefusalsAssumption DEF WriterInit, Writing, Position

LEMMA WritingPop ==
  ASSUME Writing, Queued, NEW bytes \in Seq(Sent), Pop(bytes), stream' = bytes
  PROVE  Writing'
<1>1. log' \in Seq([from : Nat, to : Nat, refused : Nat])
  <2>1. CASE log = <<>>
    BY <2>1 DEF Pop, Writing
  <2>2. CASE log # <<>>
    <3>1. Len(log) \in 1..Len(log)
      BY <2>2 DEF Writing
    <3>2. log[Len(log)] \in [from : Nat, to : Nat, refused : Nat]
      BY <3>1, ElementOfSeq DEF Writing
    <3>. QED
      BY <2>2, <3>2 DEF Pop, Writing
  <2>. QED
    BY <2>1, <2>2
<1>. QED
  BY <1>1, FormatAssumption, RefusalsAssumption DEF Pop, Writing, Position, Queued

LEMMA WritingStep == Writing /\ [Write]_wvars => Writing'
<1>. SUFFICES ASSUME Writing, [Write]_wvars
              PROVE  Writing'
  OBVIOUS
<1>1. CASE Format
  <2>1. left' = 3
    BY <1>1, FrontSize, HeaderLines DEF Format
  <2>. QED
    BY <1>1, <2>1 DEF Format, FrontUnchanged, Writing, Position, Queued
<1>2. CASE WritePart
  <2>1. PICK k \in 1..(left - 1) :
               /\ stream' = stream \o Bytes(k)
               /\ IF k = Size THEN Pop(stream') ELSE Advance(k)
    BY <1>2 DEF WritePart
  <2>2. stream' \in Seq(Sent)
    BY <1>2, <2>1, BytesSent DEF WritePart, Writing, Position
  <2>3. CASE k = Size
    BY <1>2, <2>1, <2>2, <2>3, WritingPop DEF WritePart
  <2>4. CASE k # Size
    BY <1>2, <2>1, <2>2, <2>4
       DEF WritePart, Advance, FrontUnchanged, Writing, Position, Queued, Size
  <2>. QED
    BY <2>3, <2>4
<1>3. CASE WriteHeader
  <2>1. stream' \in Seq(Sent)
    BY <1>3, BytesSent DEF WriteHeader, Writing, Position
  <2>2. left' = Size /\ start' = 0 /\ Size \in 3..17 /\ state' = "DATA_BODY"
    BY <1>3, FrontSize DEF WriteHeader
  <2>3. UNCHANGED <<sizes, cur, refusals, log>> /\ Size' = Size /\ Queued /\ Queued'
    BY <1>3 DEF WriteHeader, FrontUnchanged, Queued, Size
  <2>. QED
    BY <2>1, <2>2, <2>3, RefusalsAssumption DEF Writing, Position
<1>4. CASE WriteBody
  <2>1. stream' \in Seq(Sent)
    BY <1>4, BytesSent DEF WriteBody, Writing, Position
  <2>. QED
    BY <1>4, <2>1, WritingPop DEF WriteBody
<1>5. CASE WriteRefused
  BY <1>5, RefusalsAssumption DEF WriteRefused, Writing, Position, Queued, Size
<1>6. CASE UNCHANGED wvars
  BY <1>6 DEF wvars, writer, Writing, Position, Queued, Size
<1>. QED
  BY <1>1, <1>2, <1>3, <1>4, <1>5, <1>6 DEF Write

-----------------------------------------------------------------------------
(* Minima of sets of numbers *)

LEMMA MinOfNaturals ==
  ASSUME NEW S, S \subseteq Nat, S # {}
  PROVE  Min(S) \in S /\ \A x \in S : Min(S) <= x
<1>1. PICK m \in S : \A y \in S : ~(<<y, m>> \in OpToRel(<, Nat))
  BY NatLessThanWellFounded, WFMin
<1>2. ASSUME NEW y \in S, y < m
      PROVE  <<y, m>> \in OpToRel(<, Nat)
  <2>1. <<y, m>> \in Nat \X Nat /\ <<y, m>>[1] < <<y, m>>[2]
    BY <1>2
  <2>. QED
    BY <2>1, Zenon DEF OpToRel
<1>3. \A y \in S : m \in Nat /\ y \in Nat /\ ~(y < m)
  BY <1>1, <1>2, Zenon
<1>4. \A y \in S : m <= y
  BY <1>3
<1>. QED
  BY <1>4 DEF Min

LEMMA MinOfTwo ==
  ASSUME NEW m \in Nat, NEW n \in Nat
  PROVE  Min({m, n}) \in Nat /\ Min({m, n}) <= m /\ Min({m, n}) <= n
<1>1. {m, n} \subseteq Nat /\ {m, n} # {} /\ m \in {m, n} /\ n \in {m, n}
  OBVIOUS
<1>. QED
  BY <1>1, MinOfNaturals

\* The line that ReadLine finds lies within the bytes.
LEMMA LineFound ==
  ASSUME NEW bytes \in Seq(Sent), HasLine(bytes)
  PROVE  FindCRLF(bytes) \in 1..(Len(bytes) - 1)
<1>1. Lines(bytes) \subseteq 1..(Len(bytes) - 1) /\ Lines(bytes) # {}
  BY DEF HasLine, Lines
<1>2. Lines(bytes) \subseteq Nat
  BY <1>1
<1>. QED
  BY <1>1, <1>2, MinOfNaturals DEF FindCRLF

LEMMA DropBytes ==
  ASSUME NEW bytes \in Seq(Sent), NEW k \in 0..Len(bytes)
  PROVE  Drop(bytes, k) \in Seq(Sent) /\ Len(Drop(bytes, k)) = Len(bytes) - k
  BY SubSeqProperties DEF Drop

-----------------------------------------------------------------------------
(* The reader *)

Reading ==
  /\ fin \in BOOLEAN
  /\ arrived \in 0..Len(stream)
  /\ taken \in 0..arrived
  /\ held \in Seq(Sent) /\ offset \in Nat /\ offset + Len(held) <= BufSize
  /\ rstate \in {"RS_HEADER", "RS_BODY"}
  /\ rest \in 0..17 /\ content \in Seq(Sent)
  /\ rpc \in {"new", "read", "poll", "closed"}
  /\ got \in Seq(Seq(Sent))

LEMMA ReadingType == Reading => ReaderTypeOK
<1>1. Reading => held \in Seq(Byte) /\ content \in Seq(Byte)
  BY SentBytes, SeqMonotonic DEF Reading
<1>2. Reading => got \in Seq(Seq(Byte))
  <2>1. Seq(Sent) \subseteq Seq(Byte)
    BY SentBytes, SeqMonotonic
  <2>. QED
    BY <2>1, SeqMonotonic DEF Reading
<1>. QED
  BY <1>1, <1>2 DEF Reading, ReaderTypeOK

LEMMA ArrivedBytes ==
  ASSUME stream \in Seq(Sent), Reading
  PROVE  Arrived \in Seq(Sent) /\ Len(Arrived) = arrived - taken
  BY SubSeqProperties DEF Arrived, Reading

\* One read() into the room that Shrink leaves.
LEMMA Refill ==
  ASSUME stream \in Seq(Sent), Reading
  PROVE  /\ Shrink \in Nat /\ Shrink + Len(held) <= BufSize
         /\ ReadResult \in Int
         /\ ReadResult > 0 => taken + ReadResult <= arrived
         /\ Refilled \in Seq(Sent) /\ Shrink + Len(Refilled) <= BufSize
<1>1. Shrink \in Nat /\ Shrink + Len(held) <= BufSize /\ Room \in Nat
  BY BufferAssumption DEF Shrink, Room, Reading
<1>2. Arrived \in Seq(Sent) /\ Len(Arrived) = arrived - taken
  BY ArrivedBytes
<1>3. ReadResult \in Int /\ (ReadResult > 0 => ReadResult <= Room /\ ReadResult <= Len(Arrived))
  <2>1. /\ Min({Room, Len(Arrived)}) \in Nat
        /\ Min({Room, Len(Arrived)}) <= Room /\ Min({Room, Len(Arrived)}) <= Len(Arrived)
    BY <1>1, <1>2, MinOfTwo
  <2>. QED
    BY <1>1, <1>2, <2>1 DEF ReadResult
<1>4. CASE ReadResult > 0
  <2>1. SubSeq(Arrived, 1, ReadResult) \in Seq(Sent)
        /\ Len(SubSeq(Arrived, 1, ReadResult)) = ReadResult
    BY <1>2, <1>3, <1>4, SubSeqProperties
  <2>2. Refilled = held \o SubSeq(Arrived, 1, ReadResult)
    BY <1>4 DEF Refilled
  <2>3. Refilled \in Seq(Sent) /\ Len(Refilled) = Len(held) + ReadResult
    BY <2>1, <2>2, ConcatProperties DEF Reading
  <2>4. Shrink + Len(Refilled) <= BufSize
    BY <1>1, <1>3, <1>4, <2>3, BufferAssumption DEF Room, Reading
  <2>5. taken + ReadResult <= arrived
    BY <1>2, <1>3, <1>4 DEF Reading
  <2>. QED
    BY <1>1, <1>3, <2>3, <2>4, <2>5
<1>5. CASE ~(ReadResult > 0)
  BY <1>1, <1>3, <1>5 DEF Refilled, Reading
<1>. QED
  BY <1>4, <1>5

LEMMA LengthOfLine ==
  ASSUME NEW bytes \in Seq(Sent), bytes # <<>>
  PROVE  LineValue(bytes) \in 0..15
<1>1. bytes[1] \in Sent
  BY ElementOfSeq
<1>. QED
  BY <1>1 DEF LineValue, Sent

LEMMA LineTaken ==
  ASSUME Reading, NEW bytes \in Seq(Sent), NEW at \in Nat,
         at + Len(bytes) <= BufSize, HasLine(bytes), TakeLine(bytes, at)
  PROVE  /\ held' \in Seq(Sent) /\ offset' \in Nat /\ offset' + Len(held') <= BufSize
         /\ rest' \in 0..17 /\ rstate' = "RS_BODY" /\ content' = <<>> /\ rpc' = rpc
<1>1. FindCRLF(bytes) \in 1..(Len(bytes) - 1) /\ bytes # <<>>
  BY LineFound
<1>2. FindCRLF(bytes) + 1 \in 0..Len(bytes)
  BY <1>1
<1>3. /\ Drop(bytes, FindCRLF(bytes) + 1) \in Seq(Sent)
      /\ Len(Drop(bytes, FindCRLF(bytes) + 1)) = Len(bytes) - (FindCRLF(bytes) + 1)
  BY <1>2, DropBytes
<1>4. rest' \in 0..17
  <2>1. LineValue(bytes) \in 0..15
    BY <1>1, LengthOfLine
  <2>. QED
    BY <2>1 DEF TakeLine
<1>5. held' \in Seq(Sent) /\ Len(held') = Len(bytes) - (FindCRLF(bytes) + 1)
  BY <1>3 DEF TakeLine
<1>6. offset' = at + (FindCRLF(bytes) + 1)
  BY DEF TakeLine
<1>7. offset' \in Nat /\ offset' + Len(held') <= BufSize
  BY <1>1, <1>5, <1>6, BufferAssumption
<1>. QED
  BY <1>4, <1>5, <1>7 DEF TakeLine

LEMMA BytesTaken ==
  ASSUME Reading, NEW bytes \in Seq(Sent), NEW at \in Nat,
         at + Len(bytes) <= BufSize, TakeBytes(bytes, at)
  PROVE  /\ held' \in Seq(Sent) /\ offset' \in Nat /\ offset' + Len(held') <= BufSize
         /\ rest' \in 0..17 /\ content' \in Seq(Sent) /\ rstate' = rstate
         /\ rpc' \in {"poll", rpc}
<1>. DEFINE k == Min({rest, Len(bytes)})
<1>1. k \in Nat /\ k <= rest /\ k <= Len(bytes)
  <2>1. rest \in Nat /\ Len(bytes) \in Nat
    BY DEF Reading
  <2>. QED
    BY <2>1, MinOfTwo
<1>2. Drop(bytes, k) \in Seq(Sent) /\ Len(Drop(bytes, k)) = Len(bytes) - k
  BY <1>1, DropBytes
<1>3. SubSeq(bytes, 1, k) \in Seq(Sent)
  <2>. HIDE DEF k
  <2>1. \A i \in 1..k : bytes[i] \in Sent
    BY <1>1
  <2>. QED
    BY <1>1, <2>1, SubSeqProperties
<1>4. content \o SubSeq(bytes, 1, k) \in Seq(Sent)
  BY <1>3, ConcatProperties DEF Reading
<1>. HIDE DEF k
<1>5. /\ content' = content \o SubSeq(bytes, 1, k) /\ held' = Drop(bytes, k)
      /\ offset' = at + k /\ rest' = rest - k /\ rstate' = rstate /\ rpc' \in {"poll", rpc}
  BY DEF TakeBytes, k
<1>. QED
  BY <1>1, <1>2, <1>4, <1>5, BufferAssumption DEF Reading

LEMMA ReadingRead ==
  ASSUME stream \in Seq(Sent), Reading, Read, UNCHANGED <<stream, fin, arrived>>
  PROVE  Reading'
<1>1. CASE AddToBuffer
  <2>1. PICK k \in 0..(arrived - taken) :
          /\ k < BufSize - (offset + Len(held))
          /\ held' = held \o SubSeq(Arrived, 1, k)
          /\ taken' = taken + k
    BY <1>1 DEF AddToBuffer
  <2>2. SubSeq(Arrived, 1, k) \in Seq(Sent) /\ Len(SubSeq(Arrived, 1, k)) = k
    BY ArrivedBytes, SubSeqProperties DEF Reading
  <2>3. held' \in Seq(Sent) /\ Len(held') = Len(held) + k
    BY <2>1, <2>2, ConcatProperties DEF Reading
  <2>4. offset + Len(held') <= BufSize /\ taken' \in 0..arrived
    BY <2>1, <2>3, BufferAssumption DEF Reading
  <2>. QED
    BY <1>1, <2>3, <2>4 DEF AddToBuffer, packet, Reading
<1>2. CASE ReadHeader
  <2>1. taken' \in 0..arrived
    BY <1>2, Refill DEF ReadHeader, Reading
  <2>2. CASE HasLine(held)
    <3>1. TakeLine(held, offset)
      BY <1>2, <2>2 DEF ReadHeader
    <3>2. held \in Seq(Sent) /\ offset \in Nat /\ offset + Len(held) <= BufSize
      BY DEF Reading
    <3>3. /\ held' \in Seq(Sent) /\ offset' \in Nat /\ offset' + Len(held') <= BufSize
          /\ rest' \in 0..17 /\ rstate' = "RS_BODY" /\ content' = <<>> /\ rpc' = rpc
      BY <2>2, <3>1, <3>2, LineTaken
    <3>4. got' = got
      BY <1>2 DEF ReadHeader
    <3>. QED
      BY <2>1, <3>3, <3>4 DEF Reading
  <2>3. CASE ~HasLine(held) /\ ReadResult > 0 /\ HasLine(Refilled)
    <3>1. TakeLine(Refilled, Shrink)
      BY <1>2, <2>3 DEF ReadHeader
    <3>2. Refilled \in Seq(Sent) /\ Shrink \in Nat /\ Shrink + Len(Refilled) <= BufSize
      BY Refill
    <3>3. /\ held' \in Seq(Sent) /\ offset' \in Nat /\ offset' + Len(held') <= BufSize
          /\ rest' \in 0..17 /\ rstate' = "RS_BODY" /\ content' = <<>> /\ rpc' = rpc
      BY <2>3, <3>1, <3>2, LineTaken
    <3>4. got' = got
      BY <1>2 DEF ReadHeader
    <3>. QED
      BY <2>1, <3>3, <3>4 DEF Reading
  <2>4. CASE ~HasLine(held) /\ ~(ReadResult > 0 /\ HasLine(Refilled))
    <3>1. held' = Refilled /\ offset' = Shrink /\ Return(ReadResult)
      BY <1>2, <2>4 DEF ReadHeader
    <3>2. rpc' \in {"closed", "poll"} /\ UNCHANGED <<rstate, rest, content, got>>
      BY <1>2, <3>1 DEF ReadHeader, Return, packet
    <3>3. held' \in Seq(Sent) /\ offset' \in Nat /\ offset' + Len(held') <= BufSize
      BY <3>1, Refill
    <3>. QED
      BY <2>1, <3>2, <3>3 DEF Reading
  <2>. QED
    BY <2>2, <2>3, <2>4
<1>3. CASE ReadBody
  <2>1. taken' \in 0..arrived
    BY <1>3, Refill DEF ReadBody, Reading
  <2>2. CASE Len(held) >= rest
    <3>1. TakeBytes(held, offset)
      BY <1>3, <2>2 DEF ReadBody
    <3>. QED
      BY <1>3, <2>1, <3>1, BytesTaken DEF ReadBody, Reading
  <2>3. CASE ~(Len(held) >= rest) /\ ReadResult = 0
    <3>1. held' = held /\ offset' = Shrink /\ Return(0)
      BY <1>3, <2>3 DEF ReadBody
    <3>. QED
      BY <1>3, <2>1, <3>1, Refill DEF ReadBody, Return, packet, Reading
  <2>4. CASE ~(Len(held) >= rest) /\ ReadResult # 0
    <3>1. TakeBytes(Refilled, Shrink)
      BY <1>3, <2>4 DEF ReadBody
    <3>2. Refilled \in Seq(Sent) /\ Shrink \in Nat /\ Shrink + Len(Refilled) <= BufSize
      BY Refill
    <3>. QED
      BY <1>3, <2>1, <3>1, <3>2, BytesTaken DEF ReadBody, Reading
  <2>. QED
    BY <2>2, <2>3, <2>4
<1>4. CASE ReadDone
  <2>1. Stripped \in Seq(Sent)
    <3>1. CASE HasLine(content)
      <4>1. FindCRLF(content) \in 1..(Len(content) - 1)
        BY <3>1, LineFound DEF Reading
      <4>2. \A i \in 1..(FindCRLF(content) - 1) : content[i] \in Sent
        BY <4>1 DEF Reading
      <4>. QED
        BY <3>1, <4>1, <4>2, SubSeqProperties DEF Stripped
    <3>2. CASE ~HasLine(content)
      BY <3>2 DEF Stripped, Reading
    <3>. QED
      BY <3>1, <3>2
  <2>2. got' \in Seq(Seq(Sent))
    BY <1>4, <2>1 DEF ReadDone, Reading
  <2>. QED
    BY <1>4, <2>2 DEF ReadDone, Reset, buffer, Reading
<1>5. CASE Wake
  BY <1>5 DEF Wake, buffer, packet, Reading
<1>. QED
  BY <1>1, <1>2, <1>3, <1>4, <1>5 DEF Read

-----------------------------------------------------------------------------
\* What is written stays where it is.
LEMMA StreamGrows == Writing /\ Write => stream' \in Seq(Sent) /\ Len(stream) <= Len(stream')
<1>. SUFFICES ASSUME Writing, Write
              PROVE  stream' \in Seq(Sent) /\ Len(stream) <= Len(stream')
  OBVIOUS
<1>1. CASE Format \/ WriteRefused
  BY <1>1 DEF Format, WriteRefused, Writing
<1>2. CASE WritePart \/ WriteHeader \/ WriteBody
  <2>1. left \in Nat /\ Queued /\ state # "NONE"
    BY <1>2 DEF WritePart, WriteHeader, WriteBody, Writing, Position
  <2>2. PICK k \in 0..left : stream' = stream \o Bytes(k)
    BY <1>2, <2>1 DEF WritePart, WriteHeader, WriteBody
  <2>3. Bytes(k) \in Seq(Sent) /\ Len(Bytes(k)) = k
    BY <2>1, BytesSent
  <2>. QED
    BY <2>2, <2>3, ConcatProperties DEF Writing
<1>. QED
  BY <1>1, <1>2 DEF Write

LEMMA BothStep == Writing /\ Reading /\ [Step]_svars => Writing' /\ Reading'
<1>. SUFFICES ASSUME Writing, Reading, [Step]_svars
              PROVE  Writing' /\ Reading'
  OBVIOUS
<1>0. stream \in Seq(Sent)
  BY DEF Writing
<1>1. CASE Write /\ UNCHANGED <<fin, arrived, reader>>
  BY <1>1, StreamGrows, WritingStep DEF reader, buffer, packet, Reading, Writing
<1>2. CASE Arrives
  <2>1. Writing'
    BY <1>2, WritingStep DEF Arrives
  <2>2. stream' = stream
    BY <1>2 DEF Arrives, wvars, writer
  <2>. QED
    BY <1>0, <1>2, <2>1, <2>2 DEF Arrives, Arrive, reader, buffer, packet, Reading
<1>3. CASE Reads
  <2>1. Writing' /\ stream' = stream
    BY <1>3, WritingStep DEF Reads, wvars, writer
  <2>. QED
    BY <1>0, <1>3, <2>1, ReadingRead DEF Reads
<1>4. CASE PeerClose
  <2>1. Writing' /\ stream' = stream
    BY <1>4, WritingStep DEF PeerClose, wvars, writer
  <2>. QED
    BY <1>0, <1>4, <2>1 DEF PeerClose, reader, buffer, packet, Reading
<1>5. CASE UNCHANGED svars
  <2>1. Writing' /\ stream' = stream
    BY <1>5, WritingStep DEF svars, wvars, writer
  <2>. QED
    BY <1>0, <1>5, <2>1 DEF svars, reader, buffer, packet, Reading
<1>. QED
  BY <1>1, <1>2, <1>3, <1>4, <1>5 DEF Step

LEMMA BothInit == Init => Writing /\ Reading
<1>1. 0 <= BufSize
  BY BufferAssumption
<1>2. Len(<<>>) = 0 /\ <<>> \in Seq(Sent) /\ <<>> \in Seq(Seq(Sent))
  OBVIOUS
<1>3. ReaderInit /\ stream = <<>> => Reading
  <2>. SUFFICES ASSUME ReaderInit, stream = <<>>
                PROVE  Reading
    OBVIOUS
  <2>1. fin \in BOOLEAN
    BY Zenon DEF ReaderInit
  <2>2. /\ arrived = 0 /\ taken = 0 /\ held = <<>> /\ offset = 0 /\ rstate = "RS_HEADER"
        /\ rest = 0 /\ content = <<>> /\ rpc = "new" /\ got = <<>>
    BY Zenon DEF ReaderInit
  <2>. QED
    BY <1>1, <1>2, <2>1, <2>2 DEF Reading
<1>. QED
  BY <1>3, WritingInit DEF Init, WriterInit

\* Neither end leaves its buffers: left_ and buf_start_ stay within the header, the
\* content and the bytes before them, start_ and end_ within buf_, for any number of
\* packets, a buffer of any size and bytes cut anywhere.
THEOREM TypeCorrect == Spec => []TypeOK
<1>1. Writing /\ Reading => TypeOK
  BY WritingType, ReadingType DEF TypeOK
<1>. QED
  BY <1>1, BothInit, BothStep, PTL DEF Spec

-----------------------------------------------------------------------------
(* What the writer puts out *)

\* Where the front packet begins, and how much of it lies before the Area.
Base   == IF log = <<>> THEN 0 ELSE log[Len(log)].to
Before == IF state = "DATA_BODY" THEN 3 ELSE 0

\* Each refused write() has moved buf_start_ back by one, so that it is behind the
\* stream by as many bytes; without one the stream is that of the packet.
Out ==
  /\ Base \in Nat /\ Len(stream) = Base + Before + start + refusals
  /\ state = "NONE" => refusals = 0
  /\ refusals = 0 => \A j \in 1..(Before + start) :
                      stream[Base + j] = Whole(cur, sizes[cur])[j]

Logged ==
  /\ Len(log) = cur - 1
  /\ \A i \in DOMAIN log : log[i].to \in 1..Len(stream) /\ log[i].from \in 1..log[i].to
  /\ WholeUnlessRefused

LEMMA WholeBytes ==
  ASSUME NEW i \in Int, NEW n \in 1..15
  PROVE  /\ Whole(i, n) \in Seq(Sent) /\ Len(Whole(i, n)) = n + 5
         /\ \A j \in 1..(n + 5) : Whole(i, n)[j] # Stray
         /\ \A j \in 1..3 : Whole(i, n)[j] = Header(n)[j]
         /\ \A j \in 1..(n + 2) : Whole(i, n)[3 + j] = Body(i, n)[j]
<1>. DEFINE h == Header(n)
            b == Body(i, n)
<1>1. h \in Seq(Sent) /\ Len(h) = 3
  BY HeaderLines
<1>2. b \in Seq(Sent) /\ Len(b) = n + 2
  BY Bodies
<1>0. /\ Whole(i, n) \in Seq(Sent)
      /\ Len(Whole(i, n)) = Len(h) + Len(b)
      /\ \A j \in 1..(Len(h) + Len(b)) :
           Whole(i, n)[j] = IF j <= Len(h) THEN h[j] ELSE b[j - Len(h)]
  <2>1. Whole(i, n) = h \o b
    BY DEF Whole
  <2>2. h \in Seq(Sent) /\ b \in Seq(Sent)
    BY <1>1, <1>2
  <2>. HIDE DEF h, b
  <2>. QED
    BY <2>1, <2>2, ConcatProperties
<1>6. \A j \in 1..3 : h[j] # Stray
  BY DEF Header, Stray, CR, LF
<1>7. \A j \in 1..(n + 2) : b[j] # Stray
  <2>1. Content(i, n) \in Seq(Sent) /\ Len(Content(i, n)) = n
    BY SentBytes DEF Content
  <2>2. \A j \in 1..n : Content(i, n)[j] # Stray
    BY DEF Content, LF, Stray
  <2>3. \A j \in 1..2 : <<CR, LF>>[j] # Stray
    BY DEF CR, LF, Stray
  <2>4. <<CR, LF>> \in Seq(Sent) /\ Len(<<CR, LF>>) = 2
    BY SentBytes
  <2>. QED
    BY <2>1, <2>2, <2>3, <2>4, ConcatProperties DEF Body
<1>. HIDE DEF h, b
<1>3. Whole(i, n) \in Seq(Sent) /\ Len(Whole(i, n)) = n + 5
  <2>1. Whole(i, n) \in Seq(Sent) /\ Len(Whole(i, n)) = Len(h) + Len(b)
    BY <1>0, Zenon
  <2>2. Len(h) + Len(b) = n + 5
    BY <1>1, <1>2
  <2>. QED
    BY <2>1, <2>2, Zenon
<1>4. ASSUME NEW j \in 1..3
      PROVE  Whole(i, n)[j] = h[j]
  BY <1>0, <1>1, <1>2
<1>5. ASSUME NEW j \in 1..(n + 2)
      PROVE  Whole(i, n)[3 + j] = b[j]
  <2>1. 3 + j \in 1..(3 + (n + 2)) /\ ~(3 + j <= 3) /\ (3 + j) - 3 = j
    OBVIOUS
  <2>. QED
    BY <1>0, <1>1, <1>2, <2>1
<1>8. ASSUME NEW j \in 1..(n + 5)
      PROVE  Whole(i, n)[j] # Stray
  <2>1. CASE j <= 3
    BY <1>4, <1>6, <2>1
  <2>2. CASE j > 3
    <3>1. j - 3 \in 1..(n + 2) /\ 3 + (j - 3) = j
      BY <2>2
    <3>. QED
      BY <1>5, <1>7, <3>1
  <2>. QED
    BY <2>1, <2>2
<1>. QED
  BY <1>3, <1>4, <1>5, <1>8 DEF h, b

LEMMA FrontWhole ==
  ASSUME Writing, Queued
  PROVE  /\ cur \in Int /\ sizes[cur] \in 1..15
         /\ Whole(cur, sizes[cur]) \in Seq(Sent)
         /\ Len(Whole(cur, sizes[cur])) = Size + 3
         /\ \A j \in 1..(Size + 3) : Whole(cur, sizes[cur])[j] # Stray
<1>1. cur \in Int /\ sizes[cur] \in 1..15
  BY FrontSize DEF Packets
<1>2. Size + 3 = sizes[cur] + 5
  BY <1>1 DEF Size
<1>. QED
  BY <1>1, <1>2, WholeBytes

LEMMA Joined ==
  ASSUME NEW S, NEW s \in Seq(S), NEW t \in Seq(S), NEW u, u = s \o t
  PROVE  /\ u \in Seq(S) /\ Len(u) = Len(s) + Len(t)
         /\ \A i \in 1..Len(s) : u[i] = s[i]
         /\ \A i \in 1..Len(t) : u[Len(s) + i] = t[i]
  OBVIOUS

\* As long as no write() was refused, what is appended is the packet's.
LEMMA Appended ==
  ASSUME Writing, Out, Queued, state # "NONE", NEW k \in 0..left, refusals = 0,
         stream' = stream \o Bytes(k)
  PROVE  \A j \in 1..(Before + start + k) : stream'[Base + j] = Whole(cur, sizes[cur])[j]
<1>. DEFINE W == Whole(cur, sizes[cur])
            b == Bytes(k)
<1>0. /\ stream \in Seq(Sent) /\ Len(stream) \in Nat /\ left \in Int /\ start \in Nat
      /\ Base \in Nat /\ Before \in Nat /\ Len(stream) = Base + Before + start
  BY DEF Writing, Position, Out, Before
<1>1. b \in Seq(Sent) /\ Len(b) = k
  BY BytesSent
<1>2. Len(Area) = left + start
  BY AreaBytes
<1>3. \A i \in 1..(left + start) : Area[i] = W[Before + i]
  <2>1. cur \in Int /\ sizes[cur] \in 1..15
    BY FrontWhole
  <2>2. CASE state = "DATA_LEN"
    <3>1. Area = Header(sizes[cur]) /\ Before = 0 /\ left + start = 3
      BY <2>2 DEF Area, Before, Writing, Position
    <3>2. \A i \in 1..3 : W[i] = Header(sizes[cur])[i]
      BY <2>1, WholeBytes
    <3>. HIDE DEF W
    <3>. QED
      BY <3>1, <3>2
  <2>3. CASE state = "DATA_BODY"
    <3>1. Area = Body(cur, sizes[cur]) /\ Before = 3 /\ left + start = sizes[cur] + 2
      BY <2>3 DEF Area, Before, Writing, Position, Size
    <3>2. \A i \in 1..(sizes[cur] + 2) : W[3 + i] = Body(cur, sizes[cur])[i]
      BY <2>1, WholeBytes
    <3>. HIDE DEF W
    <3>. QED
      BY <3>1, <3>2
  <2>. QED
    BY <2>2, <2>3 DEF Writing
<1>4. \A i \in 1..k : b[i] = Area[start + i]
  BY <1>0 DEF Bytes, At
<1>5. stream' = stream \o b
  OBVIOUS
<1>. HIDE DEF W, b
<1>6. /\ \A i \in 1..Len(stream) : stream'[i] = stream[i]
      /\ \A i \in 1..Len(b) : stream'[Len(stream) + i] = b[i]
  BY <1>0, <1>1, <1>5, Joined
<1>7. ASSUME NEW j \in 1..(Before + start + k)
      PROVE  stream'[Base + j] = W[j]
  <2>1. CASE j <= Before + start
    <3>1. stream'[Base + j] = stream[Base + j]
      <4>1. Base + j \in 1..Len(stream)
        BY <1>0, <1>1, <2>1
      <4>. QED
        BY <1>6, <4>1, Zenon
    <3>2. stream[Base + j] = W[j]
      BY <1>0, <2>1 DEF Out, W
    <3>. QED
      BY <3>1, <3>2
  <2>2. CASE j > Before + start
    <3>1. j - Before - start \in 1..k /\ start + (j - Before - start) \in 1..(left + start)
      BY <1>0, <2>2
    <3>2. stream'[Base + j] = b[j - Before - start]
      <4>1. /\ j - Before - start \in 1..Len(b)
            /\ Len(stream) + (j - Before - start) = Base + j
        BY <1>0, <1>1, <2>2
      <4>2. stream'[Len(stream) + (j - Before - start)] = b[j - Before - start]
        BY <1>6, <4>1, Zenon
      <4>. QED
        BY <4>1, <4>2, Zenon
    <3>3. b[j - Before - start] = W[Before + (start + (j - Before - start))]
      BY <1>3, <1>4, <3>1
    <3>4. Before + (start + (j - Before - start)) = j
      BY <1>0
    <3>. QED
      BY <3>2, <3>3, <3>4
  <2>3. j <= Before + start \/ j > Before + start
    BY <1>0
  <2>. QED
    BY <2>1, <2>2, <2>3
<1>. QED
  BY <1>7 DEF W

\* The entries of the log are about a part of the stream that does not change.
LEMMA LogStays ==
  ASSUME Writing, Logged, NEW bytes \in Seq(Sent), stream' = stream \o bytes,
         UNCHANGED sizes, NEW i \in DOMAIN log
  PROVE  /\ log[i].to \in 1..Len(stream') /\ log[i].from \in 1..log[i].to
         /\ log[i].refused = 0 <=> SubSeq(stream', log[i].from, log[i].to) = Whole(i, sizes'[i])
<1>1. stream \in Seq(Sent)
  BY DEF Writing
<1>2. log[i].to \in 1..Len(stream) /\ log[i].from \in 1..Len(stream)
      /\ log[i].from \in 1..log[i].to
  BY <1>1 DEF Logged
<1>3. SubSeq(stream', log[i].from, log[i].to) = SubSeq(stream, log[i].from, log[i].to)
  BY <1>1, <1>2, SubSeqOfConcat1
<1>4. Len(stream') = Len(stream) + Len(bytes)
  BY <1>1, ConcatProperties
<1>5. log[i].to \in 1..Len(stream')
  BY <1>1, <1>2, <1>4
<1>. QED
  BY <1>2, <1>3, <1>5 DEF Logged, WholeUnlessRefused, Written

\* A packet is popped: it is whole exactly if none of its write()s was refused.
LEMMA OutPop ==
  ASSUME Writing, Out, Logged, Queued, NEW bytes \in Seq(Sent), stream' = stream \o bytes,
         Pop(stream'), Base < Len(stream'),
         refusals = 0 <=> SubSeq(stream', Base + 1, Len(stream')) = Whole(cur, sizes[cur])
  PROVE  Out' /\ Logged'
<1>. DEFINE d == [from |-> Base + 1, to |-> Len(stream'), refused |-> refusals]
<1>0. stream' \in Seq(Sent) /\ Len(stream') \in Nat /\ Base \in Nat
  BY DEF Writing, Out
<1>1. log' = Append(log, d)
  <2>1. Base + 1 = IF log = <<>> THEN 1 ELSE log[Len(log)].to + 1
    BY DEF Base
  <2>. QED
    BY <2>1 DEF Pop
<1>2. cur' = cur + 1 /\ refusals' = 0 /\ state' = "NONE" /\ start' = 0 /\ sizes' = sizes
  BY DEF Pop
<1>3. log \in Seq([from : Nat, to : Nat, refused : Nat]) /\ Len(log) = cur - 1
      /\ cur \in Nat /\ Len(log) \in Nat
  BY FormatAssumption DEF Writing, Logged
<1>4. /\ Len(log') = cur /\ log'[cur] = d /\ log' # <<>>
      /\ \A i \in 1..(cur - 1) : log'[i] = log[i]
      /\ DOMAIN log' = 1..cur
  <2>. DEFINE Entry == [from : Nat, to : Nat, refused : Nat]
  <2>1. d \in Entry
    BY <1>0, RefusalsAssumption DEF Writing
  <2>2. log \in Seq(Entry)
    BY <1>3
  <2>. HIDE DEF d, Entry
  <2>3. /\ log' # <<>> /\ Len(log') = Len(log) + 1
        /\ \A i \in 1..Len(log) : log'[i] = log[i]
        /\ log'[Len(log) + 1] = d
    BY <1>1, <2>1, <2>2, AppendProperties
  <2>4. DOMAIN log' = 1..Len(log')
    BY <1>1, <2>1, <2>2, AppendProperties, LenProperties
  <2>. QED
    BY <1>3, <2>3, <2>4
<1>. HIDE DEF d
<1>5. Base' = Len(stream')
  BY <1>4 DEF Base, d
<1>6. Out'
  BY <1>0, <1>2, <1>5 DEF Out, Before
<1>7. ASSUME NEW i \in DOMAIN log'
      PROVE  /\ log'[i].to \in 1..Len(stream') /\ log'[i].from \in 1..log'[i].to
             /\ log'[i].refused = 0
                  <=> SubSeq(stream', log'[i].from, log'[i].to) = Whole(i, sizes'[i])
  <2>1. CASE i = cur
    <3>1. log'[i] = d /\ d.from = Base + 1 /\ d.to = Len(stream') /\ d.refused = refusals
      BY <1>4, <2>1 DEF d
    <3>2. Base + 1 \in 1..Len(stream') /\ Len(stream') \in 1..Len(stream')
      BY <1>0
    <3>3. sizes'[i] = sizes[cur]
      BY <1>2, <2>1
    <3>. QED
      BY <2>1, <3>1, <3>2, <3>3
  <2>2. CASE i # cur
    <3>1. i \in DOMAIN log /\ log'[i] = log[i]
      BY <1>3, <1>4, <2>2
    <3>2. /\ log[i].to \in 1..Len(stream') /\ log[i].from \in 1..log[i].to
          /\ log[i].refused = 0
               <=> SubSeq(stream', log[i].from, log[i].to) = Whole(i, sizes'[i])
      BY <1>2, <3>1, LogStays
    <3>. QED
      BY <3>1, <3>2
  <2>. QED
    BY <2>1, <2>2
<1>8. Len(log') = cur' - 1
  BY <1>2, <1>3, <1>4
<1>. QED
  BY <1>6, <1>7, <1>8 DEF Logged, WholeUnlessRefused, Written

\* A step that pops nothing leaves the log and its part of the stream.
LEMMA OutStays ==
  ASSUME Writing, Out, Logged, NEW bytes \in Seq(Sent), stream' = stream \o bytes,
         UNCHANGED <<sizes, cur, log>>,
         Len(stream') = Base + Before' + start' + refusals',
         state' = "NONE" => refusals' = 0,
         refusals' = 0 => \A j \in 1..(Before' + start') :
                            stream'[Base + j] = Whole(cur, sizes[cur])[j]
  PROVE  Out' /\ Logged'
<1>1. Base' = Base
  BY DEF Base
<1>2. Out'
  BY <1>1 DEF Out
<1>3. \A i \in DOMAIN log :
        /\ log[i].to \in 1..Len(stream') /\ log[i].from \in 1..log[i].to
        /\ log[i].refused = 0
             <=> SubSeq(stream', log[i].from, log[i].to) = Whole(i, sizes'[i])
  BY LogStays
<1>. QED
  BY <1>2, <1>3 DEF Logged, WholeUnlessRefused, Written

\* What has been put out since the first m bytes.
LEMMA Since ==
  ASSUME NEW s \in Seq(Sent), NEW m \in Nat, m < Len(s), NEW p, p = SubSeq(s, m + 1, Len(s))
  PROVE  /\ p \in Seq(Sent) /\ Len(p) = Len(s) - m
         /\ \A j \in 1..(Len(s) - m) : p[j] = s[m + j]
<1>1. \A i \in (m + 1)..Len(s) : s[i] \in Sent
  OBVIOUS
<1>2. m + 1 \in Int /\ Len(s) \in Int /\ m + 1 <= Len(s)
  OBVIOUS
<1>3. /\ p \in Seq(Sent) /\ Len(p) = Len(s) - (m + 1) + 1
      /\ \A i \in 1..(Len(s) - (m + 1) + 1) : p[i] = s[(m + 1) + i - 1]
  BY <1>1, <1>2, SubSeqProperties
<1>4. Len(s) - (m + 1) + 1 = Len(s) - m /\ \A j \in 1..(Len(s) - m) : (m + 1) + j - 1 = m + j
  BY <1>2
<1>. QED
  BY <1>3, <1>4

LEMMA NothingWritten ==
  ASSUME Writing
  PROVE  <<>> \in Seq(Sent) /\ stream = stream \o <<>>
  BY ConcatEmptySeq DEF Writing

\* A part or all of what is left is taken, and the packet goes on.
LEMMA OutWrites ==
  ASSUME Writing, Out, Logged, Queued, state # "NONE", NEW k \in 0..left,
         stream' = stream \o Bytes(k), UNCHANGED <<sizes, cur, log, refusals>>,
         state' # "NONE", start' \in Int, Before' + start' = Before + start + k
  PROVE  Out' /\ Logged'
<1>1. Bytes(k) \in Seq(Sent) /\ Len(Bytes(k)) = k
  BY BytesSent
<1>2. Len(stream') = Base + Before' + start' + refusals'
  <2>1. Len(stream') = Len(stream) + k
    BY <1>1, ConcatProperties DEF Writing
  <2>2. Before \in Int /\ Before' \in Int /\ start \in Int /\ refusals \in Int /\ Base \in Int
    BY RefusalsAssumption DEF Before, Writing, Position, Out
  <2>3. Len(stream) = Base + Before + start + refusals /\ refusals' = refusals
    BY DEF Out
  <2>4. left \in Int /\ k \in Int /\ start' \in Int
    BY DEF Writing, Position
  <2>5. Before' + start' = Before + start + k
    OBVIOUS
  <2>6. Len(stream') = Base + (Before + start + k) + refusals
    BY <2>1, <2>2, <2>3, <2>4
  <2>7. Len(stream') = Base + (Before' + start') + refusals'
    BY <2>3, <2>5, <2>6
  <2>. QED
    BY <2>2, <2>3, <2>4, <2>7
<1>3. refusals' = 0 => \A j \in 1..(Before' + start') :
                         stream'[Base + j] = Whole(cur, sizes[cur])[j]
  BY Appended
<1>. QED
  BY <1>1, <1>2, <1>3, OutStays

\* The last byte is taken: a packet with refused write()s has become longer.
LEMMA OutWhole ==
  ASSUME Writing, Out, Logged, WriteBody
  PROVE  Out' /\ Logged'
<1>. DEFINE W == Whole(cur, sizes[cur])
<1>1. Queued /\ state = "DATA_BODY" /\ stream' = stream \o Bytes(left) /\ Pop(stream')
  BY DEF WriteBody
<1>2. /\ left \in 1..left /\ left + start = Size /\ Before = 3 /\ start \in Int /\ Base \in Nat
      /\ refusals \in Nat /\ Len(stream) = Base + Before + start + refusals
      /\ stream \in Seq(Sent)
  BY <1>1, RefusalsAssumption DEF Writing, Position, Before, Out
<1>3. Size \in 3..17 /\ W \in Seq(Sent) /\ Len(W) = Size + 3
  BY <1>1, FrontSize, FrontWhole
<1>4. Bytes(left) \in Seq(Sent) /\ Len(Bytes(left)) = left
  BY <1>1, <1>2, BytesSent
<1>5. stream' \in Seq(Sent) /\ Len(stream') = Base + (Size + 3) + refusals
  <2>1. stream' \in Seq(Sent) /\ Len(stream') = Len(stream) + left
    BY <1>1, <1>2, <1>4, ConcatProperties
  <2>. QED
    BY <1>2, <1>3, <2>1
<1>. DEFINE P == SubSeq(stream', Base + 1, Len(stream'))
<1>6. /\ P \in Seq(Sent) /\ Len(P) = Size + 3 + refusals
      /\ \A j \in 1..(Size + 3 + refusals) : P[j] = stream'[Base + j]
  <2>1. Len(stream') - Base = Size + 3 + refusals /\ Base < Len(stream')
    BY <1>2, <1>3, <1>5
  <2>. QED
    BY <1>2, <1>5, <2>1, Since
<1>7. refusals = 0 => P = W
  <2>. SUFFICES ASSUME refusals = 0
                PROVE  P = W
    OBVIOUS
  <2>1. \A j \in 1..(Before + start + left) : stream'[Base + j] = W[j]
    <3>1. state # "NONE" /\ left \in 0..left
      BY <1>1, <1>2
    <3>. QED
      BY <1>1, <3>1, Appended
  <2>2. Before + start + left = Size + 3
    BY <1>2
  <2>. HIDE DEF P, W
  <2>. QED
    BY <1>3, <1>6, <2>1, <2>2, SeqEqual
<1>8. P = W => refusals = 0
  <2>. HIDE DEF P, W
  <2>. QED
    BY <1>2, <1>3, <1>6
<1>9. Base < Len(stream')
  BY <1>2, <1>3, <1>5
<1>. QED
  BY <1>1, <1>4, <1>7, <1>8, <1>9, OutPop

\* A part of just Size() bytes pops the packet too: then buf_start_ has been moved
\* back to before the buffer, and a byte from there is on the stream.
LEMMA OutEarly ==
  ASSUME Writing, Out, Logged, Queued, state # "NONE", NEW k \in 1..(left - 1), k = Size,
         stream' = stream \o Bytes(k), Pop(stream')
  PROVE  Out' /\ Logged'
<1>. DEFINE W == Whole(cur, sizes[cur])
            P == SubSeq(stream', Base + 1, Len(stream'))
            j == Before + start + refusals + 1
<1>1. Size \in 3..17 /\ W \in Seq(Sent) /\ Len(W) = Size + 3
      /\ \A i \in 1..(Size + 3) : W[i] # Stray
  BY FrontSize, FrontWhole
<1>2. /\ left \in Int /\ start \in Int /\ refusals \in Nat /\ Base \in Nat /\ Before \in 0..3
      /\ start >= -refusals /\ Len(stream) = Base + Before + start + refusals
      /\ stream \in Seq(Sent)
  BY RefusalsAssumption DEF Writing, Position, Before, Out
<1>3. start <= -1
  <2>1. CASE state = "DATA_LEN"
    BY <1>1, <1>2, <2>1 DEF Writing, Position
  <2>2. CASE state = "DATA_BODY"
    BY <1>1, <1>2, <2>2 DEF Writing, Position
  <2>. QED
    BY <2>1, <2>2 DEF Writing
<1>4. refusals # 0
  BY <1>2, <1>3
<1>5. Bytes(k) \in Seq(Sent) /\ Len(Bytes(k)) = k /\ Bytes(k)[1] = Stray
  <2>1. k \in 0..left /\ 1 \in 1..k /\ ~(start + 1 >= 1)
    BY <1>2, <1>3
  <2>2. Bytes(k)[1] = Stray
    BY <2>1 DEF Bytes, At
  <2>. QED
    BY <2>1, <2>2, BytesSent
<1>6. stream' \in Seq(Sent) /\ Len(stream') = Len(stream) + k /\ stream'[Len(stream) + 1] = Stray
  <2>1. Len(stream) + 1 \in 1..(Len(stream) + k) /\ ~(Len(stream) + 1 <= Len(stream))
        /\ Len(stream) + 1 - Len(stream) = 1
    BY <1>2
  <2>. DEFINE b == Bytes(k)
  <2>2. b \in Seq(Sent) /\ Len(b) = k /\ b[1] = Stray /\ stream' = stream \o b
    BY <1>5
  <2>. HIDE DEF b
  <2>3. /\ stream' \in Seq(Sent) /\ Len(stream') = Len(stream) + Len(b)
        /\ \A i \in 1..(Len(stream) + Len(b)) :
             stream'[i] = IF i <= Len(stream) THEN stream[i] ELSE b[i - Len(stream)]
    BY <1>2, <2>2, ConcatProperties
  <2>. QED
    BY <2>1, <2>2, <2>3
<1>7. j \in 1..(Len(stream') - Base) /\ Base + j = Len(stream) + 1 /\ Base < Len(stream')
  BY <1>2, <1>6
<1>. HIDE DEF j
<1>8. P \in Seq(Sent) /\ Len(P) = Len(stream') - Base /\ P[j] = Stray
  <2>1. /\ P \in Seq(Sent) /\ Len(P) = Len(stream') - Base
        /\ \A i \in 1..(Len(stream') - Base) : P[i] = stream'[Base + i]
    BY <1>2, <1>6, <1>7, Since
  <2>. HIDE DEF P
  <2>. QED
    BY <1>6, <1>7, <2>1
<1>9. P # W
  <2>. HIDE DEF P, W
  <2>. QED
    BY <1>1, <1>2, <1>6, <1>7, <1>8
<1>. QED
  BY <1>4, <1>5, <1>7, <1>9, OutPop

LEMMA OutStep == Writing /\ Out /\ Logged /\ [Write]_wvars => Out' /\ Logged'
<1>. SUFFICES ASSUME Writing, Out, Logged, [Write]_wvars
              PROVE  Out' /\ Logged'
  OBVIOUS
<1>1. CASE Format
  <2>1. UNCHANGED <<stream, sizes, cur, refusals, log>> /\ state = "NONE"
        /\ state' = "DATA_LEN" /\ start' = 0
    BY <1>1 DEF Format, FrontUnchanged
  <2>2. Before = 0 /\ start = 0 /\ Before' = 0
    BY <2>1 DEF Before, Writing, Position
  <2>3. Len(stream') = Base + Before' + start' + refusals'
    BY <2>1, <2>2 DEF Out
  <2>4. \A j \in 1..(Before' + start') : FALSE
    BY <2>1, <2>2
  <2>. QED
    BY <2>1, <2>3, <2>4, NothingWritten, OutStays
<1>2. CASE WritePart
  <2>1. PICK k \in 1..(left - 1) :
               /\ stream' = stream \o Bytes(k)
               /\ IF k = Size THEN Pop(stream') ELSE Advance(k)
    BY <1>2 DEF WritePart
  <2>2. Queued /\ state # "NONE"
    BY <1>2 DEF WritePart
  <2>3. CASE k = Size
    BY <2>1, <2>2, <2>3, OutEarly
  <2>4. CASE k # Size
    <3>1. UNCHANGED <<sizes, cur, log, refusals, state>> /\ start' = start + k
      BY <2>1, <2>4 DEF Advance, FrontUnchanged
    <3>2. k \in 0..left /\ start \in Int /\ k \in Int
      BY DEF Writing, Position
    <3>3. Before' = Before /\ Before \in Int
      BY <3>1 DEF Before
    <3>4. start' \in Int /\ Before' + start' = Before + start + k
      BY <3>1, <3>2, <3>3
    <3>. QED
      BY <2>1, <2>2, <3>1, <3>2, <3>4, OutWrites
  <2>. QED
    BY <2>3, <2>4
<1>3. CASE WriteHeader
  <2>1. /\ Queued /\ state = "DATA_LEN" /\ stream' = stream \o Bytes(left)
        /\ state' = "DATA_BODY" /\ start' = 0 /\ UNCHANGED <<sizes, cur, refusals, log>>
    BY <1>3 DEF WriteHeader, FrontUnchanged
  <2>2. left \in 0..left /\ left + start = 3 /\ Before = 0 /\ Before' = 3 /\ start \in Int
    BY <2>1 DEF Writing, Position, Before
  <2>3. Before' + start' = Before + start + left
    BY <2>1, <2>2
  <2>. QED
    BY <2>1, <2>2, <2>3, OutWrites
<1>4. CASE WriteBody
  BY <1>4, OutWhole
<1>5. CASE WriteRefused
  <2>1. /\ UNCHANGED <<stream, sizes, cur, state, log>> /\ state # "NONE"
        /\ start' = start - 1 /\ refusals' = refusals + 1
    BY <1>5 DEF WriteRefused
  <2>2. Before' = Before /\ Before \in Int /\ start \in Int /\ refusals \in Nat /\ Base \in Int
    BY <2>1, RefusalsAssumption DEF Before, Writing, Position, Out
  <2>3. Len(stream') = Base + Before' + start' + refusals' /\ refusals' # 0
    BY <2>1, <2>2 DEF Out
  <2>. QED
    BY <2>1, <2>3, NothingWritten, OutStays
<1>6. CASE UNCHANGED wvars
  <2>1. UNCHANGED <<stream, sizes, cur, state, start, refusals, log>>
    BY <1>6 DEF wvars, writer
  <2>. QED
    BY <2>1 DEF Out, Logged, Base, Before, WholeUnlessRefused, Written, Whole, Header, Body
<1>. QED
  BY <1>1, <1>2, <1>3, <1>4, <1>5, <1>6 DEF Write

\* A packet is on the stream byte for byte exactly if no write() for it returned -1,
\* for any number of packets and refusals and writes cut anywhere.
THEOREM WrittenWhole == Spec => []WholeUnlessRefused
<1>. DEFINE I == Writing /\ Reading /\ Out /\ Logged
<1>1. Init => I
  <2>. SUFFICES ASSUME Init
                PROVE  I
    OBVIOUS
  <2>1. /\ cur = 1 /\ state = "NONE" /\ start = 0 /\ stream = <<>> /\ refusals = 0 /\ log = <<>>
    BY DEF Init, WriterInit
  <2>2. Len(stream) = 0 /\ Len(log) = 0 /\ DOMAIN log = {}
    BY <2>1
  <2>3. Out
    BY <2>1, <2>2 DEF Out, Base, Before
  <2>4. Logged
    BY <2>1, <2>2 DEF Logged, WholeUnlessRefused
  <2>. QED
    BY <2>3, <2>4, BothInit
<1>2. I /\ [Step]_svars => I'
  <2>1. [Step]_svars => [Write]_wvars
    BY DEF Step, Arrives, Reads, PeerClose, svars
  <2>. QED
    BY <2>1, BothStep, OutStep
<1>3. I => WholeUnlessRefused
  BY DEF Logged
<1>. QED
  BY <1>1, <1>2, <1>3, PTL DEF Spec

-----------------------------------------------------------------------------
(* Pieces of a stream *)

\* The bytes are those of the stream s behind its first at bytes.
Lies(bytes, at, s) ==
  /\ at \in Nat /\ at + Len(bytes) <= Len(s)
  /\ \A j \in 1..Len(bytes) : bytes[j] = s[at + j]

LEMMA LiesOnMore ==
  ASSUME NEW s \in Seq(Sent), NEW t \in Seq(Sent), Len(s) <= Len(t),
         \A j \in 1..Len(s) : t[j] = s[j],
         NEW b \in Seq(Sent), NEW at, Lies(b, at, s)
  PROVE  Lies(b, at, t)
<1>1. at \in Nat /\ at + Len(b) <= Len(s) /\ Len(b) \in Nat
  BY DEF Lies
<1>2. \A j \in 1..Len(b) : at + j \in 1..Len(s)
  BY <1>1
<1>. QED
  BY <1>1, <1>2 DEF Lies

LEMMA LiesJoined ==
  ASSUME NEW s \in Seq(Sent), NEW b \in Seq(Sent), NEW c \in Seq(Sent), NEW at,
         Lies(b, at, s), Lies(c, at + Len(b), s)
  PROVE  Lies(b \o c, at, s)
<1>. DEFINE u == b \o c
<1>1. at \in Nat /\ Len(b) \in Nat /\ Len(c) \in Nat
  BY DEF Lies
<1>2. /\ Len(u) = Len(b) + Len(c)
      /\ \A i \in 1..(Len(b) + Len(c)) :
           u[i] = IF i <= Len(b) THEN b[i] ELSE c[i - Len(b)]
  BY ConcatProperties
<1>. HIDE DEF u
<1>3. ASSUME NEW i \in 1..Len(u)
      PROVE  u[i] = s[at + i]
  <2>1. CASE i <= Len(b)
    <3>1. i \in 1..Len(b) /\ u[i] = b[i]
      BY <1>1, <1>2, <2>1
    <3>. QED
      BY <3>1 DEF Lies
  <2>2. CASE ~(i <= Len(b))
    <3>1. i - Len(b) \in 1..Len(c) /\ u[i] = c[i - Len(b)]
          /\ (at + Len(b)) + (i - Len(b)) = at + i
      BY <1>1, <1>2, <2>2
    <3>. QED
      BY <3>1 DEF Lies
  <2>. QED
    BY <2>1, <2>2
<1>4. at + Len(u) <= Len(s)
  BY <1>1, <1>2 DEF Lies
<1>. QED
  BY <1>1, <1>3, <1>4 DEF Lies, u

LEMMA LiesCut ==
  ASSUME NEW s \in Seq(Sent), NEW b \in Seq(Sent), NEW at, Lies(b, at, s),
         NEW k \in 0..Len(b)
  PROVE  /\ SubSeq(b, 1, k) \in Seq(Sent) /\ Len(SubSeq(b, 1, k)) = k
         /\ Lies(SubSeq(b, 1, k), at, s)
         /\ Lies(Drop(b, k), at + k, s)
<1>. DEFINE c == SubSeq(b, 1, k)
            d == Drop(b, k)
<1>1. at \in Nat /\ Len(b) \in Nat /\ at + Len(b) <= Len(s)
      /\ \A j \in 1..Len(b) : b[j] = s[at + j]
  BY DEF Lies
<1>2. c \in Seq(Sent) /\ Len(c) = k /\ \A j \in 1..k : c[j] = b[j]
  BY SubSeqProperties
<1>3. Len(d) = Len(b) - k /\ \A j \in 1..(Len(b) - k) : d[j] = b[k + j]
  <2>1. k + 1 \in Int /\ Len(b) \in Int /\ \A i \in (k + 1)..Len(b) : b[i] \in Sent
    BY <1>1
  <2>2. /\ Len(d) = IF k + 1 <= Len(b) THEN Len(b) - (k + 1) + 1 ELSE 0
        /\ \A j \in 1..(Len(b) - (k + 1) + 1) : d[j] = b[(k + 1) + j - 1]
    BY <2>1, SubSeqProperties DEF Drop
  <2>. HIDE DEF d
  <2>. QED
    BY <1>1, <2>2
<1>. HIDE DEF c, d
<1>4. Lies(c, at, s)
  <2>1. \A j \in 1..Len(c) : j \in 1..Len(b) /\ c[j] = b[j]
    BY <1>1, <1>2
  <2>2. at + Len(c) <= Len(s)
    BY <1>1, <1>2
  <2>. QED
    BY <1>1, <2>1, <2>2 DEF Lies
<1>5. Lies(d, at + k, s)
  <2>1. ASSUME NEW j \in 1..Len(d)
        PROVE  d[j] = s[(at + k) + j]
    <3>1. k + j \in 1..Len(b) /\ at + (k + j) = (at + k) + j
      BY <1>1, <1>3
    <3>. QED
      BY <1>1, <1>3, <3>1
  <2>. QED
    BY <1>1, <1>3, <2>1 DEF Lies
<1>. QED
  BY <1>2, <1>4, <1>5 DEF c, d

-----------------------------------------------------------------------------
(* Where the packets lie on the stream *)

\* Packet k follows the first Start(k) bytes of the stream.
Start(k) == IF k = 1 THEN 0 ELSE log[k - 1].to

\* The packets lie on the stream one after the other.
Chained == \A i \in DOMAIN log : log[i].from = Start(i) + 1

\* A step of the writer adds to the stream and may add its front packet to the log.
LEMMA WriterMoves ==
  ASSUME Writing, Logged, Write
  PROVE  /\ sizes' = sizes /\ stream' \in Seq(Sent) /\ Len(stream) <= Len(stream')
         /\ \A j \in 1..Len(stream) : stream'[j] = stream[j]
         /\ \/ UNCHANGED <<cur, log>> /\ refusals' \in {refusals, refusals + 1}
            \/ Queued /\ Pop(stream')
<1>0. stream \in Seq(Sent) /\ refusals \in Nat
  BY RefusalsAssumption DEF Writing
<1>1. CASE Format \/ WriteRefused
  BY <1>0, <1>1 DEF Format, WriteRefused, FrontUnchanged
<1>2. CASE WritePart \/ WriteHeader \/ WriteBody
  <2>1. left \in Nat /\ Queued /\ state # "NONE"
    BY <1>2 DEF WritePart, WriteHeader, WriteBody, Writing, Position
  <2>2. PICK k \in 0..left : stream' = stream \o Bytes(k)
    BY <1>2, <2>1 DEF WritePart, WriteHeader, WriteBody
  <2>3. Bytes(k) \in Seq(Sent) /\ Len(Bytes(k)) = k
    BY <2>1, BytesSent
  <2>4. /\ stream' \in Seq(Sent) /\ Len(stream) <= Len(stream')
        /\ \A j \in 1..Len(stream) : stream'[j] = stream[j]
    <3>. DEFINE b == Bytes(k)
    <3>1. b \in Seq(Sent) /\ stream' = stream \o b
      BY <2>2, <2>3
    <3>. HIDE DEF b
    <3>2. stream' \in Seq(Sent) /\ Len(stream') = Len(stream) + Len(b)
          /\ \A j \in 1..Len(stream) : stream'[j] = stream[j]
      BY <1>0, <3>1, Joined
    <3>. QED
      BY <1>0, <3>1, <3>2
  <2>5. sizes' = sizes /\ (UNCHANGED <<cur, log, refusals>> \/ Pop(stream'))
    BY <1>2 DEF WritePart, WriteHeader, WriteBody, Advance, FrontUnchanged, Pop
  <2>. QED
    BY <1>0, <2>1, <2>4, <2>5
<1>. QED
  BY <1>1, <1>2 DEF Write

LEMMA PopLogs ==
  ASSUME Writing, Out, Logged, Queued, Pop(stream'), stream' \in Seq(Sent)
  PROVE  /\ Len(log) = cur - 1 /\ cur \in Packets
         /\ DOMAIN log = 1..(cur - 1) /\ DOMAIN log' = 1..cur /\ Len(log') = cur
         /\ \A i \in DOMAIN log : log'[i] = log[i]
         /\ log'[cur] = [from |-> Base + 1, to |-> Len(stream'), refused |-> refusals]
<1>. DEFINE d == [from |-> Base + 1, to |-> Len(stream'), refused |-> refusals]
            Entry == [from : Nat, to : Nat, refused : Nat]
<1>1. cur \in Packets /\ cur \in Nat /\ Len(log) = cur - 1 /\ log \in Seq(Entry)
  BY FrontSize DEF Writing, Logged, Packets
<1>2. d \in Entry
  BY RefusalsAssumption DEF Writing, Out
<1>3. log' = Append(log, d)
  <2>1. Base + 1 = IF log = <<>> THEN 1 ELSE log[Len(log)].to + 1
    BY DEF Base
  <2>. QED
    BY <2>1 DEF Pop
<1>. HIDE DEF d, Entry
<1>4. /\ Len(log') = Len(log) + 1 /\ log' \in Seq(Entry)
      /\ \A i \in 1..Len(log) : log'[i] = log[i]
      /\ log'[Len(log) + 1] = d
  BY <1>1, <1>2, <1>3, AppendProperties
<1>. QED
  BY <1>1, <1>4 DEF d

\* The packets written before stay where they are.
LEMMA StartStays ==
  ASSUME Writing, Out, Logged, Write, NEW k \in 1..cur
  PROVE  Start(k)' = Start(k)
<1>1. CASE log' = log
  BY <1>1 DEF Start
<1>2. CASE Queued /\ Pop(stream')
  <2>1. stream' \in Seq(Sent)
    BY WriterMoves
  <2>2. DOMAIN log = 1..(cur - 1) /\ cur \in Nat /\ \A i \in DOMAIN log : log'[i] = log[i]
    BY <1>2, <2>1, PopLogs DEF Packets
  <2>3. CASE k = 1
    BY <2>3 DEF Start
  <2>4. CASE k # 1
    <3>1. k - 1 \in DOMAIN log
      BY <2>2, <2>4
    <3>. QED
      BY <2>2, <2>4, <3>1 DEF Start
  <2>. QED
    BY <2>3, <2>4
<1>. QED
  BY <1>1, <1>2, WriterMoves

LEMMA ChainedStep == Writing /\ Out /\ Logged /\ Chained /\ [Write]_wvars => Chained'
<1>. SUFFICES ASSUME Writing, Out, Logged, Chained, [Write]_wvars
              PROVE  Chained'
  OBVIOUS
<1>1. CASE log' = log
  BY <1>1 DEF Chained, Start
<1>2. CASE Write /\ Queued /\ Pop(stream')
  <2>1. stream' \in Seq(Sent)
    BY <1>2, WriterMoves
  <2>2. /\ Len(log) = cur - 1 /\ cur \in Packets
        /\ DOMAIN log = 1..(cur - 1) /\ DOMAIN log' = 1..cur
        /\ \A i \in DOMAIN log : log'[i] = log[i]
        /\ log'[cur] = [from |-> Base + 1, to |-> Len(stream'), refused |-> refusals]
    BY <1>2, <2>1, PopLogs
  <2>3. cur \in Nat /\ cur \in 1..cur
    BY <2>2 DEF Packets
  <2>4. ASSUME NEW i \in DOMAIN log'
        PROVE  log'[i].from = Start(i)' + 1
    <3>1. i \in 1..cur /\ Start(i)' = Start(i)
      BY <1>2, <2>2, StartStays
    <3>2. CASE i = cur
      <4>1. Start(cur) = Base
        <5>1. CASE cur = 1
          <6>1. log = <<>>
            BY <2>2, <5>1 DEF Writing
          <6>. QED
            BY <5>1, <6>1 DEF Start, Base
        <5>2. CASE cur # 1
          <6>1. log # <<>> /\ Len(log) = cur - 1
            BY <2>2, <2>3, <5>2
          <6>. QED
            BY <5>2, <6>1 DEF Start, Base
        <5>. QED
          BY <5>1, <5>2
      <4>. QED
        BY <2>2, <3>1, <3>2, <4>1
    <3>3. CASE i # cur
      <4>1. i \in DOMAIN log
        BY <2>2, <2>3, <3>1, <3>3
      <4>. QED
        BY <2>2, <3>1, <4>1 DEF Chained
    <3>. QED
      BY <3>2, <3>3
  <2>. QED
    BY <2>4 DEF Chained, Start
<1>3. log' = log \/ (Write /\ Queued /\ Pop(stream'))
  BY WriterMoves DEF wvars, writer
<1>. QED
  BY <1>1, <1>2, <1>3

LEMMA GarbledStays == Writing /\ Out /\ Logged /\ Garbled /\ [Write]_wvars => Garbled'
<1>. SUFFICES ASSUME Writing, Out, Logged, Garbled, [Write]_wvars
              PROVE  Garbled'
  OBVIOUS
<1>1. CASE log' = log /\ refusals' \in {refusals, refusals + 1}
  BY <1>1, RefusalsAssumption DEF Garbled, Writing
<1>2. CASE Write /\ Queued /\ Pop(stream')
  <2>1. stream' \in Seq(Sent)
    BY <1>2, WriterMoves
  <2>2. /\ cur \in Packets
        /\ DOMAIN log = 1..(cur - 1) /\ DOMAIN log' = 1..cur
        /\ \A i \in DOMAIN log : log'[i] = log[i]
        /\ log'[cur].refused = refusals
    BY <1>2, <2>1, PopLogs
  <2>3. CASE refusals > 0
    <3>1. cur \in DOMAIN log'
      BY <2>2 DEF Packets
    <3>. QED
      BY <2>2, <2>3, <3>1 DEF Garbled
  <2>4. CASE \E i \in DOMAIN log : log[i].refused > 0
    <3>1. PICK i \in DOMAIN log : log[i].refused > 0
      BY <2>4
    <3>2. i \in DOMAIN log'
      BY <2>2 DEF Packets
    <3>. QED
      BY <2>2, <3>1, <3>2 DEF Garbled
  <2>. QED
    BY <2>3, <2>4 DEF Garbled
<1>3. (log' = log /\ refusals' \in {refusals, refusals + 1}) \/ (Write /\ Queued /\ Pop(stream'))
  <2>1. UNCHANGED wvars => log' = log /\ refusals' \in {refusals, refusals + 1}
    BY RefusalsAssumption DEF wvars, writer, Writing
  <2>. QED
    BY <2>1, WriterMoves
<1>. QED
  BY <1>1, <1>2, <1>3

\* A packet of the log lies whole between its start and the next one's.
LEMMA LoggedLies ==
  ASSUME Writing, Logged, Chained, ~Garbled, NEW k \in DOMAIN log
  PROVE  /\ k \in Packets /\ sizes[k] \in 1..15 /\ Start(k) \in Nat
         /\ Start(k + 1) = Start(k) + (sizes[k] + 5) /\ Start(k + 1) <= Len(stream)
         /\ \A j \in 1..(sizes[k] + 5) : stream[Start(k) + j] = Whole(k, sizes[k])[j]
<1>. DEFINE W == Whole(k, sizes[k])
            d == log[k]
<1>1. /\ DOMAIN log = 1..(cur - 1) /\ cur \in 1..(NumPackets + 1)
      /\ stream \in Seq(Sent) /\ Len(stream) \in Nat /\ NumPackets \in Nat
  BY FormatAssumption DEF Writing, Logged
<1>2. k \in Packets /\ k \in Nat /\ k >= 1 /\ sizes[k] \in 1..15 /\ sizes[k] \in Nat
  <2>1. k \in 1..(cur - 1) /\ cur \in Int /\ cur <= NumPackets + 1
    BY <1>1
  <2>2. k \in 1..NumPackets
    BY <1>1, <2>1
  <2>3. sizes[k] \in Lengths
    BY <2>2 DEF Writing, Packets
  <2>4. sizes[k] \in 1..15
    BY <2>3, FormatAssumption
  <2>5. k \in Nat /\ k >= 1
    BY <1>1, <2>2
  <2>. QED
    BY <2>2, <2>4, <2>5 DEF Packets
<1>3. d.to \in 1..Len(stream) /\ d.from \in 1..d.to /\ d.from = Start(k) + 1
  BY DEF Logged, Chained
<1>4. d.refused = 0
  <2>1. log \in Seq([from : Nat, to : Nat, refused : Nat]) /\ k \in 1..Len(log)
    BY DEF Writing
  <2>2. d \in [from : Nat, to : Nat, refused : Nat]
    BY <2>1, ElementOfSeq
  <2>3. d.refused \in Nat /\ ~(d.refused > 0)
    BY <2>2 DEF Garbled
  <2>. QED
    BY <2>3
<1>5. SubSeq(stream, d.from, d.to) = W
  BY <1>4 DEF Logged, WholeUnlessRefused, Written
<1>6. Start(k) \in Nat /\ Start(k + 1) = d.to
  <2>1. Start(k) + 1 \in 1..d.to
    BY <1>3
  <2>2. Start(k) \in Nat
    <3>1. CASE k = 1
      BY <3>1 DEF Start
    <3>2. CASE k # 1
      <4>1. k - 1 \in DOMAIN log
        <5>1. k \in 1..(cur - 1) /\ cur \in Int
          BY <1>1
        <5>2. k - 1 \in 1..(cur - 1)
          BY <3>2, <5>1
        <5>. QED
          BY <1>1, <5>2
      <4>2. log[k - 1].to \in 1..Len(stream)
        BY <4>1 DEF Logged
      <4>. QED
        BY <1>1, <3>2, <4>2 DEF Start
    <3>. QED
      BY <3>1, <3>2
  <2>3. k + 1 # 1 /\ (k + 1) - 1 = k
    BY <1>2
  <2>. QED
    BY <2>2, <2>3 DEF Start
<1>7. W \in Seq(Sent) /\ Len(W) = sizes[k] + 5
  <2>1. k \in Int /\ sizes[k] \in 1..15
    BY <1>2
  <2>. QED
    BY <2>1, WholeBytes
<1>. HIDE DEF W, d
<1>8. /\ Len(SubSeq(stream, d.from, d.to)) = d.to - d.from + 1
      /\ \A j \in 1..(d.to - d.from + 1) :
           SubSeq(stream, d.from, d.to)[j] = stream[d.from + j - 1]
  <2>1. \A i \in d.from..d.to : stream[i] \in Sent
    BY <1>1, <1>3
  <2>. QED
    BY <1>3, <2>1, SubSeqProperties
<1>9. d.to - d.from + 1 = sizes[k] + 5
  BY <1>5, <1>7, <1>8
<1>10. d.to = Start(k) + (sizes[k] + 5)
  <2>. DEFINE x == d.to
              y == Start(k)
              z == sizes[k]
  <2>1. x \in Int /\ y \in Int /\ z \in Int /\ x - (y + 1) + 1 = z + 5
    BY <1>1, <1>2, <1>3, <1>6, <1>9
  <2>. HIDE DEF x, y, z
  <2>2. x = y + (z + 5)
    BY <2>1
  <2>. QED
    BY <2>2 DEF x, y, z
<1>11. ASSUME NEW j \in 1..(sizes[k] + 5)
       PROVE  stream[Start(k) + j] = W[j]
  <2>1. d.from + j - 1 = Start(k) + j
    BY <1>3, <1>6
  <2>. QED
    BY <1>5, <1>8, <1>9, <2>1
<1>. QED
  BY <1>1, <1>2, <1>3, <1>6, <1>10, <1>11 DEF W

\* What lies behind the last one of the log is a part of the front packet.
LEMMA FrontLies ==
  ASSUME Writing, Out, Logged, ~Garbled
  PROVE  /\ Start(cur) \in 0..Len(stream)
         /\ Start(cur) < Len(stream) => Queued
         /\ Queued => Len(stream) < Start(cur) + (sizes[cur] + 5)
         /\ Queued => \A j \in 1..(Len(stream) - Start(cur)) :
                        stream[Start(cur) + j] = Whole(cur, sizes[cur])[j]
<1>1. cur \in Nat /\ Len(log) = cur - 1 /\ log \in Seq([from : Nat, to : Nat, refused : Nat])
  BY FormatAssumption DEF Writing, Logged
<1>2. Start(cur) = Base
  <2>1. CASE cur = 1
    BY <1>1, <2>1 DEF Start, Base
  <2>2. CASE cur # 1
    <3>1. log # <<>>
      BY <1>1, <2>2
    <3>. QED
      BY <1>1, <2>2, <3>1 DEF Start, Base
  <2>. QED
    BY <2>1, <2>2
<1>3. refusals = 0
  BY RefusalsAssumption DEF Garbled, Writing
<1>4. /\ Base \in Nat /\ start \in Nat /\ left \in Int /\ Before \in {0, 3}
      /\ Len(stream) = Base + Before + start
  BY <1>3 DEF Writing, Position, Out, Before
<1>5. Queued => Before + start < sizes[cur] + 5
  <2>. SUFFICES ASSUME Queued
                PROVE  Before + start < sizes[cur] + 5
    OBVIOUS
  <2>1. sizes[cur] \in 1..15 /\ Size = sizes[cur] + 2 /\ sizes[cur] \in Nat
        /\ Size \in Nat
    BY FrontSize DEF Size
  <2>2. CASE state = "NONE"
    <3>1. Before = 0 /\ start = 0
      BY <2>2 DEF Before, Writing, Position
    <3>. QED
      BY <2>1, <3>1
  <2>3. CASE state = "DATA_LEN"
    <3>1. Before = 0 /\ left + start = 3 /\ left >= 1
      BY <2>3 DEF Before, Writing, Position
    <3>. QED
      BY <1>4, <2>1, <3>1
  <2>4. CASE state = "DATA_BODY"
    <3>1. Before = 3 /\ left + start = Size /\ left >= 1
      BY <2>4 DEF Before, Writing, Position
    <3>2. start < Size
      BY <1>4, <2>1, <3>1
    <3>. QED
      BY <1>4, <2>1, <3>1, <3>2
  <2>. QED
    BY <2>2, <2>3, <2>4 DEF Writing
<1>6. Base < Len(stream) => Queued
  <2>1. state = "NONE" => Before = 0 /\ start = 0
    BY DEF Before, Writing, Position
  <2>2. state = "NONE" => ~(Base < Len(stream))
    BY <1>4, <2>1
  <2>3. state # "NONE" => Queued
    BY DEF Writing, Position
  <2>. QED
    BY <2>2, <2>3
<1>7. Queued => Len(stream) < Base + (sizes[cur] + 5)
  <2>. SUFFICES ASSUME Queued
                PROVE  Len(stream) < Base + (sizes[cur] + 5)
    OBVIOUS
  <2>1. sizes[cur] \in Nat
    BY FrontSize
  <2>. DEFINE x == sizes[cur] + 5
              y == Before + start
  <2>2. x \in Nat /\ y \in Nat /\ y < x /\ Len(stream) = Base + y
    BY <1>4, <1>5, <2>1
  <2>. HIDE DEF x, y
  <2>3. Len(stream) < Base + x
    BY <1>4, <2>2
  <2>. QED
    BY <2>3 DEF x
<1>8. Len(stream) - Base = Before + start
  BY <1>4
<1>9. \A j \in 1..(Len(stream) - Base) : stream[Base + j] = Whole(cur, sizes[cur])[j]
  BY <1>3, <1>8 DEF Out
<1>. QED
  BY <1>2, <1>4, <1>6, <1>7, <1>9

\* Both together, for the packet that a reader may be at.
LEMMA PacketLies ==
  ASSUME Writing, Out, Logged, Chained, ~Garbled, NEW k \in 1..cur
  PROVE  /\ k \in Nat /\ Start(k) \in 0..Len(stream)
         /\ Start(k) < Len(stream) => k \in Packets
         /\ k \in Packets =>
              /\ sizes[k] \in 1..15
              /\ k \in DOMAIN log <=> Start(k) + (sizes[k] + 5) <= Len(stream)
              /\ \A j \in 1..(sizes[k] + 5) :
                   Start(k) + j <= Len(stream) =>
                     stream[Start(k) + j] = Whole(k, sizes[k])[j]
         /\ k \in DOMAIN log =>
              k \in Packets /\ k + 1 \in 1..cur /\ Start(k + 1) = Start(k) + (sizes[k] + 5)
<1>1. /\ DOMAIN log = 1..(cur - 1) /\ cur \in Nat /\ k \in Nat
      /\ stream \in Seq(Sent) /\ Len(stream) \in Nat
  BY FormatAssumption DEF Writing, Logged
<1>2. CASE k \in DOMAIN log
  <2>1. /\ k \in Packets /\ sizes[k] \in 1..15 /\ Start(k) \in Nat
        /\ Start(k + 1) = Start(k) + (sizes[k] + 5) /\ Start(k + 1) <= Len(stream)
        /\ \A j \in 1..(sizes[k] + 5) : stream[Start(k) + j] = Whole(k, sizes[k])[j]
    BY <1>2, LoggedLies
  <2>. DEFINE x == Start(k)
              y == Start(k + 1)
  <2>2. Start(k) \in 0..Len(stream)
    <3>. DEFINE z == sizes[k] + 5
    <3>0. z \in Nat
      <4>1. sizes[k] \in 1..15
        BY <2>1, Zenon
      <4>. QED
        BY <4>1
    <3>1. x \in Nat /\ y = x + z /\ y <= Len(stream)
      BY <2>1, Zenon
    <3>. HIDE DEF x, y, z
    <3>2. x \in 0..Len(stream)
      BY <1>1, <3>0, <3>1
    <3>. QED
      BY <3>2 DEF x
  <2>3. k + 1 \in 1..cur
    BY <1>1, <1>2
  <2>. QED
    BY <1>1, <1>2, <2>1, <2>2, <2>3
<1>3. CASE k \notin DOMAIN log
  <2>1. k = cur
    BY <1>1, <1>3
  <2>2. /\ Start(k) \in 0..Len(stream)
        /\ Start(k) < Len(stream) => Queued
        /\ Queued => Len(stream) < Start(k) + (sizes[k] + 5)
        /\ Queued => \A j \in 1..(Len(stream) - Start(k)) :
                       stream[Start(k) + j] = Whole(k, sizes[k])[j]
    BY <2>1, FrontLies
  <2>3. /\ Queued => k \in Packets /\ sizes[k] \in 1..15
        /\ k \in Packets => Queued
    BY <2>1, FrontSize DEF Queued, Packets
  <2>4. Queued => \A j \in 1..(sizes[k] + 5) :
                    Start(k) + j <= Len(stream) =>
                      stream[Start(k) + j] = Whole(k, sizes[k])[j]
    <3>. SUFFICES ASSUME Queued, NEW j \in 1..(sizes[k] + 5), Start(k) + j <= Len(stream)
                  PROVE  stream[Start(k) + j] = Whole(k, sizes[k])[j]
      OBVIOUS
    <3>1. j \in 1..(Len(stream) - Start(k))
      BY <1>1, <2>2, <2>3
    <3>. QED
      BY <2>2, <3>1
  <2>5. Queued => ~(Start(k) + (sizes[k] + 5) <= Len(stream))
    <3>. DEFINE x == Start(k) + (sizes[k] + 5)
    <3>1. Queued => Len(stream) < x
      BY <2>2
    <3>3. Queued => x \in Int
      <4>1. Queued => sizes[k] + 5 \in Int
        BY <2>3
      <4>2. Start(k) \in Int
        BY <2>2
      <4>. QED
        BY <4>1, <4>2
    <3>. HIDE DEF x
    <3>2. Queued => ~(x <= Len(stream))
      BY <1>1, <3>1, <3>3
    <3>. QED
      BY <3>2 DEF x
  <2>. QED
    BY <1>1, <1>3, <2>2, <2>3, <2>4, <2>5
<1>. QED
  BY <1>2, <1>3

-----------------------------------------------------------------------------
(* What Packet::Read makes of the pieces *)

\* ReadLine finds a line in what follows a packet exactly if the whole header is
\* there, and strtol gives the length that snprintf wrote.
LEMMA HeaderThere ==
  ASSUME Writing, Out, Logged, Chained, ~Garbled, NEW k \in 1..cur,
         NEW b \in Seq(Sent), Lies(b, Start(k), stream)
  PROVE  /\ HasLine(b) <=> Len(b) >= 3
         /\ HasLine(b) => k \in Packets /\ FindCRLF(b) = 2 /\ LineValue(b) = sizes[k]
<1>. DEFINE n == sizes[k]
            h == Header(n)
<1>1. /\ Start(k) \in Nat /\ Len(b) \in Nat /\ Len(stream) \in Nat
      /\ Start(k) + Len(b) <= Len(stream)
      /\ \A j \in 1..Len(b) : b[j] = stream[Start(k) + j]
  BY DEF Lies, Writing
<1>2. /\ Start(k) < Len(stream) => k \in Packets
      /\ k \in Packets =>
           /\ n \in 1..15
           /\ \A j \in 1..(n + 5) :
                Start(k) + j <= Len(stream) => stream[Start(k) + j] = Whole(k, n)[j]
  BY PacketLies
<1>3. Len(b) >= 1 => k \in Packets
  <2>1. Len(b) >= 1 => Start(k) < Len(stream)
    BY <1>1
  <2>. QED
    BY <1>2, <2>1
<1>4. ASSUME NEW j \in 1..3, j <= Len(b)
      PROVE  b[j] = h[j]
  <2>1. j \in 1..Len(b) /\ Start(k) + j <= Len(stream) /\ Len(b) >= 1
    BY <1>1, <1>4
  <2>2. k \in Packets /\ n \in 1..15
    BY <1>2, <1>3, <2>1
  <2>3. j \in 1..(n + 5)
    BY <2>2
  <2>4. b[j] = Whole(k, n)[j]
    BY <1>1, <1>2, <2>1, <2>2, <2>3
  <2>5. k \in Int
    BY <2>2 DEF Packets
  <2>. QED
    BY <2>2, <2>4, <2>5, WholeBytes
<1>5. h[1] # CR /\ h[2] = CR /\ h[3] = LF /\ h[1].b = "len" /\ h[1].v = n
  BY DEF Header, CR
<1>. HIDE DEF n, h
<1>6. 1 \notin Lines(b)
  <2>1. Len(b) >= 1 => b[1] = h[1]
    BY <1>4
  <2>. QED
    BY <1>1, <1>5, <2>1 DEF Lines
<1>7. CASE Len(b) >= 3
  <2>1. b[1] = h[1] /\ b[2] = h[2] /\ b[3] = h[3]
    BY <1>1, <1>4, <1>7
  <2>2. 2 \in Lines(b)
    <3>1. 2 \in 1..(Len(b) - 1) /\ b[2] = CR /\ b[2 + 1] = LF
      BY <1>1, <1>5, <1>7, <2>1
    <3>. QED
      BY <3>1 DEF Lines
  <2>3. Lines(b) \subseteq Nat /\ \A i \in Lines(b) : i >= 1
    BY <1>1 DEF Lines
  <2>4. Min(Lines(b)) \in Lines(b) /\ \A x \in Lines(b) : Min(Lines(b)) <= x
    BY <2>2, <2>3, MinOfNaturals
  <2>. DEFINE m == Min(Lines(b))
  <2>5. m \in Nat /\ m >= 1 /\ m <= 2 /\ m # 1
    BY <1>6, <2>2, <2>3, <2>4
  <2>. HIDE DEF m
  <2>6. m = 2
    BY <2>5
  <2>7. k \in Packets
    BY <1>1, <1>3, <1>7
  <2>8. LineValue(b) = n
    BY <1>5, <2>1 DEF LineValue
  <2>. QED
    BY <1>7, <2>2, <2>6, <2>7, <2>8 DEF HasLine, FindCRLF, m, n
<1>8. CASE ~(Len(b) >= 3)
  <2>1. \A i \in Lines(b) : i = 1
    BY <1>1, <1>8 DEF Lines
  <2>2. Lines(b) = {}
    BY <1>6, <2>1
  <2>. QED
    BY <1>8, <2>2 DEF HasLine
<1>. QED
  BY <1>7, <1>8

\* When nothing is left to read, the content is the one that was written.
LEMMA BodyThere ==
  ASSUME Writing, Out, Logged, Chained, ~Garbled, NEW k \in 1..cur, k \in Packets,
         NEW c \in Seq(Sent), Lies(c, Start(k) + 3, stream), Len(c) = sizes[k] + 2
  PROVE  c = Body(k, sizes[k]) /\ k \in DOMAIN log
<1>. DEFINE n == sizes[k]
            d == Body(k, n)
<1>1. /\ Start(k) + 3 \in Nat /\ (Start(k) + 3) + Len(c) <= Len(stream)
      /\ \A j \in 1..Len(c) : c[j] = stream[(Start(k) + 3) + j]
  BY DEF Lies
<1>2. /\ Start(k) \in Nat /\ n \in 1..15 /\ k \in Int
      /\ k \in DOMAIN log <=> Start(k) + (n + 5) <= Len(stream)
      /\ \A j \in 1..(n + 5) :
           Start(k) + j <= Len(stream) => stream[Start(k) + j] = Whole(k, n)[j]
  BY PacketLies
<1>3. Start(k) \in Int /\ n \in Int /\ n \in Nat /\ Len(stream) \in Int
  <2>1. n \in 1..15 /\ Start(k) \in Nat
    BY <1>2, Zenon
  <2>2. Len(stream) \in Int
    BY DEF Writing
  <2>. HIDE DEF n
  <2>3. n \in Int /\ n \in Nat
    BY <2>1
  <2>4. Start(k) \in Int
    BY <2>1
  <2>. QED
    BY <2>2, <2>3, <2>4, Zenon
<1>4. Len(c) = n + 2
  OBVIOUS
<1>5. d \in Seq(Sent) /\ Len(d) = n + 2
  BY <1>2, <1>3, Bodies
<1>6. \A j \in 1..(n + 2) : Whole(k, n)[3 + j] = d[j]
  BY <1>2, WholeBytes
<1>. HIDE DEF n, d
<1>7. Start(k) + (n + 5) <= Len(stream)
  BY <1>1, <1>3, <1>4
<1>8. ASSUME NEW j \in 1..(n + 2)
      PROVE  c[j] = d[j]
  <2>1. /\ j \in 1..Len(c) /\ 3 + j \in 1..(n + 5) /\ (Start(k) + 3) + j = Start(k) + (3 + j)
        /\ Start(k) + (3 + j) <= Len(stream)
    BY <1>3, <1>4, <1>7
  <2>2. c[j] = stream[Start(k) + (3 + j)]
    BY <1>1, <2>1
  <2>3. stream[Start(k) + (3 + j)] = Whole(k, n)[3 + j]
    BY <1>2, <2>1
  <2>. QED
    BY <1>6, <2>2, <2>3
<1>9. c = d
  BY <1>4, <1>5, <1>8, SeqEqual
<1>. QED
  BY <1>2, <1>7, <1>9 DEF d, n

\* HandleRead cuts content_ at its first CR LF, which SetContent put at its end.
LEMMA BodyCut ==
  ASSUME NEW i \in Int, NEW n \in 1..15
  PROVE  /\ HasLine(Body(i, n)) /\ FindCRLF(Body(i, n)) = n + 1
         /\ SubSeq(Body(i, n), 1, n) = Content(i, n)
         /\ Content(i, n) \in Seq(Sent) /\ Content(i, n) # <<>>
<1>. DEFINE c == Content(i, n)
            e == <<CR, LF>>
            d == Body(i, n)
<1>1. c \in Seq(Sent) /\ Len(c) = n /\ \A j \in 1..n : c[j] # CR
  BY SentBytes DEF Content, CR, LF
<1>2. e \in Seq(Sent) /\ Len(e) = 2 /\ e[1] = CR /\ e[2] = LF
  BY SentBytes
<1>3. d = c \o e
  BY DEF Body
<1>. HIDE DEF c, d, e
<1>4. /\ d \in Seq(Sent) /\ Len(d) = n + 2
      /\ \A j \in 1..n : d[j] = c[j]
      /\ \A j \in 1..2 : d[n + j] = e[j]
  <2>1. /\ d \in Seq(Sent) /\ Len(d) = Len(c) + Len(e)
        /\ \A j \in 1..Len(c) : d[j] = c[j]
        /\ \A j \in 1..Len(e) : d[Len(c) + j] = e[j]
    <3>1. c \in Seq(Sent) /\ e \in Seq(Sent) /\ d = c \o e
      BY <1>1, <1>2, <1>3
    <3>. QED
      BY <3>1, Joined
  <2>. QED
    BY <1>1, <1>2, <2>1
<1>5. n + 1 \in Lines(d)
  <2>1. n + 1 \in 1..(Len(d) - 1) /\ d[n + 1] = CR /\ d[(n + 1) + 1] = LF
    <3>1. (n + 1) + 1 = n + 2 /\ 1 \in 1..2 /\ 2 \in 1..2
      OBVIOUS
    <3>. QED
      BY <1>2, <1>4, <3>1
  <2>. QED
    BY <2>1 DEF Lines
<1>6. \A j \in Lines(d) : j = n + 1
  <2>. SUFFICES ASSUME NEW j \in 1..(Len(d) - 1), d[j] = CR
                PROVE  j = n + 1
    BY DEF Lines
  <2>1. ~(j \in 1..n)
    BY <1>1, <1>4
  <2>. QED
    BY <1>4, <2>1
<1>7. Lines(d) = {n + 1}
  BY <1>5, <1>6
<1>8. Min(Lines(d)) = n + 1
  <2>1. {n + 1} \subseteq Nat /\ {n + 1} # {}
    OBVIOUS
  <2>2. Min({n + 1}) \in {n + 1}
    BY <2>1, MinOfNaturals
  <2>. QED
    BY <1>7, <2>2
<1>9. SubSeq(d, 1, n) = c
  <2>1. \A j \in 1..n : d[j] \in Sent
    BY <1>1, <1>4
  <2>2. /\ SubSeq(d, 1, n) \in Seq(Sent) /\ Len(SubSeq(d, 1, n)) = n
        /\ \A j \in 1..n : SubSeq(d, 1, n)[j] = d[j]
    BY <2>1, SubSeqProperties
  <2>3. \A j \in 1..n : SubSeq(d, 1, n)[j] = c[j]
    BY <1>4, <2>2
  <2>. QED
    BY <1>1, <2>2, <2>3, SeqEqual
<1>. QED
  BY <1>1, <1>5, <1>8, <1>9 DEF HasLine, FindCRLF, c, d

-----------------------------------------------------------------------------
(* What the reader makes of the stream *)

\* The packet that the reader is at, and how many bytes Packet has consumed.
Current  == Len(got) + 1
Consumed == taken - Len(held)

\* What is held is what follows the consumed bytes; these end with a packet handed
\* over, or with the header of the next and as much of its content as is there.
Follows ==
  /\ Len(got) <= Len(log) /\ Len(held) <= taken
  /\ Lies(held, Consumed, stream)
  /\ rstate = "RS_HEADER" => Consumed = Start(Current)
  /\ rstate = "RS_BODY" =>
       /\ Current \in Packets /\ Len(held) < BufSize
       /\ Consumed = (Start(Current) + 3) + Len(content)
       /\ rest + Len(content) = sizes[Current] + 2
       /\ Lies(content, Start(Current) + 3, stream)

LEMMA Situation ==
  ASSUME Writing, Reading, Logged, Follows
  PROVE  /\ Current \in 1..cur /\ Current \in Nat
         /\ Consumed \in Nat /\ Consumed + Len(held) = taken
         /\ held \in Seq(Sent) /\ Len(held) \in Nat /\ taken \in Nat
         /\ content \in Seq(Sent) /\ Len(content) \in Nat /\ rest \in 0..17
         /\ stream \in Seq(Sent) /\ Len(stream) \in Nat
<1>1. Len(got) \in Nat /\ Len(got) <= cur - 1 /\ cur \in Nat
  BY FormatAssumption DEF Writing, Reading, Logged, Follows
<1>2. Current \in 1..cur /\ Current \in Nat
  BY <1>1 DEF Current
<1>3. stream \in Seq(Sent) /\ Len(stream) \in Nat
  BY DEF Writing
<1>4. /\ held \in Seq(Sent) /\ Len(held) \in Nat /\ taken \in Nat
      /\ content \in Seq(Sent) /\ Len(content) \in Nat /\ rest \in 0..17
  BY <1>3 DEF Reading
<1>5. Consumed \in Nat
  BY DEF Follows, Lies
<1>6. Consumed + Len(held) = taken
  BY <1>4 DEF Consumed
<1>. QED
  BY <1>2, <1>3, <1>4, <1>5, <1>6

LEMMA ArrivedLies ==
  ASSUME stream \in Seq(Sent), Reading
  PROVE  Lies(Arrived, taken, stream)
<1>1. arrived \in 0..Len(stream) /\ taken \in 0..arrived /\ Len(stream) \in Nat
  BY DEF Reading
<1>2. arrived \in Nat /\ taken \in Nat /\ taken <= arrived /\ arrived <= Len(stream)
  BY <1>1
<1>3. \A i \in (taken + 1)..arrived : stream[i] \in Sent
  BY <1>2
<1>4. /\ Len(Arrived) = IF taken + 1 <= arrived THEN arrived - (taken + 1) + 1 ELSE 0
      /\ \A j \in 1..(arrived - (taken + 1) + 1) : Arrived[j] = stream[(taken + 1) + j - 1]
  BY <1>2, <1>3, SubSeqProperties DEF Arrived
<1>5. Len(Arrived) = arrived - taken
      /\ \A j \in 1..(arrived - taken) : Arrived[j] = stream[(taken + 1) + j - 1]
  BY <1>2, <1>4
<1>6. \A j \in 1..Len(Arrived) : (taken + 1) + j - 1 = taken + j
  BY <1>2, <1>5
<1>7. \A j \in 1..Len(Arrived) : Arrived[j] = stream[taken + j]
  BY <1>5, <1>6
<1>8. taken + Len(Arrived) <= Len(stream)
  BY <1>2, <1>5
<1>. QED
  BY <1>2, <1>7, <1>8 DEF Lies

\* read() returns what follows what is held.
LEMMA RefilledLies ==
  ASSUME Writing, Reading, Logged, Follows
  PROVE  /\ Lies(Refilled, Consumed, stream)
         /\ taken + (IF ReadResult > 0 THEN ReadResult ELSE 0) = Consumed + Len(Refilled)
<1>1. /\ Consumed \in Nat /\ Consumed + Len(held) = taken
      /\ held \in Seq(Sent) /\ Len(held) \in Nat /\ stream \in Seq(Sent)
  BY Situation
<1>2. ReadResult \in Int /\ (ReadResult > 0 => taken + ReadResult <= arrived)
  BY <1>1, Refill
<1>3. Lies(Arrived, taken, stream) /\ Arrived \in Seq(Sent) /\ Len(Arrived) = arrived - taken
  BY <1>1, ArrivedBytes, ArrivedLies
<1>4. Lies(held, Consumed, stream)
  BY DEF Follows
<1>5. CASE ReadResult > 0
  <2>. DEFINE c == SubSeq(Arrived, 1, ReadResult)
  <2>1. ReadResult \in 0..Len(Arrived)
    BY <1>1, <1>2, <1>3, <1>5 DEF Reading
  <2>2. c \in Seq(Sent) /\ Len(c) = ReadResult /\ Lies(c, taken, stream)
    BY <1>1, <1>3, <2>1, LiesCut
  <2>3. Refilled = held \o c
    BY <1>5 DEF Refilled
  <2>. HIDE DEF c
  <2>4. Lies(held \o c, Consumed, stream)
    BY <1>1, <1>4, <2>2, LiesJoined
  <2>5. Len(Refilled) = Len(held) + ReadResult
    BY <1>1, <2>2, <2>3, ConcatProperties
  <2>. QED
    BY <1>1, <1>2, <1>5, <2>3, <2>4, <2>5
<1>6. CASE ~(ReadResult > 0)
  BY <1>1, <1>4, <1>6 DEF Refilled
<1>. QED
  BY <1>5, <1>6

LEMMA LineUnderstood ==
  ASSUME Writing, Reading, Out, Logged, Chained, ~Garbled, Follows, rstate = "RS_HEADER",
         NEW b \in Seq(Sent), Lies(b, Consumed, stream), Len(b) <= BufSize, HasLine(b),
         NEW at, TakeLine(b, at), taken' = Consumed + Len(b),
         UNCHANGED <<got, sizes, stream, log>>
  PROVE  Follows'
<1>. DEFINE k == Current
            d == Drop(b, 3)
<1>1. /\ k \in 1..cur /\ Consumed \in Nat /\ stream \in Seq(Sent) /\ Len(stream) \in Nat
      /\ Len(b) \in Nat
  BY Situation
<1>2. Consumed = Start(k)
  BY DEF Follows
<1>3. Len(b) >= 3 /\ k \in Packets /\ FindCRLF(b) = 2 /\ LineValue(b) = sizes[k]
  BY <1>1, <1>2, HeaderThere
<1>4. held' = d /\ rest' = sizes[k] + 2 /\ rstate' = "RS_BODY" /\ content' = <<>>
  BY <1>3 DEF TakeLine
<1>5. Len(d) = Len(b) - 3 /\ Lies(d, Consumed + 3, stream)
  BY <1>1, <1>3, DropBytes, LiesCut
<1>6. Current' = k /\ Start(Current)' = Start(k)
  BY DEF Current, Start
<1>. HIDE DEF k, d
<1>7. Consumed' = Consumed + 3
  BY <1>1, <1>4, <1>5 DEF Consumed
<1>8. Lies(<<>>, Start(k) + 3, stream)
  BY <1>1, <1>2, <1>3 DEF Lies
<1>9. Len(held') < BufSize /\ Len(held') <= taken'
  BY <1>1, <1>3, <1>4, <1>5, BufferAssumption
<1>10. /\ Lies(held', Consumed', stream')
       /\ Consumed' = (Start(k) + 3) + Len(content')
       /\ rest' + Len(content') = sizes'[k] + 2
       /\ Lies(content', Start(k) + 3, stream')
  <2>1. sizes[k] \in Int
    <3>. DEFINE z == sizes[k]
    <3>1. z \in Lengths
      BY <1>3 DEF Writing
    <3>. HIDE DEF z
    <3>2. z \in Int
      BY <3>1, FormatAssumption
    <3>. QED
      BY <3>2 DEF z
  <2>. QED
    BY <1>1, <1>2, <1>4, <1>5, <1>7, <1>8, <2>1
<1>11. Len(got') <= Len(log')
  BY DEF Follows
<1>. QED
  BY <1>3, <1>4, <1>6, <1>9, <1>10, <1>11 DEF Follows

LEMMA BytesUnderstood ==
  ASSUME Writing, Reading, Out, Logged, Chained, ~Garbled, Follows, rstate = "RS_BODY",
         rest > 0, NEW b \in Seq(Sent), Lies(b, Consumed, stream), Len(b) <= BufSize,
         NEW at, TakeBytes(b, at), taken' = Consumed + Len(b),
         UNCHANGED <<got, sizes, stream, log>>
  PROVE  Follows'
<1>. DEFINE k == Current
            m == Min({rest, Len(b)})
            c == SubSeq(b, 1, m)
            d == Drop(b, m)
            z == sizes[k]
            s == Start(k) + 3
<1>1. /\ k \in 1..cur /\ Consumed \in Nat /\ stream \in Seq(Sent) /\ Len(stream) \in Nat
      /\ content \in Seq(Sent) /\ Len(content) \in Nat /\ rest \in 0..17 /\ Len(b) \in Nat
  BY Situation
<1>2. /\ k \in Packets /\ Consumed = s + Len(content)
      /\ rest + Len(content) = z + 2 /\ Lies(content, s, stream)
  BY DEF Follows
<1>3. m \in Nat /\ m <= rest /\ m <= Len(b) /\ (m = rest \/ m = Len(b))
  <2>1. rest \in Nat
    BY <1>1
  <2>2. {rest, Len(b)} \subseteq Nat /\ {rest, Len(b)} # {}
    BY <1>1, <2>1
  <2>3. m \in {rest, Len(b)} /\ \A x \in {rest, Len(b)} : m <= x
    BY <2>2, MinOfNaturals
  <2>. QED
    BY <1>1, <2>1, <2>3
<1>4. /\ content' = content \o c /\ held' = d /\ rest' = rest - m /\ rstate' = "RS_BODY"
  BY DEF TakeBytes
<1>5. Current' = k /\ Start(Current)' = Start(k)
  BY DEF Current, Start
<1>. HIDE DEF k, m, c, d, z
<1>6. m \in 0..Len(b)
  BY <1>1, <1>3
<1>7. /\ c \in Seq(Sent) /\ Len(c) = m
      /\ Lies(c, Consumed, stream) /\ Lies(d, Consumed + m, stream)
  BY <1>1, <1>6, LiesCut DEF c, d
<1>8. Len(d) = Len(b) - m
  BY <1>6, DropBytes DEF d
<1>9. Lies(content \o c, s, stream)
  <2>. HIDE DEF s
  <2>. QED
    BY <1>1, <1>2, <1>7, LiesJoined
<1>10. Len(content \o c) = Len(content) + m
  BY <1>1, <1>7, ConcatProperties
<1>11. Len(held') < BufSize /\ Len(held') <= taken'
  <2>1. rest \in Nat /\ BufSize \in Nat /\ BufSize > 0
    BY <1>1, BufferAssumption DEF Header
  <2>2. m > 0 \/ Len(b) = 0
    BY <1>1, <1>3, <2>1
  <2>. QED
    BY <1>1, <1>3, <1>4, <1>8, <2>1, <2>2
<1>12. Consumed' = Consumed + m
  BY <1>1, <1>3, <1>4, <1>8 DEF Consumed
<1>13. Consumed' = s + Len(content')
  <2>1. s \in Int
    BY <1>2 DEF Lies
  <2>. HIDE DEF s
  <2>. QED
    BY <1>1, <1>2, <1>3, <1>4, <1>10, <1>12, <2>1
<1>14. rest' + Len(content') = sizes'[k] + 2
  <2>1. rest' = rest - m /\ Len(content') = Len(content) + m /\ rest \in Int
    BY <1>1, <1>4, <1>10
  <2>2. rest' + Len(content') = rest + Len(content)
    BY <1>1, <1>3, <2>1
  <2>3. sizes'[k] = z
    BY DEF z
  <2>. QED
    BY <1>2, <2>2, <2>3
<1>15. Lies(held', Consumed', stream') /\ Lies(content', Start(k) + 3, stream')
  BY <1>4, <1>7, <1>9, <1>12
<1>16. Len(got') <= Len(log')
  BY DEF Follows
<1>. QED
  BY <1>2, <1>4, <1>5, <1>11, <1>13, <1>14, <1>15, <1>16 DEF Follows

\* The whole packet is there: what is handed over is its content.
LEMMA ContentThere ==
  ASSUME Writing, Reading, Out, Logged, Chained, ~Garbled, Follows, rstate = "RS_BODY",
         rest = 0
  PROVE  /\ Current \in DOMAIN log /\ Current \in Packets
         /\ Stripped = Content(Current, sizes[Current])
         /\ Stripped \in Seq(Sent) /\ Stripped # <<>>
         /\ Consumed = Start(Current + 1)
<1>. DEFINE k == Current
            n == sizes[k]
<1>1. /\ k \in 1..cur /\ k \in Nat /\ content \in Seq(Sent) /\ Len(content) \in Nat
  BY Situation
<1>2. /\ k \in Packets /\ Consumed = (Start(k) + 3) + Len(content)
      /\ rest + Len(content) = n + 2 /\ Lies(content, Start(k) + 3, stream)
  BY DEF Follows
<1>3. n \in 1..15 /\ n \in Nat /\ k \in Int
  <2>1. n \in Lengths
    BY <1>2 DEF Writing
  <2>. HIDE DEF n, k
  <2>. QED
    BY <1>1, <2>1, FormatAssumption
<1>4. Len(content) = n + 2
  <2>. HIDE DEF n
  <2>. QED
    BY <1>1, <1>2, <1>3
<1>5. content = Body(k, n) /\ k \in DOMAIN log
  <2>. HIDE DEF k
  <2>. QED
    BY <1>1, <1>2, <1>4, BodyThere
<1>6. Start(k + 1) = Start(k) + (n + 5) /\ Start(k) \in Nat
  <2>. HIDE DEF k
  <2>. QED
    BY <1>1, <1>5, PacketLies
<1>. HIDE DEF n, k
<1>7. /\ HasLine(content) /\ FindCRLF(content) = n + 1
      /\ SubSeq(content, 1, n) = Content(k, n)
      /\ Content(k, n) \in Seq(Sent) /\ Content(k, n) # <<>>
  BY <1>3, <1>5, BodyCut
<1>8. Stripped = Content(k, n)
  <2>1. FindCRLF(content) - 1 = n
    BY <1>3, <1>7
  <2>. QED
    BY <1>7, <2>1 DEF Stripped
<1>9. Consumed = Start(k + 1)
  BY <1>2, <1>3, <1>4, <1>6
<1>. QED
  BY <1>2, <1>5, <1>7, <1>8, <1>9 DEF k, n

LEMMA DoneUnderstood ==
  ASSUME Writing, Reading, Out, Logged, Chained, ~Garbled, Follows, ReadDone,
         UNCHANGED <<sizes, stream, log>>
  PROVE  Follows' /\ got' = Append(got, Content(Current, sizes[Current]))
         /\ Current \in DOMAIN log /\ Current \in Packets
<1>1. rstate = "RS_BODY" /\ rest = 0
  BY DEF ReadDone
<1>2. /\ Current \in DOMAIN log /\ Current \in Packets
      /\ Stripped = Content(Current, sizes[Current])
      /\ Stripped \in Seq(Sent) /\ Stripped # <<>>
      /\ Consumed = Start(Current + 1)
  BY <1>1, ContentThere
<1>3. /\ got' = Append(got, Stripped) /\ rstate' = "RS_HEADER"
      /\ UNCHANGED <<taken, held>>
  BY <1>2 DEF ReadDone, Reset, buffer
<1>4. got \in Seq(Seq(Sent)) /\ Len(got) \in Nat /\ Len(got') = Len(got) + 1
  <2>1. got \in Seq(Seq(Sent))
    BY DEF Reading
  <2>. QED
    BY <1>2, <1>3, <2>1, AppendProperties
<1>5. Len(log) \in Nat /\ DOMAIN log = 1..Len(log)
  BY DEF Writing
<1>6. Len(got') <= Len(log')
  BY <1>2, <1>4, <1>5 DEF Current
<1>7. Current' = Current + 1
  BY <1>4 DEF Current
<1>8. Start(Current)' = Start(Current + 1)
  BY <1>7 DEF Start
<1>9. Consumed' = Consumed
  BY <1>3 DEF Consumed
<1>10. Len(held) <= taken /\ Lies(held, Consumed, stream)
  BY DEF Follows
<1>. QED
  BY <1>2, <1>3, <1>6, <1>8, <1>9, <1>10 DEF Follows

\* One read() or the handling of what it returned, however the bytes are cut.
LEMMA ReadUnderstood ==
  ASSUME Writing, Reading, Out, Logged, Chained, ~Garbled, Follows, Read,
         UNCHANGED <<sizes, stream, log>>
  PROVE  Follows'
<1>2. /\ Consumed \in Nat /\ Consumed + Len(held) = taken
      /\ held \in Seq(Sent) /\ Len(held) \in Nat /\ taken \in Nat /\ stream \in Seq(Sent)
      /\ Len(held) <= BufSize /\ offset \in Nat
  <2>1. offset \in Nat /\ offset + Len(held) <= BufSize /\ Len(held) \in Nat
    BY DEF Reading
  <2>2. Len(held) <= BufSize
    BY <2>1, BufferAssumption
  <2>. QED
    BY <2>1, <2>2, Situation
<1>3. /\ Len(got) <= Len(log) /\ Len(held) <= taken /\ Lies(held, Consumed, stream)
  BY DEF Follows
<1>4. /\ Refilled \in Seq(Sent) /\ Len(Refilled) \in Nat /\ Len(Refilled) <= BufSize
      /\ Lies(Refilled, Consumed, stream)
      /\ taken + (IF ReadResult > 0 THEN ReadResult ELSE 0) = Consumed + Len(Refilled)
  <2>1. /\ Shrink \in Nat /\ Refilled \in Seq(Sent) /\ Shrink + Len(Refilled) <= BufSize
    BY <1>2, Refill
  <2>2. Len(Refilled) \in Nat /\ Len(Refilled) <= BufSize
    BY <2>1, BufferAssumption
  <2>. QED
    BY <2>1, <2>2, RefilledLies
<1>5. CASE AddToBuffer
  <2>1. PICK k \in 0..(arrived - taken) :
          /\ k < BufSize - (offset + Len(held))
          /\ held' = held \o SubSeq(Arrived, 1, k)
          /\ taken' = taken + k
    BY <1>5 DEF AddToBuffer
  <2>. DEFINE c == SubSeq(Arrived, 1, k)
  <2>2. c \in Seq(Sent) /\ Len(c) = k /\ Lies(c, taken, stream)
    BY <1>2, ArrivedBytes, ArrivedLies, LiesCut
  <2>. HIDE DEF c
  <2>3. Lies(held \o c, Consumed, stream)
    BY <1>2, <1>3, <2>2, LiesJoined
  <2>4. held' = held \o c /\ Len(held') = Len(held) + k /\ k \in Nat
    <3>1. held' = held \o c
      BY <2>1 DEF c
    <3>2. Len(held \o c) = Len(held) + Len(c)
      BY <1>2, <2>2, ConcatProperties
    <3>3. k \in Nat
      BY <1>2 DEF Reading
    <3>. QED
      BY <2>2, <3>1, <3>2, <3>3
  <2>5. Consumed' = Consumed /\ Len(held') <= taken' /\ Len(held') < BufSize
    <3>. DEFINE m == Len(held)
    <3>0. m \in Nat /\ taken \in Nat /\ m <= taken /\ k \in Nat
          /\ Len(held') = m + k /\ taken' = taken + k
      BY <1>2, <1>3, <2>1, <2>4
    <3>. HIDE DEF m
    <3>1. taken' - Len(held') = taken - m /\ Len(held') <= taken'
      BY <3>0
    <3>2. Len(held') < BufSize
      BY <1>2, <2>1, <2>4, BufferAssumption
    <3>. QED
      BY <3>1, <3>2 DEF Consumed, m
  <2>6. UNCHANGED <<rstate, rest, content, got>>
    BY <1>5 DEF AddToBuffer, packet
  <2>7. Current' = Current /\ Start(Current)' = Start(Current)
    BY <2>6 DEF Current, Start
  <2>8. Lies(held', Consumed', stream')
    BY <2>3, <2>4, <2>5
  <2>. QED
    BY <1>3, <2>5, <2>6, <2>7, <2>8 DEF Follows
<1>6. CASE ReadHeader
  <2>1. rstate = "RS_HEADER" /\ UNCHANGED got
    BY <1>6 DEF ReadHeader
  <2>2. CASE HasLine(held)
    <3>1. TakeLine(held, offset) /\ taken' = Consumed + Len(held)
      BY <1>2, <1>6, <2>2 DEF ReadHeader
    <3>. QED
      BY <1>2, <1>3, <2>1, <2>2, <3>1, LineUnderstood
  <2>3. CASE ~HasLine(held) /\ ReadResult > 0 /\ HasLine(Refilled)
    <3>1. TakeLine(Refilled, Shrink) /\ taken' = Consumed + Len(Refilled)
      BY <1>4, <1>6, <2>3 DEF ReadHeader
    <3>. QED
      BY <1>4, <2>1, <2>3, <3>1, LineUnderstood
  <2>4. CASE ~HasLine(held) /\ ~(ReadResult > 0 /\ HasLine(Refilled))
    <3>1. held' = Refilled /\ rstate' = rstate /\ taken' = Consumed + Len(Refilled)
      BY <1>4, <1>6, <2>4 DEF ReadHeader, Return, packet
    <3>2. Consumed' = Consumed /\ Len(held') <= taken'
      BY <1>2, <1>4, <3>1 DEF Consumed
    <3>3. Current' = Current /\ Start(Current)' = Start(Current)
      BY <2>1 DEF Current, Start
    <3>4. Lies(held', Consumed', stream')
      BY <1>4, <3>1, <3>2
    <3>5. rstate' # "RS_BODY"
      BY <2>1, <3>1
    <3>. QED
      BY <1>3, <2>1, <3>1, <3>2, <3>3, <3>4, <3>5 DEF Follows
  <2>. QED
    BY <2>2, <2>3, <2>4
<1>7. CASE ReadBody
  <2>1. rstate = "RS_BODY" /\ rest > 0 /\ UNCHANGED got
    BY <1>7 DEF ReadBody
  <2>2. CASE Len(held) >= rest
    <3>1. TakeBytes(held, offset) /\ taken' = Consumed + Len(held)
      BY <1>2, <1>7, <2>2 DEF ReadBody
    <3>. QED
      BY <1>2, <1>3, <2>1, <3>1, BytesUnderstood
  <2>3. CASE ~(Len(held) >= rest) /\ ReadResult = 0
    <3>1. UNCHANGED <<held, rstate, rest, content, taken>>
      BY <1>2, <1>7, <2>3 DEF ReadBody, Return, packet
    <3>2. Current' = Current /\ Start(Current)' = Start(Current) /\ Consumed' = Consumed
      BY <2>1, <3>1 DEF Current, Start, Consumed
    <3>. QED
      BY <2>1, <3>1, <3>2 DEF Follows
  <2>4. CASE ~(Len(held) >= rest) /\ ReadResult # 0
    <3>1. TakeBytes(Refilled, Shrink) /\ taken' = Consumed + Len(Refilled)
      BY <1>4, <1>7, <2>4 DEF ReadBody
    <3>. QED
      BY <1>4, <2>1, <3>1, BytesUnderstood
  <2>. QED
    BY <2>2, <2>3, <2>4
<1>8. CASE ReadDone
  BY <1>8, DoneUnderstood
<1>9. CASE Wake
  <2>1. UNCHANGED <<held, rstate, rest, content, taken, got>>
    BY <1>9 DEF Wake, buffer, packet
  <2>2. Current' = Current /\ Start(Current)' = Start(Current) /\ Consumed' = Consumed
    BY <2>1 DEF Current, Start, Consumed
  <2>. QED
    BY <2>1, <2>2 DEF Follows
<1>. QED
  BY <1>5, <1>6, <1>7, <1>8, <1>9 DEF Read

\* A step of the writer: the packet that the reader is at stays where it is.
LEMMA FollowsWrites ==
  ASSUME Writing, Reading, Out, Logged, Follows, Write, UNCHANGED reader
  PROVE  Follows'
<1>1. UNCHANGED <<held, rstate, rest, content, taken, got>>
  BY DEF reader, buffer, packet
<1>2. /\ Current \in 1..cur /\ held \in Seq(Sent) /\ content \in Seq(Sent)
      /\ stream \in Seq(Sent)
  BY Situation
<1>3. /\ sizes' = sizes /\ stream' \in Seq(Sent) /\ Len(stream) <= Len(stream')
      /\ \A j \in 1..Len(stream) : stream'[j] = stream[j]
      /\ \/ log' = log
         \/ Queued /\ Pop(stream')
  BY WriterMoves
<1>4. Start(Current)' = Start(Current)
  <2>1. \A k \in 1..cur : Start(k)' = Start(k)
    BY StartStays
  <2>2. Current' = Current
    BY <1>1 DEF Current
  <2>. QED
    BY <1>2, <2>1, <2>2 DEF Start
<1>5. Len(log) \in Nat /\ Len(log') \in Nat /\ Len(log) <= Len(log')
  <2>1. CASE log' = log
    BY <2>1 DEF Writing
  <2>2. CASE Queued /\ Pop(stream')
    <3>1. Len(log') = cur /\ Len(log) = cur - 1 /\ cur \in Nat
      BY <1>3, <2>2, PopLogs DEF Packets
    <3>. QED
      BY <3>1 DEF Writing
  <2>. QED
    BY <1>3, <2>1, <2>2
<1>6. Len(got') <= Len(log')
  <2>1. Len(got) \in Nat /\ Len(got) <= Len(log)
    BY DEF Reading, Follows
  <2>. QED
    BY <1>1, <1>5, <2>1
<1>7. Consumed' = Consumed /\ Current' = Current
  BY <1>1 DEF Consumed, Current
<1>8. Lies(held, Consumed, stream')
  BY <1>2, <1>3, LiesOnMore DEF Follows
<1>9. rstate = "RS_BODY" => Lies(content, Start(Current) + 3, stream')
  BY <1>2, <1>3, LiesOnMore DEF Follows
<1>. QED
  BY <1>1, <1>3, <1>4, <1>6, <1>7, <1>8, <1>9 DEF Follows

-----------------------------------------------------------------------------
(* The end of the connection *)

Closes == rpc = "closed" => AtEnd /\ Len(got) = Len(log)

\* read() returns 0 only at the end of the stream: Shrink has made room for a header
\* line and for the rest of a content, which the buffer can therefore never lack.
\* Then no whole packet is left in what has not been consumed.
LEMMA NothingMore ==
  ASSUME Writing, Reading, Out, Logged, Chained, ~Garbled, Follows, ReadResult = 0,
         \/ rstate = "RS_HEADER" /\ ~HasLine(held)
         \/ rstate = "RS_BODY" /\ ~(Len(held) >= rest)
  PROVE  AtEnd /\ Len(got) = Len(log)
<1>. DEFINE k == Current
            z == sizes[k]
            m == Len(held)
<1>1. /\ k \in 1..cur /\ Consumed \in Nat /\ Consumed + m = taken /\ held \in Seq(Sent)
      /\ m \in Nat /\ taken \in Nat /\ Len(content) \in Nat /\ rest \in 0..17
      /\ stream \in Seq(Sent) /\ Len(stream) \in Nat
  BY Situation
<1>2. rstate = "RS_HEADER" => Consumed = Start(k) /\ ~(m >= 3)
  <2>1. rstate = "RS_HEADER" => Consumed = Start(k) /\ Lies(held, Consumed, stream)
    BY DEF Follows
  <2>2. rstate = "RS_HEADER" => ~HasLine(held)
    OBVIOUS
  <2>. HIDE DEF k
  <2>. QED
    BY <1>1, <2>1, <2>2, HeaderThere
<1>3. rstate = "RS_BODY" =>
        /\ k \in Packets /\ m < BufSize /\ ~(m >= rest)
        /\ Consumed = (Start(k) + 3) + Len(content) /\ rest + Len(content) = z + 2
  BY DEF Follows
<1>4. rstate \in {"RS_HEADER", "RS_BODY"}
  BY DEF Reading
<1>5. m < BufSize
  BY <1>1, <1>2, <1>3, <1>4, BufferAssumption DEF Header
<1>6. Room \in Nat /\ Room # 0
  <2>1. offset \in Nat /\ offset + m <= BufSize /\ BufSize \in Nat
    BY BufferAssumption DEF Reading
  <2>2. Shrink = 0 \/ (Shrink = offset /\ offset + m # BufSize)
    BY DEF Shrink
  <2>3. Room = BufSize - (Shrink + m)
    BY DEF Room
  <2>. HIDE DEF m
  <2>. QED
    BY <1>1, <1>5, <2>1, <2>2, <2>3
<1>7. AtEnd
  <2>. SUFFICES ASSUME ~AtEnd
                PROVE  FALSE
    BY Zenon
  <2>1. Arrived \in Seq(Sent)
    BY <1>1, ArrivedBytes
  <2>2. Arrived # <<>> /\ Min({Room, Len(Arrived)}) = 0
    BY <1>6 DEF ReadResult
  <2>3. Len(Arrived) \in Nat /\ Len(Arrived) # 0
    BY <2>1, <2>2
  <2>4. {Room, Len(Arrived)} \subseteq Nat /\ {Room, Len(Arrived)} # {}
    BY <1>6, <2>3
  <2>5. Min({Room, Len(Arrived)}) \in {Room, Len(Arrived)}
    BY <2>4, MinOfNaturals
  <2>. QED
    BY <1>6, <2>2, <2>3, <2>5
<1>8. Consumed + m = Len(stream)
  BY <1>1, <1>7 DEF AtEnd
<1>9. k \notin DOMAIN log
  <2>. SUFFICES ASSUME k \in DOMAIN log
                PROVE  FALSE
    OBVIOUS
  <2>. HIDE DEF k
  <2>1. /\ k \in Packets /\ z \in 1..15 /\ Start(k) \in Nat
        /\ Start(k) + (z + 5) <= Len(stream)
    BY <1>1, PacketLies
  <2>. HIDE DEF z, m
  <2>2. CASE rstate = "RS_HEADER"
    BY <1>1, <1>2, <1>8, <2>1, <2>2
  <2>3. CASE rstate = "RS_BODY"
    BY <1>1, <1>3, <1>8, <2>1, <2>3
  <2>. QED
    BY <1>4, <2>2, <2>3
<1>10. Len(got) = Len(log)
  <2>1. Len(got) \in Nat /\ Len(log) \in Nat /\ DOMAIN log = 1..Len(log)
    BY DEF Reading, Writing
  <2>2. Len(got) <= Len(log)
    BY DEF Follows
  <2>. QED
    BY <1>9, <2>1, <2>2 DEF Current
<1>. QED
  BY <1>7, <1>10

LEMMA ReadCloses ==
  ASSUME Writing, Reading, Out, Logged, Chained, ~Garbled, Follows, Read,
         UNCHANGED <<stream, log, fin>>
  PROVE  Closes'
<1>. SUFFICES ASSUME rpc' = "closed"
              PROVE  (AtEnd /\ Len(got) = Len(log))'
  BY DEF Closes
<1>1. CASE ReadHeader
  <2>1. ~HasLine(held) /\ rstate = "RS_HEADER" /\ ReadResult = 0
    BY <1>1 DEF ReadHeader, TakeLine, Return
  <2>2. AtEnd /\ Len(got) = Len(log)
    BY <2>1, NothingMore
  <2>3. taken' = taken /\ got' = got
    BY <1>1, <2>1 DEF ReadHeader, Reading
  <2>. QED
    BY <2>2, <2>3 DEF AtEnd
<1>2. CASE ReadBody
  <2>1. ~(Len(held) >= rest) /\ rstate = "RS_BODY" /\ ReadResult = 0
    BY <1>2 DEF ReadBody, TakeBytes
  <2>2. AtEnd /\ Len(got) = Len(log)
    BY <2>1, NothingMore
  <2>3. taken' = taken /\ got' = got
    BY <1>2, <2>1 DEF ReadBody, Reading
  <2>. QED
    BY <2>2, <2>3 DEF AtEnd
<1>3. CASE AddToBuffer \/ ReadDone \/ Wake
  BY <1>3 DEF AddToBuffer, ReadDone, Wake
<1>. QED
  BY <1>1, <1>2, <1>3 DEF Read

Understood == Chained /\ (~Garbled => Follows) /\ Closes

LEMMA UnderstoodInit == Init => Understood
<1>. SUFFICES ASSUME Init
              PROVE  Understood
  OBVIOUS
<1>1. /\ log = <<>> /\ stream = <<>> /\ got = <<>> /\ held = <<>> /\ taken = 0
      /\ rstate = "RS_HEADER" /\ rpc = "new"
  BY DEF Init, WriterInit, ReaderInit
<1>2. Chained
  BY <1>1 DEF Chained
<1>3. Consumed = 0 /\ Current = 1 /\ Start(Current) = 0
  <2>1. Len(held) = 0 /\ Len(got) = 0 /\ taken = 0
    BY <1>1
  <2>2. Consumed = 0 /\ Current = 1
    BY <2>1 DEF Consumed, Current
  <2>. QED
    BY <2>2 DEF Start
<1>4. Follows
  BY <1>1, <1>3 DEF Follows, Lies
<1>. QED
  BY <1>1, <1>2, <1>4 DEF Understood, Closes

LEMMA UnderstoodStep ==
  Writing /\ Reading /\ Out /\ Logged /\ Understood /\ [Step]_svars => Understood'
<1>. SUFFICES ASSUME Writing, Reading, Out, Logged, Understood, [Step]_svars
              PROVE  Understood'
  OBVIOUS
<1>1. Chained'
  <2>1. [Write]_wvars
    BY DEF Step, Arrives, Reads, PeerClose, svars
  <2>. QED
    BY <2>1, ChainedStep DEF Understood
<1>2. CASE ~fin /\ Write /\ UNCHANGED <<fin, arrived, reader>>
  <2>1. ~Garbled' => Follows'
    BY <1>2, GarbledStays, FollowsWrites DEF Understood
  <2>2. Closes'
    BY <1>2 DEF Understood, Closes, AtEnd, reader
  <2>. QED
    BY <1>1, <2>1, <2>2 DEF Understood
<1>3. CASE Reads
  <2>1. /\ ~Garbled /\ Follows /\ Chained /\ Read /\ UNCHANGED <<sizes, stream, log, fin>>
    BY <1>3 DEF Reads, Understood, wvars, writer
  <2>2. Follows' /\ Closes'
    BY <2>1, ReadUnderstood, ReadCloses
  <2>. QED
    BY <1>1, <2>2 DEF Understood
<1>4. CASE Arrives \/ PeerClose \/ UNCHANGED svars
  <2>1. /\ UNCHANGED <<sizes, stream, log, refusals>>
        /\ UNCHANGED <<held, rstate, rest, content, taken, got, rpc>>
    BY <1>4 DEF Arrives, Arrive, PeerClose, svars, wvars, writer, reader, buffer, packet
  <2>2. Garbled' <=> Garbled
    BY <2>1 DEF Garbled
  <2>3. Current' = Current /\ Start(Current)' = Start(Current) /\ Consumed' = Consumed
    BY <2>1 DEF Current, Start, Consumed
  <2>4. Follows => Follows'
    BY <2>1, <2>3 DEF Follows
  <2>5. fin => fin'
    BY <1>4 DEF Arrives, Arrive, PeerClose, svars
  <2>6. Closes'
    BY <2>1, <2>5 DEF Understood, Closes, AtEnd
  <2>. QED
    BY <1>1, <2>2, <2>4, <2>6 DEF Understood
<1>. QED
  BY <1>2, <1>3, <1>4 DEF Step

Ends == Writing /\ Reading /\ Out /\ Logged /\ Understood

LEMMA EndsInit == Init => Ends
<1>. SUFFICES ASSUME Init
              PROVE  Ends
  OBVIOUS
<1>1. /\ cur = 1 /\ state = "NONE" /\ start = 0 /\ stream = <<>> /\ refusals = 0 /\ log = <<>>
  BY DEF Init, WriterInit
<1>2. Len(stream) = 0 /\ Len(log) = 0 /\ DOMAIN log = {}
  BY <1>1
<1>3. Out
  BY <1>1, <1>2 DEF Out, Base, Before
<1>4. Logged
  BY <1>1, <1>2 DEF Logged, WholeUnlessRefused
<1>. QED
  BY <1>3, <1>4, BothInit, UnderstoodInit DEF Ends

LEMMA EndsStep == Ends /\ [Step]_svars => Ends'
<1>1. [Step]_svars => [Write]_wvars
  BY DEF Step, Arrives, Reads, PeerClose, svars
<1>. QED
  BY <1>1, BothStep, OutStep, UnderstoodStep DEF Ends

\* The reader takes the connection for closed only at the end of what the peer has
\* written, with every whole packet handed over: neither a full buffer nor an empty
\* socket passes for the end, for any number of packets and a buffer of any size.
THEOREM ClosesAtTheEnd == Spec => []ClosedAtTheEnd
<1>1. Ends => ClosedAtTheEnd
  <2>. SUFFICES ASSUME Ends, rpc = "closed"
                PROVE  AtEnd /\ Len(got) = WholeWithin(Len(stream))
    BY DEF ClosedAtTheEnd
  <2>1. AtEnd /\ Len(got) = Len(log)
    BY DEF Ends, Understood, Closes
  <2>2. DOMAIN log = 1..Len(log) /\ Len(log) \in Nat /\ Len(stream) \in Nat
    BY DEF Ends, Writing
  <2>3. \A i \in DOMAIN log : log[i].to <= Len(stream)
    BY <2>2 DEF Ends, Logged
  <2>4. {i \in DOMAIN log : log[i].to <= Len(stream)} = 1..Len(log)
    BY <2>2, <2>3
  <2>5. Cardinality(1..Len(log)) = Len(log)
    <3>. DEFINE n == Len(log)
    <3>1. 1 \in Int /\ n \in Int /\ n >= 0
      BY <2>2
    <3>. HIDE DEF n
    <3>2. Cardinality(1..n) = IF 1 > n THEN 0 ELSE n - 1 + 1
      BY <3>1, FS_Interval
    <3>3. Cardinality(1..n) = n
      BY <3>1, <3>2
    <3>. QED
      BY <3>3 DEF n
  <2>. QED
    BY <2>1, <2>4, <2>5 DEF WholeWithin
<1>. QED
  BY <1>1, EndsInit, EndsStep, PTL DEF Spec

-----------------------------------------------------------------------------
(* The channel from one end to the other *)

LEMMA ContentsUpTo ==
  ASSUME Writing, NEW n \in 0..NumPackets
  PROVE  /\ SubSeq(Contents, 1, n) \in Seq(Seq(Sent)) /\ Len(SubSeq(Contents, 1, n)) = n
         /\ \A i \in 1..n : SubSeq(Contents, 1, n)[i] = Content(i, sizes[i])
<1>1. NumPackets \in Nat
  BY FormatAssumption
<1>2. ASSUME NEW i \in 1..n
      PROVE  Contents[i] = Content(i, sizes[i]) /\ Contents[i] \in Seq(Sent)
  <2>1. i \in Packets /\ i \in Int
    BY <1>1 DEF Packets
  <2>2. Contents[i] = Content(i, sizes[i])
    BY <2>1 DEF Contents
  <2>. DEFINE z == sizes[i]
  <2>3. z \in Lengths
    BY <2>1 DEF Writing
  <2>. HIDE DEF z
  <2>4. z \in 1..15
    BY <2>3, FormatAssumption
  <2>5. Content(i, z) \in Seq(Sent)
    BY <2>1, <2>4, BodyCut
  <2>. QED
    BY <2>2, <2>5 DEF z
<1>3. /\ SubSeq(Contents, 1, n) \in Seq(Seq(Sent)) /\ Len(SubSeq(Contents, 1, n)) = n
      /\ \A i \in 1..n : SubSeq(Contents, 1, n)[i] = Contents[i]
  BY <1>1, <1>2, SubSeqProperties
<1>. QED
  BY <1>2, <1>3

LEMMA PopAccepts ==
  ASSUME Writing, Out, Logged, Write, Queued, Pop(stream'), UNCHANGED got
  PROVE  Channel!Next
<1>. DEFINE s == SubSeq(Contents, 1, cur - 1)
            t == SubSeq(Contents, 1, cur)
            e == Content(cur, sizes[cur])
<1>1. stream' \in Seq(Sent) /\ sizes' = sizes
  BY WriterMoves
<1>2. /\ Len(log) = cur - 1 /\ Len(log') = cur /\ cur \in Packets
  BY <1>1, PopLogs
<1>3. cur \in 1..NumPackets /\ NumPackets \in Nat /\ cur - 1 \in 0..NumPackets
  BY <1>2, FormatAssumption DEF Packets
<1>4. /\ s \in Seq(Seq(Sent)) /\ Len(s) = cur - 1
      /\ \A i \in 1..(cur - 1) : s[i] = Content(i, sizes[i])
  BY <1>3, ContentsUpTo
<1>5. /\ t \in Seq(Seq(Sent)) /\ Len(t) = cur
      /\ \A i \in 1..cur : t[i] = Content(i, sizes[i])
  BY <1>3, ContentsUpTo
<1>6. e \in Seq(Sent)
  <2>1. t[cur] \in Seq(Sent) /\ t[cur] = e
    <3>1. cur \in 1..Len(t)
      BY <1>3, <1>5
    <3>. QED
      BY <1>5, <3>1, ElementOfSeq
  <2>. QED
    BY <2>1
<1>. HIDE DEF s, t, e
<1>7. t = Append(s, e)
  <2>. DEFINE u == Append(s, e)
  <2>1. /\ u \in Seq(Seq(Sent)) /\ Len(u) = cur
        /\ \A i \in 1..(cur - 1) : u[i] = s[i]
        /\ u[cur] = e
    <3>1. (cur - 1) + 1 = cur
      BY <1>3
    <3>. QED
      BY <1>4, <1>6, <3>1, AppendProperties
  <2>2. \A i \in 1..cur : u[i] = t[i]
    <3>. TAKE i \in 1..cur
    <3>1. CASE i = cur
      BY <1>3, <1>5, <2>1, <3>1 DEF e
    <3>2. CASE i # cur
      <4>1. i \in 1..(cur - 1)
        BY <1>3, <3>2
      <4>. QED
        BY <1>4, <1>5, <2>1, <4>1
    <3>. QED
      BY <3>1, <3>2
  <2>. HIDE DEF u
  <2>3. u = t
    BY <1>5, <2>1, <2>2, SeqEqual
  <2>. QED
    BY <2>3 DEF u
<1>8. SubSeq(Contents, 1, Len(log)) = s
  BY <1>2 DEF s
<1>9. SubSeq(Contents, 1, Len(log))' = t
  BY <1>1, <1>2 DEF t, Contents
<1>10. e \in {Content(i, n) : i \in Packets, n \in Lengths}
  <2>1. sizes[cur] \in Lengths
    BY <1>2 DEF Writing
  <2>. QED
    BY <1>2, <2>1 DEF e
<1>11. Channel!Accept(e)
  BY <1>7, <1>8, <1>9 DEF Channel!Accept
<1>. QED
  BY <1>10, <1>11 DEF Channel!Next

LEMMA DoneHandsOver ==
  ASSUME Writing, Reading, Out, Logged, Chained, ~Garbled, Follows, ReadDone,
         UNCHANGED <<sizes, stream, log>>
  PROVE  Channel!Next
<1>. DEFINE a == SubSeq(Contents, 1, Len(log))
<1>1. /\ got' = Append(got, Content(Current, sizes[Current]))
      /\ Current \in DOMAIN log
  BY DoneUnderstood
<1>2. Len(log) \in Nat /\ DOMAIN log = 1..Len(log) /\ Len(log) \in 0..NumPackets
  <2>1. Len(log) \in Nat /\ DOMAIN log = 1..Len(log)
    BY DEF Writing
  <2>2. Len(log) = cur - 1 /\ cur \in 1..(NumPackets + 1) /\ NumPackets \in Nat
    BY FormatAssumption DEF Writing, Logged
  <2>. QED
    BY <2>1, <2>2
<1>3. Len(a) = Len(log) /\ \A i \in 1..Len(log) : a[i] = Content(i, sizes[i])
  BY <1>2, ContentsUpTo
<1>4. a' = a
  BY DEF Contents
<1>5. Len(got) \in Nat
  BY DEF Reading
<1>. HIDE DEF a
<1>6. Len(got) < Len(a) /\ got' = Append(got, a[Len(got) + 1])
  BY <1>1, <1>2, <1>3, <1>5 DEF Current
<1>. QED
  BY <1>4, <1>6 DEF a, Channel!Next, Channel!Write

\* What is handed over is at all times the beginning of what was written, each
\* packet once and byte for byte: the two ends together are one queue.
THEOREM ReadsInOrder == Spec => ChannelSpec
<1>1. Init => Channel!Init
  <2>. SUFFICES ASSUME Init
                PROVE  Channel!Init
    OBVIOUS
  <2>1. log = <<>> /\ got = <<>>
    BY DEF Init, WriterInit, ReaderInit
  <2>2. SubSeq(Contents, 1, Len(log)) = <<>>
    BY <2>1, SubSeqEmpty
  <2>. QED
    BY <2>1, <2>2 DEF Channel!Init
<1>2. Ends /\ [Step]_svars => [Channel!Next]_<<SubSeq(Contents, 1, Len(log)), got>>
  <2>. SUFFICES ASSUME Ends, [Step]_svars
                PROVE  Channel!Next \/ UNCHANGED <<SubSeq(Contents, 1, Len(log)), got>>
    BY Zenon
  <2>1. UNCHANGED <<sizes, log, got>> => UNCHANGED <<SubSeq(Contents, 1, Len(log)), got>>
    BY DEF Contents
  <2>2. CASE ~fin /\ Write /\ UNCHANGED <<fin, arrived, reader>>
    <3>1. got' = got
      BY <2>2 DEF reader
    <3>2. sizes' = sizes /\ (log' = log \/ (Queued /\ Pop(stream')))
      BY <2>2, WriterMoves DEF Ends
    <3>. QED
      BY <2>1, <2>2, <3>1, <3>2, PopAccepts DEF Ends
  <2>3. CASE Reads
    <3>1. /\ ~Garbled /\ Follows /\ Chained /\ Read /\ UNCHANGED <<sizes, stream, log>>
      BY <2>3 DEF Reads, Ends, Understood, wvars, writer
    <3>2. ReadDone \/ got' = got
      BY <3>1 DEF Read, AddToBuffer, ReadHeader, ReadBody, Wake
    <3>. QED
      BY <2>1, <3>1, <3>2, DoneHandsOver DEF Ends
  <2>4. CASE Arrives \/ PeerClose \/ UNCHANGED svars
    <3>1. UNCHANGED <<sizes, log, got>>
      BY <2>4 DEF Arrives, Arrive, PeerClose, svars, wvars, writer, reader
    <3>. QED
      BY <2>1, <3>1
  <2>. QED
    BY <2>2, <2>3, <2>4 DEF Step
<1>. QED
  BY <1>1, <1>2, EndsInit, EndsStep, PTL DEF Spec, ChannelSpec, Channel!Spec
=============================================================================

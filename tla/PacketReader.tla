---------------------------- MODULE PacketReader ----------------------------
(***************************************************************************)
(* Packet::Read, the BufferReader below it and the loop of HandleRead      *)
(* above it (cpp/src/socketclient.cc), one read() at a time, on a stream of*)
(* bytes that arrives in pieces cut anywhere.                              *)
(***************************************************************************)
EXTENDS PacketFormat, FiniteSetsExt

CONSTANTS
  BufSize,  \* MAX_BUFFER_SIZE
  LowWater  \* the buffer shrinks when it holds less than this

\* A header line fits into the buffer (a byte is left over at the handshake).
ASSUME BufferAssumption ==
  /\ BufSize \in Nat /\ BufSize > Len(Header(0))
  /\ LowWater \in 1..BufSize

VARIABLES
  fin,      \* the peer has closed
  arrived,  \* how many of them have reached the socket
  taken,    \* how many of them read() has returned
  held,     \* buf_ between start_ and end_
  offset,   \* start_
  rstate,   \* rstate_
  rest,     \* left_
  content,  \* the bytes of content_ that are there
  rpc,      \* new, in HandleRead, in poll(), or at the end of the connection
  got       \* contents handed to the callback

buffer == <<held, offset>>
packet == <<rstate, rest, content>>
reader == <<taken, buffer, packet, rpc, got>>

ReaderTypeOK ==
  /\ fin \in BOOLEAN
  /\ arrived \in 0..Len(stream)
  /\ taken \in 0..arrived
  /\ held \in Seq(Byte) /\ offset \in Nat /\ offset + Len(held) <= BufSize
  /\ rstate \in {"RS_HEADER", "RS_BODY"}
  /\ rest \in 0..17 /\ content \in Seq(Byte)
  /\ rpc \in {"new", "read", "poll", "closed"}
  /\ got \in Seq(Seq(Byte))

ReaderInit ==
  /\ fin = FALSE /\ arrived = 0 /\ taken = 0
  /\ held = <<>> /\ offset = 0
  /\ rstate = "RS_HEADER" /\ rest = 0 /\ content = <<>>
  /\ rpc = "new" /\ got = <<>>

-----------------------------------------------------------------------------
(* BufferReader *)

Arrived == SubSeq(stream, taken + 1, arrived)
AtEnd == fin /\ taken = Len(stream)

\* Connect hands over what came along with the HTTP response, and Loop begins
\* with HandleRead.
AddToBuffer ==
  /\ rpc = "new"
  /\ \E k \in 0..(arrived - taken) :
       /\ k < BufSize - (offset + Len(held))
       /\ held' = held \o SubSeq(Arrived, 1, k)
       /\ taken' = taken + k
  /\ rpc' = "read"
  /\ UNCHANGED <<offset, packet, got>>

\* Faulty: a full buffer does not shrink.
ShrinkLow == IF Len(held) < LowWater THEN 0 ELSE offset

\* start_ after Shrink, which moves what is held to the front of buf_.
Shrink ==
  IF Len(held) < LowWater \/ offset + Len(held) = BufSize THEN 0 ELSE offset

Room == BufSize - (Shrink + Len(held))

\* The result of the read() into the room there is.
ReadResult ==
  CASE Room = 0 \/ AtEnd -> 0
    [] OTHER -> IF Arrived = <<>> THEN -1 ELSE Min({Room, Len(Arrived)})

\* What is held after it.
Refilled == IF ReadResult > 0 THEN held \o SubSeq(Arrived, 1, ReadResult) ELSE held

Lines(bytes) == {i \in 1..(Len(bytes) - 1) : bytes[i] = CR /\ bytes[i + 1] = LF}
HasLine(bytes) == Lines(bytes) # {}
FindCRLF(bytes) == Min(Lines(bytes))

Drop(bytes, k) == SubSeq(bytes, k + 1, Len(bytes))

-----------------------------------------------------------------------------
(* Packet::Read *)

\* strtol of the line.
LineValue(bytes) == IF bytes[1].b = "len" THEN bytes[1].v ELSE 0

\* ReadLine found its line in the bytes: len_ = left_ = the length and CR LF.
TakeLine(bytes, at) ==
  LET k == FindCRLF(bytes) + 1 IN
    /\ held' = Drop(bytes, k) /\ offset' = at + k
    /\ rest' = LineValue(bytes) + 2
    /\ rstate' = "RS_BODY" /\ content' = <<>>
    /\ UNCHANGED rpc

\* Faulty: only a positive number is told from the others.
ReturnGoesOn(n) ==
  /\ rpc' = "poll"
  /\ UNCHANGED packet

\* Return 0 ends the connection, a negative number ends HandleRead.
Return(n) ==
  /\ rpc' = IF n = 0 THEN "closed" ELSE "poll"
  /\ UNCHANGED packet

ReadHeader ==
  /\ rpc = "read" /\ rstate = "RS_HEADER"
  /\ IF HasLine(held)
     THEN TakeLine(held, offset) /\ UNCHANGED taken
     ELSE /\ taken' = taken + (IF ReadResult > 0 THEN ReadResult ELSE 0)
          /\ IF ReadResult > 0 /\ HasLine(Refilled)
             THEN TakeLine(Refilled, Shrink)
             ELSE /\ held' = Refilled /\ offset' = Shrink
                  /\ Return(ReadResult)
  /\ UNCHANGED got

\* BufferReader::Read(fd, addr, len): take what is held, up to what is left.
TakeBytes(bytes, at) ==
  LET k == Min({rest, Len(bytes)}) IN
    /\ content' = content \o SubSeq(bytes, 1, k)
    /\ held' = Drop(bytes, k) /\ offset' = at + k
    /\ rest' = rest - k
    /\ rpc' = IF k = 0 THEN "poll" ELSE rpc
    /\ UNCHANGED rstate

ReadBody ==
  /\ rpc = "read" /\ rstate = "RS_BODY" /\ rest > 0
  /\ IF Len(held) >= rest
     THEN TakeBytes(held, offset) /\ UNCHANGED taken
     ELSE /\ taken' = taken + (IF ReadResult > 0 THEN ReadResult ELSE 0)
          /\ IF ReadResult = 0
             THEN held' = held /\ offset' = Shrink /\ Return(0)
             ELSE TakeBytes(Refilled, Shrink)
  /\ UNCHANGED got

-----------------------------------------------------------------------------
(* HandleRead *)

\* content_ up to its first CR LF.
Stripped ==
  IF HasLine(content) THEN SubSeq(content, 1, FindCRLF(content) - 1) ELSE content

Reset == rstate' = "RS_HEADER" /\ rest' = 0 /\ content' = <<>>

\* Faulty: one frame for each time poll() returns.
ReadDonePolls ==
  /\ rpc = "read" /\ rstate = "RS_BODY" /\ rest = 0
  /\ got' = IF Stripped = <<>> THEN got ELSE Append(got, Stripped)
  /\ Reset
  /\ rpc' = "poll"
  /\ UNCHANGED <<taken, buffer>>

\* The packet is whole: message_cb_, Reset, and on with the next one.
ReadDone ==
  /\ rpc = "read" /\ rstate = "RS_BODY" /\ rest = 0
  /\ got' = IF Stripped = <<>> THEN got ELSE Append(got, Stripped)
  /\ Reset
  /\ UNCHANGED <<taken, buffer, rpc>>

\* poll() reports POLLIN, or nothing for a while: Loop calls HandleRead again.
Wake ==
  /\ rpc = "poll" /\ (Arrived # <<>> \/ AtEnd)
  /\ rpc' = "read"
  /\ UNCHANGED <<taken, buffer, packet, got>>

Read == AddToBuffer \/ ReadHeader \/ ReadBody \/ ReadDone \/ Wake

Arrive ==
  /\ arrived' \in (arrived + 1)..Len(stream)
  /\ UNCHANGED <<fin, reader>>
=============================================================================

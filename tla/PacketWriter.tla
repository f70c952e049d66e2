---------------------------- MODULE PacketWriter ----------------------------
(***************************************************************************)
(* Packet::Write and the loop of HandleWrite around it, one write() at a   *)
(* time: the kernel takes all that is left of the header or of the content,*)
(* a part of it, or nothing and returns -1.                                *)
(***************************************************************************)
EXTENDS PacketFormat

CONSTANT MaxRefusals  \* bound: calls of write() that return -1

ASSUME RefusalsAssumption == MaxRefusals \in Nat

VARIABLES
  sizes,    \* the length of the content of each packet in write_queue_
  cur,      \* the packet at the front of the queue
  state,    \* state_
  left,     \* left_
  start,    \* buf_start_
  refusals, \* history: calls that returned -1 for the front packet
  log       \* history: for each packet popped, its bytes in stream and refusals

writer == <<cur, state, left, start, stream, refusals, log>>
wvars  == <<sizes, writer>>

WriterTypeOK ==
  /\ sizes \in [Packets -> Lengths]
  /\ cur \in 1..(NumPackets + 1)
  /\ state \in {"NONE", "DATA_LEN", "DATA_BODY"}
  /\ left \in 0..(17 + MaxRefusals)
  /\ start \in (-MaxRefusals)..17
  /\ stream \in Seq(Byte)
  /\ refusals \in 0..MaxRefusals
  /\ log \in Seq([from : Nat, to : Nat, refused : Nat])

WriterInit ==
  /\ sizes \in [Packets -> Lengths]
  /\ cur = 1 /\ state = "NONE" /\ left = 0 /\ start = 0
  /\ stream = <<>> /\ refusals = 0 /\ log = <<>>

Queued == cur <= NumPackets

\* len_, which counts the CR LF that SetContent appended.
Size == sizes[cur] + 2

\* data_len_buf_ or content_, and what lies before them in memory.
Area == IF state = "DATA_LEN" THEN Header(sizes[cur]) ELSE Body(cur, sizes[cur])
At(i) == IF i >= 1 THEN Area[i] ELSE Stray

\* The first k of the bytes from buf_start_ on.
Bytes(k) == [j \in 1..k |-> At(start + j)]

FrontUnchanged == UNCHANGED <<sizes, cur, refusals, log>>

\* snprintf of the length into data_len_buf_.
Format ==
  /\ Queued /\ state = "NONE"
  /\ state' = "DATA_LEN" /\ left' = Len(Header(sizes[cur])) /\ start' = 0
  /\ UNCHANGED stream /\ FrontUnchanged

\* The next packet in the queue: its state is still the one of a new Packet.
Pop(bytes) ==
  /\ log' = Append(log, [from |-> IF log = <<>> THEN 1 ELSE log[Len(log)].to + 1,
                         to |-> Len(bytes), refused |-> refusals])
  /\ cur' = cur + 1 /\ refusals' = 0
  /\ state' = "NONE" /\ left' = 0 /\ start' = 0
  /\ UNCHANGED sizes

Advance(k) ==
  /\ left' = left - k /\ start' = start + k
  /\ UNCHANGED state /\ FrontUnchanged

\* Faulty: after a part of the header the content goes on where the header was.
WritePartSkips ==
  /\ Queued /\ state # "NONE"
  /\ \E k \in 1..(left - 1) :
       /\ stream' = stream \o Bytes(k)
       /\ IF state = "DATA_LEN"
          THEN state' = "DATA_BODY" /\ left' = Size /\ start' = 0 /\ FrontUnchanged
          ELSE Advance(k)

\* write() takes k bytes of more.  HandleWrite compares k with Size() to know
\* whether the packet is out.
WritePart ==
  /\ Queued /\ state # "NONE"
  /\ \E k \in 1..(left - 1) :
       /\ stream' = stream \o Bytes(k)
       /\ IF k = Size THEN Pop(stream') ELSE Advance(k)

WriteHeader ==
  /\ Queued /\ state = "DATA_LEN"
  /\ stream' = stream \o Bytes(left)
  /\ state' = "DATA_BODY" /\ left' = Size /\ start' = 0
  /\ FrontUnchanged

WriteBody ==
  /\ Queued /\ state = "DATA_BODY"
  /\ stream' = stream \o Bytes(left)
  /\ Pop(stream')

\* write() returns -1, which is less than left_ too.
WriteRefused ==
  /\ Queued /\ state # "NONE"
  /\ refusals < MaxRefusals
  /\ left' = left + 1 /\ start' = start - 1
  /\ refusals' = refusals + 1
  /\ UNCHANGED <<sizes, cur, state, stream, log>>

Write == Format \/ WritePart \/ WriteHeader \/ WriteBody \/ WriteRefused

WriterSpec == WriterInit /\ [][Write]_wvars

-----------------------------------------------------------------------------
Written(d) == SubSeq(stream, d.from, d.to)

\* A packet goes out byte for byte exactly when no write() for it returned -1,
\* however the kernel cuts it into pieces.
WholeUnlessRefused ==
  \A i \in DOMAIN log :
    log[i].refused = 0 <=> Written(log[i]) = Whole(i, sizes[i])
=============================================================================

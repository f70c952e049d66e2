---------------------------- MODULE PacketStream ----------------------------
(***************************************************************************)
(* One end writes packets (PacketWriter), the other end reads them         *)
(* (PacketReader).  The same class Packet is at both ends, so what it      *)
(* writes it must be able to read, in whatever pieces the bytes are        *)
(* written, arrive and are read.                                           *)
(***************************************************************************)
EXTENDS PacketWriter, PacketReader

svars == <<wvars, fin, arrived, reader>>

Init == WriterInit /\ ReaderInit

\* After a refused write() the stream is no longer one of packets: what the other
\* end makes of it is left out, the writer goes on alone.
Garbled == refusals > 0 \/ \E i \in DOMAIN log : log[i].refused > 0

\* The peer closes, between two packets or inside one.
PeerClose ==
  /\ ~fin /\ ~Garbled
  /\ fin' = TRUE
  /\ UNCHANGED <<wvars, arrived, reader>>

Reads == ~Garbled /\ Read /\ UNCHANGED <<wvars, fin, arrived>>

Arrives == ~Garbled /\ Arrive /\ UNCHANGED wvars

Step ==
  \/ ~fin /\ Write /\ UNCHANGED <<fin, arrived, reader>>
  \/ Arrives
  \/ Reads
  \/ PeerClose

Spec == Init /\ [][Step]_svars

\* The network delivers and the reader's thread runs; the peer goes on writing
\* unless it closes.
Fairness ==
  /\ WF_svars(~fin /\ Write /\ UNCHANGED <<fin, arrived, reader>>)
  /\ WF_svars(Arrives)
  /\ WF_svars(Reads)

FairSpec == Spec /\ Fairness

-----------------------------------------------------------------------------
TypeOK == WriterTypeOK /\ ReaderTypeOK

Contents == [i \in Packets |-> Content(i, sizes[i])]

\* How many packets lie wholly within the first n bytes.
WholeWithin(n) == Cardinality({i \in DOMAIN log : log[i].to <= n})

\* Whatever the reader has taken of the last packet, it hands over exactly the
\* packets that were written, in order, each of them once.
Channel == INSTANCE MessageOutbox
             WITH Packets <- {Content(i, n) : i \in Packets, n \in Lengths},
                  accepted <- SubSeq(Contents, 1, Len(log)),
                  written <- got

ChannelSpec == Channel!Spec

\* The reader takes the connection for closed only when the peer has closed it,
\* and after every whole packet was handed over.
ClosedAtTheEnd ==
  rpc = "closed" => AtEnd /\ Len(got) = WholeWithin(Len(stream))

\* Every packet that is written whole is read, and the end of the connection is
\* noticed.
EverythingArrives == (Len(got) < Len(log)) ~> (Len(got) = Len(log) \/ Garbled)

EndNoticed == fin ~> (rpc = "closed" \/ Garbled)
=============================================================================

---------------------------- MODULE PacketFormat ----------------------------
(***************************************************************************)
(* The bytes of a packet as Packet::Write (cpp/src/socketclient.cc) puts   *)
(* them on a connection: the length of the content in hexadecimal, CR LF,  *)
(* the content, CR LF.  A length is one byte here, so contents are shorter *)
(* than 16.                                                                *)
(***************************************************************************)
EXTENDS Integers, Sequences

CONSTANTS
  NumPackets,  \* bound: packets in a behaviour
  Lengths      \* lengths of content

VARIABLE stream  \* the bytes that one end has put on the connection

ASSUME FormatAssumption ==
  NumPackets \in Nat \ {0} /\ Lengths \subseteq 1..15

Packets == 1..NumPackets

Byte == [b : {"len", "cr", "lf", "data", "stray"}, v : Int]
CR    == [b |-> "cr", v |-> 0]
LF    == [b |-> "lf", v |-> 0]
Stray == [b |-> "stray", v |-> 0]

Header(n) == <<[b |-> "len", v |-> n], CR, LF>>

\* The j-th byte of the content of packet i.  JSON text ends with a LF, the
\* heartbeat is the one byte without it.
Content(i, n) ==
  [j \in 1..n |-> IF j = n /\ n > 1 THEN LF ELSE [b |-> "data", v |-> 16 * i + j]]

\* content_ after SetContent.
Body(i, n) == Content(i, n) \o <<CR, LF>>

Whole(i, n) == Header(n) \o Body(i, n)
=============================================================================

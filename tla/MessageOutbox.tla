---------------------------- MODULE MessageOutbox ----------------------------
(***************************************************************************)
(* What the write queue of the client promises, for all connections        *)
(* together: a packet is accepted when it is pushed, and the accepted      *)
(* packets are written in that order, each of them once.                   *)
(***************************************************************************)
EXTENDS Naturals, Sequences

CONSTANT Packets

VARIABLES accepted, written

TypeOK == accepted \in Seq(Packets) /\ written \in Seq(Packets)

Init == accepted = <<>> /\ written = <<>>

Accept(p) == accepted' = Append(accepted, p) /\ UNCHANGED written

Write ==
  /\ Len(written) < Len(accepted)
  /\ written' = Append(written, accepted[Len(written) + 1])
  /\ UNCHANGED accepted

Next == (\E p \in Packets : Accept(p)) \/ Write

Spec == Init /\ [][Next]_<<accepted, written>>

==============================================================================

---------------------------- MODULE MCSocketClient ----------------------------
(* Small instances of SocketClient for TLC. *)
EXTENDS SocketClient, TLC

SendersSymmetry == Permutations(Senders)

===============================================================================

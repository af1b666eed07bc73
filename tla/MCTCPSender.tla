---------------------------- MODULE MCTCPSender -----------------------------
(* Model-checking instance of TCPSenderSystem, with the loops of            *)
(* TCPSenderLoops: sequence numbers modulo 8 that wrap at the second one,   *)
(* four bytes, segments of at most two.                                     *)
EXTENDS TCPSenderLoops

MCWindows == {0, 1, 4}
MCTicks == {1, 2}
=============================================================================

--------------------------- MODULE MCTcpProvider ---------------------------
(* Instances of TcpProvider for TLC; the bounds are in the cfg file. *)
EXTENDS TcpProvider, TLC

PidSymmetry == Permutations(Pid)
=============================================================================

------------------------------ MODULE MCDiskIo ------------------------------
(* Instances of DiskIo for TLC. *)
EXTENDS DiskIo, TLC

\* The same two sectors, of two bytes each, for every request; what is left of
\* a request may be the second of them.
Extents == {[sector |-> 0, bytes |-> 4]}

\* Two single sectors: no request is completed in pieces.
SingleSectors == {[sector |-> 0, bytes |-> 2], [sector |-> 1, bytes |-> 2]}

CpuSymmetry == Permutations(Cpu)
=============================================================================

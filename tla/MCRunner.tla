------------------------------ MODULE MCRunner ------------------------------
(* Instances of Runner for TLC; the bounds are in the cfg files. *)
EXTENDS Runner
=============================================================================

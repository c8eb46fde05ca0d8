--------------------------- MODULE MCAgentControl ---------------------------
(* Instances of AgentControl for TLC; the bounds are in the cfg files. *)
EXTENDS AgentControl
=============================================================================

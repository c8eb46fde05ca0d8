--------------------------- MODULE MCPodDiscovery ---------------------------
(* Instances of PodDiscovery for TLC; the bounds are in the cfg files. *)
EXTENDS PodDiscovery
=============================================================================

---------------------------- MODULE ProviderCall ----------------------------
(***************************************************************************)
(* The Provider trait (talia-core pipeline/provider.rs) as its caller sees *)
(* it: one call of collect at a time, which returns a batch of samples or  *)
(* an error.  The collectors extend this module with what a call does.     *)
(***************************************************************************)

VARIABLES
    name,    \* the provider of this process
    call,    \* "idle", "running", "ok" or "error"
    batch    \* the samples of a call that returned

callVars == <<name, call, batch>>

Running(p) == name = p /\ call = "running"

Return(samples) ==
    /\ call' = "ok"
    /\ batch' = samples
    /\ UNCHANGED name

Fail ==
    /\ call' = "error"
    /\ batch' = {}
    /\ UNCHANGED name
============================================================================

------------------------------- MODULE Runner -------------------------------
(***************************************************************************)
(* One collector task (talia-agent/src/runner.rs, run_collector): clone    *)
(* the shared config, load the provider lazily, sleep a window before or   *)
(* after collecting, collect on the blocking pool, emit the samples.  The  *)
(* shared config may be replaced at every await.                           *)
(*                                                                         *)
(* Abstracted: the samples of a batch (processors and sinks see each one   *)
(* with the version of the cloned config), log-once flags, and durations   *)
(* other than the configured interval.                                     *)
(***************************************************************************)
EXTENDS Naturals

CONSTANTS MaxVersion,   \* bound: how often the shared config is replaced
          Interval      \* the interval_seconds values in use

ASSUME RunnerAssumption ==
    /\ MaxVersion \in Nat
    /\ Interval \subseteq Nat \ {0} /\ Interval # {}

Config == [version : 0..MaxVersion, enabled : BOOLEAN, interval : Interval]

VARIABLES
    shared,    \* shared_config, as this collector's schedule sees it
    before,    \* spec.sleep_before_collect
    pc,        \* "top", "rest", "window", "collect" or "collecting"
    config,    \* the clone made at the top of the loop
    provider,  \* "none", "idle", or "taken" by the blocking collect
    slept,     \* the duration of the last sleep
    window,    \* the window the provider was last given
    fed,       \* the config the provider was last reconfigured with
    (* History, read by the properties only. *)
    label,     \* version label of the last batch emitted
    stale      \* batches emitted since the last change, labelled with an
               \* older version

taskVars == <<before, pc, config, provider, slept, window, fed, label>>
vars == <<shared, taskVars, stale>>

Init ==
    /\ shared \in {c \in Config : c.version = 0}
    /\ before \in BOOLEAN
    /\ pc = "top"
    /\ config = shared
    /\ provider = "none"
    /\ slept = 0 /\ window = 0
    /\ fed = shared.version /\ label = shared.version /\ stale = 0

\* A refresh replaces the shared config.
ConfigReplaced ==
    /\ shared.version < MaxVersion
    /\ shared' \in {c \in Config : c.version = shared.version + 1}
    /\ stale' = 0
    /\ UNCHANGED taskVars

\* Mutant: the config is cloned once, before the loop.
ReadConfigOnce == config

\* shared_config.read().await.clone(), at the top of every iteration.
ReadConfig == shared

\* Mutant: a disabled collector keeps its provider.
TopKeepsProvider ==
    /\ pc = "top"
    /\ config' = ReadConfig
    /\ \/ ~ config'.enabled /\ provider' = provider /\ pc' = "rest"
       \/ /\ config'.enabled /\ provider' = "idle"
          /\ pc' = IF before THEN "window" ELSE "collect"
    /\ UNCHANGED <<shared, before, slept, window, fed, label, stale>>

\* The top of the loop, up to the first await after the clone.  Disabled:
\* the provider is dropped.  Enabled without a provider: the factory runs.
Top ==
    /\ pc = "top"
    /\ config' = ReadConfig
    /\ \/ /\ ~ config'.enabled
          /\ provider' = "none" /\ pc' = "rest"
       \/ /\ config'.enabled
          /\ provider' = "idle" /\ pc' = IF before THEN "window" ELSE "collect"
       \/ /\ config'.enabled /\ provider = "none"      \* the factory fails
          /\ provider' = "none" /\ pc' = "rest"
    /\ UNCHANGED <<shared, before, slept, window, fed, label, stale>>

\* tokio::time::sleep(interval) of the cloned config: after a failed load,
\* while disabled, after a collection; or before one.
Rest ==
    /\ pc = "rest"
    /\ slept' = config.interval
    /\ pc' = "top"
    /\ UNCHANGED <<shared, before, config, provider, window, fed, label, stale>>

Window ==
    /\ pc = "window"
    /\ slept' = config.interval
    /\ pc' = "collect"
    /\ UNCHANGED <<shared, before, config, provider, window, fed, label, stale>>

\* Mutant: the window is read from the shared config again.
CollectFresh ==
    /\ pc = "collect"
    /\ provider' = "taken"
    /\ window' = shared.interval /\ fed' = config.version
    /\ pc' = "collecting"
    /\ UNCHANGED <<shared, before, config, slept, label, stale>>

\* Take the provider, set_window, reconfigure, spawn_blocking.
Collect ==
    /\ pc = "collect"
    /\ provider' = "taken"
    /\ window' = config.interval /\ fed' = config.version
    /\ pc' = "collecting"
    /\ UNCHANGED <<shared, before, config, slept, label, stale>>

\* Mutant: the next iteration starts below the clone of the config.
AfterCollectAgain == IF before THEN "window" ELSE "collect"

AfterCollect == IF before THEN "top" ELSE "rest"

\* Mutant: samples are labelled with the version shared by now.
EmitFresh ==
    /\ pc = "collecting"
    /\ provider' = "idle"
    /\ label' = shared.version
    /\ stale' = stale
    /\ pc' = AfterCollect
    /\ UNCHANGED <<shared, before, config, slept, window, fed>>

\* The provider comes back with samples, which are emitted under the cloned
\* config's version ...
Emit ==
    /\ pc = "collecting"
    /\ provider' = "idle"
    /\ label' = config.version
    /\ stale' = IF config.version = shared.version THEN stale ELSE stale + 1
    /\ pc' = AfterCollect
    /\ UNCHANGED <<shared, before, config, slept, window, fed>>

\* ... or with an error ...
CollectFails ==
    /\ pc = "collecting"
    /\ provider' = "idle"
    /\ pc' = AfterCollect
    /\ UNCHANGED <<shared, before, config, slept, window, fed, label, stale>>

\* ... or is lost with the panicked task; the next iteration recreates it.
Panics ==
    /\ pc = "collecting"
    /\ provider' = "none"
    /\ pc' = AfterCollect
    /\ UNCHANGED <<shared, before, config, slept, window, fed, label, stale>>

Task == Top \/ Rest \/ Window \/ Collect \/ Emit \/ CollectFails \/ Panics
Next == ConfigReplaced \/ Task

(***************************************************************************)
(* Fairness: timers fire and the blocking pool finishes what it runs.     *)
(***************************************************************************)
Spec == Init /\ [][Next]_vars
FairSpec == Spec /\ WF_vars(Task)

-----------------------------------------------------------------------------
(* Properties. *)

\* However long a window sleep or a collection takes while the config is
\* replaced, at most one batch is emitted under an outdated config after a
\* change (and so at most one by a collector that has been disabled).
AtMostOneStaleBatch == stale <= 1

\* A rate collector is told a window as long as the sleep it just woke from,
\* also when the interval is changed during that sleep: the window and the
\* sleep come from the same clone of the config.
WindowIsTheSleep ==
    pc = "collecting" /\ before => window = slept

\* Samples are labelled with the version of the config the provider ran with.
LabelIsTheConfigUsed == [][label' # label => label' = fed]_vars

\* A collector that stays disabled gives up its provider (for the BPF
\* collectors: detaches its programs).
DisabledReleasesProvider ==
    <>[](~ shared.enabled) => <>[](provider = "none")

\* A collector that stays enabled, and whose factory does not fail for ever,
\* goes on collecting with the current config, whatever panics came before.
FactoryWorks == SF_vars(Top /\ provider' = "idle")
Recovers ==
    FactoryWorks /\ <>[](shared.enabled)
        => []<>(pc = "collecting" /\ fed = shared.version)
=============================================================================

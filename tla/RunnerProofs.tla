---------------------------- MODULE RunnerProofs ----------------------------
(***************************************************************************)
(* Proofs about a collector task, for any number of config changes and any *)
(* intervals.                                                              *)
(***************************************************************************)
EXTENDS Runner, TLAPS

\* Where the cloned config is in use: from the top of an iteration to its emit.
UsesClone == pc \in {"window", "collect", "collecting"}

\* A batch under an old config was emitted since the last change only if the
\* task has read the config again since, or is about to.
StaleInv ==
    /\ stale \in 0..1
    /\ stale = 1 /\ UsesClone => config.version = shared.version

\* What the provider was given last comes from the clone of this iteration, and
\* so does the sleep that a rate collector begins with.
CloneInv ==
    /\ pc = "collect" /\ before => slept = config.interval
    /\ pc = "collecting" => window = config.interval /\ fed = config.version
    /\ pc = "collecting" /\ before => window = slept

\* A second batch under an old config would need a second read of it.
LEMMA StaleStep == StaleInv /\ [Next]_vars => StaleInv'
  <1>. SUFFICES ASSUME StaleInv, [Next]_vars PROVE StaleInv'
    OBVIOUS
  <1>. USE DEF StaleInv, UsesClone
  <1>1. CASE ConfigReplaced
    BY <1>1 DEF ConfigReplaced
  <1>2. CASE Top
    BY <1>2 DEF Top, ReadConfig
  <1>3. CASE Rest
    BY <1>3 DEF Rest
  <1>4. CASE Window
    BY <1>4 DEF Window
  <1>5. CASE Collect
    BY <1>5 DEF Collect
  <1>6. CASE Emit
    <2>1. pc' \in {"top", "rest"}
      BY <1>6 DEF Emit, AfterCollect
    <2>2. stale' \in 0..1
      BY <1>6 DEF Emit
    <2>. QED  BY <2>1, <2>2
  <1>7. CASE CollectFails \/ Panics
    BY <1>7 DEF CollectFails, Panics, AfterCollect
  <1>8. CASE UNCHANGED vars
    BY <1>8 DEF vars, taskVars
  <1>. QED  BY <1>1, <1>2, <1>3, <1>4, <1>5, <1>6, <1>7, <1>8 DEF Next, Task

\* After a change of the shared config a collector emits at most one batch under
\* the old one, however its sleeps and collections overlap with the change.
THEOREM StaleBatchBound == Spec => []AtMostOneStaleBatch
  <1>1. Init => StaleInv
    BY DEF Init, StaleInv, UsesClone
  <1>2. StaleInv => AtMostOneStaleBatch
    BY DEF StaleInv, AtMostOneStaleBatch
  <1>. QED  BY <1>1, <1>2, StaleStep, PTL DEF Spec

\* The config is replaced by a new clone only at the top of an iteration.
LEMMA CloneStep == CloneInv /\ [Next]_vars => CloneInv'
  <1>. SUFFICES ASSUME CloneInv, [Next]_vars PROVE CloneInv'
    OBVIOUS
  <1>. USE DEF CloneInv
  <1>1. CASE ConfigReplaced
    BY <1>1 DEF ConfigReplaced, taskVars
  <1>2. CASE Top
    BY <1>2 DEF Top
  <1>3. CASE Rest
    BY <1>3 DEF Rest
  <1>4. CASE Window
    BY <1>4 DEF Window
  <1>5. CASE Collect
    BY <1>5 DEF Collect
  <1>6. CASE Emit \/ CollectFails \/ Panics
    BY <1>6 DEF Emit, CollectFails, Panics, AfterCollect
  <1>7. CASE UNCHANGED vars
    BY <1>7 DEF vars, taskVars
  <1>. QED  BY <1>1, <1>2, <1>3, <1>4, <1>5, <1>6, <1>7 DEF Next, Task

\* The clone invariant holds in every state of the task.
LEMMA CloneInductive == Spec => []CloneInv
  <1>1. Init => CloneInv
    BY DEF Init, CloneInv
  <1>. QED  BY <1>1, CloneStep, PTL DEF Spec

\* A rate collector is given the window it has slept, also when the interval is
\* changed meanwhile.
THEOREM WindowSlept == Spec => []WindowIsTheSleep
  <1>1. CloneInv => WindowIsTheSleep
    BY DEF CloneInv, WindowIsTheSleep
  <1>. QED  BY <1>1, CloneInductive, PTL

\* No batch is labelled with another config version than the one its provider
\* was reconfigured with.
THEOREM LabelMatchesConfig == Spec => LabelIsTheConfigUsed
  <1>1. CloneInv /\ [Next]_vars => [label' # label => label' = fed]_vars
    <2>. SUFFICES ASSUME CloneInv, [Next]_vars, label' # label PROVE label' = fed
      OBVIOUS
    <2>1. Emit
      BY DEF Next, Task, ConfigReplaced, Top, Rest, Window, Collect, CollectFails, Panics,
             vars, taskVars
    <2>. QED  BY <2>1 DEF Emit, CloneInv
  <1>. QED  BY <1>1, CloneInductive, PTL DEF Spec, LabelIsTheConfigUsed
=============================================================================

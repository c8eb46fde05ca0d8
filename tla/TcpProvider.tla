---------------------------- MODULE TcpProvider ----------------------------
(***************************************************************************)
(* The per-pod TCP provider (talia-agent/src/modules/tcp/provider.rs):     *)
(* collect() asks pod discovery for the pods, reads two procfs files of    *)
(* each one's network namespace and reports the growth of the counters     *)
(* since the baseline it keeps per pod UID.  Pods start, stop and restart  *)
(* at every point of a collection, also between the two files.             *)
(*                                                                         *)
(* Abstracted: the established-connections gauge and the sample            *)
(* attributes, which keep no state; parsing (a file that does not parse is *)
(* an unreadable one).                                                     *)
(***************************************************************************)
EXTENDS Integers, FiniteSetsExt

CONSTANTS Uid,        \* pod UIDs
          Pid,        \* PIDs, none of which is reused while it is remembered
          Word,       \* 2^64, of which u64 differences are taken
          MaxTraffic, \* bound: counter increments per pod
          NoPid

\* The counters of TcpSnapshot, by the file they are read from.
Snmp == {"retrans_segs", "out_segs", "in_segs"}
Netstat == {"tcp_timeouts", "tcp_fast_retrans"}
Field == Snmp \cup Netstat

ASSUME TcpAssumption ==
    Word \in Nat /\ MaxTraffic \in Nat /\ NoPid \notin Pid \cup Uid

VARIABLES
    pod,        \* pod[u]: PID that stands for u's sandbox, or NoPid
    count,      \* count[u]: the counters in u's network namespace
    phase,      \* "idle", or "reading" the pods of a refresh
    pods,       \* what is left of the list: UID -> PID, NoPid if not listed
    seen,       \* UIDs of the list handled so far
    half,       \* the pod whose first file has been read, with its content
    previous,   \* the baselines, NoBaseline where there is none
    (* History, read by the properties only. *)
    real,       \* real[u]: increments of u's counters since the agent started
    reported    \* reported[u]: the sum of the deltas emitted for u

nodeVars == <<pod, count, real>>
vars == <<nodeVars, phase, pods, seen, half, previous, reported>>

Zero == [f \in Field |-> 0]
NoBaseline == [pid |-> NoPid, snapshot |-> Zero]
NoHalf == [uid |-> NoPid, snmp |-> [f \in Snmp |-> 0]]
NoPods == [u \in Uid |-> NoPid]

\* Pods may have been running, and counting, before the agent started.
Init ==
    /\ pod \in [Uid -> Pid \cup {NoPid}]
    /\ \A u, v \in Uid : u # v /\ pod[u] # NoPid => pod[u] # pod[v]
    /\ count \in [Uid -> [Field -> 0..1]]
    /\ phase = "idle" /\ pods = NoPods /\ seen = {} /\ half = NoHalf
    /\ previous = [u \in Uid |-> NoBaseline]
    /\ real = [u \in Uid |-> Zero] /\ reported = [u \in Uid |-> Zero]

-----------------------------------------------------------------------------
(* The node. *)

Traffic(u, f) ==
    /\ pod[u] # NoPid
    /\ MapThenSumSet(LAMBDA g : real[u][g], Field) < MaxTraffic
    /\ count' = [count EXCEPT ![u][f] = @ + 1]
    /\ real' = [real EXCEPT ![u][f] = @ + 1]
    /\ UNCHANGED <<pod, phase, pods, seen, half, previous, reported>>

\* A sandbox is created, or replaced by a new one.
PodStarts(u, p) ==
    /\ \A v \in Uid : p \notin {pod[v], pods[v], previous[v].pid}
    /\ pod' = [pod EXCEPT ![u] = p]
    /\ count' = [count EXCEPT ![u] = Zero]
    /\ UNCHANGED <<real, phase, pods, seen, half, previous, reported>>

PodStops(u) ==
    /\ pod[u] # NoPid
    /\ pod' = [pod EXCEPT ![u] = NoPid]
    /\ UNCHANGED <<count, real, phase, pods, seen, half, previous, reported>>

\* The network namespace is recreated under the same PID.
NamespaceReset(u) ==
    /\ pod[u] # NoPid
    /\ count' = [count EXCEPT ![u] = Zero]
    /\ UNCHANGED <<pod, real, phase, pods, seen, half, previous, reported>>

-----------------------------------------------------------------------------
(* collect *)

\* discovery.refresh(): the running pods, or those of them that could be
\* resolved.  When it fails, collect returns and nothing changes.
Refresh(S) ==
    /\ phase = "idle"
    /\ phase' = "reading" /\ seen' = {}
    /\ pods' = [u \in Uid |-> IF u \in S THEN pod[u] ELSE NoPid]
    /\ UNCHANGED <<nodeVars, half, previous, reported>>

\* The next pod: /proc/<pid>/net/snmp is read ...
ReadSnmp(u) ==
    /\ phase = "reading" /\ half = NoHalf
    /\ pods[u] # NoPid /\ pod[u] = pods[u]
    /\ half' = [uid |-> u, snmp |-> [f \in Snmp |-> count[u][f]]]
    /\ UNCHANGED <<nodeVars, phase, pods, seen, previous, reported>>

\* ... or it, or the second file, cannot be: the baseline is kept.
Unreadable(u) ==
    /\ phase = "reading" /\ half.uid \in {u, NoPid}
    /\ pods[u] # NoPid
    /\ half' = NoHalf
    /\ pods' = [pods EXCEPT ![u] = NoPid] /\ seen' = seen \cup {u}
    /\ UNCHANGED <<nodeVars, phase, previous, reported>>

\* Mutant: one counter is left out of the comparison.
OneForgotten(old, new) == \E f \in Field \ {"tcp_timeouts"} : new[f] < old[f]

\* True when any cumulative counter moved backwards.
SnapshotReset(old, new) ==
    \/ new["retrans_segs"] < old["retrans_segs"]
    \/ new["out_segs"] < old["out_segs"]
    \/ new["in_segs"] < old["in_segs"]
    \/ new["tcp_timeouts"] < old["tcp_timeouts"]
    \/ new["tcp_fast_retrans"] < old["tcp_fast_retrans"]

\* x - y of two u64 in a release build.
Minus(x, y) == IF x >= y THEN x - y ELSE x - y + Word

\* The deltas emitted (delta_samples): none on first sighting, PID change or
\* reset.
Deltas(base, p, new) ==
    IF base.pid # p \/ SnapshotReset(base.snapshot, new) THEN Zero
    ELSE [f \in Field |-> Minus(new[f], base.snapshot[f])]

\* ... then /proc/<pid>/net/netstat, which completes the snapshot; the deltas
\* are emitted and the baseline is replaced.
ReadNetstat(u) ==
    LET new == [f \in Field |-> IF f \in Snmp THEN half.snmp[f] ELSE count[u][f]]
        d   == Deltas(previous[u], pods[u], new)
    IN  /\ phase = "reading" /\ half.uid = u
        /\ pod[u] = pods[u]
        /\ reported' = [reported EXCEPT ![u] = [f \in Field |-> @[f] + d[f]]]
        /\ previous' = [previous EXCEPT ![u] = [pid |-> pods[u], snapshot |-> new]]
        /\ half' = NoHalf
        /\ pods' = [pods EXCEPT ![u] = NoPid] /\ seen' = seen \cup {u}
        /\ UNCHANGED <<nodeVars, phase>>

\* previous.retain(seen)
Retain == [u \in Uid |-> IF u \in seen THEN previous[u] ELSE NoBaseline]

Finish ==
    /\ phase = "reading" /\ half = NoHalf
    /\ pods = NoPods
    /\ phase' = "idle"
    /\ previous' = Retain
    /\ UNCHANGED <<nodeVars, pods, seen, half, reported>>

Next ==
    \/ \E u \in Uid : \/ \E f \in Field : Traffic(u, f)
                      \/ \E p \in Pid : PodStarts(u, p)
                      \/ PodStops(u) \/ NamespaceReset(u)
                      \/ ReadSnmp(u) \/ ReadNetstat(u) \/ Unreadable(u)
    \/ \E S \in SUBSET {u \in Uid : pod[u] # NoPid} : Refresh(S)
    \/ Finish

Spec == Init /\ [][Next]_vars

-----------------------------------------------------------------------------
(* Properties. *)

\* No traffic is reported that did not happen while the agent ran, and none
\* twice: not on first sighting, after a restart, after a reset hidden by new
\* traffic, or after rounds in which the pod was unreadable or unlisted; and no
\* subtraction wraps around, which would report some 2^64 segments.
NoPhantomTraffic ==
    \A u \in Uid, f \in Field : reported[u][f] <= real[u][f]
=============================================================================

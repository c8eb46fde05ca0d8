-------------------------- MODULE TcpProviderProofs --------------------------
(***************************************************************************)
(* Proofs about the per-pod TCP provider, for any pods, PIDs and amount of *)
(* traffic.                                                                *)
(***************************************************************************)
EXTENDS TcpProvider, TLAPS

Counts == [Field -> Nat]

\* What the first file holds.
SnmpCounts == [Snmp -> Nat]

TypeInv ==
    /\ pod \in [Uid -> Pid \cup {NoPid}]
    /\ count \in [Uid -> Counts]
    /\ phase \in {"idle", "reading"}
    /\ pods \in [Uid -> Pid \cup {NoPid}]
    /\ half \in {NoHalf} \cup [uid : Uid, snmp : SnmpCounts]
    /\ previous \in [Uid -> [pid : Pid \cup {NoPid}, snapshot : Counts]]
    /\ real \in [Uid -> Counts]
    /\ reported \in [Uid -> Counts]

\* By how much a counter is ahead of an older value; a reset counts for nothing.
Ahead(new, old) == IF new > old THEN new - old ELSE 0

\* The growth that the snapshot in hand will report of a counter of the first
\* file.
Pending(u, f) ==
    IF previous[u].pid = pods[u] THEN Ahead(half.snmp[f], previous[u].snapshot[f]) ELSE 0

\* What has been reported, what the baseline still leaves to report and, for a
\* pod between its two files, what the first file has seen and what it has not,
\* have all happened.
NotYetReported(u) ==
    /\ \A f \in Field : reported[u][f] <= real[u][f]
    /\ pod[u] # NoPid /\ previous[u].pid = pod[u] =>
        \A f \in Field :
            reported[u][f] + Ahead(count[u][f], previous[u].snapshot[f]) <= real[u][f]
    /\ half.uid = u =>
        /\ phase = "reading" /\ pods[u] # NoPid
        /\ pod[u] = pods[u] =>
            \A f \in Snmp :
                reported[u][f] + Pending(u, f) + Ahead(count[u][f], half.snmp[f]) <= real[u][f]

TrafficInv == TypeInv /\ \A u \in Uid : NotYetReported(u)

\* A half-read pod is a pod, and there is one exactly if its uid says so.
LEMMA HalfUid ==
    ASSUME TypeInv
    PROVE  /\ half = NoHalf <=> half.uid = NoPid
           /\ \A u \in Uid : half.uid = u => half.snmp \in SnmpCounts
           /\ \A u \in Uid : u # NoPid
  BY TcpAssumption DEF TypeInv, NoHalf

\* There is no baseline and no traffic at first.
LEMMA TrafficInit == Init => TrafficInv
  <1>. SUFFICES ASSUME Init PROVE TrafficInv
    OBVIOUS
  <1>1. TypeInv
    <2>1. count \in [Uid -> Counts]
      BY DEF Init, Counts
    <2>. QED  BY <2>1 DEF Init, TypeInv, Counts, NoPods, NoBaseline, Zero
  <1>2. ASSUME NEW u \in Uid PROVE NotYetReported(u)
    BY <1>1, HalfUid DEF Init, NotYetReported, NoBaseline, NoHalf, Zero
  <1>. QED  BY <1>1, <1>2 DEF TrafficInv

\* The counters of one pod.
LEMMA CountsOf ==
    ASSUME TypeInv, NEW u \in Uid
    PROVE  /\ \A f \in Snmp : half.snmp[f] \in Nat /\ Pending(u, f) \in Nat /\ f \in Field
           /\ \A f \in Field :
                /\ count[u][f] \in Nat /\ real[u][f] \in Nat /\ reported[u][f] \in Nat
                /\ previous[u].snapshot[f] \in Nat
  <1>1. \A f \in Snmp : half.snmp[f] \in Nat
    BY DEF TypeInv, NoHalf, SnmpCounts
  <1>2. \A f \in Field : /\ count[u][f] \in Nat /\ real[u][f] \in Nat /\ reported[u][f] \in Nat
                        /\ previous[u].snapshot[f] \in Nat
    BY DEF TypeInv, Counts
  <1>3. Snmp \subseteq Field
    BY DEF Field
  <1>4. \A f \in Snmp : Pending(u, f) \in Nat
    BY <1>1, <1>2, <1>3 DEF Pending, Ahead
  <1>. QED  BY <1>1, <1>2, <1>3, <1>4

\* A saturated difference is a natural number.
LEMMA AheadNat == \A m, n \in Nat : Ahead(m, n) \in Nat
  BY DEF Ahead

\* A counter that gets no further ahead than its traffic keeps the account.
LEMMA CountChanges ==
    ASSUME TypeInv, TypeInv', NEW u \in Uid, NotYetReported(u),
           UNCHANGED <<pod, phase, pods, half, previous, reported>>,
           \A f \in Field : real[u][f] <= real'[u][f],
           \A f \in Field : \A n \in Nat :
               Ahead(count'[u][f], n) + real[u][f] <= Ahead(count[u][f], n) + real'[u][f]
    PROVE  NotYetReported(u)'
  <1>1. ASSUME NEW f \in Field
        PROVE  /\ count[u][f] \in Nat /\ real[u][f] \in Nat /\ reported[u][f] \in Nat
               /\ count'[u][f] \in Nat /\ real'[u][f] \in Nat
               /\ previous[u].snapshot[f] \in Nat
    BY CountsOf DEF TypeInv, Counts
  <1>2. ASSUME NEW f \in Field PROVE reported[u][f] <= real'[u][f]
    <2>1. reported[u][f] <= real[u][f] /\ real[u][f] <= real'[u][f]
      BY DEF NotYetReported
    <2>. QED  BY <1>1, <2>1
  <1>3. ASSUME pod[u] # NoPid, previous[u].pid = pod[u], NEW f \in Field
        PROVE  reported[u][f] + Ahead(count'[u][f], previous[u].snapshot[f]) <= real'[u][f]
    <2>. DEFINE old == previous[u].snapshot[f]
    <2>1. reported[u][f] + Ahead(count[u][f], old) <= real[u][f]
      BY <1>3 DEF NotYetReported
    <2>2. Ahead(count'[u][f], old) + real[u][f] <= Ahead(count[u][f], old) + real'[u][f]
      BY <1>1
    <2>3. Ahead(count[u][f], old) \in Nat /\ Ahead(count'[u][f], old) \in Nat
      BY <1>1, AheadNat
    <2>. QED  BY <1>1, <2>1, <2>2, <2>3
  <1>4. ASSUME half.uid = u, pod[u] = pods[u], NEW f \in Snmp
        PROVE  reported[u][f] + Pending(u, f) + Ahead(count'[u][f], half.snmp[f]) <= real'[u][f]
    <2>. DEFINE old == half.snmp[f]
    <2>1. reported[u][f] + Pending(u, f) + Ahead(count[u][f], old) <= real[u][f]
      BY <1>4 DEF NotYetReported
    <2>2. Pending(u, f) \in Nat /\ old \in Nat /\ f \in Field
      BY CountsOf
    <2>3. Ahead(count'[u][f], old) + real[u][f] <= Ahead(count[u][f], old) + real'[u][f]
      BY <2>2
    <2>4. Ahead(count[u][f], old) \in Nat /\ Ahead(count'[u][f], old) \in Nat
      BY <1>1, <2>2, AheadNat
    <2>. QED  BY <1>1, <2>1, <2>2, <2>3, <2>4
  <1>5. \A f : Pending(u, f)' = Pending(u, f)
    BY DEF Pending
  <1>. QED  BY <1>2, <1>3, <1>4, <1>5 DEF NotYetReported

\* A step that touches nothing of a pod leaves its account alone.
LEMMA OtherPod ==
    ASSUME NEW u \in Uid, NotYetReported(u),
           pod'[u] = pod[u], count'[u] = count[u], pods'[u] = pods[u],
           previous'[u] = previous[u], real'[u] = real[u], reported'[u] = reported[u],
           phase' = phase, half' = half \/ half'.uid # u
    PROVE  NotYetReported(u)'
  BY DEF NotYetReported, Pending, Ahead

\* No step of a pod, of discovery or of the collector puts a baseline ahead of
\* the counters it is compared with.
LEMMA TrafficStep == TrafficInv /\ [Next]_vars => TrafficInv'
  <1>. SUFFICES ASSUME TrafficInv, [Next]_vars PROVE TrafficInv'
    OBVIOUS
  <1>0. TypeInv /\ \A u \in Uid : NotYetReported(u)
    BY DEF TrafficInv
  <1>. USE <1>0, HalfUid
  <1>1. ASSUME NEW u \in Uid, NEW f \in Field, Traffic(u, f) PROVE TrafficInv'
    <2>1. TypeInv'
      BY <1>1 DEF Traffic, TypeInv, Counts
    <2>2. NotYetReported(u)'
      <3>1. /\ count'[u] = [count[u] EXCEPT ![f] = @ + 1]
            /\ real'[u] = [real[u] EXCEPT ![f] = @ + 1]
        BY <1>1 DEF Traffic, TypeInv
      <3>2. UNCHANGED <<pod, phase, pods, half, previous, reported>>
        BY <1>1 DEF Traffic
      <3>3. \A g \in Field : real[u][g] <= real'[u][g]
        BY <3>1, CountsOf DEF TypeInv, Counts
      <3>4. \A g \in Field : \A n \in Nat :
                Ahead(count'[u][g], n) + real[u][g] <= Ahead(count[u][g], n) + real'[u][g]
        BY <3>1, CountsOf DEF Ahead, TypeInv, Counts
      <3>. QED  BY <2>1, <3>2, <3>3, <3>4, CountChanges
    <2>3. ASSUME NEW v \in Uid, v # u PROVE NotYetReported(v)'
      BY <1>1, <2>3, OtherPod DEF Traffic, TypeInv
    <2>. QED  BY <2>1, <2>2, <2>3 DEF TrafficInv
  <1>2. ASSUME NEW u \in Uid, NEW p \in Pid, PodStarts(u, p) PROVE TrafficInv'
    <2>1. TypeInv'
      BY <1>2 DEF PodStarts, TypeInv, Counts, Zero
    <2>2. NotYetReported(u)'
      BY <1>2, TcpAssumption DEF PodStarts, TypeInv, Counts, NotYetReported
    <2>3. ASSUME NEW v \in Uid, v # u PROVE NotYetReported(v)'
      BY <1>2, <2>3, OtherPod DEF PodStarts, TypeInv
    <2>. QED  BY <2>1, <2>2, <2>3 DEF TrafficInv
  <1>3. ASSUME NEW u \in Uid, PodStops(u) PROVE TrafficInv'
    <2>1. TypeInv'
      BY <1>3 DEF PodStops, TypeInv
    <2>2. NotYetReported(u)'
      BY <1>3 DEF PodStops, TypeInv, NotYetReported
    <2>3. ASSUME NEW v \in Uid, v # u PROVE NotYetReported(v)'
      BY <1>3, <2>3, OtherPod DEF PodStops, TypeInv
    <2>. QED  BY <2>1, <2>2, <2>3 DEF TrafficInv
  <1>4. ASSUME NEW u \in Uid, NamespaceReset(u) PROVE TrafficInv'
    <2>1. TypeInv'
      BY <1>4 DEF NamespaceReset, TypeInv, Counts, Zero
    <2>2. NotYetReported(u)'
      <3>1. count'[u] = Zero
        BY <1>4 DEF NamespaceReset, TypeInv
      <3>2. UNCHANGED <<pod, real, phase, pods, half, previous, reported>>
        BY <1>4 DEF NamespaceReset
      <3>3. \A f \in Field : real[u][f] <= real'[u][f]
        BY <3>2, CountsOf
      <3>4. \A f \in Field : \A n \in Nat :
                Ahead(count'[u][f], n) + real[u][f] <= Ahead(count[u][f], n) + real'[u][f]
        BY <3>1, <3>2, CountsOf DEF Ahead, Zero
      <3>. QED  BY <2>1, <3>2, <3>3, <3>4, CountChanges
    <2>3. ASSUME NEW v \in Uid, v # u PROVE NotYetReported(v)'
      BY <1>4, <2>3, OtherPod DEF NamespaceReset, TypeInv
    <2>. QED  BY <2>1, <2>2, <2>3 DEF TrafficInv
  <1>5. ASSUME NEW u \in Uid, ReadSnmp(u) PROVE TrafficInv'
    <2>1. TypeInv'
      <3>1. [f \in Snmp |-> count[u][f]] \in SnmpCounts
        BY CountsOf DEF SnmpCounts
      <3>2. /\ half' = [uid |-> u, snmp |-> [f \in Snmp |-> count[u][f]]]
            /\ UNCHANGED <<pod, count, real, phase, pods, previous, reported>>
        BY <1>5 DEF ReadSnmp, nodeVars
      <3>3. half' \in [uid : Uid, snmp : SnmpCounts]
        BY <3>1, <3>2
      <3>. QED  BY <3>2, <3>3 DEF TypeInv
    <2>2. NotYetReported(u)'
      <3>1. /\ half' = [uid |-> u, snmp |-> [f \in Snmp |-> count[u][f]]]
            /\ pods[u] # NoPid /\ pod[u] = pods[u] /\ phase = "reading"
            /\ UNCHANGED <<pod, count, real, phase, pods, previous, reported>>
        BY <1>5 DEF ReadSnmp, nodeVars
      <3>2. ASSUME NEW f \in Snmp
            PROVE  reported[u][f] + Pending(u, f)' + Ahead(count[u][f], count[u][f]) <= real[u][f]
        <4>1. Pending(u, f)' = IF previous[u].pid = pods[u]
                               THEN Ahead(count[u][f], previous[u].snapshot[f]) ELSE 0
          BY <3>1 DEF Pending
        <4>2. /\ f \in Field /\ reported[u][f] \in Nat /\ real[u][f] \in Nat
              /\ count[u][f] \in Nat /\ previous[u].snapshot[f] \in Nat
          BY CountsOf
        <4>3. /\ reported[u][f] <= real[u][f]
              /\ previous[u].pid = pods[u] =>
                    reported[u][f] + Ahead(count[u][f], previous[u].snapshot[f]) <= real[u][f]
          BY <3>1, <4>2 DEF NotYetReported
        <4>. QED  BY <4>1, <4>2, <4>3 DEF Ahead
      <3>3. \A f \in Snmp : half'.snmp[f] = count[u][f]
        BY <3>1
      <3>. QED  BY <3>1, <3>2, <3>3 DEF NotYetReported
    <2>3. ASSUME NEW v \in Uid, v # u PROVE NotYetReported(v)'
      BY <1>5, <2>3, OtherPod DEF ReadSnmp, nodeVars
    <2>. QED  BY <2>1, <2>2, <2>3 DEF TrafficInv
  <1>6. ASSUME NEW u \in Uid, Unreadable(u) PROVE TrafficInv'
    <2>1. TypeInv'
      BY <1>6 DEF Unreadable, TypeInv, nodeVars
    <2>2. ASSUME NEW v \in Uid PROVE NotYetReported(v)'
      BY <1>6 DEF Unreadable, NotYetReported, NoHalf, nodeVars
    <2>. QED  BY <2>1, <2>2 DEF TrafficInv
  <1>7. ASSUME NEW u \in Uid, ReadNetstat(u) PROVE TrafficInv'
    <2>. DEFINE new == [f \in Field |-> IF f \in Snmp THEN half.snmp[f] ELSE count[u][f]]
                base == previous[u]
                d == Deltas(base, pods[u], new)
    <2>1. new \in Counts /\ base.snapshot \in Counts
      <3>1. \A f \in Snmp : half.snmp[f] \in Nat
        BY CountsOf
      <3>2. \A f \in Field : count[u][f] \in Nat
        BY CountsOf
      <3>3. base.snapshot \in Counts
        BY DEF TypeInv
      <3>. QED  BY <3>1, <3>2, <3>3 DEF Counts
    <2>2. d \in Counts /\ \A f \in Field : d[f] <= (IF base.pid = pods[u] THEN Ahead(new[f], base.snapshot[f]) ELSE 0)
      <3>. HIDE DEF new, base
      <3>1. \A f \in Field : new[f] \in Nat /\ base.snapshot[f] \in Nat
        BY <2>1 DEF Counts
      <3>2. CASE base.pid = pods[u] /\ ~ SnapshotReset(base.snapshot, new)
        <4>1. \A f \in Field : new[f] >= base.snapshot[f]
          <5>1. /\ ~ (new["retrans_segs"] < base.snapshot["retrans_segs"])
                /\ ~ (new["out_segs"] < base.snapshot["out_segs"])
                /\ ~ (new["in_segs"] < base.snapshot["in_segs"])
                /\ ~ (new["tcp_timeouts"] < base.snapshot["tcp_timeouts"])
                /\ ~ (new["tcp_fast_retrans"] < base.snapshot["tcp_fast_retrans"])
            BY <3>2 DEF SnapshotReset
          <5>2. \A f \in Field : ~ (new[f] < base.snapshot[f])
            BY <5>1 DEF Field, Snmp, Netstat
          <5>. QED  BY <3>1, <5>2
        <4>2. d = [f \in Field |-> Minus(new[f], base.snapshot[f])]
          BY <3>2 DEF Deltas
        <4>. HIDE DEF d
        <4>3. \A f \in Field : d[f] = new[f] - base.snapshot[f] /\ d[f] \in Nat
          BY <3>1, <4>1, <4>2 DEF Minus
        <4>. QED  BY <3>1, <3>2, <4>1, <4>2, <4>3 DEF Counts, Ahead
      <3>3. CASE ~ (base.pid = pods[u] /\ ~ SnapshotReset(base.snapshot, new))
        <4>1. d = Zero
          BY <3>3 DEF Deltas
        <4>. HIDE DEF d
        <4>. QED  BY <3>1, <4>1 DEF Zero, Counts, Ahead
      <3>. QED  BY <3>2, <3>3
    <2>3. TypeInv'
      <3>1. reported' = [reported EXCEPT ![u] = [f \in Field |-> reported[u][f] + d[f]]]
        BY <1>7 DEF ReadNetstat
      <3>2. previous' \in [Uid -> [pid : Pid \cup {NoPid}, snapshot : Counts]]
        BY <1>7, <2>1 DEF ReadNetstat, TypeInv
      <3>. HIDE DEF d
      <3>3. [f \in Field |-> reported[u][f] + d[f]] \in Counts
        BY <2>2 DEF TypeInv, Counts
      <3>4. reported' \in [Uid -> Counts]
        BY <3>1, <3>3 DEF TypeInv
      <3>. QED  BY <1>7, <3>2, <3>4 DEF ReadNetstat, TypeInv, nodeVars
    <2>4. /\ pod[u] = pods[u] /\ pods[u] # NoPid
          /\ reported'[u] = [f \in Field |-> reported[u][f] + d[f]]
          /\ previous'[u] = [pid |-> pods[u], snapshot |-> new]
      BY <1>7 DEF ReadNetstat, NotYetReported, TypeInv
    <2>5. UNCHANGED <<pod, count, real>>
      BY <1>7 DEF ReadNetstat, nodeVars
    <2>6. ASSUME NEW f \in Snmp
          PROVE  reported[u][f] + d[f] + Ahead(count[u][f], new[f]) <= real[u][f]
      <3>1. reported[u][f] + Pending(u, f) + Ahead(count[u][f], half.snmp[f]) <= real[u][f]
        BY <1>7, <2>4 DEF ReadNetstat, NotYetReported
      <3>2. f \in Field /\ new[f] = half.snmp[f]
        BY CountsOf
      <3>3. d[f] <= Pending(u, f) /\ d[f] \in Nat
        <4>. HIDE DEF d, new
        <4>. QED  BY <2>2, <3>2 DEF Pending, Counts
      <3>4. /\ Pending(u, f) \in Nat /\ reported[u][f] \in Nat /\ real[u][f] \in Nat
            /\ Ahead(count[u][f], half.snmp[f]) \in Nat
        BY <3>2, CountsOf, AheadNat
      <3>. HIDE DEF d, new
      <3>. QED  BY <3>1, <3>2, <3>3, <3>4
    <2>7. ASSUME NEW f \in Field \ Snmp
          PROVE  reported[u][f] + d[f] + Ahead(count[u][f], new[f]) <= real[u][f]
      <3>1. new[f] = count[u][f]
        OBVIOUS
      <3>2. /\ count[u][f] \in Nat /\ reported[u][f] \in Nat /\ real[u][f] \in Nat
            /\ base.snapshot[f] \in Nat
        BY CountsOf
      <3>3. /\ reported[u][f] <= real[u][f]
            /\ base.pid = pods[u] =>
                  reported[u][f] + Ahead(count[u][f], base.snapshot[f]) <= real[u][f]
        BY <2>4 DEF NotYetReported
      <3>4. d[f] \in Nat /\ d[f] <= (IF base.pid = pods[u] THEN Ahead(new[f], base.snapshot[f]) ELSE 0)
        BY <2>2 DEF Counts
      <3>. HIDE DEF d, new, base
      <3>5. Ahead(count[u][f], new[f]) = 0
        BY <3>1, <3>2 DEF Ahead
      <3>6. Ahead(count[u][f], base.snapshot[f]) \in Nat
        BY <3>2, AheadNat
      <3>. QED  BY <3>1, <3>2, <3>3, <3>4, <3>5, <3>6
    <2>8. NotYetReported(u)'
      <3>1. half'.uid # u
        BY <1>7 DEF ReadNetstat, NoHalf
      <3>2. ASSUME NEW f \in Field
            PROVE  reported'[u][f] + Ahead(count[u][f], new[f]) <= real[u][f]
        BY <2>4, <2>6, <2>7
      <3>3. ASSUME NEW f \in Field PROVE reported'[u][f] <= real[u][f]
        <4>1. Ahead(count[u][f], new[f]) \in Nat /\ reported'[u][f] \in Nat /\ real[u][f] \in Nat
          BY <2>1, <2>3 DEF Ahead, TypeInv, Counts
        <4>. QED  BY <3>2, <4>1
      <3>. QED  BY <2>4, <2>5, <3>1, <3>2, <3>3 DEF NotYetReported
    <2>9. ASSUME NEW v \in Uid, v # u PROVE NotYetReported(v)'
      BY <1>7, <2>9, OtherPod DEF ReadNetstat, TypeInv, nodeVars, NoHalf
    <2>. QED  BY <2>3, <2>8, <2>9 DEF TrafficInv
  <1>8. ASSUME NEW S \in SUBSET Uid, Refresh(S) PROVE TrafficInv'
    <2>1. TypeInv'
      BY <1>8 DEF Refresh, TypeInv, nodeVars
    <2>2. ASSUME NEW u \in Uid PROVE NotYetReported(u)'
      BY <1>8 DEF Refresh, NotYetReported, nodeVars
    <2>. QED  BY <2>1, <2>2 DEF TrafficInv
  <1>9. CASE Finish
    <2>1. TypeInv'
      BY <1>9 DEF Finish, Retain, TypeInv, nodeVars, NoBaseline, Counts, Zero
    <2>2. ASSUME NEW u \in Uid PROVE NotYetReported(u)'
      BY <1>9 DEF Finish, Retain, NotYetReported, nodeVars, NoBaseline, NoHalf
    <2>. QED  BY <2>1, <2>2 DEF TrafficInv
  <1>10. CASE UNCHANGED vars
    BY <1>10 DEF vars, nodeVars, TrafficInv, TypeInv, NotYetReported, Pending
  <1>. QED  BY <1>1, <1>2, <1>3, <1>4, <1>5, <1>6, <1>7, <1>8, <1>9, <1>10 DEF Next

\* The traffic invariant holds in every state of the provider.
LEMMA TrafficInductive == Spec => []TrafficInv
  BY TrafficInit, TrafficStep, PTL DEF Spec

\* All that collect has ever reported of a pod's counter has happened on it
\* since the agent started, whatever pods restarted, reset or went unread: no
\* subtraction of delta_samples wraps around.
THEOREM OnlyRealTraffic == Spec => []NoPhantomTraffic
  <1>1. TrafficInv => NoPhantomTraffic
    BY DEF TrafficInv, NotYetReported, NoPhantomTraffic
  <1>. QED  BY <1>1, TrafficInductive, PTL
==============================================================================

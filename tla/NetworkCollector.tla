-------------------------- MODULE NetworkCollector -------------------------
(***************************************************************************)
(* The network provider: two BPF tracepoints count bytes per direction and *)
(* CPU; a call goes over the keys of the map, sums the CPUs of each and    *)
(* reports the growth since the last call that got to that key.  Packets   *)
(* go on being counted while a call reads.                                 *)
(***************************************************************************)
EXTENDS Integers, FiniteSets, ProviderCall, SamplePipeline

CONSTANTS
    NetCpu,     \* the CPUs
    MaxBytes    \* bound on a CPU's counter, in packets of one byte

ASSUME NetworkAssumption == IsFiniteSet(NetCpu) /\ MaxBytes \in Nat

Direction == {"ingress", "egress"}

VARIABLES
    counters,   \* network_counters_per_cpu_map: by key, by CPU; no key before its first packet
    sent,       \* bytes that passed the tracepoints since they were attached
    reading,    \* the key a call is at, or "none", with the CPUs summed so far
    finished,   \* the keys this call has finished, with the bytes of their samples
    previous,   \* NetworkCollector::previous_network_counters
    reported,   \* bytes in samples that were returned
    dropped     \* bytes in samples of calls that failed at a later key

networkVars == <<counters, sent, reading, finished, previous, reported, dropped>>

NoKey == [key |-> "none", cpus |-> {}, sum |-> 0]
Zero == [d \in Direction |-> 0]

\* NetworkCollector::load.
NetworkInit ==
    /\ counters = <<>>
    /\ sent = Zero
    /\ reading = NoKey
    /\ finished = <<>>
    /\ previous = Zero
    /\ reported = Zero
    /\ dropped = Zero

\* account_network_bytes: the entry is created by the first packet of its direction.
Accounted(d, c) ==
    [k \in DOMAIN counters \cup {d} |->
        [cpu \in NetCpu |->
            (IF k \in DOMAIN counters THEN counters[k][cpu] ELSE 0)
            + (IF k = d /\ cpu = c THEN 1 ELSE 0)]]

\* talia_netif_receive_skb and talia_net_dev_xmit.
Packet(d, c) ==
    /\ name = "network"
    /\ sent[d] < MaxBytes
    /\ counters' = Accounted(d, c)
    /\ sent' = [sent EXCEPT ![d] = @ + 1]
    /\ UNCHANGED <<reading, finished, previous, reported, dropped, callVars>>

\* The next key of the map: those that were there when the iterator passed.
NextKey ==
    /\ Running("network") /\ reading = NoKey
    /\ \E k \in DOMAIN counters \ DOMAIN finished : reading' = [NoKey EXCEPT !.key = k]
    /\ UNCHANGED <<counters, sent, finished, previous, reported, dropped, callVars>>

\* sum_counters: the values of the CPUs are read one by one.
SumCpu(c) ==
    /\ Running("network")
    /\ reading # NoKey /\ c \notin reading.cpus
    /\ reading' = [reading EXCEPT !.cpus = @ \cup {c}, !.sum = @ + counters[reading.key][c]]
    /\ UNCHANGED <<counters, sent, finished, previous, reported, dropped, callVars>>

\* Mutant: the baseline is not kept by key.
BaselineForAll(k, current) == [d \in Direction |-> current]

\* previous_network_counters.insert(key, current).
NewBaseline(k, current) == [previous EXCEPT ![k] = current]

\* The sample of one key.
KeyDone ==
    /\ Running("network")
    /\ reading # NoKey /\ reading.cpus = NetCpu
    /\ LET k == reading.key
           bytes == IF reading.sum > previous[k] THEN reading.sum - previous[k] ELSE 0
       IN  /\ finished' = [j \in DOMAIN finished \cup {k} |-> IF j = k THEN bytes ELSE finished[j]]
           /\ previous' = NewBaseline(k, reading.sum)
    /\ reading' = NoKey
    /\ UNCHANGED <<counters, sent, reported, dropped, callVars>>

Added(total) == [d \in Direction |-> total[d] + (IF d \in DOMAIN finished THEN finished[d] ELSE 0)]

\* NetworkCollector::collect returns.  A key that was never read yet may have
\* appeared behind the iterator.
NetworkReturns ==
    /\ Running("network") /\ reading = NoKey
    /\ \A k \in DOMAIN counters \ DOMAIN finished : previous[k] = 0
    /\ reported' = Added(reported)
    /\ finished' = <<>>
    /\ Return(IF finished = <<>> THEN {} ELSE NetworkSamples)
    /\ UNCHANGED <<counters, sent, reading, previous, dropped>>

\* keys() or get() fails: the samples made so far go with the error.
NetworkFails ==
    /\ Running("network")
    /\ dropped' = Added(dropped)
    /\ finished' = <<>>
    /\ reading' = NoKey
    /\ Fail
    /\ UNCHANGED <<counters, sent, previous, reported>>

NetworkCall ==
    \/ NextKey
    \/ \E c \in NetCpu : SumCpu(c)
    \/ KeyDone
    \/ NetworkReturns
    \/ NetworkFails

NetworkNext == NetworkCall \/ \E d \in Direction, c \in NetCpu : Packet(d, c)

\* The packets, of one byte each, that the CPUs of S have counted in f.
Packets(f, S) == UNION {{c} \X (1..f[c]) : c \in S}

\* Every byte that passed a tracepoint is reported at most once, although the
\* CPUs are read while they count and a call may fail between two keys; what is
\* not reported yet is still ahead of the baseline, unless it was in a sample
\* that a failing NetworkCollector::collect threw away.
NetworkReportedOnce ==
    \A d \in Direction :
        LET pending == IF d \in DOMAIN finished THEN finished[d] ELSE 0
            counted == IF d \in DOMAIN counters THEN Cardinality(Packets(counters[d], NetCpu)) ELSE 0
        IN  /\ reported[d] + dropped[d] + pending = previous[d]
            /\ previous[d] <= counted
            /\ counted = sent[d]
============================================================================

------------------------------- MODULE DiskIo -------------------------------
(***************************************************************************)
(* The disk I/O collector (talia-agent/src/modules/disk_io): two BPF       *)
(* programs on the block layer's issue and complete tracepoints keep       *)
(* per-CPU counters and a map of request start times; user space sums the  *)
(* counters over the CPUs, one CPU after the other while I/O goes on, and  *)
(* reports the growth since the last collection.                           *)
(*                                                                         *)
(* The block layer issues a request, may requeue it and issue it again,    *)
(* and completes it in one piece or in several, from its front.  The       *)
(* programs know a request by its device, first sector and bytes: those at *)
(* issue against those of the piece that completes.                        *)
(*                                                                         *)
(* The model is of one direction (the ledgers of reads and writes share    *)
(* nothing).  A program runs to its end on its CPU, so it is one step.     *)
(* Abstracted: the byte counters (they move with the operation counters),  *)
(* requests that neither read nor write, the counters map having no room   *)
(* (it has an entry for each direction), and the width of u64 counters.    *)
(***************************************************************************)
EXTENDS Integers, FiniteSets, FiniteSetsExt

CONSTANTS Cpu,
          Request,    \* requests the block layer may have in flight
          Extent,     \* [sector, bytes] of a request; a sector is of one device
          SectorSize, \* 512
          MaxSectors, \* the sectors of the longest request
          Capacity,   \* MAX_IN_FLIGHT_REQUESTS
          MaxTime,    \* bound on the clock
          MaxIo,      \* bound on the issues
          MaxCollections \* bound on the collections

ASSUME DiskAssumption ==
    /\ IsFiniteSet(Cpu)
    /\ SectorSize \in Nat \ {0} /\ MaxSectors \in Nat
    /\ \A e \in Extent : e.bytes \in Nat /\ e.bytes % SectorSize = 0
    /\ Capacity \in Nat \ {0} /\ MaxTime \in Nat /\ MaxIo \in Nat
    /\ MaxCollections \in Nat

Counter == {"operations", "latency", "errors", "inflight"}
Zero == [x \in Counter |-> 0]

VARIABLES
    now,        \* bpf_ktime_get_ns
    flight,     \* what is left of each request in the device
    start,      \* disk_io_request_start_map, a function on the keys it holds
    counters,   \* disk_io_counters_per_cpu_map
    reading,    \* the collection: CPUs still to be read, sum so far
    previous,   \* previous_disk_io_counters
    sample,     \* the last sample, without the counts that `reported` adds up
    (* History, read by the properties only. *)
    issued,      \* how often requests have been issued
    collections, \* how many collections have begun
    evicted,     \* how many start times have been evicted from the full map
    overwritten, \* how many start times another has been written over
    done,        \* pieces of requests that have completed / failed since the load
    reported,    \* the sums of the operations and errors reported
    lost         \* those that a failed collection had taken off and dropped

bpfVars  == <<start, counters>>
userVars == <<reading, previous, sample, reported, lost>>
histVars == <<issued, collections, evicted, overwritten, done>>
vars == <<now, flight, bpfVars, userVars, histVars>>

Idle == [cpus |-> {}, sum |-> Zero, active |-> FALSE]
NoSample == [average |-> 0, inflight |-> 0]

\* The programs are attached while some requests are already in the device.
Init ==
    /\ now = 0
    /\ flight \in UNION {[S -> Extent] : S \in SUBSET Request}
    /\ start = [k \in {} |-> 0]
    /\ counters = [c \in Cpu |-> Zero]
    /\ reading = Idle /\ previous = Zero /\ sample = NoSample
    /\ issued = 0 /\ collections = 0 /\ evicted = 0 /\ overwritten = 0
    /\ done = [operations |-> 0, errors |-> 0]
    /\ reported = [operations |-> 0, errors |-> 0] /\ lost = reported

Tick ==
    /\ now < MaxTime
    /\ now' = now + 1
    /\ UNCHANGED <<flight, bpfVars, userVars, histVars>>

-----------------------------------------------------------------------------
(* The BPF programs. *)

Entries == DOMAIN start

\* The map with k's start time, and of the others only those of the keys ks.
StoredWith(k, ks) == [j \in ks \cup {k} |-> IF j = k THEN now ELSE start[j]]

\* Writing k's start time (BPF_ANY); a full map evicts another entry.
Stored(k) ==
    IF k \in Entries \/ Cardinality(Entries) < Capacity THEN {StoredWith(k, Entries)}
    ELSE {StoredWith(k, Entries \ {e}) : e \in Entries}

\* disk_io_request_key_from_ctx at issue.
IssueKey(extent) == <<extent.sector, extent.bytes>>

\* account_disk_io_issue: nothing where there are no bytes to transfer or the
\* map update fails.
AccountIssue(extent, c) ==
    LET k == IssueKey(extent)
    IN  \/ UNCHANGED <<bpfVars, evicted, overwritten>>
        \/ /\ extent.bytes # 0
           /\ start' \in Stored(k)
           /\ counters' = [counters EXCEPT ![c].inflight = @ + 1]
           /\ evicted' = evicted + Cardinality(Entries \ DOMAIN start')
           /\ overwritten' = overwritten + (IF k \in Entries THEN 1 ELSE 0)

Issue(r, extent, c) ==
    /\ r \notin DOMAIN flight
    /\ issued < MaxIo
    /\ issued' = issued + 1
    /\ flight' = [q \in DOMAIN flight \cup {r} |-> IF q = r THEN extent ELSE flight[q]]
    /\ AccountIssue(extent, c)
    /\ UNCHANGED <<now, userVars, collections, done>>

\* The driver puts a request, or what is left of it, back on its queue; it is
\* issued again.
Reissue(r, c) ==
    /\ r \in DOMAIN flight
    /\ issued < MaxIo
    /\ issued' = issued + 1
    /\ AccountIssue(flight[r], c)
    /\ UNCHANGED <<now, flight, userVars, collections, done>>

\* The latency and in-flight counters of a CPU when the start of k is known.
Matched(n, k) ==
    IF k \in Entries
    THEN [n EXCEPT !.latency = @ + (now - start[k]), !.inflight = @ - 1]
    ELSE n

\* Mutant: a failed request is not taken out of flight.
FailedStays(n, k, failed) ==
    IF failed THEN [n EXCEPT !.errors = @ + 1]
    ELSE [Matched(n, k) EXCEPT !.operations = @ + 1]

\* Mutant: an error is counted as an operation as well.
FailedCountsTwice(n, k, failed) ==
    [Matched(n, k) EXCEPT !.errors = @ + (IF failed THEN 1 ELSE 0),
                          !.operations = @ + 1]

\* The counters of a CPU after account_disk_io_complete: latency and in-flight
\* when the request's start is known, then error or operation.
Completed(n, k, failed) ==
    IF failed THEN [Matched(n, k) EXCEPT !.errors = @ + 1]
    ELSE [Matched(n, k) EXCEPT !.operations = @ + 1]

\* disk_io_request_key_from_ctx at completion: sectors are turned into bytes.
CompleteKey(extent, sectors) == <<extent.sector, sectors * SectorSize>>

\* What is left of an extent when its first sectors have completed.
Rest(extent, sectors) ==
    [sector |-> extent.sector + sectors, bytes |-> extent.bytes - sectors * SectorSize]

\* The device ends the first sectors of a request, without or with an error;
\* the block layer traces that with the sectors as they were, and drops a
\* request of which nothing is left.  A completion of no sector is ignored (one
\* of more bytes than a u32 holds cannot be: the bytes at issue are a u32).
Complete(r, sectors, c, failed) ==
    LET k == CompleteKey(flight[r], sectors)
        rest == Rest(flight[r], sectors)
        what == IF failed THEN "errors" ELSE "operations"
    IN  /\ r \in DOMAIN flight
        /\ rest.bytes >= 0
        /\ flight' = [q \in IF rest.bytes = 0 THEN DOMAIN flight \ {r} ELSE DOMAIN flight |->
                         IF q = r THEN rest ELSE flight[q]]
        /\ IF sectors = 0 THEN UNCHANGED <<bpfVars, done>>
           ELSE /\ counters' = [counters EXCEPT ![c] = Completed(@, k, failed)]
                /\ start' = [j \in Entries \ {k} |-> start[j]]
                /\ done' = [done EXCEPT ![what] = @ + 1]
        /\ UNCHANGED <<now, userVars, issued, collections, evicted, overwritten>>

-----------------------------------------------------------------------------
(* DiskIoCollector::collect *)

CollectBegin ==
    /\ ~ reading.active
    /\ collections < MaxCollections
    /\ collections' = collections + 1
    /\ reading' = [cpus |-> Cpu, sum |-> Zero, active |-> TRUE]
    /\ UNCHANGED <<now, flight, bpfVars, previous, sample, reported, lost,
                   issued, evicted, overwritten, done>>

\* The kernel copies the CPUs' values one by one; sum_counters adds them.
ReadCpu(c) ==
    /\ c \in reading.cpus
    /\ reading' = [reading EXCEPT !.cpus = @ \ {c},
                     !.sum = [x \in Counter |-> @[x] + counters[c][x]]]
    /\ UNCHANGED <<now, flight, bpfVars, previous, sample, reported, lost, histVars>>

\* Mutant: the previous values stay those of the first collection.
KeepFirst(sum) == IF previous = Zero THEN sum ELSE previous

\* previous_disk_io_counters.insert
NewPrevious(sum) == sum

Saturating(x, y) == IF x >= y THEN x - y ELSE 0

\* The operations and errors since the last collection.
Growth ==
    [x \in {"operations", "errors"} |-> Saturating(reading.sum[x], previous[x])]

Plus(f, g) == [x \in DOMAIN f |-> f[x] + g[x]]

CollectEnd ==
    LET sum == reading.sum
        operations == Growth["operations"]
        latency == Saturating(sum.latency, previous.latency)
    IN  /\ reading.active /\ reading.cpus = {}
        /\ reading' = Idle
        /\ previous' = NewPrevious(sum)
        /\ sample' = [average |-> IF operations = 0 THEN 0 ELSE latency \div operations,
                      inflight |-> sum.inflight]
        /\ reported' = Plus(reported, Growth)
        /\ UNCHANGED <<now, flight, bpfVars, lost, histVars>>

\* The map cannot be read: the collection ends before `previous` is touched.
CollectFails ==
    /\ reading.active
    /\ reading' = Idle
    /\ UNCHANGED <<now, flight, bpfVars, previous, sample, reported, lost, histVars>>

\* The other direction's counters, read after this one's, cannot be: the
\* collection is an error, but `previous` has already moved on.
CollectDropped ==
    /\ reading.active /\ reading.cpus = {}
    /\ reading' = Idle
    /\ previous' = NewPrevious(reading.sum)
    /\ lost' = Plus(lost, Growth)
    /\ UNCHANGED <<now, flight, bpfVars, sample, reported, histVars>>

Next ==
    \/ Tick
    \/ \E r \in Request, c \in Cpu :
           \/ \E extent \in Extent : Issue(r, extent, c)
           \/ Reissue(r, c)
           \/ \E sectors \in 0..MaxSectors, failed \in BOOLEAN : Complete(r, sectors, c, failed)
    \/ CollectBegin \/ CollectEnd \/ CollectFails \/ CollectDropped
    \/ \E c \in Cpu : ReadCpu(c)

Spec == Init /\ [][Next]_vars

-----------------------------------------------------------------------------
(* Properties. *)

\* A counter summed over the CPUs.
Total(x) == SumFunctionOnSet([c \in Cpu |-> counters[c][x]], Cpu)

\* Every completion of some sectors is counted once, as an operation or as an
\* error, on whichever CPU it is seen, also of a request issued before the load.
CountedOnce ==
    Total("operations") = done.operations /\ Total("errors") = done.errors

\* The per-CPU gauges, each of which may be negative, add up to the start times
\* in the map and those that were evicted or overwritten.  So the gauge never
\* falls short of the requests whose start is known, and each eviction, each
\* requeue and each request whose start no completion matches leaves it one too
\* high: for good, or until the entry meets a completion with its key.
GaugeAccounted ==
    Total("inflight") = Cardinality(Entries) + evicted + overwritten

\* Collections that overlap I/O, and some of which fail, repeat nothing, and
\* lose nothing but what a failing collection had already taken off: reported
\* and dropped completions add up to what the last collection summed, which is
\* never more than what has happened.
ReportedConserved ==
    \A x \in {"operations", "errors"} :
        /\ reported[x] + lost[x] = previous[x]
        /\ previous[x] <= done[x]

\* "Average issue-to-completion latency for completed operations.": the
\* average is not above the time since the programs were loaded, which bounds
\* the latency of every single operation that they saw issued.
AverageWithinLatencies == sample.average <= now
=============================================================================

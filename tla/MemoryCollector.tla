-------------------------- MODULE MemoryCollector --------------------------
(***************************************************************************)
(* The memory provider: a call reads /proc/meminfo, then /proc/vmstat, and *)
(* turns the swap counters into deltas against those of the last call that *)
(* read both.  Pages are swapped at any time in between.                   *)
(***************************************************************************)
EXTENDS Integers, ProviderCall, SamplePipeline

CONSTANTS
    PageSize,   \* page_size()
    MaxPages    \* bound on the kernel's swap counters

ASSUME MemoryAssumption == PageSize \in Nat

SwapDirection == {"in", "out"}
NoCounters == [d \in SwapDirection |-> -1]

VARIABLES
    pages,           \* pswpin and pswpout
    meminfo,         \* whether this call has read /proc/meminfo
    previous_swap,   \* MemoryCollector::previous_swap, NoCounters for None
    swapped,         \* bytes reported so far, by direction
    firstSwap        \* the counters of the first call that succeeded

memoryVars == <<pages, meminfo, previous_swap, swapped, firstSwap>>

\* MemoryCollector::new.
MemoryInit ==
    /\ pages \in [SwapDirection -> 0..1]
    /\ name # "memory" => pages = [d \in SwapDirection |-> 0]
    /\ meminfo = FALSE
    /\ previous_swap = NoCounters
    /\ swapped = [d \in SwapDirection |-> 0]
    /\ firstSwap = NoCounters

\* The kernel swaps a page in or out.
SwapPage(d) ==
    /\ name = "memory"
    /\ pages[d] < MaxPages
    /\ pages' = [pages EXCEPT ![d] = @ + 1]
    /\ UNCHANGED <<meminfo, previous_swap, swapped, firstSwap, callVars>>

\* read_meminfo: a file that cannot be read, lacks a required field or has a
\* value that is no number ends the call.
ReadMeminfo ==
    /\ Running("memory") /\ ~meminfo
    /\ \/ meminfo' = TRUE /\ UNCHANGED callVars
       \/ meminfo' = FALSE /\ Fail
    /\ UNCHANGED <<pages, previous_swap, swapped, firstSwap>>

Saturating(n) == IF n < 0 THEN 0 ELSE n

\* sample_from_proc: the swap bytes of this interval.
SwapBytes(current, previous) ==
    [d \in SwapDirection |-> Saturating(current[d] - previous[d]) * PageSize]

\* Mutant: the first interval is measured from zero.
BaselineOrZero(current) ==
    IF previous_swap = NoCounters THEN [d \in SwapDirection |-> 0] ELSE previous_swap

\* previous_swap.replace(swap).unwrap_or(swap).
Baseline(current) == IF previous_swap = NoCounters THEN current ELSE previous_swap

\* read_vmstat_swap and the rest of MemoryCollector::collect.
ReadVmstat ==
    /\ Running("memory") /\ meminfo
    /\ meminfo' = FALSE
    /\ UNCHANGED pages
    /\ \/ LET bytes == SwapBytes(pages, Baseline(pages)) IN
          /\ previous_swap' = pages
          /\ swapped' = [d \in SwapDirection |-> swapped[d] + bytes[d]]
          /\ firstSwap' = IF firstSwap = NoCounters THEN pages ELSE firstSwap
          /\ Return(MemorySamples)
       \/ Fail /\ UNCHANGED <<previous_swap, swapped, firstSwap>>

MemoryCall == ReadMeminfo \/ ReadVmstat

MemoryNext == MemoryCall \/ \E d \in SwapDirection : SwapPage(d)

\* Whatever calls fail in between, and at whichever of the two files, the swap
\* traffic that MemoryCollector::collect has reported is exactly what happened
\* between the first call that succeeded and the last: a failed call neither
\* loses an interval nor counts one twice, and what was swapped before the
\* first call is not traffic.
SwapConserved ==
    \A d \in SwapDirection : swapped[d] = (previous_swap[d] - firstSwap[d]) * PageSize
============================================================================

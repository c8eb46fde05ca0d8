--------------------------- MODULE CollectCommand ---------------------------
(***************************************************************************)
(* `talia-agent collect`: one provider is loaded and called in a loop,     *)
(* until --for has passed or Ctrl-C, and its samples are printed.  The     *)
(* module composes the loop with the collectors of the memory, network,    *)
(* CPU and storage providers and with the kernel that changes under them;  *)
(* a process has one provider, so the others rest in their initial states. *)
(* The calls of the tcp and disk_io providers, which TcpProvider and       *)
(* DiskIo model, only return here.                                         *)
(***************************************************************************)
EXTENDS MemoryCollector, NetworkCollector, CpuCollector, StorageCollector

CONSTANTS
    Args,      \* by provider name, the arguments: [interval, limit, keep]
    NoLimit,   \* the value of --for when it is not given
    Slowest    \* how long a call takes at most

ASSUME CollectAssumption ==
    /\ Slowest \in Nat
    /\ \A p \in DOMAIN Args : \A a \in Args[p] :
        a.interval \in Nat /\ (a.limit = NoLimit \/ a.limit \in Nat)

VARIABLES
    at,          \* where the loop is
    args,        \* the arguments of this process
    elapsed,     \* start.elapsed(); not advanced without --for, which alone looks at it
    sleep,       \* how long the current sleep is
    collected,   \* whether a call has succeeded
    printed      \* the samples that reached the sink

loopVars == <<at, args, elapsed, sleep, collected, printed>>
vars == <<loopVars, callVars, memoryVars, networkVars, cpuVars, storageVars>>

\* CollectorSpec::sleep_before_collect: the providers that measure over a window.
SleepBeforeCollect == name \in {"cpu", "network", "disk_io"}

\* The factories of the BPF providers can fail.
FactoryCanFail == name \in {"cpu", "network", "disk_io"}

Init ==
    /\ name \in DOMAIN Args
    /\ call = "idle"
    /\ batch = {}
    /\ at = "start"
    /\ args \in Args[name]
    /\ elapsed = 0
    /\ sleep = 0
    /\ collected = FALSE
    /\ printed = {}
    /\ MemoryInit
    /\ NetworkInit
    /\ CpuInit
    /\ StorageInit

----------------------------------------------------------------------------
\* Up to the loop: a zero interval is refused, the provider is loaded.
Start ==
    /\ at = "start"
    /\ \/ args.interval > 0 /\ at' = "top"
       \/ (args.interval = 0 \/ FactoryCanFail) /\ at' = "failed"
    /\ UNCHANGED <<args, elapsed, sleep, collected, printed, callVars>>

\* The top of the loop.
Top ==
    /\ at = "top"
    /\ at' = IF SleepBeforeCollect THEN "asleep_before" ELSE "collect"
    /\ sleep' = IF SleepBeforeCollect THEN args.interval ELSE 0
    /\ UNCHANGED <<args, elapsed, collected, printed, callVars>>

Later(time) == IF args.limit = NoLimit THEN elapsed ELSE elapsed + time

Wake ==
    /\ at \in {"asleep_before", "asleep_after"}
    /\ at' = IF at = "asleep_before" THEN "collect" ELSE "top"
    /\ elapsed' = Later(sleep)
    /\ sleep' = 0
    /\ UNCHANGED <<args, collected, printed, callVars>>

\* set_window, and collect is called.
Call ==
    /\ at = "collect"
    /\ at' = "called"
    /\ call' = "running"
    /\ UNCHANGED <<args, elapsed, sleep, collected, printed, name, batch>>

\* collect has returned: the samples go through the processors to the sink.
Returned ==
    /\ at = "called" /\ call \in {"ok", "error"}
    /\ \E time \in 0..Slowest : elapsed' = Later(time)
    /\ collected' = (collected \/ call = "ok")
    /\ printed' = printed \cup Processed(batch, args.keep)
    /\ at' = "check"
    /\ call' = "idle"
    /\ batch' = {}
    /\ UNCHANGED <<args, sleep, name>>

\* Mutant: the loop ends only after the limit has passed.
LimitPassed == args.limit # NoLimit /\ elapsed > args.limit

LimitReached == args.limit # NoLimit /\ elapsed >= args.limit

\* Mutant: the last sleep is as long as the others.
WholeSleep == args.interval

\* interval.min(limit.saturating_sub(start.elapsed())).
RestOfInterval ==
    IF args.limit = NoLimit \/ args.interval <= args.limit - elapsed
    THEN args.interval ELSE Saturating(args.limit - elapsed)

\* The end of a turn: break, sleep or go on.
Check ==
    /\ at = "check"
    /\ \/ LimitReached /\ at' = (IF collected THEN "ok" ELSE "failed") /\ UNCHANGED sleep
       \/ ~LimitReached /\ SleepBeforeCollect /\ at' = "top" /\ UNCHANGED sleep
       \/ ~LimitReached /\ ~SleepBeforeCollect /\ at' = "asleep_after" /\ sleep' = RestOfInterval
    /\ UNCHANGED <<args, elapsed, collected, printed, callVars>>

\* The select finds that Ctrl-C was pressed, or cannot be listened for, before
\* the loop begins or where it awaits.
CtrlC ==
    /\ at \in {"top", "asleep_before", "asleep_after"}
    /\ at' \in {"ok", "failed"}
    /\ UNCHANGED <<args, elapsed, sleep, collected, printed, callVars>>

\* The providers that other modules have in detail.
OtherCall ==
    /\ \/ Running("tcp") /\ \E samples \in {{}, TcpSamples(FALSE), TcpSamples(TRUE)} : Return(samples)
       \/ Running("disk_io") /\ \E latency \in BOOLEAN : Return(DiskIoSamples(latency))
       \/ (Running("tcp") \/ Running("disk_io")) /\ Fail
    /\ UNCHANGED loopVars

Loop == Start \/ Top \/ Wake \/ Call \/ Returned \/ Check

Exited == at \in {"ok", "failed"} /\ UNCHANGED vars

\* Where the kernel's steps are taken.  The loop's own steps neither read nor
\* change what the kernel does, so anywhere else they commute with it.
Waiting == at \in {"asleep_before", "asleep_after"} \/ call = "running"

Next ==
    \/ /\ Loop \/ CtrlC \/ OtherCall
       /\ UNCHANGED <<memoryVars, networkVars, cpuVars, storageVars>>
    \/ Waiting /\ MemoryNext /\ UNCHANGED <<loopVars, networkVars, cpuVars, storageVars>>
    \/ Waiting /\ NetworkNext /\ UNCHANGED <<loopVars, memoryVars, cpuVars, storageVars>>
    \/ Waiting /\ CpuNext /\ UNCHANGED <<loopVars, memoryVars, networkVars, storageVars>>
    \/ Waiting /\ StorageNext /\ UNCHANGED <<loopVars, memoryVars, networkVars, cpuVars>>
    \/ Exited

\* The process goes on: timers fire, and a call of collect ends by itself, for it
\* only reads files and maps of the kernel.
Progress ==
    \/ Loop /\ UNCHANGED <<memoryVars, networkVars, cpuVars, storageVars>>
    \/ OtherCall /\ UNCHANGED <<memoryVars, networkVars, cpuVars, storageVars>>
    \/ MemoryCall /\ UNCHANGED <<loopVars, networkVars, cpuVars, storageVars>>
    \/ NetworkCall /\ UNCHANGED <<loopVars, memoryVars, cpuVars, storageVars>>
    \/ CpuCall /\ UNCHANGED <<loopVars, memoryVars, networkVars, storageVars>>
    \/ StorageCall /\ UNCHANGED <<loopVars, memoryVars, networkVars, cpuVars>>

Spec == Init /\ [][Next]_vars /\ WF_vars(Progress)

----------------------------------------------------------------------------
\* A collection with --for ends no later than it has to: a point-in-time reader
\* within the call that saw the limit pass (its last sleep is cut short), a rate
\* reader within the window it had begun.
StopsOnTime ==
    at \in {"ok", "failed"} /\ args.limit # NoLimit =>
        elapsed <= args.limit + Slowest + (IF SleepBeforeCollect THEN args.interval ELSE 0)

\* A collection with --for always ends, whatever calls fail and however short
\* they are: collect_provider's loop cannot spin on a sleep of zero length.
Terminates == (args.limit # NoLimit) ~> (at \in {"ok", "failed"})

\* Whatever a provider hands to the pipeline ends in the OTLP instrument of its
\* own name and kind when the provider runs under `run`: the names in the six
\* providers, the arms of OtlpSink::emit and the instruments that OtlpSink::new
\* builds agree, and no sample is dropped as unknown.
EverySampleHasInstrument == \A sample \in batch \cup printed : Recorded(sample) = {sample}
============================================================================

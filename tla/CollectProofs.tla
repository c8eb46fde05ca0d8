--------------------------- MODULE CollectProofs ---------------------------
(***************************************************************************)
(* Proofs about one-shot collection, for every provider, every set of      *)
(* arguments, CPUs, tasks and mounts: the loop stops on time, every sample *)
(* has an instrument, and what the collectors report is what happened.     *)
(*                                                                         *)
(* The collectors have no variable in common but those of the call, so     *)
(* each has an inductive invariant of its own.                             *)
(***************************************************************************)
EXTENDS CollectCommand, FiniteSetTheorems, TLAPS

\* A step of the process leaves a collector alone or is a step of it.
LEMMA Parts ==
    ASSUME [Next]_vars
    PROVE  /\ UNCHANGED memoryVars \/ MemoryNext
           /\ UNCHANGED cpuVars \/ CpuNext
           /\ UNCHANGED networkVars \/ NetworkNext
           /\ UNCHANGED storageVars \/ StorageNext
           /\ UNCHANGED loopVars \/ Loop \/ CtrlC
  <1>1. CASE UNCHANGED vars
    BY <1>1 DEF vars
  <1>2. CASE Exited
    BY <1>2 DEF Exited, vars
  <1>3. CASE Next /\ ~Exited
    BY <1>3 DEF Next, OtherCall
  <1>. QED  BY <1>1, <1>2, <1>3

-----------------------------------------------------------------------------
(* The memory collector. *)

\* The counters only grow, the baseline is what they were at the last success,
\* and there is a first success exactly if there is a last one.
SwapInv ==
    /\ pages \in [SwapDirection -> Nat]
    /\ swapped \in [SwapDirection -> Nat]
    /\ \/ previous_swap = NoCounters /\ firstSwap = NoCounters
       \/ previous_swap \in [SwapDirection -> Nat] /\ firstSwap \in [SwapDirection -> Nat]
    /\ \A d \in SwapDirection : previous_swap[d] <= pages[d]
    /\ SwapConserved

\* Nothing has been reported before the first call.
LEMMA SwapInit == Init => SwapInv
  BY MemoryAssumption DEF Init, MemoryInit, SwapInv, SwapConserved, NoCounters

\* A call that succeeds reports the interval since the last one that did; every
\* other step leaves the balance alone.
LEMMA SwapStep == SwapInv /\ [Next]_vars => SwapInv'
  <1>. SUFFICES ASSUME SwapInv, [Next]_vars PROVE SwapInv'
    OBVIOUS
  <1>1. CASE UNCHANGED memoryVars
    BY <1>1 DEF memoryVars, SwapInv, SwapConserved
  <1>2. ASSUME NEW d \in SwapDirection, SwapPage(d) PROVE SwapInv'
    BY <1>2 DEF SwapPage, SwapInv, SwapConserved, NoCounters
  <1>3. CASE ReadMeminfo
    BY <1>3 DEF ReadMeminfo, SwapInv, SwapConserved
  <1>4. CASE ReadVmstat
    <2>1. CASE UNCHANGED <<previous_swap, swapped, firstSwap>>
      BY <1>4, <2>1 DEF ReadVmstat, SwapInv, SwapConserved
    <2>2. ASSUME previous_swap' = pages,
                 swapped' = [d \in SwapDirection |->
                     swapped[d] + SwapBytes(pages, Baseline(pages))[d]],
                 firstSwap' = IF firstSwap = NoCounters THEN pages ELSE firstSwap
          PROVE  SwapInv'
      <3>1. pages' = pages
        BY <1>4 DEF ReadVmstat
      <3>2. CASE previous_swap = NoCounters
        <4>1. firstSwap = NoCounters
          BY <3>2 DEF SwapInv, NoCounters
        <4>2. \A d \in SwapDirection : swapped[d] = 0
          BY <3>2, <4>1, MemoryAssumption DEF SwapInv, SwapConserved, NoCounters
        <4>3. \A d \in SwapDirection : swapped'[d] = 0
          BY <2>2, <3>2, <4>2, MemoryAssumption
             DEF SwapBytes, Baseline, Saturating, SwapInv
        <4>. QED  BY <2>2, <3>1, <4>1, <4>3, MemoryAssumption DEF SwapInv, SwapConserved
      <3>3. CASE previous_swap # NoCounters
        <4>1. firstSwap # NoCounters
          BY <3>3 DEF SwapInv, NoCounters
        <4>2. firstSwap' = firstSwap
          BY <2>2, <4>1
        <4>3. ASSUME NEW d \in SwapDirection
              PROVE  /\ swapped'[d] = (pages[d] - firstSwap[d]) * PageSize
                     /\ swapped'[d] \in Nat
          <5>1. /\ pages[d] \in Nat /\ previous_swap[d] \in Nat /\ firstSwap[d] \in Nat
                /\ previous_swap[d] <= pages[d] /\ swapped[d] \in Nat
                /\ swapped[d] = (previous_swap[d] - firstSwap[d]) * PageSize
            BY <3>3 DEF SwapInv, SwapConserved
          <5>2. swapped'[d] = swapped[d] + (pages[d] - previous_swap[d]) * PageSize
            BY <2>2, <3>3, <5>1 DEF SwapBytes, Baseline, Saturating
          <5>. QED  BY <5>1, <5>2, MemoryAssumption
        <4>. QED  BY <2>2, <3>1, <3>3, <4>1, <4>2, <4>3 DEF SwapInv, SwapConserved
      <3>. QED  BY <3>2, <3>3
    <2>. QED  BY <1>4, <2>1, <2>2 DEF ReadVmstat
  <1>. QED  BY <1>1, <1>2, <1>3, <1>4, Parts DEF MemoryNext, MemoryCall

\* The swap traffic reported is the traffic between the first and the last
\* successful call, whichever calls of MemoryCollector::collect fail and
\* wherever they do.
THEOREM SwapTrafficConserved == Spec => []SwapConserved
  <1>1. SwapInv => SwapConserved
    BY DEF SwapInv
  <1>. QED  BY <1>1, SwapInit, SwapStep, PTL DEF Spec

-----------------------------------------------------------------------------
(* The loop. *)

\* The provider of a process stays the same.
LEMMA NameFixed == [Next]_vars => name' = name
  <1>. SUFFICES ASSUME [Next]_vars PROVE name' = name
    OBVIOUS
  <1>1. CASE UNCHANGED vars \/ Exited
    BY <1>1 DEF Exited, vars, callVars
  <1>2. CASE Loop \/ CtrlC
    BY <1>2 DEF Loop, Start, Top, Wake, Call, Returned, Check, CtrlC, callVars
  <1>3. CASE OtherCall
    BY <1>3 DEF OtherCall, Return, Fail
  <1>4. CASE MemoryNext
    BY <1>4 DEF MemoryNext, MemoryCall, ReadMeminfo, ReadVmstat, SwapPage, Return, Fail, callVars
  <1>5. CASE NetworkNext
    BY <1>5 DEF NetworkNext, NetworkCall, NextKey, SumCpu, KeyDone, NetworkReturns, NetworkFails,
                Packet, Return, Fail, callVars
  <1>6. CASE CpuNext
    BY <1>6 DEF CpuNext, CpuCall, CpuReturns, CpuFails, Tick, Account, SchedSwitch, Return, Fail, callVars
  <1>7. CASE StorageNext
    BY <1>7 DEF StorageNext, StorageCall, ReadMountInfo, StatMount, StorageReturns, Remount,
                Return, Fail, callVars
  <1>. QED  BY <1>1, <1>2, <1>3, <1>4, <1>5, <1>6, <1>7 DEF Next

\* The window that a rate reader sleeps before each call.
Window == IF SleepBeforeCollect THEN args.interval ELSE 0

\* How late it can be at every point of a loop with a limit.
LateAt ==
    /\ at = "start" => elapsed = 0
    /\ at = "top" => elapsed <= args.limit
    /\ at = "asleep_before" => elapsed <= args.limit /\ sleep = Window
    /\ at = "asleep_after" => elapsed + sleep <= args.limit
    /\ at \in {"collect", "called"} => elapsed <= args.limit + Window
    /\ at \in {"check", "ok", "failed"} => elapsed <= args.limit + Window + Slowest

LoopInv ==
    /\ name \in DOMAIN Args /\ args \in Args[name]
    /\ elapsed \in Nat /\ sleep \in Nat
    /\ args.limit # NoLimit => LateAt

\* A process starts with its arguments and no time passed.
LEMMA LoopInit == Init => LoopInv
  BY CollectAssumption DEF Init, LoopInv, LateAt

\* A step of the loop keeps to the limit.
LEMMA LateStep ==
    ASSUME LoopInv, Loop \/ CtrlC, name' = name, args.limit # NoLimit
    PROVE  LateAt'
  <1>0. /\ args.interval \in Nat /\ Slowest \in Nat /\ args.limit \in Nat
        /\ elapsed \in Nat /\ sleep \in Nat /\ LateAt
    BY CollectAssumption DEF LoopInv
  <1>1. args' = args /\ Window' = Window
    BY DEF Loop, Start, Top, Wake, Call, Returned, Check, CtrlC, Window, SleepBeforeCollect
  <1>2. Window \in Nat
    BY <1>0 DEF Window
  <1>. USE <1>0, <1>1, <1>2 DEF LateAt
  <1>3. CASE Start
    <2>1. elapsed' = 0 /\ at' \in {"top", "failed"}
      BY <1>3 DEF Start
    <2>. QED  BY <2>1
  <1>4. CASE Top
    <2>1. elapsed' = elapsed /\ elapsed <= args.limit
      BY <1>4 DEF Top
    <2>2. CASE SleepBeforeCollect
      <3>1. at' = "asleep_before" /\ sleep' = Window
        BY <1>4, <2>2 DEF Top, Window
      <3>. QED  BY <2>1, <2>2, <3>1
    <2>3. CASE ~SleepBeforeCollect
      <3>1. at' = "collect"
        BY <1>4, <2>3 DEF Top
      <3>. QED  BY <2>1, <3>1
    <2>. QED  BY <2>2, <2>3
  <1>5. CASE Wake
    <2>1. elapsed' = elapsed + sleep
      BY <1>5 DEF Wake, Later
    <2>2. CASE at = "asleep_before"
      <3>1. at' = "collect"
        BY <1>5, <2>2 DEF Wake
      <3>2. elapsed + sleep <= args.limit + Window
        BY <2>2
      <3>. QED  BY <2>1, <3>1, <3>2
    <2>3. CASE at = "asleep_after"
      <3>1. at' = "top"
        BY <1>5, <2>3 DEF Wake
      <3>2. elapsed + sleep <= args.limit
        BY <2>3
      <3>. QED  BY <2>1, <3>1, <3>2
    <2>. QED  BY <1>5, <2>2, <2>3 DEF Wake
  <1>6. CASE Call
    BY <1>6 DEF Call
  <1>7. CASE Returned
    BY <1>7 DEF Returned, Later
  <1>8. CASE Check
    <2>1. elapsed' = elapsed /\ elapsed <= args.limit + Window + Slowest
      BY <1>8 DEF Check
    <2>2. CASE LimitReached
      <3>1. at' \in {"ok", "failed"}
        BY <1>8, <2>2 DEF Check
      <3>. QED  BY <2>1, <3>1
    <2>3. CASE ~LimitReached
      <3>1. elapsed < args.limit
        BY <2>3 DEF LimitReached
      <3>2. RestOfInterval \in Nat /\ elapsed + RestOfInterval <= args.limit
        BY <3>1 DEF RestOfInterval, Saturating
      <3>3. at' = "top" \/ (at' = "asleep_after" /\ sleep' = RestOfInterval)
        BY <1>8, <2>3 DEF Check
      <3>. QED  BY <2>1, <3>1, <3>2, <3>3
    <2>. QED  BY <2>2, <2>3
  <1>9. CASE CtrlC
    <2>1. elapsed' = elapsed /\ at' \in {"ok", "failed"} /\ elapsed <= args.limit
      BY <1>9 DEF CtrlC
    <2>. QED  BY <2>1
  <1>. QED  BY <1>3, <1>4, <1>5, <1>6, <1>7, <1>8, <1>9 DEF Loop

\* Every other step leaves the time alone.
LEMMA LoopStep == LoopInv /\ [Next]_vars => LoopInv'
  <1>. SUFFICES ASSUME LoopInv, [Next]_vars PROVE LoopInv'
    OBVIOUS
  <1>1. name' = name
    BY NameFixed
  <1>2. CASE UNCHANGED loopVars
    BY <1>1, <1>2 DEF loopVars, LoopInv, LateAt, Window, SleepBeforeCollect
  <1>3. CASE Loop \/ CtrlC
    <2>1. args' = args
      BY <1>3 DEF Loop, Start, Top, Wake, Call, Returned, Check, CtrlC
    <2>2. /\ args.interval \in Nat
          /\ args.limit = NoLimit \/ args.limit \in Nat
          /\ elapsed \in Nat /\ sleep \in Nat /\ Slowest \in Nat
      BY CollectAssumption DEF LoopInv
    <2>3. RestOfInterval \in Nat
      BY <2>2 DEF RestOfInterval, Saturating
    <2>4. elapsed' \in Nat /\ sleep' \in Nat
      BY <1>3, <2>2, <2>3 DEF Loop, Start, Top, Wake, Call, Returned, Check, CtrlC, Later
    <2>. QED  BY <1>1, <1>3, <2>1, <2>4, LateStep DEF LoopInv
  <1>. QED  BY <1>2, <1>3, Parts

\* Whatever the interval, the limit and the time a call takes, collect_provider
\* ends within the call, and for a rate reader the window, in which the limit
\* passed.
THEOREM CollectStopsOnTime == Spec => []StopsOnTime
  <1>1. LoopInv => StopsOnTime
    <2>. SUFFICES ASSUME LoopInv, at \in {"ok", "failed"}, args.limit # NoLimit
                  PROVE  elapsed <= args.limit + Slowest + Window
      BY DEF StopsOnTime, Window
    <2>1. elapsed <= args.limit + Window + Slowest
      BY DEF LoopInv, LateAt
    <2>2. elapsed \in Nat /\ args.limit \in Nat /\ Window \in Nat /\ Slowest \in Nat
      BY CollectAssumption DEF LoopInv, Window
    <2>. QED  BY <2>1, <2>2
  <1>. QED  BY <1>1, LoopInit, LoopStep, PTL DEF Spec

-----------------------------------------------------------------------------
(* The samples. *)

\* Every arm of emit records in the instrument of its own name and kind.
LEMMA ArmsBuilt == \A arm \in Arms : Built[arm[2]] = arm[1]
  BY DEF Arms, Built

\* The samples that an arm of emit takes.
Known == {arm[1] : arm \in Arms}

\* A sample that has an arm is recorded as what it is, and nothing else is.
LEMMA KnownIsRecorded ==
    ASSUME NEW sample \in Known
    PROVE  Recorded(sample) = {sample}
  BY ArmsBuilt DEF Known, Recorded

\* What the providers make has an arm.
LEMMA SamplesKnown ==
    /\ MemorySamples \subseteq Known
    /\ StorageSamples \subseteq Known
    /\ CpuSamples \subseteq Known
    /\ NetworkSamples \subseteq Known
    /\ \A latency \in BOOLEAN : DiskIoSamples(latency) \subseteq Known
    /\ \A deltas \in BOOLEAN : TcpSamples(deltas) \subseteq Known
  <1>1. \A arm \in Arms : arm[1] \in Known
    BY DEF Known
  <1>2. MemorySamples \subseteq Known
    BY <1>1 DEF Arms, MemorySamples
  <1>3. StorageSamples \subseteq Known
    BY <1>1 DEF Arms, StorageSamples
  <1>4. CpuSamples \subseteq Known
    BY <1>1 DEF Arms, CpuSamples
  <1>5. NetworkSamples \subseteq Known
    BY <1>1 DEF Arms, NetworkSamples
  <1>6. \A latency \in BOOLEAN : DiskIoSamples(latency) \subseteq Known
    BY <1>1 DEF Arms, DiskIoSamples
  <1>7. \A deltas \in BOOLEAN : TcpSamples(deltas) \subseteq Known
    BY <1>1 DEF Arms, TcpSamples
  <1>. QED  BY <1>2, <1>3, <1>4, <1>5, <1>6, <1>7

SamplesInv == batch \subseteq Known /\ printed \subseteq Known

\* Only known samples are handed over and printed.
LEMMA SamplesStep == SamplesInv /\ [Next]_vars => SamplesInv'
  <1>. SUFFICES ASSUME SamplesInv, [Next]_vars PROVE SamplesInv'
    OBVIOUS
  <1>. USE SamplesKnown DEF SamplesInv
  <1>1. CASE UNCHANGED vars \/ Exited
    BY <1>1 DEF Exited, vars, callVars, loopVars
  <1>2. CASE Loop \/ CtrlC
    BY <1>2 DEF Loop, Start, Top, Wake, Call, Returned, Check, CtrlC, Processed, callVars
  <1>3. CASE OtherCall
    BY <1>3 DEF OtherCall, Return, Fail, loopVars
  <1>4. CASE MemoryNext /\ UNCHANGED loopVars
    BY <1>4 DEF MemoryNext, MemoryCall, ReadMeminfo, ReadVmstat, SwapPage, Return, Fail,
                callVars, loopVars
  <1>5. CASE NetworkNext /\ UNCHANGED loopVars
    BY <1>5 DEF NetworkNext, NetworkCall, NextKey, SumCpu, KeyDone, NetworkReturns, NetworkFails,
                Packet, Return, Fail, callVars, loopVars
  <1>6. CASE CpuNext /\ UNCHANGED loopVars
    BY <1>6 DEF CpuNext, CpuCall, CpuReturns, CpuFails, Tick, Account, SchedSwitch, Return, Fail,
                callVars, loopVars
  <1>7. CASE StorageNext /\ UNCHANGED loopVars
    BY <1>7 DEF StorageNext, StorageCall, ReadMountInfo, StatMount, StorageReturns, Remount,
                Return, Fail, callVars, loopVars
  <1>. QED  BY <1>1, <1>2, <1>3, <1>4, <1>5, <1>6, <1>7 DEF Next

\* No sample of any provider is dropped as unknown by OtlpSink::emit, and none
\* is recorded in the instrument of another, whatever the processors let through.
THEOREM SamplesHaveInstruments == Spec => []EverySampleHasInstrument
  <1>1. Init => SamplesInv
    BY DEF Init, SamplesInv
  <1>2. SamplesInv => EverySampleHasInstrument
    BY KnownIsRecorded DEF SamplesInv, EverySampleHasInstrument
  <1>. QED  BY <1>1, <1>2, SamplesStep, PTL DEF Spec

-----------------------------------------------------------------------------
(* The CPU collector. *)

CpuTypes ==
    /\ clock \in Nat \ {0}
    /\ current \in [Cpu -> Task \cup {Idle}]
    /\ times \in [Task \cup {Idle} -> [utime : Nat, stime : Nat]]
    /\ ledger \in [Cpu -> [last_switch : Nat, active_user : Nat, active_system : Nat,
                           time : [State -> Nat]]]
    /\ cpuPrevious \in [Cpu -> [State -> Nat]]
    /\ cpuReported \in [Cpu -> [State -> Nat]]
    /\ spent \in [Cpu -> [State -> Nat]]
    /\ DOMAIN settled = Cpu

\* s is what is spent when time is what was settled at the switch that left l,
\* and a task with the times t, or none, has been on the CPU until now.
Owed(s, time, l, t, idle, until) ==
    /\ s["idle_ns"] = time["idle_ns"] + (IF idle THEN until - l.last_switch ELSE 0)
    /\ s["user_ns"] = time["user_ns"] + (IF idle THEN 0 ELSE t.utime - l.active_user)
    /\ s["system_ns"] = time["system_ns"] + (IF idle THEN 0 ELSE t.stime - l.active_system)
    /\ l.last_switch <= until
    /\ ~ idle => t.utime >= l.active_user /\ t.stime >= l.active_system

\* What is spent on c and not settled is what the next switch will charge.
Charged(c) ==
    /\ ledger[c].time = settled[c]
    /\ ledger[c].last_switch = 0 => spent[c] = settled[c]
    /\ ledger[c].last_switch # 0 =>
          Owed(spent[c], ledger[c].time, ledger[c], times[current[c]], current[c] = Idle, clock)

\* The snapshots have reported a part of the ledger.
Reported(c) ==
    /\ cpuReported[c] = cpuPrevious[c]
    /\ \A s \in State : cpuPrevious[c][s] <= ledger[c].time[s]

CpuInv ==
    /\ CpuTypes
    /\ \A c \in Cpu : Charged(c) /\ Reported(c)

\* No ledger has begun when the program is attached.
LEMMA CpuInvInit == Init => CpuInv
  <1>. SUFFICES ASSUME Init PROVE CpuInv
    OBVIOUS
  <1>1. CpuTypes
    BY DEF Init, CpuInit, CpuTypes, NoLedger, NoTime
  <1>2. ASSUME NEW c \in Cpu PROVE Charged(c) /\ Reported(c)
    BY DEF Init, CpuInit, Charged, Reported, NoLedger, NoTime, State
  <1>. QED  BY <1>1, <1>2 DEF CpuInv

\* One more in one of a CPU's times.
LEMMA OneMore ==
    ASSUME NEW s \in [State -> Nat], NEW x \in State, NEW q, q = [s EXCEPT ![x] = @ + 1]
    PROVE  /\ q \in [State -> Nat]
           /\ \A y \in State : q[y] = IF y = x THEN s[y] + 1 ELSE s[y]
           /\ \A y \in State : s[y] \in Nat
  BY DEF State

\* The parts of the state that concern one CPU.
LEMMA CpuParts ==
    ASSUME CpuTypes, NEW c \in Cpu
    PROVE  /\ clock \in Nat \ {0} /\ current[c] \in Task \cup {Idle}
           /\ times[current[c]].utime \in Nat /\ times[current[c]].stime \in Nat
           /\ ledger[c].last_switch \in Nat /\ ledger[c].active_user \in Nat
           /\ ledger[c].active_system \in Nat /\ ledger[c].time \in [State -> Nat]
           /\ spent[c] \in [State -> Nat]
           /\ \A s \in State : ledger[c].time[s] \in Nat /\ spent[c][s] \in Nat
           /\ "idle_ns" \in State /\ "user_ns" \in State /\ "system_ns" \in State
  BY DEF CpuTypes, State

\* Time passes: an idle CPU owes it.
LEMMA TickStep ==
    ASSUME CpuInv, Tick
    PROVE  CpuInv'
  <1>1. /\ clock' = clock + 1
        /\ spent' = [c \in Cpu |-> IF On(c, Idle) THEN [spent[c] EXCEPT !["idle_ns"] = @ + 1]
                                   ELSE spent[c]]
        /\ UNCHANGED <<current, times, ledger, cpuPrevious, cpuReported, settled>>
    BY DEF Tick
  <1>2. ASSUME NEW c \in Cpu
        PROVE  /\ spent'[c] \in [State -> Nat] /\ Charged(c)' /\ Reported(c)'
    <2>. DEFINE s == spent[c]
                l == ledger[c]
                t == times[current[c]]
    <2>1. /\ clock \in Nat \ {0} /\ l.last_switch \in Nat /\ s \in [State -> Nat]
          /\ \A x \in State : l.time[x] \in Nat /\ s[x] \in Nat
          /\ "idle_ns" \in State /\ "user_ns" \in State /\ "system_ns" \in State
      BY CpuParts DEF CpuInv
    <2>2. spent'[c] = IF On(c, Idle) THEN [s EXCEPT !["idle_ns"] = @ + 1] ELSE s
      BY <1>1
    <2>3. Charged(c) /\ Reported(c)
      BY DEF CpuInv
    <2>4. Reported(c)'
      BY <1>1, <2>3 DEF Reported
    <2>5. CASE On(c, Idle)
      <3>1. /\ l.last_switch # 0 /\ current[c] = Idle /\ l.time = settled[c]
            /\ Owed(s, l.time, l, t, TRUE, clock)
        BY <2>3, <2>5 DEF On, Charged
      <3>2. /\ spent'[c] \in [State -> Nat]
            /\ spent'[c]["idle_ns"] = s["idle_ns"] + 1
            /\ spent'[c]["user_ns"] = s["user_ns"]
            /\ spent'[c]["system_ns"] = s["system_ns"]
        <4>. HIDE DEF s
        <4>. QED  BY <2>1, <2>2, <2>5, OneMore
      <3>3. Owed(spent'[c], l.time, l, t, TRUE, clock + 1)
        <4>. HIDE DEF s, l, t
        <4>. QED  BY <2>1, <3>1, <3>2 DEF Owed
      <3>. QED  BY <1>1, <2>4, <3>1, <3>2, <3>3 DEF Charged
    <2>6. CASE ~ On(c, Idle)
      <3>1. spent'[c] = s
        BY <2>2, <2>6
      <3>2. l.last_switch # 0 => Owed(s, l.time, l, t, current[c] = Idle, clock) /\ current[c] # Idle
        BY <2>3, <2>6 DEF On, Charged
      <3>3. l.last_switch # 0 => Owed(s, l.time, l, t, FALSE, clock + 1)
        <4>1. l.last_switch # 0 => Owed(s, l.time, l, t, FALSE, clock)
          BY <3>2
        <4>. HIDE DEF s, l, t
        <4>. QED  BY <2>1, <4>1 DEF Owed
      <3>. QED  BY <1>1, <2>1, <2>3, <2>4, <3>1, <3>2, <3>3 DEF Charged
    <2>. QED  BY <2>5, <2>6
  <1>3. CpuTypes'
    <2>1. spent' \in [Cpu -> [State -> Nat]]
      BY <1>1, <1>2
    <2>. QED  BY <1>1, <2>1 DEF CpuInv, CpuTypes
  <1>. QED  BY <1>2, <1>3 DEF CpuInv

\* The kernel adds to the times of a task: the CPU that it is on owes that, and
\* no other.
LEMMA AccountStep ==
    ASSUME CpuInv, NEW t \in Task, NEW mode \in {"utime", "stime"}, Account(t, mode)
    PROVE  CpuInv'
  <1>. DEFINE state == IF mode = "utime" THEN "user_ns" ELSE "system_ns"
  <1>1. /\ times' = [times EXCEPT ![t][mode] = @ + 1]
        /\ spent' = [c \in Cpu |-> IF On(c, t) THEN [spent[c] EXCEPT ![state] = @ + 1]
                                   ELSE spent[c]]
        /\ UNCHANGED <<clock, current, ledger, cpuPrevious, cpuReported, settled>>
    BY DEF Account
  <1>2. t # Idle /\ state \in State
    BY CpuAssumption DEF State
  <1>3. /\ times' \in [Task \cup {Idle} -> [utime : Nat, stime : Nat]]
        /\ \A u \in Task \cup {Idle} : u # t => times'[u] = times[u]
        /\ times'[t].utime = times[t].utime + (IF mode = "utime" THEN 1 ELSE 0)
        /\ times'[t].stime = times[t].stime + (IF mode = "utime" THEN 0 ELSE 1)
        /\ times[t].utime \in Nat /\ times[t].stime \in Nat
    <2>1. times \in [Task \cup {Idle} -> [utime : Nat, stime : Nat]]
      BY DEF CpuInv, CpuTypes
    <2>2. times[t].utime \in Nat /\ times[t].stime \in Nat
      BY <2>1
    <2>3. \E r : r = [times[t] EXCEPT ![mode] = @ + 1] /\ times' = [times EXCEPT ![t] = r]
      BY <1>1
    <2>4. PICK r : r = [times[t] EXCEPT ![mode] = @ + 1] /\ times' = [times EXCEPT ![t] = r]
      BY <2>3
    <2>5. /\ r \in [utime : Nat, stime : Nat]
          /\ r.utime = times[t].utime + (IF mode = "utime" THEN 1 ELSE 0)
          /\ r.stime = times[t].stime + (IF mode = "utime" THEN 0 ELSE 1)
      <3>. DEFINE q == times[t]
      <3>1. q \in [utime : Nat, stime : Nat] /\ r = [q EXCEPT ![mode] = @ + 1]
        BY <2>1, <2>4
      <3>. HIDE DEF q
      <3>2. CASE mode = "utime"
        <4>1. r = [q EXCEPT !.utime = @ + 1]
          BY <3>1, <3>2
        <4>. QED  BY <3>1, <3>2, <4>1 DEF q
      <3>3. CASE mode = "stime"
        <4>1. r = [q EXCEPT !.stime = @ + 1]
          BY <3>1, <3>3
        <4>. QED  BY <3>1, <3>3, <4>1 DEF q
      <3>. QED  BY <3>2, <3>3
    <2>. QED  BY <2>1, <2>2, <2>4, <2>5
  <1>. HIDE DEF state
  <1>4. ASSUME NEW c \in Cpu
        PROVE  /\ spent'[c] \in [State -> Nat] /\ Charged(c)' /\ Reported(c)'
    <2>. DEFINE s == spent[c]
                l == ledger[c]
    <2>1. /\ clock \in Nat \ {0} /\ l.last_switch \in Nat /\ s \in [State -> Nat]
          /\ l.active_user \in Nat /\ l.active_system \in Nat
          /\ \A x \in State : l.time[x] \in Nat /\ s[x] \in Nat
          /\ "idle_ns" \in State /\ "user_ns" \in State /\ "system_ns" \in State
          /\ current[c] \in Task \cup {Idle}
      BY CpuParts DEF CpuInv
    <2>2. spent'[c] = IF On(c, t) THEN [s EXCEPT ![state] = @ + 1] ELSE s
      BY <1>1
    <2>3. Charged(c) /\ Reported(c)
      BY DEF CpuInv
    <2>4. Reported(c)'
      BY <1>1, <2>3 DEF Reported
    <2>5. CASE On(c, t)
      <3>1. /\ l.last_switch # 0 /\ current[c] = t /\ l.time = settled[c]
            /\ Owed(s, l.time, l, times[t], FALSE, clock)
        BY <1>2, <2>3, <2>5 DEF On, Charged
      <3>2. /\ spent'[c] \in [State -> Nat]
            /\ \A y \in State : spent'[c][y] = IF y = state THEN s[y] + 1 ELSE s[y]
        <4>. HIDE DEF s
        <4>. QED  BY <1>2, <2>1, <2>2, <2>5, OneMore
      <3>3. Owed(spent'[c], l.time, l, times'[t], FALSE, clock)
        <4>. HIDE DEF s, l
        <4>1. /\ spent'[c]["idle_ns"] = s["idle_ns"]
              /\ spent'[c]["user_ns"] = s["user_ns"] + (IF mode = "utime" THEN 1 ELSE 0)
              /\ spent'[c]["system_ns"] = s["system_ns"] + (IF mode = "utime" THEN 0 ELSE 1)
          BY <2>1, <3>2 DEF state
        <4>2. /\ s["idle_ns"] = l.time["idle_ns"]
              /\ s["user_ns"] = l.time["user_ns"] + (times[t].utime - l.active_user)
              /\ s["system_ns"] = l.time["system_ns"] + (times[t].stime - l.active_system)
              /\ l.last_switch <= clock
              /\ times[t].utime >= l.active_user /\ times[t].stime >= l.active_system
          BY <2>1, <3>1 DEF Owed
        <4>3. CASE mode = "utime"
          BY <1>3, <2>1, <4>1, <4>2, <4>3 DEF Owed
        <4>4. CASE mode = "stime"
          BY <1>3, <2>1, <4>1, <4>2, <4>4 DEF Owed
        <4>. QED  BY <4>3, <4>4
      <3>. QED  BY <1>1, <1>2, <2>4, <3>1, <3>2, <3>3 DEF Charged
    <2>6. CASE ~ On(c, t)
      <3>1. spent'[c] = s
        BY <2>2, <2>6
      <3>2. l.last_switch # 0 => times'[current[c]] = times[current[c]]
        BY <1>3, <2>1, <2>6 DEF On
      <3>. QED  BY <1>1, <2>1, <2>3, <2>4, <3>1, <3>2 DEF Charged
    <2>. QED  BY <2>5, <2>6
  <1>5. CpuTypes'
    <2>1. spent' \in [Cpu -> [State -> Nat]]
      BY <1>1, <1>4
    <2>. QED  BY <1>1, <1>3, <2>1 DEF CpuInv, CpuTypes
  <1>. QED  BY <1>4, <1>5 DEF CpuInv

\* What a switch adds to a ledger is what the CPU owes.
LEMMA AccruedOwed ==
    ASSUME CpuInv, NEW c \in Cpu, ledger[c].last_switch # 0
    PROVE  /\ Accrued(ledger[c], current[c]) = spent[c]
           /\ \A x \in State : ledger[c].time[x] <= spent[c][x]
  <1>. DEFINE l == ledger[c]
              t == l.time
              p == times[current[c]]
              s == spent[c]
              a == Accrued(l, current[c])
  <1>1. /\ clock \in Nat \ {0} /\ l.last_switch \in Nat /\ s \in [State -> Nat]
        /\ l.active_user \in Nat /\ l.active_system \in Nat /\ t \in [State -> Nat]
        /\ p.utime \in Nat /\ p.stime \in Nat
        /\ \A x \in State : t[x] \in Nat /\ s[x] \in Nat
    BY CpuParts DEF CpuInv
  <1>2. Owed(s, t, l, p, current[c] = Idle, clock)
    BY DEF CpuInv, Charged
  <1>3. CASE current[c] = Idle
    <2>1. a = [t EXCEPT !["idle_ns"] = @ + (clock - l.last_switch)]
      BY <1>3 DEF Accrued
    <2>. HIDE DEF a, l, t, p, s
    <2>2. /\ s["idle_ns"] = t["idle_ns"] + (clock - l.last_switch) /\ l.last_switch <= clock
          /\ s["user_ns"] = t["user_ns"] /\ s["system_ns"] = t["system_ns"]
      BY <1>1, <1>2, <1>3 DEF Owed, State
    <2>3. \A x \in State : a[x] = s[x]
      BY <1>1, <2>1, <2>2 DEF State
    <2>4. a \in [State -> Nat]
      <3>1. DOMAIN a = State /\ a = [x \in State |-> a[x]]
        BY <1>1, <2>1
      <3>. QED  BY <1>1, <2>3, <3>1
    <2>5. \A x \in State : t[x] <= s[x]
      BY <1>1, <2>2 DEF State
    <2>. QED  BY <1>1, <2>3, <2>4, <2>5 DEF a, l, t, s
  <1>4. CASE current[c] # Idle
    <2>. DEFINE user == p.utime - l.active_user
                system == p.stime - l.active_system
    <2>1. /\ s["user_ns"] = t["user_ns"] + user /\ s["system_ns"] = t["system_ns"] + system
          /\ s["idle_ns"] = t["idle_ns"] /\ user >= 0 /\ system >= 0
          /\ user \in Int /\ system \in Int
      BY <1>1, <1>2, <1>4 DEF Owed, State
    <2>2. a = [t EXCEPT !["user_ns"] = @ + user, !["system_ns"] = @ + system]
      BY <1>4, <2>1 DEF Accrued
    <2>. HIDE DEF a, l, t, p, s, user, system
    <2>3. \A x \in State : a[x] = s[x]
      BY <1>1, <2>1, <2>2 DEF State
    <2>4. a \in [State -> Nat]
      <3>1. DOMAIN a = State /\ a = [x \in State |-> a[x]]
        BY <1>1, <2>2
      <3>. QED  BY <1>1, <2>3, <3>1
    <2>5. \A x \in State : t[x] <= s[x]
      BY <1>1, <2>1 DEF State
    <2>. QED  BY <1>1, <2>3, <2>4, <2>5 DEF a, l, t, s
  <1>. QED  BY <1>3, <1>4

\* A context switch closes the account of the task that leaves and opens one
\* for the task that comes.
LEMMA SwitchStep ==
    ASSUME CpuInv, NEW c \in Cpu, NEW next \in Task \cup {Idle}, SchedSwitch(c, next)
    PROVE  CpuInv'
  <1>. DEFINE l == ledger[c]
              n == Switched(l, current[c], next)
  <1>1. /\ ledger' = [ledger EXCEPT ![c] = n]
        /\ current' = [current EXCEPT ![c] = next]
        /\ settled' = [settled EXCEPT ![c] = spent[c]]
        /\ UNCHANGED <<clock, times, cpuPrevious, cpuReported, spent>>
    BY DEF SchedSwitch
  <1>2. /\ clock \in Nat \ {0} /\ l.last_switch \in Nat /\ l.time \in [State -> Nat]
        /\ times[next].utime \in Nat /\ times[next].stime \in Nat
        /\ spent[c] \in [State -> Nat] /\ \A x \in State : spent[c][x] \in Nat
        /\ "idle_ns" \in State /\ "user_ns" \in State /\ "system_ns" \in State
    BY DEF CpuInv, CpuTypes, State
  <1>3. /\ n.last_switch = clock
        /\ n.active_user = times[next].utime /\ n.active_system = times[next].stime
        /\ n.time = IF l.last_switch = 0 THEN l.time ELSE Accrued(l, current[c])
        /\ n = [last_switch |-> clock, active_user |-> times[next].utime,
                active_system |-> times[next].stime, time |-> n.time]
    BY DEF Switched
  <1>4. Charged(c) /\ Reported(c)
    BY DEF CpuInv
  <1>5. n.time = spent[c] /\ \A x \in State : l.time[x] <= n.time[x]
    <2>1. CASE l.last_switch = 0
      <3>1. n.time = l.time /\ spent[c] = l.time
        BY <1>3, <1>4, <2>1 DEF Charged
      <3>. HIDE DEF n, l
      <3>. QED  BY <1>2, <3>1
    <2>2. CASE l.last_switch # 0
      BY <1>3, <2>2, AccruedOwed
    <2>. QED  BY <2>1, <2>2
  <1>6. CpuTypes'
    <2>1. n \in [last_switch : Nat, active_user : Nat, active_system : Nat, time : [State -> Nat]]
      BY <1>2, <1>3, <1>5
    <2>. HIDE DEF n
    <2>. QED  BY <1>1, <2>1 DEF CpuInv, CpuTypes
  <1>7. ASSUME NEW d \in Cpu, d # c PROVE Charged(d)' /\ Reported(d)'
    <2>1. ledger'[d] = ledger[d] /\ current'[d] = current[d] /\ settled'[d] = settled[d]
      BY <1>1, <1>7 DEF CpuInv, CpuTypes
    <2>2. Charged(d) /\ Reported(d)
      BY DEF CpuInv
    <2>. QED  BY <1>1, <2>1, <2>2 DEF Charged, Reported
  <1>8. Charged(c)' /\ Reported(c)'
    <2>1. ledger'[c] = n /\ current'[c] = next
      BY <1>1 DEF CpuInv, CpuTypes
    <2>2. settled'[c] = spent[c]
      BY <1>1 DEF CpuInv, CpuTypes
    <2>. HIDE DEF n
    <2>3. Owed(spent[c], n.time, n, times[next], next = Idle, clock)
      BY <1>2, <1>3, <1>5 DEF Owed
    <2>4. Charged(c)'
      BY <1>1, <1>2, <1>3, <1>5, <2>1, <2>2, <2>3 DEF Charged
    <2>5. Reported(c)'
      <3>1. ASSUME NEW x \in State PROVE cpuPrevious[c][x] <= n.time[x]
        <4>1. cpuPrevious[c][x] <= l.time[x] /\ l.time[x] <= n.time[x]
          BY <1>4, <1>5 DEF Reported
        <4>2. cpuPrevious[c][x] \in Nat /\ l.time[x] \in Nat /\ n.time[x] \in Nat
          BY <1>2, <1>5 DEF CpuInv, CpuTypes
        <4>. QED  BY <4>1, <4>2
      <3>. QED  BY <1>1, <1>4, <2>1, <3>1 DEF Reported
    <2>. QED  BY <2>4, <2>5
  <1>. QED  BY <1>6, <1>7, <1>8 DEF CpuInv

\* A snapshot moves the baseline to the ledger and reports the difference.
LEMMA SnapshotStep ==
    ASSUME CpuInv, CpuReturns
    PROVE  CpuInv'
  <1>1. /\ cpuPrevious' = [c \in Cpu |-> ledger[c].time]
        /\ cpuReported' = [c \in Cpu |-> [s \in State |->
               cpuReported[c][s] + (IF ledger[c].time[s] >= cpuPrevious[c][s]
                                    THEN ledger[c].time[s] - cpuPrevious[c][s] ELSE 0)]]
        /\ UNCHANGED <<clock, current, times, ledger, spent, settled>>
    BY DEF CpuReturns
  <1>2. ASSUME NEW c \in Cpu
        PROVE  ledger[c].time \in [State -> Nat] /\ cpuReported'[c] = ledger[c].time
    <2>1. ledger[c].time \in [State -> Nat] /\ cpuPrevious[c] \in [State -> Nat]
      BY DEF CpuInv, CpuTypes
    <2>2. ASSUME NEW s \in State
          PROVE  cpuReported[c][s] + (IF ledger[c].time[s] >= cpuPrevious[c][s]
                                      THEN ledger[c].time[s] - cpuPrevious[c][s] ELSE 0)
                     = ledger[c].time[s]
      <3>1. /\ cpuPrevious[c][s] \in Nat /\ ledger[c].time[s] \in Nat
            /\ cpuReported[c][s] = cpuPrevious[c][s]
            /\ cpuPrevious[c][s] <= ledger[c].time[s]
        BY <2>1 DEF CpuInv, Reported
      <3>. QED  BY <3>1
    <2>. QED  BY <1>1, <2>1, <2>2
  <1>3. CpuTypes'
    BY <1>1, <1>2 DEF CpuInv, CpuTypes
  <1>4. ASSUME NEW c \in Cpu PROVE Charged(c)' /\ Reported(c)'
    <2>1. Charged(c)'
      BY <1>1 DEF CpuInv, Charged
    <2>2. \A s \in State : ledger[c].time[s] <= ledger[c].time[s]
      BY <1>2
    <2>. QED  BY <1>1, <1>2, <2>1, <2>2 DEF Reported
  <1>. QED  BY <1>3, <1>4 DEF CpuInv

\* A failed snapshot, and every step of the others, leaves the ledgers alone.
LEMMA CpuStep == CpuInv /\ [Next]_vars => CpuInv'
  <1>. SUFFICES ASSUME CpuInv, [Next]_vars PROVE CpuInv'
    OBVIOUS
  <1>1. CASE UNCHANGED cpuVars
    BY <1>1 DEF cpuVars, CpuInv, CpuTypes, Charged, Reported
  <1>2. CASE CpuNext
    BY <1>1, <1>2, TickStep, AccountStep, SwitchStep, SnapshotStep DEF CpuNext, CpuCall, CpuFails
  <1>. QED  BY <1>1, <1>2, Parts

\* For any number of CPUs and tasks that move between them, and however the
\* kernel keeps the times of tasks, the ledger that talia_sched_switch keeps for
\* a CPU is its idle time and what tasks were given while they were on it, and
\* the snapshots of cpu_snapshots add up to what the ledgers were read to hold.
THEOREM CpuTimeIsCharged == Spec => []CpuTimeChargedWhereSpent
  <1>1. CpuInv => CpuTimeChargedWhereSpent
    BY DEF CpuInv, Charged, Reported, CpuTimeChargedWhereSpent
  <1>. QED  BY <1>1, CpuInvInit, CpuStep, PTL DEF Spec

-----------------------------------------------------------------------------
(* The storage collector. *)

\* A product with a factor that is not larger is not larger.
LEMMA TimesMonotone ==
    ASSUME NEW a \in Nat, NEW b \in Nat, NEW n \in Nat, a <= b
    PROVE  /\ a * n \in Nat /\ b * n \in Nat /\ a * n <= b * n
           /\ (b - a) * n = b * n - a * n
  <1>1. PICK k \in Nat : b = a + k
    <2>1. b - a \in Nat /\ b = a + (b - a)
      OBVIOUS
    <2>. QED  BY <2>1
  <1>2. b * n = a * n + k * n
    BY <1>1
  <1>3. a * n \in Nat /\ k * n \in Nat
    OBVIOUS
  <1>4. b - a = k
    BY <1>1
  <1>. QED  BY <1>1, <1>2, <1>3, <1>4

\* A saturating product is a natural number and the product if that fits.
LEMMA SatMulType ==
    ASSUME NEW a \in Nat, NEW b \in Nat
    PROVE  SatMul(a, b) \in Nat /\ (a * b <= MaxU64 => SatMul(a, b) = a * b)
  <1>1. a * b \in Nat
    OBVIOUS
  <1>. QED  BY <1>1, StorageAssumption DEF SatMul

\* filesystem_bytes_from_blocks divides the limit into its three parts.
LEMMA BytesAddUp ==
    ASSUME NEW v \in StatVfs
    PROVE  LET bytes == FilesystemBytes(v) IN
           /\ v.blocks * v.size <= MaxU64 /\ v.bavail <= v.bfree /\ v.bfree <= v.blocks =>
                  bytes.used + bytes.free + bytes.reserved = bytes.limit
           /\ bytes.used <= bytes.limit
  <1>. DEFINE bytes == FilesystemBytes(v)
              all == v.blocks * v.size
              open == v.bfree * v.size
              avail == v.bavail * v.size
  <1>1. /\ v.blocks \in Nat /\ v.bfree \in Nat /\ v.bavail \in Nat /\ v.size \in Nat
    BY StorageAssumption DEF StatVfs
  <1>2. /\ bytes.limit = SatMul(v.blocks, v.size)
        /\ bytes.used = SatSub(SatMul(v.blocks, v.size), SatMul(v.bfree, v.size))
        /\ bytes.free = SatMul(v.bavail, v.size)
        /\ bytes.reserved = SatMul(SatSub(v.bfree, v.bavail), v.size)
    BY DEF FilesystemBytes
  <1>3. bytes.used <= bytes.limit
    <2>1. SatMul(v.blocks, v.size) \in Nat /\ SatMul(v.bfree, v.size) \in Nat
      BY <1>1, SatMulType
    <2>. HIDE DEF bytes
    <2>. QED  BY <1>2, <2>1 DEF SatSub
  <1>4. ASSUME all <= MaxU64, v.bavail <= v.bfree, v.bfree <= v.blocks
        PROVE  bytes.used + bytes.free + bytes.reserved = bytes.limit
    <2>0. SatSub(v.bfree, v.bavail) = v.bfree - v.bavail /\ v.bfree - v.bavail \in Nat
      BY <1>1, <1>4 DEF SatSub
    <2>1. /\ all \in Nat /\ open \in Nat /\ avail \in Nat /\ avail <= open /\ open <= all
          /\ (v.bfree - v.bavail) * v.size = open - avail
      BY <1>1, <1>4, TimesMonotone
    <2>2. MaxU64 \in Nat
      BY StorageAssumption
    <2>3. SatMul(v.blocks, v.size) = all
      BY <1>1, <1>4, SatMulType
    <2>4. open <= MaxU64 /\ avail <= MaxU64 /\ open - avail <= MaxU64
      <3>. HIDE DEF all, open, avail
      <3>. QED  BY <1>4, <2>1, <2>2
    <2>5. SatMul(v.bfree, v.size) = open
      BY <1>1, <2>4, SatMulType
    <2>6. SatMul(v.bavail, v.size) = avail
      BY <1>1, <2>4, SatMulType
    <2>7. SatMul(v.bfree - v.bavail, v.size) = open - avail
      <3>1. (v.bfree - v.bavail) * v.size <= MaxU64
        BY <2>1, <2>4
      <3>2. SatMul(v.bfree - v.bavail, v.size) = (v.bfree - v.bavail) * v.size
        BY <1>1, <2>0, <3>1, SatMulType
      <3>. QED  BY <2>1, <3>2
    <2>. HIDE DEF bytes, all, open, avail
    <2>8. /\ bytes.limit = all /\ bytes.used = all - open
          /\ bytes.free = avail /\ bytes.reserved = open - avail
      BY <1>2, <2>0, <2>1, <2>3, <2>5, <2>6, <2>7 DEF SatSub
    <2>. QED  BY <2>1, <2>8
  <1>. QED  BY <1>3, <1>4

\* decode_mountinfo_path gives back the path that the kernel has escaped.
LEMMA PathsSurvive == \A p \in Mount : DecodeMountinfoPath(Escaped(p)) = p
  <1>. SUFFICES ASSUME NEW p \in Mount PROVE DecodeMountinfoPath(Escaped(p)) = p
    OBVIOUS
  <1>. DEFINE e == Escaped(p)
              Code == {"040", "011", "012", "134"}
  <1>1. /\ p = [i \in DOMAIN p |-> p[i]]
        /\ \A i \in DOMAIN p : p[i] \notin Code
    BY StorageAssumption
  <1>2. /\ DOMAIN Escape = {"space", "tab", "newline", "backslash"}
        /\ Escape["space"] = "040" /\ Escape["tab"] = "011"
        /\ Escape["newline"] = "012" /\ Escape["backslash"] = "134"
    BY DEF Escape
  <1>3. /\ \A ch \in DOMAIN Escape : Escape[ch] \in Code
        /\ \A ch, d \in DOMAIN Escape : Escape[ch] = Escape[d] => ch = d
    BY <1>2
  <1>4. /\ DOMAIN e = DOMAIN p
        /\ \A i \in DOMAIN p : e[i] = IF p[i] \in DOMAIN Escape THEN Escape[p[i]] ELSE p[i]
    BY DEF Escaped
  <1>. HIDE DEF e, Code
  <1>5. ASSUME NEW i \in DOMAIN p
        PROVE  (IF \E ch \in DOMAIN Escape : Escape[ch] = e[i]
                THEN CHOOSE ch \in DOMAIN Escape : Escape[ch] = e[i] ELSE e[i]) = p[i]
    <2>1. CASE p[i] \in DOMAIN Escape
      <3>1. e[i] = Escape[p[i]]
        BY <1>4, <2>1
      <3>2. \A ch \in DOMAIN Escape : Escape[ch] = e[i] <=> ch = p[i]
        BY <1>3, <2>1, <3>1
      <3>. QED  BY <2>1, <3>2
    <2>2. CASE p[i] \notin DOMAIN Escape
      BY <1>1, <1>3, <1>4, <2>2
    <2>. QED  BY <2>1, <2>2
  <1>6. DecodeMountinfoPath(e) = [i \in DOMAIN p |-> p[i]]
    BY <1>4, <1>5 DEF DecodeMountinfoPath
  <1>. QED  BY <1>1, <1>6 DEF e

\* What a call has of mountinfo is what was mounted then, and so are the types
\* in its samples.
StorageInv ==
    /\ mountInfo # Absent => \A p \in Mount :
           mountedThen[p] = IF p \in DOMAIN mountInfo THEN mountInfo[p] ELSE Absent
    /\ \A p \in DOMAIN statted :
           p \in Mount /\ statted[p].stat \in StatVfs /\ statted[p].type = mountedThen[p]

\* Remounts do not reach what a call has read, and a call reads only what was
\* mounted.
LEMMA StorageStep == StorageInv /\ [Next]_vars => StorageInv'
  <1>. SUFFICES ASSUME StorageInv, [Next]_vars PROVE StorageInv'
    OBVIOUS
  <1>1. CASE UNCHANGED storageVars
    BY <1>1 DEF storageVars, StorageInv
  <1>2. ASSUME NEW p \in Mount, NEW t \in FsType \cup {Absent}, Remount(p, t) PROVE StorageInv'
    BY <1>2 DEF Remount, StorageInv
  <1>3. CASE ReadMountInfo
    <2>. DEFINE lines == {p \in Mount : mounted[p] # Absent}
                read == [q \in {DecodeMountinfoPath(Escaped(p)) : p \in lines} |->
                            mounted[CHOOSE p \in lines : DecodeMountinfoPath(Escaped(p)) = q]]
    <2>1. statted' = << >>
      BY <1>3 DEF ReadMountInfo
    <2>2. CASE UNCHANGED <<mountInfo, mountedThen>>
      BY <2>1, <2>2 DEF StorageInv
    <2>3. CASE mountInfo' = read /\ mountedThen' = mounted
      <3>1. {DecodeMountinfoPath(Escaped(p)) : p \in lines} = lines
        BY PathsSurvive
      <3>2. \A q \in lines : (CHOOSE p \in lines : DecodeMountinfoPath(Escaped(p)) = q) = q
        BY PathsSurvive
      <3>3. DOMAIN read = lines /\ \A q \in lines : read[q] = mounted[q]
        BY <3>1, <3>2
      <3>. HIDE DEF read
      <3>4. ASSUME NEW p \in Mount
            PROVE  mounted[p] = IF p \in DOMAIN read THEN read[p] ELSE Absent
        BY <3>3
      <3>. QED  BY <2>1, <2>3, <3>4 DEF StorageInv
    <2>. QED  BY <1>3, <2>2, <2>3 DEF ReadMountInfo
  <1>4. ASSUME NEW p \in Mount, StatMount(p) PROVE StorageInv'
    <2>1. mountInfo # Absent /\ mountInfo' = mountInfo /\ mountedThen' = mountedThen
      BY <1>4 DEF StatMount
    <2>2. CASE UNCHANGED statted
      BY <2>1, <2>2 DEF StorageInv
    <2>3. ASSUME NEW v \in StatVfs,
                 statted' = [q \in DOMAIN statted \cup {p} |->
                    IF q # p THEN statted[q]
                    ELSE [stat |-> v, type |-> IF p \in DOMAIN mountInfo THEN mountInfo[p] ELSE Absent]]
          PROVE  StorageInv'
      <3>1. ASSUME NEW q \in DOMAIN statted'
            PROVE  q \in Mount /\ statted'[q].stat \in StatVfs /\ statted'[q].type = mountedThen[q]
        <4>1. CASE q = p
          BY <2>1, <2>3, <4>1 DEF StorageInv
        <4>2. CASE q # p
          BY <2>3, <4>2 DEF StorageInv
        <4>. QED  BY <4>1, <4>2
      <3>. QED  BY <2>1, <3>1 DEF StorageInv
    <2>. QED  BY <1>4, <2>2, <2>3 DEF StatMount
  <1>5. CASE StorageReturns
    BY <1>5 DEF StorageReturns, StorageInv
  <1>. QED  BY <1>1, <1>2, <1>3, <1>4, <1>5, Parts DEF StorageNext, StorageCall

\* A filesystem sample has the type that was mounted at its path when mountinfo
\* was read and bytes that add up to the limit, however mounts change during
\* collect_filesystems.
THEOREM StorageSamplesAreTrue == Spec => []StorageSamplesTrue
  <1>1. Init => StorageInv
    BY DEF Init, StorageInit, StorageInv
  <1>2. StorageInv => StorageSamplesTrue
    BY BytesAddUp DEF StorageInv, StorageSamplesTrue
  <1>3. StorageInv /\ [Next]_vars => StorageInv'
    BY StorageStep
  <1>. QED  BY <1>1, <1>2, <1>3, PTL DEF Spec

-----------------------------------------------------------------------------
(* The network collector. *)

\* The counters that the CPUs can have for one key.
CpuCounts == [NetCpu -> 0..MaxBytes]

\* A packet is a CPU and a number up to that CPU's counter.
LEMMA PacketsMembers ==
    ASSUME NEW f, NEW S
    PROVE  \A p : p \in Packets(f, S) <=> \E c \in S : \E n \in 1..f[c] : p = <<c, n>>
  BY DEF Packets

\* There are finitely many packets.
LEMMA PacketsFinite ==
    ASSUME NEW f \in CpuCounts, NEW S \in SUBSET NetCpu
    PROVE  IsFiniteSet(Packets(f, S)) /\ Cardinality(Packets(f, S)) \in Nat
  <1>1. IsFiniteSet(NetCpu) /\ IsFiniteSet(1..MaxBytes)
    BY NetworkAssumption, FS_Interval
  <1>2. IsFiniteSet(NetCpu \X (1..MaxBytes))
    BY <1>1, FS_Product
  <1>3. ASSUME NEW c \in S, NEW n \in 1..f[c] PROVE <<c, n>> \in NetCpu \X (1..MaxBytes)
    <2>1. c \in NetCpu /\ f[c] \in 0..MaxBytes
      BY DEF CpuCounts
    <2>. QED  BY <2>1, NetworkAssumption
  <1>4. Packets(f, S) \in SUBSET (NetCpu \X (1..MaxBytes))
    BY <1>3, PacketsMembers
  <1>. QED  BY <1>2, <1>4, FS_Subset, FS_CardinalityType

\* No CPU, no packet.
LEMMA PacketsNone == \A f : Cardinality(Packets(f, {})) = 0
  <1>1. \A f : Packets(f, {}) = {}
    BY DEF Packets
  <1>. QED  BY <1>1, FS_EmptySet

\* A CPU adds as many packets as it has counted.
LEMMA PacketsSplit ==
    ASSUME NEW f \in CpuCounts, NEW S \in SUBSET NetCpu, NEW c \in S
    PROVE  Cardinality(Packets(f, S)) = Cardinality(Packets(f, S \ {c})) + f[c]
  <1>. DEFINE A == Packets(f, S \ {c})
              B == {c} \X (1..f[c])
  <1>1. f[c] \in Nat
    BY NetworkAssumption DEF CpuCounts
  <1>2. IsFiniteSet(1..f[c]) /\ Cardinality(1..f[c]) = f[c]
    <2>1. IsFiniteSet(1..f[c]) /\ Cardinality(1..f[c]) = IF 1 > f[c] THEN 0 ELSE f[c] - 1 + 1
      BY <1>1, FS_Interval
    <2>. QED  BY <1>1, <2>1
  <1>3. IsFiniteSet(B) /\ Cardinality(B) = f[c]
    <2>1. IsFiniteSet({c}) /\ Cardinality({c}) = 1
      BY FS_Singleton
    <2>2. IsFiniteSet(B) /\ Cardinality(B) = Cardinality({c}) * Cardinality(1..f[c])
      BY <1>2, <2>1, FS_Product
    <2>. QED  BY <1>1, <1>2, <2>1, <2>2
  <1>4. Packets(f, S) = A \cup B
    BY PacketsMembers
  <1>5. A \cap B = {}
    BY PacketsMembers
  <1>6. IsFiniteSet(A) /\ Cardinality(A) \in Nat
    <2>1. S \ {c} \in SUBSET NetCpu
      OBVIOUS
    <2>. QED  BY <2>1, PacketsFinite
  <1>. HIDE DEF A, B
  <1>7. Cardinality(A \cup B) = Cardinality(A) + Cardinality(B) - Cardinality(A \cap B)
    BY <1>3, <1>6, FS_Union
  <1>8. Cardinality(A \cap B) = 0
    BY <1>5, FS_EmptySet
  <1>9. Cardinality(A \cup B) = Cardinality(A) + f[c]
    BY <1>1, <1>3, <1>6, <1>7, <1>8
  <1>. QED  BY <1>4, <1>9 DEF A

\* A packet more on a CPU is a packet more in every set with that CPU.
LEMMA PacketsMore ==
    ASSUME NEW f \in CpuCounts, NEW g \in CpuCounts, NEW c \in NetCpu, NEW S \in SUBSET NetCpu,
           g[c] = f[c] + 1, \A x \in NetCpu \ {c} : g[x] = f[x]
    PROVE  Cardinality(Packets(g, S)) = Cardinality(Packets(f, S)) + (IF c \in S THEN 1 ELSE 0)
  <1>1. IsFiniteSet(Packets(f, S)) /\ Cardinality(Packets(f, S)) \in Nat
    BY PacketsFinite
  <1>2. f[c] \in Nat
    BY NetworkAssumption DEF CpuCounts
  <1>3. CASE c \notin S
    <2>1. Packets(g, S) = Packets(f, S)
      <3>1. \A x \in S : g[x] = f[x]
        BY <1>3
      <3>2. \A p : p \in Packets(g, S) <=> p \in Packets(f, S)
        BY <3>1, PacketsMembers
      <3>. QED  BY <3>2
    <2>. QED  BY <1>1, <1>3, <2>1
  <1>4. CASE c \in S
    <2>. DEFINE new == <<c, f[c] + 1>>
    <2>1. new \notin Packets(f, S)
      BY <1>2, PacketsMembers
    <2>2. 1..g[c] = 1..f[c] \cup {f[c] + 1}
      BY <1>2
    <2>3. Packets(g, S) = Packets(f, S) \cup {new}
      <3>1. \A p : p \in Packets(g, S) => p \in Packets(f, S) \cup {new}
        BY <2>2, PacketsMembers
      <3>2. \A p : p \in Packets(f, S) \cup {new} => p \in Packets(g, S)
        BY <1>4, <2>2, PacketsMembers
      <3>. QED  BY <3>1, <3>2
    <2>. HIDE DEF new
    <2>. QED  BY <1>1, <1>4, <2>1, <2>3, FS_AddElement
  <1>. QED  BY <1>3, <1>4

\* The bytes counted for a direction, and the bytes in samples not yet returned.
Counted(d) == IF d \in DOMAIN counters THEN Cardinality(Packets(counters[d], NetCpu)) ELSE 0
PendingBytes(d) == IF d \in DOMAIN finished THEN finished[d] ELSE 0

NetTypes ==
    /\ DOMAIN counters \subseteq Direction /\ DOMAIN finished \subseteq DOMAIN counters
    /\ sent \in [Direction -> 0..MaxBytes]
    /\ \A d \in DOMAIN counters :
           counters[d] \in CpuCounts /\ \A c \in NetCpu : counters[d][c] <= sent[d]
    /\ reading \in [key : Direction \cup {"none"}, cpus : SUBSET NetCpu, sum : Nat]
    /\ \A d \in DOMAIN finished : finished[d] \in Nat
    /\ previous \in [Direction -> Nat]
    /\ reported \in [Direction -> Nat] /\ dropped \in [Direction -> Nat]

\* The packets of a direction are counted, and reported up to the baseline.
Balanced(d) ==
    /\ reported[d] + dropped[d] + PendingBytes(d) = previous[d]
    /\ previous[d] <= Counted(d)
    /\ Counted(d) = sent[d]

\* In the middle of a key: the sum is not ahead of the CPUs that were read, and
\* with those that were not yet it reaches the last sum, for the counters only
\* grow.
ReadInv ==
    LET k == reading.key
        cpus == reading.cpus
    IN  reading # NoKey =>
            /\ k \in DOMAIN counters \ DOMAIN finished
            /\ reading.sum <= Cardinality(Packets(counters[k], cpus))
            /\ previous[k] <= reading.sum + Cardinality(Packets(counters[k], NetCpu \ cpus))

NetInv == NetTypes /\ ReadInv /\ \A d \in Direction : Balanced(d)

\* Nothing is counted when the tracepoints are attached.
LEMMA NetInit == Init => NetInv
  BY NetworkAssumption DEF Init, NetworkInit, NetInv, NetTypes, ReadInv, Balanced, Counted,
                           PendingBytes, NoKey, Zero

\* A packet adds one to what is counted for its direction, at its CPU.
LEMMA PacketStep ==
    ASSUME NetInv, NEW d \in Direction, NEW c \in NetCpu, Packet(d, c)
    PROVE  NetInv'
  <1>1. /\ counters' = Accounted(d, c) /\ sent' = [sent EXCEPT ![d] = @ + 1] /\ sent[d] < MaxBytes
        /\ UNCHANGED <<reading, finished, previous, reported, dropped>>
    BY DEF Packet
  <1>2. DOMAIN counters' = DOMAIN counters \cup {d}
    BY <1>1 DEF Accounted
  <1>3. sent[d] \in Nat /\ MaxBytes \in Nat /\ sent'[d] = sent[d] + 1
    BY <1>1, NetworkAssumption DEF NetInv, NetTypes
  <1>4. ASSUME NEW k \in DOMAIN counters, k # d PROVE counters'[k] = counters[k]
    <2>1. counters[k] \in [NetCpu -> 0..MaxBytes]
      BY DEF NetInv, NetTypes, CpuCounts
    <2>2. counters'[k] = [cpu \in NetCpu |-> counters[k][cpu] + 0]
      BY <1>1, <1>4 DEF Accounted
    <2>3. \A cpu \in NetCpu : counters[k][cpu] + 0 = counters[k][cpu]
      BY <2>1
    <2>. QED  BY <2>1, <2>2, <2>3
  <1>. DEFINE f == IF d \in DOMAIN counters THEN counters[d] ELSE [cpu \in NetCpu |-> 0]
              g == counters'[d]
  <1>5. f \in CpuCounts /\ (\A x \in NetCpu : f[x] \in Nat /\ f[x] <= sent[d])
    BY <1>3, NetworkAssumption DEF NetInv, NetTypes, CpuCounts
  <1>6. g = [cpu \in NetCpu |-> f[cpu] + (IF cpu = c THEN 1 ELSE 0)]
    BY <1>1, <1>2 DEF Accounted
  <1>. HIDE DEF f, g
  <1>7. /\ g[c] = f[c] + 1 /\ \A x \in NetCpu \ {c} : g[x] = f[x]
        /\ \A x \in NetCpu : g[x] \in Nat /\ g[x] <= sent[d] + 1
    BY <1>3, <1>5, <1>6
  <1>8. g \in CpuCounts
    <2>1. \A x \in NetCpu : g[x] \in 0..MaxBytes
      BY <1>1, <1>3, <1>7
    <2>. QED  BY <1>6, <2>1 DEF CpuCounts
  <1>9. NetTypes'
    <2>1. ASSUME NEW k \in DOMAIN counters'
          PROVE  counters'[k] \in CpuCounts /\ \A x \in NetCpu : counters'[k][x] <= sent'[k]
      <3>1. CASE k = d
        BY <1>3, <1>7, <1>8, <3>1 DEF g
      <3>2. CASE k # d
        BY <1>1, <1>2, <1>4, <3>2 DEF NetInv, NetTypes
      <3>. QED  BY <3>1, <3>2
    <2>2. sent' \in [Direction -> 0..MaxBytes]
      <3>1. sent[d] + 1 \in 0..MaxBytes
        BY <1>1, <1>3
      <3>. QED  BY <1>1, <3>1 DEF NetInv, NetTypes
    <2>. QED  BY <1>1, <1>2, <2>1, <2>2 DEF NetInv, NetTypes
  <1>10. \A S \in SUBSET NetCpu : /\ Cardinality(Packets(f, S)) \in Nat
                                  /\ Cardinality(Packets(g, S)) =
                                        Cardinality(Packets(f, S)) + (IF c \in S THEN 1 ELSE 0)
    BY <1>5, <1>7, <1>8, PacketsMore, PacketsFinite
  <1>11. Cardinality(Packets(f, NetCpu)) = Counted(d)
    <2>1. CASE d \in DOMAIN counters
      BY <2>1 DEF f, Counted
    <2>2. CASE d \notin DOMAIN counters
      <3>1. Packets(f, NetCpu) = {}
        <4>1. \A x \in NetCpu : f[x] = 0
          BY <2>2 DEF f
        <4>. QED  BY <4>1, PacketsMembers
      <3>. QED  BY <2>2, <3>1, FS_EmptySet DEF Counted
    <2>. QED  BY <2>1, <2>2
  <1>12. ASSUME NEW k \in Direction PROVE Balanced(k)'
    <2>1. /\ Balanced(k) /\ PendingBytes(k)' = PendingBytes(k) /\ previous[k] \in Nat
      BY <1>1 DEF NetInv, NetTypes, PendingBytes
    <2>2. CASE k = d
      <3>1. Counted(d)' = Cardinality(Packets(g, NetCpu))
        BY <1>2 DEF Counted, g
      <3>2. Counted(d) \in Nat /\ Counted(d)' = Counted(d) + 1
        BY <1>10, <1>11, <3>1
      <3>. QED  BY <1>1, <1>3, <2>1, <2>2, <3>2 DEF Balanced
    <2>3. CASE k # d
      <3>1. Counted(k)' = Counted(k)
        BY <1>2, <1>4, <2>3 DEF Counted
      <3>2. sent'[k] = sent[k]
        BY <1>1, <2>3 DEF NetInv, NetTypes
      <3>. QED  BY <1>1, <2>1, <3>1, <3>2 DEF Balanced
    <2>. QED  BY <2>2, <2>3
  <1>13. ReadInv'
    <2>. DEFINE k == reading.key
                cpus == reading.cpus
    <2>. SUFFICES ASSUME reading # NoKey
                  PROVE  /\ k \in DOMAIN counters' \ DOMAIN finished
                         /\ reading.sum <= Cardinality(Packets(counters'[k], cpus))
                         /\ previous[k] <= reading.sum + Cardinality(Packets(counters'[k], NetCpu \ cpus))
      BY <1>1 DEF ReadInv
    <2>1. /\ k \in DOMAIN counters \ DOMAIN finished
          /\ reading.sum <= Cardinality(Packets(counters[k], cpus))
          /\ previous[k] <= reading.sum + Cardinality(Packets(counters[k], NetCpu \ cpus))
      BY DEF NetInv, ReadInv
    <2>2. /\ cpus \in SUBSET NetCpu /\ NetCpu \ cpus \in SUBSET NetCpu
          /\ reading.sum \in Nat /\ previous[k] \in Nat
      BY <2>1 DEF NetInv, NetTypes
    <2>. HIDE DEF k, cpus
    <2>3. CASE k # d
      BY <1>2, <1>4, <2>1, <2>3
    <2>4. CASE k = d
      <3>1. counters[k] = f /\ counters'[k] = g
        BY <2>1, <2>4 DEF f, g
      <3>2. /\ Cardinality(Packets(f, cpus)) \in Nat /\ Cardinality(Packets(f, NetCpu \ cpus)) \in Nat
            /\ Cardinality(Packets(g, cpus)) \in Nat /\ Cardinality(Packets(g, NetCpu \ cpus)) \in Nat
            /\ Cardinality(Packets(f, cpus)) <= Cardinality(Packets(g, cpus))
            /\ Cardinality(Packets(f, NetCpu \ cpus)) <= Cardinality(Packets(g, NetCpu \ cpus))
        BY <1>10, <2>2
      <3>. QED  BY <1>2, <2>1, <2>2, <3>1, <3>2
    <2>. QED  BY <2>3, <2>4
  <1>. QED  BY <1>9, <1>12, <1>13 DEF NetInv

\* A key is begun with nothing read of it.
LEMMA NextKeyStep ==
    ASSUME NetInv, NextKey
    PROVE  NetInv'
  <1>1. PICK k \in DOMAIN counters \ DOMAIN finished : reading' = [NoKey EXCEPT !.key = k]
    BY DEF NextKey
  <1>2. UNCHANGED <<counters, sent, finished, previous, reported, dropped>>
    BY DEF NextKey
  <1>3. k \in Direction
    BY DEF NetInv, NetTypes
  <1>4. reading' = [key |-> k, cpus |-> {}, sum |-> 0]
    BY <1>1 DEF NoKey
  <1>5. NetTypes'
    BY <1>2, <1>3, <1>4 DEF NetInv, NetTypes
  <1>6. ReadInv'
    <2>1. Cardinality(Packets(counters[k], {})) = 0 /\ NetCpu \ {} = NetCpu
      BY PacketsNone
    <2>2. previous[k] <= Cardinality(Packets(counters[k], NetCpu)) /\ previous[k] \in Nat
      BY <1>3 DEF NetInv, NetTypes, Balanced, Counted
    <2>3. Cardinality(Packets(counters[k], NetCpu)) \in Nat
      BY PacketsFinite DEF NetInv, NetTypes
    <2>4. /\ 0 <= Cardinality(Packets(counters[k], {}))
          /\ previous[k] <= 0 + Cardinality(Packets(counters[k], NetCpu \ {}))
      BY <2>1, <2>2, <2>3
    <2>. QED  BY <1>2, <1>4, <2>4 DEF ReadInv
  <1>7. ASSUME NEW d \in Direction PROVE Balanced(d)'
    BY <1>2 DEF NetInv, Balanced, Counted, PendingBytes
  <1>. QED  BY <1>5, <1>6, <1>7 DEF NetInv

\* One CPU more is read.
LEMMA SumCpuStep ==
    ASSUME NetInv, NEW c \in NetCpu, SumCpu(c)
    PROVE  NetInv'
  <1>. DEFINE k == reading.key
              cpus == reading.cpus
              rest == NetCpu \ cpus
              n == counters[k][c]
  <1>1. /\ reading # NoKey /\ c \notin cpus
        /\ reading' = [reading EXCEPT !.cpus = cpus \cup {c}, !.sum = reading.sum + n]
        /\ UNCHANGED <<counters, sent, finished, previous, reported, dropped>>
    BY DEF SumCpu
  <1>2. /\ k \in DOMAIN counters \ DOMAIN finished
        /\ reading.sum <= Cardinality(Packets(counters[k], cpus))
        /\ previous[k] <= reading.sum + Cardinality(Packets(counters[k], rest))
    BY <1>1 DEF NetInv, ReadInv
  <1>3. /\ counters[k] \in CpuCounts /\ k \in Direction /\ cpus \in SUBSET NetCpu
        /\ reading.sum \in Nat /\ previous[k] \in Nat
    BY <1>2 DEF NetInv, NetTypes
  <1>4. n \in Nat
    BY <1>3, NetworkAssumption DEF CpuCounts
  <1>5. reading' = [key |-> k, cpus |-> cpus \cup {c}, sum |-> reading.sum + n]
    BY <1>1 DEF NetInv, NetTypes
  <1>6. /\ Cardinality(Packets(counters[k], cpus \cup {c})) = Cardinality(Packets(counters[k], cpus)) + n
        /\ Cardinality(Packets(counters[k], rest)) = Cardinality(Packets(counters[k], rest \ {c})) + n
    <2>1. (cpus \cup {c}) \ {c} = cpus /\ cpus \cup {c} \in SUBSET NetCpu /\ c \in cpus \cup {c}
      BY <1>1, <1>3
    <2>2. rest \in SUBSET NetCpu /\ c \in rest
      BY <1>1
    <2>. HIDE DEF k, cpus, rest, n
    <2>3. Cardinality(Packets(counters[k], cpus \cup {c}))
              = Cardinality(Packets(counters[k], (cpus \cup {c}) \ {c})) + counters[k][c]
      BY <1>3, <2>1, PacketsSplit
    <2>4. Cardinality(Packets(counters[k], rest))
              = Cardinality(Packets(counters[k], rest \ {c})) + counters[k][c]
      BY <1>3, <2>2, PacketsSplit
    <2>. QED  BY <2>1, <2>3, <2>4 DEF n
  <1>7. /\ Cardinality(Packets(counters[k], cpus)) \in Nat
        /\ Cardinality(Packets(counters[k], rest \ {c})) \in Nat
    BY <1>3, PacketsFinite
  <1>8. rest \ {c} = NetCpu \ (cpus \cup {c})
    OBVIOUS
  <1>9. NetTypes'
    BY <1>1, <1>3, <1>4, <1>5 DEF NetInv, NetTypes
  <1>10. ReadInv'
    <2>. HIDE DEF k, cpus, rest, n
    <2>1. /\ reading.sum + n <= Cardinality(Packets(counters[k], cpus \cup {c}))
          /\ previous[k] <= (reading.sum + n) + Cardinality(Packets(counters[k], rest \ {c}))
      BY <1>2, <1>3, <1>4, <1>6, <1>7
    <2>2. previous[k] <= (reading.sum + n) + Cardinality(Packets(counters[k], NetCpu \ (cpus \cup {c})))
      BY <1>8, <2>1
    <2>3. reading'.key = k /\ reading'.cpus = cpus \cup {c} /\ reading'.sum = reading.sum + n
      BY <1>5
    <2>. QED  BY <1>1, <1>2, <2>1, <2>2, <2>3 DEF ReadInv
  <1>11. ASSUME NEW d \in Direction PROVE Balanced(d)'
    BY <1>1 DEF NetInv, Balanced, Counted, PendingBytes
  <1>. QED  BY <1>9, <1>10, <1>11 DEF NetInv

\* A finished key: its bytes are pending, its baseline is the sum.
LEMMA KeyDoneStep ==
    ASSUME NetInv, KeyDone
    PROVE  NetInv'
  <1>. DEFINE k == reading.key
              sum == reading.sum
              bytes == IF sum > previous[k] THEN sum - previous[k] ELSE 0
  <1>1. /\ reading # NoKey /\ reading.cpus = NetCpu /\ reading' = NoKey
        /\ finished' = [j \in DOMAIN finished \cup {k} |-> IF j = k THEN bytes ELSE finished[j]]
        /\ previous' = [previous EXCEPT ![k] = sum]
        /\ UNCHANGED <<counters, sent, reported, dropped>>
    BY DEF KeyDone, NewBaseline
  <1>2. /\ k \in DOMAIN counters \ DOMAIN finished
        /\ sum <= Cardinality(Packets(counters[k], NetCpu))
        /\ previous[k] <= sum + Cardinality(Packets(counters[k], NetCpu \ NetCpu))
    BY <1>1 DEF NetInv, ReadInv
  <1>3. /\ k \in Direction /\ sum \in Nat /\ previous[k] \in Nat
        /\ reported[k] \in Nat /\ dropped[k] \in Nat
    BY <1>2 DEF NetInv, NetTypes
  <1>4. previous[k] <= sum
    <2>1. NetCpu \ NetCpu = {}
      OBVIOUS
    <2>2. Cardinality(Packets(counters[k], NetCpu \ NetCpu)) = 0
      BY <2>1, PacketsNone
    <2>. HIDE DEF k, sum
    <2>. QED  BY <1>2, <1>3, <2>2
  <1>5. bytes \in Nat /\ bytes = sum - previous[k]
    <2>. HIDE DEF k, sum
    <2>. QED  BY <1>3, <1>4
  <1>. HIDE DEF k, sum, bytes
  <1>6. NetTypes'
    <2>1. \A d \in DOMAIN finished' : finished'[d] \in Nat
      BY <1>1, <1>5 DEF NetInv, NetTypes
    <2>2. reading' \in [key : Direction \cup {"none"}, cpus : SUBSET NetCpu, sum : Nat]
      BY <1>1 DEF NoKey
    <2>3. DOMAIN finished' \subseteq DOMAIN counters
      BY <1>1, <1>2 DEF NetInv, NetTypes
    <2>4. previous' \in [Direction -> Nat]
      BY <1>1, <1>3 DEF NetInv, NetTypes
    <2>. QED  BY <1>1, <2>1, <2>2, <2>3, <2>4 DEF NetInv, NetTypes
  <1>7. ASSUME NEW d \in Direction PROVE Balanced(d)'
    <2>1. Counted(d)' = Counted(d) /\ Balanced(d)
      BY <1>1 DEF NetInv, Counted
    <2>2. CASE d = k
      <3>1. PendingBytes(d)' = bytes /\ PendingBytes(d) = 0
        BY <1>1, <1>2, <2>2 DEF PendingBytes
      <3>2. previous'[k] = sum
        BY <1>1, <1>3 DEF NetInv, NetTypes
      <3>3. reported[k] + dropped[k] + 0 = previous[k] /\ Counted(k) = sent[k]
        BY <2>1, <2>2, <3>1 DEF Balanced
      <3>4. reported[k] + dropped[k] + bytes = sum
        BY <1>3, <1>5, <3>3
      <3>5. sum <= Counted(k)
        BY <1>2 DEF Counted
      <3>. QED  BY <1>1, <2>1, <2>2, <3>1, <3>2, <3>3, <3>4, <3>5 DEF Balanced
    <2>3. CASE d # k
      <3>1. PendingBytes(d)' = PendingBytes(d)
        BY <1>1, <2>3 DEF PendingBytes
      <3>2. previous'[d] = previous[d]
        BY <1>1, <2>3 DEF NetInv, NetTypes
      <3>. QED  BY <1>1, <2>1, <3>1, <3>2 DEF Balanced
    <2>. QED  BY <2>2, <2>3
  <1>8. ReadInv'
    BY <1>1 DEF ReadInv
  <1>. QED  BY <1>6, <1>7, <1>8 DEF NetInv

\* The end of a call turns what was pending into reported or dropped bytes.
LEMMA CallEnds ==
    ASSUME NetInv, NetworkReturns \/ NetworkFails
    PROVE  NetInv'
  <1>1. /\ finished' = << >> /\ UNCHANGED <<counters, sent, previous>> /\ reading' = NoKey
        /\ \/ reported' = Added(reported) /\ dropped' = dropped
           \/ reported' = reported /\ dropped' = Added(dropped)
    BY DEF NetworkReturns, NetworkFails
  <1>2. ASSUME NEW d \in Direction
        PROVE  /\ PendingBytes(d)' = 0 /\ PendingBytes(d) \in Nat
               /\ Added(reported)[d] = reported[d] + PendingBytes(d)
               /\ Added(dropped)[d] = dropped[d] + PendingBytes(d)
    BY <1>1 DEF NetInv, NetTypes, PendingBytes, Added
  <1>3. /\ DOMAIN Added(reported) = Direction /\ DOMAIN Added(dropped) = Direction
        /\ Added(reported) \in [Direction -> Nat] /\ Added(dropped) \in [Direction -> Nat]
    BY DEF NetInv, NetTypes, Added
  <1>4. NetTypes'
    <2>1. reading' \in [key : Direction \cup {"none"}, cpus : SUBSET NetCpu, sum : Nat]
      BY <1>1 DEF NoKey
    <2>2. DOMAIN finished' = {}
      BY <1>1
    <2>3. reported' \in [Direction -> Nat] /\ dropped' \in [Direction -> Nat]
      BY <1>1, <1>3 DEF NetInv, NetTypes
    <2>4. /\ counters' = counters /\ sent' = sent /\ previous' = previous
      BY <1>1
    <2>. QED  BY <2>1, <2>2, <2>3, <2>4 DEF NetInv, NetTypes
  <1>5. ASSUME NEW d \in Direction PROVE Balanced(d)'
    <2>1. Counted(d)' = Counted(d) /\ Balanced(d) /\ reported[d] \in Nat /\ dropped[d] \in Nat
      BY <1>1 DEF NetInv, NetTypes, Counted
    <2>2. reported'[d] + dropped'[d] + 0 = reported[d] + dropped[d] + PendingBytes(d)
      BY <1>1, <1>2, <2>1
    <2>. QED  BY <1>1, <1>2, <2>1, <2>2 DEF Balanced
  <1>6. ReadInv'
    BY <1>1 DEF ReadInv
  <1>. QED  BY <1>4, <1>5, <1>6 DEF NetInv

\* No step of the process disturbs the balance.
LEMMA NetStep == NetInv /\ [Next]_vars => NetInv'
  <1>. SUFFICES ASSUME NetInv, [Next]_vars PROVE NetInv'
    OBVIOUS
  <1>1. CASE UNCHANGED networkVars
    BY <1>1 DEF networkVars, NetInv, NetTypes, ReadInv, Balanced, Counted, PendingBytes
  <1>2. CASE NetworkNext
    BY <1>2, PacketStep, NextKeyStep, SumCpuStep, KeyDoneStep, CallEnds DEF NetworkNext, NetworkCall
  <1>. QED  BY <1>1, <1>2, Parts

\* For any number of CPUs that count while NetworkCollector::collect reads them,
\* and wherever it fails, no byte is reported twice and none that passed no
\* tracepoint is reported; what is missing is ahead of the baseline or was in a
\* sample of a failed call.
THEOREM NetworkBytesReportedOnce == Spec => []NetworkReportedOnce
  <1>1. NetInv => NetworkReportedOnce
    BY DEF NetInv, Balanced, Counted, PendingBytes, NetworkReportedOnce
  <1>. QED  BY <1>1, NetInit, NetStep, PTL DEF Spec
=============================================================================

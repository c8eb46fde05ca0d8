---------------------------- MODULE CpuCollector ----------------------------
(***************************************************************************)
(* The CPU provider: at every context switch a BPF program adds the time   *)
(* since the last one to the ledger of its CPU, as idle time or as what    *)
(* the task's own user and system times grew by; a call reports the growth *)
(* of each ledger.  Tasks move between CPUs.                               *)
(*                                                                         *)
(* The clock and the task times are apart, as they are in the kernel: it   *)
(* may add to the utime or stime of a task at any moment, whether or not   *)
(* the task runs and however much time has passed.                         *)
(***************************************************************************)
EXTENDS Integers, ProviderCall, SamplePipeline

CONSTANTS
    Cpu,        \* the CPUs, each with an idle task of its own
    Task,       \* the other tasks
    Idle,       \* the idle task
    MaxTicks,   \* bound on the clock
    MaxTaskTime \* bound on the user and on the system time of a task

ASSUME CpuAssumption == Idle \notin Task

State == {"idle_ns", "user_ns", "system_ns"}

VARIABLES
    clock,      \* bpf_ktime_get_ns, since the program was attached; starts at one
    current,    \* by CPU, the task that runs
    times,      \* by task, utime and stime
    ledger,     \* cpu_counters_per_cpu_map
    cpuPrevious,\* CpuCollector::previous_cpu_counters
    (* History, read by the property only. *)
    cpuReported,\* by CPU, the time in all snapshots that were returned
    spent,      \* by CPU since its ledger began, the time it was idle and what
                \* the kernel added to tasks while they were on it
    settled     \* what was spent up to the last switch

cpuVars == <<clock, current, times, ledger, cpuPrevious, cpuReported, spent, settled>>

NoTime == [state \in State |-> 0]
NoLedger == [last_switch |-> 0, active_user |-> 0, active_system |-> 0, time |-> NoTime]

\* CpuCollector::load.  Some task may be running, and have run before.
CpuInit ==
    /\ clock = 1
    /\ current \in {f \in [Cpu -> Task \cup {Idle}] :
            \A c, d \in Cpu : f[c] = f[d] /\ f[c] # Idle => c = d}
    /\ name # "cpu" => current = [c \in Cpu |-> Idle]
    /\ times = [t \in Task \cup {Idle} |-> [utime |-> IF t = Idle THEN 0 ELSE 1, stime |-> 0]]
    /\ ledger = [c \in Cpu |-> NoLedger]
    /\ cpuPrevious = [c \in Cpu |-> NoTime]
    /\ cpuReported = [c \in Cpu |-> NoTime]
    /\ spent = [c \in Cpu |-> NoTime] /\ settled = spent

\* The ledger of c has begun, and t is on c.
On(c, t) == ledger[c].last_switch # 0 /\ current[c] = t

\* Time passes.
Tick ==
    /\ name = "cpu"
    /\ clock < MaxTicks
    /\ clock' = clock + 1
    /\ spent' = [c \in Cpu |->
            IF On(c, Idle) THEN [spent[c] EXCEPT !["idle_ns"] = @ + 1] ELSE spent[c]]
    /\ UNCHANGED <<current, times, ledger, cpuPrevious, cpuReported, settled, callVars>>

\* The kernel adds to a task's time, in user or in kernel mode.
Account(t, mode) ==
    LET state == IF mode = "utime" THEN "user_ns" ELSE "system_ns"
    IN  /\ name = "cpu"
        /\ times[t][mode] < MaxTaskTime
        /\ times' = [times EXCEPT ![t][mode] = @ + 1]
        /\ spent' = [c \in Cpu |->
                IF On(c, t) THEN [spent[c] EXCEPT ![state] = @ + 1] ELSE spent[c]]
        /\ UNCHANGED <<clock, current, ledger, cpuPrevious, cpuReported, settled, callVars>>

\* The ledger's time after prev has run on a CPU until now.
Accrued(l, prev) ==
    IF prev = Idle
    THEN [l.time EXCEPT !["idle_ns"] = @ + (clock - l.last_switch)]
    ELSE LET user == times[prev].utime - l.active_user
             system == times[prev].stime - l.active_system
         IN  [l.time EXCEPT !["user_ns"] = @ + (IF user >= 0 THEN user ELSE 0),
                            !["system_ns"] = @ + (IF system >= 0 THEN system ELSE 0)]

\* Mutant: the task that follows the idle task is not remembered.
SwitchedUnremembered(l, prev, next) ==
    [last_switch |-> clock,
     active_user |-> IF prev = Idle THEN l.active_user ELSE times[next].utime,
     active_system |-> IF prev = Idle THEN l.active_system ELSE times[next].stime,
     time |-> IF l.last_switch = 0 THEN l.time ELSE Accrued(l, prev)]

\* The ledger after talia_sched_switch: the first switch only starts it.
Switched(l, prev, next) ==
    [last_switch |-> clock,
     active_user |-> times[next].utime, active_system |-> times[next].stime,
     time |-> IF l.last_switch = 0 THEN l.time ELSE Accrued(l, prev)]

\* A CPU switches to a task that runs nowhere, or to its idle task.
SchedSwitch(c, next) ==
    /\ name = "cpu"
    /\ next # current[c]
    /\ next # Idle => \A d \in Cpu : current[d] # next
    /\ ledger' = [ledger EXCEPT ![c] = Switched(@, current[c], next)]
    /\ current' = [current EXCEPT ![c] = next]
    /\ settled' = [settled EXCEPT ![c] = spent[c]]
    /\ UNCHANGED <<clock, times, cpuPrevious, cpuReported, spent, callVars>>

\* cpu_snapshots: the growth of every ledger becomes its snapshot.
CpuReturns ==
    /\ Running("cpu")
    /\ cpuReported' = [c \in Cpu |-> [s \in State |->
            cpuReported[c][s] +
                (IF ledger[c].time[s] >= cpuPrevious[c][s]
                 THEN ledger[c].time[s] - cpuPrevious[c][s] ELSE 0)]]
    /\ cpuPrevious' = [c \in Cpu |-> ledger[c].time]
    /\ Return(CpuSamples)
    /\ UNCHANGED <<clock, current, times, ledger, spent, settled>>

\* The map cannot be read.
CpuFails ==
    /\ Running("cpu")
    /\ Fail
    /\ UNCHANGED cpuVars

CpuCall == CpuReturns \/ CpuFails

CpuNext ==
    \/ CpuCall
    \/ Tick
    \/ \E t \in Task, mode \in {"utime", "stime"} : Account(t, mode)
    \/ \E c \in Cpu, next \in Task \cup {Idle} : SchedSwitch(c, next)

\* The ledger of a CPU holds, for the time between its first switch and its
\* last, how long the CPU was idle and all that the kernel added to tasks while
\* they were on it, whichever tasks came, went and moved to other CPUs: nothing
\* that a task got elsewhere is charged here, nothing is charged twice, and the
\* saturating subtractions hide nothing.  All snapshots together report no more.
CpuTimeChargedWhereSpent ==
    \A c \in Cpu : ledger[c].time = settled[c] /\ cpuReported[c] = cpuPrevious[c]
============================================================================

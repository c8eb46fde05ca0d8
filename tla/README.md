# A TLA+ model of Talia

Talia is a host agent (`talia-agent`) that collects metrics, and a control
server (`talia-control`) that hands every agent its runtime configuration. This
directory holds TLA+ modules translated from the Rust and C sources, the TLC
configurations that check them on small instances, and TLAPS proofs of all the
safety properties among them for instances of any size. `PROJECT.json` maps every
definition to its source lines.

## 1. The system

| Part | State it keeps | Operations | Interacts through |
|---|---|---|---|
| Control server, sessions (`talia-control/src/main.rs`) | registry of connected agents behind one lock; one task per WebSocket with its bound agent id and notification queue | upgrade, hello, heartbeat, notification, lag, end, cleanup | WebSocket; the registry lock |
| Control server, config (`main.rs`) | active config behind another lock; config file | admin reload (load, swap, notify), agent config request | HTTP; broadcast channel |
| Config model (`talia-core/src/config.rs`) | none | defaults + host override, validation, enrolment | called by both sides |
| Agent control client (`talia-agent/src/control.rs`) | running config, session id, backoff | WebSocket loop, polling loop, refresh | HTTP, WebSocket, shared locks |
| Last-known-good config (`local_config.rs`, `commands/run.rs`) | `last-config.json` | save, load at start | file system |
| Collector runner (`runner.rs`) | provider, cloned config | clone, load, sleep, collect, emit | reads the running config |
| Pod discovery (`pod_discovery/`) | CRI clients, job queue | refresh, dial, list, status, PID scan | a worker thread, two timeouts |
| TCP provider (`modules/tcp/`) | a baseline per pod | collect | procfs, pod discovery |
| Disk I/O collector (`modules/disk_io/`) | per-CPU counters and start times in BPF maps; last sums | issue, complete, collect | kernel tracepoints, BPF maps |
| CPU, network, memory, storage collectors (`modules/`) | per-CPU ledgers and counters in BPF maps; last sums | switch, packet, collect | BPF maps, procfs, `statvfs` |
| Identity (`identity.rs`) | agent-id file | find or create the id at start | file system; enrolment is keyed by the id |
| Sample pipeline (`talia-core/src/pipeline`, `sinks/`, `processors/`) | none | filter by name, record in an instrument | providers, OTLP |
| Commands (`commands/collect.rs`, `commands/providers/`) | one provider; a config with overrides | collect until a limit, `--set`, show, describe | providers, local config file |
| Deployment scripts | symbolic links | install, roll back | file system |

What is hard here is concurrency at awaits (server handlers take two locks one
after the other; two agent tasks refresh at once), sessions that end while
requests that use them are under way, timeouts that race late answers, crashes
between two file operations, and counters read while they move. `PROJECT.json`
lists each such place under `hazards`, with the properties that guard it.

What makes each part correct:

* sessions: one live connection per agent id, no leftovers, no takeover;
* config serving: only to a session that has shown the agent's credentials, only
  for the host the agent is enrolled for, only validated configs, and an agent
  is notified only of a version that was swapped in before;
* agent: runs only validated configs, never uses the session of another
  connection, and ends up with the server's config once failures stop, if its
  peer answers and notices dead sockets;
* runner: no more than one batch under an outdated config, the reported window
  is the one slept, providers are recovered and released;
* discovery: answers belong to the question, an outage is not an empty node,
  the caller always returns;
* counters: nothing is counted twice, invented, or wraps, whatever call fails;
* config: a file that is accepted serves its hosts, the two tables of defaults
  agree, an override stays in its section, tokens do not leave the host in plain
  text, polling is spread within its bounds;
* identity: an agent introduces itself under one id for ever;
* samples: a sample is true of its mount, and ends in the instrument of its name;
* `collect`: ends, and on time.

## 2. Modules

| Module | Models | Checked by |
|---|---|---|
| `SessionLease` | what the registry promises: an agent id is leased to one connection, until that connection gives it up or ends | implemented by `ControlServer` |
| `ControlServer` | the server's tasks and locks | `MCControlServer`, `ControlServerProofs` |
| `AgentControl` | the agent-id file, the agent's two control loops, the running config and `last-config.json` | `MCAgentControl`, `AgentControlProofs` |
| `RuntimeConfig` | defaults, validation, overrides, URLs, poll spread as operators | `ControlConfig` |
| `ControlConfig` | the control file under edits and reloads, what hosts are answered, a command that reads a local file and applies `--set` | `MCControlConfig`, `ControlConfigProofs` |
| `Runner` | `run_collector` | `MCRunner`, `RunnerProofs` |
| `PodDiscovery` | `refresh()` and its worker | `MCPodDiscovery`, `PodDiscoveryProofs` |
| `TcpProvider` | `collect()` over churning pods | `MCTcpProvider`, `TcpProviderProofs` |
| `DiskIo` | the BPF programs and their reader | `MCDiskIo`, `DiskIoProofs` |
| `ProviderCall` | the `Provider` trait as its caller sees it | extended by the collectors |
| `SamplePipeline` | names and kinds of all samples, the name filter, the OTLP instruments | extended by the collectors |
| `MemoryCollector`, `NetworkCollector`, `CpuCollector`, `StorageCollector` | one provider each, and the kernel under it | `CollectCommand` |
| `CollectCommand` | the loop of `talia-agent collect`, composed with the collectors | `MCCollectCommand`, `CollectProofs` |

Conventions. One action is what the code does between two points where others
can run: an await, a lock, a file operation, a thread switch. History variables
are declared after the program state and read by properties only. A definition
marked `Mutant:` is a plausible bug in the definition after it; it is not part of
the specification, and each property is violated with one of them in place.

### ControlServer

`agents` is `state.agents` (agent id to connection and hostname), `config` is
`state.config` reduced to a version of the file, `sock`, `current`, `hello`,
`sink` are the locals of the socket tasks, `queue` and `lagged` the broadcast
receivers, `reload` and `request` the HTTP handlers in progress.

* A hello is `HelloAuthorize` (config lock) and then `HelloRegister` or
  `HelloDuplicate` (registry lock); the locks are not held together. A rejected
  hello closes the sink, but the loop goes on (`Reject`), as in the code.
* A heartbeat rewrites the registered hostname without a check, as in the code.
* `RemoveAgent` is the cleanup after the loop, a step of its own.
* A reload is `ReloadLoad`, `ReloadSwap`, `ReloadNotify`; a config request is
  `RequestSnapshot`, `RequestAnswer`.
* `Restart` ends the process: only the file survives.

Bearer tokens are left out: a caller without the right one changes nothing.
Which versions are valid and whom each enrols are constants.

### AgentControl

The two tasks `"ws"` and `"poll"` run the same refresh, split at the response,
the truncation, the write and the assignment. The server is the environment:
it binds one session to the agent, answers a request that carries it with the
config active then and refuses others. `faults` bounds how often something
fails; session numbers are reused only when nothing remembers them.

The agent begins without an id file. `CreateId` and `WriteId` are the two system
calls of `write_agent_id_file`; `WriteIdFails` is a failed write or a crash in
between. A file that is left empty makes `load_or_create_agent_id` fail at every
later start (`StartRefused`), which is why `Converges` allows for that outcome
and for no other. `known` are the ids the agent has said hello under.

`Crash` is a crash of the process: what it has written is kept. The code syncs
no file, so a crash of the host may lose more; that is not modelled.

`Converges` has four premises: every request ends, every dial ends, the server
gets to every hello, and it notices in the end that a socket is over. The code
gives none of them (no timeout on requests and dials, no keepalive), so they are
hypotheses of the property and not fairness of the specification. Without
`DeadSocketsNoticed`, for one, a reconnecting agent may be refused for ever.

### RuntimeConfig, ControlConfig

A config is a function from sections to settings; a setting has the few values
around its limits (`MCControlConfig` gives them). `Default` is the code's
`Default`, `SerdeDefault` what a section in a file gets for the fields it leaves
out; the two are written down separately in the code, and so here. A host block
is a partial config on top of the file's defaults. The version that a config
carries is a hash over its host and settings; it is left out, for a model in
which it were injective would show nothing about it. A URL is a scheme and an
authority; the authority is a sequence of tokens (host names, `:`, `@`,
brackets), cut at the characters at which `plaintext_url_is_loopback` cuts it.

`ControlConfig` has three parts that share the operators: the control file, which
an operator edits block by block, breaks and repairs, with `Reload`, and what it
answers a host (`Answer`; a request leaves no trace here); one URL that is
checked; and a command that loads a local file and applies two assignments. A
file may have a block for the empty hostname. `validate_runtime_configs` resolves
`""` to check the defaults, which such a block changes, so
`AcceptedFileServesItsHosts` says nothing of the hosts without a block then: invalid
defaults pass the reload if the block repairs them, and such hosts are answered 500.

### ProviderCall, SamplePipeline, the collectors, CollectCommand

`CollectCommand` runs one provider per behaviour; the others rest in their
initial states. A call is split wherever the kernel can change what it reads:
between `/proc/meminfo` and `/proc/vmstat`, between the keys of the network map
and the CPUs of a key, between mountinfo and each `statvfs`. It may fail at each.
The kernel's steps are taken while the loop sleeps or a call runs (`Waiting`);
elsewhere they commute with the loop's. The clock and the times of tasks are
apart in `CpuCollector`: the kernel may add to a task's user or system time at
any moment (`Account`), however much time has passed and also when the task is
not running. What it adds while the task is on a CPU is charged to that CPU at
the next switch; what it adds afterwards is charged nowhere, which is what the
code does. A mount path is a sequence of characters by name; a character that the
kernel escapes in mountinfo is one token, its octal escape another. `statvfs` may
answer with any block counts, also ones that do not nest. `tcp` and `disk_io` have
models of their own, and their calls only return or fail here. `Arms` and `Built`
are the two tables of `OtlpSink`, compared with the names the providers use.

### Runner, PodDiscovery, TcpProvider, DiskIo

`Runner` is one task of either kind (`sleep_before_collect` or not) with the
shared config replaced between any two of its steps. `PodDiscovery` has a clock,
because the order of the two timeouts matters: both threads act on a due timer
before time goes on, CRI calls may take for ever, and the `/proc` scan ignores
timeouts. `TcpProvider` reads its two files, three counters and two, in two steps, with pods
starting, stopping and resetting in between; discovery is any subset of the pods,
and deltas are unsigned and wrap (`Minus`).

`DiskIo` runs each BPF program as one step on a CPU and reads the CPUs one by
one; a collection may fail before or after its baseline has moved on. A request
is an extent, a sector and a number of bytes. The key at issue is made of these
bytes, the key at completion of the completed sectors turned into bytes, so the
two agree only if the request is a whole number of sectors and completes at once.
A request may be put back and issued again (`Reissue`), complete in parts
(`Complete` with fewer sectors; the rest is a request further on), complete with
no sectors (a return without effect), or have been issued before the programs
were attached. `evicted` and `overwritten` count the start times that were lost.

## 3. Runs

| Run | Instance | Shows |
|---|---|---|
| `server_registry` | 2 agents, 2 connections, 1 reload at a time, 3 file versions of which one is invalid, queue of 1, restarts | `TypeOK`; `RegistryMatchesTasks`: an id has an entry exactly if one unfinished task is bound to it; `LeaseSpec`: the registry implements `SessionLease`; `ActiveConfigValid`, `NotifiedAfterSwap`, `NewestNeverLost` |
| `server_requests` | 1 agent, 2 hosts, 2 connections, 1 request, 1 reload that moves the agent | `ServedToProvenSession`, `ServedForEnrolledHost` |
| `server_reload_race` | 2 reloads, 2 versions | violation of `QuiescentConfigIsNewest` |
| `agent_control` | 2 server configs, 3 sessions, 2 faults | `OnlyGoodConfig`, `SessionOfThisConnection`, `StableAgentId`, `Converges` |
| `agent_crash` | one crash | violation of `LastKnownGoodSurvives` |
| `runner` | 3 config changes, 2 intervals, both kinds | `AtMostOneStaleBatch`, `WindowIsTheSleep`, `LabelIsTheConfigUsed`, `DisabledReleasesProvider`, `Recovers` |
| `discovery` | 2 sockets, 2 refreshes, timeouts of 6 and 5 ticks | `AnswerIsCurrent`, `ClientsMatchSelection`, `EmptyMeansListed`, `WorkerReportsFirst`, `RefreshReturns` |
| `tcp_deltas` | 1 pod, 2 PIDs, 5 counters, 3 segments, words of 16 values | `NoPhantomTraffic` |
| `disk_counts` | 2 CPUs, 1 request of two sectors, 2 issues or reissues, a start-time map of 1, 2 collections | `CountedOnce`, `ReportedConserved`, `GaugeAccounted` |
| `disk_latency` | 2 CPUs, 2 requests | violation of `AverageWithinLatencies` |
| `config` | 2 hosts; blocks for one of them and for the empty name, values on both sides of each limit, URL authorities of up to 4 tokens, 2 assignments | `AcceptedFileServesItsHosts`, `LocalMatchesRemote`, `SetStaysInSection`, `PlaintextStaysLocal`, `PollSpreadBounded` |
| `collect` | 6 providers; 3 pages, 2 CPUs and a task besides the idle ones, 2 bytes per direction, 2 mounts with escaped names and 2 types; intervals 0 to 2, limits none, 0, 1, 3 | `SwapConserved`, `CpuTimeChargedWhereSpent`, `NetworkReportedOnce`, `StorageSamplesTrue`, `StopsOnTime`, `EverySampleHasInstrument`, `Terminates` |

Deadlock is checked but in the runs of `DiskIo`, where requests need not come and
the bounds end them.

Why the bounds suffice for the cases of interest. The registry races need an old
connection and its replacement, and two ids for a second hello under another id;
the same properties are proved for any number of both. The request race needs one request, two
connections and a reload. Overflow needs one notification more than the queue
holds, and the reload can run again while one waits. The agent's races need two overlapping
refreshes and a config change between them; two faults give a failure during the
recovery from another. Late discovery answers need two refreshes. A pod is
independent of the others except for the list of those seen; an instance with
two pods and three PIDs was also explored. With a map of one entry, a request of
two sectors and two issues `disk_counts` reaches overwriting (a requeue), eviction
(half completes under a key that no issue stored, and the rest is issued again),
a request that straddles the load of the programs, and completions on another CPU
than the issue. The sums need two collections. Instances with two
requests and four issues, which reach keys that match those of another request,
were explored without collections, and the theorems are for any number. A collector's baseline
goes wrong, if it does, between two calls that succeed and one that fails among
them, which three pages or two bytes tell apart. A task that is accounted for
once in user and twice in system mode can run on one CPU, leave it to the idle
task, be accounted for while it waits, and run on the other; two tasks were also
explored, without the other providers. The limits 0, 1 and 3 with intervals 1 and
2 have the limit met exactly, passed during a call and passed during a sleep.

### Findings

* **Overlapping reloads** (`server_reload_race`). Each reload reads the file
  before it waits for the lock. If the file is edited between two reads, the
  older content may be swapped in last, and both requests have succeeded. The
  next reload repairs it.
* **Crash during the save** (`agent_crash`). `last-config.json` is truncated in
  place. A crash before the write ends leaves no last-known-good config.
* **Average latency** (`disk_latency`). Failed requests add latency and no
  operation, so the average can exceed every single latency.

Seen while reading, without a run: a request that is requeued raises the in-flight
gauge of `disk_io` twice and lowers it once, so it stays above zero on an idle
device, and so do evicted start times and keys that do not meet again
(`GaugeAccounted` says that nothing else makes it drift); the defaults of a control
file are validated as the config of host `""`, so a block for that name which
repairs them lets an invalid file pass, and hosts without a block get 500; two
refreshes that overlap can leave one
config in `last-config.json` and the other running, until the next refresh; and
`systemd/talia-agent.service` starts the agent without `run`, which
`src/README.md` (lines 86-87) says the service needs.

### Fairness

`AgentControl`: what the agent's own runtime and its service manager give. Both
loops are polled, timers fire, file operations return, the end of a socket is
seen (the loop sends heartbeats), and systemd starts a stopped agent again. All of
it is weak fairness; faults and reloads are finite (the budgets). Nothing is
assumed of the peer: that requests, dials and hellos end and dead sockets are
noticed are premises of `Converges`.

`Runner`: timers fire and the blocking pool finishes (weak fairness of the
task). `Recovers` has as a premise, not as fairness of the specification, that
a factory which is tried again and again does not fail every time.

`PodDiscovery`: time passes and both threads act on messages and timers. CRI
calls and the scan are not fair, and the caller returns all the same.

`CollectCommand`: timers fire, and a call ends by itself (weak fairness of
`Progress`), because it only reads files and maps of the kernel; a `statvfs` that
hangs on a dead network filesystem is not covered. The kernel's steps and Ctrl-C
are not fair.

## 4. Proofs

Every safety property of the passing runs is a theorem of its specification, for
every value of the constants that satisfies the named assumptions. TLC evaluates
those assumptions in each run.

**`ControlServerProofs`** (any sets of agents, hosts, tokens, connections, reloads
and requests, any queue capacity above zero, any enrolment tables:
`ServerAssumption`).

| Theorem | States | Rests on |
|---|---|---|
| `TypeCorrect` | `[]TypeOK` | itself inductive; `PushedType`, `ForgetType` |
| `RegistryAgrees` | `[]RegistryMatchesTasks` | `RegistryInv` |
| `LeaseRefinement` | `LeaseSpec` | `RegistryInv`; every action maps to `Acquire`, `End` or a stutter |
| `LeaseExclusive` | `[]Lease!Exclusive` | `LeaseRefinement`, and that the leases stay exclusive |
| `OnlyProvenSessionsServed` | `[]ServedToProvenSession` | `ProvenInv` |
| `EnrolledHostServed` | `[]ServedForEnrolledHost` | `TypeOK` |
| `OnlyValidConfigServed`, `SwapBeforeNotify`, `NewestNotificationKept` | `[]ActiveConfigValid`, `[]NotifiedAfterSwap`, `[]NewestNeverLost` | `NotifyInv`, `PushedElements` |

`RegistryInv` adds to the correspondence that connections that have not opened or
have finished are bound to nothing. What is served was a registry entry before,
which was an authorised hello before that: `ProvenInv` says of entries, pending
hellos and snapshots that their connection has proved the id. A swap makes active
what was loaded earlier and a notification names what was swapped earlier:
`NotifyInv` says that what a reload has in hand is valid and, once swapped, has
been active, and that a connection that has not opened has been told nothing.

**`AgentControlProofs`** (any number of configs, sessions and faults).
`GoodConfigOnly` rests on `GoodInv`: a task that has got an answer may hold a bad
config, but one that writes or applies holds a validated one, so neither the file
nor the running config can get another. `SessionIsCurrent` states
`SessionOfThisConnection`, which is inductive. `AgentIdStable` rests on `IdInv`: a
running process has the id that is in the file, and no id is in use while the file
is missing or blank.

**`RunnerProofs`** (any number of changes and intervals). `StaleBatchBound` needs
`StaleInv`: once a stale batch is out, the clone in use is current. `WindowSlept`
and `LabelMatchesConfig` need `CloneInv`: sleep, window and settings of an
iteration come from one clone.

**`PodDiscoveryProofs`** (any sockets and pods, any number of refreshes).
`RefreshAnswersItsJob` (`JobInv`) orders the job ids in the queue, at the worker
and in the replies, so that a late reply is never for the last job.
`PodListsAreListed` (`ListedInv`) and `PassUsesItsSelection` (`ClientInv`) follow a
pass through its phases. `WorkerAlwaysReportsFirst` has the hypothesis that the
worker's timeout plus the longest ordinary scan is less than the caller's timeout,
which is what the two constants in the code are for; `TimeInv` relates the two
clocks of a job.

**`TcpProviderProofs`** (any pods, PIDs and traffic; `NoPid` is neither a PID nor a uid).
`OnlyRealTraffic`. `TrafficInv` says for every pod that what
was reported, plus what the counters are ahead of the baseline, is no more than
what the pod really had; while a pod is half read, the same of the file that was
read. That no subtraction wraps is part of it: what a wrapped one reports would
exceed all traffic.

**`DiskIoProofs`** (any finite set of CPUs, any requests, extents and sector sizes).
`CompletionsCountedOnce`; `CompletionsReportedOnce`, for which `CollectInv` bounds
the sum of a collection under way from both sides: it is not ahead of the CPUs that
were read, and with those not yet read it reaches the last sum;
`GaugeIsAccountedFor` (`GaugeInv`), without any hypothesis on keys. The facts about sums over a finite set
(`SumRemove`, `SumAgree`, `SumChange`) are proved first. They are inductions, done
as arguments about a smallest counterexample: proper subsets of a finite set are
well-founded.

**`ControlConfigProofs`** (any hosts, files, values and URL authorities;
`ValueTypes` says which values are numbers, `DefaultNames` that the default mount
is absolute and the default socket not blank). `AcceptedFilesServe` (`ServeInv`:
the active file resolves to a valid config for `""` and for every block),
`PollIntervalsSpread` (`PollInv`, and `JitterBounds` about the arithmetic),
`TablesMeanTheSame`, `AssignmentsStayInSection` (`CommandInv`), and
`PlaintextIsLoopback`, which compares the code's cuts of an authority with a URL
parser's (`BeforeIsPrefix`, `RealHostWithoutAt`, `LoopbackIsLocal`).

**`CollectProofs`** (any arguments, CPUs, tasks, mounts and sizes). `Parts` splits
a step of the process among the collectors, each of which has an invariant of its
own.

| Theorem | States | Why the invariant says more than the property |
|---|---|---|
| `SwapTrafficConserved` | `[]SwapConserved` | `SwapInv`: the counters are not behind the baseline, so nothing saturates |
| `CpuTimeIsCharged` | `[]CpuTimeChargedWhereSpent` | `CpuInv`: what was spent on a CPU since the last switch is what the next switch will add (`Charged`, `Owed`), so nothing saturates |
| `NetworkBytesReportedOnce` | `[]NetworkReportedOnce` | `NetInv`: bounds on a sum under way from both sides (`ReadInv`); a sum over CPUs is the cardinality of a set of packets |
| `StorageSamplesAreTrue` | `[]StorageSamplesTrue` | `StorageInv`: what a call has of mountinfo is what was mounted then; `BytesAddUp`; `PathsSurvive`: an escaped path decodes to itself |
| `CollectStopsOnTime` | `[]StopsOnTime` | `LoopInv`: how late it can be at each point of the loop |
| `SamplesHaveInstruments` | `[]EverySampleHasInstrument` | every sample has an arm of `emit` (`SamplesKnown`), and every arm its own instrument (`ArmsBuilt`) |

Preservation is proved action by action throughout; frame lemmas dispose of the
actions that do not touch the variables at stake.

Only model-checked: liveness (`Converges`, `DisabledReleasesProvider`, `Recovers`,
`RefreshReturns`, `Terminates`), which the prover does not support.

## 5. Not modelled

Parsers of procfs text (a file that does not parse is one that cannot be read),
the CRI message types, the text that the commands print, sample attributes, the
OTLP exporter and the build script hold no state of interest. JSON and TOML
encodings are taken to carry what they are given. The install and rollback
scripts are shell outside the Rust workspace; a crash between two of their steps
can leave a link to the wrong version. Config versions are hashes; that two of
them are equal only if the settings are is not claimed. Still to come:
`ControlPlane`, several agents composed with the server, messages in flight in
both directions, end-to-end convergence.

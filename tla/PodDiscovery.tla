---------------------------- MODULE PodDiscovery ----------------------------
(***************************************************************************)
(* Pod discovery (talia-agent/src/pod_discovery/mod.rs): the synchronous   *)
(* refresh() of the TCP provider hands a job with its own reply channel to *)
(* a worker thread and waits for at most REFRESH_TIMEOUT; the worker keeps *)
(* the CRI clients between jobs and gives a job at most                    *)
(* WORKER_REFRESH_TIMEOUT of awaiting.  The /proc scan that ends a pass is *)
(* synchronous, so no timeout interrupts it.                               *)
(*                                                                         *)
(* Time is counted in ticks that both timeouts are multiples of.           *)
(* Abstracted: CRI message contents beyond "which pods", pod names, the    *)
(* spelling of UIDs in cgroup paths.                                       *)
(***************************************************************************)
EXTENDS Naturals, Sequences

CONSTANTS Sockets,        \* how many well-known sockets, numbered in order
          Uid,            \* pod UIDs
          HostNetwork,    \* the pods that share the host's namespace
          CallerTimeout,  \* REFRESH_TIMEOUT in ticks
          WorkerTimeout,  \* WORKER_REFRESH_TIMEOUT in ticks
          MaxScan,        \* ticks a /proc scan takes unless it is slow
          MaxJob          \* bound: refresh() calls

Socket == 1..Sockets

ASSUME DiscoveryAssumption ==
    /\ Sockets \in Nat \ {0}
    /\ HostNetwork \subseteq Uid
    /\ CallerTimeout \in Nat /\ WorkerTimeout \in Nat /\ WorkerTimeout < CallerTimeout
    /\ MaxScan \in Nat /\ MaxJob \in Nat

\* SocketSelection: 0 for All, Sockets + 1 for FirstWins, s for Explicit(s).
All == 0
FirstWins == Sockets + 1
Selection == 0..(Sockets + 1)
NoSelection == Sockets + 2

NoAnswer == [kind |-> "none", job |-> 0, selection |-> NoSelection,
             listed |-> {}, pods |-> {}]

VARIABLES
    running,    \* running[s]: READY sandboxes of the runtime behind s
    caller,     \* "idle" or "waiting"
    waited,     \* ticks the caller has waited for its job
    lastJob,    \* number of the last job sent; the one the caller waits for
    asked,      \* the selection it was sent with
    jobs,       \* the worker's inbox
    reply,      \* reply[j]: what was sent on job j's reply channel
    worker,     \* "idle", "dial", "list", "status", "scan"; "broken", "dead"
    job,        \* the job in hand
    spent,      \* ticks spent awaiting, then (up to MaxScan + 1) scanning
    slow,       \* history: some scan has taken more than MaxScan
    clients,    \* sockets with a connected client
    active,     \* active_selection
    pass,       \* what this pass has found: sockets listed, pods left
    answer      \* the last result refresh() returned

callerVars == <<caller, waited, lastJob, asked, answer>>
workerVars == <<worker, job, spent, slow, clients, active, pass>>
vars == <<running, callerVars, jobs, reply, workerVars>>

NoJob == [id |-> 0, selection |-> NoSelection]
NoPass == [listed |-> {}, pods |-> {}]

\* A worker whose runtime cannot be built answers every job with WorkerGone.
Init ==
    /\ running \in [Socket -> SUBSET Uid]
    /\ caller = "idle" /\ waited = 0 /\ lastJob = 0 /\ asked = NoSelection
    /\ jobs = << >> /\ reply = [j \in 1..MaxJob |-> NoAnswer]
    /\ worker \in {"idle", "broken"}
    /\ job = NoJob /\ spent = 0 /\ slow = FALSE /\ clients = {} /\ active = NoSelection
    /\ pass = NoPass
    /\ answer = NoAnswer

-----------------------------------------------------------------------------
(* refresh() *)

\* reconfigure and refresh: send a job with the current selection.
Ask(sel) ==
    /\ caller = "idle" /\ worker # "dead"
    /\ lastJob < MaxJob
    /\ lastJob' = lastJob + 1 /\ asked' = sel
    /\ jobs' = Append(jobs, [id |-> lastJob + 1, selection |-> sel])
    /\ caller' = "waiting" /\ waited' = 0
    /\ UNCHANGED <<running, answer, reply, workerVars>>

Gone(j) == [NoAnswer EXCEPT !.kind = "gone", !.job = j]

\* The worker thread has died, so nothing can be sent: WorkerGone.
AskNobody(sel) ==
    /\ caller = "idle" /\ worker = "dead"
    /\ lastJob < MaxJob
    /\ lastJob' = lastJob + 1 /\ asked' = sel
    /\ answer' = Gone(lastJob + 1)
    /\ UNCHANGED <<running, caller, waited, jobs, reply, workerVars>>

\* Mutant: one reply channel for all jobs, read from its oldest message.
InboundShared ==
    LET sent == {j \in 1..lastJob : reply[j].kind # "none"}
    IN  IF sent = {} THEN NoAnswer
        ELSE reply[CHOOSE j \in sent : \A k \in sent : j <= k]

\* The channel the caller listens on: the one made for its own job.
Inbound == reply[lastJob]

Receive ==
    /\ caller = "waiting"
    /\ Inbound.kind # "none"
    /\ answer' = Inbound
    /\ caller' = "idle" /\ waited' = 0
    /\ UNCHANGED <<running, lastJob, asked, jobs, reply, workerVars>>

\* Mutant: recv() without a timeout.
NeverGiveUp == FALSE

GiveUp ==
    /\ caller = "waiting"
    /\ waited = CallerTimeout /\ Inbound.kind = "none"
    /\ answer' = [NoAnswer EXCEPT !.kind = "gave up", !.job = lastJob]
    /\ caller' = "idle" /\ waited' = 0
    /\ UNCHANGED <<running, lastJob, asked, jobs, reply, workerVars>>

-----------------------------------------------------------------------------
(* worker_loop *)

\* Mutant: clients survive a change of the selection.
TakeJobKeeping ==
    /\ worker = "idle" /\ jobs # << >>
    /\ job' = Head(jobs) /\ jobs' = Tail(jobs)
    /\ active' = Head(jobs).selection
    /\ worker' = "dial" /\ spent' = 0 /\ pass' = NoPass
    /\ UNCHANGED <<running, callerVars, reply, slow, clients>>

\* Take a job; another selection than last time drops all clients.
TakeJob ==
    /\ worker = "idle" /\ jobs # << >>
    /\ job' = Head(jobs) /\ jobs' = Tail(jobs)
    /\ clients' = IF active = Head(jobs).selection THEN clients ELSE {}
    /\ active' = Head(jobs).selection
    /\ worker' = "dial" /\ spent' = 0 /\ pass' = NoPass
    /\ UNCHANGED <<running, callerVars, reply, slow>>

\* The answer goes to the job's channel, whether or not somebody listens.
Answer(kind) ==
    /\ reply' = [reply EXCEPT ![job.id] =
                   [kind |-> kind, job |-> job.id, selection |-> job.selection,
                    listed |-> pass.listed, pods |-> pass.pods]]
    /\ worker' = "idle" /\ spent' = 0 /\ job' = NoJob /\ pass' = NoPass

BrokenAnswer ==
    /\ worker = "broken" /\ jobs # << >>
    /\ jobs' = Tail(jobs)
    /\ reply' = [reply EXCEPT ![Head(jobs).id] = Gone(Head(jobs).id)]
    /\ UNCHANGED <<running, callerVars, workerVars>>

\* A panic unwinds the thread: every reply channel it owned is disconnected.
WorkerDies ==
    /\ worker \in {"dial", "list", "status", "scan"}
    /\ worker' = "dead"
    /\ LET lost == {job.id} \cup {jobs[i].id : i \in DOMAIN jobs}
       IN  reply' = [j \in 1..MaxJob |-> IF j \in lost THEN Gone(j) ELSE reply[j]]
    /\ jobs' = << >> /\ job' = NoJob /\ spent' = 0 /\ pass' = NoPass /\ clients' = {}
    /\ UNCHANGED <<running, callerVars, active, slow>>

Lowest(S) == {s \in S : \A t \in S : s <= t}

\* ensure_clients for the sockets that exist and connect: kept clients must
\* still be wanted; FirstWins stops at one client.
Dialled(sel, exists, connects) ==
    LET wanted == IF sel \in Socket THEN {sel} ELSE exists
        kept   == clients \cap wanted
    IN  IF sel = FirstWins
        THEN IF kept # {} THEN kept ELSE Lowest(wanted \cap connects)
        ELSE kept \cup (wanted \cap connects)

Dial ==
    /\ worker = "dial"
    /\ \E exists, connects \in SUBSET Socket :
           clients' = Dialled(job.selection, exists, connects)
    /\ IF clients' # {}
       THEN worker' = "list" /\ UNCHANGED <<reply, spent, job, pass>>
       ELSE Answer("no socket")
    /\ UNCHANGED <<running, callerVars, jobs, active, slow>>

\* Mutant: a pass in which every listing fails reports no pods.
ListRegardless ==
    /\ worker = "list"
    /\ \E ok \in SUBSET clients :
        /\ clients' = ok
        /\ pass' = [listed |-> ok, pods |-> UNION {running[s] : s \in ok}]
    /\ worker' = "status"
    /\ UNCHANGED <<running, callerVars, jobs, active, slow, reply, spent, job>>

\* Mutant: the timeout starts over with the status calls.
ListRestartsTimer ==
    /\ worker = "list"
    /\ \E ok \in SUBSET clients :
        /\ clients' = ok
        /\ IF ok = {}
           THEN Answer("all lists failed")
           ELSE /\ pass' = [listed |-> ok, pods |-> UNION {running[s] : s \in ok}]
                /\ worker' = "status" /\ spent' = 0
                /\ UNCHANGED <<reply, job>>
    /\ UNCHANGED <<running, callerVars, jobs, active, slow>>

\* List every client; the ones that fail are dropped.  Pods are merged by UID.
List ==
    /\ worker = "list"
    /\ \E ok \in SUBSET clients :
        /\ clients' = ok
        /\ IF ok = {}
           THEN Answer("all lists failed")
           ELSE /\ pass' = [listed |-> ok, pods |-> UNION {running[s] : s \in ok}]
                /\ worker' = "status"
                /\ UNCHANGED <<reply, spent, job>>
    /\ UNCHANGED <<running, callerVars, jobs, active, slow>>

\* pod_sandbox_status of every pod: host-network pods and those whose status
\* call fails are left out.
Status ==
    /\ worker = "status"
    /\ \E failed \in SUBSET pass.pods :
           pass' = [pass EXCEPT !.pods = (@ \ HostNetwork) \ failed]
    /\ worker' = "scan" /\ spent' = 0
    /\ UNCHANGED <<running, callerVars, jobs, reply, job, clients, active, slow>>

\* The pass outlives WORKER_REFRESH_TIMEOUT at an await: the future is
\* dropped, and the clients with it.
WorkerTimesOut ==
    /\ worker \in {"dial", "list", "status"}
    /\ spent = WorkerTimeout
    /\ clients' = {}
    /\ Answer("timeout")
    /\ UNCHANGED <<running, callerVars, jobs, active, slow>>

\* resolve_pids: pods without a PID are left out; the pass is answered.
Scan ==
    /\ worker = "scan"
    /\ \E unresolved \in SUBSET pass.pods :
        /\ reply' = [reply EXCEPT ![job.id] =
                       [kind |-> "pods", job |-> job.id, selection |-> job.selection,
                        listed |-> pass.listed, pods |-> pass.pods \ unresolved]]
        /\ worker' = "idle" /\ spent' = 0 /\ job' = NoJob /\ pass' = NoPass
    /\ UNCHANGED <<running, callerVars, jobs, clients, active, slow>>

-----------------------------------------------------------------------------
(* The node. *)

PodsChange ==
    /\ \E s \in Socket, u \in Uid :
           running' = [running EXCEPT ![s] = IF u \in @ THEN @ \ {u} ELSE @ \cup {u}]
    /\ UNCHANGED <<callerVars, jobs, reply, workerVars>>

\* Time passes unless somebody has a deadline or a message now.
Tick ==
    /\ ~ (caller = "waiting" /\ (waited = CallerTimeout \/ Inbound.kind # "none"))
    /\ ~ (worker \in {"idle", "broken"} /\ jobs # << >>)
    /\ ~ (worker \in {"dial", "list", "status"} /\ spent = WorkerTimeout)
    /\ waited' = IF caller = "waiting" THEN waited + 1 ELSE 0
    /\ spent' = CASE worker \in {"idle", "broken", "dead"} -> 0
                  [] worker = "scan" /\ spent > MaxScan -> spent
                  [] OTHER -> spent + 1
    /\ slow' = (slow \/ (worker = "scan" /\ spent >= MaxScan))
    /\ UNCHANGED <<running, caller, lastJob, asked, answer, jobs, reply,
                   worker, job, clients, active, pass>>

Next ==
    \/ \E sel \in Selection : Ask(sel) \/ AskNobody(sel)
    \/ Receive \/ GiveUp
    \/ TakeJob \/ BrokenAnswer \/ WorkerDies \/ Dial \/ List \/ Status \/ WorkerTimesOut \/ Scan
    \/ PodsChange \/ Tick

(***************************************************************************)
(* Fairness: time passes, and both threads act on messages and timers.  A  *)
(* CRI call may never answer and a scan may never end.                     *)
(***************************************************************************)
Spec == Init /\ [][Next]_vars
FairSpec ==
    /\ Spec
    /\ WF_vars(Receive \/ GiveUp) /\ WF_vars(Tick)
    /\ WF_vars(TakeJob \/ BrokenAnswer \/ WorkerTimesOut)

-----------------------------------------------------------------------------
(* Properties. *)

\* refresh() never returns what an earlier, abandoned refresh left behind: an
\* answer belongs to the selection and the job asked for last, although a
\* late pass may answer after its caller has given up and asked again.
AnswerIsCurrent ==
    caller = "idle" /\ lastJob > 0 =>
        /\ answer.job = lastJob
        /\ answer.kind \in {"pods", "timeout", "no socket", "all lists failed"}
               => answer.selection = asked

\* A pass never talks to a socket its selection excludes, and FirstWins talks
\* to exactly one, whatever clients earlier jobs have left connected.
ClientsMatchSelection ==
    worker \in {"list", "status", "scan"} =>
        /\ job.selection = FirstWins => \A s, t \in clients : s = t
        /\ job.selection \in Socket => clients \subseteq {job.selection}

\* "the caller must not mistake this for 'no pods on this node'": a pod list,
\* empty or not, is returned only if some runtime listed its sandboxes.
EmptyMeansListed == answer.kind = "pods" => answer.listed # {}

\* "Leave time for the worker to report its own timeout before the caller's
\* receive deadline": as long as every scan takes less than the difference of
\* the timeouts, the caller never gives up first and the inbox never backs up.
WorkerReportsFirst == ~ slow => answer.kind # "gave up" /\ Len(jobs) <= 1

\* "it waits at most REFRESH_TIMEOUT, it never hangs forever", even if the
\* runtime never answers a request or the worker hangs in its scan.
RefreshReturns == caller = "waiting" ~> caller = "idle"
=============================================================================

------------------------- MODULE PodDiscoveryProofs -------------------------
(***************************************************************************)
(* Proofs about pod discovery, for any number of sockets, pods and jobs    *)
(* and any timeouts: refresh() returns its own job's answer, a pass uses   *)
(* the clients of its selection only, a pod list has been listed by some   *)
(* runtime, and the worker's timeout comes before the caller's.            *)
(***************************************************************************)
EXTENDS PodDiscovery, SequenceTheorems, TLAPS

\* The worker has a job in hand.
Busy == {"dial", "list", "status", "scan"}

\* What a pass can end with.
PassKind == {"pods", "timeout", "no socket", "all lists failed"}

Reply == [kind : {"none", "gone", "gave up"} \cup PassKind, job : Nat,
          selection : Nat, listed : SUBSET Socket, pods : SUBSET Uid]

\* The states of the two threads and of the channels between them.
TypeInv ==
    /\ running \in [Socket -> SUBSET Uid]
    /\ caller \in {"idle", "waiting"}
    /\ waited \in Nat /\ spent \in Nat /\ slow \in BOOLEAN
    /\ lastJob \in 0..MaxJob /\ (caller = "waiting" => lastJob # 0)
    /\ asked \in Nat
    /\ jobs \in Seq([id : 1..MaxJob, selection : Nat])
    /\ reply \in [1..MaxJob -> Reply]
    /\ worker \in Busy \cup {"idle", "broken", "dead"}
    /\ job \in [id : 0..MaxJob, selection : Nat]
    /\ worker \in Busy => job.id \in 1..MaxJob
    /\ clients \in SUBSET Socket
    /\ active \in Nat
    /\ pass \in [listed : SUBSET Socket, pods : SUBSET Uid]
    /\ answer \in Reply

\* The answers that no pass gives are answers.
LEMMA AnswerTypes ==
    /\ NoAnswer \in Reply /\ NoAnswer.kind = "none"
    /\ \A j \in Nat : /\ Gone(j) \in Reply /\ Gone(j).kind = "gone" /\ Gone(j).job = j
                      /\ [NoAnswer EXCEPT !.kind = "gave up", !.job = j] \in Reply
  <1>1. NoSelection \in Nat
    BY DiscoveryAssumption DEF NoSelection
  <1>2. NoAnswer \in Reply /\ NoAnswer.kind = "none"
    BY <1>1 DEF NoAnswer, Reply
  <1>3. ASSUME NEW j \in Nat
        PROVE  /\ Gone(j) \in Reply
               /\ [NoAnswer EXCEPT !.kind = "gave up", !.job = j] \in Reply
    BY <1>2 DEF Reply, Gone
  <1>4. ASSUME NEW j \in Nat PROVE Gone(j).kind = "gone" /\ Gone(j).job = j
    BY DEF Gone, NoAnswer
  <1>. QED  BY <1>2, <1>3, <1>4

\* The first of a sequence and the others.
LEMMA HeadTail ==
    ASSUME NEW T, NEW s \in Seq(T), s # << >>
    PROVE  Head(s) \in T /\ Tail(s) \in Seq(T)
  OBVIOUS

\* What is queued in a sequence is of its type.
LEMMA QueuedEntry ==
    ASSUME NEW T, NEW s \in Seq(T), NEW i \in 1..Len(s)
    PROVE  s[i] \in T
  OBVIOUS

\* Taking the only element of a sequence.
LEMMA TailOfOne ==
    ASSUME NEW T, NEW s \in Seq(T), Len(s) = 1
    PROVE  Tail(s) = << >>
  <1>0. s # << >>
    BY EmptySeq
  <1>1. Tail(s) \in Seq(T) /\ Len(Tail(s)) = 0
    BY <1>0
  <1>. QED  BY <1>1, EmptySeq

\* What says that the worker is gone.
LEMMA GoneFields == \A j : Gone(j).kind = "gone" /\ Gone(j).job = j
  BY DEF Gone, NoAnswer

\* The jobs in the inbox, and what is left when one is taken.
LEMMA InboxTypes ==
    ASSUME TypeInv
    PROVE  /\ Len(jobs) \in Nat /\ DOMAIN jobs = 1..Len(jobs)
           /\ \A i \in 1..Len(jobs) : jobs[i].id \in 1..MaxJob
           /\ jobs # << >> => /\ Len(jobs) # 0 /\ Head(jobs) = jobs[1]
                             /\ Len(Tail(jobs)) = Len(jobs) - 1
                             /\ \A i \in 1..(Len(jobs) - 1) : Tail(jobs)[i] = jobs[i + 1]
  <1>1. jobs \in Seq([id : 1..MaxJob, selection : Nat])
    BY DEF TypeInv
  <1>2. ASSUME NEW i \in 1..Len(jobs) PROVE jobs[i].id \in 1..MaxJob
    <2>1. jobs[i] \in [id : 1..MaxJob, selection : Nat]
      BY <1>1, QueuedEntry
    <2>. QED  BY <2>1
  <1>. QED  BY <1>1, <1>2

\* Answering a job leaves the worker idle and changes one reply channel.
LEMMA AnswerType ==
    ASSUME TypeInv, worker \in Busy, NEW kind \in PassKind, Answer(kind)
    PROVE  /\ reply' \in [1..MaxJob -> Reply]
           /\ worker' = "idle" /\ spent' \in Nat
           /\ job' \in [id : 0..MaxJob, selection : Nat]
           /\ pass' \in [listed : SUBSET Socket, pods : SUBSET Uid]
  <1>1. [kind |-> kind, job |-> job.id, selection |-> job.selection,
         listed |-> pass.listed, pods |-> pass.pods] \in Reply
    <2>1. job.id \in Nat /\ job.selection \in Nat
      BY DEF TypeInv
    <2>2. pass.listed \in SUBSET Socket /\ pass.pods \in SUBSET Uid
      BY DEF TypeInv
    <2>. QED  BY <2>1, <2>2 DEF Reply
  <1>2. reply' \in [1..MaxJob -> Reply]
    BY <1>1 DEF Answer, TypeInv
  <1>. QED  BY <1>2, DiscoveryAssumption DEF Answer, NoJob, NoPass, NoSelection

\* The initial state has the types.
LEMMA InitType == Init => TypeInv
  <1>. SUFFICES ASSUME Init PROVE TypeInv
    OBVIOUS
  <1>1. jobs \in Seq([id : 1..MaxJob, selection : Nat])
    BY DEF Init
  <1>2. reply \in [1..MaxJob -> Reply] /\ answer \in Reply
    BY AnswerTypes DEF Init
  <1>3. job \in [id : 0..MaxJob, selection : Nat]
    BY DiscoveryAssumption DEF Init, NoJob, NoSelection
  <1>4. pass \in [listed : SUBSET Socket, pods : SUBSET Uid]
    BY DEF Init, NoPass
  <1>5. NoSelection \in Nat /\ lastJob \in 0..MaxJob
    BY DiscoveryAssumption DEF Init, NoSelection
  <1>. QED  BY <1>1, <1>2, <1>3, <1>4, <1>5 DEF Init, TypeInv, Busy

\* ensure_clients connects to well-known sockets only.
LEMMA DialledType ==
    ASSUME TypeInv, NEW sel \in Nat, NEW exists \in SUBSET Socket, NEW connects \in SUBSET Socket
    PROVE  Dialled(sel, exists, connects) \in SUBSET Socket
  BY DEF Dialled, Lowest, TypeInv

\* Every step keeps the types.
LEMMA NextType == TypeInv /\ [Next]_vars => TypeInv'
  <1>. SUFFICES ASSUME TypeInv, [Next]_vars PROVE TypeInv'
    OBVIOUS
  <1>1. \A sel \in Selection : sel \in Nat
    BY DiscoveryAssumption DEF Selection
  <1>2. ASSUME NEW sel \in Selection, Ask(sel) PROVE TypeInv'
    <2>1. lastJob' \in 0..MaxJob /\ lastJob + 1 \in 1..MaxJob
      BY <1>2, DiscoveryAssumption DEF Ask, TypeInv
    <2>2. jobs' \in Seq([id : 1..MaxJob, selection : Nat])
      BY <1>1, <1>2, <2>1 DEF Ask, TypeInv
    <2>. QED  BY <1>1, <1>2, <2>1, <2>2 DEF Ask, TypeInv, workerVars
  <1>3. ASSUME NEW sel \in Selection, AskNobody(sel) PROVE TypeInv'
    <2>1. lastJob' \in 0..MaxJob /\ lastJob + 1 \in Nat
      BY <1>3, DiscoveryAssumption DEF AskNobody, TypeInv
    <2>2. answer' \in Reply
      BY <1>3, <2>1, AnswerTypes DEF AskNobody
    <2>. QED  BY <1>1, <1>3, <2>1, <2>2 DEF AskNobody, TypeInv, workerVars
  <1>4. CASE Receive
    <2>1. answer' \in Reply
      BY <1>4 DEF Receive, Inbound, TypeInv
    <2>. QED  BY <1>4, <2>1 DEF Receive, TypeInv, workerVars
  <1>5. CASE GiveUp
    <2>1. lastJob \in Nat
      BY DEF TypeInv
    <2>2. answer' \in Reply
      BY <1>5, <2>1, AnswerTypes DEF GiveUp
    <2>. QED  BY <1>5, <2>2 DEF GiveUp, TypeInv, workerVars
  <1>6. CASE TakeJob
    <2>1. /\ Head(jobs) \in [id : 1..MaxJob, selection : Nat]
          /\ Tail(jobs) \in Seq([id : 1..MaxJob, selection : Nat])
      BY <1>6, HeadTail DEF TakeJob, TypeInv
    <2>2. NoPass \in [listed : SUBSET Socket, pods : SUBSET Uid]
      BY DEF NoPass
    <2>3. clients' \in SUBSET Socket
      BY <1>6 DEF TakeJob, TypeInv
    <2>4. job' \in [id : 0..MaxJob, selection : Nat] /\ job'.id \in 1..MaxJob /\ active' \in Nat
      BY <1>6, <2>1 DEF TakeJob
    <2>. QED  BY <1>6, <2>1, <2>2, <2>3, <2>4 DEF TakeJob, TypeInv, callerVars, Busy
  <1>7. CASE BrokenAnswer
    <2>1. /\ Head(jobs) \in [id : 1..MaxJob, selection : Nat]
          /\ Tail(jobs) \in Seq([id : 1..MaxJob, selection : Nat])
      BY <1>7, HeadTail DEF BrokenAnswer, TypeInv
    <2>2. Head(jobs).id \in 1..MaxJob /\ Gone(Head(jobs).id) \in Reply
      <3>1. Head(jobs).id \in 1..MaxJob /\ Head(jobs).id \in Nat
        BY <2>1
      <3>. QED  BY <3>1, AnswerTypes
    <2>3. reply' \in [1..MaxJob -> Reply]
      BY <1>7, <2>2 DEF BrokenAnswer, TypeInv
    <2>. QED  BY <1>7, <2>1, <2>3 DEF BrokenAnswer, TypeInv, callerVars, workerVars
  <1>8. CASE WorkerDies
    <2>1. reply' \in [1..MaxJob -> Reply]
      <3>1. \A j \in 1..MaxJob : Gone(j) \in Reply
        <4>1. \A j \in 1..MaxJob : j \in Nat
          OBVIOUS
        <4>. QED  BY <4>1, AnswerTypes
      <3>. QED  BY <1>8, <3>1 DEF WorkerDies, TypeInv
    <2>2. /\ NoPass \in [listed : SUBSET Socket, pods : SUBSET Uid]
          /\ NoJob \in [id : 0..MaxJob, selection : Nat]
          /\ << >> \in Seq([id : 1..MaxJob, selection : Nat])
      BY DiscoveryAssumption DEF NoPass, NoJob, NoSelection
    <2>. QED  BY <1>8, <2>1, <2>2 DEF WorkerDies, TypeInv, callerVars, Busy
  <1>9. CASE Dial
    <2>1. clients' \in SUBSET Socket
      BY <1>9, DialledType DEF Dial, TypeInv
    <2>2. CASE Answer("no socket")
      BY <1>9, <2>1, <2>2, AnswerType DEF Dial, TypeInv, callerVars, Busy, PassKind
    <2>3. CASE worker' = "list" /\ UNCHANGED <<reply, spent, job, pass>>
      BY <1>9, <2>1, <2>3 DEF Dial, TypeInv, callerVars, Busy
    <2>. QED  BY <1>9, <2>2, <2>3 DEF Dial
  <1>10. CASE List
    <2>1. PICK ok \in SUBSET clients : /\ clients' = ok
                                       /\ \/ Answer("all lists failed")
                                          \/ /\ pass' = [listed |-> ok, pods |-> UNION {running[s] : s \in ok}]
                                             /\ worker' = "status" /\ UNCHANGED <<reply, spent, job>>
      BY <1>10 DEF List
    <2>2. clients' \in SUBSET Socket
      BY <2>1 DEF TypeInv
    <2>3. CASE Answer("all lists failed")
      BY <1>10, <2>2, <2>3, AnswerType DEF List, TypeInv, callerVars, Busy, PassKind
    <2>4. CASE /\ pass' = [listed |-> ok, pods |-> UNION {running[s] : s \in ok}]
               /\ worker' = "status" /\ UNCHANGED <<reply, spent, job>>
      <3>1. UNION {running[s] : s \in ok} \in SUBSET Uid
        <4>1. \A s \in ok : running[s] \in SUBSET Uid
          BY <2>1 DEF TypeInv
        <4>. QED  BY <4>1
      <3>2. pass' \in [listed : SUBSET Socket, pods : SUBSET Uid]
        BY <2>1, <2>2, <2>4, <3>1
      <3>. QED  BY <1>10, <2>2, <2>4, <3>2 DEF List, TypeInv, callerVars, Busy
    <2>. QED  BY <2>1, <2>3, <2>4
  <1>11. CASE Status
    <2>1. pass' \in [listed : SUBSET Socket, pods : SUBSET Uid]
      BY <1>11 DEF Status, TypeInv
    <2>. QED  BY <1>11, <2>1 DEF Status, TypeInv, callerVars, Busy
  <1>12. CASE WorkerTimesOut
    BY <1>12, AnswerType DEF WorkerTimesOut, TypeInv, callerVars, Busy, PassKind
  <1>13. CASE Scan
    <2>1. PICK unresolved \in SUBSET pass.pods :
              reply' = [reply EXCEPT ![job.id] =
                         [kind |-> "pods", job |-> job.id, selection |-> job.selection,
                          listed |-> pass.listed, pods |-> pass.pods \ unresolved]]
      BY <1>13 DEF Scan
    <2>2. /\ job.id \in Nat /\ job.selection \in Nat
          /\ pass.listed \in SUBSET Socket /\ pass.pods \ unresolved \in SUBSET Uid
      BY DEF TypeInv
    <2>3. [kind |-> "pods", job |-> job.id, selection |-> job.selection,
           listed |-> pass.listed, pods |-> pass.pods \ unresolved] \in Reply
      BY <2>2 DEF Reply, PassKind
    <2>4. reply' \in [1..MaxJob -> Reply]
      BY <1>13, <2>1, <2>3 DEF TypeInv
    <2>5. /\ NoPass \in [listed : SUBSET Socket, pods : SUBSET Uid]
          /\ NoJob \in [id : 0..MaxJob, selection : Nat]
      BY DiscoveryAssumption DEF NoPass, NoJob, NoSelection
    <2>. QED  BY <1>13, <2>4, <2>5 DEF Scan, TypeInv, callerVars, Busy
  <1>14. CASE PodsChange
    <2>1. running' \in [Socket -> SUBSET Uid]
      BY <1>14 DEF PodsChange, TypeInv
    <2>. QED  BY <1>14, <2>1 DEF PodsChange, TypeInv, callerVars, workerVars
  <1>15. CASE Tick
    <2>1. waited' \in Nat /\ spent' \in Nat /\ slow' \in BOOLEAN
      BY <1>15 DEF Tick, TypeInv
    <2>. QED  BY <1>15, <2>1 DEF Tick, TypeInv
  <1>16. CASE UNCHANGED vars
    BY <1>16 DEF vars, TypeInv, callerVars, workerVars
  <1>. QED
    BY <1>2, <1>3, <1>4, <1>5, <1>6, <1>7, <1>8, <1>9, <1>10, <1>11, <1>12, <1>13, <1>14, <1>15,
       <1>16 DEF Next

-----------------------------------------------------------------------------
(* Whose answer it is. *)

\* A job the caller has sent; the last one with the selection it asked for.
Sent(id, selection) == id <= lastJob /\ (id = lastJob => selection = asked)

\* What may be on the reply channel of job j.
Replied(j, r) ==
    r.kind # "none" =>
        /\ j <= lastJob /\ r.job = j /\ r.kind # "gave up"
        /\ j = lastJob /\ r.kind \in PassKind => r.selection = asked

\* Jobs, wherever they are, and answers keep the number and the selection they
\* were sent with; nothing has a number that is still to be given.
JobInv ==
    /\ \A i \in 1..Len(jobs) : Sent(jobs[i].id, jobs[i].selection)
    /\ worker \in Busy => Sent(job.id, job.selection)
    /\ \A j \in 1..MaxJob : Replied(j, reply[j])
    /\ AnswerIsCurrent

\* Nothing has been sent at first.
LEMMA JobInit == Init => JobInv
  <1>. SUFFICES ASSUME Init PROVE JobInv
    OBVIOUS
  <1>1. Len(jobs) = 0 /\ lastJob = 0 /\ worker \notin Busy
    BY DEF Init, Busy
  <1>2. \A j \in 1..MaxJob : Replied(j, reply[j])
    BY DEF Init, Replied, NoAnswer
  <1>. QED  BY <1>1, <1>2 DEF JobInv, AnswerIsCurrent

\* The worker answers the job in hand with what that job asked for.
LEMMA ReplyStep ==
    ASSUME TypeInv, JobInv, worker \in Busy, UNCHANGED <<lastJob, asked>>,
           NEW a, a.kind \in PassKind, a.job = job.id, a.selection = job.selection,
           reply' = [reply EXCEPT ![job.id] = a]
    PROVE  \A j \in 1..MaxJob : Replied(j, reply[j])'
  <1>1. Sent(job.id, job.selection) /\ job.id \in 1..MaxJob
    BY DEF TypeInv, JobInv
  <1>2. Replied(job.id, a)
    BY <1>1 DEF Replied, Sent, PassKind
  <1>3. ASSUME NEW j \in 1..MaxJob PROVE Replied(j, reply[j])'
    <2>1. reply'[j] = IF j = job.id THEN a ELSE reply[j]
      BY <1>1 DEF TypeInv
    <2>2. Replied(j, reply'[j])
      BY <1>2, <2>1 DEF JobInv
    <2>. QED  BY <2>2 DEF Replied
  <1>. QED  BY <1>3

\* Answer(kind) is such a step.
LEMMA AnswerStep ==
    ASSUME TypeInv, JobInv, worker \in Busy, UNCHANGED callerVars, UNCHANGED jobs,
           NEW kind \in PassKind, Answer(kind)
    PROVE  JobInv'
  <1>. DEFINE a == [kind |-> kind, job |-> job.id, selection |-> job.selection,
                    listed |-> pass.listed, pods |-> pass.pods]
  <1>1. a.kind \in PassKind /\ a.job = job.id /\ a.selection = job.selection
    OBVIOUS
  <1>2. reply' = [reply EXCEPT ![job.id] = a] /\ worker' = "idle"
    BY DEF Answer
  <1>3. UNCHANGED <<lastJob, asked>>
    BY DEF callerVars
  <1>. HIDE DEF a
  <1>4. \A j \in 1..MaxJob : Replied(j, reply[j])'
    BY <1>1, <1>2, <1>3, ReplyStep
  <1>. QED  BY <1>2, <1>4 DEF JobInv, callerVars, Sent, AnswerIsCurrent, Busy

\* Every step keeps jobs and answers apart.
LEMMA JobStep == TypeInv /\ JobInv /\ [Next]_vars => JobInv'
  <1>. SUFFICES ASSUME TypeInv, JobInv, [Next]_vars PROVE JobInv'
    OBVIOUS
  <1>1. ASSUME NEW sel \in Selection, Ask(sel) PROVE JobInv'
    <2>1. /\ lastJob' = lastJob + 1 /\ asked' = sel /\ lastJob \in Nat
          /\ UNCHANGED <<reply, worker, job>> /\ caller' = "waiting"
          /\ jobs' = Append(jobs, [id |-> lastJob + 1, selection |-> sel])
      BY <1>1 DEF Ask, TypeInv, workerVars
    <2>2. /\ \A i \in 1..Len(jobs) : jobs[i].id \in Nat
          /\ job.id \in Nat
      <3>1. job.id \in Nat
        BY DEF TypeInv
      <3>. QED  BY <3>1, InboxTypes
    <2>3. \A i \in 1..Len(jobs') : Sent(jobs[i].id, jobs[i].selection)'
      <3>. SUFFICES ASSUME NEW i \in 1..Len(jobs') PROVE Sent(jobs[i].id, jobs[i].selection)'
        OBVIOUS
      <3>1. CASE i \in 1..Len(jobs)
        <4>1. jobs'[i] = jobs[i]
          BY <2>1, <3>1 DEF TypeInv
        <4>2. jobs[i].id <= lastJob
          BY <3>1 DEF JobInv, Sent
        <4>. QED  BY <2>1, <2>2, <3>1, <4>1, <4>2 DEF Sent
      <3>2. CASE i = Len(jobs) + 1
        <4>1. jobs'[i] = [id |-> lastJob + 1, selection |-> sel]
          BY <2>1, <3>2 DEF TypeInv
        <4>. QED  BY <2>1, <4>1 DEF Sent
      <3>. QED  BY <2>1, <3>1, <3>2 DEF TypeInv
    <2>4. worker' \in Busy => Sent(job.id, job.selection)'
      BY <2>1, <2>2 DEF JobInv, Sent
    <2>5. ASSUME NEW j \in 1..MaxJob PROVE Replied(j, reply[j])'
      <3>1. Replied(j, reply[j])
        BY DEF JobInv
      <3>2. reply'[j] = reply[j] /\ (j <= lastJob => j # lastJob' /\ j <= lastJob')
        BY <2>1
      <3>. QED  BY <3>1, <3>2 DEF Replied
    <2>. QED  BY <2>1, <2>3, <2>4, <2>5 DEF JobInv, AnswerIsCurrent
  <1>2. ASSUME NEW sel \in Selection, AskNobody(sel) PROVE JobInv'
    <2>1. /\ lastJob' = lastJob + 1 /\ asked' = sel /\ lastJob \in Nat
          /\ UNCHANGED <<reply, worker, job, jobs>> /\ answer' = Gone(lastJob + 1)
      BY <1>2 DEF AskNobody, TypeInv, workerVars
    <2>2. /\ \A i \in 1..Len(jobs) : jobs[i].id \in Nat
          /\ job.id \in Nat
      <3>1. job.id \in Nat
        BY DEF TypeInv
      <3>. QED  BY <3>1, InboxTypes
    <2>3. \A i \in 1..Len(jobs) : Sent(jobs[i].id, jobs[i].selection)'
      BY <2>1, <2>2 DEF JobInv, Sent
    <2>4. worker' \in Busy => Sent(job.id, job.selection)'
      BY <2>1, <2>2 DEF JobInv, Sent
    <2>5. ASSUME NEW j \in 1..MaxJob PROVE Replied(j, reply[j])'
      <3>1. Replied(j, reply[j])
        BY DEF JobInv
      <3>2. reply'[j] = reply[j] /\ (j <= lastJob => j # lastJob' /\ j <= lastJob')
        BY <2>1
      <3>. QED  BY <3>1, <3>2 DEF Replied
    <2>6. answer'.kind = "gone" /\ answer'.job = lastJob'
      BY <2>1, GoneFields
    <2>. QED  BY <2>1, <2>3, <2>4, <2>5, <2>6 DEF JobInv, AnswerIsCurrent
  <1>3. CASE Receive
    <2>1. lastJob \in 1..MaxJob /\ answer' = reply[lastJob] /\ reply[lastJob].kind # "none"
      BY <1>3 DEF Receive, Inbound, TypeInv
    <2>2. Replied(lastJob, reply[lastJob])
      BY <2>1 DEF JobInv
    <2>3. AnswerIsCurrent'
      BY <1>3, <2>1, <2>2 DEF Receive, AnswerIsCurrent, Replied, PassKind
    <2>. QED  BY <1>3, <2>3 DEF Receive, JobInv, workerVars, Sent, Replied
  <1>4. CASE GiveUp
    <2>1. answer'.kind = "gave up" /\ answer'.job = lastJob
      BY <1>4 DEF GiveUp, NoAnswer
    <2>2. AnswerIsCurrent'
      BY <1>4, <2>1 DEF GiveUp, AnswerIsCurrent
    <2>. QED  BY <1>4, <2>2 DEF GiveUp, JobInv, workerVars, Sent, Replied
  <1>5. CASE TakeJob
    <2>1. /\ Len(jobs) \in Nat \ {0} /\ Len(jobs') = Len(jobs) - 1
          /\ job' = jobs[1] /\ \A i \in 1..Len(jobs') : jobs'[i] = jobs[i + 1]
      BY <1>5, InboxTypes DEF TakeJob
    <2>2. \A i \in 1..Len(jobs') : i + 1 \in 1..Len(jobs)
      BY <2>1
    <2>3. UNCHANGED <<lastJob, asked, caller, answer, reply>>
      BY <1>5 DEF TakeJob, callerVars
    <2>4. \A i \in 1..Len(jobs') : Sent(jobs[i].id, jobs[i].selection)'
      BY <2>1, <2>2, <2>3 DEF JobInv, Sent
    <2>5. Sent(job.id, job.selection)'
      <3>1. 1 \in 1..Len(jobs)
        BY <2>1
      <3>. QED  BY <2>1, <2>3, <3>1 DEF JobInv, Sent
    <2>. QED  BY <2>3, <2>4, <2>5 DEF JobInv, Replied, AnswerIsCurrent
  <1>6. CASE BrokenAnswer
    <2>1. /\ Len(jobs) \in Nat \ {0} /\ Len(jobs') = Len(jobs) - 1
          /\ Head(jobs) = jobs[1] /\ \A i \in 1..Len(jobs') : jobs'[i] = jobs[i + 1]
          /\ jobs[1].id \in 1..MaxJob
      BY <1>6, InboxTypes DEF BrokenAnswer
    <2>2. \A i \in 1..Len(jobs') : i + 1 \in 1..Len(jobs)
      BY <2>1
    <2>3. Sent(jobs[1].id, jobs[1].selection)
      BY <2>1 DEF JobInv
    <2>4. ASSUME NEW j \in 1..MaxJob PROVE Replied(j, reply[j])'
      <3>1. reply'[j] = IF j = jobs[1].id THEN Gone(j) ELSE reply[j]
        BY <1>6, <2>1 DEF BrokenAnswer, TypeInv
      <3>2. Replied(j, Gone(j)) \/ j # jobs[1].id
        BY <2>3, GoneFields DEF Replied, Sent, PassKind
      <3>3. Replied(j, reply'[j])
        BY <3>1, <3>2 DEF JobInv
      <3>. QED  BY <1>6, <3>3 DEF BrokenAnswer, callerVars, Replied
    <2>. QED  BY <1>6, <2>1, <2>2, <2>4 DEF BrokenAnswer, JobInv, callerVars, workerVars, Sent,
                                          AnswerIsCurrent
  <1>7. CASE WorkerDies
    <2>1. ASSUME NEW j \in 1..MaxJob PROVE Replied(j, reply[j])'
      <3>. DEFINE lost == {job.id} \cup {jobs[i].id : i \in DOMAIN jobs}
      <3>1. reply'[j] = IF j \in lost THEN Gone(j) ELSE reply[j]
        BY <1>7 DEF WorkerDies
      <3>2. j \in lost => j <= lastJob
        BY <1>7, InboxTypes DEF WorkerDies, JobInv, Sent, Busy
      <3>3. Gone(j).kind = "gone" /\ Gone(j).job = j
        BY GoneFields
      <3>. HIDE DEF lost
      <3>4. Replied(j, reply'[j])
        BY <3>1, <3>2, <3>3 DEF JobInv, Replied, PassKind
      <3>. QED  BY <1>7, <3>4 DEF WorkerDies, callerVars, Replied
    <2>2. Len(jobs') = 0 /\ worker' \notin Busy
      BY <1>7 DEF WorkerDies, Busy
    <2>3. AnswerIsCurrent'
      BY <1>7 DEF WorkerDies, JobInv, callerVars, AnswerIsCurrent
    <2>4. \A i \in 1..Len(jobs') : FALSE
      BY <2>2
    <2>. QED  BY <2>1, <2>2, <2>3, <2>4 DEF JobInv
  <1>8. CASE Dial
    <2>1. CASE Answer("no socket")
      BY <1>8, <2>1, AnswerStep DEF Dial, Busy, PassKind
    <2>2. CASE worker' = "list" /\ UNCHANGED <<reply, spent, job, pass>>
      BY <1>8, <2>2 DEF Dial, JobInv, callerVars, Sent, Replied, AnswerIsCurrent, Busy
    <2>. QED  BY <1>8, <2>1, <2>2 DEF Dial
  <1>9. CASE List
    <2>1. CASE Answer("all lists failed")
      BY <1>9, <2>1, AnswerStep DEF List, Busy, PassKind
    <2>2. CASE worker' = "status" /\ UNCHANGED <<reply, spent, job>>
      BY <1>9, <2>2 DEF List, JobInv, callerVars, Sent, Replied, AnswerIsCurrent, Busy
    <2>. QED  BY <1>9, <2>1, <2>2 DEF List
  <1>10. CASE Status
    BY <1>10 DEF Status, JobInv, callerVars, Sent, Replied, AnswerIsCurrent, Busy
  <1>11. CASE WorkerTimesOut
    BY <1>11, AnswerStep DEF WorkerTimesOut, Busy, PassKind
  <1>12. CASE Scan
    <2>1. PICK unresolved \in SUBSET pass.pods :
              reply' = [reply EXCEPT ![job.id] =
                         [kind |-> "pods", job |-> job.id, selection |-> job.selection,
                          listed |-> pass.listed, pods |-> pass.pods \ unresolved]]
      BY <1>12 DEF Scan
    <2>. DEFINE a == [kind |-> "pods", job |-> job.id, selection |-> job.selection,
                      listed |-> pass.listed, pods |-> pass.pods \ unresolved]
    <2>2. a.kind \in PassKind /\ a.job = job.id /\ a.selection = job.selection
      BY DEF PassKind
    <2>3. reply' = [reply EXCEPT ![job.id] = a] /\ worker' = "idle" /\ worker \in Busy
      BY <1>12, <2>1 DEF Scan, Busy
    <2>4. UNCHANGED <<lastJob, asked>>
      BY <1>12 DEF Scan, callerVars
    <2>. HIDE DEF a
    <2>5. \A j \in 1..MaxJob : Replied(j, reply[j])'
      BY <2>2, <2>3, <2>4, ReplyStep
    <2>. QED  BY <1>12, <2>3, <2>5 DEF Scan, JobInv, callerVars, Sent, AnswerIsCurrent, Busy
  <1>13. CASE PodsChange
    BY <1>13 DEF PodsChange, JobInv, callerVars, workerVars, Sent, Replied, AnswerIsCurrent
  <1>14. CASE Tick
    BY <1>14 DEF Tick, JobInv, Sent, Replied, AnswerIsCurrent
  <1>15. CASE UNCHANGED vars
    BY <1>15 DEF vars, JobInv, callerVars, workerVars, Sent, Replied, AnswerIsCurrent
  <1>. QED
    BY <1>1, <1>2, <1>3, <1>4, <1>5, <1>6, <1>7, <1>8, <1>9, <1>10, <1>11, <1>12, <1>13, <1>14,
       <1>15 DEF Next

\* refresh() returns the answer to its own job, for the selection it asked
\* with, however many earlier jobs were abandoned and are answered late.
THEOREM RefreshAnswersItsJob == Spec => []AnswerIsCurrent
  <1>1. JobInv => AnswerIsCurrent
    BY DEF JobInv
  <1>. QED  BY <1>1, InitType, NextType, JobInit, JobStep, PTL DEF Spec

-----------------------------------------------------------------------------
(* Pod lists. *)

\* From the listing on a pass has heard of some runtime, and so has every pod
\* list on its way to a caller.
ListedInv ==
    /\ worker \in {"status", "scan"} => pass.listed # {}
    /\ \A j \in 1..MaxJob : reply[j].kind = "pods" => reply[j].listed # {}
    /\ EmptyMeansListed

\* A pass that ends early reports no pod list.
LEMMA EarlyAnswer ==
    ASSUME TypeInv, ListedInv, worker \in Busy, UNCHANGED callerVars,
           NEW kind \in PassKind \ {"pods"}, Answer(kind)
    PROVE  ListedInv'
  <1>1. ASSUME NEW j \in 1..MaxJob, reply'[j].kind = "pods" PROVE reply'[j].listed # {}
    <2>1. reply'[j] = reply[j] \/ reply'[j].kind = kind
      BY DEF Answer, TypeInv
    <2>. QED  BY <1>1, <2>1 DEF ListedInv
  <1>2. worker' = "idle" /\ answer' = answer
    BY DEF Answer, callerVars
  <1>. QED  BY <1>1, <1>2 DEF ListedInv, EmptyMeansListed

\* A pod list, empty or not, is returned by refresh() only when some runtime
\* has listed its sandboxes in that pass.
THEOREM PodListsAreListed == Spec => []EmptyMeansListed
  <1>1. Init => ListedInv
    BY DEF Init, ListedInv, EmptyMeansListed, NoAnswer
  <1>2. TypeInv /\ ListedInv /\ [Next]_vars => ListedInv'
    <2>. SUFFICES ASSUME TypeInv, ListedInv, [Next]_vars PROVE ListedInv'
      OBVIOUS
    <2>1. CASE UNCHANGED <<answer, reply, worker, pass>>
      BY <2>1 DEF ListedInv, EmptyMeansListed
    <2>2. ASSUME NEW sel \in Selection, AskNobody(sel) PROVE ListedInv'
      BY <2>2, GoneFields DEF AskNobody, workerVars, ListedInv, EmptyMeansListed
    <2>3. CASE Receive
      <3>1. lastJob \in 1..MaxJob /\ answer' = reply[lastJob]
        BY <2>3 DEF Receive, Inbound, TypeInv
      <3>. QED  BY <2>3, <3>1 DEF Receive, workerVars, ListedInv, EmptyMeansListed
    <2>4. CASE GiveUp
      <3>1. answer'.kind = "gave up"
        BY <2>4 DEF GiveUp, NoAnswer
      <3>. QED  BY <2>4, <3>1 DEF GiveUp, workerVars, ListedInv, EmptyMeansListed
    <2>5. CASE TakeJob
      BY <2>5 DEF TakeJob, callerVars, ListedInv, EmptyMeansListed
    <2>6. CASE BrokenAnswer
      <3>1. Head(jobs).id \in 1..MaxJob
        BY <2>6, InboxTypes DEF BrokenAnswer
      <3>2. \A j \in 1..MaxJob : reply'[j] = reply[j] \/ reply'[j].kind = "gone"
        BY <2>6, <3>1, GoneFields DEF BrokenAnswer, TypeInv
      <3>. QED  BY <2>6, <3>2 DEF BrokenAnswer, callerVars, workerVars, ListedInv, EmptyMeansListed
    <2>7. CASE WorkerDies
      <3>1. \A j \in 1..MaxJob : reply'[j] = reply[j] \/ reply'[j].kind = "gone"
        BY <2>7, GoneFields DEF WorkerDies
      <3>. QED  BY <2>7, <3>1 DEF WorkerDies, callerVars, ListedInv, EmptyMeansListed
    <2>8. CASE Dial
      <3>1. CASE Answer("no socket")
        BY <2>8, <3>1, EarlyAnswer DEF Dial, Busy, PassKind
      <3>2. CASE worker' = "list" /\ UNCHANGED <<reply, spent, job, pass>>
        BY <2>8, <3>2 DEF Dial, callerVars, ListedInv, EmptyMeansListed
      <3>. QED  BY <2>8, <3>1, <3>2 DEF Dial
    <2>9. CASE List
      <3>1. CASE Answer("all lists failed")
        BY <2>9, <3>1, EarlyAnswer DEF List, Busy, PassKind
      <3>2. CASE pass'.listed # {} /\ UNCHANGED reply
        BY <2>9, <3>2 DEF List, callerVars, ListedInv, EmptyMeansListed
      <3>3. Answer("all lists failed") \/ (pass'.listed # {} /\ UNCHANGED reply)
        <4>1. PICK ok \in SUBSET clients :
                  \/ Answer("all lists failed")
                  \/ /\ ok # {} /\ UNCHANGED reply
                     /\ pass' = [listed |-> ok, pods |-> UNION {running[s] : s \in ok}]
          BY <2>9 DEF List
        <4>2. pass' = [listed |-> ok, pods |-> UNION {running[s] : s \in ok}] => pass'.listed = ok
          OBVIOUS
        <4>. QED  BY <4>1, <4>2
      <3>. QED  BY <3>1, <3>2, <3>3
    <2>10. CASE Status
      <3>1. pass'.listed = pass.listed
        BY <2>10 DEF Status, TypeInv
      <3>. QED  BY <2>10, <3>1 DEF Status, callerVars, ListedInv, EmptyMeansListed
    <2>11. CASE WorkerTimesOut
      BY <2>11, EarlyAnswer DEF WorkerTimesOut, Busy, PassKind
    <2>12. CASE Scan
      <3>1. job.id \in 1..MaxJob /\ pass.listed # {}
        BY <2>12 DEF Scan, TypeInv, ListedInv, Busy
      <3>2. \A j \in 1..MaxJob : reply'[j] = reply[j] \/ reply'[j].listed = pass.listed
        BY <2>12, <3>1 DEF Scan, TypeInv
      <3>. QED  BY <2>12, <3>1, <3>2 DEF Scan, callerVars, ListedInv, EmptyMeansListed
    <2>13. \/ UNCHANGED <<answer, reply, worker, pass>>
           \/ \E sel \in Selection : AskNobody(sel)
           \/ Receive \/ GiveUp \/ TakeJob \/ BrokenAnswer \/ WorkerDies \/ Dial \/ List
           \/ Status \/ WorkerTimesOut \/ Scan
      BY DEF Next, Ask, PodsChange, Tick, vars, callerVars, workerVars
    <2>. QED  BY <2>1, <2>2, <2>3, <2>4, <2>5, <2>6, <2>7, <2>8, <2>9, <2>10, <2>11, <2>12, <2>13
  <1>3. ListedInv => EmptyMeansListed
    BY DEF ListedInv
  <1>. QED  BY <1>1, <1>2, <1>3, InitType, NextType, PTL DEF Spec

-----------------------------------------------------------------------------
(* Clients. *)

\* The clients connected fit a selection.
Fits(sel, connected) ==
    /\ sel = FirstWins => \A s, t \in connected : s = t
    /\ sel \in Socket => connected \subseteq {sel}

\* The clients fit the selection of the job last taken, also between jobs.
ClientInv ==
    /\ Fits(active, clients)
    /\ worker \in Busy => active = job.selection

\* ensure_clients connects as its selection says, if what is left does.
LEMMA DialledFits ==
    ASSUME TypeInv, NEW sel \in Nat, Fits(sel, clients),
           NEW exists \in SUBSET Socket, NEW connects \in SUBSET Socket
    PROVE  Fits(sel, Dialled(sel, exists, connects))
  <1>1. FirstWins \notin Socket /\ Socket \subseteq Nat
    BY DiscoveryAssumption DEF FirstWins, Socket
  <1>2. \A S \in SUBSET Socket : \A s, t \in Lowest(S) : s = t
    BY <1>1 DEF Lowest
  <1>3. CASE sel = FirstWins
    <2>1. Dialled(sel, exists, connects) \subseteq clients
          \/ Dialled(sel, exists, connects) = Lowest(exists \cap connects)
      BY <1>1, <1>3 DEF Dialled
    <2>2. \A s, t \in Dialled(sel, exists, connects) : s = t
      BY <1>2, <1>3, <2>1 DEF Fits
    <2>. QED  BY <1>1, <1>3, <2>2 DEF Fits
  <1>4. CASE sel \in Socket
    BY <1>1, <1>4 DEF Dialled, Fits
  <1>. QED  BY <1>3, <1>4 DEF Fits

\* A pass talks to no socket that its selection excludes, and under FirstWins
\* to one, whatever selections earlier jobs had and wherever they were cut off.
THEOREM PassUsesItsSelection == Spec => []ClientsMatchSelection
  <1>1. Init => ClientInv
    BY DEF Init, ClientInv, Fits, Busy
  <1>2. TypeInv /\ ClientInv /\ [Next]_vars => ClientInv'
    <2>. SUFFICES ASSUME TypeInv, ClientInv, [Next]_vars PROVE ClientInv'
      OBVIOUS
    <2>1. CASE clients' \subseteq clients /\ UNCHANGED active
               /\ (worker' \in Busy => worker \in Busy /\ UNCHANGED job)
      BY <2>1 DEF ClientInv, Fits
    <2>2. CASE TakeJob
      BY <2>2 DEF TakeJob, ClientInv, Fits
    <2>3. CASE Dial
      <3>1. Fits(active, clients')
        <4>1. job.selection \in Nat /\ active = job.selection
          BY <2>3 DEF Dial, ClientInv, TypeInv, Busy
        <4>. QED  BY <2>3, <4>1, DialledFits DEF Dial, ClientInv
      <3>2. active' = active /\ (worker' \in Busy => UNCHANGED job)
        BY <2>3 DEF Dial, Answer, Busy
      <3>. QED  BY <2>3, <3>1, <3>2 DEF Dial, ClientInv, Busy, Fits
    <2>4. \/ TakeJob \/ Dial
          \/ clients' \subseteq clients /\ UNCHANGED active
             /\ (worker' \in Busy => worker \in Busy /\ UNCHANGED job)
      BY DEF Next, Ask, AskNobody, Receive, GiveUp, BrokenAnswer, WorkerDies, List, Status,
             WorkerTimesOut, Scan, PodsChange, Tick, Answer, vars, workerVars, Busy
    <2>. QED  BY <2>1, <2>2, <2>3, <2>4
  <1>3. ClientInv => ClientsMatchSelection
    BY DEF ClientInv, ClientsMatchSelection, Fits, Busy
  <1>. QED  BY <1>1, <1>2, <1>3, InitType, NextType, PTL DEF Spec

-----------------------------------------------------------------------------
(* Timeouts. *)

\* The caller's job is answered, in the inbox, awaited or scanned for.
JobAnswered == reply[lastJob].kind # "none" /\ jobs = << >> /\ worker \notin Busy
JobQueued ==
    /\ reply[lastJob].kind = "none" /\ worker \notin Busy /\ worker # "dead"
    /\ Len(jobs) = 1 /\ jobs[1].id = lastJob /\ waited = 0
JobAwaited ==
    /\ reply[lastJob].kind = "none" /\ jobs = << >>
    /\ worker \in {"dial", "list", "status"} /\ job.id = lastJob
    /\ waited = spent /\ spent <= WorkerTimeout
JobScanned ==
    /\ reply[lastJob].kind = "none" /\ jobs = << >>
    /\ worker = "scan" /\ job.id = lastJob
    /\ spent <= MaxScan /\ waited <= WorkerTimeout + spent

\* As long as no scan is slow the two threads are in step: between calls the
\* worker has nothing to do, and during one the caller's clock is ahead of the
\* worker's by no more than a pass may await.
TimeInv ==
    ~ slow => /\ answer.kind # "gave up"
              /\ caller = "idle" => jobs = << >> /\ worker \notin Busy
              /\ caller = "waiting" =>
                     JobAnswered \/ JobQueued \/ JobAwaited \/ JobScanned

\* Answering the job in hand ends the call that waits for it.
LEMMA AnswerInTime ==
    ASSUME TypeInv, TimeInv, worker \in Busy, UNCHANGED <<callerVars, jobs, slow>>,
           worker' = "idle", reply'[job.id].kind # "none"
    PROVE  TimeInv'
  BY DEF TimeInv, JobAnswered, JobQueued, JobAwaited, JobScanned, callerVars, Busy, TypeInv

\* Steps keep the threads in step unless a scan is slow.
LEMMA TimeStep ==
    ASSUME WorkerTimeout + MaxScan < CallerTimeout, TypeInv, JobInv, TimeInv, [Next]_vars
    PROVE  TimeInv'
  <1>1. /\ WorkerTimeout \in Nat /\ MaxScan \in Nat /\ CallerTimeout \in Nat
        /\ waited \in Nat /\ spent \in Nat /\ lastJob \in Nat /\ Len(jobs) \in Nat
        /\ caller \in {"idle", "waiting"}
    BY DiscoveryAssumption, InboxTypes DEF TypeInv
  <1>2. ASSUME NEW sel \in Selection, Ask(sel) PROVE TimeInv'
    <2>1. /\ caller = "idle" /\ caller' = "waiting" /\ worker # "dead"
          /\ lastJob + 1 \in 1..MaxJob /\ lastJob' = lastJob + 1 /\ waited' = 0
          /\ UNCHANGED <<reply, worker, slow, answer>>
          /\ jobs' = Append(jobs, [id |-> lastJob + 1, selection |-> sel])
      BY <1>1, <1>2, DiscoveryAssumption DEF Ask, workerVars
    <2>2. reply[lastJob + 1].kind = "none"
      <3>1. Replied(lastJob + 1, reply[lastJob + 1]) /\ ~ (lastJob + 1 <= lastJob)
        BY <1>1, <2>1 DEF JobInv
      <3>. QED  BY <3>1 DEF Replied
    <2>3. ASSUME ~ slow PROVE JobQueued'
      <3>1. jobs = << >> /\ worker \notin Busy
        BY <2>1, <2>3 DEF TimeInv
      <3>2. Len(jobs') = 1 /\ jobs'[1].id = lastJob + 1
        BY <2>1, <3>1
      <3>. QED  BY <2>1, <2>2, <3>1, <3>2 DEF JobQueued
    <2>. QED  BY <2>1, <2>3 DEF TimeInv
  <1>3. ASSUME NEW sel \in Selection, AskNobody(sel) PROVE TimeInv'
    BY <1>3, GoneFields DEF AskNobody, workerVars, TimeInv
  <1>4. CASE Receive
    <2>1. reply[lastJob].kind # "none" /\ answer' = reply[lastJob]
      BY <1>4 DEF Receive, Inbound
    <2>2. ~ slow => JobAnswered
      BY <1>4, <2>1 DEF Receive, TimeInv, JobQueued, JobAwaited, JobScanned
    <2>3. answer'.kind # "gave up"
      <3>1. lastJob \in 1..MaxJob
        BY <1>4 DEF Receive, TypeInv
      <3>. QED  BY <2>1, <3>1 DEF JobInv, Replied
    <2>. QED  BY <1>4, <2>2, <2>3 DEF Receive, workerVars, TimeInv, JobAnswered
  <1>5. CASE GiveUp
    <2>1. slow
      <3>1. caller = "waiting" /\ waited = CallerTimeout /\ ~ JobAnswered
        BY <1>5 DEF GiveUp, Inbound, JobAnswered
      <3>2. ~ JobQueued /\ ~ JobAwaited
        BY <1>1, <3>1 DEF JobQueued, JobAwaited
      <3>3. ~ JobScanned
        BY <1>1, <3>1 DEF JobScanned
      <3>. QED  BY <3>1, <3>2, <3>3 DEF TimeInv
    <2>. QED  BY <1>5, <2>1 DEF GiveUp, workerVars, TimeInv
  <1>6. CASE TakeJob
    <2>1. /\ jobs # << >> /\ job' = jobs[1] /\ Len(jobs') = Len(jobs) - 1 /\ spent' = 0
          /\ worker = "idle" /\ worker' = "dial" /\ UNCHANGED <<callerVars, reply, slow>>
      BY <1>6, InboxTypes DEF TakeJob
    <2>2. ASSUME ~ slow PROVE caller = "waiting" /\ JobQueued
      BY <1>1, <2>1, <2>2 DEF TimeInv, JobAnswered, JobAwaited, JobScanned
    <2>3. ASSUME ~ slow PROVE JobAwaited'
      <3>1. jobs' = << >>
        BY <1>6, <2>2, <2>3, TailOfOne DEF TakeJob, JobQueued, TypeInv
      <3>. QED  BY <1>1, <2>1, <2>2, <2>3, <3>1 DEF JobQueued, JobAwaited, callerVars
    <2>. QED  BY <2>1, <2>2, <2>3 DEF TimeInv, callerVars
  <1>7. CASE BrokenAnswer
    <2>1. /\ jobs # << >> /\ Len(jobs') = Len(jobs) - 1 /\ Head(jobs) = jobs[1]
          /\ jobs[1].id \in 1..MaxJob
          /\ worker = "broken" /\ UNCHANGED <<callerVars, worker, slow>>
      BY <1>7, InboxTypes DEF BrokenAnswer, workerVars
    <2>2. ASSUME ~ slow PROVE caller = "waiting" /\ JobQueued
      BY <1>1, <2>1, <2>2 DEF TimeInv, JobAnswered, JobAwaited, JobScanned, Busy
    <2>3. ASSUME ~ slow PROVE JobAnswered'
      <3>1. jobs' = << >>
        BY <1>7, <2>2, <2>3, TailOfOne DEF BrokenAnswer, JobQueued, TypeInv
      <3>2. reply'[jobs[1].id].kind = "gone"
        BY <1>7, <2>1, GoneFields DEF BrokenAnswer, TypeInv
      <3>. QED  BY <2>1, <2>2, <2>3, <3>1, <3>2 DEF JobQueued, JobAnswered, callerVars, Busy
    <2>. QED  BY <2>1, <2>2, <2>3 DEF TimeInv, callerVars
  <1>8. CASE WorkerDies
    <2>1. /\ worker \in Busy /\ worker' = "dead" /\ UNCHANGED <<callerVars, slow>>
          /\ jobs' = << >> /\ job.id \in 1..MaxJob
      BY <1>8 DEF WorkerDies, Busy, TypeInv
    <2>2. reply'[job.id].kind = "gone"
      BY <1>8, <2>1, GoneFields DEF WorkerDies
    <2>3. ASSUME ~ slow PROVE caller = "waiting" /\ job.id = lastJob
      BY <1>1, <2>1, <2>3 DEF TimeInv, JobAnswered, JobQueued, JobAwaited, JobScanned
    <2>. QED  BY <2>1, <2>2, <2>3 DEF TimeInv, JobAnswered, callerVars, Busy
  <1>9. ASSUME NEW kind \in PassKind, Answer(kind), worker \in Busy,
               UNCHANGED <<callerVars, jobs, slow>>
        PROVE  TimeInv'
    <2>1. job.id \in 1..MaxJob
      BY <1>9 DEF TypeInv
    <2>2. reply'[job.id].kind = kind /\ worker' = "idle"
      BY <1>9, <2>1 DEF Answer, TypeInv
    <2>. QED  BY <1>9, <2>2, AnswerInTime DEF PassKind
  <1>10. ASSUME worker \in {"dial", "list", "status"}, worker' \in {"dial", "list", "status"},
                UNCHANGED <<callerVars, jobs, slow, reply, spent, job>>
         PROVE  TimeInv'
    BY <1>10 DEF TimeInv, JobAnswered, JobQueued, JobAwaited, JobScanned, callerVars, Busy
  <1>11. CASE Dial
    BY <1>9, <1>10, <1>11 DEF Dial, PassKind, Busy
  <1>12. CASE List
    BY <1>9, <1>10, <1>12 DEF List, PassKind, Busy
  <1>13. CASE Status
    <2>1. /\ worker = "status" /\ worker' = "scan" /\ spent' = 0
          /\ UNCHANGED <<callerVars, jobs, reply, job, slow>>
      BY <1>13 DEF Status
    <2>2. ASSUME ~ slow PROVE caller = "waiting" /\ JobAwaited
      BY <1>1, <2>1, <2>2 DEF TimeInv, JobAnswered, JobQueued, JobScanned, Busy
    <2>3. ASSUME ~ slow PROVE JobScanned'
      <3>1. waited <= WorkerTimeout + 0 /\ 0 <= MaxScan
        BY <1>1, <2>2, <2>3 DEF JobAwaited
      <3>. QED  BY <2>1, <2>2, <2>3, <3>1 DEF JobAwaited, JobScanned, callerVars
    <2>. QED  BY <2>1, <2>2, <2>3 DEF TimeInv, callerVars
  <1>14. CASE WorkerTimesOut
    BY <1>9, <1>14 DEF WorkerTimesOut, PassKind, Busy
  <1>15. CASE Scan
    <2>1. worker \in Busy /\ job.id \in 1..MaxJob
      BY <1>15 DEF Scan, Busy, TypeInv
    <2>2. reply'[job.id].kind = "pods"
      BY <1>15, <2>1 DEF Scan, TypeInv
    <2>. QED  BY <1>15, <2>1, <2>2, AnswerInTime DEF Scan
  <1>16. CASE Tick
    <2>1. /\ UNCHANGED <<caller, lastJob, answer, jobs, reply, worker, job>>
          /\ slow' = (slow \/ (worker = "scan" /\ spent >= MaxScan))
          /\ caller = "waiting" => waited' = waited + 1 /\ ~ JobAnswered
          /\ ~ JobQueued
          /\ worker \in {"dial", "list", "status"} => spent # WorkerTimeout /\ spent' = spent + 1
          /\ worker = "scan" /\ spent <= MaxScan => spent' = spent + 1
      <3>1. ~ JobQueued
        BY <1>16, InboxTypes DEF Tick, JobQueued, Busy, TypeInv
      <3>. QED  BY <1>1, <1>16, <3>1 DEF Tick, JobAnswered, Inbound
    <2>2. ASSUME ~ slow', caller = "waiting" PROVE JobAwaited' \/ JobScanned'
      <3>1. JobAwaited \/ JobScanned
        BY <2>1, <2>2 DEF TimeInv
      <3>2. JobAwaited => JobAwaited'
        BY <1>1, <2>1, <2>2 DEF JobAwaited
      <3>3. ASSUME JobScanned PROVE JobScanned'
        <4>1. /\ worker = "scan" /\ spent <= MaxScan /\ ~ spent >= MaxScan
              /\ waited <= WorkerTimeout + spent
          BY <2>1, <2>2, <3>3 DEF JobScanned
        <4>2. spent' = spent + 1 /\ waited' = waited + 1
          BY <2>1, <2>2, <4>1
        <4>3. spent' <= MaxScan /\ waited' <= WorkerTimeout + spent'
          BY <1>1, <4>1, <4>2
        <4>. QED  BY <2>1, <3>3, <4>3 DEF JobScanned
      <3>. QED  BY <3>1, <3>2, <3>3
    <2>. QED  BY <2>1, <2>2 DEF TimeInv
  <1>17. CASE UNCHANGED <<callerVars, jobs, reply, worker, job, spent, slow>>
    BY <1>17 DEF TimeInv, JobAnswered, JobQueued, JobAwaited, JobScanned, callerVars
  <1>18. PodsChange \/ UNCHANGED vars => UNCHANGED <<callerVars, jobs, reply, worker, job, spent, slow>>
    BY DEF PodsChange, vars, workerVars
  <1>. QED
    BY <1>2, <1>3, <1>4, <1>5, <1>6, <1>7, <1>8, <1>11, <1>12, <1>13, <1>14, <1>15, <1>16, <1>17,
       <1>18 DEF Next

\* When WORKER_REFRESH_TIMEOUT and the time of a scan together stay below
\* REFRESH_TIMEOUT, and no scan takes longer than that time, the caller never
\* gives up before the worker reports, and its jobs never queue up.
THEOREM WorkerAlwaysReportsFirst ==
    ASSUME WorkerTimeout + MaxScan < CallerTimeout
    PROVE  Spec => []WorkerReportsFirst
  <1>1. Init => TimeInv
    BY DEF Init, TimeInv, NoAnswer, Busy
  <1>2. TypeInv /\ JobInv /\ TimeInv /\ [Next]_vars => TimeInv'
    BY TimeStep
  <1>3. TypeInv /\ TimeInv => WorkerReportsFirst
    <2>. SUFFICES ASSUME TypeInv, TimeInv PROVE WorkerReportsFirst
      OBVIOUS
    <2>1. ~ slow => jobs = << >> \/ Len(jobs) = 1
      BY DEF TypeInv, TimeInv, JobAnswered, JobQueued, JobAwaited, JobScanned
    <2>2. ~ slow => Len(jobs) <= 1
      <3>1. jobs = << >> => Len(jobs) = 0
        OBVIOUS
      <3>2. ~ slow => Len(jobs) \in {0, 1}
        BY <2>1, <3>1
      <3>3. \A n \in {0, 1} : n <= 1
        OBVIOUS
      <3>. QED  BY <3>2, <3>3
    <2>3. ~ slow => answer.kind # "gave up"
      BY DEF TimeInv
    <2>. QED  BY <2>2, <2>3 DEF WorkerReportsFirst
  <1>. QED  BY <1>1, <1>2, <1>3, InitType, NextType, JobInit, JobStep, PTL DEF Spec
=============================================================================

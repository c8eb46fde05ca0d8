------------------------- MODULE AgentControlProofs -------------------------
(***************************************************************************)
(* Proofs about the agent's side of the control plane, for any number of   *)
(* configs, connections and faults.                                        *)
(***************************************************************************)
EXTENDS AgentControl, TLAPS

TaskState ==
    [pc : {"idle", "fetch", "got", "write", "apply"}, session : Nat, config : 0..Bad]

\* A config in hand has come from the server or was spoilt on the way; past the
\* validation it is one that the server activated.
InHandInv ==
    /\ task \in [Task -> TaskState]
    /\ \A t \in Task :
        /\ task[t].pc = "got" => task[t].config \in Version \cup {Bad}
        /\ task[t].pc \in {"write", "apply"} => task[t].config \in Version

\* What runs and what is stored was validated or is not a config at all.
GoodInv ==
    /\ remote \in Version
    /\ session \in Nat /\ conn \in Nat
    /\ InHandInv
    /\ shared \in Version \cup {Local}
    /\ disk \in Version \cup {Absent, Empty, Garbage}

\* An answer, a failed save or an applied config leaves the other task alone.
LEMMA InHandUpdate ==
    ASSUME InHandInv, NEW t \in Task, NEW r \in TaskState,
           r.pc = "got" => r.config \in Version \cup {Bad},
           r.pc \in {"write", "apply"} => r.config \in Version,
           task' = [task EXCEPT ![t] = r]
    PROVE  InHandInv'
  <1>1. task' \in [Task -> TaskState]
    BY DEF InHandInv
  <1>2. ASSUME NEW u \in Task
        PROVE  /\ task'[u].pc = "got" => task'[u].config \in Version \cup {Bad}
               /\ task'[u].pc \in {"write", "apply"} => task'[u].config \in Version
    BY DEF InHandInv
  <1>. QED  BY <1>1, <1>2 DEF InHandInv

\* Nothing happens to a refresh when a loop goes back to waiting.
LEMMA InHandIdle ==
    ASSUME InHandInv, NEW t \in Task, task' = [task EXCEPT ![t] = Idle]
    PROVE  InHandInv'
  <1>1. Idle \in TaskState /\ Idle.pc = "idle"
    BY AgentAssumption DEF Idle, TaskState, NoSession, Local, Bad
  <1>. QED  BY <1>1, InHandUpdate

\* A task that begins a request has no config in hand.
LEMMA InHandFetching ==
    ASSUME InHandInv, NEW t \in Task, NEW s \in Nat, task' = [task EXCEPT ![t] = Fetching(s)]
    PROVE  InHandInv'
  <1>1. Fetching(s) \in TaskState /\ Fetching(s).pc = "fetch"
    BY AgentAssumption DEF Fetching, TaskState, Local, Bad
  <1>. QED  BY <1>1, InHandUpdate

\* Three session ids are enough for one that neither side remembers.
LEMMA FreshConnType == FreshConn \in Nat
  <1>. DEFINE free == (1..MaxConn) \ {srv, task["poll"].session}
  <1>1. \E c \in 1..3 : c \in free /\ \A d \in 1..3 : d < c => d \notin free
    <2>1. \E c \in 1..3 : c \notin {srv, task["poll"].session}
      OBVIOUS
    <2>2. 1..3 \subseteq 1..MaxConn
      BY AgentAssumption
    <2>. QED  BY <2>1, <2>2
  <1>2. \E c \in free : \A d \in free : c <= d
    BY <1>1, AgentAssumption
  <1>3. free \subseteq Nat
    BY AgentAssumption
  <1>4. FreshConn = CHOOSE c \in free : \A d \in free : c <= d
    BY DEF FreshConn
  <1>. HIDE DEF free
  <1>. QED  BY <1>2, <1>3, <1>4

\* No step of either refresh loop, and no crash, lets a bad config in.
LEMMA GoodStep == GoodInv /\ [Next]_vars => GoodInv'
  <1>. SUFFICES ASSUME GoodInv, [Next]_vars PROVE GoodInv'
    OBVIOUS
  <1>. USE AgentAssumption DEF GoodInv
  <1>1. CASE Server
    <2>1. remote' \in Version
      BY <1>1 DEF Server, ServerReload, ServerAck, ServerReject, LinkLost, ServerDrop, Version
    <2>2. UNCHANGED <<session, conn, task, shared, disk>>
      BY <1>1 DEF Server, ServerReload, ServerAck, ServerReject, LinkLost, ServerDrop, procVars
    <2>. QED  BY <2>1, <2>2 DEF InHandInv
  <1>2. CASE WsConnect
    <2>1. conn' \in Nat
      BY <1>2, FreshConnType DEF WsConnect
    <2>. QED  BY <1>2, <2>1 DEF WsConnect, InHandInv
  <1>3. CASE WsConnectFails \/ WsEnds \/ WsForget \/ WsWake
    BY <1>3 DEF WsConnectFails, WsEnds, WsForget, WsWake, netVars, InHandInv, NoSession
  <1>4. CASE WsAck
    <2>1. InHandInv'
      BY <1>4, InHandFetching DEF WsAck, Task
    <2>. QED  BY <1>4, <2>1 DEF WsAck
  <1>5. CASE WsChanged
    <2>1. InHandInv'
      BY <1>5, InHandFetching DEF WsChanged, Task, InHandInv
    <2>. QED  BY <1>5, <2>1 DEF WsChanged
  <1>6. CASE PollWake
    <2>1. InHandInv'
      BY <1>6, InHandFetching DEF PollWake, Task
    <2>. QED  BY <1>6, <2>1 DEF PollWake, netVars
  <1>7. ASSUME NEW t \in Task, Refresh(t) PROVE GoodInv'
    <2>. DEFINE r == task[t]
    <2>1. r \in TaskState
      BY DEF InHandInv
    <2>2. CASE FetchAnswered(t)
      <3>1. \E c \in Version \cup {Bad} :
                task' = [task EXCEPT ![t] = [pc |-> "got", session |-> r.session, config |-> c]]
        BY <2>1, <2>2 DEF FetchAnswered, InHandInv, TaskState
      <3>2. \A c \in Version \cup {Bad} :
                [pc |-> "got", session |-> r.session, config |-> c] \in TaskState
        BY <2>1 DEF TaskState, Version, Bad
      <3>3. InHandInv'
        BY <3>1, <3>2, InHandUpdate
      <3>. QED  BY <2>2, <3>3 DEF FetchAnswered, netVars
    <2>3. CASE FetchFails(t)
      BY <2>3, InHandIdle DEF FetchFails, netVars
    <2>4. CASE RejectInvalid(t)
      BY <2>4, InHandIdle DEF RejectInvalid, netVars
    <2>5. CASE SaveOpen(t)
      <3>1. r.config \in Version
        BY <2>5 DEF SaveOpen, Step, InHandInv
      <3>2. task' = [task EXCEPT ![t] = [r EXCEPT !.pc = "write"]]
        BY <2>5 DEF SaveOpen
      <3>3. [r EXCEPT !.pc = "write"] \in TaskState /\ [r EXCEPT !.pc = "write"].config = r.config
            /\ [r EXCEPT !.pc = "write"].pc = "write"
        BY <2>1 DEF TaskState
      <3>4. InHandInv'
        BY <3>1, <3>2, <3>3, InHandUpdate
      <3>. QED  BY <2>5, <3>4 DEF SaveOpen, netVars
    <2>6. ASSUME SaveWrite(t) \/ SaveFails(t) PROVE GoodInv'
      <3>1. r.config \in Version
        BY <2>6 DEF SaveWrite, SaveFails, Step, InHandInv
      <3>2. task' = [task EXCEPT ![t] = [r EXCEPT !.pc = "apply"]]
        BY <2>6 DEF SaveWrite, SaveFails
      <3>3. [r EXCEPT !.pc = "apply"] \in TaskState /\ [r EXCEPT !.pc = "apply"].config = r.config
            /\ [r EXCEPT !.pc = "apply"].pc = "apply"
        BY <2>1 DEF TaskState
      <3>4. InHandInv'
        BY <3>1, <3>2, <3>3, InHandUpdate
      <3>5. disk' \in Version \cup {Absent, Empty, Garbage}
        BY <2>6, <3>1 DEF SaveWrite, SaveFails
      <3>. QED  BY <2>6, <3>4, <3>5 DEF SaveWrite, SaveFails, netVars
    <2>7. CASE Apply(t)
      <3>1. r.config \in Version
        BY <2>7 DEF Apply, Step, InHandInv
      <3>2. InHandInv'
        BY <2>7, InHandIdle DEF Apply
      <3>. QED  BY <2>7, <3>1, <3>2 DEF Apply, netVars
    <2>. QED  BY <1>7, <2>2, <2>3, <2>4, <2>5, <2>6, <2>7 DEF Refresh, Store
  <1>8. CASE Crash
    <2>1. InHandInv'
      BY <1>8 DEF Crash, InHandInv, Idle, TaskState, NoSession, Local, Bad
    <2>. QED  BY <1>8, <2>1 DEF Crash, NoSession
  <1>9. CASE Identify
    <2>1. shared' \in Version \cup {Local}
      BY <1>9 DEF Identify, Start, StartRefused, CreateId, WriteId, WriteIdFails, Launch,
                  LoadLastKnown, vars, procVars
    <2>2. UNCHANGED <<task, disk, session, conn, remote>>
      BY <1>9 DEF Identify, Start, StartRefused, CreateId, WriteId, WriteIdFails, Launch,
                  vars, procVars, netVars
    <2>. QED  BY <2>1, <2>2 DEF InHandInv
  <1>10. CASE UNCHANGED vars
    BY <1>10 DEF vars, procVars, netVars, InHandInv
  <1>. QED  BY <1>1, <1>2, <1>3, <1>4, <1>5, <1>6, <1>7, <1>8, <1>9, <1>10 DEF Next, Ws

\* Whatever the network, the server, the disk or the process do, the agent runs
\* and stores only configs that validated (refresh_remote_config).
THEOREM GoodConfigOnly == Spec => []OnlyGoodConfig
  <1>1. Init => GoodInv
    BY AgentAssumption DEF Init, GoodInv, InHandInv, Idle, TaskState, Version, Local, Bad, NoSession
  <1>2. GoodInv => OnlyGoodConfig
    BY AgentAssumption
       DEF GoodInv, InHandInv, OnlyGoodConfig, Version, Local, Bad, Absent, Empty, Garbage
  <1>. QED  BY <1>1, <1>2, GoodStep, PTL DEF Spec

-----------------------------------------------------------------------------
\* A session id is replaced only by that of a newer connection.
LEMMA SessionStep ==
    SessionOfThisConnection /\ [Next]_vars => SessionOfThisConnection'
  <1>. SUFFICES ASSUME SessionOfThisConnection, [Next]_vars
                PROVE  SessionOfThisConnection'
    OBVIOUS
  <1>. USE DEF SessionOfThisConnection
  <1>1. CASE Server
    BY <1>1 DEF Server, ServerReload, ServerAck, ServerReject, LinkLost, ServerDrop, procVars
  <1>2. CASE Ws
    BY <1>2 DEF Ws, WsConnect, WsConnectFails, WsAck, WsChanged, WsEnds, WsForget, WsWake,
                WsReading, netVars
  <1>3. ASSUME NEW t \in Task, Refresh(t) PROVE UNCHANGED <<session, conn, ws>>
    BY <1>3 DEF Refresh, Store, FetchAnswered, FetchFails, RejectInvalid, SaveOpen, SaveWrite,
                SaveFails, Apply, netVars
  <1>4. CASE PollWake \/ Crash
    BY <1>4 DEF PollWake, Crash, netVars
  <1>5. CASE Identify
    BY <1>5 DEF Identify, Start, StartRefused, CreateId, WriteId, WriteIdFails, Launch,
                vars, procVars, netVars
  <1>6. CASE UNCHANGED vars
    BY <1>6 DEF vars, procVars, netVars
  <1>. QED  BY <1>1, <1>2, <1>3, <1>4, <1>5, <1>6 DEF Next

\* The session that the polling loop finds is always the one of the latest
\* connection, and is gone before the WebSocket loop dials again.
THEOREM SessionIsCurrent == Spec => []SessionOfThisConnection
  <1>1. Init => SessionOfThisConnection
    BY DEF Init, SessionOfThisConnection
  <1>. QED  BY <1>1, SessionStep, PTL DEF Spec

-----------------------------------------------------------------------------
\* The process has the id that is in the file, and none is used before it is there.
IdInv ==
    /\ known \subseteq {idFile}
    /\ idFile \in {NoId, Blank} => known = {}
    /\ up => agent_id = idFile /\ idFile \in Uuid /\ ~ starting
    /\ starting => idFile = Blank

\* The id file is written once, and read from then on.
LEMMA IdStep == IdInv /\ [Next]_vars => IdInv'
  <1>. SUFFICES ASSUME IdInv, [Next]_vars PROVE IdInv'
    OBVIOUS
  <1>. USE DEF IdInv
  <1>1. CASE Server
    BY <1>1 DEF Server, ServerReload, ServerAck, ServerReject, LinkLost, ServerDrop, idVars
  <1>2. CASE WsConnect
    BY <1>2 DEF WsConnect, Uuid, NoId, Blank
  <1>3. CASE WsConnectFails \/ WsAck \/ WsChanged \/ WsEnds \/ WsForget \/ WsWake \/ PollWake
    BY <1>3 DEF WsConnectFails, WsAck, WsChanged, WsEnds, WsForget, WsWake, PollWake, idVars,
                WsReading
  <1>4. ASSUME NEW t \in Task, Refresh(t) PROVE UNCHANGED <<up, idVars>>
    BY <1>4 DEF Refresh, Store, FetchAnswered, FetchFails, RejectInvalid, SaveOpen, SaveWrite,
                SaveFails, Apply
  <1>5. CASE Crash
    BY <1>5 DEF Crash
  <1>6. CASE Start
    BY <1>6 DEF Start, Launch
  <1>7. CASE CreateId
    BY <1>7 DEF CreateId
  <1>8. CASE WriteId
    <2>1. known = {}
      BY <1>8 DEF WriteId
    <2>2. FreshId \in Uuid
      <3>1. \E id \in Uuid : id \notin known
        BY <2>1 DEF Uuid
      <3>. QED  BY <3>1 DEF FreshId
    <2>. QED  BY <1>8, <2>1, <2>2 DEF WriteId, Launch, NoId, Blank
  <1>9. CASE WriteIdFails
    BY <1>9 DEF WriteIdFails
  <1>10. CASE StartRefused \/ UNCHANGED vars
    BY <1>10 DEF StartRefused, vars, idVars
  <1>. QED  BY <1>1, <1>2, <1>3, <1>4, <1>5, <1>6, <1>7, <1>8, <1>9, <1>10
            DEF Next, Ws, Identify, idVars

\* An agent never appears under two ids, wherever its start is interrupted: it
\* says hello only with the id that load_or_create_agent_id has written.
THEOREM AgentIdStable == Spec => []StableAgentId
  <1>1. Init => IdInv
    BY DEF Init, IdInv
  <1>2. IdInv => StableAgentId
    BY DEF IdInv, StableAgentId
  <1>. QED  BY <1>1, <1>2, IdStep, PTL DEF Spec
=============================================================================

------------------------ MODULE ControlServerProofs ------------------------
(***************************************************************************)
(* Proofs about the control server, for every set of agents, hosts,        *)
(* tokens, connections, reloads and requests, every channel capacity and   *)
(* every history of the config file.                                       *)
(***************************************************************************)
EXTENDS ControlServer, SequenceTheorems, TLAPS

\* What notifications.send leaves in a receiver's queue.
LEMMA PushedType ==
    ASSUME NEW S, NEW s \in Seq(S), NEW v \in S
    PROVE  Pushed(s, v) \in Seq(S)
  <1>1. CASE Len(s) < Capacity
    BY <1>1 DEF Pushed
  <1>2. CASE ~ (Len(s) < Capacity)
    <2>1. s # << >>
      BY <1>2, ServerAssumption
    <2>. QED  BY <1>2, <2>1 DEF Pushed
  <1>. QED  BY <1>1, <1>2

\* Dropping a task's locals keeps their types.
LEMMA ForgetType ==
    ASSUME TypeOK, NEW S \in SUBSET Conn, Forget(S)
    PROVE  /\ token' \in [Conn -> Token \cup {NoToken}]
           /\ current' \in [Conn -> Agent \cup {NoAgent}]
           /\ hello' \in [Conn -> {NoHello} \cup [agent : Agent, host : Host]]
           /\ sink' \in [Conn -> {"up", "closed"}]
           /\ NotifyOK'
  <1>1. << >> \in Seq(Version)
    OBVIOUS
  <1>. QED  BY <1>1 DEF TypeOK, ConnOK, NotifyOK, Forget

(***************************************************************************)
(* Every step of every handler keeps the types.                            *)
(***************************************************************************)
LEMMA TypeStep == TypeOK /\ [Next]_vars => TypeOK'
  <1>. SUFFICES ASSUME TypeOK, [Next]_vars PROVE TypeOK'
    OBVIOUS
  <1>. USE ServerAssumption
  <1>1. CASE EditFile
    <2>1. file + 1 \in Version
      BY <1>1 DEF EditFile, TypeOK, Version
    <2>. QED  BY <1>1, <2>1 DEF EditFile, TypeOK, ReloadOK, ConnOK, NotifyOK, RegistryOK,
                RequestOK, connVars, notifyVars, histVars, reqVars
  <1>2. ASSUME NEW r \in Reload, ReloadLoad(r) PROVE TypeOK'
    BY <1>2 DEF ReloadLoad, TypeOK, ReloadOK, ConnOK, NotifyOK, RegistryOK,
                RequestOK, connVars, notifyVars, reqVars
  <1>3. ASSUME NEW r \in Reload, ReloadSwap(r) PROVE TypeOK'
    <2>1. reload[r] \in [pc : {"loaded", "swapped"}, version : Version]
      BY <1>3 DEF ReloadSwap, TypeOK, ReloadOK, IdleReload
    <2>2. ReloadOK'
      BY <1>3, <2>1 DEF ReloadSwap, TypeOK, ReloadOK
    <2>. QED  BY <1>3, <2>1, <2>2 DEF ReloadSwap, TypeOK, ConnOK, NotifyOK, RegistryOK,
                RequestOK, connVars, notifyVars, reqVars
  <1>4. ASSUME NEW r \in Reload, ReloadNotify(r) PROVE TypeOK'
    <2>1. reload[r].version \in Version
      BY <1>4 DEF ReloadNotify, TypeOK, ReloadOK, IdleReload
    <2>2. \A c \in Conn : Pushed(queue[c], reload[r].version) \in Seq(Version)
      BY <2>1, PushedType DEF TypeOK, NotifyOK
    <2>3. NotifyOK'
      BY <1>4, <2>1, <2>2 DEF ReloadNotify, TypeOK, NotifyOK
    <2>4. ReloadOK'
      BY <1>4 DEF ReloadNotify, TypeOK, ReloadOK
    <2>. QED  BY <1>4, <2>3, <2>4 DEF ReloadNotify, TypeOK, ConnOK, RegistryOK,
                RequestOK, connVars, histVars, reqVars
  <1>5. ASSUME NEW c \in Conn, NEW t \in Token \cup {NoToken}, Connect(c, t)
        PROVE  TypeOK'
    BY <1>5 DEF Connect, TypeOK, ReloadOK, ConnOK, NotifyOK, RegistryOK,
                RequestOK, serverVars, notifyVars, histVars, reqVars
  <1>6. ASSUME NEW c \in Conn, NEW a \in Agent, NEW h \in Host, HelloAuthorize(c, a, h)
        PROVE  TypeOK'
    BY <1>6 DEF HelloAuthorize, TypeOK, ReloadOK, ConnOK, NotifyOK, RegistryOK,
                RequestOK, serverVars, notifyVars, reqVars
  <1>7. ASSUME NEW c \in Conn, NEW a \in Agent, NEW h \in Host, HelloUnauthorized(c, a, h)
        PROVE  TypeOK'
    BY <1>7 DEF HelloUnauthorized, Reject, TypeOK, ReloadOK, ConnOK, NotifyOK, RegistryOK,
                RequestOK, serverVars, notifyVars, histVars, reqVars
  <1>8. ASSUME NEW c \in Conn, NEW a \in Agent, NEW h \in Host, Heartbeat(c, a, h)
        PROVE  TypeOK'
    <2>1. agents[a] \in [conn : Conn, host : Host]
      BY <1>8 DEF Heartbeat, TypeOK, RegistryOK, NoEntry
    <2>2. RegistryOK'
      BY <1>8, <2>1 DEF Heartbeat, TypeOK, RegistryOK, histVars
    <2>. QED  BY <1>8, <2>2 DEF Heartbeat, TypeOK, ReloadOK, ConnOK, NotifyOK,
                RequestOK, serverVars, connVars, notifyVars, histVars, reqVars
  <1>9. ASSUME NEW c \in Conn, HelloDuplicate(c) PROVE TypeOK'
    BY <1>9 DEF HelloDuplicate, Reject, TypeOK, ReloadOK, ConnOK, NotifyOK, RegistryOK,
                RequestOK, serverVars, notifyVars, histVars, reqVars
  <1>10. ASSUME NEW c \in Conn, HelloRegister(c) PROVE TypeOK'
    <2>1. hello[c].agent \in Agent /\ hello[c].host \in Host
      BY <1>10 DEF HelloRegister, HelloPending, TypeOK, ConnOK
    <2>2. RegistryOK'
      BY <1>10, <2>1 DEF HelloRegister, Registered, TypeOK, RegistryOK, histVars
    <2>3. ConnOK'
      BY <1>10, <2>1 DEF HelloRegister, TypeOK, ConnOK
    <2>. QED  BY <1>10, <2>2, <2>3 DEF HelloRegister, TypeOK, ReloadOK, NotifyOK,
                RequestOK, serverVars, notifyVars, histVars, reqVars
  <1>11. ASSUME NEW c \in Conn, Deliver(c) PROVE TypeOK'
    <2>1. Tail(queue[c]) \in Seq(Version) /\ Head(queue[c]) \in Version
      BY <1>11 DEF Deliver, TypeOK, NotifyOK
    <2>2. NotifyOK'
      BY <1>11, <2>1 DEF Deliver, TypeOK, NotifyOK
    <2>. QED  BY <1>11, <2>2 DEF Deliver, TypeOK, ReloadOK, ConnOK, RegistryOK,
                RequestOK, serverVars, histVars, reqVars
  <1>12. ASSUME NEW c \in Conn, Lag(c) PROVE TypeOK'
    BY <1>12 DEF Lag, TypeOK, ReloadOK, ConnOK, NotifyOK, RegistryOK,
                RequestOK, serverVars, connVars, histVars, reqVars
  <1>13. ASSUME NEW c \in Conn, SocketEnds(c) PROVE TypeOK'
    BY <1>13 DEF SocketEnds, TypeOK, ReloadOK, ConnOK, NotifyOK, RegistryOK,
                RequestOK, serverVars, notifyVars, histVars, reqVars
  <1>14. ASSUME NEW c \in Conn, RemoveAgent(c) PROVE TypeOK'
    <2>1. ConnOK' /\ NotifyOK'
      BY <1>14, ForgetType DEF RemoveAgent, TypeOK, ConnOK
    <2>2. RegistryOK'
      BY <1>14 DEF RemoveAgent, TypeOK, RegistryOK, histVars
    <2>. QED  BY <1>14, <2>1, <2>2 DEF RemoveAgent, TypeOK, ReloadOK,
                RequestOK, serverVars, histVars, reqVars
  <1>15. ASSUME NEW q \in Request, NEW a \in Agent, NEW c \in Conn,
                NEW t \in Token \cup {NoToken}, RequestSnapshot(q, a, c, t)
         PROVE  TypeOK'
    <2>1. agents[a].host \in Host
      BY <1>15 DEF RequestSnapshot, TypeOK, RegistryOK, NoEntry
    <2>2. RequestOK'
      BY <1>15, <2>1 DEF RequestSnapshot, TypeOK, RequestOK
    <2>. QED  BY <1>15, <2>2 DEF RequestSnapshot, TypeOK, ReloadOK, ConnOK, NotifyOK,
                RegistryOK, serverVars, connVars, notifyVars, histVars
  <1>16. ASSUME NEW q \in Request, RequestAnswer(q) PROVE TypeOK'
    <2>1. request[q] \in [pc : {"snapshot"}, agent : Agent, host : Host,
                          token : Token \cup {NoToken}, session : Conn]
      BY <1>16 DEF RequestAnswer, TypeOK, RequestOK, IdleRequest
    <2>2. RequestOK'
      BY <1>16, <2>1 DEF RequestAnswer, TypeOK, RequestOK, serverVars
    <2>. QED  BY <1>16, <2>2 DEF RequestAnswer, TypeOK, ReloadOK, ConnOK, NotifyOK,
                RegistryOK, serverVars, connVars, notifyVars, histVars
  <1>17. CASE Restart
    <2>1. ConnOK' /\ NotifyOK'
      BY <1>17, ForgetType DEF Restart, TypeOK, ConnOK
    <2>. QED  BY <1>17, <2>1 DEF Restart, TypeOK, ReloadOK, RegistryOK, RequestOK
  <1>18. CASE UNCHANGED vars
    BY <1>18 DEF vars, serverVars, connVars, notifyVars, histVars, reqVars,
                TypeOK, ReloadOK, ConnOK, NotifyOK, RegistryOK, RequestOK
  <1>. QED
    BY <1>1, <1>2, <1>3, <1>4, <1>5, <1>6, <1>7, <1>8, <1>9, <1>10, <1>11, <1>12,
       <1>13, <1>14, <1>15, <1>16, <1>17, <1>18 DEF Next

\* The initial states have their types.
LEMMA TypeInit == Init => TypeOK
  <1>1. << >> \in Seq(Version) /\ 0 \in Version
    BY ServerAssumption DEF Version
  <1>. QED  BY <1>1, ServerAssumption DEF Init, TypeOK, ReloadOK, ConnOK, NotifyOK, RegistryOK, RequestOK

\* The state always has the shapes TypeOK describes: in particular an entry of
\* the registry, a pending hello and a running request are complete.
THEOREM TypeCorrect == Spec => []TypeOK
  BY TypeInit, TypeStep, PTL DEF Spec

-----------------------------------------------------------------------------
(***************************************************************************)
(* The registry.  RegistryMatchesTasks is inductive together with "a task  *)
(* that is not live is bound to no id": without it, a connection could     *)
(* open while already bound.                                               *)
(***************************************************************************)
RegistryInv ==
    /\ RegistryMatchesTasks
    /\ \A c \in Conn : ~ Live(c) => current[c] = NoAgent

\* The steps that touch neither a socket task's binding nor the registry.
LEMMA RegistryFrame ==
    ASSUME \/ EditFile
           \/ \E r \in Reload : ReloadLoad(r) \/ ReloadSwap(r) \/ ReloadNotify(r)
           \/ \E c \in Conn : Lag(c)
           \/ \E q \in Request, a \in Agent, c \in Conn, t \in Token \cup {NoToken} :
                  RequestSnapshot(q, a, c, t)
           \/ \E q \in Request : RequestAnswer(q)
           \/ UNCHANGED vars
    PROVE  UNCHANGED <<sock, current, agents>>
  BY DEF EditFile, ReloadLoad, ReloadSwap, ReloadNotify, Lag, RequestSnapshot,
         RequestAnswer, vars, connVars

\* No handler step, cleanup or restart separates an entry from its task.
LEMMA RegistryStep == TypeOK /\ RegistryInv /\ [Next]_vars => RegistryInv'
  <1>. SUFFICES ASSUME TypeOK, RegistryInv, [Next]_vars PROVE RegistryInv'
    OBVIOUS
  <1>. USE ServerAssumption DEF RegistryInv, RegistryMatchesTasks, Live
  <1>1. CASE UNCHANGED <<sock, current, agents>>
    BY <1>1
  <1>2. ASSUME NEW c \in Conn, NEW t \in Token \cup {NoToken}, Connect(c, t)
        PROVE  RegistryInv'
    BY <1>2 DEF Connect, TypeOK, ConnOK
  <1>3. ASSUME NEW c \in Conn, NEW a \in Agent, NEW h \in Host, HelloAuthorize(c, a, h)
        PROVE  RegistryInv'
    BY <1>3 DEF HelloAuthorize
  <1>4. ASSUME NEW c \in Conn, NEW a \in Agent, NEW h \in Host, HelloUnauthorized(c, a, h)
        PROVE  RegistryInv'
    <2>1. \A d \in Conn : Live(d)' = Live(d)
      BY <1>4 DEF HelloUnauthorized, Selecting, Reject, TypeOK, ConnOK
    <2>2. UNCHANGED <<current, agents>>
      BY <1>4 DEF HelloUnauthorized, Reject
    <2>. HIDE DEF Live
    <2>. QED  BY <2>1, <2>2
  <1>5. ASSUME NEW c \in Conn, NEW a \in Agent, NEW h \in Host, Heartbeat(c, a, h)
        PROVE  RegistryInv'
    <2>1. \A b \in Agent : agents'[b].conn = agents[b].conn
      BY <1>5 DEF Heartbeat, TypeOK, RegistryOK
    <2>. QED  BY <1>5, <2>1 DEF Heartbeat, connVars
  <1>6. ASSUME NEW c \in Conn, HelloDuplicate(c) PROVE RegistryInv'
    <2>1. \A d \in Conn : Live(d)' = Live(d)
      BY <1>6 DEF HelloDuplicate, HelloPending, Reject, TypeOK, ConnOK
    <2>. QED  BY <1>6, <2>1 DEF HelloDuplicate
  <1>7. ASSUME NEW c \in Conn, HelloRegister(c) PROVE RegistryInv'
    <2>. DEFINE a == hello[c].agent
    <2>1. a \in Agent
      BY <1>7 DEF HelloRegister, HelloPending, TypeOK, ConnOK
    <2>2. \A d \in Conn : d # c => agents[a].conn # d
      BY <1>7, <2>1 DEF HelloRegister, Duplicate
    <2>3. \A d \in Conn : Live(d)' = Live(d) /\ (d # c => current'[d] = current[d])
      BY <1>7 DEF HelloRegister, HelloPending, TypeOK, ConnOK
    <2>4. Live(c) /\ current'[c] = a
      BY <1>7 DEF HelloRegister, HelloPending, TypeOK, ConnOK
    <2>5. \A b \in Agent : agents'[b].conn =
              IF b = a THEN c
              ELSE IF agents[b].conn = c THEN NoConn ELSE agents[b].conn
      BY <1>7, <2>1 DEF HelloRegister, Registered, NoEntry
    <2>6. \A b \in Agent, d \in Conn :
              (agents[b].conn = d <=> Live(d) /\ current[d] = b)'
      <3>. TAKE b \in Agent, d \in Conn
      <3>1. CASE d = c
        BY <2>3, <2>4, <2>5, <3>1
      <3>2. CASE d # c
        BY <2>1, <2>2, <2>3, <2>5, <3>2
      <3>. QED  BY <3>1, <3>2
    <2>. QED  BY <2>3, <2>4, <2>6
  <1>8. ASSUME NEW c \in Conn, Deliver(c) PROVE RegistryInv'
    <2>1. \A d \in Conn : Live(d)' = Live(d)
      BY <1>8 DEF Deliver, Selecting, TypeOK, ConnOK
    <2>. QED  BY <1>8, <2>1 DEF Deliver
  <1>9. ASSUME NEW c \in Conn, SocketEnds(c) PROVE RegistryInv'
    BY <1>9 DEF SocketEnds, Selecting, TypeOK, ConnOK
  <1>10. ASSUME NEW c \in Conn, RemoveAgent(c) PROVE RegistryInv'
    <2>1. \A a \in Agent : agents'[a].conn =
              IF agents[a].conn = c THEN NoConn ELSE agents[a].conn
      BY <1>10 DEF RemoveAgent, NoEntry
    <2>2. \A d \in Conn : d # c => Live(d)' = Live(d) /\ current'[d] = current[d]
      BY <1>10 DEF RemoveAgent, Forget, TypeOK, ConnOK
    <2>3. ~ Live(c)' /\ current'[c] = NoAgent
      BY <1>10 DEF RemoveAgent, Forget, TypeOK, ConnOK
    <2>. QED  BY <2>1, <2>2, <2>3
  <1>11. CASE Restart
    <2>1. \A a \in Agent : agents'[a].conn = NoConn
      BY <1>11 DEF Restart, NoEntry
    <2>2. \A d \in Conn : ~ Live(d)' /\ current'[d] = NoAgent
      BY <1>11 DEF Restart, Forget
    <2>. QED  BY <2>1, <2>2
  <1>. QED
    BY RegistryFrame, <1>1, <1>2, <1>3, <1>4, <1>5, <1>6, <1>7, <1>8, <1>9, <1>10,
       <1>11 DEF Next

\* The registry starts empty.
LEMMA RegistryInit == Init => RegistryInv
  BY ServerAssumption DEF Init, RegistryInv, RegistryMatchesTasks, Live, NoEntry

\* Types and registry together are an invariant of the server.
LEMMA RegistryInductive == Spec => [](TypeOK /\ RegistryInv)
  BY TypeInit, TypeStep, RegistryInit, RegistryStep, PTL DEF Spec

\* An agent id is registered exactly while one unfinished socket task is bound
\* to it, and to that task's connection: second hellos, rejected hellos and
\* late cleanups never leave an entry behind or remove somebody else's.
THEOREM RegistryAgrees == Spec => []RegistryMatchesTasks
  BY RegistryInductive, PTL DEF RegistryInv

-----------------------------------------------------------------------------
(***************************************************************************)
(* Registrations are exclusive leases.  Only a registration, a cleanup and *)
(* a restart are visible to the abstract specification.                    *)
(***************************************************************************)
LEMMA LeaseFrame ==
    ASSUME TypeOK, [Next]_vars,
           \A c \in Conn : ~ HelloRegister(c) /\ ~ RemoveAgent(c),
           ~ Restart
    PROVE  /\ \A a \in Agent : agents'[a].conn = agents[a].conn
           /\ \A c \in Conn : sock'[c] = "gone" <=> sock[c] = "gone"
  <1>1. CASE UNCHANGED <<sock, current, agents>>
    BY <1>1
  <1>2. ASSUME NEW c \in Conn,
               \/ \E t \in Token \cup {NoToken} : Connect(c, t)
               \/ \E a \in Agent, h \in Host : HelloUnauthorized(c, a, h)
               \/ HelloDuplicate(c) \/ Deliver(c) \/ SocketEnds(c)
        PROVE  /\ UNCHANGED agents
               /\ \A d \in Conn : sock'[d] = "gone" <=> sock[d] = "gone"
    BY <1>2 DEF Connect, HelloUnauthorized, HelloDuplicate, HelloPending, Selecting,
                Reject, Deliver, SocketEnds, TypeOK, ConnOK
  <1>3. ASSUME NEW c \in Conn, NEW a \in Agent, NEW h \in Host, HelloAuthorize(c, a, h)
        PROVE  UNCHANGED <<sock, current, agents>>
    BY <1>3 DEF HelloAuthorize
  <1>4. ASSUME NEW c \in Conn, NEW a \in Agent, NEW h \in Host, Heartbeat(c, a, h)
        PROVE  UNCHANGED sock /\ \A b \in Agent : agents'[b].conn = agents[b].conn
    BY <1>4 DEF Heartbeat, TypeOK, RegistryOK, connVars
  <1>. QED
    BY RegistryFrame, <1>1, <1>2, <1>3, <1>4 DEF Next

\* A registration acquires a lease, a cleanup and a restart end leases, and
\* every other step stutters.
LEMMA LeaseStep ==
    TypeOK /\ RegistryInv /\ [Next]_vars => [Lease!Next]_(Lease!vars)
  <1>. SUFFICES ASSUME TypeOK, RegistryInv, [Next]_vars
                PROVE  [Lease!Next]_(Lease!vars)
    OBVIOUS
  <1>. DEFINE lease == [a \in Agent |-> agents[a].conn]
              ended == {c \in Conn : sock[c] = "gone"}
  <1>1. ASSUME NEW c \in Conn, HelloRegister(c) PROVE [Lease!Next]_(Lease!vars)
    <2>. DEFINE a == hello[c].agent
    <2>1. a \in Agent
      BY <1>1 DEF HelloRegister, HelloPending, TypeOK, ConnOK
    <2>2. sock[c] = "open" /\ \A d \in Conn : sock'[d] = "gone" <=> sock[d] = "gone"
      BY <1>1 DEF HelloRegister, HelloPending, TypeOK, ConnOK
    <2>3. \A b \in Agent : agents[b].conn = c => current[c] = b
      BY DEF RegistryInv, RegistryMatchesTasks
    <2>4. \A b \in Agent : agents'[b].conn =
              IF b = a THEN c
              ELSE IF agents[b].conn = c THEN NoConn ELSE agents[b].conn
      BY <1>1, <2>1, <2>3 DEF HelloRegister, Registered, NoEntry
    <2>5. CASE agents[a].conn = NoConn
      <3>1. lease' = [b \in Agent |-> IF b = a THEN c
                                     ELSE IF lease[b] = c THEN NoConn ELSE lease[b]]
        BY <2>4
      <3>2. ended' = ended /\ c \notin ended
        BY <2>2
      <3>3. lease[a] = NoConn
        BY <2>1, <2>5
      <3>4. \E b \in Agent : Lease!Acquire(c, b)
        BY <2>1, <3>1, <3>2, <3>3 DEF Lease!Acquire
      <3>. QED  BY <3>4 DEF Lease!Next
    <2>6. CASE agents[a].conn = c
      <3>1. \A b \in Agent : agents[b].conn = c <=> b = a
        BY <2>1, <2>3, <2>6
      <3>2. lease' = lease
        BY <2>4, <3>1
      <3>3. ended' = ended
        BY <2>2
      <3>. QED  BY <3>2, <3>3 DEF Lease!vars
    <2>7. agents[a].conn \in {c, NoConn}
      BY <1>1 DEF HelloRegister, Duplicate
    <2>. QED  BY <2>5, <2>6, <2>7
  <1>2. ASSUME NEW c \in Conn, RemoveAgent(c) PROVE [Lease!Next]_(Lease!vars)
    <2>1. \A b \in Agent : agents[b].conn = c => current[c] = b
      BY DEF RegistryInv, RegistryMatchesTasks
    <2>2. lease' = [a \in Agent |-> IF lease[a] \in {c} THEN NoConn ELSE lease[a]]
      BY <1>2, <2>1 DEF RemoveAgent, NoEntry
    <2>3. ended' = ended \cup {c}
      BY <1>2 DEF RemoveAgent, TypeOK, ConnOK
    <2>4. Lease!End({c})
      BY <2>2, <2>3 DEF Lease!End
    <2>. QED  BY <2>4 DEF Lease!Next
  <1>3. CASE Restart
    <2>. DEFINE S == {c \in Conn : sock[c] # "fresh"}
    <2>1. \A a \in Agent : agents[a].conn \in S \cup {NoConn}
      BY DEF TypeOK, RegistryOK, NoEntry, RegistryInv, RegistryMatchesTasks, Live
    <2>2. lease' = [a \in Agent |-> IF lease[a] \in S THEN NoConn ELSE lease[a]]
      BY <1>3, <2>1 DEF Restart, NoEntry
    <2>3. ended' = ended \cup S
      BY <1>3 DEF Restart
    <2>4. S \in SUBSET Conn
      OBVIOUS
    <2>5. \E T \in SUBSET Conn : Lease!End(T)
      BY <2>2, <2>3, <2>4 DEF Lease!End
    <2>. QED  BY <2>5 DEF Lease!Next
  <1>4. CASE ~ Restart /\ \A c \in Conn : ~ HelloRegister(c) /\ ~ RemoveAgent(c)
    <2>1. lease' = lease
      BY <1>4, LeaseFrame
    <2>2. ended' = ended
      BY <1>4, LeaseFrame
    <2>. QED  BY <2>1, <2>2 DEF Lease!vars
  <1>. QED  BY <1>1, <1>2, <1>3, <1>4

\* No id is leased at first.
LEMMA LeaseInit == Init => Lease!Init
  BY DEF Init, Lease!Init, NoEntry

\* The whole server, handlers, races and restarts included, implements the
\* lease specification: nobody takes a registration from its holder, nobody
\* holds two, and an ended connection never comes back.
THEOREM LeaseRefinement == Spec => LeaseSpec
  BY RegistryInductive, LeaseInit, LeaseStep, PTL DEF Spec, LeaseSpec, Lease!Spec

\* A step of the leases keeps them exclusive.
LEMMA LeaseInductive ==
    Lease!TypeOK /\ Lease!Exclusive /\ [Lease!Next]_(Lease!vars)
        => Lease!TypeOK' /\ Lease!Exclusive'
  <1>. SUFFICES ASSUME Lease!TypeOK, Lease!Exclusive, [Lease!Next]_(Lease!vars)
                PROVE  Lease!TypeOK' /\ Lease!Exclusive'
    OBVIOUS
  <1>. USE ServerAssumption
  <1>. DEFINE held == [a \in Agent |-> agents[a].conn]
              over == {c \in Conn : sock[c] = "gone"}
  <1>0. /\ \A a \in Agent : held[a] \in Conn \cup {NoConn} /\ held[a] \notin over
        /\ \A a, b \in Agent : held[a] # NoConn /\ held[a] = held[b] => a = b
        /\ over \subseteq Conn
    BY DEF Lease!TypeOK, Lease!Exclusive
  <1>1. ASSUME NEW c \in Conn, NEW a \in Agent, Lease!Acquire(c, a)
        PROVE  Lease!TypeOK' /\ Lease!Exclusive'
    <2>1. /\ held' = [b \in Agent |-> IF b = a THEN c ELSE IF held[b] = c THEN NoConn ELSE held[b]]
          /\ over' = over /\ c \notin over
      BY <1>1 DEF Lease!Acquire
    <2>. HIDE DEF held, over
    <2>2. /\ held' \in [Agent -> Conn \cup {NoConn}] /\ over' \subseteq Conn
          /\ \A b \in Agent : held'[b] \notin over'
          /\ \A b, d \in Agent : held'[b] # NoConn /\ held'[b] = held'[d] => b = d
      BY <1>0, <2>1
    <2>. QED  BY <2>2 DEF Lease!TypeOK, Lease!Exclusive, held, over
  <1>2. ASSUME NEW S \in SUBSET Conn, Lease!End(S)
        PROVE  Lease!TypeOK' /\ Lease!Exclusive'
    <2>1. /\ held' = [b \in Agent |-> IF held[b] \in S THEN NoConn ELSE held[b]]
          /\ over' = over \cup S
      BY <1>2 DEF Lease!End
    <2>. HIDE DEF held, over
    <2>2. /\ held' \in [Agent -> Conn \cup {NoConn}] /\ over' \subseteq Conn
          /\ \A b \in Agent : held'[b] \notin over'
          /\ \A b, d \in Agent : held'[b] # NoConn /\ held'[b] = held'[d] => b = d
      BY <1>0, <2>1
    <2>. QED  BY <2>2 DEF Lease!TypeOK, Lease!Exclusive, held, over
  <1>3. CASE UNCHANGED Lease!vars
    BY <1>3 DEF Lease!vars, Lease!TypeOK, Lease!Exclusive
  <1>. QED  BY <1>1, <1>2, <1>3 DEF Lease!Next

\* No connection of the server is ever registered for two agent ids and no
\* ended connection is registered for one: the server implements the leases,
\* and the leases stay exclusive.  This is what register_agent_connection and
\* remove_agent guarantee together.
THEOREM LeaseExclusive == Spec => []Lease!Exclusive
  <1>1. Lease!Init => Lease!TypeOK /\ Lease!Exclusive
    BY ServerAssumption DEF Lease!Init, Lease!TypeOK, Lease!Exclusive
  <1>2. LeaseSpec => []Lease!Exclusive
    BY <1>1, LeaseInductive, PTL DEF LeaseSpec, Lease!Spec
  <1>. QED  BY <1>2, LeaseRefinement, PTL

-----------------------------------------------------------------------------
(***************************************************************************)
(* Config answers.  The credentials a hello has shown are carried along:   *)
(* by the pending hello, by the registry entry it becomes, by the copy of  *)
(* the entry a config request works on, and by the answer.                 *)
(***************************************************************************)
EntriesProven == \A a \in Agent : agents[a] # NoEntry => a \in proved[agents[a].conn]
HellosProven == \A c \in Conn : hello[c] # NoHello => hello[c].agent \in proved[c]
RequestsProven == \A q \in Request : request[q] # IdleRequest =>
                      request[q].agent \in proved[request[q].session]
ProvenInv == EntriesProven /\ HellosProven /\ RequestsProven /\ ServedToProvenSession

\* Credentials are carried along, never made up.
LEMMA ProvenStep == TypeOK /\ ProvenInv /\ [Next]_vars => ProvenInv'
  <1>. SUFFICES ASSUME TypeOK, ProvenInv, [Next]_vars PROVE ProvenInv'
    OBVIOUS
  <1>. USE ServerAssumption DEF ProvenInv
  <1>. DEFINE Frame == UNCHANGED <<agents, hello, request, served, proved>>
  <1>1. CASE Frame
    BY <1>1 DEF EntriesProven, HellosProven, RequestsProven, ServedToProvenSession
  <1>2. ASSUME \/ EditFile
               \/ \E r \in Reload : ReloadLoad(r) \/ ReloadSwap(r) \/ ReloadNotify(r)
               \/ \E c \in Conn, t \in Token \cup {NoToken} : Connect(c, t)
               \/ \E c \in Conn, a \in Agent, h \in Host : HelloUnauthorized(c, a, h)
               \/ \E c \in Conn : Deliver(c) \/ Lag(c) \/ SocketEnds(c)
               \/ UNCHANGED vars
        PROVE  Frame
    BY <1>2 DEF EditFile, ReloadLoad, ReloadSwap, ReloadNotify, Connect, HelloUnauthorized,
                Deliver, Lag, SocketEnds, vars, connVars, histVars, reqVars
  <1>3. ASSUME NEW c \in Conn, NEW a \in Agent, NEW h \in Host, HelloAuthorize(c, a, h)
        PROVE  ProvenInv'
    <2>1. /\ \A d \in Conn : proved[d] \subseteq proved'[d]
          /\ a \in proved'[c]
      BY <1>3 DEF HelloAuthorize, TypeOK, RegistryOK
    <2>2. EntriesProven'
      BY <1>3, <2>1 DEF HelloAuthorize, EntriesProven, TypeOK, RegistryOK
    <2>3. HellosProven'
      BY <1>3, <2>1 DEF HelloAuthorize, HellosProven, TypeOK, ConnOK
    <2>4. RequestsProven'
      BY <1>3, <2>1 DEF HelloAuthorize, RequestsProven, TypeOK, RequestOK, reqVars
    <2>5. ServedToProvenSession'
      BY <1>3, <2>1 DEF HelloAuthorize, ServedToProvenSession, TypeOK, RequestOK, reqVars
    <2>. QED  BY <2>2, <2>3, <2>4, <2>5
  <1>4. ASSUME NEW c \in Conn, NEW a \in Agent, NEW h \in Host, Heartbeat(c, a, h)
        PROVE  ProvenInv'
    <2>1. agents[a] # NoEntry
      BY <1>4 DEF Heartbeat, NoEntry
    <2>2. \A b \in Agent : agents'[b].conn = agents[b].conn /\ (b # a => agents'[b] = agents[b])
      BY <1>4 DEF Heartbeat, TypeOK, RegistryOK
    <2>3. EntriesProven'
      BY <1>4, <2>1, <2>2 DEF Heartbeat, EntriesProven, histVars
    <2>. QED  BY <1>4, <2>3 DEF Heartbeat, HellosProven, RequestsProven,
                ServedToProvenSession, connVars, histVars, reqVars
  <1>5. ASSUME NEW c \in Conn, HelloDuplicate(c) PROVE ProvenInv'
    <2>1. HellosProven'
      BY <1>5 DEF HelloDuplicate, HellosProven, TypeOK, ConnOK, histVars
    <2>. QED  BY <1>5, <2>1 DEF HelloDuplicate, EntriesProven, RequestsProven,
                ServedToProvenSession, histVars, reqVars
  <1>6. ASSUME NEW c \in Conn, HelloRegister(c) PROVE ProvenInv'
    <2>1. hello[c].agent \in proved[c]
      BY <1>6 DEF HelloRegister, HelloPending, HellosProven
    <2>2. EntriesProven'
      BY <1>6, <2>1 DEF HelloRegister, Registered, EntriesProven, histVars
    <2>3. HellosProven'
      BY <1>6 DEF HelloRegister, HellosProven, TypeOK, ConnOK, histVars
    <2>. QED  BY <1>6, <2>2, <2>3 DEF HelloRegister, RequestsProven,
                ServedToProvenSession, histVars, reqVars
  <1>7. ASSUME NEW c \in Conn, RemoveAgent(c) PROVE ProvenInv'
    <2>1. EntriesProven'
      BY <1>7 DEF RemoveAgent, EntriesProven, histVars
    <2>2. HellosProven'
      BY <1>7 DEF RemoveAgent, Forget, HellosProven, histVars
    <2>. QED  BY <1>7, <2>1, <2>2 DEF RemoveAgent, RequestsProven,
                ServedToProvenSession, histVars, reqVars
  <1>8. ASSUME NEW q \in Request, NEW a \in Agent, NEW c \in Conn,
               NEW t \in Token \cup {NoToken}, RequestSnapshot(q, a, c, t)
        PROVE  ProvenInv'
    <2>1. a \in proved[c]
      BY <1>8 DEF RequestSnapshot, EntriesProven, NoEntry
    <2>2. RequestsProven'
      BY <1>8, <2>1 DEF RequestSnapshot, RequestsProven, TypeOK, RequestOK, histVars
    <2>. QED  BY <1>8, <2>2 DEF RequestSnapshot, EntriesProven, HellosProven,
                ServedToProvenSession, connVars, histVars
  <1>9. ASSUME NEW q \in Request, RequestAnswer(q) PROVE ProvenInv'
    <2>1. request[q].agent \in proved[request[q].session]
      BY <1>9 DEF RequestAnswer, RequestsProven, IdleRequest
    <2>2. RequestsProven'
      BY <1>9 DEF RequestAnswer, RequestsProven, TypeOK, RequestOK, histVars
    <2>3. ServedToProvenSession'
      BY <1>9, <2>1 DEF RequestAnswer, ServedToProvenSession, TypeOK, RequestOK, histVars
    <2>. QED  BY <1>9, <2>2, <2>3 DEF RequestAnswer, EntriesProven, HellosProven,
                connVars, histVars
  <1>10. CASE Restart
    BY <1>10 DEF Restart, Forget, EntriesProven, HellosProven, RequestsProven,
                ServedToProvenSession
  <1>. QED
    BY <1>1, <1>2, <1>3, <1>4, <1>5, <1>6, <1>7, <1>8, <1>9, <1>10 DEF Next

\* Nobody has proved anything at first, and nobody is served.
LEMMA ProvenInit == Init => ProvenInv
  BY DEF Init, ProvenInv, EntriesProven, HellosProven, RequestsProven,
         ServedToProvenSession

\* Every config handed out goes to a session whose own connection has shown
\* that agent's credentials in a hello, in every interleaving of hellos,
\* heartbeats, disconnects, reloads and requests.
THEOREM OnlyProvenSessionsServed == Spec => []ServedToProvenSession
  BY TypeInit, TypeStep, ProvenInit, ProvenStep, PTL DEF Spec, ProvenInv

\* The check an answer passes is made against the very config it is resolved
\* from, for the hostname it is resolved for.
LEMMA EnrolledStep ==
    TypeOK /\ ServedForEnrolledHost /\ [Next]_vars => ServedForEnrolledHost'
  <1>. SUFFICES ASSUME TypeOK, ServedForEnrolledHost, [Next]_vars
                PROVE  ServedForEnrolledHost'
    OBVIOUS
  <1>1. CASE UNCHANGED served
    BY <1>1 DEF ServedForEnrolledHost
  <1>2. ASSUME NEW q \in Request, RequestAnswer(q) PROVE ServedForEnrolledHost'
    BY <1>2 DEF RequestAnswer, AgentHasConfigCredential, AgentIsEnrolledForHostname,
                ServedForEnrolledHost, TypeOK, RequestOK
  <1>. QED
    BY <1>1, <1>2 DEF Next, EditFile, ReloadLoad, ReloadSwap, ReloadNotify, Connect,
       HelloAuthorize, HelloUnauthorized, Heartbeat, HelloDuplicate, HelloRegister,
       Deliver, Lag, SocketEnds, RemoveAgent, RequestSnapshot, Restart, reqVars, vars

\* No heartbeat, reload or reconnection makes the server resolve a config for
\* a hostname the served config does not enrol the agent for.
THEOREM EnrolledHostServed == Spec => []ServedForEnrolledHost
  <1>1. Init => ServedForEnrolledHost
    BY DEF Init, ServedForEnrolledHost
  <1>. QED  BY TypeInit, TypeStep, <1>1, EnrolledStep, PTL DEF Spec

-----------------------------------------------------------------------------
(***************************************************************************)
(* Reloads and notifications.  A reload carries a version that has loaded, *)
(* and once it has swapped, one that has been active; a socket that has    *)
(* not opened yet has an empty receiver.                                   *)
(***************************************************************************)
ReloadsLoaded == \A r \in Reload : reload[r] # IdleReload => reload[r].version \in Valid
SwappedActive == \A r \in Reload : reload[r].pc = "swapped" => reload[r].version \in activated
FreshUntold == \A c \in Conn : sock[c] = "fresh" =>
                   queue[c] = << >> /\ told[c] = NoVersion /\ due[c] = NoVersion
NotifyInv ==
    /\ ReloadsLoaded /\ SwappedActive /\ FreshUntold
    /\ ActiveConfigValid /\ NotifiedAfterSwap /\ NewestNeverLost

\* Taking the first element of a queue leaves old elements, and its last one.
LEMMA TailElements ==
    ASSUME NEW S, NEW s \in Seq(S), s # << >>
    PROVE  /\ \A i \in DOMAIN Tail(s) : \E j \in DOMAIN s : Tail(s)[i] = s[j]
           /\ Tail(s) = << >> => Head(s) = s[Len(s)]
           /\ Tail(s) # << >> => Tail(s)[Len(Tail(s))] = s[Len(s)]
  <1>. DEFINE t == Tail(s)
  <1>1. /\ t \in Seq(S) /\ Len(t) = Len(s) - 1
        /\ \A i \in 1..Len(t) : t[i] = s[i + 1]
    BY HeadTailProperties
  <1>2. Len(s) \in Nat \ {0} /\ DOMAIN s = 1..Len(s) /\ Head(s) = s[1]
    OBVIOUS
  <1>3. Len(t) \in Nat /\ DOMAIN t = 1..Len(t) /\ (t = << >> <=> Len(t) = 0)
    BY <1>1
  <1>. HIDE DEF t
  <1>4. ASSUME NEW i \in DOMAIN t PROVE \E j \in DOMAIN s : t[i] = s[j]
    <2>1. i + 1 \in DOMAIN s /\ t[i] = s[i + 1]
      BY <1>1, <1>2, <1>3
    <2>. QED  BY <2>1
  <1>5. t = << >> => Head(s) = s[Len(s)]
    BY <1>1, <1>2, <1>3
  <1>6. t # << >> => t[Len(t)] = s[Len(s)]
    BY <1>1, <1>2, <1>3
  <1>. QED  BY <1>4, <1>5, <1>6 DEF t

\* What is sent is last in the receiver's queue, and nothing else is new.
LEMMA PushedElements ==
    ASSUME NEW s \in Seq(Version), NEW v \in Version
    PROVE  /\ Pushed(s, v) # << >>
           /\ Pushed(s, v)[Len(Pushed(s, v))] = v
           /\ \A i \in DOMAIN Pushed(s, v) :
                  Pushed(s, v)[i] = v \/ \E j \in DOMAIN s : Pushed(s, v)[i] = s[j]
  <1>1. ASSUME NEW t \in Seq(Version)
        PROVE  /\ Append(t, v) # << >>
               /\ Append(t, v)[Len(Append(t, v))] = v
               /\ \A i \in DOMAIN Append(t, v) :
                      Append(t, v)[i] = v \/ \E j \in DOMAIN t : Append(t, v)[i] = t[j]
    <2>. DEFINE u == Append(t, v)
    <2>1. /\ u \in Seq(Version) /\ u # << >> /\ Len(u) = Len(t) + 1
          /\ \A i \in 1..Len(t) : u[i] = t[i]
          /\ u[Len(t) + 1] = v
      BY <1>1, AppendProperties
    <2>2. DOMAIN u = 1..Len(u) /\ DOMAIN t = 1..Len(t) /\ Len(t) \in Nat
      BY <1>1, <2>1
    <2>. HIDE DEF u
    <2>3. ASSUME NEW i \in DOMAIN u PROVE u[i] = v \/ \E j \in DOMAIN t : u[i] = t[j]
      BY <2>1, <2>2
    <2>. QED  BY <2>1, <2>2, <2>3 DEF u
  <1>2. CASE Len(s) < Capacity
    BY <1>1, <1>2 DEF Pushed
  <1>3. CASE ~ (Len(s) < Capacity)
    <2>1. s # << >>
      BY <1>3, ServerAssumption
    <2>2. Tail(s) \in Seq(Version) /\ Pushed(s, v) = Append(Tail(s), v)
      BY <1>3, <2>1 DEF Pushed
    <2>3. \A i \in DOMAIN Tail(s) : \E j \in DOMAIN s : Tail(s)[i] = s[j]
      BY <2>1, TailElements
    <2>. QED  BY <1>1, <2>2, <2>3
  <1>. QED  BY <1>2, <1>3

\* The steps that leave reloads, configs and receivers alone and open no
\* socket.
LEMMA NotifyFrame ==
    ASSUME TypeOK,
           \/ EditFile
           \/ \E c \in Conn, a \in Agent, h \in Host :
                  HelloAuthorize(c, a, h) \/ HelloUnauthorized(c, a, h) \/ Heartbeat(c, a, h)
           \/ \E c \in Conn : HelloDuplicate(c) \/ HelloRegister(c) \/ Lag(c) \/ SocketEnds(c)
           \/ \E q \in Request, a \in Agent, c \in Conn, t \in Token \cup {NoToken} :
                  RequestSnapshot(q, a, c, t)
           \/ \E q \in Request : RequestAnswer(q)
           \/ UNCHANGED vars
    PROVE  /\ UNCHANGED <<reload, config, activated, queue, due, told>>
           /\ \A d \in Conn : sock'[d] = sock[d] \/ sock'[d] = "exiting"
  <1>1. UNCHANGED <<reload, config, activated, queue, due, told>>
    BY DEF EditFile, HelloAuthorize, HelloUnauthorized, Heartbeat, HelloDuplicate,
           HelloRegister, Lag, SocketEnds, RequestSnapshot, RequestAnswer, vars,
           serverVars, notifyVars, histVars
  <1>2. \A d \in Conn : sock'[d] = sock[d] \/ sock'[d] = "exiting"
    BY DEF EditFile, HelloAuthorize, HelloUnauthorized, Heartbeat, HelloDuplicate, Reject,
           HelloRegister, Lag, SocketEnds, RequestSnapshot, RequestAnswer, vars,
           connVars, TypeOK, ConnOK
  <1>. QED  BY <1>1, <1>2

\* Sending, delivering, lagging and subscribing keep the newest version in reach.
LEMMA NotifyStep == TypeOK /\ NotifyInv /\ [Next]_vars => NotifyInv'
  <1>. SUFFICES ASSUME TypeOK, NotifyInv, [Next]_vars PROVE NotifyInv'
    OBVIOUS
  <1>. USE ServerAssumption DEF NotifyInv
  <1>1. CASE /\ UNCHANGED <<reload, config, activated, queue, due, told>>
             /\ \A d \in Conn : sock'[d] = sock[d] \/ sock'[d] = "exiting"
    BY <1>1 DEF ReloadsLoaded, SwappedActive, FreshUntold, ActiveConfigValid,
                NotifiedAfterSwap, NewestNeverLost
  <1>2. ASSUME NEW r \in Reload, ReloadLoad(r) PROVE NotifyInv'
    <2>1. ReloadsLoaded'
      BY <1>2 DEF ReloadLoad, ReloadsLoaded, TypeOK, ReloadOK
    <2>2. SwappedActive'
      BY <1>2 DEF ReloadLoad, SwappedActive, TypeOK, ReloadOK
    <2>. QED  BY <1>2, <2>1, <2>2 DEF ReloadLoad, FreshUntold, ActiveConfigValid,
                NotifiedAfterSwap, NewestNeverLost, connVars, notifyVars
  <1>3. ASSUME NEW r \in Reload, ReloadSwap(r) PROVE NotifyInv'
    <2>1. reload[r].version \in Valid
      BY <1>3 DEF ReloadSwap, ReloadsLoaded, IdleReload
    <2>2. /\ reload'[r].version = reload[r].version
          /\ \A s \in Reload : s # r => reload'[s] = reload[s]
      BY <1>3 DEF ReloadSwap, TypeOK, ReloadOK
    <2>3. activated' = activated \cup {reload[r].version} /\ config' = reload[r].version
      BY <1>3 DEF ReloadSwap
    <2>4. ReloadsLoaded' /\ SwappedActive' /\ ActiveConfigValid'
      BY <2>1, <2>2, <2>3 DEF ReloadsLoaded, SwappedActive, ActiveConfigValid
    <2>5. FreshUntold' /\ NewestNeverLost'
      BY <1>3 DEF ReloadSwap, FreshUntold, NewestNeverLost, connVars, notifyVars
    <2>6. NotifiedAfterSwap'
      BY <1>3, <2>3 DEF ReloadSwap, NotifiedAfterSwap, connVars, notifyVars
    <2>. QED  BY <2>4, <2>5, <2>6
  <1>4. ASSUME NEW r \in Reload, ReloadNotify(r) PROVE NotifyInv'
    <2>. DEFINE v == reload[r].version
    <2>1. v \in Version /\ v \in activated
      BY <1>4 DEF ReloadNotify, SwappedActive, TypeOK
    <2>2. ReloadsLoaded' /\ SwappedActive'
      BY <1>4 DEF ReloadNotify, ReloadsLoaded, SwappedActive, IdleReload, TypeOK, ReloadOK,
                histVars
    <2>3. \A c \in Conn : queue'[c] = IF sock[c] = "open" THEN Pushed(queue[c], v) ELSE queue[c]
      BY <1>4 DEF ReloadNotify
    <2>4. \A c \in Conn : due'[c] = IF sock[c] = "open" THEN v ELSE due[c]
      BY <1>4 DEF ReloadNotify
    <2>5. UNCHANGED <<config, activated, told, sock>>
      BY <1>4 DEF ReloadNotify, connVars, histVars
    <2>6. \A c \in Conn : queue[c] \in Seq(Version)
      BY DEF TypeOK, NotifyOK
    <2>7. ASSUME NEW c \in Conn, sock[c] = "open"
          PROVE  /\ \A i \in DOMAIN queue'[c] : queue'[c][i] \in activated
                 /\ queue'[c] # << >> /\ queue'[c][Len(queue'[c])] = v
      <3>1. \A i \in DOMAIN queue[c] : queue[c][i] \in activated
        BY <2>7 DEF NotifiedAfterSwap
      <3>2. queue'[c] = Pushed(queue[c], v)
        BY <2>3, <2>7
      <3>. HIDE DEF v
      <3>3. /\ queue'[c] # << >> /\ queue'[c][Len(queue'[c])] = v
            /\ \A i \in DOMAIN queue'[c] :
                   queue'[c][i] = v \/ \E j \in DOMAIN queue[c] : queue'[c][i] = queue[c][j]
        BY <2>1, <2>6, <3>2, PushedElements
      <3>. QED  BY <2>1, <3>1, <3>3
    <2>8. NotifiedAfterSwap'
      BY <2>5, <2>7 DEF NotifiedAfterSwap
    <2>9. NewestNeverLost'
      BY <2>4, <2>5, <2>7 DEF NewestNeverLost
    <2>10. FreshUntold' /\ ActiveConfigValid'
      BY <2>3, <2>4, <2>5 DEF FreshUntold, ActiveConfigValid
    <2>. QED  BY <2>2, <2>8, <2>9, <2>10
  <1>5. ASSUME NEW c \in Conn, NEW t \in Token \cup {NoToken}, Connect(c, t)
        PROVE  NotifyInv'
    <2>1. UNCHANGED <<reload, config, activated, queue, due, told>>
      BY <1>5 DEF Connect, serverVars, notifyVars, histVars
    <2>2. queue[c] = << >> /\ told[c] = NoVersion /\ due[c] = NoVersion
      BY <1>5 DEF Connect, FreshUntold
    <2>3. sock'[c] = "open" /\ \A d \in Conn : d # c => sock'[d] = sock[d]
      BY <1>5 DEF Connect, TypeOK, ConnOK
    <2>4. NotifiedAfterSwap'
      BY <2>1, <2>2, <2>3 DEF NotifiedAfterSwap
    <2>. QED  BY <2>1, <2>2, <2>3, <2>4 DEF ReloadsLoaded, SwappedActive, FreshUntold,
                ActiveConfigValid, NewestNeverLost
  <1>6. ASSUME NEW c \in Conn, Deliver(c) PROVE NotifyInv'
    <2>. DEFINE s == queue[c]
    <2>1. UNCHANGED <<reload, config, activated, due>>
      BY <1>6 DEF Deliver, serverVars, histVars
    <2>2. /\ sock[c] = "open" /\ s \in Seq(Version) /\ s # << >>
          /\ queue'[c] = Tail(s)
          /\ sock'[c] = "open" => told'[c] = Head(s)
          /\ sock'[c] # "fresh"
      BY <1>6 DEF Deliver, Selecting, TypeOK, ConnOK, NotifyOK
    <2>3. \A d \in Conn : d # c => /\ sock'[d] = sock[d] /\ queue'[d] = queue[d]
                                  /\ told'[d] = told[d]
      BY <1>6 DEF Deliver, TypeOK, ConnOK, NotifyOK
    <2>4. /\ \A i \in DOMAIN Tail(s) : \E j \in DOMAIN s : Tail(s)[i] = s[j]
          /\ Tail(s) = << >> => Head(s) = s[Len(s)]
          /\ Tail(s) # << >> => Tail(s)[Len(Tail(s))] = s[Len(s)]
          /\ \E j \in DOMAIN s : Head(s) = s[j]
      <3>1. 1 \in DOMAIN s /\ Head(s) = s[1]
        BY <2>2
      <3>. QED  BY <2>2, <3>1, TailElements
    <2>5. \A i \in DOMAIN s : s[i] \in activated
      BY <2>2 DEF NotifiedAfterSwap
    <2>6. NotifiedAfterSwap'
      <3>. SUFFICES ASSUME NEW d \in Conn, sock'[d] = "open"
                    PROVE  /\ \A i \in DOMAIN queue'[d] : queue'[d][i] \in activated
                           /\ told'[d] # NoVersion => told'[d] \in activated
        BY <2>1 DEF NotifiedAfterSwap
      <3>. HIDE DEF s
      <3>1. CASE d = c
        <4>1. queue'[d] = Tail(s) /\ told'[d] = Head(s)
          BY <2>2, <3>1
        <4>. QED  BY <2>4, <2>5, <4>1
      <3>2. CASE d # c
        BY <2>3, <3>2 DEF NotifiedAfterSwap
      <3>. QED  BY <3>1, <3>2
    <2>7. s[Len(s)] = due[c]
      BY <2>2 DEF NewestNeverLost
    <2>8. NewestNeverLost'
      <3>. SUFFICES ASSUME NEW d \in Conn, sock'[d] = "open"
                    PROVE  IF queue'[d] = << >> THEN told'[d] = due[d]
                           ELSE queue'[d][Len(queue'[d])] = due[d]
        BY <2>1 DEF NewestNeverLost
      <3>. HIDE DEF s
      <3>1. CASE d = c /\ Tail(s) = << >>
        BY <2>2, <2>4, <2>7, <3>1
      <3>2. CASE d = c /\ Tail(s) # << >>
        BY <2>2, <2>4, <2>7, <3>2
      <3>3. CASE d # c
        BY <2>3, <3>3 DEF NewestNeverLost
      <3>. QED  BY <3>1, <3>2, <3>3
    <2>9. FreshUntold'
      BY <2>1, <2>2, <2>3 DEF FreshUntold
    <2>. QED  BY <2>1, <2>6, <2>8, <2>9 DEF ReloadsLoaded, SwappedActive, ActiveConfigValid
  <1>7. ASSUME NEW c \in Conn, RemoveAgent(c) PROVE NotifyInv'
    <2>1. UNCHANGED <<reload, config, activated>>
      BY <1>7 DEF RemoveAgent, serverVars, histVars
    <2>2. sock'[c] = "gone"
      BY <1>7 DEF RemoveAgent, TypeOK, ConnOK
    <2>3. \A d \in Conn : d # c => /\ sock'[d] = sock[d] /\ queue'[d] = queue[d]
                                  /\ told'[d] = told[d] /\ due'[d] = due[d]
      BY <1>7 DEF RemoveAgent, Forget, TypeOK, ConnOK
    <2>4. NotifiedAfterSwap' /\ NewestNeverLost' /\ FreshUntold'
      BY <2>1, <2>2, <2>3 DEF NotifiedAfterSwap, NewestNeverLost, FreshUntold
    <2>. QED  BY <2>1, <2>4 DEF ReloadsLoaded, SwappedActive, ActiveConfigValid
  <1>8. CASE Restart
    <2>1. \A c \in Conn : /\ sock'[c] # "open"
                         /\ queue'[c] = << >> /\ told'[c] = NoVersion /\ due'[c] = NoVersion
      BY <1>8 DEF Restart, Forget
    <2>2. ReloadsLoaded' /\ SwappedActive' /\ ActiveConfigValid'
      BY <1>8 DEF Restart, ReloadsLoaded, SwappedActive, ActiveConfigValid, IdleReload
    <2>. QED  BY <2>1, <2>2 DEF NotifiedAfterSwap, NewestNeverLost, FreshUntold
  <1>. QED
    BY NotifyFrame, <1>1, <1>2, <1>3, <1>4, <1>5, <1>6, <1>7, <1>8 DEF Next

\* No notification is missing at first.
LEMMA NotifyInit == Init => NotifyInv
  BY ServerAssumption DEF Init, NotifyInv, ReloadsLoaded, SwappedActive, FreshUntold,
     ActiveConfigValid, NotifiedAfterSwap, NewestNeverLost, IdleReload

\* Types and notifications together are an invariant of the server.
LEMMA NotifyInductive == Spec => [](TypeOK /\ NotifyInv)
  BY TypeInit, TypeStep, NotifyInit, NotifyStep, PTL DEF Spec

\* No interleaving of concurrent reloads, file edits and restarts makes the
\* server serve a config that did not load and validate.
THEOREM OnlyValidConfigServed == Spec => []ActiveConfigValid
  BY NotifyInductive, PTL DEF NotifyInv

\* A notification never reaches a socket, or its queue, before the config it
\* announces has been active.
THEOREM SwapBeforeNotify == Spec => []NotifiedAfterSwap
  BY NotifyInductive, PTL DEF NotifyInv

\* For every channel capacity, an overflowing receiver loses old
\* notifications only: an open socket always gets the newest one.
THEOREM NewestNotificationKept == Spec => []NewestNeverLost
  BY NotifyInductive, PTL DEF NotifyInv
=============================================================================

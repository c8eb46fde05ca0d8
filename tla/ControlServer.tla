--------------------------- MODULE ControlServer ---------------------------
(***************************************************************************)
(* The control server (talia-control/src/main.rs): the registry of         *)
(* connected agents behind one RwLock, the active control config behind    *)
(* another, one task per agent WebSocket, the broadcast channel that       *)
(* carries config_changed notifications, admin reload requests and agent   *)
(* config requests.  Every handler is split where the code awaits a lock   *)
(* or the network, because that is where other tasks run.                  *)
(*                                                                         *)
(* Abstracted: bearer tokens (a caller without the right one gets 401 and  *)
(* touches nothing), timestamps, agent versions, boot ids and the          *)
(* collectors an agent reports (stored for the admin listing, never read). *)
(***************************************************************************)
EXTENDS Naturals, Sequences

CONSTANTS Agent,          \* agent ids
          Host,           \* hostnames
          Token,          \* per-agent config tokens
          Conn,           \* connection ids; each uuid names one connection
          Reload,         \* admin reload requests that may run concurrently
          Request,        \* agent config requests that may run concurrently
          MaxVersion,     \* bound: how often the config file is edited
          Capacity,       \* broadcast::channel capacity (128 in the code)
          Valid,          \* file versions that parse and validate
          EnrolledHost,   \* EnrolledHost[v][a]: agents[a].hostname in file v
          EnrolledToken,  \* EnrolledToken[v][a]: agents[a].config_token
          NoConn, NoAgent, NoHost, NoToken, NoVersion

Version == 0..MaxVersion

ASSUME ServerAssumption ==
    /\ MaxVersion \in Nat
    /\ Capacity \in Nat \ {0}
    /\ Valid \subseteq Version /\ 0 \in Valid
    /\ EnrolledHost \in [Version -> [Agent -> Host \cup {NoHost}]]
    /\ EnrolledToken \in [Version -> [Agent -> Token \cup {NoToken}]]
    /\ NoConn \notin Conn /\ NoAgent \notin Agent /\ NoHost \notin Host
    /\ NoToken \notin Token /\ NoVersion \notin Version

VARIABLES
    file,       \* the version of the config file on disk
    config,     \* state.config: the version being served
    reload,     \* reload[r]: an admin_config_reload in progress
    sock,       \* sock[c]: "fresh", "open" (in the select loop), "exiting"
                \* (loop left, remove_agent still to run), "gone"
    token,      \* token[c]: config token header of the WebSocket upgrade
    current,    \* current[c]: the task's current_agent_id
    hello,      \* hello[c]: a hello authorised but not yet registered
    sink,       \* sink[c]: "up", or "closed" once the server closed it
    queue,      \* queue[c]: notifications waiting in c's receiver
    lagged,     \* lagged[c]: the receiver overflowed since its last recv
    agents,     \* state.agents: the registry, NoEntry where there is none
    request,    \* request[q]: an agent_config request in progress
    (* History, read by the properties only. *)
    activated,  \* versions that have been the active config
    newest,     \* the newest version a reload (or the start) has loaded
    due, told,  \* per connection: last version broadcast to it / sent to it
    proved,     \* proved[c]: agent ids whose credentials c has shown
    served      \* served[q]: what the last 200 answer of q contained

serverVars == <<file, config, reload>>
connVars   == <<sock, token, current, hello, sink>>
notifyVars == <<queue, lagged, due, told>>
histVars   == <<activated, newest, proved>>
reqVars    == <<request, served>>
vars == <<serverVars, connVars, notifyVars, histVars, agents, reqVars>>

NoEntry  == [conn |-> NoConn, host |-> NoHost]
NoHello  == [agent |-> NoAgent, host |-> NoHost]
IdleReload  == [pc |-> "idle", version |-> NoVersion]
IdleRequest == [pc |-> "idle", agent |-> NoAgent, host |-> NoHost,
                token |-> NoToken, session |-> NoConn]
NoAnswer == [agent |-> NoAgent, host |-> NoHost, session |-> NoConn,
             version |-> NoVersion]

Init ==
    /\ file = 0 /\ config = 0
    /\ reload = [r \in Reload |-> IdleReload]
    /\ sock = [c \in Conn |-> "fresh"]
    /\ token = [c \in Conn |-> NoToken]
    /\ current = [c \in Conn |-> NoAgent]
    /\ hello = [c \in Conn |-> NoHello]
    /\ sink = [c \in Conn |-> "up"]
    /\ queue = [c \in Conn |-> << >>]
    /\ lagged = [c \in Conn |-> FALSE]
    /\ agents = [a \in Agent |-> NoEntry]
    /\ request = [q \in Request |-> IdleRequest]
    /\ activated = {0} /\ newest = 0
    /\ due = [c \in Conn |-> NoVersion]
    /\ told = [c \in Conn |-> NoVersion]
    /\ proved = [c \in Conn |-> {}]
    /\ served = [q \in Request |-> NoAnswer]

(***************************************************************************)
(* Enrolment: the agent id is bound to this hostname, a token was          *)
(* presented and it is the configured one; a blank configured token        *)
(* matches nothing.                                                        *)
(***************************************************************************)
AgentIsEnrolledForHostname(v, a, h) == EnrolledHost[v][a] = h

AgentConfigTokenMatches(v, a, t) == t # NoToken /\ EnrolledToken[v][a] = t

\* Mutant: the enrolled hostname is not compared.
AnyHostCredential(v, a, h, t) == AgentConfigTokenMatches(v, a, t)

AgentHasConfigCredential(v, a, h, t) ==
    AgentIsEnrolledForHostname(v, a, h) /\ AgentConfigTokenMatches(v, a, t)

-----------------------------------------------------------------------------
(* The config file and the admin reload. *)

\* The operator writes a new version of the config file.
EditFile ==
    /\ file < MaxVersion
    /\ file' = file + 1
    /\ UNCHANGED <<config, reload, connVars, notifyVars, histVars, agents, reqVars>>

\* Mutant: the file is not validated.
ReloadLoadUnchecked(r) ==
    /\ reload[r].pc = "idle"
    /\ reload' = [reload EXCEPT ![r] = [pc |-> "loaded", version |-> file]]
    /\ newest' = file
    /\ UNCHANGED <<file, config, connVars, notifyVars, activated, proved, agents, reqVars>>

\* load_control_config: read, parse and validate the file, holding no lock.
\* A file that fails is answered 500 and nothing changes.
ReloadLoad(r) ==
    /\ reload[r].pc = "idle"
    /\ file \in Valid
    /\ reload' = [reload EXCEPT ![r] = [pc |-> "loaded", version |-> file]]
    /\ newest' = file
    /\ UNCHANGED <<file, config, connVars, notifyVars, activated, proved, agents, reqVars>>

\* Mutant: the new config is announced without having been written.
ReloadSwapSkipped(r) ==
    /\ reload[r].pc = "loaded"
    /\ reload' = [reload EXCEPT ![r].pc = "swapped"]
    /\ UNCHANGED <<file, config, connVars, notifyVars, histVars, agents, reqVars>>

\* *state.config.write().await = config
ReloadSwap(r) ==
    /\ reload[r].pc = "loaded"
    /\ config' = reload[r].version
    /\ reload' = [reload EXCEPT ![r].pc = "swapped"]
    /\ activated' = activated \cup {reload[r].version}
    /\ UNCHANGED <<file, connVars, notifyVars, newest, proved, agents, reqVars>>

\* Mutant: a full receiver refuses the new message.
PushedUnlessFull(s, v) == IF Len(s) < Capacity THEN Append(s, v) ELSE s

\* notifications.send: a full receiver loses its oldest message and is
\* marked as lagging.  Every socket that is in its loop is subscribed, also
\* one that has not been registered.
Pushed(s, v) == IF Len(s) < Capacity THEN Append(s, v) ELSE Append(Tail(s), v)

ReloadNotify(r) ==
    LET v == reload[r].version
        subscribed == {c \in Conn : sock[c] = "open"}
    IN  /\ reload[r].pc = "swapped"
        /\ reload' = [reload EXCEPT ![r] = IdleReload]
        /\ queue' = [c \in Conn |-> IF c \in subscribed THEN Pushed(queue[c], v)
                                    ELSE queue[c]]
        /\ lagged' = [c \in Conn |-> \/ lagged[c]
                                     \/ c \in subscribed /\ Len(queue[c]) = Capacity]
        /\ due' = [c \in Conn |-> IF c \in subscribed THEN v ELSE due[c]]
        /\ UNCHANGED <<file, config, connVars, told, histVars, agents, reqVars>>

-----------------------------------------------------------------------------
(* One agent WebSocket. *)

\* agent_control, and run_agent_socket up to its loop: the upgrade captures
\* the config token header and the task subscribes before any hello.
Connect(c, t) ==
    /\ sock[c] = "fresh"
    /\ sock' = [sock EXCEPT ![c] = "open"]
    /\ token' = [token EXCEPT ![c] = t]
    /\ UNCHANGED <<serverVars, current, hello, sink, notifyVars, histVars, agents, reqVars>>

\* The loop is at its select, ready for a message or a notification.
Selecting(c) == sock[c] = "open" /\ hello[c] = NoHello

\* A rejected hello closes the sink.  handle_agent_message still returns Ok,
\* so the loop goes on; it ends here only if closing the sink fails.
Reject(c) ==
    \/ sink' = [sink EXCEPT ![c] = "closed"] /\ UNCHANGED sock
    \/ sock' = [sock EXCEPT ![c] = "exiting"] /\ UNCHANGED sink

\* agent_hello_authorized: checked under the config lock, which is released
\* before the registry is locked.
HelloAuthorize(c, a, h) ==
    /\ Selecting(c)
    /\ AgentHasConfigCredential(config, a, h, token[c])
    /\ hello' = [hello EXCEPT ![c] = [agent |-> a, host |-> h]]
    /\ proved' = [proved EXCEPT ![c] = @ \cup {a}]
    /\ UNCHANGED <<serverVars, sock, token, current, sink, notifyVars,
                   activated, newest, agents, reqVars>>

HelloUnauthorized(c, a, h) ==
    /\ Selecting(c)
    /\ ~ AgentHasConfigCredential(config, a, h, token[c])
    /\ Reject(c)
    /\ UNCHANGED <<serverVars, token, current, hello, notifyVars, histVars, agents, reqVars>>

HelloPending(c) == sock[c] = "open" /\ hello[c] # NoHello

\* Mutant: the latest connection wins.
NeverDuplicate(c) == FALSE

\* Another connection holds this id.
Duplicate(c) == agents[hello[c].agent].conn \notin {c, NoConn}

HelloDuplicate(c) ==
    /\ HelloPending(c)
    /\ Duplicate(c)
    /\ hello' = [hello EXCEPT ![c] = NoHello]
    /\ Reject(c)
    /\ UNCHANGED <<serverVars, token, current, notifyVars, histVars, agents, reqVars>>

\* Mutant: the id c was bound to before stays registered.
RegisteredToo(c, a, h) == [agents EXCEPT ![a] = [conn |-> c, host |-> h]]

\* Mutant: the entry of that id loses its connection but is not removed.
RegisteredBlanked(c, a, h) ==
    [b \in Agent |->
        IF b = a THEN [conn |-> c, host |-> h]
        ELSE IF b = current[c] /\ agents[b].conn = c THEN [agents[b] EXCEPT !.conn = NoConn]
        ELSE agents[b]]

\* The registry after c registers as a: the id c was bound to before, if
\* another and still its own, is removed; a's entry is (over)written.
Registered(c, a, h) ==
    [b \in Agent |->
        IF b = a THEN [conn |-> c, host |-> h]
        ELSE IF b = current[c] /\ agents[b].conn = c THEN NoEntry
        ELSE agents[b]]

\* register_agent_connection under the registry lock, then the hello_ack,
\* whose failure (certain on a closed sink) ends the loop.
HelloRegister(c) ==
    /\ HelloPending(c)
    /\ ~ Duplicate(c)
    /\ agents' = Registered(c, hello[c].agent, hello[c].host)
    /\ current' = [current EXCEPT ![c] = hello[c].agent]
    /\ hello' = [hello EXCEPT ![c] = NoHello]
    /\ \/ sink[c] = "up" /\ UNCHANGED sock
       \/ sock' = [sock EXCEPT ![c] = "exiting"]
    /\ UNCHANGED <<serverVars, token, sink, notifyVars, histVars, reqVars>>

\* A heartbeat for the bound id updates this connection's entry, hostname
\* included; one for another id, or whose entry is missing or not its own,
\* is ignored.
Heartbeat(c, a, h) ==
    /\ Selecting(c)
    /\ current[c] = a
    /\ agents[a].conn = c
    /\ agents' = [agents EXCEPT ![a].host = h]
    /\ UNCHANGED <<serverVars, connVars, notifyVars, histVars, reqVars>>

\* The select loop takes a notification and sends it; a failed send (certain
\* on a closed sink) ends the loop.
Deliver(c) ==
    /\ Selecting(c)
    /\ ~ lagged[c] /\ queue[c] # << >>
    /\ queue' = [queue EXCEPT ![c] = Tail(@)]
    /\ \/ /\ sink[c] = "up"
          /\ told' = [told EXCEPT ![c] = Head(queue[c])]
          /\ UNCHANGED sock
       \/ /\ sock' = [sock EXCEPT ![c] = "exiting"]
          /\ UNCHANGED told
    /\ UNCHANGED <<serverVars, token, current, hello, sink, lagged, due,
                   histVars, agents, reqVars>>

\* RecvError::Lagged is logged; the loop goes on with what is still queued.
Lag(c) ==
    /\ Selecting(c)
    /\ lagged[c]
    /\ lagged' = [lagged EXCEPT ![c] = FALSE]
    /\ UNCHANGED <<serverVars, connVars, queue, due, told, histVars, agents, reqVars>>

\* End of stream, a close frame, a read error or an unparsable message.
SocketEnds(c) ==
    /\ Selecting(c)
    /\ sock' = [sock EXCEPT ![c] = "exiting"]
    /\ UNCHANGED <<serverVars, token, current, hello, sink, notifyVars,
                   histVars, agents, reqVars>>

\* The task's locals and its receiver are dropped with it.
Forget(S) ==
    /\ token' = [c \in Conn |-> IF c \in S THEN NoToken ELSE token[c]]
    /\ current' = [c \in Conn |-> IF c \in S THEN NoAgent ELSE current[c]]
    /\ hello' = [c \in Conn |-> IF c \in S THEN NoHello ELSE hello[c]]
    /\ sink' = [c \in Conn |-> IF c \in S THEN "up" ELSE sink[c]]
    /\ queue' = [c \in Conn |-> IF c \in S THEN << >> ELSE queue[c]]
    /\ lagged' = [c \in Conn |-> c \notin S /\ lagged[c]]
    /\ due' = [c \in Conn |-> IF c \in S THEN NoVersion ELSE due[c]]
    /\ told' = [c \in Conn |-> IF c \in S THEN NoVersion ELSE told[c]]

\* remove_agent, run by handle_agent_socket however the loop ended: only an
\* entry this connection owns is removed.
RemoveAgent(c) ==
    /\ sock[c] = "exiting"
    /\ sock' = [sock EXCEPT ![c] = "gone"]
    /\ agents' = [a \in Agent |-> IF a = current[c] /\ agents[a].conn = c
                                  THEN NoEntry ELSE agents[a]]
    /\ Forget({c})
    /\ UNCHANGED <<serverVars, histVars, reqVars>>

-----------------------------------------------------------------------------
(* Agent config requests. *)

\* Mutant: the session of the request is not compared with the entry's.
RequestSnapshotAnySession(q, a, c, t) ==
    /\ request[q].pc = "idle"
    /\ agents[a].conn # NoConn
    /\ request' = [request EXCEPT ![q] =
                     [pc |-> "snapshot", agent |-> a, host |-> agents[a].host,
                      token |-> t, session |-> c]]
    /\ UNCHANGED <<serverVars, connVars, notifyVars, histVars, agents, served>>

\* connected_agent_for_config: the entry is cloned and the registry lock
\* released.  No entry, or another session: 403 and nothing changes.
RequestSnapshot(q, a, c, t) ==
    /\ request[q].pc = "idle"
    /\ agents[a].conn = c
    /\ request' = [request EXCEPT ![q] =
                     [pc |-> "snapshot", agent |-> a, host |-> agents[a].host,
                      token |-> t, session |-> c]]
    /\ UNCHANGED <<serverVars, connVars, notifyVars, histVars, agents, served>>

\* The credential check against the active config, and the answer.
RequestAnswer(q) ==
    LET r == request[q]
        ok == AgentHasConfigCredential(config, r.agent, r.host, r.token)
    IN  /\ r.pc = "snapshot"
        /\ request' = [request EXCEPT ![q] = IdleRequest]
        /\ served' = IF ok
                     THEN [served EXCEPT ![q] = [agent |-> r.agent, host |-> r.host,
                                                 session |-> r.session,
                                                 version |-> config]]
                     ELSE served
        /\ UNCHANGED <<serverVars, connVars, notifyVars, histVars, agents>>

-----------------------------------------------------------------------------
\* The process is killed and started again: run() loads the file (an invalid
\* one keeps it from starting) and everything in memory is lost.
Restart ==
    /\ file \in Valid
    /\ config' = file /\ activated' = {file} /\ newest' = file
    /\ reload' = [r \in Reload |-> IdleReload]
    /\ sock' = [c \in Conn |-> IF sock[c] = "fresh" THEN "fresh" ELSE "gone"]
    /\ agents' = [a \in Agent |-> NoEntry]
    /\ Forget(Conn)
    /\ request' = [q \in Request |-> IdleRequest]
    /\ UNCHANGED <<file, proved, served>>

Next ==
    \/ EditFile
    \/ \E r \in Reload : ReloadLoad(r) \/ ReloadSwap(r) \/ ReloadNotify(r)
    \/ \E c \in Conn, t \in Token \cup {NoToken} : Connect(c, t)
    \/ \E c \in Conn, a \in Agent, h \in Host :
           \/ HelloAuthorize(c, a, h)
           \/ HelloUnauthorized(c, a, h)
           \/ Heartbeat(c, a, h)
    \/ \E c \in Conn : \/ HelloDuplicate(c) \/ HelloRegister(c)
                       \/ Deliver(c) \/ Lag(c)
                       \/ SocketEnds(c) \/ RemoveAgent(c)
    \/ \E q \in Request, a \in Agent, c \in Conn, t \in Token \cup {NoToken} :
           RequestSnapshot(q, a, c, t)
    \/ \E q \in Request : RequestAnswer(q)
    \/ Restart

Spec == Init /\ [][Next]_vars

-----------------------------------------------------------------------------
(* Properties. *)

\* The shapes of all the state.
ReloadOK == reload \in [Reload -> {IdleReload} \cup
                          [pc : {"loaded", "swapped"}, version : Version]]
ConnOK ==
    /\ sock \in [Conn -> {"fresh", "open", "exiting", "gone"}]
    /\ token \in [Conn -> Token \cup {NoToken}]
    /\ current \in [Conn -> Agent \cup {NoAgent}]
    /\ hello \in [Conn -> {NoHello} \cup [agent : Agent, host : Host]]
    /\ sink \in [Conn -> {"up", "closed"}]
NotifyOK ==
    /\ queue \in [Conn -> Seq(Version)]
    /\ lagged \in [Conn -> BOOLEAN]
    /\ due \in [Conn -> Version \cup {NoVersion}]
    /\ told \in [Conn -> Version \cup {NoVersion}]
RegistryOK ==
    /\ agents \in [Agent -> {NoEntry} \cup [conn : Conn, host : Host]]
    /\ proved \in [Conn -> SUBSET Agent]
RequestOK ==
    /\ request \in [Request -> {IdleRequest} \cup
                       [pc : {"snapshot"}, agent : Agent, host : Host,
                        token : Token \cup {NoToken}, session : Conn]]
    /\ served \in [Request -> {NoAnswer} \cup
                      [agent : Agent, host : Host, session : Conn, version : Version]]
TypeOK ==
    /\ file \in Version /\ config \in Version
    /\ activated \subseteq Version /\ newest \in Version
    /\ ReloadOK /\ ConnOK /\ NotifyOK /\ RegistryOK /\ RequestOK

\* A socket task that has not finished, cleanup included.
Live(c) == sock[c] \in {"open", "exiting"}

\* The registry and the socket tasks agree exactly: an agent id has an entry
\* if and only if one unfinished task is bound to it, and the entry names
\* that task.  So no entry is left behind by a second hello, a rejected hello
\* or a late cleanup, no connection answers for two ids, and the "stale" and
\* "unknown" heartbeat branches are never taken.
RegistryMatchesTasks ==
    \A a \in Agent, c \in Conn :
        agents[a].conn = c <=> Live(c) /\ current[c] = a

\* A reload whose file does not load never reaches the served config, also
\* when the file changes again between the load and the swap.
ActiveConfigValid == config \in Valid

\* A config_changed never overtakes the swap it announces: what is queued for
\* or sent to an open socket has already been the active config, so an agent
\* that fetches on receipt cannot be handed only the config before it.
NotifiedAfterSwap ==
    \A c \in Conn : sock[c] = "open" =>
        /\ \A i \in DOMAIN queue[c] : queue[c][i] \in activated
        /\ told[c] # NoVersion => told[c] \in activated

\* Overflowing the broadcast channel costs an open socket old notifications
\* only: the last one broadcast since it subscribed is the last in its queue,
\* or the queue is empty and it was the last one sent.
NewestNeverLost ==
    \A c \in Conn : sock[c] = "open" =>
        IF queue[c] = << >> THEN told[c] = due[c]
        ELSE queue[c][Len(queue[c])] = due[c]

\* A config is handed out only for a session whose own connection has shown
\* that agent's credentials in a hello, whatever was heartbeated, reloaded or
\* disconnected since and whoever the id is bound to now.
ServedToProvenSession ==
    \A q \in Request : served[q] # NoAnswer =>
        served[q].agent \in proved[served[q].session]

\* The hostname a config is resolved for is the one the config that is served
\* enrols the agent for, although heartbeats rewrite the registered hostname
\* unchecked and reloads change enrolments under running sessions.
ServedForEnrolledHost ==
    \A q \in Request : served[q] # NoAnswer =>
        EnrolledHost[served[q].version][served[q].agent] = served[q].host

\* Registrations behave as exclusive leases (module SessionLease).
Lease == INSTANCE SessionLease
           WITH lease <- [a \in Agent |-> agents[a].conn],
                ended <- {c \in Conn : sock[c] = "gone"}
LeaseSpec == Lease!Spec

\* Once no reload is running, the config being served is the newest one a
\* reload has loaded.
QuiescentConfigIsNewest ==
    (\A r \in Reload : reload[r].pc = "idle") => config = newest
=============================================================================

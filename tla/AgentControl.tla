---------------------------- MODULE AgentControl ----------------------------
(***************************************************************************)
(* The agent's side of the control plane (talia-agent/src/control.rs,      *)
(* local_config.rs, identity.rs, commands/run.rs): the agent id and its    *)
(* file, the WebSocket loop with its backoff, the polling loop, the config *)
(* session id and the running config they share, and last-config.json.     *)
(* Both loops run refresh_remote_config, on a multi-threaded runtime, so a *)
(* refresh is split at every await and at every file operation.            *)
(*                                                                         *)
(* The server and the network are the environment: the server binds at     *)
(* most one session to the agent, answers a config request that carries    *)
(* that session with the config active at that moment, and refuses any     *)
(* other.  What can go wrong there is charged to a budget of faults.       *)
(*                                                                         *)
(* Abstracted: URLs, headers, tokens, heartbeats (they only report) and    *)
(* every config field but the version.                                     *)
(***************************************************************************)
EXTENDS Naturals, Sequences

CONSTANTS MaxVersion,  \* bound: configs the server ever activates
          MaxConn,     \* session ids that can be told apart at one time
          MaxFaults    \* bound: failures of network, server, disk, process

ASSUME AgentAssumption ==
    /\ MaxVersion \in Nat \ {0}
    /\ MaxConn \in Nat /\ MaxConn >= 3
    /\ MaxFaults \in Nat

Version == 1..MaxVersion
Local   == 0               \* the fallback config of the local TOML file
Bad     == MaxVersion + 1  \* a config that decodes but does not validate
Absent  == MaxVersion + 2  \* no last-config.json
Empty   == MaxVersion + 3  \* it is truncated, nothing written yet
Garbage == MaxVersion + 4  \* it is partly written, or two writes overlap
NoSession == 0
Uuid    == 1..2            \* agent ids; two are enough to see one change
NoId    == 0               \* no id: no file, or no process
Blank   == 3               \* the agent-id file was created, nothing written yet
Task == {"ws", "poll"}
Idle == [pc |-> "idle", session |-> NoSession, config |-> Local]

MinBackoff == 5
MaxBackoff == 60

VARIABLES
    up,        \* the agent process is running
    starting,  \* load_or_create_agent_id has created the file and has not written it
    idFile,    \* the agent-id file
    agent_id,  \* identity.agent_id of the process
    known,     \* history: the ids under which the agent has said hello
    shared,    \* shared_config: the version the collectors run
    disk,      \* last-config.json
    session,   \* config_session_id
    task,      \* task[t]: the refresh loop t is in, if any
    ws,        \* control_websocket_loop: "dial", "loop", "ended", "sleep"
    backoff,   \* its reconnect delay, in seconds
    conn,      \* the latest connection, named by its session id
    link,      \* that connection: "down", "up", "closed" or "broken"
    inbox,     \* server messages not yet read from it
    srv,       \* the session the server has bound to this agent
    greeted,   \* the server has handled the hello of the latest connection
    remote,    \* the server's active config
    faults,    \* faults left
    stored,    \* history: some save has completed
    unsaved    \* history: some save has failed

procVars == <<shared, session, task, ws, backoff>>
netVars  == <<conn, link, inbox, srv, greeted, remote>>
histVars == <<stored, unsaved>>
idVars == <<starting, idFile, agent_id, known>>
vars == <<up, idVars, procVars, disk, netVars, faults, histVars>>

Init ==
    /\ up = FALSE /\ starting = FALSE
    /\ idFile = NoId /\ agent_id = NoId /\ known = {}
    /\ shared = Local /\ disk = Absent
    /\ session = NoSession
    /\ task = [t \in Task |-> Idle]
    /\ ws = "dial" /\ backoff = MinBackoff
    /\ conn = 0 /\ link = "down" /\ inbox = << >>
    /\ srv = NoSession /\ greeted = TRUE
    /\ remote = 1
    /\ faults = MaxFaults
    /\ stored = FALSE /\ unsaved = FALSE

Fault == faults > 0 /\ faults' = faults - 1

-----------------------------------------------------------------------------
(* The server and the network. *)

\* A reload activates the next config and notifies the socket if there is one.
ServerReload ==
    /\ remote < MaxVersion
    /\ remote' = remote + 1
    /\ inbox' = IF link = "up" THEN Append(inbox, "changed") ELSE inbox
    /\ UNCHANGED <<up, idVars, procVars, disk, conn, link, srv, greeted, faults, histVars>>

\* The hello is accepted when no session is bound; else it is a duplicate.
ServerAck ==
    /\ link = "up" /\ ~ greeted
    /\ srv = NoSession
    /\ srv' = conn /\ greeted' = TRUE
    /\ inbox' = Append(inbox, "ack")
    /\ UNCHANGED <<up, idVars, procVars, disk, conn, link, remote, faults, histVars>>

ServerReject ==
    /\ link = "up" /\ ~ greeted
    /\ srv # NoSession
    /\ link' = "closed" /\ greeted' = TRUE
    /\ UNCHANGED <<up, idVars, procVars, disk, conn, inbox, srv, remote, faults, histVars>>

\* The server closes the socket in good order, or the connection is lost.
LinkLost ==
    /\ link = "up"
    /\ Fault
    /\ link' \in {"closed", "broken"}
    /\ greeted' = TRUE
    /\ UNCHANGED <<up, idVars, procVars, disk, conn, inbox, srv, remote, histVars>>

\* The server notices that the socket of its session is over.
ServerDrop ==
    /\ srv # NoSession
    /\ srv # conn \/ link # "up"
    /\ srv' = NoSession
    /\ UNCHANGED <<up, idVars, procVars, disk, conn, link, inbox, greeted, remote, faults, histVars>>

-----------------------------------------------------------------------------
(* control_websocket_loop *)

\* A session id nobody remembers stands for a fresh uuid.
FreshConn ==
    LET free == (1..MaxConn) \ {srv, task["poll"].session}
    IN  CHOOSE c \in free : \A d \in free : c <= d

\* connect_async, hello and first heartbeat.
WsConnect ==
    /\ up /\ ws = "dial"
    /\ conn' = FreshConn /\ link' = "up" /\ greeted' = FALSE
    /\ inbox' = << >>
    /\ ws' = "loop"
    /\ known' = known \cup {agent_id}
    /\ UNCHANGED <<up, starting, idFile, agent_id, shared, session, task, backoff, disk, srv, remote, faults, histVars>>

WsConnectFails ==
    /\ up /\ ws = "dial"
    /\ Fault
    /\ ws' = "ended"
    /\ UNCHANGED <<up, idVars, shared, session, task, backoff, disk, netVars, histVars>>

\* The loop reads a message only when it is not inside a handler.
WsReading == up /\ ws = "loop" /\ task["ws"].pc = "idle"

Fetching(s) == [pc |-> "fetch", session |-> s, config |-> Local]

\* hello_ack: remember the session and refresh with it.
WsAck ==
    /\ WsReading /\ inbox # << >> /\ Head(inbox) = "ack"
    /\ inbox' = Tail(inbox)
    /\ session' = conn
    /\ task' = [task EXCEPT !["ws"] = Fetching(conn)]
    /\ UNCHANGED <<up, idVars, shared, ws, backoff, disk, conn, link, srv, greeted, remote,
                   faults, histVars>>

\* config_changed: refresh with the current session, or skip without one.
WsChanged ==
    /\ WsReading /\ inbox # << >> /\ Head(inbox) = "changed"
    /\ inbox' = Tail(inbox)
    /\ task' = IF session = NoSession THEN task
               ELSE [task EXCEPT !["ws"] = Fetching(session)]
    /\ UNCHANGED <<up, idVars, shared, session, ws, backoff, disk, conn, link, srv, greeted,
                   remote, faults, histVars>>

\* End of stream: Ok, the backoff starts over.  A read error, or a heartbeat
\* that cannot be sent, keeps it and drops what has not been read.
WsEnds ==
    /\ WsReading
    /\ \/ link = "closed" /\ inbox = << >> /\ backoff' = MinBackoff
       \/ link \in {"closed", "broken"} /\ backoff' = backoff
    /\ ws' = "ended"
    /\ link' = "down" /\ inbox' = << >>
    /\ UNCHANGED <<up, idVars, shared, session, task, disk, conn, srv, greeted, remote,
                   faults, histVars>>

\* Mutant: the session outlives its connection.
WsForgetNothing ==
    /\ up /\ ws = "ended"
    /\ ws' = "sleep"
    /\ UNCHANGED <<up, idVars, shared, session, task, backoff, disk, netVars, faults, histVars>>

\* *config_session_id.write().await = None, then the sleep.
WsForget ==
    /\ up /\ ws = "ended"
    /\ session' = NoSession
    /\ ws' = "sleep"
    /\ UNCHANGED <<up, idVars, shared, task, backoff, disk, netVars, faults, histVars>>

WsWake ==
    /\ up /\ ws = "sleep"
    /\ backoff' = IF 2 * backoff < MaxBackoff THEN 2 * backoff ELSE MaxBackoff
    /\ ws' = "dial"
    /\ UNCHANGED <<up, idVars, shared, session, task, disk, netVars, faults, histVars>>

-----------------------------------------------------------------------------
(* config_poll_loop: sleep, then refresh with the current session if any. *)

\* Mutant: polling stops once there is a remote config.
PollUntilConfigured ==
    /\ up /\ task["poll"].pc = "idle"
    /\ session # NoSession
    /\ task' = IF shared = Local THEN [task EXCEPT !["poll"] = Fetching(session)] ELSE task
    /\ UNCHANGED <<up, idVars, shared, session, ws, backoff, disk, netVars, faults, histVars>>

PollWake ==
    /\ up /\ task["poll"].pc = "idle"
    /\ session # NoSession
    /\ task' = [task EXCEPT !["poll"] = Fetching(session)]
    /\ UNCHANGED <<up, idVars, shared, session, ws, backoff, disk, netVars, faults, histVars>>

-----------------------------------------------------------------------------
(* refresh_remote_config *)

Step(t, pc) == task[t].pc = pc /\ up

\* The server answers a request that carries its session with what is active
\* now; the answer then travels.
FetchAnswered(t) ==
    /\ Step(t, "fetch")
    /\ srv = task[t].session
    /\ \/ task' = [task EXCEPT ![t].pc = "got", ![t].config = remote] /\ UNCHANGED faults
       \/ Fault /\ task' = [task EXCEPT ![t].pc = "got", ![t].config = Bad]
    /\ UNCHANGED <<up, idVars, shared, session, ws, backoff, disk, netVars, histVars>>

\* 403 for any other session, or a transport error: the config is kept.
FetchFails(t) ==
    /\ Step(t, "fetch")
    /\ \/ srv # task[t].session /\ UNCHANGED faults
       \/ Fault
    /\ task' = [task EXCEPT ![t] = Idle]
    /\ UNCHANGED <<up, idVars, shared, session, ws, backoff, disk, netVars, histVars>>

\* config.validate() fails: the config is kept.
RejectInvalid(t) ==
    /\ Step(t, "got")
    /\ task[t].config = Bad
    /\ task' = [task EXCEPT ![t] = Idle]
    /\ UNCHANGED <<up, idVars, shared, session, ws, backoff, disk, netVars, faults, histVars>>

\* Mutant: the config is stored before it is validated.
SaveOpenUnchecked(t) ==
    /\ Step(t, "got")
    /\ disk' = Empty
    /\ task' = [task EXCEPT ![t].pc = "write"]
    /\ UNCHANGED <<up, idVars, shared, session, ws, backoff, netVars, faults, histVars>>

\* fs::write opens with truncation ...
SaveOpen(t) ==
    /\ Step(t, "got")
    /\ task[t].config # Bad
    /\ disk' = Empty
    /\ task' = [task EXCEPT ![t].pc = "write"]
    /\ UNCHANGED <<up, idVars, shared, session, ws, backoff, netVars, faults, histVars>>

\* ... and writes from the start.  When the other task's write landed after
\* this one's truncation, a longer content leaves its tail behind.
SaveWrite(t) ==
    /\ Step(t, "write")
    /\ disk' \in IF disk \in {Empty, task[t].config} THEN {task[t].config}
                 ELSE {task[t].config, Garbage}
    /\ task' = [task EXCEPT ![t].pc = "apply"]
    /\ stored' = TRUE
    /\ UNCHANGED <<up, idVars, shared, session, ws, backoff, netVars, faults, unsaved>>

\* A failed save, before or after the truncation, is only logged.
SaveFails(t) ==
    /\ \/ Step(t, "got") /\ task[t].config # Bad /\ UNCHANGED disk
       \/ Step(t, "write") /\ disk' = Garbage
    /\ Fault
    /\ task' = [task EXCEPT ![t].pc = "apply"]
    /\ unsaved' = TRUE
    /\ UNCHANGED <<up, idVars, shared, session, ws, backoff, netVars, stored>>

\* *shared_config.write().await = config
Apply(t) ==
    /\ Step(t, "apply")
    /\ shared' = task[t].config
    /\ task' = [task EXCEPT ![t] = Idle]
    /\ UNCHANGED <<up, idVars, session, ws, backoff, disk, netVars, faults, histVars>>

-----------------------------------------------------------------------------
(* The process. *)

\* The process stops.  What it has written is kept: the kernel lives on (a host
\* that loses its power may lose files that were never synced as well).
Crash ==
    /\ up
    /\ Fault
    /\ up' = FALSE /\ agent_id' = NoId
    /\ task' = [t \in Task |-> Idle]
    /\ session' = NoSession /\ ws' = "dial" /\ backoff' = MinBackoff
    /\ link' = "down" /\ inbox' = << >> /\ greeted' = TRUE
    /\ UNCHANGED <<starting, idFile, known, shared, disk, conn, srv, remote, histVars>>

\* execute: a last-config.json that reads, parses and validates wins over
\* the local fallback.
LoadLastKnown == IF disk \in Version THEN disk ELSE Local

\* execute with an agent id: the process runs.
Launch(id) ==
    /\ up' = TRUE /\ starting' = FALSE
    /\ agent_id' = id
    /\ shared' = LoadLastKnown
    /\ UNCHANGED <<known, disk, session, task, ws, backoff, netVars, histVars>>

\* A uuid the agent has not used before.
FreshId == CHOOSE id \in Uuid : id \notin known

\* load_or_create_agent_id finds an id.
Start ==
    /\ ~ up /\ ~ starting
    /\ idFile \in Uuid
    /\ Launch(idFile)
    /\ UNCHANGED <<idFile, faults>>

\* EmptyAgentId: the start fails, and so does every later one.
StartRefused ==
    /\ ~ up /\ ~ starting
    /\ idFile = Blank
    /\ UNCHANGED vars

\* There is no file: write_agent_id_file creates it with create_new ...
CreateId ==
    /\ ~ up /\ ~ starting
    /\ idFile = NoId
    /\ idFile' = Blank /\ starting' = TRUE
    /\ UNCHANGED <<up, agent_id, known, procVars, disk, netVars, faults, histVars>>

\* ... and writes the new id.
WriteId ==
    /\ starting
    /\ idFile' = FreshId
    /\ Launch(FreshId)
    /\ UNCHANGED faults

\* Mutant: an id that could not be written is used all the same.
WriteIdLogged ==
    /\ starting /\ Fault
    /\ Launch(FreshId)
    /\ UNCHANGED idFile

\* The id cannot be written, or the process stops before it is.
WriteIdFails ==
    /\ starting /\ Fault
    /\ starting' = FALSE
    /\ UNCHANGED <<up, idFile, agent_id, known, procVars, disk, netVars, histVars>>

Server == ServerReload \/ ServerAck \/ ServerReject \/ LinkLost \/ ServerDrop
Ws == WsConnect \/ WsConnectFails \/ WsAck \/ WsChanged \/ WsEnds \/ WsForget \/ WsWake
Store(t) == RejectInvalid(t) \/ SaveOpen(t) \/ SaveWrite(t) \/ SaveFails(t) \/ Apply(t)
Refresh(t) == FetchAnswered(t) \/ FetchFails(t) \/ Store(t)

Identify == Start \/ StartRefused \/ CreateId \/ WriteId \/ WriteIdFails

Next == Server \/ Ws \/ PollWake \/ (\E t \in Task : Refresh(t)) \/ Crash \/ Identify

(***************************************************************************)
(* Fairness: what the agent's own runtime and its service manager give.    *)
(* Both loops are polled, timers fire, file operations return, an end of   *)
(* the socket is seen (the loop sends heartbeats), and a stopped agent is  *)
(* started again.  Nothing is assumed of the peer: neither a request nor a *)
(* dial has a timeout, and the server has no keepalive.  Reloads and       *)
(* faults need not happen.                                                 *)
(***************************************************************************)
Fairness ==
    /\ WF_vars(WsAck \/ WsChanged)
    /\ WF_vars(WsEnds) /\ WF_vars(WsForget) /\ WF_vars(WsWake)
    /\ WF_vars(PollWake)
    /\ \A t \in Task : WF_vars(Store(t))
    /\ WF_vars(Identify)

Spec == Init /\ [][Next]_vars
FairSpec == Spec /\ Fairness

-----------------------------------------------------------------------------
(* Properties. *)

\* Whatever fails in whichever of the two tasks, the agent never runs and
\* never stores a config that did not validate: the last-known-good config is
\* replaced by another good one only.
OnlyGoodConfig ==
    /\ shared # Bad /\ disk # Bad
    /\ \A t \in Task : task[t].pc \in {"write", "apply"} => task[t].config \in Version

\* The session the polling loop may use is never one of an earlier
\* connection, and outlives its own connection only until the WebSocket loop
\* has cleaned up.
SessionOfThisConnection ==
    session # NoSession => session = conn /\ ws \in {"loop", "ended"}

\* What the code leaves to its peer, to the network and to the operating
\* system: no request and no dial hangs for ever, the server gets to every hello,
\* and it notices in the end that a socket is over.
RequestsEnd == \A t \in Task : []<>(task[t].pc # "fetch")
DialsEnd == []<>(~ up \/ ws # "dial")
HellosHandled == []<>(greeted \/ link # "up")
DeadSocketsNoticed == []<>(srv = NoSession \/ (srv = conn /\ link = "up"))

\* Reloads and faults being finite here, and if the peer behaves as above, the
\* agent ends up running the server's active config for good, although an answer
\* fetched before a reload may be applied after it, notifications may come before
\* the session is known and be skipped, and connections may be refused or lost.
\* One thing stops it: an agent-id file that was created and never written.
Converges ==
    RequestsEnd /\ DialsEnd /\ HellosHandled /\ DeadSocketsNoticed
        => <>[](shared = remote \/ idFile = Blank)

\* Across crashes, restarts and failed writes the agent says hello under one id
\* only, the one that is in its file: the control server's enrolment and its
\* sessions are keyed by it (load_or_create_agent_id).
StableAgentId == known \subseteq {idFile}

\* README: "On fetch failure or invalid config, the agent keeps the
\* last-known-good config", stored in last-config.json: once a config has been
\* stored and no save has failed, a restart finds one.
LastKnownGoodSurvives == stored /\ ~ up /\ ~ unsaved => LoadLastKnown # Local
=============================================================================

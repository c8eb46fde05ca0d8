---------------------------- MODULE SessionLease ----------------------------
(***************************************************************************)
(* What the control server promises about agent registrations, without its *)
(* sockets, handlers and locks: an agent id is leased to at most one       *)
(* connection, a connection leases at most one agent id, a lease is never  *)
(* taken from its holder by somebody else, and a connection that has ended *)
(* never holds or takes a lease again.                                     *)
(***************************************************************************)
CONSTANTS Agent,    \* agent ids
          Conn,     \* WebSocket connection ids (fresh uuids)
          NoConn    \* "nobody"

VARIABLES lease,    \* lease[a]: the connection agent id a is bound to
          ended     \* connections that are over for good

vars == <<lease, ended>>

Init ==
    /\ lease = [a \in Agent |-> NoConn]
    /\ ended = {}

\* c takes the free id a and gives up any other id it holds.
Acquire(c, a) ==
    /\ c \notin ended
    /\ lease[a] = NoConn
    /\ lease' = [b \in Agent |-> IF b = a THEN c
                                 ELSE IF lease[b] = c THEN NoConn
                                 ELSE lease[b]]
    /\ UNCHANGED ended

\* The connections of S end together with everything they hold.
End(S) ==
    /\ ended' = ended \cup S
    /\ lease' = [a \in Agent |-> IF lease[a] \in S THEN NoConn ELSE lease[a]]

Next ==
    \/ \E c \in Conn, a \in Agent : Acquire(c, a)
    \/ \E S \in SUBSET Conn : End(S)

Spec == Init /\ [][Next]_vars

TypeOK ==
    /\ lease \in [Agent -> Conn \cup {NoConn}]
    /\ ended \subseteq Conn

\* No connection holds two ids, and an ended connection holds none.
Exclusive ==
    /\ \A a, b \in Agent : lease[a] # NoConn /\ lease[a] = lease[b] => a = b
    /\ \A a \in Agent : lease[a] \notin ended
=============================================================================

--------------------------- MODULE RuntimeConfig ---------------------------
(***************************************************************************)
(* The settings of talia-core/src/config.rs as values: what a runtime      *)
(* config holds, when it is valid, how partial tables complete each other, *)
(* and what both programs derive from a config.                            *)
(*                                                                         *)
(* A table of a TOML or JSON file is a function from section names to      *)
(* records that hold only the fields the file mentions.  A mount list is   *)
(* the set of its paths.  The version that a config carries, a digest of   *)
(* its host and settings, is left out.                                     *)
(***************************************************************************)
EXTENDS Integers, Sequences, FiniteSets

CONSTANTS
    AbsolutePath,   \* the mount paths that begin with a slash
    BlankSocket     \* the socket selections that are empty once trimmed

\* What the defaults name passes validation.
ASSUME DefaultNames == "/" \in AbsolutePath /\ "all" \notin BlankSocket

----------------------------------------------------------------------------
(* The sections: the Default impl of each, and its validate.               *)

AgentDefault ==
    [config_poll_interval_seconds |-> 900, heartbeat_interval_seconds |-> 60]

AgentValid(c) ==
    c.config_poll_interval_seconds > 0 /\ c.heartbeat_interval_seconds > 0

StorageDefault == [enabled |-> TRUE, interval_seconds |-> 60, mounts |-> {"/"}]

\* The mounts are looked at even when the collector is disabled.
StorageValid(c) ==
    /\ c.interval_seconds > 0
    /\ c.enabled => c.mounts # {}
    /\ c.mounts \subseteq AbsolutePath

MemoryDefault == [enabled |-> TRUE, interval_seconds |-> 60]
MemoryValid(c) == c.interval_seconds > 0

CpuDefault == [enabled |-> FALSE, interval_seconds |-> 1]
CpuValid(c) == c.interval_seconds > 0

NetworkDefault == [enabled |-> FALSE, interval_seconds |-> 1]
NetworkValid(c) == c.interval_seconds > 0

DiskIoDefault == [enabled |-> FALSE, interval_seconds |-> 1]
DiskIoValid(c) == c.interval_seconds > 0

PodDiscoveryDefault == [cri_socket |-> "all"]
PodDiscoveryValid(c) == c.cri_socket \notin BlankSocket

TcpDefault == [enabled |-> FALSE, interval_seconds |-> 15]
TcpValid(c) == c.interval_seconds > 0

\* AgentRuntimeConfig::default, without its version.
Default ==
    [agent |-> AgentDefault, storage |-> StorageDefault, memory |-> MemoryDefault,
     cpu |-> CpuDefault, network |-> NetworkDefault, disk_io |-> DiskIoDefault,
     pod_discovery |-> PodDiscoveryDefault, tcp |-> TcpDefault]

\* AgentRuntimeConfig::validate.
Valid(r) ==
    /\ AgentValid(r.agent)
    /\ StorageValid(r.storage)
    /\ MemoryValid(r.memory)
    /\ CpuValid(r.cpu)
    /\ NetworkValid(r.network)
    /\ DiskIoValid(r.disk_io)
    /\ PodDiscoveryValid(r.pod_discovery)
    /\ TcpValid(r.tcp)

Section == DOMAIN Default

----------------------------------------------------------------------------
(* Reading a table.                                                        *)

\* Both files accept the section tcp under its former name; a file that has
\* both names does not parse.
TableParses(t) == ~ {"tcp", "tcp_pod_retrans"} \subseteq DOMAIN t

Renamed(t) ==
    [s \in {IF n = "tcp_pod_retrans" THEN "tcp" ELSE n : n \in DOMAIN t} |->
        IF s \in DOMAIN t THEN t[s] ELSE t["tcp_pod_retrans"]]

\* Mutant: memory collection has the type's default.
SerdeDefaultPlain ==
    [agent |-> AgentDefault, storage |-> StorageDefault,
     memory |-> [enabled |-> FALSE, interval_seconds |-> 60],
     cpu |-> CpuDefault, network |-> NetworkDefault, disk_io |-> DiskIoDefault,
     pod_discovery |-> PodDiscoveryDefault, tcp |-> TcpDefault]

\* What serde puts in place of a field that a mentioned section lacks: the
\* default_* functions, and the type's own default (false) for the collectors
\* that are off unless asked for.
SerdeDefault ==
    [agent |-> [config_poll_interval_seconds |-> 900, heartbeat_interval_seconds |-> 60],
     storage |-> [enabled |-> TRUE, interval_seconds |-> 60, mounts |-> {"/"}],
     memory |-> [enabled |-> TRUE, interval_seconds |-> 60],
     cpu |-> [enabled |-> FALSE, interval_seconds |-> 1],
     network |-> [enabled |-> FALSE, interval_seconds |-> 1],
     disk_io |-> [enabled |-> FALSE, interval_seconds |-> 1],
     pod_discovery |-> [cri_socket |-> "all"],
     tcp |-> [enabled |-> FALSE, interval_seconds |-> 15]]

\* What f says, and g where f says nothing.
Over(f, g) == [x \in DOMAIN f \cup DOMAIN g |-> IF x \in DOMAIN f THEN f[x] ELSE g[x]]

\* The runtime settings of a local bootstrap file: a section that is absent is
\* its Default, one that is present is completed field by field.
FallbackRuntimeConfig(t) ==
    [s \in Section |-> IF s \in DOMAIN t THEN Over(t[s], SerdeDefault[s]) ELSE Default[s]]

\* The apply_to of every section: a field the override mentions replaces.
SectionApply(o, c) == Over(o, c)

\* HostConfigOverride::apply_to.
ApplyTo(o, r) ==
    [s \in Section |-> IF s \in DOMAIN o THEN SectionApply(o[s], r[s]) ELSE r[s]]

----------------------------------------------------------------------------
(* The control file: defaults, and one override per host it names.         *)

\* The settings that runtime_config_for resolves for a host; it is an error if
\* they are not Valid.
RuntimeConfigFor(f, h) ==
    LET r == ApplyTo(f.defaults, Default) IN
    IF h \in DOMAIN f.hosts THEN ApplyTo(f.hosts[h], r) ELSE r

----------------------------------------------------------------------------
(* The control URLs of the bootstrap file.  An authority is a sequence of   *)
(* tokens: host names and the characters that the two functions look for.  *)

\* The tokens of s before the first c.
Before(s, c) ==
    SubSeq(s, 1, CHOOSE n \in 0..Len(s) :
        /\ \A i \in 1..n : s[i] # c
        /\ n = Len(s) \/ s[n + 1] = c)

\* Mutant: user information is not looked for.
LoopbackBeforeColon(a) ==
    IF a # <<>> /\ Head(a) = "["
    THEN Before(Tail(a), "]") \in {<<"localhost">>, <<"127.0.0.1">>, <<"::1">>}
    ELSE Before(a, ":") \in {<<"localhost">>, <<"127.0.0.1">>}

\* plaintext_url_is_loopback.  An unbracketed ::1 is cut at its first colon.
PlaintextUrlIsLoopback(a) ==
    /\ \A i \in DOMAIN a : a[i] # "@"
    /\ IF a # <<>> /\ Head(a) = "["
       THEN Before(Tail(a), "]") \in {<<"localhost">>, <<"127.0.0.1">>, <<"::1">>}
       ELSE Before(a, ":") \in {<<"localhost">>, <<"127.0.0.1">>}

\* validate_control_url.
ControlUrlValid(scheme, authority, allow_insecure) ==
    \/ scheme = "secure"
    \/ scheme = "plain" /\ (allow_insecure \/ PlaintextUrlIsLoopback(authority))

----------------------------------------------------------------------------
\* Mutant: the offset can be one more.
JitteredOneMore(base, hash) ==
    LET spread == base \div 10 IN (base - spread) + (hash % (spread * 2 + 2))

\* jittered_interval of the config poll, for an agent whose id hashes to hash.
JitteredInterval(base, hash) ==
    LET spread == base \div 10 IN
    IF spread = 0 THEN base ELSE (base - spread) + (hash % (spread * 2 + 1))
============================================================================

--------------------------- MODULE ControlConfig ---------------------------
(***************************************************************************)
(* The two programs that turn files into runtime settings.                 *)
(*                                                                         *)
(* talia-control reads a file of defaults and host blocks at its start and *)
(* at every reload, and answers the config requests of its agents.  The    *)
(* commands of talia-agent read a local bootstrap file and apply the --set *)
(* assignments of one provider to it, one after the other.  They share the *)
(* operators of RuntimeConfig and no state: a behaviour is a life of one   *)
(* of them.  ControlServer has the interleavings of reloads and requests;  *)
(* this module has what the files mean.                                    *)
(***************************************************************************)
EXTENDS RuntimeConfig

CONSTANTS
    Host,        \* hostnames that agents report
    Blocked,     \* the names that a control file may have a block for
    Table,       \* the tables an operator writes: defaults, host blocks, bootstrap files
    Broken,      \* a file that cannot be read or parsed
    Nothing,     \* no answer yet, no value
    Provider,    \* the provider names of collector_specs
    Assignment,  \* --set KEY=VALUE: [key : Seq(names), value : a field's value]
    MaxSet,      \* how many assignments a command has
    Authority,   \* authorities of control URLs, as token sequences
    Hash         \* values of fnv1a64 over agent ids

\* Poll intervals and hashes are unsigned integers; an authority is a sequence.
ASSUME ValueTypes ==
    /\ \A t \in Table : "agent" \in DOMAIN t =>
           \A field \in DOMAIN t["agent"] : t["agent"][field] \in Nat
    /\ Hash \subseteq Nat
    /\ \A a \in Authority : a \in Seq(STRING)

VARIABLES
    program,   \* which program this is
    file,      \* talia-control: the config file as it stands on disk
    active,    \* talia-control: AppState::config
    command    \* talia-agent: the state of with_provider_overrides

vars == <<program, file, active, command>>

\* The blocks of a control file.  BTreeMap<String, _> takes any name, the empty
\* one too.
Blocks == UNION {[D -> Table] : D \in SUBSET Blocked}

FileParses(f) ==
    /\ f # Broken
    /\ TableParses(f.defaults)
    /\ \A h \in DOMAIN f.hosts : TableParses(f.hosts[h])

Parsed(f) == [defaults |-> Renamed(f.defaults),
              hosts |-> [h \in DOMAIN f.hosts |-> Renamed(f.hosts[h])]]

\* ControlConfigFile::default.
EmptyFile == [defaults |-> <<>>, hosts |-> <<>>]

\* Mutant: only the blocks are resolved.
BlocksValid(c) == \A h \in DOMAIN c.hosts : Valid(RuntimeConfigFor(c, h))

\* validate_runtime_configs: the hostless config and the one of every block.
RuntimeConfigsValid(c) ==
    \A h \in {""} \cup DOMAIN c.hosts : Valid(RuntimeConfigFor(c, h))

\* What a command of talia-agent knows: the control URL it checks, the table it
\* read, the settings before and after --set.
Idle == [at |-> "start", url |-> Nothing, provider |-> Nothing, table |-> <<>>,
         loaded |-> Default, config |-> Default, set |-> 0]

Init ==
    /\ program \in {"talia-control", "talia-agent"}
    /\ file = EmptyFile
    /\ active = EmptyFile
    /\ command = Idle

----------------------------------------------------------------------------
(* talia-control.                                                          *)

\* The operator rewrites the defaults or the blocks, breaks the file or starts anew.
EditFile ==
    /\ program = "talia-control"
    /\ file' \in IF file = Broken THEN {EmptyFile}
                 ELSE {[file EXCEPT !.defaults = t] : t \in Table}
                      \cup {[file EXCEPT !.hosts = b] : b \in Blocks} \cup {Broken}
    /\ UNCHANGED <<program, active, command>>

\* admin_config_reload: load_control_config, then the swap; a file that does
\* not load leaves the active config alone.
Reload ==
    /\ program = "talia-control"
    /\ active' = IF FileParses(file) /\ RuntimeConfigsValid(Parsed(file))
                 THEN Parsed(file) ELSE active
    /\ UNCHANGED <<program, file, command>>

\* agent_config for a request that passed its checks: the host's config, or an
\* internal server error.  It leaves the state as it is.
Answer(h) ==
    LET runtime == RuntimeConfigFor(active, h) IN
    IF Valid(runtime) THEN [status |-> 200, settings |-> runtime]
                      ELSE [status |-> 500, settings |-> Nothing]

----------------------------------------------------------------------------
(* talia-agent: providers config show and the start of collect.            *)

Failed == [Idle EXCEPT !.at = "failed"]

\* AgentBootstrapConfig::validate looks at the control URLs first; one stands
\* for the two.
Url == [scheme : {"secure", "plain", "other"}, authority : Authority, allow_insecure : BOOLEAN]

CheckUrl ==
    /\ program = "talia-agent"
    /\ command.at = "start"
    /\ \E url \in Url :
        command' = IF ControlUrlValid(url.scheme, url.authority, url.allow_insecure)
                   THEN [Idle EXCEPT !.at = "urls", !.url = url]
                   ELSE Failed
    /\ UNCHANGED <<program, file, active>>

\* The rest of load_bootstrap_config, and collector_spec: the command goes on
\* with the fallback settings of the file, or fails.
LoadFallback(t, p) ==
    LET fallback == FallbackRuntimeConfig(Renamed(t)) IN
    /\ program = "talia-agent"
    /\ command.at = "urls"
    /\ command' = IF TableParses(t) /\ Valid(fallback) /\ p \in Provider
                  THEN [Idle EXCEPT !.at = "set", !.provider = p, !.table = t,
                                    !.loaded = fallback, !.config = fallback]
                  ELSE Failed
    /\ UNCHANGED <<program, file, active>>

\* Mutant: any section can be named.
AnySection(p, key) == IF Head(key) \in Section THEN Head(key) ELSE p

\* The section an assignment goes to: the key may name the provider's own,
\* or for tcp the shared discovery settings.
AssignedSection(p, key) ==
    IF Head(key) = p \/ (p = "tcp" /\ Head(key) = "pod_discovery") THEN Head(key) ELSE p

AssignedFields(p, key) ==
    IF Head(key) = AssignedSection(p, key) THEN Tail(key) ELSE key

\* One turn of the loop over --set.  A field that is not in the section, and
\* a path that goes on below a field, are errors.  A value of the wrong type is
\* an error as well, found when the settings are read back; it is left out.
Assign(a) ==
    LET s == AssignedSection(command.provider, a.key)
        fields == AssignedFields(command.provider, a.key)
    IN  /\ program = "talia-agent"
        /\ command.at = "set"
        /\ command.set < MaxSet
        /\ command' =
            IF Len(fields) = 1 /\ fields[1] \in DOMAIN command.config[s]
            THEN [command EXCEPT !.config[s][fields[1]] = a.value, !.set = @ + 1]
            ELSE Failed
        /\ UNCHANGED <<program, file, active>>

\* The settings go back through serde and validate; the command prints or uses them.
Finish ==
    /\ program = "talia-agent"
    /\ command.at = "set"
    /\ command' = IF Valid(command.config) THEN [command EXCEPT !.at = "done"] ELSE Failed
    /\ UNCHANGED <<program, file, active>>

\* The sections that providers config show prints for a provider.
Shown(p) == {p} \cup (IF p = "tcp" THEN {"pod_discovery"} ELSE {})

\* The settings that providers describe lists as accepted by --set.
Described(p) ==
    UNION {{<<s, field>> : field \in DOMAIN Default[s]} : s \in Shown(p)}

\* The command has printed or failed.
Exited ==
    /\ command.at \in {"done", "failed"}
    /\ UNCHANGED vars

Next ==
    \/ EditFile
    \/ Reload
    \/ CheckUrl
    \/ \E t \in Table, p \in Provider \cup {Nothing} : LoadFallback(t, p)
    \/ \E a \in Assignment : Assign(a)
    \/ Finish
    \/ Exited

Spec == Init /\ [][Next]_vars

----------------------------------------------------------------------------
(* Properties.                                                             *)

Answered(answer) == answer.status = 200

\* What validate_runtime_configs accepts is what agent_config will find later,
\* for every host that has a block, also one whose block is fine alone and not on
\* top of the defaults; and for all the others, unless the file has a block for
\* the empty hostname: that block is merged into what is checked as the
\* defaults, and hosts without a block may then be answered 500.
AcceptedFileServesItsHosts ==
    \A h \in Host :
        h \in DOMAIN active.hosts \/ "" \notin DOMAIN active.hosts => Answered(Answer(h))

\* config_poll_loop waits what jittered_interval makes of any config the agent
\* may be given: never zero, and within a tenth of the configured interval.
PollSpreadBounded ==
    \A h \in Host : Answered(Answer(h)) =>
        \A hash \in Hash :
            LET base == Answer(h).settings.agent.config_poll_interval_seconds
                wait == JitteredInterval(base, hash)
            IN  wait >= 1 /\ 9 * base <= 10 * wait /\ 10 * wait <= 11 * base

\* A table means the same in the agent's bootstrap file, completed by serde's
\* field defaults, as in the defaults of the control file, applied over the
\* Default impls: validation and settings are identical on both sides.
LocalMatchesRemote ==
    command.at \in {"set", "done"} =>
        command.loaded = RuntimeConfigFor([defaults |-> Renamed(command.table), hosts |-> <<>>], "")

\* However many --set assignments a command has, and whatever section names
\* their keys begin with, with_provider_overrides changes nothing but settings
\* that describe lists and show prints for the selected provider: for tcp those
\* of pod discovery too, for the others only their own.
SetStaysInSection ==
    \A s \in Section : \A field \in DOMAIN Default[s] :
        command.config[s][field] # command.loaded[s][field] =>
            s \in Shown(command.provider) /\ <<s, field>> \in Described(command.provider)

\* The host that a URL parser connects to: behind the last @, in brackets or
\* before the port.  Nothing for what is no URL.
RealHost(a) ==
    LET afterAt == CHOOSE n \in 0..Len(a) :
            /\ n = 0 \/ a[n] = "@"
            /\ \A i \in (n + 1)..Len(a) : a[i] # "@"
        rest == SubSeq(a, afterAt + 1, Len(a))
    IN  IF rest = <<>> THEN Nothing
        ELSE IF rest[1] = "["
        THEN IF Len(rest) >= 3 /\ rest[2] = "::1" /\ rest[3] = "]"
                 /\ (Len(rest) = 3 \/ rest[4] = ":")
             THEN "::1" ELSE Nothing
        ELSE IF Len(rest) = 1 \/ rest[2] = ":" THEN rest[1] ELSE "other"

\* A bootstrap file that passes validate_control_url without the explicit
\* permission never sends the agent's credentials in the clear to another
\* host: plaintext_url_is_loopback agrees with what a URL parser connects to.
PlaintextStaysLocal ==
    command.at = "urls" /\ command.url.scheme # "secure" /\ ~ command.url.allow_insecure =>
        RealHost(command.url.authority) \in {"localhost", "127.0.0.1", "::1", Nothing}
============================================================================

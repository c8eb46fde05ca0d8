------------------------ MODULE ControlConfigProofs ------------------------
(***************************************************************************)
(* Proofs about what config files mean, for any tables, hosts, assignments *)
(* and authorities: a file that talia-control accepts serves its hosts,    *)
(* poll intervals stay near the configured one, a table means the same on  *)
(* both sides, --set stays in its section, and plain-text URLs that pass   *)
(* are local.                                                              *)
(***************************************************************************)
EXTENDS ControlConfig, NaturalsInduction, WellFoundedInduction, TLAPS

-----------------------------------------------------------------------------
(* Resolving a file. *)

\* The sections by name.
LEMMA Sections ==
    Section = {"agent", "storage", "memory", "cpu", "network", "disk_io", "pod_discovery", "tcp"}
  BY DEF Section, Default

\* The settings that nobody overrides are valid.
LEMMA DefaultValid == Valid([s \in Section |-> Default[s]])
  <1>1. /\ AgentValid(AgentDefault) /\ StorageValid(StorageDefault) /\ MemoryValid(MemoryDefault)
        /\ CpuValid(CpuDefault) /\ NetworkValid(NetworkDefault) /\ DiskIoValid(DiskIoDefault)
        /\ PodDiscoveryValid(PodDiscoveryDefault) /\ TcpValid(TcpDefault)
    BY DefaultNames
       DEF AgentValid, AgentDefault, StorageValid, StorageDefault, MemoryValid, MemoryDefault,
           CpuValid, CpuDefault, NetworkValid, NetworkDefault, DiskIoValid, DiskIoDefault,
           PodDiscoveryValid, PodDiscoveryDefault, TcpValid, TcpDefault
  <1>2. /\ Default.agent = AgentDefault /\ Default.storage = StorageDefault
        /\ Default.memory = MemoryDefault /\ Default.cpu = CpuDefault
        /\ Default.network = NetworkDefault /\ Default.disk_io = DiskIoDefault
        /\ Default.pod_discovery = PodDiscoveryDefault /\ Default.tcp = TcpDefault
    BY DEF Default
  <1>. HIDE DEF Default
  <1>. QED  BY <1>1, <1>2, Sections DEF Valid

\* A file that validates has valid settings for its hosts: the others get what
\* the empty hostname gets.
LEMMA ValidServes ==
    ASSUME NEW f, RuntimeConfigsValid(f), NEW h,
           h \in DOMAIN f.hosts \/ "" \notin DOMAIN f.hosts
    PROVE  Valid(RuntimeConfigFor(f, h))
  <1>1. CASE h \in DOMAIN f.hosts
    BY <1>1 DEF RuntimeConfigsValid
  <1>2. CASE h \notin DOMAIN f.hosts
    <2>1. RuntimeConfigFor(f, h) = RuntimeConfigFor(f, "")
      BY <1>2 DEF RuntimeConfigFor
    <2>. QED  BY <2>1 DEF RuntimeConfigsValid
  <1>. QED  BY <1>1, <1>2

-----------------------------------------------------------------------------
(* talia-control. *)

\* A file that parses has its two tables; what is active has been validated.
ServeInv ==
    /\ file = Broken \/ DOMAIN file = {"defaults", "hosts"}
    /\ RuntimeConfigsValid(active)

\* The empty config that talia-control starts with without a file is valid.
LEMMA EmptyFileServes == RuntimeConfigsValid(EmptyFile)
  <1>1. DOMAIN EmptyFile.hosts = {} /\ DOMAIN EmptyFile.defaults = {}
    BY DEF EmptyFile
  <1>2. \A h : RuntimeConfigFor(EmptyFile, h) = [s \in Section |-> Default[s]]
    BY <1>1 DEF RuntimeConfigFor, ApplyTo
  <1>. QED  BY <1>1, <1>2, DefaultValid DEF RuntimeConfigsValid

\* The first state.
LEMMA ServeInit == Init => ServeInv
  <1>. SUFFICES ASSUME Init PROVE ServeInv
    OBVIOUS
  <1>1. file = EmptyFile /\ active = EmptyFile
    BY DEF Init
  <1>2. DOMAIN file = {"defaults", "hosts"}
    BY <1>1 DEF EmptyFile
  <1>. QED  BY <1>1, <1>2, EmptyFileServes DEF ServeInv

\* The invariant is inductive.
LEMMA ServeStep == ServeInv /\ [Next]_vars => ServeInv'
  <1>. SUFFICES ASSUME ServeInv, [Next]_vars PROVE ServeInv'
    OBVIOUS
  <1>1. CASE EditFile
    <2>1. file' = Broken \/ DOMAIN file' = {"defaults", "hosts"}
      <3>1. CASE file = Broken
        <4>1. file' = EmptyFile
          BY <1>1, <3>1 DEF EditFile
        <4>. QED  BY <4>1 DEF EmptyFile
      <3>2. CASE file # Broken
        BY <1>1, <3>2 DEF EditFile, ServeInv
      <3>. QED  BY <3>1, <3>2
    <2>. QED  BY <1>1, <2>1 DEF EditFile, ServeInv, RuntimeConfigsValid
  <1>2. CASE Reload
    <2>1. RuntimeConfigsValid(active')
      BY <1>2 DEF Reload, ServeInv
    <2>2. RuntimeConfigsValid(active)'
      BY <2>1 DEF RuntimeConfigsValid
    <2>. QED  BY <1>2, <2>2 DEF Reload, ServeInv
  <1>3. CASE UNCHANGED <<file, active>>
    BY <1>3 DEF ServeInv, RuntimeConfigsValid
  <1>4. EditFile \/ Reload \/ UNCHANGED <<file, active>>
    BY DEF Next, CheckUrl, LoadFallback, Assign, Finish, Exited, vars
  <1>. QED  BY <1>1, <1>2, <1>3, <1>4

\* What one request is answered.
LEMMA AnswerIsValid ==
    ASSUME NEW h
    PROVE  /\ Answered(Answer(h)) <=> Valid(RuntimeConfigFor(active, h))
           /\ Answered(Answer(h)) => Answer(h).settings = RuntimeConfigFor(active, h)
  BY DEF Answer, Answered

\* What validate_runtime_configs accepts is valid for every host with a block that
\* may ask agent_config, and for those without one unless the empty hostname
\* has one.
THEOREM AcceptedFilesServe == Spec => []AcceptedFileServesItsHosts
  <1>1. ServeInv => AcceptedFileServesItsHosts
    BY ValidServes, AnswerIsValid DEF ServeInv, AcceptedFileServesItsHosts
  <1>. QED  BY <1>1, ServeInit, ServeStep, PTL DEF Spec

-----------------------------------------------------------------------------
(* Poll intervals. *)

\* The values of the agent section of a table.
AgentNat(t) ==
    "agent" \in DOMAIN t => \A field \in DOMAIN t["agent"] : t["agent"][field] \in Nat

Poll == "config_poll_interval_seconds"

\* Settings with a poll interval.
PollNat(r) == Poll \in DOMAIN r["agent"] /\ r["agent"][Poll] \in Nat

\* Files and what is active have intervals that are numbers.
PollInv ==
    /\ file # Broken => /\ AgentNat(file.defaults)
                        /\ \A h \in DOMAIN file.hosts : AgentNat(file.hosts[h])
    /\ AgentNat(active.defaults)
    /\ \A h \in DOMAIN active.hosts : AgentNat(active.hosts[h])

\* Reading the former name of a section leaves the agent section alone.
LEMMA RenamedNat ==
    ASSUME NEW t, AgentNat(t)
    PROVE  AgentNat(Renamed(t))
  <1>. SUFFICES ASSUME "agent" \in DOMAIN Renamed(t),
                       NEW field \in DOMAIN Renamed(t)["agent"]
                PROVE  Renamed(t)["agent"][field] \in Nat
    BY DEF AgentNat
  <1>1. "agent" \in DOMAIN t
    BY DEF Renamed
  <1>2. Renamed(t)["agent"] = t["agent"]
    BY <1>1 DEF Renamed
  <1>. QED  BY <1>1, <1>2 DEF AgentNat

\* An override applied over settings gives settings.
LEMMA ApplyNat ==
    ASSUME NEW o, AgentNat(o), NEW r, PollNat(r)
    PROVE  PollNat(ApplyTo(o, r))
  <1>1. "agent" \in Section
    BY Sections
  <1>2. ApplyTo(o, r)["agent"] =
            IF "agent" \in DOMAIN o THEN Over(o["agent"], r["agent"]) ELSE r["agent"]
    BY <1>1 DEF ApplyTo, SectionApply
  <1>3. CASE "agent" \in DOMAIN o
    <2>1. Poll \in DOMAIN Over(o["agent"], r["agent"])
      BY DEF Over, PollNat
    <2>2. Over(o["agent"], r["agent"])[Poll] \in Nat
      BY <1>3, <2>1 DEF Over, PollNat, AgentNat
    <2>. QED  BY <1>2, <1>3, <2>1, <2>2 DEF PollNat
  <1>4. CASE "agent" \notin DOMAIN o
    BY <1>2, <1>4 DEF PollNat
  <1>. QED  BY <1>3, <1>4

\* So the settings of any host of a file do.
LEMMA ResolvedNat ==
    ASSUME NEW f, NEW h, AgentNat(f.defaults), \A g \in DOMAIN f.hosts : AgentNat(f.hosts[g])
    PROVE  PollNat(RuntimeConfigFor(f, h))
  <1>1. PollNat(Default)
    BY DEF PollNat, Default, AgentDefault, Poll
  <1>2. PollNat(ApplyTo(f.defaults, Default))
    BY <1>1, ApplyNat
  <1>3. h \in DOMAIN f.hosts => PollNat(ApplyTo(f.hosts[h], ApplyTo(f.defaults, Default)))
    BY <1>2, ApplyNat
  <1>. QED  BY <1>2, <1>3 DEF RuntimeConfigFor

\* The first state.
LEMMA PollInit == Init => PollInv
  <1>. SUFFICES ASSUME Init PROVE PollInv
    OBVIOUS
  <1>1. file = EmptyFile /\ active = EmptyFile
    BY DEF Init
  <1>2. AgentNat(EmptyFile.defaults) /\ DOMAIN EmptyFile.hosts = {}
    BY DEF EmptyFile, AgentNat
  <1>. QED  BY <1>1, <1>2 DEF PollInv

\* The invariant is inductive, on top of what requests are answered.
LEMMA PollStep == ServeInv /\ PollInv /\ [Next]_vars => PollInv'
  <1>. SUFFICES ASSUME ServeInv, PollInv, [Next]_vars PROVE PollInv'
    OBVIOUS
  <1>1. CASE EditFile
    <2>1. \A t \in Table : AgentNat(t)
      BY ValueTypes DEF AgentNat
    <2>2. ASSUME file' # Broken
          PROVE  AgentNat(file'.defaults) /\ \A h \in DOMAIN file'.hosts : AgentNat(file'.hosts[h])
      <3>1. CASE file = Broken
        <4>1. file' = EmptyFile
          BY <1>1, <3>1 DEF EditFile
        <4>. QED  BY <4>1 DEF EmptyFile, AgentNat
      <3>2. CASE file # Broken
        <4>1. DOMAIN file = {"defaults", "hosts"}
          BY <3>2 DEF ServeInv
        <4>2. ASSUME NEW t \in Table, file' = [file EXCEPT !.defaults = t]
              PROVE  file'.defaults = t /\ file'.hosts = file.hosts
          BY <4>1, <4>2
        <4>3. ASSUME NEW b \in Blocks, file' = [file EXCEPT !.hosts = b]
              PROVE  /\ file'.defaults = file.defaults /\ file'.hosts = b
                     /\ \A h \in DOMAIN b : AgentNat(b[h])
          <5>1. \A h \in DOMAIN b : b[h] \in Table
            BY DEF Blocks
          <5>. QED  BY <2>1, <4>1, <4>3, <5>1
        <4>. QED  BY <1>1, <2>1, <2>2, <3>2, <4>2, <4>3 DEF EditFile, PollInv
      <3>. QED  BY <3>1, <3>2
    <2>. QED  BY <1>1, <2>2 DEF EditFile, PollInv
  <1>2. CASE Reload
    <2>1. CASE active' = active
      BY <1>2, <2>1 DEF Reload, PollInv
    <2>2. CASE FileParses(file) /\ active' = Parsed(file)
      <3>1. AgentNat(file.defaults) /\ \A h \in DOMAIN file.hosts : AgentNat(file.hosts[h])
        BY <2>2 DEF FileParses, PollInv
      <3>2. /\ active'.defaults = Renamed(file.defaults) /\ DOMAIN active'.hosts = DOMAIN file.hosts
            /\ \A h \in DOMAIN file.hosts : active'.hosts[h] = Renamed(file.hosts[h])
        BY <2>2 DEF Parsed
      <3>3. AgentNat(active'.defaults) /\ \A h \in DOMAIN active'.hosts : AgentNat(active'.hosts[h])
        BY <3>1, <3>2, RenamedNat
      <3>. QED  BY <1>2, <3>3 DEF Reload, PollInv
    <2>. QED  BY <1>2, <2>1, <2>2 DEF Reload
  <1>3. CASE UNCHANGED <<file, active>>
    BY <1>3 DEF PollInv
  <1>4. EditFile \/ Reload \/ UNCHANGED <<file, active>>
    BY DEF Next, CheckUrl, LoadFallback, Assign, Finish, Exited, vars
  <1>. QED  BY <1>1, <1>2, <1>3, <1>4

\* jittered_interval stays within a tenth of the interval and above zero.
LEMMA JitterBounds ==
    ASSUME NEW base \in Nat, base > 0, NEW hash \in Nat
    PROVE  /\ JitteredInterval(base, hash) >= 1
           /\ 9 * base <= 10 * JitteredInterval(base, hash)
           /\ 10 * JitteredInterval(base, hash) <= 11 * base
  <1>. DEFINE spread == base \div 10
              offset == hash % (spread * 2 + 1)
  <1>1. spread \in Nat /\ 10 * spread <= base
    OBVIOUS
  <1>2. JitteredInterval(base, hash) = IF spread = 0 THEN base ELSE (base - spread) + offset
    BY DEF JitteredInterval
  <1>3. offset \in 0..(2 * spread)
    <2>. HIDE DEF spread
    <2>1. spread * 2 + 1 \in Nat \ {0}
      BY <1>1
    <2>2. \A m \in Nat \ {0} : hash % m \in 0..(m - 1)
      OBVIOUS
    <2>3. offset \in 0..((spread * 2 + 1) - 1)
      BY <2>1, <2>2
    <2>. QED  BY <1>1, <2>3
  <1>. HIDE DEF spread, offset
  <1>. QED  BY <1>1, <1>2, <1>3

\* Whatever config an agent is given, config_poll_loop waits at least a second
\* and within a tenth of the interval of that config, for any agent id.
THEOREM PollIntervalsSpread == Spec => []PollSpreadBounded
  <1>1. PollInv => PollSpreadBounded
    <2>. SUFFICES ASSUME PollInv, NEW h \in Host, Answered(Answer(h)), NEW hash \in Hash
                  PROVE  LET base == Answer(h).settings.agent.config_poll_interval_seconds
                             wait == JitteredInterval(base, hash)
                         IN  wait >= 1 /\ 9 * base <= 10 * wait /\ 10 * wait <= 11 * base
      BY DEF PollSpreadBounded
    <2>1. /\ Answer(h).settings.agent.config_poll_interval_seconds \in Nat
          /\ Answer(h).settings.agent.config_poll_interval_seconds > 0
      <3>1. PollNat(RuntimeConfigFor(active, h))
        BY ResolvedNat DEF PollInv
      <3>2. Valid(RuntimeConfigFor(active, h)) /\ Answer(h).settings = RuntimeConfigFor(active, h)
        BY AnswerIsValid
      <3>. QED  BY <3>1, <3>2 DEF PollNat, Poll, Valid, AgentValid
    <2>2. hash \in Nat
      BY ValueTypes
    <2>. QED  BY <2>1, <2>2, JitterBounds
  <1>. QED  BY <1>1, ServeInit, ServeStep, PollInit, PollStep, PTL DEF Spec

-----------------------------------------------------------------------------
(* The commands of talia-agent. *)

\* A command keeps the settings it has loaded, with a value for every section.
CommandInv ==
    /\ DOMAIN command = {"at", "url", "provider", "table", "loaded", "config", "set"}
    /\ DOMAIN command.config = Section
    /\ LocalMatchesRemote
    /\ \A s \in Section : command.config[s] # command.loaded[s] => s \in Shown(command.provider)
    /\ command.at = "urls" =>
           /\ command.url.authority \in Authority
           /\ ControlUrlValid(command.url.scheme, command.url.authority,
                              command.url.allow_insecure)

\* The defaults of serde are those of the Default impls.
LEMMA SerdeIsDefault == SerdeDefault = Default
  BY DEF SerdeDefault, Default, AgentDefault, StorageDefault, MemoryDefault, CpuDefault,
         NetworkDefault, DiskIoDefault, PodDiscoveryDefault, TcpDefault

\* So a table means the same in both files.
LEMMA FallbackIsResolved ==
    ASSUME NEW t
    PROVE  FallbackRuntimeConfig(t) = RuntimeConfigFor([defaults |-> t, hosts |-> <<>>], "")
  <1>1. "" \notin DOMAIN [defaults |-> t, hosts |-> <<>>].hosts
    OBVIOUS
  <1>2. RuntimeConfigFor([defaults |-> t, hosts |-> <<>>], "") = ApplyTo(t, Default)
    BY <1>1 DEF RuntimeConfigFor
  <1>3. FallbackRuntimeConfig(t) = ApplyTo(t, Default)
    BY SerdeIsDefault DEF FallbackRuntimeConfig, ApplyTo, SectionApply
  <1>. QED  BY <1>2, <1>3

\* A command that has loaded nothing.
LEMMA Unloaded ==
    /\ DOMAIN Idle = {"at", "url", "provider", "table", "loaded", "config", "set"}
    /\ Idle.at = "start" /\ Idle.config = Default /\ Idle.loaded = Default
    /\ DOMAIN Failed = DOMAIN Idle
    /\ Failed.at = "failed" /\ Failed.config = Default /\ Failed.loaded = Default
    /\ DOMAIN Default = Section
  BY DEF Idle, Failed, Section

\* The first state.
LEMMA CommandInit == Init => CommandInv
  <1>. SUFFICES ASSUME Init PROVE CommandInv
    OBVIOUS
  <1>1. command = Idle
    BY DEF Init
  <1>. QED  BY <1>1, Unloaded DEF CommandInv, LocalMatchesRemote

\* The invariant is inductive.
LEMMA CommandStep == CommandInv /\ [Next]_vars => CommandInv'
  <1>. SUFFICES ASSUME CommandInv, [Next]_vars PROVE CommandInv'
    OBVIOUS
  <1>1. CASE command' = Failed
    BY <1>1, Unloaded DEF CommandInv, LocalMatchesRemote
  <1>2. ASSUME NEW url \in Url, command' = [Idle EXCEPT !.at = "urls", !.url = url],
               ControlUrlValid(url.scheme, url.authority, url.allow_insecure)
        PROVE  CommandInv'
    <2>1. /\ command'.at = "urls" /\ command'.url = url
          /\ command'.config = Default /\ command'.loaded = Default
          /\ DOMAIN command' = DOMAIN Idle
      BY <1>2 DEF Idle
    <2>2. url.authority \in Authority
      BY DEF Url
    <2>. QED  BY <1>2, <2>1, <2>2, Unloaded DEF CommandInv, LocalMatchesRemote
  <1>3. CASE CheckUrl
    BY <1>1, <1>2, <1>3 DEF CheckUrl
  <1>4. ASSUME NEW t \in Table, NEW p, LoadFallback(t, p) PROVE CommandInv'
    <2>. DEFINE fallback == FallbackRuntimeConfig(Renamed(t))
    <2>1. CASE command' = [Idle EXCEPT !.at = "set", !.provider = p, !.table = t,
                                       !.loaded = fallback, !.config = fallback]
      <3>1. /\ command'.at = "set" /\ command'.table = t
            /\ command'.loaded = fallback /\ command'.config = fallback
            /\ DOMAIN command' = DOMAIN Idle
        BY <2>1 DEF Idle
      <3>2. DOMAIN fallback = Section
        BY DEF FallbackRuntimeConfig
      <3>3. fallback = RuntimeConfigFor([defaults |-> Renamed(t), hosts |-> <<>>], "")
        BY FallbackIsResolved
      <3>. HIDE DEF fallback
      <3>. QED  BY <3>1, <3>2, <3>3, Unloaded DEF CommandInv, LocalMatchesRemote
    <2>. QED  BY <1>1, <1>4, <2>1 DEF LoadFallback
  <1>5. ASSUME NEW a \in Assignment, Assign(a) PROVE CommandInv'
    <2>. DEFINE s == AssignedSection(command.provider, a.key)
                field == AssignedFields(command.provider, a.key)[1]
                new == [command EXCEPT !.config[s][field] = a.value, !.set = @ + 1]
    <2>1. CASE command' = new
      <3>1. /\ DOMAIN command' = DOMAIN command
            /\ command'.at = command.at /\ command'.table = command.table
            /\ command'.loaded = command.loaded /\ command'.provider = command.provider
            /\ command'.config = [command.config EXCEPT ![s][field] = a.value]
        BY <2>1 DEF CommandInv
      <3>2. DOMAIN command'.config = Section
        BY <3>1 DEF CommandInv
      <3>3. \A r \in Section : r # s => command'.config[r] = command.config[r]
        BY <3>1 DEF CommandInv
      <3>4. s \in Shown(command.provider)
        BY DEF AssignedSection, Shown
      <3>5. command.at = "set"
        BY <1>5 DEF Assign
      <3>. HIDE DEF s, field
      <3>6. \A r \in Section : command'.config[r] # command'.loaded[r] => r \in Shown(command'.provider)
        BY <3>1, <3>3, <3>4 DEF CommandInv
      <3>7. LocalMatchesRemote'
        BY <3>1, <3>5 DEF CommandInv, LocalMatchesRemote
      <3>. QED  BY <3>1, <3>2, <3>5, <3>6, <3>7 DEF CommandInv
    <2>. QED  BY <1>1, <1>5, <2>1 DEF Assign
  <1>6. CASE Finish
    <2>1. CASE command' = [command EXCEPT !.at = "done"]
      <3>1. /\ DOMAIN command' = DOMAIN command
            /\ command'.at = "done" /\ command'.table = command.table
            /\ command'.loaded = command.loaded /\ command'.provider = command.provider
            /\ command'.config = command.config
        BY <2>1 DEF CommandInv
      <3>2. command.at = "set"
        BY <1>6 DEF Finish
      <3>. QED  BY <3>1, <3>2 DEF CommandInv, LocalMatchesRemote
    <2>. QED  BY <1>1, <1>6, <2>1 DEF Finish
  <1>7. CASE UNCHANGED command
    BY <1>7 DEF CommandInv, LocalMatchesRemote
  <1>8. \/ UNCHANGED command \/ CheckUrl \/ Finish
        \/ \E t \in Table, p \in Provider \cup {Nothing} : LoadFallback(t, p)
        \/ \E a \in Assignment : Assign(a)
    BY DEF Next, EditFile, Reload, Exited, vars
  <1>. QED  BY <1>3, <1>4, <1>5, <1>6, <1>7, <1>8

\* fallback_runtime_config gives a bootstrap table the meaning that
\* runtime_config_for gives the same table in a control file.
THEOREM TablesMeanTheSame == Spec => []LocalMatchesRemote
  <1>1. CommandInv => LocalMatchesRemote
    BY DEF CommandInv
  <1>. QED  BY <1>1, CommandInit, CommandStep, PTL DEF Spec

\* Any number of --set assignments changes settings of the sections only that
\* describe lists and show prints for the provider.
THEOREM AssignmentsStayInSection == Spec => []SetStaysInSection
  <1>1. CommandInv => SetStaysInSection
    <2>. SUFFICES ASSUME CommandInv, NEW s \in Section, NEW field \in DOMAIN Default[s],
                         command.config[s][field] # command.loaded[s][field]
                  PROVE  s \in Shown(command.provider) /\ <<s, field>> \in Described(command.provider)
      BY DEF SetStaysInSection
    <2>1. s \in Shown(command.provider)
      BY DEF CommandInv
    <2>2. <<s, field>> \in {<<s, g>> : g \in DOMAIN Default[s]}
      OBVIOUS
    <2>. QED  BY <2>1, <2>2 DEF Described
  <1>. QED  BY <1>1, CommandInit, CommandStep, PTL DEF Spec

-----------------------------------------------------------------------------
(* Plain-text URLs. *)

\* A set of numbers has a lowest.
LEMMA NatLowest ==
    ASSUME NEW B \in SUBSET Nat, B # {}
    PROVE  \E m \in B : \A i \in B : m <= i
  <1>. DEFINE R == {p \in Nat \X Nat : p[1] < p[2]}
  <1>1. IsWellFoundedOn(R, Nat)
    BY NatLessThanWellFounded DEF OpToRel
  <1>2. \A i, m \in Nat : <<i, m>> \in R <=> i < m
    OBVIOUS
  <1>. HIDE DEF R
  <1>3. PICK m \in B : \A i \in B : ~ (<<i, m>> \in R)
    BY <1>1, WFMin
  <1>4. ASSUME NEW i \in B PROVE m <= i
    <2>1. i \in Nat /\ m \in Nat
      OBVIOUS
    <2>2. ~ (i < m)
      BY <1>2, <1>3, <2>1
    <2>. QED  BY <2>1, <2>2
  <1>. QED  BY <1>4

\* The tokens before the first c are a prefix that c, or the end, follows.
LEMMA BeforeIsPrefix ==
    ASSUME NEW T, NEW a \in Seq(T), NEW c
    PROVE  \E n \in 0..Len(a) : /\ Before(a, c) = SubSeq(a, 1, n)
                                /\ n = Len(a) \/ a[n + 1] = c
  <1>. DEFINE P(n) == /\ \A i \in 1..n : a[i] # c
                      /\ n = Len(a) \/ a[n + 1] = c
              B == {i \in 1..Len(a) : a[i] = c}
  <1>1. \E n \in 0..Len(a) : P(n)
    <2>1. CASE B = {}
      <3>1. P(Len(a)) /\ Len(a) \in 0..Len(a)
        BY <2>1
      <3>. QED  BY <3>1
    <2>2. CASE B # {}
      <3>1. PICK m \in B : \A i \in B : m <= i
        <4>1. B \in SUBSET Nat
          OBVIOUS
        <4>. HIDE DEF B
        <4>. QED  BY <2>2, <4>1, NatLowest
      <3>2. P(m - 1) /\ m - 1 \in 0..Len(a)
        BY <3>1
      <3>. QED  BY <3>2
    <2>. QED  BY <2>1, <2>2
  <1>. DEFINE n == CHOOSE n \in 0..Len(a) : P(n)
  <1>2. n \in 0..Len(a) /\ P(n)
    BY <1>1
  <1>3. Before(a, c) = SubSeq(a, 1, n)
    BY DEF Before
  <1>. HIDE DEF n
  <1>. QED  BY <1>2, <1>3

\* Without user information the whole authority is host and port.
LEMMA RealHostWithoutAt ==
    ASSUME NEW T, NEW a \in Seq(T), \A i \in DOMAIN a : a[i] # "@"
    PROVE  RealHost(a) =
               IF a = <<>> THEN Nothing
               ELSE IF a[1] = "["
               THEN IF Len(a) >= 3 /\ a[2] = "::1" /\ a[3] = "]" /\ (Len(a) = 3 \/ a[4] = ":")
                    THEN "::1" ELSE Nothing
               ELSE IF Len(a) = 1 \/ a[2] = ":" THEN a[1] ELSE "other"
  <1>. DEFINE afterAt == CHOOSE n \in 0..Len(a) :
                  /\ n = 0 \/ a[n] = "@"
                  /\ \A i \in (n + 1)..Len(a) : a[i] # "@"
              rest == SubSeq(a, afterAt + 1, Len(a))
  <1>1. afterAt = 0
    <2>1. Len(a) \in Nat /\ DOMAIN a = 1..Len(a)
      OBVIOUS
    <2>2. ASSUME NEW n \in 0..Len(a)
          PROVE  (/\ n = 0 \/ a[n] = "@"
                  /\ \A i \in (n + 1)..Len(a) : a[i] # "@") <=> n = 0
      BY <2>1
    <2>. QED  BY <2>1, <2>2
  <1>2. rest = a
    <2>. HIDE DEF afterAt
    <2>1. SubSeq(a, 1, Len(a)) = a
      OBVIOUS
    <2>. QED  BY <1>1, <2>1
  <1>3. RealHost(a) =
            IF rest = <<>> THEN Nothing
            ELSE IF rest[1] = "["
            THEN IF Len(rest) >= 3 /\ rest[2] = "::1" /\ rest[3] = "]"
                     /\ (Len(rest) = 3 \/ rest[4] = ":")
                 THEN "::1" ELSE Nothing
            ELSE IF Len(rest) = 1 \/ rest[2] = ":" THEN rest[1] ELSE "other"
    BY DEF RealHost
  <1>. HIDE DEF rest
  <1>. QED  BY <1>2, <1>3, Zenon

\* What plaintext_url_is_loopback lets pass is the host connected to.
LEMMA LoopbackIsLocal ==
    ASSUME NEW T, NEW a \in Seq(T), PlaintextUrlIsLoopback(a)
    PROVE  RealHost(a) \in {"localhost", "127.0.0.1", "::1", Nothing}
  <1>1. \A i \in DOMAIN a : a[i] # "@"
    BY DEF PlaintextUrlIsLoopback
  <1>2. RealHost(a) =
            IF a = <<>> THEN Nothing
            ELSE IF a[1] = "["
            THEN IF Len(a) >= 3 /\ a[2] = "::1" /\ a[3] = "]" /\ (Len(a) = 3 \/ a[4] = ":")
                 THEN "::1" ELSE Nothing
            ELSE IF Len(a) = 1 \/ a[2] = ":" THEN a[1] ELSE "other"
    BY <1>1, RealHostWithoutAt
  <1>3. CASE a = <<>> \/ a[1] = "["
    BY <1>2, <1>3
  <1>4. CASE a # <<>> /\ a[1] # "["
    <2>1. Before(a, ":") = <<"localhost">> \/ Before(a, ":") = <<"127.0.0.1">>
      BY <1>4 DEF PlaintextUrlIsLoopback
    <2>2. PICK n \in 0..Len(a) : Before(a, ":") = SubSeq(a, 1, n) /\ (n = Len(a) \/ a[n + 1] = ":")
      BY BeforeIsPrefix
    <2>3. Len(Before(a, ":")) = n /\ (n >= 1 => Before(a, ":")[1] = a[1])
      BY <2>2
    <2>4. Len(Before(a, ":")) = 1 /\ Before(a, ":")[1] \in {"localhost", "127.0.0.1"}
      BY <2>1
    <2>5. n = 1 /\ a[1] \in {"localhost", "127.0.0.1"}
      <3>1. n = 1
        BY <2>3, <2>4
      <3>2. n >= 1
        BY <3>1
      <3>. QED  BY <2>3, <2>4, <3>1, <3>2
    <2>6. Len(a) = 1 \/ a[2] = ":"
      BY <2>2, <2>5
    <2>. QED  BY <1>2, <1>4, <2>5, <2>6
  <1>. QED  BY <1>3, <1>4

\* For any authority: a bootstrap file that validate_control_url lets pass
\* without allow_insecure sends credentials in plain text to this host only.
THEOREM PlaintextIsLoopback == Spec => []PlaintextStaysLocal
  <1>1. CommandInv => PlaintextStaysLocal
    <2>. SUFFICES ASSUME CommandInv, command.at = "urls", command.url.scheme # "secure",
                         ~ command.url.allow_insecure
                  PROVE  RealHost(command.url.authority) \in {"localhost", "127.0.0.1", "::1", Nothing}
      BY DEF PlaintextStaysLocal
    <2>1. command.url.authority \in Authority /\ PlaintextUrlIsLoopback(command.url.authority)
      BY DEF CommandInv, ControlUrlValid
    <2>2. command.url.authority \in Seq(STRING)
      BY <2>1, ValueTypes
    <2>. QED  BY <2>1, <2>2, LoopbackIsLocal
  <1>. QED  BY <1>1, CommandInit, CommandStep, PTL DEF Spec
============================================================================

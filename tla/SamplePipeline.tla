--------------------------- MODULE SamplePipeline ---------------------------
(***************************************************************************)
(* The samples of the providers, the processors they pass and the OTLP     *)
(* instruments they end in.  A name is the sequence of its dotted parts;   *)
(* of a value, the kind (SampleValue) decides where it goes.               *)
(***************************************************************************)
EXTENDS Sequences, SequencesExt

Gauge(path) == [name |-> path, kind |-> "GaugeU64"]
GaugeI64(path) == [name |-> path, kind |-> "GaugeI64"]
GaugeF64(path) == [name |-> path, kind |-> "GaugeF64"]
Counter(path) == [name |-> path, kind |-> "Counter"]

\* How the names begin.
fs == <<"system", "filesystem">>
mem == <<"system", "memory">>
swap == <<"system", "linux", "memory", "swap">>
disk == <<"system", "disk">>
tcp == <<"system", "network", "tcp">>

\* memory_samples.
MemorySamples ==
    {Gauge(mem \o <<"usage">>),
     GaugeF64(mem \o <<"utilization">>),
     Gauge(swap \o <<"usage">>),
     GaugeF64(swap \o <<"utilization">>),
     Counter(swap \o <<"io">>)}

\* filesystem_samples.
StorageSamples ==
    {Gauge(fs \o <<"limit">>),
     Gauge(fs \o <<"usage">>),
     GaugeF64(fs \o <<"utilization">>)}

\* cpu_samples.
CpuSamples == {GaugeF64(<<"system", "cpu", "utilization">>)}

\* Mutant: the growth of the byte counter is sent as a gauge.
NetworkSamplesGauge == {Gauge(<<"system", "network", "io">>)}

\* network_sample.
NetworkSamples == {Counter(<<"system", "network", "io">>)}

\* disk_io_samples; there is no latency without an operation.
DiskIoSamples(latency) ==
    {Counter(disk \o <<"io">>),
     Counter(disk \o <<"operations">>),
     Counter(disk \o <<"errors">>),
     GaugeI64(disk \o <<"io", "queue_depth">>),
     GaugeI64(disk \o <<"io", "in_flight">>)}
    \cup (IF latency THEN {GaugeF64(disk \o <<"io", "latency">>)} ELSE {})

\* The samples of one pod: the deltas are missing when its baseline is new.
TcpSamples(deltas) ==
    {Gauge(tcp \o <<"connections", "established">>)}
    \cup (IF deltas THEN {Counter(tcp \o <<"retransmits">>),
                          Counter(tcp \o <<"segments", "sent">>),
                          Counter(tcp \o <<"segments", "received">>),
                          Counter(tcp \o <<"timeouts">>),
                          Counter(tcp \o <<"fast_retransmits">>)} ELSE {})

----------------------------------------------------------------------------
\* NameFilter::process: a sample is kept if its name begins with one of the
\* prefixes (here they end at a dot), or if there is none.
Keeps(prefixes, sample) == prefixes = {} \/ \E p \in prefixes : IsPrefix(p, sample.name)

\* process_sample over the chain that collect builds: no processor, or one filter.
Processed(samples, prefixes) == {s \in samples : Keeps(prefixes, s)}

\* OtlpSink::new: the instruments, with the name and the kind of each.
Built ==
    [filesystem_usage |-> Gauge(fs \o <<"usage">>),
     filesystem_limit |-> Gauge(fs \o <<"limit">>),
     filesystem_utilization |-> GaugeF64(fs \o <<"utilization">>),
     memory_usage |-> Gauge(mem \o <<"usage">>),
     memory_utilization |-> GaugeF64(mem \o <<"utilization">>),
     swap_usage |-> Gauge(swap \o <<"usage">>),
     swap_utilization |-> GaugeF64(swap \o <<"utilization">>),
     swap_io |-> Counter(swap \o <<"io">>),
     cpu_utilization |-> GaugeF64(<<"system", "cpu", "utilization">>),
     network_io |-> Counter(<<"system", "network", "io">>),
     disk_io |-> Counter(disk \o <<"io">>),
     disk_operations |-> Counter(disk \o <<"operations">>),
     disk_errors |-> Counter(disk \o <<"errors">>),
     disk_latency |-> GaugeF64(disk \o <<"io", "latency">>),
     disk_queue_depth |-> GaugeI64(disk \o <<"io", "queue_depth">>),
     disk_in_flight_bytes |-> GaugeI64(disk \o <<"io", "in_flight">>),
     tcp_retransmits |-> Counter(tcp \o <<"retransmits">>),
     tcp_segments_sent |-> Counter(tcp \o <<"segments", "sent">>),
     tcp_segments_received |-> Counter(tcp \o <<"segments", "received">>),
     tcp_timeouts |-> Counter(tcp \o <<"timeouts">>),
     tcp_fast_retransmits |-> Counter(tcp \o <<"fast_retransmits">>),
     tcp_established |-> Gauge(tcp \o <<"connections", "established">>)]

\* OtlpSink::emit: the arms of its match, each with the instrument it records in.
Arms ==
    {<<Gauge(fs \o <<"limit">>), "filesystem_limit">>,
     <<Gauge(fs \o <<"usage">>), "filesystem_usage">>,
     <<GaugeF64(fs \o <<"utilization">>), "filesystem_utilization">>,
     <<Gauge(mem \o <<"usage">>), "memory_usage">>,
     <<GaugeF64(mem \o <<"utilization">>), "memory_utilization">>,
     <<Gauge(swap \o <<"usage">>), "swap_usage">>,
     <<GaugeF64(swap \o <<"utilization">>), "swap_utilization">>,
     <<Counter(swap \o <<"io">>), "swap_io">>,
     <<GaugeF64(<<"system", "cpu", "utilization">>), "cpu_utilization">>,
     <<Counter(<<"system", "network", "io">>), "network_io">>,
     <<Counter(disk \o <<"io">>), "disk_io">>,
     <<Counter(disk \o <<"operations">>), "disk_operations">>,
     <<Counter(disk \o <<"errors">>), "disk_errors">>,
     <<GaugeF64(disk \o <<"io", "latency">>), "disk_latency">>,
     <<GaugeI64(disk \o <<"io", "queue_depth">>), "disk_queue_depth">>,
     <<GaugeI64(disk \o <<"io", "in_flight">>), "disk_in_flight_bytes">>,
     <<Counter(tcp \o <<"retransmits">>), "tcp_retransmits">>,
     <<Counter(tcp \o <<"segments", "sent">>), "tcp_segments_sent">>,
     <<Counter(tcp \o <<"segments", "received">>), "tcp_segments_received">>,
     <<Counter(tcp \o <<"timeouts">>), "tcp_timeouts">>,
     <<Counter(tcp \o <<"fast_retransmits">>), "tcp_fast_retransmits">>,
     <<Gauge(tcp \o <<"connections", "established">>), "tcp_established">>}

\* What OtlpSink::emit records of a sample; one that no arm matches is dropped.
Recorded(sample) == {Built[arm[2]] : arm \in {a \in Arms : a[1] = sample}}
============================================================================

-------------------------- MODULE MCControlConfig --------------------------
(* Values for the constants of ControlConfig.                              *)
EXTENDS ControlConfig

\* Tables that are valid alone, invalid alone, and invalid only together.
MCTable ==
    {<<>>,
     [storage |-> [enabled |-> FALSE, mounts |-> {}]],
     [storage |-> [enabled |-> TRUE]],
     [storage |-> [mounts |-> {"data"}], memory |-> [interval_seconds |-> 5]],
     [agent |-> [config_poll_interval_seconds |-> 19], memory |-> [interval_seconds |-> 10],
      tcp_pod_retrans |-> [enabled |-> TRUE]],
     [tcp |-> [interval_seconds |-> 0], agent |-> [config_poll_interval_seconds |-> 9]],
     [tcp |-> [enabled |-> TRUE, interval_seconds |-> 1], pod_discovery |-> [cri_socket |-> "first"],
      cpu |-> [enabled |-> TRUE], network |-> [interval_seconds |-> 3],
      disk_io |-> [interval_seconds |-> 2]],
     [tcp |-> [enabled |-> TRUE], tcp_pod_retrans |-> [enabled |-> FALSE]]}

MCProvider == {"storage", "memory", "cpu", "network", "tcp", "disk_io"}

MCAssignment ==
    {[key |-> <<"interval_seconds">>, value |-> 0],
     [key |-> <<"interval_seconds">>, value |-> 7],
     [key |-> <<"cpu", "interval_seconds">>, value |-> 8],
     [key |-> <<"tcp", "enabled">>, value |-> TRUE],
     [key |-> <<"storage", "mounts">>, value |-> {"/", "/data"}],
     [key |-> <<"mounts">>, value |-> {}],
     [key |-> <<"pod_discovery", "cri_socket">>, value |-> "first"],
     [key |-> <<"cri_socket">>, value |-> " "],
     [key |-> <<"memory">>, value |-> 1],
     [key |-> <<"enabled", "x">>, value |-> TRUE]}

\* Every authority of at most four of these tokens.
Token == {"localhost", "::1", "remote", "@", ":", "[", "]"}
MCAuthority == UNION {[1..n -> Token] : n \in 0..4}
============================================================================

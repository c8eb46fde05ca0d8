-------------------------- MODULE MCCollectCommand -------------------------
(* Values for the constants of CollectCommand.                             *)
EXTENDS CollectCommand

\* The loop is taken through every combination with the providers whose calls
\* only return, one of each kind of loop; the detailed collectors run without an
\* end, two of them also with a limit.
MCArgs ==
    LET all == [interval : {0, 1, 2}, limit : {NoLimit, 0, 1, 3},
                keep : {{}, {<<"system", "network">>, <<"system", "disk", "io">>}}]
        endless == [interval |-> 1, limit |-> NoLimit, keep |-> {}]
        limited == [interval |-> 2, limit |-> 3, keep |-> {}]
    IN  [p \in {"storage", "memory", "cpu", "network", "tcp", "disk_io"} |->
            CASE p \in {"tcp", "disk_io"} -> all
              [] p \in {"cpu", "network"} -> {endless}
              [] OTHER -> {endless, limited}]

\* A path with a space and one with a backslash.
MCMount == {<<"slash", "space">>, <<"slash", "backslash", "a">>}
============================================================================

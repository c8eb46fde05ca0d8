-------------------------- MODULE MCControlServer --------------------------
(***************************************************************************)
(* Instances of ControlServer for TLC.  Version 1 of the file moves agent  *)
(* a1 to the second host if there are two, version 2 gives it a new token  *)
(* if there are two, and drops a2 (blank token); the set of valid versions *)
(* is given by each cfg.                                                   *)
(***************************************************************************)
EXTENDS ControlServer, TLC

CONSTANTS a1, a2, h1, h2, t1, t2

MCEnrolledHost ==
    [v \in Version |-> [a \in Agent |->
        IF a = a1 THEN (IF v = 0 /\ h1 \in Host THEN h1 ELSE h2)
        ELSE (IF v = 2 THEN NoHost ELSE h2)]]

MCEnrolledToken ==
    [v \in Version |-> [a \in Agent |->
        IF a = a1 THEN (IF v = 2 /\ t2 \in Token THEN t2 ELSE t1)
        ELSE (IF v = 2 THEN NoToken ELSE t1)]]

ConnSymmetry == Permutations(Conn)
=============================================================================

---------------------------- MODULE MCSubsystem ----------------------------
(***************************************************************************)
(* Model of the extended SVCs for TLC: two tasks of different priority.    *)
(***************************************************************************)
EXTENDS Subsystem

CONSTANTS t1, t2

MCbpriority == [t \in Tasks |-> IF t = t1 THEN 1 ELSE 2]
=============================================================================

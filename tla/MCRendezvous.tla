---------------------------- MODULE MCRendezvous ----------------------------
(* Rendezvous.tla with interchangeable tasks and interchangeable bits. *)
EXTENDS Rendezvous, TLC

CONSTANTS t1, t2, t3, p1, p2, b1, b2

MCTasks    == {t1, t2, t3}
MCPorts    == {p1, p2}
MCBits     == {b1, b2}
MCMasks    == {{"CAL"}, {"ACP"}, {"RDV"}}
MCPorAtrs  == {[tpri |-> FALSE, nodiswai |-> FALSE, maxrmsz |-> 2],
               [tpri |-> TRUE, nodiswai |-> TRUE, maxrmsz |-> 1]}
MCSymmetry == Permutations(MCTasks) \cup Permutations(MCBits) \cup Permutations(MCPorts)
=============================================================================

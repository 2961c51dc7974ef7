----------------------------- MODULE MCObjects -----------------------------
(* Objects.tla with three interchangeable tasks, interchangeable bits, and  *)
(* three messages, one of another size and priority than the other two.     *)
EXTENDS Objects

CONSTANTS t1, t2, t3, b1, b2, m1, m2, m3

MCTasks    == {t1, t2, t3}
MCBits     == {b1, b2}
MCModes    == {{}, {"ORW"}, {"CLR"}, {"BITCLR"}}
MCMsgs     == {m1, m2, m3}
MCmsgpri   == [m \in MCMsgs |-> IF m = m3 THEN 2 ELSE 1]
MCmsgsz    == [m \in MCMsgs |-> IF m = m3 THEN 3 ELSE 1]
MCSymmetry == Permutations(MCTasks) \cup Permutations(MCBits)
                \cup Permutations({m1, m2})

\* Bound: tasks are suspended only while they use a semaphore or a pool of
\* fixed-size blocks, and forbidden to wait only while they use neither an
\* event flag nor a message buffer.  The end of a wait treats a task alike
\* whatever it waited for.
MCInterference ==
  /\ gcb.objid \in {"flg", "mbx", "mbf", "mpl"} => \A t \in Tasks : ~Suspended(t)
  /\ gcb.objid \in {"flg", "mbf"} => \A t \in Tasks : ~waitmask[t]
============================================================================

----------------------------- MODULE MCLibrary -----------------------------
(***************************************************************************)
(* Model of the libraries for TLC.  Locks: one task that holds one and two *)
(* that come for it, two locks in one FastMLock.  Memory: pages enough for *)
(* a free block between two taken ones, sizes of which several or one fill *)
(* a page or more, and three blocks given out at a time.                   *)
(***************************************************************************)
EXTENDS Library

\* Bound: three blocks only from one source, and two tasks between the steps
\* of a call only beside one block.
MCMemoryBound ==
  /\ Cardinality(DOMAIN held) = 3 =>
       \E from \in {"I", "K", "smb"} : Held(from) = DOMAIN held
  /\ Cardinality(DOMAIN held) >= 2 =>
       \A t, u \in Tasks : t = u \/ Idle \in {pc[t], pc[u]}
=============================================================================

------------------------------ MODULE Library ------------------------------
(***************************************************************************)
(* libtk and the memory it shares with T-Kernel/SM: the high-speed locks   *)
(* (FastLocks) and what they guard, the page table and the heaps           *)
(* (SystemMemory).  The calls of SystemMemory that hold a lock are single  *)
(* steps there because FastLocks are exclusive locks; so a behaviour is    *)
(* one of the locks or one of the memory.                                  *)
(***************************************************************************)
EXTENDS SystemMemory

CONSTANTS
  Lockers,  \* the tasks that use locks
  Numbers   \* FastLocks

VARIABLES
  part,  \* "locks" or "memory"
  kind, at, no, cnt, sem, wai, flg, ptn

lockvars == <<kind, at, no, cnt, sem, wai, flg, ptn>>

Lck == INSTANCE FastLocks

ASSUME LibraryAssumption == Lck!FastLockAssumption

LibInit ==
  /\ part \in {"locks", "memory"}
  /\ Lck!FastInit /\ MemInit
  /\ part = "memory" => kind = "FastLock"

LibNext ==
  /\ UNCHANGED part
  /\ \/ part = "locks" /\ Lck!LockNext /\ UNCHANGED vars
     \/ part = "memory" /\ MemNext /\ UNCHANGED lockvars

\* A task in Lock or Unlock goes on, unless the kernel has it wait.
LibSpec ==
  /\ LibInit /\ [][LibNext]_<<part, vars, lockvars>>
  /\ \A t \in Lockers : WF_lockvars(part = "locks" /\ Lck!Continue(t))

---------------------------------------------------------------------------
(* Property; see FastLocks. *)

\* Both kinds of high-speed lock are exclusive, and a lock that is free while
\* somebody wants it is taken.
ImplementsLock == Lck!ImplementsLock
=============================================================================

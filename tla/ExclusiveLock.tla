--------------------------- MODULE ExclusiveLock ---------------------------
(***************************************************************************)
(* What the high-speed locks of libtk promise: of the tasks that want a    *)
(* lock one at a time has it, and a lock that is free and wanted is taken. *)
(***************************************************************************)
EXTENDS Naturals

CONSTANTS Lockers, Locks

VARIABLES wants, holders  \* for each lock, the tasks that want and have it

vars == <<wants, holders>>

LockInit ==
  /\ wants = [l \in Locks |-> {}]
  /\ holders = [l \in Locks |-> {}]

Idle(t) == \A l \in Locks : t \notin wants[l] \cup holders[l]

Want(t, l) ==
  /\ Idle(t)
  /\ wants' = [wants EXCEPT ![l] = @ \cup {t}]
  /\ UNCHANGED holders

Acquire(t, l) ==
  /\ t \in wants[l] /\ holders[l] = {}
  /\ wants' = [wants EXCEPT ![l] = @ \ {t}]
  /\ holders' = [holders EXCEPT ![l] = {t}]

\* A free lock is had at once
Take(t, l) ==
  /\ Idle(t) /\ holders[l] = {}
  /\ holders' = [holders EXCEPT ![l] = {t}]
  /\ UNCHANGED wants

\* A timeout, or a wait released by tk_rel_wai
GiveUp(t, l) ==
  /\ t \in wants[l]
  /\ wants' = [wants EXCEPT ![l] = @ \ {t}]
  /\ UNCHANGED holders

Release(t, l) ==
  /\ holders[l] = {t}
  /\ holders' = [holders EXCEPT ![l] = {}]
  /\ UNCHANGED wants

Next == \E t \in Lockers, l \in Locks :
          Want(t, l) \/ Take(t, l) \/ Acquire(t, l) \/ GiveUp(t, l) \/ Release(t, l)

LockSpec == /\ LockInit /\ [][Next]_vars
            /\ \A l \in Locks : WF_vars(\E t \in Lockers : Acquire(t, l))
=============================================================================

------------------------------- MODULE KLock -------------------------------
(***************************************************************************)
(* Kernel locks of objects (klock.c) composed with task scheduling.        *)
(*                                                                         *)
(* A call on a fixed-size memory pool, the user of object locks, runs with *)
(* interrupts enabled between LockOBJ and UnlockOBJ, so its task can be    *)
(* preempted or suspended inside, have its priority changed, or queue for  *)
(* a lock and be taken out of that queue again.                            *)
(*                                                                         *)
(* mempfix.c is reduced to what it does to the lock and to tasks: it takes *)
(* the lock, and then either leaves, or waits and leaves in one critical   *)
(* section (tk_get_mpf_u, 287), or ends the wait of another task with      *)
(* interrupts disabled and then leaves (tk_rel_mpf, 330).                  *)
(***************************************************************************)
EXTENDS Task

VARIABLES
  at,     \* where a task is: "user" code, "lock" (in LockOBJ), "locked", or
          \* "released" (holds the lock and has ended the wait of a task)
  use,    \* the lock of the object call a task makes, NULL outside
  locked  \* OBJLOCK.wtskq.next # NULL

lockvars == <<at, use, locked>>
allvars  == <<vars, lockvars>>

At == {"user", "lock", "locked", "released"}

\* What a call on an object leaves alone beside the queue and schedtsk.
callvars == <<state, tcbvars, cpuvars>>

---------------------------------------------------------------------------
(* klock.c *)

\* The task is outside, and CHECK_DISPATCH let it in, or it tries again.
Entering(t, l) ==
  \/ at[t] = "user" /\ dispatch_disabled = "ENABLE"
  \/ at[t] = "lock" /\ use[t] = l

\* Mutant: the lock is taken without looking.
free_always(l) == TRUE

free(l) == ~locked[l]

\* A waiter may have been given the lock while it waited.
LockOBJ_given(l) ==
  /\ ready_queue.klocked[ctxtsk]
  /\ at' = [at EXCEPT ![ctxtsk] = "locked"]
  /\ UNCHANGED <<ready_queue, schedtsk, locked>>

LockOBJ_free(l) ==
  /\ ~ready_queue.klocked[ctxtsk]
  /\ free(l)
  /\ at' = [at EXCEPT ![ctxtsk] = "locked"]
  /\ locked' = [locked EXCEPT ![l] = TRUE]
  /\ ready_queue' = [ready_queue EXCEPT !.klocked[ctxtsk] = TRUE,
                                        !.klocktsk = ctxtsk]
  /\ UNCHANGED schedtsk

LockOBJ_wait(l) ==
  /\ ~ready_queue.klocked[ctxtsk]
  /\ ~free(l)
  /\ at' = [at EXCEPT ![ctxtsk] = "lock"]
  /\ LET rq == ready_queue_delete(ready_queue, ctxtsk, priority[ctxtsk])
     IN ready_queue' = [rq EXCEPT !.klockwait[ctxtsk] = TRUE,
                                  !.wtskq[l] = Append(@, ctxtsk)]
  /\ schedtsk' = ready_queue_top(ready_queue')
  /\ UNCHANGED locked

LockOBJ(l) ==
  /\ InTask
  /\ Entering(ctxtsk, l)
  /\ use' = [use EXCEPT ![ctxtsk] = l]
  /\ LockOBJ_given(l) \/ LockOBJ_free(l) \/ LockOBJ_wait(l)
  /\ UNCHANGED callvars

\* Mutant: the first waiter is made ready to try again, without the lock.
unlock_not_given(rq, l) ==
  LET given == [rq EXCEPT !.klocked[ctxtsk] = FALSE, !.klocktsk = NULL]
      q     == rq.wtskq[l]
  IN IF q = << >> THEN given
     ELSE ready_queue_insert_top(
            [given EXCEPT !.wtskq[l] = Tail(q),
                          !.klockwait[Head(q)] = FALSE],
            Head(q), priority[Head(q)])

\* The queue UnlockOBJ makes of rq: the lock goes to the first waiter.
unlock(rq, l) ==
  LET given == [rq EXCEPT !.klocked[ctxtsk] = FALSE, !.klocktsk = NULL]
      q     == rq.wtskq[l]
  IN IF q = << >> THEN given
     ELSE ready_queue_insert_top(
            [given EXCEPT !.wtskq[l] = Tail(q),
                          !.klockwait[Head(q)] = FALSE,
                          !.klocked[Head(q)] = TRUE],
            Head(q), priority[Head(q)])

UnlockOBJ(rq, l) ==
  /\ ready_queue' = unlock(rq, l)
  /\ schedtsk' = ready_queue_top(ready_queue')
  /\ locked' = [locked EXCEPT ![l] = rq.wtskq[l] # << >>]
  /\ at' = [at EXCEPT ![ctxtsk] = "user"]
  /\ use' = [use EXCEPT ![ctxtsk] = NULL]

---------------------------------------------------------------------------
(* mempfix.c *)

\* After wait_release_ok the interrupts come back on without a dispatch: the
\* task goes on even when schedtsk is another one, until something dispatches.
Leaving ==
  \/ InTask /\ at[ctxtsk] = "locked"
  \/ ctxtsk # NULL /\ dispatch_disabled = "ENABLE" /\ at[ctxtsk] = "released"

mpf_exit ==
  /\ Leaving
  /\ UnlockOBJ(ready_queue, use[ctxtsk])
  /\ UNCHANGED callvars

mpf_make_wait ==
  /\ InTask /\ at[ctxtsk] = "locked"
  /\ state' = [state EXCEPT ![ctxtsk] = "WAIT"]
  /\ UnlockOBJ(ready_queue_delete(ready_queue, ctxtsk, priority[ctxtsk]),
               use[ctxtsk])
  /\ UNCHANGED <<tcbvars, cpuvars>>

mpf_release(t) ==
  /\ InTask /\ at[ctxtsk] = "locked"
  /\ Waiting(t)
  /\ make_non_wait(t)
  /\ at' = [at EXCEPT ![ctxtsk] = "released"]
  /\ UNCHANGED <<tcbvars, cpuvars, use, locked>>

---------------------------------------------------------------------------

KInit ==
  /\ Init
  /\ at = [t \in Tasks |-> "user"]
  /\ use = [t \in Tasks |-> NULL]
  /\ locked = [l \in Locks |-> FALSE]

ObjectCalls ==
  \/ \E l \in Locks : LockOBJ(l)
  \/ mpf_exit
  \/ mpf_make_wait
  \/ \E t \in Tasks : mpf_release(t)

\* A task that ends is outside of every call.
Ends(t) ==
  /\ at' = [at EXCEPT ![t] = "user"]
  /\ use' = [use EXCEPT ![t] = NULL]
  /\ UNCHANGED locked

InUser == ctxtsk # NULL => at[ctxtsk] = "user"

\* The calls of Task.tla that move tasks; every wait here is one for a block.
OtherCalls(c) ==
  \/ \E t \in Tasks :
       \/ tk_sta_tsk(c, t)
       \/ tk_rel_wai(c, t)
       \/ tk_sus_tsk(c, t)
       \/ tk_rsm_tsk(c, t)
       \/ \E p \in Pri : tk_chg_pri(c, t, p)
       \/ \E slt \in SliceTimes : tk_chg_slt_u(c, t, slt)
  \/ \E p \in Pri : tk_rot_rdq(c, p)

KNext ==
  \/ ObjectCalls
  \/ OtherCalls("handler") /\ UNCHANGED lockvars
  \/ TimerInterrupt /\ UNCHANGED lockvars
  \/ Dispatcher /\ UNCHANGED lockvars
  \/ /\ InUser
     /\ \/ OtherCalls("task") /\ UNCHANGED lockvars
        \/ tk_dis_dsp /\ UNCHANGED lockvars
        \/ tk_ena_dsp /\ UNCHANGED lockvars
        \/ \E t \in Tasks, p \in Pri : tk_cre_tsk(t, p) /\ UNCHANGED lockvars
        \/ \E t \in Tasks : tk_ter_tsk(t) /\ Ends(t)
        \/ tk_ext_tsk /\ Ends(ctxtsk)

KSpec == KInit /\ [][KNext]_allvars

---------------------------------------------------------------------------
(* Properties *)

Holders(l) == {t \in Tasks : ready_queue.klocked[t] /\ use[t] = l}
Runnable(t) == state[t] = "READY" /\ ~ready_queue.klockwait[t]

\* klocked is one flag per task and says nothing of which lock it is: still
\* the code between LockOBJ and UnlockOBJ of one object is run by one task.
MutualExclusion ==
  \A t, u \in Tasks :
    at[t] \in {"locked", "released"} /\ at[u] \in {"locked", "released"}
      /\ use[t] = use[u] => t = u

HolderOfTaken ==
  \A l \in Locks : Cardinality(Holders(l)) = IF locked[l] THEN 1 ELSE 0

WaitersQueued ==
  \A l \in Locks :
    /\ Range(ready_queue.wtskq[l])
         = {t \in Tasks : ready_queue.klockwait[t] /\ use[t] = l}
    /\ IsInjective(ready_queue.wtskq[l])
    /\ ready_queue.wtskq[l] # << >> => locked[l]
    /\ \A t \in Range(ready_queue.wtskq[l]) : state[t] = "READY" /\ at[t] = "lock"

\* No lock is lost (klock.c:46, 78): a taken lock has exactly one holder, which
\* will unlock it, whatever happened to the task it was handed to while that
\* waited; the waiter lists hold exactly the klockwait tasks, which are READY,
\* once each and under the lock they came for; nobody queues for a free lock.
NoLockLost == HolderOfTaken /\ WaitersQueued

\* The processor goes to the head of the most urgent queue of the READY tasks
\* that do not wait for a lock, or to a task with a lock (ready_queue.h:77); it
\* idles only if every READY task waits for a lock.
LockerOrTopScheduled ==
  /\ Consistent(ready_queue, {t \in Tasks : Runnable(t)}, priority)
  /\ IF \A t \in Tasks : ~Runnable(t) THEN schedtsk = NULL
     ELSE /\ schedtsk # NULL /\ Runnable(schedtsk)
          /\ \/ ready_queue.klocked[schedtsk]
             \/ schedtsk = ready_queue_top([ready_queue EXCEPT !.klocktsk = NULL])
===========================================================================

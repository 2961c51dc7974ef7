-------------------------------- MODULE Wait --------------------------------
(***************************************************************************)
(* Waiting for an object (wait.c, wait.h), from the side the objects with  *)
(* a generic control block (GCB) share: the wait queue in arrival or       *)
(* priority order, the ways a wait ends, wait disabling, and the hooks by  *)
(* which the end of one wait or a change of priority lets others end.      *)
(*                                                                         *)
(* `gcb` is the control block of one object; objects do not interact.  It  *)
(* is a record with at least the fields                                    *)
(*    objid       the kind of object, "none" while the block is free       *)
(*    tpri, nodiswai   attributes                                          *)
(*    wait_queue  the wait queue                                           *)
(*    recv_queue  the second one of a message buffer, empty elsewhere      *)
(* A hook gives [gcb, ok]: the block after it and the tasks it released    *)
(* with E_OK.                                                              *)
(*                                                                         *)
(* The scheduler is left out: any READY task may be the running one, which *)
(* allows more than Task.tla does.  Calls are one critical section each.   *)
(***************************************************************************)
EXTENDS FiniteSets, WaitQueue

CONSTANTS
  Tasks,    \* the tasks
  NUM_PRI,  \* number of task priorities; 0 is the most urgent one
  NoInfo,   \* winfo of a task that does not wait
  MaxDisabled,  \* bound: tasks with a disabled wait at a time
  MaxSuspended  \* bound: suspended tasks at a time

ASSUME WaitPriAssumption == NUM_PRI \in Nat \ {0}
ASSUME WaitBoundsAssumption == MaxDisabled \in Nat /\ MaxSuspended \in Nat

VARIABLES
  state,     \* TCB.state, NONEXIST left out
  priority,  \* TCB.priority
  waitmask,  \* is the wait factor of this object in TCB.waitmask?
  winfo,     \* TCB.winfo, what a waiting task waits for, else NoInfo
  ok,        \* the tasks whose wait the last step ended with E_OK
  gcb        \* the control block

taskvars == <<state, priority, waitmask, winfo>>
waitvars == <<taskvars, ok, gcb>>

Pri    == 0 .. NUM_PRI - 1
TSTAT  == {"DORMANT", "READY", "WAIT", "SUSPEND", "WAITSUS"}

Waiting(t) == state[t] \in {"WAIT", "WAITSUS"}
Running(t) == state[t] = "READY"

Suspended(t) == state[t] \in {"SUSPEND", "WAITSUS"}

---------------------------------------------------------------------------
(* wait.h, wait.c *)

\* Would t be served before the waiting tasks?
gcb_top_of_wait_queue(g, t) ==
  g.wait_queue # << >> => g.tpri /\ priority[t] < priority[Head(g.wait_queue)]

is_diswai(g, t) == waitmask[t] /\ ~g.nodiswai

\* make_non_wait for the tasks of R: a suspended one stays suspended.
make_non_wait(R) ==
  [t \in Tasks |-> IF t \notin R THEN state[t]
                   ELSE IF state[t] = "WAIT" THEN "READY" ELSE "SUSPEND"]

\* The waits of the tasks of R end, those of G with E_OK; R includes G.
ends(R, G) ==
  /\ state' = make_non_wait(R)
  /\ winfo' = [t \in Tasks |-> IF t \in R THEN NoInfo ELSE winfo[t]]
  /\ ok' = G

\* gcb_make_wait by the running task t, for w.
gcb_make_wait(t, w) ==
  /\ state' = [state EXCEPT ![t] = "WAIT"]
  /\ winfo' = [winfo EXCEPT ![t] = w]
  /\ ok' = {}
  /\ gcb' = [gcb EXCEPT !.wait_queue = IF gcb.tpri
                                       THEN queue_insert_tpri(@, t, priority)
                                       ELSE Append(@, t)]
  /\ UNCHANGED <<priority, waitmask>>

\* wait_release_ok for the tasks of h.ok, and what becomes of the block.
wait_release_ok(h) ==
  /\ ends(h.ok, h.ok)
  /\ gcb' = h.gcb

\* An object without rel_wai_hook, whose chg_pri_hook only moves the task.
no_hook(g) == [gcb |-> g, ok |-> {}]

\* The control block once t is out of its queue, and once t has moved to the
\* place of priority p: what the hooks are called with.
left(t) == [gcb EXCEPT !.wait_queue = QueRemove(@, t), !.recv_queue = QueRemove(@, t)]

gcb_change_priority(t, p) ==
  [gcb EXCEPT !.wait_queue =
     queue_insert_tpri(QueRemove(@, t), t, [priority EXCEPT ![t] = p])]

\* Mutant: the hook of the object is not called.
wait_release_ng_no_hook(t, h) ==
  /\ ends({t}, {})
  /\ gcb' = left(t)

\* The wait of t ends with an error (wait_release_ng, wait_release_tmout),
\* which may let others go on; h is the result of rel_wai_hook.
wait_release_ng(t, h) ==
  /\ ends({t} \cup h.ok, h.ok)
  /\ gcb' = h.gcb

\* A free control block: what is left in it has no meaning.
free_gcb == [ objid |-> "none", tpri |-> FALSE, nodiswai |-> FALSE,
              wait_queue |-> << >>, recv_queue |-> << >> ]

\* wait_delete, and the control block goes back to the free ones.
wait_delete ==
  /\ ends({t \in Tasks : Waiting(t)}, {})
  /\ gcb' = free_gcb
  /\ UNCHANGED <<priority, waitmask>>

---------------------------------------------------------------------------
(* Calls on tasks as far as they touch a wait (task_manage.c, task_sync.c, *)
(* timer.c), made by other tasks or by handlers.                           *)

\* Expiry of the timeout, or tk_rel_wai.
release_wait(t, h) ==
  /\ Waiting(t)
  /\ wait_release_ng(t, h)
  /\ UNCHANGED <<priority, waitmask>>

tk_dis_wai(t, h) ==
  /\ Cardinality({u \in Tasks \ {t} : waitmask[u]}) < MaxDisabled
  /\ waitmask' = [waitmask EXCEPT ![t] = TRUE]
  /\ IF Waiting(t) /\ ~gcb.nodiswai
     THEN wait_release_ng(t, h)
     ELSE ok' = {} /\ UNCHANGED <<state, winfo, gcb>>
  /\ UNCHANGED priority

tk_ena_wai(t) ==
  /\ waitmask' = [waitmask EXCEPT ![t] = FALSE]
  /\ ok' = {}
  /\ UNCHANGED <<state, priority, winfo, gcb>>

\* Mutant: the wait is not cancelled.
tk_ter_tsk_no_cancel(t, h) ==
  /\ state[t] # "DORMANT"
  /\ state' = [state EXCEPT ![t] = "DORMANT"]
  /\ winfo' = [winfo EXCEPT ![t] = NoInfo]
  /\ ok' = {}
  /\ waitmask' = [waitmask EXCEPT ![t] = FALSE]
  /\ UNCHANGED <<priority, gcb>>

\* Also tk_ext_tsk, by the task itself.  wait_cancel leaves the state to
\* make_dormant; the priority becomes the initial one, some priority.
tk_ter_tsk(t, h) ==
  /\ state[t] # "DORMANT"
  /\ LET R == IF Waiting(t) THEN h.ok ELSE {}
     IN /\ state' = [make_non_wait(R) EXCEPT ![t] = "DORMANT"]
        /\ winfo' = [u \in Tasks |-> IF u \in {t} \cup R THEN NoInfo ELSE winfo[u]]
        /\ ok' = R
        /\ gcb' = IF Waiting(t) THEN h.gcb ELSE gcb
  /\ waitmask' = [waitmask EXCEPT ![t] = FALSE]
  /\ \E p \in Pri : priority' = [priority EXCEPT ![t] = p]

tk_sta_tsk(t) ==
  /\ state[t] = "DORMANT"
  /\ state' = [state EXCEPT ![t] = "READY"]
  /\ ok' = {}
  /\ UNCHANGED <<priority, waitmask, winfo, gcb>>

\* A task in a priority queue takes the place of its new priority; h, the
\* result of chg_pri_hook, releases those that can go on then.  Nobody waits
\* in a recv_queue by priority.
tk_chg_pri(t, p, h) ==
  /\ priority' = [priority EXCEPT ![t] = p]
  /\ IF gcb.tpri /\ Contains(gcb.wait_queue, t)
     THEN ends(h.ok, h.ok) /\ gcb' = h.gcb
     ELSE ok' = {} /\ UNCHANGED <<state, winfo, gcb>>
  /\ UNCHANGED waitmask

tk_sus_tsk(t) ==
  /\ state[t] \in {"READY", "WAIT"}
  /\ Cardinality({u \in Tasks : Suspended(u)}) < MaxSuspended
  /\ state' = [state EXCEPT ![t] = IF @ = "READY" THEN "SUSPEND" ELSE "WAITSUS"]
  /\ ok' = {}
  /\ UNCHANGED <<priority, waitmask, winfo, gcb>>

tk_frsm_tsk(t) ==
  /\ Suspended(t)
  /\ state' = [state EXCEPT ![t] = IF @ = "SUSPEND" THEN "READY" ELSE "WAIT"]
  /\ ok' = {}
  /\ UNCHANGED <<priority, waitmask, winfo, gcb>>

WaitInit ==
  /\ state = [t \in Tasks |-> "READY"]
  /\ priority \in [Tasks -> Pri]
  /\ waitmask = [t \in Tasks |-> FALSE]
  /\ winfo = [t \in Tasks |-> NoInfo]
  /\ ok = {}
  /\ gcb = free_gcb

\* The hooks are those the task's WSPEC names.
TaskCalls(rel_wai_hook(_, _), chg_pri_hook(_)) ==
  \E t \in Tasks :
    \/ release_wait(t, rel_wai_hook(t, left(t)))
    \/ tk_dis_wai(t, rel_wai_hook(t, left(t)))
    \/ tk_ena_wai(t)
    \/ tk_ter_tsk(t, rel_wai_hook(t, left(t)))
    \/ tk_sta_tsk(t)
    \/ \E p \in Pri : tk_chg_pri(t, p, chg_pri_hook(gcb_change_priority(t, p)))
    \/ tk_sus_tsk(t)
    \/ tk_frsm_tsk(t)
---------------------------------------------------------------------------
(* Properties every such object shares *)

QueueHoldsWaiters ==
  LET q == gcb.wait_queue \o gcb.recv_queue
  IN Range(q) = {t \in Tasks : Waiting(t)} /\ IsInjective(q)

QueueInPriorityOrder ==
  gcb.tpri => \A i \in 1 .. Len(gcb.wait_queue) - 1 :
                priority[gcb.wait_queue[i]] <= priority[gcb.wait_queue[i + 1]]

NoDisabledWait == \A t \in Tasks : waitmask[t] /\ Waiting(t) => gcb.nodiswai

\* The wait queue holds exactly the waiting tasks, once each: whatever ended a
\* wait took the task out, and only the end of its wait does (wait.c:41); with
\* TA_TPRI it is in priority order, also after priority changes (wait.c:183);
\* tk_dis_wai is a latch: no wait survives it and none begins under it, but
\* for TA_NODISWAI (task_manage.c:734).
WaitsAgree == QueueHoldsWaiters /\ QueueInPriorityOrder /\ NoDisabledWait

Ahead(q, t, u) == \E i, j \in DOMAIN q : i < j /\ q[i] = t /\ q[j] = u
=============================================================================

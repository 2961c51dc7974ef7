------------------------------- MODULE Task -------------------------------
(***************************************************************************)
(* Task states, scheduling and dispatching of T-Kernel:                    *)
(*   task.c           make_ready, make_non_ready, reschedule, ...          *)
(*   task_manage.c    create, delete, start, exit, terminate, priority,    *)
(*                    rotation, time slice, forced release of a wait       *)
(*   task_sync.c      suspend and resume, sleep and wake up                *)
(*   wait.c           entering and leaving the wait state                  *)
(*   timer.c          the time-slice part of the timer interrupt and the   *)
(*                    expiry of a sleep                                    *)
(*   cpu_support.S, cpu_calls.c   the dispatcher, dispatch disabling       *)
(*                                                                         *)
(* Every system call is one critical section (interrupts disabled), hence  *)
(* one action.  It is made by the running task (c = "task") or by an       *)
(* interrupt handler (c = "handler"), which may come whenever interrupts   *)
(* are enabled: between any two actions, the steps of the dispatcher       *)
(* included.  Mutexes, kernel locks and object waits have modules of their *)
(* own; here the base priority is the current one and every wait is        *)
(* tk_slp_tsk.                                                             *)
(***************************************************************************)
EXTENDS ReadyQueue

CONSTANTS
  INT_MAX,       \* limit of wupcnt and suscnt
  SliceTimes,    \* the slice times tasks may set, 0 for none
  TIMER_PERIOD   \* what one timer interrupt adds to slicecnt

ASSUME IntMaxAssumption == INT_MAX \in Nat \ {0}
ASSUME SliceAssumption  == /\ TIMER_PERIOD \in Nat \ {0}
                           /\ SliceTimes \subseteq Nat
                           /\ 0 \in SliceTimes

VARIABLES
  state,             \* TCB.state
  ipriority,         \* TCB.ipriority, the priority a start begins with
  priority,          \* TCB.priority (and bpriority: no mutex is held here)
  wupcnt,            \* TCB.wupcnt, queued wakeup requests
  suscnt,            \* TCB.suscnt, nesting of suspend requests
  slicetime,         \* TCB.slicetime
  ready_queue,       \* the ready queue
  schedtsk,          \* the task that should run
  ctxtsk,            \* the task whose context the CPU holds
  dispatch_disabled  \* DDS_ENABLE, DDS_DISABLE_IMPLICIT or DDS_DISABLE

tcbvars == <<ipriority, priority, wupcnt, suscnt, slicetime>>
cpuvars == <<ctxtsk, dispatch_disabled>>
vars    == <<state, tcbvars, ready_queue, schedtsk, cpuvars>>

TSTAT  == {"NONEXIST", "READY", "WAIT", "SUSPEND", "WAITSUS", "DORMANT"}
DDS    == {"ENABLE", "DISABLE_IMPLICIT", "DISABLE"}
Caller == {"task", "handler"}

task_alive(t) == state[t] \in {"READY", "WAIT", "SUSPEND", "WAITSUS"}
Waiting(t)    == state[t] \in {"WAIT", "WAITSUS"}

(***************************************************************************)
(* Who is executing.  A pending dispatch is taken when a critical section  *)
(* of a task or the outermost handler ends, so code of ctxtsk runs only    *)
(* when no dispatch is due, or under tk_dis_dsp.                           *)
(***************************************************************************)
InTask ==
  /\ ctxtsk # NULL
  /\ \/ dispatch_disabled = "DISABLE"
     \/ dispatch_disabled = "ENABLE" /\ ctxtsk = schedtsk

Calling(c) == c = "task" => InTask

\* CHECK_NONSELF: the running task may not name itself, a handler may.
NonSelf(c, t) == c = "task" => t # ctxtsk

---------------------------------------------------------------------------
(* task.c *)

\* Mutant: the task keeps its place when its slice is used up.
time_slice_schedule_keeps(rq, tcb, pri) ==
  IF tcb = NULL THEN [rq |-> rq, tcb |-> tcb]
  ELSE IF slicetime[tcb] = 0 THEN [rq |-> rq, tcb |-> tcb]
  ELSE [rq |-> [rq EXCEPT !.slicecnt[tcb] = (@ + TIMER_PERIOD) % (slicetime[tcb] + 1)],
        tcb |-> tcb]

\* time_slice_schedule(tcb): the queue it leaves and the task it returns.
\* pri is the current priority of every task.
time_slice_schedule(rq, tcb, pri) ==
  IF tcb = NULL THEN [rq |-> rq, tcb |-> tcb]
  ELSE IF slicetime[tcb] = 0 THEN [rq |-> rq, tcb |-> tcb]
  ELSE IF rq.slicecnt[tcb] + TIMER_PERIOD > slicetime[tcb]
  THEN LET moved == ready_queue_move_last(rq, tcb, pri[tcb])
       IN [rq |-> moved, tcb |-> Head(moved.tskque[pri[tcb]])]
  ELSE [rq |-> [rq EXCEPT !.slicecnt[tcb] = @ + TIMER_PERIOD], tcb |-> tcb]

\* "When the state becomes RUN to READY, execute the time slice scheduling."
preempt(rq, pri) ==
  IF schedtsk = ctxtsk THEN time_slice_schedule(rq, schedtsk, pri).rq ELSE rq

reschedule(rq, pri) ==
  LET toptsk == ready_queue_top(rq)
  IN /\ ready_queue' = IF schedtsk # toptsk THEN preempt(rq, pri) ELSE rq
     /\ schedtsk' = toptsk

make_ready(t) ==
  LET rq     == ready_queue_insert(ready_queue, t, priority[t])
      raises == ready_queue_insert_raises(ready_queue, priority[t])
  IN /\ state' = [state EXCEPT ![t] = "READY"]
     /\ ready_queue' = IF raises THEN preempt(rq, priority) ELSE rq
     /\ schedtsk' = IF raises THEN t ELSE schedtsk

\* Mutant: compares with the running task instead of the scheduled one.
make_non_ready_of_ctxtsk(t) ==
  LET rq == ready_queue_delete(ready_queue, t, priority[t])
  IN /\ ready_queue' = rq
     /\ schedtsk' = IF ctxtsk = t THEN ready_queue_top(rq) ELSE schedtsk

\* The caller sets the new state.
make_non_ready(t) ==
  LET rq == ready_queue_delete(ready_queue, t, priority[t])
  IN /\ ready_queue' = rq
     /\ schedtsk' = IF schedtsk = t THEN ready_queue_top(rq) ELSE schedtsk

\* Mutant: the new priority is set before the task leaves its queue.
change_task_priority_set_first(t, p) ==
  /\ priority' = [priority EXCEPT ![t] = p]
  /\ IF state[t] = "READY"
     THEN reschedule(
            ready_queue_insert(ready_queue_delete(ready_queue, t, p), t, p),
            priority')
     ELSE UNCHANGED <<ready_queue, schedtsk>>
  /\ UNCHANGED state

change_task_priority(t, p) ==
  /\ priority' = [priority EXCEPT ![t] = p]
  /\ IF state[t] = "READY"
     THEN reschedule(
            ready_queue_insert(
              ready_queue_delete(ready_queue, t, priority[t]), t, p),
            priority')
     ELSE UNCHANGED <<ready_queue, schedtsk>>
  /\ UNCHANGED state

\* Also clears klocked and klockwait: both are FALSE whenever it is called.
make_dormant(t) ==
  /\ state'     = [state EXCEPT ![t] = "DORMANT"]
  /\ priority'  = [priority EXCEPT ![t] = ipriority'[t]]
  /\ wupcnt'    = [wupcnt EXCEPT ![t] = 0]
  /\ suscnt'    = [suscnt EXCEPT ![t] = 0]
  /\ slicetime' = [slicetime EXCEPT ![t] = 0]

\* Mutant: the end of the wait also ends the suspension.
make_non_wait_resumes(t) == make_ready(t)

make_non_wait(t) ==
  IF state[t] = "WAIT" THEN make_ready(t)
  ELSE /\ state' = [state EXCEPT ![t] = "SUSPEND"]
       /\ UNCHANGED <<ready_queue, schedtsk>>

---------------------------------------------------------------------------
(* task_manage.c *)

tk_cre_tsk(t, p) ==
  /\ InTask
  /\ state[t] = "NONEXIST"
  /\ ipriority' = [ipriority EXCEPT ![t] = p]
  /\ make_dormant(t)
  /\ UNCHANGED <<ready_queue, schedtsk, cpuvars>>

tk_del_tsk(t) ==
  /\ InTask
  /\ state[t] = "DORMANT"
  /\ state' = [state EXCEPT ![t] = "NONEXIST"]
  /\ UNCHANGED <<tcbvars, ready_queue, schedtsk, cpuvars>>

tk_sta_tsk(c, t) ==
  /\ Calling(c)
  /\ state[t] = "DORMANT"
  /\ make_ready(t)
  /\ UNCHANGED <<tcbvars, cpuvars>>

\* _ter_tsk: a READY task leaves the ready queue, a waiting one its wait.
ter_tsk(t) ==
  IF state[t] = "READY" THEN make_non_ready(t)
  ELSE UNCHANGED <<ready_queue, schedtsk>>

\* Mutant: the dispatcher is entered without its own state.
force_dispatch_enabled ==
  /\ UNCHANGED dispatch_disabled
  /\ ctxtsk' = NULL

\* force_dispatch(): the context is thrown away, whatever tk_dis_dsp said.
force_dispatch ==
  /\ dispatch_disabled' = "DISABLE_IMPLICIT"
  /\ ctxtsk' = NULL

tk_ext_tsk ==
  /\ InTask
  /\ UNCHANGED ipriority
  /\ ter_tsk(ctxtsk)
  /\ make_dormant(ctxtsk)
  /\ force_dispatch

tk_exd_tsk ==
  /\ InTask
  /\ ter_tsk(ctxtsk)
  /\ state' = [state EXCEPT ![ctxtsk] = "NONEXIST"]
  /\ force_dispatch
  /\ UNCHANGED tcbvars

tk_ter_tsk(t) ==
  /\ InTask /\ t # ctxtsk
  /\ task_alive(t)
  /\ ~ready_queue.klocked[t]
  /\ UNCHANGED <<ipriority, cpuvars>>
  /\ ter_tsk(t)
  /\ make_dormant(t)

tk_chg_pri(c, t, p) ==
  /\ Calling(c)
  /\ state[t] # "NONEXIST"
  /\ change_task_priority(t, p)
  /\ UNCHANGED <<ipriority, wupcnt, suscnt, slicetime, cpuvars>>

\* TPRI_RUN is the priority of the caller, or the top one for a handler.
tk_rot_rdq(c, p) ==
  /\ Calling(c)
  /\ reschedule(ready_queue_rotate(ready_queue, p), priority)
  /\ UNCHANGED <<state, tcbvars, cpuvars>>

tk_chg_slt_u(c, t, slt) ==
  /\ Calling(c)
  /\ state[t] # "NONEXIST"
  /\ slicetime' = [slicetime EXCEPT ![t] = slt]
  /\ UNCHANGED <<state, ipriority, priority, wupcnt, suscnt, ready_queue,
                 schedtsk, cpuvars>>

tk_rel_wai(c, t) ==
  /\ Calling(c)
  /\ Waiting(t)
  /\ make_non_wait(t)
  /\ UNCHANGED <<tcbvars, cpuvars>>

---------------------------------------------------------------------------
(* task_sync.c *)

\* Mutant: no E_CTX for the running task under tk_dis_dsp.
suspendable_no_ctx(t) == task_alive(t) /\ suscnt[t] < INT_MAX

suspendable(t) ==
  /\ task_alive(t)
  /\ ~(t = ctxtsk /\ dispatch_disabled = "DISABLE")
  /\ suscnt[t] < INT_MAX

tk_sus_tsk(c, t) ==
  /\ Calling(c) /\ NonSelf(c, t)
  /\ suspendable(t)
  /\ suscnt' = [suscnt EXCEPT ![t] = @ + 1]
  /\ IF state[t] = "READY"
     THEN /\ make_non_ready(t)
          /\ state' = [state EXCEPT ![t] = "SUSPEND"]
     ELSE /\ state' = [state EXCEPT ![t] = IF @ = "WAIT" THEN "WAITSUS" ELSE @]
          /\ UNCHANGED <<ready_queue, schedtsk>>
  /\ UNCHANGED <<ipriority, priority, wupcnt, slicetime, cpuvars>>

\* The end of the last suspend request: tk_rsm_tsk and tk_frsm_tsk share it.
resume(t) ==
  IF state[t] = "SUSPEND" THEN make_ready(t)
  ELSE /\ state' = [state EXCEPT ![t] = "WAIT"]
       /\ UNCHANGED <<ready_queue, schedtsk>>

tk_rsm_tsk(c, t) ==
  /\ Calling(c) /\ NonSelf(c, t)
  /\ state[t] \in {"SUSPEND", "WAITSUS"}
  /\ suscnt' = [suscnt EXCEPT ![t] = @ - 1]
  /\ IF suscnt[t] = 1 THEN resume(t)
     ELSE UNCHANGED <<state, ready_queue, schedtsk>>
  /\ UNCHANGED <<ipriority, priority, wupcnt, slicetime, cpuvars>>

tk_frsm_tsk(c, t) ==
  /\ Calling(c) /\ NonSelf(c, t)
  /\ state[t] \in {"SUSPEND", "WAITSUS"}
  /\ suscnt' = [suscnt EXCEPT ![t] = 0]
  /\ resume(t)
  /\ UNCHANGED <<ipriority, priority, wupcnt, slicetime, cpuvars>>

\* CHECK_DISPATCH: not under tk_dis_dsp, so ctxtsk is the scheduled task.
tk_slp_tsk_u ==
  /\ InTask /\ dispatch_disabled = "ENABLE"
  /\ IF wupcnt[ctxtsk] > 0
     THEN /\ wupcnt' = [wupcnt EXCEPT ![ctxtsk] = @ - 1]
          /\ UNCHANGED <<state, ready_queue, schedtsk>>
     ELSE /\ make_non_ready(ctxtsk)
          /\ state' = [state EXCEPT ![ctxtsk] = "WAIT"]
          /\ UNCHANGED wupcnt
  /\ UNCHANGED <<ipriority, priority, suscnt, slicetime, cpuvars>>

\* Mutant: a suspended sleeper is not seen as waiting.
sleeping_wait_only(t) == state[t] = "WAIT"

sleeping(t) == Waiting(t)

queue_wakeup(t) ==
  /\ wupcnt[t] < INT_MAX
  /\ wupcnt' = [wupcnt EXCEPT ![t] = @ + 1]

tk_wup_tsk(c, t) ==
  /\ Calling(c) /\ NonSelf(c, t)
  /\ task_alive(t)
  /\ \/ /\ sleeping(t)
        /\ make_non_wait(t)
        /\ UNCHANGED wupcnt
     \/ /\ ~sleeping(t)
        /\ queue_wakeup(t)
        /\ UNCHANGED <<state, ready_queue, schedtsk>>
  /\ UNCHANGED <<ipriority, priority, suscnt, slicetime, cpuvars>>

tk_can_wup(c, t) ==
  /\ Calling(c)
  /\ task_alive(t)
  /\ wupcnt' = [wupcnt EXCEPT ![t] = 0]
  /\ UNCHANGED <<state, ipriority, priority, suscnt, slicetime, ready_queue,
                 schedtsk, cpuvars>>

---------------------------------------------------------------------------
(* timer.c.  The handler's slice step and each expired event it runs are   *)
(* actions of their own: a superset of the interleavings of the one        *)
(* critical section they share.                                            *)

timer_handler ==
  LET slice == time_slice_schedule(ready_queue, ctxtsk, priority)
  IN /\ IF ctxtsk # NULL /\ schedtsk = ctxtsk
        THEN ready_queue' = slice.rq /\ schedtsk' = slice.tcb
        ELSE UNCHANGED <<ready_queue, schedtsk>>
     /\ UNCHANGED <<state, tcbvars, cpuvars>>

wait_release_tmout(t) ==
  /\ Waiting(t)
  /\ make_non_wait(t)
  /\ UNCHANGED <<tcbvars, cpuvars>>

---------------------------------------------------------------------------
(* cpu_calls.c and the dispatcher of cpu_support.S *)

tk_dis_dsp ==
  /\ InTask
  /\ dispatch_disabled' = "DISABLE"
  /\ UNCHANGED <<state, tcbvars, ready_queue, schedtsk, ctxtsk>>

\* Interrupts stay enabled: by the time it compares ctxtsk with schedtsk a
\* handler may have changed schedtsk, so dispatch() follows or not.
tk_ena_dsp ==
  /\ InTask
  /\ dispatch_disabled' \in {"ENABLE", "DISABLE_IMPLICIT"}
  /\ UNCHANGED <<state, tcbvars, ready_queue, schedtsk, ctxtsk>>

\* dispatch_entry, _ret_int_dispatch: interrupts come back on after this.
dispatch_entry ==
  /\ dispatch_disabled = "ENABLE"
  /\ ctxtsk # NULL /\ ctxtsk # schedtsk
  /\ dispatch_disabled' = "DISABLE_IMPLICIT"
  /\ UNCHANGED <<state, tcbvars, ready_queue, schedtsk, ctxtsk>>

\* The context is saved and the CPU holds that of no task.
dispatch_save ==
  /\ dispatch_disabled = "DISABLE_IMPLICIT" /\ ctxtsk # NULL
  /\ ctxtsk' = NULL
  /\ UNCHANGED <<state, tcbvars, ready_queue, schedtsk, dispatch_disabled>>

\* l_dispatch1, l_dispatch2: idle until there is a task, then take it.
dispatch_to_schedtsk ==
  /\ dispatch_disabled = "DISABLE_IMPLICIT" /\ ctxtsk = NULL
  /\ schedtsk # NULL
  /\ ctxtsk' = schedtsk
  /\ dispatch_disabled' = "ENABLE"
  /\ UNCHANGED <<state, tcbvars, ready_queue, schedtsk>>

---------------------------------------------------------------------------

\* After init_task_startup and force_dispatch: the initial task is READY and
\* the dispatcher has not taken it yet.
Init ==
  \E t \in Tasks, p \in Pri :
    /\ state = [u \in Tasks |-> IF u = t THEN "READY" ELSE "NONEXIST"]
    /\ ipriority = [u \in Tasks |-> IF u = t THEN p ELSE 0]
    /\ priority = ipriority
    /\ wupcnt = [u \in Tasks |-> 0]
    /\ suscnt = [u \in Tasks |-> 0]
    /\ slicetime = [u \in Tasks |-> 0]
    /\ ready_queue = ready_queue_insert(ready_queue_initialize, t, p)
    /\ schedtsk = t
    /\ ctxtsk = NULL
    /\ dispatch_disabled = "DISABLE_IMPLICIT"

\* The calls a task as well as a handler makes.
Calls(c) ==
  \/ \E t \in Tasks :
       \/ tk_sta_tsk(c, t)
       \/ tk_rel_wai(c, t)
       \/ tk_sus_tsk(c, t)
       \/ tk_rsm_tsk(c, t)
       \/ tk_frsm_tsk(c, t)
       \/ tk_wup_tsk(c, t)
       \/ tk_can_wup(c, t)
       \/ \E p \in Pri : tk_chg_pri(c, t, p)
       \/ \E slt \in SliceTimes : tk_chg_slt_u(c, t, slt)
  \/ \E p \in Pri : tk_rot_rdq(c, p)

\* The calls only a task makes.
TaskCalls ==
  \/ \E t \in Tasks :
       \/ tk_del_tsk(t)
       \/ tk_ter_tsk(t)
       \/ \E p \in Pri : tk_cre_tsk(t, p)
  \/ tk_ext_tsk
  \/ tk_exd_tsk
  \/ tk_slp_tsk_u
  \/ tk_dis_dsp
  \/ tk_ena_dsp

TimerInterrupt ==
  \/ timer_handler
  \/ \E t \in Tasks : wait_release_tmout(t)

Dispatcher ==
  \/ dispatch_entry
  \/ dispatch_save
  \/ dispatch_to_schedtsk

Next ==
  \/ Calls("task")
  \/ Calls("handler")
  \/ TaskCalls
  \/ TimerInterrupt
  \/ Dispatcher

Spec == Init /\ [][Next]_vars
---------------------------------------------------------------------------
(* Properties *)

Position(q, t) == CHOOSE i \in DOMAIN q : q[i] = t

TypeOK ==
  /\ state \in [Tasks -> TSTAT]
  /\ ipriority \in [Tasks -> Pri]
  /\ priority \in [Tasks -> Pri]
  /\ wupcnt \in [Tasks -> 0 .. INT_MAX]
  /\ suscnt \in [Tasks -> 0 .. INT_MAX]
  /\ slicetime \in [Tasks -> SliceTimes]
  /\ ready_queue \in RDYQUE
  /\ schedtsk \in TCB
  /\ ctxtsk \in TCB
  /\ dispatch_disabled \in DDS

\* The ready queue holds exactly the READY tasks, each once and under its
\* current priority, and bitmap and top_priority are the summary of it that
\* the scheduler reads instead (ready_queue.h:28).
ReadyQueueConsistent ==
  Consistent(ready_queue, {t \in Tasks : state[t] = "READY"}, priority)

\* schedtsk, which calls update piecemeal, is always the head of the most
\* urgent non-empty queue, and NULL only when no task is READY.
SchedtskIsTop == schedtsk = ready_queue_top(ready_queue)

\* The task whose code runs is READY, even after a handler tried to suspend
\* it while it kept the processor with tk_dis_dsp (task_sync.c:47).
RunnerIsReady == InTask => state[ctxtsk] = "READY"

\* A SUSPEND state is left when and only when the last of the nested suspend
\* requests is undone, whatever happens to the wait below it.
SuspendNesting ==
  \A t \in Tasks : suscnt[t] > 0 <=> state[t] \in {"SUSPEND", "WAITSUS"}

\* No lost wakeup: no task sleeps while a wakeup request is queued for it.
NoLostWakeup == \A t \in Tasks : Waiting(t) => wupcnt[t] = 0

\* With dispatching disabled only the end of the task takes the processor
\* from it, whatever handlers make READY.
DisabledDispatchKeepsRunner ==
  [][dispatch_disabled = "DISABLE" /\ ctxtsk' # ctxtsk
     => state'[ctxtsk] \in {"DORMANT", "NONEXIST"}]_vars

\* First come, first served within a priority: one step moves at most one
\* task of a queue, and only to the tail.
FifoWithinPriority ==
  [][\A p \in Pri : LET q == ready_queue.tskque[p]
                        r == ready_queue'.tskque[p]
     IN \A t, u \in Range(q) \cap Range(r) :
          (/\ Position(q, t) < Position(q, u)
           /\ Position(r, u) < Position(r, t)) => t = Last(r)]_vars
===========================================================================

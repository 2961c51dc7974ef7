----------------------------- MODULE TaskSlice -----------------------------
(***************************************************************************)
(* Round robin by time slices (task.c:144, timer.c:192): the part of       *)
(* Task.tla in which every task has been started and given a slice time.   *)
(* Tasks sleep and are suspended, woken and resumed by handlers;           *)
(* tasks exit, disable dispatching and enable it again.  Priorities stay   *)
(* as they are and nobody rotates a queue by hand, which could keep a task *)
(* from the head of its queue for ever.                                    *)
(***************************************************************************)
EXTENDS Task

\* The last call of an initialisation that started the tasks of `order` one
\* after the other and set their slice times.
SliceInit ==
  \E order \in SetToSeqs(Tasks), pri \in [Tasks -> Pri],
     slt \in [Tasks -> SliceTimes \ {0}] :
    /\ state = [t \in Tasks |-> "READY"]
    /\ ipriority = pri
    /\ priority = pri
    /\ wupcnt = [t \in Tasks |-> 0]
    /\ suscnt = [t \in Tasks |-> 0]
    /\ slicetime = slt
    /\ ready_queue = FoldLeft(LAMBDA rq, t : ready_queue_insert(rq, t, pri[t]),
                              ready_queue_initialize, order)
    /\ schedtsk = ready_queue_top(ready_queue)
    /\ ctxtsk = NULL
    /\ dispatch_disabled = "DISABLE_IMPLICIT"

SliceNext ==
  \/ tk_slp_tsk_u
  \/ tk_ext_tsk
  \/ tk_dis_dsp
  \/ dispatch_disabled = "DISABLE" /\ tk_ena_dsp
  \/ \E t \in Tasks :
       \/ tk_sus_tsk("handler", t)
       \/ tk_rsm_tsk("handler", t)
       \/ tk_wup_tsk("handler", t)
  \/ TimerInterrupt
  \/ Dispatcher

\* The timer interrupt comes periodically and the dispatcher is never stopped.
SliceSpec ==
  /\ SliceInit /\ [][SliceNext]_vars
  /\ WF_vars(timer_handler)
  /\ WF_vars(Dispatcher)

\* Nobody is starved by tasks of the same priority: a task that stays READY
\* at the top priority runs again and again, unless dispatching is disabled
\* again and again (task.c:144, timer.c:192).
RoundRobin ==
  \A t \in Tasks :
    <>[](/\ state[t] = "READY" /\ priority[t] = ready_queue.top_priority
         /\ dispatch_disabled # "DISABLE")
      => []<>(ctxtsk = t)

\* No lost preemption: a task that stays the one to run is dispatched, unless
\* dispatching is disabled: whatever handlers do while the dispatcher has
\* interrupts enabled, and when tk_ena_dsp finds one overdue (cpu_calls.c:50).
DispatchHappens ==
  schedtsk # NULL /\ dispatch_disabled # "DISABLE"
    ~> ctxtsk = schedtsk \/ schedtsk = NULL \/ dispatch_disabled = "DISABLE"
============================================================================

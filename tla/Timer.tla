------------------------------- MODULE Timer -------------------------------
(***************************************************************************)
(* Software timer of T-Kernel: timer.c (clock, timer event queue, timer    *)
(* interrupt) with the users of its events in time_calls.c (cyclic         *)
(* handlers, alarm handlers, tk_dly_tsk).                                  *)
(*                                                                         *)
(* The queue is scanned by the timer interrupt with interrupts disabled,   *)
(* but call_cychdr and call_almhdr enable them for the time of the user's  *)
(* handler: from then on, until the handler returns, it and any nested     *)
(* interrupt handler make the same calls as tasks do outside, and the scan *)
(* goes on with whatever they left in the queue.  The timer interrupt      *)
(* itself stays masked (clear_hw_timer_interrupt) until the scan ends.     *)
(*                                                                         *)
(* Times are in one unit, TIMER_PERIOD many of which pass between two      *)
(* timer interrupts; hw is what the hardware counter shows since the last  *)
(* one served.  A handler called at once by a system call runs with        *)
(* interrupts disabled at the very end of the call: what it calls is what  *)
(* the model calls next.                                                   *)
(***************************************************************************)
EXTENDS FiniteSets, WaitQueue

CONSTANTS
  Cycs, Alms, Tasks,  \* cyclic handlers, alarm handlers, tasks that delay
  NULL,
  TIMER_PERIOD,
  CycTims,            \* the cycle times in use (cyctim)
  Delays,             \* the phases, alarm times and delay times in use
  TimMax              \* bound on current_time

ASSUME TimerAssumption ==
  /\ TIMER_PERIOD \in Nat \ {0} /\ TimMax \in Nat
  /\ CycTims \subseteq Nat \ {0} /\ Delays \subseteq Nat
  /\ NULL \notin Cycs \cup Alms \cup Tasks
  /\ Cycs \cap Alms = {} /\ Tasks \cap (Cycs \cup Alms) = {}

VARIABLES
  current_time,  \* the software clock
  hw,            \* the hardware counter, 0 <= hw < 2 * TIMER_PERIOD
  timer_queue,   \* the events, each named by what it belongs to
  time,          \* TMEB.time of each
  stat,          \* cycstat, almstat, or the state of the task
  cyc,           \* cyctim and TA_PHS of the cyclic handlers
  running,       \* the handler the event loop is in, or NULL
  asked          \* when the alarm or delay in force may end, in real time

vars == <<current_time, hw, timer_queue, time, stat, cyc, running, asked>>

Handlers == Cycs \cup Alms
Events   == Handlers \cup Tasks

adjust_time == hw
now         == current_time + hw   \* the time that has really passed

(***************************************************************************)
(* The timer event queue.                                                  *)
(***************************************************************************)
\* Insert e before the first event that is later
enqueue_tmeb(q, e, tm) ==
  LET i == SelectInSeq(q, LAMBDA x : tm[x] > tm[e])
  IN  IF i = 0 THEN Append(q, e) ELSE InsertAt(q, i, e)

timer_insert_abs(q, e, t) ==
  /\ time' = [time EXCEPT ![e] = t]
  /\ timer_queue' = enqueue_tmeb(q, e, [time EXCEPT ![e] = t])

timer_delete(q, e) == QueRemove(q, e)

\* The queue without the event, where it is in it
Dequeued(e) == IF stat[e] = "STA" THEN timer_delete(timer_queue, e) ELSE timer_queue

\* The time of an alarm or a delay that is over is not read again
forget(S) ==
  /\ time' = [e \in Events |-> IF e \in S THEN 0 ELSE time[e]]
  /\ asked' = [e \in Events |-> IF e \in S THEN 0 ELSE asked[e]]

NoCycle == [tim |-> 1, phs |-> FALSE]

TimerInit ==
  /\ current_time = 0 /\ hw = 0
  /\ timer_queue = <<>>
  /\ time = [e \in Events |-> 0]
  /\ stat = [e \in Events |-> IF e \in Tasks THEN "READY" ELSE "NONE"]
  /\ cyc = [c \in Cycs |-> NoCycle]
  /\ running = NULL
  /\ asked = [e \in Events |-> 0]

clock == <<current_time, hw, running>>

(***************************************************************************)
(* Cyclic handlers.                                                        *)
(***************************************************************************)
\* Mutant: one cycle on, be it past.
cyc_next_time_once(c, t, clk) == t + cyc[c].tim

\* One cycle on from t; if that is past already, the first cycle to come
cyc_next_time(c, t, clk) ==
  LET tm == t + cyc[c].tim
  IN  IF tm <= clk THEN t + ((clk - t) \div cyc[c].tim + 1) * cyc[c].tim ELSE tm

tk_cre_cyc(c, tim, phs, sta, cycphs) ==
  LET tm == current_time + cycphs + adjust_time
  IN  /\ stat[c] = "NONE"
      /\ cyc' = [cyc EXCEPT ![c] = [tim |-> tim, phs |-> phs]]
      /\ stat' = [stat EXCEPT ![c] = IF sta THEN "STA" ELSE "STP"]
      /\ ~sta => time' = [time EXCEPT ![c] = tm] /\ UNCHANGED timer_queue
      \* phase 0 calls the handler at once and registers the next cycle
      /\ sta => timer_insert_abs(timer_queue, c, IF cycphs = 0 THEN tm + tim ELSE tm)
      /\ UNCHANGED <<clock, asked>>

\* What deleting and what stopping a handler of either kind have in common
delete(e) ==
  /\ stat[e] # "NONE"
  /\ timer_queue' = Dequeued(e)
  /\ stat' = [stat EXCEPT ![e] = "NONE"]
  /\ cyc' = [c \in Cycs |-> IF c = e THEN NoCycle ELSE cyc[c]]
  /\ forget({e})
  /\ UNCHANGED clock

stop(e) ==
  /\ stat[e] # "NONE"
  /\ timer_queue' = Dequeued(e)
  /\ stat' = [stat EXCEPT ![e] = "STP"]
  /\ forget({e} \cap Alms)
  /\ UNCHANGED <<clock, cyc>>

tk_del_cyc(c) == delete(c)

\* Mutant: the next time is not computed anew.
tk_sta_cyc_stale(c) ==
  /\ stat[c] # "NONE"
  /\ cyc[c].phs /\ stat[c] = "STA" => UNCHANGED <<timer_queue, time>>
  /\ cyc[c].phs /\ stat[c] # "STA" => timer_insert_abs(timer_queue, c, time[c])
  /\ ~cyc[c].phs =>
       timer_insert_abs(Dequeued(c), c, current_time + cyc[c].tim + adjust_time)
  /\ stat' = [stat EXCEPT ![c] = "STA"]
  /\ UNCHANGED <<clock, cyc, asked>>

\* With TA_PHS the cycle goes on counting while the handler is stopped
tk_sta_cyc(c) ==
  /\ stat[c] # "NONE"
  /\ cyc[c].phs /\ stat[c] = "STA" => UNCHANGED <<timer_queue, time>>
  /\ cyc[c].phs /\ stat[c] # "STA" =>
       timer_insert_abs(timer_queue, c, IF time[c] <= current_time
                                        THEN cyc_next_time(c, time[c], current_time)
                                        ELSE time[c])
  /\ ~cyc[c].phs =>
       timer_insert_abs(Dequeued(c), c, current_time + cyc[c].tim + adjust_time)
  /\ stat' = [stat EXCEPT ![c] = "STA"]
  /\ UNCHANGED <<clock, cyc, asked>>

tk_stp_cyc(c) == stop(c)

(***************************************************************************)
(* Alarm handlers and delays.                                              *)
(***************************************************************************)
\* Mutant: what has passed of the present period is not added.
timer_insert_reltim_short(q, e, d) ==
  /\ timer_insert_abs(q, e, current_time + d)
  /\ asked' = [asked EXCEPT ![e] = now + d]

\* alm_timer_insert and timer_insert_reltim: no earlier than d from now
timer_insert_reltim(q, e, d) ==
  /\ timer_insert_abs(q, e, current_time + d + adjust_time)
  /\ asked' = [asked EXCEPT ![e] = now + d]

tk_cre_alm(a) ==
  /\ stat[a] = "NONE"
  /\ stat' = [stat EXCEPT ![a] = "STP"]
  /\ UNCHANGED <<clock, timer_queue, time, cyc, asked>>

tk_del_alm(a) == delete(a)

tk_stp_alm(a) == stop(a)

\* A time of 0 calls the handler at once
tk_sta_alm(a, almtim) ==
  /\ stat[a] # "NONE"
  /\ almtim > 0 => /\ timer_insert_reltim(Dequeued(a), a, almtim)
                   /\ stat' = [stat EXCEPT ![a] = "STA"]
  /\ almtim = 0 => /\ timer_queue' = Dequeued(a)
                   /\ stat' = [stat EXCEPT ![a] = "STP"]
                   /\ forget({a})
  /\ UNCHANGED <<clock, cyc>>

\* By a task: never while the event loop is in a handler
tk_dly_tsk(t, dlytim) ==
  /\ running = NULL /\ stat[t] = "READY" /\ dlytim > 0
  /\ timer_insert_reltim(timer_queue, t, dlytim)
  /\ stat' = [stat EXCEPT ![t] = "STA"]
  /\ UNCHANGED <<clock, cyc>>

\* A wait ended by tk_rel_wai or tk_ter_tsk: wait_cancel deletes the event
tk_rel_wai(t) ==
  /\ stat[t] = "STA"
  /\ timer_queue' = timer_delete(timer_queue, t)
  /\ stat' = [stat EXCEPT ![t] = "READY"]
  /\ forget({t})
  /\ UNCHANGED <<clock, cyc>>

(***************************************************************************)
(* The timer interrupt.                                                    *)
(***************************************************************************)
\* Mutant: what comes up before the next interrupt is due.
due_ahead(e, clk) == time[e] <= clk + adjust_time

due(e, clk) == time[e] <= clk

\* The loop has taken n events; the last one called the handler h unless that
\* is NULL.  The others release tasks, and an alarm is over.
taken(n, h, clk) ==
  LET over  == {timer_queue[i] : i \in 1 .. n} \ Cycs
      rest  == SubSeq(timer_queue, n + 1, Len(timer_queue))
      time_ == [e \in Events |-> IF e \in over THEN 0
                                 ELSE IF e = h THEN cyc_next_time(h, time[h], clk) ELSE time[e]]
  IN  /\ running' = h
      /\ stat' = [e \in Events |-> IF e \in over THEN IF e \in Alms THEN "STP" ELSE "READY"
                                   ELSE stat[e]]
      /\ time' = time_
      /\ timer_queue' = IF h \in Cycs THEN enqueue_tmeb(rest, h, time_) ELSE rest
      /\ asked' = [e \in Events |-> IF e \in over THEN 0 ELSE asked[e]]
      /\ UNCHANGED cyc

\* From the head of the queue to the next handler it calls, or to the end
event_loop(clk) ==
  \E n \in 0 .. Len(timer_queue) :
    /\ \A i \in 1 .. n : due(timer_queue[i], clk)
    /\ \A i \in 1 .. n - 1 : timer_queue[i] \notin Handlers
    /\ \/ n > 0 /\ timer_queue[n] \in Handlers /\ taken(n, timer_queue[n], clk)
       \/ /\ n > 0 => timer_queue[n] \notin Handlers
          /\ n < Len(timer_queue) => ~due(timer_queue[n + 1], clk)
          /\ taken(n, NULL, clk)

timer_handler ==
  /\ running = NULL
  /\ hw >= TIMER_PERIOD /\ current_time + TIMER_PERIOD <= TimMax
  /\ current_time' = current_time + TIMER_PERIOD
  /\ hw' = hw - TIMER_PERIOD
  /\ event_loop(current_time')

handler_return ==
  /\ running # NULL
  /\ event_loop(current_time)
  /\ UNCHANGED <<current_time, hw>>

\* The counter goes on; a handler that took longer would lose an interrupt
Elapse ==
  /\ hw < 2 * TIMER_PERIOD - 1
  /\ hw' = hw + 1
  /\ UNCHANGED <<current_time, timer_queue, time, stat, cyc, running, asked>>

Next ==
  \/ Elapse \/ timer_handler \/ handler_return
  \/ \E c \in Cycs : \/ \E tim \in CycTims, phs, sta \in BOOLEAN, d \in Delays :
                          tk_cre_cyc(c, tim, phs, sta, d)
                     \/ tk_sta_cyc(c) \/ tk_stp_cyc(c) \/ tk_del_cyc(c)
  \/ \E a \in Alms : \/ tk_cre_alm(a) \/ tk_stp_alm(a) \/ tk_del_alm(a)
                     \/ \E d \in Delays : tk_sta_alm(a, d)
  \/ \E t \in Tasks : tk_rel_wai(t) \/ \E d \in Delays : tk_dly_tsk(t, d)

TimerSpec == TimerInit /\ [][Next]_vars /\ WF_vars(Elapse)
             /\ WF_vars(timer_handler) /\ WF_vars(handler_return)

-----------------------------------------------------------------------------
(***************************************************************************)
(* Properties.                                                             *)
(***************************************************************************)
\* An event is in the queue exactly while its handler is started or its
\* task delayed, once, and the queue is in the order of the event times
\* (CYCCB and ALMCB status against timer_delete and QueRemove).  Whatever the
\* handlers called by the event loop start, stop or delete, nothing that is
\* due stays behind when the timer interrupt ends.
EventsAgree ==
  /\ \A e \in Events : stat[e] = "STA" <=> e \in {timer_queue[i] : i \in DOMAIN timer_queue}
  /\ \A i, j \in DOMAIN timer_queue :
       i < j => timer_queue[i] # timer_queue[j] /\ time[timer_queue[i]] <= time[timer_queue[j]]
  /\ running = NULL => \A i \in DOMAIN timer_queue : time[timer_queue[i]] > current_time

\* A cyclic handler that is called has its next cycle after the present
\* time, the first such cycle, and in phase with the one called, however
\* many cycles passed since (cyc_next_time).
CyclesKept ==
  [][\A c \in Cycs : running' = c /\ (timer_handler \/ handler_return) =>
       /\ time'[c] \in current_time' + 1 .. current_time' + cyc[c].tim
       /\ (time'[c] - time[c]) % cyc[c].tim = 0]_vars

\* No alarm handler is called, and no delayed task released by the clock,
\* before the whole time asked for has really passed: what the counter
\* shows at the call is added to the time (adjust_time).
NeverEarly ==
  [][\A e \in Alms \cup Tasks :
       stat[e] = "STA" /\ stat'[e] # "STA" /\ (timer_handler \/ handler_return)
         => current_time' + hw' >= asked[e]]_vars

\* The event loop always ends: no handler it calls, restarted by itself or
\* by another, is found due again by the same interrupt.
LoopEnds == running # NULL ~> running = NULL
=============================================================================

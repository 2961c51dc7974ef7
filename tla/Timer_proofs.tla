---------------------------- MODULE Timer_proofs ----------------------------
(***************************************************************************)
(* The timer event queue, for every number of handlers and tasks and all   *)
(* times.  The inductive invariant says of the queue that it lists the     *)
(* started events in the order of their times, of the end of the timer     *)
(* interrupt that nothing due is left, and of an alarm or a delay that its *)
(* event time is the time asked for.                                       *)
(***************************************************************************)
EXTENDS Timer, WaitQueue_proofs

Started == {e \in Events : stat[e] = "STA"}

TypeInv ==
  /\ current_time \in Nat /\ hw \in Nat
  /\ time \in [Events -> Nat]
  /\ asked \in [Events -> Nat]
  /\ stat \in [Events -> {"NONE", "STP", "STA", "READY"}]
  /\ cyc \in [Cycs -> [tim : Nat \ {0}, phs : BOOLEAN]]
  /\ running \in Handlers \cup {NULL}

\* q lists the events of S in the order of the times tm.
Ordered(q, S, tm) == Lists(q, S) /\ InOrder(q, tm)

DueInv   == running = NULL => \A e \in Started : time[e] > current_time
AskedInv == \A e \in Started \ Cycs : time[e] = asked[e]

TimerInv ==
  /\ TypeInv
  /\ Ordered(timer_queue, Started, time)
  /\ DueInv
  /\ AskedInv

USE TimerAssumption

---------------------------------------------------------------------------

\* The times a and b agree on S.
Agree(a, b, S) == \A x \in S : a[x] = b[x]

\* enqueue_tmeb adds an event at its place.
LEMMA Enqueued ==
  ASSUME NEW q, NEW S \in SUBSET Events, NEW e \in Events, e \notin S,
         NEW old, Ordered(q, S, old),
         NEW new \in [Events -> Nat], Agree(new, old, S)
  PROVE  Ordered(enqueue_tmeb(q, e, new), S \cup {e}, new)
<1>1. enqueue_tmeb(q, e, new) = queue_insert_tpri(q, e, new)
  BY DEF enqueue_tmeb, queue_insert_tpri
<1>2. Lists(q, S) /\ InOrder(q, old)
  BY DEF Ordered
<1>3. InOrder(q, new)
  BY <1>2, SameOrder DEF Agree
<1>4. new[e] \in Int /\ \A x \in S : new[x] \in Int
  OBVIOUS
<1>5. Lists(queue_insert_tpri(q, e, new), S \cup {e})
  BY <1>2, InsertList
<1>6. InOrder(queue_insert_tpri(q, e, new), new)
  BY <1>2, <1>3, <1>4, InsertOrder
<1> QED BY <1>1, <1>5, <1>6 DEF Ordered

\* timer_delete takes one out.
LEMMA Deleted ==
  ASSUME NEW q, NEW S, NEW e, NEW old, Ordered(q, S, old)
  PROVE  Ordered(timer_delete(q, e), S \ {e}, old)
<1>1. Lists(q, S) /\ InOrder(q, old)
  BY DEF Ordered
<1>2. Lists(QueRemove(q, e), S \ {e})
  BY <1>1, RemoveList
<1>3. InOrder(QueRemove(q, e), old)
  BY <1>1, RemoveOrder
<1> QED BY <1>2, <1>3 DEF Ordered, timer_delete

\* The order only depends on the times of the events in the queue.
LEMMA OrderedSame ==
  ASSUME NEW q, NEW S, NEW old, Ordered(q, S, old), NEW new, Agree(new, old, S)
  PROVE  Ordered(q, S, new)
BY SameOrder DEF Ordered, Agree

\* The event is out of the queue after Dequeued, in it or not before.
LEMMA DequeuedOut ==
  ASSUME NEW e \in Events, Ordered(timer_queue, Started, time)
  PROVE  Ordered(Dequeued(e), Started \ {e}, time)
<1>1. CASE stat[e] = "STA"
  BY <1>1, Deleted DEF Dequeued
<1>2. CASE stat[e] # "STA"
  <2>1. Started \ {e} = Started
    BY <1>2 DEF Started
  <2> QED BY <1>2, <2>1 DEF Dequeued
<1> QED BY <1>1, <1>2

\* What cyc_next_time returns: the first time after clk that is a number of
\* cycles, at least one, after t.
NextCycle(n, t, clk, tim) ==
  /\ n \in Nat /\ n > clk /\ n > t
  /\ t <= clk => n <= clk + tim
  /\ (n - t) % tim = 0

\* Division with a remainder.
LEMMA Division ==
  ASSUME NEW d \in Nat, NEW t \in Nat \ {0}
  PROVE  /\ d \div t \in Nat /\ d % t \in 0 .. t - 1
         /\ d = t * (d \div t) + (d % t)
OBVIOUS

\* A multiple leaves no remainder.
LEMMA Multiple ==
  ASSUME NEW k \in Nat, NEW t \in Nat \ {0}
  PROVE  (k * t) % t = 0
OBVIOUS

\* The first multiple after d.
LEMMA NextMultiple ==
  ASSUME NEW d \in Nat, NEW t \in Nat \ {0}
  PROVE  LET m == (d \div t + 1) * t
         IN  m \in Nat /\ m > d /\ m <= d + t /\ m > 0 /\ m % t = 0
<1>1. PICK k, r : k = d \div t /\ r = d % t
  OBVIOUS
<1>2. k \in Nat /\ r \in 0 .. t - 1 /\ d = t * k + r
  BY <1>1, Division
<1>3. (k + 1) * t = t * k + t
  BY <1>2
<1>4. t * k \in Nat
  BY <1>2
<1>5. PICK p : p = t * k
  OBVIOUS
<1>6. (k + 1) * t \in Nat /\ (k + 1) * t > d /\ (k + 1) * t <= d + t /\ (k + 1) * t > 0
  BY <1>2, <1>3, <1>4, <1>5
<1>7. ((k + 1) * t) % t = 0
  BY <1>2, Multiple
<1> QED BY <1>1, <1>6, <1>7

\* cyc_next_time finds the next cycle.
LEMMA CycNextTime ==
  ASSUME NEW c \in Cycs, cyc \in [Cycs -> [tim : Nat \ {0}, phs : BOOLEAN]],
         NEW t \in Nat, NEW clk \in Nat
  PROVE  NextCycle(cyc_next_time(c, t, clk), t, clk, cyc[c].tim)
<1>1. PICK n : n = cyc[c].tim
  OBVIOUS
<1>2. n \in Nat \ {0}
  BY <1>1
<1>3. CASE t + n <= clk
  <2>1. clk - t \in Nat
    BY <1>2, <1>3
  <2>2. PICK m : m = ((clk - t) \div n + 1) * n
    OBVIOUS
  <2>3. m \in Nat /\ m > clk - t /\ m <= (clk - t) + n /\ m > 0 /\ m % n = 0
    BY <1>2, <2>1, <2>2, NextMultiple
  <2>4. cyc_next_time(c, t, clk) = t + m
    BY <1>1, <1>3, <2>2 DEF cyc_next_time
  <2>5. (t + m) - t = m
    BY <2>3
  <2>6. NextCycle(t + m, t, clk, n)
    BY <1>2, <2>3, <2>5 DEF NextCycle
  <2> QED BY <1>1, <2>4, <2>6
<1>4. CASE ~(t + n <= clk)
  <2>1. cyc_next_time(c, t, clk) = t + n
    BY <1>1, <1>4 DEF cyc_next_time
  <2>2. (1 * n) % n = 0
    BY <1>2, Multiple
  <2>3. (t + n) - t = n /\ 1 * n = n
    BY <1>2
  <2>4. NextCycle(t + n, t, clk, n)
    BY <1>2, <1>4, <2>2, <2>3 DEF NextCycle
  <2> QED BY <1>1, <2>1, <2>4
<1> QED BY <1>3, <1>4

---------------------------------------------------------------------------

\* What the calls that start e have in common: it is put into the queue at
\* the time t, which is to come.
Starts(e, t) ==
  /\ timer_queue' = enqueue_tmeb(Dequeued(e), e, time')
  /\ time' = [time EXCEPT ![e] = t]
  /\ stat' = [stat EXCEPT ![e] = "STA"]
  /\ UNCHANGED clock
  /\ cyc' \in [Cycs -> [tim : Nat \ {0}, phs : BOOLEAN]]
  /\ asked' \in [Events -> Nat]
  /\ \A x \in Events \ {e} : asked'[x] = asked[x]
  /\ e \notin Cycs => asked'[e] = t

\* They keep the invariant.
LEMMA StartsKeeps ==
  ASSUME TimerInv, NEW e \in Events, NEW t \in Nat, t > current_time, Starts(e, t)
  PROVE  TimerInv'
<1> DEFINE P == Started \ {e}
<1>1. time' \in [Events -> Nat] /\ Agree(time', time, P) /\ time'[e] = t
  BY DEF TimerInv, TypeInv, Starts, Agree, Started
<1>2. Started' = P \cup {e}
  BY DEF Starts, Started, TimerInv, TypeInv
<1>3. Ordered(Dequeued(e), P, time)
  BY DequeuedOut DEF TimerInv
<1>4. PICK new : new = time'
  OBVIOUS
<1>5. P \in SUBSET Events /\ e \notin P
  BY DEF Started
<1> HIDE DEF P
<1>6. Ordered(enqueue_tmeb(Dequeued(e), e, new), P \cup {e}, new)
  BY <1>1, <1>3, <1>4, <1>5, Enqueued
<1>7. Ordered(timer_queue', Started', time')
  BY <1>2, <1>4, <1>6 DEF Starts
<1>8. TypeInv'
  BY <1>1 DEF TimerInv, TypeInv, Starts, clock
<1>9. DueInv'
  <2>1. \A x \in P : running = NULL => time'[x] > current_time
    BY <1>1 DEF TimerInv, DueInv, P, Agree
  <2> QED BY <1>1, <1>2, <2>1 DEF DueInv, Starts, clock
<1>10. AskedInv'
  <2>1. \A x \in P \ Cycs : time'[x] = asked'[x]
    BY <1>1 DEF TimerInv, AskedInv, P, Agree, Starts, Started
  <2> QED BY <1>1, <1>2, <2>1 DEF AskedInv, Starts
<1> QED BY <1>7, <1>8, <1>9, <1>10 DEF TimerInv

\* What the calls that end e have in common.
Ends(e, s) ==
  /\ timer_queue' = Dequeued(e)
  /\ stat' = [stat EXCEPT ![e] = s]
  /\ UNCHANGED clock
  /\ cyc' \in [Cycs -> [tim : Nat \ {0}, phs : BOOLEAN]]
  /\ time' \in [Events -> Nat]
  /\ asked' \in [Events -> Nat]
  /\ \A x \in Events \ {e} : time'[x] = time[x] /\ asked'[x] = asked[x]

\* They keep the invariant.
LEMMA EndsKeeps ==
  ASSUME TimerInv, NEW e \in Events, NEW s \in {"NONE", "STP", "READY"}, Ends(e, s)
  PROVE  TimerInv'
<1> DEFINE P == Started \ {e}
<1>1. Agree(time', time, P)
  BY DEF Ends, Agree, Started
<1>2. Started' = P
  BY DEF Ends, Started, TimerInv, TypeInv
<1>3. Ordered(Dequeued(e), P, time)
  BY DequeuedOut DEF TimerInv
<1>4. PICK new : new = time'
  OBVIOUS
<1> HIDE DEF P
<1>5. Ordered(Dequeued(e), P, new)
  BY <1>1, <1>3, <1>4, OrderedSame
<1>6. Ordered(timer_queue', Started', time')
  BY <1>2, <1>4, <1>5 DEF Ends
<1>7. TypeInv'
  BY DEF TimerInv, TypeInv, Ends, clock
<1>8. DueInv'
  BY <1>1, <1>2 DEF TimerInv, DueInv, P, Agree, Ends, clock
<1>9. AskedInv'
  BY <1>1, <1>2 DEF TimerInv, AskedInv, P, Agree, Ends, Started
<1> QED BY <1>6, <1>7, <1>8, <1>9 DEF TimerInv

\* forget keeps the types and the times of the others.
LEMMA Forgets ==
  ASSUME TypeInv, NEW e, NEW S \in SUBSET {e}, forget(S)
  PROVE  /\ time' \in [Events -> Nat] /\ asked' \in [Events -> Nat]
         /\ \A x \in Events \ {e} : time'[x] = time[x] /\ asked'[x] = asked[x]
BY DEF TypeInv, forget

\* timer_insert_abs without the event in the queue.
LEMMA NotQueued ==
  ASSUME NEW e \in Events, stat[e] # "STA"
  PROVE  Dequeued(e) = timer_queue
BY DEF Dequeued

---------------------------------------------------------------------------

\* Time that passes keeps the invariant.
LEMMA Unmoved ==
  ASSUME TimerInv, hw' \in Nat,
         UNCHANGED <<current_time, timer_queue, time, stat, cyc, running, asked>>
  PROVE  TimerInv'
BY DEF TimerInv, TypeInv, DueInv, AskedInv, Started

\* tk_cre_cyc keeps the invariant.
LEMMA CreCycKeeps ==
  ASSUME TimerInv, NEW c \in Cycs, NEW tim \in CycTims, NEW phs \in BOOLEAN,
         NEW sta \in BOOLEAN, NEW d \in Delays, tk_cre_cyc(c, tim, phs, sta, d)
  PROVE  TimerInv'
<1>1. PICK tm : tm = current_time + d + adjust_time
  OBVIOUS
<1>2. /\ tm \in Nat /\ tim \in Nat /\ tim > 0 /\ d \in Nat
      /\ d # 0 => tm > current_time
      /\ tm >= current_time
  BY <1>1 DEF TimerInv, TypeInv, adjust_time
<1>3. /\ stat[c] = "NONE" /\ c \in Events /\ UNCHANGED clock /\ asked' = asked
      /\ asked \in [Events -> Nat] /\ time \in [Events -> Nat]
  BY DEF tk_cre_cyc, Events, Handlers, TimerInv, TypeInv
<1>4. cyc' \in [Cycs -> [tim : Nat \ {0}, phs : BOOLEAN]]
  BY <1>2 DEF tk_cre_cyc, TimerInv, TypeInv
<1>5. Dequeued(c) = timer_queue
  BY <1>3, NotQueued
<1>6. CASE sta
  <2>1. PICK t : t = IF d = 0 THEN tm + tim ELSE tm
    OBVIOUS
  <2>2. t \in Nat /\ t > current_time
    BY <1>2, <2>1 DEF TimerInv, TypeInv
  <2>3. timer_insert_abs(timer_queue, c, t) /\ stat' = [stat EXCEPT ![c] = "STA"]
    BY <1>1, <1>6, <2>1 DEF tk_cre_cyc
  <2>4. time' = [time EXCEPT ![c] = t] /\ timer_queue' = enqueue_tmeb(Dequeued(c), c, time')
    BY <1>5, <2>3 DEF timer_insert_abs
  <2>5. Starts(c, t)
    BY <1>3, <1>4, <2>3, <2>4 DEF Starts
  <2> QED BY <1>3, <2>2, <2>5, StartsKeeps
<1>7. CASE ~sta
  <2>1. time' = [time EXCEPT ![c] = tm] /\ timer_queue' = Dequeued(c)
    BY <1>1, <1>5, <1>7 DEF tk_cre_cyc
  <2>2. stat' = [stat EXCEPT ![c] = "STP"]
    BY <1>7 DEF tk_cre_cyc
  <2>3. time' \in [Events -> Nat] /\ \A x \in Events \ {c} : time'[x] = time[x]
    BY <1>2, <1>3, <2>1
  <2>4. Ends(c, "STP")
    BY <1>3, <1>4, <2>1, <2>2, <2>3 DEF Ends
  <2> QED BY <1>3, <2>4, EndsKeeps
<1> QED BY <1>6, <1>7

\* tk_del_cyc and tk_del_alm keep the invariant.
LEMMA DeleteKeeps ==
  ASSUME TimerInv, NEW e \in Handlers, delete(e)
  PROVE  TimerInv'
<1>1. e \in Events /\ TypeInv /\ forget({e})
  BY DEF Events, TimerInv, delete
<1>2. /\ time' \in [Events -> Nat] /\ asked' \in [Events -> Nat]
      /\ \A x \in Events \ {e} : time'[x] = time[x] /\ asked'[x] = asked[x]
  BY <1>1, Forgets
<1>3. cyc' \in [Cycs -> [tim : Nat \ {0}, phs : BOOLEAN]]
  BY <1>1 DEF delete, TypeInv, NoCycle
<1>4. Ends(e, "NONE")
  BY <1>2, <1>3 DEF Ends, delete
<1> QED BY <1>1, <1>4, EndsKeeps

\* tk_stp_cyc and tk_stp_alm keep the invariant.
LEMMA StopKeeps ==
  ASSUME TimerInv, NEW e \in Handlers, stop(e)
  PROVE  TimerInv'
<1>1. e \in Events /\ TypeInv /\ forget({e} \cap Alms)
  BY DEF Events, TimerInv, stop
<1>2. /\ time' \in [Events -> Nat] /\ asked' \in [Events -> Nat]
      /\ \A x \in Events \ {e} : time'[x] = time[x] /\ asked'[x] = asked[x]
  BY <1>1, Forgets
<1>3. cyc' \in [Cycs -> [tim : Nat \ {0}, phs : BOOLEAN]]
  BY <1>1 DEF stop, TypeInv
<1>4. Ends(e, "STP")
  BY <1>2, <1>3 DEF Ends, stop
<1> QED BY <1>1, <1>4, EndsKeeps

\* tk_sta_cyc keeps the invariant.
LEMMA StaCycKeeps ==
  ASSUME TimerInv, NEW c \in Cycs, tk_sta_cyc(c)
  PROVE  TimerInv'
<1>1. /\ c \in Events /\ UNCHANGED <<clock, cyc, asked>> /\ TypeInv
      /\ stat' = [stat EXCEPT ![c] = "STA"]
  BY DEF tk_sta_cyc, Events, Handlers, TimerInv
<1>2. /\ cyc' \in [Cycs -> [tim : Nat \ {0}, phs : BOOLEAN]]
      /\ asked' \in [Events -> Nat] /\ \A x \in Events \ {c} : asked'[x] = asked[x]
  BY <1>1 DEF TypeInv
<1>3. ASSUME NEW t \in Nat, t > current_time, timer_insert_abs(Dequeued(c), c, t)
      PROVE  TimerInv'
  <2>1. Starts(c, t)
    BY <1>1, <1>2, <1>3 DEF Starts, timer_insert_abs
  <2> QED BY <1>1, <1>3, <2>1, StartsKeeps
<1>4. CASE cyc[c].phs /\ stat[c] = "STA"
  <2>1. UNCHANGED <<timer_queue, time>>
    BY <1>4 DEF tk_sta_cyc
  <2>2. stat' = stat
    BY <1>1, <1>4 DEF TypeInv
  <2>3. UNCHANGED <<current_time, hw, timer_queue, time, stat, cyc, running, asked>>
    BY <1>1, <2>1, <2>2 DEF clock
  <2> QED BY <1>1, <2>3, Unmoved DEF TypeInv
<1>5. CASE cyc[c].phs /\ stat[c] # "STA"
  <2>1. PICK u : u = cyc_next_time(c, time[c], current_time)
    OBVIOUS
  <2>2. PICK t : t = IF time[c] <= current_time THEN u ELSE time[c]
    OBVIOUS
  <2>3. time[c] \in Nat /\ current_time \in Nat
    BY <1>1 DEF TypeInv
  <2>4. NextCycle(u, time[c], current_time, cyc[c].tim)
    BY <1>1, <2>1, <2>3, CycNextTime DEF TypeInv
  <2>5. t \in Nat /\ t > current_time
    BY <2>2, <2>3, <2>4 DEF NextCycle
  <2>6. timer_insert_abs(timer_queue, c, t)
    BY <1>5, <2>1, <2>2 DEF tk_sta_cyc
  <2>7. Dequeued(c) = timer_queue
    BY <1>1, <1>5, NotQueued
  <2> QED BY <1>3, <2>5, <2>6, <2>7
<1>6. CASE ~cyc[c].phs
  <2>1. PICK t : t = current_time + cyc[c].tim + adjust_time
    OBVIOUS
  <2>2. t \in Nat /\ t > current_time
    <3>1. cyc[c].tim \in Nat /\ cyc[c].tim > 0
      BY <1>1 DEF TypeInv
    <3> QED BY <1>1, <2>1, <3>1 DEF TypeInv, adjust_time
  <2>3. timer_insert_abs(Dequeued(c), c, t)
    BY <1>6, <2>1 DEF tk_sta_cyc
  <2> QED BY <1>3, <2>2, <2>3
<1> QED BY <1>4, <1>5, <1>6

\* An alarm or a delay of d ends no earlier than asked for.
LEMMA RelativeKeeps ==
  ASSUME TimerInv, NEW e \in Alms \cup Tasks, NEW d \in Delays, d > 0,
         timer_insert_reltim(Dequeued(e), e, d), UNCHANGED <<clock, cyc>>,
         stat' = [stat EXCEPT ![e] = "STA"]
  PROVE  TimerInv'
<1>1. PICK t : t = current_time + d + adjust_time
  OBVIOUS
<1>2. e \in Events /\ e \notin Cycs /\ TypeInv /\ d \in Nat
  BY DEF Events, Handlers, TimerInv
<1>3. t \in Nat /\ t > current_time /\ now + d = t
  BY <1>1, <1>2 DEF TypeInv, adjust_time, now
<1>4. timer_insert_abs(Dequeued(e), e, t) /\ asked' = [asked EXCEPT ![e] = t]
  BY <1>1, <1>3 DEF timer_insert_reltim
<1>5. Starts(e, t)
  BY <1>2, <1>3, <1>4 DEF Starts, timer_insert_abs, TypeInv
<1> QED BY <1>2, <1>3, <1>5, StartsKeeps

\* tk_sta_alm keeps the invariant.
LEMMA StaAlmKeeps ==
  ASSUME TimerInv, NEW a \in Alms, NEW d \in Delays, tk_sta_alm(a, d)
  PROVE  TimerInv'
<1>1. UNCHANGED <<clock, cyc>> /\ a \in Events /\ d \in Nat /\ TypeInv
  BY DEF tk_sta_alm, Events, Handlers, TimerInv
<1>2. CASE d > 0
  BY <1>1, <1>2, RelativeKeeps DEF tk_sta_alm
<1>3. CASE d = 0
  <2>1. /\ timer_queue' = Dequeued(a) /\ stat' = [stat EXCEPT ![a] = "STP"]
        /\ forget({a})
    BY <1>3 DEF tk_sta_alm
  <2>2. /\ time' \in [Events -> Nat] /\ asked' \in [Events -> Nat]
        /\ \A x \in Events \ {a} : time'[x] = time[x] /\ asked'[x] = asked[x]
    BY <1>1, <2>1, Forgets
  <2>3. Ends(a, "STP")
    BY <1>1, <2>1, <2>2 DEF Ends, TypeInv
  <2> QED BY <1>1, <2>3, EndsKeeps
<1> QED BY <1>1, <1>2, <1>3

\* tk_dly_tsk keeps the invariant.
LEMMA DlyTskKeeps ==
  ASSUME TimerInv, NEW t \in Tasks, NEW d \in Delays, tk_dly_tsk(t, d)
  PROVE  TimerInv'
<1>1. /\ t \in Events /\ d > 0 /\ stat[t] = "READY" /\ UNCHANGED <<clock, cyc>>
      /\ stat' = [stat EXCEPT ![t] = "STA"]
      /\ timer_insert_reltim(timer_queue, t, d)
  BY DEF tk_dly_tsk, Events
<1>2. Dequeued(t) = timer_queue
  BY <1>1, NotQueued
<1> QED BY <1>1, <1>2, RelativeKeeps

\* tk_rel_wai and tk_ter_tsk keep the invariant.
LEMMA RelWaiKeeps ==
  ASSUME TimerInv, NEW t \in Tasks, tk_rel_wai(t)
  PROVE  TimerInv'
<1>1. t \in Events /\ TypeInv /\ forget({t}) /\ timer_queue' = Dequeued(t)
  BY DEF tk_rel_wai, Events, TimerInv, Dequeued
<1>2. /\ time' \in [Events -> Nat] /\ asked' \in [Events -> Nat]
      /\ \A x \in Events \ {t} : time'[x] = time[x] /\ asked'[x] = asked[x]
  BY <1>1, Forgets
<1>3. Ends(t, "READY")
  BY <1>1, <1>2 DEF Ends, tk_rel_wai, TypeInv
<1> QED BY <1>1, <1>3, EndsKeeps

---------------------------------------------------------------------------

\* What event_loop says: it has taken the first n events, all due and none
\* of them a handler but the one called, and nothing due is next if none is.
Loops(n, h, clk) ==
  /\ n \in 0 .. Len(timer_queue)
  /\ \A i \in 1 .. n : time[timer_queue[i]] <= clk
  /\ \A i \in 1 .. n : timer_queue[i] \in Handlers => timer_queue[i] = h
  /\ h = NULL \/ h \in Handlers \cap FirstOf(timer_queue, n)
  /\ h = NULL /\ n < Len(timer_queue) => time[timer_queue[n + 1]] > clk
  /\ taken(n, h, clk)

\* Either way the event loop goes, it is of this form.
LEMMA EventLoops ==
  ASSUME TimerInv, NEW clk \in Nat, event_loop(clk)
  PROVE  \E n, h : Loops(n, h, clk)
<1>1. /\ Len(timer_queue) \in Nat
      /\ \A i \in 1 .. Len(timer_queue) : timer_queue[i] \in Started
  BY ListsPlaces DEF TimerInv, Ordered
<1>2. \A e \in Started : time[e] \in Nat
  BY DEF Started, TimerInv, TypeInv
<1>3. PICK n \in 0 .. Len(timer_queue) :
        /\ \A i \in 1 .. n : due(timer_queue[i], clk)
        /\ \A i \in 1 .. n - 1 : timer_queue[i] \notin Handlers
        /\ \/ n > 0 /\ timer_queue[n] \in Handlers /\ taken(n, timer_queue[n], clk)
           \/ /\ n > 0 => timer_queue[n] \notin Handlers
              /\ n < Len(timer_queue) => ~due(timer_queue[n + 1], clk)
              /\ taken(n, NULL, clk)
  BY DEF event_loop
<1>4. n \in Nat /\ n <= Len(timer_queue)
  BY <1>1
<1>5. \A i \in 1 .. n : time[timer_queue[i]] <= clk
  BY <1>3 DEF due
<1>6. \A i \in 1 .. n : i = n \/ i \in 1 .. n - 1
  BY <1>4
<1>7. CASE n > 0 /\ timer_queue[n] \in Handlers /\ taken(n, timer_queue[n], clk)
  <2>1. n \in 1 .. n
    BY <1>4, <1>7
  <2>2. timer_queue[n] \in FirstOf(timer_queue, n)
    BY <2>1 DEF FirstOf
  <2>3. timer_queue[n] # NULL
    BY <1>7 DEF Handlers
  <2>4. \A i \in 1 .. n : timer_queue[i] \in Handlers => timer_queue[i] = timer_queue[n]
    BY <1>3, <1>6
  <2>5. Loops(n, timer_queue[n], clk)
    BY <1>5, <1>7, <2>2, <2>3, <2>4 DEF Loops
  <2> QED BY <2>5
<1>8. CASE /\ n > 0 => timer_queue[n] \notin Handlers
           /\ n < Len(timer_queue) => ~due(timer_queue[n + 1], clk)
           /\ taken(n, NULL, clk)
  <2>1. \A i \in 1 .. n : timer_queue[i] \notin Handlers
    <3>1. n \in 1 .. n => n > 0
      BY <1>4
    <3> QED BY <1>3, <1>6, <1>8, <3>1
  <2>2. n < Len(timer_queue) => time[timer_queue[n + 1]] > clk
    <3>1. SUFFICES ASSUME n < Len(timer_queue) PROVE time[timer_queue[n + 1]] > clk
      OBVIOUS
    <3>2. n + 1 \in 1 .. Len(timer_queue)
      BY <1>1, <1>4, <3>1
    <3>3. time[timer_queue[n + 1]] \in Nat
      BY <1>1, <1>2, <3>2
    <3>4. ~(time[timer_queue[n + 1]] <= clk)
      BY <1>8, <3>1 DEF due
    <3> QED BY <3>3, <3>4
  <2>3. Loops(n, NULL, clk)
    BY <1>5, <1>8, <2>1, <2>2 DEF Loops
  <2> QED BY <2>3
<1> QED BY <1>3, <1>7, <1>8

\* The event loop keeps the invariant.
LEMMA LoopKeeps ==
  ASSUME TimerInv, NEW clk \in Nat, current_time' = clk, hw' \in Nat,
         NEW n, NEW h, Loops(n, h, clk)
  PROVE  TimerInv'
<1> DEFINE F    == FirstOf(timer_queue, n)
           over == F \ Cycs
           rest == SubSeq(timer_queue, n + 1, Len(timer_queue))
           P    == Started \ F
<1>1. /\ running' = h
      /\ stat' = [e \in Events |-> IF e \in over THEN IF e \in Alms THEN "STP" ELSE "READY"
                                   ELSE stat[e]]
      /\ time' = [e \in Events |-> IF e \in over THEN 0
                                   ELSE IF e = h THEN cyc_next_time(h, time[h], clk) ELSE time[e]]
      /\ timer_queue' = IF h \in Cycs THEN enqueue_tmeb(rest, h, time') ELSE rest
      /\ asked' = [e \in Events |-> IF e \in over THEN 0 ELSE asked[e]]
      /\ cyc' = cyc
  BY DEF Loops, taken, FirstOf
<1>2. /\ Len(timer_queue) \in Nat /\ n \in 0 .. Len(timer_queue)
      /\ \A i \in 1 .. Len(timer_queue) : timer_queue[i] \in Started
      /\ \A e \in Started : \E i \in 1 .. Len(timer_queue) : timer_queue[i] = e
  BY ListsPlaces DEF TimerInv, Ordered, Loops
<1>3. F \subseteq Started /\ Started \subseteq Events
  BY <1>2 DEF FirstOf, Started
<1>4. h = NULL \/ h \in Handlers \cap F
  BY DEF Loops
<1>5. F \cap Handlers \subseteq {h}
  BY DEF FirstOf, Loops
<1>6. h # NULL => time[h] <= clk /\ h \in Events /\ h \in Handlers /\ stat[h] = "STA"
  BY <1>3, <1>4 DEF FirstOf, Loops, Started
<1>7. h \in Cycs => h # NULL /\ h \notin over
  OBVIOUS
<1>8. h \in Cycs => NextCycle(cyc_next_time(h, time[h], clk), time[h], clk, cyc[h].tim)
  <2>1. h \in Cycs => time[h] \in Nat
    BY <1>6, <1>7 DEF TimerInv, TypeInv
  <2> QED BY <2>1, CycNextTime DEF TimerInv, TypeInv
<1>9. h \in Handlers \ Cycs => h \in over
  BY <1>4 DEF Handlers
<1>10. time' \in [Events -> Nat]
  <2>1. ASSUME NEW e \in Events PROVE time'[e] \in Nat
    <3>1. CASE e \in over
      BY <1>1, <3>1
    <3>2. CASE e \notin over /\ e = h
      <4>1. h \in Cycs
        BY <1>4, <1>9, <3>2 DEF Events, Handlers
      <4> QED BY <1>1, <1>8, <3>2, <4>1 DEF NextCycle
    <3>3. CASE e \notin over /\ e # h
      BY <1>1, <3>3 DEF TimerInv, TypeInv
    <3> QED BY <3>1, <3>2, <3>3
  <2>2. PICK new : new = time'
    OBVIOUS
  <2>3. new = [e \in Events |-> new[e]] /\ \A e \in Events : new[e] \in Nat
    BY <1>1, <2>1, <2>2
  <2>4. new \in [Events -> Nat]
    BY <2>3
  <2> QED BY <2>2, <2>4
<1>11. Agree(time', time, P)
  <2>1. ASSUME NEW x \in P PROVE time'[x] = time[x]
    <3>1. x \in Events /\ x \notin F
      BY <1>3
    <3>2. x # h
      BY <1>4, <3>1 DEF Events, Handlers
    <3> QED BY <1>1, <3>1, <3>2
  <2> QED BY <2>1 DEF Agree
<1>12. Ordered(rest, P, time)
  <2>1. Lists(timer_queue, Started) /\ InOrder(timer_queue, time)
    BY DEF TimerInv, Ordered
  <2>2. Lists(rest, P)
    BY <1>2, <2>1, RestList
  <2>3. InOrder(rest, time)
    BY <1>2, <2>1, RestOrder
  <2> QED BY <2>2, <2>3 DEF Ordered
<1>13. Started' = IF h \in Cycs THEN P \cup {h} ELSE P
  <2>1. \A e \in Events : stat'[e] = "STA" <=> stat[e] = "STA" /\ e \notin over
    BY <1>1
  <2>2. Started' = Started \ over
    BY <2>1 DEF Started
  <2>3. CASE h \in Cycs
    <3>1. h \in F /\ h \in Started
      BY <1>3, <1>4, <2>3
    <3>2. over = F \ {h}
      BY <1>5, <2>3 DEF Handlers
    <3> QED BY <2>2, <2>3, <3>1, <3>2
  <2>4. CASE h \notin Cycs
    <3>1. over = F
      BY <1>5, <2>4 DEF Handlers
    <3> QED BY <2>2, <2>4, <3>1
  <2> QED BY <2>3, <2>4
<1>14. Ordered(timer_queue', Started', time')
  <2>1. PICK new : new = time'
    OBVIOUS
  <2>2. new \in [Events -> Nat] /\ Agree(new, time, P)
    BY <1>10, <1>11, <2>1
  <2>3. P \in SUBSET Events
    BY <1>3
  <2>4. CASE h \in Cycs
    <3>1. h \in Events /\ h \notin P
      BY <1>4, <1>6, <1>7, <2>4
    <3> HIDE DEF P, rest
    <3>2. Ordered(enqueue_tmeb(rest, h, new), P \cup {h}, new)
      BY <1>12, <2>2, <2>3, <3>1, Enqueued
    <3> QED BY <1>1, <1>13, <2>1, <2>4, <3>2
  <2>5. CASE h \notin Cycs
    <3> HIDE DEF P, rest
    <3>1. Ordered(rest, P, new)
      BY <1>12, <2>2, OrderedSame
    <3> QED BY <1>1, <1>13, <2>1, <2>5, <3>1
  <2> QED BY <2>4, <2>5
<1>15. TypeInv'
  <2>1. stat' \in [Events -> {"NONE", "STP", "STA", "READY"}]
    BY <1>1 DEF TimerInv, TypeInv
  <2>2. asked' \in [Events -> Nat]
    BY <1>1 DEF TimerInv, TypeInv
  <2>3. running' \in Handlers \cup {NULL}
    BY <1>1, <1>4
  <2> QED BY <1>1, <1>10, <2>1, <2>2, <2>3 DEF TimerInv, TypeInv
<1>16. DueInv'
  <2>1. SUFFICES ASSUME h = NULL, NEW e \in P PROVE time'[e] > clk
    BY <1>1, <1>7, <1>13 DEF DueInv
  <2>2. PICK k \in 1 .. Len(timer_queue) : timer_queue[k] = e
    BY <1>2, <2>1
  <2>3. k \notin 1 .. n
    BY <2>1, <2>2 DEF FirstOf
  <2>4. n + 1 \in 1 .. Len(timer_queue) /\ n < Len(timer_queue) /\ (k = n + 1 \/ n + 1 < k)
    BY <1>2, <2>2, <2>3
  <2>5. time[timer_queue[n + 1]] > clk
    BY <2>1, <2>4 DEF Loops
  <2>6. time[timer_queue[n + 1]] <= time[e]
    <3>1. CASE k = n + 1
      <4>1. time[e] \in Nat
        BY <1>3, <2>1 DEF TimerInv, TypeInv
      <4> QED BY <2>2, <3>1, <4>1
    <3>2. CASE n + 1 < k
      BY <2>2, <2>4, <3>2 DEF TimerInv, Ordered, InOrder
    <3> QED BY <2>4, <3>1, <3>2
  <2>7. time'[e] = time[e] /\ time[e] \in Nat /\ time[timer_queue[n + 1]] \in Nat
    <3>1. timer_queue[n + 1] \in Events /\ e \in Events
      BY <1>2, <1>3, <2>1, <2>4
    <3> QED BY <1>11, <2>1, <3>1 DEF Agree, TimerInv, TypeInv
  <2> QED BY <2>5, <2>6, <2>7
<1>17. AskedInv'
  <2>1. ASSUME NEW e \in P \ Cycs PROVE time'[e] = asked'[e]
    <3>1. e \in Events /\ e \notin over /\ e \in Started \ Cycs
      BY <1>3
    <3>2. time'[e] = time[e]
      BY <1>11 DEF Agree
    <3>3. asked'[e] = asked[e]
      BY <1>1, <3>1
    <3> QED BY <3>1, <3>2, <3>3 DEF TimerInv, AskedInv
  <2>2. ASSUME NEW e \in Started' \ Cycs PROVE e \in P \ Cycs
    BY <1>13
  <2> QED BY <2>1, <2>2 DEF AskedInv
<1> QED BY <1>14, <1>15, <1>16, <1>17 DEF TimerInv

\* A timer interrupt, and the return of a handler to it, are rounds of the
\* event loop.
LEMMA InterruptLoops ==
  ASSUME TimerInv, timer_handler \/ handler_return
  PROVE  /\ event_loop(current_time') /\ current_time' \in Nat /\ hw' \in Nat
         /\ \E n, h : Loops(n, h, current_time')
<1>1. current_time' \in Nat /\ hw' \in Nat
  BY DEF timer_handler, handler_return, TimerInv, TypeInv
<1>2. event_loop(current_time')
  <2>1. handler_return => current_time' = current_time
    BY DEF handler_return
  <2> QED BY <2>1 DEF timer_handler, handler_return
<1>3. PICK clk : clk = current_time'
  OBVIOUS
<1>4. \E n, h : Loops(n, h, clk)
  BY <1>1, <1>2, <1>3, EventLoops
<1> QED BY <1>1, <1>2, <1>3, <1>4

\* They keep the invariant.
LEMMA InterruptKeeps ==
  ASSUME TimerInv, timer_handler \/ handler_return
  PROVE  TimerInv'
<1>1. PICK clk : clk = current_time'
  OBVIOUS
<1>2. PICK n, h : Loops(n, h, clk)
  BY <1>1, InterruptLoops
<1> QED BY <1>1, <1>2, InterruptLoops, LoopKeeps

---------------------------------------------------------------------------

\* Initially nothing is started and the queue is empty.
LEMMA InitTimer == TimerInit => TimerInv
<1> SUFFICES ASSUME TimerInit PROVE TimerInv
  OBVIOUS
<1>1. Started = {}
  BY DEF TimerInit, Started
<1>2. Ordered(timer_queue, Started, time)
  BY <1>1, NothingListed DEF TimerInit, Ordered, InOrder
<1>3. TypeInv
  BY DEF TimerInit, TypeInv, NoCycle
<1> QED BY <1>1, <1>2, <1>3 DEF TimerInv, DueInv, AskedInv

\* Time that passes, and an alarm handler defined, keep the invariant.
LEMMA StillKeeps ==
  ASSUME TimerInv,
         Elapse \/ UNCHANGED vars \/ \E a \in Alms : tk_cre_alm(a)
  PROVE  TimerInv'
<1>1. CASE Elapse \/ UNCHANGED vars
  <2>1. UNCHANGED <<current_time, timer_queue, time, stat, cyc, running, asked>>
    BY <1>1 DEF Elapse, vars
  <2>2. hw' \in Nat
    BY <1>1 DEF Elapse, vars, TimerInv, TypeInv
  <2> QED BY <2>1, <2>2, Unmoved
<1>2. CASE \E a \in Alms : tk_cre_alm(a)
  <2>1. PICK a \in Alms : tk_cre_alm(a)
    BY <1>2
  <2>2. /\ UNCHANGED <<current_time, hw, running, timer_queue, time, cyc, asked>>
        /\ stat[a] = "NONE" /\ stat' = [stat EXCEPT ![a] = "STP"]
        /\ stat \in [Events -> {"NONE", "STP", "STA", "READY"}]
    BY <2>1 DEF tk_cre_alm, clock, TimerInv, TypeInv
  <2>3. Started' = Started
    BY <2>2 DEF Started
  <2>4. stat' \in [Events -> {"NONE", "STP", "STA", "READY"}]
    BY <2>2
  <2> QED BY <2>2, <2>3, <2>4 DEF TimerInv, TypeInv, DueInv, AskedInv
<1> QED BY <1>1, <1>2

\* TimerInv is inductive: every call and every round of the timer interrupt
\* keeps it (timer.c, time_calls.c).
THEOREM TimerInductive == TimerSpec => []TimerInv
<1>1. TimerInit => TimerInv
  BY InitTimer
<1>2. TimerInv /\ [Next]_vars => TimerInv'
  <2> SUFFICES ASSUME TimerInv, [Next]_vars PROVE TimerInv'
    OBVIOUS
  <2>1. CASE Elapse \/ UNCHANGED vars
    BY <2>1, StillKeeps
  <2>2. CASE timer_handler \/ handler_return
    BY <2>2, InterruptKeeps
  <2>3. ASSUME NEW c \in Cycs,
               \/ \E tim \in CycTims, phs, sta \in BOOLEAN, d \in Delays :
                    tk_cre_cyc(c, tim, phs, sta, d)
               \/ tk_sta_cyc(c) \/ tk_stp_cyc(c) \/ tk_del_cyc(c)
        PROVE  TimerInv'
    <3>1. c \in Handlers
      BY DEF Handlers
    <3>2. CASE \E tim \in CycTims, phs, sta \in BOOLEAN, d \in Delays :
                 tk_cre_cyc(c, tim, phs, sta, d)
      BY <3>2, CreCycKeeps
    <3>3. CASE tk_sta_cyc(c)
      BY <3>3, StaCycKeeps
    <3>4. CASE tk_stp_cyc(c)
      BY <3>1, <3>4, StopKeeps DEF tk_stp_cyc
    <3>5. CASE tk_del_cyc(c)
      BY <3>1, <3>5, DeleteKeeps DEF tk_del_cyc
    <3> QED BY <2>3, <3>2, <3>3, <3>4, <3>5
  <2>4. ASSUME NEW a \in Alms,
               \/ tk_cre_alm(a) \/ tk_stp_alm(a) \/ tk_del_alm(a)
               \/ \E d \in Delays : tk_sta_alm(a, d)
        PROVE  TimerInv'
    <3>1. a \in Handlers
      BY DEF Handlers
    <3>2. CASE tk_cre_alm(a)
      BY <3>2, StillKeeps
    <3>3. CASE tk_stp_alm(a)
      BY <3>1, <3>3, StopKeeps DEF tk_stp_alm
    <3>4. CASE tk_del_alm(a)
      BY <3>1, <3>4, DeleteKeeps DEF tk_del_alm
    <3>5. CASE \E d \in Delays : tk_sta_alm(a, d)
      BY <3>5, StaAlmKeeps
    <3> QED BY <2>4, <3>2, <3>3, <3>4, <3>5
  <2>5. ASSUME NEW t \in Tasks, tk_rel_wai(t) \/ \E d \in Delays : tk_dly_tsk(t, d)
        PROVE  TimerInv'
    BY <2>5, RelWaiKeeps, DlyTskKeeps
  <2> QED BY <2>1, <2>2, <2>3, <2>4, <2>5 DEF Next
<1> QED BY <1>1, <1>2, PTL DEF TimerSpec

\* The queue lists exactly the events that are started, in the order of
\* their times, and nothing due is left when the timer interrupt has ended,
\* whatever the handlers called by it start, stop or delete
\* (timer_handler, call_cychdr, call_almhdr).
THEOREM EventsStayOrdered == TimerSpec => []EventsAgree
<1>1. TimerInv => EventsAgree
  <2> SUFFICES ASSUME TimerInv PROVE EventsAgree
    OBVIOUS
  <2>1. Lists(timer_queue, Started) /\ InOrder(timer_queue, time)
    BY DEF TimerInv, Ordered
  <2>2. /\ DOMAIN timer_queue = 1 .. Len(timer_queue) /\ Len(timer_queue) \in Nat
        /\ \A i \in 1 .. Len(timer_queue) : timer_queue[i] \in Started
        /\ \A i, j \in 1 .. Len(timer_queue) : timer_queue[i] = timer_queue[j] => i = j
        /\ \A e \in Started : \E i \in 1 .. Len(timer_queue) : timer_queue[i] = e
    BY <2>1, ListsPlaces
  <2>3. ASSUME NEW e \in Events
        PROVE  stat[e] = "STA" <=> e \in {timer_queue[i] : i \in DOMAIN timer_queue}
    BY <2>2 DEF Started
  <2>4. ASSUME NEW i \in DOMAIN timer_queue, NEW j \in DOMAIN timer_queue, i < j
        PROVE  timer_queue[i] # timer_queue[j] /\ time[timer_queue[i]] <= time[timer_queue[j]]
    <3>1. i # j
      BY <2>2, <2>4
    <3> QED BY <2>1, <2>2, <2>4, <3>1 DEF InOrder
  <2>5. ASSUME running = NULL, NEW i \in DOMAIN timer_queue
        PROVE  time[timer_queue[i]] > current_time
    BY <2>2, <2>5 DEF TimerInv, DueInv
  <2> QED BY <2>3, <2>4, <2>5 DEF EventsAgree
<1> QED BY <1>1, TimerInductive, PTL

\* However many of its cycles have passed unserved, a cyclic handler that is
\* called is next called at the first cycle after the present time
\* (cyc_next_time in call_cychdr).
THEOREM CyclesStayInPhase == TimerSpec => CyclesKept
<1> DEFINE A == \A c \in Cycs : running' = c /\ (timer_handler \/ handler_return) =>
                  /\ time'[c] \in current_time' + 1 .. current_time' + cyc[c].tim
                  /\ (time'[c] - time[c]) % cyc[c].tim = 0
<1>1. TimerInv => A
  <2> SUFFICES ASSUME TimerInv, NEW c \in Cycs, running' = c, timer_handler \/ handler_return
               PROVE  /\ time'[c] \in current_time' + 1 .. current_time' + cyc[c].tim
                      /\ (time'[c] - time[c]) % cyc[c].tim = 0
    OBVIOUS
  <2>1. PICK clk : clk = current_time'
    OBVIOUS
  <2>2. PICK n, h : Loops(n, h, clk)
    BY <2>1, InterruptLoops
  <2>3. clk \in Nat
    BY <2>1, InterruptLoops
  <2>4. h = c
    BY <2>2 DEF Loops, taken
  <2>5. c \in FirstOf(timer_queue, n) /\ c \in Events
    BY <2>2, <2>4 DEF Loops, Events, Handlers
  <2>6. time[c] <= clk /\ time[c] \in Nat /\ cyc[c].tim \in Nat \ {0}
    BY <2>2, <2>5 DEF Loops, FirstOf, TimerInv, TypeInv
  <2>7. time'[c] = cyc_next_time(c, time[c], clk)
    BY <2>2, <2>4, <2>5 DEF Loops, taken
  <2>8. NextCycle(cyc_next_time(c, time[c], clk), time[c], clk, cyc[c].tim)
    BY <2>3, <2>6, CycNextTime DEF TimerInv, TypeInv
  <2>9. PICK t, m : t = time'[c] /\ m = cyc[c].tim
    OBVIOUS
  <2>10. NextCycle(t, time[c], clk, m)
    BY <2>7, <2>8, <2>9
  <2>11. t \in Nat /\ t > clk /\ t <= clk + m /\ (t - time[c]) % m = 0
    BY <2>6, <2>10 DEF NextCycle
  <2>12. t \in clk + 1 .. clk + m
    BY <2>3, <2>6, <2>9, <2>11
  <2> QED BY <2>1, <2>9, <2>11, <2>12
<1>2. TimerInv => [A]_vars
  BY <1>1
<1>3. TimerSpec => [][A]_vars
  <2> HIDE DEF A
  <2> QED BY <1>2, TimerInductive, PTL
<1> QED BY <1>3 DEF CyclesKept

\* No alarm handler is called and no delay ends before the time asked for
\* has passed: the hardware counter at the call is added to the time
\* (adjust_time in timer_insert_reltim and alm_timer_insert).
THEOREM NothingEndsEarly == TimerSpec => NeverEarly
<1> DEFINE A == \A e \in Alms \cup Tasks :
                  stat[e] = "STA" /\ stat'[e] # "STA" /\ (timer_handler \/ handler_return)
                    => current_time' + hw' >= asked[e]
<1>1. TimerInv => A
  <2> SUFFICES ASSUME TimerInv, NEW e \in Alms \cup Tasks, stat[e] = "STA",
                      stat'[e] # "STA", timer_handler \/ handler_return
               PROVE  current_time' + hw' >= asked[e]
    OBVIOUS
  <2>1. PICK clk : clk = current_time'
    OBVIOUS
  <2>2. PICK n, h : Loops(n, h, clk)
    BY <2>1, InterruptLoops
  <2>3. clk \in Nat /\ hw' \in Nat
    BY <2>1, InterruptLoops
  <2>4. e \in Events /\ e \in Started \ Cycs
    BY DEF Events, Handlers, Started
  <2>5. e \in FirstOf(timer_queue, n)
    BY <2>2, <2>4 DEF Loops, taken, FirstOf
  <2>6. time[e] <= clk
    BY <2>2, <2>5 DEF Loops, FirstOf
  <2>7. asked[e] = time[e] /\ time[e] \in Nat
    BY <2>4 DEF TimerInv, AskedInv, TypeInv
  <2> QED BY <2>1, <2>3, <2>6, <2>7
<1>2. TimerInv => [A]_vars
  BY <1>1
<1>3. TimerSpec => [][A]_vars
  <2> HIDE DEF A
  <2> QED BY <1>2, TimerInductive, PTL
<1> QED BY <1>3 DEF NeverEarly
=============================================================================

------------------------------- MODULE Mutex -------------------------------
(***************************************************************************)
(* Mutexes (mutex.c): ownership, hand-over, priority inheritance along     *)
(* chains of owners, and priority ceilings.                                *)
(*                                                                         *)
(* A suspended task is one that makes no call here; wait disabling ends    *)
(* waits as release_wait does.  Any READY task may be the running one.     *)
(***************************************************************************)
EXTENDS FiniteSets, WaitQueue

CONSTANTS
  Tasks,      \* the tasks
  Mutexes,    \* the mutex identifiers
  NUM_PRI,    \* number of task priorities; 0 is the most urgent one
  Deadlocks,  \* do the tasks lock in orders that can close a cycle?
  NULL        \* no task, no mutex

ASSUME MtxAssumption == IsFiniteSet(Tasks) /\ NULL \notin Tasks \cup Mutexes
ASSUME MtxPriAssumption == NUM_PRI \in Nat \ {0}
ASSUME DeadlocksAssumption == Deadlocks \in BOOLEAN

VARIABLES
  tcb,    \* the task control blocks
  mtxcb,  \* the mutex control blocks
  chain   \* calls of change_task_priority still to be made, none at rest

vars == <<tcb, mtxcb, chain>>

Pri   == 0 .. NUM_PRI - 1
TSTAT == {"DORMANT", "READY", "WAIT"}

\* wid is the mutex waited for, mtxlist the mutexes the task owns.
TCB   == [ state : TSTAT, priority : Pri, bpriority : Pri,
           wid : Mutexes \cup {NULL}, mtxlist : Seq(Mutexes) ]
MTXCB == [ mtxid : BOOLEAN, mtxatr : {"TFIFO", "TPRI", "INHERIT", "CEILING"},
           ceilpri : Pri, mtxtsk : Tasks \cup {NULL}, wait_queue : Seq(Tasks) ]

alive(t) == tcb[t].state # "DORMANT"

\* The code works on the blocks in several steps; s is their state between
\* two of them, with the call change_task_priority that is made next.
Now == [tcb |-> tcb, mtxcb |-> mtxcb, chain |-> chain]

Becomes(s) ==
  /\ tcb' = s.tcb
  /\ mtxcb' = s.mtxcb
  /\ chain' = s.chain

---------------------------------------------------------------------------
(* Priorities *)

priority(s) == [t \in Tasks |-> s.tcb[t].priority]

mtx_waited(s, m) == s.mtxcb[m].wait_queue # << >>

mtx_head_pri(s, m) == s.tcb[Head(s.mtxcb[m].wait_queue)].priority

\* The priorities the mutex m demands of its owner.
demands(s, m) ==
  CASE s.mtxcb[m].mtxatr = "CEILING" -> {s.mtxcb[m].ceilpri}
    [] s.mtxcb[m].mtxatr = "INHERIT" /\ mtx_waited(s, m) -> {mtx_head_pri(s, m)}
    [] OTHER -> {}

\* The most urgent of p and what the mutexes owned by t demand.
highest(s, t, p) ==
  Min({p} \cup UNION {demands(s, m) : m \in Range(s.tcb[t].mtxlist)})

calls(s, t, p) == [s EXCEPT !.chain = <<[tcb |-> t, pri |-> p]>>]

\* release_mutex without a mutex to release.
reset_priority(s, t) ==
  LET p == highest(s, t, s.tcb[t].bpriority)
  IN IF p # s.tcb[t].priority THEN calls(s, t, p) ELSE s

requeued(s, t) ==
  [s EXCEPT !.mtxcb[s.tcb[t].wid].wait_queue =
     queue_insert_tpri(QueRemove(@, t), t, priority(s))]

\* Mutant: the owner follows its waiters upwards only.
mtx_chg_pri_raises(s, t, oldpri) ==
  LET m     == s.tcb[t].wid
      owner == s.mtxcb[m].mtxtsk
  IN IF s.mtxcb[m].mtxatr = "INHERIT" /\ s.tcb[owner].priority > s.tcb[t].priority
     THEN calls(requeued(s, t), owner, s.tcb[t].priority)
     ELSE requeued(s, t)

\* The hook for a priority change of t, which waits.
mtx_chg_pri(s, t, oldpri) ==
  LET m     == s.tcb[t].wid
      owner == s.mtxcb[m].mtxtsk
      s1    == requeued(s, t)
  IN IF s.mtxcb[m].mtxatr # "INHERIT" THEN s1
     ELSE IF s.tcb[owner].priority > s.tcb[t].priority
     THEN calls(s1, owner, s.tcb[t].priority)
     ELSE IF s.tcb[owner].priority = oldpri THEN reset_priority(s1, owner)
     ELSE s1

\* change_task_priority up to the call it ends with, if any.
change_one(s) ==
  LET t  == s.chain[1].tcb
      s1 == [s EXCEPT !.tcb[t].priority = s.chain[1].pri, !.chain = << >>]
  IN IF s.tcb[t].state = "WAIT" /\ s.mtxcb[s.tcb[t].wid].mtxatr # "TFIFO"
     THEN mtx_chg_pri(s1, t, s.tcb[t].priority)
     ELSE s1

\* The calls it ends with, at most MAX_CHAIN of them.
MAX_CHAIN == 2 * Cardinality(Tasks)

change_task_priority(s) ==
  LET after[i \in 0 .. MAX_CHAIN] ==
        IF i = 0 THEN s
        ELSE LET before == after[i - 1]
             IN IF before.chain = << >> THEN before ELSE change_one(before)
  IN after[MAX_CHAIN]

set_priority(s, t, p) == change_task_priority(calls(s, t, p))

\* m is no longer owned by t.
release_mutex(s, t, m) ==
  change_task_priority(reset_priority([s EXCEPT !.tcb[t].mtxlist = RemoveFirst(@, m)], t))

---------------------------------------------------------------------------
(* Ownership and waiting *)

\* A task becomes the owner of m.
own(s, t, m) ==
  LET s1 == [s EXCEPT !.mtxcb[m].mtxtsk = t, !.tcb[t].mtxlist = <<m>> \o @]
  IN IF s1.mtxcb[m].mtxatr = "CEILING" /\ s1.tcb[t].priority > s1.mtxcb[m].ceilpri
     THEN set_priority(s1, t, s1.mtxcb[m].ceilpri)
     ELSE s1

\* Of a task that waits.
wait_release(s, t) ==
  [s EXCEPT !.mtxcb[s.tcb[t].wid].wait_queue = QueRemove(@, t),
            !.tcb[t].state = "READY",
            !.tcb[t].wid   = NULL]

\* Of all that wait for m.
wait_delete(s, m) ==
  [s EXCEPT !.mtxcb[m].wait_queue = << >>,
            !.tcb = [t \in Tasks |->
                       IF t \in Range(s.mtxcb[m].wait_queue)
                       THEN [@[t] EXCEPT !.state = "READY", !.wid = NULL] ELSE @[t]]]

\* Mutant: m goes to the last waiter.
hand_over_last(s, m) ==
  IF mtx_waited(s, m)
  THEN LET next == Last(s.mtxcb[m].wait_queue)
       IN own(wait_release(s, next), next, m)
  ELSE [s EXCEPT !.mtxcb[m].mtxtsk = NULL]

\* m goes to the first waiter, or is free.
hand_over(s, m) ==
  IF mtx_waited(s, m)
  THEN LET next == Head(s.mtxcb[m].wait_queue)
       IN own(wait_release(s, next), next, m)
  ELSE [s EXCEPT !.mtxcb[m].mtxtsk = NULL]

\* The hook for the end of the wait of t for m, out of the queue by now.
mtx_rel_wai(s, t, m) ==
  LET owner == s.mtxcb[m].mtxtsk
  IN IF s.mtxcb[m].mtxatr = "INHERIT" /\ s.tcb[owner].priority = s.tcb[t].priority
     THEN change_task_priority(reset_priority(s, owner))
     ELSE s

signal_all_mutex(s, t) ==
  LET list == s.tcb[t].mtxlist
      after[i \in 0 .. Len(list)] ==
        IF i = 0 THEN s ELSE hand_over(after[i - 1], list[i])
  IN after[Len(list)]

---------------------------------------------------------------------------
(* Calls *)

tk_cre_mtx(m, atr, ceilpri) ==
  /\ ~mtxcb[m].mtxid
  /\ mtxcb' = [mtxcb EXCEPT ![m] = [ mtxid |-> TRUE, mtxatr |-> atr, ceilpri |-> ceilpri,
                                     mtxtsk |-> NULL, wait_queue |-> << >> ]]
  /\ UNCHANGED <<tcb, chain>>

Unused == [ mtxid |-> FALSE, mtxatr |-> "TFIFO", ceilpri |-> 0, mtxtsk |-> NULL,
            wait_queue |-> << >> ]

\* Mutant: nothing is done about the owner.
tk_del_mtx_owned(m) ==
  /\ mtxcb[m].mtxid
  /\ Becomes([wait_delete(Now, m) EXCEPT !.mtxcb[m] = Unused])

\* The owner keeps being named as such until its priority has been adjusted.
tk_del_mtx(m) ==
  /\ mtxcb[m].mtxid
  /\ LET s == IF mtxcb[m].mtxtsk = NULL THEN Now
              ELSE release_mutex(Now, mtxcb[m].mtxtsk, m)
     IN Becomes([wait_delete(s, m) EXCEPT !.mtxcb[m] = Unused])

\* The owners of what the tasks of S wait for are in S.
closed(S) ==
  \A u \in S : tcb[u].state = "WAIT" => mtxcb[tcb[u].wid].mtxtsk \in S

\* A wait of t for m closes a cycle.
cycle(t, m) ==
  \A S \in SUBSET Tasks : mtxcb[m].mtxtsk \in S /\ closed(S) => t \in S

\* The owner of m inherits the priority of t.
raise_owner(s, t, m) ==
  LET owner == s.mtxcb[m].mtxtsk
  IN IF s.mtxcb[m].mtxatr = "INHERIT" /\ s.tcb[owner].priority > s.tcb[t].priority
     THEN set_priority(s, owner, s.tcb[t].priority)
     ELSE s

make_wait(s, t, m) ==
  [s EXCEPT !.tcb[t].state = "WAIT", !.tcb[t].wid = m,
            !.mtxcb[m].wait_queue = IF s.mtxcb[m].mtxatr = "TFIFO" THEN Append(@, t)
                                    ELSE queue_insert_tpri(@, t, priority(s))]

tk_loc_mtx_u(t, m) ==
  /\ tcb[t].state = "READY"
  /\ mtxcb[m].mtxid
  /\ mtxcb[m].mtxtsk # t
  /\ mtxcb[m].mtxatr = "CEILING" => tcb[t].bpriority >= mtxcb[m].ceilpri
  /\ \/ mtxcb[m].mtxtsk = NULL /\ Becomes(own(Now, t, m))
     \/ /\ mtxcb[m].mtxtsk # NULL
        /\ Deadlocks \/ ~cycle(t, m)
        /\ Becomes(make_wait(raise_owner(Now, t, m), t, m))

tk_unl_mtx(t, m) ==
  /\ tcb[t].state = "READY"
  /\ mtxcb[m].mtxid
  /\ mtxcb[m].mtxtsk = t
  /\ Becomes(hand_over(release_mutex(Now, t, m), m))

\* Timeout, tk_rel_wai, or tk_dis_wai.
release_wait(t) ==
  /\ tcb[t].state = "WAIT"
  /\ LET m == tcb[t].wid IN Becomes(mtx_rel_wai(wait_release(Now, t), t, m))

\* Of a task that waits, without a change of its state.
wait_cancel(s, t) == [s EXCEPT !.mtxcb[s.tcb[t].wid].wait_queue = QueRemove(@, t)]

\* What is done about the wait of a task before it is terminated.
end_wait(s, t) ==
  IF s.tcb[t].state = "WAIT" THEN mtx_rel_wai(wait_cancel(s, t), t, s.tcb[t].wid) ELSE s

\* Also tk_ext_tsk, by the task itself.  The state of t is not changed
\* before make_dormant, whose priority is the initial one, some priority.
tk_ter_tsk(t) ==
  /\ alive(t)
  /\ \E p \in Pri :
       Becomes([signal_all_mutex(end_wait(Now, t), t) EXCEPT
                  !.tcb[t] = [ state |-> "DORMANT", priority |-> p, bpriority |-> p,
                               wid |-> NULL, mtxlist |-> << >> ]])

tk_sta_tsk(t) ==
  /\ tcb[t].state = "DORMANT"
  /\ tcb' = [tcb EXCEPT ![t].state = "READY"]
  /\ UNCHANGED <<mtxcb, chain>>

\* The mutexes whose ceiling limits the priority of t.
ceilings(t) ==
  {m \in Range(tcb[t].mtxlist) \cup ({tcb[t].wid} \ {NULL}) : mtxcb[m].mtxatr = "CEILING"}

chg_pri_mutex(t, p) == \A m \in ceilings(t) : p >= mtxcb[m].ceilpri

tk_chg_pri(t, p) ==
  /\ chg_pri_mutex(t, p)
  /\ Becomes(set_priority([Now EXCEPT !.tcb[t].bpriority = p], t, highest(Now, t, p)))

MtxInit ==
  /\ tcb \in [Tasks -> {[ state |-> "READY", priority |-> p, bpriority |-> p,
                          wid |-> NULL, mtxlist |-> << >> ] : p \in Pri}]
  /\ mtxcb = [m \in Mutexes |-> Unused]
  /\ chain = << >>

TaskStep(t) ==
  \/ \E m \in Mutexes : tk_loc_mtx_u(t, m) \/ tk_unl_mtx(t, m)
  \/ release_wait(t)
  \/ tk_sta_tsk(t)
  \/ \E p \in Pri : tk_chg_pri(t, p)

MtxNext ==
  \/ \E m \in Mutexes, atr \in {"TFIFO", "TPRI", "INHERIT"} : tk_cre_mtx(m, atr, 0)
  \/ \E m \in Mutexes, ceilpri \in Pri : tk_cre_mtx(m, "CEILING", ceilpri)
  \/ \E m \in Mutexes : tk_del_mtx(m)
  \/ \E t \in Tasks : TaskStep(t) \/ tk_ter_tsk(t)

MtxSpec == MtxInit /\ [][MtxNext]_vars
---------------------------------------------------------------------------
(* Properties *)

ListsAgree ==
  \A t \in Tasks :
    /\ IsInjective(tcb[t].mtxlist)
    /\ Range(tcb[t].mtxlist) = {m \in Mutexes : mtxcb[m].mtxtsk = t}
    /\ tcb[t].mtxlist # << >> => alive(t)

QueuesAgree ==
  /\ \A t \in Tasks : tcb[t].state = "WAIT" => mtxcb[tcb[t].wid].mtxtsk \in Tasks \ {t}
  /\ \A m \in Mutexes :
       /\ IsInjective(mtxcb[m].wait_queue)
       /\ Range(mtxcb[m].wait_queue) = {t \in Tasks : tcb[t].state = "WAIT" /\ tcb[t].wid = m}

\* A task is the owner of exactly the mutexes in its list, and only while it is
\* alive; the queue of a mutex holds the tasks that wait for it, once each, and
\* they wait only for what somebody else owns (mutex.c:163, 290, 373).
OwnershipAgrees == ListsAgree /\ QueuesAgree

QueuesInPriorityOrder ==
  \A m \in Mutexes :
    mtxcb[m].mtxatr # "TFIFO" =>
      LET q == mtxcb[m].wait_queue
      IN \A i \in 1 .. Len(q) - 1 : tcb[q[i]].priority <= tcb[q[i + 1]].priority

CeilingsObeyed ==
  \A t \in Tasks : \A m \in ceilings(t) : tcb[t].bpriority >= mtxcb[m].ceilpri

\* A task runs at the most urgent of its base priority, the ceilings and the
\* first waiters of its mutexes (comment at release_mutex, mutex.c:104): never
\* below, which would invert priorities, and never above, after they are gone;
\* the queues follow the priorities, and no base priority exceeds a ceiling.
PriorityIsHighest ==
  /\ \A t \in Tasks : tcb[t].priority = highest(Now, t, tcb[t].bpriority)
  /\ QueuesInPriorityOrder
  /\ CeilingsObeyed

\* A mutex passes from task to task only to one that waited for it, before
\* all that go on waiting.
HandedToFirst ==
  [][\A m \in Mutexes :
       LET new == mtxcb'[m].mtxtsk
       IN mtxcb[m].mtxtsk # NULL /\ new \notin {NULL, mtxcb[m].mtxtsk} =>
            /\ new \in Range(mtxcb[m].wait_queue)
            /\ \A u \in Range(mtxcb'[m].wait_queue) :
                 IF mtxcb[m].mtxatr = "TFIFO"
                 THEN \E i, j \in DOMAIN mtxcb[m].wait_queue :
                        i < j /\ mtxcb[m].wait_queue[i] = new /\ mtxcb[m].wait_queue[j] = u
                 ELSE tcb[new].priority <= tcb'[u].priority]_vars

============================================================================

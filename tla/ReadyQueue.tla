---------------------------- MODULE ReadyQueue ----------------------------
(***************************************************************************)
(* The ready queue of kernel/tkernel/src/ready_queue.h as pure operators.  *)
(*                                                                         *)
(* A ready queue is a record `rq`.  Beside the fields of RDYQUE it keeps   *)
(* the TCB fields that the functions of ready_queue.h read and write       *)
(* (slicecnt, klocked, klockwait) and the waiter lists of the kernel locks *)
(* (OBJLOCK.wtskq, SVCLOCK.wtskq): TCB.tskque links a task into exactly    *)
(* one of these lists, so deleting a task from "its" list is one operation *)
(* on all of them.  The priority is passed as an argument because          *)
(* change_task_priority reads and writes it between two calls.             *)
(***************************************************************************)
EXTENDS WaitQueue

CONSTANTS
  Tasks,    \* the TCBs of tcb_table
  NULL,     \* the null TCB pointer
  NUM_PRI,  \* number of task priorities; 0 is the most urgent one
  Locks     \* the kernel locks tasks may queue for

ASSUME NullAssumption == NULL \notin Tasks
ASSUME PriAssumption  == NUM_PRI \in Nat \ {0}

Pri == 0 .. NUM_PRI - 1
TCB == Tasks \cup {NULL}

RDYQUE ==
  [ top_priority : 0 .. NUM_PRI,
    tskque       : [Pri -> Seq(Tasks)],
    bitmap       : SUBSET Pri,
    klocktsk     : TCB,
    slicecnt     : [Tasks -> Nat],
    klocked      : [Tasks -> BOOLEAN],
    klockwait    : [Tasks -> BOOLEAN],
    wtskq        : [Locks -> Seq(Tasks)] ]

(***************************************************************************)
(* sys/queue.h: QueInsert at the end is Append; QueRemove unlinks a task   *)
(* from the list it is on, whichever that is.                              *)
(***************************************************************************)
Unlink(qs, t)   == [i \in DOMAIN qs |-> QueRemove(qs[i], t)]

\* BitSearch1 over the bitmap from bit p upward; NUM_PRI when no bit is set.
BitSearch1(bitmap, p) ==
  LET set == {i \in bitmap : i >= p}
  IN IF set = {} THEN NUM_PRI ELSE CHOOSE i \in set : \A j \in set : i <= j

---------------------------------------------------------------------------

ready_queue_initialize ==
  [ top_priority |-> NUM_PRI,
    tskque       |-> [p \in Pri |-> << >>],
    bitmap       |-> {},
    klocktsk     |-> NULL,
    slicecnt     |-> [t \in Tasks |-> 0],
    klocked      |-> [t \in Tasks |-> FALSE],
    klockwait    |-> [t \in Tasks |-> FALSE],
    wtskq        |-> [l \in Locks |-> << >>] ]

ready_queue_top(rq) ==
  IF rq.klocktsk # NULL THEN rq.klocktsk
  ELSE IF rq.top_priority = NUM_PRI THEN NULL
  ELSE Head(rq.tskque[rq.top_priority])

\* A task linked at either end of its priority queue: the lines
\* ready_queue_insert and ready_queue_insert_top share.
Linked(rq, t, p, q) ==
  [rq EXCEPT !.tskque[p]    = q,
             !.bitmap       = @ \cup {p},
             !.klocktsk     = IF rq.klocked[t] THEN t ELSE @,
             !.top_priority = IF p < @ THEN p ELSE @]

\* Mutant: at the head of its priority.
ready_queue_insert_at_head(rq, t, p) ==
  Linked([rq EXCEPT !.slicecnt[t] = 0], t, p, <<t>> \o rq.tskque[p])

ready_queue_insert(rq, t, p) ==
  Linked([rq EXCEPT !.slicecnt[t] = 0], t, p, Append(rq.tskque[p], t))

\* What ready_queue_insert returns: has top_priority been raised?
ready_queue_insert_raises(rq, p) == p < rq.top_priority

ready_queue_insert_top(rq, t, p) ==
  Linked(rq, t, p, <<t>> \o rq.tskque[p])

ready_queue_delete(rq, t, p) ==
  LET klocktsk == IF rq.klocktsk = t THEN NULL ELSE rq.klocktsk
      tskque   == Unlink(rq.tskque, t)
      bitmap   == IF tskque[p] = << >> THEN rq.bitmap \ {p} ELSE rq.bitmap
  IN IF rq.klockwait[t]
     THEN [rq EXCEPT !.klocktsk     = klocktsk,
                     !.wtskq        = Unlink(@, t),
                     !.klockwait[t] = FALSE]
     ELSE [rq EXCEPT !.klocktsk     = klocktsk,
                     !.tskque       = tskque,
                     !.bitmap       = bitmap,
                     !.top_priority = IF tskque[p] = << >> /\ p = @
                                      THEN BitSearch1(bitmap, p) ELSE @]

ready_queue_rotate(rq, p) ==
  LET q == rq.tskque[p]
  IN IF q = << >> THEN rq
     ELSE [rq EXCEPT !.tskque[p] = Append(Tail(q), Head(q)),
                     !.slicecnt[Head(q)] = 0]

ready_queue_move_last(rq, t, p) ==
  LET tskque == Unlink(rq.tskque, t)
  IN [rq EXCEPT !.tskque      = [tskque EXCEPT ![p] = Append(tskque[p], t)],
                !.wtskq       = Unlink(@, t),
                !.slicecnt[t] = 0]
---------------------------------------------------------------------------

\* The queues hold exactly the tasks of R, each once and under its priority,
\* and bitmap and top_priority summarise them.
Consistent(rq, R, pri) ==
  /\ \A p \in Pri :
       /\ Range(rq.tskque[p]) = {t \in R : pri[t] = p}
       /\ IsInjective(rq.tskque[p])
       /\ p \in rq.bitmap <=> rq.tskque[p] # << >>
  /\ rq.top_priority = BitSearch1(rq.bitmap, 0)
===========================================================================

----------------------------- MODULE WaitQueue -----------------------------
(***************************************************************************)
(* The queue operations of tasks (queue.h, wait.h): a queue is a sequence  *)
(* of tasks, pri gives the priority of each.                               *)
(***************************************************************************)
EXTENDS Integers, SequencesExt

\* Unlinks the task from the queue it is on; nothing if it is on none.
QueRemove(q, t) == RemoveFirst(q, t)

\* Behind all tasks of the same or a more urgent priority.
queue_insert_tpri(q, t, pri) ==
  LET i == SelectInSeq(q, LAMBDA u : pri[u] > pri[t])
  IN IF i = 0 THEN Append(q, t) ELSE InsertAt(q, i, t)
=============================================================================

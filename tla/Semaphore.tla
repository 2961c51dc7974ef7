----------------------------- MODULE Semaphore -----------------------------
(***************************************************************************)
(* A semaphore (semaphore.c): counts that tasks take several at a time,    *)
(* waiting in arrival or priority order.  Without TA_CNT only the first    *)
(* waiter is looked at; with it a signal serves whoever it is enough for.  *)
(***************************************************************************)
EXTENDS Wait

CONSTANT MAXSEM  \* maxsem of the semaphore

MaxsemAssumption == MAXSEM \in Nat \ {0}

Counts == 1 .. MAXSEM

\* The control block: TA_CNT is `cnt`.
SEMCB ==
  [ objid : {"sem"}, tpri : BOOLEAN, nodiswai : BOOLEAN, cnt : BOOLEAN,
    semcnt : 0 .. MAXSEM, wait_queue : Seq(Tasks), recv_queue : {<< >>} ]

total(q) == FoldLeft(LAMBDA n, t : n + winfo[t], 0, q)

---------------------------------------------------------------------------

\* The longest run of waiters from the head that g.semcnt is enough for, as
\* the loops of sem_chg_pri and, without TA_CNT, of tk_sig_sem find it.
served(g) ==
  LET q == g.wait_queue
  IN SubSeq(q, 1, CHOOSE n \in 0 .. Len(q) :
                    /\ total(SubSeq(q, 1, n)) <= g.semcnt
                    /\ n < Len(q) => total(SubSeq(q, 1, n + 1)) > g.semcnt)

\* With TA_CNT, everyone in turn that what is left is enough for.
served_any(g) ==
  FoldLeft(LAMBDA s, t : IF total(s) + winfo[t] <= g.semcnt THEN Append(s, t) ELSE s,
           << >>, g.wait_queue)

release(g, s) ==
  [ gcb |-> [g EXCEPT !.semcnt = @ - total(s),
                      !.wait_queue = SelectSeq(@, LAMBDA t : t \notin Range(s))],
    ok  |-> Range(s) ]

sem_chg_pri(g) == IF g.cnt THEN [gcb |-> g, ok |-> {}] ELSE release(g, served(g))

sem_rel_wai(g) == sem_chg_pri(g)

---------------------------------------------------------------------------

tk_cre_sem(tpri, cnt, nodiswai, isemcnt) ==
  /\ gcb.objid = "none"
  /\ gcb' = [ objid |-> "sem", tpri |-> tpri, nodiswai |-> nodiswai, cnt |-> cnt,
              semcnt |-> isemcnt, wait_queue |-> << >>, recv_queue |-> << >> ]
  /\ ok' = {}
  /\ UNCHANGED taskvars

tk_del_sem == gcb.objid = "sem" /\ wait_delete

\* Mutant: the waiters a signal is not enough for are passed over.
signalled_any(g) == release(g, served_any(g))

signalled(g) == release(g, IF g.cnt THEN served_any(g) ELSE served(g))

fits(cnt) == cnt <= MAXSEM - gcb.semcnt

tk_sig_sem(cnt) ==
  /\ gcb.objid = "sem"
  /\ fits(cnt)
  /\ wait_release_ok(signalled([gcb EXCEPT !.semcnt = @ + cnt]))
  /\ UNCHANGED <<priority, waitmask>>

takes(t, cnt) == (gcb.cnt \/ gcb_top_of_wait_queue(gcb, t)) /\ gcb.semcnt >= cnt

\* With TMO_POL the last case returns E_TMOUT at once and changes nothing.
tk_wai_sem_u(t, cnt) ==
  /\ Running(t)
  /\ gcb.objid = "sem"
  /\ ~is_diswai(gcb, t)
  /\ \/ /\ takes(t, cnt)
        /\ gcb' = [gcb EXCEPT !.semcnt = @ - cnt]
        /\ ok' = {}
        /\ UNCHANGED taskvars
     \/ ~takes(t, cnt) /\ gcb_make_wait(t, cnt)

SemCalls ==
  \/ \E tpri, cnt, nodiswai \in BOOLEAN, isemcnt \in 0 .. MAXSEM :
       tk_cre_sem(tpri, cnt, nodiswai, isemcnt)
  \/ tk_del_sem
  \/ \E cnt \in Counts : tk_sig_sem(cnt)
  \/ \E t \in Tasks, cnt \in Counts : tk_wai_sem_u(t, cnt)

---------------------------------------------------------------------------
(* Properties *)

\* Nobody waits for counts that are there: not the first waiter, and with
\* TA_CNT no one; after every way a waiter before it can leave.
SemNoServableWaiter ==
  gcb.objid = "sem" =>
    \A i \in DOMAIN gcb.wait_queue :
      gcb.cnt \/ i = 1 => gcb.semcnt < winfo[gcb.wait_queue[i]]

\* No count is made or lost: what the semaphore gains and what waits that end
\* with E_OK asked for in a step adds up to what was signalled.
CountsConserved ==
  [][gcb.objid = "sem" /\ gcb'.objid = "sem" =>
       LET gain == gcb'.semcnt - gcb.semcnt + total(SetToSeq(ok'))
       IN \/ gain = 0
          \/ gain \in Counts /\ tk_sig_sem(gain)
          \/ -gain \in Counts /\ \E t \in Tasks : tk_wai_sem_u(t, -gain)]_waitvars
=============================================================================

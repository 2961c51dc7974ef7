----------------------------- MODULE EventFlag -----------------------------
(***************************************************************************)
(* An event flag (eventflag.c): tasks wait for bits of a pattern, all of   *)
(* them or any (TWF_ORW), and clear the pattern (TWF_CLR) or the bits they *)
(* waited for (TWF_BITCLR) when they go on.  One tk_set_flg goes through   *)
(* the queue once and may release several of them.                         *)
(***************************************************************************)
EXTENDS Wait

CONSTANTS
  Bits,  \* the bits of flgptn
  Modes  \* the combinations of TWF_ORW, TWF_CLR and TWF_BITCLR in use

ModesAssumption == Modes \subseteq SUBSET {"ORW", "CLR", "BITCLR"}

Ptn   == SUBSET Bits
FLGCB == [ objid : {"flg"}, tpri : BOOLEAN, nodiswai : BOOLEAN, wmul : BOOLEAN,
           flgptn : Ptn, wait_queue : Seq(Tasks), recv_queue : {<< >>} ]

\* What a task waits for: waiptn, and wfmode as a set.
WaitInfo == [waiptn : Ptn \ {{}}, wfmode : Modes]

eventflag_cond(flgptn, w) ==
  IF "ORW" \in w.wfmode THEN flgptn \cap w.waiptn # {} ELSE w.waiptn \subseteq flgptn

\* The pattern after a task that waited for w has gone on.
cleared(flgptn, w) ==
  IF "CLR" \in w.wfmode THEN {}
  ELSE IF "BITCLR" \in w.wfmode THEN flgptn \ w.waiptn
  ELSE flgptn

\* Mutant: the tasks of the queue are all looked at with the new pattern.
set_flg_at_once(g) ==
  LET R == {t \in Range(g.wait_queue) : eventflag_cond(g.flgptn, winfo[t])}
  IN [ gcb |-> [g EXCEPT !.wait_queue = SelectSeq(@, LAMBDA t : t \notin R),
                         !.flgptn = IF \E t \in R : "CLR" \in winfo[t].wfmode
                                    THEN {} ELSE @],
       ok  |-> R ]

\* The loop of tk_set_flg.  Its early exits come when the pattern is empty,
\* and then no condition holds.
set_flg(g) ==
  FoldLeft(LAMBDA h, t :
             IF eventflag_cond(h.gcb.flgptn, winfo[t])
             THEN [ gcb |-> [h.gcb EXCEPT !.wait_queue = QueRemove(@, t),
                                          !.flgptn = cleared(@, winfo[t])],
                    ok  |-> h.ok \cup {t} ]
             ELSE h,
           [gcb |-> g, ok |-> {}], g.wait_queue)

---------------------------------------------------------------------------

tk_cre_flg(tpri, wmul, nodiswai, iflgptn) ==
  /\ gcb.objid = "none"
  /\ gcb' = [ objid |-> "flg", tpri |-> tpri, nodiswai |-> nodiswai, wmul |-> wmul,
              flgptn |-> iflgptn, wait_queue |-> << >>, recv_queue |-> << >> ]
  /\ ok' = {}
  /\ UNCHANGED taskvars

tk_del_flg == gcb.objid = "flg" /\ wait_delete

tk_set_flg(setptn) ==
  /\ gcb.objid = "flg"
  /\ wait_release_ok(set_flg([gcb EXCEPT !.flgptn = @ \cup setptn]))
  /\ UNCHANGED <<priority, waitmask>>

tk_clr_flg(clrptn) ==
  /\ gcb.objid = "flg"
  /\ gcb' = [gcb EXCEPT !.flgptn = @ \cap clrptn]
  /\ ok' = {}
  /\ UNCHANGED taskvars

\* Without TA_WMUL one task at a time may wait.
single_wait(g) == g.wmul \/ g.wait_queue = << >>

tk_wai_flg_u(t, w) ==
  /\ Running(t)
  /\ gcb.objid = "flg"
  /\ single_wait(gcb)
  /\ ~is_diswai(gcb, t)
  /\ IF eventflag_cond(gcb.flgptn, w)
     THEN /\ gcb' = [gcb EXCEPT !.flgptn = cleared(@, w)]
          /\ ok' = {}
          /\ UNCHANGED taskvars
     ELSE gcb_make_wait(t, w)

FlgCalls ==
  \/ \E tpri, wmul, nodiswai \in BOOLEAN, iflgptn \in Ptn :
       tk_cre_flg(tpri, wmul, nodiswai, iflgptn)
  \/ tk_del_flg
  \/ \E ptn \in Ptn : tk_set_flg(ptn) \/ tk_clr_flg(ptn)
  \/ \E t \in Tasks, w \in WaitInfo : tk_wai_flg_u(t, w)

---------------------------------------------------------------------------
(* Properties *)

\* Nobody waits for a condition that holds, though one set releases several
\* tasks and each may take bits from the next.
NoSatisfiedWaiter ==
  gcb.objid = "flg" =>
    \A t \in Range(gcb.wait_queue) : ~eventflag_cond(gcb.flgptn, winfo[t])

\* Of the tasks one set releases, none was behind one that clears the
\* pattern, and none needed all of its bits where one before it cleared some.
BitsConsumedInOrder ==
  [][gcb.objid = "flg" =>
       \A t, u \in ok' :
         Ahead(gcb.wait_queue, t, u) =>
           /\ "CLR" \notin winfo[t].wfmode
           /\ "BITCLR" \in winfo[t].wfmode /\ "ORW" \notin winfo[u].wfmode
                => winfo[t].waiptn \cap winfo[u].waiptn = {}]_waitvars
============================================================================

----------------------------- MODULE FixedPool -----------------------------
(***************************************************************************)
(* A fixed-size memory pool (mempfix.c).  Blocks that were never used are  *)
(* taken from `unused` on, those that came back from freelist.  The calls  *)
(* run under the kernel lock of the pool, which serialises them (KLock);   *)
(* waits end and priorities change beside it, but only in critical         *)
(* sections, each of which is in one piece here.                           *)
(***************************************************************************)
EXTENDS Wait

CONSTANT MPFCNT  \* mpfcnt, the number of blocks

MpfcntAssumption == MPFCNT \in Nat \ {0}

Blocks == 0 .. MPFCNT - 1

\* held is history: the blocks the program holds.
MPFCB == [ objid : {"mpf"}, tpri : BOOLEAN, nodiswai : BOOLEAN,
           wait_queue : Seq(Tasks), recv_queue : {<< >>}, frbcnt : 0 .. MPFCNT,
           unused : 0 .. MPFCNT, freelist : Seq(Blocks), held : SUBSET Blocks ]

tk_cre_mpf(tpri, nodiswai) ==
  /\ gcb.objid = "none"
  /\ gcb' = [ objid |-> "mpf", tpri |-> tpri, nodiswai |-> nodiswai,
              wait_queue |-> << >>, recv_queue |-> << >>, frbcnt |-> MPFCNT,
              unused |-> 0, freelist |-> << >>, held |-> {} ]
  /\ ok' = {}
  /\ UNCHANGED taskvars

tk_del_mpf == gcb.objid = "mpf" /\ wait_delete

get_block(g) ==
  LET b == IF g.freelist # << >> THEN Head(g.freelist) ELSE g.unused
  IN [g EXCEPT !.freelist = IF @ # << >> THEN Tail(@) ELSE @,
               !.unused = IF g.freelist = << >> THEN @ + 1 ELSE @,
               !.frbcnt = @ - 1, !.held = @ \cup {b}]

tk_get_mpf_u(t) ==
  /\ gcb.objid = "mpf"
  /\ Running(t)
  /\ ~is_diswai(gcb, t)
  /\ IF gcb.frbcnt > 0
     THEN gcb' = get_block(gcb) /\ ok' = {} /\ UNCHANGED taskvars
     ELSE gcb_make_wait(t, "MPF")

\* A program gives back what it holds.  The first waiter gets the block.
tk_rel_mpf(b) ==
  /\ gcb.objid = "mpf"
  /\ b \in gcb.held
  /\ wait_release_ok(
       IF gcb.wait_queue # << >>
       THEN [gcb |-> left(Head(gcb.wait_queue)), ok |-> {Head(gcb.wait_queue)}]
       ELSE [ gcb |-> [gcb EXCEPT !.freelist = <<b>> \o @,
                                  !.frbcnt = @ + 1, !.held = @ \ {b}],
              ok  |-> {} ])
  /\ UNCHANGED <<priority, waitmask>>

MpfCalls ==
  \/ \E tpri, nodiswai \in BOOLEAN : tk_cre_mpf(tpri, nodiswai)
  \/ tk_del_mpf
  \/ \E t \in Tasks : tk_get_mpf_u(t)
  \/ \E b \in Blocks : tk_rel_mpf(b)

---------------------------------------------------------------------------
(* Properties *)

\* Every block is held, in freelist or still unused, one of them only, and
\* frbcnt counts those that are not held.
BlocksAccounted ==
  gcb.objid = "mpf" =>
    LET fresh == gcb.unused .. MPFCNT - 1
        free  == Range(gcb.freelist)
    IN /\ IsInjective(gcb.freelist)
       /\ gcb.held = Blocks \ (free \cup fresh)
       /\ free \cap fresh = {}
       /\ gcb.frbcnt = Cardinality(free \cup fresh)

\* Nobody waits while a block is free, though no hook looks for waiters.
MpfNoServableWaiter ==
  gcb.objid = "mpf" /\ gcb.wait_queue # << >> => gcb.frbcnt = 0
=============================================================================

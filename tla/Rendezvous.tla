----------------------------- MODULE Rendezvous -----------------------------
(***************************************************************************)
(* Rendezvous ports (rendezvous.c).  A task calls a port and waits until   *)
(* another has accepted the call and replied to it; which calls and which  *)
(* acceptors go together is a matter of bit patterns.  What an acceptor    *)
(* knows of the call is a number: it may reply, or forward the call to     *)
(* another port, long after the caller stopped waiting or called again.    *)
(* Every call is one critical section.                                     *)
(***************************************************************************)
EXTENDS FiniteSets, WaitQueue

CONSTANTS
  Tasks,      \* the tasks
  NUM_PRI,    \* number of task priorities; 0 is the most urgent one
  Ports,      \* the ports
  Bits,       \* the bits of patterns
  PorAtrs,    \* the attributes and reply sizes ports are created with
  RDVNO_MOD,  \* the numbers a task gives to its rendezvous before they repeat
  NoInfo,     \* winfo of a task that does not wait
  Masks,      \* bound: the wait masks tk_dis_wai is called with
  MaxDisabled \* bound: tasks with a disabled wait at a time

ASSUME RdvAssumption ==
  /\ NUM_PRI \in Nat \ {0}
  /\ RDVNO_MOD \in Nat \ {0}
  /\ PorAtrs \subseteq [tpri : BOOLEAN, nodiswai : BOOLEAN, maxrmsz : Nat]
  /\ Masks \subseteq SUBSET {"CAL", "ACP", "RDV"}
  /\ MaxDisabled \in Nat

VARIABLES
  priority,  \* TCB.priority
  waitmask,  \* TCB.waitmask, of the three wait factors here
  winfo,     \* TCB.wspec, wid, winfo and nodiswai: what a waiting task waits for
  wrdvno,    \* TCB.wrdvno without the task's own number
  por,       \* the port control blocks
  known      \* history: the numbers the program knows

vars == <<priority, waitmask, winfo, wrdvno, por, known>>

Ptn == SUBSET Bits \ {{}}
Pri == 0 .. NUM_PRI - 1

\* What a waiting task waits for; room is history: the reply size the caller
\* made room for.
WINFO ==
  [tskwait : {"CAL"}, nodiswai : BOOLEAN, wid : Ports, ptn : Ptn, room : Nat]
  \cup [tskwait : {"ACP"}, nodiswai : BOOLEAN, wid : Ports, ptn : Ptn]
  \cup [tskwait : {"RDV"}, nodiswai : BOOLEAN, rdvno : 0 .. RDVNO_MOD - 1,
        maxrmsz : Nat, room : Nat]

ASSUME NoInfoAssumption == NoInfo \notin WINFO

Cal(p, ptn, room) ==
  [tskwait |-> "CAL", nodiswai |-> por[p].nodiswai, wid |-> p, ptn |-> ptn,
   room |-> room]
Acp(p, ptn) ==
  [tskwait |-> "ACP", nodiswai |-> por[p].nodiswai, wid |-> p, ptn |-> ptn]
Rdv(p, no, nodis, room) ==
  [tskwait |-> "RDV", nodiswai |-> nodis, rdvno |-> no, maxrmsz |-> por[p].maxrmsz,
   room |-> room]

Waits(t, f) == winfo[t] # NoInfo /\ winfo[t].tskwait = f

\* A control block; a free one holds nothing.
PORCB(atr) ==
  [ porid |-> TRUE, tpri |-> atr.tpri, nodiswai |-> atr.nodiswai, maxrmsz |-> atr.maxrmsz,
    call_queue |-> << >>, accept_queue |-> << >> ]

free_porcb ==
  [ porid |-> FALSE, tpri |-> FALSE, nodiswai |-> FALSE, maxrmsz |-> 0,
    call_queue |-> << >>, accept_queue |-> << >> ]

is_diswai(p, t, f) == f \in waitmask[t] /\ ~por[p].nodiswai

---------------------------------------------------------------------------
(* Rendezvous numbers.  A number is known to the program from the accept   *)
(* on; age counts the rendezvous its task began since then, and live is    *)
(* whether the one it was made for still goes on.  A program forgets a     *)
(* number before it is given again: this is the one assumption made here,  *)
(* and with 16 bits it stands for 65535 rendezvous.                        *)

stale(K, t) == {[e EXCEPT !.live = @ /\ e.tskid # t] : e \in K}

learned(K, t, live) ==
  {[e EXCEPT !.age = IF e.tskid = t THEN @ + 1 ELSE @] :
     e \in {f \in stale(K, t) : ~(f.tskid = t /\ f.age = RDVNO_MOD - 1)}}
  \cup {[tskid |-> t, rdvno |-> wrdvno[t], age |-> 0, live |-> live]}

\* Mutant: the number is not moved on.
gen_rdvno_same(t) == UNCHANGED wrdvno

\* The number is wrdvno[t]; the next one is another.
gen_rdvno(t) == wrdvno' = [wrdvno EXCEPT ![t] = (@ + 1) % RDVNO_MOD]

---------------------------------------------------------------------------
(* Waits *)

\* The first of q whose pattern meets ptn, in a set if there is one.
first_match(q, ptn) ==
  LET i == SelectInSeq(q, LAMBDA t : winfo[t].ptn \cap ptn # {})
  IN IF i = 0 THEN {} ELSE {q[i]}

\* The wait of t ends.
release(t) ==
  /\ winfo' = [winfo EXCEPT ![t] = NoInfo]
  /\ por' = [p \in Ports |-> [por[p] EXCEPT !.call_queue = QueRemove(@, t),
                                            !.accept_queue = QueRemove(@, t)]]
  /\ known' = stale(known, t)

\* Mutant: the end of a rendezvous is not looked at as a wait of its own.
established_unchecked(p, c, a, nodis, size) ==
  /\ gen_rdvno(c)
  /\ winfo' = [winfo EXCEPT ![a] = NoInfo, ![c] = Rdv(p, wrdvno[c], nodis, size)]
  /\ known' = learned(known, c, TRUE)
  /\ por' = [por EXCEPT ![p].call_queue = QueRemove(@, c),
                        ![p].accept_queue = QueRemove(@, a)]

\* The call of c is accepted by a at port p.  c waits for the end of the
\* rendezvous, or is released where that is disabled; either of them, but not
\* both, may have waited for the other at p.
established(p, c, a, nodis, size) ==
  LET goes_on == ~is_diswai(p, c, "RDV")
  IN /\ gen_rdvno(c)
     /\ winfo' = [winfo EXCEPT ![a] = NoInfo,
                    ![c] = IF goes_on THEN Rdv(p, wrdvno[c], nodis, size) ELSE NoInfo]
     /\ known' = learned(known, c, goes_on)
     /\ por' = [por EXCEPT ![p].call_queue = QueRemove(@, c),
                           ![p].accept_queue = QueRemove(@, a)]

\* t waits for an acceptor at p.
called(p, t, ptn, size) ==
  /\ winfo' = [winfo EXCEPT ![t] = Cal(p, ptn, size)]
  /\ por' = [por EXCEPT ![p].call_queue = IF por[p].tpri
                                          THEN queue_insert_tpri(@, t, priority)
                                          ELSE Append(@, t)]
  /\ known' = stale(known, t)
  /\ UNCHANGED wrdvno

---------------------------------------------------------------------------

tk_cre_por(p, atr) ==
  /\ ~por[p].porid
  /\ por' = [por EXCEPT ![p] = PORCB(atr)]
  /\ UNCHANGED <<priority, waitmask, winfo, wrdvno, known>>

\* Those who wait for the end of a rendezvous go on waiting.
tk_del_por(p) ==
  /\ por[p].porid
  /\ LET R == Range(por[p].call_queue \o por[p].accept_queue)
     IN winfo' = [t \in Tasks |-> IF t \in R THEN NoInfo ELSE winfo[t]]
  /\ por' = [por EXCEPT ![p] = free_porcb]
  /\ UNCHANGED <<priority, waitmask, wrdvno, known>>

\* With TMO_POL a call that finds no acceptor is an error.
tk_cal_por_u(t, p, ptn) ==
  /\ winfo[t] = NoInfo
  /\ por[p].porid
  /\ ~is_diswai(p, t, "CAL")
  /\ \/ \E a \in first_match(por[p].accept_queue, ptn) :
          established(p, t, a, por[p].nodiswai, por[p].maxrmsz)
     \/ /\ first_match(por[p].accept_queue, ptn) = {}
        /\ called(p, t, ptn, por[p].maxrmsz)
  /\ UNCHANGED <<priority, waitmask>>

\* A caller's wait becomes that for the end of the rendezvous, in place.
tk_acp_por_u(t, p, ptn) ==
  /\ winfo[t] = NoInfo
  /\ por[p].porid
  /\ ~is_diswai(p, t, "ACP")
  /\ \/ \E c \in first_match(por[p].call_queue, ptn) :
          established(p, c, t, winfo[c].nodiswai, winfo[c].room)
     \/ /\ first_match(por[p].call_queue, ptn) = {}
        /\ winfo' = [winfo EXCEPT ![t] = Acp(p, ptn)]
        /\ por' = [por EXCEPT ![p].accept_queue = Append(@, t)]
        /\ UNCHANGED <<wrdvno, known>>
  /\ UNCHANGED <<priority, waitmask>>

\* Does the task wait for the end of the rendezvous with this number?
rdv_of(c, no) == Waits(c, "RDV") /\ winfo[c].rdvno = no

\* Mutant: acceptors that wait at the port are not looked at.
tk_fwd_por_waits(e, p, ptn) ==
  LET c == e.tskid
  IN /\ por[p].porid
     /\ rdv_of(c, e.rdvno)
     /\ por[p].maxrmsz <= winfo[c].maxrmsz
     /\ \/ is_diswai(p, c, "CAL") /\ release(c) /\ UNCHANGED wrdvno
        \/ ~is_diswai(p, c, "CAL") /\ called(p, c, ptn, winfo[c].room)
     /\ UNCHANGED <<priority, waitmask>>

\* By anyone who knows the number.
tk_fwd_por(e, p, ptn) ==
  LET c == e.tskid
      A == first_match(por[p].accept_queue, ptn)
  IN /\ por[p].porid
     /\ rdv_of(c, e.rdvno)
     /\ por[p].maxrmsz <= winfo[c].maxrmsz
     /\ \/ is_diswai(p, c, "CAL") /\ release(c) /\ UNCHANGED wrdvno
        \/ /\ ~is_diswai(p, c, "CAL")
           /\ \/ \E a \in A : established(p, c, a, por[p].nodiswai, winfo[c].room)
              \/ A = {} /\ called(p, c, ptn, winfo[c].room)
     /\ UNCHANGED <<priority, waitmask>>

tk_rpl_rdv(e) ==
  /\ rdv_of(e.tskid, e.rdvno)
  /\ release(e.tskid)
  /\ UNCHANGED <<priority, waitmask, wrdvno>>

\* A timeout, tk_rel_wai or the termination of the task.
release_wait(t) ==
  /\ winfo[t] # NoInfo
  /\ release(t)
  /\ UNCHANGED <<priority, waitmask, wrdvno>>

tk_dis_wai(t, mask) ==
  /\ Cardinality({u \in Tasks \ {t} : waitmask[u] # {}}) < MaxDisabled
  /\ waitmask' = [waitmask EXCEPT ![t] = mask]
  /\ IF winfo[t] # NoInfo /\ winfo[t].tskwait \in mask /\ ~winfo[t].nodiswai
     THEN release(t)
     ELSE UNCHANGED <<winfo, por, known>>
  /\ UNCHANGED <<priority, wrdvno>>

tk_ena_wai(t) ==
  /\ waitmask' = [waitmask EXCEPT ![t] = {}]
  /\ UNCHANGED <<priority, winfo, wrdvno, por, known>>

\* A task in a queue of callers by priority takes another place.
tk_chg_pri(t, pri) ==
  /\ priority' = [priority EXCEPT ![t] = pri]
  /\ por' = IF Waits(t, "CAL") /\ por[winfo[t].wid].tpri
            THEN [por EXCEPT ![winfo[t].wid].call_queue =
                    queue_insert_tpri(QueRemove(@, t), t, priority')]
            ELSE por
  /\ UNCHANGED <<waitmask, winfo, wrdvno, known>>

Init ==
  /\ priority \in [Tasks -> Pri]
  /\ waitmask = [t \in Tasks |-> {}]
  /\ winfo = [t \in Tasks |-> NoInfo]
  /\ wrdvno = [t \in Tasks |-> 0]
  /\ por = [p \in Ports |-> free_porcb]
  /\ known = {}

Next ==
  \/ \E p \in Ports :
       \/ tk_del_por(p)
       \/ \E atr \in PorAtrs : tk_cre_por(p, atr)
       \/ \E ptn \in Ptn :
            \/ \E t \in Tasks : tk_cal_por_u(t, p, ptn) \/ tk_acp_por_u(t, p, ptn)
            \/ \E e \in known : tk_fwd_por(e, p, ptn)
  \/ \E e \in known : tk_rpl_rdv(e)
  \/ \E t \in Tasks :
       \/ release_wait(t)
       \/ tk_ena_wai(t)
       \/ \E mask \in Masks : tk_dis_wai(t, mask)
       \/ \E pri \in Pri : tk_chg_pri(t, pri)

RdvSpec == Init /\ [][Next]_vars

---------------------------------------------------------------------------
(* Properties *)

\* A number names the rendezvous it was made for as long as that goes on and
\* nothing afterwards, and who waits for the end of a rendezvous can be
\* replied to: timeouts, forwarding and later calls of the same task between.
NumberNamesItsRendezvous ==
  /\ \A e \in known : rdv_of(e.tskid, e.rdvno) <=> e.live
  /\ \A t \in Tasks : Waits(t, "RDV") => \E e \in known : e.tskid = t /\ e.live

\* The queues of a port hold those who call it and those who accept from it,
\* and no one who calls waits beside one who would accept the call.
NoMatchingPair ==
  \A p \in Ports :
    LET callers   == Range(por[p].call_queue)
        acceptors == Range(por[p].accept_queue)
    IN /\ callers = {t \in Tasks : Waits(t, "CAL") /\ winfo[t].wid = p}
       /\ acceptors = {t \in Tasks : Waits(t, "ACP") /\ winfo[t].wid = p}
       /\ \A c \in callers, a \in acceptors : winfo[c].ptn \cap winfo[a].ptn = {}

\* Through all the waits a call passes none is disabled, unless the port
\* forbids it, and a reply is never longer than what the caller made room for.
CallKeepsItsTerms ==
  \A t \in Tasks :
    /\ winfo[t] # NoInfo /\ winfo[t].tskwait \in waitmask[t]
         => winfo[t].nodiswai
    /\ Waits(t, "RDV") => winfo[t].maxrmsz <= winfo[t].room
=============================================================================

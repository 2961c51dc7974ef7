-------------------------- MODULE DriverInterface --------------------------
(***************************************************************************)
(* The driver interface library (gdrvif.c): the request queue between the  *)
(* processing functions the device manager calls in the tasks of programs  *)
(* and the tasks of a driver that accept requests and reply to them.       *)
(*                                                                         *)
(* A section under LockGDI is one step; a task is taken not to be released *)
(* while it waits for that lock, whose result the code does not look at.   *)
(* The device manager (Device.tla) is here as far as it calls the library: *)
(* requests are asynchronous, a request that is being started is not       *)
(* waited for, and no request comes back while an abort function runs.     *)
(***************************************************************************)
EXTENDS FiniteSets, WaitQueue

CONSTANTS
  Users,    \* the tasks that use the device
  Drivers,  \* the tasks of the driver
  Pkts,     \* the request packets
  MAXREQQ,  \* bound of maxreqq, the number of blocks of the queue
  limit,    \* requests of one direction at a time
  Kinds,    \* the kinds of requests in use
  Accepts,  \* the kinds each driver task accepts
  Cmds,     \* the user commands
  NONE      \* no task, no request, no block

RD == {"DREAD", "AREAD"}
WR == {"DWRITE", "AWRITE"}

\* Two tasks that accept the same kind would wait for the same bits.
DriverAssumption ==
  /\ Kinds \subseteq RD \cup WR
  /\ {limit, MAXREQQ} \subseteq Nat \ {0}
  /\ \A v \in Drivers : Accepts[v] \subseteq Kinds
  /\ \A v, w \in Drivers : v # w => Accepts[v] \cap Accepts[w] = {}
  /\ IsFiniteSet(Pkts)
  /\ Users \cap Drivers = {} /\ NONE \notin Users \cup Pkts \cup Nat
  /\ Cmds \cap (RD \cup WR \cup {"FREEQ_RD", "FREEQ_WR"}) = {}

VARIABLES
  gdi,       \* the blocks, freeq, acpq and the counts preq and acp
  pkt,       \* the request packets; tskid is the device manager's
  flgptn,    \* the bits of the event flag
  drqlock,   \* LockDRQ of each direction: the task that has it
  tev,       \* the tasks with the event GDI_TEV pending
  waitmask,  \* the wait tk_dis_wai forbids to each task
  st         \* where in the library each task is

gdivars == <<gdi, pkt, flgptn, drqlock, tev, waitmask, st>>

Rw(k)   == IF k \in RD THEN "FREEQ_RD" ELSE "FREEQ_WR"
DRQs    == 1 .. MAXREQQ
FreeDRQ == [req |-> NONE, wtid |-> NONE, done |-> "NotDone"]
FreePkt == [used |-> FALSE, kind |-> NONE, exinf |-> NONE, abort |-> FALSE, tskid |-> NONE]
User    == [at |-> "user", rs |-> << >>, complete |-> NONE, err |-> "none", aptn |-> {}]

\* GDefDevice
GdiInit ==
  /\ \E maxreqq \in DRQs :
       gdi = [drq |-> [d \in DRQs |-> FreeDRQ],
              freeq |-> [d \in 1 .. maxreqq |-> d], acpq |-> << >>,
              preq |-> [x \in {"FREEQ_RD", "FREEQ_WR"} |-> 0], acp |-> [k \in Kinds |-> 0]]
  /\ pkt = [r \in Pkts |-> FreePkt]
  /\ flgptn = {}
  /\ drqlock = [x \in {"FREEQ_RD", "FREEQ_WR"} |-> NONE]
  /\ tev = {}
  /\ waitmask = [t \in Users |-> "none"]
  /\ st = [x \in Users \cup Drivers |-> User]

Is(x, there)   == st[x].at = there
Move(x, there) == st' = [st EXCEPT ![x].at = there]
Kind(d)        == pkt[gdi.drq[d].req].kind
Aborting       == \E a \in Users : Is(a, "abort")

---------------------------------------------------------------------------
(* The event flag and the task event *)

waiptn(x) == IF x \in Drivers THEN Accepts[x] \cup Cmds ELSE {Rw(pkt[st[x].rs[1]].kind)}
acquired(x, ptn) == IF x \in Drivers THEN waiptn(x) \cap ptn ELSE {}
Asleep    == {x \in Users \cup Drivers : Is(x, "wai_flg")}

\* tk_set_flg with the bits P: who waits for one of them goes on and takes
\* its bits (TWF_BITCLR); no two wait for the same.  p is st as the caller
\* leaves it.
set_flg(P, p) ==
  LET ptn   == flgptn \cup P
      woken == IF P = {} THEN {} ELSE {x \in Asleep : waiptn(x) \cap ptn # {}}
  IN /\ flgptn' = ptn \ UNION {waiptn(x) : x \in woken}
     /\ st' = [x \in DOMAIN p |->
                 IF x \in woken THEN [p[x] EXCEPT !.at = "awake", !.aptn = acquired(x, ptn)]
                 ELSE p[x]]

\* tk_wai_flg: the bit is there, or the task waits, or may not wait
wai_flg(x) ==
  LET ptn == flgptn \cap waiptn(x)
      no  == x \in Users /\ waitmask[x] = "FLG"
  IN /\ Is(x, "empty")
     /\ st' = [st EXCEPT ![x].at = IF no THEN "tmout" ELSE IF ptn = {} THEN "wai_flg" ELSE "awake",
                         ![x].aptn = acquired(x, ptn)]
     /\ flgptn' = IF no THEN flgptn ELSE flgptn \ waiptn(x)
     /\ UNCHANGED <<gdi, pkt, drqlock, tev, waitmask>>

\* The timeout, or what remains of it, is over.
flg_timeout(x) ==
  /\ st[x].at \in {"empty", "wai_flg"}
  /\ Move(x, "tmout")
  /\ UNCHANGED <<gdi, pkt, flgptn, drqlock, tev, waitmask>>

\* tk_sig_tev to the tasks T, and tk_dis_wai for those of D, which releases
\* the wait it forbids; p as above
signal(T, D, p) ==
  /\ tev' = tev \cup {t \in T : ~Is(t, "wai_tev")}
  /\ st' = [x \in DOMAIN p |-> IF x \in T \cup D /\ Is(x, "wai_tev")
                               THEN [p[x] EXCEPT !.at = "collect",
                                                 !.err = IF x \in T THEN "event" ELSE "abort"]
                               ELSE p[x]]
dis_tev(D) == waitmask' = [t \in Users |-> IF t \in D THEN "TEV" ELSE waitmask[t]]

---------------------------------------------------------------------------
(* The queues; g is gdi as the caller changes it *)

\* The queue q when the blocks S have been unlinked.
without(q, S) ==
  LET rest[n \in 0 .. Len(q)] ==
        IF n = 0 THEN << >>
        ELSE IF q[n] \in S THEN rest[n - 1] ELSE Append(rest[n - 1], q[n])
  IN rest[Len(q)]

\* Mutant: the requests are still counted.
unqueued_counted(g, S) ==
  [g EXCEPT !.acpq = without(@, S),
            !.drq  = [d \in DRQs |-> IF d \in S THEN [@[d] EXCEPT !.done = "Done"] ELSE @[d]]]

\* Blocks that are still in the accept queue leave it, complete.
unqueued(g, S) ==
  [g EXCEPT !.acpq = without(@, S),
            !.acp  = [k \in Kinds |-> @[k] - Cardinality({d \in S : Kind(d) = k})],
            !.drq  = [d \in DRQs |-> IF d \in S THEN [@[d] EXCEPT !.done = "Done"] ELSE @[d]]]

\* Mutant: the count is compared when it has left the limit.
relDRQ_ptn_late(g, x) ==
  (IF g.freeq = << >> THEN DOMAIN g.preq ELSE {})
    \cup IF g.preq[x] - 1 = limit THEN {x} ELSE {}

\* gdi_relDRQ for a request of direction x: the bits it sets, the queues
relDRQ_ptn(g, x) ==
  (IF g.freeq = << >> THEN DOMAIN g.preq ELSE {})
    \cup IF g.preq[x] = limit THEN {x} ELSE {}

gdi_relDRQ(g, d, x) ==
  [g EXCEPT !.drq[d] = FreeDRQ, !.freeq = Append(@, d), !.preq[x] = @ - 1]

---------------------------------------------------------------------------
(* gdi_execfn *)

execfn(t, r, k) ==
  /\ Is(t, "user") /\ ~pkt[r].used
  /\ pkt' = [pkt EXCEPT ![r] = [FreePkt EXCEPT !.used = TRUE, !.kind = k, !.tskid = t]]
  /\ st' = [st EXCEPT ![t] = [User EXCEPT !.at = "lock_drq", !.rs = <<r>>]]
  /\ UNCHANGED <<gdi, flgptn, drqlock, tev, waitmask>>

LockDRQ(t) ==
  LET x == Rw(pkt[st[t].rs[1]].kind)
  IN /\ Is(t, "lock_drq")
     /\ \/ /\ drqlock[x] = NONE
           /\ drqlock' = [drqlock EXCEPT ![x] = t]
           /\ Move(t, "awake")
        \/ /\ drqlock[x] # NONE  \* a timeout, or tk_dis_wai
           /\ Move(t, "failed") /\ UNCHANGED drqlock
     /\ UNCHANGED <<gdi, pkt, flgptn, tev, waitmask>>

UnlockDRQ(t) == drqlock' = [x \in DOMAIN drqlock |-> IF drqlock[x] = t THEN NONE ELSE drqlock[x]]

\* gdi_getDRQ with LockGDI, and in the same section gdi_sndreq
getDRQ(t) ==
  LET r == st[t].rs[1]
      k == pkt[r].kind
      x == Rw(k)
      d == Head(gdi.freeq)
      g == [gdi EXCEPT !.freeq = Tail(@), !.preq[x] = @ + 1, !.drq[d].req = r]
  IN /\ Is(t, "awake")
     /\ IF gdi.preq[x] = limit \/ gdi.freeq = << >>
        THEN Move(t, "empty") /\ UNCHANGED <<gdi, pkt, flgptn, drqlock>>
        ELSE /\ UnlockDRQ(t)
             /\ pkt' = [pkt EXCEPT ![r].exinf = d]
             /\ IF pkt[r].abort
                THEN /\ gdi' = gdi_relDRQ(g, d, x)
                     /\ set_flg(relDRQ_ptn(g, x), [st EXCEPT ![t].at = "failed"])
                ELSE /\ gdi' = [g EXCEPT !.acpq = Append(@, d), !.acp[k] = @ + 1]
                     /\ set_flg(IF gdi.acp[k] = 0 THEN {k} ELSE {}, [st EXCEPT ![t].at = "queued"])
     /\ UNCHANGED <<tev, waitmask>>

getDRQ_fails(t) ==
  /\ Is(t, "tmout")
  /\ UnlockDRQ(t) /\ Move(t, "failed")
  /\ UNCHANGED <<gdi, pkt, flgptn, tev, waitmask>>

\* The device manager unregisters a request that could not be started; with
\* the extended SVC the wait mask ends.
execfn_is_over(t) ==
  LET r == st[t].rs[1]
  IN /\ st[t].at \in {"queued", "failed"} /\ ~Aborting
     /\ pkt' = [pkt EXCEPT ![r] = IF Is(t, "queued") THEN [@ EXCEPT !.tskid = NONE] ELSE FreePkt]
     /\ waitmask' = [waitmask EXCEPT ![t] = "none"]
     /\ st' = [st EXCEPT ![t] = User]
     /\ UNCHANGED <<gdi, flgptn, drqlock, tev>>

---------------------------------------------------------------------------
(* gdi_waitfn *)

Started(r) == pkt[r].used /\ pkt[r].tskid = NONE /\ pkt[r].exinf # NONE
                /\ \A t \in Users : ~Contains(st[t].rs, r)

\* For one request or all of rs; or by the task that closes the device, for
\* a request that nobody waits for.
waitfn(t, rs, closing) ==
  /\ Is(t, "user")
  /\ rs # << >> /\ \A r \in ToSet(rs) : Started(r)
  /\ closing => Len(rs) = 1 /\ ~Aborting
  /\ pkt' = [r \in Pkts |-> IF Contains(rs, r)
                            THEN [pkt[r] EXCEPT !.tskid = IF closing THEN NONE ELSE t,
                                                !.abort = @ \/ closing]
                            ELSE pkt[r]]
  /\ st' = [st EXCEPT ![t] = [User EXCEPT !.at = "mark", !.rs = rs]]
  /\ UNCHANGED <<gdi, flgptn, drqlock, tev, waitmask>>

Blocks(t)   == {pkt[r].exinf : r \in ToSet(st[t].rs)}
Complete(t) == SelectInSeq(st[t].rs, LAMBDA r : gdi.drq[pkt[r].exinf].done = "Done")

\* The first section: a complete request is taken; otherwise the blocks are
\* marked, and gdi_waitfn_abort ends a queued one or calls the driver's
\* abort function.
mark(t) ==
  LET n     == Complete(t)
      ended == {d \in Blocks(t) : pkt[gdi.drq[d].req].abort /\ gdi.drq[d].done = "NotDone"}
      unq   == ended \cap ToSet(gdi.acpq)
      g     == unqueued(gdi, unq)
  IN /\ Is(t, "mark")
     /\ IF n > 0
        THEN /\ st' = [st EXCEPT ![t].at = "release", ![t].complete = pkt[st[t].rs[n]].exinf]
             /\ UNCHANGED gdi
        ELSE /\ gdi' = [g EXCEPT !.drq =
                          [d \in DRQs |-> [g.drq[d] EXCEPT
                             !.wtid = IF d \in Blocks(t) THEN t ELSE @,
                             !.done = IF d \in ended \ unq THEN "Abort" ELSE @]]]
             /\ st' = [st EXCEPT ![t].at = IF unq = {} THEN "tev" ELSE "collect",
                                 ![t].err = "abort"]
     /\ UNCHANGED <<pkt, flgptn, drqlock, tev, waitmask>>

wai_tev(t) ==
  LET no == waitmask[t] = "TEV"
  IN /\ Is(t, "tev")
     /\ st' = [st EXCEPT ![t].at = IF no \/ t \in tev THEN "collect" ELSE "wai_tev",
                         ![t].err = IF no THEN "abort" ELSE "event"]
     /\ tev' = IF no THEN tev ELSE tev \ {t}
     /\ UNCHANGED <<gdi, pkt, flgptn, drqlock, waitmask>>

tev_timeout(t) ==
  /\ st[t].at \in {"tev", "wai_tev"} /\ pkt[st[t].rs[1]].tskid = t
  /\ st' = [st EXCEPT ![t].at = "collect", ![t].err = "tmout"]
  /\ UNCHANGED <<gdi, pkt, flgptn, drqlock, tev, waitmask>>

\* The second section, and then tk_wai_tev(TMO_POL) to clear the event
collect(t) ==
  LET n == Complete(t)
  IN /\ Is(t, "collect")
     /\ gdi' = [gdi EXCEPT !.drq = [d \in DRQs |-> IF d \in Blocks(t)
                                                   THEN [@[d] EXCEPT !.wtid = NONE] ELSE @[d]]]
     /\ st' = [st EXCEPT ![t].at = "clear",
                         ![t].complete = IF n = 0 THEN NONE ELSE pkt[st[t].rs[n]].exinf]
     /\ UNCHANGED <<pkt, flgptn, drqlock, tev, waitmask>>

clear(t) ==
  /\ Is(t, "clear")
  /\ tev' = IF waitmask[t] = "TEV" THEN tev ELSE tev \ {t}
  /\ Move(t, IF st[t].complete = NONE THEN "leave" ELSE "release")
  /\ UNCHANGED <<gdi, pkt, flgptn, drqlock, waitmask>>

release(t) ==
  LET d == st[t].complete
      x == Rw(Kind(d))
  IN /\ Is(t, "release")
     /\ gdi' = gdi_relDRQ(gdi, d, x)
     /\ set_flg(relDRQ_ptn(gdi, x), [st EXCEPT ![t].at = "leave"])
     /\ UNCHANGED <<pkt, drqlock, tev, waitmask>>

\* The device manager unregisters the complete request; closing, any one.
waitfn_is_over(t) ==
  /\ Is(t, "leave") /\ ~Aborting
  /\ pkt' = [r \in Pkts |->
               IF ~Contains(st[t].rs, r) THEN pkt[r]
               ELSE IF pkt[r].exinf = st[t].complete \/ pkt[r].tskid # t THEN FreePkt
               ELSE [pkt[r] EXCEPT !.tskid = NONE]]
  /\ waitmask' = [waitmask EXCEPT ![t] = "none"]
  /\ st' = [st EXCEPT ![t] = User]
  /\ UNCHANGED <<gdi, flgptn, drqlock, tev>>

---------------------------------------------------------------------------
(* gdi_abortfn: task a has the device manager abort what t waits for.      *)

abort_starts(a, t) ==
  LET rs == {r \in Pkts : pkt[r].tskid = t}
  IN /\ Is(a, "user") /\ a # t /\ rs # {} /\ ~Aborting
     /\ pkt' = [r \in Pkts |-> [pkt[r] EXCEPT !.abort = @ \/ rs = {r}]]
     /\ st' = [st EXCEPT ![a] = [User EXCEPT !.at = "abort", !.rs = st[t].rs]]
     /\ UNCHANGED <<gdi, flgptn, drqlock, tev, waitmask>>

\* gdi_abortreq
abortfn(a) ==
  LET r      == st[a].rs[1]
      t      == pkt[r].tskid
      d      == pkt[r].exinf
      queued == d # NONE /\ Contains(gdi.acpq, d)
      back   == [st EXCEPT ![a] = User]
  IN /\ Is(a, "abort")
     /\ CASE Len(st[a].rs) > 1 ->
               signal({}, {t}, back) /\ dis_tev({t}) /\ UNCHANGED gdi
          [] Len(st[a].rs) = 1 /\ d = NONE ->
               /\ waitmask' = [waitmask EXCEPT ![t] = "FLG"]
               /\ st' = [back EXCEPT ![t].at = IF Is(t, "wai_flg") THEN "tmout" ELSE @]
               /\ UNCHANGED <<gdi, tev>>
          [] Len(st[a].rs) = 1 /\ d # NONE /\ gdi.drq[d].req = NONE ->
               st' = back /\ UNCHANGED <<gdi, tev, waitmask>>
          [] Len(st[a].rs) = 1 /\ d # NONE /\ gdi.drq[d].req # NONE
               /\ (queued \/ gdi.drq[d].done = "Done") ->
               /\ gdi' = IF queued THEN unqueued(gdi, {d}) ELSE gdi
               /\ signal({}, {t}, back) /\ dis_tev({t})
          [] OTHER ->
               /\ gdi' = [gdi EXCEPT !.drq[d].done = "Abort"]
               /\ st' = back /\ UNCHANGED <<tev, waitmask>>
     /\ UNCHANGED <<pkt, flgptn, drqlock>>

---------------------------------------------------------------------------
(* The driver *)

\* The first request in the queue of a kind it accepts.  Bits that were
\* cleared though not used are set again.
GDI_Accept(v) ==
  LET i == SelectInSeq(gdi.acpq, LAMBDA d : Kind(d) \in Accepts[v])
      d == gdi.acpq[i]
  IN /\ st[v].at \in {"user", "awake"}
     /\ IF i > 0
        THEN /\ gdi' = [gdi EXCEPT !.acpq = QueRemove(@, d), !.acp[Kind(d)] = @ - 1]
             /\ IF pkt[gdi.drq[d].req].abort
                THEN /\ st' = [st EXCEPT ![v].at = "reply", ![v].complete = d]
                     /\ UNCHANGED flgptn
                ELSE /\ flgptn' = flgptn \cup (st[v].aptn \ (Cmds \cup {Kind(d)}))
                     /\ st' = [st EXCEPT ![v] = User]
        ELSE /\ IF st[v].aptn \cap Cmds # {} THEN st' = [st EXCEPT ![v] = User]
                ELSE st' = [st EXCEPT ![v] = [User EXCEPT !.at = "empty"]]
             /\ UNCHANGED <<gdi, flgptn>>
     /\ UNCHANGED <<pkt, drqlock, tev, waitmask>>

Accept_timeout(v) ==
  /\ Is(v, "tmout")
  /\ st' = [st EXCEPT ![v] = User]
  /\ UNCHANGED <<gdi, pkt, flgptn, drqlock, tev, waitmask>>

Reply(d, p) ==
  /\ gdi' = [gdi EXCEPT !.drq[d].done = "Done"]
  /\ signal({gdi.drq[d].wtid} \ {NONE}, {}, p)
  /\ UNCHANGED <<pkt, flgptn, drqlock, waitmask>>

\* To a request it has accepted
GDI_Reply(d) ==
  /\ gdi.drq[d].req # NONE /\ gdi.drq[d].done # "Done" /\ ~Contains(gdi.acpq, d)
  /\ \A v \in Drivers : ~(Is(v, "reply") /\ st[v].complete = d)
  /\ Reply(d, st)

\* In GDI_Accept, to one that was aborted
Reply_aborted(v) ==
  /\ Is(v, "reply")
  /\ Reply(st[v].complete, [st EXCEPT ![v].at = "awake", ![v].complete = NONE])

GDI_SendCmd(c) ==
  /\ c \notin flgptn
  /\ set_flg({c}, st)
  /\ UNCHANGED <<gdi, pkt, drqlock, tev, waitmask>>

\* All that is queued is aborted.
GRedefDevice ==
  LET D == ToSet(gdi.acpq)
      T == {gdi.drq[d].wtid : d \in D} \ {NONE}
  IN /\ D # {}
     /\ gdi' = [unqueued(gdi, D) EXCEPT !.acp = [k \in Kinds |-> 0]]
     /\ signal({}, T, st) /\ dis_tev(T)
     /\ UNCHANGED <<pkt, flgptn, drqlock>>

GdiNext ==
  \/ \E t \in Users :
       \/ \E r \in Pkts, k \in Kinds : execfn(t, r, k)
       \/ LockDRQ(t) \/ getDRQ(t) \/ getDRQ_fails(t) \/ execfn_is_over(t)
       \/ \E r \in Pkts, closing \in BOOLEAN : waitfn(t, <<r>>, closing)
       \/ \E rs \in SetToSeqs(Pkts) : waitfn(t, rs, FALSE)
       \/ mark(t) \/ wai_tev(t) \/ tev_timeout(t) \/ collect(t) \/ clear(t)
       \/ release(t) \/ waitfn_is_over(t)
       \/ \E u \in Users : abort_starts(t, u)
       \/ abortfn(t)
  \/ \E v \in Drivers : GDI_Accept(v) \/ Accept_timeout(v) \/ Reply_aborted(v)
  \/ \E x \in Users \cup Drivers : wai_flg(x) \/ flg_timeout(x)
  \/ \E d \in DRQs : GDI_Reply(d)
  \/ \E c \in Cmds : GDI_SendCmd(c)
  \/ GRedefDevice

GdiSpec == GdiInit /\ [][GdiNext]_gdivars

---------------------------------------------------------------------------
(* Properties *)

\* Every block is free, once, or belongs to the request that names it; the
\* accept queue holds those that are neither accepted nor complete; and the
\* counts by which tasks decide to wait or to set a bit are those of the
\* queues, however requests are aborted on their way.
BlocksAccounted ==
  LET busy == {d \in DRQs : gdi.drq[d].req # NONE}
  IN /\ IsInjective(gdi.freeq) /\ IsInjective(gdi.acpq) /\ ToSet(gdi.acpq) \subseteq busy
     /\ \A d \in ToSet(gdi.freeq) : gdi.drq[d] = FreeDRQ
     /\ \A d \in busy : pkt[gdi.drq[d].req].exinf = d
     /\ \A d \in ToSet(gdi.acpq) : gdi.drq[d].done = "NotDone"
     /\ \A k \in Kinds : gdi.acp[k] = Cardinality({d \in ToSet(gdi.acpq) : Kind(d) = k})
     /\ \A x \in DOMAIN gdi.preq : gdi.preq[x] = Cardinality({d \in busy : Rw(Kind(d)) = x})
                                     /\ gdi.preq[x] <= limit

\* Nobody is left asleep: a task that waits for completion has no complete
\* request and is the one the reply will signal; one that waits for a block
\* cannot have one; a driver task has nothing to accept.
NobodyLeftAsleep ==
  /\ \A t \in Users : Is(t, "wai_tev") =>
       \A d \in Blocks(t) : gdi.drq[d].done # "Done" /\ gdi.drq[d].wtid = t
  /\ \A t \in Users : Is(t, "wai_flg") =>
       gdi.freeq = << >> \/ gdi.preq[Rw(pkt[st[t].rs[1]].kind)] = limit
  /\ \A v \in Drivers : Is(v, "wai_flg") =>
       \A d \in ToSet(gdi.acpq) : Kind(d) \notin Accepts[v]

\* gdrvif.c:726, "It should be impossible": a task whose wait was ended by the
\* event finds a request complete.
EventMeansCompletion ==
  \A t \in Users : Is(t, "clear") /\ st[t].err = "event" => st[t].complete # NONE
=============================================================================

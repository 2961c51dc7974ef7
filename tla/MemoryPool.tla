----------------------------- MODULE MemoryPool -----------------------------
(***************************************************************************)
(* A variable-size memory pool (mempool.c).  The pool is cut into areas,   *)
(* each a header of one unit and the memory behind it; the headers of all  *)
(* areas are linked in address order (areaque) and the free ones also in   *)
(* size order (freeque).  A block is an area in use, named by its header.  *)
(* Tasks wait for a block in turn; what is freed goes to them at once.     *)
(***************************************************************************)
EXTENDS Wait

CONSTANTS
  MPLSZ,    \* mplsz, the size of the pool, in units (ROUNDSZ)
  BlkSizes  \* the sizes tasks ask for, in units

MIN_FRAGMENT == 2  \* units
HEADER       == 1  \* sizeof(QUEUE)

PoolAssumption ==
  MPLSZ \in Nat /\ BlkSizes \subseteq MIN_FRAGMENT .. MPLSZ

\* Addresses: areaque, the head of the list, and the header at the end of the
\* pool, which marks it; both count as in use.
AREAQUE == -1
EP      == MPLSZ + HEADER

\* area gives for a header prev, next and AREA_USE; freeque holds the free
\* areas of each size.  held is history: the blocks the program holds, with
\* the size asked for.
MPLCB == [ objid : {"mpl"}, tpri : BOOLEAN, nodiswai : BOOLEAN,
           wait_queue : Seq(Tasks), recv_queue : {<< >>},
           area : UNION {[A -> [prev : Int, next : Int, use : BOOLEAN]] :
                         A \in SUBSET (AREAQUE .. EP)},
           freeque : Seq(Seq(0 .. EP)),
           held : UNION {[A -> BlkSizes] : A \in SUBSET (0 .. EP)} ]

AreaSize(g, a) == g.area[a].next - a - HEADER
RunSize(g, i)  == AreaSize(g, g.freeque[i][1])

MaxFreeSize(g) == IF g.freeque = << >> THEN 0 ELSE RunSize(g, Len(g.freeque))

\* The place in freeque of the smallest size that is enough for blksz.
searchFreeArea(g, blksz) ==
  IF blksz > MPLSZ \div 4
  THEN LET i == SelectLastInSeq(g.freeque, LAMBDA r : AreaSize(g, r[1]) <= blksz)
       IN IF i # 0 /\ RunSize(g, i) = blksz THEN i ELSE i + 1
  ELSE LET i == SelectInSeq(g.freeque, LAMBDA r : AreaSize(g, r[1]) >= blksz)
       IN IF i = 0 THEN Len(g.freeque) + 1 ELSE i

appendFreeArea(g, a) ==
  LET size == AreaSize(g, a)
      i    == searchFreeArea(g, size)
  IN [g EXCEPT !.area[a].use = FALSE,
               !.freeque = IF i <= Len(@) /\ RunSize(g, i) = size
                           THEN [@ EXCEPT ![i] = Append(@, a)]
                           ELSE InsertAt(@, i, <<a>>)]

\* The next area of the same size takes the place of a.
removeFreeQue(g, a) ==
  [g EXCEPT !.freeque =
     SelectSeq([i \in DOMAIN @ |-> QueRemove(@[i], a)], LAMBDA r : r # << >>)]

insertAreaQue(g, que, ent) ==
  LET n == g.area[que].next
  IN [g EXCEPT !.area = (ent :> [prev |-> que, next |-> n, use |-> FALSE])
                          @@ [@ EXCEPT ![n].prev = ent, ![que].next = ent]]

removeAreaQue(g, a) ==
  [g EXCEPT !.area =
     [b \in DOMAIN @ \ {a} |->
        [@[b] EXCEPT !.next = IF @ = a THEN g.area[a].next ELSE @,
                     !.prev = IF @ = a THEN g.area[a].prev ELSE @]]]

\* Mutant: a rest too small for an area becomes one.
never_too_small(rest) == rest < HEADER

too_small(rest) == rest < MIN_FRAGMENT + HEADER

\* The block and the pool without it; searchFreeArea has found the size i.
get_blk(g, i, blksz) ==
  LET a == g.freeque[i][1]
      h == removeFreeQue(g, a)
      s == IF too_small(AreaSize(g, a) - blksz) THEN h
           ELSE LET q == a + HEADER + blksz
                IN appendFreeArea(insertAreaQue(h, a, q), q)
  IN [s EXCEPT !.area[a].use = TRUE, !.held = (a :> blksz) @@ @]

\* The pool with a and its free neighbours in one area, at `at`.
merge(g, a) ==
  LET n == g.area[a].next
      h == IF g.area[n].use THEN g ELSE removeAreaQue(removeFreeQue(g, n), n)
      p == h.area[a].prev
  IN IF h.area[p].use THEN [gcb |-> h, at |-> a]
     ELSE [gcb |-> removeAreaQue(removeFreeQue(h, p), a), at |-> p]

rel_blk(g, a) ==
  LET m == merge([g EXCEPT !.area[a].use = FALSE,
                           !.held = Restrict(@, DOMAIN @ \ {a})], a)
  IN appendFreeArea(m.gcb, m.at)

\* Blocks for the first waiters in turn, while there is one large enough.
mpl_wakeup(g) ==
  FoldLeft(LAMBDA h, t :
             IF t = Head(h.gcb.wait_queue) /\ winfo[t] <= MaxFreeSize(h.gcb)
             THEN [ gcb |-> [get_blk(h.gcb, searchFreeArea(h.gcb, winfo[t]), winfo[t])
                               EXCEPT !.wait_queue = Tail(@)],
                    ok  |-> h.ok \cup {t} ]
             ELSE h,
           [gcb |-> g, ok |-> {}], g.wait_queue)

mpl_chg_pri(g) == mpl_wakeup(g)

mpl_rel_wai(g) == mpl_chg_pri(g)

---------------------------------------------------------------------------

init_mempool ==
  (AREAQUE :> [prev |-> EP, next |-> 0, use |-> TRUE])
    @@ (0 :> [prev |-> AREAQUE, next |-> EP, use |-> FALSE])
    @@ (EP :> [prev |-> 0, next |-> AREAQUE, use |-> TRUE])

tk_cre_mpl(tpri, nodiswai) ==
  /\ gcb.objid = "none"
  /\ gcb' = [ objid |-> "mpl", tpri |-> tpri, nodiswai |-> nodiswai,
              wait_queue |-> << >>, recv_queue |-> << >>, area |-> init_mempool,
              freeque |-> <<<<0>>>>, held |-> << >> ]
  /\ ok' = {}
  /\ UNCHANGED taskvars

tk_del_mpl == gcb.objid = "mpl" /\ wait_delete

tk_get_mpl_u(t, blksz) ==
  /\ gcb.objid = "mpl"
  /\ Running(t)
  /\ ~is_diswai(gcb, t)
  /\ LET i == searchFreeArea(gcb, blksz)
     IN IF gcb_top_of_wait_queue(gcb, t) /\ i <= Len(gcb.freeque)
        THEN gcb' = get_blk(gcb, i, blksz) /\ ok' = {} /\ UNCHANGED taskvars
        ELSE gcb_make_wait(t, blksz)

\* A program gives back what it holds.
tk_rel_mpl(a) ==
  /\ gcb.objid = "mpl"
  /\ a \in DOMAIN gcb.held
  /\ wait_release_ok(mpl_wakeup(rel_blk(gcb, a)))
  /\ UNCHANGED <<priority, waitmask>>

MplCalls ==
  \/ \E tpri, nodiswai \in BOOLEAN : tk_cre_mpl(tpri, nodiswai)
  \/ tk_del_mpl
  \/ \E t \in Tasks, blksz \in BlkSizes : tk_get_mpl_u(t, blksz)
  \/ \E a \in 0 .. EP : tk_rel_mpl(a)

---------------------------------------------------------------------------
(* Properties *)

\* The areas cover the pool without gap or overlap and no two neighbours are
\* free; freeque holds the free areas by their size; a block the program
\* holds is in use and as large as it asked for.
PoolPartitioned ==
  gcb.objid = "mpl" =>
    LET area == gcb.area
        fq   == gcb.freeque
        free == {a \in DOMAIN area : ~area[a].use}
    IN /\ {AREAQUE, 0, EP} \subseteq DOMAIN area
       /\ \A a \in DOMAIN area :
            /\ {area[a].next, area[a].prev} \subseteq DOMAIN area
            /\ area[area[a].next].prev = a
            /\ area[area[a].prev].next = a
            /\ a = EP \/ area[a].next > a
            /\ a \in free => area[area[a].next].use
            /\ a \in free => AreaSize(gcb, a) >= MIN_FRAGMENT
       /\ Range(FlattenSeq(fq)) = free /\ IsInjective(FlattenSeq(fq))
       /\ \A i \in DOMAIN fq :
            /\ \A j \in DOMAIN fq[i] : AreaSize(gcb, fq[i][j]) = RunSize(gcb, i)
            /\ i > 1 => RunSize(gcb, i - 1) < RunSize(gcb, i)
       /\ DOMAIN gcb.held = DOMAIN area \ (free \cup {AREAQUE, EP})
       /\ \A a \in DOMAIN gcb.held : gcb.held[a] <= AreaSize(gcb, a)

\* The first waiter waits only while no free area is large enough for it.
MplNoServableWaiter ==
  gcb.objid = "mpl" /\ gcb.wait_queue # << >> =>
    \A a \in DOMAIN gcb.area :
      gcb.area[a].use \/ AreaSize(gcb, a) < winfo[Head(gcb.wait_queue)]
=============================================================================

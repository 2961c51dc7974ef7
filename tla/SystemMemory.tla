---------------------------- MODULE SystemMemory ----------------------------
(***************************************************************************)
(* System memory: the page table of memmgr.c, from which programs take     *)
(* blocks of pages (tk_get_smb), and the two heaps that take their pages   *)
(* from it, that of T-Kernel/SM (imalloc.c) and that of libtk              *)
(* (memalloc.c behind kmalloc.c).                                          *)
(*                                                                         *)
(* Each part has an exclusion of its own: the page table a FastLock, the   *)
(* libtk heap a FastMLock (FastLocks.tla shows both exclusive), the heap   *)
(* of T-Kernel/SM the disabling of interrupts.  The last is given up while *)
(* pages are taken or released, so a heap changes between the steps of one *)
(* allocation.  Nobody waits for memory: a request that cannot be met      *)
(* fails.                                                                  *)
(***************************************************************************)
EXTENDS Integers, SequencesExt, FiniteSetsExt, Functions

CONSTANTS
  Tasks,
  NULL,
  MAXPAGE,   \* the number of pages
  PAGESZ,    \* the size of a page, in units (ROUNDSZ)
  Sizes,     \* the sizes asked for, in units; MIN_FRAGMENT at least
  PageReqs,  \* the numbers of pages asked for with tk_get_smb
  MaxHeld    \* bound: blocks that programs hold at a time

MIN_FRAGMENT == 2  \* units
HEADER       == 1  \* sizeof(QUEUE)

ASSUME MemoryAssumption ==
  /\ {MAXPAGE, PAGESZ, MaxHeld} \subseteq Nat \ {0}
  /\ PAGESZ >= MIN_FRAGMENT + 2 * HEADER
  /\ \A s \in Sizes : s \in Nat /\ s >= MIN_FRAGMENT
  /\ PageReqs \subseteq Nat \ {0}

VARIABLES
  pt,    \* PAGETBL: the tags of each page, the queue of free blocks, freepage
  heap,  \* for "I" and "K": the headers of the areas, the queue of free areas
  pc,    \* what each task is in the middle of
  held   \* history: the blocks of programs, with where from and what size

vars == <<pt, heap, pc, held>>

(***************************************************************************)
(* The page table.  A block of pages has its tags on the first page, on    *)
(* the second, which gives the number of pages, and on the last, for the   *)
(* block behind it to find its beginning.                                  *)
(***************************************************************************)
NumOfPages(p, pn) == IF p.pageque[pn].cont THEN p.pageque[pn + 1].n ELSE 1

\* Mutant: the last page is not marked.
tagged_front(q, pn, n, use) ==
  [x \in DOMAIN q |->
     IF x = pn THEN [use |-> use, cont |-> n > 1, n |-> 0]
     ELSE IF n > 1 /\ x = pn + 1 THEN [use |-> use, cont |-> TRUE, n |-> n]
     ELSE q[x]]

tagged(q, pn, n, use) ==
  [x \in DOMAIN q |->
     IF x = pn THEN [use |-> use, cont |-> n > 1, n |-> 0]
     ELSE IF n > 1 /\ x \in {pn + 1, pn + n - 1} THEN [use |-> use, cont |-> TRUE, n |-> n]
     ELSE q[x]]

searchFreeQue(p, n) == SelectInSeq(p.freeque, LAMBDA x : NumOfPages(p, x) >= n)

appendFreePages(p, pn, n) ==
  LET q   == [p EXCEPT !.pageque = tagged(@, pn, n, FALSE)]
      ins == searchFreeQue(q, n)
  IN [q EXCEPT !.freeque = InsertAt(@, IF ins = 0 THEN Len(@) + 1 ELSE ins, pn)]

removePageQue(p, pn) == [p EXCEPT !.freeque = Remove(@, pn)]

getPage(p, n) ==
  LET pn   == p.freeque[searchFreeQue(p, n)]
      free == NumOfPages(p, pn) - n
      q    == [removePageQue(p, pn) EXCEPT !.pageque = tagged(@, pn, n, TRUE),
                                           !.freepage = @ - n]
  IN [pt |-> IF free > 0 THEN appendFreePages(q, pn + n, free) ELSE q, pn |-> pn]

relPage(p, pn) ==
  LET n     == NumOfPages(p, pn)
      after == pn + n <= MAXPAGE /\ ~p.pageque[pn + n].use
      ahead == pn > 1 /\ ~p.pageque[pn - 1].use
      k     == IF ~ahead THEN 0 ELSE IF p.pageque[pn - 1].cont THEN p.pageque[pn - 1].n ELSE 1
      q     == IF after THEN removePageQue(p, pn + n) ELSE p
      r     == IF ahead THEN [removePageQue(q, pn - k) EXCEPT !.pageque[pn].use = FALSE] ELSE q
  IN [appendFreePages(r, pn - k, k + n + IF after THEN NumOfPages(p, pn + n) ELSE 0)
        EXCEPT !.freepage = @ + n]

\* GetSysMemBlk and RelSysMemBlk in terms of addresses
Adr(pn)  == (pn - 1) * PAGESZ
PageNo(a) == a \div PAGESZ + 1

(***************************************************************************)
(* The areas of a heap.  A header has the flags AREA_USE, AREA_TOP and     *)
(* AREA_END; inside the pages taken together, areaque links the headers in *)
(* the order of addresses.  The free areas of one size are queued in the   *)
(* order they came, behind the smaller ones.                               *)
(***************************************************************************)
following(h, a) == Min({b \in DOMAIN h.area : b > a})
preceding(h, a) == Max({b \in DOMAIN h.area : b < a})
AreaSize(h, a)  == following(h, a) - a - HEADER

searchFreeArea(h, size) == SelectInSeq(h.freeque, LAMBDA f : AreaSize(h, f) >= size)

appendFreeArea(h, a) ==
  LET i == SelectInSeq(h.freeque, LAMBDA f : AreaSize(h, f) > AreaSize(h, a))
  IN [h EXCEPT !.area[a].use = FALSE,
               !.freeque = InsertAt(@, IF i = 0 THEN Len(@) + 1 ELSE i, a)]

removeFreeQue(h, a) == [h EXCEPT !.freeque = Remove(@, a)]

insertAreaQue(h, a, flag) ==
  [h EXCEPT !.area = [b \in DOMAIN @ \cup {a} |->
                        IF b = a THEN [use |-> FALSE, flag |-> flag] ELSE @[b]]]

removeAreaQue(h, S) == [h EXCEPT !.area = Restrict(@, DOMAIN @ \ S)]

newPage(h, a, n) ==
  insertAreaQue(insertAreaQue(h, a + n * PAGESZ - HEADER, "END"), a, "TOP")

toPageCount(size) == (size + 2 * HEADER + PAGESZ - 1) \div PAGESZ

mem_alloc(h, a, size) ==
  LET rest == a + HEADER + size
      g    == IF AreaSize(h, a) - size >= MIN_FRAGMENT + HEADER
              THEN appendFreeArea(insertAreaQue(h, rest, ""), rest) ELSE h
  IN [g EXCEPT !.area[a].use = TRUE]

\* Mutant: the area that is joined stays in the queue.
joined_after_queued(h, a) ==
  LET b == following(h, a)
  IN IF h.area[b].flag = "END" \/ h.area[b].use THEN h ELSE removeAreaQue(h, {b})

\* With the free area behind, if there is one
joined_after(h, a) ==
  LET b == following(h, a)
  IN IF h.area[b].flag = "END" \/ h.area[b].use THEN h
     ELSE removeAreaQue(removeFreeQue(h, b), {b})

\* The area, no longer in use, with the free ones around it
joined(h, a) ==
  LET g == joined_after([h EXCEPT !.area[a].use = FALSE], a)
  IN IF g.area[a].flag = "TOP" \/ g.area[preceding(g, a)].use
     THEN [heap |-> g, at |-> a]
     ELSE [heap |-> removeAreaQue(removeFreeQue(g, preceding(g, a)), {a}),
           at   |-> preceding(g, a)]

WholePage(h, a) == h.area[a].flag = "TOP" /\ h.area[following(h, a)].flag = "END"

withoutPage(h, a) == removeAreaQue(h, {a, following(h, a)})

-----------------------------------------------------------------------------
Idle == [at |-> "idle"]

Goto(t, where) == pc' = [pc EXCEPT ![t] = where]
Give(a, from, size) ==
  held' = [b \in DOMAIN held \cup {a} |->
             IF b = a THEN [from |-> from, size |-> size] ELSE held[b]]
Without(a)     == Restrict(held, DOMAIN held \ {a})
Held(from)     == {a \in DOMAIN held : held[a].from = from}
MayHold        == Cardinality(DOMAIN held) < MaxHeld

\* What the tags between the second and the last page hold at first is not
\* initialised.
MemInit ==
  /\ \E junk \in BOOLEAN :
       pt = [appendFreePages(
               [pageque  |-> [pn \in 1 .. MAXPAGE |-> [use |-> junk, cont |-> junk, n |-> 0]],
                freeque  |-> <<>>, freepage |-> MAXPAGE], 1, MAXPAGE) EXCEPT !.freepage = MAXPAGE]
  /\ heap = [x \in {"I", "K"} |-> [area |-> <<>>, freeque |-> <<>>]]
  /\ pc = [t \in Tasks |-> Idle]
  /\ held = <<>>

(***************************************************************************)
(* Blocks of pages.                                                        *)
(***************************************************************************)
tk_get_smb(n) ==
  /\ MayHold
  /\ searchFreeQue(pt, n) # 0
  /\ pt' = getPage(pt, n).pt
  /\ Give(Adr(getPage(pt, n).pn), "smb", n)
  /\ UNCHANGED <<heap, pc>>

tk_rel_smb(a) ==
  /\ a \in Held("smb")
  /\ pt' = relPage(pt, PageNo(a))
  /\ held' = Without(a)
  /\ UNCHANGED <<heap, pc>>

(***************************************************************************)
(* imalloc.c                                                               *)
(***************************************************************************)
imalloc(t, size) ==
  LET h == heap["I"]
      i == searchFreeArea(h, size)
  IN /\ pc[t] = Idle /\ MayHold
     /\ IF i # 0
        THEN /\ heap' = [heap EXCEPT !["I"] = mem_alloc(removeFreeQue(h, h.freeque[i]),
                                                        h.freeque[i], size)]
             /\ Give(h.freeque[i], "I", size)
             /\ UNCHANGED pc
        ELSE Goto(t, [at |-> "grow", size |-> size]) /\ UNCHANGED <<heap, held>>
     /\ UNCHANGED pt

\* With interrupts enabled: GetSysMemBlk, which may fail
imalloc_pages(t) ==
  LET n == toPageCount(pc[t].size)
      g == getPage(pt, n)
  IN /\ pc[t].at = "grow"
     /\ IF searchFreeQue(pt, n) = 0 THEN Goto(t, Idle) /\ UNCHANGED pt
        ELSE /\ pt' = g.pt
             /\ Goto(t, [at |-> "pages", size |-> pc[t].size, a |-> Adr(g.pn), n |-> n])
     /\ UNCHANGED <<heap, held>>

imalloc_ends(t) ==
  /\ pc[t].at = "pages" /\ MayHold
  /\ heap' = [heap EXCEPT !["I"] = mem_alloc(newPage(@, pc[t].a, pc[t].n), pc[t].a, pc[t].size)]
  /\ Give(pc[t].a, "I", pc[t].size)
  /\ Goto(t, Idle)
  /\ UNCHANGED pt

\* di: the caller has interrupts disabled, and the page is kept
ifree(t, a, di) ==
  LET j == joined(heap["I"], a)
  IN /\ pc[t] = Idle /\ a \in Held("I")
     /\ held' = Without(a)
     /\ IF ~di /\ WholePage(j.heap, j.at)
        THEN /\ heap' = [heap EXCEPT !["I"] = withoutPage(j.heap, j.at)]
             /\ Goto(t, [at |-> "release", a |-> j.at])
        ELSE /\ heap' = [heap EXCEPT !["I"] = appendFreeArea(j.heap, j.at)]
             /\ UNCHANGED pc
     /\ UNCHANGED pt

ifree_pages(t) ==
  /\ pc[t].at = "release"
  /\ pt' = relPage(pt, PageNo(pc[t].a))
  /\ Goto(t, Idle)
  /\ UNCHANGED <<heap, held>>

(***************************************************************************)
(* memalloc.c, one call at a time                                          *)
(***************************************************************************)
MEMLOCK(t) == pc[t] = Idle /\ \A u \in Tasks : pc[u].at # "copy"

\* _mem_malloc: the page table, the heap and the block afterwards
malloc(p, h, size) ==
  LET i == searchFreeArea(h, size)
      n == toPageCount(size)
      g == getPage(p, n)
  IN IF i # 0
     THEN [pt |-> p, a |-> h.freeque[i],
           heap |-> mem_alloc(removeFreeQue(h, h.freeque[i]), h.freeque[i], size)]
     ELSE IF searchFreeQue(p, n) = 0 THEN [pt |-> p, heap |-> h, a |-> NULL]
     ELSE [pt |-> g.pt, a |-> Adr(g.pn),
           heap |-> mem_alloc(newPage(h, Adr(g.pn), n), Adr(g.pn), size)]

Kmalloc(t, size) ==
  LET m == malloc(pt, heap["K"], size)
  IN /\ MEMLOCK(t) /\ MayHold
     /\ m.a # NULL
     /\ pt' = m.pt /\ heap' = [heap EXCEPT !["K"] = m.heap]
     /\ Give(m.a, "K", size)
     /\ UNCHANGED pc

\* _mem_free
free(a) ==
  LET j == joined(heap["K"], a)
  IN IF WholePage(j.heap, j.at)
     THEN /\ heap' = [heap EXCEPT !["K"] = withoutPage(j.heap, j.at)]
          /\ pt' = relPage(pt, PageNo(j.at))
     ELSE heap' = [heap EXCEPT !["K"] = appendFreeArea(j.heap, j.at)] /\ UNCHANGED pt

Kfree(t, a) ==
  /\ MEMLOCK(t) /\ a \in Held("K")
  /\ free(a)
  /\ held' = Without(a)
  /\ UNCHANGED pc

\* In place, with the free area behind, or to a new block; if there is none
\* the block stays as it was.
Krealloc(t, a, size) ==
  LET h == joined_after(heap["K"], a)
      m == malloc(pt, h, size)
  IN /\ MEMLOCK(t) /\ a \in Held("K")
     /\ IF size <= AreaSize(h, a)
        THEN /\ heap' = [heap EXCEPT !["K"] = mem_alloc(h, a, size)]
             /\ Give(a, "K", size)
             /\ UNCHANGED <<pt, pc>>
        ELSE IF m.a = NULL
        THEN /\ heap' = [heap EXCEPT !["K"] = mem_alloc(h, a, AreaSize(heap["K"], a))]
             /\ UNCHANGED <<pt, pc, held>>
        ELSE /\ pt' = m.pt /\ heap' = [heap EXCEPT !["K"] = m.heap]
             /\ Goto(t, [at |-> "copy", a |-> m.a, old |-> a, size |-> size])
             /\ UNCHANGED held

\* The contents are copied: the old block is freed
Krealloc_copied(t) ==
  /\ pc[t].at = "copy"
  /\ free(pc[t].old)
  /\ held' = [b \in (DOMAIN held \ {pc[t].old}) \cup {pc[t].a} |->
                IF b = pc[t].a THEN [from |-> "K", size |-> pc[t].size] ELSE held[b]]
  /\ Goto(t, Idle)

MemNext ==
  \/ \E n \in PageReqs : tk_get_smb(n)
  \/ \E a \in DOMAIN held : tk_rel_smb(a)
  \/ \E t \in Tasks :
       \/ \E size \in Sizes : imalloc(t, size) \/ Kmalloc(t, size)
       \/ imalloc_pages(t) \/ imalloc_ends(t) \/ ifree_pages(t) \/ Krealloc_copied(t)
       \/ \E a \in DOMAIN held :
            \/ \E di \in BOOLEAN : ifree(t, a, di)
            \/ Kfree(t, a) \/ \E size \in Sizes : Krealloc(t, a, size)

MemSpec == MemInit /\ [][MemNext]_vars

-----------------------------------------------------------------------------
(***************************************************************************)
(* Properties.                                                             *)
(***************************************************************************)
\* The pages heap h has taken, with their numbers
PagesOf(h) ==
  {[a |-> a, n |-> (Min({b \in DOMAIN h.area : b > a /\ h.area[b].flag = "END"}) + HEADER - a)
                     \div PAGESZ] : a \in {b \in DOMAIN h.area : h.area[b].flag = "TOP"}}

\* The blocks of pages somebody has: programs, heaps, and the calls between
\* the page table and a heap
Owned ==
  {[a |-> a, n |-> held[a].size] : a \in Held("smb")}
    \cup PagesOf(heap["I"]) \cup PagesOf(heap["K"])
    \cup {[a |-> pc[t].a, n |-> pc[t].n] : t \in {u \in Tasks : pc[u].at = "pages"}}
    \cup {[a |-> pc[t].a, n |-> NumOfPages(pt, PageNo(pc[t].a))] :
            t \in {u \in Tasks : pc[u].at = "release"}}

Pages(b) == PageNo(b.a) .. PageNo(b.a) + b.n - 1

\* Whatever is taken and released in whatever order, every page is in one
\* free block or belongs to one owner, the tags say so where relPage reads
\* them, no two free blocks are neighbours, and the count is right
\* (appendFreePages, setUsePages, relPage).
PagesPartitioned ==
  LET freed  == {[a |-> Adr(pn), n |-> NumOfPages(pt, pn)] : pn \in Range(pt.freeque)}
      blocks == Owned \cup freed
      first(b) == pt.pageque[PageNo(b.a)]
      last(b)  == pt.pageque[PageNo(b.a) + b.n - 1]
  IN /\ \A b \in blocks :
          /\ b.a % PAGESZ = 0 /\ NumOfPages(pt, PageNo(b.a)) = b.n
          /\ first(b).use = (b \in Owned) /\ last(b).use = (b \in Owned)
          /\ b.n > 1 => last(b).cont /\ last(b).n = b.n
     /\ \A b, c \in blocks : b # c => Pages(b) \cap Pages(c) = {}
     /\ UNION {Pages(b) : b \in blocks} = 1 .. MAXPAGE
     /\ \A b, c \in freed : Adr(PageNo(b.a) + b.n) # c.a
     /\ IsInjective(pt.freeque)
     /\ \A i, j \in DOMAIN pt.freeque :
          i < j => NumOfPages(pt, pt.freeque[i]) <= NumOfPages(pt, pt.freeque[j])
     /\ pt.freepage = FoldSet(LAMBDA b, sum : sum + b.n, 0, freed)

\* In both heaps, across the gaps in an allocation or a release and the two
\* halves of a reallocation: the areas in use are the blocks given out, each
\* large enough; the others are in the queue by size, once; free neighbours
\* are joined; and no page without a block is kept but those released with
\* interrupts disabled (imalloc.c only).
HeapsPartitioned ==
  \A x \in {"I", "K"} :
    LET h      == heap[x]
        areas  == {a \in DOMAIN h.area : h.area[a].flag # "END"}
        unused == {a \in areas : ~h.area[a].use}
        moving == {pc[t] : t \in {u \in Tasks : pc[u].at = "copy"}}
        blocks == {[a |-> a, size |-> held[a].size] : a \in Held(x)}
                    \cup IF x = "K" THEN {[a |-> m.a, size |-> m.size] : m \in moving} ELSE {}
    IN /\ {b.a : b \in blocks} = areas \ unused
       /\ \A b \in blocks : AreaSize(h, b.a) >= b.size
       /\ Range(h.freeque) = unused /\ IsInjective(h.freeque)
       /\ \A i, j \in DOMAIN h.freeque :
            i < j => AreaSize(h, h.freeque[i]) <= AreaSize(h, h.freeque[j])
       /\ \A a \in unused :
            /\ AreaSize(h, a) >= MIN_FRAGMENT
            /\ following(h, a) \notin unused
            /\ x = "K" => ~WholePage(h, a)
=============================================================================

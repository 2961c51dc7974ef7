----------------------- MODULE DriverInterface_proofs -----------------------
(***************************************************************************)
(* Proofs about the driver interface library.  A step changes the requests *)
(* and blocks of one call; the first lemmas say what others keep meanwhile *)
(* (Keep, SameLinks, SameQueues, ...), then there is one for each action.  *)
(***************************************************************************)
EXTENDS DriverInterface, WaitQueue_proofs, FiniteSetTheorems

---------------------------------------------------------------------------
(* The queue without some of its blocks. *)

\* What without reads off its recursive function when it has seen n places.
Rests(f, q, S, n) ==
  f = [i \in 0 .. n |-> IF i = 0 THEN << >>
                        ELSE IF q[i] \in S THEN f[i - 1] ELSE Append(f[i - 1], q[i])]

\* There is such a function: the least n without one would be one behind an m
\* with one.
LEMMA RestsExist ==
  ASSUME NEW q, NEW S, NEW n \in Nat
  PROVE  \E f : Rests(f, q, S, n)
<1> DEFINE Bad == {m \in Nat : ~ \E f : Rests(f, q, S, m)}
<1>1. SUFFICES Bad = {}
  OBVIOUS
<1>2. SUFFICES ASSUME Bad # {} PROVE FALSE
  OBVIOUS
<1>3. PICK m \in Bad : \A k \in Bad : m <= k
  <2>1. Bad \in SUBSET Nat
    OBVIOUS
  <2> QED BY <1>2, <2>1, NatMin
<1>4. m \in Nat /\ ~ \E f : Rests(f, q, S, m)
  OBVIOUS
<1>5. CASE m = 0
  <2> DEFINE g == [i \in 0 .. 0 |-> << >>]
  <2>1. Rests(g, q, S, 0)
    BY DEF Rests
  <2> QED BY <1>4, <1>5, <2>1
<1>6. CASE m # 0
  <2>1. m - 1 \in Nat /\ m - 1 \notin Bad
    BY <1>3, <1>4, <1>6
  <2>2. PICK f : Rests(f, q, S, m - 1)
    BY <2>1
  <2> DEFINE g == [i \in 0 .. m |-> IF i # m THEN f[i]
                                    ELSE IF q[m] \in S THEN f[m - 1] ELSE Append(f[m - 1], q[m])]
  <2>3. \A i \in 0 .. m - 1 : g[i] = f[i]
    BY <1>4
  <2>4. \A i \in 0 .. m :
          g[i] = IF i = 0 THEN << >> ELSE IF q[i] \in S THEN g[i - 1] ELSE Append(g[i - 1], q[i])
    <3>1. ASSUME NEW i \in 0 .. m - 1
          PROVE  g[i] = IF i = 0 THEN << >> ELSE IF q[i] \in S THEN g[i - 1] ELSE Append(g[i - 1], q[i])
      <4>1. f[i] = IF i = 0 THEN << >> ELSE IF q[i] \in S THEN f[i - 1] ELSE Append(f[i - 1], q[i])
        BY <2>1, <2>2 DEF Rests
      <4>2. i # 0 => i - 1 \in 0 .. m - 1
        BY <2>1
      <4> HIDE DEF g
      <4> QED BY <2>3, <4>1, <4>2
    <3>2. g[m] = IF q[m] \in S THEN g[m - 1] ELSE Append(g[m - 1], q[m])
      <4>1. g[m] = IF q[m] \in S THEN f[m - 1] ELSE Append(f[m - 1], q[m])
        BY <1>4
      <4>2. g[m - 1] = f[m - 1]
        BY <2>1, <2>3
      <4> HIDE DEF g
      <4> QED BY <4>1, <4>2
    <3> HIDE DEF g
    <3> QED BY <1>4, <1>6, <3>1, <3>2
  <2>5. g = [i \in 0 .. m |-> g[i]]
    OBVIOUS
  <2>6. Rests(g, q, S, m)
    <3> HIDE DEF g
    <3> QED BY <2>4, <2>5 DEF Rests
  <2> QED BY <1>4, <2>6
<1> QED BY <1>5, <1>6

\* without takes the blocks of S off a queue and keeps the others.
LEMMA WithoutList ==
  ASSUME NEW q, NEW T, Lists(q, T), NEW S
  PROVE  Lists(without(q, S), T \ S)
<1>1. /\ Len(q) \in Nat
      /\ \A i \in 1 .. Len(q) : q[i] \in T
      /\ \A i, j \in 1 .. Len(q) : q[i] = q[j] => i = j
      /\ \A x \in T : \E i \in 1 .. Len(q) : q[i] = x
  BY ListsPlaces
<1> DEFINE n == Len(q)
           f == CHOOSE g : Rests(g, q, S, n)
           Some(k) == {q[i] : i \in 1 .. k}
           Bad == {k \in Nat : k <= n /\ ~Lists(f[k], Some(k) \ S)}
<1>2. without(q, S) = f[n]
  BY DEF without, Rests
<1>3. Rests(f, q, S, n)
  <2>1. \E g : Rests(g, q, S, n)
    BY <1>1, RestsExist
  <2> QED BY <2>1
<1> HIDE DEF f
<1>4. \A k \in 0 .. n : f[k] = IF k = 0 THEN << >>
                               ELSE IF q[k] \in S THEN f[k - 1] ELSE Append(f[k - 1], q[k])
  BY <1>3 DEF Rests
<1>5. Bad = {}
  <2>1. SUFFICES ASSUME Bad # {} PROVE FALSE
    OBVIOUS
  <2>2. PICK k \in Bad : \A j \in Bad : k <= j
    <3>1. PICK G \in SUBSET Nat : G = Bad
      OBVIOUS
    <3> HIDE DEF Bad
    <3>2. \E x \in G : \A y \in G : x <= y
      BY <2>1, <3>1, NatMin
    <3> QED BY <3>1, <3>2
  <2>3. k \in Nat /\ k <= n /\ ~Lists(f[k], Some(k) \ S)
    BY <2>2
  <2>4. CASE k = 0
    <3>1. f[k] = << >> /\ Some(k) \ S = {}
      BY <1>1, <1>4, <2>4
    <3>2. Lists(<< >>, {})
      BY NothingListed
    <3> HIDE DEF Some
    <3> QED BY <2>3, <3>1, <3>2
  <2>5. CASE k # 0
    <3>1. k - 1 \in Nat /\ k \in 1 .. n
      BY <1>1, <2>3, <2>5
    <3>2. Lists(f[k - 1], Some(k - 1) \ S)
      <4>1. SUFFICES ASSUME ~Lists(f[k - 1], Some(k - 1) \ S) PROVE FALSE
        OBVIOUS
      <4>2. k - 1 \in Bad
        BY <1>1, <2>3, <3>1, <4>1
      <4> HIDE DEF Bad
      <4> QED BY <2>2, <3>1, <4>2
    <3>3. Some(k) = Some(k - 1) \cup {q[k]}
      <4>1. 1 .. k = (1 .. k - 1) \cup {k}
        BY <3>1
      <4> QED BY <4>1
    <3>4. q[k] \notin Some(k - 1)
      BY <1>1, <3>1
    <3>5. f[k] = IF q[k] \in S THEN f[k - 1] ELSE Append(f[k - 1], q[k])
      BY <1>1, <1>4, <2>5, <3>1
    <3> HIDE DEF Some, Bad
    <3>6. CASE q[k] \in S
      <4>1. Some(k) \ S = Some(k - 1) \ S
        BY <3>3, <3>6
      <4> QED BY <2>3, <3>2, <3>5, <3>6, <4>1
    <3>7. CASE q[k] \notin S
      <4>1. Some(k) \ S = (Some(k - 1) \ S) \cup {q[k]}
        BY <3>3, <3>7
      <4>2. Lists(Append(f[k - 1], q[k]), (Some(k - 1) \ S) \cup {q[k]})
        BY <3>2, <3>4, AppendList
      <4> QED BY <2>3, <3>5, <3>7, <4>1, <4>2
    <3> QED BY <3>6, <3>7
  <2> QED BY <2>4, <2>5
<1>6. Some(n) = T
  BY <1>1
<1>7. Lists(f[n], Some(n) \ S)
  <2>1. SUFFICES ASSUME ~Lists(f[n], Some(n) \ S) PROVE FALSE
    OBVIOUS
  <2>2. n \in Bad
    BY <1>1, <2>1
  <2> QED BY <1>5, <2>2
<1> QED
  <2> HIDE DEF Some, Bad
  <2> QED BY <1>2, <1>6, <1>7

---------------------------------------------------------------------------
(* The inductive invariant: types (GdiTypes), whose requests and blocks    *)
(* they are (ReqInv, BlockInv), the queues and their counts (QueueInv,     *)
(* CountInv), what each place of a call means (CallInv), who aborts whom   *)
(* (AbortInv), that a wait has its bit (FlagInv), who replies (ReplyInv).  *)

Dirs     == {"FREEQ_RD", "FREEQ_WR"}
Done     == {"NotDone", "Done", "Abort"}
Starting == {"lock_drq", "awake", "empty", "wai_flg", "tmout"}
Holding  == {"awake", "empty", "wai_flg", "tmout"}
Ending   == {"queued", "failed"}
Marked   == {"tev", "wai_tev", "collect"}
Waiting  == {"mark", "clear", "release"} \cup Marked
Serving  == {"user", "empty", "wai_flg", "awake", "tmout", "reply"}

\* The requests a call of t is about, and the blocks that are theirs.
Own(t)  == IF Is(t, "abort") THEN {} ELSE Range(st[t].rs)
Mine(t) == {d \in DRQs : gdi.drq[d].req \in Own(t)}
Busy    == {d \in DRQs : gdi.drq[d].req # NONE}
Queued  == Range(gdi.acpq)

Linked(r)    == pkt[r].exinf # NONE /\ gdi.drq[pkt[r].exinf].req = r
Blockless(r) == \A d \in DRQs : gdi.drq[d].req # r
IsDone(d)    == gdi.drq[d].done = "Done"
Closing(t)   == \E r \in Own(t) : pkt[r].tskid = NONE
Dir(t)       == Rw(pkt[st[t].rs[1]].kind)
Full(x)      == gdi.freeq = << >> \/ gdi.preq[x] = limit

Block == [req : Pkts \cup {NONE}, wtid : Users \cup {NONE}, done : Done]
GDIs  == [drq   : [DRQs -> Block], freeq : Seq(DRQs), acpq : Seq(DRQs),
          preq  : [Dirs -> Nat], acp : [Kinds -> Nat]]

GdiType == gdi \in GDIs

ReqType ==
  pkt \in [Pkts -> [used : BOOLEAN, kind : Kinds \cup {NONE}, exinf : DRQs \cup {NONE},
                    abort : BOOLEAN, tskid : Users \cup {NONE}]]

Places == {"user", "leave", "abort", "reply"} \cup Starting \cup Ending \cup Waiting

PC == [at : Places, rs : Seq(Pkts), complete : DRQs \cup {NONE},
       err : {"none", "tmout", "abort", "event"}, aptn : SUBSET (Kinds \cup Cmds)]

PCs == [Users \cup Drivers -> PC]

PcType ==
  /\ st \in PCs
  /\ \A t \in Users : st[t].at # "reply"
  /\ \A v \in Drivers : st[v].at \in Serving

RestType ==
  /\ flgptn \subseteq Kinds \cup Dirs \cup Cmds
  /\ drqlock \in [Dirs -> Users \cup {NONE}]
  /\ tev \subseteq Users
  /\ waitmask \in [Users -> {"none", "FLG", "TEV"}]

GdiTypes == GdiType /\ ReqType /\ PcType /\ RestType

\* A request is in use by one call, or it is started and has its block.
ReqInv ==
  /\ \A r \in Pkts :
       /\ ~pkt[r].used => pkt[r].tskid = NONE /\ Blockless(r) /\ \A t \in Users : r \notin Own(t)
       /\ pkt[r].used => pkt[r].kind \in Kinds
       /\ \A t \in Users : pkt[r].tskid = t => r \in Own(t)
       /\ pkt[r].used /\ (\A t \in Users : r \notin Own(t)) => Linked(r)
  /\ \A t, u \in Users : t # u => Own(t) \cap Own(u) = {}

\* A block and its request name each other, and it names the task that waits.
BlockInv ==
  \A d \in DRQs :
    /\ gdi.drq[d].req = NONE => gdi.drq[d].wtid = NONE /\ gdi.drq[d].done = "NotDone"
    /\ gdi.drq[d].req # NONE => pkt[gdi.drq[d].req].used /\ pkt[gdi.drq[d].req].exinf = d
    /\ \A t \in Users : gdi.drq[d].wtid = t => st[t].at \in Marked /\ gdi.drq[d].req \in Own(t)

QueueInv ==
  /\ IsInjective(gdi.freeq) /\ Range(gdi.freeq) \cap Busy = {}
  /\ IsInjective(gdi.acpq) /\ Queued \subseteq Busy
  /\ \A d \in Queued : gdi.drq[d].done = "NotDone"

CountInv ==
  /\ \A k \in Kinds : gdi.acp[k] = Cardinality({d \in Queued : Kind(d) = k})
  /\ \A x \in Dirs : /\ gdi.preq[x] = Cardinality({d \in Busy : Rw(Kind(d)) = x})
                     /\ gdi.preq[x] <= limit

\* What holds of the requests of a call at each of its places.
Call(t) ==
  LET at   == st[t].at
      rs   == st[t].rs
      none == waitmask[t] = "none"
  IN /\ at = "user" => rs = << >>
     /\ at \in {"user", "abort"} => none
     /\ at \in Starting \cup Ending => Len(rs) = 1 /\ \A r \in Own(t) : pkt[r].tskid = t
     /\ at \in Starting => \A r \in Own(t) : pkt[r].exinf = NONE
     /\ at \in Holding => \A r \in Own(t) : drqlock[Rw(pkt[r].kind)] = t
     /\ at \in Waiting \cup {"queued"} => \A r \in Own(t) : Linked(r)
     /\ at = "failed" => \A r \in Own(t) : Blockless(r)
     /\ at \in Waiting \cup {"leave"} =>
          /\ rs # << >>
          /\ \A r \in Own(t) : /\ pkt[r].used /\ pkt[r].exinf # NONE
                               /\ \/ pkt[r].tskid = t
                                  \/ pkt[r].tskid = NONE /\ Len(rs) = 1 /\ pkt[r].abort /\ none
     /\ at \in Marked => \A d \in Mine(t) : gdi.drq[d].wtid = t
     /\ at = "tev" /\ (\E d \in Mine(t) : IsDone(d)) => t \in tev \/ waitmask[t] = "TEV"
     /\ at = "wai_tev" => \A d \in Mine(t) : ~IsDone(d)
     /\ at \in {"tev", "wai_tev"} /\ Closing(t) =>
          /\ t \in tev => \E d \in Mine(t) : IsDone(d)
          /\ Mine(t) \cap Queued = {}
     /\ at = "collect" /\ Closing(t) => \E d \in Mine(t) : IsDone(d)
     /\ at = "clear" /\ Closing(t) => st[t].complete # NONE
     /\ at = "release" \/ (at = "clear" /\ st[t].complete # NONE) =>
          st[t].complete \in Mine(t) /\ IsDone(st[t].complete)
     /\ at = "leave" =>
          \A r \in Own(t) : IF pkt[r].exinf = st[t].complete THEN Blockless(r)
                            ELSE Linked(r) /\ pkt[r].tskid = t

CallInv == \A t \in Users : Call(t)

\* Who aborts a call names what the call is about, and it has not returned.
AbortInv ==
  \A a \in Users : Is(a, "abort") =>
    /\ st[a].rs # << >>
    /\ \E t \in Users : ~Is(t, "abort") /\ st[t].rs = st[a].rs
                          /\ \A r \in Range(st[t].rs) : pkt[r].tskid = t

\* Who is about to wait for a block or a request cannot have one, or the bit
\* that will wake it is set.
FlagTask(t) ==
  /\ Is(t, "empty") => Full(Dir(t)) \/ Dir(t) \in flgptn
  /\ Is(t, "wai_flg") => Full(Dir(t))

FlagDriver(v) ==
  /\ Is(v, "empty") => \A d \in Queued : Kind(d) \in Accepts[v] => Kind(d) \in flgptn
  /\ Is(v, "wai_flg") => \A d \in Queued : Kind(d) \notin Accepts[v]

FlagInv == (\A t \in Users : FlagTask(t)) /\ (\A v \in Drivers : FlagDriver(v))

\* A reply to an aborted request is to a block no one else will reply to.
ReplyInv ==
  \A v \in Drivers : Is(v, "reply") =>
    /\ st[v].complete \in Busy \ Queued /\ ~IsDone(st[v].complete)
    /\ \A w \in Drivers : Is(w, "reply") /\ st[w].complete = st[v].complete => w = v

GdiInv == GdiTypes /\ ReqInv /\ BlockInv /\ QueueInv /\ CountInv /\ CallInv /\ AbortInv
            /\ FlagInv /\ ReplyInv

\* The two conditions of the theorems; the code does not see to either.  A
\* task that comes to close the device has no event left from an earlier wait
\* (gdrvif.c:722 clears it, but not under a wait mask); else its wait ends
\* before its request is complete, and the request is unregistered with its
\* block in use.
ClosesWithoutEvent ==
  \A t \in Users : Is(t, "mark") /\ Closing(t) => t \notin tev

\* The block that the request to be aborted names has not gone to another
\* request (gdrvif.c:766: exinf is not reset when the block is returned); else
\* gdi_abortreq ends the wrong one and signals the wrong task.
AbortsItsOwn ==
  \A a \in Users : Is(a, "abort") /\ Len(st[a].rs) = 1 =>
    \A d \in DRQs : pkt[st[a].rs[1]].exinf = d => gdi.drq[d].req \in {NONE, st[a].rs[1]}

---------------------------------------------------------------------------
(* What the parts say of one thing. *)

\* The types of the parts of the state.
LEMMA Types ==
  ASSUME GdiTypes
  PROVE  /\ gdi \in GDIs /\ gdi.drq \in [DRQs -> Block]
         /\ \A d \in DRQs : /\ gdi.drq[d].req \in Pkts \cup {NONE}
                            /\ gdi.drq[d].wtid \in Users \cup {NONE}
                            /\ gdi.drq[d].done \in Done
         /\ gdi.freeq \in Seq(DRQs) /\ gdi.acpq \in Seq(DRQs)
         /\ gdi.preq \in [Dirs -> Nat] /\ gdi.acp \in [Kinds -> Nat]
         /\ \A r \in Pkts : /\ pkt[r].used \in BOOLEAN /\ pkt[r].abort \in BOOLEAN
                            /\ pkt[r].kind \in Kinds \cup {NONE}
                            /\ pkt[r].exinf \in DRQs \cup {NONE}
                            /\ pkt[r].tskid \in Users \cup {NONE}
         /\ \A x \in Users \cup Drivers : st[x].rs \in Seq(Pkts) /\ st[x].complete \in DRQs \cup {NONE}
BY DEF GdiTypes, GdiType, GDIs, Block, ReqType, PcType, PCs, PC

\* The requests of a call.
LEMMA OwnRequests ==
  ASSUME GdiTypes, NEW t \in Users
  PROVE  /\ Own(t) \subseteq Pkts
         /\ ~Is(t, "abort") => Own(t) = Range(st[t].rs)
         /\ ~Is(t, "abort") /\ st[t].rs # << >> => st[t].rs[1] \in Own(t)
         /\ ~Is(t, "abort") /\ Len(st[t].rs) = 1 => Own(t) = {st[t].rs[1]}
         /\ st[t].rs = << >> => Own(t) = {}
<1>1. st[t].rs \in Seq(Pkts)
  BY Types
<1>2. Len(st[t].rs) \in Nat /\ DOMAIN st[t].rs = 1 .. Len(st[t].rs)
  BY <1>1
<1>3. Range(st[t].rs) \subseteq Pkts
  BY <1>1, <1>2 DEF Range
<1>4. st[t].rs # << >> => st[t].rs[1] \in Range(st[t].rs)
  <2>1. st[t].rs # << >> => 1 \in DOMAIN st[t].rs
    BY <1>1, <1>2
  <2> QED BY <2>1 DEF Range
<1>5. Len(st[t].rs) = 1 => Range(st[t].rs) = {st[t].rs[1]}
  BY <1>2 DEF Range
<1>6. st[t].rs = << >> => Range(st[t].rs) = {}
  BY DEF Range
<1> QED BY <1>3, <1>4, <1>5, <1>6 DEF Own

\* The blocks of linked requests.
LEMMA MineBlocks ==
  ASSUME DriverAssumption, GdiTypes, BlockInv, NEW t \in Users, ~Is(t, "abort"),
         \A r \in Own(t) : Linked(r)
  PROVE  Blocks(t) = Mine(t)
<1>1. Own(t) = Range(st[t].rs) /\ ToSet(st[t].rs) = Range(st[t].rs) /\ Own(t) \subseteq Pkts
  BY OwnRequests DEF ToSet, Range
<1>2. \A r \in Own(t) : pkt[r].exinf \in DRQs /\ gdi.drq[pkt[r].exinf].req = r
  BY <1>1, Types DEF Linked
<1>3. \A d \in Mine(t) : pkt[gdi.drq[d].req].exinf = d
  BY <1>1, Types DEF Mine, BlockInv, DriverAssumption
<1>4. Blocks(t) = {pkt[r].exinf : r \in Own(t)}
  BY <1>1 DEF Blocks
<1> QED BY <1>2, <1>3, <1>4 DEF Mine

---------------------------------------------------------------------------
(* What a step of another task leaves true of a call. *)

\* The step leaves u where it is or ends its wait, and the requests of u are
\* touched only by a reply, of which u is told.
Keep(u) ==
  /\ st'[u].rs = st[u].rs /\ st'[u].complete = st[u].complete
  /\ \/ st'[u].at = st[u].at
     \/ st[u].at = "wai_flg" /\ st'[u].at \in {"awake", "tmout"}
     \/ st[u].at = "wai_tev" /\ st'[u].at = "collect"
          /\ (Closing(u) => \E d \in Mine(u) : IsDone(d)')
  /\ \A r \in Own(u) :
       /\ pkt'[r].used = pkt[r].used /\ pkt'[r].kind = pkt[r].kind
       /\ pkt'[r].exinf = pkt[r].exinf /\ pkt'[r].tskid = pkt[r].tskid
       /\ pkt[r].abort => pkt'[r].abort
  /\ \A d \in DRQs : gdi.drq[d].req \in Own(u) \/ gdi'.drq[d].req \in Own(u) =>
       /\ gdi'.drq[d].req = gdi.drq[d].req
       /\ gdi'.drq[d].wtid = gdi.drq[d].wtid
       /\ gdi.drq[d].done = "Done" => gdi'.drq[d].done = "Done"
  /\ st[u].at = "tev" /\ (\E d \in Mine(u) : ~IsDone(d) /\ IsDone(d)') =>
       u \in tev' \/ waitmask'[u] = "TEV"
  /\ st'[u].at = "wai_tev" => \A d \in Mine(u) : IsDone(d)' => IsDone(d)
  /\ \/ waitmask'[u] = waitmask[u]
     \/ ~Closing(u) /\ st[u].at \notin {"user", "abort"}
          /\ (st[u].at = "tev" => waitmask'[u] = "TEV")
  /\ u \in tev => u \in tev'
  /\ u \in tev' /\ u \notin tev /\ Closing(u) => \E d \in Mine(u) : IsDone(d)'
  /\ Mine(u) \cap Queued' \subseteq Queued
  /\ \A x \in Dirs : drqlock[x] = u => drqlock'[x] = u

\* A call that keeps what it goes by is about the same requests and blocks.
LEMMA KeepOwn ==
  ASSUME NEW u \in Users, Keep(u)
  PROVE  Own(u)' = Own(u) /\ (Mine(u)' = Mine(u)) /\ (Closing(u)' <=> Closing(u))
<1>1. Own(u)' = Own(u)
  BY DEF Keep, Own, Is
<1>2. Mine(u)' = Mine(u)
  BY <1>1 DEF Keep, Mine
<1>3. Closing(u)' <=> Closing(u)
  BY <1>1 DEF Keep, Closing
<1> QED BY <1>1, <1>2, <1>3

\* What holds of such a call at its place still holds.
LEMMA CallKept ==
  ASSUME GdiTypes, ReqInv, BlockInv, NEW u \in Users, Call(u), Keep(u)
  PROVE  Call(u)'
<1>1. Own(u)' = Own(u) /\ (Mine(u)' = Mine(u)) /\ (Closing(u)' <=> Closing(u))
  BY KeepOwn
<1>2. /\ Own(u) \subseteq Pkts
      /\ \A r \in Own(u) :
           /\ pkt'[r].used = pkt[r].used /\ pkt'[r].kind = pkt[r].kind
           /\ pkt'[r].exinf = pkt[r].exinf /\ pkt'[r].tskid = pkt[r].tskid
           /\ pkt[r].abort => pkt'[r].abort
      /\ \A r \in Own(u) : pkt[r].exinf \in DRQs \cup {NONE}
  BY OwnRequests, Types DEF Keep
<1>3. \A r \in Own(u) : (Linked(r) => Linked(r)') /\ (Blockless(r) => Blockless(r)')
  BY <1>2 DEF Keep, Linked, Blockless
<1>4. \A d \in Mine(u) : gdi'.drq[d].wtid = gdi.drq[d].wtid /\ (IsDone(d) => IsDone(d)')
  BY DEF Keep, Mine, IsDone
<1>5. /\ st'[u].rs = st[u].rs /\ st'[u].complete = st[u].complete
      /\ \/ st'[u].at = st[u].at
         \/ st[u].at = "wai_flg" /\ st'[u].at \in {"awake", "tmout"}
         \/ st[u].at = "wai_tev" /\ st'[u].at = "collect"
              /\ (Closing(u) => \E d \in Mine(u) : IsDone(d)')
  BY DEF Keep
<1>6. (st[u].at \in {"user", "abort"} \/ Closing(u)) => waitmask'[u] = waitmask[u]
  BY DEF Keep
<1> DEFINE at == st'[u].at
<1>7. /\ at = "user" => st'[u].rs = << >>
      /\ at \in {"user", "abort"} => waitmask'[u] = "none"
      /\ at \in Starting \cup Ending => Len(st'[u].rs) = 1 /\ \A r \in Own(u)' : pkt'[r].tskid = u
      /\ at \in Starting => \A r \in Own(u)' : pkt'[r].exinf = NONE
  BY <1>1, <1>2, <1>5, <1>6 DEF Call, Starting, Ending
<1>8. at \in Holding => \A r \in Own(u)' : drqlock'[Rw(pkt'[r].kind)] = u
  <2>1. \A r \in Own(u) : Rw(pkt[r].kind) \in Dirs
    BY DEF Rw, Dirs
  <2>2. at \in Holding => st[u].at \in Holding
    BY <1>5 DEF Holding
  <2>3. at \in Holding => \A r \in Own(u) : drqlock[Rw(pkt[r].kind)] = u
    BY <2>2 DEF Call
  <2> QED BY <1>1, <1>2, <2>1, <2>3 DEF Keep
<1>9. /\ at \in Waiting \cup {"queued"} => \A r \in Own(u)' : Linked(r)'
      /\ at = "failed" => \A r \in Own(u)' : Blockless(r)'
  <2>1. at \in Waiting \cup {"queued"} => st[u].at \in Waiting \cup {"queued"}
    BY <1>5 DEF Waiting, Marked
  <2>2. at = "failed" => st[u].at = "failed"
    BY <1>5
  <2>3. /\ at \in Waiting \cup {"queued"} => \A r \in Own(u) : Linked(r)
        /\ at = "failed" => \A r \in Own(u) : Blockless(r)
    BY <2>1, <2>2 DEF Call
  <2> QED BY <1>1, <1>3, <2>3
<1>10. at \in Waiting \cup {"leave"} =>
         /\ st'[u].rs # << >>
         /\ \A r \in Own(u)' : /\ pkt'[r].used /\ pkt'[r].exinf # NONE
                               /\ \/ pkt'[r].tskid = u
                                  \/ pkt'[r].tskid = NONE /\ Len(st'[u].rs) = 1 /\ pkt'[r].abort
                                       /\ waitmask'[u] = "none"
  <2>1. at \in Waiting \cup {"leave"} => st[u].at \in Waiting \cup {"leave"}
    BY <1>5 DEF Waiting, Marked
  <2>2. \A r \in Own(u) : pkt[r].tskid = NONE => waitmask'[u] = waitmask[u]
    BY <1>6 DEF Closing
  <2>3. at \in Waiting \cup {"leave"} =>
         /\ st[u].rs # << >>
         /\ \A r \in Own(u) : /\ pkt[r].used /\ pkt[r].exinf # NONE
                              /\ \/ pkt[r].tskid = u
                                 \/ pkt[r].tskid = NONE /\ Len(st[u].rs) = 1 /\ pkt[r].abort
                                      /\ waitmask[u] = "none"
    BY <2>1 DEF Call
  <2> QED BY <1>1, <1>2, <1>5, <2>2, <2>3
<1>11. at \in Marked => \A d \in Mine(u)' : gdi'.drq[d].wtid = u
  <2>1. at \in Marked => st[u].at \in Marked
    BY <1>5 DEF Marked
  <2>2. at \in Marked => \A d \in Mine(u) : gdi.drq[d].wtid = u
    BY <2>1 DEF Call
  <2> QED BY <1>1, <1>4, <2>2
<1>12. at = "tev" /\ (\E d \in Mine(u)' : IsDone(d)') => u \in tev' \/ waitmask'[u] = "TEV"
  <2>1. SUFFICES ASSUME at = "tev", NEW d \in Mine(u), IsDone(d)'
                 PROVE  u \in tev' \/ waitmask'[u] = "TEV"
    BY <1>1
  <2>2. st[u].at = "tev"
    BY <1>5, <2>1
  <2>3. CASE IsDone(d)
    <3>1. u \in tev \/ waitmask[u] = "TEV"
      BY <2>2, <2>3 DEF Call
    <3> QED BY <2>2, <3>1 DEF Keep
  <2>4. CASE ~IsDone(d)
    BY <2>1, <2>2, <2>4 DEF Keep
  <2> QED BY <2>3, <2>4
<1>13. at = "wai_tev" => \A d \in Mine(u)' : ~IsDone(d)'
  <2>1. at = "wai_tev" => st[u].at = "wai_tev"
    BY <1>5
  <2>2. at = "wai_tev" => \A d \in Mine(u) : ~IsDone(d)
    BY <2>1 DEF Call
  <2>3. at = "wai_tev" => \A d \in Mine(u) : IsDone(d)' => IsDone(d)
    BY DEF Keep
  <2> QED BY <1>1, <2>2, <2>3
<1>14. at \in {"tev", "wai_tev"} /\ Closing(u)' =>
         /\ u \in tev' => \E d \in Mine(u)' : IsDone(d)'
         /\ Mine(u)' \cap Queued' = {}
  <2>1. at \in {"tev", "wai_tev"} => st[u].at \in {"tev", "wai_tev"}
    BY <1>5
  <2>2. at \in {"tev", "wai_tev"} /\ Closing(u) =>
          /\ u \in tev => \E d \in Mine(u) : IsDone(d)
          /\ Mine(u) \cap Queued = {}
    BY <2>1 DEF Call
  <2>3. u \in tev' /\ u \notin tev /\ Closing(u) => \E d \in Mine(u) : IsDone(d)'
    BY DEF Keep
  <2>4. Mine(u) \cap Queued' \subseteq Queued
    BY DEF Keep
  <2> QED BY <1>1, <1>4, <2>2, <2>3, <2>4
<1>15. /\ at = "collect" /\ Closing(u)' => \E d \in Mine(u)' : IsDone(d)'
       /\ at = "clear" /\ Closing(u)' => st'[u].complete # NONE
  <2>1. st[u].at = "collect" /\ Closing(u) => \E d \in Mine(u) : IsDone(d)
    BY DEF Call
  <2>2. st[u].at = "clear" /\ Closing(u) => st[u].complete # NONE
    BY DEF Call
  <2> QED BY <1>1, <1>4, <1>5, <2>1, <2>2
<1>16. at = "release" \/ (at = "clear" /\ st'[u].complete # NONE) =>
         st'[u].complete \in Mine(u)' /\ (IsDone(st[u].complete))'
  <2>1. at = "release" \/ (at = "clear" /\ st'[u].complete # NONE) =>
          st[u].complete \in Mine(u) /\ IsDone(st[u].complete)
    BY <1>5 DEF Call
  <2>2. st[u].complete \in Mine(u) /\ IsDone(st[u].complete) => (IsDone(st[u].complete))'
    <3>1. PICK d : d = st[u].complete
      OBVIOUS
    <3>2. d \in Mine(u) /\ IsDone(d) => IsDone(d)'
      BY <1>4
    <3> QED BY <1>5, <3>1, <3>2 DEF IsDone
  <2> QED BY <1>1, <1>5, <2>1, <2>2
<1>17. at = "leave" =>
         \A r \in Own(u)' : IF pkt'[r].exinf = st'[u].complete THEN Blockless(r)'
                            ELSE Linked(r)' /\ pkt'[r].tskid = u
  <2>1. at = "leave" =>
         \A r \in Own(u) : IF pkt[r].exinf = st[u].complete THEN Blockless(r)
                           ELSE Linked(r) /\ pkt[r].tskid = u
    BY <1>5 DEF Call
  <2> QED BY <1>1, <1>2, <1>3, <1>5, <2>1
<1> QED
  BY <1>7, <1>8, <1>9, <1>10, <1>11, <1>12, <1>13, <1>14, <1>15, <1>16, <1>17 DEF Call

---------------------------------------------------------------------------
(* Parts a step does not touch. *)

\* The calls keep their requests.
SameCalls ==
  \A u \in Users : st'[u].rs = st[u].rs /\ (st'[u].at = "abort" <=> st[u].at = "abort")

\* Whose requests they are does not change then.
LEMMA OwnKept ==
  ASSUME SameCalls
  PROVE  \A u \in Users : Own(u)' = Own(u)
BY DEF SameCalls, Own, Is

\* The blocks keep their requests, the requests what links them.
SameLinks ==
  /\ \A r \in Pkts : /\ pkt'[r].used = pkt[r].used /\ pkt'[r].kind = pkt[r].kind
                     /\ pkt'[r].exinf = pkt[r].exinf
  /\ \A d \in DRQs : gdi'.drq[d].req = gdi.drq[d].req

\* Nor does what relates a request to its call and its block.
LEMMA ReqKept ==
  ASSUME GdiTypes, ReqInv, SameLinks, \A u \in Users : Own(u)' = Own(u),
         \A r \in Pkts : pkt'[r].tskid = pkt[r].tskid
  PROVE  ReqInv'
<1>1. \A r \in Pkts : (Linked(r)' <=> Linked(r)) /\ (Blockless(r)' <=> Blockless(r))
  <2>1. \A r \in Pkts : pkt[r].exinf \in DRQs \cup {NONE}
    BY Types
  <2> QED BY <2>1 DEF SameLinks, Linked, Blockless
<1> QED BY <1>1 DEF ReqInv, SameLinks

\* No wait mark is set, and who has one stays where it is marked.
SameMarks ==
  \A d \in DRQs :
    /\ gdi'.drq[d].wtid = gdi.drq[d].wtid
    /\ gdi'.drq[d].done # gdi.drq[d].done => gdi.drq[d].req # NONE
    /\ \A u \in Users : gdi.drq[d].wtid = u => st'[u].at \in Marked

\* Nor what relates a block to its request and the task that waits for it.
LEMMA BlockKept ==
  ASSUME DriverAssumption, GdiTypes, BlockInv, SameLinks, SameMarks, \A u \in Users : Own(u)' = Own(u)
  PROVE  BlockInv'
<1>1. \A d \in DRQs : gdi.drq[d].req # NONE => gdi.drq[d].req \in Pkts
  BY Types
<1> QED BY <1>1 DEF BlockInv, SameLinks, SameMarks

\* The queues and what they count are the same.
SameQueues ==
  /\ gdi'.freeq = gdi.freeq /\ gdi'.acpq = gdi.acpq
  /\ gdi'.preq = gdi.preq /\ gdi'.acp = gdi.acp
  /\ \A d \in Queued : gdi'.drq[d].done = gdi.drq[d].done

\* The blocks in use and the kinds of their requests are the same.
SameKinds == Busy' = Busy /\ \A d \in Busy : Kind(d)' = Kind(d)

\* The kinds of the requests in blocks follow from the links.
LEMMA KindKept ==
  ASSUME DriverAssumption, GdiTypes, SameLinks
  PROVE  SameKinds
<1>1. \A d \in DRQs : gdi.drq[d].req # NONE => gdi.drq[d].req \in Pkts
  BY Types
<1> QED BY <1>1 DEF SameLinks, SameKinds, Kind, Busy

\* The queues and the counts go on describing the blocks.
LEMMA QueueKept ==
  ASSUME QueueInv, CountInv, SameKinds, SameQueues
  PROVE  QueueInv' /\ CountInv' /\ Queued' = Queued
<1>1. Busy' = Busy /\ \A d \in Busy : Kind(d)' = Kind(d)
  BY DEF SameKinds
<1>2. Queued' = Queued
  BY DEF SameQueues, Queued
<1>3. QueueInv'
  BY <1>1, <1>2 DEF QueueInv, SameQueues
<1>4. Queued \subseteq Busy
  BY DEF QueueInv
<1>5. ASSUME NEW k \in Kinds
      PROVE  {d \in Queued : Kind(d) = k}' = {d \in Queued : Kind(d) = k}
  BY <1>1, <1>2, <1>4
<1>6. ASSUME NEW x \in Dirs
      PROVE  {d \in Busy : Rw(Kind(d)) = x}' = {d \in Busy : Rw(Kind(d)) = x}
  BY <1>1 DEF Rw
<1>7. CountInv'
  BY <1>5, <1>6 DEF CountInv, SameQueues
<1> QED BY <1>2, <1>3, <1>7

\* Who is being aborted has not returned.
LEMMA AbortKept ==
  ASSUME AbortInv, SameCalls, \A r \in Pkts : pkt'[r].tskid = pkt[r].tskid, GdiTypes
  PROVE  AbortInv'
<1> SUFFICES ASSUME NEW a \in Users, Is(a, "abort")'
             PROVE  /\ st'[a].rs # << >>
                    /\ \E t \in Users : ~Is(t, "abort")' /\ st'[t].rs = st'[a].rs
                                          /\ \A r \in Range(st'[t].rs) : pkt'[r].tskid = t
  BY DEF AbortInv
<1>1. Is(a, "abort") /\ st'[a].rs = st[a].rs
  BY DEF SameCalls, Is
<1>2. PICK t \in Users : ~Is(t, "abort") /\ st[t].rs = st[a].rs
                           /\ \A r \in Range(st[t].rs) : pkt[r].tskid = t
  BY <1>1 DEF AbortInv
<1>3. ~Is(t, "abort")' /\ st'[t].rs = st[t].rs
  BY <1>2 DEF SameCalls, Is
<1>4. Range(st[t].rs) \subseteq Pkts
  BY <1>2, OwnRequests
<1>5. st[a].rs # << >>
  BY <1>1 DEF AbortInv
<1> QED BY <1>1, <1>2, <1>3, <1>4, <1>5

\* The replies of the driver tasks.
SameReplies ==
  /\ \A v \in Drivers : st'[v].at = "reply" => st[v].at = "reply" /\ st'[v].complete = st[v].complete
  /\ \A d \in DRQs : gdi'.drq[d].done = "Done" /\ gdi.drq[d].done # "Done" =>
       ~ \E v \in Drivers : Is(v, "reply")' /\ st'[v].complete = d

\* The blocks that driver tasks are about to reply to stay theirs.
LEMMA ReplyKept ==
  ASSUME ReplyInv, SameReplies,
         \A d \in Busy \ Queued : ~IsDone(d) => d \in Busy' \ Queued'
  PROVE  ReplyInv'
<1> SUFFICES ASSUME NEW v \in Drivers, Is(v, "reply")'
             PROVE  /\ st'[v].complete \in Busy' \ Queued' /\ ~(IsDone(st[v].complete))'
                    /\ \A w \in Drivers : Is(w, "reply")' /\ st'[w].complete = st'[v].complete => w = v
  BY DEF ReplyInv
<1>1. Is(v, "reply") /\ st'[v].complete = st[v].complete
  BY DEF SameReplies, Is
<1>2. PICK d \in DRQs : d = st[v].complete
  BY <1>1 DEF ReplyInv, Busy
<1>3. d \in Busy \ Queued /\ ~IsDone(d)
  BY <1>1, <1>2 DEF ReplyInv
<1>4. ~IsDone(d)'
  BY <1>1, <1>2, <1>3 DEF SameReplies, IsDone
<1>5. ~(IsDone(st[v].complete))'
  BY <1>1, <1>2, <1>4 DEF IsDone
<1>6. ASSUME NEW w \in Drivers, Is(w, "reply")', st'[w].complete = st'[v].complete PROVE w = v
  <2>1. Is(w, "reply") /\ st'[w].complete = st[w].complete
    BY <1>6 DEF SameReplies, Is
  <2> QED BY <1>1, <1>6, <2>1 DEF ReplyInv
<1> QED BY <1>1, <1>2, <1>3, <1>5, <1>6

---------------------------------------------------------------------------
(* The event flag. *)

\* What a task or a driver task waits for.
LEMMA WaitPattern ==
  ASSUME DriverAssumption, GdiTypes
  PROVE  /\ \A t \in Users : waiptn(t) = {Rw(pkt[st[t].rs[1]].kind)}
         /\ \A v \in Drivers : waiptn(v) = Accepts[v] \cup Cmds
         /\ \A k : Rw(k) \in Dirs
         /\ \A v \in Drivers : Accepts[v] \subseteq Kinds /\ Accepts[v] \cap Dirs = {}
         /\ Cmds \cap (Dirs \cup Kinds) = {} /\ Kinds \cap Dirs = {}
         /\ \A v, w \in Drivers : v # w => Accepts[v] \cap Accepts[w] = {}
<1>1. Kinds \cap Dirs = {}
  BY DEF DriverAssumption, RD, WR, Dirs
<1>2. \A v \in Drivers : Accepts[v] \subseteq Kinds
  BY DEF DriverAssumption
<1>3. Cmds \cap (Dirs \cup Kinds) = {}
  BY DEF DriverAssumption, Dirs
<1>4. \A v, w \in Drivers : v # w => Accepts[v] \cap Accepts[w] = {}
  BY DEF DriverAssumption
<1>5. Users \cap Drivers = {}
  BY DEF DriverAssumption
<1>6. \A k : Rw(k) \in Dirs
  BY DEF Rw, Dirs
<1>7. \A t \in Users : waiptn(t) = {Rw(pkt[st[t].rs[1]].kind)}
  BY <1>5 DEF waiptn
<1>8. \A v \in Drivers : waiptn(v) = Accepts[v] \cup Cmds
  BY DEF waiptn
<1> QED BY <1>1, <1>2, <1>3, <1>4, <1>6, <1>7, <1>8

\* Two tasks that hold LockDRQ hold it for different directions.
LEMMA HoldersDiffer ==
  ASSUME GdiTypes, CallInv, NEW t \in Users, NEW u \in Users, t # u,
         st[t].at \in Holding, st[u].at \in Holding
  PROVE  Dir(t) # Dir(u)
<1>1. ASSUME NEW x \in Users, st[x].at \in Holding PROVE drqlock[Dir(x)] = x
  <2>1. Call(x) /\ Len(st[x].rs) = 1 /\ ~Is(x, "abort")
    BY <1>1 DEF CallInv, Call, Holding, Starting, Is
  <2>2. st[x].rs[1] \in Own(x)
    BY <2>1, OwnRequests
  <2> QED BY <1>1, <2>1, <2>2 DEF Call, Dir
<1> QED BY <1>1

\* tk_set_flg: nobody who waits for one of the bits P is left asleep, and the
\* bits of those who are about to wait stay.
FlagsSet(P, p) ==
  /\ flgptn' \subseteq flgptn \cup P
  /\ \A x \in Users \cup Drivers :
       /\ st'[x].rs = p[x].rs /\ st'[x].complete = p[x].complete /\ st'[x].err = p[x].err
       /\ \/ st'[x].at = p[x].at
          \/ p[x].at = "wai_flg" /\ st'[x].at = "awake"
  /\ \A t \in Users : st'[t].at = "wai_flg" => Dir(t) \notin P
  /\ \A t \in Users : st[t].at = "empty" /\ Dir(t) \in flgptn \cup P => Dir(t) \in flgptn'
  /\ \A v \in Drivers : st'[v].at = "wai_flg" => Accepts[v] \cap P = {}
  /\ \A v \in Drivers : st[v].at = "empty" => Accepts[v] \cap (flgptn \cup P) \subseteq flgptn'

\* tk_set_flg does so.
LEMMA SetFlags ==
  ASSUME DriverAssumption, GdiTypes, CallInv, NEW P, NEW p \in PCs, set_flg(P, p),
         \A x \in Users \cup Drivers : p[x].at = "wai_flg" <=> st[x].at = "wai_flg"
  PROVE  FlagsSet(P, p) /\ st' \in PCs
<1> DEFINE ptn   == flgptn \cup P
           woken == IF P = {} THEN {} ELSE {x \in Asleep : waiptn(x) \cap ptn # {}}
<1>1. /\ flgptn' = ptn \ UNION {waiptn(x) : x \in woken}
      /\ st' = [x \in DOMAIN p |->
                  IF x \in woken THEN [p[x] EXCEPT !.at = "awake", !.aptn = acquired(x, ptn)]
                  ELSE p[x]]
  BY DEF set_flg
<1>2. /\ woken \subseteq Users \cup Drivers /\ DOMAIN p = Users \cup Drivers
      /\ \A x \in woken : st[x].at = "wai_flg" /\ p[x].at = "wai_flg" /\ waiptn(x) \cap ptn # {}
      /\ \A x \in Users \cup Drivers : st[x].at = "wai_flg" /\ x \notin woken =>
           P = {} \/ waiptn(x) \cap ptn = {}
  BY DEF Asleep, Is, PCs
<1> HIDE DEF woken
<1>3. \A x \in woken : acquired(x, ptn) \in SUBSET (Kinds \cup Cmds)
  BY <1>2, WaitPattern DEF acquired
<1>4. ASSUME NEW x \in Users \cup Drivers
      PROVE  /\ st'[x].rs = p[x].rs /\ st'[x].complete = p[x].complete /\ st'[x].err = p[x].err
             /\ x \in woken => st'[x].at = "awake"
             /\ x \notin woken => st'[x].at = p[x].at
  BY <1>1, <1>2 DEF PCs, PC
<1>5. st' \in PCs
  <2>1. ASSUME NEW x \in woken
        PROVE  [p[x] EXCEPT !.at = "awake", !.aptn = acquired(x, ptn)] \in PC
    <3>1. "awake" \in Places
      BY DEF Places, Starting
    <3> QED BY <1>2, <1>3, <3>1 DEF PCs, PC
  <2> QED BY <1>1, <1>2, <2>1 DEF PCs
<1>6. \A t \in Users : st'[t].at = "wai_flg" => Dir(t) \notin P
  BY <1>2, <1>4, WaitPattern DEF Dir
<1>7. \A v \in Drivers : st'[v].at = "wai_flg" => Accepts[v] \cap P = {}
  BY <1>2, <1>4, WaitPattern
<1>8. ASSUME NEW t \in Users, st[t].at = "empty", Dir(t) \in ptn PROVE Dir(t) \in flgptn'
  <2>1. SUFFICES ASSUME NEW x \in woken, Dir(t) \in waiptn(x) PROVE FALSE
    BY <1>1, <1>8
  <2>2. CASE x \in Users
    <3>1. st[t].at \in Holding /\ st[x].at \in Holding /\ x # t
      BY <1>2, <1>8 DEF Holding
    <3>2. Dir(t) = Dir(x)
      BY <2>1, <2>2, WaitPattern DEF Dir
    <3> QED BY <2>2, <3>1, <3>2, HoldersDiffer
  <2>3. CASE x \in Drivers
    BY <2>1, <2>3, WaitPattern DEF Dir
  <2> QED BY <1>2, <2>2, <2>3
<1>9. ASSUME NEW v \in Drivers, st[v].at = "empty", NEW k \in Accepts[v] \cap ptn PROVE k \in flgptn'
  <2>1. SUFFICES ASSUME NEW x \in woken, k \in waiptn(x) PROVE FALSE
    BY <1>1, <1>9
  <2>2. CASE x \in Users
    BY <2>1, <2>2, WaitPattern
  <2>3. CASE x \in Drivers
    <3>1. x # v
      BY <1>2, <1>9
    <3> QED BY <2>1, <2>3, <3>1, WaitPattern
  <2> QED BY <1>2, <2>2, <2>3
<1> QED BY <1>1, <1>2, <1>4, <1>5, <1>6, <1>7, <1>8, <1>9 DEF FlagsSet

\* Who waits, or is about to, for a block goes on having to, or has its bit.
LEMMA FlagTaskKept ==
  ASSUME NEW u \in Users, FlagTask(u),
         st'[u].at \in {"empty", "wai_flg"} => st'[u].at = st[u].at /\ Dir(u)' = Dir(u),
         Full(Dir(u)) => (Full(Dir(u)))',
         st[u].at = "empty" /\ Dir(u) \in flgptn => Dir(u) \in flgptn'
  PROVE  FlagTask(u)'
BY DEF FlagTask, Is

\* The same for a driver task and the requests in the accept queue.
LEMMA FlagDriverKept ==
  ASSUME NEW v \in Drivers, FlagDriver(v), Queued' \subseteq Queued,
         \A d \in Queued' : Kind(d)' = Kind(d),
         st'[v].at \in {"empty", "wai_flg"} => st'[v].at = st[v].at,
         st[v].at = "empty" => Accepts[v] \cap flgptn \subseteq flgptn'
  PROVE  FlagDriver(v)'
BY DEF FlagDriver, Is

---------------------------------------------------------------------------
(* The task event. *)

Signalled(T, D, p) ==
  /\ tev \subseteq tev' /\ tev' \subseteq tev \cup T
  /\ \A t \in T : st[t].at # "wai_tev" => t \in tev'
  /\ \A x \in Users \cup Drivers :
       /\ st'[x].rs = p[x].rs /\ st'[x].complete = p[x].complete
       /\ IF x \in T \cup D /\ st[x].at = "wai_tev" THEN st'[x].at = "collect"
          ELSE st'[x].at = p[x].at

\* tk_sig_tev and tk_dis_wai do so.
LEMMA Signals ==
  ASSUME NEW T \in SUBSET Users, NEW D \in SUBSET Users, NEW p \in PCs, signal(T, D, p)
  PROVE  Signalled(T, D, p) /\ st' \in PCs
<1>1. /\ tev' = tev \cup {t \in T : st[t].at # "wai_tev"}
      /\ st' = [x \in DOMAIN p |->
                  IF x \in T \cup D /\ st[x].at = "wai_tev"
                  THEN [p[x] EXCEPT !.at = "collect",
                                    !.err = IF x \in T THEN "event" ELSE "abort"]
                  ELSE p[x]]
  BY DEF signal, Is
<1>2. DOMAIN p = Users \cup Drivers
  BY DEF PCs
<1>3. st' \in PCs
  <2>1. ASSUME NEW x \in Users \cup Drivers
        PROVE  [p[x] EXCEPT !.at = "collect", !.err = IF x \in T THEN "event" ELSE "abort"] \in PC
    <3>1. "collect" \in Places
      BY DEF Places, Waiting, Marked
    <3> QED BY <3>1 DEF PCs, PC
  <2> QED BY <1>1, <1>2, <2>1 DEF PCs
<1>4. ASSUME NEW x \in Users \cup Drivers
      PROVE  /\ st'[x].rs = p[x].rs /\ st'[x].complete = p[x].complete
             /\ IF x \in T \cup D /\ st[x].at = "wai_tev" THEN st'[x].at = "collect"
                ELSE st'[x].at = p[x].at
  BY <1>1, <1>2 DEF PCs, PC
<1> QED BY <1>1, <1>3, <1>4 DEF Signalled

---------------------------------------------------------------------------
(* The queues. *)

\* Sets of blocks are finite.
LEMMA BlocksFinite ==
  ASSUME DriverAssumption, NEW S \in SUBSET DRQs
  PROVE  IsFiniteSet(S) /\ Cardinality(S) \in Nat
<1>1. 1 \in Int /\ MAXREQQ \in Int
  BY DEF DriverAssumption
<1>2. IsFiniteSet(DRQs)
  BY <1>1, FS_Interval DEF DRQs
<1> QED BY <1>2, FS_Subset, FS_CardinalityType

\* unqueued takes the blocks S off the accept queue and corrects the counts.
Unqueued(g, S) ==
  /\ g.freeq = gdi.freeq /\ g.preq = gdi.preq
  /\ g.acpq \in Seq(DRQs) /\ IsInjective(g.acpq) /\ Range(g.acpq) = Queued \ S
  /\ g.acp \in [Kinds -> Nat]
  /\ \A k \in Kinds : g.acp[k] = Cardinality({d \in Queued \ S : Kind(d) = k})
  /\ g.drq \in [DRQs -> Block]
  /\ \A d \in DRQs : /\ g.drq[d].req = gdi.drq[d].req
                     /\ g.drq[d].wtid = gdi.drq[d].wtid
                     /\ g.drq[d].done = IF d \in S THEN "Done" ELSE gdi.drq[d].done

\* It does so for any blocks of the accept queue.
LEMMA Unqueues ==
  ASSUME DriverAssumption, GdiTypes, QueueInv, CountInv, NEW S \in SUBSET Queued
  PROVE  Unqueued(unqueued(gdi, S), S) /\ unqueued(gdi, S) \in GDIs
<1> DEFINE g   == unqueued(gdi, S)
           acp == [k \in Kinds |-> gdi.acp[k] - Cardinality({d \in S : Kind(d) = k})]
           drq == [d \in DRQs |-> IF d \in S THEN [gdi.drq[d] EXCEPT !.done = "Done"] ELSE gdi.drq[d]]
           q   == without(gdi.acpq, S)
<1>1. gdi \in GDIs
  BY Types
<1>2. /\ g.freeq = gdi.freeq /\ g.preq = gdi.preq
      /\ g.acpq = q /\ g.acp = acp /\ g.drq = drq
  BY <1>1 DEF unqueued, GDIs
<1>3. g = [gdi EXCEPT !.acpq = q, !.acp = acp, !.drq = drq]
  BY <1>1 DEF unqueued, GDIs
<1>4. Lists(gdi.acpq, Queued) /\ Queued \subseteq DRQs
  BY <1>1, ListsRange DEF GDIs, QueueInv, Queued
<1>5. Lists(q, Queued \ S)
  BY <1>4, WithoutList
<1>6. q \in Seq(DRQs) /\ IsInjective(q) /\ Range(q) = Queued \ S
  <2>1. Queued \ S \in SUBSET DRQs
    BY <1>4
  <2>2. q \in Seq(DRQs)
    BY <1>5, <2>1, ListsSeq
  <2> QED BY <1>5, <2>2 DEF Lists
<1>7. ASSUME NEW k \in Kinds
      PROVE  acp[k] = Cardinality({d \in Queued \ S : Kind(d) = k})
  <2> DEFINE A == {d \in Queued : Kind(d) = k}
             B == {d \in S : Kind(d) = k}
  <2>1. IsFiniteSet(A) /\ Cardinality(A) \in Nat
    BY <1>4, BlocksFinite
  <2>2. A \cap S = B /\ A \ S = {d \in Queued \ S : Kind(d) = k}
    OBVIOUS
  <2>3. Cardinality(A \ S) = Cardinality(A) - Cardinality(A \cap S)
    BY <2>1, FS_Difference
  <2>4. gdi.acp[k] = Cardinality(A)
    BY DEF CountInv
  <2>5. acp[k] = gdi.acp[k] - Cardinality(B)
    OBVIOUS
  <2> HIDE DEF A, B, acp
  <2> QED BY <2>2, <2>3, <2>4, <2>5
<1>8. acp \in [Kinds -> Nat]
  <2>1. ASSUME NEW k \in Kinds PROVE Cardinality({d \in Queued \ S : Kind(d) = k}) \in Nat
    BY <1>4, BlocksFinite
  <2>2. \A k \in Kinds : acp[k] \in Nat
    <3> HIDE DEF acp
    <3> QED BY <1>7, <2>1
  <2> QED BY <2>2
<1>9. drq \in [DRQs -> Block]
  <2>1. ASSUME NEW d \in DRQs PROVE [gdi.drq[d] EXCEPT !.done = "Done"] \in Block
    <3>1. gdi.drq[d] \in Block
      BY Types
    <3> QED BY <3>1 DEF Block, Done
  <2> QED BY <2>1, Types
<1>10. \A d \in DRQs : /\ drq[d].req = gdi.drq[d].req
                       /\ drq[d].wtid = gdi.drq[d].wtid
                       /\ drq[d].done = IF d \in S THEN "Done" ELSE gdi.drq[d].done
  BY Types DEF Block
<1>11. g \in GDIs
  <2> HIDE DEF drq, acp, q, g
  <2> QED BY <1>1, <1>3, <1>6, <1>8, <1>9 DEF GDIs
<1>12. Unqueued(g, S)
  <2> HIDE DEF drq, acp, q, g
  <2> QED BY <1>2, <1>6, <1>7, <1>8, <1>9, <1>10 DEF Unqueued
<1> QED BY <1>11, <1>12

\* gdi_relDRQ gives a block back.
LEMMA Releases ==
  ASSUME NEW g \in GDIs, NEW d \in DRQs, NEW x \in Dirs, g.preq[x] # 0
  PROVE  /\ gdi_relDRQ(g, d, x) \in GDIs
         /\ gdi_relDRQ(g, d, x).drq = [g.drq EXCEPT ![d] = FreeDRQ]
         /\ gdi_relDRQ(g, d, x).freeq = Append(g.freeq, d)
         /\ gdi_relDRQ(g, d, x).acpq = g.acpq
         /\ gdi_relDRQ(g, d, x).preq = [g.preq EXCEPT ![x] = @ - 1]
         /\ gdi_relDRQ(g, d, x).acp = g.acp
<1>1. gdi_relDRQ(g, d, x) =
        [g EXCEPT !.drq = [g.drq EXCEPT ![d] = FreeDRQ], !.freeq = Append(g.freeq, d),
                  !.preq = [g.preq EXCEPT ![x] = @ - 1]]
  BY DEF gdi_relDRQ, GDIs
<1>2. [g.drq EXCEPT ![d] = FreeDRQ] \in [DRQs -> Block]
  BY DEF FreeDRQ, GDIs, Block, Done
<1>3. [g.preq EXCEPT ![x] = @ - 1] \in [Dirs -> Nat]
  <2>1. g.preq \in [Dirs -> Nat] /\ g.preq[x] \in Nat /\ g.preq[x] - 1 \in Nat
    BY DEF GDIs
  <2> QED BY <2>1
<1>4. Append(g.freeq, d) \in Seq(DRQs)
  BY DEF GDIs
<1> QED BY <1>1, <1>2, <1>3, <1>4 DEF GDIs

Returned(a, g, d, x) ==
  /\ a \in GDIs /\ a.drq = [g.drq EXCEPT ![d] = FreeDRQ]
  /\ a.freeq = Append(g.freeq, d) /\ a.acpq = g.acpq
  /\ a.preq = [g.preq EXCEPT ![x] = @ - 1] /\ a.acp = g.acp

\* The same, of a name for what it returns.
LEMMA ReleasesTo ==
  ASSUME NEW g \in GDIs, NEW d \in DRQs, NEW x \in Dirs, g.preq[x] # 0,
         NEW a, a = gdi_relDRQ(g, d, x)
  PROVE  Returned(a, g, d, x)
BY Releases DEF Returned

---------------------------------------------------------------------------
(* Steps that touch neither blocks nor requests. *)

Others(x) == \A y \in Users \cup Drivers : y # x => st'[y] = st[y]

\* Nothing the call of u goes by is touched.
SameRest(u) ==
  /\ waitmask'[u] = waitmask[u] /\ (u \in tev' <=> u \in tev)
  /\ \A x \in Dirs : drqlock[x] = u => drqlock'[x] = u

\* A step that leaves requests and blocks alone keeps what other calls go by.
LEMMA QuietKeep ==
  ASSUME gdi' = gdi, pkt' = pkt, NEW u \in Users, SameRest(u),
         st'[u].rs = st[u].rs, st'[u].complete = st[u].complete,
         \/ st'[u].at = st[u].at
         \/ st[u].at = "wai_flg" /\ st'[u].at \in {"awake", "tmout"}
  PROVE  Keep(u)
<1>1. Queued' = Queued
  BY DEF Queued
<1>2. \A d \in Mine(u) : IsDone(d)' <=> IsDone(d)
  BY DEF IsDone
<1> QED BY <1>1, <1>2 DEF Keep, SameRest

\* The bits of those who are about to wait stay.
BitsKept(x) ==
  /\ \A t \in Users : t # x /\ st[t].at = "empty" /\ Dir(t) \in flgptn => Dir(t) \in flgptn'
  /\ \A v \in Drivers : v # x /\ st[v].at = "empty" => Accepts[v] \cap flgptn \subseteq flgptn'

\* And all of the invariant that does not speak of the place of one call.
LEMMA Quiet ==
  ASSUME DriverAssumption, GdiInv, gdi' = gdi, pkt' = pkt, SameCalls, SameReplies, PcType', RestType',
         \A u \in Users : st[u].at \in Marked => st'[u].at \in Marked
  PROVE  GdiTypes' /\ ReqInv' /\ BlockInv' /\ QueueInv' /\ CountInv' /\ AbortInv' /\ ReplyInv'
           /\ Queued' = Queued /\ \A d \in Queued : Kind(d)' = Kind(d)
<1>1. GdiTypes'
  BY DEF GdiInv, GdiTypes, GdiType, ReqType
<1>2. SameLinks /\ SameQueues /\ \A u \in Users : Own(u)' = Own(u)
  BY OwnKept DEF SameLinks, SameQueues
<1>3. SameMarks
  BY DEF SameMarks, GdiInv, BlockInv
<1>4. ReqInv'
  BY <1>2, ReqKept DEF GdiInv
<1>5. BlockInv'
  BY <1>2, <1>3, BlockKept DEF GdiInv
<1>6. QueueInv' /\ CountInv' /\ Queued' = Queued
  BY <1>2, KindKept, QueueKept DEF GdiInv
<1>7. AbortInv'
  BY AbortKept DEF GdiInv
<1>8. Busy' = Busy
  BY DEF Busy
<1>9. ReplyInv'
  BY <1>6, <1>8, ReplyKept DEF GdiInv
<1> QED BY <1>1, <1>4, <1>5, <1>6, <1>7, <1>9 DEF Kind

\* A step of a task inside its call.
LEMMA QuietTask ==
  ASSUME DriverAssumption, GdiInv, NEW t \in Users, gdi' = gdi, pkt' = pkt, st' \in PCs, RestType',
         Others(t), st'[t].rs = st[t].rs, st[t].at # "abort", st'[t].at \notin {"abort", "reply"},
         st[t].at \in Marked => st'[t].at \in Marked,
         \A u \in Users : u # t => SameRest(u),
         BitsKept(t), Call(t)', FlagTask(t)'
  PROVE  GdiInv'
<1>1. t \notin Drivers
  BY DEF DriverAssumption
<1>2. /\ \A v \in Drivers : st'[v] = st[v]
      /\ \A u \in Users : u # t => st'[u] = st[u]
  BY <1>1 DEF Others
<1>3. PcType'
  BY <1>2 DEF PcType, GdiInv, GdiTypes
<1>4. SameCalls
  BY <1>2 DEF SameCalls
<1>5. SameReplies
  BY <1>2 DEF SameReplies
<1>6. /\ GdiTypes' /\ ReqInv' /\ BlockInv' /\ QueueInv' /\ CountInv' /\ AbortInv' /\ ReplyInv'
      /\ Queued' = Queued /\ \A d \in Queued : Kind(d)' = Kind(d)
  BY <1>2, <1>3, <1>4, <1>5, Quiet
<1>7. ASSUME NEW u \in Users PROVE Call(u)'
  <2>1. u # t => Keep(u)
    BY <1>2, QuietKeep
  <2>2. u # t => Call(u)'
    BY <2>1, CallKept DEF GdiInv, CallInv
  <2> QED BY <2>2
<1>8. ASSUME NEW u \in Users PROVE FlagTask(u)'
  <2>1. u # t => Dir(u)' = Dir(u) /\ (Full(Dir(u)) => (Full(Dir(u)))')
    BY <1>2 DEF Dir, Full
  <2>2. u # t => FlagTask(u)'
    BY <1>2, <2>1, FlagTaskKept DEF GdiInv, FlagInv, BitsKept
  <2> QED BY <2>2
<1>9. ASSUME NEW v \in Drivers PROVE FlagDriver(v)'
  BY <1>1, <1>2, <1>6, FlagDriverKept DEF GdiInv, FlagInv, BitsKept
<1> QED BY <1>6, <1>7, <1>8, <1>9 DEF GdiInv, CallInv, FlagInv

\* A step of a driver task that accepts nothing.
LEMMA QuietDriver ==
  ASSUME DriverAssumption, GdiInv, NEW v \in Drivers, gdi' = gdi, pkt' = pkt, st' \in PCs, RestType',
         Others(v), st'[v].at \in Serving \ {"reply"},
         tev' = tev, waitmask' = waitmask, drqlock' = drqlock,
         BitsKept(v), FlagDriver(v)'
  PROVE  GdiInv'
<1>1. v \notin Users
  BY DEF DriverAssumption
<1>2. /\ \A w \in Drivers : w # v => st'[w] = st[w]
      /\ \A u \in Users : st'[u] = st[u]
  BY <1>1 DEF Others
<1>3. PcType'
  BY <1>2 DEF PcType, GdiInv, GdiTypes
<1>4. SameCalls
  BY <1>2 DEF SameCalls
<1>5. SameReplies
  BY <1>2 DEF SameReplies
<1>6. /\ GdiTypes' /\ ReqInv' /\ BlockInv' /\ QueueInv' /\ CountInv' /\ AbortInv' /\ ReplyInv'
      /\ Queued' = Queued /\ \A d \in Queued : Kind(d)' = Kind(d)
  BY <1>2, <1>3, <1>4, <1>5, Quiet
<1>7. ASSUME NEW u \in Users PROVE Call(u)'
  <2>1. Keep(u)
    BY <1>2, QuietKeep DEF SameRest
  <2> QED BY <2>1, CallKept DEF GdiInv, CallInv
<1>8. ASSUME NEW u \in Users PROVE FlagTask(u)'
  <2>1. Dir(u)' = Dir(u) /\ (Full(Dir(u)) => (Full(Dir(u)))')
    BY <1>2 DEF Dir, Full
  <2> QED BY <1>1, <1>2, <2>1, FlagTaskKept DEF GdiInv, FlagInv, BitsKept
<1>9. ASSUME NEW w \in Drivers PROVE FlagDriver(w)'
  <2>1. w # v => FlagDriver(w)'
    BY <1>2, <1>6, FlagDriverKept DEF GdiInv, FlagInv, BitsKept
  <2> QED BY <2>1
<1> QED BY <1>6, <1>7, <1>8, <1>9 DEF GdiInv, CallInv, FlagInv

---------------------------------------------------------------------------
(* The steps of a task that starts a request, up to LockGDI. *)

\* A task goes on to the place a.
LEMMA Goes ==
  ASSUME GdiTypes, NEW x \in Users \cup Drivers, NEW a \in Places, Move(x, a)
  PROVE  /\ st' \in PCs /\ Others(x)
         /\ st'[x].at = a /\ st'[x].rs = st[x].rs /\ st'[x].complete = st[x].complete
BY DEF Move, Others, GdiTypes, PcType, PCs, PC

\* A call of gdi_execfn is about one request.
LEMMA OneRequest ==
  ASSUME DriverAssumption, GdiInv, NEW t \in Users, st[t].at \in Starting \cup Ending
  PROVE  /\ st[t].rs[1] \in Pkts /\ Own(t) = {st[t].rs[1]} /\ Len(st[t].rs) = 1
         /\ pkt[st[t].rs[1]].tskid = t /\ pkt[st[t].rs[1]].used /\ pkt[st[t].rs[1]].kind \in Kinds
         /\ st[t].at \in Starting => pkt[st[t].rs[1]].exinf = NONE /\ Blockless(st[t].rs[1])
         /\ st[t].at \in Holding => drqlock[Dir(t)] = t
         /\ Dir(t) \in Dirs
<1> DEFINE r == st[t].rs[1]
<1>1. Call(t) /\ Len(st[t].rs) = 1 /\ ~Is(t, "abort")
  BY DEF GdiInv, CallInv, Call, Is, Starting, Ending
<1>2. st[t].rs \in Seq(Pkts)
  BY Types DEF GdiInv
<1>3. r \in Pkts /\ Own(t) = {r}
  BY <1>1, <1>2, OwnRequests DEF GdiInv
<1>4. pkt[r].tskid = t /\ (st[t].at \in Starting => pkt[r].exinf = NONE)
        /\ (st[t].at \in Holding => drqlock[Rw(pkt[r].kind)] = t)
  BY <1>1, <1>3 DEF Call
<1>5. pkt[r].used /\ pkt[r].kind \in Kinds
  BY <1>3, <1>4 DEF GdiInv, ReqInv, DriverAssumption
<1>6. pkt[r].exinf = NONE => Blockless(r)
  <2>1. r # NONE /\ NONE \notin DRQs
    BY <1>3 DEF DriverAssumption, DRQs
  <2> QED BY <2>1 DEF GdiInv, BlockInv, Blockless
<1>7. Dir(t) \in Dirs
  BY DEF Dir, Dirs, Rw
<1> QED BY <1>1, <1>3, <1>4, <1>5, <1>6, <1>7 DEF Dir

\* LockDRQ: the direction is held, or the call fails.
LEMMA LockStep ==
  ASSUME DriverAssumption, GdiInv, NEW t \in Users, LockDRQ(t)
  PROVE  GdiInv'
<1>1. /\ st[t].at = "lock_drq" /\ gdi' = gdi /\ pkt' = pkt
      /\ flgptn' = flgptn /\ tev' = tev /\ waitmask' = waitmask
  BY DEF LockDRQ, Is
<1>2. \/ drqlock[Dir(t)] = NONE /\ drqlock' = [drqlock EXCEPT ![Dir(t)] = t] /\ Move(t, "awake")
      \/ drqlock' = drqlock /\ Move(t, "failed")
  BY DEF LockDRQ, Dir
<1>3. drqlock \in [Dirs -> Users \cup {NONE}] /\ GdiTypes /\ NONE \notin Users
  BY DEF GdiInv, GdiTypes, RestType, DriverAssumption
<1>4. /\ st' \in PCs /\ Others(t) /\ st'[t].at \in {"awake", "failed"}
      /\ st'[t].rs = st[t].rs
      /\ st'[t].at = "awake" => drqlock[Dir(t)] = NONE /\ drqlock' = [drqlock EXCEPT ![Dir(t)] = t]
  BY <1>2, <1>3, Goes DEF Places, Starting, Ending
<1>5. /\ Own(t) = {st[t].rs[1]} /\ Len(st[t].rs) = 1 /\ pkt[st[t].rs[1]].tskid = t
      /\ pkt[st[t].rs[1]].exinf = NONE /\ Blockless(st[t].rs[1]) /\ Dir(t) \in Dirs
  BY <1>1, OneRequest DEF Starting
<1>6. RestType'
  BY <1>1, <1>2, <1>3, <1>5 DEF GdiInv, GdiTypes, RestType
<1>7. \A u \in Users : u # t => SameRest(u)
  BY <1>1, <1>2, <1>3, <1>5 DEF SameRest
<1>8. BitsKept(t)
  BY <1>1 DEF BitsKept
<1>9. Own(t)' = Own(t)
  BY <1>1, <1>4 DEF Own, Is
<1>10. Call(t)'
  <2>1. \A r \in Own(t) : Blockless(r)'
    BY <1>1, <1>5 DEF Blockless
  <2>2. st'[t].at = "awake" => \A r \in Own(t) : drqlock'[Rw(pkt'[r].kind)] = t
    BY <1>1, <1>3, <1>4, <1>5 DEF Dir
  <2>3. /\ Len(st'[t].rs) = 1 /\ \A r \in Own(t) : pkt'[r].tskid = t /\ pkt'[r].exinf = NONE
    BY <1>1, <1>4, <1>5
  <2> QED BY <1>4, <1>9, <2>1, <2>2, <2>3 DEF Call, Starting, Ending, Holding, Waiting, Marked
<1>11. FlagTask(t)'
  BY <1>4 DEF FlagTask, Is
<1> QED BY <1>1, <1>4, <1>6, <1>7, <1>8, <1>10, <1>11, QuietTask DEF Marked

\* A step that leaves requests and blocks alone keeps all that is derived from them.
LEMMA QuietOwn ==
  ASSUME gdi' = gdi, pkt' = pkt, NEW t \in Users, st'[t].rs = st[t].rs,
         st[t].at # "abort", st'[t].at # "abort"
  PROVE  /\ Own(t)' = Own(t) /\ (Mine(t)' = Mine(t)) /\ (Closing(t)' <=> Closing(t))
         /\ Dir(t)' = Dir(t) /\ Queued' = Queued /\ (Full(Dir(t))' <=> Full(Dir(t)))
         /\ \A r : (Linked(r)' <=> Linked(r)) /\ (Blockless(r)' <=> Blockless(r))
         /\ \A d : IsDone(d)' <=> IsDone(d)
<1>1. Own(t)' = Own(t)
  BY DEF Own, Is
<1>2. Mine(t)' = Mine(t)
  BY <1>1 DEF Mine
<1>3. Closing(t)' <=> Closing(t)
  BY <1>1 DEF Closing
<1>4. Dir(t)' = Dir(t) /\ Queued' = Queued /\ (Full(Dir(t))' <=> Full(Dir(t)))
  BY DEF Dir, Queued, Full
<1>5. /\ \A r : (Linked(r)' <=> Linked(r)) /\ (Blockless(r)' <=> Blockless(r))
      /\ \A d : IsDone(d)' <=> IsDone(d)
  BY DEF Linked, Blockless, IsDone
<1> QED BY <1>1, <1>2, <1>3, <1>4, <1>5

\* gdi_getDRQ gives up after a timeout and gives LockDRQ back.
LEMMA FailsStep ==
  ASSUME DriverAssumption, GdiInv, NEW t \in Users, getDRQ_fails(t)
  PROVE  GdiInv'
<1>1. /\ st[t].at = "tmout" /\ gdi' = gdi /\ pkt' = pkt /\ Move(t, "failed")
      /\ drqlock' = [x \in DOMAIN drqlock |-> IF drqlock[x] = t THEN NONE ELSE drqlock[x]]
      /\ flgptn' = flgptn /\ tev' = tev /\ waitmask' = waitmask
  BY DEF getDRQ_fails, UnlockDRQ, Is
<1>2. drqlock \in [Dirs -> Users \cup {NONE}] /\ GdiTypes
  BY DEF GdiInv, GdiTypes, RestType
<1>3. /\ st' \in PCs /\ Others(t) /\ st'[t].at = "failed" /\ st'[t].rs = st[t].rs
  BY <1>1, <1>2, Goes DEF Places, Ending
<1>4. /\ Own(t) = {st[t].rs[1]} /\ Len(st[t].rs) = 1
      /\ pkt[st[t].rs[1]].tskid = t /\ Blockless(st[t].rs[1])
  BY <1>1, OneRequest DEF Starting
<1>5. RestType'
  BY <1>1, <1>2 DEF GdiInv, GdiTypes, RestType
<1>6. \A u \in Users : u # t => SameRest(u)
  BY <1>1, <1>2 DEF SameRest
<1>7. BitsKept(t)
  BY <1>1 DEF BitsKept
<1>8. Own(t)' = Own(t) /\ \A r : Blockless(r)' <=> Blockless(r)
  BY <1>1, <1>3, QuietOwn
<1>9. Call(t)'
  <2>1. Len(st'[t].rs) = 1 /\ \A r \in Own(t) : pkt'[r].tskid = t /\ Blockless(r)
    BY <1>1, <1>3, <1>4
  <2> QED BY <1>3, <1>8, <2>1 DEF Call, Starting, Ending, Holding, Waiting, Marked
<1>10. FlagTask(t)'
  BY <1>3 DEF FlagTask, Is
<1> QED BY <1>1, <1>3, <1>5, <1>6, <1>7, <1>9, <1>10, QuietTask DEF Marked

\* getDRQ with no block for the request, or as many as it may have.
LEMMA NoBlockStep ==
  ASSUME DriverAssumption, GdiInv, NEW t \in Users, getDRQ(t), Full(Dir(t))
  PROVE  GdiInv'
<1>1. /\ st[t].at = "awake" /\ Move(t, "empty") /\ gdi' = gdi /\ pkt' = pkt
      /\ flgptn' = flgptn /\ drqlock' = drqlock /\ tev' = tev /\ waitmask' = waitmask
  BY DEF getDRQ, Is, Full, Dir
<1>2. GdiTypes
  BY DEF GdiInv
<1>3. /\ st' \in PCs /\ Others(t) /\ st'[t].at = "empty" /\ st'[t].rs = st[t].rs
  BY <1>1, <1>2, Goes DEF Places, Starting
<1>4. /\ Own(t) = {st[t].rs[1]} /\ Len(st[t].rs) = 1
      /\ pkt[st[t].rs[1]].tskid = t /\ pkt[st[t].rs[1]].exinf = NONE /\ drqlock[Dir(t)] = t
  BY <1>1, OneRequest DEF Starting, Holding
<1>5. RestType'
  BY <1>1 DEF GdiInv, GdiTypes, RestType
<1>6. \A u \in Users : u # t => SameRest(u)
  BY <1>1 DEF SameRest
<1>7. BitsKept(t)
  BY <1>1 DEF BitsKept
<1>8. Own(t)' = Own(t) /\ (Full(Dir(t))' <=> Full(Dir(t)))
  BY <1>1, <1>3, QuietOwn
<1>9. Call(t)'
  <2>1. Len(st'[t].rs) = 1 /\ \A r \in Own(t) : /\ pkt'[r].tskid = t /\ pkt'[r].exinf = NONE
                                                /\ drqlock'[Rw(pkt'[r].kind)] = t
    BY <1>1, <1>3, <1>4 DEF Dir
  <2> QED BY <1>3, <1>8, <2>1 DEF Call, Starting, Ending, Holding, Waiting, Marked
<1>10. FlagTask(t)'
  BY <1>3, <1>8 DEF FlagTask, Is
<1> QED BY <1>1, <1>3, <1>5, <1>6, <1>7, <1>9, <1>10, QuietTask DEF Marked

---------------------------------------------------------------------------
(* Two changes of one task. *)

GoWithErr(x, a, e)  == st' = [st EXCEPT ![x].at = a, ![x].err = e]
GoWith(x, a, c)     == st' = [st EXCEPT ![x].at = a, ![x].complete = c]
GoWithBits(x, a, b) == st' = [st EXCEPT ![x].at = a, ![x].aptn = b]

\* A task goes on with a result.
LEMMA GoesErr ==
  ASSUME GdiTypes, NEW x \in Users \cup Drivers, NEW a \in Places,
         NEW e \in {"none", "tmout", "abort", "event"}, GoWithErr(x, a, e)
  PROVE  /\ st' \in PCs /\ Others(x) /\ st'[x].at = a
         /\ st'[x].rs = st[x].rs /\ st'[x].complete = st[x].complete
<1>1. PICK p : p = [st EXCEPT ![x].at = a]
  OBVIOUS
<1>2. /\ p \in PCs /\ \A y \in Users \cup Drivers : y # x => p[y] = st[y]
      /\ p[x].at = a /\ p[x].rs = st[x].rs /\ p[x].complete = st[x].complete
  BY <1>1 DEF GdiTypes, PcType, PCs, PC
<1>3. st' = [p EXCEPT ![x].err = e]
  BY <1>1 DEF GoWithErr
<1> QED BY <1>2, <1>3 DEF Others, PCs, PC

\* A task goes on with a complete block, or none.
LEMMA GoesTo ==
  ASSUME GdiTypes, NEW x \in Users \cup Drivers, NEW a \in Places,
         NEW c \in DRQs \cup {NONE}, GoWith(x, a, c)
  PROVE  /\ st' \in PCs /\ Others(x) /\ st'[x].at = a
         /\ st'[x].rs = st[x].rs /\ st'[x].complete = c
<1>1. PICK p : p = [st EXCEPT ![x].at = a]
  OBVIOUS
<1>2. /\ p \in PCs /\ \A y \in Users \cup Drivers : y # x => p[y] = st[y]
      /\ p[x].at = a /\ p[x].rs = st[x].rs /\ p[x].complete = st[x].complete
  BY <1>1 DEF GdiTypes, PcType, PCs, PC
<1>3. st' = [p EXCEPT ![x].complete = c]
  BY <1>1 DEF GoWith
<1> QED BY <1>2, <1>3 DEF Others, PCs, PC

\* A task goes on with bits of the event flag.
LEMMA GoesBits ==
  ASSUME GdiTypes, NEW x \in Users \cup Drivers, NEW a \in Places,
         NEW b \in SUBSET (Kinds \cup Cmds), GoWithBits(x, a, b)
  PROVE  /\ st' \in PCs /\ Others(x) /\ st'[x].at = a
         /\ st'[x].rs = st[x].rs /\ st'[x].complete = st[x].complete /\ st'[x].aptn = b
<1>1. PICK p : p = [st EXCEPT ![x].at = a]
  OBVIOUS
<1>2. /\ p \in PCs /\ \A y \in Users \cup Drivers : y # x => p[y] = st[y]
      /\ p[x].at = a /\ p[x].rs = st[x].rs /\ p[x].complete = st[x].complete
  BY <1>1 DEF GdiTypes, PcType, PCs, PC
<1>3. st' = [p EXCEPT ![x].aptn = b]
  BY <1>1 DEF GoWithBits
<1> QED BY <1>2, <1>3 DEF Others, PCs, PC

---------------------------------------------------------------------------
(* The steps of a task that waits for the event or for its requests. *)

\* What a call keeps while it only moves on inside gdi_waitfn.
Held(t) ==
  /\ st[t].rs # << >> /\ \A r \in Own(t) : Linked(r)
  /\ \A r \in Own(t) : /\ pkt[r].used /\ pkt[r].exinf # NONE
                       /\ \/ pkt[r].tskid = t
                          \/ /\ pkt[r].tskid = NONE /\ Len(st[t].rs) = 1 /\ pkt[r].abort
                             /\ waitmask[t] = "none"

\* A call of gdi_waitfn has its requests.
LEMMA HeldIs ==
  ASSUME GdiInv, NEW t \in Users, st[t].at \in Waiting
  PROVE  Held(t) /\ st[t].at # "abort"
<1>1. Call(t) /\ st[t].at # "abort"
  BY DEF GdiInv, CallInv, Waiting, Marked
<1> QED BY <1>1 DEF Call, Held

\* It keeps them while it leaves requests and blocks alone.
LEMMA HeldKept ==
  ASSUME GdiTypes, NEW t \in Users, Held(t), gdi' = gdi, pkt' = pkt, st'[t].rs = st[t].rs,
         st[t].at # "abort", st'[t].at # "abort", waitmask'[t] = waitmask[t]
  PROVE  Held(t)'
<1>1. Own(t)' = Own(t) /\ \A r : Linked(r)' <=> Linked(r)
  BY QuietOwn
<1> QED BY <1>1 DEF Held

\* tk_wai_tev: the wait begins, ends at once, or is forbidden.
LEMMA WaitEventStep ==
  ASSUME DriverAssumption, GdiInv, NEW t \in Users, wai_tev(t)
  PROVE  GdiInv'
<1> DEFINE no == waitmask[t] = "TEV"
<1>1. /\ st[t].at = "tev" /\ gdi' = gdi /\ pkt' = pkt
      /\ flgptn' = flgptn /\ drqlock' = drqlock /\ waitmask' = waitmask
      /\ tev' = IF no THEN tev ELSE tev \ {t}
  BY DEF wai_tev, Is
<1>2. GdiTypes
  BY DEF GdiInv
<1>3. /\ st' \in PCs /\ Others(t) /\ st'[t].rs = st[t].rs
      /\ st'[t].at = IF no \/ t \in tev THEN "collect" ELSE "wai_tev"
  <2>1. PICK a, e : /\ a = IF no \/ t \in tev THEN "collect" ELSE "wai_tev"
                    /\ e = IF no THEN "abort" ELSE "event"
    OBVIOUS
  <2>2. a \in Places /\ e \in {"none", "tmout", "abort", "event"}
    BY <2>1 DEF Places, Waiting, Marked
  <2>3. GoWithErr(t, a, e)
    BY <2>1 DEF wai_tev, GoWithErr
  <2> QED BY <1>2, <2>1, <2>2, <2>3, GoesErr
<1> HIDE DEF no
<1>4. RestType'
  BY <1>1 DEF GdiInv, GdiTypes, RestType
<1>5. \A u \in Users : u # t => SameRest(u)
  BY <1>1 DEF SameRest
<1>6. BitsKept(t)
  BY <1>1 DEF BitsKept
<1>7. /\ Own(t)' = Own(t) /\ (Mine(t)' = Mine(t)) /\ (Closing(t)' <=> Closing(t)) /\ Queued' = Queued
      /\ \A d : IsDone(d)' <=> IsDone(d)
  BY <1>1, <1>3, QuietOwn
<1>8. Held(t) /\ Held(t)'
  BY <1>1, <1>2, <1>3, HeldIs, HeldKept DEF Waiting, Marked
<1>9. Closing(t) => waitmask[t] = "none"
  <2>1. \A r \in Own(t) : pkt[r].tskid = NONE => waitmask[t] = "none"
    BY <1>8 DEF Held, DriverAssumption
  <2> QED BY <2>1 DEF Closing
<1>10. /\ (\E d \in Mine(t) : IsDone(d)) => t \in tev \/ no
       /\ Closing(t) => (t \in tev => \E d \in Mine(t) : IsDone(d)) /\ Mine(t) \cap Queued = {}
       /\ \A d \in Mine(t) : gdi.drq[d].wtid = t
  BY <1>1 DEF no, GdiInv, CallInv, Call, Marked
<1>11. Call(t)'
  <2>1. st'[t].at = "wai_tev" => \A d \in Mine(t) : ~IsDone(d)
    BY <1>3, <1>10
  <2>2. st'[t].at = "wai_tev" /\ Closing(t) => t \notin tev' /\ Mine(t) \cap Queued = {}
    BY <1>1, <1>3, <1>10
  <2>3. st'[t].at = "collect" /\ Closing(t) => \E d \in Mine(t) : IsDone(d)
    BY <1>3, <1>9, <1>10 DEF no
  <2>4. \A d \in Mine(t) : gdi'.drq[d].wtid = t
    BY <1>1, <1>10
  <2>5. st'[t].at \in {"collect", "wai_tev"}
    BY <1>3
  <2> QED BY <1>7, <1>8, <2>1, <2>2, <2>3, <2>4, <2>5
          DEF Call, Held, Starting, Ending, Holding, Waiting, Marked
<1>12. FlagTask(t)'
  BY <1>3 DEF FlagTask, Is
<1> QED BY <1>1, <1>3, <1>4, <1>5, <1>6, <1>11, <1>12, QuietTask DEF Marked

\* The wait for completion ends by a timeout.
LEMMA EventTimeoutStep ==
  ASSUME DriverAssumption, GdiInv, NEW t \in Users, tev_timeout(t)
  PROVE  GdiInv'
<1>1. /\ st[t].at \in {"tev", "wai_tev"} /\ pkt[st[t].rs[1]].tskid = t /\ gdi' = gdi /\ pkt' = pkt
      /\ flgptn' = flgptn /\ drqlock' = drqlock /\ waitmask' = waitmask /\ tev' = tev
      /\ GoWithErr(t, "collect", "tmout")
  BY DEF tev_timeout, GoWithErr
<1>2. GdiTypes
  BY DEF GdiInv
<1>3. st' \in PCs /\ Others(t) /\ st'[t].rs = st[t].rs /\ st'[t].at = "collect"
  BY <1>1, <1>2, GoesErr DEF Places, Waiting, Marked
<1>4. RestType'
  BY <1>1 DEF GdiInv, GdiTypes, RestType
<1>5. \A u \in Users : u # t => SameRest(u)
  BY <1>1 DEF SameRest
<1>6. BitsKept(t)
  BY <1>1 DEF BitsKept
<1>7. /\ Own(t)' = Own(t) /\ (Mine(t)' = Mine(t)) /\ (Closing(t)' <=> Closing(t))
  BY <1>1, <1>3, QuietOwn
<1>8. Held(t) /\ Held(t)'
  BY <1>1, <1>2, <1>3, HeldIs, HeldKept DEF Waiting, Marked
<1>9. ~Closing(t)
  <2>1. SUFFICES ASSUME NEW r \in Own(t), pkt[r].tskid = NONE PROVE FALSE
    BY DEF Closing
  <2>2. Len(st[t].rs) = 1
    BY <1>8, <2>1 DEF Held, DriverAssumption
  <2>3. r = st[t].rs[1]
    BY <1>1, <1>2, <2>1, <2>2, OwnRequests DEF Is
  <2> QED BY <1>1, <2>1, <2>3 DEF DriverAssumption
<1>10. \A d \in Mine(t) : gdi'.drq[d].wtid = t
  BY <1>1 DEF GdiInv, CallInv, Call, Marked
<1>11. Call(t)'
  BY <1>3, <1>7, <1>8, <1>9, <1>10 DEF Call, Held, Starting, Ending, Holding, Waiting, Marked
<1>12. FlagTask(t)'
  BY <1>3 DEF FlagTask, Is
<1> QED BY <1>1, <1>3, <1>4, <1>5, <1>6, <1>11, <1>12, QuietTask DEF Marked

\* The event that came too late is cleared.
LEMMA ClearStep ==
  ASSUME DriverAssumption, GdiInv, NEW t \in Users, clear(t)
  PROVE  GdiInv'
<1>1. /\ st[t].at = "clear" /\ gdi' = gdi /\ pkt' = pkt
      /\ flgptn' = flgptn /\ drqlock' = drqlock /\ waitmask' = waitmask
      /\ tev' = IF waitmask[t] = "TEV" THEN tev ELSE tev \ {t}
      /\ Move(t, IF st[t].complete = NONE THEN "leave" ELSE "release")
  BY DEF clear, Is
<1>2. GdiTypes
  BY DEF GdiInv
<1>3. /\ st' \in PCs /\ Others(t) /\ st'[t].rs = st[t].rs /\ st'[t].complete = st[t].complete
      /\ st'[t].at = IF st[t].complete = NONE THEN "leave" ELSE "release"
  BY <1>1, <1>2, Goes DEF Places, Waiting
<1>4. RestType'
  BY <1>1 DEF GdiInv, GdiTypes, RestType
<1>5. \A u \in Users : u # t => SameRest(u)
  BY <1>1 DEF SameRest
<1>6. BitsKept(t)
  BY <1>1 DEF BitsKept
<1>7. /\ Own(t)' = Own(t) /\ (Mine(t)' = Mine(t)) /\ (Closing(t)' <=> Closing(t))
      /\ IsDone(st[t].complete)' <=> IsDone(st[t].complete)
      /\ \A d : IsDone(d)' <=> IsDone(d)
  BY <1>1, <1>3, QuietOwn DEF IsDone
<1>8. Held(t) /\ Held(t)'
  BY <1>1, <1>2, <1>3, HeldIs, HeldKept DEF Waiting, Marked
<1>9. /\ Closing(t) => st[t].complete # NONE
      /\ st[t].complete # NONE => st[t].complete \in Mine(t) /\ IsDone(st[t].complete)
  BY <1>1 DEF GdiInv, CallInv, Call
<1>10. st'[t].at = "release" => st'[t].complete \in Mine(t) /\ IsDone(st[t].complete)'
  <2>1. PICK d : d = st[t].complete
    OBVIOUS
  <2> QED BY <1>3, <1>7, <1>9, <2>1
<1>11. st'[t].at = "leave" =>
         \A r \in Own(t)' : IF pkt'[r].exinf = st'[t].complete THEN Blockless(r)'
                            ELSE Linked(r)' /\ pkt'[r].tskid = t
  <2>1. st'[t].at = "leave" => st'[t].complete = NONE /\ ~Closing(t)'
    BY <1>3, <1>7, <1>9
  <2> QED BY <1>8, <2>1 DEF Held, Closing
<1>12. Call(t)'
  BY <1>3, <1>7, <1>8, <1>9, <1>10, <1>11
     DEF Call, Held, Starting, Ending, Holding, Waiting, Marked
<1>13. FlagTask(t)'
  BY <1>3 DEF FlagTask, Is
<1> QED BY <1>1, <1>3, <1>4, <1>5, <1>6, <1>12, <1>13, QuietTask DEF Marked

---------------------------------------------------------------------------
(* tk_wai_flg and its timeout, in a task and in a task of the driver. *)

\* tk_wai_flg in gdi_getDRQ: nobody sleeps whose bit is set.
LEMMA WaitFlagTask ==
  ASSUME DriverAssumption, GdiInv, NEW t \in Users, wai_flg(t)
  PROVE  GdiInv'
<1> DEFINE no  == waitmask[t] = "FLG"
           bit == Dir(t) \in flgptn
           a   == IF no THEN "tmout" ELSE IF bit THEN "awake" ELSE "wai_flg"
<1>1. /\ st[t].at = "empty" /\ gdi' = gdi /\ pkt' = pkt
      /\ drqlock' = drqlock /\ waitmask' = waitmask /\ tev' = tev
      /\ flgptn' = IF no THEN flgptn ELSE flgptn \ {Dir(t)}
  <2>1. waiptn(t) = {Dir(t)}
    BY WaitPattern DEF GdiInv, Dir
  <2> QED BY <2>1 DEF wai_flg, Is
<1>2. GdiTypes
  BY DEF GdiInv
<1>3. /\ st' \in PCs /\ Others(t) /\ st'[t].rs = st[t].rs /\ st'[t].at = a
  <2>1. waiptn(t) = {Dir(t)} /\ t \notin Drivers
    BY <1>2, WaitPattern DEF Dir, DriverAssumption
  <2>2. (flgptn \cap waiptn(t) = {}) <=> ~bit
    BY <2>1
  <2>3. acquired(t, flgptn \cap waiptn(t)) = {}
    BY <2>1 DEF acquired
  <2>4. GoWithBits(t, a, {})
    BY <2>1, <2>2, <2>3 DEF wai_flg, GoWithBits
  <2>5. a \in Places
    BY DEF Places, Starting
  <2> HIDE DEF a
  <2> QED BY <1>2, <2>4, <2>5, GoesBits
<1>4. RestType'
  BY <1>1 DEF GdiInv, GdiTypes, RestType
<1>5. \A u \in Users : u # t => SameRest(u)
  BY <1>1 DEF SameRest
<1>6. BitsKept(t)
  <2>1. \A u \in Users : u # t /\ st[u].at = "empty" => Dir(u) # Dir(t)
    BY <1>1, <1>2, HoldersDiffer DEF GdiInv, Holding
  <2>2. Dir(t) \in Dirs
    BY <1>1, OneRequest DEF Starting
  <2>3. \A v \in Drivers : Dir(t) \notin Accepts[v]
    BY <1>2, <2>2, WaitPattern
  <2> QED BY <1>1, <2>1, <2>3 DEF BitsKept
<1>7. /\ Own(t) = {st[t].rs[1]} /\ Len(st[t].rs) = 1
      /\ pkt[st[t].rs[1]].tskid = t /\ pkt[st[t].rs[1]].exinf = NONE /\ drqlock[Dir(t)] = t
  BY <1>1, OneRequest DEF Starting, Holding
<1>8. Own(t)' = Own(t) /\ (Full(Dir(t))' <=> Full(Dir(t)))
  BY <1>1, <1>3, QuietOwn
<1>9. Call(t)'
  <2>1. Len(st'[t].rs) = 1 /\ \A r \in Own(t) : /\ pkt'[r].tskid = t /\ pkt'[r].exinf = NONE
                                                /\ drqlock'[Rw(pkt'[r].kind)] = t
    BY <1>1, <1>3, <1>7 DEF Dir
  <2>2. st'[t].at \in {"tmout", "awake", "wai_flg"}
    BY <1>3
  <2> HIDE DEF a, no
  <2> QED BY <2>2, <1>8, <2>1 DEF Call, Starting, Ending, Holding, Waiting, Marked
<1>10. FlagTask(t)'
  <2>1. bit \/ Full(Dir(t))
    BY <1>1 DEF GdiInv, FlagInv, FlagTask, Is
  <2> QED BY <1>3, <1>8, <2>1 DEF FlagTask, Is
<1> QED
  <2>1. st'[t].at \in {"tmout", "awake", "wai_flg"}
    BY <1>3
  <2> HIDE DEF a, no
  <2> QED BY <2>1, <1>1, <1>3, <1>4, <1>5, <1>6, <1>9, <1>10, QuietTask DEF Marked

\* The wait for a block ends by a timeout.
LEMMA FlagTimeoutTask ==
  ASSUME DriverAssumption, GdiInv, NEW t \in Users, flg_timeout(t)
  PROVE  GdiInv'
<1>1. /\ st[t].at \in {"empty", "wai_flg"} /\ gdi' = gdi /\ pkt' = pkt /\ Move(t, "tmout")
      /\ flgptn' = flgptn /\ drqlock' = drqlock /\ waitmask' = waitmask /\ tev' = tev
  BY DEF flg_timeout
<1>2. GdiTypes
  BY DEF GdiInv
<1>3. /\ st' \in PCs /\ Others(t) /\ st'[t].at = "tmout" /\ st'[t].rs = st[t].rs
  BY <1>1, <1>2, Goes DEF Places, Starting
<1>4. RestType'
  BY <1>1 DEF GdiInv, GdiTypes, RestType
<1>5. \A u \in Users : u # t => SameRest(u)
  BY <1>1 DEF SameRest
<1>6. BitsKept(t)
  BY <1>1 DEF BitsKept
<1>7. /\ Own(t) = {st[t].rs[1]} /\ Len(st[t].rs) = 1
      /\ pkt[st[t].rs[1]].tskid = t /\ pkt[st[t].rs[1]].exinf = NONE /\ drqlock[Dir(t)] = t
  BY <1>1, OneRequest DEF Starting, Holding
<1>8. Own(t)' = Own(t)
  BY <1>1, <1>3, QuietOwn
<1>9. Call(t)'
  <2>1. Len(st'[t].rs) = 1 /\ \A r \in Own(t) : /\ pkt'[r].tskid = t /\ pkt'[r].exinf = NONE
                                                /\ drqlock'[Rw(pkt'[r].kind)] = t
    BY <1>1, <1>3, <1>7 DEF Dir
  <2> QED BY <1>3, <1>8, <2>1 DEF Call, Starting, Ending, Holding, Waiting, Marked
<1>10. FlagTask(t)'
  BY <1>3 DEF FlagTask, Is
<1> QED BY <1>1, <1>3, <1>4, <1>5, <1>6, <1>9, <1>10, QuietTask DEF Marked

\* tk_wai_flg in GDI_Accept.
LEMMA WaitFlagDriver ==
  ASSUME DriverAssumption, GdiInv, NEW v \in Drivers, wai_flg(v)
  PROVE  GdiInv'
<1> DEFINE none == flgptn \cap (Accepts[v] \cup Cmds) = {}
           a    == IF none THEN "wai_flg" ELSE "awake"
<1>1. waiptn(v) = Accepts[v] \cup Cmds /\ v \notin Users /\ Accepts[v] \subseteq Kinds
  BY WaitPattern DEF GdiInv, DriverAssumption
<1>2. /\ st[v].at = "empty" /\ gdi' = gdi /\ pkt' = pkt
      /\ drqlock' = drqlock /\ waitmask' = waitmask /\ tev' = tev
      /\ flgptn' = flgptn \ (Accepts[v] \cup Cmds)
  BY <1>1 DEF wai_flg, Is
<1>3. GdiTypes
  BY DEF GdiInv
<1>4. st' \in PCs /\ Others(v) /\ st'[v].at = a
  <2>1. PICK b : b = acquired(v, flgptn \cap waiptn(v))
    OBVIOUS
  <2>2. b \in SUBSET (Kinds \cup Cmds)
    BY <1>1, <2>1 DEF acquired
  <2>3. GoWithBits(v, a, b)
    BY <1>1, <2>1 DEF wai_flg, GoWithBits
  <2>4. a \in Places
    BY DEF Places, Starting
  <2> HIDE DEF a
  <2> QED BY <1>3, <2>2, <2>3, <2>4, GoesBits
<1>5. RestType'
  BY <1>2 DEF GdiInv, GdiTypes, RestType
<1>6. BitsKept(v)
  <2>1. \A u \in Users : st[u].at = "empty" => Dir(u) \in Dirs
    BY OneRequest DEF Starting
  <2> QED BY <1>2, <1>3, <2>1, WaitPattern DEF BitsKept
<1>7. FlagDriver(v)'
  <2>1. Queued' = Queued /\ \A d : Kind(d)' = Kind(d)
    BY <1>2 DEF Queued, Kind
  <2>2. \A d \in Queued : Kind(d) \in Accepts[v] => Kind(d) \in flgptn
    BY <1>2 DEF GdiInv, FlagInv, FlagDriver, Is
  <2> QED BY <1>4, <2>1, <2>2 DEF FlagDriver, Is
<1>8. st'[v].at \in Serving \ {"reply"}
  BY <1>4 DEF Serving
<1> HIDE DEF a, none
<1> QED BY <1>2, <1>4, <1>5, <1>6, <1>7, <1>8, QuietDriver

\* The wait of a driver task ends by a timeout; its call returns.
LEMMA FlagTimeoutDriver ==
  ASSUME DriverAssumption, GdiInv, NEW v \in Drivers,
         flg_timeout(v) \/ Accept_timeout(v)
  PROVE  GdiInv'
<1>1. /\ gdi' = gdi /\ pkt' = pkt /\ flgptn' = flgptn
      /\ drqlock' = drqlock /\ waitmask' = waitmask /\ tev' = tev
      /\ Move(v, "tmout") \/ st' = [st EXCEPT ![v] = User]
  BY DEF flg_timeout, Accept_timeout
<1>2. GdiTypes /\ User \in PC
  BY DEF GdiInv, User, PC, Places
<1>3. st' \in PCs /\ Others(v) /\ st'[v].at \in {"tmout", "user"}
  <2>1. CASE Move(v, "tmout")
    BY <1>2, <2>1, Goes DEF Places, Starting
  <2>2. CASE st' = [st EXCEPT ![v] = User]
    BY <1>2, <2>2 DEF GdiTypes, PcType, PCs, Others, User
  <2> QED BY <1>1, <2>1, <2>2
<1>4. RestType'
  BY <1>1 DEF GdiInv, GdiTypes, RestType
<1>5. BitsKept(v) /\ FlagDriver(v)'
  BY <1>1, <1>3 DEF BitsKept, FlagDriver, Is
<1>6. st'[v].at \in Serving \ {"reply"}
  BY <1>3 DEF Serving
<1> QED BY <1>1, <1>3, <1>4, <1>5, <1>6, QuietDriver

---------------------------------------------------------------------------
(* GDI_SendCmd *)

\* GDI_SendCmd sets a bit that no request uses.
LEMMA SendCmdStep ==
  ASSUME DriverAssumption, GdiInv, NEW c \in Cmds, GDI_SendCmd(c)
  PROVE  GdiInv'
<1>1. /\ gdi' = gdi /\ pkt' = pkt /\ drqlock' = drqlock /\ tev' = tev /\ waitmask' = waitmask
      /\ set_flg({c}, st)
  BY DEF GDI_SendCmd
<1>2. GdiTypes /\ CallInv /\ st \in PCs
  BY DEF GdiInv, GdiTypes, PcType
<1>3. FlagsSet({c}, st) /\ st' \in PCs
  BY <1>1, <1>2, SetFlags
<1>4. \A x \in Users \cup Drivers :
        /\ st'[x].rs = st[x].rs /\ st'[x].complete = st[x].complete
        /\ \/ st'[x].at = st[x].at
           \/ st[x].at = "wai_flg" /\ st'[x].at = "awake"
  BY <1>3 DEF FlagsSet
<1>5. SameCalls /\ SameReplies /\ \A u \in Users : st[u].at \in Marked => st'[u].at \in Marked
  BY <1>1, <1>4 DEF SameCalls, SameReplies, Marked
<1>6. PcType'
  BY <1>2, <1>3, <1>4 DEF GdiTypes, PcType, Serving
<1>7. RestType'
  BY <1>1, <1>3 DEF GdiInv, GdiTypes, RestType, FlagsSet
<1>8. /\ GdiTypes' /\ ReqInv' /\ BlockInv' /\ QueueInv' /\ CountInv' /\ AbortInv' /\ ReplyInv'
      /\ Queued' = Queued /\ \A d \in Queued : Kind(d)' = Kind(d)
  BY <1>1, <1>5, <1>6, <1>7, Quiet
<1>9. CallInv'
  <2>1. \A u \in Users : Keep(u)
    BY <1>1, <1>4, QuietKeep DEF SameRest
  <2> QED BY <2>1, CallKept DEF GdiInv, CallInv
<1>10. ASSUME NEW u \in Users PROVE FlagTask(u)'
  <2>1. Dir(u)' = Dir(u) /\ (Full(Dir(u)) => (Full(Dir(u)))')
    BY <1>1, <1>4 DEF Dir, Full
  <2>2. st'[u].at \in {"empty", "wai_flg"} => st'[u].at = st[u].at
    BY <1>4
  <2>3. st[u].at = "empty" /\ Dir(u) \in flgptn => Dir(u) \in flgptn'
    BY <1>3 DEF FlagsSet
  <2> QED BY <2>1, <2>2, <2>3, FlagTaskKept DEF GdiInv, FlagInv
<1>11. ASSUME NEW v \in Drivers PROVE FlagDriver(v)'
  <2>1. st'[v].at \in {"empty", "wai_flg"} => st'[v].at = st[v].at
    BY <1>4
  <2>2. st[v].at = "empty" => Accepts[v] \cap flgptn \subseteq flgptn'
    BY <1>3 DEF FlagsSet
  <2> QED BY <1>8, <2>1, <2>2, FlagDriverKept DEF GdiInv, FlagInv
<1> QED BY <1>8, <1>9, <1>10, <1>11 DEF GdiInv, FlagInv

---------------------------------------------------------------------------
(* Steps that touch requests only. *)

\* The request keeps what links it to a block.
SameBlock(r) ==
  pkt'[r].used = pkt[r].used /\ pkt'[r].kind = pkt[r].kind /\ pkt'[r].exinf = pkt[r].exinf

\* A step of one call on its own requests, with the blocks left alone.
LEMMA RequestStep ==
  ASSUME DriverAssumption, GdiInv, NEW t \in Users,
         gdi' = gdi, flgptn' = flgptn, drqlock' = drqlock, tev' = tev,
         st' \in PCs, Others(t), st'[t].at \notin {"reply", "empty", "wai_flg"}, st[t].at \notin Marked,
         ReqType', RestType',
         \A r \in Pkts : ~Blockless(r) => SameBlock(r),
         \A u \in Users : u # t =>
           /\ waitmask'[u] = waitmask[u]
           /\ \A r \in Own(u) : SameBlock(r) /\ pkt'[r].tskid = pkt[r].tskid
                                  /\ (pkt[r].abort => pkt'[r].abort),
         ReqInv', AbortInv', Call(t)'
  PROVE  GdiInv'
<1>1. t \notin Drivers /\ NONE \notin Pkts
  BY DEF DriverAssumption
<1>2. /\ \A v \in Drivers : st'[v] = st[v]
      /\ \A u \in Users : u # t => st'[u] = st[u] /\ Own(u)' = Own(u)
  BY <1>1 DEF Others, Own, Is
<1>3. PcType' /\ GdiTypes'
  BY <1>2 DEF PcType, GdiInv, GdiTypes, GdiType
<1>4. \A d \in Busy : gdi.drq[d].req \in Pkts /\ SameBlock(gdi.drq[d].req)
  BY Types DEF GdiInv, Busy, Blockless
<1>5. SameKinds /\ SameQueues
  BY <1>4 DEF SameKinds, SameQueues, SameBlock, Busy, Kind
<1>6. BlockInv'
  <2>1. \A d \in DRQs : gdi.drq[d].req # NONE => d \in Busy
    BY DEF Busy
  <2> QED BY <1>2, <1>4, <2>1 DEF GdiInv, BlockInv, SameBlock
<1>7. QueueInv' /\ CountInv' /\ Queued' = Queued
  BY <1>5, QueueKept DEF GdiInv
<1>8. Busy' = Busy /\ \A d \in Queued : Kind(d)' = Kind(d)
  BY <1>5 DEF SameKinds, GdiInv, QueueInv
<1>9. ReplyInv'
  <2>1. SameReplies
    BY <1>2 DEF SameReplies
  <2> QED BY <1>7, <1>8, <2>1, ReplyKept DEF GdiInv
<1>10. ASSUME NEW u \in Users PROVE Call(u)'
  <2>1. ASSUME u # t PROVE Keep(u)
    <3>1. Queued' = Queued /\ \A d \in Mine(u) : IsDone(d)' <=> IsDone(d)
      BY <1>7 DEF IsDone
    <3> QED BY <1>2, <2>1, <3>1 DEF Keep, SameBlock
  <2>2. u # t => Call(u)'
    BY <2>1, CallKept DEF GdiInv, CallInv
  <2> QED BY <2>2
<1>11. ASSUME NEW u \in Users PROVE FlagTask(u)'
  <2>1. CASE u = t
    BY <2>1 DEF FlagTask, Is
  <2>2. CASE u # t
    <3>1. st[u].at \in {"empty", "wai_flg"} => Dir(u)' = Dir(u)
      <4>1. st[u].at \in {"empty", "wai_flg"} => st[u].rs[1] \in Own(u)
        BY OneRequest DEF Starting
      <4> QED BY <1>2, <2>2, <4>1 DEF Dir, SameBlock
    <3>2. Full(Dir(u)) => (st[u].at \in {"empty", "wai_flg"} => Full(Dir(u))')
      BY <3>1 DEF Full
    <3> QED BY <1>2, <2>2, <3>1, <3>2 DEF GdiInv, FlagInv, FlagTask, Is
  <2> QED BY <2>1, <2>2
<1>12. ASSUME NEW v \in Drivers PROVE FlagDriver(v)'
  BY <1>2, <1>7, <1>8, FlagDriverKept DEF GdiInv, FlagInv
<1> QED BY <1>3, <1>6, <1>7, <1>9, <1>10, <1>11, <1>12 DEF GdiInv, CallInv, FlagInv

\* gdi_execfn begins, with a request of its own.
LEMMA ExecStep ==
  ASSUME DriverAssumption, GdiInv, NEW t \in Users, NEW r \in Pkts, NEW k \in Kinds, execfn(t, r, k)
  PROVE  GdiInv'
<1>1. /\ st[t].at = "user" /\ ~pkt[r].used
      /\ pkt' = [pkt EXCEPT ![r] = [FreePkt EXCEPT !.used = TRUE, !.kind = k, !.tskid = t]]
      /\ st' = [st EXCEPT ![t] = [User EXCEPT !.at = "lock_drq", !.rs = <<r>>]]
      /\ gdi' = gdi /\ flgptn' = flgptn /\ drqlock' = drqlock /\ tev' = tev /\ waitmask' = waitmask
  BY DEF execfn, Is
<1>2. GdiTypes /\ ReqInv /\ AbortInv
  BY DEF GdiInv
<1>3. /\ st' \in PCs /\ Others(t) /\ st'[t].at = "lock_drq" /\ st'[t].rs = <<r>>
  <2>1. PICK p : p = [User EXCEPT !.at = "lock_drq", !.rs = <<r>>]
    OBVIOUS
  <2>2. p \in PC /\ p.at = "lock_drq" /\ p.rs = <<r>>
    <3>1. <<r>> \in Seq(Pkts) /\ "lock_drq" \in Places /\ User \in PC
      BY DEF User, PC, Places, Starting
    <3> QED BY <2>1, <3>1 DEF PC
  <2> QED BY <1>1, <1>2, <2>1, <2>2 DEF Others, GdiTypes, PcType, PCs
<1>4. /\ pkt' \in [Pkts -> [used : BOOLEAN, kind : Kinds \cup {NONE}, exinf : DRQs \cup {NONE},
                            abort : BOOLEAN, tskid : Users \cup {NONE}]]
      /\ pkt'[r].used /\ pkt'[r].kind = k /\ pkt'[r].exinf = NONE /\ pkt'[r].tskid = t
      /\ \A s \in Pkts : s # r => pkt'[s] = pkt[s]
  <2>1. PICK q : q = [FreePkt EXCEPT !.used = TRUE, !.kind = k, !.tskid = t]
    OBVIOUS
  <2>2. /\ q \in [used : BOOLEAN, kind : Kinds \cup {NONE}, exinf : DRQs \cup {NONE},
                  abort : BOOLEAN, tskid : Users \cup {NONE}]
        /\ q.used /\ q.kind = k /\ q.exinf = NONE /\ q.tskid = t
    BY <2>1 DEF FreePkt
  <2> QED BY <1>1, <1>2, <2>1, <2>2 DEF GdiTypes, ReqType
<1>5. Blockless(r) /\ \A u \in Users : r \notin Own(u)
  BY <1>1, <1>2 DEF ReqInv
<1>6. Own(t) = {} /\ st[t].rs = << >> /\ waitmask[t] = "none"
  <2>1. st[t].rs = << >> /\ waitmask[t] = "none"
    BY <1>1 DEF GdiInv, CallInv, Call
  <2> QED BY <1>2, <2>1, OwnRequests
<1>7. Own(t)' = {r}
  BY <1>3 DEF Own, Is, Range
<1>8. \A u \in Users : u # t => st'[u] = st[u] /\ Own(u)' = Own(u)
  BY <1>3 DEF Others, Own, Is
<1>9. \A s \in Pkts : s # r => (Linked(s)' <=> Linked(s)) /\ (Blockless(s)' <=> Blockless(s))
  BY <1>1, <1>4 DEF Linked, Blockless
<1>10. ReqInv'
  <2>1. ASSUME NEW s \in Pkts
        PROVE  /\ ~pkt'[s].used =>
                    pkt'[s].tskid = NONE /\ Blockless(s)' /\ \A u \in Users : s \notin Own(u)'
               /\ pkt'[s].used => pkt'[s].kind \in Kinds
               /\ \A u \in Users : pkt'[s].tskid = u => s \in Own(u)'
               /\ pkt'[s].used /\ (\A u \in Users : s \notin Own(u)') => Linked(s)'
    <3>1. CASE s = r
      BY <1>4, <1>7, <3>1
    <3>2. CASE s # r
      <4>1. pkt'[s] = pkt[s]
        BY <1>4, <3>2
      <4>2. \A u \in Users : s \in Own(u)' <=> s \in Own(u)
        BY <1>6, <1>7, <1>8, <3>2
      <4> QED BY <1>2, <1>9, <3>2, <4>1, <4>2 DEF ReqInv
    <3> QED BY <3>1, <3>2
  <2>2. \A u, w \in Users : u # w => Own(u)' \cap Own(w)' = {}
    BY <1>2, <1>5, <1>7, <1>8 DEF ReqInv
  <2> QED BY <2>1, <2>2 DEF ReqInv
<1>11. AbortInv'
  <2> SUFFICES ASSUME NEW a \in Users, Is(a, "abort")'
               PROVE  /\ st'[a].rs # << >>
                      /\ \E u \in Users : ~Is(u, "abort")' /\ st'[u].rs = st'[a].rs
                                            /\ \A s \in Range(st'[u].rs) : pkt'[s].tskid = u
    BY DEF AbortInv
  <2>1. a # t /\ Is(a, "abort") /\ st'[a] = st[a] /\ st[a].rs # << >>
    BY <1>2, <1>3, <1>8 DEF Is, AbortInv
  <2>2. PICK u \in Users : ~Is(u, "abort") /\ st[u].rs = st[a].rs
                             /\ \A s \in Range(st[u].rs) : pkt[s].tskid = u
    BY <1>2, <2>1 DEF AbortInv
  <2>3. u # t /\ st'[u] = st[u]
    BY <1>6, <1>8, <2>1, <2>2
  <2>4. \A s \in Range(st[u].rs) : s # r /\ s \in Pkts
    BY <1>2, <1>5, <2>2, OwnRequests
  <2> QED BY <1>4, <2>1, <2>2, <2>3, <2>4 DEF Is
<1>12. Call(t)'
  <2>1. Len(st'[t].rs) = 1
    BY <1>3
  <2> QED BY <1>3, <1>4, <1>7, <2>1 DEF Call, Starting, Ending, Holding, Waiting, Marked
<1>13. ReqType' /\ RestType'
  BY <1>1, <1>2, <1>4 DEF GdiTypes, ReqType, RestType
<1>14. /\ \A s \in Pkts : ~Blockless(s) => SameBlock(s)
       /\ \A u \in Users : u # t =>
            \A s \in Own(u) : SameBlock(s) /\ pkt'[s].tskid = pkt[s].tskid
                                /\ (pkt[s].abort => pkt'[s].abort)
  <2>1. \A u \in Users : Own(u) \subseteq Pkts
    BY <1>2, OwnRequests
  <2> QED BY <1>4, <1>5, <2>1 DEF SameBlock
<1> QED BY <1>1, <1>3, <1>10, <1>11, <1>12, <1>13, <1>14, RequestStep DEF Marked

\* With no abort under way a call may return.
LEMMA NoAborts ==
  ASSUME NEW t \in Users, ~Aborting, st'[t].at # "abort",
         \A u \in Users : u # t => st'[u] = st[u]
  PROVE  AbortInv'
BY DEF Aborting, AbortInv, Is

\* gdi_execfn returns: the request is started, or is free again.
LEMMA ExecReturnStep ==
  ASSUME DriverAssumption, GdiInv, NEW t \in Users, execfn_is_over(t)
  PROVE  GdiInv'
<1>0. PICK r : r = st[t].rs[1]
  OBVIOUS
<1>1. /\ st[t].at \in Ending /\ ~Aborting
      /\ pkt' = [pkt EXCEPT ![r] = IF Is(t, "queued") THEN [@ EXCEPT !.tskid = NONE] ELSE FreePkt]
      /\ waitmask' = [waitmask EXCEPT ![t] = "none"]
      /\ st' = [st EXCEPT ![t] = User]
      /\ gdi' = gdi /\ flgptn' = flgptn /\ drqlock' = drqlock /\ tev' = tev
  BY <1>0 DEF execfn_is_over, Ending
<1>2. GdiTypes /\ ReqInv
  BY DEF GdiInv
<1>3. /\ st' \in PCs /\ Others(t) /\ st'[t].at = "user" /\ st'[t].rs = << >>
  <2>1. User \in PC /\ User.at = "user" /\ User.rs = << >>
    BY DEF User, PC, Places
  <2> QED BY <1>1, <1>2, <2>1 DEF Others, GdiTypes, PcType, PCs
<1>4. r \in Pkts /\ Own(t) = {r} /\ pkt[r].tskid = t /\ pkt[r].used
  BY <1>0, <1>1, OneRequest
<1>5. /\ st[t].at = "queued" => Linked(r)
      /\ st[t].at = "failed" => Blockless(r)
  BY <1>1, <1>4 DEF GdiInv, CallInv, Call
<1>6. /\ pkt' \in [Pkts -> [used : BOOLEAN, kind : Kinds \cup {NONE}, exinf : DRQs \cup {NONE},
                            abort : BOOLEAN, tskid : Users \cup {NONE}]]
      /\ st[t].at = "queued" => SameBlock(r)
      /\ st[t].at = "failed" => ~pkt'[r].used
      /\ pkt'[r].tskid = NONE
      /\ \A s \in Pkts : s # r => pkt'[s] = pkt[s]
  <2>1. CASE st[t].at = "queued"
    <3>1. pkt' = [pkt EXCEPT ![r].tskid = NONE]
      BY <1>1, <2>1 DEF Is
    <3> QED BY <1>2, <1>4, <2>1, <3>1 DEF GdiTypes, ReqType, SameBlock
  <2>2. CASE st[t].at = "failed"
    <3>1. pkt' = [pkt EXCEPT ![r] = FreePkt]
      BY <1>1, <2>2 DEF Is
    <3>2. /\ FreePkt \in [used : BOOLEAN, kind : Kinds \cup {NONE}, exinf : DRQs \cup {NONE},
                          abort : BOOLEAN, tskid : Users \cup {NONE}]
          /\ ~FreePkt.used /\ FreePkt.tskid = NONE
      BY DEF FreePkt
    <3> QED BY <1>2, <1>4, <2>2, <3>1, <3>2 DEF GdiTypes, ReqType
  <2> QED BY <1>1, <2>1, <2>2 DEF Ending
<1>7. Own(t)' = {}
  BY <1>3 DEF Own, Is, Range
<1>8. \A u \in Users : u # t => st'[u] = st[u] /\ Own(u)' = Own(u) /\ r \notin Own(u)
  BY <1>2, <1>3, <1>4 DEF Others, Own, Is, ReqInv
<1>9. \A s \in Pkts : s # r \/ st[t].at = "queued" =>
                        (Linked(s)' <=> Linked(s)) /\ (Blockless(s)' <=> Blockless(s))
  BY <1>1, <1>6 DEF Linked, Blockless, SameBlock
<1>10. Blockless(r)' <=> Blockless(r)
  BY <1>1 DEF Blockless
<1>11. ReqInv'
  <2>1. ASSUME NEW s \in Pkts
        PROVE  /\ ~pkt'[s].used =>
                    pkt'[s].tskid = NONE /\ Blockless(s)' /\ \A u \in Users : s \notin Own(u)'
               /\ pkt'[s].used => pkt'[s].kind \in Kinds
               /\ \A u \in Users : pkt'[s].tskid = u => s \in Own(u)'
               /\ pkt'[s].used /\ (\A u \in Users : s \notin Own(u)') => Linked(s)'
    <3>1. CASE s = r
      <4>1. /\ \A u \in Users : s \notin Own(u)'
            /\ \A u \in Users : pkt'[s].tskid # u
        BY <1>6, <1>7, <1>8, <3>1 DEF DriverAssumption
      <4>2. pkt[r].kind \in Kinds
        BY <1>2, <1>4 DEF ReqInv
      <4>3. st[t].at \in {"queued", "failed"}
        BY <1>1 DEF Ending
      <4>4. CASE st[t].at = "queued"
        BY <1>4, <1>5, <1>6, <1>9, <3>1, <4>1, <4>2, <4>4 DEF SameBlock
      <4>5. CASE st[t].at = "failed"
        BY <1>5, <1>6, <1>10, <3>1, <4>1, <4>5
      <4> QED BY <4>3, <4>4, <4>5
    <3>2. CASE s # r
      <4>1. pkt'[s] = pkt[s]
        BY <1>6, <3>2
      <4>2. \A u \in Users : s \in Own(u)' <=> s \in Own(u)
        BY <1>4, <1>7, <1>8, <3>2
      <4> QED BY <1>2, <1>9, <3>2, <4>1, <4>2 DEF ReqInv
    <3> QED BY <3>1, <3>2
  <2>2. \A u, w \in Users : u # w => Own(u)' \cap Own(w)' = {}
    BY <1>2, <1>7, <1>8 DEF ReqInv
  <2> QED BY <2>1, <2>2 DEF ReqInv
<1>12. AbortInv'
  BY <1>1, <1>3, <1>8, NoAborts
<1>13. Call(t)'
  <2>1. waitmask'[t] = "none"
    BY <1>1, <1>2 DEF GdiTypes, RestType
  <2> QED BY <1>3, <2>1 DEF Call, Starting, Ending, Holding, Waiting, Marked
<1>14. ReqType' /\ RestType'
  BY <1>1, <1>2, <1>6 DEF GdiTypes, ReqType, RestType
<1>15. /\ \A s \in Pkts : ~Blockless(s) => SameBlock(s)
       /\ \A u \in Users : u # t =>
            /\ waitmask'[u] = waitmask[u]
            /\ \A s \in Own(u) : SameBlock(s) /\ pkt'[s].tskid = pkt[s].tskid
                                   /\ (pkt[s].abort => pkt'[s].abort)
  <2>1. \A u \in Users : Own(u) \subseteq Pkts
    BY <1>2, OwnRequests
  <2>2. \A u \in Users : u # t => waitmask'[u] = waitmask[u]
    BY <1>1, <1>2 DEF GdiTypes, RestType
  <2> QED BY <1>1, <1>5, <1>6, <1>8, <2>1, <2>2 DEF SameBlock, Ending
<1> QED BY <1>1, <1>3, <1>11, <1>12, <1>13, <1>14, <1>15, RequestStep DEF Marked, Ending

\* gdi_waitfn returns: the complete request is free again.
LEMMA WaitReturnStep ==
  ASSUME DriverAssumption, GdiInv, NEW t \in Users, waitfn_is_over(t)
  PROVE  GdiInv'
<1> DEFINE Gone(s) == pkt[s].exinf = st[t].complete \/ pkt[s].tskid # t
<1>1. /\ st[t].at = "leave" /\ ~Aborting
      /\ waitmask' = [waitmask EXCEPT ![t] = "none"]
      /\ st' = [st EXCEPT ![t] = User]
      /\ gdi' = gdi /\ flgptn' = flgptn /\ drqlock' = drqlock /\ tev' = tev
  BY DEF waitfn_is_over, Is
<1>2. GdiTypes /\ ReqInv /\ Call(t) /\ NONE \notin Users
  BY DEF GdiInv, CallInv, DriverAssumption
<1>3. /\ st' \in PCs /\ Others(t) /\ st'[t].at = "user" /\ st'[t].rs = << >>
  <2>1. User \in PC /\ User.at = "user" /\ User.rs = << >>
    BY DEF User, PC, Places
  <2> QED BY <1>1, <1>2, <2>1 DEF Others, GdiTypes, PcType, PCs
<1>4. Own(t) \subseteq Pkts /\ \A s \in Pkts : Contains(st[t].rs, s) <=> s \in Own(t)
  <2>1. Own(t) = Range(st[t].rs) /\ st[t].rs \in Seq(Pkts)
    BY <1>1, <1>2, OwnRequests, Types DEF Is
  <2> QED BY <1>2, <2>1, OwnRequests DEF Contains, Range
<1>5. pkt' = [s \in Pkts |-> IF s \notin Own(t) THEN pkt[s]
                             ELSE IF Gone(s) THEN FreePkt ELSE [pkt[s] EXCEPT !.tskid = NONE]]
  BY <1>4 DEF waitfn_is_over
<1>6. \A s \in Own(t) : pkt[s].used /\ IF Gone(s) THEN Blockless(s) ELSE Linked(s)
  BY <1>1, <1>2 DEF Call
<1>7. /\ pkt' \in [Pkts -> [used : BOOLEAN, kind : Kinds \cup {NONE}, exinf : DRQs \cup {NONE},
                            abort : BOOLEAN, tskid : Users \cup {NONE}]]
      /\ \A s \in Own(t) : /\ pkt'[s].tskid = NONE
                           /\ IF Gone(s) THEN ~pkt'[s].used ELSE SameBlock(s)
      /\ \A s \in Pkts \ Own(t) : pkt'[s] = pkt[s]
  <2>1. /\ FreePkt \in [used : BOOLEAN, kind : Kinds \cup {NONE}, exinf : DRQs \cup {NONE},
                        abort : BOOLEAN, tskid : Users \cup {NONE}]
        /\ ~FreePkt.used /\ FreePkt.tskid = NONE
    BY DEF FreePkt
  <2> HIDE DEF Gone
  <2> QED BY <1>2, <1>4, <1>5, <2>1 DEF GdiTypes, ReqType, SameBlock
<1> HIDE DEF Gone
<1>8. Own(t)' = {}
  BY <1>3 DEF Own, Is, Range
<1>9. \A u \in Users : u # t => st'[u] = st[u] /\ Own(u)' = Own(u) /\ Own(u) \cap Own(t) = {}
  BY <1>2, <1>3 DEF Others, Own, Is, ReqInv
<1>10. \A s \in Pkts : /\ Blockless(s)' <=> Blockless(s)
                       /\ s \notin Own(t) \/ ~Gone(s) => (Linked(s)' <=> Linked(s))
  BY <1>1, <1>7 DEF Linked, Blockless, SameBlock
<1>11. ReqInv'
  <2>1. ASSUME NEW s \in Pkts
        PROVE  /\ ~pkt'[s].used =>
                    pkt'[s].tskid = NONE /\ Blockless(s)' /\ \A u \in Users : s \notin Own(u)'
               /\ pkt'[s].used => pkt'[s].kind \in Kinds
               /\ \A u \in Users : pkt'[s].tskid = u => s \in Own(u)'
               /\ pkt'[s].used /\ (\A u \in Users : s \notin Own(u)') => Linked(s)'
    <3>1. CASE s \in Own(t)
      <4>1. /\ \A u \in Users : s \notin Own(u)'
            /\ \A u \in Users : pkt'[s].tskid # u
        BY <1>2, <1>7, <1>8, <1>9, <3>1
      <4>2. pkt[s].kind \in Kinds
        BY <1>2, <1>6, <3>1 DEF ReqInv
      <4> QED BY <1>6, <1>7, <1>10, <3>1, <4>1, <4>2 DEF SameBlock
    <3>2. CASE s \notin Own(t)
      <4>1. pkt'[s] = pkt[s]
        BY <1>7, <3>2
      <4>2. \A u \in Users : s \in Own(u)' <=> s \in Own(u)
        BY <1>8, <1>9, <3>2
      <4> QED BY <1>2, <1>10, <3>2, <4>1, <4>2 DEF ReqInv
    <3> QED BY <3>1, <3>2
  <2>2. \A u, w \in Users : u # w => Own(u)' \cap Own(w)' = {}
    BY <1>2, <1>8, <1>9 DEF ReqInv
  <2> QED BY <2>1, <2>2 DEF ReqInv
<1>12. AbortInv'
  BY <1>1, <1>3, <1>9, NoAborts
<1>13. Call(t)'
  <2>1. waitmask'[t] = "none"
    BY <1>1, <1>2 DEF GdiTypes, RestType
  <2> QED BY <1>3, <2>1 DEF Call, Starting, Ending, Holding, Waiting, Marked
<1>14. ReqType' /\ RestType'
  BY <1>1, <1>2, <1>7 DEF GdiTypes, ReqType, RestType
<1>15. /\ \A s \in Pkts : ~Blockless(s) => SameBlock(s)
       /\ \A u \in Users : u # t =>
            /\ waitmask'[u] = waitmask[u]
            /\ \A s \in Own(u) : SameBlock(s) /\ pkt'[s].tskid = pkt[s].tskid
                                   /\ (pkt[s].abort => pkt'[s].abort)
  <2>1. \A u \in Users : Own(u) \subseteq Pkts
    BY <1>2, OwnRequests
  <2>2. \A u \in Users : u # t => waitmask'[u] = waitmask[u]
    BY <1>1, <1>2 DEF GdiTypes, RestType
  <2>3. \A s \in Pkts \ Own(t) : SameBlock(s) /\ pkt'[s].tskid = pkt[s].tskid
                                   /\ (pkt[s].abort => pkt'[s].abort)
    BY <1>7 DEF SameBlock
  <2> QED BY <1>6, <1>7, <1>9, <2>1, <2>2, <2>3
<1> QED BY <1>1, <1>3, <1>11, <1>12, <1>13, <1>14, <1>15, RequestStep DEF Marked

\* gdi_waitfn begins, with started requests.
LEMMA WaitfnStep ==
  ASSUME DriverAssumption, GdiInv, NEW t \in Users, NEW rs \in Seq(Pkts), NEW closing \in BOOLEAN,
         waitfn(t, rs, closing)
  PROVE  GdiInv'
<1> DEFINE R == Range(rs)
<1>1. /\ st[t].at = "user" /\ rs # << >> /\ \A r \in ToSet(rs) : Started(r)
      /\ closing => Len(rs) = 1
      /\ gdi' = gdi /\ flgptn' = flgptn /\ drqlock' = drqlock /\ tev' = tev /\ waitmask' = waitmask
  BY DEF waitfn, Is
<1>2. GdiTypes /\ ReqInv /\ AbortInv /\ NONE \notin Users
  BY DEF GdiInv, DriverAssumption
<1>3. /\ st' \in PCs /\ Others(t) /\ st'[t].at = "mark" /\ st'[t].rs = rs
  <2>1. PICK p : p = [User EXCEPT !.at = "mark", !.rs = rs]
    OBVIOUS
  <2>2. p \in PC /\ p.at = "mark" /\ p.rs = rs
    <3>1. "mark" \in Places /\ User \in PC
      BY DEF User, PC, Places, Waiting
    <3> QED BY <2>1, <3>1 DEF PC
  <2>3. st' = [st EXCEPT ![t] = p]
    BY <2>1 DEF waitfn
  <2> QED BY <1>2, <2>2, <2>3 DEF Others, GdiTypes, PcType, PCs
<1>4. R \subseteq Pkts /\ ToSet(rs) = R /\ \A r \in Pkts : Contains(rs, r) <=> r \in R
  BY DEF ToSet, Contains, Range
<1>5. /\ pkt' \in [Pkts -> [used : BOOLEAN, kind : Kinds \cup {NONE}, exinf : DRQs \cup {NONE},
                            abort : BOOLEAN, tskid : Users \cup {NONE}]]
      /\ \A r \in R : /\ SameBlock(r)
                      /\ pkt'[r].tskid = IF closing THEN NONE ELSE t
                      /\ closing => pkt'[r].abort
      /\ \A r \in Pkts \ R : pkt'[r] = pkt[r]
  <2>1. PICK v : v = IF closing THEN NONE ELSE t
    OBVIOUS
  <2>2. v \in Users \cup {NONE}
    BY <2>1
  <2>3. PICK b : b = [r \in Pkts |-> (pkt[r].abort \/ closing)]
    OBVIOUS
  <2>4. b \in [Pkts -> BOOLEAN] /\ \A r \in Pkts : b[r] <=> (pkt[r].abort \/ closing)
    BY <2>3
  <2>5. PICK m : m = [r \in Pkts |-> [pkt[r] EXCEPT !.tskid = v]]
    OBVIOUS
  <2>6. pkt' = [r \in Pkts |-> IF r \in R THEN [m[r] EXCEPT !.abort = b[r]] ELSE pkt[r]]
    <3>1. \A r \in Pkts : [m[r] EXCEPT !.abort = b[r]]
                            = [pkt[r] EXCEPT !.tskid = IF closing THEN NONE ELSE t,
                                             !.abort = @ \/ closing]
      BY <2>1, <2>3, <2>5
    <3> HIDE DEF R
    <3> QED BY <1>4, <3>1 DEF waitfn
  <2>7. /\ m \in [Pkts -> [used : BOOLEAN, kind : Kinds \cup {NONE}, exinf : DRQs \cup {NONE},
                          abort : BOOLEAN, tskid : Users \cup {NONE}]]
        /\ \A r \in Pkts : /\ m[r].used = pkt[r].used /\ m[r].kind = pkt[r].kind
                           /\ m[r].exinf = pkt[r].exinf /\ m[r].tskid = v
    BY <1>2, <2>2, <2>5 DEF GdiTypes, ReqType
  <2> HIDE DEF R
  <2>8. \A r \in R : pkt'[r] = [m[r] EXCEPT !.abort = b[r]]
    BY <1>4, <2>6
  <2>9. \A r \in Pkts \ R : pkt'[r] = pkt[r]
    BY <2>6
  <2>10. ASSUME NEW r \in R
         PROVE  /\ SameBlock(r) /\ pkt'[r].tskid = v /\ (b[r] => pkt'[r].abort)
                /\ pkt'[r] \in [used : BOOLEAN, kind : Kinds \cup {NONE},
                               exinf : DRQs \cup {NONE}, abort : BOOLEAN,
                               tskid : Users \cup {NONE}]
    <3>1. r \in Pkts /\ b[r] \in BOOLEAN
      BY <1>4, <2>4
    <3>2. PICK x : x = m[r]
      OBVIOUS
    <3>3. PICK y : y = b[r]
      OBVIOUS
    <3>4. pkt'[r] = [x EXCEPT !.abort = y]
      BY <2>8, <3>2, <3>3
    <3>5. /\ x \in [used : BOOLEAN, kind : Kinds \cup {NONE}, exinf : DRQs \cup {NONE},
                   abort : BOOLEAN, tskid : Users \cup {NONE}]
          /\ x.used = pkt[r].used /\ x.kind = pkt[r].kind
          /\ x.exinf = pkt[r].exinf /\ x.tskid = v
      BY <2>7, <3>1, <3>2
    <3>6. y \in BOOLEAN
      BY <3>1, <3>3
    <3> QED BY <3>3, <3>4, <3>5, <3>6 DEF SameBlock
  <2>11. pkt' \in [Pkts -> [used : BOOLEAN, kind : Kinds \cup {NONE}, exinf : DRQs \cup {NONE},
                           abort : BOOLEAN, tskid : Users \cup {NONE}]]
    BY <1>2, <2>4, <2>6, <2>7, <2>9, <2>10 DEF GdiTypes, ReqType
  <2> QED BY <1>4, <2>1, <2>4, <2>9, <2>10, <2>11
<1>6. \A r \in R : /\ pkt[r].used /\ pkt[r].tskid = NONE /\ pkt[r].exinf # NONE
                   /\ \A u \in Users : r \notin Own(u)
  <2>1. \A u \in Users, r \in Pkts : ~Contains(st[u].rs, r) => r \notin Own(u)
    <3>1. \A u \in Users : st[u].rs \in Seq(Pkts)
      BY <1>2, Types
    <3> QED BY <3>1 DEF Own, Contains, Range
  <2> HIDE DEF R
  <2> QED BY <1>1, <1>4, <2>1 DEF Started
<1>7. \A r \in R : Linked(r)
  <2> HIDE DEF R
  <2> QED BY <1>2, <1>4, <1>6 DEF ReqInv
<1>8. Own(t)' = R
  BY <1>3 DEF Own, Is
<1>9. Own(t) = {} /\ st[t].rs = << >> /\ waitmask[t] = "none"
  <2>1. st[t].rs = << >> /\ waitmask[t] = "none"
    BY <1>1 DEF GdiInv, CallInv, Call
  <2> QED BY <1>2, <2>1, OwnRequests
<1> HIDE DEF R
<1>10. \A u \in Users : u # t => st'[u] = st[u] /\ Own(u)' = Own(u)
  BY <1>3 DEF Others, Own, Is
<1>11. \A r \in Pkts : (Linked(r)' <=> Linked(r)) /\ (Blockless(r)' <=> Blockless(r)) /\ SameBlock(r)
  <2>1. \A r \in Pkts : SameBlock(r)
    BY <1>5 DEF SameBlock
  <2> QED BY <1>1, <2>1 DEF Linked, Blockless, SameBlock
<1>12. ReqInv'
  <2>1. ASSUME NEW r \in Pkts
        PROVE  /\ ~pkt'[r].used =>
                    pkt'[r].tskid = NONE /\ Blockless(r)' /\ \A u \in Users : r \notin Own(u)'
               /\ pkt'[r].used => pkt'[r].kind \in Kinds
               /\ \A u \in Users : pkt'[r].tskid = u => r \in Own(u)'
               /\ pkt'[r].used /\ (\A u \in Users : r \notin Own(u)') => Linked(r)'
    <3>1. CASE r \in R
      <4>1. pkt'[r].used /\ pkt'[r].kind \in Kinds
        BY <1>2, <1>6, <1>11, <3>1 DEF ReqInv, SameBlock
      <4>2. \A u \in Users : pkt'[r].tskid = u => u = t
        BY <1>2, <1>5, <3>1
      <4> QED BY <1>7, <1>8, <1>11, <3>1, <4>1, <4>2
    <3>2. CASE r \notin R
      <4>1. pkt'[r] = pkt[r]
        BY <1>5, <3>2
      <4>2. \A u \in Users : r \in Own(u)' <=> r \in Own(u)
        BY <1>8, <1>9, <1>10, <3>2
      <4> QED BY <1>2, <1>11, <4>1, <4>2 DEF ReqInv
    <3> QED BY <3>1, <3>2
  <2>2. \A u, w \in Users : u # w => Own(u)' \cap Own(w)' = {}
    BY <1>2, <1>6, <1>8, <1>10 DEF ReqInv
  <2> QED BY <2>1, <2>2 DEF ReqInv
<1>13. AbortInv'
  <2> SUFFICES ASSUME NEW a \in Users, Is(a, "abort")'
               PROVE  /\ st'[a].rs # << >>
                      /\ \E u \in Users : ~Is(u, "abort")' /\ st'[u].rs = st'[a].rs
                                            /\ \A r \in Range(st'[u].rs) : pkt'[r].tskid = u
    BY DEF AbortInv
  <2>1. a # t /\ Is(a, "abort") /\ st'[a] = st[a] /\ st[a].rs # << >>
    BY <1>2, <1>3, <1>10 DEF Is, AbortInv
  <2>2. PICK u \in Users : ~Is(u, "abort") /\ st[u].rs = st[a].rs
                             /\ \A r \in Range(st[u].rs) : pkt[r].tskid = u
    BY <1>2, <2>1 DEF AbortInv
  <2>3. u # t /\ st'[u] = st[u]
    BY <1>9, <1>10, <2>1, <2>2
  <2>4. \A r \in Range(st[u].rs) : r \notin R /\ r \in Pkts
    BY <1>2, <1>6, <2>2, OwnRequests
  <2> QED BY <1>5, <2>1, <2>2, <2>3, <2>4 DEF Is
<1>14. Call(t)'
  <2>1. \A r \in R : Linked(r)' /\ pkt'[r].used /\ pkt'[r].exinf # NONE
                       /\ (pkt'[r].tskid = t \/ (pkt'[r].tskid = NONE /\ Len(rs) = 1 /\ pkt'[r].abort))
    BY <1>1, <1>4, <1>5, <1>6, <1>7, <1>11 DEF SameBlock
  <2> QED BY <1>1, <1>3, <1>8, <1>9, <2>1 DEF Call, Starting, Ending, Holding, Waiting, Marked
<1>15. ReqType' /\ RestType'
  BY <1>1, <1>2, <1>5 DEF GdiTypes, ReqType, RestType
<1>16. \A u \in Users : u # t =>
         \A r \in Own(u) : SameBlock(r) /\ pkt'[r].tskid = pkt[r].tskid
                             /\ (pkt[r].abort => pkt'[r].abort)
  <2>1. \A u \in Users : Own(u) \subseteq Pkts
    BY <1>2, OwnRequests
  <2>2. \A u \in Users : \A r \in Own(u) : pkt'[r] = pkt[r]
    BY <1>5, <1>6, <2>1
  <2> QED BY <2>2 DEF SameBlock
<1> QED BY <1>1, <1>3, <1>11, <1>12, <1>13, <1>14, <1>15, <1>16, RequestStep DEF Marked

\* The device manager is about to abort what another call waits for.
LEMMA AbortBeginsStep ==
  ASSUME DriverAssumption, GdiInv, NEW a \in Users, NEW t \in Users, abort_starts(a, t)
  PROVE  GdiInv'
<1>1. PICK rs : rs = {r \in Pkts : pkt[r].tskid = t}
  OBVIOUS
<1>2. /\ st[a].at = "user" /\ a # t /\ rs # {} /\ ~Aborting
      /\ gdi' = gdi /\ flgptn' = flgptn /\ drqlock' = drqlock /\ tev' = tev /\ waitmask' = waitmask
  BY <1>1 DEF abort_starts, Is
<1>3. GdiTypes /\ ReqInv /\ AbortInv /\ NONE \notin Users /\ Call(t)
  BY DEF GdiInv, DriverAssumption, CallInv
<1>4. st[t].at # "abort" /\ st[t].rs \in Seq(Pkts) /\ Own(t) = Range(st[t].rs)
  BY <1>2, <1>3, Types, OwnRequests DEF Aborting, Is
<1>5. /\ st' \in PCs /\ Others(a) /\ st'[a].at = "abort" /\ st'[a].rs = st[t].rs
  <2>1. PICK p : p = [User EXCEPT !.at = "abort", !.rs = st[t].rs]
    OBVIOUS
  <2>2. p \in PC /\ p.at = "abort" /\ p.rs = st[t].rs
    <3>1. "abort" \in Places /\ User \in PC
      BY DEF User, PC, Places
    <3> QED BY <1>4, <2>1, <3>1 DEF PC
  <2>3. st' = [st EXCEPT ![a] = p]
    BY <2>1 DEF abort_starts
  <2> QED BY <1>3, <2>2, <2>3 DEF Others, GdiTypes, PcType, PCs
<1>6. /\ ReqType'
      /\ \A r \in Pkts : /\ SameBlock(r) /\ pkt'[r].tskid = pkt[r].tskid
                         /\ pkt[r].abort => pkt'[r].abort
  <2>1. PICK b : b = [r \in Pkts |-> (pkt[r].abort \/ rs = {r})]
    OBVIOUS
  <2>2. b \in [Pkts -> BOOLEAN] /\ \A r \in Pkts : b[r] <=> (pkt[r].abort \/ rs = {r})
    BY <2>1
  <2>3. pkt' = [r \in Pkts |-> [pkt[r] EXCEPT !.abort = b[r]]]
    BY <1>1, <2>1 DEF abort_starts
  <2> QED BY <1>3, <2>2, <2>3 DEF GdiTypes, ReqType, SameBlock
<1>7. Own(a) = {} /\ Own(a)' = {} /\ \A u \in Users : u # a => st'[u] = st[u] /\ Own(u)' = Own(u)
  <2>1. st[a].rs = << >>
    BY <1>2 DEF GdiInv, CallInv, Call
  <2> QED BY <1>3, <1>5, <2>1, OwnRequests DEF Others, Own, Is
<1>8. ReqInv'
  <2>1. SameLinks /\ \A u \in Users : Own(u)' = Own(u)
    BY <1>2, <1>6, <1>7 DEF SameLinks, SameBlock
  <2> QED BY <1>3, <1>6, <2>1, ReqKept
<1>9. st[t].rs # << >> /\ \A r \in Range(st[t].rs) : pkt[r].tskid = t
  <2>1. PICK r \in Pkts : pkt[r].tskid = t
    BY <1>1, <1>2
  <2>2. r \in Own(t)
    BY <1>3, <2>1 DEF ReqInv
  <2>3. st[t].rs # << >> /\ st[t].at # "user"
    BY <1>3, <2>2, OwnRequests DEF Call
  <2>4. Len(st[t].rs) = 1 => Own(t) = {r}
    BY <1>3, <1>4, <2>2, OwnRequests DEF Is
  <2>5. st[t].at \in Places /\ st[t].at # "reply"
    BY <1>3 DEF GdiTypes, PcType, PCs, PC
  <2>6. CASE st[t].at \in Starting \cup Ending
    BY <1>3, <1>4, <2>3, <2>6 DEF Call
  <2>7. CASE st[t].at \in Waiting \cup {"leave"}
    <3>1. \A s \in Own(t) : pkt[s].tskid = t \/ (pkt[s].tskid = NONE /\ Len(st[t].rs) = 1)
      BY <1>3, <2>7 DEF Call
    <3>2. ASSUME NEW s \in Own(t), pkt[s].tskid # t PROVE FALSE
      BY <2>1, <2>4, <3>1, <3>2
    <3> QED BY <1>4, <2>3, <3>2
  <2> QED BY <1>4, <2>3, <2>5, <2>6, <2>7 DEF Places
<1>10. AbortInv'
  <2> SUFFICES ASSUME NEW b \in Users, Is(b, "abort")'
               PROVE  /\ st'[b].rs # << >>
                      /\ \E u \in Users : ~Is(u, "abort")' /\ st'[u].rs = st'[b].rs
                                            /\ \A r \in Range(st'[u].rs) : pkt'[r].tskid = u
    BY DEF AbortInv
  <2>1. b = a
    BY <1>2, <1>7 DEF Aborting, Is
  <2>2. st'[t] = st[t] /\ ~Is(t, "abort")'
    BY <1>2, <1>4, <1>7 DEF Is
  <2>3. \A r \in Range(st[t].rs) : pkt'[r].tskid = t
    BY <1>3, <1>4, <1>6, <1>9, OwnRequests
  <2> QED BY <1>5, <1>9, <2>1, <2>2, <2>3
<1>11. Call(a)'
  <2>1. st'[a].at \notin Starting \cup Ending \cup Waiting \cup {"user", "leave", "queued", "failed"}
    BY <1>5 DEF Starting, Ending, Waiting, Marked
  <2>2. waitmask'[a] = "none"
    BY <1>2 DEF GdiInv, CallInv, Call
  <2> QED BY <1>5, <2>1, <2>2 DEF Call, Holding, Starting, Ending, Waiting, Marked
<1>12. RestType'
  BY <1>2, <1>3 DEF GdiTypes, RestType
<1>13. \A u \in Users : Own(u) \subseteq Pkts
  BY <1>3, OwnRequests
<1> QED BY <1>2, <1>5, <1>6, <1>8, <1>10, <1>11, <1>12, <1>13, RequestStep DEF Marked

---------------------------------------------------------------------------
(* Steps that touch blocks only. *)

\* The blocks S leave the accept queue.
Thinned(S) ==
  /\ gdi'.freeq = gdi.freeq /\ gdi'.preq = gdi.preq
  /\ IsInjective(gdi'.acpq) /\ Queued' = Queued \ S
  /\ \A k \in Kinds : gdi'.acp[k] = Cardinality({d \in Queued \ S : Kind(d) = k})
  /\ \A d \in DRQs : gdi'.drq[d].req = gdi.drq[d].req
  /\ \A d \in Queued \ S : gdi'.drq[d].done = gdi.drq[d].done

\* The queues are right when blocks have left the accept queue.
LEMMA ThinnedQueues ==
  ASSUME DriverAssumption, GdiTypes, QueueInv, CountInv, pkt' = pkt, NEW S, Thinned(S)
  PROVE  QueueInv' /\ CountInv' /\ SameKinds /\ SameLinks
<1>1. SameLinks
  BY DEF Thinned, SameLinks
<1>2. SameKinds
  BY <1>1, KindKept
<1>3. Busy' = Busy /\ \A d \in Busy : Kind(d)' = Kind(d)
  BY <1>2 DEF SameKinds
<1>4. QueueInv'
  BY <1>3 DEF QueueInv, Thinned
<1>5. ASSUME NEW k \in Kinds
      PROVE  {d \in Queued : Kind(d) = k}' = {d \in Queued \ S : Kind(d) = k}
  BY <1>3 DEF Thinned, QueueInv
<1>6. ASSUME NEW x \in Dirs
      PROVE  {d \in Busy : Rw(Kind(d)) = x}' = {d \in Busy : Rw(Kind(d)) = x}
  BY <1>3 DEF Rw
<1>7. CountInv'
  BY <1>5, <1>6 DEF CountInv, Thinned
<1> QED BY <1>1, <1>2, <1>4, <1>7

\* Nothing leaves it.
LEMMA ThinnedNothing ==
  ASSUME QueueInv, CountInv, SameQueues, \A d \in DRQs : gdi'.drq[d].req = gdi.drq[d].req
  PROVE  Thinned({})
<1>1. Queued' = Queued /\ IsInjective(gdi'.acpq)
  BY DEF SameQueues, Queued, QueueInv
<1>2. Queued \ {} = Queued
  OBVIOUS
<1>3. \A k \in Kinds : gdi'.acp[k] = Cardinality({d \in Queued \ {} : Kind(d) = k})
  BY <1>2 DEF SameQueues, CountInv
<1> QED BY <1>1, <1>2, <1>3 DEF Thinned, SameQueues

\* Nobody begins to wait for the event flag, and the bits of those who are
\* about to wait stay.
NobodyWaits ==
  /\ \A x \in Users \cup Drivers :
       st'[x].at \in {"empty", "wai_flg"} => st'[x].at = st[x].at /\ st'[x].rs = st[x].rs
  /\ \A t \in Users : st[t].at = "empty" /\ Dir(t) \in flgptn => Dir(t) \in flgptn'
  /\ \A v \in Drivers : st[v].at = "empty" => Accepts[v] \cap flgptn \subseteq flgptn'

\* A step that changes blocks, not requests, and lets nobody wait.
LEMMA BlockStep ==
  ASSUME DriverAssumption, GdiInv, pkt' = pkt, NEW S, Thinned(S), GdiType', PcType', RestType',
         \A u \in Users : Own(u)' = Own(u),
         NobodyWaits, BlockInv', AbortInv', ReplyInv', CallInv'
  PROVE  GdiInv'
<1>1. GdiTypes'
  BY DEF GdiInv, GdiTypes, ReqType
<1>2. QueueInv' /\ CountInv' /\ SameKinds /\ SameLinks
  BY ThinnedQueues DEF GdiInv
<1>3. ReqInv'
  BY <1>2, ReqKept DEF GdiInv
<1>4. ASSUME NEW u \in Users PROVE FlagTask(u)'
  <2>1. st'[u].at \in {"empty", "wai_flg"} => st'[u].at = st[u].at /\ Dir(u)' = Dir(u)
    BY DEF NobodyWaits, Dir
  <2>2. Full(Dir(u)) => (st'[u].at \in {"empty", "wai_flg"} => Full(Dir(u))')
    BY <2>1 DEF Full, Thinned
  <2> QED BY <2>1, <2>2 DEF GdiInv, FlagInv, FlagTask, Is, NobodyWaits
<1>5. ASSUME NEW v \in Drivers PROVE FlagDriver(v)'
  <2>1. Queued' \subseteq Queued /\ \A d \in Queued : Kind(d)' = Kind(d)
    BY <1>2 DEF Thinned, SameKinds, GdiInv, QueueInv
  <2> QED BY <2>1, FlagDriverKept DEF GdiInv, FlagInv, NobodyWaits
<1> QED BY <1>1, <1>2, <1>3, <1>4, <1>5 DEF GdiInv, FlagInv

\* What such a step leaves of the call of a task that is not told anything.
LEMMA BlocksKeep ==
  ASSUME pkt' = pkt, NEW u \in Users, SameRest(u), st'[u] = st[u], Mine(u) \cap Queued' \subseteq Queued,
         \A d \in DRQs : gdi'.drq[d].req = gdi.drq[d].req,
         \A d \in Mine(u) : gdi'.drq[d].wtid = gdi.drq[d].wtid /\ gdi'.drq[d].done = gdi.drq[d].done
  PROVE  Keep(u)
<1>1. \A d \in Mine(u) : IsDone(d)' <=> IsDone(d)
  BY DEF IsDone
<1>2. \A d \in DRQs : gdi.drq[d].req \in Own(u) \/ gdi'.drq[d].req \in Own(u) => d \in Mine(u)
  BY DEF Mine
<1> QED BY <1>1, <1>2 DEF Keep, SameRest

---------------------------------------------------------------------------
(* gdi_waitfn: its two sections. *)

\* The place of the first complete request of a call.
LEMMA Completes ==
  ASSUME GdiTypes, NEW t \in Users, ~Is(t, "abort")
  PROVE  \/ Complete(t) = 0 /\ \A r \in Own(t) : ~IsDone(pkt[r].exinf)
         \/ \E r \in Own(t) : /\ Complete(t) > 0 /\ st[t].rs[Complete(t)] = r
                              /\ IsDone(pkt[r].exinf)
<1> DEFINE rs == st[t].rs
           I == {i \in 1 .. Len(rs) : gdi.drq[pkt[rs[i]].exinf].done = "Done"}
<1>1. Complete(t) = IF I # {} THEN Min(I) ELSE 0
  BY DEF Complete, SelectInSeq
<1>2. rs \in Seq(Pkts) /\ Own(t) = Range(rs)
  BY Types, OwnRequests
<1>3. \A r \in Own(t) : \E i \in 1 .. Len(rs) : rs[i] = r
  BY <1>2 DEF Range
<1>4. \A i \in 1 .. Len(rs) : rs[i] \in Own(t)
  BY <1>2 DEF Range
<1>5. CASE I = {}
  <2>1. Complete(t) = 0
    BY <1>1, <1>5
  <2>2. \A i \in 1 .. Len(rs) : ~IsDone(pkt[rs[i]].exinf)
    BY <1>5 DEF IsDone
  <2> QED BY <1>3, <2>1, <2>2
<1>6. CASE I # {}
  <2>1. I \in SUBSET Nat /\ I \subseteq 1 .. Len(rs)
    BY <1>2
  <2>2. \A i \in I : IsDone(pkt[rs[i]].exinf)
    BY DEF IsDone
  <2> HIDE DEF I
  <2>3. PICK n : n = Min(I)
    OBVIOUS
  <2>4. n \in I /\ n \in 1 .. Len(rs)
    BY <1>6, <2>1, <2>3, MinOfNats
  <2>5. Complete(t) = n
    BY <1>1, <1>6, <2>3
  <2>6. Complete(t) > 0 /\ rs[Complete(t)] = rs[n] /\ rs[n] \in Own(t) /\ IsDone(pkt[rs[n]].exinf)
    BY <1>4, <2>2, <2>4, <2>5
  <2> QED BY <2>6
<1> QED BY <1>5, <1>6

\* mark of a request that is complete
LEMMA TakeStep ==
  ASSUME DriverAssumption, GdiInv, NEW t \in Users, mark(t), Complete(t) > 0
  PROVE  GdiInv'
<1> DEFINE c == pkt[st[t].rs[Complete(t)]].exinf
<1>1. /\ st[t].at = "mark" /\ GoWith(t, "release", c)
      /\ gdi' = gdi /\ pkt' = pkt /\ flgptn' = flgptn /\ drqlock' = drqlock
      /\ tev' = tev /\ waitmask' = waitmask
  BY DEF mark, GoWith, Is
<1>2. GdiTypes
  BY DEF GdiInv
<1>3. Held(t) /\ ~Is(t, "abort")
  BY <1>1, HeldIs DEF Waiting, Is
<1>4. PICK r \in Own(t) : c = pkt[r].exinf /\ IsDone(c)
  <2>1. PICK r \in Own(t) : st[t].rs[Complete(t)] = r /\ IsDone(pkt[r].exinf)
    BY <1>2, <1>3, Completes
  <2> QED BY <2>1
<1> HIDE DEF c
<1>5. c \in Mine(t) /\ c \in DRQs
  <2>1. r \in Pkts
    BY <1>2, OwnRequests
  <2> QED BY <1>2, <1>3, <1>4, <2>1, Types DEF Held, Linked, Mine
<1>6. /\ st' \in PCs /\ Others(t) /\ st'[t].at = "release"
      /\ st'[t].rs = st[t].rs /\ st'[t].complete = c
  BY <1>1, <1>2, <1>5, GoesTo DEF Places, Waiting
<1>7. RestType'
  BY <1>1 DEF GdiInv, GdiTypes, RestType
<1>8. \A u \in Users : u # t => SameRest(u)
  BY <1>1 DEF SameRest
<1>9. BitsKept(t)
  BY <1>1 DEF BitsKept
<1>10. Own(t)' = Own(t) /\ (Mine(t)' = Mine(t)) /\ \A d : IsDone(d)' <=> IsDone(d)
  BY <1>1, <1>6, QuietOwn
<1>11. Held(t)'
  BY <1>1, <1>2, <1>3, <1>6, HeldKept
<1>12. Call(t)'
  <2>1. IsDone(st[t].complete)' <=> gdi'.drq[st'[t].complete].done = "Done"
    BY DEF IsDone
  <2>2. gdi'.drq[st'[t].complete].done = "Done"
    BY <1>1, <1>4, <1>6 DEF IsDone
  <2> QED BY <1>5, <1>6, <1>10, <1>11, <2>1, <2>2
          DEF Call, Held, Starting, Ending, Holding, Waiting, Marked
<1>13. FlagTask(t)'
  BY <1>6 DEF FlagTask, Is
<1> QED BY <1>1, <1>6, <1>7, <1>8, <1>9, <1>12, <1>13, QuietTask DEF Marked

\* The blocks of two calls differ.
LEMMA MineDiffer ==
  ASSUME ReqInv, NEW t \in Users, NEW u \in Users, t # u
  PROVE  Mine(t) \cap Mine(u) = {}
BY DEF ReqInv, Mine

\* mark of requests that are not
LEMMA MarkStep ==
  ASSUME DriverAssumption, GdiInv, NEW t \in Users, mark(t), ~(Complete(t) > 0), ClosesWithoutEvent
  PROVE  GdiInv'
<1>1. PICK ended : ended = {d \in Blocks(t) : pkt[gdi.drq[d].req].abort /\ gdi.drq[d].done = "NotDone"}
  OBVIOUS
<1>2. PICK unq : unq = ended \cap ToSet(gdi.acpq)
  OBVIOUS
<1>3. PICK g : g = unqueued(gdi, unq)
  OBVIOUS
<1>4. PICK drq : drq = [d \in DRQs |-> [g.drq[d] EXCEPT
                             !.wtid = IF d \in Blocks(t) THEN t ELSE @,
                             !.done = IF d \in ended \ unq THEN "Abort" ELSE @]]
  OBVIOUS
<1>5. /\ st[t].at = "mark" /\ gdi' = [g EXCEPT !.drq = drq]
      /\ GoWithErr(t, IF unq = {} THEN "tev" ELSE "collect", "abort")
      /\ pkt' = pkt /\ flgptn' = flgptn /\ drqlock' = drqlock
      /\ tev' = tev /\ waitmask' = waitmask
  <2>1. ~(Complete(t) > 0)
    OBVIOUS
  <2>2. gdi' = [g EXCEPT !.drq = [d \in DRQs |-> [g.drq[d] EXCEPT
                             !.wtid = IF d \in Blocks(t) THEN t ELSE @,
                             !.done = IF d \in ended \ unq THEN "Abort" ELSE @]]]
    BY <1>1, <1>2, <1>3, <2>1 DEF mark
  <2>3. gdi' = [g EXCEPT !.drq = drq]
    BY <1>4, <2>2
  <2>4. st' = [st EXCEPT ![t].at = IF unq = {} THEN "tev" ELSE "collect", ![t].err = "abort"]
    BY <1>1, <1>2, <2>1 DEF mark
  <2>5. GoWithErr(t, IF unq = {} THEN "tev" ELSE "collect", "abort")
    BY <2>4 DEF GoWithErr
  <2>6. /\ st[t].at = "mark"
        /\ pkt' = pkt /\ flgptn' = flgptn /\ drqlock' = drqlock
        /\ tev' = tev /\ waitmask' = waitmask
    BY DEF mark, Is
  <2> QED BY <2>3, <2>5, <2>6
<1>6. GdiTypes /\ QueueInv /\ CountInv /\ ReqInv /\ BlockInv /\ NONE \notin Users \cup Pkts
  BY DEF GdiInv, DriverAssumption
<1>7. Held(t) /\ ~Is(t, "abort")
  BY <1>5, HeldIs DEF Waiting, Is
<1>8. Blocks(t) = Mine(t) /\ Mine(t) \subseteq DRQs /\ ToSet(gdi.acpq) = Queued
  BY <1>6, <1>7, MineBlocks DEF Held, Mine, ToSet, Queued, Range
<1>9. /\ unq = ended \cap Queued /\ ended \subseteq Mine(t)
      /\ \A d \in ended : pkt[gdi.drq[d].req].abort /\ gdi.drq[d].done = "NotDone"
      /\ \A d \in Mine(t) : pkt[gdi.drq[d].req].abort /\ gdi.drq[d].done = "NotDone" => d \in ended
  BY <1>1, <1>2, <1>8
<1>10. Unqueued(g, unq) /\ g \in GDIs
  BY <1>3, <1>6, <1>9, Unqueues
<1>11. /\ drq \in [DRQs -> Block]
       /\ \A d \in DRQs : /\ drq[d].req = gdi.drq[d].req
                          /\ drq[d].wtid = IF d \in Mine(t) THEN t ELSE gdi.drq[d].wtid
                          /\ drq[d].done = IF d \in unq THEN "Done"
                                           ELSE IF d \in ended THEN "Abort" ELSE gdi.drq[d].done
  <2>1. g.drq \in [DRQs -> Block]
    BY <1>10 DEF GDIs
  <2>2. ASSUME NEW d \in DRQs
        PROVE  /\ drq[d] \in Block /\ drq[d].req = g.drq[d].req
               /\ drq[d].wtid = IF d \in Mine(t) THEN t ELSE g.drq[d].wtid
               /\ drq[d].done = IF d \in ended \ unq THEN "Abort" ELSE g.drq[d].done
    <3>1. PICK w, o : /\ w = IF d \in Blocks(t) THEN t ELSE g.drq[d].wtid
                      /\ o = IF d \in ended \ unq THEN "Abort" ELSE g.drq[d].done
      OBVIOUS
    <3>2. w \in Users \cup {NONE} /\ o \in Done
      BY <2>1, <3>1 DEF Block, Done
    <3>3. PICK b : b = [g.drq[d] EXCEPT !.wtid = w]
      OBVIOUS
    <3>4. b \in Block /\ b.req = g.drq[d].req /\ b.wtid = w /\ b.done = g.drq[d].done
      BY <2>1, <3>2, <3>3 DEF Block
    <3>5. drq[d] = [b EXCEPT !.done = o]
      <4>1. b = [g.drq[d] EXCEPT !.wtid = IF d \in Blocks(t) THEN t ELSE @]
        BY <3>1, <3>3
      <4>2. drq[d] = [b EXCEPT !.done = IF d \in ended \ unq THEN "Abort" ELSE @]
        BY <1>4, <4>1
      <4> QED BY <3>1, <3>4, <4>2
    <3>6. drq[d] \in Block /\ drq[d].req = g.drq[d].req /\ drq[d].wtid = w /\ drq[d].done = o
      BY <3>2, <3>4, <3>5 DEF Block
    <3> QED BY <1>8, <3>1, <3>6
  <2>3. drq \in [DRQs -> Block]
    <3>1. DOMAIN drq = DRQs /\ drq = [d \in DRQs |-> drq[d]]
      BY <1>4
    <3> QED BY <2>2, <3>1
  <2> QED BY <1>9, <1>10, <2>2, <2>3 DEF Unqueued
<1>12. /\ gdi' \in GDIs /\ gdi'.drq = drq /\ gdi'.freeq = g.freeq /\ gdi'.acpq = g.acpq
       /\ gdi'.preq = g.preq /\ gdi'.acp = g.acp
  BY <1>5, <1>10, <1>11 DEF GDIs
<1>13. Thinned(unq)
  <2>1. \A d \in Queued \ unq : d \in DRQs /\ d \notin ended
    BY <1>6, <1>9 DEF QueueInv, Busy
  <2> QED BY <1>10, <1>11, <1>12, <2>1 DEF Unqueued, Thinned, Queued
<1>14. PICK a : a = IF unq = {} THEN "tev" ELSE "collect"
  OBVIOUS
<1>15. /\ st' \in PCs /\ Others(t) /\ st'[t].at = a /\ st'[t].rs = st[t].rs
       /\ st'[t].complete = st[t].complete /\ a \in Marked
  BY <1>5, <1>6, <1>14, GoesErr DEF Places, Waiting, Marked
<1>16. t \notin Drivers /\ (\A v \in Drivers : st'[v] = st[v])
         /\ \A u \in Users : u # t => st'[u] = st[u]
  BY <1>15 DEF Others, DriverAssumption
<1>17. \A u \in Users : Own(u)' = Own(u)
  BY <1>5, <1>7, <1>15, <1>16 DEF Own, Is, Marked
<1>18. GdiType' /\ PcType' /\ RestType'
  BY <1>5, <1>6, <1>12, <1>15, <1>16 DEF GdiType, PcType, RestType, GdiTypes, Marked
<1>19. NobodyWaits
  BY <1>5, <1>15, <1>16 DEF NobodyWaits, Marked
<1>20. \A d \in Mine(t) : ~IsDone(d) /\ gdi.drq[d].req \in Own(t) /\ gdi.drq[d].req # NONE
  <2>1. Complete(t) = 0 /\ \A r \in Own(t) : ~IsDone(pkt[r].exinf)
    BY <1>6, <1>7, Completes
  <2>2. \A d \in Mine(t) : gdi.drq[d].req \in Own(t) /\ gdi.drq[d].req # NONE
    BY <1>6, OwnRequests DEF Mine
  <2>3. \A d \in Mine(t) : pkt[gdi.drq[d].req].exinf = d
    BY <1>6, <1>8, <2>2 DEF BlockInv
  <2> QED BY <2>1, <2>2, <2>3
<1>21. BlockInv'
  <2> SUFFICES ASSUME NEW d \in DRQs
               PROVE  /\ gdi'.drq[d].req = NONE => gdi'.drq[d].wtid = NONE /\ gdi'.drq[d].done = "NotDone"
                      /\ gdi'.drq[d].req # NONE => pkt'[gdi'.drq[d].req].used /\ pkt'[gdi'.drq[d].req].exinf = d
                      /\ \A u \in Users : gdi'.drq[d].wtid = u =>
                           st'[u].at \in Marked /\ gdi'.drq[d].req \in Own(u)'
    BY DEF BlockInv
  <2>1. CASE d \in Mine(t)
    BY <1>5, <1>6, <1>11, <1>12, <1>15, <1>17, <1>20, <2>1 DEF BlockInv
  <2>2. CASE d \notin Mine(t)
    <3>1. gdi'.drq[d].req = gdi.drq[d].req /\ gdi'.drq[d].wtid = gdi.drq[d].wtid
            /\ gdi'.drq[d].done = gdi.drq[d].done
      BY <1>9, <1>11, <1>12, <2>2
    <3>2. \A u \in Users : gdi.drq[d].wtid = u => u # t
      BY <1>5, <1>6 DEF BlockInv, Marked
    <3> QED BY <1>5, <1>6, <1>16, <1>17, <3>1, <3>2 DEF BlockInv
  <2> QED BY <2>1, <2>2
<1>22. SameCalls
  BY <1>7, <1>15, <1>16 DEF SameCalls, Is, Marked
<1>23. AbortInv'
  BY <1>5, <1>6, <1>22, AbortKept DEF GdiInv
<1>24. ReplyInv'
  <2>1. \A d \in DRQs : gdi'.drq[d].done = "Done" /\ gdi.drq[d].done # "Done" => d \in Queued
    BY <1>9, <1>11, <1>12
  <2>2. SameReplies
    BY <1>16, <2>1 DEF SameReplies, GdiInv, ReplyInv, Is
  <2>3. Busy' = Busy /\ Queued' \subseteq Queued
    BY <1>11, <1>12, <1>13 DEF Busy, Thinned
  <2> QED BY <2>2, <2>3, ReplyKept DEF GdiInv
<1>25. ASSUME NEW u \in Users, u # t PROVE Call(u)'
  <2>1. \A d \in Mine(u) : d \in DRQs /\ d \notin Mine(t) /\ d \notin unq
    BY <1>6, <1>9, <1>25, MineDiffer DEF Mine
  <2>2. Mine(u) \cap Queued' \subseteq Queued
    BY <1>13 DEF Thinned
  <2>3. Keep(u)
    BY <1>5, <1>9, <1>11, <1>12, <1>16, <1>25, <2>1, <2>2, BlocksKeep DEF SameRest
  <2> QED BY <2>3, CallKept DEF GdiInv, CallInv
<1>26. Call(t)'
  <2>1. Mine(t)' = Mine(t) /\ (Closing(t)' <=> Closing(t))
    <3>1. Mine(t)' = Mine(t)
      BY <1>11, <1>12, <1>17 DEF Mine
    <3>2. Closing(t)' <=> Closing(t)
      BY <1>5, <1>17 DEF Closing
    <3> QED BY <3>1, <3>2
  <2>2. /\ st'[t].rs # << >> /\ \A r \in Own(t) : Linked(r)'
        /\ \A r \in Own(t) : /\ pkt'[r].used /\ pkt'[r].exinf # NONE
                             /\ \/ pkt'[r].tskid = t
                                \/ /\ pkt'[r].tskid = NONE /\ Len(st'[t].rs) = 1 /\ pkt'[r].abort
                                   /\ waitmask'[t] = "none"
    <3>1. \A r \in Own(t) : pkt[r].exinf \in DRQs
      BY <1>6, <1>7, OwnRequests, Types DEF Held
    <3> QED BY <1>5, <1>7, <1>11, <1>12, <1>15, <3>1 DEF Held, Linked
  <2>3. \A d \in Mine(t) : gdi'.drq[d].wtid = t
    BY <1>8, <1>11, <1>12
  <2>4. a = "tev" => \A d \in Mine(t) : ~IsDone(d)'
    BY <1>8, <1>11, <1>12, <1>14, <1>20 DEF IsDone
  <2>5. a = "tev" /\ Closing(t) => t \notin tev' /\ Mine(t) \cap Queued' = {}
    <3>1. SUFFICES ASSUME unq = {}, Closing(t) PROVE t \notin tev' /\ Mine(t) \cap Queued' = {}
      BY <1>14
    <3>2. t \notin tev'
      BY <1>5, <3>1 DEF ClosesWithoutEvent, Is
    <3>3. PICK r \in Own(t) : pkt[r].tskid = NONE
      BY <3>1 DEF Closing
    <3>4. Len(st[t].rs) = 1 /\ pkt[r].abort
      BY <1>6, <1>7, <3>3 DEF Held
    <3>5. Own(t) = {r}
      BY <1>6, <1>7, <3>3, <3>4, OwnRequests
    <3>6. ASSUME NEW d \in Mine(t), d \in Queued' PROVE FALSE
      <4>1. d \in Queued /\ gdi.drq[d].done = "NotDone"
        BY <1>6, <1>13, <3>6 DEF Thinned, QueueInv
      <4>2. d \in ended
        BY <1>9, <1>20, <3>4, <3>5, <4>1
      <4> QED BY <1>9, <3>1, <4>1, <4>2
    <3> QED BY <3>2, <3>6
  <2>6. a = "collect" => \E d \in Mine(t) : IsDone(d)'
    <3>1. a = "collect" => \E d \in Mine(t) : d \in unq
      BY <1>9, <1>14
    <3> QED BY <1>8, <1>11, <1>12, <3>1 DEF IsDone
  <2>7. a \in {"tev", "collect"}
    BY <1>14
  <2> QED BY <1>15, <1>17, <2>1, <2>2, <2>3, <2>4, <2>5, <2>6, <2>7
          DEF Call, Starting, Ending, Holding, Waiting, Marked
<1>27. CallInv'
  BY <1>25, <1>26 DEF CallInv
<1> QED BY <1>5, <1>13, <1>17, <1>18, <1>19, <1>21, <1>23, <1>24, <1>27, BlockStep

\* The second section
LEMMA CollectStep ==
  ASSUME DriverAssumption, GdiInv, NEW t \in Users, collect(t)
  PROVE  GdiInv'
<1>1. PICK c : c = IF Complete(t) = 0 THEN NONE ELSE pkt[st[t].rs[Complete(t)]].exinf
  OBVIOUS
<1>2. PICK drq : drq = [d \in DRQs |-> IF d \in Blocks(t) THEN [gdi.drq[d] EXCEPT !.wtid = NONE]
                                       ELSE gdi.drq[d]]
  OBVIOUS
<1>3. /\ st[t].at = "collect" /\ gdi' = [gdi EXCEPT !.drq = drq] /\ GoWith(t, "clear", c)
      /\ pkt' = pkt /\ flgptn' = flgptn /\ drqlock' = drqlock
      /\ tev' = tev /\ waitmask' = waitmask
  <2>1. gdi' = [gdi EXCEPT !.drq = drq]
    BY <1>2 DEF collect
  <2>2. GoWith(t, "clear", c)
    BY <1>1 DEF collect, GoWith
  <2>3. /\ st[t].at = "collect" /\ pkt' = pkt /\ flgptn' = flgptn /\ drqlock' = drqlock
        /\ tev' = tev /\ waitmask' = waitmask
    BY DEF collect, Is
  <2> QED BY <2>1, <2>2, <2>3
<1>4. GdiTypes /\ QueueInv /\ CountInv /\ ReqInv /\ BlockInv /\ NONE \notin Users \cup Pkts
  BY DEF GdiInv, DriverAssumption
<1>5. Held(t) /\ ~Is(t, "abort")
  BY <1>3, HeldIs DEF Waiting, Marked, Is
<1>6. Blocks(t) = Mine(t) /\ Mine(t) \subseteq DRQs
  BY <1>4, <1>5, MineBlocks DEF Held, Mine
<1>7. /\ c \in DRQs \cup {NONE}
      /\ c # NONE => c \in Mine(t) /\ IsDone(c)
      /\ c = NONE => \A r \in Own(t) : ~IsDone(pkt[r].exinf)
  <2>1. CASE Complete(t) = 0 /\ \A r \in Own(t) : ~IsDone(pkt[r].exinf)
    BY <1>1, <2>1
  <2>2. CASE \E r \in Own(t) : /\ Complete(t) > 0 /\ st[t].rs[Complete(t)] = r
                               /\ IsDone(pkt[r].exinf)
    <3>1. PICK r \in Own(t) : c = pkt[r].exinf /\ IsDone(c)
      BY <1>1, <2>2
    <3>2. r \in Pkts
      BY <1>4, OwnRequests
    <3>3. c \in DRQs /\ c # NONE /\ gdi.drq[c].req = r
      BY <1>4, <1>5, <3>1, <3>2, Types DEF Held, Linked
    <3> QED BY <3>1, <3>3 DEF Mine
  <2> QED BY <1>4, <1>5, <2>1, <2>2, Completes
<1>8. /\ drq \in [DRQs -> Block]
      /\ \A d \in DRQs : /\ drq[d].req = gdi.drq[d].req /\ drq[d].done = gdi.drq[d].done
                         /\ drq[d].wtid = IF d \in Mine(t) THEN NONE ELSE gdi.drq[d].wtid
  <2>1. gdi.drq \in [DRQs -> Block]
    BY <1>4, Types
  <2> QED BY <1>2, <1>6, <2>1 DEF Block
<1>9. /\ gdi' \in GDIs /\ gdi'.drq = drq /\ gdi'.freeq = gdi.freeq /\ gdi'.acpq = gdi.acpq
      /\ gdi'.preq = gdi.preq /\ gdi'.acp = gdi.acp
  <2>1. gdi \in GDIs
    BY <1>4, Types
  <2> QED BY <1>3, <1>8, <2>1 DEF GDIs
<1>10. Thinned({}) /\ Queued' = Queued
  <2>1. \A d \in Queued : d \in DRQs
    BY <1>4 DEF QueueInv, Busy
  <2>2. SameQueues
    BY <1>8, <1>9, <2>1 DEF SameQueues
  <2> QED BY <1>4, <1>8, <1>9, <2>2, ThinnedNothing DEF Queued
<1>11. /\ st' \in PCs /\ Others(t) /\ st'[t].at = "clear" /\ st'[t].rs = st[t].rs
       /\ st'[t].complete = c
  BY <1>3, <1>4, <1>7, GoesTo DEF Places, Waiting
<1>12. t \notin Drivers /\ (\A v \in Drivers : st'[v] = st[v])
         /\ \A u \in Users : u # t => st'[u] = st[u]
  BY <1>11 DEF Others, DriverAssumption
<1>13. \A u \in Users : Own(u)' = Own(u)
  BY <1>5, <1>11, <1>12 DEF Own, Is
<1>14. GdiType' /\ PcType' /\ RestType'
  BY <1>3, <1>4, <1>9, <1>11, <1>12 DEF GdiType, PcType, RestType, GdiTypes
<1>15. NobodyWaits
  BY <1>3, <1>11, <1>12 DEF NobodyWaits
<1>16. BlockInv'
  <2> SUFFICES ASSUME NEW d \in DRQs
               PROVE  /\ gdi'.drq[d].req = NONE => gdi'.drq[d].wtid = NONE /\ gdi'.drq[d].done = "NotDone"
                      /\ gdi'.drq[d].req # NONE => pkt'[gdi'.drq[d].req].used /\ pkt'[gdi'.drq[d].req].exinf = d
                      /\ \A u \in Users : gdi'.drq[d].wtid = u =>
                           st'[u].at \in Marked /\ gdi'.drq[d].req \in Own(u)'
    BY DEF BlockInv
  <2>1. CASE d \in Mine(t)
    BY <1>3, <1>4, <1>8, <1>9, <2>1 DEF BlockInv
  <2>2. CASE d \notin Mine(t)
    <3>1. \A u \in Users : gdi.drq[d].wtid = u => u # t
      BY <1>4, <2>2 DEF BlockInv, Mine
    <3> QED BY <1>3, <1>4, <1>8, <1>9, <1>12, <1>13, <2>2, <3>1 DEF BlockInv
  <2> QED BY <2>1, <2>2
<1>17. SameCalls
  BY <1>5, <1>11, <1>12 DEF SameCalls, Is
<1>18. AbortInv'
  BY <1>3, <1>4, <1>17, AbortKept DEF GdiInv
<1>19. ReplyInv'
  <2>1. SameReplies
    BY <1>8, <1>9, <1>12 DEF SameReplies
  <2>2. Busy' = Busy
    BY <1>8, <1>9 DEF Busy
  <2> QED BY <1>10, <2>1, <2>2, ReplyKept DEF GdiInv
<1>20. ASSUME NEW u \in Users, u # t PROVE Call(u)'
  <2>1. \A d \in Mine(u) : d \in DRQs /\ d \notin Mine(t)
    BY <1>4, <1>20, MineDiffer DEF Mine
  <2>2. Keep(u)
    BY <1>3, <1>8, <1>9, <1>10, <1>12, <1>20, <2>1, BlocksKeep DEF SameRest
  <2> QED BY <2>2, CallKept DEF GdiInv, CallInv
<1>21. Call(t)'
  <2>1. /\ Mine(t)' = Mine(t) /\ (Closing(t)' <=> Closing(t))
    <3>1. Mine(t)' = Mine(t)
      BY <1>8, <1>9, <1>13 DEF Mine
    <3>2. Closing(t)' <=> Closing(t)
      BY <1>3, <1>13 DEF Closing
    <3> QED BY <3>1, <3>2
  <2>2. /\ st'[t].rs # << >> /\ \A r \in Own(t) : Linked(r)'
        /\ \A r \in Own(t) : /\ pkt'[r].used /\ pkt'[r].exinf # NONE
                             /\ \/ pkt'[r].tskid = t
                                \/ /\ pkt'[r].tskid = NONE /\ Len(st'[t].rs) = 1 /\ pkt'[r].abort
                                   /\ waitmask'[t] = "none"
    <3>1. \A r \in Own(t) : pkt[r].exinf \in DRQs
      BY <1>4, <1>5, OwnRequests, Types DEF Held
    <3> QED BY <1>3, <1>5, <1>8, <1>9, <1>11, <3>1 DEF Held, Linked
  <2>3. c # NONE => IsDone(c)'
    BY <1>6, <1>7, <1>8, <1>9 DEF IsDone
  <2>4. Closing(t) => c # NONE
    <3>1. SUFFICES ASSUME Closing(t), c = NONE PROVE FALSE
      OBVIOUS
    <3>2. PICK d \in Mine(t) : IsDone(d)
      BY <1>3, <3>1 DEF GdiInv, CallInv, Call
    <3>3. gdi.drq[d].req \in Own(t) /\ gdi.drq[d].req # NONE
      BY <1>4, OwnRequests DEF Mine
    <3>4. pkt[gdi.drq[d].req].exinf = d
      BY <1>4, <1>6, <3>3 DEF BlockInv
    <3> QED BY <1>7, <3>1, <3>2, <3>3, <3>4
  <2>5. c # NONE => c \in Mine(t) /\ IsDone(st[t].complete)'
    <3>1. c # NONE => gdi'.drq[st'[t].complete].done = "Done"
      BY <1>11, <2>3 DEF IsDone
    <3> QED BY <1>7, <3>1 DEF IsDone
  <2> QED BY <1>11, <1>13, <2>1, <2>2, <2>4, <2>5
          DEF Call, Starting, Ending, Holding, Waiting, Marked
<1>22. CallInv'
  BY <1>20, <1>21 DEF CallInv
<1> QED BY <1>3, <1>10, <1>13, <1>14, <1>15, <1>16, <1>18, <1>19, <1>22, BlockStep

\* The block of the complete request is given back.
LEMMA ReleaseStep ==
  ASSUME DriverAssumption, GdiInv, NEW t \in Users, release(t)
  PROVE  GdiInv'
<1>1. PICK d : d = st[t].complete
  OBVIOUS
<1>2. PICK x : x = Rw(Kind(d))
  OBVIOUS
<1>3. PICK P : P = relDRQ_ptn(gdi, x)
  OBVIOUS
<1>4. PICK p : p = [st EXCEPT ![t].at = "leave"]
  OBVIOUS
<1>5. /\ st[t].at = "release" /\ gdi' = gdi_relDRQ(gdi, d, x) /\ set_flg(P, p)
      /\ pkt' = pkt /\ drqlock' = drqlock /\ tev' = tev /\ waitmask' = waitmask
  BY <1>1, <1>2, <1>3, <1>4 DEF release, Is
<1>6. GdiTypes /\ QueueInv /\ CountInv /\ ReqInv /\ BlockInv /\ CallInv /\ NONE \notin Users \cup Pkts
  BY DEF GdiInv, DriverAssumption
<1>7. Held(t) /\ ~Is(t, "abort")
  BY <1>5, HeldIs DEF Waiting, Is
<1>8. d \in Mine(t) /\ IsDone(d) /\ d \in DRQs
  BY <1>1, <1>5, <1>6 DEF CallInv, Call, Mine
<1>9. gdi.drq[d].req \in Own(t) /\ gdi.drq[d].req \in Pkts /\ d \in Busy /\ d \notin Queued
      /\ pkt[gdi.drq[d].req].exinf = d
  <2>1. gdi.drq[d].req \in Own(t) /\ gdi.drq[d].req \in Pkts
    BY <1>6, <1>8, OwnRequests DEF Mine
  <2>2. d \in Busy /\ d \notin Queued
    BY <1>6, <1>8, <2>1 DEF Busy, QueueInv, IsDone
  <2> QED BY <1>6, <1>8, <2>1, <2>2 DEF BlockInv
<1>10. x \in Dirs /\ gdi.preq[x] # 0
  <2>1. x \in Dirs
    BY <1>2 DEF Rw, Dirs
  <2>2. d \in {e \in Busy : Rw(Kind(e)) = x}
    BY <1>2, <1>9
  <2>3. IsFiniteSet({e \in Busy : Rw(Kind(e)) = x})
    BY BlocksFinite DEF Busy
  <2>4. Cardinality({e \in Busy : Rw(Kind(e)) = x}) # 0
    BY <2>2, <2>3, FS_EmptySet
  <2> QED BY <1>6, <2>1, <2>4 DEF CountInv
<1>11. /\ gdi' \in GDIs /\ gdi'.drq = [gdi.drq EXCEPT ![d] = FreeDRQ]
       /\ gdi'.freeq = Append(gdi.freeq, d) /\ gdi'.acpq = gdi.acpq
       /\ gdi'.preq = [gdi.preq EXCEPT ![x] = @ - 1] /\ gdi'.acp = gdi.acp
  <2>1. gdi \in GDIs
    BY <1>6, Types
  <2>2. PICK g : g = gdi_relDRQ(gdi, d, x)
    OBVIOUS
  <2>3. /\ g \in GDIs /\ g.drq = [gdi.drq EXCEPT ![d] = FreeDRQ]
        /\ g.freeq = Append(gdi.freeq, d) /\ g.acpq = gdi.acpq
        /\ g.preq = [gdi.preq EXCEPT ![x] = @ - 1] /\ g.acp = gdi.acp
    <3>1. d \in DRQs /\ x \in Dirs /\ gdi.preq[x] # 0
      BY <1>8, <1>10
    <3>2. Returned(g, gdi, d, x)
      BY <2>1, <2>2, <3>1, ReleasesTo
    <3> QED BY <3>2 DEF Returned
  <2> QED BY <1>5, <2>2, <2>3
<1>12. /\ gdi'.drq[d] = FreeDRQ /\ \A e \in DRQs : e # d => gdi'.drq[e] = gdi.drq[e]
       /\ gdi.preq \in [Dirs -> Nat] /\ gdi'.preq[x] = gdi.preq[x] - 1
       /\ \A y \in Dirs : y # x => gdi'.preq[y] = gdi.preq[y]
  BY <1>6, <1>8, <1>10, <1>11, Types
<1>13. /\ gdi'.drq[d].req = NONE /\ gdi'.drq[d].wtid = NONE /\ gdi'.drq[d].done = "NotDone"
  BY <1>12 DEF FreeDRQ
<1>14. /\ p \in PCs /\ p[t].at = "leave" /\ p[t].rs = st[t].rs /\ p[t].complete = d
       /\ \A y \in Users \cup Drivers : y # t => p[y] = st[y]
  <2>1. "leave" \in Places
    BY DEF Places
  <2> QED BY <1>1, <1>4, <1>6, <2>1 DEF GdiTypes, PcType, PCs, PC
<1>15. FlagsSet(P, p) /\ st' \in PCs
  <2>1. \A y \in Users \cup Drivers : p[y].at = "wai_flg" <=> st[y].at = "wai_flg"
    BY <1>5, <1>14
  <2> QED BY <1>5, <1>6, <1>14, <2>1, SetFlags
<1>16. /\ st'[t].at = "leave" /\ st'[t].rs = st[t].rs /\ st'[t].complete = d
       /\ \A y \in Users \cup Drivers : y # t =>
            /\ st'[y].rs = st[y].rs /\ st'[y].complete = st[y].complete
            /\ \/ st'[y].at = st[y].at
               \/ st[y].at = "wai_flg" /\ st'[y].at = "awake"
  BY <1>14, <1>15 DEF FlagsSet
<1>17. t \notin Drivers
  BY DEF DriverAssumption
<1>18. SameCalls /\ \A u \in Users : Own(u)' = Own(u)
  <2>1. SameCalls
    BY <1>5, <1>16 DEF SameCalls
  <2> QED BY <2>1, OwnKept
<1>19. GdiTypes'
  <2>1. RestType'
    <3>1. P \subseteq Dirs
      BY <1>3, <1>6, <1>10, Types DEF relDRQ_ptn
    <3> QED BY <1>5, <1>6, <1>15, <3>1 DEF GdiTypes, RestType, FlagsSet
  <2>2. PcType'
    BY <1>6, <1>15, <1>16, <1>17 DEF GdiTypes, PcType, Serving
  <2> QED BY <1>5, <1>6, <1>11, <2>1, <2>2 DEF GdiTypes, GdiType, ReqType
<1>20. /\ Busy' = Busy \ {d} /\ Queued' = Queued
       /\ \A e \in Busy' : Kind(e)' = Kind(e)
  <2>1. Busy' = Busy \ {d}
    BY <1>8, <1>12, <1>13 DEF Busy
  <2>2. Queued' = Queued
    BY <1>11 DEF Queued
  <2>3. \A e \in Busy \ {d} : Kind(e)' = Kind(e)
    BY <1>5, <1>12 DEF Kind, Busy
  <2> QED BY <2>1, <2>2, <2>3
<1>21. QueueInv'
  <2>1. Lists(gdi.freeq, Range(gdi.freeq)) /\ d \notin Range(gdi.freeq)
    BY <1>6, <1>9, Types, ListsRange DEF QueueInv
  <2>2. Lists(gdi'.freeq, Range(gdi.freeq) \cup {d})
    BY <1>11, <2>1, AppendList
  <2>3. IsInjective(gdi'.freeq) /\ Range(gdi'.freeq) = Range(gdi.freeq) \cup {d}
    BY <2>2 DEF Lists
  <2>4. \A e \in Queued : gdi'.drq[e] = gdi.drq[e]
    BY <1>6, <1>9, <1>12 DEF QueueInv, Busy
  <2> QED BY <1>6, <1>9, <1>11, <1>20, <2>3, <2>4 DEF QueueInv
<1>22. CountInv'
  <2>1. ASSUME NEW k \in Kinds
        PROVE  {e \in Queued : Kind(e) = k}' = {e \in Queued : Kind(e) = k}
    BY <1>6, <1>9, <1>20 DEF QueueInv
  <2>2. ASSUME NEW y \in Dirs
        PROVE  {e \in Busy : Rw(Kind(e)) = y}' = {e \in Busy : Rw(Kind(e)) = y} \ {d}
    BY <1>20 DEF Rw
  <2>3. ASSUME NEW y \in Dirs
        PROVE  /\ gdi'.preq[y] = Cardinality({e \in Busy : Rw(Kind(e)) = y} \ {d})
               /\ gdi'.preq[y] <= limit
    <3>0. PICK S : S = {e \in Busy : Rw(Kind(e)) = y}
      OBVIOUS
    <3>1. IsFiniteSet(S) /\ Cardinality(S) \in Nat
      BY <3>0, BlocksFinite DEF Busy
    <3>2. gdi.preq[y] = Cardinality(S) /\ gdi.preq[y] <= limit /\ limit \in Nat
      BY <1>6, <3>0 DEF CountInv, DriverAssumption
    <3>3. CASE y = x
      <4>1. d \in S
        BY <1>2, <1>9, <3>0, <3>3
      <4>2. Cardinality(S \ {d}) = Cardinality(S) - 1
        BY <3>1, <4>1, FS_RemoveElement
      <4> QED BY <1>12, <3>0, <3>1, <3>2, <3>3, <4>2
    <3>4. CASE y # x
      <4>1. S \ {d} = S
        BY <1>2, <3>0, <3>4
      <4> QED BY <1>12, <3>0, <3>2, <3>4, <4>1
    <3> QED BY <3>3, <3>4
  <2> QED BY <1>6, <1>11, <2>1, <2>2, <2>3 DEF CountInv
<1>23. \A r \in Pkts : /\ Blockless(r) => Blockless(r)'
                       /\ Linked(r) /\ pkt[r].exinf # d => Linked(r)'
  <2>1. \A r \in Pkts : Blockless(r) => Blockless(r)'
    BY <1>6, <1>12, <1>13 DEF Blockless
  <2>2. \A r \in Pkts : Linked(r) /\ pkt[r].exinf # d => Linked(r)'
    <3>1. \A r \in Pkts : pkt[r].exinf \in DRQs \cup {NONE}
      BY <1>6, Types
    <3> QED BY <1>5, <1>12, <3>1 DEF Linked
  <2> QED BY <2>1, <2>2
<1>24. ReqInv'
  <2>1. ASSUME NEW r \in Pkts, \A u \in Users : r \notin Own(u), Linked(r) PROVE Linked(r)'
    BY <1>9, <1>23, <2>1 DEF Linked
  <2> QED BY <1>5, <1>6, <1>18, <1>23, <2>1 DEF ReqInv
<1>25. BlockInv'
  <2> SUFFICES ASSUME NEW e \in DRQs
               PROVE  /\ gdi'.drq[e].req = NONE => gdi'.drq[e].wtid = NONE /\ gdi'.drq[e].done = "NotDone"
                      /\ gdi'.drq[e].req # NONE => pkt'[gdi'.drq[e].req].used /\ pkt'[gdi'.drq[e].req].exinf = e
                      /\ \A u \in Users : gdi'.drq[e].wtid = u =>
                           st'[u].at \in Marked /\ gdi'.drq[e].req \in Own(u)'
    BY DEF BlockInv
  <2>1. CASE e = d
    BY <1>6, <1>13, <2>1
  <2>2. CASE e # d
    <3>1. \A u \in Users : gdi.drq[e].wtid = u => st[u].at \in Marked /\ st'[u].at = st[u].at
      BY <1>5, <1>6, <1>16 DEF BlockInv, Marked
    <3> QED BY <1>5, <1>6, <1>12, <1>18, <2>2, <3>1 DEF BlockInv
  <2> QED BY <2>1, <2>2
<1>26. AbortInv'
  BY <1>5, <1>6, <1>18, AbortKept DEF GdiInv
<1>27. ReplyInv'
  <2>1. SameReplies
    <3>1. \A e \in DRQs : gdi'.drq[e].done = "Done" => gdi.drq[e].done = "Done"
      BY <1>12, <1>13
    <3> QED BY <1>16, <1>17, <3>1 DEF SameReplies
  <2>2. \A e \in Busy \ Queued : ~IsDone(e) => e \in Busy' \ Queued'
    BY <1>8, <1>20
  <2> QED BY <2>1, <2>2, ReplyKept DEF GdiInv
<1>28. ASSUME NEW u \in Users, u # t PROVE Call(u)'
  <2>1. d \notin Mine(u) /\ NONE \notin Own(u)
    BY <1>6, <1>8, <1>28, MineDiffer, OwnRequests
  <2>2. \A e \in DRQs : gdi.drq[e].req \in Own(u) \/ gdi'.drq[e].req \in Own(u) =>
          gdi'.drq[e] = gdi.drq[e]
    BY <1>12, <1>13, <2>1 DEF Mine
  <2>3. \A e \in Mine(u) : gdi'.drq[e] = gdi.drq[e] /\ (IsDone(e)' <=> IsDone(e))
    BY <2>2 DEF Mine, IsDone
  <2>4. Keep(u)
    BY <1>5, <1>16, <1>20, <1>28, <2>2, <2>3 DEF Keep
  <2> QED BY <1>6, <2>4, CallKept DEF CallInv
<1>29. Call(t)'
  <2>1. ASSUME NEW r \in Own(t), pkt[r].exinf = d PROVE Blockless(r)'
    <3>1. r \in Pkts /\ r # NONE
      BY <1>6, OwnRequests
    <3>2. \A e \in DRQs : gdi.drq[e].req = r => e = d
      BY <1>6, <2>1, <3>1 DEF BlockInv
    <3> QED BY <1>12, <1>13, <3>1, <3>2 DEF Blockless
  <2>2. ASSUME NEW r \in Own(t), pkt[r].exinf # d PROVE Linked(r)' /\ pkt[r].tskid = t
    <3>1. r \in Pkts /\ Linked(r)
      BY <1>6, <1>7, OwnRequests DEF Held
    <3>2. Len(st[t].rs) # 1
      BY <1>6, <1>7, <1>9, <2>2, OwnRequests
    <3> QED BY <1>7, <1>23, <2>2, <3>1, <3>2 DEF Held
  <2>3. /\ st'[t].rs # << >>
        /\ \A r \in Own(t) : /\ pkt'[r].used /\ pkt'[r].exinf # NONE
                             /\ \/ pkt'[r].tskid = t
                                \/ /\ pkt'[r].tskid = NONE /\ Len(st'[t].rs) = 1 /\ pkt'[r].abort
                                   /\ waitmask'[t] = "none"
    BY <1>5, <1>7, <1>16 DEF Held
  <2> QED BY <1>5, <1>16, <1>18, <2>1, <2>2, <2>3
          DEF Call, Starting, Ending, Holding, Waiting, Marked
<1>30. FlagInv'
  <2>1. \A u \in Users : Full(Dir(u)) /\ Dir(u) \in Dirs /\ Dir(u) \notin P => Full(Dir(u))'
    <3>1. \A u \in Users : Dir(u)' = Dir(u)
      BY <1>5, <1>16 DEF Dir
    <3>2. ASSUME NEW y \in Dirs, Full(y), y \notin P PROVE gdi'.preq[y] = limit
      <4>1. gdi.freeq # << >> /\ (y = x => gdi.preq[x] # limit)
        BY <1>3, <1>6, <3>2, Types DEF relDRQ_ptn
      <4> QED BY <1>12, <3>2, <4>1 DEF Full
    <3> QED BY <3>1, <3>2 DEF Full
  <2>2. ASSUME NEW u \in Users PROVE FlagTask(u)'
    <3>1. Dir(u)' = Dir(u) /\ Dir(u) \in Dirs
      BY <1>5, <1>16 DEF Dir, Rw, Dirs
    <3>2. Is(u, "wai_flg")' => Is(u, "wai_flg") /\ Dir(u) \notin P
      BY <1>15, <1>16 DEF FlagsSet, Is
    <3>3. Is(u, "empty")' => Is(u, "empty") /\ (Dir(u) \in flgptn \cup P => Dir(u) \in flgptn')
      BY <1>15, <1>16 DEF FlagsSet, Is
    <3> QED BY <2>1, <3>1, <3>2, <3>3 DEF GdiInv, FlagInv, FlagTask
  <2>3. ASSUME NEW v \in Drivers PROVE FlagDriver(v)'
    <3>1. Queued' \subseteq Queued /\ \A e \in Queued' : Kind(e)' = Kind(e)
      BY <1>6, <1>9, <1>20 DEF QueueInv
    <3>2. st'[v].at \in {"empty", "wai_flg"} => st'[v].at = st[v].at
      BY <1>16, <1>17
    <3>3. st[v].at = "empty" => Accepts[v] \cap flgptn \subseteq flgptn'
      BY <1>15 DEF FlagsSet
    <3> QED BY <3>1, <3>2, <3>3, FlagDriverKept DEF GdiInv, FlagInv
  <2> QED BY <2>2, <2>3 DEF FlagInv
<1> QED BY <1>19, <1>21, <1>22, <1>24, <1>25, <1>26, <1>27, <1>28, <1>29, <1>30 DEF GdiInv, CallInv
---------------------------------------------------------------------------
(* The replies of the driver. *)

\* Reply to an accepted block that is not complete; p is st but for a driver
\* task that has done with the block.
LEMMA ReplyStep ==
  ASSUME DriverAssumption, GdiInv, NEW d \in Busy, d \notin Queued, NEW p \in PCs, Reply(d, p),
         \A t \in Users : p[t] = st[t],
         \A v \in Drivers : /\ p[v].rs = st[v].rs /\ p[v].at \in Serving
                            /\ p[v].at \in {"empty", "wai_flg"} => p[v].at = st[v].at
                            /\ p[v].at = "reply" => /\ st[v].at = "reply" /\ p[v].complete = st[v].complete
                                                    /\ p[v].complete # d
  PROVE  GdiInv'
<1>1. PICK T : T = {gdi.drq[d].wtid} \ {NONE}
  OBVIOUS
<1>2. /\ gdi' = [gdi EXCEPT !.drq[d].done = "Done"] /\ signal(T, {}, p)
      /\ pkt' = pkt /\ flgptn' = flgptn /\ drqlock' = drqlock /\ waitmask' = waitmask
  BY <1>1 DEF Reply
<1>3. GdiTypes /\ QueueInv /\ CountInv /\ ReqInv /\ BlockInv /\ CallInv
        /\ NONE \notin Users \cup Pkts /\ Users \cap Drivers = {}
  BY DEF GdiInv, DriverAssumption
<1>4. d \in DRQs /\ gdi.drq[d].req \in Pkts
  BY <1>3, Types DEF Busy
<1>5. T \subseteq Users /\ {} \subseteq Users /\ \A u \in Users : u \in T <=> gdi.drq[d].wtid = u
  BY <1>1, <1>3, <1>4, Types
<1>6. Signalled(T, {}, p) /\ st' \in PCs
  BY <1>2, <1>5, Signals
<1>7. /\ gdi' \in GDIs /\ gdi'.freeq = gdi.freeq /\ gdi'.acpq = gdi.acpq
      /\ gdi'.preq = gdi.preq /\ gdi'.acp = gdi.acp
      /\ \A e \in DRQs : e # d => gdi'.drq[e] = gdi.drq[e]
      /\ gdi'.drq[d].req = gdi.drq[d].req /\ gdi'.drq[d].wtid = gdi.drq[d].wtid
      /\ gdi'.drq[d].done = "Done"
  <2>1. PICK b : b = [gdi.drq[d] EXCEPT !.done = "Done"]
    OBVIOUS
  <2>2. b \in Block /\ b.req = gdi.drq[d].req /\ b.wtid = gdi.drq[d].wtid /\ b.done = "Done"
    BY <1>3, <1>4, <2>1, Types DEF Block, Done
  <2>3. PICK q : q = [gdi.drq EXCEPT ![d] = b]
    OBVIOUS
  <2>4. q \in [DRQs -> Block] /\ q[d] = b /\ \A e \in DRQs : e # d => q[e] = gdi.drq[e]
    BY <1>3, <1>4, <2>2, <2>3, Types
  <2>5. gdi' = [gdi EXCEPT !.drq = q] /\ gdi \in GDIs
    BY <1>2, <1>3, <2>1, <2>3, Types
  <2>6. /\ gdi' \in GDIs /\ gdi'.freeq = gdi.freeq /\ gdi'.acpq = gdi.acpq
        /\ gdi'.preq = gdi.preq /\ gdi'.acp = gdi.acp /\ gdi'.drq = q
    BY <2>4, <2>5 DEF GDIs
  <2> QED BY <2>2, <2>4, <2>6
<1>8. /\ \A e \in DRQs : gdi'.drq[e].req = gdi.drq[e].req /\ gdi'.drq[e].wtid = gdi.drq[e].wtid
      /\ \A e \in DRQs : gdi.drq[e].done = "Done" => gdi'.drq[e].done = "Done"
  BY <1>7
<1>9. Thinned({}) /\ Queued' = Queued
  <2>1. \A e \in Queued : e \in DRQs /\ e # d
    BY <1>3 DEF QueueInv, Busy
  <2>2. SameQueues
    BY <1>7, <2>1 DEF SameQueues
  <2> QED BY <1>3, <1>7, <1>8, <2>2, ThinnedNothing DEF Queued
<1>10. /\ \A u \in Users : /\ st'[u].rs = st[u].rs /\ st'[u].complete = st[u].complete
                           /\ IF u \in T /\ st[u].at = "wai_tev" THEN st'[u].at = "collect"
                              ELSE st'[u].at = st[u].at
       /\ \A v \in Drivers : st'[v].rs = st[v].rs /\ st'[v].complete = p[v].complete /\ st'[v].at = p[v].at
  <2>1. \A v \in Drivers : st[v].at # "wai_tev"
    BY <1>3 DEF GdiTypes, PcType, Serving
  <2> QED BY <1>6, <2>1 DEF Signalled
<1>11. SameCalls /\ \A u \in Users : Own(u)' = Own(u)
  <2>1. SameCalls
    BY <1>10 DEF SameCalls
  <2> QED BY <2>1, OwnKept
<1>12. GdiType' /\ PcType' /\ RestType'
  BY <1>2, <1>3, <1>5, <1>6, <1>7, <1>10
     DEF GdiType, PcType, RestType, GdiTypes, Serving, Signalled
<1>13. NobodyWaits
  BY <1>2, <1>3, <1>10 DEF NobodyWaits
<1>14. BlockInv'
  <2>1. SameLinks
    BY <1>2, <1>8 DEF SameLinks
  <2>2. SameMarks
    <3>1. \A e \in DRQs, u \in Users : gdi.drq[e].wtid = u => st'[u].at \in Marked
      BY <1>3, <1>10 DEF BlockInv, Marked
    <3> QED BY <1>3, <1>4, <1>7, <1>8, <3>1 DEF SameMarks
  <2> QED BY <1>3, <1>11, <2>1, <2>2, BlockKept
<1>15. AbortInv'
  BY <1>2, <1>3, <1>11, AbortKept DEF GdiInv
<1>16. ReplyInv'
  <2>1. \A v \in Drivers : Is(v, "reply")' => st'[v].complete # d
    BY <1>10 DEF Is
  <2>2. SameReplies
    BY <1>7, <1>10, <2>1 DEF SameReplies
  <2>3. Busy' = Busy
    BY <1>8 DEF Busy
  <2> QED BY <1>9, <2>2, <2>3, ReplyKept DEF GdiInv
<1>17. ASSUME NEW u \in Users PROVE Call(u)'
  <2>1. d \in Mine(u) /\ st[u].at \in Marked => u \in T
    BY <1>3, <1>5, <1>17 DEF CallInv, Call
  <2>2. u \in T => d \in Mine(u) /\ st[u].at \in Marked
    BY <1>3, <1>4, <1>5, <1>17 DEF BlockInv, Mine
  <2>3. IsDone(d)' /\ \A e \in Mine(u) : e \in DRQs /\ (e # d => (IsDone(e)' <=> IsDone(e)))
    BY <1>7 DEF IsDone, Mine
  <2>4. /\ st'[u].rs = st[u].rs /\ st'[u].complete = st[u].complete
        /\ \/ st'[u].at = st[u].at
           \/ st[u].at = "wai_tev" /\ st'[u].at = "collect" /\ \E e \in Mine(u) : IsDone(e)'
    BY <1>10, <2>2, <2>3
  <2>5. st[u].at = "tev" /\ (\E e \in Mine(u) : ~IsDone(e) /\ IsDone(e)') => u \in tev'
    BY <1>6, <2>1, <2>3 DEF Signalled, Marked
  <2>6. st'[u].at = "wai_tev" => \A e \in Mine(u) : IsDone(e)' => IsDone(e)
    BY <1>10, <2>1, <2>3 DEF Marked
  <2>7. /\ u \in tev => u \in tev'
        /\ u \in tev' /\ u \notin tev => \E e \in Mine(u) : IsDone(e)'
    BY <1>6, <2>2, <2>3 DEF Signalled
  <2>8. \A e \in DRQs : gdi.drq[e].req \in Own(u) \/ gdi'.drq[e].req \in Own(u) =>
          /\ gdi'.drq[e].req = gdi.drq[e].req
          /\ gdi'.drq[e].wtid = gdi.drq[e].wtid
          /\ gdi.drq[e].done = "Done" => gdi'.drq[e].done = "Done"
    BY <1>8
  <2>9. Keep(u)
    BY <1>2, <1>9, <2>4, <2>5, <2>6, <2>7, <2>8 DEF Keep
  <2> QED BY <1>3, <2>9, CallKept DEF CallInv
<1> QED BY <1>2, <1>9, <1>11, <1>12, <1>13, <1>14, <1>15, <1>16, <1>17, BlockStep DEF CallInv

\* GDI_Reply to an accepted request.
LEMMA GdiReplyStep ==
  ASSUME DriverAssumption, GdiInv, NEW d \in DRQs, GDI_Reply(d)
  PROVE  GdiInv'
<1>1. /\ gdi.drq[d].req # NONE /\ ~Contains(gdi.acpq, d) /\ Reply(d, st)
      /\ \A v \in Drivers : ~(st[v].at = "reply" /\ st[v].complete = d)
  BY DEF GDI_Reply, Is
<1>2. d \in Busy /\ d \notin Queued
  <2>1. gdi.acpq \in Seq(DRQs)
    BY Types DEF GdiInv
  <2> QED BY <1>1, <2>1 DEF Busy, Contains, Queued, Range
<1>3. st \in PCs /\ \A v \in Drivers : st[v].at \in Serving
  BY DEF GdiInv, GdiTypes, PcType
<1> QED BY <1>1, <1>2, <1>3, ReplyStep

\* GDI_Accept replies to a request that was aborted.
LEMMA ReplyAbortedStep ==
  ASSUME DriverAssumption, GdiInv, NEW v \in Drivers, Reply_aborted(v)
  PROVE  GdiInv'
<1>1. PICK d : d = st[v].complete
  OBVIOUS
<1>2. PICK p : p = [st EXCEPT ![v].at = "awake", ![v].complete = NONE]
  OBVIOUS
<1>3. st[v].at = "reply" /\ Reply(d, p)
  BY <1>1, <1>2 DEF Reply_aborted, Is
<1>4. GdiTypes
  BY DEF GdiInv
<1>5. d \in Busy /\ d \notin Queued /\ \A w \in Drivers : st[w].at = "reply" /\ st[w].complete = d => w = v
  BY <1>1, <1>3 DEF GdiInv, ReplyInv, Is
<1>6. /\ p \in PCs /\ p[v].at = "awake" /\ p[v].rs = st[v].rs
      /\ \A x \in Users \cup Drivers : x # v => p[x] = st[x]
  <2>1. PICK m : m = [st EXCEPT ![v].at = "awake"]
    OBVIOUS
  <2>2. "awake" \in Places
    BY DEF Places, Starting
  <2>3. /\ m \in PCs /\ \A y \in Users \cup Drivers : y # v => m[y] = st[y]
        /\ m[v].at = "awake" /\ m[v].rs = st[v].rs
    BY <1>4, <2>1, <2>2 DEF GdiTypes, PcType, PCs, PC
  <2>4. p = [m EXCEPT ![v].complete = NONE]
    BY <1>2, <2>1
  <2> QED BY <2>3, <2>4 DEF PCs, PC
<1>7. v \notin Users /\ "awake" \in Serving /\ \A w \in Drivers : st[w].at \in Serving
  BY <1>4 DEF DriverAssumption, Serving, GdiTypes, PcType
<1>8. \A t \in Users : p[t] = st[t]
  BY <1>6, <1>7
<1>9. \A w \in Drivers : /\ p[w].rs = st[w].rs /\ p[w].at \in Serving
                         /\ p[w].at \in {"empty", "wai_flg"} => p[w].at = st[w].at
                         /\ p[w].at = "reply" => /\ st[w].at = "reply" /\ p[w].complete = st[w].complete
                                                 /\ p[w].complete # d
  BY <1>5, <1>6, <1>7
<1> QED BY <1>3, <1>5, <1>6, <1>8, <1>9, ReplyStep
---------------------------------------------------------------------------
(* GDI_Accept *)

\* The place in the accept queue of the first request a driver task accepts.
First(v) == SelectInSeq(gdi.acpq, LAMBDA d : Kind(d) \in Accepts[v])

\* There is none, or the block there is queued and of such a kind.
LEMMA Accepted ==
  ASSUME GdiTypes, NEW v \in Drivers,
         NEW i, i = First(v)
  PROVE  \/ i = 0 /\ \A d \in Queued : Kind(d) \notin Accepts[v]
         \/ i > 0 /\ gdi.acpq[i] \in Queued /\ Kind(gdi.acpq[i]) \in Accepts[v]
<1> DEFINE I == {j \in 1 .. Len(gdi.acpq) : Kind(gdi.acpq[j]) \in Accepts[v]}
<1>1. i = IF I # {} THEN Min(I) ELSE 0
  BY DEF First, SelectInSeq
<1>2. gdi.acpq \in Seq(DRQs)
  BY Types
<1>3. /\ \A d \in Queued : \E j \in 1 .. Len(gdi.acpq) : gdi.acpq[j] = d
      /\ \A j \in 1 .. Len(gdi.acpq) : gdi.acpq[j] \in Queued
  BY <1>2 DEF Queued, Range
<1>4. CASE I = {}
  BY <1>1, <1>3, <1>4
<1>5. CASE I # {}
  <2>1. I \in SUBSET Nat /\ I \subseteq 1 .. Len(gdi.acpq)
    BY <1>2
  <2>2. \A j \in I : Kind(gdi.acpq[j]) \in Accepts[v]
    OBVIOUS
  <2> HIDE DEF I
  <2>3. i \in I /\ i \in 1 .. Len(gdi.acpq)
    BY <1>1, <1>5, <2>1, MinOfNats
  <2> QED BY <1>3, <2>2, <2>3
<1> QED BY <1>4, <1>5

\* Nothing to accept: the driver task takes its command or goes to wait.
LEMMA NothingStep ==
  ASSUME DriverAssumption, GdiInv, NEW v \in Drivers, GDI_Accept(v),
         ~(First(v) > 0)
  PROVE  GdiInv'
<1>1. PICK i : i = First(v)
  OBVIOUS
<1>2. GdiTypes
  BY DEF GdiInv
<1>3. ~(i > 0) /\ \A d \in Queued : Kind(d) \notin Accepts[v]
  <2>1. ~(i > 0)
    BY <1>1
  <2> QED BY <1>1, <1>2, <2>1, Accepted
<1>4. /\ gdi' = gdi /\ pkt' = pkt /\ flgptn' = flgptn
      /\ drqlock' = drqlock /\ tev' = tev /\ waitmask' = waitmask
      /\ \/ st' = [st EXCEPT ![v] = User]
         \/ st' = [st EXCEPT ![v] = [User EXCEPT !.at = "empty"]]
  BY <1>1, <1>3 DEF First, GDI_Accept
<1>5. st' \in PCs /\ Others(v) /\ st'[v].at \in {"user", "empty"}
  <2>1. PICK p : p = [User EXCEPT !.at = "empty"]
    OBVIOUS
  <2>2. User \in PC /\ p \in PC /\ User.at = "user" /\ p.at = "empty"
    <3>1. "empty" \in Places /\ User \in PC /\ User.at = "user"
      BY DEF User, PC, Places, Starting
    <3> QED BY <2>1, <3>1 DEF PC
  <2> QED BY <1>2, <1>4, <2>1, <2>2 DEF GdiTypes, PcType, PCs, Others
<1>6. RestType' /\ BitsKept(v)
  BY <1>2, <1>4 DEF GdiTypes, RestType, BitsKept
<1>7. FlagDriver(v)'
  <2>1. \A d \in Queued' : Kind(d)' \notin Accepts[v]
    BY <1>3, <1>4 DEF Queued, Kind
  <2> QED BY <1>5, <2>1 DEF FlagDriver, Is
<1>8. st'[v].at \in Serving \ {"reply"}
  BY <1>5 DEF Serving
<1> QED BY <1>4, <1>5, <1>6, <1>7, <1>8, QuietDriver

\* One block leaves the accept queue.
LEMMA TakesOne ==
  ASSUME DriverAssumption, GdiTypes, QueueInv, CountInv, NEW d \in Queued, NEW k \in Kinds, Kind(d) = k,
         gdi' = [gdi EXCEPT !.acpq = QueRemove(@, d), !.acp[k] = @ - 1]
  PROVE  Thinned({d}) /\ GdiType' /\ gdi'.drq = gdi.drq
<1>1. gdi \in GDIs /\ gdi.acp \in [Kinds -> Nat]
  BY Types
<1>2. Lists(gdi.acpq, Queued) /\ Queued \subseteq DRQs
  BY <1>1, ListsRange DEF GDIs, QueueInv, Queued
<1>3. PICK q : q = QueRemove(gdi.acpq, d)
  OBVIOUS
<1>4. Lists(q, Queued \ {d})
  BY <1>2, <1>3, RemoveList
<1>5. q \in Seq(DRQs) /\ IsInjective(q) /\ Range(q) = Queued \ {d}
  <2>1. Queued \ {d} \in SUBSET DRQs
    BY <1>2
  <2>2. q \in Seq(DRQs)
    BY <1>4, <2>1, ListsSeq
  <2> QED BY <1>4, <2>2 DEF Lists
<1>6. PICK acp : acp = [gdi.acp EXCEPT ![k] = @ - 1]
  OBVIOUS
<1>7. ASSUME NEW j \in Kinds
      PROVE  acp[j] = Cardinality({e \in Queued \ {d} : Kind(e) = j}) /\ acp[j] \in Nat
  <2>1. PICK S : S = {e \in Queued : Kind(e) = j}
    OBVIOUS
  <2>2. IsFiniteSet(S) /\ Cardinality(S) \in Nat
    BY <1>2, <2>1, BlocksFinite
  <2>3. gdi.acp[j] = Cardinality(S)
    BY <2>1 DEF CountInv
  <2>4. {e \in Queued \ {d} : Kind(e) = j} = S \ {d}
    BY <2>1
  <2>5. IsFiniteSet(S \ {d}) /\ Cardinality(S \ {d}) \in Nat
    BY <2>2, FS_RemoveElement, FS_CardinalityType
  <2>6. CASE j = k
    <3>1. Cardinality(S \ {d}) = Cardinality(S) - 1
      BY <2>1, <2>2, <2>6, FS_RemoveElement
    <3> QED BY <1>1, <1>6, <2>3, <2>4, <2>5, <2>6, <3>1
  <2>7. CASE j # k
    <3>1. S \ {d} = S
      BY <2>1, <2>7
    <3> QED BY <1>1, <1>6, <2>3, <2>4, <2>5, <2>7, <3>1
  <2> QED BY <2>6, <2>7
<1>8. acp \in [Kinds -> Nat]
  BY <1>1, <1>6, <1>7
<1>9. /\ gdi' \in GDIs /\ gdi'.drq = gdi.drq /\ gdi'.freeq = gdi.freeq /\ gdi'.acpq = q
      /\ gdi'.preq = gdi.preq /\ gdi'.acp = acp
  <2>1. gdi' = [gdi EXCEPT !.acpq = q, !.acp = acp]
    BY <1>1, <1>3, <1>6 DEF GDIs
  <2> QED BY <1>1, <1>5, <1>8, <2>1 DEF GDIs
<1> QED BY <1>5, <1>7, <1>9 DEF Thinned, Queued, GdiType

\* GDI_Accept takes a request of the first queued block it accepts.
LEMMA AcceptStep ==
  ASSUME DriverAssumption, GdiInv, NEW v \in Drivers, GDI_Accept(v),
         First(v) > 0
  PROVE  GdiInv'
<1>1. PICK i : i = First(v)
  OBVIOUS
<1>2. PICK b : b = gdi.acpq[i]
  OBVIOUS
<1>3. PICK k : k = Kind(b)
  OBVIOUS
<1>4. GdiTypes /\ QueueInv /\ CountInv /\ ReqInv /\ BlockInv /\ CallInv
        /\ Users \cap Drivers = {}
  BY DEF GdiInv, DriverAssumption
<1>5. i > 0 /\ b \in Queued /\ k \in Accepts[v]
  <2>1. i > 0
    BY <1>1
  <2>2. gdi.acpq[i] \in Queued /\ Kind(gdi.acpq[i]) \in Accepts[v]
    BY <1>1, <1>4, <2>1, Accepted
  <2> QED BY <1>2, <1>3, <2>1, <2>2
<1>6. /\ st[v].at \in {"user", "awake"}
      /\ gdi' = [gdi EXCEPT !.acpq = QueRemove(@, b), !.acp[k] = @ - 1]
      /\ pkt' = pkt /\ drqlock' = drqlock /\ tev' = tev /\ waitmask' = waitmask
      /\ \/ GoWith(v, "reply", b) /\ flgptn' = flgptn
         \/ flgptn' = flgptn \cup (st[v].aptn \ (Cmds \cup {k})) /\ st' = [st EXCEPT ![v] = User]
  BY <1>1, <1>2, <1>3, <1>5 DEF First, GDI_Accept, GoWith
<1>7. b \in DRQs /\ b \in Busy /\ gdi.drq[b].done = "NotDone" /\ k \in Kinds
  BY <1>4, <1>5, WaitPattern DEF QueueInv, Busy
<1>8. Thinned({b}) /\ GdiType' /\ gdi'.drq = gdi.drq
  BY <1>3, <1>4, <1>5, <1>6, <1>7, TakesOne
<1>9. Queued' = Queued \ {b} /\ Busy' = Busy
  BY <1>8 DEF Thinned, Busy
<1>10. /\ st' \in PCs /\ Others(v) /\ st'[v].at \in {"reply", "user"}
       /\ st'[v].at = "reply" => st'[v].complete = b
  <2>1. CASE GoWith(v, "reply", b)
    BY <1>4, <1>7, <2>1, GoesTo DEF Places
  <2>2. CASE st' = [st EXCEPT ![v] = User]
    <3>1. User \in PC /\ User.at = "user"
      BY DEF User, PC, Places
    <3> QED BY <1>4, <2>2, <3>1 DEF GdiTypes, PcType, PCs, Others
  <2> QED BY <1>6, <2>1, <2>2
<1>11. flgptn \subseteq flgptn' /\ flgptn' \subseteq Kinds \cup Dirs \cup Cmds
  <2>1. st[v].aptn \subseteq Kinds \cup Cmds /\ flgptn \subseteq Kinds \cup Dirs \cup Cmds
    BY <1>4 DEF GdiTypes, PcType, PCs, PC, RestType
  <2> QED BY <1>6, <2>1
<1>12. v \notin Users /\ (\A u \in Users : st'[u] = st[u])
         /\ \A w \in Drivers : w # v => st'[w] = st[w]
  BY <1>4, <1>10 DEF Others
<1>13. PcType' /\ RestType'
  BY <1>4, <1>6, <1>10, <1>11, <1>12 DEF GdiTypes, PcType, RestType, Serving
<1>14. SameCalls /\ \A u \in Users : Own(u)' = Own(u)
  <2>1. SameCalls
    BY <1>12 DEF SameCalls
  <2> QED BY <2>1, OwnKept
<1>15. NobodyWaits
  BY <1>10, <1>11, <1>12 DEF NobodyWaits
<1>16. BlockInv'
  <2>1. SameLinks /\ SameMarks
    BY <1>4, <1>6, <1>8, <1>12 DEF SameLinks, SameMarks, BlockInv
  <2> QED BY <1>4, <1>14, <2>1, BlockKept
<1>17. AbortInv'
  BY <1>4, <1>6, <1>14, AbortKept DEF GdiInv
<1>18. ReplyInv'
  <2> SUFFICES ASSUME NEW w \in Drivers, Is(w, "reply")'
               PROVE  /\ st'[w].complete \in Busy' \ Queued' /\ ~(IsDone(st[w].complete))'
                      /\ \A x \in Drivers : Is(x, "reply")' /\ st'[x].complete = st'[w].complete => x = w
    BY DEF ReplyInv
  <2>1. ASSUME NEW x \in Drivers, Is(x, "reply")'
        PROVE  /\ x = v => st'[x].complete = b
               /\ x # v => /\ st'[x].complete \in Busy \ Queued /\ ~IsDone(st'[x].complete)
                           /\ Is(x, "reply") /\ st'[x].complete = st[x].complete
    BY <1>10, <1>12, <2>1 DEF GdiInv, ReplyInv, Is, IsDone
  <2>2. st'[w].complete \in Busy \ Queued' /\ gdi.drq[st'[w].complete].done # "Done"
    BY <1>5, <1>7, <1>9, <2>1 DEF IsDone
  <2>3. ~(IsDone(st[w].complete))'
    BY <1>8, <2>2 DEF IsDone
  <2>4. ASSUME NEW x \in Drivers, Is(x, "reply")', st'[x].complete = st'[w].complete PROVE x = w
    BY <1>5, <2>1, <2>4 DEF GdiInv, ReplyInv
  <2> QED BY <1>9, <2>2, <2>3, <2>4
<1>19. ASSUME NEW u \in Users PROVE Call(u)'
  <2>1. Keep(u)
    BY <1>6, <1>8, <1>9, <1>12, BlocksKeep DEF SameRest
  <2> QED BY <1>4, <2>1, CallKept DEF CallInv
<1> QED BY <1>6, <1>8, <1>13, <1>14, <1>15, <1>16, <1>17, <1>18, <1>19, BlockStep DEF CallInv
---------------------------------------------------------------------------
(* GRedefDevice and gdi_abortfn *)

\* A call that ends waits for its one request, and no event is due that is
\* not for it.
LEMMA ClosingEnds ==
  ASSUME DriverAssumption, GdiInv, NEW u \in Users, st[u].at \in Marked, Closing(u)
  PROVE  Mine(u) \cap Queued = {}
<1>1. Call(u) /\ GdiTypes /\ BlockInv /\ QueueInv /\ NONE \notin Users \cup Pkts
  BY DEF GdiInv, CallInv, DriverAssumption
<1>2. CASE st[u].at = "collect"
  <2>1. Held(u) /\ ~Is(u, "abort")
    BY HeldIs DEF Waiting, Is
  <2>2. PICK r \in Own(u) : pkt[r].tskid = NONE
    BY DEF Closing
  <2>3. Own(u) = {r}
    BY <1>1, <2>1, <2>2, OwnRequests DEF Held
  <2>4. PICK e \in Mine(u) : IsDone(e)
    BY <1>1, <1>2 DEF Call
  <2>5. \A d \in Mine(u) : gdi.drq[d].req = r /\ pkt[r].exinf = d
    BY <1>1, <2>2, <2>3, OwnRequests DEF Mine, BlockInv
  <2>6. \A d \in Mine(u) : d = e
    BY <2>4, <2>5
  <2> QED BY <1>1, <2>4, <2>6 DEF QueueInv, IsDone
<1>3. CASE st[u].at \in {"tev", "wai_tev"}
  BY <1>1, <1>3 DEF Call
<1> QED BY <1>2, <1>3 DEF Marked

\* What u sees of blocks S that end, for calls that do not close: whoever waits
\* for one goes on, or may not begin to wait.  An abort function returns.
Ends(S, u) ==
  /\ \/ waitmask'[u] = waitmask[u]
     \/ ~Closing(u) /\ st[u].at \notin {"user", "abort"}
          /\ (st[u].at = "tev" => waitmask'[u] = "TEV")
  /\ \/ st[u].at = "abort" /\ st'[u].at = "user" /\ st'[u].rs = << >>
     \/ /\ st'[u].rs = st[u].rs /\ st'[u].complete = st[u].complete
        /\ \/ st'[u].at = st[u].at
           \/ st[u].at = "wai_flg" /\ st'[u].at = "tmout"
           \/ st[u].at = "wai_tev" /\ st'[u].at = "collect" /\ ~Closing(u)
  /\ \A d \in S : gdi.drq[d].wtid = u =>
       /\ st[u].at = "tev" => waitmask'[u] = "TEV"
       /\ st'[u].at # "wai_tev"

\* Queued requests are ended, and those who wait for them told.
LEMMA EndStep ==
  ASSUME DriverAssumption, GdiInv, pkt' = pkt, flgptn' = flgptn, drqlock' = drqlock, tev' = tev,
         NEW S \in SUBSET Queued, Thinned(S), GdiType', RestType', st' \in PCs,
         \A d \in DRQs : /\ gdi'.drq[d].wtid = gdi.drq[d].wtid
                         /\ gdi'.drq[d].done = "Done" <=> d \in S \/ gdi.drq[d].done = "Done"
                         /\ gdi'.drq[d].done # gdi.drq[d].done => gdi.drq[d].req # NONE,
         \A v \in Drivers : /\ st'[v].rs = st[v].rs /\ st'[v].complete = st[v].complete
                            /\ st'[v].at = st[v].at,
         \A u \in Users : Ends(S, u)
  PROVE  GdiInv'
<1>1. GdiTypes /\ QueueInv /\ CountInv /\ ReqInv /\ BlockInv /\ CallInv /\ AbortInv
        /\ NONE \notin Users \cup Pkts /\ Users \cap Drivers = {}
  BY DEF GdiInv, DriverAssumption
<1>2. \A u \in Users :
        /\ st[u].at # "abort" =>
             /\ st'[u].rs = st[u].rs /\ st'[u].complete = st[u].complete
             /\ \/ st'[u].at = st[u].at
                \/ st[u].at = "wai_flg" /\ st'[u].at = "tmout"
                \/ st[u].at = "wai_tev" /\ st'[u].at = "collect" /\ ~Closing(u)
        /\ st[u].at = "abort" => \/ st'[u].at = "abort" /\ st'[u].rs = st[u].rs
                                 \/ st'[u].at = "user" /\ st'[u].rs = << >>
  BY DEF Ends
<1>3. \A u \in Users : Own(u)' = Own(u)
  <2>1. ASSUME NEW u \in Users, st[u].at = "abort" PROVE Own(u)' = Own(u)
    BY <1>2, <2>1 DEF Own, Is, Range
  <2>2. ASSUME NEW u \in Users, st[u].at # "abort" PROVE Own(u)' = Own(u)
    BY <1>2, <2>2 DEF Own, Is
  <2> QED BY <2>1, <2>2
<1>4. PcType'
  <2>1. \A u \in Users : st'[u].at # "reply"
    BY <1>1 DEF Ends, GdiTypes, PcType
  <2> QED BY <1>1, <2>1 DEF GdiTypes, PcType
<1>5. NobodyWaits
  <2>1. \A x \in Users \cup Drivers :
          st'[x].at \in {"empty", "wai_flg"} => st'[x].at = st[x].at /\ st'[x].rs = st[x].rs
    BY DEF Ends
  <2> QED BY <2>1 DEF NobodyWaits
<1>6. \A d \in DRQs : gdi'.drq[d].req = gdi.drq[d].req
  BY DEF Thinned
<1>7. BlockInv'
  <2>1. SameLinks
    BY <1>6 DEF SameLinks
  <2>2. SameMarks
    <3>1. \A e \in DRQs, u \in Users : gdi.drq[e].wtid = u => st'[u].at \in Marked
      BY <1>1, <1>2 DEF BlockInv, Marked
    <3>2. \A e \in S : gdi.drq[e].req # NONE
      BY <1>1 DEF QueueInv, Busy
    <3> QED BY <3>1, <3>2 DEF SameMarks
  <2> QED BY <1>1, <1>3, <2>1, <2>2, BlockKept
<1>8. AbortInv'
  <2> SUFFICES ASSUME NEW a \in Users, Is(a, "abort")'
               PROVE  /\ st'[a].rs # << >>
                      /\ \E t \in Users : ~Is(t, "abort")' /\ st'[t].rs = st'[a].rs
                                            /\ \A r \in Range(st'[t].rs) : pkt'[r].tskid = t
    BY DEF AbortInv
  <2>1. Is(a, "abort") /\ st'[a].rs = st[a].rs
    BY <1>2 DEF Is
  <2>2. PICK t \in Users : ~Is(t, "abort") /\ st[t].rs = st[a].rs
                             /\ \A r \in Range(st[t].rs) : pkt[r].tskid = t
    BY <1>1, <2>1 DEF AbortInv
  <2>3. ~Is(t, "abort")' /\ st'[t].rs = st[t].rs
    BY <1>2, <2>2 DEF Is
  <2>4. st[a].rs # << >>
    BY <1>1, <2>1 DEF AbortInv
  <2> QED BY <2>1, <2>2, <2>3, <2>4
<1>9. ReplyInv'
  <2>1. SameReplies
    <3>1. \A e \in DRQs : gdi'.drq[e].done = "Done" /\ gdi.drq[e].done # "Done" => e \in Queued
      OBVIOUS
    <3>2. \A v \in Drivers : st'[v].at = "reply" =>
            st[v].at = "reply" /\ st'[v].complete = st[v].complete /\ st[v].complete \notin Queued
      BY DEF GdiInv, ReplyInv, Is
    <3> QED BY <3>1, <3>2 DEF SameReplies, Is
  <2>2. Busy' = Busy /\ Queued' \subseteq Queued
    BY <1>6 DEF Busy, Thinned
  <2> QED BY <2>1, <2>2, ReplyKept DEF GdiInv
<1>10. ASSUME NEW u \in Users PROVE Call(u)'
  <2>1. CASE st'[u].at = "user" /\ st[u].at = "abort"
    <3>1. st'[u].rs = << >> /\ waitmask'[u] = "none"
      BY <1>1, <2>1 DEF Ends, CallInv, Call
    <3> QED BY <2>1, <3>1 DEF Call, Starting, Ending, Holding, Waiting, Marked
  <2>2. CASE ~(st'[u].at = "user" /\ st[u].at = "abort")
    <3>1. /\ st'[u].rs = st[u].rs /\ st'[u].complete = st[u].complete
          /\ \/ st'[u].at = st[u].at
             \/ st[u].at = "wai_flg" /\ st'[u].at = "tmout"
             \/ st[u].at = "wai_tev" /\ st'[u].at = "collect" /\ ~Closing(u)
      BY <2>2 DEF Ends
    <3>2. \A e \in Mine(u) : e \in DRQs /\ (e \notin S => (IsDone(e)' => IsDone(e)))
      BY DEF IsDone, Mine
    <3>3. \A e \in Mine(u) : st[u].at \in Marked => gdi.drq[e].wtid = u
      BY <1>1 DEF CallInv, Call
    <3>4. st[u].at = "tev" /\ (\E e \in Mine(u) : ~IsDone(e) /\ IsDone(e)') => waitmask'[u] = "TEV"
      BY <3>2, <3>3 DEF Marked, Ends
    <3>5. st'[u].at = "wai_tev" => \A e \in Mine(u) : IsDone(e)' => IsDone(e)
      BY <3>1, <3>2, <3>3 DEF Marked, Ends
    <3>6. \/ waitmask'[u] = waitmask[u]
          \/ ~Closing(u) /\ st[u].at \notin {"user", "abort"} /\ (st[u].at = "tev" => waitmask'[u] = "TEV")
      BY DEF Ends
    <3>7. \A e \in DRQs : gdi.drq[e].req \in Own(u) \/ gdi'.drq[e].req \in Own(u) =>
            /\ gdi'.drq[e].req = gdi.drq[e].req
            /\ gdi'.drq[e].wtid = gdi.drq[e].wtid
            /\ gdi.drq[e].done = "Done" => gdi'.drq[e].done = "Done"
      BY <1>6
    <3>8. Mine(u) \cap Queued' \subseteq Queued
      BY DEF Thinned
    <3>9. Keep(u)
      BY <3>1, <3>4, <3>5, <3>6, <3>7, <3>8 DEF Keep
    <3> QED BY <1>1, <3>9, CallKept DEF CallInv
  <2> QED BY <2>1, <2>2
<1> QED BY <1>3, <1>4, <1>5, <1>7, <1>8, <1>9, <1>10, BlockStep DEF CallInv

\* What tk_dis_wai of the event does to the tasks D; p is st, or st when an
\* abort function has returned.
LEMMA DisWaits ==
  ASSUME DriverAssumption, GdiTypes, NEW D \in SUBSET Users, NEW p \in PCs,
         signal({}, D, p), dis_tev(D), NEW S \in SUBSET DRQs,
         \A d \in S : gdi.drq[d].wtid \in D \cup {NONE},
         \A u \in D : ~Closing(u) /\ st[u].at \notin {"user", "abort"},
         \A x \in Users \cup Drivers : p[x] = st[x] \/ (x \in Users /\ st[x].at = "abort" /\ p[x] = User)
  PROVE  /\ tev' = tev /\ st' \in PCs /\ waitmask' \in [Users -> {"none", "FLG", "TEV"}]
         /\ \A v \in Drivers : /\ st'[v].rs = st[v].rs /\ st'[v].complete = st[v].complete
                               /\ st'[v].at = st[v].at
         /\ \A u \in Users : Ends(S, u)
<1>1. Signalled({}, D, p) /\ st' \in PCs
  BY Signals
<1>2. tev' = tev
  BY <1>1 DEF Signalled
<1>3. /\ waitmask' \in [Users -> {"none", "FLG", "TEV"}]
      /\ \A u \in Users : waitmask'[u] = IF u \in D THEN "TEV" ELSE waitmask[u]
  BY DEF dis_tev, GdiTypes, RestType
<1>4. Users \cap Drivers = {} /\ NONE \notin Users
  BY DEF DriverAssumption
<1>5. \A v \in Drivers : /\ st'[v].rs = st[v].rs /\ st'[v].complete = st[v].complete
                         /\ st'[v].at = st[v].at
  BY <1>1, <1>4 DEF Signalled
<1>6. ASSUME NEW u \in Users PROVE Ends(S, u)
  <2>1. \/ waitmask'[u] = waitmask[u]
        \/ ~Closing(u) /\ st[u].at \notin {"user", "abort"}
             /\ (st[u].at = "tev" => waitmask'[u] = "TEV")
    BY <1>3
  <2>2. User.at = "user" /\ User.rs = << >>
    BY DEF User
  <2>3. \/ st[u].at = "abort" /\ st'[u].at = "user" /\ st'[u].rs = << >>
        \/ /\ st'[u].rs = st[u].rs /\ st'[u].complete = st[u].complete
           /\ \/ st'[u].at = st[u].at
              \/ st[u].at = "wai_tev" /\ st'[u].at = "collect" /\ ~Closing(u)
    <3>1. CASE p[u] = st[u]
      BY <1>1, <3>1 DEF Signalled
    <3>2. CASE st[u].at = "abort" /\ p[u] = User
      BY <1>1, <2>2, <3>2 DEF Signalled
    <3> QED BY <3>1, <3>2
  <2>4. \A d \in S : gdi.drq[d].wtid = u => u \in D
    BY <1>4
  <2>5. u \in D => /\ st[u].at = "tev" => waitmask'[u] = "TEV"
                   /\ st'[u].at # "wai_tev"
    <3>1. u \in D => p[u] = st[u]
      OBVIOUS
    <3> QED BY <1>1, <1>3, <3>1 DEF Signalled
  <2> QED BY <2>1, <2>3, <2>4, <2>5 DEF Ends
<1> QED BY <1>1, <1>2, <1>3, <1>5, <1>6

\* GRedefDevice
LEMMA RedefStep ==
  ASSUME DriverAssumption, GdiInv, GRedefDevice
  PROVE  GdiInv'
<1>1. PICK T : T = {gdi.drq[d].wtid : d \in Queued} \ {NONE}
  OBVIOUS
<1>2. PICK g : g = unqueued(gdi, Queued)
  OBVIOUS
<1>3. PICK acp : acp = [k \in Kinds |-> 0]
  OBVIOUS
<1>4. /\ gdi' = [g EXCEPT !.acp = acp] /\ signal({}, T, st) /\ dis_tev(T)
      /\ pkt' = pkt /\ flgptn' = flgptn /\ drqlock' = drqlock
  <2>1. ToSet(gdi.acpq) = Queued
    BY DEF ToSet, Queued, Range
  <2> QED BY <1>1, <1>2, <1>3, <2>1 DEF GRedefDevice
<1>5. GdiTypes /\ QueueInv /\ CountInv /\ BlockInv /\ NONE \notin Users /\ Queued \subseteq DRQs
  BY DEF GdiInv, DriverAssumption, QueueInv, Busy
<1>6. Unqueued(g, Queued) /\ g \in GDIs
  BY <1>2, <1>5, Unqueues
<1>7. /\ gdi' \in GDIs /\ gdi'.drq = g.drq /\ gdi'.freeq = g.freeq /\ gdi'.acpq = g.acpq
      /\ gdi'.preq = g.preq /\ gdi'.acp = acp
  <2>1. acp \in [Kinds -> Nat]
    BY <1>3
  <2> QED BY <1>4, <1>6, <2>1 DEF GDIs
<1>8. Thinned(Queued)
  <2>1. \A k \in Kinds : acp[k] = Cardinality({d \in Queued \ Queued : Kind(d) = k})
    <3>1. \A k \in Kinds : {d \in Queued \ Queued : Kind(d) = k} = {}
      OBVIOUS
    <3> QED BY <1>3, <3>1, FS_EmptySet
  <2>2. IsInjective(gdi'.acpq) /\ Queued' = Queued \ Queued
    BY <1>6, <1>7 DEF Unqueued, Queued
  <2> QED BY <1>5, <1>6, <1>7, <2>1, <2>2 DEF Unqueued, Thinned
<1>9. T \in SUBSET Users /\ \A d \in Queued : gdi.drq[d].wtid \in T \cup {NONE}
  BY <1>1, <1>5, Types
<1>10. ASSUME NEW u \in T PROVE ~Closing(u) /\ st[u].at \notin {"user", "abort"}
  <2>1. PICK d \in Queued : gdi.drq[d].wtid = u
    BY <1>1
  <2>2. st[u].at \in Marked /\ gdi.drq[d].req \in Own(u) /\ u \in Users
    BY <1>5, <1>9, <2>1 DEF BlockInv
  <2>3. d \in Mine(u)
    BY <1>5, <2>2 DEF Mine
  <2>4. ~Closing(u)
    BY <2>1, <2>2, <2>3, ClosingEnds
  <2> QED BY <2>2, <2>4 DEF Marked
<1>11. st \in PCs
  BY <1>5 DEF GdiTypes, PcType
<1>12. /\ tev' = tev /\ st' \in PCs /\ waitmask' \in [Users -> {"none", "FLG", "TEV"}]
       /\ \A v \in Drivers : /\ st'[v].rs = st[v].rs /\ st'[v].complete = st[v].complete
                             /\ st'[v].at = st[v].at
       /\ \A u \in Users : Ends(Queued, u)
  BY <1>4, <1>5, <1>9, <1>10, <1>11, DisWaits
<1>13. GdiType' /\ RestType'
  BY <1>4, <1>5, <1>7, <1>12 DEF GdiTypes, GdiType, RestType
<1>14. \A d \in DRQs : /\ gdi'.drq[d].wtid = gdi.drq[d].wtid
                       /\ gdi'.drq[d].done = "Done" <=> d \in Queued \/ gdi.drq[d].done = "Done"
                       /\ gdi'.drq[d].done # gdi.drq[d].done => gdi.drq[d].req # NONE
  BY <1>5, <1>6, <1>7 DEF Unqueued, QueueInv, Busy
<1> QED BY <1>4, <1>8, <1>12, <1>13, <1>14, EndStep

\* Whom an abort function is about: a task inside its call, which does not
\* close the device.
Aborted(a, r, t) ==
  /\ r = st[a].rs[1] /\ t = pkt[r].tskid /\ r \in Pkts /\ t \in Users
  /\ r \in Own(t) /\ ~Is(t, "abort") /\ st[t].rs = st[a].rs /\ st[a].rs # << >>
  /\ ~Closing(t) /\ st[t].at \notin {"user", "abort"}

\* abort_starts has seen such a call, and it is still there.
LEMMA Aborts ==
  ASSUME DriverAssumption, GdiInv, NEW a \in Users, Is(a, "abort")
  PROVE  Aborted(a, st[a].rs[1], pkt[st[a].rs[1]].tskid)
<1>1. GdiTypes /\ CallInv /\ AbortInv /\ NONE \notin Users
  BY DEF GdiInv, DriverAssumption
<1>2. st[a].rs # << >>
  BY <1>1 DEF AbortInv
<1>3. PICK t \in Users : ~Is(t, "abort") /\ st[t].rs = st[a].rs
                           /\ \A r \in Range(st[t].rs) : pkt[r].tskid = t
  BY <1>1 DEF AbortInv
<1>4. Own(t) = Range(st[t].rs) /\ Own(t) \subseteq Pkts /\ st[t].rs[1] \in Own(t)
  BY <1>1, <1>2, <1>3, OwnRequests
<1>5. pkt[st[a].rs[1]].tskid = t /\ ~Closing(t)
  BY <1>1, <1>3, <1>4 DEF Closing
<1>6. st[t].at \notin {"user", "abort"}
  BY <1>1, <1>2, <1>3 DEF CallInv, Call, Is
<1> QED BY <1>2, <1>3, <1>4, <1>5, <1>6 DEF Aborted

\* The five ways an abort function goes.
AbortOthers(t, p) == signal({}, {t}, p) /\ dis_tev({t}) /\ gdi' = gdi
AbortStart(t, p) ==
  /\ waitmask' = [waitmask EXCEPT ![t] = "FLG"]
  /\ st' = [p EXCEPT ![t].at = IF Is(t, "wai_flg") THEN "tmout" ELSE @]
  /\ gdi' = gdi /\ tev' = tev
AbortNothing(p) == st' = p /\ gdi' = gdi /\ tev' = tev /\ waitmask' = waitmask
AbortQueued(d, t, p) ==
  /\ gdi' = IF d \in Queued THEN unqueued(gdi, {d}) ELSE gdi
  /\ signal({}, {t}, p) /\ dis_tev({t})
AbortDriver(d, p) ==
  gdi' = [gdi EXCEPT !.drq[d].done = "Abort"] /\ st' = p /\ tev' = tev /\ waitmask' = waitmask

\* gdi_abortreq does one of these.
LEMMA AbortWays ==
  ASSUME DriverAssumption, GdiInv, NEW a \in Users, abortfn(a),
         NEW r, NEW t, NEW d, r = st[a].rs[1], t = pkt[r].tskid, d = pkt[r].exinf,
         NEW p, p = [st EXCEPT ![a] = User]
  PROVE  /\ Is(a, "abort") /\ pkt' = pkt /\ flgptn' = flgptn /\ drqlock' = drqlock
         /\ \/ AbortOthers(t, p)
            \/ d = NONE /\ AbortStart(t, p)
            \/ AbortNothing(p)
            \/ d # NONE /\ Len(st[a].rs) = 1 /\ gdi.drq[d].req # NONE /\ AbortQueued(d, t, p)
            \/ d # NONE /\ d \notin Queued /\ gdi.drq[d].done # "Done" /\ gdi.drq[d].req # NONE
                 /\ AbortDriver(d, p)
<1>1. Is(a, "abort") /\ pkt' = pkt /\ flgptn' = flgptn /\ drqlock' = drqlock
  BY DEF abortfn
<1>2. PICK n \in Nat : n = Len(st[a].rs) /\ (n = 1 \/ n > 1)
  <2>1. st[a].rs \in Seq(Pkts) /\ st[a].rs # << >>
    BY <1>1, Types DEF GdiInv, AbortInv
  <2>2. Len(st[a].rs) \in Nat /\ DOMAIN st[a].rs = 1 .. Len(st[a].rs)
    BY <2>1
  <2>3. 1 \in DOMAIN st[a].rs
    BY <2>1, <2>2
  <2>4. PICK n : n = Len(st[a].rs)
    OBVIOUS
  <2>5. n \in Nat /\ 1 \in 1 .. n
    BY <2>2, <2>3, <2>4
  <2>6. n = 1 \/ n > 1
    BY <2>5
  <2> QED BY <2>4, <2>5, <2>6
<1>3. Contains(gdi.acpq, d) <=> d \in Queued
  <2>1. Contains(gdi.acpq, d) <=> \E i \in 1 .. Len(gdi.acpq) : gdi.acpq[i] = d
    BY DEF Contains
  <2>2. gdi.acpq \in Seq(DRQs) /\ DOMAIN gdi.acpq = 1 .. Len(gdi.acpq)
    BY Types DEF GdiInv
  <2> QED BY <2>1, <2>2 DEF Queued, Range
<1>4. CASE n > 1
  <2>1. n # 1
    BY <1>4
  <2>2. Len(st[a].rs) > 1 /\ ~(Len(st[a].rs) = 1)
    BY <1>2, <1>4, <2>1
  <2>3. signal({}, {t}, p) /\ dis_tev({t})
    BY <2>2 DEF abortfn
  <2>4. gdi' = gdi
    BY <2>2 DEF abortfn
  <2> QED BY <1>1, <2>3, <2>4 DEF AbortOthers
<1>5. CASE n = 1 /\ d = NONE
  <2>1. Len(st[a].rs) = 1 /\ ~(Len(st[a].rs) > 1)
    BY <1>2, <1>5
  <2>2. d = NONE /\ AbortStart(t, p)
    BY <1>5, <2>1 DEF abortfn, AbortStart
  <2> QED BY <1>1, <2>2
<1>6. CASE n = 1 /\ d # NONE /\ gdi.drq[d].req = NONE
  <2>1. Len(st[a].rs) = 1 /\ ~(Len(st[a].rs) > 1)
    BY <1>2, <1>6
  <2>2. st' = p
    BY <1>6, <2>1 DEF abortfn
  <2>3. gdi' = gdi /\ tev' = tev /\ waitmask' = waitmask
    BY <1>6, <2>1 DEF abortfn
  <2> QED BY <1>1, <2>2, <2>3 DEF AbortNothing
<1>7. CASE n = 1 /\ d # NONE /\ gdi.drq[d].req # NONE
             /\ (d \in Queued \/ gdi.drq[d].done = "Done")
  <2>1. Len(st[a].rs) = 1 /\ ~(Len(st[a].rs) > 1)
    BY <1>2, <1>7
  <2>2. AbortQueued(d, t, p)
    BY <1>3, <1>7, <2>1 DEF abortfn, AbortQueued
  <2> QED BY <1>1, <1>7, <2>1, <2>2
<1>8. CASE n = 1 /\ d # NONE /\ gdi.drq[d].req # NONE
             /\ ~(d \in Queued \/ gdi.drq[d].done = "Done")
  <2>1. Len(st[a].rs) = 1 /\ ~(Len(st[a].rs) > 1)
    BY <1>2, <1>8
  <2>2. AbortDriver(d, p)
    BY <1>3, <1>8, <2>1 DEF abortfn, AbortDriver
  <2> QED BY <1>1, <1>8, <2>2
<1> QED BY <1>2, <1>4, <1>5, <1>6, <1>7, <1>8

\* gdi_abortfn
LEMMA AbortStep ==
  ASSUME DriverAssumption, GdiInv, AbortsItsOwn, NEW a \in Users, abortfn(a)
  PROVE  GdiInv'
<1>1. PICK r : r = st[a].rs[1]
  OBVIOUS
<1>2. PICK t, d, p : t = pkt[r].tskid /\ d = pkt[r].exinf /\ p = [st EXCEPT ![a] = User]
  OBVIOUS
<1>3. /\ Is(a, "abort") /\ pkt' = pkt /\ flgptn' = flgptn /\ drqlock' = drqlock
      /\ \/ AbortOthers(t, p)
         \/ d = NONE /\ AbortStart(t, p)
         \/ AbortNothing(p)
         \/ d # NONE /\ Len(st[a].rs) = 1 /\ gdi.drq[d].req # NONE /\ AbortQueued(d, t, p)
         \/ d # NONE /\ d \notin Queued /\ gdi.drq[d].done # "Done" /\ gdi.drq[d].req # NONE
              /\ AbortDriver(d, p)
  BY <1>1, <1>2, AbortWays
<1>4. /\ r \in Pkts /\ t \in Users /\ r \in Own(t) /\ ~Is(t, "abort")
      /\ st[t].rs = st[a].rs /\ st[a].rs # << >>
      /\ ~Closing(t) /\ st[t].at \notin {"user", "abort"} /\ t # a
  BY <1>1, <1>2, <1>3, Aborts DEF Aborted
<1>5. GdiTypes /\ QueueInv /\ CountInv /\ BlockInv /\ ReqInv /\ CallInv
        /\ NONE \notin Users /\ Queued \subseteq DRQs /\ Users \cap Drivers = {}
  BY DEF GdiInv, DriverAssumption, QueueInv, Busy
<1>6. d \in DRQs \cup {NONE} /\ gdi \in GDIs
  BY <1>2, <1>4, <1>5, Types
<1>7. /\ p \in PCs /\ p[a] = User /\ st[a].at = "abort"
      /\ \A x \in Users \cup Drivers : x # a => p[x] = st[x]
  <2>1. User \in PC
    BY DEF User, PC, Places
  <2> QED BY <1>2, <1>3, <1>5, <2>1 DEF GdiTypes, PcType, PCs, Is
<1>8. User.at = "user" /\ User.rs = << >>
  BY DEF User
<1>9. ASSUME NEW S \in SUBSET DRQs, \A e \in S : gdi.drq[e].wtid \in {t, NONE},
             signal({}, {t}, p), dis_tev({t})
      PROVE  /\ tev' = tev /\ st' \in PCs /\ waitmask' \in [Users -> {"none", "FLG", "TEV"}]
             /\ \A v \in Drivers : /\ st'[v].rs = st[v].rs /\ st'[v].complete = st[v].complete
                                   /\ st'[v].at = st[v].at
             /\ \A u \in Users : Ends(S, u)
  <2>1. {t} \in SUBSET Users /\ \A u \in {t} : ~Closing(u) /\ st[u].at \notin {"user", "abort"}
    BY <1>4
  <2>2. \A x \in Users \cup Drivers :
          p[x] = st[x] \/ (x \in Users /\ st[x].at = "abort" /\ p[x] = User)
    BY <1>7
  <2>3. \A e \in S : gdi.drq[e].wtid \in {t} \cup {NONE}
    BY <1>9
  <2> QED BY <1>5, <1>7, <1>9, <2>1, <2>2, <2>3, DisWaits
<1>10. ASSUME gdi' = gdi PROVE Thinned({}) /\ GdiType'
  <2>1. SameQueues
    BY <1>10 DEF SameQueues
  <2>2. \A e \in DRQs : gdi'.drq[e].req = gdi.drq[e].req
    BY <1>10
  <2> QED BY <1>5, <1>6, <1>10, <2>1, <2>2, ThinnedNothing DEF GdiType
<1>11. ASSUME tev' = tev, waitmask' \in [Users -> {"none", "FLG", "TEV"}] PROVE RestType'
  BY <1>3, <1>5, <1>11 DEF GdiTypes, RestType
<1>12. CASE AbortOthers(t, p)
  <2>1. gdi' = gdi /\ signal({}, {t}, p) /\ dis_tev({t})
    BY <1>12 DEF AbortOthers
  <2>2. {} \in SUBSET DRQs /\ {} \in SUBSET Queued /\ \A e \in {} : gdi.drq[e].wtid \in {t, NONE}
    OBVIOUS
  <2>3. /\ tev' = tev /\ st' \in PCs /\ waitmask' \in [Users -> {"none", "FLG", "TEV"}]
        /\ \A v \in Drivers : /\ st'[v].rs = st[v].rs /\ st'[v].complete = st[v].complete
                              /\ st'[v].at = st[v].at
        /\ \A u \in Users : Ends({}, u)
    BY <1>9, <2>1, <2>2
  <2>4. \A e \in DRQs : /\ gdi'.drq[e].wtid = gdi.drq[e].wtid
                        /\ gdi'.drq[e].done = "Done" <=> e \in {} \/ gdi.drq[e].done = "Done"
                        /\ gdi'.drq[e].done # gdi.drq[e].done => gdi.drq[e].req # NONE
    BY <2>1
  <2> QED BY <1>3, <1>10, <1>11, <2>1, <2>2, <2>3, <2>4, EndStep
<1>13. CASE d = NONE /\ AbortStart(t, p)
  <2>1. /\ gdi' = gdi /\ tev' = tev /\ waitmask' = [waitmask EXCEPT ![t] = "FLG"]
        /\ st' = [p EXCEPT ![t].at = IF st[t].at = "wai_flg" THEN "tmout" ELSE @]
    BY <1>13 DEF AbortStart, Is
  <2>2. /\ waitmask' \in [Users -> {"none", "FLG", "TEV"}]
        /\ \A u \in Users : u # t => waitmask'[u] = waitmask[u]
    BY <1>4, <1>5, <2>1 DEF GdiTypes, RestType
  <2>3. PICK b : b = IF st[t].at = "wai_flg" THEN "tmout" ELSE st[t].at
    OBVIOUS
  <2>4. b \in Places
    <3>1. "tmout" \in Places /\ st[t].at \in Places
      BY <1>4, <1>5 DEF Places, Starting, GdiTypes, PcType, PCs, PC
    <3> QED BY <2>3, <3>1
  <2>5. st' = [p EXCEPT ![t].at = b]
    BY <1>4, <1>7, <2>1, <2>3
  <2>6. /\ st' \in PCs /\ st'[t].at = b /\ st'[t].rs = st[t].rs /\ st'[t].complete = st[t].complete
        /\ \A x \in Users \cup Drivers : x # t => st'[x] = p[x]
    BY <1>4, <1>7, <2>4, <2>5 DEF PCs, PC
  <2>7. \A v \in Drivers : st'[v] = st[v]
    BY <1>4, <1>5, <1>7, <2>6
  <2>8. st[t].at # "tev"
    <3>1. st[t].at = "tev" => \A q \in Own(t) : pkt[q].exinf # NONE
      BY <1>4, <1>5 DEF CallInv, Call, Waiting, Marked
    <3> QED BY <1>2, <1>4, <1>13, <3>1
  <2>9. \A u \in Users : Ends({}, u)
    <3>1. Ends({}, t)
      BY <1>4, <2>3, <2>6, <2>8 DEF Ends
    <3>2. Ends({}, a)
      BY <1>4, <1>7, <1>8, <2>2, <2>6 DEF Ends
    <3>3. ASSUME NEW u \in Users, u # t, u # a PROVE Ends({}, u)
      BY <1>7, <2>2, <2>6, <3>3 DEF Ends
    <3> QED BY <3>1, <3>2, <3>3
  <2>10. \A e \in DRQs : /\ gdi'.drq[e].wtid = gdi.drq[e].wtid
                         /\ gdi'.drq[e].done = "Done" <=> e \in {} \/ gdi.drq[e].done = "Done"
                         /\ gdi'.drq[e].done # gdi.drq[e].done => gdi.drq[e].req # NONE
    BY <2>1
  <2> QED BY <1>3, <1>10, <1>11, <2>1, <2>2, <2>6, <2>7, <2>9, <2>10, EndStep
<1>14. ASSUME st' = p, waitmask' = waitmask
       PROVE  /\ st' \in PCs /\ (\A v \in Drivers : st'[v] = st[v]) /\ \A u \in Users : Ends({}, u)
              /\ waitmask' \in [Users -> {"none", "FLG", "TEV"}]
  <2>1. \A v \in Drivers : st'[v] = st[v]
    BY <1>5, <1>7, <1>14
  <2>2. ASSUME NEW u \in Users PROVE Ends({}, u)
    BY <1>7, <1>8, <1>14 DEF Ends
  <2> QED BY <1>5, <1>7, <1>14, <2>1, <2>2 DEF GdiTypes, RestType
<1>15. CASE AbortNothing(p)
  <2>1. st' = p /\ gdi' = gdi /\ tev' = tev /\ waitmask' = waitmask
    BY <1>15 DEF AbortNothing
  <2>2. \A e \in DRQs : /\ gdi'.drq[e].wtid = gdi.drq[e].wtid
                        /\ gdi'.drq[e].done = "Done" <=> e \in {} \/ gdi.drq[e].done = "Done"
                        /\ gdi'.drq[e].done # gdi.drq[e].done => gdi.drq[e].req # NONE
    BY <2>1
  <2> QED BY <1>3, <1>10, <1>11, <1>14, <2>1, <2>2, EndStep
<1>16. CASE d # NONE /\ Len(st[a].rs) = 1 /\ gdi.drq[d].req # NONE /\ AbortQueued(d, t, p)
  <2>1. PICK S : S = IF d \in Queued THEN {d} ELSE {}
    OBVIOUS
  <2>2. /\ gdi' = IF d \in Queued THEN unqueued(gdi, {d}) ELSE gdi
        /\ signal({}, {t}, p) /\ dis_tev({t})
    BY <1>16 DEF AbortQueued
  <2>3. d \in DRQs /\ gdi.drq[d].req = r
    BY <1>1, <1>2, <1>3, <1>6, <1>16 DEF AbortsItsOwn
  <2>4. gdi.drq[d].wtid \in {t, NONE}
    <3>1. gdi.drq[d].wtid \in Users \cup {NONE}
      BY <1>5, <2>3, Types
    <3>2. ASSUME NEW u \in Users, gdi.drq[d].wtid = u PROVE u = t
      <4>1. r \in Own(u)
        BY <1>5, <2>3, <3>2 DEF BlockInv
      <4> QED BY <1>4, <1>5, <4>1 DEF ReqInv
    <3> QED BY <3>1, <3>2
  <2>5. S \in SUBSET DRQs /\ S \in SUBSET Queued /\ \A e \in S : gdi.drq[e].wtid \in {t, NONE}
    BY <2>1, <2>3, <2>4
  <2>6. /\ tev' = tev /\ st' \in PCs /\ waitmask' \in [Users -> {"none", "FLG", "TEV"}]
        /\ \A v \in Drivers : /\ st'[v].rs = st[v].rs /\ st'[v].complete = st[v].complete
                              /\ st'[v].at = st[v].at
        /\ \A u \in Users : Ends(S, u)
    BY <1>9, <2>2, <2>5
  <2>7. /\ Thinned(S) /\ GdiType'
        /\ \A e \in DRQs : /\ gdi'.drq[e].wtid = gdi.drq[e].wtid
                           /\ gdi'.drq[e].done = "Done" <=> e \in S \/ gdi.drq[e].done = "Done"
                           /\ gdi'.drq[e].done # gdi.drq[e].done => gdi.drq[e].req # NONE
    <3>1. CASE d \in Queued
      <4>1. gdi' = unqueued(gdi, S)
        BY <2>1, <2>2, <3>1
      <4>2. PICK g : g = unqueued(gdi, S)
        OBVIOUS
      <4>3. Unqueued(g, S) /\ g \in GDIs /\ gdi' = g
        BY <1>5, <2>5, <4>1, <4>2, Unqueues
      <4>4. Thinned(S)
        BY <1>5, <4>3 DEF Unqueued, Thinned, Queued
      <4> QED BY <2>1, <2>3, <1>16, <3>1, <4>3, <4>4 DEF Unqueued, GdiType
    <3>2. CASE d \notin Queued
      <4>1. gdi' = gdi /\ S = {}
        BY <2>1, <2>2, <3>2
      <4> QED BY <1>10, <4>1
    <3> QED BY <3>1, <3>2
  <2> QED BY <1>3, <1>11, <2>5, <2>6, <2>7, EndStep
<1>17. CASE /\ d # NONE /\ d \notin Queued /\ gdi.drq[d].done # "Done" /\ gdi.drq[d].req # NONE
            /\ AbortDriver(d, p)
  <2>1. /\ gdi' = [gdi EXCEPT !.drq[d].done = "Abort"]
        /\ st' = p /\ tev' = tev /\ waitmask' = waitmask
    BY <1>17 DEF AbortDriver
  <2>2. d \in DRQs /\ gdi.drq \in [DRQs -> Block] /\ "Abort" \in Done
    BY <1>5, <1>6, <1>17, Types DEF Done
  <2>3. PICK drq : drq = [gdi.drq EXCEPT ![d].done = "Abort"]
    OBVIOUS
  <2>4. /\ drq \in [DRQs -> Block]
        /\ \A e \in DRQs : /\ drq[e].req = gdi.drq[e].req /\ drq[e].wtid = gdi.drq[e].wtid
                           /\ drq[e].done = IF e = d THEN "Abort" ELSE gdi.drq[e].done
    BY <2>2, <2>3 DEF Block
  <2>5. /\ gdi' \in GDIs /\ gdi'.drq = drq /\ gdi'.freeq = gdi.freeq /\ gdi'.acpq = gdi.acpq
        /\ gdi'.preq = gdi.preq /\ gdi'.acp = gdi.acp
    <3>1. gdi' = [gdi EXCEPT !.drq = drq]
      BY <1>6, <2>1, <2>3 DEF GDIs
    <3> QED BY <1>6, <2>4, <3>1 DEF GDIs
  <2>6. Thinned({}) /\ GdiType'
    <3>1. SameQueues
      BY <1>5, <1>17, <2>4, <2>5 DEF SameQueues
    <3> QED BY <1>5, <2>4, <2>5, <3>1, ThinnedNothing DEF GdiType
  <2>7. \A e \in DRQs : /\ gdi'.drq[e].wtid = gdi.drq[e].wtid
                        /\ gdi'.drq[e].done = "Done" <=> e \in {} \/ gdi.drq[e].done = "Done"
                        /\ gdi'.drq[e].done # gdi.drq[e].done => gdi.drq[e].req # NONE
    BY <1>17, <2>4, <2>5
  <2> QED BY <1>3, <1>11, <1>14, <2>1, <2>6, <2>7, EndStep
<1> QED BY <1>3, <1>12, <1>13, <1>15, <1>16, <1>17

---------------------------------------------------------------------------
(* gdi_getDRQ: a block for the request. *)

\* The first of a queue is listed, the others are what is left.
LEMMA TailList ==
  ASSUME NEW q, NEW S, Lists(q, S), q # << >>
  PROVE  Head(q) \in S /\ Lists(Tail(q), S \ {Head(q)})
<1>1. q \in Seq(S) /\ Len(q) \in Nat /\ \A i \in 1 .. Len(q) : q[i] \in S
  BY ListsPlaces
<1>2. Len(q) # 0
  BY <1>1, EmptySeq
<1>3. 1 \in 0 .. Len(q) /\ 1 \in 1 .. Len(q) /\ Head(q) = q[1]
  BY <1>1, <1>2
<1>4. Lists(SubSeq(q, 1 + 1, Len(q)), S \ FirstOf(q, 1))
  BY <1>3, RestList
<1>5. FirstOf(q, 1) = {Head(q)}
  BY <1>3 DEF FirstOf
<1>6. SubSeq(q, 1 + 1, Len(q)) = Tail(q)
  BY <1>1, <1>2
<1> QED BY <1>1, <1>3, <1>4, <1>5, <1>6

\* The request r of t has been given the block d, which is in use if the
\* request is queued and free if it had been aborted.
Gets(t, r, d, b, P, p) ==
  /\ st[t].at = "awake" /\ r = st[t].rs[1] /\ d \in DRQs /\ gdi.freeq # << >>
  /\ b \in Ending /\ p = [st EXCEPT ![t].at = b]
  /\ set_flg(P, p) /\ P \subseteq Kinds \cup Dirs
  /\ UnlockDRQ(t) /\ pkt' = [pkt EXCEPT ![r].exinf = d] /\ tev' = tev /\ waitmask' = waitmask
  /\ gdi' \in GDIs /\ gdi.drq[d].req = NONE
  /\ gdi'.drq[d].req = IF b = "queued" THEN r ELSE NONE
  /\ gdi'.drq[d].wtid = NONE /\ gdi'.drq[d].done = "NotDone"
  /\ \A e \in DRQs : e # d => gdi'.drq[e] = gdi.drq[e]
  /\ \A y \in Dirs : y # Dir(t) => gdi'.preq[y] = gdi.preq[y]
  /\ Queued' \subseteq Queued \cup {d}

\* What the two outcomes have in common.
LEMMA GetsStep ==
  ASSUME DriverAssumption, GdiInv, NEW t \in Users, NEW r, NEW d, NEW b, NEW P, NEW p,
         Gets(t, r, d, b, P, p), QueueInv', CountInv', \A v \in Drivers : FlagDriver(v)'
  PROVE  GdiInv'
<1>1. /\ st[t].at = "awake" /\ r = st[t].rs[1] /\ d \in DRQs /\ gdi.freeq # << >>
      /\ b \in Ending /\ p = [st EXCEPT ![t].at = b]
      /\ set_flg(P, p) /\ P \subseteq Kinds \cup Dirs
      /\ pkt' = [pkt EXCEPT ![r].exinf = d] /\ tev' = tev /\ waitmask' = waitmask
      /\ gdi' \in GDIs /\ gdi.drq[d].req = NONE
      /\ gdi'.drq[d].req = IF b = "queued" THEN r ELSE NONE
      /\ gdi'.drq[d].wtid = NONE /\ gdi'.drq[d].done = "NotDone"
      /\ \A e \in DRQs : e # d => gdi'.drq[e] = gdi.drq[e]
      /\ \A y \in Dirs : y # Dir(t) => gdi'.preq[y] = gdi.preq[y]
      /\ Queued' \subseteq Queued \cup {d}
  BY DEF Gets
<1>2. GdiTypes /\ QueueInv /\ CountInv /\ ReqInv /\ BlockInv /\ CallInv /\ FlagInv
        /\ NONE \notin Users \cup Pkts /\ NONE \notin DRQs /\ t \notin Drivers
  BY DEF GdiInv, DriverAssumption, DRQs
<1>3. /\ r \in Pkts /\ Own(t) = {r} /\ Len(st[t].rs) = 1 /\ pkt[r].tskid = t /\ pkt[r].used
      /\ pkt[r].kind \in Kinds /\ pkt[r].exinf = NONE /\ Blockless(r) /\ drqlock[Dir(t)] = t
  BY <1>1, OneRequest DEF Starting, Holding
<1>4. drqlock' = [x \in DOMAIN drqlock |-> IF drqlock[x] = t THEN NONE ELSE drqlock[x]]
  BY DEF Gets, UnlockDRQ
<1>5. /\ drqlock' \in [Dirs -> Users \cup {NONE}]
      /\ \A u \in Users, x \in Dirs : u # t /\ drqlock[x] = u => drqlock'[x] = u
  BY <1>2, <1>4 DEF GdiTypes, RestType
<1>6. /\ pkt' \in [Pkts -> [used : BOOLEAN, kind : Kinds \cup {NONE}, exinf : DRQs \cup {NONE},
                            abort : BOOLEAN, tskid : Users \cup {NONE}]]
      /\ pkt'[r].exinf = d
      /\ \A s \in Pkts : /\ pkt'[s].used = pkt[s].used /\ pkt'[s].kind = pkt[s].kind
                         /\ pkt'[s].tskid = pkt[s].tskid /\ (pkt[s].abort => pkt'[s].abort)
                         /\ s # r => pkt'[s] = pkt[s]
  BY <1>1, <1>2, <1>3 DEF GdiTypes, ReqType
<1>7. /\ p \in PCs /\ p[t].at = b /\ p[t].rs = st[t].rs /\ p[t].complete = st[t].complete
      /\ \A y \in Users \cup Drivers : y # t => p[y] = st[y]
  <2>1. b \in Places
    BY <1>1 DEF Places
  <2> QED BY <1>1, <1>2, <2>1 DEF GdiTypes, PcType, PCs, PC
<1>8. FlagsSet(P, p) /\ st' \in PCs
  <2>1. \A y \in Users \cup Drivers : p[y].at = "wai_flg" <=> st[y].at = "wai_flg"
    BY <1>1, <1>7 DEF Ending
  <2> QED BY <1>1, <1>2, <1>7, <2>1, SetFlags
<1>9. /\ st'[t].at = b /\ st'[t].rs = st[t].rs
      /\ \A y \in Users \cup Drivers : y # t =>
           /\ st'[y].rs = st[y].rs /\ st'[y].complete = st[y].complete
           /\ \/ st'[y].at = st[y].at
              \/ st[y].at = "wai_flg" /\ st'[y].at = "awake"
  BY <1>1, <1>7, <1>8 DEF FlagsSet, Ending
<1>10. SameCalls /\ \A u \in Users : Own(u)' = Own(u)
  <2>1. SameCalls
    BY <1>1, <1>9 DEF SameCalls, Ending
  <2> QED BY <2>1, OwnKept
<1>11. GdiTypes'
  <2>1. RestType'
    BY <1>1, <1>2, <1>5, <1>8 DEF GdiTypes, RestType, FlagsSet
  <2>2. PcType'
    <3>1. b # "reply" /\ \A v \in Drivers : st'[v].at \in Serving
      BY <1>1, <1>2, <1>9 DEF GdiTypes, PcType, Serving, Ending
    <3>2. \A u \in Users : st'[u].at # "reply"
      BY <1>2, <1>9, <3>1 DEF GdiTypes, PcType
    <3> QED BY <1>8, <3>1, <3>2 DEF PcType
  <2> QED BY <1>1, <1>6, <2>1, <2>2 DEF GdiTypes, GdiType, ReqType
<1>12. \A s \in Pkts : s # r => (Linked(s)' <=> Linked(s)) /\ (Blockless(s)' <=> Blockless(s))
  <2>1. ASSUME NEW s \in Pkts, s # r PROVE Blockless(s)' <=> Blockless(s)
    BY <1>1, <1>2, <2>1 DEF Blockless
  <2>2. ASSUME NEW s \in Pkts, s # r PROVE Linked(s)' <=> Linked(s)
    <3>1. pkt[s].exinf \in DRQs \cup {NONE} /\ pkt'[s].exinf = pkt[s].exinf
      BY <1>2, <1>6, <2>2, Types
    <3>2. pkt[s].exinf = d => ~Linked(s) /\ ~Linked(s)'
      BY <1>1, <1>2, <2>2, <3>1 DEF Linked
    <3> QED BY <1>1, <3>1, <3>2 DEF Linked
  <2> QED BY <2>1, <2>2
<1>13. ReqInv'
  <2>1. ASSUME NEW s \in Pkts
        PROVE  /\ ~pkt'[s].used =>
                    pkt'[s].tskid = NONE /\ Blockless(s)' /\ \A u \in Users : s \notin Own(u)'
               /\ pkt'[s].used => pkt'[s].kind \in Kinds
               /\ \A u \in Users : pkt'[s].tskid = u => s \in Own(u)'
               /\ pkt'[s].used /\ (\A u \in Users : s \notin Own(u)') => Linked(s)'
    <3>1. CASE s = r
      BY <1>2, <1>3, <1>6, <1>10, <3>1
    <3>2. CASE s # r
      BY <1>2, <1>6, <1>10, <1>12, <3>2 DEF ReqInv
    <3> QED BY <3>1, <3>2
  <2>2. \A u, w \in Users : u # w => Own(u)' \cap Own(w)' = {}
    BY <1>2, <1>10 DEF ReqInv
  <2> QED BY <2>1, <2>2 DEF ReqInv
<1>21. /\ gdi'.drq[d].req = IF b = "queued" THEN r ELSE NONE
       /\ gdi'.drq[d].wtid = NONE /\ gdi'.drq[d].done = "NotDone"
       /\ \A e \in DRQs : gdi'.drq[e].req = r => e = d
  <2>1. \A e \in DRQs : e # d => gdi'.drq[e] = gdi.drq[e] /\ gdi.drq[e].req # r
    BY <1>1, <1>3 DEF Blockless
  <2> QED BY <1>1, <2>1
<1>22. /\ r \in Pkts /\ d \in DRQs /\ NONE \notin Pkts /\ NONE \notin DRQs /\ NONE \notin Users
       /\ pkt'[r].used /\ pkt'[r].exinf = d
  BY <1>1, <1>2, <1>3, <1>6
<1>14. BlockInv'
  <2> SUFFICES ASSUME NEW e \in DRQs
               PROVE  /\ gdi'.drq[e].req = NONE => gdi'.drq[e].wtid = NONE /\ gdi'.drq[e].done = "NotDone"
                      /\ gdi'.drq[e].req # NONE => pkt'[gdi'.drq[e].req].used /\ pkt'[gdi'.drq[e].req].exinf = e
                      /\ \A u \in Users : gdi'.drq[e].wtid = u =>
                           st'[u].at \in Marked /\ gdi'.drq[e].req \in Own(u)'
    BY DEF BlockInv
  <2>1. CASE e = d
    BY <1>21, <1>22, <2>1
  <2>2. CASE e # d
    <3>1. gdi'.drq[e] = gdi.drq[e] /\ gdi.drq[e].req # r
      BY <1>1, <1>3, <2>2 DEF Blockless
    <3>2. gdi.drq[e].req \in Pkts \cup {NONE}
      BY <1>2, Types
    <3>3. \A u \in Users : gdi.drq[e].wtid = u => st[u].at \in Marked /\ st'[u].at = st[u].at
      BY <1>1, <1>2, <1>9 DEF BlockInv, Marked
    <3> QED BY <1>2, <1>6, <1>10, <3>1, <3>2, <3>3 DEF BlockInv
  <2> QED BY <2>1, <2>2
<1>15. AbortInv'
  BY <1>2, <1>6, <1>10, AbortKept DEF GdiInv
<1>16. ReplyInv'
  <2>1. SameReplies
    <3>1. \A e \in DRQs : gdi'.drq[e].done = "Done" => gdi.drq[e].done = "Done"
      BY <1>1
    <3> QED BY <1>2, <1>9, <3>1 DEF SameReplies
  <2>2. \A e \in Busy \ Queued : ~IsDone(e) => e \in Busy' \ Queued'
    BY <1>1 DEF Busy
  <2> QED BY <2>1, <2>2, ReplyKept DEF GdiInv
<1>17. ASSUME NEW u \in Users, u # t PROVE Call(u)'
  <2>1. r \notin Own(u) /\ Own(u) \subseteq Pkts /\ NONE \notin Own(u)
    BY <1>2, <1>3, <1>17, OwnRequests DEF ReqInv
  <2>2. \A e \in DRQs : gdi.drq[e].req \in Own(u) \/ gdi'.drq[e].req \in Own(u) =>
          gdi'.drq[e] = gdi.drq[e]
    BY <1>1, <2>1
  <2>3. \A e \in Mine(u) : e # d /\ gdi'.drq[e] = gdi.drq[e] /\ (IsDone(e)' <=> IsDone(e))
    BY <1>1, <2>1, <2>2 DEF Mine, IsDone
  <2>4. Mine(u) \cap Queued' \subseteq Queued
    BY <1>1, <2>3
  <2>5. \A s \in Own(u) : pkt'[s] = pkt[s]
    BY <1>6, <2>1
  <2>6. Keep(u)
    BY <1>1, <1>5, <1>9, <1>17, <2>2, <2>3, <2>4, <2>5 DEF Keep
  <2> QED BY <1>2, <2>6, CallKept DEF CallInv
<1>18. Call(t)'
  <2>1. b = "queued" => Linked(r)'
    BY <1>21, <1>22 DEF Linked
  <2>2. b = "failed" => Blockless(r)'
    BY <1>21, <1>22 DEF Blockless
  <2>3. Own(t)' = {r} /\ Len(st'[t].rs) = 1 /\ pkt'[r].tskid = t /\ st'[t].at \in {"queued", "failed"}
    BY <1>1, <1>3, <1>6, <1>9, <1>10 DEF Ending
  <2> QED BY <1>9, <2>1, <2>2, <2>3 DEF Call, Starting, Ending, Holding, Waiting, Marked
<1>19. ASSUME NEW u \in Users PROVE FlagTask(u)'
  <2>1. CASE u = t
    BY <1>1, <1>9, <2>1 DEF FlagTask, Is, Ending
  <2>2. CASE u # t
    <3>1. SUFFICES ASSUME st'[u].at \in {"empty", "wai_flg"} PROVE FlagTask(u)'
      BY DEF FlagTask, Is
    <3>2. st'[u].at = st[u].at /\ st[u].at \in {"empty", "wai_flg"} /\ st'[u].rs = st[u].rs
      BY <1>9, <2>2, <3>1
    <3>3. Dir(u) # Dir(t) /\ Dir(u) \in Dirs
      BY <1>1, <1>2, <2>2, <3>2, HoldersDiffer DEF Holding, Dir, Rw, Dirs
    <3>4. Dir(u)' = Dir(u)
      <4>1. st[u].rs[1] \in Pkts
        BY <3>2, OneRequest DEF Starting
      <4> QED BY <1>6, <3>2, <4>1 DEF Dir
    <3>5. Full(Dir(u)) => gdi'.preq[Dir(u)] = limit
      BY <1>1, <3>3 DEF Full
    <3>6. Full(Dir(u)) => Full(Dir(u))'
      BY <3>4, <3>5 DEF Full
    <3>7. st[u].at = "empty" /\ Dir(u) \in flgptn => Dir(u) \in flgptn'
      BY <1>8 DEF FlagsSet
    <3> QED BY <1>2, <3>2, <3>4, <3>6, <3>7 DEF FlagInv, FlagTask, Is
  <2> QED BY <2>1, <2>2
<1>20. CallInv' /\ FlagInv'
  BY <1>17, <1>18, <1>19 DEF CallInv, FlagInv
<1> QED BY <1>11, <1>13, <1>14, <1>15, <1>16, <1>20 DEF GdiInv

\* The first free block, in no queue and of no request.
LEMMA FreeBlock ==
  ASSUME GdiTypes, QueueInv, BlockInv, gdi.freeq # << >>, NEW d, d = Head(gdi.freeq)
  PROVE  /\ d \in DRQs /\ d \notin Busy /\ d \notin Queued /\ d \in Range(gdi.freeq)
         /\ gdi.drq[d].req = NONE /\ gdi.drq[d].wtid = NONE /\ gdi.drq[d].done = "NotDone"
         /\ Lists(Tail(gdi.freeq), Range(gdi.freeq) \ {d}) /\ Tail(gdi.freeq) \in Seq(DRQs)
<1>1. Lists(gdi.freeq, Range(gdi.freeq)) /\ Range(gdi.freeq) \subseteq DRQs
  BY Types, ListsRange DEF QueueInv
<1>2. d \in Range(gdi.freeq) /\ Lists(Tail(gdi.freeq), Range(gdi.freeq) \ {d})
  BY <1>1, TailList
<1>3. d \in DRQs /\ d \notin Busy /\ d \notin Queued
  BY <1>1, <1>2 DEF QueueInv
<1>4. gdi.drq[d].req = NONE
  BY <1>3 DEF Busy
<1>5. Tail(gdi.freeq) \in Seq(DRQs)
  <2>1. Range(gdi.freeq) \ {d} \in SUBSET DRQs
    BY <1>1
  <2> QED BY <1>2, <2>1, ListsSeq
<1> QED BY <1>2, <1>3, <1>4, <1>5 DEF BlockInv

\* The request had been aborted: the block goes back to the end of the queue.
LEMMA GetAbortedStep ==
  ASSUME DriverAssumption, GdiInv, NEW t \in Users, getDRQ(t), ~Full(Dir(t)),
         pkt[st[t].rs[1]].abort
  PROVE  GdiInv'
<1>1. PICK r, d, x : r = st[t].rs[1] /\ d = Head(gdi.freeq) /\ x = Rw(pkt[r].kind)
  OBVIOUS
<1>2. PICK g : g = [gdi EXCEPT !.freeq = Tail(@), !.preq[x] = @ + 1, !.drq[d].req = r]
  OBVIOUS
<1>3. PICK P, p : P = relDRQ_ptn(g, x) /\ p = [st EXCEPT ![t].at = "failed"]
  OBVIOUS
<1>4. x = Dir(t) /\ x \in Dirs /\ gdi.preq[x] # limit /\ gdi.freeq # << >>
  BY <1>1 DEF Dir, Full, Rw, Dirs
<1>5. /\ st[t].at = "awake" /\ UnlockDRQ(t) /\ pkt' = [pkt EXCEPT ![r].exinf = d]
      /\ tev' = tev /\ waitmask' = waitmask
  BY <1>1, <1>4 DEF getDRQ, Is
<1>6. gdi' = gdi_relDRQ(g, d, x) /\ set_flg(P, p)
  BY <1>1, <1>2, <1>3, <1>4 DEF getDRQ
<1>7. GdiTypes /\ QueueInv /\ CountInv /\ BlockInv /\ FlagInv /\ NONE \notin Users \cup Pkts
  BY DEF GdiInv, DriverAssumption
<1>8. /\ d \in DRQs /\ d \notin Busy /\ d \notin Queued /\ d \in Range(gdi.freeq)
      /\ gdi.drq[d].req = NONE /\ gdi.drq[d].wtid = NONE /\ gdi.drq[d].done = "NotDone"
      /\ Lists(Tail(gdi.freeq), Range(gdi.freeq) \ {d}) /\ Tail(gdi.freeq) \in Seq(DRQs)
  BY <1>1, <1>4, <1>7, FreeBlock
<1>9. r \in Pkts /\ pkt[r].kind \in Kinds /\ Blockless(r)
  BY <1>1, <1>5, OneRequest DEF Starting, Holding
<1>10. gdi \in GDIs /\ gdi.drq \in [DRQs -> Block] /\ gdi.preq \in [Dirs -> Nat]
  BY <1>7, Types
<1>11. /\ g \in GDIs /\ g.freeq = Tail(gdi.freeq) /\ g.acpq = gdi.acpq /\ g.acp = gdi.acp
       /\ g.preq = [gdi.preq EXCEPT ![x] = @ + 1] /\ g.drq = [gdi.drq EXCEPT ![d].req = r]
  <2>1. PICK preq, drq : preq = [gdi.preq EXCEPT ![x] = @ + 1] /\ drq = [gdi.drq EXCEPT ![d].req = r]
    OBVIOUS
  <2>2. preq \in [Dirs -> Nat] /\ drq \in [DRQs -> Block]
    BY <1>4, <1>8, <1>9, <1>10, <2>1 DEF Block
  <2>3. g = [gdi EXCEPT !.freeq = Tail(gdi.freeq), !.preq = preq, !.drq = drq]
    BY <1>2, <1>10, <2>1 DEF GDIs
  <2> QED BY <1>8, <1>10, <2>1, <2>2, <2>3 DEF GDIs
<1>12. g.preq[x] = gdi.preq[x] + 1 /\ g.preq[x] # 0 /\ gdi.preq[x] \in Nat
  BY <1>4, <1>10, <1>11
<1>13. /\ gdi' \in GDIs /\ gdi'.drq = [g.drq EXCEPT ![d] = FreeDRQ]
       /\ gdi'.freeq = Append(Tail(gdi.freeq), d) /\ gdi'.acpq = gdi.acpq
       /\ gdi'.preq = [g.preq EXCEPT ![x] = @ - 1] /\ gdi'.acp = gdi.acp
  <2>1. PICK h : h = gdi_relDRQ(g, d, x)
    OBVIOUS
  <2>2. /\ h \in GDIs /\ h.drq = [g.drq EXCEPT ![d] = FreeDRQ]
        /\ h.freeq = Append(g.freeq, d) /\ h.acpq = g.acpq
        /\ h.preq = [g.preq EXCEPT ![x] = @ - 1] /\ h.acp = g.acp
    <3>1. Returned(h, g, d, x)
      BY <1>4, <1>8, <1>11, <1>12, <2>1, ReleasesTo
    <3> QED BY <3>1 DEF Returned
  <2> QED BY <1>6, <1>11, <2>1, <2>2
<1>14. /\ gdi'.drq[d].req = NONE /\ gdi'.drq[d].wtid = NONE /\ gdi'.drq[d].done = "NotDone"
       /\ \A e \in DRQs : e # d => gdi'.drq[e] = gdi.drq[e]
       /\ \A y \in Dirs : gdi'.preq[y] = gdi.preq[y]
  <2>1. gdi'.drq[d] = FreeDRQ /\ \A e \in DRQs : e # d => gdi'.drq[e] = gdi.drq[e]
    BY <1>8, <1>10, <1>11, <1>13
  <2>2. \A y \in Dirs : gdi'.preq[y] = gdi.preq[y]
    BY <1>4, <1>10, <1>11, <1>12, <1>13
  <2> QED BY <2>1, <2>2 DEF FreeDRQ
<1>15. P \subseteq Kinds \cup Dirs
  BY <1>3, <1>4, <1>11, <1>10 DEF relDRQ_ptn
<1>16. Busy' = Busy /\ Queued' = Queued /\ \A e \in Busy : Kind(e)' = Kind(e)
  <2>1. Busy' = Busy
    BY <1>8, <1>14 DEF Busy
  <2>2. Queued' = Queued
    BY <1>13 DEF Queued
  <2>3. ASSUME NEW e \in Busy PROVE Kind(e)' = Kind(e)
    <3>1. e # d /\ gdi'.drq[e] = gdi.drq[e]
      BY <1>8, <1>14 DEF Busy
    <3>2. gdi.drq[e].req \in Pkts /\ gdi.drq[e].req # r
      BY <1>7, <1>9, Types DEF Busy, Blockless
    <3>3. \A s \in Pkts : s # r => pkt'[s] = pkt[s]
      BY <1>5, <1>7 DEF GdiTypes, ReqType
    <3> QED BY <3>1, <3>2, <3>3 DEF Kind
  <2> QED BY <2>1, <2>2, <2>3
<1>17. QueueInv'
  <2>1. Lists(gdi'.freeq, (Range(gdi.freeq) \ {d}) \cup {d})
    BY <1>8, <1>13, AppendList
  <2>2. IsInjective(gdi'.freeq) /\ Range(gdi'.freeq) = Range(gdi.freeq)
    BY <1>8, <2>1 DEF Lists
  <2>3. \A e \in Queued : gdi'.drq[e].done = "NotDone"
    BY <1>7, <1>8, <1>14 DEF QueueInv, Busy
  <2> QED BY <1>7, <1>13, <1>16, <2>2, <2>3 DEF QueueInv
<1>18. CountInv'
  <2>1. ASSUME NEW k \in Kinds
        PROVE  {e \in Queued : Kind(e) = k}' = {e \in Queued : Kind(e) = k}
    BY <1>7, <1>16 DEF QueueInv
  <2>2. ASSUME NEW y \in Dirs
        PROVE  {e \in Busy : Rw(Kind(e)) = y}' = {e \in Busy : Rw(Kind(e)) = y}
    BY <1>16 DEF Rw
  <2>3. ASSUME NEW k \in Kinds
        PROVE  gdi'.acp[k] = Cardinality({e \in Queued : Kind(e) = k})'
    BY <1>7, <1>13, <2>1 DEF CountInv
  <2>4. ASSUME NEW y \in Dirs
        PROVE  /\ gdi'.preq[y] = Cardinality({e \in Busy : Rw(Kind(e)) = y})'
               /\ gdi'.preq[y] <= limit'
    BY <1>4, <1>7, <1>14, <2>2 DEF CountInv
  <2> QED BY <2>3, <2>4 DEF CountInv
<1>19. Gets(t, r, d, "failed", P, p)
  <2>1. "failed" \in Ending
    BY DEF Ending
  <2> QED BY <1>1, <1>3, <1>4, <1>5, <1>6, <1>8, <1>13, <1>14, <1>15, <1>16, <2>1 DEF Gets
<1>20. ASSUME NEW v \in Drivers PROVE FlagDriver(v)'
  <2>1. v # t
    BY DEF DriverAssumption
  <2>2. p \in PCs /\ (\A y \in Users \cup Drivers : y # t => p[y] = st[y]) /\ p[t].at = "failed"
    <3>1. "failed" \in Places
      BY DEF Places, Ending
    <3> QED BY <1>3, <1>7, <3>1 DEF GdiTypes, PcType, PCs, PC
  <2>3. FlagsSet(P, p)
    <3>1. \A y \in Users \cup Drivers : p[y].at = "wai_flg" <=> st[y].at = "wai_flg"
      BY <1>5, <2>2
    <3> QED BY <1>6, <1>7, <2>2, <3>1, SetFlags DEF GdiInv
  <2>4. st'[v].at \in {"empty", "wai_flg"} => st'[v].at = st[v].at
    BY <2>1, <2>2, <2>3 DEF FlagsSet
  <2>5. st[v].at = "empty" => Accepts[v] \cap flgptn \subseteq flgptn'
    BY <2>3 DEF FlagsSet
  <2>6. Queued' \subseteq Queued /\ \A e \in Queued' : Kind(e)' = Kind(e)
    BY <1>7, <1>16 DEF QueueInv
  <2> QED BY <1>7, <2>4, <2>5, <2>6, FlagDriverKept DEF FlagInv
<1> QED BY <1>17, <1>18, <1>19, <1>20, GetsStep

\* The request is queued.
LEMMA GetQueuedStep ==
  ASSUME DriverAssumption, GdiInv, NEW t \in Users, getDRQ(t), ~Full(Dir(t)),
         ~pkt[st[t].rs[1]].abort
  PROVE  GdiInv'
<1>1. PICK r, d, x, k : r = st[t].rs[1] /\ d = Head(gdi.freeq) /\ k = pkt[r].kind /\ x = Rw(k)
  OBVIOUS
<1>2. PICK g : g = [gdi EXCEPT !.freeq = Tail(@), !.preq[x] = @ + 1, !.drq[d].req = r]
  OBVIOUS
<1>3. PICK P, p : P = (IF gdi.acp[k] = 0 THEN {k} ELSE {}) /\ p = [st EXCEPT ![t].at = "queued"]
  OBVIOUS
<1>4. x = Dir(t) /\ x \in Dirs /\ gdi.preq[x] # limit /\ gdi.freeq # << >>
  BY <1>1 DEF Dir, Full, Rw, Dirs
<1>5. /\ st[t].at = "awake" /\ UnlockDRQ(t) /\ pkt' = [pkt EXCEPT ![r].exinf = d]
      /\ tev' = tev /\ waitmask' = waitmask
  BY <1>1, <1>4 DEF getDRQ, Is
<1>6. gdi' = [g EXCEPT !.acpq = Append(@, d), !.acp[k] = @ + 1] /\ set_flg(P, p)
  BY <1>1, <1>2, <1>3, <1>4 DEF getDRQ
<1>7. /\ GdiTypes /\ QueueInv /\ CountInv /\ BlockInv /\ FlagInv /\ CallInv
      /\ NONE \notin Users \cup Pkts /\ limit \in Nat
  BY DEF GdiInv, DriverAssumption
<1>8. /\ d \in DRQs /\ d \notin Busy /\ d \notin Queued /\ d \in Range(gdi.freeq)
      /\ gdi.drq[d].req = NONE /\ gdi.drq[d].wtid = NONE /\ gdi.drq[d].done = "NotDone"
      /\ Lists(Tail(gdi.freeq), Range(gdi.freeq) \ {d}) /\ Tail(gdi.freeq) \in Seq(DRQs)
  BY <1>1, <1>4, <1>7, FreeBlock
<1>9. r \in Pkts /\ k \in Kinds /\ Blockless(r)
  BY <1>1, <1>5, OneRequest DEF Starting, Holding
<1>10. /\ gdi \in GDIs /\ gdi.drq \in [DRQs -> Block] /\ gdi.preq \in [Dirs -> Nat]
       /\ gdi.acp \in [Kinds -> Nat] /\ gdi.acpq \in Seq(DRQs)
  BY <1>7, Types
<1>11. PICK preq, drq, acp, q :
         /\ preq = [gdi.preq EXCEPT ![x] = @ + 1] /\ drq = [gdi.drq EXCEPT ![d].req = r]
         /\ acp = [gdi.acp EXCEPT ![k] = @ + 1] /\ q = Append(gdi.acpq, d)
  OBVIOUS
<1>12. /\ preq \in [Dirs -> Nat] /\ drq \in [DRQs -> Block] /\ acp \in [Kinds -> Nat]
       /\ Lists(q, Queued \cup {d}) /\ q \in Seq(DRQs)
  <2>1. preq \in [Dirs -> Nat] /\ drq \in [DRQs -> Block]
    <3>1. preq \in [Dirs -> Nat]
      BY <1>4, <1>10, <1>11
    <3>2. drq = [gdi.drq EXCEPT ![d].req = r]
      BY <1>11
    <3>3. drq \in [DRQs -> Block]
      BY <1>8, <1>9, <1>10, <3>2 DEF Block
    <3> QED BY <3>1, <3>3
  <2>2. acp \in [Kinds -> Nat]
    BY <1>9, <1>10, <1>11
  <2>3. Lists(gdi.acpq, Queued) /\ Queued \subseteq DRQs
    BY <1>7, <1>10, ListsRange DEF QueueInv, Queued
  <2>4. Lists(q, Queued \cup {d})
    BY <1>8, <1>11, <2>3, AppendList
  <2>5. q \in Seq(DRQs)
    BY <1>8, <1>10, <1>11
  <2> QED BY <2>1, <2>2, <2>4, <2>5
<1>13. /\ g.acpq = gdi.acpq /\ g.acp = gdi.acp
       /\ g = [gdi EXCEPT !.freeq = Tail(gdi.freeq), !.preq = preq, !.drq = drq]
  <2>1. g = [gdi EXCEPT !.freeq = Tail(gdi.freeq), !.preq = preq, !.drq = drq]
    BY <1>2, <1>10, <1>11 DEF GDIs
  <2> QED BY <1>10, <2>1 DEF GDIs
<1>14. gdi' = [g EXCEPT !.acpq = q, !.acp = acp]
  <2>1. g \in GDIs
    BY <1>8, <1>10, <1>12, <1>13 DEF GDIs
  <2> QED BY <1>6, <1>11, <1>13, <2>1 DEF GDIs
<1>15. /\ gdi' \in GDIs /\ gdi'.drq = drq /\ gdi'.freeq = Tail(gdi.freeq) /\ gdi'.acpq = q
       /\ gdi'.preq = preq /\ gdi'.acp = acp
  BY <1>8, <1>10, <1>12, <1>13, <1>14 DEF GDIs
<1>16. /\ gdi'.drq[d].req = r /\ gdi'.drq[d].wtid = NONE /\ gdi'.drq[d].done = "NotDone"
       /\ \A e \in DRQs : e # d => gdi'.drq[e] = gdi.drq[e]
       /\ gdi'.preq[x] = gdi.preq[x] + 1 /\ \A y \in Dirs : y # x => gdi'.preq[y] = gdi.preq[y]
       /\ gdi'.acp[k] = gdi.acp[k] + 1 /\ \A j \in Kinds : j # k => gdi'.acp[j] = gdi.acp[j]
  <2>1. gdi.drq[d] \in Block
    BY <1>8, <1>10
  <2>2. /\ drq[d].req = r /\ drq[d].wtid = NONE /\ drq[d].done = "NotDone"
        /\ \A e \in DRQs : e # d => drq[e] = gdi.drq[e]
    BY <1>8, <1>10, <1>11, <2>1 DEF Block
  <2> QED BY <1>4, <1>9, <1>10, <1>11, <1>15, <2>2
<1>17. P \subseteq Kinds \cup Dirs
  BY <1>3, <1>9
<1>18. /\ Busy' = Busy \cup {d} /\ Queued' = Queued \cup {d} /\ IsInjective(gdi'.acpq)
       /\ Kind(d)' = k /\ \A e \in Busy : Kind(e)' = Kind(e)
  <2>1. Busy' = Busy \cup {d}
    BY <1>7, <1>8, <1>9, <1>16 DEF Busy
  <2>2. Queued' = Queued \cup {d} /\ IsInjective(gdi'.acpq)
    BY <1>12, <1>15 DEF Lists, Queued
  <2>3. ASSUME NEW e \in Busy PROVE Kind(e)' = Kind(e)
    <3>1. e # d /\ gdi'.drq[e] = gdi.drq[e]
      BY <1>8, <1>16 DEF Busy
    <3>2. gdi.drq[e].req \in Pkts /\ gdi.drq[e].req # r
      BY <1>7, <1>9, Types DEF Busy, Blockless
    <3>3. \A s \in Pkts : s # r => pkt'[s] = pkt[s]
      BY <1>5, <1>7 DEF GdiTypes, ReqType
    <3> QED BY <3>1, <3>2, <3>3 DEF Kind
  <2>4. Kind(d)' = k
    <3>1. pkt'[r].kind = pkt[r].kind
      BY <1>5, <1>7, <1>9 DEF GdiTypes, ReqType
    <3> QED BY <1>1, <1>16, <3>1 DEF Kind
  <2> QED BY <2>1, <2>2, <2>3, <2>4
<1>19. QueueInv'
  <2>1. IsInjective(gdi'.freeq) /\ Range(gdi'.freeq) = Range(gdi.freeq) \ {d}
    BY <1>8, <1>15 DEF Lists
  <2>2. Range(gdi'.freeq) \cap Busy' = {}
    BY <1>7, <1>18, <2>1 DEF QueueInv
  <2>3. \A e \in Queued' : gdi'.drq[e].done = "NotDone"
    BY <1>7, <1>8, <1>16, <1>18 DEF QueueInv, Busy
  <2>4. Queued' \subseteq Busy'
    BY <1>7, <1>18 DEF QueueInv
  <2> QED BY <1>18, <2>1, <2>2, <2>3, <2>4 DEF QueueInv
<1>20. CountInv'
  <2>1. ASSUME NEW j \in Kinds
        PROVE  gdi'.acp[j] = Cardinality({e \in Queued' : Kind(e)' = j})
    <3>1. PICK S : S = {e \in Queued : Kind(e) = j}
      OBVIOUS
    <3>2. IsFiniteSet(S) /\ Cardinality(S) \in Nat /\ d \notin S /\ gdi.acp[j] = Cardinality(S)
      <4>1. S \subseteq DRQs
        BY <1>7, <3>1 DEF QueueInv, Busy
      <4> QED BY <1>7, <1>8, <3>1, <4>1, BlocksFinite DEF CountInv
    <3>3. {e \in Queued' : Kind(e)' = j} = IF j = k THEN S \cup {d} ELSE S
      BY <1>7, <1>18, <3>1 DEF QueueInv
    <3>4. Cardinality(S \cup {d}) = Cardinality(S) + 1
      BY <3>2, FS_AddElement
    <3> QED BY <1>16, <3>2, <3>3, <3>4
  <2>2. ASSUME NEW y \in Dirs
        PROVE  gdi'.preq[y] = Cardinality({e \in Busy' : Rw(Kind(e)') = y}) /\ gdi'.preq[y] <= limit
    <3>1. PICK S : S = {e \in Busy : Rw(Kind(e)) = y}
      OBVIOUS
    <3>2. /\ IsFiniteSet(S) /\ Cardinality(S) \in Nat /\ d \notin S /\ gdi.preq[y] = Cardinality(S)
          /\ gdi.preq[y] <= limit
      <4>1. S \subseteq DRQs
        BY <3>1 DEF Busy
      <4> QED BY <1>7, <1>8, <3>1, <4>1, BlocksFinite DEF CountInv
    <3>3. {e \in Busy' : Rw(Kind(e)') = y} = IF y = x THEN S \cup {d} ELSE S
      BY <1>1, <1>18, <3>1
    <3>4. Cardinality(S \cup {d}) = Cardinality(S) + 1
      BY <3>2, FS_AddElement
    <3>5. y = x => gdi.preq[y] + 1 <= limit
      BY <1>4, <1>7, <3>2
    <3> QED BY <1>16, <3>2, <3>3, <3>4, <3>5
  <2>3. ASSUME NEW y \in Dirs
        PROVE  {e \in Busy : Rw(Kind(e)) = y}' = {e \in Busy' : Rw(Kind(e)') = y}
    BY DEF Rw
  <2> QED BY <2>1, <2>2, <2>3 DEF CountInv
<1>21. Gets(t, r, d, "queued", P, p)
  <2>1. "queued" \in Ending
    BY DEF Ending
  <2> QED BY <1>1, <1>3, <1>4, <1>5, <1>6, <1>8, <1>15, <1>16, <1>17, <1>18, <2>1 DEF Gets
<1>22. gdi.acp[k] # 0 => \E e \in Queued : Kind(e) = k
  <2>1. SUFFICES ASSUME gdi.acp[k] # 0, {e \in Queued : Kind(e) = k} = {} PROVE FALSE
    OBVIOUS
  <2>2. gdi.acp[k] = Cardinality({})
    BY <1>7, <1>9, <2>1 DEF CountInv
  <2> QED BY <2>1, <2>2, FS_EmptySet
<1>23. ASSUME NEW v \in Drivers PROVE FlagDriver(v)'
  <2>1. v # t
    BY DEF DriverAssumption
  <2>2. p \in PCs /\ (\A y \in Users \cup Drivers : y # t => p[y] = st[y]) /\ p[t].at = "queued"
    <3>1. "queued" \in Places
      BY DEF Places, Ending
    <3> QED BY <1>3, <1>7, <3>1 DEF GdiTypes, PcType, PCs, PC
  <2>3. FlagsSet(P, p)
    <3>1. \A y \in Users \cup Drivers : p[y].at = "wai_flg" <=> st[y].at = "wai_flg"
      BY <1>5, <2>2
    <3> QED BY <1>6, <1>7, <2>2, <3>1, SetFlags
  <2>4. st'[v].at \in {"empty", "wai_flg"} => st'[v].at = st[v].at
    BY <2>1, <2>2, <2>3 DEF FlagsSet
  <2>5. \A e \in Queued : e \in Busy /\ Kind(e)' = Kind(e)
    BY <1>7, <1>18 DEF QueueInv
  <2>6. st'[v].at = "empty" => \A e \in Queued' : Kind(e)' \in Accepts[v] => Kind(e)' \in flgptn'
    <3>1. SUFFICES ASSUME st'[v].at = "empty", NEW e \in Queued', Kind(e)' \in Accepts[v]
                   PROVE  Kind(e)' \in flgptn'
      OBVIOUS
    <3>2. /\ \A c \in Queued : Kind(c) \in Accepts[v] => Kind(c) \in flgptn
          /\ Accepts[v] \cap (flgptn \cup P) \subseteq flgptn'
      BY <1>7, <2>3, <2>4, <3>1 DEF FlagInv, FlagDriver, Is, FlagsSet
    <3>3. CASE e = d
      BY <1>3, <1>18, <1>22, <3>1, <3>2, <3>3
    <3>4. CASE e # d
      BY <1>18, <2>5, <3>1, <3>2, <3>4
    <3> QED BY <3>3, <3>4
  <2>7. st'[v].at = "wai_flg" => \A e \in Queued' : Kind(e)' \notin Accepts[v]
    <3>1. SUFFICES ASSUME st'[v].at = "wai_flg", NEW e \in Queued' PROVE Kind(e)' \notin Accepts[v]
      OBVIOUS
    <3>2. (\A c \in Queued : Kind(c) \notin Accepts[v]) /\ Accepts[v] \cap P = {}
      BY <1>7, <2>3, <2>4, <3>1 DEF FlagInv, FlagDriver, Is, FlagsSet
    <3>3. CASE e = d
      BY <1>3, <1>18, <1>22, <3>2, <3>3
    <3>4. CASE e # d
      BY <1>18, <2>5, <3>2, <3>4
    <3> QED BY <3>3, <3>4
  <2> QED BY <2>6, <2>7 DEF FlagDriver, Is
<1> QED BY <1>19, <1>20, <1>21, <1>23, GetsStep

---------------------------------------------------------------------------
(* The invariant of the library. *)

\* No request, all blocks free.
LEMMA InitGdiInv ==
  ASSUME DriverAssumption, GdiInit
  PROVE  GdiInv
<1>1. PICK maxreqq \in DRQs :
        gdi = [drq |-> [d \in DRQs |-> FreeDRQ],
               freeq |-> [d \in 1 .. maxreqq |-> d], acpq |-> << >>,
               preq |-> [x \in {"FREEQ_RD", "FREEQ_WR"} |-> 0], acp |-> [k \in Kinds |-> 0]]
  BY DEF GdiInit
<1>2. /\ pkt = [r \in Pkts |-> FreePkt]
      /\ flgptn = {}
      /\ drqlock = [x \in {"FREEQ_RD", "FREEQ_WR"} |-> NONE]
      /\ tev = {}
      /\ waitmask = [t \in Users |-> "none"]
      /\ st = [x \in Users \cup Drivers |-> User]
  BY DEF GdiInit
<1>3. FreeDRQ \in Block /\ FreeDRQ.req = NONE /\ FreeDRQ.wtid = NONE /\ FreeDRQ.done = "NotDone"
  BY DEF FreeDRQ, Block, Done
<1>4. maxreqq \in Nat /\ 1 .. maxreqq \subseteq DRQs /\ limit \in Nat
  BY DEF DRQs, DriverAssumption
<1>5. PICK f : f = [d \in 1 .. maxreqq |-> d]
  OBVIOUS
<1>6. f \in Seq(DRQs) /\ IsInjective(f)
  <2>1. \A d \in 1 .. maxreqq : d \in DRQs
    BY <1>4
  <2>2. f \in Seq(DRQs)
    BY <1>4, <1>5, <2>1, IsASeq
  <2> QED BY <1>5, <2>2 DEF IsInjective
<1>7. /\ gdi.drq = [d \in DRQs |-> FreeDRQ] /\ gdi.freeq = f /\ gdi.acpq = << >>
      /\ gdi.preq = [x \in Dirs |-> 0] /\ gdi.acp = [k \in Kinds |-> 0]
  BY <1>1, <1>5 DEF Dirs
<1>8. GdiType
  <2>1. << >> \in Seq(DRQs)
    OBVIOUS
  <2> QED BY <1>1, <1>3, <1>5, <1>6, <2>1 DEF GdiType, GDIs, Dirs
<1>9. ReqType /\ RestType
  <2>1. FreePkt \in [used : BOOLEAN, kind : Kinds \cup {NONE}, exinf : DRQs \cup {NONE},
                     abort : BOOLEAN, tskid : Users \cup {NONE}]
    BY DEF FreePkt
  <2> QED BY <1>2, <2>1 DEF ReqType, RestType, Dirs
<1>10. PcType
  <2>1. User \in PC /\ User.at = "user"
    BY DEF User, PC, Places
  <2> QED BY <1>2, <2>1 DEF PcType, PCs, Serving
<1>11. GdiTypes
  BY <1>8, <1>9, <1>10 DEF GdiTypes
<1>12. \A x \in Users \cup Drivers : st[x].at = "user" /\ st[x].rs = << >>
  BY <1>2 DEF User
<1>13. \A u \in Users : Own(u) = {}
  BY <1>11, <1>12, OwnRequests
<1>14. Busy = {} /\ Queued = {} /\ \A d \in DRQs : gdi.drq[d] = FreeDRQ
  BY <1>3, <1>7 DEF Busy, Queued, Range
<1>15. NONE \notin Users \cup Pkts
  BY DEF DriverAssumption
<1>16. ReqInv
  <2>1. \A r \in Pkts : ~pkt[r].used /\ pkt[r].tskid = NONE
    BY <1>2 DEF FreePkt
  <2>2. \A r \in Pkts : Blockless(r)
    BY <1>3, <1>14, <1>15 DEF Blockless
  <2> QED BY <1>13, <1>15, <2>1, <2>2 DEF ReqInv
<1>17. BlockInv
  BY <1>3, <1>14, <1>15 DEF BlockInv
<1>18. QueueInv
  <2>1. IsInjective(<< >>)
    BY DEF IsInjective
  <2> QED BY <1>6, <1>7, <1>14, <2>1 DEF QueueInv
<1>19. CountInv
  <2>1. \A k \in Kinds : {d \in Queued : Kind(d) = k} = {}
    BY <1>14
  <2>2. \A x \in Dirs : {d \in Busy : Rw(Kind(d)) = x} = {}
    BY <1>14
  <2>3. ASSUME NEW k \in Kinds
        PROVE  gdi.acp[k] = Cardinality({d \in Queued : Kind(d) = k})
    <3>1. Cardinality({d \in Queued : Kind(d) = k}) = 0
      BY <2>1, FS_EmptySet
    <3> QED BY <1>7, <3>1
  <2>4. ASSUME NEW x \in Dirs
        PROVE  /\ gdi.preq[x] = Cardinality({d \in Busy : Rw(Kind(d)) = x})
               /\ gdi.preq[x] <= limit
    <3>1. Cardinality({d \in Busy : Rw(Kind(d)) = x}) = 0
      BY <2>2, FS_EmptySet
    <3>2. gdi.preq[x] = 0
      BY <1>7
    <3> QED BY <1>4, <3>1, <3>2
  <2> QED BY <2>3, <2>4 DEF CountInv
<1>20. CallInv
  <2>1. ASSUME NEW u \in Users PROVE Call(u)
    <3>1. waitmask[u] = "none" /\ st[u].at = "user" /\ st[u].rs = << >>
      BY <1>2, <1>12
    <3> QED BY <3>1 DEF Call, Starting, Ending, Holding, Waiting, Marked
  <2> QED BY <2>1 DEF CallInv
<1>21. AbortInv /\ FlagInv /\ ReplyInv
  BY <1>12 DEF AbortInv, FlagInv, FlagTask, FlagDriver, ReplyInv, Is
<1> QED BY <1>11, <1>16, <1>17, <1>18, <1>19, <1>20, <1>21 DEF GdiInv

\* Every action.
LEMMA GdiStep ==
  ASSUME DriverAssumption, GdiInv, ClosesWithoutEvent, AbortsItsOwn, [GdiNext]_gdivars
  PROVE  GdiInv'
<1>1. CASE UNCHANGED gdivars
  <2>1. /\ gdi' = gdi /\ pkt' = pkt /\ flgptn' = flgptn /\ drqlock' = drqlock
        /\ tev' = tev /\ waitmask' = waitmask /\ st' = st
    BY <1>1 DEF gdivars
  <2>2. SameCalls /\ SameReplies
    BY <2>1 DEF SameCalls, SameReplies
  <2>3. PcType' /\ RestType'
    BY <2>1 DEF GdiInv, GdiTypes, PcType, RestType
  <2>4. /\ GdiTypes' /\ ReqInv' /\ BlockInv' /\ QueueInv' /\ CountInv' /\ AbortInv' /\ ReplyInv'
        /\ Queued' = Queued /\ \A d \in Queued : Kind(d)' = Kind(d)
    BY <2>1, <2>2, <2>3, Quiet
  <2>5. ASSUME NEW u \in Users PROVE Call(u)' /\ FlagTask(u)'
    <3>1. Keep(u)
      BY <2>1, QuietKeep DEF SameRest
    <3>2. Dir(u)' = Dir(u) /\ (Full(Dir(u)) => (Full(Dir(u)))')
      BY <2>1 DEF Dir, Full
    <3> QED BY <2>1, <3>1, <3>2, CallKept, FlagTaskKept DEF GdiInv, CallInv, FlagInv
  <2>6. ASSUME NEW v \in Drivers PROVE FlagDriver(v)'
    BY <2>1, <2>4, FlagDriverKept DEF GdiInv, FlagInv
  <2> QED BY <2>4, <2>5, <2>6 DEF GdiInv, CallInv, FlagInv
<1>2. ASSUME NEW t \in Users, NEW r \in Pkts, NEW k \in Kinds, execfn(t, r, k) PROVE GdiInv'
  BY <1>2, ExecStep
<1>3. ASSUME NEW t \in Users, LockDRQ(t) \/ getDRQ_fails(t) \/ execfn_is_over(t) PROVE GdiInv'
  BY <1>3, LockStep, FailsStep, ExecReturnStep
<1>4. ASSUME NEW t \in Users, getDRQ(t) PROVE GdiInv'
  BY <1>4, NoBlockStep, GetAbortedStep, GetQueuedStep
<1>5. ASSUME NEW t \in Users, NEW r \in Pkts, NEW closing \in BOOLEAN, waitfn(t, <<r>>, closing)
      PROVE  GdiInv'
  <2>1. <<r>> \in Seq(Pkts)
    OBVIOUS
  <2> QED BY <1>5, <2>1, WaitfnStep
<1>6. ASSUME NEW t \in Users, NEW rs \in SetToSeqs(Pkts), waitfn(t, rs, FALSE) PROVE GdiInv'
  <2>1. Cardinality(Pkts) \in Nat
    BY FS_CardinalityType DEF DriverAssumption
  <2>2. rs \in [1 .. Cardinality(Pkts) -> Pkts]
    BY DEF SetToSeqs
  <2>3. rs \in Seq(Pkts)
    BY <2>1, <2>2, IsASeq
  <2> QED BY <1>6, <2>3, WaitfnStep
<1>7. ASSUME NEW t \in Users, mark(t) PROVE GdiInv'
  BY <1>7, TakeStep, MarkStep
<1>8. ASSUME NEW t \in Users, wai_tev(t) \/ tev_timeout(t) PROVE GdiInv'
  BY <1>8, WaitEventStep, EventTimeoutStep
<1>9. ASSUME NEW t \in Users, collect(t) \/ clear(t) PROVE GdiInv'
  BY <1>9, CollectStep, ClearStep
<1>10. ASSUME NEW t \in Users, release(t) \/ waitfn_is_over(t) PROVE GdiInv'
  BY <1>10, ReleaseStep, WaitReturnStep
<1>11. ASSUME NEW t \in Users, NEW u \in Users, abort_starts(t, u) PROVE GdiInv'
  BY <1>11, AbortBeginsStep
<1>12. ASSUME NEW t \in Users, abortfn(t) PROVE GdiInv'
  BY <1>12, AbortStep
<1>13. ASSUME NEW v \in Drivers, GDI_Accept(v) PROVE GdiInv'
  BY <1>13, NothingStep, AcceptStep
<1>14. ASSUME NEW v \in Drivers, Accept_timeout(v) \/ Reply_aborted(v) PROVE GdiInv'
  BY <1>14, FlagTimeoutDriver, ReplyAbortedStep
<1>15. ASSUME NEW x \in Users \cup Drivers, wai_flg(x) \/ flg_timeout(x) PROVE GdiInv'
  BY <1>15, WaitFlagTask, FlagTimeoutTask, WaitFlagDriver, FlagTimeoutDriver
<1>16. ASSUME NEW d \in DRQs, GDI_Reply(d) PROVE GdiInv'
  BY <1>16, GdiReplyStep
<1>17. ASSUME NEW c \in Cmds, GDI_SendCmd(c) PROVE GdiInv'
  BY <1>17, SendCmdStep
<1>18. CASE GRedefDevice
  BY <1>18, RedefStep
<1>19. CASE GdiNext
  BY <1>2, <1>3, <1>4, <1>5, <1>6, <1>7, <1>8, <1>9, <1>10, <1>11, <1>12, <1>13, <1>14, <1>15,
     <1>16, <1>17, <1>18, <1>19 DEF GdiNext
<1> QED BY <1>1, <1>19

\* The invariant says that the blocks are accounted for.
LEMMA GdiAccounts ==
  ASSUME DriverAssumption, GdiInv
  PROVE  BlocksAccounted
<1>1. GdiTypes /\ QueueInv /\ CountInv /\ BlockInv
  BY DEF GdiInv
<1>2. /\ ToSet(gdi.acpq) = Queued /\ ToSet(gdi.freeq) = Range(gdi.freeq)
      /\ Queued \subseteq Busy /\ Busy \subseteq DRQs /\ Range(gdi.freeq) \subseteq DRQs
  <2>1. Range(gdi.freeq) \subseteq DRQs
    BY <1>1, Types, ListsRange DEF QueueInv
  <2> QED BY <1>1, <2>1 DEF ToSet, Queued, Range, QueueInv, Busy
<1>3. DOMAIN gdi.preq = Dirs
  BY <1>1, Types
<1>4. ASSUME NEW d \in Range(gdi.freeq) PROVE gdi.drq[d] = FreeDRQ
  <2>1. d \in DRQs /\ gdi.drq[d].req = NONE
    BY <1>1, <1>2 DEF QueueInv, Busy
  <2>2. gdi.drq[d].wtid = NONE /\ gdi.drq[d].done = "NotDone" /\ gdi.drq[d] \in Block
    BY <1>1, <2>1, Types DEF BlockInv
  <2> QED BY <2>1, <2>2 DEF FreeDRQ, Block
<1>5. \A d \in Busy : pkt[gdi.drq[d].req].exinf = d
  BY <1>1 DEF BlockInv, Busy
<1>6. {d \in DRQs : gdi.drq[d].req # NONE} = Busy
  BY DEF Busy
<1> QED BY <1>1, <1>2, <1>3, <1>4, <1>5, <1>6 DEF BlocksAccounted, QueueInv, CountInv

\* It says that nobody is left asleep.
LEMMA GdiAwake ==
  ASSUME DriverAssumption, GdiInv
  PROVE  NobodyLeftAsleep
<1>1. GdiTypes /\ QueueInv /\ BlockInv /\ CallInv /\ FlagInv
  BY DEF GdiInv
<1>2. ASSUME NEW t \in Users, Is(t, "wai_tev"), NEW d \in Blocks(t)
      PROVE  gdi.drq[d].done # "Done" /\ gdi.drq[d].wtid = t
  <2>1. ~Is(t, "abort") /\ \A r \in Own(t) : Linked(r)
    BY <1>1, <1>2 DEF CallInv, Call, Waiting, Marked, Is
  <2>2. d \in Mine(t)
    BY <1>1, <1>2, <2>1, MineBlocks
  <2> QED BY <1>1, <1>2, <2>2 DEF CallInv, Call, Marked, IsDone, Is
<1>3. ASSUME NEW t \in Users, Is(t, "wai_flg")
      PROVE  gdi.freeq = << >> \/ gdi.preq[Rw(pkt[st[t].rs[1]].kind)] = limit
  BY <1>1, <1>3 DEF FlagInv, FlagTask, Full, Dir
<1>4. ASSUME NEW v \in Drivers, Is(v, "wai_flg"), NEW d \in ToSet(gdi.acpq)
      PROVE  Kind(d) \notin Accepts[v]
  <2>1. d \in Queued
    BY DEF ToSet, Queued, Range
  <2> QED BY <1>1, <1>4, <2>1 DEF FlagInv, FlagDriver
<1> QED BY <1>2, <1>3, <1>4 DEF NobodyLeftAsleep

---------------------------------------------------------------------------
(* The theorems. *)

\* The inductive invariant of the library (gdrvif.c): types, and what relates
\* requests, blocks, queues, counts, bits of the event flag and places of calls.
THEOREM DriverInvariant ==
  ASSUME DriverAssumption
  PROVE  GdiSpec /\ [](ClosesWithoutEvent /\ AbortsItsOwn) => []GdiInv
<1>1. GdiInit => GdiInv
  BY InitGdiInv
<1>2. GdiInv /\ (ClosesWithoutEvent /\ AbortsItsOwn) /\ [GdiNext]_gdivars => GdiInv'
  BY GdiStep
<1> QED BY <1>1, <1>2, PTL DEF GdiSpec

\* Every request block is free, once, or belongs to the request that names it,
\* and cntacpq and the counts of gdi_getDRQ and gdi_relDRQ are those of the
\* queues.
THEOREM DriverBlocksAccounted ==
  ASSUME DriverAssumption
  PROVE  GdiSpec /\ [](ClosesWithoutEvent /\ AbortsItsOwn) => []BlocksAccounted
<1>1. GdiInv => BlocksAccounted
  BY GdiAccounts
<1> QED BY <1>1, DriverInvariant, PTL

\* Nobody sleeps in the library while what it waits for is there.
THEOREM DriverNobodyLeftAsleep ==
  ASSUME DriverAssumption
  PROVE  GdiSpec /\ [](ClosesWithoutEvent /\ AbortsItsOwn) => []NobodyLeftAsleep
<1>1. GdiInv => NobodyLeftAsleep
  BY GdiAwake
<1> QED BY <1>1, DriverInvariant, PTL
=============================================================================

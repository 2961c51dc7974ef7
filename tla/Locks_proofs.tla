---------------------------- MODULE Locks_proofs ----------------------------
(***************************************************************************)
(* Locks: the mutexes of the kernel, and the high-speed locks of libtk.    *)
(*                                                                         *)
(* The proofs about mutexes are in four parts: the parts of the control    *)
(* blocks and what the helpers of the calls do to each; changes of         *)
(* priority, which follow a chain of owners; what a call that removes a    *)
(* mutex or a waiter leaves; and the operations, each from one state at    *)
(* rest to the next.                                                       *)
(*                                                                         *)
(* High-speed locks are locks, for any number of tasks and of lock         *)
(* numbers: every step of FastLock and FastMLock is one of ExclusiveLock   *)
(* or leaves what that sees alone.                                         *)
(***************************************************************************)
EXTENDS FastLocks, Mutex, WaitQueue_proofs, FiniteSetTheorems, TLAPS

(* Mutexes: the control blocks. *)

Blocks == [ tcb : [Tasks -> TCB], mtxcb : [Mutexes -> MTXCB],
            chain : Seq([tcb : Tasks, pri : Pri]) ]

Waits(s, t)   == s.tcb[t].state = "WAIT"
OwnerOf(s, t) == s.mtxcb[s.tcb[t].wid].mtxtsk

\* The owner inherits the priority of t.
Inherits(s, t) == Waits(s, t) /\ s.mtxcb[s.tcb[t].wid].mtxatr = "INHERIT"

\* t waits for a mutex on the list of u, which inherits its priority.
Heeds(s, u, t) == Inherits(s, t) /\ s.tcb[t].wid \in Range(s.tcb[u].mtxlist)

\* The owners of what the tasks of S wait for are in S.
Closed(s, S) == \A u \in S : Waits(s, u) => OwnerOf(s, u) \in S

\* A task of X is being terminated: its wait is over already, its mutexes are
\* being handed over.
Waiters(s, X, m) == {u \in Tasks \ X : Waits(s, u) /\ s.tcb[u].wid = m}

\* The queue of a mutex holds the tasks that wait for it.
Queues(s, X) == \A m \in Mutexes : Lists(s.mtxcb[m].wait_queue, Waiters(s, X, m))

Ordered(s) ==
  \A m \in Mutexes : s.mtxcb[m].mtxatr # "TFIFO" =>
    InOrder(s.mtxcb[m].wait_queue, priority(s))

\* The waits for owners close no cycle.
Graph(s) ==
  \A t \in Tasks :
    /\ Waits(s, t) => /\ s.tcb[t].wid \in Mutexes
                      /\ \E S \in SUBSET (Tasks \ {t}) : OwnerOf(s, t) \in S /\ Closed(s, S)
    /\ ~Waits(s, t) => s.tcb[t].wid = NULL

\* A mutex of D still names its owner, on whose list it is no longer.
Owned(s, X, D) ==
  \A t \in Tasks \ X :
    /\ Lists(s.tcb[t].mtxlist, {m \in Mutexes \ D : s.mtxcb[m].mtxtsk = t})
    /\ s.tcb[t].mtxlist # << >> => s.tcb[t].state # "DORMANT"

Created(s) == \A m \in Mutexes : ~s.mtxcb[m].mtxid => s.mtxcb[m].mtxtsk = NULL

Obeyed(s, X) ==
  \A t \in Tasks \ X : \A m \in Mutexes :
    /\ m \in Range(s.tcb[t].mtxlist) \/ m = s.tcb[t].wid
    /\ s.mtxcb[m].mtxatr = "CEILING"
    => s.tcb[t].bpriority >= s.mtxcb[m].ceilpri

\* What the mutex m asks of its owner, and what a task is asked for; E adds
\* what a task is asked for by one that is about to wait.
Asked(s, X, m) ==
  {y \in Pri : \/ s.mtxcb[m].mtxatr = "CEILING" /\ y = s.mtxcb[m].ceilpri
               \/ /\ s.mtxcb[m].mtxatr = "INHERIT"
                  /\ \E u \in Waiters(s, X, m) : y = s.tcb[u].priority}

Needs(s, X, E, t) ==
  {y \in Pri : \/ y = s.tcb[t].bpriority
               \/ y \in E[t]
               \/ \E m \in Range(s.tcb[t].mtxlist) : y \in Asked(s, X, m)}

Lowest(x, S) == x \in S /\ \A y \in S : x <= y

RightOf(s, X, E, t) == Lowest(s.tcb[t].priority, Needs(s, X, E, t))

\* The priorities are right, but for the one that is about to be changed.
Right(s, X, E) ==
  IF s.chain = << >>
  THEN \A t \in Tasks \ X : RightOf(s, X, E, t)
  ELSE /\ \A t \in Tasks \ X : t # s.chain[1].tcb => RightOf(s, X, E, t)
       /\ Lowest(s.chain[1].pri, Needs(s, X, E, s.chain[1].tcb))

\* Only priorities, the order of queues and the chain differ.
Reordered(r, s) ==
  /\ \A t \in Tasks : /\ r.tcb[t].state = s.tcb[t].state
                      /\ r.tcb[t].bpriority = s.tcb[t].bpriority
                      /\ r.tcb[t].wid = s.tcb[t].wid
                      /\ r.tcb[t].mtxlist = s.tcb[t].mtxlist
  /\ \A m \in Mutexes : /\ r.mtxcb[m].mtxid = s.mtxcb[m].mtxid
                        /\ r.mtxcb[m].mtxatr = s.mtxcb[m].mtxatr
                        /\ r.mtxcb[m].ceilpri = s.mtxcb[m].ceilpri
                        /\ r.mtxcb[m].mtxtsk = s.mtxcb[m].mtxtsk

\* Only the priority of t differs.
OnlyOf(r, s, t) == \A w \in Tasks : w # t => r.tcb[w].priority = s.tcb[w].priority

\* And only the priorities of the tasks of C and the queues they are in.
Confined(r, s, C) ==
  /\ \A t \in Tasks \ C : r.tcb[t].priority = s.tcb[t].priority
  /\ \A m \in Mutexes : (\A t \in C : ~(Waits(s, t) /\ s.tcb[t].wid = m)) =>
       r.mtxcb[m].wait_queue = s.mtxcb[m].wait_queue

Sound(s, X, D) ==
  /\ s \in Blocks /\ Queues(s, X) /\ Ordered(s) /\ Graph(s)
  /\ Owned(s, X, D) /\ Created(s) /\ Obeyed(s, X)

---------------------------------------------------------------------------

\* What the blocks are.
LEMMA BlockTypes ==
  ASSUME NEW s \in Blocks
  PROVE  /\ s.tcb \in [Tasks -> TCB] /\ s.mtxcb \in [Mutexes -> MTXCB]
         /\ s.chain \in Seq([tcb : Tasks, pri : Pri])
         /\ s = [tcb |-> s.tcb, mtxcb |-> s.mtxcb, chain |-> s.chain]
         /\ s.chain # << >> => s.chain[1].tcb \in Tasks /\ s.chain[1].pri \in Pri
         /\ \A t \in Tasks : /\ s.tcb[t] \in TCB
                             /\ s.tcb[t].state \in TSTAT
                             /\ s.tcb[t].priority \in Pri /\ s.tcb[t].bpriority \in Pri
                             /\ s.tcb[t].wid \in Mutexes \cup {NULL}
                             /\ s.tcb[t].mtxlist \in Seq(Mutexes)
         /\ \A m \in Mutexes : /\ s.mtxcb[m] \in MTXCB
                               /\ s.mtxcb[m].mtxid \in BOOLEAN
                               /\ s.mtxcb[m].mtxatr \in {"TFIFO", "TPRI", "INHERIT", "CEILING"}
                               /\ s.mtxcb[m].ceilpri \in Pri
                               /\ s.mtxcb[m].mtxtsk \in Tasks \cup {NULL}
                               /\ s.mtxcb[m].wait_queue \in Seq(Tasks)
<1>1. /\ s.tcb \in [Tasks -> TCB] /\ s.mtxcb \in [Mutexes -> MTXCB]
      /\ s.chain \in Seq([tcb : Tasks, pri : Pri])
      /\ s = [tcb |-> s.tcb, mtxcb |-> s.mtxcb, chain |-> s.chain]
  BY DEF Blocks
<1>2. s.chain # << >> => s.chain[1].tcb \in Tasks /\ s.chain[1].pri \in Pri
  <2>1. SUFFICES ASSUME s.chain # << >> PROVE s.chain[1].tcb \in Tasks /\ s.chain[1].pri \in Pri
    OBVIOUS
  <2>2. 1 \in 1 .. Len(s.chain)
    <3>1. Len(s.chain) \in Nat \ {0}
      BY <1>1, <2>1, EmptySeq
    <3> QED BY <3>1
  <2>3. s.chain[1] \in [tcb : Tasks, pri : Pri]
    BY <1>1, <2>2, ElementOfSeq
  <2> QED BY <2>3
<1>3. ASSUME NEW t \in Tasks
      PROVE  /\ s.tcb[t] \in TCB
             /\ s.tcb[t].state \in TSTAT
             /\ s.tcb[t].priority \in Pri /\ s.tcb[t].bpriority \in Pri
             /\ s.tcb[t].wid \in Mutexes \cup {NULL}
             /\ s.tcb[t].mtxlist \in Seq(Mutexes)
  BY <1>1 DEF TCB
<1>4. ASSUME NEW m \in Mutexes
      PROVE  /\ s.mtxcb[m] \in MTXCB
             /\ s.mtxcb[m].mtxid \in BOOLEAN
             /\ s.mtxcb[m].mtxatr \in {"TFIFO", "TPRI", "INHERIT", "CEILING"}
             /\ s.mtxcb[m].ceilpri \in Pri
             /\ s.mtxcb[m].mtxtsk \in Tasks \cup {NULL}
             /\ s.mtxcb[m].wait_queue \in Seq(Tasks)
  BY <1>1 DEF MTXCB
<1> QED BY <1>1, <1>2, <1>3, <1>4

\* The next call of change_task_priority.
LEMMA Calls ==
  ASSUME NEW s \in Blocks, NEW t \in Tasks, NEW p \in Pri
  PROVE  /\ calls(s, t, p) \in Blocks
         /\ calls(s, t, p).tcb = s.tcb /\ calls(s, t, p).mtxcb = s.mtxcb
         /\ calls(s, t, p).chain # << >>
         /\ calls(s, t, p).chain[1].tcb = t /\ calls(s, t, p).chain[1].pri = p
<1>1. PICK c : c = <<[tcb |-> t, pri |-> p]>>
  OBVIOUS
<1>2. c \in Seq([tcb : Tasks, pri : Pri]) /\ c # << >> /\ c[1].tcb = t /\ c[1].pri = p
  BY <1>1
<1>3. calls(s, t, p) = [tcb |-> s.tcb, mtxcb |-> s.mtxcb, chain |-> c]
  BY <1>1 DEF calls, Blocks
<1>4. s.tcb \in [Tasks -> TCB] /\ s.mtxcb \in [Mutexes -> MTXCB]
  BY BlockTypes
<1>5. calls(s, t, p) \in Blocks
  BY <1>2, <1>3, <1>4 DEF Blocks
<1> QED BY <1>2, <1>3, <1>5
\* An update of one task control block, or of one mutex control block.
putTask(s, t, b)  == [s EXCEPT !.tcb[t] = b]
putMutex(s, m, b) == [s EXCEPT !.mtxcb[m] = b]

LEMMA PutTask ==
  ASSUME NEW s \in Blocks, NEW t \in Tasks, NEW b \in TCB,
         NEW r, r = putTask(s, t, b)
  PROVE  /\ r \in Blocks /\ r.mtxcb = s.mtxcb /\ r.chain = s.chain
         /\ r.tcb[t] = b /\ \A u \in Tasks : u # t => r.tcb[u] = s.tcb[u]
<1>1. PICK f : f = [s.tcb EXCEPT ![t] = b]
  OBVIOUS
<1>2. s.tcb \in [Tasks -> TCB] /\ s.mtxcb \in [Mutexes -> MTXCB]
      /\ s.chain \in Seq([tcb : Tasks, pri : Pri])
  BY BlockTypes
<1>3. f \in [Tasks -> TCB] /\ f[t] = b /\ \A u \in Tasks : u # t => f[u] = s.tcb[u]
  BY <1>1, <1>2
<1>4. r = [tcb |-> f, mtxcb |-> s.mtxcb, chain |-> s.chain]
  BY <1>1 DEF Blocks, putTask
<1>5. r \in Blocks
  BY <1>2, <1>3, <1>4 DEF Blocks
<1> QED BY <1>3, <1>4, <1>5

LEMMA PutMutex ==
  ASSUME NEW s \in Blocks, NEW m \in Mutexes, NEW b \in MTXCB,
         NEW r, r = putMutex(s, m, b)
  PROVE  /\ r \in Blocks /\ r.tcb = s.tcb /\ r.chain = s.chain
         /\ r.mtxcb[m] = b /\ \A n \in Mutexes : n # m => r.mtxcb[n] = s.mtxcb[n]
<1>1. PICK g : g = [s.mtxcb EXCEPT ![m] = b]
  OBVIOUS
<1>2. s.tcb \in [Tasks -> TCB] /\ s.mtxcb \in [Mutexes -> MTXCB]
      /\ s.chain \in Seq([tcb : Tasks, pri : Pri])
  BY BlockTypes
<1>3. g \in [Mutexes -> MTXCB] /\ g[m] = b /\ \A n \in Mutexes : n # m => g[n] = s.mtxcb[n]
  BY <1>1, <1>2
<1>4. r = [tcb |-> s.tcb, mtxcb |-> g, chain |-> s.chain]
  BY <1>1 DEF Blocks, putMutex
<1>5. r \in Blocks
  BY <1>2, <1>3, <1>4 DEF Blocks
<1> QED BY <1>3, <1>4, <1>5

---------------------------------------------------------------------------

\* Where only priorities differ, the same tasks wait for the same owners.
LEMMA ReorderedKeeps ==
  ASSUME NEW r \in Blocks, NEW s \in Blocks, Reordered(r, s), NEW X, NEW D
  PROVE  /\ \A t \in Tasks : Waits(r, t) <=> Waits(s, t)
         /\ \A m \in Mutexes : Waiters(r, X, m) = Waiters(s, X, m)
         /\ \A S \in SUBSET Tasks : Graph(s) /\ Closed(s, S) => Closed(r, S)
         /\ Graph(s) => /\ \A t \in Tasks : Waits(s, t) => OwnerOf(r, t) = OwnerOf(s, t)
                        /\ Graph(r)
         /\ Owned(s, X, D) => Owned(r, X, D)
         /\ Created(s) => Created(r)
         /\ Obeyed(s, X) => Obeyed(r, X)
<1>1. \A t \in Tasks : Waits(r, t) <=> Waits(s, t)
  BY DEF Reordered, Waits
<1>2. ASSUME NEW m \in Mutexes PROVE Waiters(r, X, m) = Waiters(s, X, m)
  BY <1>1 DEF Reordered, Waiters
<1>3. ASSUME Graph(s), NEW t \in Tasks, Waits(s, t)
      PROVE  OwnerOf(r, t) = OwnerOf(s, t) /\ r.tcb[t].wid \in Mutexes
  BY <1>3 DEF Graph, Reordered, OwnerOf
<1>4. ASSUME Graph(s), NEW S \in SUBSET Tasks, Closed(s, S)
      PROVE  Closed(r, S)
  BY <1>1, <1>3, <1>4 DEF Closed
<1>5. ASSUME Graph(s) PROVE Graph(r)
  <2>1. ASSUME NEW t \in Tasks, Waits(r, t)
        PROVE  \E S \in SUBSET (Tasks \ {t}) : OwnerOf(r, t) \in S /\ Closed(r, S)
    <3>1. PICK S \in SUBSET (Tasks \ {t}) : OwnerOf(s, t) \in S /\ Closed(s, S)
      BY <1>1, <1>5, <2>1 DEF Graph
    <3> QED BY <1>1, <1>3, <1>4, <1>5, <2>1, <3>1
  <2>2. ASSUME NEW t \in Tasks, ~Waits(r, t)
        PROVE  r.tcb[t].wid = NULL
    BY <1>1, <1>5, <2>2 DEF Graph, Reordered
  <2> QED BY <1>1, <1>3, <1>5, <2>1, <2>2 DEF Graph
<1>6. ASSUME Owned(s, X, D) PROVE Owned(r, X, D)
  <2>1. ASSUME NEW t \in Tasks \ X
        PROVE  {m \in Mutexes \ D : r.mtxcb[m].mtxtsk = t} = {m \in Mutexes \ D : s.mtxcb[m].mtxtsk = t}
    BY DEF Reordered
  <2> QED BY <1>6, <2>1 DEF Owned, Reordered
<1>7. Created(s) => Created(r)
  BY DEF Created, Reordered
<1>8. Obeyed(s, X) => Obeyed(r, X)
  BY DEF Obeyed, Reordered
<1> QED BY <1>1, <1>2, <1>3, <1>4, <1>5, <1>6, <1>7, <1>8

\* Reordering twice.
LEMMA ReorderedTwice ==
  ASSUME NEW q, NEW r, NEW s, Reordered(q, r), Reordered(r, s)
  PROVE  Reordered(q, s)
BY DEF Reordered

\* The owner of what a task waits for is another task.
LEMMA OwnerOther ==
  ASSUME NEW s \in Blocks, Graph(s), NEW t \in Tasks, Waits(s, t)
  PROVE  OwnerOf(s, t) \in Tasks \ {t} /\ s.tcb[t].wid \in Mutexes
BY DEF Graph

\* What a task owns, as its list says.
LEMMA ListOwned ==
  ASSUME NEW s \in Blocks, NEW X, NEW D, Owned(s, X, D), NEW t \in Tasks \ X
  PROVE  Range(s.tcb[t].mtxlist) = {m \in Mutexes \ D : s.mtxcb[m].mtxtsk = t}
BY DEF Owned, Lists

---------------------------------------------------------------------------
(* Priorities. *)

\* A set of priorities has one lowest.
LEMMA PriFacts == Pri \subseteq Nat /\ Pri \subseteq Int /\ 0 \in Pri
BY MtxPriAssumption DEF Pri

LEMMA LowestOnce ==
  ASSUME NEW S \in SUBSET Pri, NEW x, NEW y, Lowest(x, S), Lowest(y, S)
  PROVE  x = y
BY PriFacts DEF Lowest

\* The head of a queue in the order of priorities has the most urgent one.
LEMMA HeadLowest ==
  ASSUME NEW q, NEW S, Lists(q, S), NEW pri, InOrder(q, pri), q # << >>,
         \A u \in S : pri[u] \in Int
  PROVE  Head(q) \in S /\ \A u \in S : pri[Head(q)] <= pri[u]
<1>1. /\ q \in Seq(S) /\ Len(q) \in Nat
      /\ \A i \in 1 .. Len(q) : q[i] \in S
      /\ \A x \in S : \E i \in 1 .. Len(q) : q[i] = x
  BY ListsPlaces
<1>2. Len(q) # 0 /\ 1 \in 1 .. Len(q)
  BY <1>1, EmptySeq
<1>3. Head(q) = q[1]
  BY <1>1
<1>4. ASSUME NEW u \in S PROVE pri[q[1]] <= pri[u]
  <2>1. PICK i \in 1 .. Len(q) : q[i] = u
    BY <1>1
  <2>2. CASE i = 1
    BY <2>1, <2>2
  <2>3. CASE i # 1
    <3>1. 1 < i
      BY <1>1, <2>3
    <3> QED BY <1>2, <2>1, <3>1 DEF InOrder
  <2> QED BY <2>2, <2>3
<1> QED BY <1>1, <1>2, <1>3, <1>4

\* highest computes what a task needs, but for its base priority.
LEMMA HighestLowest ==
  ASSUME NEW s \in Blocks, NEW X, Queues(s, X), Ordered(s), NEW t \in Tasks, NEW p \in Pri
  PROVE  Lowest(highest(s, t, p),
                {y \in Pri : y = p \/ \E m \in Range(s.tcb[t].mtxlist) : y \in Asked(s, X, m)})
<1> DEFINE L == Range(s.tcb[t].mtxlist)
           H == {p} \cup UNION {demands(s, m) : m \in L}
<1>1. L \subseteq Mutexes
  <2>1. s.tcb[t].mtxlist \in Seq(Mutexes)
    BY BlockTypes
  <2> QED BY <2>1, RangeOfSeq
<1>2. ASSUME NEW m \in Mutexes
      PROVE  /\ \A y \in demands(s, m) : y \in Pri /\ y \in Asked(s, X, m)
             /\ \A y \in Asked(s, X, m) : \E z \in demands(s, m) : z <= y
  <2>1. /\ s.mtxcb[m].ceilpri \in Pri
        /\ \A u \in Tasks : s.tcb[u].priority \in Pri
    BY BlockTypes
  <2>2. CASE s.mtxcb[m].mtxatr = "CEILING"
    BY <2>1, <2>2, PriFacts DEF demands, Asked
  <2>3. CASE s.mtxcb[m].mtxatr = "INHERIT"
    <3> DEFINE q == s.mtxcb[m].wait_queue
               W == Waiters(s, X, m)
    <3>1. Lists(q, W) /\ InOrder(q, priority(s)) /\ W \subseteq Tasks
      BY <2>3 DEF Queues, Ordered, Waiters
    <3>2. \A u \in Tasks : priority(s)[u] = s.tcb[u].priority
      BY DEF priority
    <3>3. CASE q = << >>
      <4>1. W = {}
        BY <3>1, <3>3, EmptyList
      <4>2. demands(s, m) = {}
        BY <2>3, <3>3 DEF demands, mtx_waited
      <4> QED BY <2>3, <4>1, <4>2 DEF Asked
    <3>4. CASE q # << >>
      <4>1. \A u \in W : priority(s)[u] \in Int
        BY <2>1, <3>1, <3>2, PriFacts
      <4> HIDE DEF q, W
      <4>2. Head(q) \in W /\ \A u \in W : priority(s)[Head(q)] <= priority(s)[u]
        BY <3>1, <3>4, <4>1, HeadLowest
      <4>3. demands(s, m) = {s.tcb[Head(q)].priority}
        BY <2>3, <3>4 DEF demands, mtx_waited, mtx_head_pri, q
      <4>4. Asked(s, X, m) = {y \in Pri : \E u \in W : y = s.tcb[u].priority}
        BY <2>3 DEF Asked, W
      <4> QED BY <2>1, <3>1, <3>2, <4>2, <4>3, <4>4
    <3> QED BY <3>3, <3>4
  <2>4. CASE s.mtxcb[m].mtxatr \notin {"CEILING", "INHERIT"}
    BY <2>4 DEF demands, Asked
  <2> QED BY <2>2, <2>3, <2>4
<1>3. H \in SUBSET Nat /\ H # {} /\ H \subseteq Pri
  <2>1. H \subseteq Pri
    BY <1>1, <1>2
  <2> QED BY <2>1, PriFacts
<1> HIDE DEF L
<1>4. highest(s, t, p) = Min(H)
  BY DEF highest, L
<1>5. Min(H) \in H /\ \A y \in H : Min(H) <= y
  <2> HIDE DEF H
  <2> QED BY <1>3, MinOfNats
<1>6. PICK x : x = Min(H)
  OBVIOUS
<1>7. x \in Pri /\ (x = p \/ \E m \in L : x \in Asked(s, X, m))
  BY <1>1, <1>2, <1>3, <1>5, <1>6
<1>8. ASSUME NEW y \in Pri, y = p \/ \E m \in L : y \in Asked(s, X, m)
      PROVE  x <= y
  <2>1. CASE y = p
    BY <1>5, <1>6, <2>1
  <2>2. CASE \E m \in L : y \in Asked(s, X, m)
    <3>1. PICK m \in L : y \in Asked(s, X, m)
      BY <2>2
    <3>2. PICK z \in demands(s, m) : z <= y
      BY <1>1, <1>2, <3>1
    <3>3. z \in H /\ z \in Pri
      BY <1>1, <1>2, <3>1
    <3>4. x <= z
      BY <1>5, <1>6, <3>3
    <3>5. x \in Int /\ y \in Int /\ z \in Int
      BY <1>7, <1>8, <3>3, PriFacts
    <3> QED BY <3>2, <3>4, <3>5
  <2> QED BY <1>8, <2>1, <2>2
<1> QED BY <1>4, <1>6, <1>7, <1>8 DEF Lowest, L
---------------------------------------------------------------------------
(* A change of priority. *)

\* Its first assignment.
repriced(s, t, p) == [s EXCEPT !.tcb[t].priority = p, !.chain = << >>]

LEMMA Repriced ==
  ASSUME NEW s \in Blocks, NEW t \in Tasks, NEW p \in Pri,
         NEW r, r = repriced(s, t, p)
  PROVE  /\ r \in Blocks /\ r.mtxcb = s.mtxcb /\ r.chain = << >> /\ Reordered(r, s)
         /\ r.tcb[t].priority = p
         /\ \A u \in Tasks : u # t => r.tcb[u] = s.tcb[u]
<1>1. PICK b : b = [s.tcb[t] EXCEPT !.priority = p]
  OBVIOUS
<1>2. s.tcb[t] \in TCB
  BY BlockTypes
<1>3. /\ b \in TCB /\ b.priority = p /\ b.state = s.tcb[t].state
      /\ b.bpriority = s.tcb[t].bpriority /\ b.wid = s.tcb[t].wid
      /\ b.mtxlist = s.tcb[t].mtxlist
  BY <1>1, <1>2 DEF TCB
<1>4. PICK f : f = [s.tcb EXCEPT ![t] = b]
  OBVIOUS
<1>5. s.tcb \in [Tasks -> TCB] /\ s.mtxcb \in [Mutexes -> MTXCB]
  BY BlockTypes
<1>6. f \in [Tasks -> TCB] /\ f[t] = b /\ \A u \in Tasks : u # t => f[u] = s.tcb[u]
  BY <1>3, <1>4, <1>5
<1>7. r = [tcb |-> f, mtxcb |-> s.mtxcb, chain |-> << >>]
  BY <1>1, <1>4, <1>5 DEF Blocks, repriced
<1>8. << >> \in Seq([tcb : Tasks, pri : Pri])
  BY EmptySeq
<1>9. r \in Blocks
  BY <1>5, <1>6, <1>7, <1>8 DEF Blocks
<1>10. r.tcb = f /\ r.mtxcb = s.mtxcb /\ r.chain = << >>
  BY <1>7
<1>11. Reordered(r, s)
  BY <1>3, <1>6, <1>10 DEF Reordered
<1> QED BY <1>3, <1>6, <1>9, <1>10, <1>11

\* The task takes its new place in the queue.
LEMMA Requeued ==
  ASSUME NEW s \in Blocks, NEW X, Queues(s, X), NEW t \in Tasks \ X, Waits(s, t),
         NEW m \in Mutexes, m = s.tcb[t].wid, NEW r, r = requeued(s, t)
  PROVE  /\ r \in Blocks /\ r.tcb = s.tcb /\ r.chain = s.chain /\ Reordered(r, s)
         /\ r.mtxcb[m].wait_queue =
              queue_insert_tpri(QueRemove(s.mtxcb[m].wait_queue, t), t, priority(s))
         /\ \A n \in Mutexes : n # m => r.mtxcb[n] = s.mtxcb[n]
         /\ Queues(r, X)
<1>1. PICK q : q = queue_insert_tpri(QueRemove(s.mtxcb[m].wait_queue, t), t, priority(s))
  OBVIOUS
<1>2. PICK W : W = Waiters(s, X, m)
  OBVIOUS
<1>3. t \in W /\ W \in SUBSET Tasks /\ Lists(s.mtxcb[m].wait_queue, W)
  BY <1>2 DEF Waiters, Queues
<1>4. Lists(q, W)
  <2>1. Lists(QueRemove(s.mtxcb[m].wait_queue, t), W \ {t})
    BY <1>3, RemoveList
  <2>2. Lists(q, (W \ {t}) \cup {t})
    BY <1>1, <2>1, InsertList
  <2>3. (W \ {t}) \cup {t} = W
    BY <1>3
  <2> QED BY <2>2, <2>3
<1>5. PICK b : b = [s.mtxcb[m] EXCEPT !.wait_queue = q]
  OBVIOUS
<1>6. q \in Seq(Tasks)
  BY <1>3, <1>4, ListsSeq
<1>7. s.mtxcb[m] \in MTXCB /\ s.mtxcb \in [Mutexes -> MTXCB]
  BY BlockTypes
<1>8. /\ b \in MTXCB /\ b.wait_queue = q /\ b.mtxid = s.mtxcb[m].mtxid
      /\ b.mtxatr = s.mtxcb[m].mtxatr /\ b.ceilpri = s.mtxcb[m].ceilpri
      /\ b.mtxtsk = s.mtxcb[m].mtxtsk
  BY <1>5, <1>6, <1>7 DEF MTXCB
<1>9. r = putMutex(s, m, b)
  <2>1. r = [s EXCEPT !.mtxcb[m].wait_queue = q]
    BY <1>1 DEF requeued
  <2> QED BY <1>5, <2>1 DEF putMutex
<1>10. /\ r \in Blocks /\ r.tcb = s.tcb /\ r.chain = s.chain
       /\ r.mtxcb[m] = b /\ \A n \in Mutexes : n # m => r.mtxcb[n] = s.mtxcb[n]
  BY <1>8, <1>9, PutMutex
<1>11. Reordered(r, s)
  BY <1>8, <1>10 DEF Reordered
<1>12. Queues(r, X)
  <2>1. \A n \in Mutexes : Waiters(r, X, n) = Waiters(s, X, n)
    BY <1>10 DEF Waiters, Waits
  <2> QED BY <1>2, <1>4, <1>8, <1>10, <2>1 DEF Queues
<1> QED BY <1>1, <1>8, <1>10, <1>11, <1>12

\* change_task_priority without the call it ends with.
settled(s) ==
  LET t  == s.chain[1].tcb
      s1 == repriced(s, t, s.chain[1].pri)
  IN IF s.tcb[t].state = "WAIT" /\ s.mtxcb[s.tcb[t].wid].mtxatr # "TFIFO"
     THEN requeued(s1, t)
     ELSE s1

LEMMA Settled ==
  ASSUME NEW s \in Blocks, NEW X, Queues(s, X), Ordered(s), Graph(s),
         s.chain # << >>, NEW t \in Tasks \ X, t = s.chain[1].tcb, NEW r, r = settled(s)
  PROVE  /\ r \in Blocks /\ r.chain = << >> /\ Reordered(r, s)
         /\ Queues(r, X) /\ Ordered(r)
         /\ r.tcb[t].priority = s.chain[1].pri
         /\ \A u \in Tasks : u # t => r.tcb[u] = s.tcb[u]
         /\ \A m \in Mutexes : (Waits(s, t) /\ m = s.tcb[t].wid) \/ r.mtxcb[m] = s.mtxcb[m]
<1>1. PICK p : p = s.chain[1].pri
  OBVIOUS
<1>2. p \in Pri
  BY <1>1, BlockTypes
<1>3. PICK s1 : s1 = repriced(s, t, p)
  OBVIOUS
<1>4. /\ s1 \in Blocks /\ s1.mtxcb = s.mtxcb /\ s1.chain = << >> /\ Reordered(s1, s)
      /\ s1.tcb[t].priority = p
      /\ \A u \in Tasks : u # t => s1.tcb[u] = s.tcb[u]
  BY <1>2, <1>3, Repriced
<1>5. /\ Waits(s1, t) <=> Waits(s, t)
      /\ \A m \in Mutexes : Waiters(s1, X, m) = Waiters(s, X, m)
      /\ s1.tcb[t].wid = s.tcb[t].wid
  <2>1. s1.tcb[t].wid = s.tcb[t].wid
    BY <1>4 DEF Reordered
  <2>2. /\ \A u \in Tasks : Waits(s1, u) <=> Waits(s, u)
        /\ \A m \in Mutexes : Waiters(s1, X, m) = Waiters(s, X, m)
    BY <1>4, ReorderedKeeps
  <2> QED BY <2>1, <2>2
<1>6. Queues(s1, X)
  BY <1>4, <1>5 DEF Queues
<1>7. \A u \in Tasks : /\ priority(s)[u] = s.tcb[u].priority /\ priority(s1)[u] = s1.tcb[u].priority
                       /\ priority(s)[u] \in Int /\ priority(s1)[u] \in Int
  <2>1. \A u \in Tasks : s.tcb[u].priority \in Pri /\ s1.tcb[u].priority \in Pri
    BY <1>4, BlockTypes
  <2> QED BY <2>1, PriFacts DEF priority
<1>8. ASSUME NEW m \in Mutexes, s.mtxcb[m].mtxatr # "TFIFO", ~(Waits(s, t) /\ m = s.tcb[t].wid)
      PROVE  InOrder(s1.mtxcb[m].wait_queue, priority(s1))
  <2>1. Lists(s.mtxcb[m].wait_queue, Waiters(s, X, m)) /\ InOrder(s.mtxcb[m].wait_queue, priority(s))
    BY <1>8 DEF Queues, Ordered
  <2>2. \A x \in Waiters(s, X, m) : priority(s1)[x] = priority(s)[x]
    BY <1>4, <1>7, <1>8 DEF Waiters
  <2> QED BY <1>4, <2>1, <2>2, SameOrder
<1>9. CASE Waits(s, t) /\ s.mtxcb[s.tcb[t].wid].mtxatr # "TFIFO"
  <2>1. PICK m \in Mutexes : m = s.tcb[t].wid
    BY <1>9 DEF Graph
  <2>2. r = requeued(s1, t)
    BY <1>1, <1>3, <1>9 DEF settled, Waits
  <2>3. /\ r \in Blocks /\ r.tcb = s1.tcb /\ r.chain = s1.chain /\ Reordered(r, s1)
        /\ r.mtxcb[m].wait_queue =
             queue_insert_tpri(QueRemove(s1.mtxcb[m].wait_queue, t), t, priority(s1))
        /\ \A n \in Mutexes : n # m => r.mtxcb[n] = s1.mtxcb[n]
        /\ Queues(r, X)
    <3>1. Waits(s1, t) /\ m = s1.tcb[t].wid /\ s1 \in Blocks
      BY <1>4, <1>5, <1>9, <2>1
    <3> QED BY <1>6, <2>2, <3>1, Requeued
  <2>4. Reordered(r, s)
    BY <1>4, <2>3, ReorderedTwice
  <2>5. priority(r) = priority(s1)
    BY <2>3 DEF priority
  <2>6. InOrder(r.mtxcb[m].wait_queue, priority(s1))
    <3>1. PICK q, W : q = s.mtxcb[m].wait_queue /\ W = Waiters(s, X, m)
      OBVIOUS
    <3>2. Lists(q, W) /\ InOrder(q, priority(s)) /\ W \subseteq Tasks
      BY <1>9, <2>1, <3>1 DEF Queues, Ordered, Waiters
    <3>3. Lists(QueRemove(q, t), W \ {t}) /\ InOrder(QueRemove(q, t), priority(s))
      BY <3>2, RemoveList, RemoveOrder
    <3>4. \A x \in W \ {t} : priority(s1)[x] = priority(s)[x]
      BY <1>4, <1>7, <3>2
    <3>5. InOrder(QueRemove(q, t), priority(s1))
      BY <3>3, <3>4, SameOrder
    <3>6. InOrder(queue_insert_tpri(QueRemove(q, t), t, priority(s1)), priority(s1))
      BY <1>7, <3>2, <3>3, <3>5, InsertOrder
    <3> QED BY <1>4, <2>3, <3>1, <3>6
  <2>7. Ordered(r)
    <3>1. ASSUME NEW n \in Mutexes, n # m, r.mtxcb[n].mtxatr # "TFIFO"
          PROVE  InOrder(r.mtxcb[n].wait_queue, priority(r))
      <4>1. r.mtxcb[n] = s1.mtxcb[n] /\ s1.mtxcb[n] = s.mtxcb[n]
        BY <1>4, <2>3, <3>1
      <4> QED BY <1>8, <2>1, <2>5, <3>1, <4>1
    <3> QED BY <2>5, <2>6, <3>1 DEF Ordered
  <2> QED BY <1>1, <1>4, <1>9, <2>1, <2>3, <2>4, <2>7
<1>10. CASE ~(Waits(s, t) /\ s.mtxcb[s.tcb[t].wid].mtxatr # "TFIFO")
  <2>1. r = s1
    BY <1>1, <1>3, <1>10 DEF settled, Waits
  <2>2. Ordered(s1)
    BY <1>4, <1>8, <1>10 DEF Ordered
  <2> QED BY <1>1, <1>4, <1>6, <2>1, <2>2
<1> QED BY <1>9, <1>10
---------------------------------------------------------------------------

\* Nothing but the chain differs.
LEMMA SameBlocks ==
  ASSUME NEW r \in Blocks, NEW s \in Blocks, r.tcb = s.tcb, r.mtxcb = s.mtxcb, NEW X, NEW E
  PROVE  /\ Reordered(r, s)
         /\ Queues(s, X) => Queues(r, X)
         /\ Ordered(s) => Ordered(r)
         /\ \A t \in Tasks : Needs(r, X, E, t) = Needs(s, X, E, t)
         /\ \A t \in Tasks : RightOf(r, X, E, t) <=> RightOf(s, X, E, t)
<1>1. \A m \in Mutexes : Waiters(r, X, m) = Waiters(s, X, m)
  BY DEF Waiters, Waits
<1>2. priority(r) = priority(s)
  BY DEF priority
<1>3. \A m : Asked(r, X, m) = Asked(s, X, m)
  BY DEF Asked, Waiters, Waits
<1>4. \A t \in Tasks : Needs(r, X, E, t) = Needs(s, X, E, t)
  BY <1>3 DEF Needs
<1> QED BY <1>1, <1>2, <1>4 DEF Reordered, Queues, Ordered, RightOf

\* A call to be made that sets what the task needs.
LEMMA CallsRight ==
  ASSUME NEW s \in Blocks, NEW X, NEW E, NEW t \in Tasks \ X, NEW p \in Pri,
         Lowest(p, Needs(s, X, E, t)),
         \A u \in Tasks \ X : u # t => RightOf(s, X, E, u)
  PROVE  Right(calls(s, t, p), X, E)
<1>1. PICK r : r = calls(s, t, p)
  OBVIOUS
<1>2. /\ r \in Blocks /\ r.tcb = s.tcb /\ r.mtxcb = s.mtxcb
      /\ r.chain # << >> /\ r.chain[1].tcb = t /\ r.chain[1].pri = p
  BY <1>1, Calls
<1>3. /\ \A u \in Tasks : Needs(r, X, E, u) = Needs(s, X, E, u)
      /\ \A u \in Tasks : RightOf(r, X, E, u) <=> RightOf(s, X, E, u)
  BY <1>2, SameBlocks
<1> QED BY <1>1, <1>2, <1>3 DEF Right

\* reset_priority makes the call that is needed, if any.
LEMMA ResetRight ==
  ASSUME NEW s \in Blocks, NEW X, NEW E, NEW t \in Tasks \ X,
         s.chain = << >>, Queues(s, X), Ordered(s), E[t] = {},
         \A u \in Tasks \ X : u # t => RightOf(s, X, E, u),
         NEW r, r = reset_priority(s, t)
  PROVE  /\ r \in Blocks /\ r.tcb = s.tcb /\ r.mtxcb = s.mtxcb
         /\ r.chain # << >> => r.chain[1].tcb = t
         /\ Right(r, X, E)
<1>1. PICK p : p = highest(s, t, s.tcb[t].bpriority)
  OBVIOUS
<1>2. s.tcb[t].bpriority \in Pri
  BY BlockTypes
<1>3. Lowest(p, Needs(s, X, E, t)) /\ p \in Pri
  <2>1. PICK N : N = {y \in Pri : \/ y = s.tcb[t].bpriority
                                  \/ \E m \in Range(s.tcb[t].mtxlist) : y \in Asked(s, X, m)}
    OBVIOUS
  <2>2. Lowest(p, N)
    BY <1>1, <1>2, <2>1, HighestLowest
  <2>3. Needs(s, X, E, t) = N
    BY <2>1 DEF Needs
  <2> QED BY <2>1, <2>2, <2>3 DEF Lowest
<1>4. CASE p # s.tcb[t].priority
  <2>1. r = calls(s, t, p)
    BY <1>1, <1>4 DEF reset_priority
  <2>2. Right(calls(s, t, p), X, E)
    BY <1>3, CallsRight
  <2>3. /\ r \in Blocks /\ r.tcb = s.tcb /\ r.mtxcb = s.mtxcb /\ r.chain[1].tcb = t
    BY <1>3, <2>1, Calls
  <2> QED BY <2>1, <2>2, <2>3
<1>5. CASE p = s.tcb[t].priority
  <2>1. r = s
    BY <1>1, <1>5 DEF reset_priority
  <2>2. RightOf(s, X, E, t)
    BY <1>3, <1>5 DEF RightOf
  <2> QED BY <2>1, <2>2 DEF Right
<1> QED BY <1>4, <1>5

\* What a task needs does not depend on the priority of a task that waits for
\* none of its mutexes, or for one that does not inherit.
LEMMA NeedsKept ==
  ASSUME NEW r \in Blocks, NEW s \in Blocks, Reordered(r, s), NEW X, NEW E, NEW t \in Tasks,
         OnlyOf(r, s, t), NEW u \in Tasks, ~Heeds(s, u, t)
  PROVE  Needs(r, X, E, u) = Needs(s, X, E, u)
<1>1. Range(s.tcb[u].mtxlist) \subseteq Mutexes
  <2>1. s.tcb[u].mtxlist \in Seq(Mutexes)
    BY BlockTypes
  <2> QED BY <2>1, RangeOfSeq
<1>2. ASSUME NEW m \in Range(s.tcb[u].mtxlist)
      PROVE  Asked(r, X, m) = Asked(s, X, m)
  <2>1. /\ m \in Mutexes /\ r.mtxcb[m].mtxatr = s.mtxcb[m].mtxatr
        /\ r.mtxcb[m].ceilpri = s.mtxcb[m].ceilpri
        /\ Waiters(r, X, m) = Waiters(s, X, m)
    <3>1. m \in Mutexes
      BY <1>1
    <3>2. Waiters(r, X, m) = Waiters(s, X, m)
      BY <3>1, ReorderedKeeps
    <3> QED BY <3>1, <3>2 DEF Reordered
  <2>2. ASSUME NEW w \in Waiters(s, X, m), s.mtxcb[m].mtxatr = "INHERIT"
        PROVE  r.tcb[w].priority = s.tcb[w].priority
    BY <2>1, <2>2 DEF Waiters, Heeds, Inherits, Waits, OnlyOf
  <2> QED BY <2>1, <2>2 DEF Asked
<1>3. r.tcb[u].bpriority = s.tcb[u].bpriority /\ r.tcb[u].mtxlist = s.tcb[u].mtxlist
  BY DEF Reordered
<1> QED BY <1>2, <1>3 DEF Needs

\* What u needs for others than t.
OtherNeeds(s, X, E, u, t) ==
  {y \in Pri :
     \/ y = s.tcb[u].bpriority
     \/ y \in E[u]
     \/ \E m \in Range(s.tcb[u].mtxlist) :
          \/ s.mtxcb[m].mtxatr = "CEILING" /\ y = s.mtxcb[m].ceilpri
          \/ /\ s.mtxcb[m].mtxatr = "INHERIT"
             /\ \E w \in Waiters(s, X, m) : w # t /\ y = s.tcb[w].priority}

NeedsMove(r, s, X, E, u, t) ==
  /\ Needs(s, X, E, u) = OtherNeeds(s, X, E, u, t) \cup {s.tcb[t].priority}
  /\ Needs(r, X, E, u) = OtherNeeds(s, X, E, u, t) \cup {r.tcb[t].priority}

\* What the owner needs follows the priority of a task that waits.
LEMMA NeedsMoved ==
  ASSUME NEW r \in Blocks, NEW s \in Blocks, Reordered(r, s), NEW X, NEW E, NEW t \in Tasks \ X,
         OnlyOf(r, s, t), NEW u \in Tasks, Heeds(s, u, t)
  PROVE  NeedsMove(r, s, X, E, u, t)
<1>1. PICK L : L = Range(s.tcb[u].mtxlist)
  OBVIOUS
<1>2. L \subseteq Mutexes
  <2>1. s.tcb[u].mtxlist \in Seq(Mutexes)
    BY BlockTypes
  <2> QED BY <1>1, <2>1, RangeOfSeq
<1>3. PICK R : R = OtherNeeds(s, X, E, u, t)
  OBVIOUS
<1>4. /\ r.tcb[u].bpriority = s.tcb[u].bpriority /\ r.tcb[u].mtxlist = s.tcb[u].mtxlist
      /\ s.tcb[t].priority \in Pri /\ r.tcb[t].priority \in Pri
  BY BlockTypes DEF Reordered
<1>5. ASSUME NEW m \in L
      PROVE  /\ r.mtxcb[m].mtxatr = s.mtxcb[m].mtxatr /\ r.mtxcb[m].ceilpri = s.mtxcb[m].ceilpri
             /\ Waiters(r, X, m) = Waiters(s, X, m) /\ Waiters(s, X, m) \subseteq Tasks
  <2>1. m \in Mutexes
    BY <1>2
  <2>2. Waiters(r, X, m) = Waiters(s, X, m)
    BY <2>1, ReorderedKeeps
  <2> QED BY <2>1, <2>2 DEF Reordered, Waiters
<1>6. \E m \in L : s.mtxcb[m].mtxatr = "INHERIT" /\ t \in Waiters(s, X, m)
  BY <1>1, <1>2 DEF Waiters, Heeds, Inherits
<1>7. Needs(s, X, E, u) = R \cup {s.tcb[t].priority}
  BY <1>1, <1>3, <1>4, <1>6 DEF Needs, Asked, OtherNeeds
<1>8. Needs(r, X, E, u) = R \cup {r.tcb[t].priority}
  BY <1>1, <1>3, <1>4, <1>5, <1>6 DEF Needs, Asked, OnlyOf, OtherNeeds
<1> QED BY <1>3, <1>7, <1>8 DEF NeedsMove

\* What the lowest priority becomes when one of them changes.
LEMMA LowestMoved ==
  ASSUME NEW R \in SUBSET Pri, NEW x \in Pri, NEW y \in Pri, NEW z,
         Lowest(z, R \cup {x})
  PROVE  /\ z > y => Lowest(y, R \cup {y})
         /\ z <= y /\ z # x => Lowest(z, R \cup {y})
<1>1. \A w \in R : w \in Int /\ z <= w
  BY PriFacts DEF Lowest
<1>2. z \in Int /\ y \in Int /\ x \in Int /\ (z \in R \/ z = x)
  BY PriFacts DEF Lowest
<1>3. z > y => Lowest(y, R \cup {y})
  BY <1>1, <1>2 DEF Lowest
<1>4. z <= y /\ z # x => Lowest(z, R \cup {y})
  BY <1>1, <1>2 DEF Lowest
<1> QED BY <1>3, <1>4
---------------------------------------------------------------------------

\* Once the priority has been set, every task has what it needs, but the owner
\* of what the task waits for may not, if it inherits.
LEMMA SettledRight ==
  ASSUME NEW s \in Blocks, NEW X, Queues(s, X), Ordered(s), Graph(s),
         NEW D, Owned(s, X, D), NEW E, Right(s, X, E),
         s.chain # << >>, NEW t \in Tasks \ X, t = s.chain[1].tcb, NEW r, r = settled(s)
  PROVE  /\ ~Inherits(s, t) => Right(r, X, E)
         /\ \A u \in Tasks \ X : ~Waits(s, t) \/ u # OwnerOf(s, t) => RightOf(r, X, E, u)
<1>1. /\ r \in Blocks /\ r.chain = << >> /\ Reordered(r, s)
      /\ r.tcb[t].priority = s.chain[1].pri
      /\ \A u \in Tasks : u # t => r.tcb[u] = s.tcb[u]
  BY Settled
<1>2. ASSUME NEW u \in Tasks \ X,
             ~(Inherits(s, t) /\ u = OwnerOf(s, t))
      PROVE  RightOf(r, X, E, u)
  <2>1. ~Heeds(s, u, t)
    <3>1. Range(s.tcb[u].mtxlist) = {m \in Mutexes \ D : s.mtxcb[m].mtxtsk = u}
      BY ListOwned
    <3> QED BY <1>2, <3>1 DEF OwnerOf, Heeds
  <2>2. OnlyOf(r, s, t)
    BY <1>1 DEF OnlyOf
  <2>3. Needs(r, X, E, u) = Needs(s, X, E, u)
    BY <1>1, <2>1, <2>2, NeedsKept
  <2>4. CASE u = t
    BY <1>1, <2>3, <2>4 DEF Right, RightOf
  <2>5. CASE u # t
    <3>1. RightOf(s, X, E, u)
      BY <2>5 DEF Right
    <3> QED BY <2>2, <2>3, <2>5, <3>1 DEF RightOf, OnlyOf
  <2> QED BY <2>4, <2>5
<1> QED BY <1>1, <1>2 DEF Right, Inherits

\* The step from one call of change_task_priority to the next.
LEMMA ChangeOneIs ==
  ASSUME NEW s \in Blocks, s.chain # << >>, Graph(s), NEW t \in Tasks, t = s.chain[1].tcb,
         NEW p, p = s.chain[1].pri
  PROVE  change_one(s) =
           IF ~Inherits(s, t) THEN settled(s)
           ELSE IF s.tcb[OwnerOf(s, t)].priority > p THEN calls(settled(s), OwnerOf(s, t), p)
           ELSE IF s.tcb[OwnerOf(s, t)].priority = s.tcb[t].priority
           THEN reset_priority(settled(s), OwnerOf(s, t))
           ELSE settled(s)
<1>1. PICK s1 : s1 = repriced(s, t, p)
  OBVIOUS
<1>2. p \in Pri
  BY BlockTypes
<1>3. /\ s1 \in Blocks /\ s1.mtxcb = s.mtxcb /\ Reordered(s1, s)
      /\ s1.tcb[t].priority = p
      /\ \A u \in Tasks : u # t => s1.tcb[u] = s.tcb[u]
  BY <1>1, <1>2, Repriced
<1>4. s1.tcb[t].wid = s.tcb[t].wid
  BY <1>3 DEF Reordered
<1>5. change_one(s) = IF Waits(s, t) /\ s.mtxcb[s.tcb[t].wid].mtxatr # "TFIFO"
                      THEN mtx_chg_pri(s1, t, s.tcb[t].priority) ELSE s1
  BY <1>1 DEF change_one, repriced, Waits
<1>6. settled(s) = IF Waits(s, t) /\ s.mtxcb[s.tcb[t].wid].mtxatr # "TFIFO"
                   THEN requeued(s1, t) ELSE s1
  BY <1>1 DEF settled, Waits
<1>7. CASE ~(Waits(s, t) /\ s.mtxcb[s.tcb[t].wid].mtxatr # "TFIFO")
  BY <1>5, <1>6, <1>7 DEF Inherits
<1>8. CASE Waits(s, t) /\ s.mtxcb[s.tcb[t].wid].mtxatr # "TFIFO"
  <2>1. PICK o : o = OwnerOf(s, t)
    OBVIOUS
  <2>2. o \in Tasks /\ o # t
    BY <1>8, <2>1, OwnerOther
  <2>3. s1.mtxcb[s1.tcb[t].wid].mtxtsk = o /\ s1.tcb[o].priority = s.tcb[o].priority
        /\ s1.mtxcb[s1.tcb[t].wid].mtxatr = s.mtxcb[s.tcb[t].wid].mtxatr
    BY <1>3, <1>4, <2>1, <2>2 DEF OwnerOf
  <2>4. mtx_chg_pri(s1, t, s.tcb[t].priority) =
          IF s.mtxcb[s.tcb[t].wid].mtxatr # "INHERIT" THEN requeued(s1, t)
          ELSE IF s.tcb[o].priority > p THEN calls(requeued(s1, t), o, p)
          ELSE IF s.tcb[o].priority = s.tcb[t].priority THEN reset_priority(requeued(s1, t), o)
          ELSE requeued(s1, t)
    BY <1>3, <2>3 DEF mtx_chg_pri
  <2> QED BY <1>5, <1>6, <1>8, <2>1, <2>4 DEF Inherits
<1> QED BY <1>7, <1>8

\* One call of change_task_priority leaves the blocks sound and, but for the
\* call that is to follow, the priorities right.
LEMMA ChangeOne ==
  ASSUME NEW s \in Blocks, NEW X, Queues(s, X), Ordered(s), Graph(s),
         NEW D, Owned(s, X, D), NEW E, Right(s, X, E),
         s.chain # << >>, NEW t \in Tasks \ X, t = s.chain[1].tcb,
         Waits(s, t) => /\ OwnerOf(s, t) \notin X
                        /\ s.tcb[t].wid \notin D /\ E[OwnerOf(s, t)] = {},
         NEW r, r = change_one(s)
  PROVE  /\ r \in Blocks /\ Reordered(r, s) /\ Queues(r, X) /\ Ordered(r) /\ Right(r, X, E)
         /\ r.chain # << >> => Waits(s, t) /\ r.chain[1].tcb = OwnerOf(s, t)
         /\ OnlyOf(r, s, t)
         /\ \A m \in Mutexes : (Waits(s, t) /\ m = s.tcb[t].wid) \/ r.mtxcb[m] = s.mtxcb[m]
<1>1. PICK q, p, o : q = settled(s) /\ p = s.chain[1].pri /\ o = OwnerOf(s, t)
  OBVIOUS
<1>2. /\ q \in Blocks /\ q.chain = << >> /\ Reordered(q, s)
      /\ Queues(q, X) /\ Ordered(q)
      /\ q.tcb[t].priority = p
      /\ \A u \in Tasks : u # t => q.tcb[u] = s.tcb[u]
      /\ \A m \in Mutexes : (Waits(s, t) /\ m = s.tcb[t].wid) \/ q.mtxcb[m] = s.mtxcb[m]
  BY <1>1, Settled
<1>3. p \in Pri
  BY <1>1, BlockTypes
<1>4. /\ ~Inherits(s, t) => Right(q, X, E)
      /\ \A u \in Tasks \ X : ~Waits(s, t) \/ u # o => RightOf(q, X, E, u)
  BY <1>1, SettledRight
<1>5. SUFFICES /\ r \in Blocks /\ r.tcb = q.tcb /\ r.mtxcb = q.mtxcb /\ Right(r, X, E)
               /\ r.chain # << >> => Waits(s, t) /\ r.chain[1].tcb = o
  <2>1. ASSUME /\ r \in Blocks /\ r.tcb = q.tcb /\ r.mtxcb = q.mtxcb /\ Right(r, X, E)
               /\ r.chain # << >> => Waits(s, t) /\ r.chain[1].tcb = o
        PROVE  Reordered(r, s) /\ Queues(r, X) /\ Ordered(r)
    <3>1. Reordered(r, q) /\ Queues(r, X) /\ Ordered(r)
      BY <1>2, <2>1, SameBlocks
    <3> QED BY <1>2, <3>1, ReorderedTwice
  <2> QED BY <1>1, <1>2, <2>1 DEF OnlyOf
<1>6. CASE ~Inherits(s, t)
  <2>1. r = q
    BY <1>1, <1>6, ChangeOneIs
  <2> QED BY <1>2, <1>4, <1>6, <2>1
<1>7. CASE Inherits(s, t)
  <2>1. o \in Tasks \ X /\ o # t /\ E[o] = {} /\ s.tcb[t].wid \in Range(s.tcb[o].mtxlist)
    <3>1. o \in Tasks /\ o # t /\ s.tcb[t].wid \in Mutexes
      BY <1>1, <1>7, OwnerOther DEF Inherits
    <3>2. Range(s.tcb[o].mtxlist) = {m \in Mutexes \ D : s.mtxcb[m].mtxtsk = o}
      BY <1>1, <1>7, <3>1, ListOwned DEF Inherits
    <3> QED BY <1>1, <1>7, <3>1, <3>2 DEF OwnerOf, Inherits
  <2>2. q.tcb[o] = s.tcb[o]
    BY <1>2, <2>1
  <2>3. PICK R \in SUBSET Pri : /\ Needs(s, X, E, o) = R \cup {s.tcb[t].priority}
                                /\ Needs(q, X, E, o) = R \cup {p}
    <3>1. OnlyOf(q, s, t) /\ q \in Blocks /\ Reordered(q, s) /\ o \in Tasks
      BY <1>2, <2>1 DEF OnlyOf
    <3>2. PICK R : R = OtherNeeds(s, X, E, o, t)
      OBVIOUS
    <3>3. R \in SUBSET Pri
      BY <3>2 DEF OtherNeeds
    <3>4. NeedsMove(q, s, X, E, o, t)
      <4>1. Heeds(s, o, t)
        BY <1>7, <2>1 DEF Heeds
      <4> QED BY <3>1, <4>1, NeedsMoved
    <3> QED BY <1>2, <3>2, <3>3, <3>4 DEF NeedsMove
  <2>4. Lowest(s.tcb[o].priority, R \cup {s.tcb[t].priority})
    BY <1>1, <2>1, <2>3 DEF Right, RightOf
  <2>5. /\ s.tcb[t].priority \in Pri /\ s.tcb[o].priority \in Pri
        /\ s.tcb[o].priority \in Int /\ p \in Int
    <3>1. s.tcb[t].priority \in Pri /\ s.tcb[o].priority \in Pri
      BY <2>1, BlockTypes
    <3> QED BY <1>3, <3>1, PriFacts
  <2>6. /\ s.tcb[o].priority > p => Lowest(p, R \cup {p})
        /\ s.tcb[o].priority <= p /\ s.tcb[o].priority # s.tcb[t].priority =>
             Lowest(s.tcb[o].priority, R \cup {p})
    <3>1. PICK x, z : x = s.tcb[t].priority /\ z = s.tcb[o].priority
      OBVIOUS
    <3>2. R \in SUBSET Pri /\ x \in Pri /\ Lowest(z, R \cup {x})
      BY <2>3, <2>4, <2>5, <3>1
    <3>3. /\ z > p => Lowest(p, R \cup {p})
          /\ z <= p /\ z # x => Lowest(z, R \cup {p})
      BY <1>3, <3>2, LowestMoved
    <3> QED BY <3>1, <3>3
  <2>7. \A u \in Tasks \ X : u # o => RightOf(q, X, E, u)
    BY <1>4
  <2>8. r = IF s.tcb[o].priority > p THEN calls(q, o, p)
            ELSE IF s.tcb[o].priority = s.tcb[t].priority THEN reset_priority(q, o)
            ELSE q
    BY <1>1, <1>7, ChangeOneIs
  <2>9. CASE s.tcb[o].priority > p
    <3>1. r = calls(q, o, p)
      BY <2>8, <2>9
    <3>2. Right(r, X, E)
      <4>1. Lowest(p, Needs(q, X, E, o)) /\ q \in Blocks
        BY <1>2, <2>3, <2>6, <2>9
      <4> QED BY <1>3, <2>1, <2>7, <3>1, <4>1, CallsRight
    <3>3. /\ r \in Blocks /\ r.tcb = q.tcb /\ r.mtxcb = q.mtxcb /\ r.chain[1].tcb = o
      BY <1>2, <1>3, <2>1, <3>1, Calls
    <3> QED BY <1>7, <3>2, <3>3 DEF Inherits
  <2>10. CASE s.tcb[o].priority <= p /\ s.tcb[o].priority = s.tcb[t].priority
    <3>1. r = reset_priority(q, o)
      BY <2>5, <2>8, <2>10
    <3>2. /\ r \in Blocks /\ r.tcb = q.tcb /\ r.mtxcb = q.mtxcb
          /\ r.chain # << >> => r.chain[1].tcb = o
          /\ Right(r, X, E)
      BY <1>2, <2>1, <2>7, <3>1, ResetRight
    <3> QED BY <1>7, <3>2 DEF Inherits
  <2>11. CASE s.tcb[o].priority <= p /\ s.tcb[o].priority # s.tcb[t].priority
    <3>1. r = q
      BY <2>5, <2>8, <2>11
    <3>2. RightOf(q, X, E, o)
      BY <2>2, <2>3, <2>6, <2>11 DEF RightOf
    <3>3. Right(q, X, E)
      BY <1>2, <2>7, <3>2 DEF Right
    <3> QED BY <1>2, <3>1, <3>3
  <2> QED BY <2>5, <2>9, <2>10, <2>11
<1> QED BY <1>6, <1>7
---------------------------------------------------------------------------
(* The chain of changes. *)

\* What change_task_priority reads off its recursive function, for n calls.
Chained(f, s, n) ==
  f = [i \in 0 .. n |-> IF i = 0 THEN s
                        ELSE IF f[i - 1].chain = << >> THEN f[i - 1]
                        ELSE change_one(f[i - 1])]

\* There is such a function: the least n without one would be one behind an m
\* with one.
LEMMA ChainedExist ==
  ASSUME NEW s, NEW n \in Nat
  PROVE  \E f : Chained(f, s, n)
<1> DEFINE Bad == {m \in Nat : ~ \E f : Chained(f, s, m)}
           next(b) == IF b.chain = << >> THEN b ELSE change_one(b)
<1>1. SUFFICES ASSUME Bad # {} PROVE FALSE
  OBVIOUS
<1>2. PICK m \in Bad : \A k \in Bad : m <= k
  <2>1. Bad \in SUBSET Nat
    OBVIOUS
  <2> QED BY <1>1, <2>1, NatMin
<1>3. m \in Nat /\ ~ \E f : Chained(f, s, m)
  OBVIOUS
<1>4. CASE m = 0
  <2> DEFINE g == [i \in 0 .. 0 |-> s]
  <2>1. Chained(g, s, 0)
    BY DEF Chained
  <2> QED BY <1>3, <1>4, <2>1
<1>5. CASE m # 0
  <2>1. m - 1 \in Nat /\ m - 1 \notin Bad
    BY <1>2, <1>3, <1>5
  <2>2. PICK f : Chained(f, s, m - 1)
    BY <2>1
  <2> DEFINE g == [i \in 0 .. m |-> IF i # m THEN f[i] ELSE next(f[m - 1])]
  <2>3. \A i \in 0 .. m - 1 : g[i] = f[i]
    BY <1>3
  <2> HIDE DEF next
  <2>4. \A i \in 0 .. m : g[i] = IF i = 0 THEN s ELSE next(g[i - 1])
    <3>1. ASSUME NEW i \in 0 .. m - 1
          PROVE  g[i] = IF i = 0 THEN s ELSE next(g[i - 1])
      <4>1. f[i] = IF i = 0 THEN s ELSE next(f[i - 1])
        BY <2>1, <2>2 DEF Chained, next
      <4>2. i # 0 => i - 1 \in 0 .. m - 1
        BY <2>1
      <4> HIDE DEF g
      <4> QED BY <2>3, <4>1, <4>2
    <3>2. g[m] = next(g[m - 1])
      <4>1. g[m] = next(f[m - 1])
        BY <1>3
      <4>2. g[m - 1] = f[m - 1]
        BY <2>1, <2>3
      <4> HIDE DEF g
      <4> QED BY <4>1, <4>2
    <3> HIDE DEF g
    <3> QED BY <1>3, <1>5, <3>1, <3>2
  <2>5. g = [i \in 0 .. m |-> g[i]]
    OBVIOUS
  <2>6. Chained(g, s, m)
    <3> HIDE DEF g
    <3> QED BY <2>4, <2>5 DEF Chained, next
  <2> QED BY <1>3, <2>6
<1> QED BY <1>4, <1>5

\* The tasks of C but c are asked for nothing by one that is about to wait, and
\* all mutexes that name them are on their lists.
Clean(s, D, E, C, c) ==
  \A u \in C : u # c => E[u] = {} /\ \A m \in D : s.mtxcb[m].mtxtsk # u

\* The blocks after k calls, and who is left for further ones.
Stands(a, s, X, D, E, C, k) ==
  /\ a \in Blocks /\ Reordered(a, s) /\ Queues(a, X) /\ Ordered(a) /\ Right(a, X, E)
  /\ Confined(a, s, C)
  /\ a.chain # << >> =>
       \E S \in SUBSET C : /\ Closed(s, S) /\ a.chain[1].tcb \in S
                           /\ Cardinality(S) + k <= Cardinality(Tasks)
                           /\ Clean(s, D, E, S, a.chain[1].tcb)

LEMMA Finite ==
  ASSUME NEW S \in SUBSET Tasks
  PROVE  /\ IsFiniteSet(S) /\ Cardinality(S) \in Nat /\ Cardinality(Tasks) \in Nat
         /\ Cardinality(S) <= Cardinality(Tasks)
         /\ S # {} => Cardinality(S) # 0
         /\ \A t \in S : \A R \in SUBSET (S \ {t}) : Cardinality(R) + 1 <= Cardinality(S)
<1>1. IsFiniteSet(Tasks)
  BY MtxAssumption
<1>2. IsFiniteSet(S) /\ Cardinality(S) <= Cardinality(Tasks)
  BY <1>1, FS_Subset
<1>3. Cardinality(S) \in Nat /\ Cardinality(Tasks) \in Nat
  BY <1>1, <1>2, FS_CardinalityType
<1>4. S # {} => Cardinality(S) # 0
  BY <1>2, FS_EmptySet
<1>5. ASSUME NEW t \in S, NEW R \in SUBSET (S \ {t})
      PROVE  Cardinality(R) + 1 <= Cardinality(S)
  <2>1. IsFiniteSet(S \ {t}) /\ Cardinality(S \ {t}) = Cardinality(S) - 1
    BY <1>2, FS_RemoveElement
  <2>2. IsFiniteSet(R) /\ Cardinality(R) <= Cardinality(S \ {t})
    BY <2>1, FS_Subset
  <2>3. Cardinality(R) \in Nat
    BY <2>2, FS_CardinalityType
  <2> QED BY <1>3, <2>1, <2>2, <2>3
<1> QED BY <1>2, <1>3, <1>4, <1>5

\* One call more.
LEMMA StandsNext ==
  ASSUME NEW s \in Blocks, NEW X, Graph(s), NEW D, Owned(s, X, D), NEW E,
         NEW C \in SUBSET (Tasks \ X), NEW k \in Nat,
         NEW a, Stands(a, s, X, D, E, C, k), a.chain # << >>, NEW r, r = change_one(a)
  PROVE  Stands(r, s, X, D, E, C, k + 1)
<1>1. PICK t : t = a.chain[1].tcb
  OBVIOUS
<1>2. /\ a \in Blocks /\ Reordered(a, s) /\ Queues(a, X) /\ Ordered(a) /\ Right(a, X, E)
      /\ Confined(a, s, C)
  BY DEF Stands
<1>3. PICK S \in SUBSET C : /\ Closed(s, S) /\ t \in S
                            /\ Cardinality(S) + k <= Cardinality(Tasks)
                            /\ Clean(s, D, E, S, t)
  BY <1>1 DEF Stands
<1>4. t \in Tasks \ X /\ S \in SUBSET Tasks
  BY <1>3
<1>5. /\ Graph(a) /\ Owned(a, X, D)
      /\ Waits(a, t) <=> Waits(s, t)
      /\ Waits(s, t) => OwnerOf(a, t) = OwnerOf(s, t)
      /\ a.tcb[t].wid = s.tcb[t].wid
  <2>1. a.tcb[t].wid = s.tcb[t].wid
    BY <1>2, <1>4 DEF Reordered
  <2> QED BY <1>2, <1>4, <2>1, ReorderedKeeps
<1>6. PICK o : o = OwnerOf(s, t)
  OBVIOUS
<1>7. Waits(s, t) => /\ o \in S /\ o \in Tasks /\ o # t /\ o \notin X
                     /\ s.tcb[t].wid \in Mutexes /\ s.tcb[t].wid \notin D /\ E[o] = {}
  <2>1. SUFFICES ASSUME Waits(s, t)
                 PROVE  /\ o \in S /\ o \in Tasks /\ o # t /\ o \notin X
                        /\ s.tcb[t].wid \in Mutexes /\ s.tcb[t].wid \notin D /\ E[o] = {}
    OBVIOUS
  <2>2. o \in S /\ o \notin X
    BY <1>3, <1>6, <2>1 DEF Closed
  <2>3. o \in Tasks \ {t} /\ s.tcb[t].wid \in Mutexes
    BY <1>4, <1>6, <2>1, OwnerOther
  <2>4. s.tcb[t].wid \notin D /\ E[o] = {}
    BY <1>3, <1>6, <2>2, <2>3 DEF Clean, OwnerOf
  <2> QED BY <2>2, <2>3, <2>4
<1>8. /\ r \in Blocks /\ Reordered(r, a) /\ Queues(r, X) /\ Ordered(r) /\ Right(r, X, E)
      /\ r.chain # << >> => Waits(a, t) /\ r.chain[1].tcb = OwnerOf(a, t)
      /\ OnlyOf(r, a, t)
      /\ \A m \in Mutexes : (Waits(a, t) /\ m = a.tcb[t].wid) \/ r.mtxcb[m] = a.mtxcb[m]
  <2>1. Waits(a, t) => /\ OwnerOf(a, t) \notin X
                       /\ a.tcb[t].wid \notin D /\ E[OwnerOf(a, t)] = {}
    BY <1>5, <1>6, <1>7
  <2> QED BY <1>1, <1>2, <1>4, <1>5, <2>1, ChangeOne
<1>9. Reordered(r, s)
  BY <1>2, <1>8, ReorderedTwice
<1>10. Confined(r, s, C)
  <2>1. ASSUME NEW u \in Tasks \ C
        PROVE  r.tcb[u].priority = s.tcb[u].priority
    BY <1>2, <1>3, <1>8, <2>1 DEF OnlyOf, Confined
  <2>2. ASSUME NEW m \in Mutexes, \A u \in C : ~(Waits(s, u) /\ s.tcb[u].wid = m)
        PROVE  r.mtxcb[m].wait_queue = s.mtxcb[m].wait_queue
    <3>1. ~(Waits(a, t) /\ m = a.tcb[t].wid)
      BY <1>3, <1>5, <2>2
    <3> QED BY <1>2, <1>8, <2>2, <3>1 DEF Confined
  <2> QED BY <2>1, <2>2 DEF Confined
<1>11. ASSUME r.chain # << >>
       PROVE  \E R \in SUBSET C : /\ Closed(s, R) /\ r.chain[1].tcb \in R
                                  /\ Cardinality(R) + (k + 1) <= Cardinality(Tasks)
                                  /\ Clean(s, D, E, R, r.chain[1].tcb)
  <2>1. Waits(s, t) /\ r.chain[1].tcb = o
    BY <1>5, <1>6, <1>8, <1>11
  <2>2. PICK U \in SUBSET (Tasks \ {t}) : o \in U /\ Closed(s, U)
    BY <1>4, <1>6, <2>1 DEF Graph
  <2>3. PICK R : R = S \cap U
    OBVIOUS
  <2>4. Closed(s, R) /\ o \in R /\ R \in SUBSET (S \ {t}) /\ R \in SUBSET C
    BY <1>3, <1>7, <2>1, <2>2, <2>3 DEF Closed
  <2>5. Cardinality(R) + (k + 1) <= Cardinality(Tasks)
    <3>1. Cardinality(R) + 1 <= Cardinality(S)
      BY <1>3, <1>4, <2>4, Finite
    <3>2. Cardinality(R) \in Nat /\ Cardinality(S) \in Nat /\ Cardinality(Tasks) \in Nat
      <4>1. R \in SUBSET Tasks
        BY <1>4, <2>4
      <4> QED BY <1>4, <4>1, Finite
    <3> QED BY <1>3, <3>1, <3>2
  <2>6. Clean(s, D, E, R, o)
    BY <1>3, <2>4 DEF Clean
  <2> QED BY <2>1, <2>4, <2>5, <2>6
<1> QED BY <1>8, <1>9, <1>10, <1>11 DEF Stands

\* change_task_priority comes to an end, within MAX_CHAIN calls, before it gets
\* back to a task, and leaves every priority and every queue as it must be.
Changed(r, s, X, D, E, C) ==
  /\ Sound(r, X, D) /\ r.chain = << >> /\ Right(r, X, E)
  /\ Reordered(r, s) /\ Confined(r, s, C)

LEMMA ChangeAll ==
  ASSUME NEW s, NEW X, NEW D, Sound(s, X, D), NEW E, Right(s, X, E),
         NEW C \in SUBSET (Tasks \ X), Closed(s, C),
         s.chain # << >> => s.chain[1].tcb \in C /\ Clean(s, D, E, C, s.chain[1].tcb),
         NEW r, r = change_task_priority(s)
  PROVE  Changed(r, s, X, D, E, C)
<1>1. /\ s \in Blocks /\ Queues(s, X) /\ Ordered(s) /\ Graph(s) /\ Owned(s, X, D)
      /\ Created(s) /\ Obeyed(s, X)
  BY DEF Sound
<1>2. PICK N : N = MAX_CHAIN
  OBVIOUS
<1>3. N \in Nat /\ Cardinality(Tasks) \in Nat /\ N >= Cardinality(Tasks)
  <2>1. Cardinality(Tasks) \in Nat
    BY Finite
  <2> QED BY <1>2, <2>1 DEF MAX_CHAIN
<1>4. PICK f : Chained(f, s, N) /\ r = f[N]
  <2>1. r = (CHOOSE f : Chained(f, s, N))[N]
    BY <1>2 DEF change_task_priority, Chained
  <2>2. \E f : Chained(f, s, N)
    BY <1>3, ChainedExist
  <2> QED BY <2>1, <2>2
<1>5. \A i \in 0 .. N : f[i] = IF i = 0 THEN s
                               ELSE IF f[i - 1].chain = << >> THEN f[i - 1]
                               ELSE change_one(f[i - 1])
  BY <1>4 DEF Chained
<1>6. Stands(s, s, X, D, E, C, 0)
  <2>1. Reordered(s, s) /\ Confined(s, s, C)
    BY DEF Reordered, Confined
  <2>2. Cardinality(C) + 0 <= Cardinality(Tasks)
    <3>1. C \in SUBSET Tasks
      OBVIOUS
    <3>2. Cardinality(C) \in Nat /\ Cardinality(C) <= Cardinality(Tasks)
      BY <3>1, Finite
    <3> QED BY <1>3, <3>2
  <2> QED BY <1>1, <2>1, <2>2 DEF Stands
<1> DEFINE Bad == {k \in Nat : k <= N /\ ~Stands(f[k], s, X, D, E, C, k)}
<1>7. Bad = {}
  <2>1. SUFFICES ASSUME Bad # {} PROVE FALSE
    OBVIOUS
  <2>2. PICK k \in Bad : \A j \in Bad : k <= j
    <3>1. Bad \in SUBSET Nat
      OBVIOUS
    <3> HIDE DEF Bad
    <3> QED BY <2>1, <3>1, NatMin
  <2>3. k \in Nat /\ k <= N /\ ~Stands(f[k], s, X, D, E, C, k)
    BY <2>2
  <2>4. k # 0
    BY <1>3, <1>5, <1>6, <2>3
  <2>5. PICK j \in Nat : j = k - 1 /\ k = j + 1 /\ j <= N /\ k \in 0 .. N
    BY <1>3, <2>3, <2>4
  <2>6. Stands(f[j], s, X, D, E, C, j)
    <3>1. SUFFICES ASSUME ~Stands(f[j], s, X, D, E, C, j) PROVE FALSE
      OBVIOUS
    <3>2. j \in Bad
      BY <2>5, <3>1
    <3> HIDE DEF Bad
    <3>3. k <= j
      BY <2>2, <3>2
    <3> QED BY <2>3, <2>5, <3>3
  <2>7. f[k] = IF f[j].chain = << >> THEN f[j] ELSE change_one(f[j])
    BY <1>5, <2>4, <2>5
  <2> HIDE DEF Bad
  <2>8. CASE f[j].chain = << >>
    BY <2>3, <2>6, <2>7, <2>8 DEF Stands
  <2>9. CASE f[j].chain # << >>
    <3>1. f[k] = change_one(f[j])
      BY <2>7, <2>9
    <3>2. Stands(f[k], s, X, D, E, C, j + 1)
      BY <1>1, <2>5, <2>6, <2>9, <3>1, StandsNext
    <3> QED BY <2>3, <2>5, <3>2
  <2> QED BY <2>8, <2>9
<1>8. Stands(r, s, X, D, E, C, N)
  BY <1>3, <1>4, <1>7
<1> HIDE DEF Bad
<1>9. r.chain = << >>
  <2>1. SUFFICES ASSUME r.chain # << >> PROVE FALSE
    OBVIOUS
  <2>2. PICK S \in SUBSET C : S # {} /\ Cardinality(S) + N <= Cardinality(Tasks)
    BY <1>8, <2>1 DEF Stands
  <2>3. S \in SUBSET Tasks
    BY <2>2
  <2>4. Cardinality(S) \in Nat /\ Cardinality(S) # 0
    BY <2>2, <2>3, Finite
  <2> QED BY <1>3, <2>2, <2>4
<1>10. /\ r \in Blocks /\ Reordered(r, s) /\ Queues(r, X) /\ Ordered(r) /\ Right(r, X, E)
       /\ Confined(r, s, C)
  BY <1>8 DEF Stands
<1>11. Graph(r) /\ Owned(r, X, D) /\ Created(r) /\ Obeyed(r, X)
  BY <1>1, <1>10, ReorderedKeeps
<1> QED BY <1>9, <1>10, <1>11 DEF Sound, Changed
---------------------------------------------------------------------------
(* Ownership. *)

None == [t \in Tasks |-> {}]

\* m is on no list.
Loose(s, X, D, m) == m \in D \/ s.mtxcb[m].mtxtsk \notin Tasks \ X

\* An element put at the head of a list.
LEMMA PushList ==
  ASSUME NEW q, NEW S, Lists(q, S), NEW t, t \notin S
  PROVE  Lists(<<t>> \o q, S \cup {t})
<1> DEFINE T == S \cup {t}
<1>1. PICK r : r = <<t>> \o q
  OBVIOUS
<1>2. /\ Len(q) \in Nat /\ \A i \in 1 .. Len(q) : q[i] \in S
      /\ \A i, j \in 1 .. Len(q) : q[i] = q[j] => i = j
      /\ \A x \in S : \E i \in 1 .. Len(q) : q[i] = x
  BY ListsPlaces
<1>3. q \in Seq(T) /\ <<t>> \in Seq(T) /\ Len(<<t>>) = 1 /\ <<t>>[1] = t
  <2>1. q \in Seq(S) /\ S \subseteq T
    BY DEF Lists
  <2>2. q \in Seq(T)
    BY <2>1, SeqMonotonic
  <2> QED BY <2>2
<1>4. /\ r \in Seq(T) /\ Len(r) = 1 + Len(q)
      /\ \A i \in 1 .. 1 + Len(q) : r[i] = IF i <= 1 THEN <<t>>[i] ELSE q[i - 1]
  <2> HIDE DEF T
  <2> QED BY <1>1, <1>2, <1>3, ConcatProperties
<1> HIDE DEF T
<1>5. r[1] = t /\ \A i \in 2 .. Len(r) : i - 1 \in 1 .. Len(q) /\ r[i] = q[i - 1]
  BY <1>2, <1>3, <1>4
<1>6. ASSUME NEW i \in 1 .. Len(r), NEW j \in 1 .. Len(r), r[i] = r[j]
      PROVE  i = j
  <2>1. i # 1 => i \in 2 .. Len(r) /\ i - 1 \in 1 .. Len(q) /\ r[i] = q[i - 1] /\ r[i] # t
    BY <1>2, <1>4, <1>5
  <2>2. j # 1 => j \in 2 .. Len(r) /\ j - 1 \in 1 .. Len(q) /\ r[j] = q[j - 1] /\ r[j] # t
    BY <1>2, <1>4, <1>5
  <2>3. i # 1 /\ j # 1 => i - 1 = j - 1
    BY <1>2, <1>6, <2>1, <2>2
  <2> QED BY <1>2, <1>4, <1>5, <1>6, <2>1, <2>2, <2>3
<1>7. ASSUME NEW x \in T PROVE \E i \in 1 .. Len(r) : r[i] = x
  <2>1. CASE x = t
    BY <1>2, <1>4, <1>5, <2>1
  <2>2. CASE x \in S
    <3>1. PICK i \in 1 .. Len(q) : q[i] = x
      BY <1>2, <2>2
    <3>2. i + 1 \in 2 .. Len(r) /\ i + 1 \in 1 .. Len(r) /\ (i + 1) - 1 = i
      BY <1>2, <1>4
    <3> QED BY <1>5, <3>1, <3>2
  <2> QED BY <1>7, <2>1, <2>2 DEF T
<1>8. Lists(r, T)
  BY <1>4, <1>6, <1>7, PlacesList
<1> QED BY <1>1, <1>8 DEF T

\* A change of the priority of a task that does not wait concerns no other.
LEMMA SetPriority ==
  ASSUME NEW s, NEW X, NEW D, Sound(s, X, D), NEW E,
         NEW t \in Tasks \ X, ~Waits(s, t), NEW p \in Pri,
         Lowest(p, Needs(s, X, E, t)),
         \A u \in Tasks \ X : u # t => RightOf(s, X, E, u),
         NEW r, r = set_priority(s, t, p)
  PROVE  /\ Sound(r, X, D) /\ r.chain = << >> /\ Right(r, X, E)
         /\ Reordered(r, s) /\ Confined(r, s, {t})
<1>1. PICK q : q = calls(s, t, p)
  OBVIOUS
<1>2. s \in Blocks
  BY DEF Sound
<1>3. /\ q \in Blocks /\ q.tcb = s.tcb /\ q.mtxcb = s.mtxcb
      /\ q.chain # << >> /\ q.chain[1].tcb = t
  BY <1>1, <1>2, Calls
<1>4. Right(q, X, E)
  BY <1>1, <1>2, CallsRight
<1>5. Sound(q, X, D)
  <2>1. Reordered(q, s) /\ Queues(q, X) /\ Ordered(q)
    BY <1>2, <1>3, SameBlocks DEF Sound
  <2>2. Graph(q) /\ Owned(q, X, D) /\ Created(q) /\ Obeyed(q, X)
    BY <1>2, <1>3, <2>1, ReorderedKeeps DEF Sound
  <2> QED BY <1>3, <2>1, <2>2 DEF Sound
<1>6. ~Waits(q, t) /\ Closed(q, {t}) /\ Clean(q, D, E, {t}, t) /\ {t} \in SUBSET (Tasks \ X)
  BY <1>3 DEF Waits, Closed, Clean
<1>7. r = change_task_priority(q)
  BY <1>1 DEF set_priority
<1>8. /\ Sound(r, X, D) /\ r.chain = << >> /\ Right(r, X, E)
      /\ Reordered(r, q) /\ Confined(r, q, {t})
  <2>1. Changed(r, q, X, D, E, {t})
    BY <1>3, <1>4, <1>5, <1>6, <1>7, ChangeAll
  <2> QED BY <2>1 DEF Changed
<1>9. Reordered(r, s) /\ Confined(r, s, {t})
  <2>1. Reordered(q, s)
    BY <1>3 DEF Reordered
  <2>2. Reordered(r, s)
    BY <1>8, <2>1, ReorderedTwice
  <2>3. Confined(r, s, {t})
    BY <1>3, <1>8 DEF Confined, Waits
  <2> QED BY <2>2, <2>3
<1> QED BY <1>8, <1>9

\* A mutex that is on no list gets an owner.
Named(s, t, m) ==
  [s EXCEPT !.mtxcb[m].mtxtsk = t, !.tcb[t].mtxlist = <<m>> \o @]

\* What it changes.
Renamed(r, s, t, m) ==
  /\ r \in Blocks /\ r.chain = s.chain
  /\ \A u \in Tasks : /\ u # t => r.tcb[u] = s.tcb[u]
                      /\ r.tcb[u].state = s.tcb[u].state
                      /\ r.tcb[u].priority = s.tcb[u].priority
                      /\ r.tcb[u].bpriority = s.tcb[u].bpriority
                      /\ r.tcb[u].wid = s.tcb[u].wid
  /\ r.tcb[t].mtxlist = <<m>> \o s.tcb[t].mtxlist
  /\ \A n \in Mutexes : /\ n # m => r.mtxcb[n] = s.mtxcb[n]
                        /\ r.mtxcb[n].mtxid = s.mtxcb[n].mtxid
                        /\ r.mtxcb[n].mtxatr = s.mtxcb[n].mtxatr
                        /\ r.mtxcb[n].ceilpri = s.mtxcb[n].ceilpri
                        /\ r.mtxcb[n].wait_queue = s.mtxcb[n].wait_queue
  /\ r.mtxcb[m].mtxtsk = t

LEMMA NamedFields ==
  ASSUME NEW s \in Blocks, NEW t \in Tasks, NEW m \in Mutexes, NEW r, r = Named(s, t, m)
  PROVE  Renamed(r, s, t, m)
<1>1. PICK l : l = <<m>> \o s.tcb[t].mtxlist
  OBVIOUS
<1>2. l \in Seq(Mutexes)
  <2>1. s.tcb[t].mtxlist \in Seq(Mutexes) /\ <<m>> \in Seq(Mutexes)
    BY BlockTypes
  <2> QED BY <1>1, <2>1, ConcatProperties
<1>3. PICK b : b = [s.tcb[t] EXCEPT !.mtxlist = l]
  OBVIOUS
<1>4. PICK c : c = [s.mtxcb[m] EXCEPT !.mtxtsk = t]
  OBVIOUS
<1>5. s.tcb[t] \in TCB /\ s.mtxcb[m] \in MTXCB
      /\ s.tcb \in [Tasks -> TCB] /\ s.mtxcb \in [Mutexes -> MTXCB]
      /\ s.chain \in Seq([tcb : Tasks, pri : Pri])
  BY BlockTypes
<1>6. /\ b \in TCB /\ b.mtxlist = l /\ b.state = s.tcb[t].state
      /\ b.priority = s.tcb[t].priority /\ b.bpriority = s.tcb[t].bpriority
      /\ b.wid = s.tcb[t].wid
  BY <1>2, <1>3, <1>5 DEF TCB
<1>7. /\ c \in MTXCB /\ c.mtxtsk = t /\ c.mtxid = s.mtxcb[m].mtxid
      /\ c.mtxatr = s.mtxcb[m].mtxatr /\ c.ceilpri = s.mtxcb[m].ceilpri
      /\ c.wait_queue = s.mtxcb[m].wait_queue
  BY <1>4, <1>5 DEF MTXCB
<1>8. PICK f, g : f = [s.tcb EXCEPT ![t] = b] /\ g = [s.mtxcb EXCEPT ![m] = c]
  OBVIOUS
<1>9. /\ f \in [Tasks -> TCB] /\ f[t] = b /\ \A u \in Tasks : u # t => f[u] = s.tcb[u]
      /\ g \in [Mutexes -> MTXCB] /\ g[m] = c /\ \A n \in Mutexes : n # m => g[n] = s.mtxcb[n]
  BY <1>5, <1>6, <1>7, <1>8
<1>10. r = [tcb |-> f, mtxcb |-> g, chain |-> s.chain]
  BY <1>1, <1>3, <1>4, <1>5, <1>8 DEF Blocks, Named
<1>11. r \in Blocks /\ r.tcb = f /\ r.mtxcb = g /\ r.chain = s.chain
  BY <1>5, <1>9, <1>10 DEF Blocks
<1>12. \A u \in Tasks : r.tcb[u] = IF u = t THEN b ELSE s.tcb[u]
  BY <1>9, <1>11
<1>13. \A n \in Mutexes : r.mtxcb[n] = IF n = m THEN c ELSE s.mtxcb[n]
  BY <1>9, <1>11
<1> QED BY <1>1, <1>6, <1>7, <1>11, <1>12, <1>13 DEF Renamed
\* The blocks stay sound when a task that does not wait gets a loose mutex.
LEMMA NamedSound ==
  ASSUME NEW s, NEW X, NEW D, Sound(s, X, D), NEW t \in Tasks \ X, NEW m \in Mutexes,
         s.tcb[t].state = "READY", Loose(s, X, D, m), s.mtxcb[m].mtxid,
         s.mtxcb[m].mtxatr = "CEILING" => s.tcb[t].bpriority >= s.mtxcb[m].ceilpri,
         NEW r, r = Named(s, t, m)
  PROVE  Sound(r, X, D \ {m})
<1>1. /\ s \in Blocks /\ Queues(s, X) /\ Ordered(s) /\ Graph(s)
      /\ Owned(s, X, D) /\ Created(s) /\ Obeyed(s, X)
  BY DEF Sound
<1>2. /\ r \in Blocks
      /\ \A u \in Tasks : /\ u # t => r.tcb[u] = s.tcb[u]
                          /\ r.tcb[u].state = s.tcb[u].state
                          /\ r.tcb[u].priority = s.tcb[u].priority
                          /\ r.tcb[u].bpriority = s.tcb[u].bpriority
                          /\ r.tcb[u].wid = s.tcb[u].wid
      /\ r.tcb[t].mtxlist = <<m>> \o s.tcb[t].mtxlist
      /\ \A n \in Mutexes : /\ n # m => r.mtxcb[n] = s.mtxcb[n]
                            /\ r.mtxcb[n].mtxid = s.mtxcb[n].mtxid
                            /\ r.mtxcb[n].mtxatr = s.mtxcb[n].mtxatr
                            /\ r.mtxcb[n].ceilpri = s.mtxcb[n].ceilpri
                            /\ r.mtxcb[n].wait_queue = s.mtxcb[n].wait_queue
      /\ r.mtxcb[m].mtxtsk = t
  <2>1. Renamed(r, s, t, m)
    BY <1>1, NamedFields
  <2> QED BY <2>1 DEF Renamed
<1>3. \A u \in Tasks : Waits(r, u) <=> Waits(s, u)
  BY <1>2 DEF Waits
<1>4. ~Waits(s, t)
  BY DEF Waits
<1>5. \A n \in Mutexes : Waiters(r, X, n) = Waiters(s, X, n)
  BY <1>2, <1>3 DEF Waiters
<1>6. Queues(r, X)
  BY <1>1, <1>2, <1>5 DEF Queues
<1>7. Ordered(r)
  <2>1. priority(r) = priority(s)
    BY <1>2 DEF priority
  <2> QED BY <1>1, <1>2, <2>1 DEF Ordered
<1>8. Graph(r)
  <2>1. ASSUME NEW S \in SUBSET Tasks, Closed(s, S)
        PROVE  Closed(r, S \cup {t})
    <3>1. ASSUME NEW u \in S, Waits(s, u)
          PROVE  OwnerOf(r, u) \in S \cup {t}
      <4>1. s.tcb[u].wid \in Mutexes /\ OwnerOf(s, u) \in S
        BY <1>1, <2>1, <3>1 DEF Graph, Closed
      <4>2. CASE s.tcb[u].wid = m
        BY <1>2, <4>2 DEF OwnerOf
      <4>3. CASE s.tcb[u].wid # m
        BY <1>2, <4>1, <4>3 DEF OwnerOf
      <4> QED BY <4>2, <4>3
    <3> QED BY <1>3, <1>4, <3>1 DEF Closed
  <2>2. ASSUME NEW u \in Tasks, Waits(s, u)
        PROVE  /\ r.tcb[u].wid \in Mutexes
               /\ \E S \in SUBSET (Tasks \ {u}) : OwnerOf(r, u) \in S /\ Closed(r, S)
    <3>1. PICK S \in SUBSET (Tasks \ {u}) : OwnerOf(s, u) \in S /\ Closed(s, S)
      BY <1>1, <2>2 DEF Graph
    <3>2. s.tcb[u].wid \in Mutexes /\ r.tcb[u].wid = s.tcb[u].wid
      BY <1>1, <1>2, <2>2 DEF Graph
    <3>3. OwnerOf(r, u) \in S \cup {t}
      <4>1. CASE s.tcb[u].wid = m
        BY <1>2, <3>2, <4>1 DEF OwnerOf
      <4>2. CASE s.tcb[u].wid # m
        BY <1>2, <3>1, <3>2, <4>2 DEF OwnerOf
      <4> QED BY <4>1, <4>2
    <3>4. S \cup {t} \in SUBSET (Tasks \ {u})
      BY <1>4, <2>2
    <3>5. Closed(r, S \cup {t})
      BY <2>1, <3>1
    <3> QED BY <3>2, <3>3, <3>4, <3>5
  <2>3. ASSUME NEW u \in Tasks, ~Waits(s, u) PROVE r.tcb[u].wid = NULL
    BY <1>1, <1>2, <2>3 DEF Graph
  <2> QED BY <1>3, <2>2, <2>3 DEF Graph
<1>9. ASSUME NEW u \in Tasks \ X
      PROVE  /\ Lists(r.tcb[u].mtxlist, {n \in Mutexes \ (D \ {m}) : r.mtxcb[n].mtxtsk = u})
             /\ r.tcb[u].mtxlist # << >> => r.tcb[u].state # "DORMANT"
  <2>1. PICK M : M = {n \in Mutexes \ D : s.mtxcb[n].mtxtsk = u}
    OBVIOUS
  <2>2. Lists(s.tcb[u].mtxlist, M) /\ (s.tcb[u].mtxlist # << >> => s.tcb[u].state # "DORMANT")
    BY <1>1, <2>1 DEF Owned
  <2>3. m \notin M
    BY <2>1 DEF Loose
  <2>4. CASE u = t
    <3>1. {n \in Mutexes \ (D \ {m}) : r.mtxcb[n].mtxtsk = u} = M \cup {m}
      BY <1>2, <2>1, <2>4
    <3>2. Lists(<<m>> \o s.tcb[t].mtxlist, M \cup {m})
      BY <2>2, <2>3, <2>4, PushList
    <3> QED BY <1>2, <2>4, <3>1, <3>2
  <2>5. CASE u # t
    <3>1. {n \in Mutexes \ (D \ {m}) : r.mtxcb[n].mtxtsk = u} = M
      BY <1>2, <2>1, <2>3, <2>5
    <3> QED BY <1>2, <2>2, <2>5, <3>1
  <2> QED BY <2>4, <2>5
<1>10. Owned(r, X, D \ {m})
  BY <1>9 DEF Owned
<1>11. Created(r)
  BY <1>1, <1>2 DEF Created
<1>12. Obeyed(r, X)
  <2>1. ASSUME NEW u \in Tasks \ X, NEW n \in Mutexes,
               n \in Range(r.tcb[u].mtxlist) \/ n = r.tcb[u].wid,
               r.mtxcb[n].mtxatr = "CEILING"
        PROVE  r.tcb[u].bpriority >= r.mtxcb[n].ceilpri
    <3>1. /\ r.tcb[u].bpriority = s.tcb[u].bpriority /\ r.mtxcb[n].ceilpri = s.mtxcb[n].ceilpri
          /\ s.mtxcb[n].mtxatr = "CEILING" /\ r.tcb[u].wid = s.tcb[u].wid
      BY <1>2, <2>1
    <3>2. CASE n = s.tcb[u].wid \/ n \in Range(s.tcb[u].mtxlist)
      BY <1>1, <3>1, <3>2 DEF Obeyed
    <3>3. CASE ~(n = s.tcb[u].wid \/ n \in Range(s.tcb[u].mtxlist))
      <4>1. n \in Range(r.tcb[u].mtxlist) /\ u = t
        BY <1>2, <2>1, <3>1, <3>3
      <4>2. Range(r.tcb[t].mtxlist) = Range(s.tcb[t].mtxlist) \cup {m}
        <5>1. Lists(s.tcb[t].mtxlist, Range(s.tcb[t].mtxlist)) /\ m \notin Range(s.tcb[t].mtxlist)
          BY <1>1 DEF Owned, Lists, Loose
        <5>2. Lists(<<m>> \o s.tcb[t].mtxlist, Range(s.tcb[t].mtxlist) \cup {m})
          BY <5>1, PushList
        <5> QED BY <1>2, <5>2 DEF Lists
      <4>3. n = m
        BY <3>3, <4>1, <4>2
      <4> QED BY <3>1, <4>1, <4>3
    <3> QED BY <3>2, <3>3
  <2> QED BY <2>1 DEF Obeyed
<1> QED BY <1>2, <1>6, <1>7, <1>8, <1>10, <1>11, <1>12 DEF Sound

\* The lists of the other tasks are the same, that of the new owner has m too.
NeedsMore(r, s, X, E, t, m) ==
  /\ \A u \in Tasks \ X : u # t => Needs(r, X, E, u) = Needs(s, X, E, u)
  /\ Needs(r, X, E, t) = Needs(s, X, E, t) \cup Asked(s, X, m)

LEMMA NamedNeeds ==
  ASSUME NEW s, NEW X, NEW D, Sound(s, X, D), NEW E, NEW t \in Tasks \ X, NEW m \in Mutexes,
         Loose(s, X, D, m), NEW r, r = Named(s, t, m)
  PROVE  NeedsMore(r, s, X, E, t, m)
<1>1. s \in Blocks /\ Owned(s, X, D)
  BY DEF Sound
<1>2. /\ \A u \in Tasks : /\ u # t => r.tcb[u] = s.tcb[u]
                          /\ r.tcb[u].state = s.tcb[u].state
                          /\ r.tcb[u].priority = s.tcb[u].priority
                          /\ r.tcb[u].bpriority = s.tcb[u].bpriority
                          /\ r.tcb[u].wid = s.tcb[u].wid
      /\ r.tcb[t].mtxlist = <<m>> \o s.tcb[t].mtxlist
      /\ \A n \in Mutexes : /\ r.mtxcb[n].mtxatr = s.mtxcb[n].mtxatr
                            /\ r.mtxcb[n].ceilpri = s.mtxcb[n].ceilpri
  <2>1. Renamed(r, s, t, m)
    BY <1>1, NamedFields
  <2> QED BY <2>1 DEF Renamed
<1>3. \A n \in Mutexes : Asked(r, X, n) = Asked(s, X, n)
  <2>1. \A n \in Mutexes : Waiters(r, X, n) = Waiters(s, X, n) /\ Waiters(s, X, n) \subseteq Tasks
    BY <1>2 DEF Waiters, Waits
  <2> QED BY <1>2, <2>1 DEF Asked
<1>4. \A u \in Tasks : Range(s.tcb[u].mtxlist) \subseteq Mutexes
  <2>1. \A u \in Tasks : s.tcb[u].mtxlist \in Seq(Mutexes)
    BY <1>1, BlockTypes
  <2> QED BY <2>1, RangeOfSeq
<1>5. ASSUME NEW u \in Tasks \ X, u # t PROVE Needs(r, X, E, u) = Needs(s, X, E, u)
  BY <1>2, <1>3, <1>4, <1>5 DEF Needs
<1>6. Range(r.tcb[t].mtxlist) = Range(s.tcb[t].mtxlist) \cup {m}
  <2>1. Lists(s.tcb[t].mtxlist, Range(s.tcb[t].mtxlist)) /\ m \notin Range(s.tcb[t].mtxlist)
    BY <1>1 DEF Owned, Lists, Loose
  <2>2. Lists(<<m>> \o s.tcb[t].mtxlist, Range(s.tcb[t].mtxlist) \cup {m})
    BY <2>1, PushList
  <2> QED BY <1>2, <2>2 DEF Lists
<1>7. Needs(r, X, E, t) = Needs(s, X, E, t) \cup Asked(s, X, m)
  <2>1. Asked(s, X, m) \subseteq Pri
    BY DEF Asked
  <2> QED BY <1>2, <1>3, <1>4, <1>6, <2>1 DEF Needs
<1> QED BY <1>5, <1>7 DEF NeedsMore

\* What else a new owner leaves as it was.
Handed(r, s, t, m) ==
  /\ r.mtxcb[m].mtxtsk = t
  /\ \A n \in Mutexes : /\ n # m => r.mtxcb[n].mtxtsk = s.mtxcb[n].mtxtsk
                        /\ r.mtxcb[n].mtxid = s.mtxcb[n].mtxid
                        /\ r.mtxcb[n].mtxatr = s.mtxcb[n].mtxatr
                        /\ r.mtxcb[n].wait_queue = s.mtxcb[n].wait_queue
  /\ \A u \in Tasks : /\ r.tcb[u].state = s.tcb[u].state /\ r.tcb[u].wid = s.tcb[u].wid
                      /\ u # t => /\ r.tcb[u].priority = s.tcb[u].priority
                                  /\ r.tcb[u].mtxlist = s.tcb[u].mtxlist

\* A task becomes the owner of a loose mutex.
Owning(r, s, X, D, E, t, m) ==
  /\ Sound(r, X, D \ {m}) /\ Right(r, X, E) /\ r.chain = << >>
  /\ Handed(r, s, t, m)

LEMMA Owns ==
  ASSUME NEW s, NEW X, NEW D, Sound(s, X, D), NEW E, Right(s, X, E), s.chain = << >>,
         NEW t \in Tasks \ X, NEW m \in Mutexes,
         s.tcb[t].state = "READY", Loose(s, X, D, m), s.mtxcb[m].mtxid,
         s.mtxcb[m].mtxatr = "CEILING" => s.tcb[t].bpriority >= s.mtxcb[m].ceilpri,
         s.mtxcb[m].mtxatr = "INHERIT" =>
           \A u \in Waiters(s, X, m) : s.tcb[t].priority <= s.tcb[u].priority,
         NEW r, r = own(s, t, m)
  PROVE  Owning(r, s, X, D, E, t, m)
<1>1. PICK q : q = Named(s, t, m)
  OBVIOUS
<1>2. s \in Blocks
  BY DEF Sound
<1>3. Sound(q, X, D \ {m})
  BY <1>1, NamedSound
<1>4. /\ q \in Blocks /\ q.chain = s.chain
      /\ \A u \in Tasks : /\ u # t => q.tcb[u] = s.tcb[u]
                          /\ q.tcb[u].state = s.tcb[u].state
                          /\ q.tcb[u].priority = s.tcb[u].priority
                          /\ q.tcb[u].wid = s.tcb[u].wid
      /\ \A n \in Mutexes : /\ n # m => q.mtxcb[n] = s.mtxcb[n]
                            /\ q.mtxcb[n].mtxid = s.mtxcb[n].mtxid
                            /\ q.mtxcb[n].mtxatr = s.mtxcb[n].mtxatr
                            /\ q.mtxcb[n].ceilpri = s.mtxcb[n].ceilpri
                            /\ q.mtxcb[n].wait_queue = s.mtxcb[n].wait_queue
      /\ q.mtxcb[m].mtxtsk = t
  <2>1. Renamed(q, s, t, m)
    BY <1>1, <1>2, NamedFields
  <2> QED BY <2>1 DEF Renamed
<1>5. Handed(q, s, t, m)
  BY <1>4 DEF Handed
<1>6. /\ \A u \in Tasks \ X : u # t => Needs(q, X, E, u) = Needs(s, X, E, u)
      /\ Needs(q, X, E, t) = Needs(s, X, E, t) \cup Asked(s, X, m)
  <2>1. NeedsMore(q, s, X, E, t, m)
    BY <1>1, NamedNeeds
  <2> QED BY <2>1 DEF NeedsMore
<1>7. \A u \in Tasks \ X : u # t => RightOf(q, X, E, u)
  BY <1>4, <1>6 DEF Right, RightOf
<1>8. Lowest(s.tcb[t].priority, Needs(s, X, E, t))
  BY DEF Right, RightOf
<1>9. PICK c, p : c = s.mtxcb[m].ceilpri /\ p = s.tcb[t].priority
  OBVIOUS
<1>10. c \in Pri /\ c \in Int /\ p \in Int
  <2>1. s.tcb[t].priority \in Pri /\ s.mtxcb[m].ceilpri \in Pri
    BY <1>2, BlockTypes
  <2> QED BY <1>9, <2>1, PriFacts
<1>11. r = IF s.mtxcb[m].mtxatr = "CEILING" /\ p > c THEN set_priority(q, t, c) ELSE q
  BY <1>1, <1>4, <1>9 DEF own, Named
<1>12. CASE s.mtxcb[m].mtxatr = "CEILING" /\ p > c
  <2>1. r = set_priority(q, t, c)
    BY <1>11, <1>12
  <2>2. Lowest(c, Needs(q, X, E, t))
    <3>1. Asked(s, X, m) = {c}
      BY <1>9, <1>10, <1>12 DEF Asked
    <3>2. \A y \in Needs(s, X, E, t) : y \in Int /\ p <= y
      BY <1>8, <1>9, PriFacts DEF Lowest, Needs
    <3> QED BY <1>6, <1>10, <1>12, <3>1, <3>2 DEF Lowest
  <2>3. ~Waits(q, t)
    BY <1>4 DEF Waits
  <2>4. /\ Sound(r, X, D \ {m}) /\ r.chain = << >> /\ Right(r, X, E)
        /\ Reordered(r, q) /\ Confined(r, q, {t})
    BY <1>3, <1>7, <1>10, <2>1, <2>2, <2>3, SetPriority
  <2>5. Handed(r, s, t, m)
    <3>1. \A n \in Mutexes : r.mtxcb[n].wait_queue = q.mtxcb[n].wait_queue
      BY <2>3, <2>4 DEF Confined
    <3>2. \A u \in Tasks : u # t => r.tcb[u].priority = q.tcb[u].priority
      BY <2>4 DEF Confined
    <3> QED BY <1>5, <2>4, <3>1, <3>2 DEF Reordered, Handed
  <2> QED BY <2>4, <2>5 DEF Owning
<1>13. CASE ~(s.mtxcb[m].mtxatr = "CEILING" /\ p > c)
  <2>1. r = q
    BY <1>11, <1>13
  <2>2. ASSUME NEW y \in Asked(s, X, m) PROVE p <= y
    BY <1>9, <1>10, <1>13, <2>2 DEF Asked
  <2>3. RightOf(q, X, E, t)
    BY <1>4, <1>6, <1>8, <1>9, <2>2 DEF RightOf, Lowest
  <2>4. Right(r, X, E)
    BY <1>4, <1>7, <2>1, <2>3 DEF Right
  <2> QED BY <1>3, <1>4, <1>5, <2>1, <2>4 DEF Owning
<1> QED BY <1>12, <1>13
\* t is no longer in the queue of m.
Left(r, s, t, m) ==
  /\ r \in Blocks /\ r.chain = s.chain
  /\ \A u \in Tasks : /\ u # t => r.tcb[u] = s.tcb[u]
                      /\ r.tcb[u].priority = s.tcb[u].priority
                      /\ r.tcb[u].bpriority = s.tcb[u].bpriority
                      /\ r.tcb[u].mtxlist = s.tcb[u].mtxlist
  /\ \A n \in Mutexes : /\ n # m => r.mtxcb[n] = s.mtxcb[n]
                        /\ r.mtxcb[n].mtxid = s.mtxcb[n].mtxid
                        /\ r.mtxcb[n].mtxatr = s.mtxcb[n].mtxatr
                        /\ r.mtxcb[n].ceilpri = s.mtxcb[n].ceilpri
                        /\ r.mtxcb[n].mtxtsk = s.mtxcb[n].mtxtsk
  /\ r.mtxcb[m].wait_queue = QueRemove(s.mtxcb[m].wait_queue, t)

\* It is READY then, or it is being terminated.
Ended(r, s, t, X, Y) ==
  \/ r.tcb[t].state = "READY" /\ r.tcb[t].wid = NULL /\ Y = X
  \/ r.tcb[t] = s.tcb[t] /\ Y = X \cup {t}

\* The queue is a queue without it.
LEMMA Unqueued ==
  ASSUME NEW s \in Blocks, NEW X, Queues(s, X), NEW t \in Tasks, NEW m \in Mutexes
  PROVE  QueRemove(s.mtxcb[m].wait_queue, t) \in Seq(Tasks)
<1>1. Lists(s.mtxcb[m].wait_queue, Waiters(s, X, m))
  BY DEF Queues
<1>2. Lists(QueRemove(s.mtxcb[m].wait_queue, t), Waiters(s, X, m) \ {t})
  BY <1>1, RemoveList
<1>3. Waiters(s, X, m) \ {t} \in SUBSET Tasks
  BY DEF Waiters
<1> QED BY <1>2, <1>3, ListsSeq

\* wait_release is such a step.
LEMMA Released ==
  ASSUME NEW s \in Blocks, NEW X, Queues(s, X), NEW t \in Tasks,
         NEW m \in Mutexes, m = s.tcb[t].wid, NEW r, r = wait_release(s, t)
  PROVE  Left(r, s, t, m) /\ r.tcb[t].state = "READY" /\ r.tcb[t].wid = NULL
<1>1. PICK q : q = QueRemove(s.mtxcb[m].wait_queue, t)
  OBVIOUS
<1>2. q \in Seq(Tasks)
  BY <1>1, Unqueued
<1>3. PICK b : b = [s.tcb[t] EXCEPT !.state = "READY", !.wid = NULL]
  OBVIOUS
<1>4. PICK c : c = [s.mtxcb[m] EXCEPT !.wait_queue = q]
  OBVIOUS
<1>5. s.tcb[t] \in TCB /\ s.mtxcb[m] \in MTXCB
      /\ s.tcb \in [Tasks -> TCB] /\ s.mtxcb \in [Mutexes -> MTXCB]
      /\ s.chain \in Seq([tcb : Tasks, pri : Pri])
  BY BlockTypes
<1>6. /\ b \in TCB /\ b.state = "READY" /\ b.wid = NULL
      /\ b.priority = s.tcb[t].priority /\ b.bpriority = s.tcb[t].bpriority
      /\ b.mtxlist = s.tcb[t].mtxlist
  BY <1>3, <1>5 DEF TCB, TSTAT
<1>7. /\ c \in MTXCB /\ c.mtxtsk = s.mtxcb[m].mtxtsk /\ c.mtxid = s.mtxcb[m].mtxid
      /\ c.mtxatr = s.mtxcb[m].mtxatr /\ c.ceilpri = s.mtxcb[m].ceilpri
      /\ c.wait_queue = q
  BY <1>2, <1>4, <1>5 DEF MTXCB
<1>8. PICK f, g : f = [s.tcb EXCEPT ![t] = b] /\ g = [s.mtxcb EXCEPT ![m] = c]
  OBVIOUS
<1>9. /\ f \in [Tasks -> TCB] /\ f[t] = b /\ \A u \in Tasks : u # t => f[u] = s.tcb[u]
      /\ g \in [Mutexes -> MTXCB] /\ g[m] = c /\ \A n \in Mutexes : n # m => g[n] = s.mtxcb[n]
  BY <1>5, <1>6, <1>7, <1>8
<1>10. r = [tcb |-> f, mtxcb |-> g, chain |-> s.chain]
  BY <1>1, <1>3, <1>4, <1>5, <1>8 DEF Blocks, wait_release
<1>11. r \in Blocks /\ r.tcb = f /\ r.mtxcb = g /\ r.chain = s.chain
  BY <1>5, <1>9, <1>10 DEF Blocks
<1>12. \A u \in Tasks : r.tcb[u] = IF u = t THEN b ELSE s.tcb[u]
  BY <1>9, <1>11
<1>13. \A n \in Mutexes : r.mtxcb[n] = IF n = m THEN c ELSE s.mtxcb[n]
  BY <1>9, <1>11
<1> QED BY <1>1, <1>6, <1>7, <1>11, <1>12, <1>13 DEF Left

\* The blocks stay sound.
LEMMA LeftSound ==
  ASSUME NEW s, NEW X, NEW D, Sound(s, X, D), NEW t \in Tasks \ X, Waits(s, t),
         NEW m, m = s.tcb[t].wid, NEW r, Left(r, s, t, m), NEW Y, Ended(r, s, t, X, Y)
  PROVE  /\ Sound(r, Y, D)
         /\ \A n \in Mutexes : Waiters(r, Y, n) = Waiters(s, X, n) \ {t}
         /\ \A S \in SUBSET (Tasks \ {t}) : Closed(s, S) => Closed(r, S)
<1>1. /\ s \in Blocks /\ Queues(s, X) /\ Ordered(s) /\ Graph(s)
      /\ Owned(s, X, D) /\ Created(s) /\ Obeyed(s, X)
  BY DEF Sound
<1>2. /\ r \in Blocks /\ r.chain = s.chain
      /\ \A u \in Tasks : /\ u # t => r.tcb[u] = s.tcb[u]
                          /\ r.tcb[u].priority = s.tcb[u].priority
                          /\ r.tcb[u].bpriority = s.tcb[u].bpriority
                          /\ r.tcb[u].mtxlist = s.tcb[u].mtxlist
      /\ \A n \in Mutexes : /\ n # m => r.mtxcb[n] = s.mtxcb[n]
                            /\ r.mtxcb[n].mtxid = s.mtxcb[n].mtxid
                            /\ r.mtxcb[n].mtxatr = s.mtxcb[n].mtxatr
                            /\ r.mtxcb[n].ceilpri = s.mtxcb[n].ceilpri
                            /\ r.mtxcb[n].mtxtsk = s.mtxcb[n].mtxtsk
      /\ r.mtxcb[m].wait_queue = QueRemove(s.mtxcb[m].wait_queue, t)
  BY DEF Left
<1>3. m \in Mutexes
  BY <1>1 DEF Graph
<1>4. /\ Y \in {X, X \cup {t}} /\ (t \notin Y => r.tcb[t].state = "READY")
      /\ \/ ~Waits(r, t) /\ r.tcb[t].wid = NULL /\ r.tcb[t].state = "READY"
         \/ Waits(r, t) /\ r.tcb[t].wid = m /\ r.tcb[t].state = s.tcb[t].state
  BY DEF Ended, Waits
<1>5. \A u \in Tasks : u # t => (Waits(r, u) <=> Waits(s, u))
  BY <1>2 DEF Waits
<1>6. ASSUME NEW n \in Mutexes PROVE Waiters(r, Y, n) = Waiters(s, X, n) \ {t}
  <2>1. \A u \in Tasks : u # t => (u \in Waiters(r, Y, n) <=> u \in Waiters(s, X, n))
    BY <1>2, <1>4, <1>5 DEF Waiters
  <2>2. t \notin Waiters(r, Y, n)
    BY <1>4 DEF Waiters, Waits
  <2>3. Waiters(r, Y, n) \subseteq Tasks /\ Waiters(s, X, n) \subseteq Tasks
    BY DEF Waiters
  <2> QED BY <2>1, <2>2, <2>3
<1>7. Queues(r, Y)
  <2>1. ASSUME NEW n \in Mutexes PROVE Lists(r.mtxcb[n].wait_queue, Waiters(r, Y, n))
    <3>1. Lists(s.mtxcb[n].wait_queue, Waiters(s, X, n))
      BY <1>1 DEF Queues
    <3>2. CASE n = m
      <4>1. Lists(QueRemove(s.mtxcb[n].wait_queue, t), Waiters(s, X, n) \ {t})
        BY <3>1, RemoveList
      <4> QED BY <1>2, <1>6, <3>2, <4>1
    <3>3. CASE n # m
      <4>1. Waiters(r, Y, n) = Waiters(s, X, n)
        BY <1>6, <3>3 DEF Waiters
      <4> QED BY <1>2, <3>1, <3>3, <4>1
    <3> QED BY <3>2, <3>3
  <2> QED BY <2>1 DEF Queues
<1>8. Ordered(r)
  <2>1. priority(r) = priority(s)
    BY <1>2 DEF priority
  <2>2. ASSUME NEW n \in Mutexes, r.mtxcb[n].mtxatr # "TFIFO"
        PROVE  InOrder(r.mtxcb[n].wait_queue, priority(s))
    <3>1. InOrder(s.mtxcb[n].wait_queue, priority(s))
      BY <1>1, <1>2, <2>2 DEF Ordered
    <3>2. CASE n = m
      <4>1. Lists(s.mtxcb[n].wait_queue, Waiters(s, X, n))
        BY <1>1 DEF Queues
      <4>2. InOrder(QueRemove(s.mtxcb[n].wait_queue, t), priority(s))
        BY <3>1, <4>1, RemoveOrder
      <4> QED BY <1>2, <3>2, <4>2
    <3>3. CASE n # m
      BY <1>2, <3>1, <3>3
    <3> QED BY <3>2, <3>3
  <2> QED BY <2>1, <2>2 DEF Ordered
<1>9. \A u \in Tasks : Waits(s, u) => /\ Waits(r, u) => r.tcb[u].wid = s.tcb[u].wid
                                      /\ Waits(r, u) => OwnerOf(r, u) = OwnerOf(s, u)
  <2>1. ASSUME NEW u \in Tasks, Waits(s, u), Waits(r, u)
        PROVE  r.tcb[u].wid = s.tcb[u].wid
    BY <1>2, <1>4, <2>1
  <2>2. \A u \in Tasks : Waits(s, u) => s.tcb[u].wid \in Mutexes
    BY <1>1 DEF Graph
  <2> QED BY <1>2, <2>1, <2>2 DEF OwnerOf
<1>10. \A u \in Tasks : Waits(r, u) => Waits(s, u)
  BY <1>5
<1>11. \A S \in SUBSET Tasks : Closed(s, S) => Closed(r, S)
  BY <1>9, <1>10 DEF Closed
<1>12. Graph(r)
  <2>1. ASSUME NEW u \in Tasks, Waits(r, u)
        PROVE  /\ r.tcb[u].wid \in Mutexes
               /\ \E S \in SUBSET (Tasks \ {u}) : OwnerOf(r, u) \in S /\ Closed(r, S)
    <3>1. Waits(s, u)
      BY <1>10, <2>1
    <3>2. PICK S \in SUBSET (Tasks \ {u}) : OwnerOf(s, u) \in S /\ Closed(s, S)
      BY <1>1, <3>1 DEF Graph
    <3>3. Closed(r, S)
      BY <1>11, <3>2
    <3>4. s.tcb[u].wid \in Mutexes
      BY <1>1, <3>1 DEF Graph
    <3> QED BY <1>9, <2>1, <3>1, <3>2, <3>3, <3>4
  <2>2. ASSUME NEW u \in Tasks, ~Waits(r, u) PROVE r.tcb[u].wid = NULL
    <3>1. CASE u = t
      BY <1>4, <2>2, <3>1
    <3>2. CASE u # t
      BY <1>1, <1>2, <1>5, <2>2, <3>2 DEF Graph
    <3> QED BY <3>1, <3>2
  <2> QED BY <2>1, <2>2 DEF Graph
<1>13. Owned(r, Y, D)
  <2>1. ASSUME NEW u \in Tasks \ Y
        PROVE  /\ Lists(r.tcb[u].mtxlist, {n \in Mutexes \ D : r.mtxcb[n].mtxtsk = u})
               /\ r.tcb[u].mtxlist # << >> => r.tcb[u].state # "DORMANT"
    <3>1. u \in Tasks \ X
      BY <1>4
    <3>2. {n \in Mutexes \ D : r.mtxcb[n].mtxtsk = u} = {n \in Mutexes \ D : s.mtxcb[n].mtxtsk = u}
      BY <1>2
    <3>3. Lists(s.tcb[u].mtxlist, {n \in Mutexes \ D : s.mtxcb[n].mtxtsk = u})
      BY <1>1, <3>1 DEF Owned
    <3>4. r.tcb[u].mtxlist # << >> => r.tcb[u].state # "DORMANT"
      <4>1. CASE u = t
        BY <1>4, <4>1
      <4>2. CASE u # t
        BY <1>1, <1>2, <3>1, <4>2 DEF Owned
      <4> QED BY <4>1, <4>2
    <3> QED BY <1>2, <3>2, <3>3, <3>4
  <2> QED BY <2>1 DEF Owned
<1>14. Created(r)
  BY <1>1, <1>2 DEF Created
<1>15. Obeyed(r, Y)
  <2>1. ASSUME NEW u \in Tasks \ Y, NEW n \in Mutexes,
               n \in Range(r.tcb[u].mtxlist) \/ n = r.tcb[u].wid,
               r.mtxcb[n].mtxatr = "CEILING"
        PROVE  r.tcb[u].bpriority >= r.mtxcb[n].ceilpri
    <3>1. u \in Tasks \ X /\ s.mtxcb[n].mtxatr = "CEILING"
      BY <1>2, <1>4, <2>1
    <3>2. n \in Range(s.tcb[u].mtxlist) \/ n = s.tcb[u].wid
      <4>1. n # NULL
        BY MtxAssumption
      <4> QED BY <1>2, <1>4, <2>1, <4>1
    <3>3. s.tcb[u].bpriority >= s.mtxcb[n].ceilpri
      BY <1>1, <3>1, <3>2 DEF Obeyed
    <3> QED BY <1>2, <3>3
  <2> QED BY <2>1 DEF Obeyed
<1>16. Sound(r, Y, D)
  BY <1>2, <1>7, <1>8, <1>12, <1>13, <1>14, <1>15 DEF Sound
<1> QED BY <1>6, <1>11, <1>16
\* What is needed afterwards: nothing for t.
NeedsLess(r, Y, s, X, E, u, t) ==
  /\ ~Heeds(s, u, t) => Needs(r, Y, E, u) = Needs(s, X, E, u)
  /\ Heeds(s, u, t) => \E R \in SUBSET Pri :
       /\ Needs(s, X, E, u) = R \cup {s.tcb[t].priority}
       /\ Needs(r, Y, E, u) = R

LEMMA LeftNeeds ==
  ASSUME NEW s, NEW X, NEW D, Sound(s, X, D), NEW E, NEW t \in Tasks \ X, Waits(s, t),
         NEW m, m = s.tcb[t].wid, NEW r, Left(r, s, t, m), NEW Y, Ended(r, s, t, X, Y),
         NEW u \in Tasks
  PROVE  NeedsLess(r, Y, s, X, E, u, t)
<1>1. s \in Blocks
  BY DEF Sound
<1>2. PICK L : L = Range(s.tcb[u].mtxlist)
  OBVIOUS
<1>3. L \subseteq Mutexes
  <2>1. s.tcb[u].mtxlist \in Seq(Mutexes)
    BY <1>1, BlockTypes
  <2> QED BY <1>2, <2>1, RangeOfSeq
<1>4. /\ r.tcb[u].bpriority = s.tcb[u].bpriority /\ r.tcb[u].mtxlist = s.tcb[u].mtxlist
      /\ \A w \in Tasks : r.tcb[w].priority = s.tcb[w].priority
  BY DEF Left
<1>5. s.tcb[t].priority \in Pri
  BY <1>1, BlockTypes
<1>6. ASSUME NEW n \in L
      PROVE  /\ r.mtxcb[n].mtxatr = s.mtxcb[n].mtxatr /\ r.mtxcb[n].ceilpri = s.mtxcb[n].ceilpri
             /\ Waiters(r, Y, n) = Waiters(s, X, n) \ {t} /\ Waiters(s, X, n) \subseteq Tasks
  <2>1. n \in Mutexes
    BY <1>3
  <2>2. Waiters(r, Y, n) = Waiters(s, X, n) \ {t}
    BY <2>1, LeftSound
  <2>3. r.mtxcb[n].mtxatr = s.mtxcb[n].mtxatr /\ r.mtxcb[n].ceilpri = s.mtxcb[n].ceilpri
    BY <2>1 DEF Left
  <2>4. Waiters(s, X, n) \subseteq Tasks
    BY DEF Waiters
  <2> QED BY <2>2, <2>3, <2>4
<1>7. PICK R : R = OtherNeeds(s, X, E, u, t)
  OBVIOUS
<1>8. R \in SUBSET Pri
  BY <1>7 DEF OtherNeeds
<1>9. Needs(r, Y, E, u) = R
  BY <1>2, <1>4, <1>6, <1>7 DEF Needs, Asked, OtherNeeds
<1>10. CASE ~Heeds(s, u, t)
  <2>1. \A n \in L : s.mtxcb[n].mtxatr = "INHERIT" => t \notin Waiters(s, X, n)
    BY <1>2, <1>10 DEF Waiters, Heeds, Inherits
  <2>2. Needs(s, X, E, u) = R
    BY <1>2, <1>7, <2>1 DEF Needs, Asked, OtherNeeds
  <2> QED BY <1>9, <1>10, <2>2 DEF NeedsLess
<1>11. CASE Heeds(s, u, t)
  <2>1. \E n \in L : s.mtxcb[n].mtxatr = "INHERIT" /\ t \in Waiters(s, X, n)
    BY <1>2, <1>11 DEF Waiters, Heeds, Inherits
  <2>2. Needs(s, X, E, u) = R \cup {s.tcb[t].priority}
    BY <1>2, <1>5, <1>7, <2>1 DEF Needs, Asked, OtherNeeds
  <2> QED BY <1>8, <1>9, <1>11, <2>2 DEF NeedsLess
<1> QED BY <1>10, <1>11

\* The hook for the end of a wait puts the priorities right.
RelWaits(r, Y, q, s, t) ==
  /\ Sound(r, Y, {}) /\ Right(r, Y, None) /\ r.chain = << >> /\ Reordered(r, q)
  /\ \E S \in SUBSET (Tasks \ {t}) : Closed(s, S) /\ Confined(r, q, S)

LEMMA RelWai ==
  ASSUME NEW s, Sound(s, {}, {}), Right(s, {}, None), s.chain = << >>,
         NEW t \in Tasks, Waits(s, t), NEW m, m = s.tcb[t].wid,
         NEW q, Left(q, s, t, m), NEW Y, Ended(q, s, t, {}, Y),
         NEW r, r = mtx_rel_wai(q, t, m)
  PROVE  RelWaits(r, Y, q, s, t)
<1>1. s \in Blocks /\ Graph(s) /\ Owned(s, {}, {})
  BY DEF Sound
<1>2. Sound(q, Y, {})
  BY LeftSound
<1>3. q \in Blocks /\ Queues(q, Y) /\ Ordered(q) /\ q.chain = << >>
  BY <1>2 DEF Sound, Left
<1>4. PICK S \in SUBSET (Tasks \ {t}) : OwnerOf(s, t) \in S /\ Closed(s, S)
  BY <1>1 DEF Graph
<1>5. m \in Mutexes
  BY <1>1 DEF Graph
<1>6. PICK o : o = OwnerOf(s, t)
  OBVIOUS
<1>7. o \in Tasks \ Y /\ o \in S /\ o # t /\ Y \subseteq {t}
  BY <1>4, <1>6 DEF Ended
<1>8. Closed(q, S)
  BY <1>4, LeftSound
<1>9. o = q.mtxcb[m].mtxtsk /\ q.mtxcb[m].mtxatr = s.mtxcb[m].mtxatr
      /\ \A u \in Tasks : q.tcb[u].priority = s.tcb[u].priority
  BY <1>5, <1>6 DEF OwnerOf, Left
<1>10. ASSUME NEW u \in Tasks \ Y, ~Heeds(s, u, t) PROVE RightOf(q, Y, None, u)
  <2>1. NeedsLess(q, Y, s, {}, None, u, t)
    BY LeftNeeds
  <2>2. Needs(q, Y, None, u) = Needs(s, {}, None, u)
    BY <1>10, <2>1 DEF NeedsLess
  <2>3. RightOf(s, {}, None, u)
    BY DEF Right
  <2> QED BY <1>9, <2>2, <2>3 DEF RightOf
<1>11. ASSUME NEW u \in Tasks, Heeds(s, u, t)
       PROVE  u = o /\ s.mtxcb[m].mtxatr = "INHERIT"
  <2>1. Range(s.tcb[u].mtxlist) = {n \in Mutexes \ {} : s.mtxcb[n].mtxtsk = u}
    BY <1>1, ListOwned
  <2> QED BY <1>6, <1>11, <2>1 DEF Heeds, Inherits, OwnerOf
<1>12. CASE q.mtxcb[m].mtxatr = "INHERIT" /\ q.tcb[o].priority = q.tcb[t].priority
  <2>1. PICK s2 : s2 = reset_priority(q, o)
    OBVIOUS
  <2>2. r = change_task_priority(s2)
    BY <1>9, <1>12, <2>1 DEF mtx_rel_wai
  <2>3. None[o] = {}
    BY <1>7 DEF None
  <2>4. \A u \in Tasks \ Y : u # o => RightOf(q, Y, None, u)
    BY <1>10, <1>11
  <2>5. /\ s2 \in Blocks /\ s2.tcb = q.tcb /\ s2.mtxcb = q.mtxcb
        /\ s2.chain # << >> => s2.chain[1].tcb = o
        /\ Right(s2, Y, None)
    BY <1>3, <1>7, <2>1, <2>3, <2>4, ResetRight
  <2>6. Reordered(s2, q) /\ Queues(s2, Y) /\ Ordered(s2)
    BY <1>3, <2>5, SameBlocks
  <2>7. Sound(s2, Y, {})
    <3>1. Graph(s2) /\ Owned(s2, Y, {}) /\ Created(s2) /\ Obeyed(s2, Y)
      BY <1>2, <1>3, <2>5, <2>6, ReorderedKeeps DEF Sound
    <3> QED BY <2>5, <2>6, <3>1 DEF Sound
  <2>8. Closed(s2, S)
    BY <1>8, <2>5 DEF Closed, Waits, OwnerOf
  <2>9. s2.chain # << >> => s2.chain[1].tcb \in S /\ Clean(s2, {}, None, S, s2.chain[1].tcb)
    BY <1>7, <2>5 DEF Clean, None
  <2>10. S \in SUBSET (Tasks \ Y)
    BY <1>7
  <2>11. /\ Sound(r, Y, {}) /\ r.chain = << >> /\ Right(r, Y, None)
         /\ Reordered(r, s2) /\ Confined(r, s2, S)
    <3>1. Changed(r, s2, Y, {}, None, S)
      BY <2>2, <2>5, <2>7, <2>8, <2>9, <2>10, ChangeAll
    <3> QED BY <3>1 DEF Changed
  <2>12. Reordered(r, q)
    BY <2>6, <2>11, ReorderedTwice
  <2>13. Confined(r, q, S)
    BY <2>5, <2>11 DEF Confined, Waits
  <2> QED BY <1>4, <2>11, <2>12, <2>13 DEF RelWaits
<1>13. CASE ~(q.mtxcb[m].mtxatr = "INHERIT" /\ q.tcb[o].priority = q.tcb[t].priority)
  <2>1. r = q
    BY <1>9, <1>13 DEF mtx_rel_wai
  <2>2. ASSUME NEW u \in Tasks \ Y PROVE RightOf(q, Y, None, u)
    <3>1. CASE ~Heeds(s, u, t)
      BY <1>10, <3>1
    <3>2. CASE Heeds(s, u, t)
      <4>1. u = o /\ s.mtxcb[m].mtxatr = "INHERIT"
        BY <1>11, <3>2
      <4>2. s.tcb[u].priority # s.tcb[t].priority
        BY <1>9, <1>13, <4>1
      <4>3. NeedsLess(q, Y, s, {}, None, u, t)
        BY LeftNeeds
      <4>4. PICK R \in SUBSET Pri : /\ Needs(s, {}, None, u) = R \cup {s.tcb[t].priority}
                                    /\ Needs(q, Y, None, u) = R
        BY <3>2, <4>3 DEF NeedsLess
      <4>5. Lowest(s.tcb[u].priority, R \cup {s.tcb[t].priority})
        BY <4>4 DEF Right, RightOf
      <4>6. Lowest(s.tcb[u].priority, R)
        BY <4>2, <4>5 DEF Lowest
      <4> QED BY <1>9, <4>4, <4>6 DEF RightOf
    <3> QED BY <3>1, <3>2
  <2>3. Reordered(q, q) /\ Confined(q, q, S)
    BY DEF Reordered, Confined
  <2> QED BY <1>2, <1>3, <1>4, <2>1, <2>2, <2>3 DEF Right, RelWaits
<1> QED BY <1>12, <1>13

\* Nobody waits for m.
Unwanted(s, m) == \A u \in Tasks : s.tcb[u].wid # m

\* A mutex that is on no list and for which nobody waits gets no owner.
LEMMA Unowned ==
  ASSUME NEW s, NEW X, NEW D, Sound(s, X, D), NEW E, Right(s, X, E), s.chain = << >>,
         NEW m \in Mutexes, Loose(s, X, D, m), Unwanted(s, m),
         NEW b \in MTXCB, b.mtxtsk = NULL, b.wait_queue = << >>,
         NEW r, r = putMutex(s, m, b)
  PROVE  Sound(r, X, D \ {m}) /\ Right(r, X, E) /\ r.chain = << >>
<1>1. /\ s \in Blocks /\ Queues(s, X) /\ Ordered(s) /\ Graph(s)
      /\ Owned(s, X, D) /\ Created(s) /\ Obeyed(s, X)
  BY DEF Sound
<1>2. /\ r \in Blocks /\ r.tcb = s.tcb /\ r.chain = s.chain
      /\ r.mtxcb[m] = b /\ \A n \in Mutexes : n # m => r.mtxcb[n] = s.mtxcb[n]
  BY <1>1, PutMutex
<1>3. \A u \in Tasks : (Waits(r, u) <=> Waits(s, u)) /\ s.tcb[u].wid # m
  BY <1>2 DEF Waits, Unwanted
<1>4. \A n \in Mutexes : Waiters(r, X, n) = Waiters(s, X, n)
  BY <1>2, <1>3 DEF Waiters
<1>5. Queues(r, X)
  <2>1. Waiters(r, X, m) = {}
    BY <1>2, <1>3 DEF Waiters
  <2>2. Lists(r.mtxcb[m].wait_queue, Waiters(r, X, m))
    BY <1>2, <2>1, NothingListed
  <2>3. ASSUME NEW n \in Mutexes, n # m PROVE Lists(r.mtxcb[n].wait_queue, Waiters(r, X, n))
    BY <1>1, <1>2, <1>4, <2>3 DEF Queues
  <2> QED BY <2>2, <2>3 DEF Queues
<1>6. Ordered(r)
  <2>1. priority(r) = priority(s)
    BY <1>2 DEF priority
  <2>2. InOrder(r.mtxcb[m].wait_queue, priority(s))
    <3>1. Len(r.mtxcb[m].wait_queue) = 0
      BY <1>2
    <3> QED BY <3>1 DEF InOrder
  <2> QED BY <1>1, <1>2, <2>1, <2>2 DEF Ordered
<1>7. ASSUME NEW u \in Tasks, Waits(s, u)
      PROVE  OwnerOf(r, u) = OwnerOf(s, u) /\ r.tcb[u].wid \in Mutexes
  <2>1. s.tcb[u].wid \in Mutexes /\ s.tcb[u].wid # m
    BY <1>1, <1>3, <1>7 DEF Graph
  <2> QED BY <1>2, <2>1 DEF OwnerOf
<1>8. Graph(r)
  <2>1. \A S \in SUBSET Tasks : Closed(s, S) => Closed(r, S)
    BY <1>3, <1>7 DEF Closed
  <2>2. ASSUME NEW u \in Tasks, Waits(r, u)
        PROVE  /\ r.tcb[u].wid \in Mutexes
               /\ \E S \in SUBSET (Tasks \ {u}) : OwnerOf(r, u) \in S /\ Closed(r, S)
    <3>1. Waits(s, u)
      BY <1>3, <2>2
    <3>2. PICK S \in SUBSET (Tasks \ {u}) : OwnerOf(s, u) \in S /\ Closed(s, S)
      BY <1>1, <3>1 DEF Graph
    <3>3. Closed(r, S)
      BY <2>1, <3>2
    <3> QED BY <1>7, <3>1, <3>2, <3>3
  <2>3. ASSUME NEW u \in Tasks, ~Waits(r, u) PROVE r.tcb[u].wid = NULL
    BY <1>1, <1>2, <1>3, <2>3 DEF Graph
  <2> QED BY <2>2, <2>3 DEF Graph
<1>9. Owned(r, X, D \ {m})
  <2>1. ASSUME NEW u \in Tasks \ X
        PROVE  {n \in Mutexes \ (D \ {m}) : r.mtxcb[n].mtxtsk = u}
                 = {n \in Mutexes \ D : s.mtxcb[n].mtxtsk = u}
    <3>1. r.mtxcb[m].mtxtsk # u
      BY <1>2, MtxAssumption
    <3>2. m \notin {n \in Mutexes \ D : s.mtxcb[n].mtxtsk = u}
      BY DEF Loose
    <3> QED BY <1>2, <3>1, <3>2
  <2> QED BY <1>1, <1>2, <2>1 DEF Owned
<1>10. Created(r)
  BY <1>1, <1>2 DEF Created
<1>11. ASSUME NEW u \in Tasks \ X
       PROVE  m \notin Range(s.tcb[u].mtxlist) /\ Range(s.tcb[u].mtxlist) \subseteq Mutexes
  <2>1. Range(s.tcb[u].mtxlist) = {n \in Mutexes \ D : s.mtxcb[n].mtxtsk = u}
    BY <1>1, ListOwned
  <2> QED BY <2>1 DEF Loose
<1>12. Obeyed(r, X)
  <2>1. ASSUME NEW u \in Tasks \ X, NEW n \in Mutexes,
               n \in Range(r.tcb[u].mtxlist) \/ n = r.tcb[u].wid,
               r.mtxcb[n].mtxatr = "CEILING"
        PROVE  r.tcb[u].bpriority >= r.mtxcb[n].ceilpri
    <3>1. n # m
      BY <1>2, <1>3, <1>11, <2>1
    <3> QED BY <1>1, <1>2, <2>1, <3>1 DEF Obeyed
  <2> QED BY <2>1 DEF Obeyed
<1>13. ASSUME NEW u \in Tasks \ X PROVE RightOf(r, X, E, u)
  <2>1. ASSUME NEW n \in Range(s.tcb[u].mtxlist) PROVE Asked(r, X, n) = Asked(s, X, n)
    <3>1. n \in Mutexes /\ n # m
      BY <1>11
    <3>2. r.mtxcb[n] = s.mtxcb[n] /\ Waiters(r, X, n) = Waiters(s, X, n)
      BY <1>2, <1>4, <3>1
    <3> QED BY <1>2, <3>2 DEF Asked
  <2>2. Needs(r, X, E, u) = Needs(s, X, E, u)
    BY <1>2, <2>1 DEF Needs
  <2> QED BY <1>2, <2>2 DEF Right, RightOf
<1> QED BY <1>2, <1>5, <1>6, <1>8, <1>9, <1>10, <1>12, <1>13 DEF Sound, Right

\* The mutexes of M have gone to the first tasks that waited for them, or are
\* free; nothing else concerns the tasks that go on waiting.
Passed(r, s, M) ==
  /\ \A n \in Mutexes : /\ r.mtxcb[n].mtxid = s.mtxcb[n].mtxid
                        /\ r.mtxcb[n].mtxatr = s.mtxcb[n].mtxatr
  /\ \A n \in Mutexes \ M : /\ r.mtxcb[n].mtxtsk = s.mtxcb[n].mtxtsk
                            /\ r.mtxcb[n].wait_queue = s.mtxcb[n].wait_queue
  /\ \A n \in M :
       IF s.mtxcb[n].wait_queue = << >> THEN r.mtxcb[n].mtxtsk = NULL
       ELSE LET next == Head(s.mtxcb[n].wait_queue)
            IN /\ r.mtxcb[n].mtxtsk = next
               /\ r.mtxcb[n].wait_queue = QueRemove(s.mtxcb[n].wait_queue, next)
  /\ \A u \in Tasks :
       \/ \E n \in M : s.mtxcb[n].wait_queue # << >> /\ u = Head(s.mtxcb[n].wait_queue)
       \/ /\ r.tcb[u].state = s.tcb[u].state /\ r.tcb[u].wid = s.tcb[u].wid
          /\ r.tcb[u].priority = s.tcb[u].priority /\ r.tcb[u].mtxlist = s.tcb[u].mtxlist

\* A loose mutex is handed over.
HandsOver(r, s, X, D, E, m) ==
  /\ Sound(r, X, D \ {m}) /\ Right(r, X, E) /\ r.chain = << >>
  /\ Passed(r, s, {m})
  /\ s.mtxcb[m].wait_queue # << >> => Head(s.mtxcb[m].wait_queue) \in Tasks \ X

LEMMA HandOver ==
  ASSUME NEW s, NEW X, NEW D, Sound(s, X, D), NEW E, Right(s, X, E), s.chain = << >>,
         NEW m \in Mutexes, Loose(s, X, D, m), s.mtxcb[m].mtxid,
         \A u \in Tasks : u \in X => s.tcb[u].wid # m,
         NEW r, r = hand_over(s, m)
  PROVE  HandsOver(r, s, X, D, E, m)
<1>1. s \in Blocks /\ Queues(s, X) /\ Ordered(s) /\ Graph(s) /\ Obeyed(s, X)
  BY DEF Sound
<1>2. PICK v : v = s.mtxcb[m].wait_queue
  OBVIOUS
<1>3. Lists(v, Waiters(s, X, m))
  BY <1>1, <1>2 DEF Queues
<1>4. CASE v = << >>
  <2>1. PICK b : b = [s.mtxcb[m] EXCEPT !.mtxtsk = NULL]
    OBVIOUS
  <2>2. s.mtxcb[m] \in MTXCB
    BY <1>1, BlockTypes
  <2>3. /\ b \in MTXCB /\ b.mtxtsk = NULL /\ b.wait_queue = << >>
        /\ b.mtxid = s.mtxcb[m].mtxid /\ b.mtxatr = s.mtxcb[m].mtxatr
    BY <1>2, <1>4, <2>1, <2>2 DEF MTXCB
  <2>4. r = putMutex(s, m, b)
    <3>1. r = [s EXCEPT !.mtxcb[m].mtxtsk = NULL]
      BY <1>2, <1>4 DEF hand_over, mtx_waited
    <3> QED BY <2>1, <3>1 DEF putMutex
  <2>5. Unwanted(s, m)
    <3>1. Waiters(s, X, m) = {}
      BY <1>3, <1>4, EmptyList
    <3>2. ASSUME NEW u \in Tasks, u \notin X PROVE s.tcb[u].wid # m
      <4>1. CASE Waits(s, u)
        BY <3>1, <3>2, <4>1 DEF Waiters
      <4>2. CASE ~Waits(s, u)
        BY <1>1, <4>2, MtxAssumption DEF Graph
      <4> QED BY <4>1, <4>2
    <3> QED BY <3>2 DEF Unwanted
  <2>6. Sound(r, X, D \ {m}) /\ Right(r, X, E) /\ r.chain = << >>
    BY <2>3, <2>4, <2>5, Unowned
  <2>7. /\ r.tcb = s.tcb /\ r.mtxcb[m] = b
        /\ \A n \in Mutexes : n # m => r.mtxcb[n] = s.mtxcb[n]
    BY <1>1, <2>3, <2>4, PutMutex
  <2>8. Passed(r, s, {m})
    BY <1>2, <1>4, <2>3, <2>7 DEF Passed
  <2> QED BY <1>2, <1>4, <2>6, <2>8 DEF HandsOver
<1>5. CASE v # << >>
  <2>1. PICK t : t = Head(v)
    OBVIOUS
  <2>2. t \in Waiters(s, X, m)
    <3>1. v \in Seq(Waiters(s, X, m))
      BY <1>3 DEF Lists
    <3> QED BY <1>5, <2>1, <3>1
  <2>3. t \in Tasks \ X /\ Waits(s, t) /\ m = s.tcb[t].wid
    BY <2>2 DEF Waiters
  <2>4. PICK q : q = wait_release(s, t)
    OBVIOUS
  <2>5. Left(q, s, t, m) /\ q.tcb[t].state = "READY" /\ q.tcb[t].wid = NULL
    BY <1>1, <2>3, <2>4, Released
  <2>6. Ended(q, s, t, X, X)
    BY <2>5 DEF Ended
  <2>7. Sound(q, X, D) /\ Waiters(q, X, m) = Waiters(s, X, m) \ {t}
    <3>1. Sound(q, X, D)
      BY <2>3, <2>5, <2>6, LeftSound
    <3>2. \A n \in Mutexes : Waiters(q, X, n) = Waiters(s, X, n) \ {t}
      BY <2>3, <2>5, <2>6, LeftSound
    <3> QED BY <3>1, <3>2
  <2>8. /\ q.chain = << >> /\ q.mtxcb[m].mtxid = s.mtxcb[m].mtxid
        /\ q.mtxcb[m].mtxatr = s.mtxcb[m].mtxatr /\ q.mtxcb[m].ceilpri = s.mtxcb[m].ceilpri
        /\ q.mtxcb[m].mtxtsk = s.mtxcb[m].mtxtsk
        /\ q.mtxcb[m].wait_queue = QueRemove(v, t)
        /\ \A n \in Mutexes : n # m => q.mtxcb[n] = s.mtxcb[n]
        /\ \A u \in Tasks : /\ u # t => q.tcb[u] = s.tcb[u]
                            /\ q.tcb[u].priority = s.tcb[u].priority
                            /\ q.tcb[u].bpriority = s.tcb[u].bpriority
    BY <1>2, <2>5 DEF Left
  <2>9. Right(q, X, E)
    <3>1. ASSUME NEW u \in Tasks \ X PROVE RightOf(q, X, E, u)
      <4>1. ~Heeds(s, u, t)
        <5>1. Range(s.tcb[u].mtxlist) = {n \in Mutexes \ D : s.mtxcb[n].mtxtsk = u}
          BY ListOwned DEF Sound
        <5> QED BY <2>3, <5>1 DEF Heeds, Loose
      <4>2. NeedsLess(q, X, s, X, E, u, t)
        BY <2>3, <2>5, <2>6, LeftNeeds
      <4>3. Needs(q, X, E, u) = Needs(s, X, E, u)
        BY <4>1, <4>2 DEF NeedsLess
      <4> QED BY <2>8, <4>3 DEF Right, RightOf
    <3> QED BY <2>8, <3>1 DEF Right
  <2>10. Loose(q, X, D, m)
    BY <2>8 DEF Loose
  <2>11. q.mtxcb[m].mtxatr = "CEILING" => q.tcb[t].bpriority >= q.mtxcb[m].ceilpri
    BY <1>1, <2>3, <2>8 DEF Obeyed
  <2>12. ASSUME q.mtxcb[m].mtxatr = "INHERIT", NEW u \in Waiters(q, X, m)
         PROVE  q.tcb[t].priority <= q.tcb[u].priority
    <3>1. InOrder(v, priority(s))
      BY <1>1, <1>2, <2>8, <2>12 DEF Ordered
    <3>2. \A w \in Waiters(s, X, m) : w \in Tasks /\ priority(s)[w] = s.tcb[w].priority
      BY DEF Waiters, priority
    <3>3. \A w \in Waiters(s, X, m) : priority(s)[w] \in Int
      <4>1. \A w \in Tasks : s.tcb[w].priority \in Pri
        BY <1>1, BlockTypes
      <4> QED BY <3>2, <4>1, PriFacts
    <3>4. \A w \in Waiters(s, X, m) : priority(s)[Head(v)] <= priority(s)[w]
      BY <1>3, <1>5, <3>1, <3>3, HeadLowest
    <3> QED BY <2>1, <2>2, <2>7, <2>8, <2>12, <3>2, <3>4
  <2>13. r = own(q, t, m)
    BY <1>2, <1>5, <2>1, <2>4 DEF hand_over, mtx_waited
  <2>14. /\ Sound(r, X, D \ {m}) /\ Right(r, X, E) /\ r.chain = << >>
         /\ Handed(r, q, t, m)
    <3>1. Sound(q, X, D) /\ Right(q, X, E) /\ q.chain = << >> /\ t \in Tasks \ X
      BY <2>3, <2>7, <2>8, <2>9
    <3>2. /\ q.tcb[t].state = "READY" /\ Loose(q, X, D, m) /\ q.mtxcb[m].mtxid
          /\ q.mtxcb[m].mtxatr = "CEILING" => q.tcb[t].bpriority >= q.mtxcb[m].ceilpri
          /\ q.mtxcb[m].mtxatr = "INHERIT" =>
               \A u \in Waiters(q, X, m) : q.tcb[t].priority <= q.tcb[u].priority
      BY <2>5, <2>8, <2>10, <2>11, <2>12
    <3>3. Owning(r, q, X, D, E, t, m)
      BY <2>13, <3>1, <3>2, Owns
    <3> QED BY <3>3 DEF Owning
  <2>15. Passed(r, s, {m})
    <3>1. \A n \in Mutexes : /\ r.mtxcb[n].mtxid = s.mtxcb[n].mtxid
                             /\ r.mtxcb[n].mtxatr = s.mtxcb[n].mtxatr
      BY <2>8, <2>14 DEF Handed
    <3>2. \A n \in Mutexes \ {m} : /\ r.mtxcb[n].mtxtsk = s.mtxcb[n].mtxtsk
                                   /\ r.mtxcb[n].wait_queue = s.mtxcb[n].wait_queue
      BY <2>8, <2>14 DEF Handed
    <3>3. r.mtxcb[m].mtxtsk = t /\ r.mtxcb[m].wait_queue = QueRemove(v, t)
      BY <2>8, <2>14 DEF Handed
    <3>4. \A u \in Tasks : u # t =>
            /\ r.tcb[u].state = s.tcb[u].state /\ r.tcb[u].wid = s.tcb[u].wid
            /\ r.tcb[u].priority = s.tcb[u].priority /\ r.tcb[u].mtxlist = s.tcb[u].mtxlist
      BY <2>8, <2>14 DEF Handed
    <3> QED BY <1>2, <1>5, <2>1, <3>1, <3>2, <3>3, <3>4 DEF Passed
  <2> QED BY <1>2, <2>1, <2>3, <2>14, <2>15 DEF HandsOver
<1> QED BY <1>4, <1>5
\* A mutex is taken off the list of its owner, which it still names.
dropped(s, t, m) == [s EXCEPT !.tcb[t].mtxlist = RemoveFirst(@, m)]

Drops(r, s, t, m) ==
  /\ Sound(r, {}, {m}) /\ r.chain = s.chain /\ r.mtxcb = s.mtxcb
  /\ \A u \in Tasks : /\ u # t => r.tcb[u] = s.tcb[u]
                      /\ r.tcb[u].state = s.tcb[u].state
                      /\ r.tcb[u].wid = s.tcb[u].wid
                      /\ r.tcb[u].priority = s.tcb[u].priority
                      /\ u # t => RightOf(r, {}, None, u)

LEMMA Dropped ==
  ASSUME NEW s, Sound(s, {}, {}), Right(s, {}, None), NEW t \in Tasks, NEW m \in Mutexes,
         s.mtxcb[m].mtxtsk = t, s.chain = << >>, NEW r,
         r = dropped(s, t, m)
  PROVE  Drops(r, s, t, m)
<1>1. /\ s \in Blocks /\ Queues(s, {}) /\ Ordered(s) /\ Graph(s)
      /\ Owned(s, {}, {}) /\ Created(s) /\ Obeyed(s, {})
  BY DEF Sound
<1>2. PICK l, L : l = QueRemove(s.tcb[t].mtxlist, m) /\ L = {n \in Mutexes : s.mtxcb[n].mtxtsk = t}
  OBVIOUS
<1>3. Lists(s.tcb[t].mtxlist, L)
  <2>1. L = {n \in Mutexes \ {} : s.mtxcb[n].mtxtsk = t}
    BY <1>2
  <2> QED BY <1>1, <2>1 DEF Owned
<1>4. Lists(l, L \ {m})
  BY <1>2, <1>3, RemoveList
<1>5. l \in Seq(Mutexes)
  <2>1. L \ {m} \in SUBSET Mutexes
    BY <1>2
  <2> QED BY <1>4, <2>1, ListsSeq
<1>6. PICK b : b = [s.tcb[t] EXCEPT !.mtxlist = l]
  OBVIOUS
<1>7. /\ b \in TCB /\ b.state = s.tcb[t].state /\ b.wid = s.tcb[t].wid /\ b.mtxlist = l
      /\ b.priority = s.tcb[t].priority /\ b.bpriority = s.tcb[t].bpriority
  <2>1. s.tcb[t] \in TCB
    BY <1>1, BlockTypes
  <2> QED BY <1>5, <1>6, <2>1 DEF TCB
<1>8. r = putTask(s, t, b)
  BY <1>2, <1>6 DEF putTask, QueRemove, dropped
<1>9. /\ r \in Blocks /\ r.mtxcb = s.mtxcb /\ r.chain = s.chain
      /\ r.tcb[t] = b /\ \A u \in Tasks : u # t => r.tcb[u] = s.tcb[u]
  BY <1>1, <1>7, <1>8, PutTask
<1>10. \A u \in Tasks : /\ r.tcb[u].state = s.tcb[u].state /\ r.tcb[u].wid = s.tcb[u].wid
                        /\ r.tcb[u].priority = s.tcb[u].priority
                        /\ r.tcb[u].bpriority = s.tcb[u].bpriority
  BY <1>7, <1>9
<1>11. \A u \in Tasks : (Waits(r, u) <=> Waits(s, u)) /\ OwnerOf(r, u) = OwnerOf(s, u)
  BY <1>9, <1>10 DEF Waits, OwnerOf
<1>12. \A n \in Mutexes : Waiters(r, {}, n) = Waiters(s, {}, n)
  BY <1>10, <1>11 DEF Waiters
<1>13. Queues(r, {})
  BY <1>1, <1>9, <1>12 DEF Queues
<1>14. Ordered(r)
  <2>1. priority(r) = priority(s)
    BY <1>10 DEF priority
  <2> QED BY <1>1, <1>9, <2>1 DEF Ordered
<1>15. Graph(r)
  <2>1. \A S \in SUBSET Tasks : Closed(s, S) => Closed(r, S)
    BY <1>11 DEF Closed
  <2>2. \A u \in Tasks : \A S \in SUBSET (Tasks \ {u}) : Closed(s, S) => Closed(r, S)
    BY <2>1
  <2> QED BY <1>1, <1>10, <1>11, <2>2 DEF Graph
<1>16. Owned(r, {}, {m})
  <2>1. ASSUME NEW u \in Tasks
        PROVE  /\ Lists(r.tcb[u].mtxlist, {n \in Mutexes \ {m} : r.mtxcb[n].mtxtsk = u})
               /\ r.tcb[u].mtxlist # << >> => r.tcb[u].state # "DORMANT"
    <3>1. CASE u = t
      <4>1. {n \in Mutexes \ {m} : r.mtxcb[n].mtxtsk = u} = L \ {m}
        BY <1>2, <1>9, <3>1
      <4>2. r.tcb[u].state # "DORMANT"
        <5>1. s.tcb[t].mtxlist # << >>
          <6>1. m \in L
            BY <1>2
          <6> QED BY <1>3, <6>1, EmptyList
        <5> QED BY <1>1, <1>10, <3>1, <5>1 DEF Owned
      <4> QED BY <1>4, <1>7, <1>9, <3>1, <4>1, <4>2
    <3>2. CASE u # t
      <4>1. {n \in Mutexes \ {m} : r.mtxcb[n].mtxtsk = u} = {n \in Mutexes \ {} : s.mtxcb[n].mtxtsk = u}
        BY <1>9, <3>2
      <4> QED BY <1>1, <1>9, <3>2, <4>1 DEF Owned
    <3> QED BY <3>1, <3>2
  <2> QED BY <2>1 DEF Owned
<1>17. Created(r)
  BY <1>1, <1>9 DEF Created
<1>18. Range(r.tcb[t].mtxlist) \subseteq Range(s.tcb[t].mtxlist)
  BY <1>3, <1>4, <1>7, <1>9 DEF Lists
<1>19. Obeyed(r, {})
  <2>1. ASSUME NEW u \in Tasks, NEW n \in Mutexes,
               n \in Range(r.tcb[u].mtxlist) \/ n = r.tcb[u].wid,
               r.mtxcb[n].mtxatr = "CEILING"
        PROVE  r.tcb[u].bpriority >= r.mtxcb[n].ceilpri
    <3>1. n \in Range(s.tcb[u].mtxlist) \/ n = s.tcb[u].wid
      BY <1>9, <1>10, <1>18, <2>1
    <3> QED BY <1>1, <1>9, <1>10, <2>1, <3>1 DEF Obeyed
  <2> QED BY <2>1 DEF Obeyed
<1>20. ASSUME NEW u \in Tasks, u # t PROVE RightOf(r, {}, None, u)
  <2>1. Range(s.tcb[u].mtxlist) \subseteq Mutexes
    <3>1. s.tcb[u].mtxlist \in Seq(Mutexes)
      BY <1>1, BlockTypes
    <3> QED BY <3>1, RangeOfSeq
  <2>2. \A n \in Mutexes : Asked(r, {}, n) = Asked(s, {}, n)
    <3>1. \A n \in Mutexes : Waiters(s, {}, n) \subseteq Tasks
      BY DEF Waiters
    <3> QED BY <1>9, <1>10, <1>12, <3>1 DEF Asked
  <2>3. Needs(r, {}, None, u) = Needs(s, {}, None, u)
    BY <1>9, <1>20, <2>1, <2>2 DEF Needs
  <2>4. RightOf(s, {}, None, u)
    <3>1. s.chain = << >> => RightOf(s, {}, None, u)
      BY DEF Right
    <3> QED BY <3>1
  <2> QED BY <1>10, <2>3, <2>4 DEF RightOf
<1>21. Sound(r, {}, {m})
  BY <1>9, <1>13, <1>14, <1>15, <1>16, <1>17, <1>19 DEF Sound
<1> QED BY <1>9, <1>10, <1>20, <1>21 DEF Drops

\* The owner of m gives it up, but for its name.
GivesUp(r, s, m, C) ==
  /\ Sound(r, {}, {m}) /\ Right(r, {}, None) /\ r.chain = << >>
  /\ \A n \in Mutexes : /\ r.mtxcb[n].mtxtsk = s.mtxcb[n].mtxtsk
                        /\ r.mtxcb[n].mtxid = s.mtxcb[n].mtxid
                        /\ r.mtxcb[n].mtxatr = s.mtxcb[n].mtxatr
  /\ Confined(r, s, C)

LEMMA ReleaseMutex ==
  ASSUME NEW s, Sound(s, {}, {}), Right(s, {}, None), s.chain = << >>,
         NEW t \in Tasks, NEW m \in Mutexes, s.mtxcb[m].mtxtsk = t,
         NEW C \in SUBSET Tasks, t \in C, Closed(s, C),
         NEW r, r = release_mutex(s, t, m)
  PROVE  GivesUp(r, s, m, C)
<1>1. PICK q : q = dropped(s, t, m)
  OBVIOUS
<1>2. /\ Sound(q, {}, {m}) /\ q.chain = << >> /\ q.mtxcb = s.mtxcb
      /\ \A u \in Tasks : /\ q.tcb[u].state = s.tcb[u].state
                          /\ q.tcb[u].wid = s.tcb[u].wid
                          /\ q.tcb[u].priority = s.tcb[u].priority
      /\ \A u \in Tasks \ {} : u # t => RightOf(q, {}, None, u)
  <2>1. Drops(q, s, t, m)
    BY <1>1, Dropped
  <2> QED BY <2>1 DEF Drops
<1>3. q \in Blocks /\ Queues(q, {}) /\ Ordered(q)
  BY <1>2 DEF Sound
<1>4. PICK p : p = reset_priority(q, t)
  OBVIOUS
<1>5. r = change_task_priority(p)
  BY <1>1, <1>4 DEF release_mutex, dropped
<1>6. None[t] = {} /\ t \in Tasks \ {}
  BY DEF None
<1>7. /\ p \in Blocks /\ p.tcb = q.tcb /\ p.mtxcb = q.mtxcb
      /\ p.chain # << >> => p.chain[1].tcb = t
      /\ Right(p, {}, None)
  BY <1>2, <1>3, <1>4, <1>6, ResetRight
<1>8. Sound(p, {}, {m})
  <2>1. Reordered(p, q) /\ Queues(p, {}) /\ Ordered(p)
    BY <1>3, <1>7, SameBlocks
  <2>2. Graph(p) /\ Owned(p, {}, {m}) /\ Created(p) /\ Obeyed(p, {})
    BY <1>2, <1>3, <1>7, <2>1, ReorderedKeeps DEF Sound
  <2> QED BY <1>7, <2>1, <2>2 DEF Sound
<1>9. Closed(p, C)
  BY <1>2, <1>7 DEF Closed, Waits, OwnerOf
<1>10. Clean(p, {m}, None, C, t)
  BY <1>2, <1>7 DEF Clean, None
<1>11. /\ Sound(r, {}, {m}) /\ r.chain = << >> /\ Right(r, {}, None)
       /\ Reordered(r, p) /\ Confined(r, p, C)
  <2>1. p.chain # << >> => p.chain[1].tcb \in C /\ Clean(p, {m}, None, C, p.chain[1].tcb)
    BY <1>7, <1>10
  <2>2. C \in SUBSET (Tasks \ {})
    OBVIOUS
  <2>3. Changed(r, p, {}, {m}, None, C)
    BY <1>5, <1>7, <1>8, <1>9, <2>1, <2>2, ChangeAll
  <2> QED BY <2>3 DEF Changed
<1>12. Confined(r, s, C)
  BY <1>2, <1>7, <1>11 DEF Confined, Waits
<1>13. \A n \in Mutexes : /\ r.mtxcb[n].mtxtsk = s.mtxcb[n].mtxtsk
                          /\ r.mtxcb[n].mtxid = s.mtxcb[n].mtxid
                          /\ r.mtxcb[n].mtxatr = s.mtxcb[n].mtxatr
  BY <1>2, <1>7, <1>11 DEF Reordered
<1> QED BY <1>11, <1>12, <1>13 DEF GivesUp
\* What signal_all_mutex reads off its recursive function, for a list of
\* length n.
HandedOn(f, s, list, n) ==
  f = [i \in 0 .. n |-> IF i = 0 THEN s ELSE hand_over(f[i - 1], list[i])]

LEMMA HandedOnExist ==
  ASSUME NEW s, NEW list, NEW n \in Nat
  PROVE  \E f : HandedOn(f, s, list, n)
<1> DEFINE Bad == {m \in Nat : ~ \E f : HandedOn(f, s, list, m)}
           next(b, i) == hand_over(b, list[i])
<1>1. SUFFICES ASSUME Bad # {} PROVE FALSE
  OBVIOUS
<1>2. PICK m \in Bad : \A k \in Bad : m <= k
  <2>1. Bad \in SUBSET Nat
    OBVIOUS
  <2> QED BY <1>1, <2>1, NatMin
<1>3. m \in Nat /\ ~ \E f : HandedOn(f, s, list, m)
  OBVIOUS
<1>4. CASE m = 0
  <2> DEFINE g == [i \in 0 .. 0 |-> s]
  <2>1. HandedOn(g, s, list, 0)
    BY DEF HandedOn
  <2> QED BY <1>3, <1>4, <2>1
<1>5. CASE m # 0
  <2>1. m - 1 \in Nat /\ m - 1 \notin Bad
    BY <1>2, <1>3, <1>5
  <2>2. PICK f : HandedOn(f, s, list, m - 1)
    BY <2>1
  <2> DEFINE g == [i \in 0 .. m |-> IF i # m THEN f[i] ELSE next(f[m - 1], m)]
  <2>3. \A i \in 0 .. m - 1 : g[i] = f[i]
    BY <1>3
  <2> HIDE DEF next
  <2>4. \A i \in 0 .. m : g[i] = IF i = 0 THEN s ELSE next(g[i - 1], i)
    <3>1. ASSUME NEW i \in 0 .. m - 1
          PROVE  g[i] = IF i = 0 THEN s ELSE next(g[i - 1], i)
      <4>1. f[i] = IF i = 0 THEN s ELSE next(f[i - 1], i)
        BY <2>1, <2>2 DEF HandedOn, next
      <4>2. i # 0 => i - 1 \in 0 .. m - 1
        BY <2>1
      <4> HIDE DEF g
      <4> QED BY <2>3, <4>1, <4>2
    <3>2. g[m] = next(g[m - 1], m)
      <4>1. g[m] = next(f[m - 1], m)
        BY <1>3
      <4>2. g[m - 1] = f[m - 1]
        BY <2>1, <2>3
      <4> HIDE DEF g
      <4> QED BY <4>1, <4>2
    <3> HIDE DEF g
    <3> QED BY <1>3, <1>5, <3>1, <3>2
  <2>5. g = [i \in 0 .. m |-> g[i]]
    OBVIOUS
  <2>6. HandedOn(g, s, list, m)
    <3> HIDE DEF g
    <3> QED BY <2>4, <2>5 DEF HandedOn, next
  <2> QED BY <1>3, <2>6
<1> QED BY <1>4, <1>5

\* One mutex more.
LEMMA PassedNext ==
  ASSUME NEW s, NEW a, NEW r, NEW M \in SUBSET Mutexes, NEW m \in Mutexes \ M,
         Passed(a, s, M), Passed(r, a, {m})
  PROVE  Passed(r, s, M \cup {m})
<1>1. a.mtxcb[m].wait_queue = s.mtxcb[m].wait_queue
  BY DEF Passed
<1>2. \A n \in Mutexes : /\ r.mtxcb[n].mtxid = s.mtxcb[n].mtxid
                         /\ r.mtxcb[n].mtxatr = s.mtxcb[n].mtxatr
  BY DEF Passed
<1>3. \A n \in Mutexes \ (M \cup {m}) : /\ r.mtxcb[n].mtxtsk = s.mtxcb[n].mtxtsk
                                        /\ r.mtxcb[n].wait_queue = s.mtxcb[n].wait_queue
  BY DEF Passed
<1>4. ASSUME NEW n \in M \cup {m}
      PROVE  IF s.mtxcb[n].wait_queue = << >> THEN r.mtxcb[n].mtxtsk = NULL
             ELSE LET next == Head(s.mtxcb[n].wait_queue)
                  IN /\ r.mtxcb[n].mtxtsk = next
                     /\ r.mtxcb[n].wait_queue = QueRemove(s.mtxcb[n].wait_queue, next)
  <2>1. CASE n = m
    BY <1>1, <2>1 DEF Passed
  <2>2. CASE n # m
    <3>1. n \in M /\ n \in Mutexes \ {m}
      BY <2>2
    <3>2. /\ r.mtxcb[n].mtxtsk = a.mtxcb[n].mtxtsk
          /\ r.mtxcb[n].wait_queue = a.mtxcb[n].wait_queue
      BY <3>1 DEF Passed
    <3> QED BY <3>1, <3>2 DEF Passed
  <2> QED BY <2>1, <2>2
<1>5. ASSUME NEW u \in Tasks,
             ~ \E n \in M \cup {m} :
                 s.mtxcb[n].wait_queue # << >> /\ u = Head(s.mtxcb[n].wait_queue)
      PROVE  /\ r.tcb[u].state = s.tcb[u].state /\ r.tcb[u].wid = s.tcb[u].wid
             /\ r.tcb[u].priority = s.tcb[u].priority /\ r.tcb[u].mtxlist = s.tcb[u].mtxlist
  <2>1. /\ a.tcb[u].state = s.tcb[u].state /\ a.tcb[u].wid = s.tcb[u].wid
        /\ a.tcb[u].priority = s.tcb[u].priority /\ a.tcb[u].mtxlist = s.tcb[u].mtxlist
    BY <1>5 DEF Passed
  <2>2. /\ r.tcb[u].state = a.tcb[u].state /\ r.tcb[u].wid = a.tcb[u].wid
        /\ r.tcb[u].priority = a.tcb[u].priority /\ r.tcb[u].mtxlist = a.tcb[u].mtxlist
    BY <1>1, <1>5 DEF Passed
  <2> QED BY <2>1, <2>2
<1> QED BY <1>2, <1>3, <1>4, <1>5 DEF Passed

\* The blocks after the mutexes of N have been handed over.
HandsOn(a, s, t, N) ==
  /\ Sound(a, {t}, {}) /\ Right(a, {t}, None) /\ a.chain = << >> /\ Passed(a, s, N)
  /\ \A n \in N : s.mtxcb[n].wait_queue # << >> => Head(s.mtxcb[n].wait_queue) \in Tasks \ {t}

LEMMA HandsOnNext ==
  ASSUME NEW s, NEW t \in Tasks, NEW N \in SUBSET Mutexes, NEW a, HandsOn(a, s, t, N),
         NEW m \in Mutexes \ N, s.mtxcb[m].mtxtsk = t, s.tcb[t].wid # m,
         NEW r, r = hand_over(a, m)
  PROVE  HandsOn(r, s, t, N \cup {m})
<1>1. Sound(a, {t}, {}) /\ Right(a, {t}, None) /\ a.chain = << >> /\ Passed(a, s, N)
  BY DEF HandsOn
<1>2. a.mtxcb[m].mtxtsk = t /\ a.mtxcb[m].wait_queue = s.mtxcb[m].wait_queue
  BY <1>1 DEF Passed
<1>3. a.mtxcb[m].mtxid
  <2>1. Created(a) /\ a \in Blocks
    BY <1>1 DEF Sound
  <2>2. t # NULL
    BY MtxAssumption
  <2> QED BY <1>2, <2>1, <2>2 DEF Created
<1>4. Loose(a, {t}, {}, m)
  BY <1>2 DEF Loose
<1>5. a.tcb[t].wid # m
  <2>1. ~ \E n \in N : s.mtxcb[n].wait_queue # << >> /\ t = Head(s.mtxcb[n].wait_queue)
    BY DEF HandsOn
  <2>2. a.tcb[t].wid = s.tcb[t].wid
    BY <1>1, <2>1 DEF Passed
  <2> QED BY <2>2
<1>6. \A u \in Tasks : u \in {t} => a.tcb[u].wid # m
  BY <1>5
<1>7. /\ Sound(r, {t}, {} \ {m}) /\ Right(r, {t}, None) /\ r.chain = << >>
      /\ Passed(r, a, {m})
      /\ a.mtxcb[m].wait_queue # << >> => Head(a.mtxcb[m].wait_queue) \in Tasks \ {t}
  <2>1. HandsOver(r, a, {t}, {}, None, m)
    BY <1>1, <1>3, <1>4, <1>6, HandOver
  <2> QED BY <2>1 DEF HandsOver
<1>8. Sound(r, {t}, {})
  <2>1. {} \ {m} = {}
    OBVIOUS
  <2> QED BY <1>7, <2>1
<1>9. Passed(r, s, N \cup {m})
  BY <1>1, <1>7, PassedNext
<1>10. ASSUME NEW n \in N \cup {m}, s.mtxcb[n].wait_queue # << >>
       PROVE  Head(s.mtxcb[n].wait_queue) \in Tasks \ {t}
  <2>1. CASE n = m
    BY <1>2, <1>7, <1>10, <2>1
  <2>2. CASE n # m
    BY <1>10, <2>2 DEF HandsOn
  <2> QED BY <2>1, <2>2
<1> QED BY <1>7, <1>8, <1>9, <1>10 DEF HandsOn

\* All mutexes of a task that is being terminated are handed over.
LEMMA SignalAll ==
  ASSUME NEW s, NEW t \in Tasks, Sound(s, {t}, {}), Right(s, {t}, None), s.chain = << >>,
         NEW M, M = {m \in Mutexes : s.mtxcb[m].mtxtsk = t}, Lists(s.tcb[t].mtxlist, M),
         s.tcb[t].wid \notin M, NEW r, r = signal_all_mutex(s, t)
  PROVE  HandsOn(r, s, t, M)
<1>1. PICK list, n : list = s.tcb[t].mtxlist /\ n = Len(list)
  OBVIOUS
<1>2. /\ list \in Seq(M) /\ n \in Nat
      /\ \A i \in 1 .. n : list[i] \in M
      /\ \A i, j \in 1 .. n : list[i] = list[j] => i = j
      /\ \A x \in M : \E i \in 1 .. n : list[i] = x
  <2>1. PICK K : K = M
    OBVIOUS
  <2>2. Lists(list, K)
    BY <1>1, <2>1
  <2>3. /\ list \in Seq(K) /\ Len(list) \in Nat
        /\ \A i \in 1 .. Len(list) : list[i] \in K
        /\ \A i, j \in 1 .. Len(list) : list[i] = list[j] => i = j
        /\ \A x \in K : \E i \in 1 .. Len(list) : list[i] = x
    BY <2>2, ListsPlaces
  <2> QED BY <1>1, <2>1, <2>3
<1>3. PICK f : HandedOn(f, s, list, n) /\ r = f[n]
  <2> DEFINE F == CHOOSE f : HandedOn(f, s, list, n)
  <2>1. HandedOn(F, s, list, n)
    BY <1>2, HandedOnExist
  <2>2. r = F[n]
    BY <1>1 DEF signal_all_mutex, HandedOn
  <2> QED BY <2>1, <2>2
<1>4. /\ f[0] = s
      /\ \A i \in 1 .. n : f[i] = hand_over(f[i - 1], list[i])
  BY <1>2, <1>3 DEF HandedOn
<1> DEFINE Bad == {i \in 0 .. n : ~HandsOn(f[i], s, t, FirstOf(list, i))}
<1>5. SUFFICES ASSUME Bad # {} PROVE FALSE
  <2>1. SUFFICES FirstOf(list, n) = M
    BY <1>2, <1>3, <2>1
  <2> QED BY <1>2 DEF FirstOf
<1>6. PICK i \in Bad : \A k \in Bad : i <= k
  <2>1. Bad \in SUBSET Nat
    BY <1>2
  <2> QED BY <1>5, <2>1, NatMin
<1>7. i \in 0 .. n /\ ~HandsOn(f[i], s, t, FirstOf(list, i))
  OBVIOUS
<1>8. CASE i = 0
  <2>1. FirstOf(list, i) = {}
    BY <1>8 DEF FirstOf
  <2>2. Passed(s, s, {})
    BY DEF Passed
  <2>3. HandsOn(s, s, t, {})
    BY <2>2 DEF HandsOn
  <2> QED BY <1>4, <1>7, <1>8, <2>1, <2>3
<1>9. CASE i # 0
  <2>1. i - 1 \in 0 .. n /\ i \in 1 .. n /\ i - 1 \notin Bad
    BY <1>2, <1>6, <1>7, <1>9
  <2>2. PICK N : N = FirstOf(list, i - 1)
    OBVIOUS
  <2>3. HandsOn(f[i - 1], s, t, N)
    BY <2>1, <2>2
  <2>4. list[i] \in M \ N /\ N \subseteq M /\ FirstOf(list, i) = N \cup {list[i]}
    BY <1>2, <2>1, <2>2 DEF FirstOf
  <2>5. HandsOn(f[i], s, t, N \cup {list[i]})
    <3>1. /\ N \in SUBSET Mutexes /\ list[i] \in Mutexes \ N
          /\ s.mtxcb[list[i]].mtxtsk = t /\ s.tcb[t].wid # list[i]
      BY <2>4
    <3>2. f[i] = hand_over(f[i - 1], list[i])
      BY <1>4, <2>1
    <3> HIDE DEF Bad
    <3> QED BY <2>3, <3>1, <3>2, HandsOnNext
  <2> QED BY <1>7, <2>4, <2>5
<1> QED BY <1>8, <1>9
\* The waits for m are over, its queue is empty.
Emptied(r, s, m) ==
  /\ r \in Blocks /\ r.chain = s.chain
  /\ \A n \in Mutexes : /\ n # m => r.mtxcb[n] = s.mtxcb[n]
                        /\ r.mtxcb[n].mtxid = s.mtxcb[n].mtxid
                        /\ r.mtxcb[n].mtxatr = s.mtxcb[n].mtxatr
                        /\ r.mtxcb[n].ceilpri = s.mtxcb[n].ceilpri
                        /\ r.mtxcb[n].mtxtsk = s.mtxcb[n].mtxtsk
  /\ r.mtxcb[m].wait_queue = << >>
  /\ \A u \in Tasks : /\ r.tcb[u].priority = s.tcb[u].priority
                      /\ r.tcb[u].bpriority = s.tcb[u].bpriority
                      /\ r.tcb[u].mtxlist = s.tcb[u].mtxlist
                      /\ IF u \in Waiters(s, {}, m)
                         THEN r.tcb[u].state = "READY" /\ r.tcb[u].wid = NULL
                         ELSE r.tcb[u].state = s.tcb[u].state /\ r.tcb[u].wid = s.tcb[u].wid

\* wait_delete does that.
LEMMA WaitDeleted ==
  ASSUME NEW s \in Blocks, Queues(s, {}), NEW m \in Mutexes, NEW r, r = wait_delete(s, m)
  PROVE  Emptied(r, s, m)
<1>1. PICK W : W = Waiters(s, {}, m)
  OBVIOUS
<1>2. Range(s.mtxcb[m].wait_queue) = W
  BY <1>1 DEF Queues, Lists
<1>3. /\ s.tcb \in [Tasks -> TCB] /\ s.mtxcb \in [Mutexes -> MTXCB]
      /\ s.chain \in Seq([tcb : Tasks, pri : Pri]) /\ s.mtxcb[m] \in MTXCB
      /\ \A u \in Tasks : s.tcb[u] \in TCB
  BY BlockTypes
<1>4. PICK c : c = [s.mtxcb[m] EXCEPT !.wait_queue = << >>]
  OBVIOUS
<1>5. /\ c \in MTXCB /\ c.mtxtsk = s.mtxcb[m].mtxtsk /\ c.mtxid = s.mtxcb[m].mtxid
      /\ c.mtxatr = s.mtxcb[m].mtxatr /\ c.ceilpri = s.mtxcb[m].ceilpri
      /\ c.wait_queue = << >>
  <2>1. PICK e : e = << >>
    OBVIOUS
  <2>2. e \in Seq(Tasks)
    BY <2>1
  <2>3. c = [s.mtxcb[m] EXCEPT !.wait_queue = e]
    BY <1>4, <2>1
  <2>4. /\ c \in MTXCB /\ c.mtxtsk = s.mtxcb[m].mtxtsk /\ c.mtxid = s.mtxcb[m].mtxid
        /\ c.mtxatr = s.mtxcb[m].mtxatr /\ c.ceilpri = s.mtxcb[m].ceilpri
        /\ c.wait_queue = e
    BY <1>3, <2>2, <2>3 DEF MTXCB
  <2> QED BY <2>1, <2>4
<1>6. PICK f, g : /\ f = [u \in Tasks |-> IF u \in W THEN [s.tcb[u] EXCEPT !.state = "READY", !.wid = NULL]
                                          ELSE s.tcb[u]]
                  /\ g = [s.mtxcb EXCEPT ![m] = c]
  OBVIOUS
<1>7. /\ g \in [Mutexes -> MTXCB] /\ g[m] = c /\ \A n \in Mutexes : n # m => g[n] = s.mtxcb[n]
  BY <1>3, <1>5, <1>6
<1>8. ASSUME NEW u \in Tasks
      PROVE  /\ f[u] \in TCB /\ f[u].priority = s.tcb[u].priority
             /\ f[u].bpriority = s.tcb[u].bpriority /\ f[u].mtxlist = s.tcb[u].mtxlist
             /\ IF u \in W THEN f[u].state = "READY" /\ f[u].wid = NULL
                ELSE f[u].state = s.tcb[u].state /\ f[u].wid = s.tcb[u].wid
  <2>1. CASE u \in W
    <3>1. f[u] = [s.tcb[u] EXCEPT !.state = "READY", !.wid = NULL]
      BY <1>6, <2>1
    <3> QED BY <1>3, <2>1, <3>1 DEF TCB, TSTAT
  <2>2. CASE u \notin W
    <3>1. f[u] = s.tcb[u]
      BY <1>6, <2>2
    <3> QED BY <1>3, <2>2, <3>1
  <2> QED BY <2>1, <2>2
<1>9. f \in [Tasks -> TCB]
  BY <1>6, <1>8
<1>10. r = [tcb |-> f, mtxcb |-> g, chain |-> s.chain]
  BY <1>2, <1>3, <1>4, <1>6 DEF Blocks, wait_delete
<1>11. r \in Blocks /\ r.tcb = f /\ r.mtxcb = g /\ r.chain = s.chain
  BY <1>3, <1>7, <1>9, <1>10 DEF Blocks
<1>12. \A n \in Mutexes : r.mtxcb[n] = IF n = m THEN c ELSE s.mtxcb[n]
  BY <1>7, <1>11
<1> QED BY <1>1, <1>5, <1>8, <1>11, <1>12 DEF Emptied

\* The blocks stay sound.
LEMMA EmptiedSound ==
  ASSUME NEW s, NEW D, Sound(s, {}, D), Right(s, {}, None), s.chain = << >>,
         NEW m \in Mutexes, Loose(s, {}, D, m), NEW r, Emptied(r, s, m)
  PROVE  /\ Sound(r, {}, D) /\ Right(r, {}, None) /\ r.chain = << >>
         /\ Loose(r, {}, D, m) /\ Unwanted(r, m)
<1>1. /\ s \in Blocks /\ Queues(s, {}) /\ Ordered(s) /\ Graph(s)
      /\ Owned(s, {}, D) /\ Created(s) /\ Obeyed(s, {})
  BY DEF Sound
<1>2. /\ r \in Blocks /\ r.chain = << >> /\ r.mtxcb[m].wait_queue = << >>
      /\ \A n \in Mutexes : /\ n # m => r.mtxcb[n] = s.mtxcb[n]
                            /\ r.mtxcb[n].mtxid = s.mtxcb[n].mtxid
                            /\ r.mtxcb[n].mtxatr = s.mtxcb[n].mtxatr
                            /\ r.mtxcb[n].ceilpri = s.mtxcb[n].ceilpri
                            /\ r.mtxcb[n].mtxtsk = s.mtxcb[n].mtxtsk
  BY DEF Emptied
<1>3. PICK W : W = Waiters(s, {}, m)
  OBVIOUS
<1>4. /\ \A u \in Tasks : /\ r.tcb[u].priority = s.tcb[u].priority
                          /\ r.tcb[u].bpriority = s.tcb[u].bpriority
                          /\ r.tcb[u].mtxlist = s.tcb[u].mtxlist
                          /\ IF u \in W THEN r.tcb[u].state = "READY" /\ r.tcb[u].wid = NULL
                             ELSE r.tcb[u].state = s.tcb[u].state /\ r.tcb[u].wid = s.tcb[u].wid
  BY <1>3 DEF Emptied
<1>5. \A u \in Tasks : /\ Waits(r, u) <=> Waits(s, u) /\ s.tcb[u].wid # m
                       /\ Waits(r, u) => r.tcb[u].wid = s.tcb[u].wid
  BY <1>3, <1>4 DEF Waits, Waiters
<1>6. Unwanted(r, m)
  <2>1. \A u \in Tasks : ~Waits(s, u) => s.tcb[u].wid = NULL
    BY <1>1 DEF Graph
  <2>2. m # NULL
    BY MtxAssumption
  <2> QED BY <1>3, <1>4, <2>1, <2>2 DEF Unwanted, Waiters
<1>7. /\ Waiters(r, {}, m) = {}
      /\ \A n \in Mutexes : n # m => Waiters(r, {}, n) = Waiters(s, {}, n)
  BY <1>5 DEF Waiters
<1>8. Queues(r, {})
  <2>1. Lists(r.mtxcb[m].wait_queue, Waiters(r, {}, m))
    BY <1>2, <1>7, NothingListed
  <2>2. ASSUME NEW n \in Mutexes, n # m PROVE Lists(r.mtxcb[n].wait_queue, Waiters(r, {}, n))
    BY <1>1, <1>2, <1>7, <2>2 DEF Queues
  <2> QED BY <2>1, <2>2 DEF Queues
<1>9. Ordered(r)
  <2>1. priority(r) = priority(s)
    BY <1>4 DEF priority
  <2>2. InOrder(r.mtxcb[m].wait_queue, priority(s))
    <3>1. Len(r.mtxcb[m].wait_queue) = 0
      BY <1>2
    <3> QED BY <3>1 DEF InOrder
  <2> QED BY <1>1, <1>2, <2>1, <2>2 DEF Ordered
<1>10. \A u \in Tasks : Waits(r, u) => OwnerOf(r, u) = OwnerOf(s, u)
  <2>1. \A u \in Tasks : Waits(r, u) => s.tcb[u].wid \in Mutexes
    BY <1>1, <1>5 DEF Graph
  <2> QED BY <1>2, <1>5, <2>1 DEF OwnerOf
<1>11. Graph(r)
  <2>1. \A S \in SUBSET Tasks : Closed(s, S) => Closed(r, S)
    BY <1>5, <1>10 DEF Closed
  <2>2. ASSUME NEW u \in Tasks, Waits(r, u)
        PROVE  /\ r.tcb[u].wid \in Mutexes
               /\ \E S \in SUBSET (Tasks \ {u}) : OwnerOf(r, u) \in S /\ Closed(r, S)
    <3>1. Waits(s, u)
      BY <1>5, <2>2
    <3>2. PICK S \in SUBSET (Tasks \ {u}) : OwnerOf(s, u) \in S /\ Closed(s, S)
      BY <1>1, <3>1 DEF Graph
    <3>3. Closed(r, S)
      BY <2>1, <3>2
    <3>4. s.tcb[u].wid \in Mutexes
      BY <1>1, <3>1 DEF Graph
    <3> QED BY <1>5, <1>10, <2>2, <3>2, <3>3, <3>4
  <2>3. ASSUME NEW u \in Tasks, ~Waits(r, u) PROVE r.tcb[u].wid = NULL
    <3>1. CASE u \in W
      BY <1>4, <3>1
    <3>2. CASE u \notin W
      <4>1. ~Waits(s, u)
        BY <1>4, <2>3, <3>2 DEF Waits
      <4> QED BY <1>1, <1>4, <3>2, <4>1 DEF Graph
    <3> QED BY <3>1, <3>2
  <2> QED BY <2>2, <2>3 DEF Graph
<1>12. Owned(r, {}, D)
  <2>1. ASSUME NEW u \in Tasks
        PROVE  /\ Lists(r.tcb[u].mtxlist, {n \in Mutexes \ D : r.mtxcb[n].mtxtsk = u})
               /\ r.tcb[u].mtxlist # << >> => r.tcb[u].state # "DORMANT"
    <3>1. {n \in Mutexes \ D : r.mtxcb[n].mtxtsk = u} = {n \in Mutexes \ D : s.mtxcb[n].mtxtsk = u}
      BY <1>2
    <3> QED BY <1>1, <1>4, <3>1 DEF Owned
  <2> QED BY <2>1 DEF Owned
<1>13. Created(r)
  BY <1>1, <1>2 DEF Created
<1>14. Obeyed(r, {})
  <2>1. \A n \in Mutexes : n # NULL
    BY MtxAssumption
  <2> QED BY <1>1, <1>2, <1>4, <2>1 DEF Obeyed
<1>15. ASSUME NEW u \in Tasks PROVE RightOf(r, {}, None, u)
  <2>1. m \notin Range(s.tcb[u].mtxlist) /\ Range(s.tcb[u].mtxlist) \subseteq Mutexes
    <3>1. Range(s.tcb[u].mtxlist) = {n \in Mutexes \ D : s.mtxcb[n].mtxtsk = u}
      BY <1>1, ListOwned
    <3> QED BY <3>1 DEF Loose
  <2>2. ASSUME NEW n \in Range(s.tcb[u].mtxlist) PROVE Asked(r, {}, n) = Asked(s, {}, n)
    <3>1. n \in Mutexes /\ n # m
      BY <2>1
    <3>2. /\ r.mtxcb[n] = s.mtxcb[n] /\ Waiters(r, {}, n) = Waiters(s, {}, n)
          /\ Waiters(s, {}, n) \subseteq Tasks
      BY <1>2, <1>7, <3>1 DEF Waiters
    <3> QED BY <1>4, <3>2 DEF Asked
  <2>3. Needs(r, {}, None, u) = Needs(s, {}, None, u)
    BY <1>4, <2>2 DEF Needs
  <2> QED BY <1>4, <2>3 DEF Right, RightOf
<1>16. Loose(r, {}, D, m)
  BY <1>2 DEF Loose
<1>17. Sound(r, {}, D)
  BY <1>2, <1>8, <1>9, <1>11, <1>12, <1>13, <1>14 DEF Sound
<1> QED BY <1>2, <1>6, <1>15, <1>16, <1>17 DEF Right
---------------------------------------------------------------------------
(* The operations, from one state at rest to the next. *)

Good(s) == Sound(s, {}, {}) /\ Right(s, {}, None) /\ s.chain = << >>

\* The mutexes pass as HandedToFirst says.
PassesOn(s, r) ==
  \A m \in Mutexes :
    LET new == r.mtxcb[m].mtxtsk
    IN s.mtxcb[m].mtxtsk # NULL /\ new \notin {NULL, s.mtxcb[m].mtxtsk} =>
         /\ new \in Range(s.mtxcb[m].wait_queue)
         /\ \A u \in Range(r.mtxcb[m].wait_queue) :
              IF s.mtxcb[m].mtxatr = "TFIFO"
              THEN \E i, j \in DOMAIN s.mtxcb[m].wait_queue :
                     i < j /\ s.mtxcb[m].wait_queue[i] = new /\ s.mtxcb[m].wait_queue[j] = u
              ELSE s.tcb[new].priority <= r.tcb[u].priority

Goes(r, s) == Good(r) /\ PassesOn(s, r)

\* No mutex passes from task to task.
LEMMA SameOwners ==
  ASSUME NEW s, NEW r,
         \A m \in Mutexes : \/ r.mtxcb[m].mtxtsk \in {NULL, s.mtxcb[m].mtxtsk}
                            \/ s.mtxcb[m].mtxtsk = NULL
  PROVE  PassesOn(s, r)
BY DEF PassesOn

\* What hand_over does is to pass a mutex on that way.
LEMMA FirstServed ==
  ASSUME NEW s, NEW q, NEW X, NEW D, Sound(q, X, D), NEW M \in SUBSET Mutexes,
         NEW r, Passed(r, q, M),
         \A n \in Mutexes : /\ q.mtxcb[n].mtxtsk = s.mtxcb[n].mtxtsk
                            /\ q.mtxcb[n].mtxatr = s.mtxcb[n].mtxatr,
         \A n \in M : /\ q.mtxcb[n].wait_queue = s.mtxcb[n].wait_queue
                      /\ \A u \in Waiters(q, X, n) : q.tcb[u].priority = s.tcb[u].priority
  PROVE  PassesOn(s, r)
<1>1. SUFFICES ASSUME NEW m \in Mutexes, NEW new, new = r.mtxcb[m].mtxtsk,
                      s.mtxcb[m].mtxtsk # NULL, new \notin {NULL, s.mtxcb[m].mtxtsk}
               PROVE  /\ new \in Range(s.mtxcb[m].wait_queue)
                      /\ \A u \in Range(r.mtxcb[m].wait_queue) :
                           IF s.mtxcb[m].mtxatr = "TFIFO"
                           THEN \E i, j \in DOMAIN s.mtxcb[m].wait_queue :
                                  /\ i < j /\ s.mtxcb[m].wait_queue[i] = new
                                  /\ s.mtxcb[m].wait_queue[j] = u
                           ELSE s.tcb[new].priority <= r.tcb[u].priority
  BY DEF PassesOn
<1>2. m \in M
  BY <1>1 DEF Passed
<1>3. PICK v, W : v = q.mtxcb[m].wait_queue /\ W = Waiters(q, X, m)
  OBVIOUS
<1>4. q \in Blocks /\ Queues(q, X) /\ Ordered(q)
  BY DEF Sound
<1>5. Lists(v, W) /\ v = s.mtxcb[m].wait_queue
  BY <1>2, <1>3, <1>4 DEF Queues
<1>6. v # << >> /\ new = Head(v) /\ r.mtxcb[m].wait_queue = QueRemove(v, new)
  BY <1>1, <1>2, <1>3 DEF Passed
<1>7. /\ v \in Seq(W) /\ Len(v) \in Nat /\ DOMAIN v = 1 .. Len(v)
      /\ \A i \in 1 .. Len(v) : v[i] \in W
      /\ \A i, j \in 1 .. Len(v) : v[i] = v[j] => i = j
      /\ \A x \in W : \E i \in 1 .. Len(v) : v[i] = x
  <2>1. Lists(v, W)
    BY <1>5
  <2> QED BY ONLY <2>1, ListsPlaces, Zenon
<1>8. 1 \in 1 .. Len(v) /\ new = v[1] /\ new \in W
  <2>1. PICK k : k = Len(v)
    OBVIOUS
  <2>2. k \in Nat /\ k # 0 /\ Head(v) = v[1]
    BY <1>6, <1>7, <2>1
  <2> QED BY <1>6, <1>7, <2>1, <2>2
<1>9. Range(r.mtxcb[m].wait_queue) = W \ {new}
  <2>1. Lists(QueRemove(v, new), W \ {new})
    BY <1>5, RemoveList
  <2> QED BY <1>6, <2>1 DEF Lists
<1>10. new \in Range(s.mtxcb[m].wait_queue)
  BY <1>5, <1>8 DEF Lists
<1>11. ASSUME NEW u \in W \ {new}, s.mtxcb[m].mtxatr = "TFIFO"
       PROVE  \E i, j \in DOMAIN v : i < j /\ v[i] = new /\ v[j] = u
  <2>1. PICK j \in 1 .. Len(v) : v[j] = u
    BY <1>7
  <2>2. j # 1
    BY <1>8, <1>11, <2>1
  <2>3. 1 < j
    BY <1>7, <2>1, <2>2
  <2> QED BY <1>7, <1>8, <2>1, <2>3
<1>12. ASSUME NEW u \in W \ {new}, s.mtxcb[m].mtxatr # "TFIFO"
       PROVE  s.tcb[new].priority <= r.tcb[u].priority
  <2>1. InOrder(v, priority(q))
    BY <1>3, <1>4, <1>12 DEF Ordered
  <2>2. W \subseteq Tasks /\ \A w \in W : priority(q)[w] = q.tcb[w].priority
    BY <1>3 DEF Waiters, priority
  <2>3. \A w \in W : priority(q)[w] \in Int
    <3>1. \A w \in Tasks : q.tcb[w].priority \in Pri
      BY <1>4, BlockTypes
    <3> QED BY <2>2, <3>1, PriFacts
  <2>4. \A w \in W : priority(q)[Head(v)] <= priority(q)[w]
    BY <1>5, <1>6, <2>1, <2>3, HeadLowest
  <2>5. r.tcb[u].priority = q.tcb[u].priority
    <3>1. ASSUME NEW n \in M, q.mtxcb[n].wait_queue # << >>, u = Head(q.mtxcb[n].wait_queue)
          PROVE  FALSE
      <4>1. Lists(q.mtxcb[n].wait_queue, Waiters(q, X, n))
        BY <1>4 DEF Queues
      <4>2. u \in Waiters(q, X, n)
        <5>1. q.mtxcb[n].wait_queue \in Seq(Waiters(q, X, n))
          BY <4>1 DEF Lists
        <5> QED BY <3>1, <5>1
      <4>3. n = m
        BY <1>3, <4>2 DEF Waiters
      <4> QED BY <1>3, <1>6, <3>1, <4>3
    <3> QED BY <2>2, <3>1 DEF Passed
  <2>6. q.tcb[new].priority = s.tcb[new].priority
    BY <1>2, <1>3, <1>8
  <2> QED BY <1>6, <1>8, <2>2, <2>4, <2>5, <2>6
<1> QED BY <1>5, <1>9, <1>10, <1>11, <1>12

\* A mutex is created.
LEMMA Creates ==
  ASSUME NEW s, Good(s), NEW m \in Mutexes, ~s.mtxcb[m].mtxid,
         NEW b \in MTXCB, b.mtxtsk = NULL, b.wait_queue = << >>,
         NEW r, r = putMutex(s, m, b)
  PROVE  Goes(r, s)
<1>1. /\ Sound(s, {}, {}) /\ Right(s, {}, None) /\ s.chain = << >>
      /\ s \in Blocks /\ Graph(s) /\ Created(s)
  BY DEF Good, Sound
<1>2. s.mtxcb[m].mtxtsk = NULL /\ NULL \notin Tasks /\ m # NULL
  BY <1>1, MtxAssumption DEF Created
<1>3. Unwanted(s, m)
  <2>1. ASSUME NEW u \in Tasks PROVE s.tcb[u].wid # m
    <3>1. Waits(s, u) => OwnerOf(s, u) \in Tasks
      BY <1>1 DEF Graph
    <3>2. ~Waits(s, u) => s.tcb[u].wid = NULL
      BY <1>1 DEF Graph
    <3> QED BY <1>2, <3>1, <3>2 DEF OwnerOf
  <2> QED BY <2>1 DEF Unwanted
<1>4. Loose(s, {}, {}, m)
  BY <1>2 DEF Loose
<1>5. Sound(r, {}, {} \ {m}) /\ Right(r, {}, None) /\ r.chain = << >>
  BY <1>1, <1>3, <1>4, Unowned
<1>6. r.mtxcb[m] = b /\ \A n \in Mutexes : n # m => r.mtxcb[n] = s.mtxcb[n]
  BY <1>1, PutMutex
<1>7. {} \ {m} = {}
  OBVIOUS
<1>8. PassesOn(s, r)
  BY <1>6, SameOwners
<1> QED BY <1>5, <1>7, <1>8 DEF Goes, Good

\* It is unlocked.
LEMMA Unlocks ==
  ASSUME NEW s, Good(s), NEW t \in Tasks, s.tcb[t].state = "READY",
         NEW m \in Mutexes, s.mtxcb[m].mtxid, s.mtxcb[m].mtxtsk = t,
         NEW r, r = hand_over(release_mutex(s, t, m), m)
  PROVE  Goes(r, s)
<1>1. Sound(s, {}, {}) /\ Right(s, {}, None) /\ s.chain = << >>
  BY DEF Good
<1>2. PICK q : q = release_mutex(s, t, m)
  OBVIOUS
<1>3. ~Waits(s, t) /\ Closed(s, {t}) /\ {t} \in SUBSET Tasks
  BY DEF Waits, Closed
<1>4. /\ Sound(q, {}, {m}) /\ Right(q, {}, None) /\ q.chain = << >>
      /\ \A n \in Mutexes : /\ q.mtxcb[n].mtxtsk = s.mtxcb[n].mtxtsk
                            /\ q.mtxcb[n].mtxid = s.mtxcb[n].mtxid
                            /\ q.mtxcb[n].mtxatr = s.mtxcb[n].mtxatr
      /\ Confined(q, s, {t})
  <2>1. GivesUp(q, s, m, {t})
    BY <1>1, <1>2, <1>3, ReleaseMutex
  <2> QED BY <2>1 DEF GivesUp
<1>5. Loose(q, {}, {m}, m)
  BY DEF Loose
<1>6. /\ Sound(r, {}, {m} \ {m}) /\ Right(r, {}, None) /\ r.chain = << >>
      /\ Passed(r, q, {m})
  <2>1. \A u \in Tasks : u \in {} => q.tcb[u].wid # m
    OBVIOUS
  <2>2. q.mtxcb[m].mtxid
    BY <1>4
  <2>3. r = hand_over(q, m)
    BY <1>2
  <2>4. PICK X, D : X = {} /\ D = {m}
    OBVIOUS
  <2>5. /\ Sound(q, X, D) /\ Right(q, X, None) /\ Loose(q, X, D, m) /\ q.chain = << >>
        /\ \A u \in Tasks : u \in X => q.tcb[u].wid # m
    BY <1>4, <1>5, <2>1, <2>4
  <2>6. HandsOver(r, q, X, D, None, m)
    BY <2>2, <2>3, <2>5, HandOver
  <2> QED BY <2>4, <2>6 DEF HandsOver
<1>7. {m} \ {m} = {}
  OBVIOUS
<1>8. PassesOn(s, r)
  <2>1. q.mtxcb[m].wait_queue = s.mtxcb[m].wait_queue
    BY <1>3, <1>4 DEF Confined
  <2>2. ASSUME NEW u \in Waiters(q, {}, m) PROVE q.tcb[u].priority = s.tcb[u].priority
    <3>1. u \in Tasks /\ Waits(q, u) /\ q.tcb[u].wid = m
      BY DEF Waiters
    <3>2. q \in Blocks /\ Graph(q)
      BY <1>4 DEF Sound
    <3>3. OwnerOf(q, u) # u
      BY <3>1, <3>2, OwnerOther
    <3>4. u # t
      BY <1>4, <3>1, <3>3 DEF OwnerOf
    <3> QED BY <1>4, <3>1, <3>4 DEF Confined
  <2>3. PICK M : M = {m}
    OBVIOUS
  <2>4. /\ M \in SUBSET Mutexes /\ Passed(r, q, M)
        /\ \A n \in M : /\ q.mtxcb[n].wait_queue = s.mtxcb[n].wait_queue
                        /\ \A u \in Waiters(q, {}, n) : q.tcb[u].priority = s.tcb[u].priority
    BY <1>6, <2>1, <2>2, <2>3
  <2>5. \A n \in Mutexes : /\ q.mtxcb[n].mtxtsk = s.mtxcb[n].mtxtsk
                           /\ q.mtxcb[n].mtxatr = s.mtxcb[n].mtxatr
    BY <1>4
  <2>6. PICK X, D : X = {} /\ D = {m}
    OBVIOUS
  <2>7. Sound(q, X, D)
    BY <1>4, <2>6
  <2>8. \A n \in M : /\ q.mtxcb[n].wait_queue = s.mtxcb[n].wait_queue
                     /\ \A u \in Waiters(q, X, n) : q.tcb[u].priority = s.tcb[u].priority
    BY <2>4, <2>6
  <2> QED BY <2>4, <2>5, <2>7, <2>8, FirstServed
<1> QED BY <1>6, <1>7, <1>8 DEF Goes, Good

\* It is deleted.
LEMMA Deletes ==
  ASSUME NEW s, Good(s), NEW m \in Mutexes, s.mtxcb[m].mtxid,
         NEW q, q = IF s.mtxcb[m].mtxtsk = NULL THEN s
                    ELSE release_mutex(s, s.mtxcb[m].mtxtsk, m),
         NEW r, r = putMutex(wait_delete(q, m), m, Unused)
  PROVE  Goes(r, s)
<1>1. Sound(s, {}, {}) /\ Right(s, {}, None) /\ s.chain = << >> /\ s \in Blocks /\ Graph(s)
  BY DEF Good, Sound
<1>2. PICK D : /\ Sound(q, {}, D) /\ Right(q, {}, None) /\ q.chain = << >>
               /\ Loose(q, {}, D, m) /\ D \subseteq {m}
               /\ \A n \in Mutexes : q.mtxcb[n].mtxtsk = s.mtxcb[n].mtxtsk
  <2>1. CASE s.mtxcb[m].mtxtsk = NULL
    <3>1. Loose(q, {}, {}, m) /\ q = s
      BY <2>1, MtxAssumption DEF Loose
    <3> QED BY <1>1, <3>1
  <2>2. CASE s.mtxcb[m].mtxtsk # NULL
    <3>1. PICK t : t = s.mtxcb[m].mtxtsk
      OBVIOUS
    <3>2. t \in Tasks
      BY <1>1, <2>2, <3>1, BlockTypes
    <3>3. Closed(s, Tasks)
      BY <1>1 DEF Closed, Graph
    <3>4. q = release_mutex(s, t, m)
      BY <2>2, <3>1
    <3>5. /\ Sound(q, {}, {m}) /\ Right(q, {}, None) /\ q.chain = << >>
          /\ \A n \in Mutexes : /\ q.mtxcb[n].mtxtsk = s.mtxcb[n].mtxtsk
                                /\ q.mtxcb[n].mtxid = s.mtxcb[n].mtxid
                                /\ q.mtxcb[n].mtxatr = s.mtxcb[n].mtxatr
          /\ Confined(q, s, Tasks)
      <4>1. GivesUp(q, s, m, Tasks)
        BY <1>1, <3>1, <3>2, <3>3, <3>4, ReleaseMutex
      <4> QED BY <4>1 DEF GivesUp
    <3>6. Loose(q, {}, {m}, m)
      BY DEF Loose
    <3> QED BY <3>5, <3>6
  <2> QED BY <2>1, <2>2
<1>3. PICK w : w = wait_delete(q, m)
  OBVIOUS
<1>4. q \in Blocks /\ Queues(q, {})
  BY <1>2 DEF Sound
<1>5. Emptied(w, q, m)
  BY <1>3, <1>4, WaitDeleted
<1>6. /\ Sound(w, {}, D) /\ Right(w, {}, None) /\ w.chain = << >>
      /\ Loose(w, {}, D, m) /\ Unwanted(w, m)
  BY <1>2, <1>5, EmptiedSound
<1>7. Unused \in MTXCB /\ Unused.mtxtsk = NULL /\ Unused.wait_queue = << >>
  <2>1. 0 \in Pri
    BY PriFacts
  <2>2. PICK e : e = << >>
    OBVIOUS
  <2>3. e \in Seq(Tasks)
    BY <2>2
  <2>4. Unused = [ mtxid |-> FALSE, mtxatr |-> "TFIFO", ceilpri |-> 0, mtxtsk |-> NULL,
                   wait_queue |-> e ]
    BY <2>2 DEF Unused
  <2> QED BY <2>1, <2>2, <2>3, <2>4 DEF MTXCB
<1>8. PICK b : b = Unused
  OBVIOUS
<1>9. r = putMutex(w, m, b) /\ b \in MTXCB /\ b.mtxtsk = NULL /\ b.wait_queue = << >>
  BY <1>3, <1>7, <1>8
<1>10. Sound(r, {}, D \ {m}) /\ Right(r, {}, None) /\ r.chain = << >>
  BY <1>6, <1>9, Unowned
<1>11. D \ {m} = {}
  BY <1>2
<1>12. PassesOn(s, r)
  <2>1. w \in Blocks
    BY <1>6 DEF Sound
  <2>2. r.mtxcb[m] = b /\ \A n \in Mutexes : n # m => r.mtxcb[n] = w.mtxcb[n]
    BY <1>9, <2>1, PutMutex
  <2>3. \A n \in Mutexes : n # m => w.mtxcb[n].mtxtsk = s.mtxcb[n].mtxtsk
    BY <1>2, <1>5 DEF Emptied
  <2> QED BY <1>9, <2>2, <2>3, SameOwners
<1> QED BY <1>10, <1>11, <1>12 DEF Goes, Good
\* A free mutex is locked.
LEMMA Locks ==
  ASSUME NEW s, Good(s), NEW t \in Tasks, s.tcb[t].state = "READY",
         NEW m \in Mutexes, s.mtxcb[m].mtxid, s.mtxcb[m].mtxtsk = NULL,
         s.mtxcb[m].mtxatr = "CEILING" => s.tcb[t].bpriority >= s.mtxcb[m].ceilpri,
         NEW r, r = own(s, t, m)
  PROVE  Goes(r, s)
<1>1. /\ Sound(s, {}, {}) /\ Right(s, {}, None) /\ s.chain = << >>
      /\ s \in Blocks /\ Graph(s)
  BY DEF Good, Sound
<1>2. Loose(s, {}, {}, m)
  BY MtxAssumption DEF Loose
<1>3. Waiters(s, {}, m) = {}
  <2>1. ASSUME NEW u \in Waiters(s, {}, m) PROVE FALSE
    <3>1. u \in Tasks /\ Waits(s, u) /\ s.tcb[u].wid = m
      BY DEF Waiters
    <3>2. OwnerOf(s, u) \in Tasks
      BY <1>1, <3>1, OwnerOther
    <3> QED BY <3>1, <3>2, MtxAssumption DEF OwnerOf
  <2> QED BY <2>1
<1>4. PICK X, D : X = {} /\ D = {}
  OBVIOUS
<1>5. /\ Sound(s, X, D) /\ Right(s, X, None) /\ Loose(s, X, D, m) /\ t \in Tasks \ X
      /\ \A u \in Waiters(s, X, m) : s.tcb[t].priority <= s.tcb[u].priority
  BY <1>1, <1>2, <1>3, <1>4
<1>6. Owning(r, s, X, D, None, t, m)
  BY <1>1, <1>5, Owns
<1>7. D \ {m} = {}
  BY <1>4
<1>8. PassesOn(s, r)
  <2>1. \A n \in Mutexes : n # m => r.mtxcb[n].mtxtsk = s.mtxcb[n].mtxtsk
    BY <1>6 DEF Owning, Handed
  <2> QED BY <2>1, SameOwners
<1> QED BY <1>4, <1>6, <1>7, <1>8 DEF Owning, Goes, Good

\* What a task needs is one thing more with E.
Extra(o, p) == [t \in Tasks |-> IF t = o THEN {p} ELSE {}]

LEMMA ExtraIs ==
  ASSUME NEW o \in Tasks, NEW p \in Pri
  PROVE  /\ Extra(o, p)[o] = {p} /\ \A u \in Tasks : u # o => Extra(o, p)[u] = {}
         /\ \A u \in Tasks : None[u] = {}
BY DEF Extra, None

LEMMA ExtraNeeds ==
  ASSUME NEW s, NEW o \in Tasks, NEW p \in Pri
  PROVE  Needs(s, {}, Extra(o, p), o) = Needs(s, {}, None, o) \cup {p}
BY ExtraIs DEF Needs

LEMMA OthersNeed ==
  ASSUME NEW s, NEW o \in Tasks, NEW p \in Pri, NEW u \in Tasks, u # o
  PROVE  Needs(s, {}, Extra(o, p), u) = Needs(s, {}, None, u)
BY ExtraIs DEF Needs

\* The owner inherits the priority of a task that is about to wait.
Raised(q, s, t, o, m) ==
  /\ Sound(q, {}, {}) /\ q.chain = << >> /\ Reordered(q, s)
  /\ q.tcb[t].priority = s.tcb[t].priority
  /\ \A u \in Tasks : u # o => RightOf(q, {}, None, u)
  /\ IF s.mtxcb[m].mtxatr = "INHERIT"
     THEN Lowest(q.tcb[o].priority, Needs(q, {}, None, o) \cup {s.tcb[t].priority})
     ELSE RightOf(q, {}, None, o)

LEMMA Raises ==
  ASSUME NEW s, Good(s), NEW t \in Tasks, NEW m \in Mutexes,
         NEW o \in Tasks, o = s.mtxcb[m].mtxtsk,
         NEW S \in SUBSET (Tasks \ {t}), o \in S, Closed(s, S),
         NEW q, q = raise_owner(s, t, m)
  PROVE  Raised(q, s, t, o, m)
<1>1. /\ Sound(s, {}, {}) /\ Right(s, {}, None) /\ s.chain = << >> /\ s \in Blocks
  BY DEF Good, Sound
<1>2. \A u \in Tasks : RightOf(s, {}, None, u)
  BY <1>1 DEF Right
<1>3. PICK p : p = s.tcb[t].priority
  OBVIOUS
<1>4. p \in Pri /\ p \in Int /\ s.tcb[o].priority \in Int
  <2>1. s.tcb[t].priority \in Pri /\ s.tcb[o].priority \in Pri
    BY <1>1, BlockTypes
  <2> QED BY <1>3, <2>1, PriFacts
<1>5. Lowest(s.tcb[o].priority, Needs(s, {}, None, o))
  BY <1>2 DEF RightOf
<1>6. \A y \in Needs(s, {}, None, o) : y \in Int
  BY PriFacts DEF Needs
<1>7. CASE s.mtxcb[m].mtxatr = "INHERIT" /\ s.tcb[o].priority > p
  <2>1. PICK E : E = Extra(o, p)
    OBVIOUS
  <2>2. /\ E[o] = {p} /\ \A u \in Tasks : u # o => E[u] = {}
    BY <1>4, <2>1, ExtraIs
  <2>3. ASSUME NEW b PROVE Needs(b, {}, E, o) = Needs(b, {}, None, o) \cup {p}
    <3>1. Needs(b, {}, Extra(o, p), o) = Needs(b, {}, None, o) \cup {p}
      BY <1>4, ExtraNeeds
    <3> QED BY <2>1, <3>1
  <2>4. ASSUME NEW b, NEW u \in Tasks, u # o PROVE Needs(b, {}, E, u) = Needs(b, {}, None, u)
    <3>1. Needs(b, {}, Extra(o, p), u) = Needs(b, {}, None, u)
      BY <1>4, <2>4, OthersNeed
    <3> QED BY <2>1, <3>1
  <2>5. PICK c : c = calls(s, o, p)
    OBVIOUS
  <2>6. /\ c \in Blocks /\ c.tcb = s.tcb /\ c.mtxcb = s.mtxcb
        /\ c.chain # << >> /\ c.chain[1].tcb = o
    BY <1>1, <1>4, <2>5, Calls
  <2>7. Right(c, {}, E)
    <3>1. Lowest(p, Needs(s, {}, E, o))
      BY <1>4, <1>5, <1>6, <1>7, <2>3 DEF Lowest
    <3>2. \A u \in Tasks \ {} : u # o => RightOf(s, {}, E, u)
      BY <1>2, <2>4 DEF RightOf
    <3>3. o \in Tasks \ {}
      OBVIOUS
    <3> QED BY <1>1, <1>4, <2>5, <3>1, <3>2, <3>3, CallsRight
  <2>8. Sound(c, {}, {})
    <3>1. Reordered(c, s) /\ Queues(c, {}) /\ Ordered(c)
      BY <1>1, <2>6, SameBlocks DEF Sound
    <3>2. Graph(c) /\ Owned(c, {}, {}) /\ Created(c) /\ Obeyed(c, {})
      BY <1>1, <2>6, <3>1, ReorderedKeeps DEF Sound
    <3> QED BY <2>6, <3>1, <3>2 DEF Sound
  <2>9. Closed(c, S) /\ Clean(c, {}, E, S, o) /\ S \in SUBSET (Tasks \ {})
    <3>1. Closed(c, S)
      BY <2>6 DEF Closed, Waits, OwnerOf
    <3>2. Clean(c, {}, E, S, o)
      BY <2>2 DEF Clean
    <3> QED BY <3>1, <3>2
  <2>10. q = change_task_priority(c)
    BY <1>3, <1>7, <2>5 DEF set_priority, raise_owner
  <2>11. /\ Sound(q, {}, {}) /\ q.chain = << >> /\ Right(q, {}, E)
         /\ Reordered(q, c) /\ Confined(q, c, S)
    <3>1. Changed(q, c, {}, {}, E, S)
      BY <2>6, <2>7, <2>8, <2>9, <2>10, ChangeAll
    <3> QED BY <3>1 DEF Changed
  <2>12. Reordered(q, s)
    <3>1. Reordered(c, s)
      BY <2>6 DEF Reordered
    <3> QED BY <2>11, <3>1, ReorderedTwice
  <2>13. q.tcb[t].priority = p
    BY <1>3, <2>6, <2>11 DEF Confined
  <2>14. ASSUME NEW u \in Tasks, u # o PROVE RightOf(q, {}, None, u)
    <3>1. RightOf(q, {}, E, u)
      BY <2>11 DEF Right
    <3> QED BY <2>4, <2>14, <3>1 DEF RightOf
  <2>15. Lowest(q.tcb[o].priority, Needs(q, {}, None, o) \cup {p})
    <3>1. RightOf(q, {}, E, o)
      BY <2>11 DEF Right
    <3> QED BY <2>3, <3>1 DEF RightOf
  <2> QED BY <1>3, <1>7, <2>11, <2>12, <2>13, <2>14, <2>15 DEF Raised
<1>8. CASE ~(s.mtxcb[m].mtxatr = "INHERIT" /\ s.tcb[o].priority > p)
  <2>1. q = s
    BY <1>3, <1>8 DEF raise_owner
  <2>2. Reordered(s, s)
    BY DEF Reordered
  <2>3. s.mtxcb[m].mtxatr = "INHERIT" => Lowest(s.tcb[o].priority, Needs(s, {}, None, o) \cup {p})
    BY <1>4, <1>5, <1>6, <1>8 DEF Lowest
  <2> QED BY <1>1, <1>2, <1>3, <2>1, <2>2, <2>3 DEF Raised
<1> QED BY <1>7, <1>8
\* t enters the queue of m.
Entered(r, s, t, m) ==
  /\ r \in Blocks /\ r.chain = s.chain
  /\ \A u \in Tasks : /\ u # t => r.tcb[u] = s.tcb[u]
                      /\ r.tcb[u].priority = s.tcb[u].priority
                      /\ r.tcb[u].bpriority = s.tcb[u].bpriority
                      /\ r.tcb[u].mtxlist = s.tcb[u].mtxlist
  /\ r.tcb[t].state = "WAIT" /\ r.tcb[t].wid = m
  /\ \A n \in Mutexes : /\ n # m => r.mtxcb[n] = s.mtxcb[n]
                        /\ r.mtxcb[n].mtxid = s.mtxcb[n].mtxid
                        /\ r.mtxcb[n].mtxatr = s.mtxcb[n].mtxatr
                        /\ r.mtxcb[n].ceilpri = s.mtxcb[n].ceilpri
                        /\ r.mtxcb[n].mtxtsk = s.mtxcb[n].mtxtsk
  /\ r.mtxcb[m].wait_queue = IF s.mtxcb[m].mtxatr = "TFIFO"
                             THEN Append(s.mtxcb[m].wait_queue, t)
                             ELSE queue_insert_tpri(s.mtxcb[m].wait_queue, t, priority(s))

LEMMA MakeWait ==
  ASSUME NEW s \in Blocks, Queues(s, {}), NEW t \in Tasks, ~Waits(s, t),
         NEW m \in Mutexes, NEW r, r = make_wait(s, t, m)
  PROVE  Entered(r, s, t, m)
<1>1. PICK v, q : /\ v = s.mtxcb[m].wait_queue
                  /\ q = IF s.mtxcb[m].mtxatr = "TFIFO" THEN Append(v, t)
                         ELSE queue_insert_tpri(v, t, priority(s))
  OBVIOUS
<1>2. q \in Seq(Tasks)
  <2>1. PICK W : W = Waiters(s, {}, m)
    OBVIOUS
  <2>2. Lists(v, W) /\ t \notin W /\ W \cup {t} \in SUBSET Tasks
    BY <1>1, <2>1 DEF Queues, Waiters
  <2>3. Lists(Append(v, t), W \cup {t})
    BY <2>2, AppendList
  <2>4. Lists(queue_insert_tpri(v, t, priority(s)), W \cup {t})
    BY <2>2, InsertList
  <2>5. Lists(q, W \cup {t})
    BY <1>1, <2>3, <2>4
  <2> QED BY <2>2, <2>5, ListsSeq
<1>3. PICK b : b = [s.tcb[t] EXCEPT !.state = "WAIT", !.wid = m]
  OBVIOUS
<1>4. PICK c : c = [s.mtxcb[m] EXCEPT !.wait_queue = q]
  OBVIOUS
<1>5. s.tcb[t] \in TCB /\ s.mtxcb[m] \in MTXCB
      /\ s.tcb \in [Tasks -> TCB] /\ s.mtxcb \in [Mutexes -> MTXCB]
      /\ s.chain \in Seq([tcb : Tasks, pri : Pri])
  BY BlockTypes
<1>6. /\ b \in TCB /\ b.state = "WAIT" /\ b.wid = m
      /\ b.priority = s.tcb[t].priority /\ b.bpriority = s.tcb[t].bpriority
      /\ b.mtxlist = s.tcb[t].mtxlist
  BY <1>3, <1>5 DEF TCB, TSTAT
<1>7. /\ c \in MTXCB /\ c.mtxtsk = s.mtxcb[m].mtxtsk /\ c.mtxid = s.mtxcb[m].mtxid
      /\ c.mtxatr = s.mtxcb[m].mtxatr /\ c.ceilpri = s.mtxcb[m].ceilpri
      /\ c.wait_queue = q
  BY <1>2, <1>4, <1>5 DEF MTXCB
<1>8. PICK f, g : f = [s.tcb EXCEPT ![t] = b] /\ g = [s.mtxcb EXCEPT ![m] = c]
  OBVIOUS
<1>9. /\ f \in [Tasks -> TCB] /\ f[t] = b /\ \A u \in Tasks : u # t => f[u] = s.tcb[u]
      /\ g \in [Mutexes -> MTXCB] /\ g[m] = c /\ \A n \in Mutexes : n # m => g[n] = s.mtxcb[n]
  BY <1>5, <1>6, <1>7, <1>8
<1>10. r = [tcb |-> f, mtxcb |-> g, chain |-> s.chain]
  BY <1>1, <1>3, <1>4, <1>5, <1>8 DEF Blocks, make_wait
<1>11. r \in Blocks /\ r.tcb = f /\ r.mtxcb = g /\ r.chain = s.chain
  BY <1>5, <1>9, <1>10 DEF Blocks
<1>12. \A u \in Tasks : r.tcb[u] = IF u = t THEN b ELSE s.tcb[u]
  BY <1>9, <1>11
<1>13. \A n \in Mutexes : r.mtxcb[n] = IF n = m THEN c ELSE s.mtxcb[n]
  BY <1>9, <1>11
<1> QED BY <1>1, <1>6, <1>7, <1>11, <1>12, <1>13 DEF Entered

\* The blocks stay sound: the owner leads to no task that leads to t.
Enters(r, s, t, m) ==
  /\ Sound(r, {}, {}) /\ r.chain = << >>
  /\ Waiters(r, {}, m) = Waiters(s, {}, m) \cup {t}
  /\ \A n \in Mutexes : n # m => Waiters(r, {}, n) = Waiters(s, {}, n)

LEMMA EnteredSound ==
  ASSUME NEW s, Sound(s, {}, {}), s.chain = << >>, NEW t \in Tasks, s.tcb[t].state = "READY",
         NEW m \in Mutexes, NEW o \in Tasks, o = s.mtxcb[m].mtxtsk,
         NEW S \in SUBSET (Tasks \ {t}), o \in S, Closed(s, S),
         s.mtxcb[m].mtxatr = "CEILING" => s.tcb[t].bpriority >= s.mtxcb[m].ceilpri,
         NEW r, Entered(r, s, t, m)
  PROVE  Enters(r, s, t, m)
<1>1. /\ s \in Blocks /\ Queues(s, {}) /\ Ordered(s) /\ Graph(s)
      /\ Owned(s, {}, {}) /\ Created(s) /\ Obeyed(s, {})
  BY DEF Sound
<1>2. /\ r \in Blocks /\ r.chain = s.chain
      /\ \A u \in Tasks : /\ u # t => r.tcb[u] = s.tcb[u]
                          /\ r.tcb[u].priority = s.tcb[u].priority
                          /\ r.tcb[u].bpriority = s.tcb[u].bpriority
                          /\ r.tcb[u].mtxlist = s.tcb[u].mtxlist
      /\ r.tcb[t].state = "WAIT" /\ r.tcb[t].wid = m
      /\ \A n \in Mutexes : /\ n # m => r.mtxcb[n] = s.mtxcb[n]
                            /\ r.mtxcb[n].mtxid = s.mtxcb[n].mtxid
                            /\ r.mtxcb[n].mtxatr = s.mtxcb[n].mtxatr
                            /\ r.mtxcb[n].ceilpri = s.mtxcb[n].ceilpri
                            /\ r.mtxcb[n].mtxtsk = s.mtxcb[n].mtxtsk
  BY DEF Entered
<1>3. /\ ~Waits(s, t) /\ Waits(r, t)
      /\ \A u \in Tasks : u # t => (Waits(r, u) <=> Waits(s, u)) /\ r.tcb[u].wid = s.tcb[u].wid
  BY <1>2 DEF Waits
<1>4. /\ Waiters(r, {}, m) = Waiters(s, {}, m) \cup {t}
      /\ \A n \in Mutexes : n # m => Waiters(r, {}, n) = Waiters(s, {}, n)
      /\ t \notin Waiters(s, {}, m)
  <2>1. \A n \in Mutexes : /\ Waiters(r, {}, n) \subseteq Tasks /\ Waiters(s, {}, n) \subseteq Tasks
                           /\ t \in Waiters(r, {}, n) <=> n = m
                           /\ t \notin Waiters(s, {}, n)
                           /\ \A u \in Tasks : u # t =>
                                (u \in Waiters(r, {}, n) <=> u \in Waiters(s, {}, n))
    BY <1>2, <1>3 DEF Waiters
  <2>2. t \notin Waiters(s, {}, m) /\ t \in Waiters(r, {}, m)
    BY <2>1
  <2>3. \A u : u \in Waiters(r, {}, m) <=> u \in Waiters(s, {}, m) \/ u = t
    BY <2>1
  <2>4. ASSUME NEW n \in Mutexes, n # m
        PROVE  \A u : u \in Waiters(r, {}, n) <=> u \in Waiters(s, {}, n)
    BY <2>1, <2>4
  <2> QED BY <2>2, <2>3, <2>4
<1>5. PICK v, W : v = s.mtxcb[m].wait_queue /\ W = Waiters(s, {}, m)
  OBVIOUS
<1>6. Lists(v, W) /\ t \notin W
  BY <1>1, <1>4, <1>5 DEF Queues
<1>7. r.mtxcb[m].wait_queue = IF s.mtxcb[m].mtxatr = "TFIFO" THEN Append(v, t)
                              ELSE queue_insert_tpri(v, t, priority(s))
  BY <1>5 DEF Entered
<1>8. Queues(r, {})
  <2>1. Lists(r.mtxcb[m].wait_queue, W \cup {t})
    <3>1. Lists(Append(v, t), W \cup {t})
      BY <1>6, AppendList
    <3>2. Lists(queue_insert_tpri(v, t, priority(s)), W \cup {t})
      BY <1>6, InsertList
    <3> QED BY <1>7, <3>1, <3>2
  <2>2. ASSUME NEW n \in Mutexes PROVE Lists(r.mtxcb[n].wait_queue, Waiters(r, {}, n))
    <3>1. CASE n = m
      BY <1>4, <1>5, <2>1, <3>1
    <3>2. CASE n # m
      BY <1>1, <1>2, <1>4, <3>2 DEF Queues
    <3> QED BY <3>1, <3>2
  <2> QED BY <2>2 DEF Queues
<1>9. Ordered(r)
  <2>1. priority(r) = priority(s)
    BY <1>2 DEF priority
  <2>2. \A u \in Tasks : priority(s)[u] \in Int
    <3>1. \A u \in Tasks : s.tcb[u].priority \in Pri
      BY <1>1, BlockTypes
    <3> QED BY <3>1, PriFacts DEF priority
  <2>3. ASSUME NEW n \in Mutexes, r.mtxcb[n].mtxatr # "TFIFO"
        PROVE  InOrder(r.mtxcb[n].wait_queue, priority(s))
    <3>1. InOrder(s.mtxcb[n].wait_queue, priority(s))
      BY <1>1, <1>2, <2>3 DEF Ordered
    <3>2. CASE n = m
      <4>1. \A u \in W : priority(s)[u] \in Int
        BY <1>5, <2>2 DEF Waiters
      <4>2. InOrder(queue_insert_tpri(v, t, priority(s)), priority(s))
        BY <1>5, <1>6, <2>2, <3>1, <3>2, <4>1, InsertOrder
      <4> QED BY <1>2, <1>7, <2>3, <3>2, <4>2
    <3>3. CASE n # m
      BY <1>2, <3>1, <3>3
    <3> QED BY <3>2, <3>3
  <2> QED BY <2>1, <2>3 DEF Ordered
<1>10. /\ OwnerOf(r, t) = o
       /\ \A u \in Tasks : u # t /\ Waits(s, u) => OwnerOf(r, u) = OwnerOf(s, u)
  <2>1. \A u \in Tasks : Waits(s, u) => s.tcb[u].wid \in Mutexes
    BY <1>1 DEF Graph
  <2> QED BY <1>2, <1>3, <2>1 DEF OwnerOf
<1>11. Closed(r, S)
  BY <1>3, <1>10 DEF Closed
<1>12. Graph(r)
  <2>1. ASSUME NEW u \in Tasks, Waits(r, u), u # t
        PROVE  /\ r.tcb[u].wid \in Mutexes
               /\ \E C \in SUBSET (Tasks \ {u}) : OwnerOf(r, u) \in C /\ Closed(r, C)
    <3>1. Waits(s, u) /\ r.tcb[u].wid = s.tcb[u].wid /\ OwnerOf(r, u) = OwnerOf(s, u)
      BY <1>3, <1>10, <2>1
    <3>2. PICK C \in SUBSET (Tasks \ {u}) : OwnerOf(s, u) \in C /\ Closed(s, C)
      BY <1>1, <3>1 DEF Graph
    <3>3. s.tcb[u].wid \in Mutexes
      BY <1>1, <3>1 DEF Graph
    <3>4. CASE u \in S
      <4>1. OwnerOf(s, u) \in S
        BY <3>1, <3>4 DEF Closed
      <4>2. Closed(r, C \cap S)
        BY <1>3, <1>10, <3>2 DEF Closed
      <4>3. C \cap S \in SUBSET (Tasks \ {u}) /\ OwnerOf(r, u) \in C \cap S
        BY <3>1, <3>2, <4>1
      <4> QED BY <3>1, <3>3, <4>2, <4>3
    <3>5. CASE u \notin S
      <4>1. Closed(r, C \cup S)
        BY <1>3, <1>10, <3>2 DEF Closed
      <4>2. C \cup S \in SUBSET (Tasks \ {u}) /\ OwnerOf(r, u) \in C \cup S
        BY <3>1, <3>2, <3>5
      <4> QED BY <3>1, <3>3, <4>1, <4>2
    <3> QED BY <3>4, <3>5
  <2>2. /\ r.tcb[t].wid \in Mutexes
        /\ \E C \in SUBSET (Tasks \ {t}) : OwnerOf(r, t) \in C /\ Closed(r, C)
    BY <1>2, <1>10, <1>11
  <2>3. ASSUME NEW u \in Tasks, ~Waits(r, u) PROVE r.tcb[u].wid = NULL
    BY <1>1, <1>3, <2>3 DEF Graph
  <2> QED BY <2>1, <2>2, <2>3 DEF Graph
<1>13. Owned(r, {}, {})
  <2>1. ASSUME NEW u \in Tasks
        PROVE  /\ Lists(r.tcb[u].mtxlist, {n \in Mutexes \ {} : r.mtxcb[n].mtxtsk = u})
               /\ r.tcb[u].mtxlist # << >> => r.tcb[u].state # "DORMANT"
    <3>1. {n \in Mutexes \ {} : r.mtxcb[n].mtxtsk = u} = {n \in Mutexes \ {} : s.mtxcb[n].mtxtsk = u}
      BY <1>2
    <3>2. /\ Lists(s.tcb[u].mtxlist, {n \in Mutexes \ {} : s.mtxcb[n].mtxtsk = u})
          /\ s.tcb[u].mtxlist # << >> => s.tcb[u].state # "DORMANT"
      BY <1>1 DEF Owned
    <3>3. r.tcb[u].mtxlist = s.tcb[u].mtxlist /\ (u # t => r.tcb[u].state = s.tcb[u].state)
      BY <1>2
    <3> QED BY <1>2, <3>1, <3>2, <3>3
  <2> QED BY <2>1 DEF Owned
<1>14. Created(r)
  BY <1>1, <1>2 DEF Created
<1>15. Obeyed(r, {})
  <2>1. ASSUME NEW u \in Tasks, NEW n \in Mutexes,
               n \in Range(r.tcb[u].mtxlist) \/ n = r.tcb[u].wid,
               r.mtxcb[n].mtxatr = "CEILING"
        PROVE  r.tcb[u].bpriority >= r.mtxcb[n].ceilpri
    <3>1. /\ r.tcb[u].bpriority = s.tcb[u].bpriority /\ r.mtxcb[n].ceilpri = s.mtxcb[n].ceilpri
          /\ s.mtxcb[n].mtxatr = "CEILING" /\ r.tcb[u].mtxlist = s.tcb[u].mtxlist
      BY <1>2, <2>1
    <3>2. CASE n \in Range(s.tcb[u].mtxlist) \/ n = s.tcb[u].wid
      BY <1>1, <3>1, <3>2 DEF Obeyed
    <3>3. CASE ~(n \in Range(s.tcb[u].mtxlist) \/ n = s.tcb[u].wid)
      <4>1. u = t /\ n = m
        BY <1>2, <1>3, <2>1, <3>1, <3>3
      <4> QED BY <3>1, <4>1
    <3> QED BY <3>2, <3>3
  <2> QED BY <2>1 DEF Obeyed
<1>16. Sound(r, {}, {})
  BY <1>2, <1>8, <1>9, <1>12, <1>13, <1>14, <1>15 DEF Sound
<1> QED BY <1>2, <1>4, <1>16 DEF Enters

\* A task waits for a mutex that another one owns.
LEMMA LocksLater ==
  ASSUME NEW s, Good(s), NEW t \in Tasks, s.tcb[t].state = "READY",
         NEW m \in Mutexes, NEW o \in Tasks, o = s.mtxcb[m].mtxtsk,
         NEW S \in SUBSET (Tasks \ {t}), o \in S, Closed(s, S),
         s.mtxcb[m].mtxatr = "CEILING" => s.tcb[t].bpriority >= s.mtxcb[m].ceilpri,
         NEW q, q = raise_owner(s, t, m), NEW r, r = make_wait(q, t, m)
  PROVE  Goes(r, s)
<1>1. Raised(q, s, t, o, m)
  BY Raises
<1>2. /\ Sound(s, {}, {}) /\ s \in Blocks /\ Graph(s)
      /\ Sound(q, {}, {}) /\ q.chain = << >> /\ Reordered(q, s) /\ q \in Blocks
      /\ Queues(q, {}) /\ Owned(q, {}, {})
  BY <1>1 DEF Raised, Good, Sound
<1>3. /\ q.tcb[t].state = "READY" /\ q.tcb[t].bpriority = s.tcb[t].bpriority
      /\ q.tcb[t].priority = s.tcb[t].priority
      /\ \A n \in Mutexes : /\ q.mtxcb[n].mtxtsk = s.mtxcb[n].mtxtsk
                            /\ q.mtxcb[n].mtxatr = s.mtxcb[n].mtxatr
                            /\ q.mtxcb[n].ceilpri = s.mtxcb[n].ceilpri
  BY <1>1, <1>2 DEF Raised, Reordered
<1>4. Closed(q, S)
  BY <1>2, ReorderedKeeps
<1>5. Entered(r, q, t, m)
  <2>1. ~Waits(q, t)
    BY <1>3 DEF Waits
  <2> QED BY <1>2, <2>1, MakeWait
<1>6. /\ Sound(r, {}, {}) /\ r.chain = << >>
      /\ Waiters(r, {}, m) = Waiters(q, {}, m) \cup {t}
      /\ \A n \in Mutexes : n # m => Waiters(r, {}, n) = Waiters(q, {}, n)
  <2>1. o = q.mtxcb[m].mtxtsk
    BY <1>3
  <2>2. q.mtxcb[m].mtxatr = "CEILING" => q.tcb[t].bpriority >= q.mtxcb[m].ceilpri
    BY <1>3
  <2>3. Enters(r, q, t, m)
    BY <1>2, <1>3, <1>4, <1>5, <2>1, <2>2, EnteredSound
  <2> QED BY <2>3 DEF Enters
<1>7. /\ \A u \in Tasks : /\ r.tcb[u].priority = q.tcb[u].priority
                          /\ r.tcb[u].bpriority = q.tcb[u].bpriority
                          /\ r.tcb[u].mtxlist = q.tcb[u].mtxlist
      /\ \A n \in Mutexes : /\ r.mtxcb[n].mtxatr = q.mtxcb[n].mtxatr
                            /\ r.mtxcb[n].ceilpri = q.mtxcb[n].ceilpri
                            /\ r.mtxcb[n].mtxtsk = q.mtxcb[n].mtxtsk
  BY <1>5 DEF Entered
<1>8. \A n \in Mutexes : n # m => Asked(r, {}, n) = Asked(q, {}, n)
  <2>1. \A n \in Mutexes : Waiters(q, {}, n) \subseteq Tasks
    BY DEF Waiters
  <2> QED BY <1>6, <1>7, <2>1 DEF Asked
<1>9. PICK p : p = s.tcb[t].priority
  OBVIOUS
<1>10. p \in Pri
  BY <1>2, <1>9, BlockTypes
<1>11. Asked(r, {}, m) = IF s.mtxcb[m].mtxatr = "INHERIT" THEN Asked(q, {}, m) \cup {p}
                         ELSE Asked(q, {}, m)
  <2>1. Waiters(q, {}, m) \subseteq Tasks
    BY DEF Waiters
  <2>2. ASSUME NEW y \in Pri
        PROVE  y \in Asked(r, {}, m) <=>
                 y \in Asked(q, {}, m) \/ (s.mtxcb[m].mtxatr = "INHERIT" /\ y = p)
    <3>1. /\ r.mtxcb[m].mtxatr = s.mtxcb[m].mtxatr /\ q.mtxcb[m].mtxatr = s.mtxcb[m].mtxatr
          /\ r.mtxcb[m].ceilpri = q.mtxcb[m].ceilpri
      BY <1>3, <1>7
    <3>2. (\E u \in Waiters(r, {}, m) : y = r.tcb[u].priority)
          <=> ((\E u \in Waiters(q, {}, m) : y = q.tcb[u].priority) \/ y = p)
      <4>1. ASSUME NEW u PROVE u \in Waiters(r, {}, m) <=> (u \in Waiters(q, {}, m) \/ u = t)
        <5>1. PICK V : V = Waiters(q, {}, m)
          OBVIOUS
        <5>2. Waiters(r, {}, m) = V \cup {t}
          BY <1>6, <5>1
        <5> QED BY <5>1, <5>2
      <4>2. \A u \in Tasks : r.tcb[u].priority = q.tcb[u].priority
        BY <1>7
      <4>3. q.tcb[t].priority = p
        BY <1>3, <1>9
      <4> QED BY <2>1, <4>1, <4>2, <4>3
    <3>3. y \in Asked(r, {}, m) <=>
            \/ r.mtxcb[m].mtxatr = "CEILING" /\ y = r.mtxcb[m].ceilpri
            \/ r.mtxcb[m].mtxatr = "INHERIT" /\ \E u \in Waiters(r, {}, m) : y = r.tcb[u].priority
      BY DEF Asked
    <3>4. y \in Asked(q, {}, m) <=>
            \/ q.mtxcb[m].mtxatr = "CEILING" /\ y = q.mtxcb[m].ceilpri
            \/ q.mtxcb[m].mtxatr = "INHERIT" /\ \E u \in Waiters(q, {}, m) : y = q.tcb[u].priority
      BY DEF Asked
    <3> QED BY <3>1, <3>2, <3>3, <3>4
  <2>3. Asked(r, {}, m) \subseteq Pri /\ Asked(q, {}, m) \subseteq Pri
    BY DEF Asked
  <2> QED BY <1>10, <2>2, <2>3
<1>12. \A u \in Tasks : /\ Range(q.tcb[u].mtxlist) \subseteq Mutexes
                        /\ m \in Range(q.tcb[u].mtxlist) <=> u = o
  <2>1. ASSUME NEW u \in Tasks
        PROVE  Range(q.tcb[u].mtxlist) = {n \in Mutexes \ {} : q.mtxcb[n].mtxtsk = u}
    BY <1>2, ListOwned
  <2> QED BY <1>3, <2>1
<1>13. ASSUME NEW u \in Tasks PROVE RightOf(r, {}, None, u)
  <2>1. CASE u # o
    <3>1. \A n \in Range(q.tcb[u].mtxlist) : Asked(r, {}, n) = Asked(q, {}, n)
      BY <1>8, <1>12, <2>1
    <3>2. Needs(r, {}, None, u) = Needs(q, {}, None, u)
      BY <1>7, <3>1 DEF Needs
    <3>3. RightOf(q, {}, None, u)
      BY <1>1, <2>1 DEF Raised
    <3> QED BY <1>7, <3>2, <3>3 DEF RightOf
  <2>2. CASE u = o /\ s.mtxcb[m].mtxatr = "INHERIT"
    <3>1. \A y \in Pri : y \in Needs(r, {}, None, o) <=> y \in Needs(q, {}, None, o) \/ y = p
      BY <1>7, <1>8, <1>11, <1>12, <2>2 DEF Needs
    <3>2. Needs(r, {}, None, o) \subseteq Pri /\ Needs(q, {}, None, o) \subseteq Pri
      BY DEF Needs
    <3>3. Needs(r, {}, None, o) = Needs(q, {}, None, o) \cup {p}
      BY <1>10, <3>1, <3>2
    <3>4. Lowest(q.tcb[o].priority, Needs(q, {}, None, o) \cup {p})
      BY <1>1, <1>9, <2>2 DEF Raised
    <3> QED BY <1>7, <2>2, <3>3, <3>4 DEF RightOf
  <2>3. CASE u = o /\ s.mtxcb[m].mtxatr # "INHERIT"
    <3>1. \A n \in Range(q.tcb[o].mtxlist) : Asked(r, {}, n) = Asked(q, {}, n)
      BY <1>8, <1>11, <1>12, <2>3
    <3>2. Needs(r, {}, None, o) = Needs(q, {}, None, o)
      BY <1>7, <3>1 DEF Needs
    <3>3. RightOf(q, {}, None, o)
      BY <1>1, <2>3 DEF Raised
    <3> QED BY <1>7, <2>3, <3>2, <3>3 DEF RightOf
  <2> QED BY <2>1, <2>2, <2>3
<1>14. Right(r, {}, None)
  BY <1>6, <1>13 DEF Right
<1>15. PassesOn(s, r)
  BY <1>3, <1>7, SameOwners
<1> QED BY <1>6, <1>14, <1>15 DEF Goes, Good

\* A wait ends without the mutex.
LEMMA Leaves ==
  ASSUME NEW s, Good(s), NEW t \in Tasks, s.tcb[t].state = "WAIT",
         NEW m, m = s.tcb[t].wid, NEW r, r = mtx_rel_wai(wait_release(s, t), t, m)
  PROVE  Goes(r, s)
<1>1. /\ Sound(s, {}, {}) /\ Right(s, {}, None) /\ s.chain = << >>
      /\ s \in Blocks /\ Queues(s, {}) /\ Graph(s)
  BY DEF Good, Sound
<1>2. Waits(s, t) /\ m \in Mutexes
  BY <1>1 DEF Waits, Graph
<1>3. PICK q, Y : q = wait_release(s, t) /\ Y = {}
  OBVIOUS
<1>4. Left(q, s, t, m) /\ q.tcb[t].state = "READY" /\ q.tcb[t].wid = NULL
  BY <1>1, <1>2, <1>3, Released
<1>5. Ended(q, s, t, {}, Y)
  BY <1>3, <1>4 DEF Ended
<1>6. r = mtx_rel_wai(q, t, m)
  BY <1>3
<1>7. /\ Sound(r, Y, {}) /\ Right(r, Y, None) /\ r.chain = << >> /\ Reordered(r, q)
      /\ \E S \in SUBSET (Tasks \ {t}) : Closed(s, S) /\ Confined(r, q, S)
  <2>1. RelWaits(r, Y, q, s, t)
    BY <1>1, <1>2, <1>4, <1>5, <1>6, RelWai
  <2> QED BY <2>1 DEF RelWaits
<1>8. PassesOn(s, r)
  <2>1. \A n \in Mutexes : r.mtxcb[n].mtxtsk = s.mtxcb[n].mtxtsk
    BY <1>4, <1>7 DEF Reordered, Left
  <2> QED BY <2>1, SameOwners
<1> QED BY <1>3, <1>7, <1>8 DEF Goes, Good

\* Only the states of tasks that do not wait and base priorities differ.
Alike(r, s) ==
  /\ r.mtxcb = s.mtxcb /\ r.chain = s.chain
  /\ \A u \in Tasks : /\ r.tcb[u].wid = s.tcb[u].wid
                      /\ r.tcb[u].mtxlist = s.tcb[u].mtxlist
                      /\ r.tcb[u].priority = s.tcb[u].priority
                      /\ r.tcb[u].state = "DORMANT" => s.tcb[u].state = "DORMANT"
                      /\ Waits(r, u) <=> Waits(s, u)

AsSound(r, s) ==
  /\ Queues(r, {}) /\ Ordered(r) /\ Graph(r) /\ Owned(r, {}, {}) /\ Created(r)
  /\ \A n \in Mutexes : Asked(r, {}, n) = Asked(s, {}, n)

LEMMA AlikeSound ==
  ASSUME NEW s, Sound(s, {}, {}), NEW r \in Blocks, Alike(r, s)
  PROVE  AsSound(r, s)
<1>1. /\ s \in Blocks /\ Queues(s, {}) /\ Ordered(s) /\ Graph(s)
      /\ Owned(s, {}, {}) /\ Created(s)
  BY DEF Sound
<1>2. r.mtxcb = s.mtxcb
  BY DEF Alike
<1>3. \A u \in Tasks : /\ r.tcb[u].wid = s.tcb[u].wid
                       /\ r.tcb[u].mtxlist = s.tcb[u].mtxlist
                       /\ r.tcb[u].priority = s.tcb[u].priority
                       /\ r.tcb[u].state = "DORMANT" => s.tcb[u].state = "DORMANT"
                       /\ Waits(r, u) <=> Waits(s, u)
  BY DEF Alike
<1>4. \A u \in Tasks : OwnerOf(r, u) = OwnerOf(s, u)
  BY <1>2, <1>3 DEF OwnerOf
<1>5. \A n \in Mutexes : Waiters(r, {}, n) = Waiters(s, {}, n)
  BY <1>3 DEF Waiters
<1>6. Queues(r, {})
  BY <1>1, <1>2, <1>5 DEF Queues
<1>7. Ordered(r)
  <2>1. priority(r) = priority(s)
    BY <1>3 DEF priority
  <2> QED BY <1>1, <1>2, <2>1 DEF Ordered
<1>8. Graph(r)
  <2>1. \A S \in SUBSET Tasks : Closed(s, S) => Closed(r, S)
    BY <1>3, <1>4 DEF Closed
  <2>2. \A u \in Tasks : \A S \in SUBSET (Tasks \ {u}) : Closed(s, S) => Closed(r, S)
    BY <2>1
  <2> QED BY <1>1, <1>3, <1>4, <2>2 DEF Graph
<1>9. Owned(r, {}, {})
  <2>1. ASSUME NEW u \in Tasks
        PROVE  /\ Lists(r.tcb[u].mtxlist, {n \in Mutexes \ {} : r.mtxcb[n].mtxtsk = u})
               /\ r.tcb[u].mtxlist # << >> => r.tcb[u].state # "DORMANT"
    <3>1. /\ Lists(s.tcb[u].mtxlist, {n \in Mutexes \ {} : s.mtxcb[n].mtxtsk = u})
          /\ s.tcb[u].mtxlist # << >> => s.tcb[u].state # "DORMANT"
      BY <1>1 DEF Owned
    <3>2. r.tcb[u].mtxlist = s.tcb[u].mtxlist
          /\ (r.tcb[u].state = "DORMANT" => s.tcb[u].state = "DORMANT")
      BY <1>3
    <3> QED BY <1>2, <3>1, <3>2
  <2> QED BY <2>1 DEF Owned
<1>10. Created(r)
  BY <1>1, <1>2 DEF Created
<1>11. \A n \in Mutexes : Asked(r, {}, n) = Asked(s, {}, n)
  <2>1. \A n \in Mutexes : Waiters(s, {}, n) \subseteq Tasks
    BY DEF Waiters
  <2> QED BY <1>2, <1>3, <1>5, <2>1 DEF Asked
<1> QED BY <1>6, <1>7, <1>8, <1>9, <1>10, <1>11 DEF AsSound

\* What a task needs then, but for its base priority.
LEMMA AlikeNeeds ==
  ASSUME NEW s \in Blocks, NEW r, Alike(r, s), AsSound(r, s), NEW u \in Tasks
  PROVE  r.tcb[u].bpriority = s.tcb[u].bpriority =>
           Needs(r, {}, None, u) = Needs(s, {}, None, u)
<1>1. Range(s.tcb[u].mtxlist) \subseteq Mutexes
  <2>1. s.tcb[u].mtxlist \in Seq(Mutexes)
    BY BlockTypes
  <2> QED BY <2>1, RangeOfSeq
<1>2. r.tcb[u].mtxlist = s.tcb[u].mtxlist
  BY DEF Alike
<1>3. \A n \in Mutexes : Asked(r, {}, n) = Asked(s, {}, n)
  BY DEF AsSound
<1> QED BY <1>1, <1>2, <1>3 DEF Needs

\* A task that does not wait changes its state.
started(s, t) == [s.tcb[t] EXCEPT !.state = "READY"]

LEMMA Starts ==
  ASSUME NEW s, Good(s), NEW t \in Tasks, s.tcb[t].state = "DORMANT",
         NEW b, b = started(s, t), NEW r, r = putTask(s, t, b)
  PROVE  Goes(r, s)
<1>1. /\ Sound(s, {}, {}) /\ Right(s, {}, None) /\ s.chain = << >>
      /\ s \in Blocks /\ Obeyed(s, {})
  BY DEF Good, Sound
<1>2. /\ b \in TCB /\ b.state = "READY" /\ b.wid = s.tcb[t].wid
      /\ b.mtxlist = s.tcb[t].mtxlist
      /\ b.priority = s.tcb[t].priority /\ b.bpriority = s.tcb[t].bpriority
  <2>1. s.tcb[t] \in TCB
    BY <1>1, BlockTypes
  <2> QED BY <2>1 DEF TCB, TSTAT, started
<1>3. /\ r \in Blocks /\ r.mtxcb = s.mtxcb /\ r.chain = s.chain
      /\ r.tcb[t] = b /\ \A u \in Tasks : u # t => r.tcb[u] = s.tcb[u]
  BY <1>1, <1>2, PutTask
<1>4. Alike(r, s) /\ \A u \in Tasks : r.tcb[u].bpriority = s.tcb[u].bpriority
  <2>1. ASSUME NEW u \in Tasks
        PROVE  /\ r.tcb[u].wid = s.tcb[u].wid
               /\ r.tcb[u].mtxlist = s.tcb[u].mtxlist
               /\ r.tcb[u].priority = s.tcb[u].priority
               /\ r.tcb[u].bpriority = s.tcb[u].bpriority
               /\ r.tcb[u].state = "DORMANT" => s.tcb[u].state = "DORMANT"
               /\ Waits(r, u) <=> Waits(s, u)
    <3>1. CASE u = t
      <4>1. r.tcb[u] = b /\ s.tcb[u].state = "DORMANT"
        BY <1>3, <3>1
      <4> QED BY <1>2, <3>1, <4>1 DEF Waits
    <3>2. CASE u # t
      <4>1. r.tcb[u] = s.tcb[u]
        BY <1>3, <3>2
      <4> QED BY <4>1 DEF Waits
    <3> QED BY <3>1, <3>2
  <2> QED BY <1>3, <2>1 DEF Alike
<1>5. AsSound(r, s)
  BY <1>1, <1>3, <1>4, AlikeSound
<1>6. Obeyed(r, {})
  BY <1>1, <1>3, <1>4 DEF Obeyed, Alike
<1>7. Sound(r, {}, {})
  BY <1>3, <1>5, <1>6 DEF AsSound, Sound
<1>8. ASSUME NEW u \in Tasks PROVE RightOf(r, {}, None, u)
  <2>1. Needs(r, {}, None, u) = Needs(s, {}, None, u)
    BY <1>1, <1>4, <1>5, AlikeNeeds
  <2>2. RightOf(s, {}, None, u)
    BY <1>1 DEF Right
  <2>3. r.tcb[u].priority = s.tcb[u].priority
    BY <1>4 DEF Alike
  <2> QED BY <2>1, <2>2, <2>3 DEF RightOf
<1>9. PassesOn(s, r)
  BY <1>3, SameOwners
<1> QED BY <1>1, <1>3, <1>7, <1>8, <1>9 DEF Goes, Good, Right

\* A task gets another base priority.
based(s, t, p) == [s.tcb[t] EXCEPT !.bpriority = p]

LEMMA Rebases ==
  ASSUME NEW s, Good(s), NEW t \in Tasks, NEW p \in Pri,
         \A m \in Mutexes : /\ m \in Range(s.tcb[t].mtxlist) \/ m = s.tcb[t].wid
                            /\ s.mtxcb[m].mtxatr = "CEILING"
                            => p >= s.mtxcb[m].ceilpri,
         NEW b, b = based(s, t, p), NEW q, q = putTask(s, t, b),
         NEW r, r = set_priority(q, t, highest(s, t, p))
  PROVE  Goes(r, s)
<1>1. /\ Sound(s, {}, {}) /\ Right(s, {}, None) /\ s.chain = << >>
      /\ s \in Blocks /\ Obeyed(s, {}) /\ Queues(s, {}) /\ Ordered(s)
  BY DEF Good, Sound
<1>2. /\ b \in TCB /\ b.state = s.tcb[t].state /\ b.wid = s.tcb[t].wid
      /\ b.mtxlist = s.tcb[t].mtxlist
      /\ b.priority = s.tcb[t].priority /\ b.bpriority = p
  <2>1. s.tcb[t] \in TCB
    BY <1>1, BlockTypes
  <2> QED BY <2>1 DEF TCB, based
<1>3. /\ q \in Blocks /\ q.mtxcb = s.mtxcb /\ q.chain = s.chain
      /\ q.tcb[t] = b /\ \A u \in Tasks : u # t => q.tcb[u] = s.tcb[u]
  BY <1>1, <1>2, PutTask
<1>4. Alike(q, s) /\ \A u \in Tasks : u # t => q.tcb[u].bpriority = s.tcb[u].bpriority
  <2>1. ASSUME NEW u \in Tasks
        PROVE  /\ q.tcb[u].wid = s.tcb[u].wid
               /\ q.tcb[u].mtxlist = s.tcb[u].mtxlist
               /\ q.tcb[u].priority = s.tcb[u].priority
               /\ u # t => q.tcb[u].bpriority = s.tcb[u].bpriority
               /\ q.tcb[u].state = "DORMANT" => s.tcb[u].state = "DORMANT"
               /\ Waits(q, u) <=> Waits(s, u)
    <3>1. CASE u = t
      <4>1. q.tcb[u] = b
        BY <1>3, <3>1
      <4> QED BY <1>2, <3>1, <4>1 DEF Waits
    <3>2. CASE u # t
      <4>1. q.tcb[u] = s.tcb[u]
        BY <1>3, <3>2
      <4> QED BY <4>1 DEF Waits
    <3> QED BY <3>1, <3>2
  <2> QED BY <1>3, <2>1 DEF Alike
<1>5. AsSound(q, s)
  BY <1>1, <1>3, <1>4, AlikeSound
<1>6. Obeyed(q, {})
  <2>1. ASSUME NEW u \in Tasks, NEW m \in Mutexes,
               m \in Range(q.tcb[u].mtxlist) \/ m = q.tcb[u].wid,
               q.mtxcb[m].mtxatr = "CEILING"
        PROVE  q.tcb[u].bpriority >= q.mtxcb[m].ceilpri
    <3>1. /\ m \in Range(s.tcb[u].mtxlist) \/ m = s.tcb[u].wid
          /\ q.mtxcb[m] = s.mtxcb[m]
      BY <1>3, <1>4, <2>1 DEF Alike
    <3>2. CASE u = t
      <4>1. q.tcb[u].bpriority = p
        BY <1>2, <1>3, <3>2
      <4>2. p >= s.mtxcb[m].ceilpri
        BY <2>1, <3>1, <3>2
      <4> QED BY <3>1, <4>1, <4>2
    <3>3. CASE u # t
      <4>1. q.tcb[u].bpriority = s.tcb[u].bpriority
        BY <1>4, <3>3
      <4> QED BY <1>1, <2>1, <3>1, <4>1 DEF Obeyed
    <3> QED BY <3>2, <3>3
  <2> QED BY <2>1 DEF Obeyed
<1>7. Sound(q, {}, {})
  BY <1>3, <1>5, <1>6 DEF AsSound, Sound
<1>8. PICK h : h = highest(s, t, p)
  OBVIOUS
<1>9. Lowest(h, Needs(q, {}, None, t)) /\ h \in Pri
  <2>1. PICK N : N = {y \in Pri : \/ y = p
                                  \/ \E m \in Range(s.tcb[t].mtxlist) : y \in Asked(s, {}, m)}
    OBVIOUS
  <2>2. Lowest(h, N)
    BY <1>1, <1>8, <2>1, HighestLowest
  <2>3. Needs(q, {}, None, t) = N
    <3>1. Range(s.tcb[t].mtxlist) \subseteq Mutexes
      <4>1. s.tcb[t].mtxlist \in Seq(Mutexes)
        BY <1>1, BlockTypes
      <4> QED BY <4>1, RangeOfSeq
    <3>2. \A n \in Mutexes : Asked(q, {}, n) = Asked(s, {}, n)
      BY <1>5 DEF AsSound
    <3>3. q.tcb[t].mtxlist = s.tcb[t].mtxlist /\ q.tcb[t].bpriority = p /\ None[t] = {}
      BY <1>2, <1>3 DEF None
    <3> QED BY <2>1, <3>1, <3>2, <3>3 DEF Needs
  <2> QED BY <2>1, <2>2, <2>3 DEF Lowest
<1>10. ASSUME NEW u \in Tasks, u # t PROVE RightOf(q, {}, None, u)
  <2>1. Needs(q, {}, None, u) = Needs(s, {}, None, u)
    BY <1>1, <1>4, <1>5, <1>10, AlikeNeeds
  <2>2. RightOf(s, {}, None, u)
    BY <1>1 DEF Right
  <2>3. q.tcb[u].priority = s.tcb[u].priority
    BY <1>4 DEF Alike
  <2> QED BY <2>1, <2>2, <2>3 DEF RightOf
<1>11. PICK c : c = calls(q, t, h)
  OBVIOUS
<1>12. /\ c \in Blocks /\ c.tcb = q.tcb /\ c.mtxcb = q.mtxcb
       /\ c.chain # << >> /\ c.chain[1].tcb = t
  BY <1>3, <1>9, <1>11, Calls
<1>13. PICK X : X = {}
  OBVIOUS
<1>14. Right(c, X, None)
  <2>1. t \in Tasks \ X /\ Lowest(h, Needs(q, X, None, t))
        /\ \A u \in Tasks \ X : u # t => RightOf(q, X, None, u)
    BY <1>9, <1>10, <1>13
  <2> QED BY <1>3, <1>9, <1>11, <2>1, CallsRight
<1>15. Sound(c, X, X) /\ Reordered(c, q)
  <2>1. Reordered(c, q) /\ Queues(c, {}) /\ Ordered(c)
    BY <1>3, <1>7, <1>12, SameBlocks DEF Sound
  <2>2. Graph(c) /\ Owned(c, {}, {}) /\ Created(c) /\ Obeyed(c, {})
    BY <1>3, <1>7, <1>12, <2>1, ReorderedKeeps DEF Sound
  <2> QED BY <1>12, <1>13, <2>1, <2>2 DEF Sound
<1>16. PICK C : C = Tasks
  OBVIOUS
<1>17. Closed(c, C) /\ Clean(c, X, None, C, t) /\ C \in SUBSET (Tasks \ X) /\ t \in C
  <2>1. \A u \in Tasks : Waits(c, u) => OwnerOf(c, u) \in Tasks
    <3>1. Graph(c)
      BY <1>15 DEF Sound
    <3> QED BY <1>12, <3>1, OwnerOther
  <2>2. Clean(c, {}, None, C, t)
    BY <1>16 DEF Clean, None
  <2> QED BY <1>13, <1>16, <2>1, <2>2 DEF Closed
<1>18. Changed(r, c, X, X, None, C)
  <2>1. r = change_task_priority(c)
    BY <1>8, <1>11 DEF set_priority
  <2> QED BY <1>12, <1>14, <1>15, <1>17, <2>1, ChangeAll
<1>19. Sound(r, {}, {}) /\ r.chain = << >> /\ Right(r, {}, None) /\ Reordered(r, c)
  BY <1>13, <1>18 DEF Changed
<1>20. PassesOn(s, r)
  <2>1. \A m \in Mutexes : r.mtxcb[m].mtxtsk = s.mtxcb[m].mtxtsk
    BY <1>3, <1>12, <1>19 DEF Reordered
  <2> QED BY <2>1, SameOwners
<1> QED BY <1>19, <1>20 DEF Goes, Good
\* The wait of t is cancelled: its state stays as it is.
LEMMA Cancelled ==
  ASSUME NEW s \in Blocks, NEW X, Queues(s, X), NEW t \in Tasks,
         NEW m \in Mutexes, m = s.tcb[t].wid, NEW r, r = wait_cancel(s, t)
  PROVE  Left(r, s, t, m) /\ r.tcb = s.tcb
<1>1. PICK q : q = QueRemove(s.mtxcb[m].wait_queue, t)
  OBVIOUS
<1>2. q \in Seq(Tasks)
  BY <1>1, Unqueued
<1>3. PICK c : c = [s.mtxcb[m] EXCEPT !.wait_queue = q]
  OBVIOUS
<1>4. s.mtxcb[m] \in MTXCB
  BY BlockTypes
<1>5. /\ c \in MTXCB /\ c.mtxtsk = s.mtxcb[m].mtxtsk /\ c.mtxid = s.mtxcb[m].mtxid
      /\ c.mtxatr = s.mtxcb[m].mtxatr /\ c.ceilpri = s.mtxcb[m].ceilpri
      /\ c.wait_queue = q
  BY <1>2, <1>3, <1>4 DEF MTXCB
<1>6. r = putMutex(s, m, c)
  <2>1. s.mtxcb \in [Mutexes -> MTXCB]
    BY BlockTypes
  <2> QED BY <1>1, <1>3, <1>4, <2>1 DEF wait_cancel, putMutex
<1>7. /\ r \in Blocks /\ r.tcb = s.tcb /\ r.chain = s.chain
      /\ r.mtxcb[m] = c /\ \A n \in Mutexes : n # m => r.mtxcb[n] = s.mtxcb[n]
  BY <1>5, <1>6, PutMutex
<1>8. \A n \in Mutexes : r.mtxcb[n] = IF n = m THEN c ELSE s.mtxcb[n]
  BY <1>7
<1> QED BY <1>1, <1>5, <1>7, <1>8 DEF Left

\* The wait of a task that is terminated is over: its mutexes are as they were,
\* with the tasks that wait for them.
Quits(q, s, t) ==
  /\ Sound(q, {t}, {}) /\ Right(q, {t}, None) /\ q.chain = << >>
  /\ \A n \in Mutexes : /\ q.mtxcb[n].mtxtsk = s.mtxcb[n].mtxtsk
                        /\ q.mtxcb[n].mtxatr = s.mtxcb[n].mtxatr
  /\ q.tcb[t].mtxlist = s.tcb[t].mtxlist /\ q.tcb[t].wid = s.tcb[t].wid
  /\ \A n \in Mutexes : s.mtxcb[n].mtxtsk = t =>
       /\ q.mtxcb[n].wait_queue = s.mtxcb[n].wait_queue
       /\ \A u \in Waiters(q, {t}, n) : q.tcb[u].priority = s.tcb[u].priority

LEMMA WaitEnds ==
  ASSUME NEW s, Good(s), NEW t \in Tasks, Waits(s, t), NEW q, q = end_wait(s, t)
  PROVE  Quits(q, s, t)
<1>1. /\ Sound(s, {}, {}) /\ Right(s, {}, None) /\ s.chain = << >>
      /\ s \in Blocks /\ Queues(s, {}) /\ Graph(s)
  BY DEF Good, Sound
<1>2. PICK m : m = s.tcb[t].wid
  OBVIOUS
<1>3. m \in Mutexes /\ s.mtxcb[m].mtxtsk # t
  BY <1>1, <1>2, OwnerOther DEF OwnerOf
<1>4. PICK c, Y : c = wait_cancel(s, t) /\ Y = {t}
  OBVIOUS
<1>5. Left(c, s, t, m) /\ c.tcb = s.tcb
  BY <1>1, <1>2, <1>3, <1>4, Cancelled
<1>6. Ended(c, s, t, {}, Y)
  BY <1>4, <1>5 DEF Ended
<1>7. q = mtx_rel_wai(c, t, m)
  BY <1>2, <1>4 DEF end_wait, Waits
<1>8. RelWaits(q, Y, c, s, t)
  BY <1>1, <1>2, <1>5, <1>6, <1>7, RelWai
<1>9. /\ Sound(q, Y, {}) /\ Right(q, Y, None) /\ q.chain = << >> /\ Reordered(q, c)
  BY <1>8 DEF RelWaits
<1>10. PICK S \in SUBSET (Tasks \ {t}) : Closed(s, S) /\ Confined(q, c, S)
  BY <1>8 DEF RelWaits
<1>11. \A n \in Mutexes : /\ c.mtxcb[n].mtxtsk = s.mtxcb[n].mtxtsk
                          /\ c.mtxcb[n].mtxatr = s.mtxcb[n].mtxatr
                          /\ n # m => c.mtxcb[n] = s.mtxcb[n]
  BY <1>5 DEF Left
<1>12. /\ \A n \in Mutexes : /\ q.mtxcb[n].mtxtsk = s.mtxcb[n].mtxtsk
                             /\ q.mtxcb[n].mtxatr = s.mtxcb[n].mtxatr
       /\ \A u \in Tasks : /\ q.tcb[u].mtxlist = s.tcb[u].mtxlist
                           /\ q.tcb[u].wid = s.tcb[u].wid
                           /\ q.tcb[u].state = s.tcb[u].state
  BY <1>5, <1>9, <1>11 DEF Reordered
<1>13. ASSUME NEW n \in Mutexes, s.mtxcb[n].mtxtsk = t
       PROVE  /\ q.mtxcb[n].wait_queue = s.mtxcb[n].wait_queue
              /\ \A u \in Waiters(q, {t}, n) : q.tcb[u].priority = s.tcb[u].priority
  <2>1. \A u \in S : ~(Waits(s, u) /\ s.tcb[u].wid = n)
    BY <1>10, <1>13 DEF Closed, OwnerOf
  <2>2. q.mtxcb[n].wait_queue = c.mtxcb[n].wait_queue
    BY <1>5, <1>10, <2>1 DEF Confined, Waits
  <2>3. c.mtxcb[n].wait_queue = s.mtxcb[n].wait_queue
    BY <1>3, <1>11, <1>13
  <2>4. ASSUME NEW u \in Waiters(q, {t}, n) PROVE q.tcb[u].priority = s.tcb[u].priority
    <3>1. u \in Tasks /\ Waits(s, u) /\ s.tcb[u].wid = n
      BY <1>12 DEF Waiters, Waits
    <3>2. u \notin S
      BY <2>1, <3>1
    <3> QED BY <1>5, <1>10, <3>1, <3>2 DEF Confined
  <2> QED BY <2>2, <2>3, <2>4
<1> QED BY <1>4, <1>9, <1>12, <1>13 DEF Quits

LEMMA NoWaitEnds ==
  ASSUME NEW s, Good(s), NEW t \in Tasks, ~Waits(s, t), NEW q, q = end_wait(s, t)
  PROVE  Quits(q, s, t)
<1>1. q = s
  BY DEF end_wait, Waits
<1>2. /\ Sound(s, {}, {}) /\ Right(s, {}, None) /\ s.chain = << >>
      /\ s \in Blocks /\ Queues(s, {}) /\ Ordered(s) /\ Graph(s)
      /\ Owned(s, {}, {}) /\ Created(s) /\ Obeyed(s, {})
  BY DEF Good, Sound
<1>3. \A n \in Mutexes : Waiters(s, {t}, n) = Waiters(s, {}, n)
  BY DEF Waiters
<1>4. Queues(s, {t})
  BY <1>2, <1>3 DEF Queues
<1>5. Owned(s, {t}, {}) /\ Obeyed(s, {t})
  BY <1>2 DEF Owned, Obeyed
<1>6. Sound(s, {t}, {})
  BY <1>2, <1>4, <1>5 DEF Sound
<1>7. ASSUME NEW u \in Tasks \ {t} PROVE RightOf(s, {t}, None, u)
  <2>1. \A n \in Mutexes : Asked(s, {t}, n) = Asked(s, {}, n)
    BY <1>3 DEF Asked
  <2>2. Range(s.tcb[u].mtxlist) \subseteq Mutexes
    <3>1. s.tcb[u].mtxlist \in Seq(Mutexes)
      BY <1>2, BlockTypes
    <3> QED BY <3>1, RangeOfSeq
  <2>3. Needs(s, {t}, None, u) = Needs(s, {}, None, u)
    BY <2>1, <2>2 DEF Needs
  <2>4. RightOf(s, {}, None, u)
    BY <1>2 DEF Right
  <2> QED BY <2>3, <2>4 DEF RightOf
<1> QED BY <1>1, <1>2, <1>6, <1>7 DEF Quits, Right

\* The control block of a task that has ended.
gone(p) == [ state |-> "DORMANT", priority |-> p, bpriority |-> p,
             wid |-> NULL, mtxlist |-> << >> ]

LEMMA Gone ==
  ASSUME NEW p \in Pri
  PROVE  /\ gone(p) \in TCB /\ gone(p).state = "DORMANT" /\ gone(p).wid = NULL
         /\ gone(p).priority = p /\ gone(p).bpriority = p
         /\ gone(p).mtxlist = << >> /\ Range(gone(p).mtxlist) = {}
<1>1. PICK e : e = << >>
  OBVIOUS
<1>2. e \in Seq(Mutexes) /\ Len(e) = 0 /\ Range(e) = {}
  <2>1. e \in Seq(Mutexes) /\ Len(e) = 0
    BY <1>1
  <2>2. DOMAIN e = {}
    BY <2>1
  <2> QED BY <2>1, <2>2 DEF Range
<1>3. gone(p) = [ state |-> "DORMANT", priority |-> p, bpriority |-> p,
                  wid |-> NULL, mtxlist |-> e ]
  BY <1>1 DEF gone
<1> QED BY <1>1, <1>2, <1>3 DEF TCB, TSTAT
\* A task whose mutexes have passed on, and that is in no queue, ends.
LEMMA Ends ==
  ASSUME NEW s, NEW t \in Tasks, Sound(s, {t}, {}), Right(s, {t}, None), s.chain = << >>,
         \A n \in Mutexes : s.mtxcb[n].mtxtsk # t, NEW p \in Pri,
         NEW b, b = gone(p), NEW r, r = putTask(s, t, b)
  PROVE  Good(r) /\ r.mtxcb = s.mtxcb /\ \A u \in Tasks : u # t => r.tcb[u] = s.tcb[u]
<1>1. /\ s \in Blocks /\ Queues(s, {t}) /\ Ordered(s) /\ Graph(s)
      /\ Owned(s, {t}, {}) /\ Created(s) /\ Obeyed(s, {t})
  BY DEF Sound
<1>2. /\ b \in TCB /\ b.state = "DORMANT" /\ b.wid = NULL
      /\ b.priority = p /\ b.bpriority = p /\ b.mtxlist = << >> /\ Range(b.mtxlist) = {}
  BY Gone
<1>3. /\ r \in Blocks /\ r.mtxcb = s.mtxcb /\ r.chain = s.chain
      /\ r.tcb[t] = b /\ \A u \in Tasks : u # t => r.tcb[u] = s.tcb[u]
  BY <1>1, <1>2, PutTask
<1>4. ~Waits(r, t) /\ \A u \in Tasks : u # t => (Waits(r, u) <=> Waits(s, u))
  BY <1>2, <1>3 DEF Waits
<1>5. \A n \in Mutexes : Waiters(r, {}, n) = Waiters(s, {t}, n)
  BY <1>3, <1>4 DEF Waiters
<1>6. Queues(r, {})
  BY <1>1, <1>3, <1>5 DEF Queues
<1>7. Ordered(r)
  <2>1. ASSUME NEW n \in Mutexes, r.mtxcb[n].mtxatr # "TFIFO"
        PROVE  InOrder(r.mtxcb[n].wait_queue, priority(r))
    <3>1. PICK v, W : v = s.mtxcb[n].wait_queue /\ W = Waiters(s, {t}, n)
      OBVIOUS
    <3>2. Lists(v, W) /\ InOrder(v, priority(s))
      BY <1>1, <1>3, <2>1, <3>1 DEF Queues, Ordered
    <3>3. \A u \in W : priority(r)[u] = priority(s)[u]
      BY <1>3, <3>1 DEF Waiters, priority
    <3>4. InOrder(v, priority(r))
      BY <3>2, <3>3, SameOrder
    <3> QED BY <1>3, <3>1, <3>4
  <2> QED BY <2>1 DEF Ordered
<1>8. Graph(r)
  <2>1. ASSUME NEW u \in Tasks, u # t, Waits(s, u)
        PROVE  OwnerOf(r, u) = OwnerOf(s, u)
    BY <1>3, <2>1 DEF OwnerOf
  <2>2. ASSUME NEW S \in SUBSET Tasks, Closed(s, S) PROVE Closed(r, S)
    BY <1>4, <2>1, <2>2 DEF Closed
  <2>3. ASSUME NEW u \in Tasks, Waits(r, u)
        PROVE  /\ r.tcb[u].wid \in Mutexes
               /\ \E S \in SUBSET (Tasks \ {u}) : OwnerOf(r, u) \in S /\ Closed(r, S)
    <3>1. u # t /\ Waits(s, u) /\ r.tcb[u] = s.tcb[u]
      BY <1>3, <1>4, <2>3
    <3>2. PICK S \in SUBSET (Tasks \ {u}) : OwnerOf(s, u) \in S /\ Closed(s, S)
      BY <1>1, <3>1 DEF Graph
    <3>3. Closed(r, S)
      BY <2>2, <3>2
    <3> QED BY <1>1, <2>1, <3>1, <3>2, <3>3 DEF Graph
  <2>4. ASSUME NEW u \in Tasks, ~Waits(r, u) PROVE r.tcb[u].wid = NULL
    <3>1. CASE u = t
      BY <1>2, <1>3, <3>1
    <3>2. CASE u # t
      BY <1>1, <1>3, <1>4, <2>4, <3>2 DEF Graph
    <3> QED BY <3>1, <3>2
  <2> QED BY <2>3, <2>4 DEF Graph
<1>9. Owned(r, {}, {})
  <2>1. ASSUME NEW u \in Tasks
        PROVE  /\ Lists(r.tcb[u].mtxlist, {n \in Mutexes \ {} : r.mtxcb[n].mtxtsk = u})
               /\ r.tcb[u].mtxlist # << >> => r.tcb[u].state # "DORMANT"
    <3>1. CASE u = t
      <4>1. {n \in Mutexes \ {} : r.mtxcb[n].mtxtsk = u} = {}
        BY <1>3, <3>1
      <4>2. r.tcb[u].mtxlist = << >>
        BY <1>2, <1>3, <3>1
      <4> QED BY <4>1, <4>2, NothingListed
    <3>2. CASE u # t
      <4>1. /\ Lists(s.tcb[u].mtxlist, {n \in Mutexes \ {} : s.mtxcb[n].mtxtsk = u})
            /\ s.tcb[u].mtxlist # << >> => s.tcb[u].state # "DORMANT"
        BY <1>1, <3>2 DEF Owned
      <4>2. r.tcb[u] = s.tcb[u]
        BY <1>3, <3>2
      <4> QED BY <1>3, <4>1, <4>2
    <3> QED BY <3>1, <3>2
  <2> QED BY <2>1 DEF Owned
<1>10. Created(r)
  BY <1>1, <1>3 DEF Created
<1>11. Obeyed(r, {})
  <2>1. ASSUME NEW u \in Tasks, NEW n \in Mutexes,
               n \in Range(r.tcb[u].mtxlist) \/ n = r.tcb[u].wid,
               r.mtxcb[n].mtxatr = "CEILING"
        PROVE  r.tcb[u].bpriority >= r.mtxcb[n].ceilpri
    <3>1. u # t
      BY <1>2, <1>3, <2>1, MtxAssumption
    <3>2. r.tcb[u] = s.tcb[u] /\ u \in Tasks \ {t}
      BY <1>3, <3>1
    <3> QED BY <1>1, <1>3, <2>1, <3>2 DEF Obeyed
  <2> QED BY <2>1 DEF Obeyed
<1>12. Sound(r, {}, {})
  BY <1>3, <1>6, <1>7, <1>8, <1>9, <1>10, <1>11 DEF Sound
<1>13. ASSUME NEW u \in Tasks PROVE RightOf(r, {}, None, u)
  <2>1. CASE u = t
    <3>1. r.tcb[u] = b /\ None[u] = {}
      BY <1>3, <2>1 DEF None
    <3>2. Needs(r, {}, None, u) = {p}
      BY <1>2, <3>1 DEF Needs
    <3>3. Lowest(p, {p})
      BY PriFacts DEF Lowest
    <3> QED BY <1>2, <3>1, <3>2, <3>3 DEF RightOf
  <2>2. CASE u # t
    <3>1. \A n \in Mutexes : Asked(r, {}, n) = Asked(s, {t}, n)
      <4>1. \A n \in Mutexes : \A w \in Waiters(s, {t}, n) : r.tcb[w].priority = s.tcb[w].priority
        BY <1>3 DEF Waiters
      <4>2. ASSUME NEW n \in Mutexes PROVE Asked(r, {}, n) = Asked(s, {t}, n)
        <5>1. PICK W : W = Waiters(s, {t}, n)
          OBVIOUS
        <5>2. Waiters(r, {}, n) = W /\ \A w \in W : r.tcb[w].priority = s.tcb[w].priority
          BY <1>5, <4>1, <5>1
        <5> QED BY <1>3, <5>1, <5>2 DEF Asked
      <4> QED BY <4>2
    <3>2. r.tcb[u] = s.tcb[u] /\ u \in Tasks \ {t}
      BY <1>3, <2>2
    <3>3. Range(s.tcb[u].mtxlist) \subseteq Mutexes
      <4>1. s.tcb[u].mtxlist \in Seq(Mutexes)
        BY <1>1, BlockTypes
      <4> QED BY <4>1, RangeOfSeq
    <3>4. Needs(r, {}, None, u) = Needs(s, {t}, None, u)
      BY <3>1, <3>2, <3>3 DEF Needs
    <3>5. RightOf(s, {t}, None, u)
      BY <3>2 DEF Right
    <3> QED BY <3>2, <3>4, <3>5 DEF RightOf
  <2> QED BY <2>1, <2>2
<1> QED BY <1>3, <1>12, <1>13 DEF Good, Right

LEMMA Terminates ==
  ASSUME NEW s, Good(s), NEW t \in Tasks, NEW p \in Pri, NEW q, q = end_wait(s, t),
         NEW z, z = signal_all_mutex(q, t), NEW b, b = gone(p), NEW r, r = putTask(z, t, b)
  PROVE  Goes(r, s)
<1>1. s \in Blocks /\ Graph(s) /\ Owned(s, {}, {})
  BY DEF Good, Sound
<1>2. Quits(q, s, t)
  BY WaitEnds, NoWaitEnds
<1>3. PICK X, D, M : X = {t} /\ D = {} /\ M = {n \in Mutexes : q.mtxcb[n].mtxtsk = t}
  OBVIOUS
<1>4. \A n \in Mutexes : /\ q.mtxcb[n].mtxtsk = s.mtxcb[n].mtxtsk
                         /\ q.mtxcb[n].mtxatr = s.mtxcb[n].mtxatr
  BY <1>2 DEF Quits
<1>5. Lists(q.tcb[t].mtxlist, M)
  <2>1. Lists(s.tcb[t].mtxlist, {n \in Mutexes \ {} : s.mtxcb[n].mtxtsk = t})
    BY <1>1 DEF Owned
  <2>2. {n \in Mutexes \ {} : s.mtxcb[n].mtxtsk = t} = M
    BY <1>3, <1>4
  <2> QED BY <1>2, <2>1, <2>2 DEF Quits
<1>6. q.tcb[t].wid \notin M
  <2>1. q.tcb[t].wid = s.tcb[t].wid
    BY <1>2 DEF Quits
  <2>2. CASE Waits(s, t)
    <3>1. s.mtxcb[s.tcb[t].wid].mtxtsk # t
      BY <1>1, <2>2, OwnerOther DEF OwnerOf
    <3> QED BY <1>3, <1>4, <2>1, <3>1
  <2>3. CASE ~Waits(s, t)
    <3>1. s.tcb[t].wid = NULL
      BY <1>1, <2>3 DEF Graph
    <3> QED BY <1>3, <2>1, <3>1, MtxAssumption
  <2> QED BY <2>2, <2>3
<1>7. HandsOn(z, q, t, M)
  <2>1. Sound(q, {t}, {}) /\ Right(q, {t}, None) /\ q.chain = << >>
    BY <1>2 DEF Quits
  <2> QED BY <1>3, <1>5, <1>6, <2>1, SignalAll
<1>8. /\ Sound(z, {t}, {}) /\ Right(z, {t}, None) /\ z.chain = << >> /\ Passed(z, q, M)
      /\ \A n \in M : q.mtxcb[n].wait_queue # << >> =>
                        Head(q.mtxcb[n].wait_queue) \in Tasks \ {t}
  BY <1>7 DEF HandsOn
<1>9. ASSUME NEW n \in Mutexes PROVE z.mtxcb[n].mtxtsk # t
  <2>1. CASE n \in M
    BY <1>8, <2>1, MtxAssumption DEF Passed
  <2>2. CASE n \notin M
    BY <1>3, <1>8, <2>2 DEF Passed
  <2> QED BY <2>1, <2>2
<1>10. Good(r) /\ r.mtxcb = z.mtxcb /\ \A u \in Tasks : u # t => r.tcb[u] = z.tcb[u]
  BY <1>8, <1>9, Ends
<1>11. PassesOn(s, z)
  <2>1. Sound(q, X, D) /\ M \in SUBSET Mutexes
    BY <1>2, <1>3 DEF Quits
  <2>2. \A n \in M : /\ q.mtxcb[n].wait_queue = s.mtxcb[n].wait_queue
                     /\ \A u \in Waiters(q, X, n) : q.tcb[u].priority = s.tcb[u].priority
    BY <1>2, <1>3, <1>4 DEF Quits
  <2> QED BY <1>4, <1>8, <2>1, <2>2, FirstServed
<1>12. PassesOn(s, r)
  <2>1. ASSUME NEW n \in Mutexes
        PROVE  \A u \in Range(z.mtxcb[n].wait_queue) : r.tcb[u].priority = z.tcb[u].priority
    <3>1. Range(z.mtxcb[n].wait_queue) = Waiters(z, {t}, n)
      BY <1>8 DEF Sound, Queues, Lists
    <3> QED BY <1>10, <3>1 DEF Waiters
  <2> QED BY <1>10, <1>11, <2>1 DEF PassesOn
<1> QED BY <1>10, <1>12 DEF Goes
---------------------------------------------------------------------------
(* The module. *)

MtxInv == Good(Now)

LEMMA Reached ==
  ASSUME NEW s, s = Now, NEW r, Goes(r, s), Becomes(r)
  PROVE  MtxInv' /\ PassesOn(Now, Now')
<1>1. r \in Blocks
  BY DEF Goes, Good, Sound
<1>2. r = [tcb |-> tcb', mtxcb |-> mtxcb', chain |-> chain']
  BY <1>1, BlockTypes DEF Becomes
<1>3. r = Now'
  BY <1>2 DEF Now
<1>4. Good(r) /\ PassesOn(s, r)
  BY DEF Goes
<1>5. MtxInv'
  BY <1>3, <1>4 DEF MtxInv
<1>6. PassesOn(Now, Now')
  BY <1>3, <1>4
<1> QED BY <1>5, <1>6
\* The blocks as they are now become such as can come next.
Proceeds(s) == \E r : Goes(r, s) /\ Becomes(r)

LEMMA Fields == Now.tcb = tcb /\ Now.mtxcb = mtxcb /\ Now.chain = chain
BY DEF Now

\* A new control block for a mutex, that nobody owns or waits for.
LEMMA CreStep ==
  ASSUME NEW s, s = Now, Good(s), NEW m \in Mutexes,
         NEW atr \in {"TFIFO", "TPRI", "INHERIT", "CEILING"}, NEW ceilpri \in Pri,
         tk_cre_mtx(m, atr, ceilpri)
  PROVE  Proceeds(s)
<1>1. s.tcb = tcb /\ s.mtxcb = mtxcb /\ s.chain = chain /\ s \in Blocks
  BY Fields DEF Good, Sound
<1>2. PICK e : e = << >>
  OBVIOUS
<1>3. e \in Seq(Tasks)
  BY <1>2
<1>4. PICK b : b = [ mtxid |-> TRUE, mtxatr |-> atr, ceilpri |-> ceilpri,
                     mtxtsk |-> NULL, wait_queue |-> e ]
  OBVIOUS
<1>5. b \in MTXCB /\ b.mtxtsk = NULL /\ b.wait_queue = << >>
  BY <1>2, <1>3, <1>4 DEF MTXCB
<1>6. PICK r : r = putMutex(s, m, b)
  OBVIOUS
<1>7. ~s.mtxcb[m].mtxid
  BY <1>1 DEF tk_cre_mtx
<1>8. Goes(r, s)
  BY <1>5, <1>6, <1>7, Creates
<1>9. r = [tcb |-> s.tcb, mtxcb |-> [s.mtxcb EXCEPT ![m] = b], chain |-> s.chain]
  BY <1>1, <1>6 DEF putMutex, Blocks
<1>10. Becomes(r)
  BY <1>1, <1>2, <1>4, <1>9 DEF tk_cre_mtx, Becomes
<1> QED BY <1>8, <1>10 DEF Proceeds

LEMMA DelStep ==
  ASSUME NEW s, s = Now, Good(s), NEW m \in Mutexes, tk_del_mtx(m)
  PROVE  Proceeds(s)
<1>1. s.tcb = tcb /\ s.mtxcb = mtxcb
  BY Fields
<1>2. PICK q : q = IF s.mtxcb[m].mtxtsk = NULL THEN s
                   ELSE release_mutex(s, s.mtxcb[m].mtxtsk, m)
  OBVIOUS
<1>3. PICK r : r = putMutex(wait_delete(q, m), m, Unused)
  OBVIOUS
<1>4. Goes(r, s)
  BY <1>1, <1>2, <1>3, Deletes DEF tk_del_mtx
<1>5. Becomes(r)
  BY <1>1, <1>2, <1>3 DEF tk_del_mtx, putMutex
<1> QED BY <1>4, <1>5 DEF Proceeds

LEMMA LocStep ==
  ASSUME NEW s, s = Now, Good(s), ~Deadlocks, NEW t \in Tasks, NEW m \in Mutexes,
         tk_loc_mtx_u(t, m)
  PROVE  Proceeds(s)
<1>1. s.tcb = tcb /\ s.mtxcb = mtxcb /\ s \in Blocks
  BY Fields DEF Good, Sound
<1>2. /\ s.tcb[t].state = "READY" /\ s.mtxcb[m].mtxid /\ s.mtxcb[m].mtxtsk # t
      /\ s.mtxcb[m].mtxatr = "CEILING" => s.tcb[t].bpriority >= s.mtxcb[m].ceilpri
  BY <1>1 DEF tk_loc_mtx_u
<1>3. CASE s.mtxcb[m].mtxtsk = NULL
  <2>1. PICK r : r = own(s, t, m)
    OBVIOUS
  <2>2. Goes(r, s)
    BY <1>2, <1>3, <2>1, Locks
  <2>3. Becomes(r)
    BY <1>1, <1>3, <2>1 DEF tk_loc_mtx_u
  <2> QED BY <2>2, <2>3 DEF Proceeds
<1>4. CASE s.mtxcb[m].mtxtsk # NULL
  <2>1. PICK o : o = s.mtxcb[m].mtxtsk
    OBVIOUS
  <2>2. o \in Tasks
    BY <1>1, <1>4, <2>1, BlockTypes
  <2>3. PICK S \in SUBSET (Tasks \ {t}) : o \in S /\ Closed(s, S)
    <3>1. ~cycle(t, m)
      BY <1>1, <1>4 DEF tk_loc_mtx_u
    <3>2. PICK S \in SUBSET Tasks : mtxcb[m].mtxtsk \in S /\ closed(S) /\ t \notin S
      BY <3>1 DEF cycle
    <3>3. Closed(s, S)
      BY <1>1, <3>2 DEF closed, Closed, Waits, OwnerOf
    <3> QED BY <1>1, <2>1, <3>2, <3>3
  <2>4. PICK q, r : q = raise_owner(s, t, m) /\ r = make_wait(q, t, m)
    OBVIOUS
  <2>5. Goes(r, s)
    BY <1>2, <2>1, <2>2, <2>3, <2>4, LocksLater
  <2>6. Becomes(r)
    BY <1>1, <1>4, <2>4 DEF tk_loc_mtx_u
  <2> QED BY <2>5, <2>6 DEF Proceeds
<1> QED BY <1>3, <1>4

LEMMA UnlStep ==
  ASSUME NEW s, s = Now, Good(s), NEW t \in Tasks, NEW m \in Mutexes, tk_unl_mtx(t, m)
  PROVE  Proceeds(s)
<1>1. s.tcb[t].state = "READY" /\ s.mtxcb[m].mtxid /\ s.mtxcb[m].mtxtsk = t
  BY Fields DEF tk_unl_mtx
<1>2. PICK r : r = hand_over(release_mutex(s, t, m), m)
  OBVIOUS
<1>3. Goes(r, s)
  BY <1>1, <1>2, Unlocks
<1>4. Becomes(r)
  BY <1>2 DEF tk_unl_mtx
<1> QED BY <1>3, <1>4 DEF Proceeds

LEMMA ReleaseStep ==
  ASSUME NEW s, s = Now, Good(s), NEW t \in Tasks, release_wait(t)
  PROVE  Proceeds(s)
<1>1. s.tcb = tcb /\ s.tcb[t].state = "WAIT"
  BY Fields DEF release_wait
<1>2. PICK m, r : m = s.tcb[t].wid /\ r = mtx_rel_wai(wait_release(s, t), t, m)
  OBVIOUS
<1>3. Goes(r, s)
  BY <1>1, <1>2, Leaves
<1>4. Becomes(r)
  BY <1>1, <1>2 DEF release_wait
<1> QED BY <1>3, <1>4 DEF Proceeds

LEMMA TerStep ==
  ASSUME NEW s, s = Now, Good(s), NEW t \in Tasks, tk_ter_tsk(t)
  PROVE  Proceeds(s)
<1>1. PICK p \in Pri : Becomes([signal_all_mutex(end_wait(s, t), t) EXCEPT !.tcb[t] = gone(p)])
  BY DEF tk_ter_tsk, gone
<1>2. PICK q, z, b : q = end_wait(s, t) /\ z = signal_all_mutex(q, t) /\ b = gone(p)
  OBVIOUS
<1>3. PICK r : r = putTask(z, t, b)
  OBVIOUS
<1>4. Goes(r, s)
  BY <1>2, <1>3, Terminates
<1>5. Becomes(r)
  BY <1>1, <1>2, <1>3 DEF putTask
<1> QED BY <1>4, <1>5 DEF Proceeds

LEMMA StaStep ==
  ASSUME NEW s, s = Now, Good(s), NEW t \in Tasks, tk_sta_tsk(t)
  PROVE  Proceeds(s)
<1>1. s.tcb = tcb /\ s.mtxcb = mtxcb /\ s.chain = chain /\ s \in Blocks
  BY Fields DEF Good, Sound
<1>2. s.tcb[t].state = "DORMANT"
  BY <1>1 DEF tk_sta_tsk
<1>3. PICK b : b = started(s, t)
  OBVIOUS
<1>4. PICK r : r = putTask(s, t, b)
  OBVIOUS
<1>5. Goes(r, s)
  BY <1>2, <1>3, <1>4, Starts
<1>6. r = [tcb |-> [s.tcb EXCEPT ![t] = b], mtxcb |-> s.mtxcb, chain |-> s.chain]
  BY <1>1, <1>4 DEF putTask, Blocks
<1>7. tcb' = [tcb EXCEPT ![t] = b]
  BY <1>1, <1>3 DEF tk_sta_tsk, started
<1>8. Becomes(r)
  BY <1>1, <1>6, <1>7 DEF tk_sta_tsk, Becomes
<1> QED BY <1>5, <1>8 DEF Proceeds

LEMMA ChgStep ==
  ASSUME NEW s, s = Now, Good(s), NEW t \in Tasks, NEW p \in Pri, tk_chg_pri(t, p)
  PROVE  Proceeds(s)
<1>1. s.tcb = tcb /\ s.mtxcb = mtxcb /\ s.chain = chain /\ s \in Blocks
  BY Fields DEF Good, Sound
<1>2. ASSUME NEW m \in Mutexes, m \in Range(s.tcb[t].mtxlist) \/ m = s.tcb[t].wid,
             s.mtxcb[m].mtxatr = "CEILING"
      PROVE  p >= s.mtxcb[m].ceilpri
  <2>1. m # NULL
    BY MtxAssumption
  <2>2. m \in ceilings(t)
    BY <1>1, <1>2, <2>1 DEF ceilings
  <2> QED BY <1>1, <2>2 DEF tk_chg_pri, chg_pri_mutex
<1>3. PICK b : b = based(s, t, p)
  OBVIOUS
<1>4. PICK q : q = putTask(s, t, b)
  OBVIOUS
<1>5. PICK r : r = set_priority(q, t, highest(s, t, p))
  OBVIOUS
<1>6. Goes(r, s)
  BY <1>2, <1>3, <1>4, <1>5, Rebases
<1>7. q = [s EXCEPT !.tcb[t].bpriority = p]
  <2>1. s.tcb \in [Tasks -> TCB]
    BY <1>1, BlockTypes
  <2> QED BY <1>1, <1>3, <1>4, <2>1 DEF putTask, based
<1>8. Becomes(r)
  BY <1>5, <1>7 DEF tk_chg_pri
<1> QED BY <1>6, <1>8 DEF Proceeds
---------------------------------------------------------------------------

\* All tasks begin READY, with nothing.
LEMMA Begins ==
  ASSUME MtxInit
  PROVE  MtxInv
<1>1. PICK s : s = Now
  OBVIOUS
<1>2. s.tcb = tcb /\ s.mtxcb = mtxcb /\ s.chain = << >>
      /\ s = [tcb |-> tcb, mtxcb |-> mtxcb, chain |-> chain] /\ chain = << >>
  BY <1>1 DEF Now, MtxInit
<1>3. PICK e : e = << >>
  OBVIOUS
<1>4. /\ e \in Seq(Mutexes) /\ e \in Seq(Tasks) /\ Range(e) = {}
      /\ e \in Seq([tcb : Tasks, pri : Pri])
  <2>1. /\ e \in Seq(Mutexes) /\ e \in Seq(Tasks) /\ Len(e) = 0
        /\ e \in Seq([tcb : Tasks, pri : Pri])
    BY <1>3
  <2>2. DOMAIN e = {}
    BY <2>1
  <2> QED BY <2>1, <2>2 DEF Range
<1>5. ASSUME NEW t \in Tasks
      PROVE  /\ s.tcb[t] \in TCB /\ s.tcb[t].state = "READY" /\ s.tcb[t].wid = NULL
             /\ s.tcb[t].mtxlist = e /\ s.tcb[t].bpriority = s.tcb[t].priority
  <2>1. PICK p \in Pri : tcb[t] = [ state |-> "READY", priority |-> p, bpriority |-> p,
                                    wid |-> NULL, mtxlist |-> e ]
    BY <1>3 DEF MtxInit
  <2> QED BY <1>2, <1>4, <2>1 DEF TCB, TSTAT
<1>6. ASSUME NEW m \in Mutexes
      PROVE  /\ s.mtxcb[m] \in MTXCB /\ s.mtxcb[m].mtxatr = "TFIFO"
             /\ s.mtxcb[m].mtxtsk = NULL /\ s.mtxcb[m].wait_queue = e
  <2>1. s.mtxcb[m] = [ mtxid |-> FALSE, mtxatr |-> "TFIFO", ceilpri |-> 0, mtxtsk |-> NULL,
                       wait_queue |-> e ]
    BY <1>2, <1>3 DEF MtxInit, Unused
  <2> QED BY <1>4, <2>1, PriFacts DEF MTXCB
<1>7. s \in Blocks
  <2>1. \E S : tcb \in [Tasks -> S]
    BY DEF MtxInit
  <2>2. tcb = [t \in Tasks |-> tcb[t]]
    BY <2>1
  <2>3. tcb \in [Tasks -> TCB]
    BY <1>2, <1>5, <2>2
  <2>4. mtxcb \in [Mutexes -> MTXCB]
    <3>1. mtxcb = [m \in Mutexes |-> Unused]
      BY DEF MtxInit
    <3>2. \A m \in Mutexes : Unused \in MTXCB
      BY <1>2, <1>6, <3>1
    <3> QED BY <3>1, <3>2
  <2> QED BY <1>2, <1>3, <1>4, <2>3, <2>4 DEF Blocks
<1>8. \A t \in Tasks : ~Waits(s, t)
  BY <1>5 DEF Waits
<1>9. Lists(e, {})
  BY <1>3, NothingListed
<1>10. Queues(s, {})
  <2>1. \A m \in Mutexes : Waiters(s, {}, m) = {}
    BY <1>8 DEF Waiters
  <2> QED BY <1>6, <1>9, <2>1 DEF Queues
<1>11. Ordered(s) /\ Graph(s) /\ Created(s)
  BY <1>5, <1>6, <1>8 DEF Ordered, Graph, Created
<1>12. Owned(s, {}, {})
  <2>1. ASSUME NEW t \in Tasks PROVE {m \in Mutexes \ {} : s.mtxcb[m].mtxtsk = t} = {}
    BY <1>6, MtxAssumption
  <2> QED BY <1>3, <1>5, <1>9, <2>1 DEF Owned
<1>13. Obeyed(s, {})
  BY <1>6 DEF Obeyed
<1>14. ASSUME NEW t \in Tasks PROVE RightOf(s, {}, None, t)
  <2>1. s.tcb[t].priority \in Pri /\ None[t] = {}
    BY <1>7, BlockTypes DEF None
  <2>2. Needs(s, {}, None, t) = {s.tcb[t].priority}
    BY <1>4, <1>5, <2>1 DEF Needs
  <2>3. Lowest(s.tcb[t].priority, {s.tcb[t].priority})
    <3>1. s.tcb[t].priority \in Int
      BY <2>1, PriFacts
    <3> QED BY <3>1 DEF Lowest
  <2> QED BY <2>2, <2>3 DEF RightOf
<1>15. Good(s)
  BY <1>2, <1>7, <1>10, <1>11, <1>12, <1>13, <1>14 DEF Good, Sound, Right
<1> QED BY <1>1, <1>15 DEF MtxInv

\* A step keeps the invariant and passes the mutexes on in turn.
LEMMA MtxStep ==
  ASSUME ~Deadlocks, MtxInv, [MtxNext]_vars
  PROVE  MtxInv' /\ PassesOn(Now, Now')
<1>1. PICK s : s = Now
  OBVIOUS
<1>2. Good(s)
  BY <1>1 DEF MtxInv
<1>3. CASE MtxNext
  <2>1. Proceeds(s)
    <3>1. ASSUME NEW m \in Mutexes, NEW atr \in {"TFIFO", "TPRI", "INHERIT"},
                 tk_cre_mtx(m, atr, 0)
          PROVE  Proceeds(s)
      BY <1>1, <1>2, <3>1, PriFacts, CreStep
    <3>2. ASSUME NEW m \in Mutexes, NEW ceilpri \in Pri, tk_cre_mtx(m, "CEILING", ceilpri)
          PROVE  Proceeds(s)
      BY <1>1, <1>2, <3>2, CreStep
    <3>3. ASSUME NEW m \in Mutexes, tk_del_mtx(m) PROVE Proceeds(s)
      BY <1>1, <1>2, <3>3, DelStep
    <3>4. ASSUME NEW t \in Tasks, NEW m \in Mutexes, tk_loc_mtx_u(t, m) PROVE Proceeds(s)
      BY <1>1, <1>2, <3>4, LocStep
    <3>5. ASSUME NEW t \in Tasks, NEW m \in Mutexes, tk_unl_mtx(t, m) PROVE Proceeds(s)
      BY <1>1, <1>2, <3>5, UnlStep
    <3>6. ASSUME NEW t \in Tasks, release_wait(t) PROVE Proceeds(s)
      BY <1>1, <1>2, <3>6, ReleaseStep
    <3>7. ASSUME NEW t \in Tasks, tk_sta_tsk(t) PROVE Proceeds(s)
      BY <1>1, <1>2, <3>7, StaStep
    <3>8. ASSUME NEW t \in Tasks, NEW p \in Pri, tk_chg_pri(t, p) PROVE Proceeds(s)
      BY <1>1, <1>2, <3>8, ChgStep
    <3>9. ASSUME NEW t \in Tasks, tk_ter_tsk(t) PROVE Proceeds(s)
      BY <1>1, <1>2, <3>9, TerStep
    <3> QED BY <1>3, <3>1, <3>2, <3>3, <3>4, <3>5, <3>6, <3>7, <3>8, <3>9 DEF MtxNext, TaskStep
  <2>2. PICK r : Goes(r, s) /\ Becomes(r)
    BY <2>1 DEF Proceeds
  <2> QED BY <1>1, <2>2, Reached
<1>4. CASE UNCHANGED vars
  <2>1. Now' = Now
    BY <1>4 DEF vars, Now
  <2>2. MtxInv'
    BY <1>1, <1>2, <2>1 DEF MtxInv
  <2>3. PassesOn(s, s)
    BY SameOwners
  <2> QED BY <1>1, <2>1, <2>2, <2>3
<1> QED BY <1>3, <1>4

LEMMA InvOwnership ==
  ASSUME MtxInv
  PROVE  OwnershipAgrees
<1>1. PICK s : s = Now
  OBVIOUS
<1>2. s.tcb = tcb /\ s.mtxcb = mtxcb
  BY <1>1, Fields
<1>3. s \in Blocks /\ Queues(s, {}) /\ Graph(s) /\ Owned(s, {}, {})
  BY <1>1 DEF MtxInv, Good, Sound
<1>4. ASSUME NEW t \in Tasks
      PROVE  /\ IsInjective(tcb[t].mtxlist)
             /\ Range(tcb[t].mtxlist) = {m \in Mutexes : mtxcb[m].mtxtsk = t}
             /\ tcb[t].mtxlist # << >> => alive(t)
  <2>1. /\ Lists(s.tcb[t].mtxlist, {m \in Mutexes \ {} : s.mtxcb[m].mtxtsk = t})
        /\ s.tcb[t].mtxlist # << >> => s.tcb[t].state # "DORMANT"
    BY <1>3 DEF Owned
  <2>2. {m \in Mutexes \ {} : s.mtxcb[m].mtxtsk = t} = {m \in Mutexes : mtxcb[m].mtxtsk = t}
    BY <1>2
  <2> QED BY <1>2, <2>1, <2>2 DEF Lists, alive
<1>5. ASSUME NEW t \in Tasks, tcb[t].state = "WAIT"
      PROVE  mtxcb[tcb[t].wid].mtxtsk \in Tasks \ {t}
  <2>1. Waits(s, t)
    BY <1>2, <1>5 DEF Waits
  <2>2. OwnerOf(s, t) \in Tasks \ {t}
    BY <1>3, <2>1, OwnerOther
  <2> QED BY <1>2, <2>2 DEF OwnerOf
<1>6. ASSUME NEW m \in Mutexes
      PROVE  /\ IsInjective(mtxcb[m].wait_queue)
             /\ Range(mtxcb[m].wait_queue) = {t \in Tasks : tcb[t].state = "WAIT" /\ tcb[t].wid = m}
  <2>1. Lists(s.mtxcb[m].wait_queue, Waiters(s, {}, m))
    BY <1>3 DEF Queues
  <2>2. Waiters(s, {}, m) = {t \in Tasks : tcb[t].state = "WAIT" /\ tcb[t].wid = m}
    BY <1>2 DEF Waiters, Waits
  <2> QED BY <1>2, <2>1, <2>2 DEF Lists
<1> QED BY <1>4, <1>5, <1>6 DEF OwnershipAgrees, ListsAgree, QueuesAgree

LEMMA InvPriority ==
  ASSUME MtxInv
  PROVE  PriorityIsHighest
<1>1. PICK s : s = Now
  OBVIOUS
<1>2. s.tcb = tcb /\ s.mtxcb = mtxcb
  BY <1>1, Fields
<1>3. /\ s \in Blocks /\ Queues(s, {}) /\ Ordered(s) /\ Obeyed(s, {})
      /\ \A t \in Tasks : RightOf(s, {}, None, t)
  BY <1>1 DEF MtxInv, Good, Sound, Right
<1>4. ASSUME NEW t \in Tasks
      PROVE  tcb[t].priority = highest(Now, t, tcb[t].bpriority)
  <2>1. PICK p, h : p = s.tcb[t].bpriority /\ h = highest(s, t, p)
    OBVIOUS
  <2>2. p \in Pri
    BY <1>3, <2>1, BlockTypes
  <2>3. PICK N : N = {y \in Pri : \/ y = p
                                  \/ \E m \in Range(s.tcb[t].mtxlist) : y \in Asked(s, {}, m)}
    OBVIOUS
  <2>4. Lowest(h, N)
    BY <1>3, <2>1, <2>2, <2>3, HighestLowest
  <2>5. Lowest(s.tcb[t].priority, N)
    <3>1. None[t] = {}
      BY DEF None
    <3>2. Needs(s, {}, None, t) = N
      BY <2>1, <2>3, <3>1 DEF Needs
    <3> QED BY <1>3, <3>2 DEF RightOf
  <2>6. s.tcb[t].priority = h
    BY <2>3, <2>4, <2>5, LowestOnce
  <2> QED BY <1>1, <1>2, <2>1, <2>6
<1>5. QueuesInPriorityOrder
  <2>1. ASSUME NEW m \in Mutexes, mtxcb[m].mtxatr # "TFIFO",
               NEW q, q = mtxcb[m].wait_queue, NEW i \in 1 .. Len(q) - 1
        PROVE  tcb[q[i]].priority <= tcb[q[i + 1]].priority
    <3>1. InOrder(q, priority(s)) /\ Lists(q, Waiters(s, {}, m))
      BY <1>2, <1>3, <2>1 DEF Ordered, Queues
    <3>2. /\ Len(q) \in Nat /\ \A k \in 1 .. Len(q) : q[k] \in Waiters(s, {}, m)
      BY <3>1, ListsPlaces
    <3>3. PICK j : j = i + 1
      OBVIOUS
    <3>4. i \in 1 .. Len(q) /\ j \in 1 .. Len(q) /\ i < j
      BY <2>1, <3>2, <3>3
    <3>5. q[i] \in Tasks /\ q[j] \in Tasks
      BY <3>2, <3>4 DEF Waiters
    <3>6. priority(s)[q[i]] <= priority(s)[q[j]]
      BY <3>1, <3>4 DEF InOrder
    <3> QED BY <1>2, <3>3, <3>5, <3>6 DEF priority
  <2> QED BY <2>1 DEF QueuesInPriorityOrder
<1>6. CeilingsObeyed
  <2>1. ASSUME NEW t \in Tasks, NEW m \in ceilings(t)
        PROVE  tcb[t].bpriority >= mtxcb[m].ceilpri
    <3>1. /\ m \in Range(s.tcb[t].mtxlist) \/ m = s.tcb[t].wid
          /\ m # NULL \/ m \in Range(s.tcb[t].mtxlist)
          /\ s.mtxcb[m].mtxatr = "CEILING"
      BY <1>2, <2>1 DEF ceilings
    <3>2. m \in Mutexes
      <4>1. s.tcb[t].mtxlist \in Seq(Mutexes) /\ s.tcb[t].wid \in Mutexes \cup {NULL}
        BY <1>3, BlockTypes
      <4>2. Range(s.tcb[t].mtxlist) \subseteq Mutexes
        BY <4>1, RangeOfSeq
      <4> QED BY <3>1, <4>1, <4>2
    <3> QED BY <1>2, <1>3, <3>1, <3>2 DEF Obeyed
  <2> QED BY <2>1 DEF CeilingsObeyed
<1> QED BY <1>4, <1>5, <1>6 DEF PriorityIsHighest

\* The inductive invariant, for any tasks, mutexes and number of priorities,
\* where the tasks lock in orders that close no cycle: the queues hold who
\* waits, in the order of the priorities; the owners of what tasks wait for lead
\* back to none of them; every task has the priority it needs.
THEOREM MutexInvariant ==
  ASSUME ~Deadlocks
  PROVE  MtxSpec => []MtxInv
<1>1. MtxInit => MtxInv
  BY Begins
<1>2. MtxInv /\ [MtxNext]_vars => MtxInv'
  BY MtxStep
<1> QED BY <1>1, <1>2, PTL DEF MtxSpec

\* mutex.c:163, 290, 373: the owner of a mutex has it on its list, and nobody
\* else does; the tasks in a queue are those that wait for another task's mutex.
THEOREM MutexOwnershipAgrees ==
  ASSUME ~Deadlocks
  PROVE  MtxSpec => []OwnershipAgrees
BY MutexInvariant, InvOwnership, PTL

\* mutex.c:104: at rest a task has the most urgent of its base priority, the
\* ceilings and the first waiters of its mutexes, along chains of any length.
THEOREM MutexPriorityIsHighest ==
  ASSUME ~Deadlocks
  PROVE  MtxSpec => []PriorityIsHighest
BY MutexInvariant, InvPriority, PTL

\* mutex.c:163, 503: a mutex goes to the task that waits first.
THEOREM MutexHandedToFirst ==
  ASSUME ~Deadlocks
  PROVE  MtxSpec => HandedToFirst
<1> DEFINE A == \A m \in Mutexes :
                  LET new == mtxcb'[m].mtxtsk
                  IN mtxcb[m].mtxtsk # NULL /\ new \notin {NULL, mtxcb[m].mtxtsk} =>
                       /\ new \in Range(mtxcb[m].wait_queue)
                       /\ \A u \in Range(mtxcb'[m].wait_queue) :
                            IF mtxcb[m].mtxatr = "TFIFO"
                            THEN \E i, j \in DOMAIN mtxcb[m].wait_queue :
                                   i < j /\ mtxcb[m].wait_queue[i] = new /\ mtxcb[m].wait_queue[j] = u
                            ELSE tcb[new].priority <= tcb'[u].priority
<1>1. MtxInv /\ [MtxNext]_vars => [A]_vars
  <2>1. SUFFICES ASSUME MtxInv, [MtxNext]_vars PROVE PassesOn(Now, Now')
    BY DEF PassesOn, Now
  <2> QED BY <2>1, MtxStep
<1> QED BY <1>1, MutexInvariant, PTL DEF MtxSpec, HandedToFirst

---------------------------------------------------------------------------
(* High-speed locks. *)

In     == {t \in Lockers : at[t] = "in"}
Signal == {t \in Lockers : at[t] = "signal"}
Inside == {t \in Lockers : at[t] \in {"wait", "queued", "in"}}

FastTypes ==
  /\ kind \in {"FastLock", "FastMLock"}
  /\ no \in [Lockers -> Numbers]
  /\ at \in [Lockers -> {"user", "wait", "queued", "in", "signal", "try", "got",
                       "failed", "reset", "set"}]

\* The right to a FastLock is in one place: with the task that holds it, with
\* one that is about to signal, or in the semaphore; and it is nowhere, that
\* is, the lock is free, when cnt is -1.
RightInOnePlace ==
  \/ cnt = -1 /\ sem = 0 /\ In = {} /\ Signal = {}
  \/ cnt \in Nat /\ sem = 1 /\ In = {} /\ Signal = {}
  \/ cnt \in Nat /\ sem = 0 /\ Signal = {} /\ \E t \in Lockers : In = {t}
  \/ cnt \in Nat /\ sem = 0 /\ In = {} /\ \E t \in Lockers : Signal = {t}

\* What holds of a FastLock; cnt counts the tasks that have it or come for it.
FastLockInv ==
  kind = "FastLock" =>
    /\ \A t \in Lockers : no[t] = 0 /\ at[t] \in {"user", "wait", "queued", "in", "signal"}
    /\ RightInOnePlace
    /\ IsFiniteSet(Inside) /\ cnt + 1 = Cardinality(Inside)
    /\ sem = 1 => Queued(0) = {}

\* What holds of a FastMLock: a bit is set while a task has its lock.
FastMLockInv ==
  kind = "FastMLock" =>
    /\ \A t \in Lockers : at[t] # "signal"
    /\ \A n \in Numbers : n \in flg <=> Holders(n) # {}
    /\ \A n \in Numbers : \A t, u \in Holders(n) : t = u

FastInv == FastTypes /\ FastLockInv /\ FastMLockInv

\* Nobody waits in vain: somebody who waits in the kernel for a FastLock waits
\* for a task that has the lock or is about to signal the semaphore.
NoLostSignal ==
  kind = "FastLock" /\ Queued(0) # {} => In # {} \/ Signal # {}

---------------------------------------------------------------------------

\* A created lock is free.
LEMMA FastInitInv ==
  ASSUME FastLockAssumption, FastInit
  PROVE  FastInv
<1>1. FastTypes
  BY DEF FastInit, FastTypes, FastLockAssumption
<1>2. In = {} /\ Signal = {} /\ Inside = {} /\ Queued(0) = {}
  BY DEF FastInit, In, Signal, Inside, Queued
<1>3. FastLockInv
  BY <1>2, FS_EmptySet DEF FastInit, FastLockInv, RightInOnePlace
<1>4. FastMLockInv
  BY DEF FastInit, FastMLockInv, Holders
<1> QED BY <1>1, <1>3, <1>4 DEF FastInv

\* What the steps of a FastLock know of the state.
LEMMA FastFacts ==
  ASSUME FastInv, kind = "FastLock", NEW t \in Lockers, NEW there,
         there \in {"user", "wait", "queued", "in", "signal"},
         Goto(t, there), UNCHANGED <<kind, no, multi>>
  PROVE  /\ FastTypes' /\ FastMLockInv'
         /\ at' = [at EXCEPT ![t] = there]
         /\ \A u \in Lockers : no'[u] = 0 /\ at'[u] \in {"user", "wait", "queued", "in", "signal"}
         /\ at[t] \notin {"wait", "queued", "in"} /\ there \in {"wait", "queued", "in"}
              => Inside' = Inside \cup {t} /\ t \notin Inside
         /\ at[t] \in {"wait", "queued", "in"} /\ there \notin {"wait", "queued", "in"}
              => Inside' = Inside \ {t} /\ t \in Inside
         /\ (at[t] \in {"wait", "queued", "in"} <=> there \in {"wait", "queued", "in"})
              => Inside' = Inside
         /\ In' = IF there = "in" THEN In \cup {t} ELSE In \ {t}
         /\ Signal' = IF there = "signal" THEN Signal \cup {t} ELSE Signal \ {t}
         /\ Queued(0)' = IF there = "queued" THEN Queued(0) \cup {t} ELSE Queued(0) \ {t}
<1>1. /\ at' = [at EXCEPT ![t] = there] /\ kind' = kind /\ no' = no
      /\ at \in [Lockers -> {"user", "wait", "queued", "in", "signal", "try", "got",
                           "failed", "reset", "set"}]
      /\ no \in [Lockers -> Numbers]
      /\ \A u \in Lockers : no[u] = 0 /\ at[u] \in {"user", "wait", "queued", "in", "signal"}
  BY DEF Goto, FastInv, FastTypes, FastLockInv
<1>2. at'[t] = there /\ \A u \in Lockers \ {t} : at'[u] = at[u]
  BY <1>1
<1>3. FastTypes'
  BY <1>1 DEF FastTypes
<1>4. FastMLockInv'
  BY <1>1 DEF FastMLockInv
<1>5. /\ In' = IF there = "in" THEN In \cup {t} ELSE In \ {t}
      /\ Signal' = IF there = "signal" THEN Signal \cup {t} ELSE Signal \ {t}
  BY <1>2 DEF In, Signal
<1>6. Queued(0)' = IF there = "queued" THEN Queued(0) \cup {t} ELSE Queued(0) \ {t}
  BY <1>1, <1>2 DEF Queued
<1>7. Inside' = IF there \in {"wait", "queued", "in"} THEN Inside \cup {t} ELSE Inside \ {t}
  BY <1>2 DEF Inside
<1>8. t \in Inside <=> at[t] \in {"wait", "queued", "in"}
  BY DEF Inside
<1> QED BY <1>1, <1>2, <1>3, <1>4, <1>5, <1>6, <1>7, <1>8

\* Lock
LEMMA StepLock ==
  ASSUME FastLockAssumption, FastInv, NEW t \in Lockers, Lock(t)
  PROVE  FastInv'
<1> DEFINE there == IF cnt + 1 > 0 THEN "wait" ELSE "in"
<1>1. /\ kind = "FastLock" /\ at[t] = "user" /\ cnt' = cnt + 1
      /\ Goto(t, there) /\ UNCHANGED <<kind, no, sem, multi>>
  BY DEF Lock
<1>2. there \in {"wait", "in"}
  OBVIOUS
<1> HIDE DEF there
<1>3. /\ FastTypes' /\ FastMLockInv'
      /\ \A u \in Lockers : no'[u] = 0 /\ at'[u] \in {"user", "wait", "queued", "in", "signal"}
      /\ Inside' = Inside \cup {t} /\ t \notin Inside
      /\ In' = IF there = "in" THEN In \cup {t} ELSE In \ {t}
      /\ Signal' = Signal \ {t}
      /\ Queued(0)' = Queued(0) \ {t}
  BY <1>1, <1>2, FastFacts
<1>4. /\ RightInOnePlace /\ IsFiniteSet(Inside) /\ cnt + 1 = Cardinality(Inside)
      /\ sem = 1 => Queued(0) = {}
  BY <1>1 DEF FastInv, FastLockInv
<1>5. t \notin In /\ t \notin Signal
  BY <1>1 DEF In, Signal
<1>6. IsFiniteSet(Inside') /\ cnt' + 1 = Cardinality(Inside')
  <2>1. Cardinality(Inside) \in Nat
    BY <1>4, FS_CardinalityType
  <2>2. cnt \in Int
    BY <1>4 DEF RightInOnePlace
  <2> QED BY <1>1, <1>3, <1>4, <2>1, <2>2, FS_AddElement
<1>7. RightInOnePlace'
  <2>1. CASE cnt = -1
    BY <1>1, <1>3, <1>4, <1>5, <2>1 DEF RightInOnePlace, there
  <2>2. CASE cnt \in Nat
    <3>1. there = "wait" /\ cnt' \in Nat
      BY <1>1, <2>2 DEF there
    <3>2. In' = In /\ Signal' = Signal /\ sem' = sem
      BY <1>1, <1>3, <1>5, <3>1
    <3> QED BY <1>4, <2>2, <3>1, <3>2 DEF RightInOnePlace
  <2> QED BY <1>4, <2>1, <2>2 DEF RightInOnePlace
<1> QED BY <1>1, <1>3, <1>4, <1>6, <1>7 DEF FastInv, FastLockInv

\* tk_wai_sem
LEMMA StepWaiSem ==
  ASSUME FastLockAssumption, FastInv, NEW t \in Lockers, tk_wai_sem(t)
  PROVE  FastInv'
<1> DEFINE there == IF sem > 0 THEN "in" ELSE "queued"
<1>1. /\ kind = "FastLock" /\ at[t] = "wait" /\ cnt' = cnt
      /\ sem' = IF sem > 0 THEN sem - 1 ELSE sem
      /\ Goto(t, there) /\ UNCHANGED <<kind, no, multi>>
  BY DEF tk_wai_sem
<1>2. there \in {"in", "queued"}
  OBVIOUS
<1> HIDE DEF there
<1>3. /\ FastTypes' /\ FastMLockInv'
      /\ \A u \in Lockers : no'[u] = 0 /\ at'[u] \in {"user", "wait", "queued", "in", "signal"}
      /\ Inside' = Inside
      /\ In' = IF there = "in" THEN In \cup {t} ELSE In \ {t}
      /\ Signal' = Signal \ {t}
      /\ Queued(0)' = IF there = "queued" THEN Queued(0) \cup {t} ELSE Queued(0) \ {t}
  BY <1>1, <1>2, FastFacts
<1>4. /\ RightInOnePlace /\ IsFiniteSet(Inside) /\ cnt + 1 = Cardinality(Inside)
      /\ sem = 1 => Queued(0) = {}
  BY <1>1 DEF FastInv, FastLockInv
<1>5. t \notin In /\ t \notin Signal /\ t \in Inside
  BY <1>1 DEF In, Signal, Inside
<1>6. cnt \in Nat
  <2>1. Cardinality(Inside) # 0
    BY <1>4, <1>5, FS_EmptySet
  <2> QED BY <1>4, <2>1 DEF RightInOnePlace
<1>7. RightInOnePlace' /\ sem' = 0
  BY <1>1, <1>3, <1>4, <1>5, <1>6 DEF RightInOnePlace, there
<1> QED BY <1>1, <1>3, <1>4, <1>7 DEF FastInv, FastLockInv

\* Unlock
LEMMA StepUnlock ==
  ASSUME FastLockAssumption, FastInv, NEW t \in Lockers, Unlock(t)
  PROVE  FastInv'
<1> DEFINE there == IF cnt > 0 THEN "signal" ELSE "user"
<1>1. /\ kind = "FastLock" /\ at[t] = "in" /\ cnt' = cnt - 1
      /\ Goto(t, there) /\ UNCHANGED <<kind, no, sem, multi>>
  BY DEF Unlock
<1>2. there \in {"signal", "user"}
  OBVIOUS
<1> HIDE DEF there
<1>3. /\ FastTypes' /\ FastMLockInv'
      /\ \A u \in Lockers : no'[u] = 0 /\ at'[u] \in {"user", "wait", "queued", "in", "signal"}
      /\ Inside' = Inside \ {t} /\ t \in Inside
      /\ In' = In \ {t}
      /\ Signal' = IF there = "signal" THEN Signal \cup {t} ELSE Signal \ {t}
      /\ Queued(0)' = Queued(0) \ {t}
  BY <1>1, <1>2, FastFacts
<1>4. /\ RightInOnePlace /\ IsFiniteSet(Inside) /\ cnt + 1 = Cardinality(Inside)
      /\ sem = 1 => Queued(0) = {}
  BY <1>1 DEF FastInv, FastLockInv
<1>5. t \in In
  BY <1>1 DEF In
<1>6. cnt \in Nat /\ sem = 0 /\ Signal = {} /\ In = {t}
  BY <1>4, <1>5 DEF RightInOnePlace
<1>7. IsFiniteSet(Inside') /\ cnt' + 1 = Cardinality(Inside')
  <2>1. /\ IsFiniteSet(Inside \ {t})
        /\ Cardinality(Inside \ {t}) = Cardinality(Inside) - 1
    BY <1>3, <1>4, FS_RemoveElement
  <2> QED BY <1>1, <1>3, <1>4, <1>6, <2>1
<1>8. RightInOnePlace'
  BY <1>1, <1>3, <1>6 DEF RightInOnePlace, there
<1> QED BY <1>1, <1>3, <1>6, <1>7, <1>8 DEF FastInv, FastLockInv

\* tk_sig_sem
LEMMA StepSigSem ==
  ASSUME FastLockAssumption, FastInv, NEW t \in Lockers, tk_sig_sem(t)
  PROVE  FastInv'
<1>1. /\ kind = "FastLock" /\ at[t] = "signal" /\ cnt' = cnt
      /\ UNCHANGED <<kind, no, multi>>
  BY DEF tk_sig_sem
<1>2. /\ RightInOnePlace /\ IsFiniteSet(Inside) /\ cnt + 1 = Cardinality(Inside)
      /\ sem = 1 => Queued(0) = {}
  BY <1>1 DEF FastInv, FastLockInv
<1>3. t \in Signal
  BY <1>1 DEF Signal
<1>4. cnt \in Nat /\ sem = 0 /\ In = {} /\ Signal = {t}
  BY <1>2, <1>3 DEF RightInOnePlace
<1>5. ASSUME NEW u \in Queued(0), GotoBoth(t, "user", u, "in"), UNCHANGED sem
      PROVE  FastInv'
  <2>1. /\ u \in Lockers /\ at[u] = "queued"
        /\ at' = [at EXCEPT ![t] = "user", ![u] = "in"]
        /\ at \in [Lockers -> {"user", "wait", "queued", "in", "signal", "try", "got",
                             "failed", "reset", "set"}]
        /\ \A x \in Lockers : no[x] = 0 /\ at[x] \in {"user", "wait", "queued", "in", "signal"}
    BY <1>1, <1>5 DEF Queued, GotoBoth, FastInv, FastTypes, FastLockInv
  <2>2. /\ u # t /\ at'[t] = "user" /\ at'[u] = "in"
        /\ \A x \in Lockers \ {t, u} : at'[x] = at[x]
    BY <1>1, <2>1
  <2>3. In' = {u} /\ Signal' = {}
    BY <1>4, <2>1, <2>2 DEF In, Signal
  <2>4. Inside' = Inside
    BY <1>1, <2>1, <2>2 DEF Inside
  <2>5. RightInOnePlace'
    BY <1>1, <1>4, <1>5, <2>1, <2>3 DEF RightInOnePlace
  <2>6. FastTypes' /\ FastMLockInv'
    BY <1>1, <2>1 DEF FastTypes, FastMLockInv, FastInv
  <2>7. \A x \in Lockers :
          no'[x] = 0 /\ at'[x] \in {"user", "wait", "queued", "in", "signal"}
    BY <1>1, <2>1, <2>2
  <2>8. sem' = 0
    BY <1>4, <1>5
  <2> QED BY <1>1, <1>2, <2>4, <2>5, <2>6, <2>7, <2>8 DEF FastInv, FastLockInv
<1>6. ASSUME Queued(0) = {}, Goto(t, "user"), sem' = IF sem = 1 THEN 1 ELSE sem + 1
      PROVE  FastInv'
  <2>1. /\ FastTypes' /\ FastMLockInv'
        /\ \A x \in Lockers :
             no'[x] = 0 /\ at'[x] \in {"user", "wait", "queued", "in", "signal"}
        /\ Inside' = Inside /\ In' = In \ {t} /\ Signal' = Signal \ {t}
        /\ Queued(0)' = Queued(0) \ {t}
    BY <1>1, <1>6, FastFacts
  <2>2. RightInOnePlace'
    BY <1>1, <1>4, <1>6, <2>1 DEF RightInOnePlace
  <2> QED BY <1>1, <1>2, <1>6, <2>1, <2>2 DEF FastInv, FastLockInv
<1> QED BY <1>5, <1>6 DEF tk_sig_sem

---------------------------------------------------------------------------

\* The states of a FastMLock that matter to its bits.
Has(t, n) == no[t] = n /\ at[t] \in {"got", "in"}

\* What the steps of a FastMLock have in common: the task t moves, and
\* perhaps another, but no other comes to have a lock or to have none.
MoveOthers(t) ==
  /\ kind = "FastMLock" /\ kind' = kind
  /\ FastTypes'
  /\ \A u \in Lockers : at'[u] # "signal"
  /\ \A u \in Lockers \ {t}, n \in Numbers : Has(u, n)' <=> Has(u, n)

\* A step in which t takes no lock and leaves none.
LEMMA StepSame ==
  ASSUME FastInv, NEW t \in Lockers, MoveOthers(t), flg' = flg,
         \A n \in Numbers : Has(t, n)' <=> Has(t, n)
  PROVE  FastInv' /\ \A n \in Numbers : Holders(n)' = Holders(n)
<1>1. \A n \in Numbers : Holders(n)' = Holders(n)
  BY DEF MoveOthers, Has, Holders
<1>2. FastMLockInv'
  BY <1>1 DEF FastInv, FastMLockInv, MoveOthers
<1> QED BY <1>1, <1>2 DEF FastInv, FastLockInv, MoveOthers

\* A step in which t takes the lock n, the bit of which is not set.
LEMMA StepTake ==
  ASSUME FastInv, NEW t \in Lockers, MoveOthers(t), NEW n \in Numbers,
         n \notin flg, flg' = flg \cup {n}, no[t] = n, no'[t] = n,
         at[t] \notin {"got", "in"}, at'[t] = "got"
  PROVE  /\ FastInv' /\ Holders(n) = {} /\ Holders(n)' = {t}
         /\ \A m \in Numbers \ {n} : Holders(m)' = Holders(m)
<1>1. Holders(n) = {}
  BY DEF FastInv, FastMLockInv, MoveOthers
<1>2. Holders(n)' = {t}
  BY <1>1 DEF MoveOthers, Has, Holders
<1>3. \A m \in Numbers \ {n} : Holders(m)' = Holders(m)
  BY DEF MoveOthers, Has, Holders
<1>4. FastMLockInv'
  BY <1>2, <1>3 DEF FastInv, FastMLockInv, MoveOthers
<1> QED BY <1>1, <1>2, <1>3, <1>4 DEF FastInv, FastLockInv, MoveOthers

\* A step in which t leaves the lock n.
LEMMA StepLeave ==
  ASSUME FastInv, NEW t \in Lockers, MoveOthers(t), NEW n \in Numbers,
         flg' = flg \ {n}, no[t] = n, at[t] = "in", at'[t] = "reset"
  PROVE  /\ FastInv' /\ Holders(n) = {t} /\ Holders(n)' = {}
         /\ \A m \in Numbers \ {n} : Holders(m)' = Holders(m)
<1>1. Holders(n) = {t}
  <2>1. t \in Holders(n)
    BY DEF Holders
  <2> QED BY <2>1 DEF FastInv, FastMLockInv, MoveOthers
<1>2. Holders(n)' = {}
  BY <1>1 DEF MoveOthers, Has, Holders
<1>3. \A m \in Numbers \ {n} : Holders(m)' = Holders(m)
  BY DEF MoveOthers, Has, Holders
<1>4. FastMLockInv'
  BY <1>2, <1>3 DEF FastInv, FastMLockInv, MoveOthers
<1> QED BY <1>1, <1>2, <1>3, <1>4 DEF FastInv, FastLockInv, MoveOthers

\* A FastMLock is used by tasks in these places only.
LEMMA MultiKind ==
  ASSUME FastInv, NEW t \in Lockers,
         at[t] \in {"try", "got", "failed", "reset", "set"} \/ kind = "FastMLock"
  PROVE  /\ kind = "FastMLock" /\ no \in [Lockers -> Numbers]
         /\ at \in [Lockers -> {"user", "wait", "queued", "in", "signal", "try", "got",
                              "failed", "reset", "set"}]
         /\ \A u \in Lockers : at[u] # "signal"
BY DEF FastInv, FastTypes, FastLockInv, FastMLockInv

\* Where a task with a FastMLock is, and its way there with the lock number n.
Places == {"user", "wait", "queued", "in", "try", "got", "failed", "reset", "set"}
Moves(t, n, there) == Goto(t, there) /\ no' = [no EXCEPT ![t] = n]

\* One task moves, and it may change its lock number.
LEMMA OneMoves ==
  ASSUME FastInv, kind = "FastMLock", kind' = kind, NEW t \in Lockers,
         NEW there \in Places, NEW n \in Numbers, Moves(t, n, there)
  PROVE  /\ MoveOthers(t) /\ at'[t] = there /\ no'[t] = n
         /\ \A u \in Lockers \ {t} : at'[u] = at[u] /\ no'[u] = no[u]
<1>1. /\ no \in [Lockers -> Numbers]
      /\ at \in [Lockers -> {"user", "wait", "queued", "in", "signal", "try", "got",
                           "failed", "reset", "set"}]
      /\ \A u \in Lockers : at[u] # "signal"
  BY MultiKind
<1>2. /\ at'[t] = there /\ no'[t] = n
      /\ \A u \in Lockers \ {t} : at'[u] = at[u] /\ no'[u] = no[u]
  BY <1>1 DEF Moves, Goto
<1>3. FastTypes'
  BY <1>1 DEF Moves, Goto, FastTypes, FastInv, Places
<1>4. \A u \in Lockers : at'[u] # "signal"
  BY <1>1, <1>2 DEF Places
<1> QED BY <1>1, <1>2, <1>3, <1>4 DEF MoveOthers, Has

---------------------------------------------------------------------------
(* The steps of ExclusiveLock, in the terms of FastLocks. *)

Refines == [Abstract!Next]_(Abstract!vars)

\* Nothing that ExclusiveLock sees changes.
LEMMA MapStutter ==
  ASSUME \A n \in Numbers : Wants(n)' = Wants(n) /\ Holders(n)' = Holders(n)
  PROVE  Refines
BY DEF Refines, Abstract!vars

\* A task comes to want a lock.
LEMMA MapWant ==
  ASSUME NEW t \in Lockers, NEW n \in Numbers,
         \A m \in Numbers : t \notin Wants(m) \cup Holders(m),
         Wants(n)' = Wants(n) \cup {t},
         \A m \in Numbers \ {n} : Wants(m)' = Wants(m),
         \A m \in Numbers : Holders(m)' = Holders(m)
  PROVE  Refines
<1>1. Abstract!Want(t, n)
  BY DEF Abstract!Want, Abstract!Idle
<1> QED BY <1>1 DEF Refines, Abstract!Next

\* A free lock is had at once.
LEMMA MapTake ==
  ASSUME NEW t \in Lockers, NEW n \in Numbers,
         \A m \in Numbers : t \notin Wants(m) \cup Holders(m),
         Holders(n) = {}, Holders(n)' = {t},
         \A m \in Numbers \ {n} : Holders(m)' = Holders(m),
         \A m \in Numbers : Wants(m)' = Wants(m)
  PROVE  Refines
<1>1. Abstract!Take(t, n)
  BY DEF Abstract!Take, Abstract!Idle
<1> QED BY <1>1 DEF Refines, Abstract!Next

\* A task that wants a lock gets it.
LEMMA MapAcquire ==
  ASSUME NEW t \in Lockers, NEW n \in Numbers,
         t \in Wants(n), Wants(n)' = Wants(n) \ {t},
         Holders(n) = {}, Holders(n)' = {t},
         \A m \in Numbers \ {n} : Wants(m)' = Wants(m) /\ Holders(m)' = Holders(m)
  PROVE  Refines
<1>1. Abstract!Acquire(t, n)
  BY DEF Abstract!Acquire
<1> QED BY <1>1 DEF Refines, Abstract!Next

\* A task no longer wants a lock.
LEMMA MapGiveUp ==
  ASSUME NEW t \in Lockers, NEW n \in Numbers,
         t \in Wants(n), Wants(n)' = Wants(n) \ {t},
         \A m \in Numbers \ {n} : Wants(m)' = Wants(m),
         \A m \in Numbers : Holders(m)' = Holders(m)
  PROVE  Refines
<1>1. Abstract!GiveUp(t, n)
  BY DEF Abstract!GiveUp
<1> QED BY <1>1 DEF Refines, Abstract!Next

\* A task releases its lock.
LEMMA MapRelease ==
  ASSUME NEW t \in Lockers, NEW n \in Numbers,
         Holders(n) = {t}, Holders(n)' = {},
         \A m \in Numbers \ {n} : Holders(m)' = Holders(m),
         \A m \in Numbers : Wants(m)' = Wants(m)
  PROVE  Refines
<1>1. Abstract!Release(t, n)
  BY DEF Abstract!Release
<1> QED BY <1>1 DEF Refines, Abstract!Next

---------------------------------------------------------------------------
(* Every action of FastLocks. *)

\* A FastLock is the lock 0; those who wait for it want it, and who is in has it.
LEMMA FastSets ==
  ASSUME FastLockAssumption, FastInv, kind = "FastLock"
  PROVE  /\ 0 \in Numbers /\ Holders(0) = In
         /\ Wants(0) = {t \in Lockers : at[t] \in {"wait", "queued"}}
         /\ \A n \in Numbers \ {0} : Wants(n) = {} /\ Holders(n) = {}
BY DEF FastInv, FastLockInv, FastLockAssumption, Wants, Holders, In

\* The moves of one task through Lock and Unlock.
LEMMA FastMove ==
  ASSUME FastLockAssumption, FastInv, FastInv', kind = "FastLock",
         UNCHANGED <<kind, no, multi>>, NEW t \in Lockers,
         NEW there \in {"user", "wait", "queued", "in", "signal"}, Goto(t, there)
  PROVE  /\ \A n \in Numbers \ {0} : Wants(n)' = Wants(n) /\ Holders(n)' = Holders(n)
         /\ Holders(0) = In /\ Holders(0)' = In' /\ 0 \in Numbers
         /\ Wants(0)' = IF there \in {"wait", "queued"} THEN Wants(0) \cup {t}
                        ELSE Wants(0) \ {t}
         /\ t \in Wants(0) <=> at[t] \in {"wait", "queued"}
         /\ In' = IF there = "in" THEN In \cup {t} ELSE In \ {t}
         /\ t \in In <=> at[t] = "in"
<1>1. /\ 0 \in Numbers /\ Holders(0) = In
      /\ Wants(0) = {u \in Lockers : at[u] \in {"wait", "queued"}}
      /\ \A n \in Numbers \ {0} : Wants(n) = {} /\ Holders(n) = {}
  BY FastSets
<1>2. /\ Holders(0)' = In'
      /\ Wants(0)' = {u \in Lockers : at'[u] \in {"wait", "queued"}}
      /\ \A n \in Numbers \ {0} : Wants(n)' = {} /\ Holders(n)' = {}
  BY FastSets DEF FastLockAssumption, FastInv, FastLockInv, Wants, Holders, In
<1>3. at'[t] = there /\ \A u \in Lockers \ {t} : at'[u] = at[u]
  BY DEF Goto, FastInv, FastTypes
<1>4. Wants(0)' = IF there \in {"wait", "queued"} THEN Wants(0) \cup {t}
                  ELSE Wants(0) \ {t}
  BY <1>1, <1>2, <1>3
<1>5. In' = IF there = "in" THEN In \cup {t} ELSE In \ {t}
  BY <1>3 DEF In
<1> QED BY <1>1, <1>2, <1>4, <1>5 DEF In

\* Lock takes a free lock or comes to want one that is taken.
LEMMA RefineLock ==
  ASSUME FastLockAssumption, FastInv, NEW t \in Lockers, Lock(t)
  PROVE  FastInv' /\ Refines
<1>1. FastInv'
  BY StepLock
<1>2. /\ kind = "FastLock" /\ at[t] = "user" /\ UNCHANGED <<kind, no, multi>>
      /\ RightInOnePlace /\ \A u \in Lockers : no[u] = 0
  BY DEF Lock, FastInv, FastLockInv
<1>3. \A m \in Numbers : t \notin Wants(m) \cup Holders(m)
  BY <1>2 DEF Wants, Holders
<1>4. CASE cnt + 1 > 0
  <2>1. Goto(t, "wait")
    BY <1>4 DEF Lock
  <2>2. /\ Wants(0)' = Wants(0) \cup {t} /\ Holders(0)' = Holders(0) /\ 0 \in Numbers
        /\ \A n \in Numbers \ {0} : Wants(n)' = Wants(n) /\ Holders(n)' = Holders(n)
    BY <1>1, <1>2, <2>1, FastMove
  <2> QED BY <1>1, <1>3, <2>2, MapWant
<1>5. CASE ~(cnt + 1 > 0)
  <2>1. Goto(t, "in") /\ In = {}
    BY <1>2, <1>5 DEF Lock, RightInOnePlace
  <2>2. /\ Wants(0)' = Wants(0) /\ Holders(0) = {} /\ Holders(0)' = {t} /\ 0 \in Numbers
        /\ \A n \in Numbers \ {0} : Wants(n)' = Wants(n) /\ Holders(n)' = Holders(n)
    BY <1>1, <1>2, <2>1, FastMove
  <2> QED BY <1>1, <1>3, <2>2, MapTake
<1> QED BY <1>4, <1>5

\* tk_wai_sem gets the lock or waits on.
LEMMA RefineWaiSem ==
  ASSUME FastLockAssumption, FastInv, NEW t \in Lockers, tk_wai_sem(t)
  PROVE  FastInv' /\ Refines
<1>1. FastInv'
  BY StepWaiSem
<1>2. /\ kind = "FastLock" /\ at[t] = "wait" /\ UNCHANGED <<kind, no, multi>> /\ RightInOnePlace
  BY DEF tk_wai_sem, FastInv, FastLockInv
<1>3. CASE sem > 0
  <2>1. Goto(t, "in") /\ In = {}
    BY <1>2, <1>3 DEF tk_wai_sem, RightInOnePlace
  <2>2. /\ t \in Wants(0) /\ Wants(0)' = Wants(0) \ {t} /\ 0 \in Numbers
        /\ Holders(0) = {} /\ Holders(0)' = {t}
        /\ \A n \in Numbers \ {0} : Wants(n)' = Wants(n) /\ Holders(n)' = Holders(n)
    BY <1>1, <1>2, <2>1, FastMove
  <2> QED BY <1>1, <2>2, MapAcquire
<1>4. CASE ~(sem > 0)
  <2>1. Goto(t, "queued")
    BY <1>4 DEF tk_wai_sem
  <2>2. /\ Wants(0)' = Wants(0) /\ Holders(0)' = Holders(0) /\ 0 \in Numbers
        /\ \A n \in Numbers \ {0} : Wants(n)' = Wants(n) /\ Holders(n)' = Holders(n)
    BY <1>1, <1>2, <2>1, FastMove
  <2> QED BY <1>1, <2>2, MapStutter
<1> QED BY <1>3, <1>4

\* Unlock releases the lock.
LEMMA RefineUnlock ==
  ASSUME FastLockAssumption, FastInv, NEW t \in Lockers, Unlock(t)
  PROVE  FastInv' /\ Refines
<1>1. FastInv'
  BY StepUnlock
<1>2. /\ kind = "FastLock" /\ at[t] = "in" /\ UNCHANGED <<kind, no, multi>> /\ RightInOnePlace
  BY DEF Unlock, FastInv, FastLockInv
<1>3. In = {t}
  BY <1>2 DEF RightInOnePlace, In
<1>4. PICK there \in {"signal", "user"} : Goto(t, there)
  BY DEF Unlock
<1>5. /\ Holders(0) = {t} /\ Holders(0)' = {} /\ Wants(0)' = Wants(0) /\ 0 \in Numbers
      /\ \A n \in Numbers \ {0} : Wants(n)' = Wants(n) /\ Holders(n)' = Holders(n)
  BY <1>1, <1>2, <1>3, <1>4, FastMove
<1> QED BY <1>1, <1>5, MapRelease

\* tk_sig_sem passes the lock to a task in the queue or leaves it with the
\* semaphore.
LEMMA RefineSigSem ==
  ASSUME FastLockAssumption, FastInv, NEW t \in Lockers, tk_sig_sem(t)
  PROVE  FastInv' /\ Refines
<1>1. FastInv'
  BY StepSigSem
<1>2. /\ kind = "FastLock" /\ at[t] = "signal" /\ UNCHANGED <<kind, no, multi>> /\ RightInOnePlace
      /\ t \in Signal
  BY DEF tk_sig_sem, FastInv, FastLockInv, Signal
<1>3. In = {}
  BY <1>2 DEF RightInOnePlace
<1>4. ASSUME NEW u \in Queued(0), GotoBoth(t, "user", u, "in") PROVE Refines
  <2>1. /\ u \in Lockers /\ at[u] = "queued" /\ at'[t] = "user" /\ at'[u] = "in"
        /\ \A x \in Lockers \ {t, u} : at'[x] = at[x]
    BY <1>2, <1>4 DEF Queued, GotoBoth, FastInv, FastTypes
  <2>2. /\ 0 \in Numbers /\ Holders(0) = In
        /\ Wants(0) = {x \in Lockers : at[x] \in {"wait", "queued"}}
        /\ \A n \in Numbers \ {0} : Wants(n) = {} /\ Holders(n) = {}
    BY <1>2, FastSets
  <2>3. /\ Holders(0)' = In'
        /\ Wants(0)' = {x \in Lockers : at'[x] \in {"wait", "queued"}}
        /\ \A n \in Numbers \ {0} : Wants(n)' = {} /\ Holders(n)' = {}
    BY <1>1, <1>2 DEF FastLockAssumption, FastInv, FastLockInv, Wants, Holders, In
  <2>4. In' = {u}
    BY <1>3, <2>1 DEF In
  <2>5. u \in Wants(0) /\ Wants(0)' = Wants(0) \ {u}
    BY <1>2, <2>1, <2>2, <2>3
  <2> QED BY <1>3, <2>1, <2>2, <2>3, <2>4, <2>5, MapAcquire
<1>5. ASSUME Goto(t, "user") PROVE Refines
  <2>1. /\ Wants(0)' = Wants(0) /\ Holders(0)' = Holders(0) /\ 0 \in Numbers
        /\ \A n \in Numbers \ {0} : Wants(n)' = Wants(n) /\ Holders(n)' = Holders(n)
    BY <1>1, <1>2, <1>5, FastMove
  <2> QED BY <2>1, MapStutter
<1> QED BY <1>1, <1>4, <1>5 DEF tk_sig_sem

Wanting == {"try", "wait", "queued"}

\* After a step t wants the lock n and no other; it wants none; what it wants.
WantsOnly(t, n) ==
  \A m \in Numbers : Wants(m)' = IF m = n THEN Wants(m) \cup {t} ELSE Wants(m) \ {t}
WantsNone(t) == \A m \in Numbers : Wants(m)' = Wants(m) \ {t}
WhatWants(t) == \A m \in Numbers : t \in Wants(m) <=> no[t] = m /\ at[t] \in Wanting

\* What has changed when the task t has gone there, with the lock number n.
Moved(t, n, there) ==
  /\ MoveOthers(t) /\ at'[t] = there /\ no'[t] = n /\ WhatWants(t)
  /\ there \in Wanting => WantsOnly(t, n)
  /\ there \notin Wanting => WantsNone(t)

\* What wants the locks after one task has moved.
LEMMA MultiWants ==
  ASSUME FastInv, kind = "FastMLock", kind' = kind, NEW t \in Lockers,
         NEW there \in Places, NEW n \in Numbers, Moves(t, n, there)
  PROVE  Moved(t, n, there)
<1>1. /\ MoveOthers(t) /\ at'[t] = there /\ no'[t] = n
      /\ \A u \in Lockers \ {t} : at'[u] = at[u] /\ no'[u] = no[u]
  BY OneMoves
<1>2. ASSUME NEW m \in Numbers
      PROVE  Wants(m)' = IF there \in Wanting /\ m = n THEN Wants(m) \cup {t}
                         ELSE Wants(m) \ {t}
  <2>1. Wants(m) \subseteq Lockers /\ Wants(m)' \subseteq Lockers
    BY DEF Wants
  <2>2. \A u \in Lockers \ {t} : u \in Wants(m)' <=> u \in Wants(m)
    BY <1>1 DEF Wants
  <2>3. t \in Wants(m)' <=> there \in Wanting /\ m = n
    BY <1>1 DEF Wants, Wanting
  <2> QED BY <2>1, <2>2, <2>3
<1>3. there \in Wanting => WantsOnly(t, n)
  BY <1>2 DEF WantsOnly
<1>4. there \notin Wanting => WantsNone(t)
  BY <1>2 DEF WantsNone
<1>5. WhatWants(t)
  BY DEF WhatWants, Wants, Wanting
<1> QED BY <1>1, <1>3, <1>4, <1>5 DEF Moved

\* MLock: the caller comes to want the lock.
LEMMA RefineMLock ==
  ASSUME FastInv, NEW t \in Lockers, NEW n \in Numbers, MLock(t, n)
  PROVE  FastInv' /\ Refines
<1>1. /\ kind = "FastMLock" /\ kind' = kind /\ at[t] = "user" /\ flg' = flg
      /\ Moves(t, n, "try")
  BY DEF Moves, MLock
<1>2. /\ MoveOthers(t) /\ at'[t] = "try" /\ WhatWants(t)
      /\ "try" \in Wanting => WantsOnly(t, n)
  <2>1. "try" \in Places
    BY DEF Places
  <2>2. Moved(t, n, "try")
    BY <1>1, <2>1, MultiWants
  <2> QED BY <2>2 DEF Moved
<1>3. \A m \in Numbers : t \notin Wants(m)
  BY <1>1, <1>2 DEF WhatWants, Wanting
<1>4. \A m \in Numbers : (Has(t, m)' <=> Has(t, m)) /\ t \notin Holders(m)
  BY <1>1, <1>2 DEF Has, Holders
<1>5. FastInv' /\ \A m \in Numbers : Holders(m)' = Holders(m)
  BY <1>1, <1>2, <1>4, StepSame
<1>6. WantsOnly(t, n)
  BY <1>2 DEF Wanting
<1>7. /\ \A m \in Numbers : t \notin Wants(m) \cup Holders(m)
      /\ Wants(n)' = Wants(n) \cup {t}
      /\ \A m \in Numbers \ {n} : Wants(m)' = Wants(m)
  BY <1>4, <1>3, <1>6 DEF WantsOnly
<1> QED BY <1>5, <1>7, MapWant

\* BTS: the bit was clear and the lock is had, or it is waited for.
LEMMA RefineBTS ==
  ASSUME FastInv, NEW t \in Lockers, BTS(t)
  PROVE  FastInv' /\ Refines
<1>0. PICK n \in Numbers : n = no[t]
  BY MultiKind DEF BTS
<1> DEFINE there == IF n \in flg THEN "wait" ELSE "got"
<1>1. /\ kind = "FastMLock" /\ kind' = kind /\ at[t] = "try" /\ flg' = flg \cup {n}
      /\ Moves(t, n, there)
  BY <1>0, MultiKind DEF Moves, BTS
<1>2. there \in {"wait", "got"} /\ there \in Places
  BY DEF Places
<1> HIDE DEF there
<1>3. /\ MoveOthers(t) /\ at'[t] = there /\ no'[t] = n /\ WhatWants(t)
      /\ there \in Wanting => WantsOnly(t, n)
      /\ there \notin Wanting => WantsNone(t)
  <2>1. Moved(t, n, there)
    BY <1>1, <1>2, MultiWants
  <2> QED BY <2>1 DEF Moved
<1>4. \A m \in Numbers : t \in Wants(m) <=> n = m
  BY <1>0, <1>1, <1>3 DEF WhatWants, Wanting
<1>5. CASE n \in flg
  <2>1. there = "wait" /\ flg' = flg
    BY <1>1, <1>5 DEF there
  <2>2. at[t] = "try" /\ at'[t] = "wait"
    BY <1>1, <1>3, <2>1
  <2>3. \A m \in Numbers : Has(t, m)' <=> Has(t, m)
    BY <2>2 DEF Has
  <2>4. FastInv' /\ \A m \in Numbers : Holders(m)' = Holders(m)
    BY <1>3, <2>1, <2>3, StepSame
  <2>5. ASSUME NEW m \in Numbers PROVE Wants(m)' = Wants(m)
    <3>1. Wants(m)' = IF m = n THEN Wants(m) \cup {t} ELSE Wants(m) \ {t}
      BY <1>3, <2>1 DEF Wanting, WantsOnly
    <3>2. t \in Wants(m) <=> m = n
      BY <1>4
    <3> QED BY <3>1, <3>2
  <2> QED BY <2>4, <2>5, MapStutter
<1>6. CASE n \notin flg
  <2>1. there = "got" /\ no[t] = n
    BY <1>0, <1>6 DEF there
  <2>2. /\ FastInv' /\ Holders(n) = {} /\ Holders(n)' = {t}
        /\ \A m \in Numbers \ {n} : Holders(m)' = Holders(m)
    BY <1>1, <1>3, <1>6, <2>1, StepTake
  <2>3. \A m \in Numbers : Wants(m)' = Wants(m) \ {t}
    BY <1>3, <2>1 DEF Wanting, WantsNone
  <2>4. /\ t \in Wants(n) /\ Wants(n)' = Wants(n) \ {t}
        /\ \A m \in Numbers \ {n} : Wants(m)' = Wants(m)
    BY <1>4, <2>3
  <2> QED BY <2>2, <2>4, MapAcquire
<1> QED BY <1>5, <1>6

\* tk_wai_flg: the caller tries again or waits for the flag.
LEMMA RefineWaiFlg ==
  ASSUME FastInv, NEW t \in Lockers, tk_wai_flg(t)
  PROVE  FastInv' /\ Refines
<1> DEFINE n == no[t]
           there == IF n \in ptn THEN "try" ELSE "queued"
<1>1. /\ kind = "FastMLock" /\ kind' = kind /\ at[t] = "wait" /\ flg' = flg
      /\ Moves(t, n, there) /\ n \in Numbers
  BY MultiKind DEF Moves, tk_wai_flg
<1>2. there \in {"try", "queued"} /\ there \in Places
  BY DEF Places
<1> HIDE DEF n, there
<1>3. /\ MoveOthers(t) /\ at'[t] = there /\ WhatWants(t)
      /\ there \in Wanting => WantsOnly(t, n)
  <2>1. Moved(t, n, there)
    BY <1>1, <1>2, MultiWants
  <2> QED BY <2>1 DEF Moved
<1>4. \A m \in Numbers : Has(t, m)' <=> Has(t, m)
  BY <1>1, <1>2, <1>3 DEF Has
<1>5. FastInv' /\ \A m \in Numbers : Holders(m)' = Holders(m)
  BY <1>1, <1>3, <1>4, StepSame
<1>6. \A m \in Numbers : t \in Wants(m) <=> n = m
  BY <1>1, <1>3 DEF WhatWants, Wanting, n
<1>7. \A m \in Numbers : Wants(m)' = IF m = n THEN Wants(m) \cup {t} ELSE Wants(m) \ {t}
  BY <1>2, <1>3 DEF Wanting, WantsOnly
<1> QED BY <1>5, <1>6, <1>7, MapStutter

\* The wait for the flag ends, and the caller no longer wants the lock.
LEMMA RefineTimeout ==
  ASSUME FastInv, NEW t \in Lockers, Timeout(t)
  PROVE  FastInv' /\ Refines
<1> DEFINE n == no[t]
<1>1. /\ kind = "FastMLock" /\ kind' = kind /\ at[t] = "queued" /\ flg' = flg
      /\ Moves(t, n, "failed") /\ n \in Numbers
  BY MultiKind DEF Moves, Timeout, multi
<1> HIDE DEF n
<1>2. /\ MoveOthers(t) /\ at'[t] = "failed" /\ WhatWants(t)
      /\ "failed" \notin Wanting => WantsNone(t)
  <2>1. "failed" \in Places
    BY DEF Places
  <2>2. Moved(t, n, "failed")
    BY <1>1, <2>1, MultiWants
  <2> QED BY <2>2 DEF Moved
<1>3. \A m \in Numbers : Wants(m)' = Wants(m) \ {t}
  BY <1>2 DEF Wanting, WantsNone
<1>4. \A m \in Numbers : t \in Wants(m) <=> n = m
  BY <1>1, <1>2 DEF WhatWants, Wanting, n
<1>5. \A m \in Numbers : Has(t, m)' <=> Has(t, m)
  BY <1>1, <1>2 DEF Has
<1>6. FastInv' /\ \A m \in Numbers : Holders(m)' = Holders(m)
  BY <1>1, <1>2, <1>5, StepSame
<1>7. t \in Wants(n) /\ \A m \in Numbers \ {n} : Wants(m)' = Wants(m)
  BY <1>1, <1>3, <1>4
<1> QED BY <1>1, <1>6, <1>7, <1>3, MapGiveUp

\* MLock returns, with the lock or without.
LEMMA RefineReturn ==
  ASSUME FastLockAssumption, FastInv, NEW t \in Lockers, MLock_return(t)
  PROVE  FastInv' /\ Refines
<1> DEFINE n == IF at[t] = "got" THEN no[t] ELSE 0
           there == IF at[t] = "got" THEN "in" ELSE "user"
<1>1. /\ kind = "FastMLock" /\ kind' = kind /\ at[t] \in {"got", "failed"}
      /\ flg' = flg /\ Moves(t, n, there) /\ n \in Numbers
  BY MultiKind DEF Moves, MLock_return, FastLockAssumption
<1>2. there \in {"in", "user"} /\ there \in Places
  BY DEF Places
<1> HIDE DEF n, there
<1>3. /\ MoveOthers(t) /\ at'[t] = there /\ no'[t] = n /\ WhatWants(t)
      /\ there \notin Wanting => WantsNone(t)
  <2>1. Moved(t, n, there)
    BY <1>1, <1>2, MultiWants
  <2> QED BY <2>1 DEF Moved
<1>4. \A m \in Numbers : Wants(m)' = Wants(m) \ {t} /\ t \notin Wants(m)
  BY <1>1, <1>2, <1>3 DEF WhatWants, WantsNone, Wanting
<1>5. \A m \in Numbers : Has(t, m)' <=> Has(t, m)
  BY <1>1, <1>3 DEF Has, n, there
<1>6. FastInv' /\ \A m \in Numbers : Holders(m)' = Holders(m)
  BY <1>1, <1>3, <1>5, StepSame
<1> QED BY <1>6, <1>4, MapStutter

\* MUnlock clears the bit.
LEMMA RefineMUnlock ==
  ASSUME FastInv, NEW t \in Lockers, MUnlock(t)
  PROVE  FastInv' /\ Refines
<1>0. PICK n \in Numbers : n = no[t]
  BY MultiKind DEF MUnlock
<1>1. /\ kind = "FastMLock" /\ kind' = kind /\ at[t] = "in" /\ flg' = flg \ {n}
      /\ Moves(t, n, "reset")
  BY <1>0, MultiKind DEF Moves, MUnlock
<1>2. /\ MoveOthers(t) /\ at'[t] = "reset" /\ WhatWants(t)
      /\ "reset" \notin Wanting => WantsNone(t)
  <2>1. "reset" \in Places
    BY DEF Places
  <2>2. Moved(t, n, "reset")
    BY <1>1, <2>1, MultiWants
  <2> QED BY <2>2 DEF Moved
<1>3. \A m \in Numbers : Wants(m)' = Wants(m) \ {t} /\ t \notin Wants(m)
  BY <1>1, <1>2 DEF WhatWants, WantsNone, Wanting
<1>4. /\ FastInv' /\ Holders(n) = {t} /\ Holders(n)' = {}
      /\ \A m \in Numbers \ {n} : Holders(m)' = Holders(m)
  BY <1>0, <1>1, <1>2, StepLeave
<1>5. \A m \in Numbers : Wants(m)' = Wants(m)
  BY <1>3
<1> QED BY <1>4, <1>5, MapRelease

\* MUnlock looks for waiters.
LEMMA RefineMUnlockWai ==
  ASSUME FastLockAssumption, FastInv, NEW t \in Lockers, MUnlock_wai(t)
  PROVE  FastInv' /\ Refines
<1> DEFINE n == IF wai = 0 THEN 0 ELSE no[t]
           there == IF wai = 0 THEN "user" ELSE "set"
<1>1. /\ kind = "FastMLock" /\ kind' = kind /\ at[t] = "reset" /\ flg' = flg
      /\ Moves(t, n, there) /\ n \in Numbers
  BY MultiKind DEF Moves, MUnlock_wai, multi, FastLockAssumption
<1>2. there \in {"user", "set"} /\ there \in Places
  BY DEF Places
<1> HIDE DEF n, there
<1>3. /\ MoveOthers(t) /\ at'[t] = there /\ WhatWants(t)
      /\ there \notin Wanting => WantsNone(t)
  <2>1. Moved(t, n, there)
    BY <1>1, <1>2, MultiWants
  <2> QED BY <2>1 DEF Moved
<1>4. \A m \in Numbers : Wants(m)' = Wants(m) \ {t} /\ t \notin Wants(m)
  BY <1>1, <1>2, <1>3 DEF WhatWants, WantsNone, Wanting
<1>5. \A m \in Numbers : Has(t, m)' <=> Has(t, m)
  BY <1>1, <1>2, <1>3 DEF Has
<1>6. FastInv' /\ \A m \in Numbers : Holders(m)' = Holders(m)
  BY <1>1, <1>3, <1>5, StepSame
<1> QED BY <1>6, <1>4, MapStutter

\* tk_set_flg wakes a waiter, which goes on wanting the lock, or sets the flag.
LEMMA RefineSetFlg ==
  ASSUME FastLockAssumption, FastInv, NEW t \in Lockers, tk_set_flg(t)
  PROVE  FastInv' /\ Refines
<1>1. /\ kind = "FastMLock" /\ kind' = kind /\ at[t] = "set" /\ flg' = flg
      /\ no' = [no EXCEPT ![t] = 0] /\ 0 \in Numbers
      /\ no \in [Lockers -> Numbers]
      /\ at \in [Lockers -> {"user", "wait", "queued", "in", "signal", "try", "got",
                           "failed", "reset", "set"}]
      /\ \A u \in Lockers : at[u] # "signal"
  BY MultiKind DEF tk_set_flg, FastLockAssumption
<1>2. ASSUME NEW u \in Queued(no[t]), GotoBoth(t, "user", u, "try")
      PROVE  FastInv' /\ Refines
  <2>1. /\ u \in Lockers /\ at[u] = "queued" /\ at'[t] = "user" /\ at'[u] = "try" /\ u # t
        /\ \A x \in Lockers \ {t, u} : at'[x] = at[x]
        /\ \A x \in Lockers \ {t} : no'[x] = no[x]
    BY <1>1, <1>2 DEF Queued, GotoBoth
  <2>2. FastTypes'
    BY <1>1, <1>2 DEF FastTypes, FastInv, GotoBoth
  <2>3. MoveOthers(t)
    BY <1>1, <2>1, <2>2 DEF MoveOthers, Has
  <2>4. \A m \in Numbers : Has(t, m)' <=> Has(t, m)
    BY <1>1, <2>1 DEF Has
  <2>5. FastInv' /\ \A m \in Numbers : Holders(m)' = Holders(m)
    BY <1>1, <2>3, <2>4, StepSame
  <2>6. \A m \in Numbers : Wants(m)' = Wants(m)
    BY <1>1, <2>1 DEF Wants
  <2> QED BY <2>5, <2>6, MapStutter
<1>3. ASSUME Goto(t, "user") PROVE FastInv' /\ Refines
  <2>1. /\ MoveOthers(t) /\ at'[t] = "user" /\ WhatWants(t)
        /\ "user" \notin Wanting => WantsNone(t)
    <3>1. Moves(t, 0, "user") /\ "user" \in Places
      BY <1>1, <1>3 DEF Moves, Places
    <3>2. Moved(t, 0, "user")
      BY <1>1, <3>1, MultiWants
    <3> QED BY <3>2 DEF Moved
  <2>2. \A m \in Numbers : Wants(m)' = Wants(m) \ {t} /\ t \notin Wants(m)
    BY <1>1, <2>1 DEF WhatWants, WantsNone, Wanting
  <2>3. \A m \in Numbers : Has(t, m)' <=> Has(t, m)
    BY <1>1, <2>1 DEF Has
  <2>4. FastInv' /\ \A m \in Numbers : Holders(m)' = Holders(m)
    BY <1>1, <2>1, <2>3, StepSame
  <2> QED BY <2>4, <2>2, MapStutter
<1> QED BY <1>2, <1>3 DEF tk_set_flg

\* Every step keeps the invariant and is one of ExclusiveLock, or leaves what
\* that sees alone.
LEMMA FastStep ==
  ASSUME FastLockAssumption
  PROVE  FastInv /\ [LockNext]_fastvars => FastInv' /\ Refines
<1> SUFFICES ASSUME FastInv, [LockNext]_fastvars PROVE FastInv' /\ Refines
  OBVIOUS
<1>1. ASSUME NEW t \in Lockers, Continue(t) PROVE FastInv' /\ Refines
  BY <1>1, RefineWaiSem, RefineSigSem, RefineBTS, RefineWaiFlg, RefineReturn,
     RefineMUnlockWai, RefineSetFlg DEF Continue
<1>2. ASSUME NEW t \in Lockers,
             Lock(t) \/ Unlock(t) \/ (\E n \in Numbers : MLock(t, n)) \/ MUnlock(t) \/ Timeout(t)
      PROVE  FastInv' /\ Refines
  BY <1>2, RefineLock, RefineUnlock, RefineMLock, RefineMUnlock, RefineTimeout
<1>3. ASSUME UNCHANGED fastvars PROVE FastInv' /\ Refines
  <2>1. /\ In' = In /\ Signal' = Signal /\ Inside' = Inside /\ Queued(0)' = Queued(0)
        /\ \A n \in Numbers : Holders(n)' = Holders(n) /\ Wants(n)' = Wants(n)
    BY <1>3 DEF fastvars, In, Signal, Inside, Queued, Holders, Wants
  <2>2. FastTypes' /\ FastLockInv'
    BY <1>3, <2>1 DEF fastvars, fast, FastInv, FastTypes, FastLockInv, RightInOnePlace
  <2>3. FastMLockInv'
    BY <1>3, <2>1 DEF fastvars, multi, FastInv, FastMLockInv
  <2> QED BY <2>1, <2>2, <2>3, MapStutter DEF FastInv
<1> QED BY <1>1, <1>2, <1>3 DEF LockNext

\* The invariant holds in every state.
THEOREM FastInductive ==
  ASSUME FastLockAssumption
  PROVE  FastInit /\ [][LockNext]_fastvars => []FastInv
BY FastInitInv, FastStep, PTL

\* Both kinds of high-speed lock are exclusive locks: the safety part of
\* ImplementsLock, for any number of tasks and of lock numbers.
THEOREM FastLocksRefine ==
  ASSUME FastLockAssumption
  PROVE  FastInit /\ [][LockNext]_fastvars
           => Abstract!LockInit /\ [][Abstract!Next]_(Abstract!vars)
<1>1. FastInit => Abstract!LockInit
  BY DEF FastInit, Abstract!LockInit, Wants, Holders
<1>2. FastInv /\ [LockNext]_fastvars => [Abstract!Next]_(Abstract!vars)
  BY FastStep DEF Refines
<1> QED BY <1>1, <1>2, FastInductive, PTL

\* A task that waits in the kernel for a FastLock waits for one that will
\* wake it: the window between the counter and the semaphore loses no signal.
THEOREM FastLockWakes ==
  ASSUME FastLockAssumption
  PROVE  FastInit /\ [][LockNext]_fastvars => []NoLostSignal
<1>1. ASSUME FastInv, kind = "FastLock", NEW t \in Queued(0)
      PROVE  In # {} \/ Signal # {}
  <2>1. /\ RightInOnePlace /\ sem # 1 /\ IsFiniteSet(Inside) /\ cnt + 1 = Cardinality(Inside)
    BY <1>1 DEF FastInv, FastLockInv
  <2>2. t \in Inside
    BY <1>1 DEF Queued, Inside
  <2>3. cnt # -1
    BY <2>1, <2>2, FS_EmptySet
  <2> QED BY <2>1, <2>3 DEF RightInOnePlace
<1>2. FastInv => NoLostSignal
  BY <1>1 DEF NoLostSignal
<1> QED BY <1>2, FastInductive, PTL
=============================================================================

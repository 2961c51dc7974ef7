---------------------------- MODULE KLock_proofs ----------------------------
(***************************************************************************)
(* Safety of task scheduling and of the kernel locks of objects, for any   *)
(* number of tasks, priorities, locks and slice times.                     *)
(*                                                                         *)
(* First, what the operations of the ready queue preserve; then the        *)
(* inductive invariant IInv of Task and what follows from it, the order in *)
(* which tasks of one priority are served among it; then KInv,             *)
(* with which locks are exclusive and never lost.  In Task no lock is      *)
(* involved in the queue; the operations treat the priority queues alike   *)
(* with and without locks, so what the lemmas say of plain(rq) holds of rq.*)
(***************************************************************************)
EXTENDS KLock, WaitQueue_proofs, FiniteSetTheorems

---------------------------------------------------------------------------
(* The ready queue. *)

\* q lists the tasks of S, each once.
IsQueue(q, S) ==
  /\ q \in Seq(Tasks)
  /\ IsInjective(q)
  /\ Range(q) = S

\* A list of tasks is a queue in the sense of WaitQueue_proofs.
LEMMA QueueLists ==
  ASSUME NEW q, NEW S
  PROVE  IsQueue(q, S) <=> Lists(q, S) /\ S \subseteq Tasks
<1>1. ASSUME IsQueue(q, S) PROVE Lists(q, S) /\ S \subseteq Tasks
  BY <1>1, ListsRange DEF IsQueue
<1>2. ASSUME Lists(q, S), S \subseteq Tasks PROVE IsQueue(q, S)
  BY <1>2, SeqMonotonic DEF IsQueue, Lists
<1> QED BY <1>1, <1>2

\* An empty list lists nothing, and nothing else does.
LEMMA EmptyQueue ==
  ASSUME NEW q, NEW S, IsQueue(q, S)
  PROVE  q = << >> <=> S = {}
BY QueueLists, EmptyList

\* QueInsert at the end of a list adds a task and keeps the head.
LEMMA AppendQueue ==
  ASSUME NEW q, NEW S, IsQueue(q, S), NEW t \in Tasks \ S
  PROVE  /\ IsQueue(Append(q, t), S \cup {t})
         /\ Append(q, t) # << >>
         /\ Head(Append(q, t)) = IF q = << >> THEN t ELSE Head(q)
<1>1. Lists(q, S) /\ S \cup {t} \subseteq Tasks
  BY QueueLists
<1>2. /\ Lists(Append(q, t), S \cup {t}) /\ Append(q, t) # << >>
      /\ Head(Append(q, t)) = IF q = << >> THEN t ELSE Head(q)
  BY <1>1, AppendList
<1> QED BY <1>1, <1>2, QueueLists

\* QueRemove takes a task out of its list, wherever it is, keeps the order
\* of the others and leaves any other list alone.
LEMMA RemoveQueue ==
  ASSUME NEW q, NEW S, IsQueue(q, S), NEW t \in Tasks
  PROVE  /\ IsQueue(QueRemove(q, t), S \ {t})
         /\ t \notin S => QueRemove(q, t) = q
         /\ q # << >> /\ Head(q) # t =>
              /\ QueRemove(q, t) # << >>
              /\ Head(QueRemove(q, t)) = Head(q)
<1>1. Lists(q, S) /\ S \ {t} \subseteq Tasks
  BY QueueLists
<1>2. /\ Lists(QueRemove(q, t), S \ {t})
      /\ t \notin S => QueRemove(q, t) = q
      /\ q # << >> /\ Head(q) # t => /\ QueRemove(q, t) # << >>
                                     /\ Head(QueRemove(q, t)) = Head(q)
  BY <1>1, RemoveList
<1> QED BY <1>1, <1>2, QueueLists

\* A list without its head.
LEMMA TailQueue ==
  ASSUME NEW q, NEW S, IsQueue(q, S), q # << >>
  PROVE  Head(q) \in S /\ IsQueue(Tail(q), S \ {Head(q)})
<1> DEFINE h == Tail(q)
<1>1. /\ q \in Seq(Tasks) /\ Len(q) \in Nat /\ DOMAIN q = 1 .. Len(q)
      /\ Len(q) > 0 /\ Head(q) = q[1]
  BY LenProperties, EmptySeq DEF IsQueue
<1>2. /\ h \in Seq(Tasks) /\ Len(h) = Len(q) - 1
      /\ \A i \in 1 .. Len(q) - 1 : h[i] = q[i + 1]
  BY <1>1, HeadTailProperties DEF IsQueue
<1> HIDE DEF h
<1>3. DOMAIN h = 1 .. Len(q) - 1
  BY <1>2, LenProperties
<1>4. IsQueue(h, S \ {q[1]})
  <2>1. IsInjective(h)
    BY <1>1, <1>2, <1>3 DEF IsInjective, IsQueue
  <2>2. \A x \in Range(h) : x \in S \ {q[1]}
    BY <1>1, <1>2, <1>3 DEF Range, IsQueue, IsInjective
  <2>3. ASSUME NEW x \in S \ {q[1]} PROVE x \in Range(h)
    <3>1. PICK j \in 2 .. Len(q) : q[j] = x
      BY <1>1, <2>3 DEF IsQueue, Range
    <3>2. j - 1 \in 1 .. Len(q) - 1 /\ h[j - 1] = x
      BY <1>1, <1>2, <3>1
    <3> QED BY <1>3, <3>2 DEF Range
  <2> QED BY <1>2, <2>1, <2>2, <2>3 DEF IsQueue
<1>5. q[1] \in S
  BY <1>1 DEF IsQueue, Range
<1> QED BY <1>1, <1>4, <1>5 DEF h

\* Moving the head of a list to its end changes neither its tasks nor that
\* each is there once.
LEMMA RotateQueue ==
  ASSUME NEW q, NEW S, IsQueue(q, S), q # << >>
  PROVE  /\ Head(q) \in S
         /\ IsQueue(Append(Tail(q), Head(q)), S)
<1> DEFINE h == Head(q)
<1>1. h \in S /\ IsQueue(Tail(q), S \ {h})
  BY TailQueue
<1>2. h \in Tasks \ (S \ {h})
  BY <1>1, ElementOfSeq DEF IsQueue, Range
<1> HIDE DEF h
<1>3. IsQueue(Append(Tail(q), h), (S \ {h}) \cup {h})
  BY <1>1, <1>2, AppendQueue
<1>4. (S \ {h}) \cup {h} = S
  BY <1>1
<1> QED BY <1>1, <1>3, <1>4 DEF h

---------------------------------------------------------------------------

\* BitSearch1 finds the least set bit that is not below p.
LEMMA BitSearch1Properties ==
  ASSUME NEW bitmap \in SUBSET Pri, NEW p \in Nat
  PROVE  /\ BitSearch1(bitmap, p) \in 0 .. NUM_PRI
         /\ BitSearch1(bitmap, p) = NUM_PRI =>
              \A i \in bitmap : i < p
         /\ BitSearch1(bitmap, p) # NUM_PRI =>
              /\ BitSearch1(bitmap, p) \in bitmap
              /\ BitSearch1(bitmap, p) >= p
              /\ \A i \in bitmap : i >= p => BitSearch1(bitmap, p) <= i
<1> USE PriAssumption
<1> DEFINE set == {i \in bitmap : i >= p}
           least == CHOOSE i \in set : \A j \in set : i <= j
<1>1. CASE set = {}
  BY <1>1 DEF BitSearch1, Pri
<1>2. CASE set # {}
  <2>1. \E i \in set : \A j \in set : i <= j
    <3>1. set \in SUBSET Nat
      <4>1. \A i \in bitmap : i \in Nat
        BY DEF Pri
      <4> QED BY <4>1
    <3> HIDE DEF set
    <3> QED BY <1>2, <3>1, NatMin
  <2>2. least \in set /\ \A j \in set : least <= j
    <3> HIDE DEF set
    <3> QED BY <2>1
  <2>3. BitSearch1(bitmap, p) = least
    BY <1>2 DEF BitSearch1
  <2> HIDE DEF least
  <2> QED BY <2>2, <2>3 DEF Pri
<1> QED BY <1>1, <1>2

\* Those facts characterise it.
LEMMA BitSearch1Unique ==
  ASSUME NEW bitmap \in SUBSET Pri, NEW p \in Nat, NEW b \in 0 .. NUM_PRI,
         \/ b = NUM_PRI /\ \A i \in bitmap : i < p
         \/ b \in bitmap /\ b >= p /\ \A i \in bitmap : i >= p => b <= i
  PROVE  BitSearch1(bitmap, p) = b
<1> DEFINE r == BitSearch1(bitmap, p)
<1>1. /\ r \in 0 .. NUM_PRI
      /\ r = NUM_PRI => \A i \in bitmap : i < p
      /\ r # NUM_PRI =>
           r \in bitmap /\ r >= p /\ \A i \in bitmap : i >= p => r <= i
  BY BitSearch1Properties
<1> HIDE DEF r
<1>2. \A i \in bitmap : i \in 0 .. NUM_PRI - 1
  BY DEF Pri
<1>3. r = b
  BY <1>1, <1>2, PriAssumption
<1> QED BY <1>3 DEF r

---------------------------------------------------------------------------

\* top is the most urgent priority of the tasks in R, NUM_PRI if R is empty.
IsTop(top, R, pri) ==
  \/ R = {} /\ top = NUM_PRI
  \/ \E t \in R : pri[t] = top /\ \A u \in R : top <= pri[u]

OfPri(R, pri, p) == {t \in R : pri[t] = p}

\* The inductive form of Consistent, for a queue no kernel lock is involved in.
Holds(rq, R, pri) ==
  /\ rq \in RDYQUE
  /\ rq.klocktsk = NULL
  /\ \A t \in Tasks : ~rq.klocked[t] /\ ~rq.klockwait[t]
  /\ \A p \in Pri : IsQueue(rq.tskque[p], OfPri(R, pri, p))
  /\ rq.bitmap = {pri[t] : t \in R}
  /\ IsTop(rq.top_priority, R, pri)

\* The inductive form implies the property the runs check.
LEMMA HoldsConsistent ==
  ASSUME NEW rq, NEW R \in SUBSET Tasks, NEW pri \in [Tasks -> Pri],
         Holds(rq, R, pri)
  PROVE  Consistent(rq, R, pri)
<1>1. ASSUME NEW p \in Pri
      PROVE  /\ Range(rq.tskque[p]) = {t \in R : pri[t] = p}
             /\ IsInjective(rq.tskque[p])
             /\ p \in rq.bitmap <=> rq.tskque[p] # << >>
  <2>1. IsQueue(rq.tskque[p], OfPri(R, pri, p))
    BY <1>1 DEF Holds
  <2>2. rq.tskque[p] = << >> <=> OfPri(R, pri, p) = {}
    BY <2>1, EmptyQueue
  <2>3. p \in rq.bitmap <=> OfPri(R, pri, p) # {}
    BY DEF Holds, OfPri
  <2> QED BY <2>1, <2>2, <2>3 DEF IsQueue, OfPri
<1>2. rq.top_priority = BitSearch1(rq.bitmap, 0)
  <2>1. rq.bitmap \in SUBSET Pri /\ rq.top_priority \in 0 .. NUM_PRI
    BY DEF Holds, RDYQUE
  <2>2. \A b \in rq.bitmap : b \in Nat
    BY <2>1 DEF Pri
  <2>3. \/ rq.top_priority = NUM_PRI /\ rq.bitmap = {}
        \/ /\ rq.top_priority \in rq.bitmap
           /\ \A b \in rq.bitmap : rq.top_priority <= b
    BY DEF Holds, IsTop
  <2> QED BY <2>1, <2>2, <2>3, BitSearch1Unique, 0 \in Nat
<1> QED BY <1>1, <1>2 DEF Consistent

\* ready_queue_top returns a READY task of the most urgent priority, the head
\* of its queue, and NULL only if there is none.
LEMMA TopProperties ==
  ASSUME NEW rq, NEW R \in SUBSET Tasks, NEW pri \in [Tasks -> Pri],
         Holds(rq, R, pri)
  PROVE  /\ R = {} <=> ready_queue_top(rq) = NULL
         /\ R = {} => rq.top_priority = NUM_PRI
         /\ R # {} => /\ ready_queue_top(rq) \in R
                      /\ pri[ready_queue_top(rq)] = rq.top_priority
                      /\ rq.top_priority \in Pri
                      /\ rq.tskque[rq.top_priority] # << >>
                      /\ ready_queue_top(rq) = Head(rq.tskque[rq.top_priority])
<1> USE PriAssumption, NullAssumption
<1>1. CASE R = {}
  BY <1>1 DEF Holds, IsTop, ready_queue_top
<1>2. CASE R # {}
  <2> DEFINE top == rq.top_priority
             q   == rq.tskque[top]
  <2>1. PICK t \in R : pri[t] = top
    BY <1>2 DEF Holds, IsTop
  <2>2. top \in Pri /\ top # NUM_PRI
    BY <2>1 DEF Pri
  <2>3. IsQueue(q, OfPri(R, pri, top))
    BY <2>2 DEF Holds
  <2>4. OfPri(R, pri, top) # {}
    BY <2>1 DEF OfPri
  <2>5. q # << >> /\ Head(q) \in OfPri(R, pri, top)
    <3> HIDE DEF q
    <3> QED BY <2>3, <2>4, EmptyQueue, RotateQueue
  <2>6. ready_queue_top(rq) = Head(q)
    BY <2>2 DEF Holds, ready_queue_top
  <2> HIDE DEF q
  <2>7. Head(q) \in R /\ pri[Head(q)] = top
    BY <2>5 DEF OfPri
  <2>8. Head(q) # NULL
    BY <2>7
  <2> QED BY <1>2, <2>2, <2>5, <2>6, <2>7, <2>8 DEF q
<1> QED BY <1>1, <1>2

\* What ready_queue_insert does to each field.
LEMMA InsertFields ==
  ASSUME NEW rq \in RDYQUE, NEW t \in Tasks, NEW p \in Pri, ~rq.klocked[t]
  PROVE  LET r == ready_queue_insert(rq, t, p)
         IN /\ r \in RDYQUE
            /\ r.tskque = [rq.tskque EXCEPT ![p] = Append(@, t)]
            /\ r.bitmap = rq.bitmap \cup {p}
            /\ r.klocktsk = rq.klocktsk
            /\ r.klocked = rq.klocked
            /\ r.klockwait = rq.klockwait
            /\ r.top_priority = IF p < rq.top_priority THEN p ELSE rq.top_priority
<1> DEFINE q == Append(rq.tskque[p], t)
           top == IF p < rq.top_priority THEN p ELSE rq.top_priority
           r == [rq EXCEPT !.slicecnt[t] = 0, !.tskque[p] = q,
                           !.bitmap = @ \cup {p}, !.top_priority = top]
<1>1. ready_queue_insert(rq, t, p) = r
  BY DEF ready_queue_insert, Linked, RDYQUE
<1>2. q \in Seq(Tasks)
  BY DEF RDYQUE
<1>3. top \in 0 .. NUM_PRI
  BY PriAssumption DEF RDYQUE, Pri
<1> HIDE DEF q, top
<1>4. r \in RDYQUE
  BY <1>2, <1>3 DEF RDYQUE
<1>5. /\ r.tskque = [rq.tskque EXCEPT ![p] = q]
      /\ r.bitmap = rq.bitmap \cup {p}
      /\ r.klocktsk = rq.klocktsk
      /\ r.klocked = rq.klocked
      /\ r.klockwait = rq.klockwait
      /\ r.top_priority = top
  BY DEF RDYQUE
<1> QED BY <1>1, <1>4, <1>5 DEF q, top

\* Inserting a task that becomes READY.  It is the new top only if its
\* priority is above that of every other task, as make_ready assumes.
LEMMA Insert ==
  ASSUME NEW rq, NEW R \in SUBSET Tasks, NEW pri \in [Tasks -> Pri],
         Holds(rq, R, pri), NEW t \in Tasks \ R
  PROVE  LET r == ready_queue_insert(rq, t, pri[t])
         IN /\ Holds(r, R \cup {t}, pri)
            /\ ready_queue_top(r) = IF pri[t] < rq.top_priority THEN t
                                    ELSE ready_queue_top(rq)
<1> DEFINE p == pri[t]
           r == ready_queue_insert(rq, t, p)
           S == R \cup {t}
<1>1. /\ rq \in RDYQUE /\ p \in Pri /\ t \in Tasks
      /\ rq.tskque \in [Pri -> Seq(Tasks)] /\ rq.top_priority \in 0 .. NUM_PRI
  BY DEF Holds, RDYQUE
<1>2. /\ r \in RDYQUE
      /\ r.tskque = [rq.tskque EXCEPT ![p] = Append(@, t)]
      /\ r.bitmap = rq.bitmap \cup {p}
      /\ r.klocktsk = NULL
      /\ \A u \in Tasks : ~r.klocked[u] /\ ~r.klockwait[u]
      /\ r.top_priority = IF p < rq.top_priority THEN p ELSE rq.top_priority
  <2>1. /\ rq.klocktsk = NULL
        /\ \A u \in Tasks : ~rq.klocked[u] /\ ~rq.klockwait[u]
    BY DEF Holds
  <2> HIDE DEF p
  <2>2. /\ r \in RDYQUE
        /\ r.tskque = [rq.tskque EXCEPT ![p] = Append(@, t)]
        /\ r.bitmap = rq.bitmap \cup {p}
        /\ r.klocktsk = rq.klocktsk
        /\ r.klocked = rq.klocked
        /\ r.klockwait = rq.klockwait
        /\ r.top_priority = IF p < rq.top_priority THEN p ELSE rq.top_priority
    BY <1>1, <2>1, InsertFields
  <2> HIDE DEF r
  <2> QED BY <2>1, <2>2
<1> HIDE DEF r
<1>3. ASSUME NEW k \in Pri
      PROVE  /\ IsQueue(r.tskque[k], OfPri(S, pri, k))
             /\ k = p => /\ r.tskque[k] # << >>
                         /\ Head(r.tskque[k]) = IF rq.tskque[k] = << >> THEN t
                                                ELSE Head(rq.tskque[k])
             /\ k # p => r.tskque[k] = rq.tskque[k]
  <2>1. IsQueue(rq.tskque[k], OfPri(R, pri, k))
    BY DEF Holds
  <2>2. CASE k # p
    <3>1. OfPri(S, pri, k) = OfPri(R, pri, k)
      BY <2>2 DEF OfPri
    <3>2. r.tskque[k] = rq.tskque[k]
      BY <1>1, <1>2, <2>2
    <3> QED BY <2>1, <2>2, <3>1, <3>2
  <2>3. CASE k = p
    <3>1. OfPri(S, pri, k) = OfPri(R, pri, k) \cup {t}
      BY <2>3 DEF OfPri
    <3>2. r.tskque[k] = Append(rq.tskque[k], t)
      BY <1>1, <1>2, <2>3
    <3>3. t \in Tasks \ OfPri(R, pri, k)
      BY <1>1 DEF OfPri
    <3> DEFINE q == rq.tskque[k]
    <3>4. /\ IsQueue(Append(q, t), OfPri(R, pri, k) \cup {t})
          /\ Append(q, t) # << >>
          /\ Head(Append(q, t)) = IF q = << >> THEN t ELSE Head(q)
      <4> HIDE DEF q
      <4> QED BY <2>1, <3>3, AppendQueue DEF q
    <3> QED BY <2>3, <3>1, <3>2, <3>4
  <2> QED BY <2>2, <2>3
<1>4. r.bitmap = {pri[u] : u \in S}
  BY <1>2 DEF Holds
<1>5. IsTop(r.top_priority, S, pri)
  <2>1. \A u \in S : pri[u] \in Nat /\ pri[u] < NUM_PRI
    BY PriAssumption DEF Pri
  <2>2. CASE p < rq.top_priority
    <3>1. \A u \in R : rq.top_priority <= pri[u]
      BY <1>1 DEF Holds, IsTop
    <3>2. r.top_priority = p /\ \A u \in S : p <= pri[u]
      BY <1>1, <1>2, <2>1, <2>2, <3>1, PriAssumption DEF Pri
    <3> QED BY <3>2 DEF IsTop
  <2>3. CASE ~(p < rq.top_priority)
    <3>1. PICK v \in R : pri[v] = rq.top_priority /\ \A u \in R : pri[v] <= pri[u]
      BY <1>1, <2>1, <2>3, PriAssumption DEF Holds, IsTop
    <3>2. r.top_priority = pri[v] /\ \A u \in S : pri[v] <= pri[u]
      BY <1>1, <1>2, <2>1, <2>3, <3>1, PriAssumption DEF Pri
    <3> QED BY <3>1, <3>2 DEF IsTop
  <2> QED BY <2>2, <2>3
<1>6. Holds(r, S, pri)
  BY <1>2, <1>3, <1>4, <1>5 DEF Holds
<1>7. ready_queue_top(r) = Head(r.tskque[r.top_priority]) /\ r.top_priority \in Pri
  BY <1>1, <1>6, TopProperties, S \in SUBSET Tasks
<1>8. CASE p < rq.top_priority
  <2>1. OfPri(R, pri, p) = {}
    <3>1. \A u \in R : pri[u] \in Int /\ rq.top_priority <= pri[u]
      BY <1>1, PriAssumption DEF Holds, IsTop, Pri
    <3> QED BY <1>1, <1>8, <3>1, PriAssumption DEF OfPri, Pri
  <2>2. IsQueue(rq.tskque[p], {})
    BY <1>1, <2>1 DEF Holds
  <2>3. rq.tskque[p] = << >>
    BY <2>2, EmptyQueue
  <2>4. Head(r.tskque[p]) = t
    BY <1>1, <1>3, <2>3
  <2> QED BY <1>2, <1>6, <1>7, <1>8, <2>4 DEF r
<1>9. CASE ~(p < rq.top_priority)
  <2>1. R # {}
    <3>1. R = {} => rq.top_priority = NUM_PRI
      BY TopProperties
    <3>2. p < NUM_PRI
      BY <1>1, PriAssumption DEF Pri
    <3> QED BY <1>9, <3>1, <3>2
  <2>2. /\ rq.tskque[rq.top_priority] # << >>
        /\ ready_queue_top(rq) = Head(rq.tskque[rq.top_priority])
    BY <2>1, TopProperties
  <2>3. r.top_priority = rq.top_priority
    BY <1>2, <1>9
  <2>4. Head(r.tskque[r.top_priority]) = Head(rq.tskque[rq.top_priority])
    BY <1>3, <1>7, <2>2, <2>3
  <2> QED BY <1>6, <1>7, <1>9, <2>2, <2>4 DEF r
<1> QED BY <1>8, <1>9

\* What Unlink does to every list.
LEMMA UnlinkProperties ==
  ASSUME NEW rq, NEW R \in SUBSET Tasks, NEW pri \in [Tasks -> Pri],
         Holds(rq, R, pri), NEW t \in R
  PROVE  LET qs == Unlink(rq.tskque, t)
         IN /\ qs \in [Pri -> Seq(Tasks)]
            /\ \A k \in Pri :
                 /\ IsQueue(qs[k], OfPri(R \ {t}, pri, k))
                 /\ k # pri[t] => qs[k] = rq.tskque[k]
                 /\ rq.tskque[k] # << >> /\ Head(rq.tskque[k]) # t =>
                      qs[k] # << >> /\ Head(qs[k]) = Head(rq.tskque[k])
<1> DEFINE qs == Unlink(rq.tskque, t)
<1>1. t \in Tasks /\ DOMAIN rq.tskque = Pri
  BY DEF Holds, RDYQUE
<1>2. qs = [k \in Pri |-> QueRemove(rq.tskque[k], t)]
  BY <1>1 DEF Unlink
<1>3. ASSUME NEW k \in Pri
      PROVE  /\ IsQueue(qs[k], OfPri(R \ {t}, pri, k))
             /\ k # pri[t] => qs[k] = rq.tskque[k]
             /\ rq.tskque[k] # << >> /\ Head(rq.tskque[k]) # t =>
                  qs[k] # << >> /\ Head(qs[k]) = Head(rq.tskque[k])
  <2>1. IsQueue(rq.tskque[k], OfPri(R, pri, k))
    BY DEF Holds
  <2>2. OfPri(R \ {t}, pri, k) = OfPri(R, pri, k) \ {t}
    BY DEF OfPri
  <2>3. qs[k] = QueRemove(rq.tskque[k], t)
    BY <1>2
  <2>4. k # pri[t] => t \notin OfPri(R, pri, k)
    BY DEF OfPri
  <2> DEFINE q == rq.tskque[k]
  <2>5. /\ IsQueue(QueRemove(q, t), OfPri(R, pri, k) \ {t})
        /\ t \notin OfPri(R, pri, k) => QueRemove(q, t) = q
        /\ q # << >> /\ Head(q) # t =>
             QueRemove(q, t) # << >> /\ Head(QueRemove(q, t)) = Head(q)
    <3> HIDE DEF q
    <3> QED BY <1>1, <2>1, RemoveQueue DEF q
  <2> HIDE DEF qs
  <2> QED BY <2>2, <2>3, <2>4, <2>5
<1>4. qs \in [Pri -> Seq(Tasks)]
  <2>1. \A k \in Pri : qs[k] \in Seq(Tasks)
    BY <1>3 DEF IsQueue
  <2>2. qs = [k \in Pri |-> qs[k]]
    BY <1>2
  <2> HIDE DEF qs
  <2> QED BY <2>1, <2>2
<1> HIDE DEF qs
<1>5. /\ qs \in [Pri -> Seq(Tasks)]
      /\ \A k \in Pri :
           /\ IsQueue(qs[k], OfPri(R \ {t}, pri, k))
           /\ k # pri[t] => qs[k] = rq.tskque[k]
           /\ rq.tskque[k] # << >> /\ Head(rq.tskque[k]) # t =>
                qs[k] # << >> /\ Head(qs[k]) = Head(rq.tskque[k])
  BY <1>3, <1>4
<1> QED BY <1>5 DEF qs

\* Deleting a task that is READY.  Deleting another one than the top task
\* leaves the top task in place, as make_non_ready assumes.
LEMMA Delete ==
  ASSUME NEW rq, NEW R \in SUBSET Tasks, NEW pri \in [Tasks -> Pri],
         Holds(rq, R, pri), NEW t \in R
  PROVE  LET r == ready_queue_delete(rq, t, pri[t])
         IN /\ Holds(r, R \ {t}, pri)
            /\ t # ready_queue_top(rq) =>
                 ready_queue_top(r) = ready_queue_top(rq)
<1> USE PriAssumption
<1> DEFINE p == pri[t]
           S == R \ {t}
           qs == Unlink(rq.tskque, t)
           bitmap == IF qs[p] = << >> THEN rq.bitmap \ {p} ELSE rq.bitmap
           top == IF qs[p] = << >> /\ p = rq.top_priority
                  THEN BitSearch1(bitmap, p) ELSE rq.top_priority
           r == ready_queue_delete(rq, t, p)
<1>1. /\ rq \in RDYQUE /\ p \in Pri /\ t \in Tasks /\ rq.klocktsk = NULL
      /\ rq.bitmap \in SUBSET Pri /\ rq.top_priority \in 0 .. NUM_PRI
      /\ \A u \in Tasks : ~rq.klocked[u] /\ ~rq.klockwait[u]
  BY DEF Holds, RDYQUE
<1>2. /\ qs \in [Pri -> Seq(Tasks)]
      /\ \A k \in Pri :
           /\ IsQueue(qs[k], OfPri(S, pri, k))
           /\ k # p => qs[k] = rq.tskque[k]
           /\ rq.tskque[k] # << >> /\ Head(rq.tskque[k]) # t =>
                qs[k] # << >> /\ Head(qs[k]) = Head(rq.tskque[k])
  <2> HIDE DEF qs
  <2> QED BY UnlinkProperties DEF qs
<1>3. r = [rq EXCEPT !.klocktsk = NULL, !.tskque = qs, !.bitmap = bitmap,
                     !.top_priority = top]
  BY <1>1 DEF ready_queue_delete
<1> HIDE DEF qs
<1>4. qs[p] = << >> <=> OfPri(S, pri, p) = {}
  BY <1>1, <1>2, EmptyQueue
<1>5. bitmap = {pri[u] : u \in S} /\ bitmap \in SUBSET Pri
  <2>1. rq.bitmap = {pri[u] : u \in R}
    BY DEF Holds
  <2>2. CASE qs[p] = << >>
    BY <1>1, <1>4, <2>1, <2>2 DEF OfPri
  <2>3. CASE qs[p] # << >>
    <3>1. PICK v \in S : pri[v] = p
      BY <1>4, <2>3 DEF OfPri
    <3> QED BY <1>1, <2>1, <2>3, <3>1
  <2> QED BY <2>2, <2>3
<1> HIDE DEF bitmap
<1>6. \A u \in R : pri[u] \in Nat /\ pri[u] < NUM_PRI /\ rq.top_priority <= pri[u]
  BY DEF Holds, IsTop, Pri
<1>7. IsTop(top, S, pri) /\ top \in 0 .. NUM_PRI
  <2>1. CASE qs[p] = << >> /\ p = rq.top_priority
    <3> DEFINE b == BitSearch1(bitmap, p)
    <3>1. p \in Nat
      BY <1>6
    <3>2. /\ b \in 0 .. NUM_PRI
          /\ b = NUM_PRI => \A i \in bitmap : i < p
          /\ b # NUM_PRI => /\ b \in bitmap /\ b >= p
                            /\ \A i \in bitmap : i >= p => b <= i
      <4> HIDE DEF p
      <4> QED BY <1>5, <3>1, BitSearch1Properties
    <3> HIDE DEF b
    <3>3. \A u \in S : pri[u] >= p /\ pri[u] \in bitmap
      BY <1>5, <1>6, <2>1
    <3>4. CASE b = NUM_PRI
      <4>1. S = {}
        BY <1>6, <3>1, <3>2, <3>3, <3>4
      <4> QED BY <2>1, <3>2, <3>4, <4>1 DEF IsTop, b
    <3>5. CASE b # NUM_PRI
      <4>1. PICK u \in S : pri[u] = b
        BY <1>5, <3>2, <3>5
      <4>2. \A v \in S : b <= pri[v]
        BY <3>2, <3>3, <3>5
      <4> QED BY <2>1, <3>2, <4>1, <4>2 DEF IsTop, b
    <3> QED BY <3>4, <3>5
  <2>2. CASE ~(qs[p] = << >> /\ p = rq.top_priority)
    <3>1. PICK v \in S : pri[v] = rq.top_priority
      <4>1. PICK w \in R : pri[w] = rq.top_priority
        BY DEF Holds, IsTop
      <4>2. CASE p = rq.top_priority
        BY <1>4, <2>2, <4>2 DEF OfPri
      <4>3. CASE p # rq.top_priority
        BY <4>1, <4>3
      <4> QED BY <4>2, <4>3
    <3> QED BY <1>1, <1>6, <2>2, <3>1 DEF IsTop
  <2> QED BY <2>1, <2>2
<1> HIDE DEF top
<1>8. /\ r \in RDYQUE
      /\ r.tskque = qs /\ r.bitmap = bitmap /\ r.top_priority = top
      /\ r.klocktsk = NULL /\ r.klocked = rq.klocked /\ r.klockwait = rq.klockwait
  <2> DEFINE w == [rq EXCEPT !.klocktsk = NULL, !.tskque = qs,
                             !.bitmap = bitmap, !.top_priority = top]
  <2>1. w \in RDYQUE
    BY <1>1, <1>2, <1>5, <1>7 DEF RDYQUE, TCB
  <2>2. /\ w.tskque = qs /\ w.bitmap = bitmap /\ w.top_priority = top
        /\ w.klocktsk = NULL /\ w.klocked = rq.klocked /\ w.klockwait = rq.klockwait
    BY <1>1 DEF RDYQUE
  <2> HIDE DEF w
  <2>3. r = w
    BY <1>3 DEF w
  <2> QED BY <2>1, <2>2, <2>3
<1> HIDE DEF r
<1>9. Holds(r, S, pri)
  BY <1>1, <1>2, <1>5, <1>7, <1>8 DEF Holds
<1>10. ASSUME t # ready_queue_top(rq)
       PROVE  ready_queue_top(r) = ready_queue_top(rq)
  <2> DEFINE k == rq.top_priority
  <2>1. /\ ready_queue_top(rq) = Head(rq.tskque[k]) /\ k \in Pri
        /\ rq.tskque[k] # << >>
    BY TopProperties, R # {}
  <2>2. qs[k] # << >> /\ Head(qs[k]) = Head(rq.tskque[k])
    BY <1>2, <1>10, <2>1
  <2>3. top = k
    BY <2>2 DEF top
  <2>4. S # {}
    <3>1. OfPri(S, pri, k) # {}
      BY <1>2, <2>1, <2>2, EmptyQueue
    <3> QED BY <3>1 DEF OfPri
  <2>5. ready_queue_top(r) = Head(r.tskque[r.top_priority])
    BY <1>9, <2>4, TopProperties, S \in SUBSET Tasks
  <2> QED BY <1>8, <2>1, <2>2, <2>3, <2>5
<1> QED BY <1>9, <1>10 DEF r

\* Rotating a queue changes no membership.
LEMMA Rotate ==
  ASSUME NEW rq, NEW R \in SUBSET Tasks, NEW pri \in [Tasks -> Pri],
         Holds(rq, R, pri), NEW p \in Pri
  PROVE  Holds(ready_queue_rotate(rq, p), R, pri)
<1> DEFINE q == rq.tskque[p]
           n == Append(Tail(q), Head(q))
           r == [rq EXCEPT !.tskque[p] = n, !.slicecnt[Head(q)] = 0]
<1>1. CASE q = << >>
  BY <1>1 DEF ready_queue_rotate
<1>2. CASE q # << >>
  <2>1. rq \in RDYQUE /\ IsQueue(q, OfPri(R, pri, p))
    BY DEF Holds
  <2>2. ready_queue_rotate(rq, p) = r
    BY <1>2 DEF ready_queue_rotate
  <2>3. Head(q) \in OfPri(R, pri, p) /\ IsQueue(n, OfPri(R, pri, p))
    <3> HIDE DEF q
    <3> QED BY <1>2, <2>1, RotateQueue
  <2>4. Head(q) \in Tasks /\ n \in Seq(Tasks)
    BY <2>3 DEF OfPri, IsQueue
  <2> HIDE DEF q, n
  <2>5. r \in RDYQUE
    BY <2>1, <2>4 DEF RDYQUE
  <2>6. /\ r.tskque = [rq.tskque EXCEPT ![p] = n]
        /\ r.bitmap = rq.bitmap /\ r.top_priority = rq.top_priority
        /\ r.klocktsk = rq.klocktsk /\ r.klocked = rq.klocked
        /\ r.klockwait = rq.klockwait
    BY <2>1 DEF RDYQUE
  <2> HIDE DEF r
  <2>7. \A k \in Pri : IsQueue(r.tskque[k], OfPri(R, pri, k))
    BY <2>1, <2>3, <2>6 DEF Holds, RDYQUE
  <2>8. Holds(r, R, pri)
    BY <2>5, <2>6, <2>7 DEF Holds
  <2> QED BY <2>2, <2>8
<1> QED BY <1>1, <1>2

\* Moving a task to the end of its queue keeps membership, and the top task
\* unless it is the one moved.
LEMMA MoveLast ==
  ASSUME NEW rq, NEW R \in SUBSET Tasks, NEW pri \in [Tasks -> Pri],
         Holds(rq, R, pri), NEW t \in R
  PROVE  LET r == ready_queue_move_last(rq, t, pri[t])
         IN /\ Holds(r, R, pri)
            /\ r.top_priority = rq.top_priority
            /\ t # ready_queue_top(rq) =>
                 ready_queue_top(r) = ready_queue_top(rq)
<1> DEFINE p == pri[t]
           qs == Unlink(rq.tskque, t)
           ns == [qs EXCEPT ![p] = Append(qs[p], t)]
           ws == Unlink(rq.wtskq, t)
           r == [rq EXCEPT !.tskque = ns, !.wtskq = ws, !.slicecnt[t] = 0]
<1>1. /\ rq \in RDYQUE /\ p \in Pri /\ t \in Tasks
  BY DEF Holds
<1>2. /\ qs \in [Pri -> Seq(Tasks)]
      /\ \A k \in Pri :
           /\ IsQueue(qs[k], OfPri(R \ {t}, pri, k))
           /\ k # p => qs[k] = rq.tskque[k]
           /\ rq.tskque[k] # << >> /\ Head(rq.tskque[k]) # t =>
                qs[k] # << >> /\ Head(qs[k]) = Head(rq.tskque[k])
  <2> HIDE DEF qs
  <2> QED BY UnlinkProperties DEF qs
<1>3. ws \in [Locks -> Seq(Tasks)]
  <2>1. rq.wtskq \in [Locks -> Seq(Tasks)]
    BY <1>1 DEF RDYQUE
  <2>2. ASSUME NEW q \in Seq(Tasks) PROVE QueRemove(q, t) \in Seq(Tasks)
    <3>1. CASE \E i \in 1 .. Len(q) : q[i] = t
      <4> DEFINE i == SelectInSeq(q, LAMBDA v : v = t)
      <4>1. i \in 1 .. Len(q)
        <5> DEFINE I == {j \in 1 .. Len(q) : q[j] = t}
        <5>1. I # {} /\ I \in SUBSET Nat /\ I \in SUBSET (1 .. Len(q))
          BY <3>1
        <5>2. i = Min(I)
          BY <5>1 DEF SelectInSeq
        <5> HIDE DEF I, i
        <5>3. Min(I) \in I
          BY <5>1, NatMin DEF Min
        <5> QED BY <5>1, <5>2, <5>3
      <4>2. QueRemove(q, t) = SubSeq(q, 1, i - 1) \o SubSeq(q, i + 1, Len(q))
        BY <3>1 DEF QueRemove, RemoveFirst, RemoveAt
      <4> HIDE DEF i
      <4>3. \A j \in 1 .. Len(q) : q[j] \in Tasks
        BY ElementOfSeq
      <4>4. i - 1 \in Int /\ i + 1 \in Int /\ Len(q) \in Int /\ 1 \in Int
        BY <4>1, LenProperties
      <4>5. SubSeq(q, 1, i - 1) \in Seq(Tasks)
        <5>1. \A j \in 1 .. i - 1 : q[j] \in Tasks
          BY <4>1, <4>3, <4>4
        <5> QED BY <4>4, <5>1, SubSeqProperties
      <4>6. SubSeq(q, i + 1, Len(q)) \in Seq(Tasks)
        <5>1. \A j \in i + 1 .. Len(q) : q[j] \in Tasks
          BY <4>1, <4>3, <4>4
        <5> QED BY <4>4, <5>1, SubSeqProperties
      <4> QED BY <4>2, <4>5, <4>6, ConcatProperties
    <3>2. CASE ~ \E i \in 1 .. Len(q) : q[i] = t
      BY <3>2 DEF QueRemove, RemoveFirst
    <3> QED BY <3>1, <3>2
  <2> QED BY <2>1, <2>2 DEF Unlink
<1>4. ready_queue_move_last(rq, t, p) = r
  BY DEF ready_queue_move_last
<1> HIDE DEF qs, ws
<1>5. /\ ns \in [Pri -> Seq(Tasks)]
      /\ ns[p] = Append(qs[p], t)
      /\ \A k \in Pri : k # p => ns[k] = qs[k]
  BY <1>1, <1>2
<1> HIDE DEF ns
<1>6. /\ r \in RDYQUE
      /\ r.tskque = ns
      /\ r.bitmap = rq.bitmap /\ r.top_priority = rq.top_priority
      /\ r.klocktsk = rq.klocktsk /\ r.klocked = rq.klocked
      /\ r.klockwait = rq.klockwait
  <2>1. r \in RDYQUE
    BY <1>1, <1>3, <1>5 DEF RDYQUE
  <2>2. /\ r.tskque = ns
        /\ r.bitmap = rq.bitmap /\ r.top_priority = rq.top_priority
        /\ r.klocktsk = rq.klocktsk /\ r.klocked = rq.klocked
        /\ r.klockwait = rq.klockwait
    BY <1>1 DEF RDYQUE
  <2> QED BY <2>1, <2>2
<1> HIDE DEF r
<1>7. ASSUME NEW k \in Pri
      PROVE  /\ IsQueue(ns[k], OfPri(R, pri, k))
             /\ rq.tskque[k] # << >> /\ Head(rq.tskque[k]) # t =>
                  ns[k] # << >> /\ Head(ns[k]) = Head(rq.tskque[k])
  <2>1. CASE k # p
    <3>1. OfPri(R \ {t}, pri, k) = OfPri(R, pri, k)
      BY <2>1 DEF OfPri
    <3> QED BY <1>2, <1>5, <2>1, <3>1
  <2>2. CASE k = p
    <3> DEFINE q == qs[p]
    <3>1. /\ IsQueue(q, OfPri(R \ {t}, pri, p))
          /\ rq.tskque[p] # << >> /\ Head(rq.tskque[p]) # t =>
               q # << >> /\ Head(q) = Head(rq.tskque[p])
      BY <1>1, <1>2
    <3>2. t \in Tasks \ OfPri(R \ {t}, pri, p)
      BY <1>1 DEF OfPri
    <3>3. OfPri(R \ {t}, pri, p) \cup {t} = OfPri(R, pri, p)
      BY DEF OfPri
    <3> HIDE DEF q
    <3>4. /\ IsQueue(Append(q, t), OfPri(R \ {t}, pri, p) \cup {t})
          /\ Append(q, t) # << >>
          /\ Head(Append(q, t)) = IF q = << >> THEN t ELSE Head(q)
      BY <3>1, <3>2, AppendQueue
    <3> QED BY <1>5, <2>2, <3>1, <3>3, <3>4 DEF q
  <2> QED BY <2>1, <2>2
<1>8. Holds(r, R, pri)
  BY <1>6, <1>7 DEF Holds
<1>9. ASSUME t # ready_queue_top(rq)
      PROVE  ready_queue_top(r) = ready_queue_top(rq)
  <2> DEFINE k == rq.top_priority
  <2>1. /\ ready_queue_top(rq) = Head(rq.tskque[k]) /\ k \in Pri
        /\ rq.tskque[k] # << >>
    BY TopProperties, R # {}
  <2>2. Head(ns[k]) = Head(rq.tskque[k])
    BY <1>7, <1>9, <2>1
  <2>3. ready_queue_top(r) = Head(r.tskque[r.top_priority])
    BY <1>8, TopProperties, R # {}
  <2> QED BY <1>6, <2>1, <2>2, <2>3
<1> QED BY <1>4, <1>6, <1>8, <1>9

\* Counting a slice touches no queue.
LEMMA SliceCount ==
  ASSUME NEW rq, NEW R \in SUBSET Tasks, NEW pri \in [Tasks -> Pri],
         Holds(rq, R, pri), NEW t \in Tasks, NEW n \in Nat
  PROVE  LET r == [rq EXCEPT !.slicecnt[t] = n]
         IN /\ Holds(r, R, pri)
            /\ ready_queue_top(r) = ready_queue_top(rq)
<1> DEFINE r == [rq EXCEPT !.slicecnt[t] = n]
<1>1. rq \in RDYQUE
  BY DEF Holds
<1>2. r \in RDYQUE
  BY <1>1 DEF RDYQUE
<1>3. /\ r.tskque = rq.tskque /\ r.bitmap = rq.bitmap
      /\ r.top_priority = rq.top_priority /\ r.klocktsk = rq.klocktsk
      /\ r.klocked = rq.klocked /\ r.klockwait = rq.klockwait
  BY <1>1 DEF RDYQUE
<1> HIDE DEF r
<1>4. Holds(r, R, pri)
  BY <1>2, <1>3 DEF Holds
<1>5. ready_queue_top(r) = ready_queue_top(rq)
  BY <1>3 DEF ready_queue_top
<1> QED BY <1>4, <1>5 DEF r

\* Only the priorities of the READY tasks matter.
LEMMA SamePriorities ==
  ASSUME NEW rq, NEW R \in SUBSET Tasks, NEW pri, NEW new,
         Holds(rq, R, pri), \A t \in R : new[t] = pri[t]
  PROVE  Holds(rq, R, new)
<1>1. \A p \in Pri : OfPri(R, new, p) = OfPri(R, pri, p)
  BY DEF OfPri
<1>2. {new[t] : t \in R} = {pri[t] : t \in R}
  OBVIOUS
<1>3. IsTop(rq.top_priority, R, new)
  BY DEF Holds, IsTop
<1> QED BY <1>1, <1>2, <1>3 DEF Holds

\* The queue of an idle system.
LEMMA Initialised ==
  ASSUME NEW pri \in [Tasks -> Pri]
  PROVE  Holds(ready_queue_initialize, {}, pri)
<1> DEFINE r == ready_queue_initialize
<1>1. r \in RDYQUE
  BY PriAssumption DEF ready_queue_initialize, RDYQUE, TCB
<1>2. /\ r.klocktsk = NULL /\ r.bitmap = {} /\ r.top_priority = NUM_PRI
      /\ \A t \in Tasks : ~r.klocked[t] /\ ~r.klockwait[t]
      /\ \A p \in Pri : r.tskque[p] = << >>
  BY DEF ready_queue_initialize
<1>3. IsQueue(<< >>, {})
  BY DEF IsQueue, IsInjective, Range
<1> HIDE DEF r
<1>4. \A p \in Pri : IsQueue(r.tskque[p], OfPri({}, pri, p))
  BY <1>2, <1>3 DEF OfPri
<1>5. r.bitmap = {pri[t] : t \in {}} /\ IsTop(r.top_priority, {}, pri)
  BY <1>2 DEF IsTop
<1>6. Holds(r, {}, pri)
  BY <1>1, <1>2, <1>4, <1>5 DEF Holds
<1> QED BY <1>6 DEF r

---------------------------------------------------------------------------
(* The tasks. *)

Ready(s) == {t \in Tasks : s[t] = "READY"}

\* TypeOK without the two variables Sched speaks of.
TcbOK ==
  /\ state \in [Tasks -> TSTAT]
  /\ ipriority \in [Tasks -> Pri]
  /\ priority \in [Tasks -> Pri]
  /\ wupcnt \in [Tasks -> 0 .. INT_MAX]
  /\ suscnt \in [Tasks -> 0 .. INT_MAX]
  /\ slicetime \in [Tasks -> SliceTimes]
  /\ ctxtsk \in TCB
  /\ dispatch_disabled \in DDS

\* The ready queue is that of the READY tasks and schedtsk its top.
Sched ==
  /\ Holds(ready_queue, Ready(state), priority)
  /\ SchedtskIsTop

\* RunnerIsReady where it does not follow from SchedtskIsTop.
DisabledRunner ==
  dispatch_disabled = "DISABLE" => ctxtsk # NULL /\ state[ctxtsk] = "READY"

IInv ==
  /\ TcbOK
  /\ Sched
  /\ SuspendNesting
  /\ NoLostWakeup
  /\ DisabledRunner

---------------------------------------------------------------------------

\* The types Sched implies.
LEMMA SchedTypes ==
  ASSUME NEW rq, NEW R \in SUBSET Tasks, NEW pri \in [Tasks -> Pri],
         Holds(rq, R, pri)
  PROVE  rq \in RDYQUE /\ ready_queue_top(rq) \in R \cup {NULL}
<1>1. rq \in RDYQUE
  BY DEF Holds
<1>2. ready_queue_top(rq) \in R \cup {NULL}
  BY TopProperties
<1> QED BY <1>1, <1>2

\* time_slice_schedule keeps the queue consistent, returns the new top when
\* it is given the top, and does not change the top otherwise.
LEMMA TimeSlice ==
  ASSUME NEW rq, NEW R \in SUBSET Tasks, NEW pri \in [Tasks -> Pri],
         Holds(rq, R, pri), NEW tcb \in R \cup {NULL},
         slicetime \in [Tasks -> SliceTimes]
  PROVE  LET s == time_slice_schedule(rq, tcb, pri)
         IN /\ Holds(s.rq, R, pri)
            /\ tcb # ready_queue_top(rq) =>
                 ready_queue_top(s.rq) = ready_queue_top(rq)
            /\ tcb = ready_queue_top(rq) => s.tcb = ready_queue_top(s.rq)
<1> DEFINE s == time_slice_schedule(rq, tcb, pri)
           n == rq.slicecnt[tcb] + TIMER_PERIOD
           moved == ready_queue_move_last(rq, tcb, pri[tcb])
           counted == [rq EXCEPT !.slicecnt[tcb] = n]
<1>1. CASE tcb = NULL \/ slicetime[tcb] = 0
  BY <1>1 DEF time_slice_schedule
<1>2. CASE tcb # NULL /\ slicetime[tcb] # 0 /\ n > slicetime[tcb]
  <2>1. /\ Holds(moved, R, pri)
        /\ moved.top_priority = rq.top_priority
        /\ tcb # ready_queue_top(rq) =>
             ready_queue_top(moved) = ready_queue_top(rq)
    BY <1>2, MoveLast
  <2>2. s = [rq |-> moved, tcb |-> Head(moved.tskque[pri[tcb]])]
    BY <1>2 DEF time_slice_schedule
  <2> HIDE DEF moved
  <2>3. ASSUME tcb = ready_queue_top(rq)
        PROVE  Head(moved.tskque[pri[tcb]]) = ready_queue_top(moved)
    <3>1. R # {} /\ pri[tcb] = rq.top_priority
      BY <1>2, <2>3, TopProperties
    <3>2. ready_queue_top(moved) = Head(moved.tskque[moved.top_priority])
      BY <2>1, <3>1, TopProperties
    <3> QED BY <2>1, <3>1, <3>2
  <2> HIDE DEF s
  <2>4. s.rq = moved /\ s.tcb = Head(moved.tskque[pri[tcb]])
    BY <2>2
  <2> QED BY <2>1, <2>3, <2>4 DEF s
<1>3. CASE tcb # NULL /\ slicetime[tcb] # 0 /\ ~(n > slicetime[tcb])
  <2>1. tcb \in Tasks /\ n \in Nat
    BY <1>3, SliceAssumption DEF Holds, RDYQUE
  <2>2. s = [rq |-> counted, tcb |-> tcb]
    BY <1>3 DEF time_slice_schedule
  <2> HIDE DEF n
  <2>3. Holds(counted, R, pri) /\ ready_queue_top(counted) = ready_queue_top(rq)
    BY <2>1, SliceCount
  <2> HIDE DEF s, counted
  <2>4. s.rq = counted /\ s.tcb = tcb
    BY <2>2
  <2> QED BY <2>3, <2>4 DEF s
<1> QED BY <1>1, <1>2, <1>3

\* A preempted task goes behind its peers without becoming or ceasing to be
\* the one to run.
LEMMA Preempt ==
  ASSUME NEW rq, NEW R \in SUBSET Tasks, NEW pri \in [Tasks -> Pri],
         Holds(rq, R, pri), schedtsk \in R \cup {NULL},
         schedtsk # ready_queue_top(rq), slicetime \in [Tasks -> SliceTimes]
  PROVE  /\ Holds(preempt(rq, pri), R, pri)
         /\ ready_queue_top(preempt(rq, pri)) = ready_queue_top(rq)
<1> DEFINE s == time_slice_schedule(rq, schedtsk, pri)
<1>1. Holds(s.rq, R, pri) /\ ready_queue_top(s.rq) = ready_queue_top(rq)
  BY TimeSlice
<1> HIDE DEF s
<1>2. preempt(rq, pri) = IF schedtsk = ctxtsk THEN s.rq ELSE rq
  BY DEF preempt, s
<1> QED BY <1>1, <1>2

\* reschedule.
LEMMA Reschedule ==
  ASSUME NEW rq, NEW R \in SUBSET Tasks, NEW pri \in [Tasks -> Pri],
         Holds(rq, R, pri), schedtsk \in R \cup {NULL},
         slicetime \in [Tasks -> SliceTimes]
  PROVE  LET top == ready_queue_top(rq)
             new == IF schedtsk # top THEN preempt(rq, pri) ELSE rq
         IN Holds(new, R, pri) /\ ready_queue_top(new) = top
BY Preempt

---------------------------------------------------------------------------

\* make_ready, for a task that is not READY.
LEMMA MakeReady ==
  ASSUME IInv, NEW t \in Tasks, state[t] # "READY", make_ready(t),
         priority' = priority
  PROVE  Sched'
<1> DEFINE R == Ready(state)
           rq == ready_queue_insert(ready_queue, t, priority[t])
           raises == priority[t] < ready_queue.top_priority
<1>1. /\ Holds(ready_queue, R, priority) /\ schedtsk = ready_queue_top(ready_queue)
      /\ R \in SUBSET Tasks /\ priority \in [Tasks -> Pri] /\ t \in Tasks \ R
      /\ slicetime \in [Tasks -> SliceTimes]
  BY DEF IInv, Sched, SchedtskIsTop, TcbOK, Ready
<1>2. Ready(state') = R \cup {t}
  BY DEF make_ready, Ready, IInv, TcbOK
<1>3. schedtsk \in R \cup {NULL}
  BY <1>1, SchedTypes
<1> HIDE DEF R
<1>4. /\ Holds(rq, R \cup {t}, priority)
      /\ ready_queue_top(rq) = IF raises THEN t ELSE schedtsk
  BY <1>1, Insert
<1>5. /\ ready_queue' = IF raises THEN preempt(rq, priority) ELSE rq
      /\ schedtsk' = IF raises THEN t ELSE schedtsk
  BY DEF make_ready, ready_queue_insert_raises
<1> HIDE DEF rq, raises
<1>6. CASE raises
  <2>1. schedtsk # t /\ schedtsk \in (R \cup {t}) \cup {NULL}
    BY <1>1, <1>3, NullAssumption
  <2>2. R \cup {t} \in SUBSET Tasks
    BY <1>1
  <2>3. /\ Holds(preempt(rq, priority), R \cup {t}, priority)
        /\ ready_queue_top(preempt(rq, priority)) = t
    BY <1>1, <1>4, <1>6, <2>1, <2>2, Preempt
  <2> QED BY <1>2, <1>5, <1>6, <2>3 DEF Sched, SchedtskIsTop
<1>7. CASE ~raises
  BY <1>2, <1>4, <1>5, <1>7 DEF Sched, SchedtskIsTop
<1> QED BY <1>6, <1>7

\* make_non_ready, for a task that is READY and will no longer be.
LEMMA MakeNonReady ==
  ASSUME IInv, NEW t \in Tasks, state[t] = "READY", make_non_ready(t),
         Ready(state') = Ready(state) \ {t},
         \A u \in Ready(state) \ {t} : priority'[u] = priority[u]
  PROVE  Sched'
<1> DEFINE R == Ready(state)
           rq == ready_queue_delete(ready_queue, t, priority[t])
<1>1. /\ Holds(ready_queue, R, priority) /\ schedtsk = ready_queue_top(ready_queue)
      /\ R \in SUBSET Tasks /\ priority \in [Tasks -> Pri] /\ t \in R
  BY DEF IInv, Sched, SchedtskIsTop, TcbOK, Ready
<1> HIDE DEF R
<1>2. /\ Holds(rq, R \ {t}, priority)
      /\ t # schedtsk => ready_queue_top(rq) = schedtsk
  BY <1>1, Delete
<1>3. ready_queue' = rq /\ schedtsk' = ready_queue_top(rq)
  BY <1>2 DEF make_non_ready
<1> HIDE DEF rq
<1>4. Holds(rq, R \ {t}, priority')
  <2>1. R \ {t} \in SUBSET Tasks
    BY <1>1
  <2>2. \A u \in R \ {t} : priority'[u] = priority[u]
    BY DEF R
  <2> QED BY <1>2, <2>1, <2>2, SamePriorities
<1> QED BY <1>3, <1>4 DEF Sched, SchedtskIsTop, R

\* A step that makes no task READY or not READY.
LEMMA SameReady ==
  ASSUME IInv, Ready(state') = Ready(state), UNCHANGED <<ready_queue, schedtsk>>,
         \A u \in Ready(state) : priority'[u] = priority[u]
  PROVE  Sched'
<1>1. Holds(ready_queue, Ready(state), priority) /\ Ready(state) \in SUBSET Tasks
  BY DEF IInv, Sched, Ready
<1>2. Holds(ready_queue, Ready(state), priority')
  BY <1>1, SamePriorities
<1> QED BY <1>2 DEF Sched, SchedtskIsTop, IInv

\* change_task_priority.
LEMMA ChangePriority ==
  ASSUME IInv, NEW t \in Tasks, NEW p \in Pri, change_task_priority(t, p)
  PROVE  Sched'
<1> DEFINE R == Ready(state)
           pri == [priority EXCEPT ![t] = p]
           S == R \ {t}
           deleted == ready_queue_delete(ready_queue, t, priority[t])
           rq == ready_queue_insert(deleted, t, p)
<1>1. /\ Holds(ready_queue, R, priority) /\ schedtsk = ready_queue_top(ready_queue)
      /\ R \in SUBSET Tasks /\ S \in SUBSET Tasks
      /\ priority \in [Tasks -> Pri] /\ pri \in [Tasks -> Pri]
      /\ slicetime \in [Tasks -> SliceTimes]
  BY DEF IInv, Sched, SchedtskIsTop, TcbOK, Ready
<1>2. priority' = pri /\ Ready(state') = R
  BY DEF change_task_priority
<1>3. CASE state[t] # "READY"
  <2>1. UNCHANGED <<ready_queue, schedtsk>>
    BY <1>3 DEF change_task_priority
  <2>2. \A u \in R : priority'[u] = priority[u]
    BY <1>1, <1>2, <1>3 DEF Ready
  <2> QED BY <1>2, <2>1, <2>2, SameReady
<1>4. CASE state[t] = "READY"
  <2>1. t \in R /\ t \in Tasks \ S /\ S \cup {t} = R
    BY <1>4 DEF Ready
  <2>2. reschedule(rq, priority')
    BY <1>4 DEF change_task_priority
  <2>3. schedtsk \in R \cup {NULL}
    BY <1>1, SchedTypes
  <2>4. \A u \in S : pri[u] = priority[u]
    BY <1>1
  <2>5. pri[t] = p
    BY <1>1
  <2> HIDE DEF R, S, pri
  <2>6. Holds(deleted, R \ {t}, priority)
    BY <1>1, <2>1, Delete
  <2>7. Holds(deleted, S, pri)
    <3> HIDE DEF deleted
    <3>1. Holds(deleted, S, priority)
      BY <2>6 DEF S
    <3> QED BY <1>1, <2>4, <3>1, SamePriorities
  <2> HIDE DEF deleted
  <2>8. Holds(ready_queue_insert(deleted, t, pri[t]), S \cup {t}, pri)
    BY <1>1, <2>1, <2>7, Insert
  <2>9. Holds(rq, R, pri)
    BY <2>1, <2>5, <2>8
  <2>10. /\ ready_queue' = IF schedtsk # ready_queue_top(rq)
                           THEN preempt(rq, pri) ELSE rq
         /\ schedtsk' = ready_queue_top(rq)
    BY <1>2, <2>2 DEF reschedule
  <2> HIDE DEF rq
  <2>11. Holds(ready_queue', R, pri) /\ ready_queue_top(ready_queue') = schedtsk'
    BY <1>1, <2>3, <2>9, <2>10, Reschedule
  <2> QED BY <1>2, <2>11 DEF Sched, SchedtskIsTop
<1> QED BY <1>3, <1>4

\* tk_rot_rdq.
LEMMA RotateReady ==
  ASSUME IInv, NEW p \in Pri,
         reschedule(ready_queue_rotate(ready_queue, p), priority),
         UNCHANGED <<state, priority>>
  PROVE  Sched'
<1> DEFINE R == Ready(state)
           rq == ready_queue_rotate(ready_queue, p)
<1>1. /\ Holds(ready_queue, R, priority) /\ schedtsk = ready_queue_top(ready_queue)
      /\ R \in SUBSET Tasks /\ priority \in [Tasks -> Pri]
      /\ slicetime \in [Tasks -> SliceTimes]
  BY DEF IInv, Sched, SchedtskIsTop, TcbOK, Ready
<1> HIDE DEF R
<1>2. Holds(rq, R, priority)
  BY <1>1, Rotate
<1>3. /\ ready_queue' = IF schedtsk # ready_queue_top(rq)
                        THEN preempt(rq, priority) ELSE rq
      /\ schedtsk' = ready_queue_top(rq)
  BY DEF reschedule
<1> HIDE DEF rq
<1>4. schedtsk \in R \cup {NULL}
  BY <1>1, SchedTypes
<1>5. Holds(ready_queue', R, priority) /\ ready_queue_top(ready_queue') = schedtsk'
  BY <1>1, <1>2, <1>3, <1>4, Reschedule
<1> QED BY <1>5 DEF Sched, SchedtskIsTop, R

\* The slice step of the timer handler.
LEMMA TimerSlice ==
  ASSUME IInv, timer_handler
  PROVE  Sched'
<1> DEFINE R == Ready(state)
           s == time_slice_schedule(ready_queue, ctxtsk, priority)
<1>1. /\ Holds(ready_queue, R, priority) /\ schedtsk = ready_queue_top(ready_queue)
      /\ R \in SUBSET Tasks /\ priority \in [Tasks -> Pri]
      /\ slicetime \in [Tasks -> SliceTimes]
      /\ UNCHANGED <<state, priority>>
  BY DEF IInv, Sched, SchedtskIsTop, TcbOK, Ready, timer_handler, tcbvars
<1>2. CASE ctxtsk # NULL /\ schedtsk = ctxtsk
  <2>1. ctxtsk \in R \cup {NULL}
    BY <1>1, <1>2, SchedTypes
  <2>2. ready_queue' = s.rq /\ schedtsk' = s.tcb
    BY <1>2 DEF timer_handler
  <2> HIDE DEF R
  <2>3. /\ Holds(s.rq, R, priority)
        /\ ctxtsk = ready_queue_top(ready_queue) =>
             s.tcb = ready_queue_top(s.rq)
    BY <1>1, <2>1, TimeSlice
  <2> HIDE DEF s
  <2> QED BY <1>1, <1>2, <2>2, <2>3 DEF Sched, SchedtskIsTop, R
<1>3. CASE ~(ctxtsk # NULL /\ schedtsk = ctxtsk)
  <2>1. UNCHANGED <<ready_queue, schedtsk>>
    BY <1>3 DEF timer_handler
  <2> QED BY <1>1, <2>1, SameReady
<1> QED BY <1>2, <1>3

\* The task that runs is READY, the scheduled task is a task that is READY.
LEMMA Runner ==
  ASSUME IInv
  PROVE  /\ schedtsk \in Ready(state) \cup {NULL}
         /\ RunnerIsReady
         /\ InTask => ctxtsk \in Tasks
<1>1. schedtsk = ready_queue_top(ready_queue)
  BY DEF IInv, Sched, SchedtskIsTop
<1>2. schedtsk \in Ready(state) \cup {NULL}
  <2>1. /\ Holds(ready_queue, Ready(state), priority)
        /\ Ready(state) \in SUBSET Tasks /\ priority \in [Tasks -> Pri]
    BY DEF IInv, Sched, TcbOK, Ready
  <2> QED BY <1>1, <2>1, SchedTypes
<1> QED BY <1>2 DEF RunnerIsReady, InTask, DisabledRunner, IInv, TcbOK, TCB, Ready

\* The parts of the invariant other than Sched.
Rest ==
  /\ TcbOK
  /\ SuspendNesting
  /\ NoLostWakeup
  /\ DisabledRunner

---------------------------------------------------------------------------

\* Initially.
LEMMA InitIInv == Init => IInv
<1> SUFFICES ASSUME Init PROVE IInv
  OBVIOUS
<1> USE PriAssumption, IntMaxAssumption, SliceAssumption, NullAssumption
<1>1. PICK t \in Tasks, p \in Pri :
        /\ state = [u \in Tasks |-> IF u = t THEN "READY" ELSE "NONEXIST"]
        /\ ipriority = [u \in Tasks |-> IF u = t THEN p ELSE 0]
        /\ priority = ipriority
        /\ wupcnt = [u \in Tasks |-> 0]
        /\ suscnt = [u \in Tasks |-> 0]
        /\ slicetime = [u \in Tasks |-> 0]
        /\ ready_queue = ready_queue_insert(ready_queue_initialize, t, p)
        /\ schedtsk = t
        /\ ctxtsk = NULL
        /\ dispatch_disabled = "DISABLE_IMPLICIT"
  BY DEF Init
<1>2. TcbOK
  BY <1>1 DEF TcbOK, TSTAT, Pri, TCB, DDS
<1>3. SuspendNesting /\ NoLostWakeup /\ DisabledRunner
  BY <1>1 DEF SuspendNesting, NoLostWakeup, DisabledRunner, Waiting
<1>4. Sched
  <2> DEFINE idle == ready_queue_initialize
             R == {}
  <2>1. priority \in [Tasks -> Pri] /\ priority[t] = p /\ Ready(state) = R \cup {t}
    BY <1>1, <1>2 DEF TcbOK, Ready
  <2>2. Holds(idle, R, priority)
    BY <2>1, Initialised
  <2>3. R \in SUBSET Tasks /\ t \in Tasks \ R
    OBVIOUS
  <2>4. idle.top_priority = NUM_PRI /\ p < NUM_PRI
    BY DEF ready_queue_initialize, Pri
  <2> HIDE DEF idle, R
  <2>5. /\ Holds(ready_queue_insert(idle, t, priority[t]), R \cup {t}, priority)
        /\ ready_queue_top(ready_queue_insert(idle, t, priority[t])) =
             IF priority[t] < idle.top_priority THEN t ELSE ready_queue_top(idle)
    BY <2>1, <2>2, <2>3, Insert
  <2>6. ready_queue = ready_queue_insert(idle, t, priority[t]) /\ schedtsk = t
    BY <1>1, <2>1 DEF idle
  <2> QED BY <2>1, <2>4, <2>5, <2>6 DEF Sched, SchedtskIsTop
<1> QED BY <1>2, <1>3, <1>4 DEF IInv

\* Every step.  Each action first preserves the consistency of the scheduler,
\* then the relations between the other fields.
LEMMA NextIInv == IInv /\ [Next]_vars => IInv'
<1> SUFFICES ASSUME IInv, [Next]_vars PROVE Sched' /\ Rest'
  BY DEF IInv, Rest
<1> USE PriAssumption, IntMaxAssumption, SliceAssumption, NullAssumption
        DEF Rest
<1>0. /\ TcbOK /\ SuspendNesting /\ NoLostWakeup /\ DisabledRunner
      /\ RunnerIsReady /\ (InTask => ctxtsk \in Tasks)
      /\ schedtsk \in Ready(state) \cup {NULL}
  BY Runner DEF IInv
<1>1. ASSUME NEW t \in Tasks, NEW c \in Caller, tk_sta_tsk(c, t)
      PROVE  Sched' /\ Rest'
  <2>1. Sched'
    BY <1>0, <1>1, MakeReady DEF tk_sta_tsk, tcbvars
  <2>2. Rest'
    BY <1>0, <1>1 DEF tk_sta_tsk, make_ready, tcbvars, cpuvars, TcbOK,
       SuspendNesting, NoLostWakeup, DisabledRunner, Waiting, TSTAT
  <2> QED BY <2>1, <2>2
<1>2. ASSUME NEW t \in Tasks, Waiting(t), make_non_wait(t),
             UNCHANGED <<ipriority, priority, suscnt, slicetime, cpuvars, wupcnt>>
      PROVE  Sched' /\ Rest'
  <2>1. Sched'
    <3>1. CASE state[t] = "WAIT"
      BY <1>2, <3>1, MakeReady DEF make_non_wait
    <3>2. CASE state[t] = "WAITSUS"
      <4>1. Ready(state') = Ready(state)
        BY <1>0, <1>2, <3>2 DEF make_non_wait, Ready, TcbOK
      <4> QED BY <1>2, <3>2, <4>1, SameReady DEF make_non_wait
    <3> QED BY <1>2, <3>1, <3>2 DEF Waiting
  <2>2. state' = [state EXCEPT ![t] = IF @ = "WAIT" THEN "READY" ELSE "SUSPEND"]
    BY <1>2 DEF make_non_wait, make_ready
  <2>3. TcbOK'
    BY <1>0, <1>2, <2>2 DEF cpuvars, TcbOK, TSTAT, Waiting
  <2>4. SuspendNesting'
    BY <1>0, <1>2, <2>2 DEF SuspendNesting, TcbOK, Waiting
  <2>5. NoLostWakeup'
    BY <1>0, <1>2, <2>2 DEF NoLostWakeup, Waiting, TcbOK
  <2>6. DisabledRunner'
    BY <1>0, <1>2, <2>2 DEF cpuvars, DisabledRunner, TcbOK, Waiting
  <2> QED BY <2>1, <2>3, <2>4, <2>5, <2>6
<1>3. ASSUME NEW t \in Tasks, NEW c \in Caller, tk_rel_wai(c, t)
      PROVE  Sched' /\ Rest'
  BY <1>2, <1>3 DEF tk_rel_wai, tcbvars
<1>4. ASSUME NEW t \in Tasks, NEW c \in Caller, tk_sus_tsk(c, t)
      PROVE  Sched' /\ Rest'
  <2>1. Sched'
    <3>1. CASE state[t] = "READY"
      <4>1. Ready(state') = Ready(state) \ {t}
        BY <1>0, <1>4, <3>1 DEF tk_sus_tsk, Ready, TcbOK
      <4> QED BY <1>4, <3>1, <4>1, MakeNonReady DEF tk_sus_tsk
    <3>2. CASE state[t] # "READY"
      <4>1. Ready(state') = Ready(state)
        BY <1>0, <1>4, <3>2 DEF tk_sus_tsk, Ready, TcbOK
      <4> QED BY <1>4, <3>2, <4>1, SameReady DEF tk_sus_tsk
    <3> QED BY <3>1, <3>2
  <2>2. state' = [state EXCEPT ![t] = IF @ = "READY" THEN "SUSPEND"
                                       ELSE IF @ = "WAIT" THEN "WAITSUS" ELSE @]
    BY <1>4 DEF tk_sus_tsk
  <2>3. TcbOK'
    BY <1>0, <1>4, <2>2 DEF cpuvars, TcbOK, TSTAT, tk_sus_tsk, suspendable,
       task_alive
  <2>4. SuspendNesting'
    BY <1>0, <1>4, <2>2 DEF SuspendNesting, TcbOK, tk_sus_tsk, suspendable,
       task_alive
  <2>5. NoLostWakeup'
    BY <1>0, <1>4, <2>2 DEF NoLostWakeup, Waiting, TcbOK, tk_sus_tsk, suspendable,
       task_alive
  <2>6. DisabledRunner'
    BY <1>0, <1>4, <2>2 DEF cpuvars, DisabledRunner, TcbOK, tk_sus_tsk, suspendable,
       task_alive
  <2> QED BY <2>1, <2>3, <2>4, <2>5, <2>6
<1>5. ASSUME NEW t \in Tasks, state[t] \in {"SUSPEND", "WAITSUS"}, resume(t),
             suscnt' = [suscnt EXCEPT ![t] = 0],
             UNCHANGED <<ipriority, priority, wupcnt, slicetime, cpuvars>>
      PROVE  Sched' /\ Rest'
  <2>1. Sched'
    <3>1. CASE state[t] = "SUSPEND"
      BY <1>5, <3>1, MakeReady DEF resume
    <3>2. CASE state[t] = "WAITSUS"
      <4>1. Ready(state') = Ready(state)
        BY <1>0, <1>5, <3>2 DEF resume, Ready, TcbOK
      <4> QED BY <1>5, <3>2, <4>1, SameReady DEF resume
    <3> QED BY <1>5, <3>1, <3>2
  <2>2. state' = [state EXCEPT ![t] = IF @ = "SUSPEND" THEN "READY" ELSE "WAIT"]
    BY <1>5 DEF resume, make_ready
  <2>3. TcbOK'
    BY <1>0, <1>5, <2>2 DEF cpuvars, TcbOK, TSTAT
  <2>4. SuspendNesting'
    BY <1>0, <1>5, <2>2 DEF SuspendNesting, TcbOK
  <2>5. NoLostWakeup'
    BY <1>0, <1>5, <2>2 DEF NoLostWakeup, Waiting, TcbOK
  <2>6. DisabledRunner'
    BY <1>0, <1>5, <2>2 DEF cpuvars, DisabledRunner, TcbOK
  <2> QED BY <2>1, <2>3, <2>4, <2>5, <2>6
<1>6. ASSUME NEW t \in Tasks, NEW c \in Caller, tk_frsm_tsk(c, t)
      PROVE  Sched' /\ Rest'
  BY <1>5, <1>6 DEF tk_frsm_tsk
<1>7. ASSUME NEW t \in Tasks, NEW c \in Caller, tk_rsm_tsk(c, t)
      PROVE  Sched' /\ Rest'
  <2>1. CASE suscnt[t] = 1
    <3>1. suscnt' = [suscnt EXCEPT ![t] = 0]
      BY <1>0, <1>7, <2>1 DEF tk_rsm_tsk, TcbOK
    <3> QED BY <1>5, <1>7, <2>1, <3>1 DEF tk_rsm_tsk
  <2>2. CASE suscnt[t] # 1
    <3>1. Sched'
      BY <1>7, <2>2, SameReady DEF tk_rsm_tsk
    <3>2. Rest'
      BY <1>0, <1>7, <2>2 DEF tk_rsm_tsk, cpuvars, TcbOK, SuspendNesting,
         NoLostWakeup, DisabledRunner, Waiting
    <3> QED BY <3>1, <3>2
  <2> QED BY <2>1, <2>2
<1>8. ASSUME NEW t \in Tasks, NEW c \in Caller, tk_wup_tsk(c, t)
      PROVE  Sched' /\ Rest'
  <2>1. CASE sleeping(t)
    BY <1>2, <1>8, <2>1 DEF tk_wup_tsk, sleeping
  <2>2. CASE ~sleeping(t)
    <3>1. Sched'
      BY <1>8, <2>2, SameReady DEF tk_wup_tsk
    <3>2. Rest'
      BY <1>0, <1>8, <2>2 DEF tk_wup_tsk, sleeping, queue_wakeup, cpuvars,
         TcbOK, SuspendNesting, NoLostWakeup, DisabledRunner, Waiting
    <3> QED BY <3>1, <3>2
  <2> QED BY <2>1, <2>2
<1>9. ASSUME NEW t \in Tasks, NEW c \in Caller, tk_can_wup(c, t)
      PROVE  Sched' /\ Rest'
  <2>1. Sched'
    BY <1>9, SameReady DEF tk_can_wup
  <2>2. Rest'
    BY <1>0, <1>9 DEF tk_can_wup, cpuvars, TcbOK, SuspendNesting,
       NoLostWakeup, DisabledRunner, Waiting
  <2> QED BY <2>1, <2>2
<1>10. ASSUME NEW t \in Tasks, NEW c \in Caller, NEW p \in Pri,
              tk_chg_pri(c, t, p)
       PROVE  Sched' /\ Rest'
  <2>1. Sched'
    BY <1>10, ChangePriority DEF tk_chg_pri
  <2>2. Rest'
    BY <1>0, <1>10 DEF tk_chg_pri, change_task_priority, cpuvars, TcbOK,
       SuspendNesting, NoLostWakeup, DisabledRunner, Waiting
  <2> QED BY <2>1, <2>2
<1>11. ASSUME NEW t \in Tasks, NEW c \in Caller, NEW slt \in SliceTimes,
              tk_chg_slt_u(c, t, slt)
       PROVE  Sched' /\ Rest'
  <2>1. Sched'
    BY <1>11, SameReady DEF tk_chg_slt_u
  <2>2. Rest'
    BY <1>0, <1>11 DEF tk_chg_slt_u, cpuvars, TcbOK, SuspendNesting,
       NoLostWakeup, DisabledRunner, Waiting
  <2> QED BY <2>1, <2>2
<1>12. ASSUME NEW c \in Caller, NEW p \in Pri, tk_rot_rdq(c, p)
       PROVE  Sched' /\ Rest'
  <2>1. Sched'
    BY <1>12, RotateReady DEF tk_rot_rdq, tcbvars
  <2>2. Rest'
    BY <1>0, <1>12 DEF tk_rot_rdq, tcbvars, cpuvars, TcbOK, SuspendNesting,
       NoLostWakeup, DisabledRunner, Waiting
  <2> QED BY <2>1, <2>2
<1>13. ASSUME NEW t \in Tasks, NEW p \in Pri, tk_cre_tsk(t, p)
       PROVE  Sched' /\ Rest'
  <2>1. Ready(state') = Ready(state) /\ t \notin Ready(state)
    BY <1>0, <1>13 DEF tk_cre_tsk, make_dormant, Ready, TcbOK
  <2>2. Sched'
    BY <1>0, <1>13, <2>1, SameReady DEF tk_cre_tsk, make_dormant, TcbOK, Ready
  <2>3. Rest'
    BY <1>0, <1>13 DEF tk_cre_tsk, make_dormant, cpuvars, TcbOK, TSTAT,
       SuspendNesting, NoLostWakeup, DisabledRunner, Waiting
  <2> QED BY <2>2, <2>3
<1>14. ASSUME NEW t \in Tasks, tk_del_tsk(t)
       PROVE  Sched' /\ Rest'
  <2>1. Ready(state') = Ready(state)
    BY <1>0, <1>14 DEF tk_del_tsk, Ready, TcbOK
  <2>2. Sched'
    BY <1>14, <2>1, SameReady DEF tk_del_tsk, tcbvars
  <2>3. Rest'
    BY <1>0, <1>14 DEF tk_del_tsk, tcbvars, cpuvars, TcbOK, TSTAT,
       SuspendNesting, NoLostWakeup, DisabledRunner, Waiting
  <2> QED BY <2>2, <2>3
<1>15. ASSUME NEW t \in Tasks, task_alive(t), ter_tsk(t),
              state'[t] \in {"DORMANT", "NONEXIST"},
              state' = [state EXCEPT ![t] = state'[t]],
              \A u \in Tasks \ {t} : priority'[u] = priority[u]
       PROVE  Sched'
  <2>1. Ready(state') = Ready(state) \ {t}
    BY <1>0, <1>15 DEF Ready, TcbOK
  <2>2. CASE state[t] = "READY"
    <3>1. make_non_ready(t)
      BY <1>15, <2>2 DEF ter_tsk
    <3>2. \A u \in Ready(state) \ {t} : priority'[u] = priority[u]
      BY <1>15 DEF Ready
    <3> QED BY <2>1, <2>2, <3>1, <3>2, MakeNonReady
  <2>3. CASE state[t] # "READY"
    <3>1. UNCHANGED <<ready_queue, schedtsk>>
      BY <1>15, <2>3 DEF ter_tsk
    <3>2. t \notin Ready(state)
      BY <2>3 DEF Ready
    <3>3. \A u \in Ready(state) : priority'[u] = priority[u]
      BY <1>15, <3>2 DEF Ready
    <3> QED BY <2>1, <3>1, <3>2, <3>3, SameReady
  <2> QED BY <2>2, <2>3
<1>16. ASSUME NEW t \in Tasks, tk_ter_tsk(t)
       PROVE  Sched' /\ Rest'
  <2>1. /\ state' = [state EXCEPT ![t] = "DORMANT"] /\ state'[t] = "DORMANT"
        /\ \A u \in Tasks \ {t} : priority'[u] = priority[u]
    BY <1>0, <1>16 DEF tk_ter_tsk, make_dormant, TcbOK
  <2>2. Sched'
    BY <1>15, <1>16, <2>1 DEF tk_ter_tsk
  <2>3. Rest'
    BY <1>0, <1>16 DEF tk_ter_tsk, make_dormant, cpuvars, TcbOK, TSTAT,
       SuspendNesting, NoLostWakeup, DisabledRunner, Waiting
  <2> QED BY <2>2, <2>3
<1>17. CASE tk_ext_tsk
  <2>1. ctxtsk \in Tasks /\ task_alive(ctxtsk)
    BY <1>0, <1>17 DEF tk_ext_tsk, RunnerIsReady, task_alive
  <2>2. /\ state' = [state EXCEPT ![ctxtsk] = "DORMANT"]
        /\ state'[ctxtsk] = "DORMANT"
        /\ \A u \in Tasks \ {ctxtsk} : priority'[u] = priority[u]
    BY <1>0, <1>17, <2>1 DEF tk_ext_tsk, make_dormant, TcbOK
  <2>3. Sched'
    BY <1>15, <1>17, <2>1, <2>2 DEF tk_ext_tsk
  <2>4. Rest'
    BY <1>0, <1>17, <2>1 DEF tk_ext_tsk, make_dormant, force_dispatch, TcbOK,
       TSTAT, TCB, DDS, SuspendNesting, NoLostWakeup, DisabledRunner, Waiting
  <2> QED BY <2>3, <2>4
<1>18. CASE tk_exd_tsk
  <2>1. ctxtsk \in Tasks /\ task_alive(ctxtsk) /\ state[ctxtsk] = "READY"
    BY <1>0, <1>18 DEF tk_exd_tsk, RunnerIsReady, task_alive
  <2>2. /\ state' = [state EXCEPT ![ctxtsk] = "NONEXIST"]
        /\ state'[ctxtsk] = "NONEXIST"
        /\ \A u \in Tasks \ {ctxtsk} : priority'[u] = priority[u]
    BY <1>0, <1>18, <2>1 DEF tk_exd_tsk, tcbvars, TcbOK
  <2>3. Sched'
    BY <1>15, <1>18, <2>1, <2>2 DEF tk_exd_tsk
  <2>4. Rest'
    BY <1>0, <1>18, <2>1 DEF tk_exd_tsk, tcbvars, force_dispatch, TcbOK,
       TSTAT, TCB, DDS, SuspendNesting, NoLostWakeup, DisabledRunner, Waiting
  <2> QED BY <2>3, <2>4
<1>19. CASE tk_slp_tsk_u
  <2>1. ctxtsk \in Tasks /\ state[ctxtsk] = "READY"
    BY <1>0, <1>19 DEF tk_slp_tsk_u, RunnerIsReady
  <2>2. Sched'
    <3>1. CASE wupcnt[ctxtsk] > 0
      BY <1>19, <3>1, SameReady DEF tk_slp_tsk_u
    <3>2. CASE ~(wupcnt[ctxtsk] > 0)
      <4>1. Ready(state') = Ready(state) \ {ctxtsk}
        BY <1>0, <1>19, <2>1, <3>2 DEF tk_slp_tsk_u, Ready, TcbOK
      <4> QED BY <1>19, <2>1, <3>2, <4>1, MakeNonReady DEF tk_slp_tsk_u
    <3> QED BY <3>1, <3>2
  <2>3. Rest'
    BY <1>0, <1>19, <2>1 DEF tk_slp_tsk_u, cpuvars, TcbOK, TSTAT,
       SuspendNesting, NoLostWakeup, DisabledRunner, Waiting
  <2> QED BY <2>2, <2>3
<1>20. CASE timer_handler
  <2>1. Sched'
    BY <1>20, TimerSlice
  <2>2. Rest'
    BY <1>0, <1>20 DEF timer_handler, tcbvars, cpuvars, TcbOK, SuspendNesting,
       NoLostWakeup, DisabledRunner, Waiting
  <2> QED BY <2>1, <2>2
<1>21. ASSUME NEW t \in Tasks, wait_release_tmout(t)
       PROVE  Sched' /\ Rest'
  BY <1>2, <1>21 DEF wait_release_tmout, tcbvars
<1>22. CASE tk_dis_dsp \/ tk_ena_dsp \/ Dispatcher
  <2>1. UNCHANGED <<state, tcbvars, ready_queue, schedtsk>>
    BY <1>22 DEF tk_dis_dsp, tk_ena_dsp, Dispatcher, dispatch_entry,
       dispatch_save, dispatch_to_schedtsk
  <2>2. Sched'
    BY <2>1, SameReady DEF tcbvars
  <2>3. Rest'
    BY <1>0, <1>22, <2>1 DEF tk_dis_dsp, tk_ena_dsp, Dispatcher,
       dispatch_entry, dispatch_save, dispatch_to_schedtsk, InTask,
       RunnerIsReady, tcbvars, TcbOK, TCB, DDS, SuspendNesting, NoLostWakeup,
       DisabledRunner, Waiting, Ready
  <2> QED BY <2>2, <2>3
<1>23. CASE UNCHANGED vars
  <2>1. Sched'
    BY <1>23, SameReady DEF vars, tcbvars
  <2>2. Rest'
    BY <1>0, <1>23 DEF vars, tcbvars, cpuvars, TcbOK, SuspendNesting,
       NoLostWakeup, DisabledRunner, Waiting
  <2> QED BY <2>1, <2>2
<1>24. ASSUME NEW c \in Caller, Calls(c) PROVE Sched' /\ Rest'
  BY <1>1, <1>3, <1>4, <1>6, <1>7, <1>8, <1>9, <1>10, <1>11, <1>12, <1>24
     DEF Calls
<1>25. CASE TaskCalls
  BY <1>13, <1>14, <1>16, <1>17, <1>18, <1>19, <1>22, <1>25 DEF TaskCalls
<1>26. CASE TimerInterrupt
  BY <1>20, <1>21, <1>26 DEF TimerInterrupt
<1> QED BY <1>22, <1>23, <1>24, <1>25, <1>26 DEF Next, Caller

---------------------------------------------------------------------------

\* The inductive invariant, and each property of the runs it contains.
THEOREM Inductive == Spec => []IInv
BY InitIInv, NextIInv, PTL DEF Spec

\* Every variable keeps its type.
THEOREM TypeCorrect == Spec => []TypeOK
<1>1. IInv => TypeOK
  BY Runner DEF IInv, Sched, Holds, TcbOK, TypeOK, TCB, Ready
<1> QED BY <1>1, Inductive, PTL

\* The ready queue, its bitmap and its top priority describe the READY tasks
\* after every call, interrupt and dispatch.
THEOREM ReadyQueueCorrect == Spec => []ReadyQueueConsistent
<1>1. IInv => ReadyQueueConsistent
  BY HoldsConsistent DEF IInv, Sched, TcbOK, ReadyQueueConsistent, Ready
<1> QED BY <1>1, Inductive, PTL

\* The incremental updates of schedtsk never leave it behind the queue.
THEOREM ScheduleCorrect == Spec => []SchedtskIsTop
<1>1. IInv => SchedtskIsTop
  BY DEF IInv, Sched
<1> QED BY <1>1, Inductive, PTL

\* The code of a task runs only while the task is READY.
THEOREM RunnerCorrect == Spec => []RunnerIsReady
<1>1. IInv => RunnerIsReady
  BY Runner
<1> QED BY <1>1, Inductive, PTL

\* Suspend requests nest.
THEOREM SuspendCorrect == Spec => []SuspendNesting
<1>1. IInv => SuspendNesting
  BY DEF IInv
<1> QED BY <1>1, Inductive, PTL

\* No wakeup request is lost.
THEOREM WakeupCorrect == Spec => []NoLostWakeup
<1>1. IInv => NoLostWakeup
  BY DEF IInv
<1> QED BY <1>1, Inductive, PTL

\* With dispatching disabled no handler takes the processor from its task.
THEOREM DispatchDisabled == Spec => DisabledDispatchKeepsRunner
<1> DEFINE A == dispatch_disabled = "DISABLE" /\ ctxtsk' # ctxtsk
                  => state'[ctxtsk] \in {"DORMANT", "NONEXIST"}
<1>1. IInv /\ [Next]_vars => [A]_vars
  <2> SUFFICES ASSUME IInv, Next, dispatch_disabled = "DISABLE", ctxtsk' # ctxtsk
               PROVE  state'[ctxtsk] \in {"DORMANT", "NONEXIST"}
    OBVIOUS
  <2>1. tk_ext_tsk \/ tk_exd_tsk
    <3>1. ~Dispatcher
      BY DEF Dispatcher, dispatch_entry, dispatch_save, dispatch_to_schedtsk
    <3>2. \A c \in Caller : ~Calls(c)
      BY DEF Calls, tk_sta_tsk, tk_rel_wai, tk_sus_tsk, tk_rsm_tsk,
         tk_frsm_tsk, tk_wup_tsk, tk_can_wup, tk_chg_pri, tk_chg_slt_u,
         tk_rot_rdq, cpuvars
    <3>3. ~TimerInterrupt
      BY DEF TimerInterrupt, timer_handler, wait_release_tmout, cpuvars
    <3>4. TaskCalls
      BY <3>1, <3>2, <3>3 DEF Next, Caller
    <3> QED BY <3>4 DEF TaskCalls, tk_del_tsk, tk_ter_tsk, tk_cre_tsk,
              tk_slp_tsk_u, tk_dis_dsp, tk_ena_dsp, cpuvars
  <2>2. ctxtsk \in Tasks /\ state \in [Tasks -> TSTAT]
    BY <2>1, Runner DEF IInv, TcbOK, tk_ext_tsk, tk_exd_tsk
  <2> QED BY <2>1, <2>2 DEF tk_ext_tsk, tk_exd_tsk, make_dormant
<1> QED BY <1>1, Inductive, PTL DEF Spec, DisabledDispatchKeepsRunner

---------------------------------------------------------------------------
(* The order of the ready queue. *)

\* a comes before b in q.
Before(q, a, b) ==
  \E i, j \in 1 .. Len(q) : i < j /\ q[i] = a /\ q[j] = b

\* From q to r at most the task t moves, and if it is in r it is at the tail.
Moving(r, q, t) ==
  /\ \A a, b \in Range(r) \ {t} : Before(q, a, b) => Before(r, a, b)
  /\ t \in Range(r) => t = Last(r)

\* Nothing moves in a queue the task is not in.
LEMMA StillMoving ==
  ASSUME NEW q, NEW t, t \notin Range(q)
  PROVE  Moving(q, q, t)
BY DEF Moving

\* A queue that is left with some of its places keeps the order of the tasks
\* in it.
LEMMA ThinsMoving ==
  ASSUME NEW q, NEW S, Lists(q, S), NEW r, NEW T, Lists(r, T), Thins(r, q),
         NEW t, t \notin T
  PROVE  Moving(r, q, t)
<1>1. /\ \A i, j \in 1 .. Len(q) : q[i] = q[j] => i = j
      /\ Len(q) \in Nat /\ Len(r) \in Nat
      /\ \A x \in T : \E i \in 1 .. Len(r) : r[i] = x
      /\ Range(r) = T
  BY ListsPlaces DEF Lists
<1>2. ASSUME NEW a \in T, NEW b \in T, Before(q, a, b)
      PROVE  Before(r, a, b)
  <2>1. PICK k \in 1 .. Len(q), l \in 1 .. Len(q) : k < l /\ q[k] = a /\ q[l] = b
    BY <1>2 DEF Before
  <2>2. PICK i \in 1 .. Len(r), j \in 1 .. Len(r) : r[i] = a /\ r[j] = b
    BY <1>1
  <2>3. i # j
    BY <1>1, <2>1, <2>2
  <2>4. ~(j < i)
    <3> SUFFICES ASSUME j < i PROVE FALSE
      OBVIOUS
    <3>1. PICK m \in 1 .. Len(q), n \in 1 .. Len(q) : m < n /\ r[j] = q[m] /\ r[i] = q[n]
      BY DEF Thins
    <3>2. m = l /\ n = k
      BY <1>1, <2>1, <2>2, <3>1
    <3> QED BY <2>1, <3>1, <3>2
  <2> QED BY <1>1, <2>2, <2>3, <2>4 DEF Before
<1> QED BY <1>1, <1>2 DEF Moving

\* QueRemove moves nothing.
LEMMA RemoveMoving ==
  ASSUME NEW q, NEW S, Lists(q, S), NEW t
  PROVE  Moving(QueRemove(q, t), q, t)
<1>1. /\ Lists(QueRemove(q, t), S \ {t})
      /\ Thins(QueRemove(q, t), q)
  BY RemoveList, RemoveThins
<1>2. PICK r : r = QueRemove(q, t)
  OBVIOUS
<1> QED BY <1>1, <1>2, ThinsMoving

\* Nor does the removal of the head.
LEMMA TailMoving ==
  ASSUME NEW q, NEW S, IsQueue(q, S), q # << >>
  PROVE  Moving(Tail(q), q, Head(q))
<1>1. /\ q \in Seq(Tasks) /\ Len(q) \in Nat /\ Len(q) > 0
  BY EmptySeq, LenProperties DEF IsQueue
<1>2. PICK r, h : r = Tail(q) /\ h = Head(q)
  OBVIOUS
<1>3. /\ IsQueue(r, S \ {h})
      /\ Len(r) = Len(q) - 1
      /\ \A i \in 1 .. Len(q) - 1 : r[i] = q[i + 1]
  BY <1>1, <1>2, TailQueue, HeadTailProperties
<1>4. Thins(r, q)
  <2>1. \A i \in 1 .. Len(r) : r[i] = q[i + 1] /\ i + 1 \in 1 .. Len(q)
    BY <1>1, <1>3
  <2>2. \A i, j \in 1 .. Len(r) : i < j => i + 1 < j + 1
    BY <1>1, <1>3
  <2> QED BY <2>1, <2>2 DEF Thins
<1>5. Lists(q, S) /\ Lists(r, S \ {h})
  BY <1>3, QueueLists
<1>6. Moving(r, q, h)
  BY <1>4, <1>5, ThinsMoving
<1> QED BY <1>2, <1>6

\* A task added at the tail does not move the others.
LEMMA AppendMoving ==
  ASSUME NEW q, NEW S, IsQueue(q, S), NEW t \in Tasks
  PROVE  Moving(Append(q, t), q, t)
<1>1. q \in Seq(Tasks) /\ Len(q) \in Nat
  BY LenProperties DEF IsQueue
<1>2. PICK r : r = Append(q, t)
  OBVIOUS
<1>3. /\ Len(r) = Len(q) + 1 /\ r[Len(q) + 1] = t
      /\ \A i \in 1 .. Len(q) : r[i] = q[i]
  BY <1>1, <1>2, AppendProperties
<1>4. t = Last(r)
  BY <1>3 DEF Last
<1>5. ASSUME NEW a, NEW b, Before(q, a, b)
      PROVE  Before(r, a, b)
  <2>1. PICK k \in 1 .. Len(q), l \in 1 .. Len(q) : k < l /\ q[k] = a /\ q[l] = b
    BY <1>5 DEF Before
  <2>2. k \in 1 .. Len(r) /\ l \in 1 .. Len(r) /\ r[k] = a /\ r[l] = b
    BY <1>1, <1>3, <2>1
  <2> QED BY <2>1, <2>2 DEF Before
<1> QED BY <1>2, <1>4, <1>5 DEF Moving

\* Two changes of a queue one after the other.  They move one task if it is
\* the same, or if the first one's is not in the queue in the end.
LEMMA BothMoving ==
  ASSUME NEW q, NEW r, NEW s, NEW t, NEW u, Moving(r, q, t), Moving(s, r, u),
         Range(s) \ {t, u} \subseteq Range(r), t = u \/ t \notin Range(s)
  PROVE  Moving(s, q, u)
<1>1. ASSUME NEW a \in Range(s) \ {u}, NEW b \in Range(s) \ {u}, Before(q, a, b)
      PROVE  Before(s, a, b)
  <2>1. a \in Range(r) \ {t} /\ b \in Range(r) \ {t}
    OBVIOUS
  <2>2. Before(r, a, b)
    BY <1>1, <2>1 DEF Moving
  <2> QED BY <2>2 DEF Moving
<1> QED BY <1>1 DEF Moving

\* So the order changes as FifoWithinPriority says.
LEMMA MovingFifo ==
  ASSUME NEW q, NEW S, IsQueue(q, S), NEW r, NEW T, IsQueue(r, T),
         NEW m, Moving(r, q, m),
         NEW t \in Range(q) \cap Range(r), NEW u \in Range(q) \cap Range(r),
         Position(q, t) < Position(q, u), Position(r, u) < Position(r, t)
  PROVE  t = Last(r)
<1>1. \A x, y : y \in Range(x) => Position(x, y) \in DOMAIN x /\ x[Position(x, y)] = y
  BY DEF Position, Range
<1>2. /\ Len(q) \in Nat /\ DOMAIN q = 1 .. Len(q)
      /\ Len(r) \in Nat /\ DOMAIN r = 1 .. Len(r)
      /\ \A i, j \in 1 .. Len(r) : r[i] = r[j] => i = j
  BY LenProperties DEF IsQueue, IsInjective
<1>3. PICK i, j, k, l : /\ i = Position(q, t) /\ j = Position(q, u)
                        /\ k = Position(r, t) /\ l = Position(r, u)
  OBVIOUS
<1>4. /\ i \in 1 .. Len(q) /\ q[i] = t /\ j \in 1 .. Len(q) /\ q[j] = u
      /\ k \in 1 .. Len(r) /\ r[k] = t /\ l \in 1 .. Len(r) /\ r[l] = u
  BY <1>1, <1>2, <1>3
<1>5. i < j /\ l < k
  BY <1>3
<1>6. Before(q, t, u)
  BY <1>4, <1>5 DEF Before
<1>7. ~Before(r, t, u)
  <2> SUFFICES ASSUME Before(r, t, u) PROVE FALSE
    OBVIOUS
  <2>1. PICK x \in 1 .. Len(r), y \in 1 .. Len(r) : x < y /\ r[x] = t /\ r[y] = u
    BY DEF Before
  <2>2. x = k /\ y = l
    BY <1>2, <1>4, <2>1
  <2> QED BY <1>2, <1>4, <1>5, <2>1, <2>2
<1>8. m \in {t, u} /\ m = Last(r)
  BY <1>6, <1>7 DEF Moving
<1>9. m # u
  <2> SUFFICES ASSUME m = u PROVE FALSE
    OBVIOUS
  <2>1. Len(r) \in 1 .. Len(r) /\ r[Len(r)] = u
    BY <1>2, <1>4, <1>8 DEF Last
  <2>2. l = Len(r)
    BY <1>2, <1>4, <2>1
  <2> QED BY <1>2, <1>4, <1>5, <2>2
<1> QED BY <1>8, <1>9

---------------------------------------------------------------------------

\* The same for the queues of all priorities.
AllMoving(new, old, t) == \A k \in Pri : Moving(new[k], old[k], t)
EachMoving(new, old)   == \A k \in Pri : \E m : Moving(new[k], old[k], m)

\* ready_queue_insert of a task that is not READY moves it.
LEMMA InsertMoving ==
  ASSUME NEW rq, NEW R \in SUBSET Tasks, NEW pri \in [Tasks -> Pri],
         Holds(rq, R, pri), NEW t \in Tasks \ R, NEW p \in Pri
  PROVE  AllMoving(ready_queue_insert(rq, t, p).tskque, rq.tskque, t)
<1>1. PICK r : r = ready_queue_insert(rq, t, p)
  OBVIOUS
<1>2. /\ rq \in RDYQUE /\ ~rq.klocked[t]
      /\ rq.tskque \in [Pri -> Seq(Tasks)]
  BY DEF Holds, RDYQUE
<1>3. r.tskque = [rq.tskque EXCEPT ![p] = Append(@, t)]
  BY <1>1, <1>2, InsertFields
<1>4. ASSUME NEW k \in Pri PROVE Moving(r.tskque[k], rq.tskque[k], t)
  <2>1. PICK q, S : q = rq.tskque[k] /\ S = OfPri(R, pri, k) /\ IsQueue(q, S)
    BY DEF Holds
  <2>2. CASE k = p
    <3>1. r.tskque[k] = Append(q, t)
      BY <1>2, <1>3, <2>1, <2>2
    <3> QED BY <2>1, <3>1, AppendMoving
  <2>3. CASE k # p
    <3>1. r.tskque[k] = q
      BY <1>2, <1>3, <2>1, <2>3
    <3>2. t \notin Range(q)
      BY <2>1 DEF IsQueue, OfPri
    <3> QED BY <2>1, <3>1, <3>2, StillMoving
  <2> QED BY <2>2, <2>3
<1> QED BY <1>1, <1>4 DEF AllMoving

\* ready_queue_delete leaves the others where they are.
LEMMA DeleteMoving ==
  ASSUME NEW rq, NEW R \in SUBSET Tasks, NEW pri \in [Tasks -> Pri],
         Holds(rq, R, pri), NEW t \in Tasks, NEW p
  PROVE  AllMoving(ready_queue_delete(rq, t, p).tskque, rq.tskque, t)
<1>1. PICK qs : qs = Unlink(rq.tskque, t)
  OBVIOUS
<1>2. /\ rq \in RDYQUE /\ ~rq.klockwait[t]
      /\ rq.tskque \in [Pri -> Seq(Tasks)] /\ DOMAIN rq.tskque = Pri
  BY DEF Holds, RDYQUE
<1>3. ready_queue_delete(rq, t, p).tskque = qs
  BY <1>1, <1>2 DEF ready_queue_delete, RDYQUE
<1>4. ASSUME NEW k \in Pri PROVE Moving(qs[k], rq.tskque[k], t)
  <2>1. PICK q, S : q = rq.tskque[k] /\ S = OfPri(R, pri, k) /\ IsQueue(q, S)
    BY DEF Holds
  <2>2. qs[k] = QueRemove(q, t)
    BY <1>1, <1>2, <2>1 DEF Unlink
  <2>3. Lists(q, S)
    BY <2>1, QueueLists
  <2> QED BY <2>1, <2>2, <2>3, RemoveMoving
<1> QED BY <1>3, <1>4 DEF AllMoving


\* ready_queue_move_last moves its task, in its queue.
LEMMA MoveLastMoving ==
  ASSUME NEW rq, NEW R \in SUBSET Tasks, NEW pri \in [Tasks -> Pri],
         Holds(rq, R, pri), NEW t \in R
  PROVE  LET r == ready_queue_move_last(rq, t, pri[t])
         IN /\ AllMoving(r.tskque, rq.tskque, t)
            /\ \A k \in Pri : k # pri[t] => r.tskque[k] = rq.tskque[k]
<1>1. PICK r, qs : r = ready_queue_move_last(rq, t, pri[t]) /\ qs = Unlink(rq.tskque, t)
  OBVIOUS
<1>2. /\ rq \in RDYQUE /\ t \in Tasks /\ pri[t] \in Pri
      /\ rq.tskque \in [Pri -> Seq(Tasks)] /\ DOMAIN rq.tskque = Pri
  BY DEF Holds, RDYQUE
<1>3. /\ qs \in [Pri -> Seq(Tasks)]
      /\ \A k \in Pri : /\ IsQueue(qs[k], OfPri(R \ {t}, pri, k))
                        /\ k # pri[t] => qs[k] = rq.tskque[k]
  BY <1>1, UnlinkProperties
<1>4. r.tskque = [qs EXCEPT ![pri[t]] = Append(qs[pri[t]], t)]
  BY <1>1, <1>2 DEF ready_queue_move_last, RDYQUE
<1>5. \A k \in Pri : k # pri[t] => r.tskque[k] = rq.tskque[k]
  BY <1>2, <1>3, <1>4
<1>6. ASSUME NEW k \in Pri PROVE Moving(r.tskque[k], rq.tskque[k], t)
  <2>1. PICK q, S : q = rq.tskque[k] /\ S = OfPri(R, pri, k) /\ IsQueue(q, S)
    BY DEF Holds
  <2>2. CASE k = pri[t]
    <3>1. PICK n, T : n = qs[k] /\ T = OfPri(R \ {t}, pri, k) /\ IsQueue(n, T)
      BY <1>3
    <3>2. n = QueRemove(q, t) /\ Lists(q, S)
      BY <1>1, <1>2, <2>1, <3>1, QueueLists DEF Unlink
    <3>3. PICK w : w = Append(n, t) /\ r.tskque[k] = w
      BY <1>2, <1>3, <1>4, <2>2, <3>1
    <3>4. Moving(n, q, t) /\ Moving(w, n, t)
      BY <1>2, <3>1, <3>2, <3>3, RemoveMoving, AppendMoving
    <3>5. Range(w) = T \cup {t} /\ Range(n) = T
      <4>1. t \in Tasks \ T
        BY <1>2, <3>1 DEF OfPri
      <4>2. IsQueue(Append(n, t), T \cup {t})
        BY <3>1, <4>1, AppendQueue
      <4> QED BY <3>1, <3>3, <4>2 DEF IsQueue
    <3> QED BY <2>1, <3>3, <3>4, <3>5, BothMoving
  <2>3. CASE k # pri[t]
    <3>1. t \notin Range(q)
      BY <2>1, <2>3 DEF IsQueue, OfPri
    <3> QED BY <1>5, <2>1, <2>3, <3>1, StillMoving
  <2> QED BY <2>2, <2>3
<1> QED BY <1>1, <1>5, <1>6 DEF AllMoving

\* A change that moves t, after which the scheduled task is preempted: the
\* two move in different queues, or are the same task.
LEMMA PreemptMoving ==
  ASSUME NEW rq, NEW R \in SUBSET Tasks, NEW pri \in [Tasks -> Pri],
         Holds(rq, R, pri), schedtsk \in R \cup {NULL},
         slicetime \in [Tasks -> SliceTimes],
         NEW old, NEW t \in R, AllMoving(rq.tskque, old, t),
         schedtsk \in {NULL, t} \/ pri[schedtsk] # pri[t]
  PROVE  EachMoving(preempt(rq, pri).tskque, old)
<1>1. CASE preempt(rq, pri).tskque = rq.tskque
  BY <1>1 DEF AllMoving, EachMoving
<1>2. CASE /\ schedtsk # NULL
           /\ preempt(rq, pri) = ready_queue_move_last(rq, schedtsk, pri[schedtsk])
  <2>1. PICK u : u = schedtsk /\ u \in R
    BY <1>2
  <2>2. PICK r : r = ready_queue_move_last(rq, u, pri[u])
    OBVIOUS
  <2>3. /\ AllMoving(r.tskque, rq.tskque, u) /\ Holds(r, R, pri)
        /\ \A k \in Pri : k # pri[u] => r.tskque[k] = rq.tskque[k]
    BY <2>1, <2>2, MoveLastMoving, MoveLast
  <2>4. ASSUME NEW k \in Pri PROVE \E m : Moving(r.tskque[k], old[k], m)
    <3>1. Moving(rq.tskque[k], old[k], t)
      BY DEF AllMoving
    <3>2. CASE t # u /\ k = pri[t]
      BY <1>2, <2>1, <2>3, <3>1, <3>2
    <3>3. CASE t = u \/ k # pri[t]
      <4>1. /\ Range(r.tskque[k]) = OfPri(R, pri, k)
            /\ Range(rq.tskque[k]) = OfPri(R, pri, k)
        BY <2>3 DEF Holds, IsQueue
      <4>2. t = u \/ t \notin Range(r.tskque[k])
        BY <3>3, <4>1 DEF OfPri
      <4>3. Moving(r.tskque[k], rq.tskque[k], u)
        BY <2>3 DEF AllMoving
      <4> QED BY <3>1, <4>1, <4>2, <4>3, BothMoving
    <3> QED BY <3>2, <3>3
  <2> QED BY <1>2, <2>1, <2>2, <2>4 DEF EachMoving
<1>3. \/ preempt(rq, pri).tskque = rq.tskque
      \/ /\ schedtsk # NULL
         /\ preempt(rq, pri) = ready_queue_move_last(rq, schedtsk, pri[schedtsk])
  <2>1. rq \in RDYQUE
    BY DEF Holds
  <2>2. \A n : [rq EXCEPT !.slicecnt[schedtsk] = n].tskque = rq.tskque
    BY <2>1 DEF RDYQUE
  <2> QED BY <2>2 DEF preempt, time_slice_schedule
<1> QED BY <1>1, <1>2, <1>3

---------------------------------------------------------------------------

\* A change of the queues that moves only t keeps the order of the others.
LEMMA EachIsOne ==
  ASSUME NEW new, NEW old, NEW t, AllMoving(new, old, t)
  PROVE  EachMoving(new, old)
BY DEF AllMoving, EachMoving

\* A step that changes no queue moves nothing.
LEMMA NothingMoving ==
  ASSUME IInv
  PROVE  EachMoving(ready_queue.tskque, ready_queue.tskque)
<1>1. NULL \notin Ready(state)
  BY NullAssumption DEF Ready
<1>2. \A k \in Pri : NULL \notin Range(ready_queue.tskque[k])
  BY <1>1 DEF IInv, Sched, Holds, IsQueue, OfPri
<1> QED BY <1>2, StillMoving DEF EachMoving

\* make_ready.
LEMMA MakeReadyMoving ==
  ASSUME IInv, NEW t \in Tasks, state[t] # "READY", make_ready(t)
  PROVE  EachMoving(ready_queue'.tskque, ready_queue.tskque)
<1> USE PriAssumption, NullAssumption
<1>1. PICK R, rq : R = Ready(state) /\ rq = ready_queue_insert(ready_queue, t, priority[t])
  OBVIOUS
<1>2. /\ Holds(ready_queue, R, priority) /\ schedtsk = ready_queue_top(ready_queue)
      /\ R \in SUBSET Tasks /\ priority \in [Tasks -> Pri] /\ t \in Tasks \ R
      /\ slicetime \in [Tasks -> SliceTimes] /\ priority[t] \in Pri
  BY <1>1 DEF IInv, Sched, SchedtskIsTop, TcbOK, Ready
<1>3. AllMoving(rq.tskque, ready_queue.tskque, t) /\ Holds(rq, R \cup {t}, priority)
  BY <1>1, <1>2, InsertMoving, Insert
<1>4. schedtsk \in R \cup {NULL}
  BY <1>2, SchedTypes
<1>5. ready_queue' = IF priority[t] < ready_queue.top_priority
                     THEN preempt(rq, priority) ELSE rq
  BY <1>1 DEF make_ready, ready_queue_insert_raises
<1>6. CASE priority[t] < ready_queue.top_priority
  <2>1. schedtsk = NULL \/ priority[schedtsk] = ready_queue.top_priority
    BY <1>2, TopProperties
  <2>2. schedtsk = NULL \/ priority[schedtsk] # priority[t]
    BY <1>2, <1>6, <2>1 DEF Pri
  <2>3. R \cup {t} \in SUBSET Tasks /\ schedtsk \in (R \cup {t}) \cup {NULL}
    BY <1>2, <1>4
  <2>4. t \in R \cup {t}
    OBVIOUS
  <2>5. EachMoving(preempt(rq, priority).tskque, ready_queue.tskque)
    BY <1>2, <1>3, <2>2, <2>3, <2>4, PreemptMoving
  <2> QED BY <1>5, <1>6, <2>5
<1>7. CASE ~(priority[t] < ready_queue.top_priority)
  BY <1>3, <1>5, <1>7, EachIsOne
<1> QED BY <1>6, <1>7

\* make_non_ready.
LEMMA MakeNonReadyMoving ==
  ASSUME IInv, NEW t \in Tasks, make_non_ready(t)
  PROVE  EachMoving(ready_queue'.tskque, ready_queue.tskque)
<1>1. /\ Holds(ready_queue, Ready(state), priority)
      /\ Ready(state) \in SUBSET Tasks /\ priority \in [Tasks -> Pri]
  BY DEF IInv, Sched, TcbOK, Ready
<1>2. AllMoving(ready_queue_delete(ready_queue, t, priority[t]).tskque,
                ready_queue.tskque, t)
  BY <1>1, DeleteMoving
<1>3. ready_queue' = ready_queue_delete(ready_queue, t, priority[t])
  BY DEF make_non_ready
<1> QED BY <1>2, <1>3, EachIsOne

\* change_task_priority.  Were the preempted task another one of the new
\* priority, it would still be the top.
LEMMA ChangePriorityMoving ==
  ASSUME IInv, NEW t \in Tasks, state[t] = "READY", NEW p \in Pri,
         change_task_priority(t, p)
  PROVE  EachMoving(ready_queue'.tskque, ready_queue.tskque)
<1>1. PICK R, S, pri, del, rq :
        /\ R = Ready(state) /\ S = R \ {t} /\ pri = [priority EXCEPT ![t] = p]
        /\ del = ready_queue_delete(ready_queue, t, priority[t])
        /\ rq = ready_queue_insert(del, t, p)
  OBVIOUS
<1>2. /\ Holds(ready_queue, R, priority) /\ schedtsk = ready_queue_top(ready_queue)
      /\ R \in SUBSET Tasks /\ S \in SUBSET Tasks /\ t \in R
      /\ priority \in [Tasks -> Pri] /\ pri \in [Tasks -> Pri]
      /\ slicetime \in [Tasks -> SliceTimes]
  BY <1>1 DEF IInv, Sched, SchedtskIsTop, TcbOK, Ready
<1>3. /\ t \in Tasks \ S /\ S \cup {t} = R /\ pri[t] = p
      /\ \A u \in S : pri[u] = priority[u]
  BY <1>1, <1>2
<1>4. schedtsk \in R \cup {NULL}
  BY <1>2, SchedTypes
<1>5. /\ Holds(del, S, priority)
      /\ t # schedtsk => ready_queue_top(del) = schedtsk
      /\ AllMoving(del.tskque, ready_queue.tskque, t)
  BY <1>1, <1>2, Delete, DeleteMoving
<1>6. Holds(del, S, pri)
  BY <1>2, <1>3, <1>5, SamePriorities
<1>7. /\ Holds(rq, R, pri)
      /\ ready_queue_top(rq) = IF p < del.top_priority THEN t ELSE ready_queue_top(del)
      /\ AllMoving(rq.tskque, del.tskque, t)
  <2>1. /\ Holds(ready_queue_insert(del, t, pri[t]), S \cup {t}, pri)
        /\ ready_queue_top(ready_queue_insert(del, t, pri[t])) =
             IF pri[t] < del.top_priority THEN t ELSE ready_queue_top(del)
    BY <1>2, <1>3, <1>6, Insert
  <2>2. AllMoving(ready_queue_insert(del, t, p).tskque, del.tskque, t)
    BY <1>2, <1>3, <1>6, InsertMoving
  <2> QED BY <1>1, <1>3, <2>1, <2>2
<1>8. ASSUME NEW k \in Pri
      PROVE  Moving(rq.tskque[k], ready_queue.tskque[k], t)
  <2>1. /\ Range(rq.tskque[k]) = OfPri(R, pri, k)
        /\ Range(del.tskque[k]) = OfPri(S, pri, k)
    BY <1>6, <1>7 DEF Holds, IsQueue
  <2>2. Range(rq.tskque[k]) \ {t} \subseteq Range(del.tskque[k])
    BY <1>1, <2>1 DEF OfPri
  <2>3. Moving(del.tskque[k], ready_queue.tskque[k], t) /\ Moving(rq.tskque[k], del.tskque[k], t)
    BY <1>5, <1>7 DEF AllMoving
  <2> QED BY <2>2, <2>3, BothMoving
<1>9. AllMoving(rq.tskque, ready_queue.tskque, t)
  BY <1>8 DEF AllMoving
<1>10. ready_queue' = IF schedtsk # ready_queue_top(rq) THEN preempt(rq, pri) ELSE rq
  BY <1>1, <1>2 DEF change_task_priority, reschedule, Ready
<1>11. CASE schedtsk = ready_queue_top(rq)
  BY <1>9, <1>10, <1>11, EachIsOne
<1>12. CASE schedtsk # ready_queue_top(rq)
  <2>1. schedtsk \in {NULL, t} \/ pri[schedtsk] # pri[t]
    <3> SUFFICES ASSUME schedtsk \notin {NULL, t} PROVE pri[schedtsk] # pri[t]
      OBVIOUS
    <3>1. ready_queue_top(del) = schedtsk /\ schedtsk \in S
      BY <1>1, <1>4, <1>5
    <3>2. pri[schedtsk] = del.top_priority /\ del.top_priority \in Pri
      BY <1>2, <1>6, <3>1, TopProperties
    <3>3. p < del.top_priority
      BY <1>7, <1>12, <3>1
    <3> QED BY <1>3, <3>2, <3>3 DEF Pri
  <2>2. EachMoving(preempt(rq, pri).tskque, ready_queue.tskque)
    BY <1>2, <1>4, <1>7, <1>9, <2>1, PreemptMoving
  <2> QED BY <1>10, <1>12, <2>2
<1> QED BY <1>11, <1>12

\* tk_rot_rdq moves the head; only if it is the task that runs is there a
\* new top.
LEMMA RotateMoving ==
  ASSUME IInv, NEW p \in Pri,
         reschedule(ready_queue_rotate(ready_queue, p), priority)
  PROVE  EachMoving(ready_queue'.tskque, ready_queue.tskque)
<1>1. PICK R, rq, q : /\ R = Ready(state) /\ rq = ready_queue_rotate(ready_queue, p)
                      /\ q = ready_queue.tskque[p]
  OBVIOUS
<1>2. /\ Holds(ready_queue, R, priority) /\ schedtsk = ready_queue_top(ready_queue)
      /\ R \in SUBSET Tasks /\ priority \in [Tasks -> Pri]
      /\ slicetime \in [Tasks -> SliceTimes]
      /\ ready_queue \in RDYQUE /\ IsQueue(q, OfPri(R, priority, p))
  BY <1>1 DEF IInv, Sched, SchedtskIsTop, TcbOK, Ready, Holds
<1>3. ready_queue' = IF schedtsk # ready_queue_top(rq) THEN preempt(rq, priority) ELSE rq
  BY <1>1 DEF reschedule
<1>4. CASE q = << >>
  <2>1. rq = ready_queue
    BY <1>1, <1>4 DEF ready_queue_rotate
  <2> QED BY <1>2, <1>3, <2>1, NothingMoving
<1>5. CASE q # << >>
  <2>1. PICK h, n : h = Head(q) /\ n = Append(Tail(q), h)
    OBVIOUS
  <2>2. h \in OfPri(R, priority, p) /\ IsQueue(n, OfPri(R, priority, p))
    BY <1>2, <1>5, <2>1, RotateQueue
  <2>3. h \in R /\ priority[h] = p /\ h \in Tasks
    BY <1>2, <2>2 DEF OfPri
  <2>4. rq.tskque = [ready_queue.tskque EXCEPT ![p] = n]
    BY <1>1, <1>2, <1>5, <2>1 DEF ready_queue_rotate, RDYQUE
  <2>5. ready_queue.tskque \in [Pri -> Seq(Tasks)]
    BY <1>2 DEF RDYQUE
  <2>6. Moving(n, q, h)
    <3>1. PICK r : r = Tail(q)
      OBVIOUS
    <3>2. IsQueue(r, OfPri(R, priority, p) \ {h}) /\ Moving(r, q, h)
      BY <1>2, <1>5, <2>1, <3>1, TailQueue, TailMoving
    <3>3. Moving(n, r, h)
      BY <2>1, <2>3, <3>1, <3>2, AppendMoving
    <3>4. Range(n) \ {h} \subseteq Range(r)
      BY <2>2, <3>2 DEF IsQueue
    <3> QED BY <3>2, <3>3, <3>4, BothMoving
  <2>7. ASSUME NEW k \in Pri PROVE Moving(rq.tskque[k], ready_queue.tskque[k], h)
    <3>1. CASE k = p
      BY <1>1, <2>4, <2>5, <2>6, <3>1
    <3>2. CASE k # p
      <4>1. rq.tskque[k] = ready_queue.tskque[k]
        BY <2>4, <2>5, <3>2
      <4>2. h \notin Range(ready_queue.tskque[k])
        BY <1>2, <2>3, <3>2 DEF Holds, IsQueue, OfPri
      <4> QED BY <4>1, <4>2, StillMoving
    <3> QED BY <3>1, <3>2
  <2>8. AllMoving(rq.tskque, ready_queue.tskque, h) /\ Holds(rq, R, priority)
    BY <1>1, <1>2, <2>7, Rotate DEF AllMoving
  <2>9. schedtsk \in R /\ (priority[schedtsk] = p => schedtsk = h)
    BY <1>1, <1>2, <2>1, <2>3, TopProperties
  <2>10. EachMoving(preempt(rq, priority).tskque, ready_queue.tskque)
    BY <1>2, <2>3, <2>8, <2>9, PreemptMoving
  <2> QED BY <1>3, <2>8, <2>10, EachIsOne
<1> QED BY <1>4, <1>5

\* The slice step of the timer handler.
LEMMA TimerMoving ==
  ASSUME IInv, timer_handler, ready_queue' # ready_queue
  PROVE  EachMoving(ready_queue'.tskque, ready_queue.tskque)
<1>1. PICK R : R = Ready(state)
  OBVIOUS
<1>2. /\ Holds(ready_queue, R, priority) /\ ready_queue \in RDYQUE
      /\ R \in SUBSET Tasks /\ priority \in [Tasks -> Pri]
      /\ schedtsk = ready_queue_top(ready_queue)
  BY <1>1 DEF IInv, Sched, SchedtskIsTop, TcbOK, Ready, Holds
<1>3. schedtsk \in R \cup {NULL}
  BY <1>2, SchedTypes
<1>4. ctxtsk = schedtsk /\ ctxtsk \in R
  BY <1>3 DEF timer_handler
<1>5. ready_queue' = time_slice_schedule(ready_queue, ctxtsk, priority).rq
  BY DEF timer_handler
<1>6. \A n : [ready_queue EXCEPT !.slicecnt[ctxtsk] = n].tskque = ready_queue.tskque
  BY <1>2 DEF RDYQUE
<1>7. \/ ready_queue'.tskque = ready_queue.tskque
      \/ ready_queue' = ready_queue_move_last(ready_queue, ctxtsk, priority[ctxtsk])
  BY <1>5, <1>6 DEF time_slice_schedule
<1>8. EachMoving(ready_queue.tskque, ready_queue.tskque)
  BY NothingMoving
<1>9. AllMoving(ready_queue_move_last(ready_queue, ctxtsk, priority[ctxtsk]).tskque,
                ready_queue.tskque, ctxtsk)
  BY <1>2, <1>4, MoveLastMoving
<1> QED BY <1>7, <1>8, <1>9, EachIsOne


\* The end of a wait.
LEMMA NonWaitMoving ==
  ASSUME IInv, NEW t \in Tasks, Waiting(t), make_non_wait(t)
  PROVE  EachMoving(ready_queue'.tskque, ready_queue.tskque)
BY MakeReadyMoving, NothingMoving DEF make_non_wait, Waiting

\* The end of the last suspend request.
LEMMA ResumeMoving ==
  ASSUME IInv, NEW t \in Tasks, resume(t)
  PROVE  EachMoving(ready_queue'.tskque, ready_queue.tskque)
BY MakeReadyMoving, NothingMoving DEF resume

\* The end of a task.
LEMMA TerMoving ==
  ASSUME IInv, NEW t \in Tasks, ter_tsk(t)
  PROVE  EachMoving(ready_queue'.tskque, ready_queue.tskque)
BY MakeNonReadyMoving, NothingMoving DEF ter_tsk

\* The queues before and after a step.
Kept == EachMoving(ready_queue'.tskque, ready_queue.tskque)

\* Every step.
LEMMA NextMoving ==
  ASSUME IInv, [Next]_vars
  PROVE  Kept
<1>1. ASSUME UNCHANGED ready_queue PROVE Kept
  BY <1>1, NothingMoving DEF Kept
<1>2. ASSUME NEW c \in Caller, NEW t \in Tasks,
             \/ tk_sta_tsk(c, t) \/ tk_rel_wai(c, t) \/ tk_wup_tsk(c, t)
             \/ tk_can_wup(c, t) \/ \E slt \in SliceTimes : tk_chg_slt_u(c, t, slt)
             \/ wait_release_tmout(t)
      PROVE  Kept
  <2>1. CASE tk_sta_tsk(c, t)
    BY <2>1, MakeReadyMoving DEF tk_sta_tsk, Kept
  <2>2. CASE tk_rel_wai(c, t) \/ wait_release_tmout(t)
    BY <2>2, NonWaitMoving DEF tk_rel_wai, wait_release_tmout, Kept
  <2>3. CASE tk_wup_tsk(c, t)
    BY <1>1, <2>3, NonWaitMoving DEF tk_wup_tsk, sleeping, Kept
  <2>4. CASE tk_can_wup(c, t) \/ \E slt \in SliceTimes : tk_chg_slt_u(c, t, slt)
    BY <1>1, <2>4 DEF tk_can_wup, tk_chg_slt_u
  <2> QED BY <1>2, <2>1, <2>2, <2>3, <2>4
<1>3. ASSUME NEW c \in Caller, NEW t \in Tasks,
             tk_sus_tsk(c, t) \/ tk_rsm_tsk(c, t) \/ tk_frsm_tsk(c, t)
      PROVE  Kept
  <2>1. CASE tk_sus_tsk(c, t)
    BY <1>1, <2>1, MakeNonReadyMoving DEF tk_sus_tsk, Kept
  <2>2. CASE tk_rsm_tsk(c, t) \/ tk_frsm_tsk(c, t)
    BY <1>1, <2>2, ResumeMoving DEF tk_rsm_tsk, tk_frsm_tsk, Kept
  <2> QED BY <1>3, <2>1, <2>2
<1>4. ASSUME NEW c \in Caller, NEW p \in Pri,
             tk_rot_rdq(c, p) \/ \E t \in Tasks : tk_chg_pri(c, t, p)
      PROVE  Kept
  <2>1. CASE tk_rot_rdq(c, p)
    BY <2>1, RotateMoving DEF tk_rot_rdq, Kept
  <2>2. ASSUME NEW t \in Tasks, tk_chg_pri(c, t, p) PROVE Kept
    <3>1. change_task_priority(t, p)
      BY <2>2 DEF tk_chg_pri
    <3>2. CASE state[t] = "READY"
      BY <3>1, <3>2, ChangePriorityMoving DEF Kept
    <3>3. CASE state[t] # "READY"
      BY <1>1, <3>1, <3>3 DEF change_task_priority
    <3> QED BY <3>2, <3>3
  <2> QED BY <1>4, <2>1, <2>2
<1>5. ASSUME NEW t \in Tasks,
             tk_del_tsk(t) \/ tk_ter_tsk(t) \/ \E p \in Pri : tk_cre_tsk(t, p)
      PROVE  Kept
  <2>1. CASE tk_ter_tsk(t)
    BY <2>1, TerMoving DEF tk_ter_tsk, Kept
  <2>2. CASE tk_del_tsk(t) \/ \E p \in Pri : tk_cre_tsk(t, p)
    BY <1>1, <2>2 DEF tk_del_tsk, tk_cre_tsk
  <2> QED BY <1>5, <2>1, <2>2
<1>6. CASE tk_ext_tsk \/ tk_exd_tsk \/ tk_slp_tsk_u
  <2>1. ctxtsk \in Tasks
    BY <1>6, Runner DEF tk_ext_tsk, tk_exd_tsk, tk_slp_tsk_u
  <2>2. CASE tk_ext_tsk \/ tk_exd_tsk
    BY <2>1, <2>2, TerMoving DEF tk_ext_tsk, tk_exd_tsk, Kept
  <2>3. CASE tk_slp_tsk_u
    BY <1>1, <2>1, <2>3, MakeNonReadyMoving DEF tk_slp_tsk_u, Kept
  <2> QED BY <1>6, <2>2, <2>3
<1>7. CASE timer_handler
  BY <1>7, NothingMoving, TimerMoving DEF Kept
<1>8. CASE tk_dis_dsp \/ tk_ena_dsp \/ Dispatcher \/ UNCHANGED vars
  BY <1>1, <1>8 DEF tk_dis_dsp, tk_ena_dsp, Dispatcher, dispatch_entry,
     dispatch_save, dispatch_to_schedtsk, vars
<1>9. ASSUME NEW c \in Caller, Calls(c) PROVE Kept
  BY <1>2, <1>3, <1>4, <1>9 DEF Calls
<1>10. CASE TaskCalls
  BY <1>5, <1>6, <1>8, <1>10 DEF TaskCalls
<1>11. CASE TimerInterrupt
  BY <1>2, <1>7, <1>11 DEF TimerInterrupt, Caller
<1> QED BY <1>8, <1>9, <1>10, <1>11 DEF Next, Caller

\* First come, first served: no step lets a task overtake another one of its
\* priority, but by moving that one to the tail.
THEOREM FirstComeFirstServed == Spec => FifoWithinPriority
<1> DEFINE A == \A p \in Pri :
                  LET q == ready_queue.tskque[p]
                      r == ready_queue'.tskque[p]
                  IN \A t, u \in Range(q) \cap Range(r) :
                       (/\ Position(q, t) < Position(q, u)
                        /\ Position(r, u) < Position(r, t)) => t = Last(r)
<1>1. IInv /\ [Next]_vars => [A]_vars
  <2> SUFFICES ASSUME IInv, [Next]_vars, NEW p \in Pri,
                      NEW q, q = ready_queue.tskque[p],
                      NEW r, r = ready_queue'.tskque[p],
                      NEW t \in Range(q) \cap Range(r), NEW u \in Range(q) \cap Range(r),
                      Position(q, t) < Position(q, u), Position(r, u) < Position(r, t)
               PROVE  t = Last(r)
    OBVIOUS
  <2>1. IInv'
    BY NextIInv
  <2>2. IsQueue(q, OfPri(Ready(state), priority, p))
    BY DEF IInv, Sched, Holds
  <2>3. IsQueue(r, OfPri(Ready(state'), priority', p))
    BY <2>1 DEF IInv, Sched, Holds, Ready
  <2>4. PICK m : Moving(r, q, m)
    BY NextMoving DEF Kept, EachMoving
  <2> QED BY <2>2, <2>3, <2>4, MovingFifo
<1> QED BY <1>1, Inductive, PTL DEF Spec, FifoWithinPriority

---------------------------------------------------------------------------
(* Kernel locks. *)

\* The queue without what it says of locks.
plain(rq) ==
  [rq EXCEPT !.klocktsk  = NULL,
             !.klocked   = [t \in Tasks |-> FALSE],
             !.klockwait = [t \in Tasks |-> FALSE]]

\* The priority queues of rq are those of the tasks R, as in Holds.
Ordered(rq, R, pri) == rq \in RDYQUE /\ Holds(plain(rq), R, pri)

\* What an operation that moves tasks between priority queues leaves alone.
SameLocks(r, rq) ==
  /\ r.klocked = rq.klocked
  /\ r.klockwait = rq.klockwait
  /\ r.wtskq = rq.wtskq

\* The lists of the locks hold the tasks W says.
Waiters(rq, W) == \A l \in Locks : IsQueue(rq.wtskq[l], W[l])

\* A task that is READY is in its priority queue or in the list of a lock.
InOneList(rq, t, R, W) ==
  /\ rq.klockwait[t] <=> t \notin R
  /\ t \in R => \A l \in Locks : t \notin W[l]

\* In r the task t is in no list of a lock, the others as in rq.
Left(r, rq, t, W) ==
  /\ r.klocked = rq.klocked
  /\ ~r.klockwait[t]
  /\ \A u \in Tasks \ {t} : r.klockwait[u] = rq.klockwait[u]
  /\ \A l \in Locks : IsQueue(r.wtskq[l], W[l] \ {t})

\* In r the task t has joined the list of the lock l.
Joined(r, rq, t, l, W) ==
  /\ r.klocktsk = IF rq.klocktsk = t THEN NULL ELSE rq.klocktsk
  /\ r.klocked = rq.klocked
  /\ r.klockwait[t]
  /\ \A u \in Tasks \ {t} : r.klockwait[u] = rq.klockwait[u]
  /\ \A k \in Locks : IsQueue(r.wtskq[k], IF k = l THEN W[k] \cup {t} ELSE W[k])

\* r is rq, which holds R, after t has come to its priority queue.
Inserted(r, rq, t, R, pri) ==
  /\ Ordered(r, R \cup {t}, pri)
  /\ SameLocks(r, rq)
  /\ r.klocktsk = IF rq.klocked[t] THEN t ELSE rq.klocktsk

\* r is rq, which holds R, after t has left the list it was in.
Deleted(r, rq, t, R, pri, W) ==
  /\ Ordered(r, R \ {t}, pri)
  /\ Left(r, rq, t, W)
  /\ r.klocktsk = IF rq.klocktsk = t THEN NULL ELSE rq.klocktsk

\* The fields of the queue without locks.
LEMMA PlainFields ==
  ASSUME NEW rq \in RDYQUE
  PROVE  /\ plain(rq) \in RDYQUE
         /\ plain(rq).top_priority = rq.top_priority
         /\ plain(rq).tskque = rq.tskque
         /\ plain(rq).bitmap = rq.bitmap
         /\ plain(rq).slicecnt = rq.slicecnt
         /\ plain(rq).wtskq = rq.wtskq
         /\ plain(rq).klocktsk = NULL
         /\ \A t \in Tasks : ~plain(rq).klocked[t] /\ ~plain(rq).klockwait[t]
BY DEF plain, RDYQUE, TCB

\* A queue is ordered like one without locks that has the same lists.
LEMMA OrderedLike ==
  ASSUME NEW r \in RDYQUE, NEW s, NEW R, NEW pri, Holds(s, R, pri),
         r.top_priority = s.top_priority, r.tskque = s.tskque, r.bitmap = s.bitmap
  PROVE  Ordered(r, R, pri)
BY PlainFields DEF Ordered, Holds

\* What a queue that is ordered gives to the lemmas on queues without locks.
LEMMA PlainHolds ==
  ASSUME NEW rq, NEW R, NEW pri, Ordered(rq, R, pri)
  PROVE  LET b == plain(rq)
         IN /\ Holds(b, R, pri) /\ b \in RDYQUE /\ rq \in RDYQUE
            /\ b.tskque = rq.tskque /\ b.bitmap = rq.bitmap
            /\ b.slicecnt = rq.slicecnt /\ b.wtskq = rq.wtskq
            /\ b.top_priority = rq.top_priority /\ b.klocktsk = NULL
            /\ \A u \in Tasks : ~b.klocked[u] /\ ~b.klockwait[u]
BY PlainFields DEF Ordered

\* ready_queue_insert
LEMMA KInsert ==
  ASSUME NEW rq, NEW R \in SUBSET Tasks, NEW pri \in [Tasks -> Pri],
         Ordered(rq, R, pri), NEW t \in Tasks \ R
  PROVE  Inserted(ready_queue_insert(rq, t, pri[t]), rq, t, R, pri)
<1> DEFINE p == pri[t]
           q == Append(rq.tskque[p], t)
           top == IF p < rq.top_priority THEN p ELSE rq.top_priority
           k == IF rq.klocked[t] THEN t ELSE rq.klocktsk
           b == plain(rq)
           r == ready_queue_insert(rq, t, p)
           s == ready_queue_insert(b, t, p)
<1>1. /\ Holds(b, R, pri) /\ b \in RDYQUE /\ rq \in RDYQUE
      /\ b.tskque = rq.tskque /\ b.bitmap = rq.bitmap
      /\ b.top_priority = rq.top_priority
      /\ \A u \in Tasks : ~b.klocked[u]
  BY PlainHolds
<1> HIDE DEF b
<1>2. p \in Pri /\ q \in Seq(Tasks) /\ top \in 0 .. NUM_PRI /\ k \in TCB
  <2>1. /\ rq.tskque \in [Pri -> Seq(Tasks)] /\ rq.top_priority \in 0 .. NUM_PRI
        /\ rq.klocktsk \in TCB
    BY <1>1 DEF RDYQUE
  <2>2. p \in Pri /\ q \in Seq(Tasks)
    BY <2>1
  <2>3. p \in 0 .. NUM_PRI
    BY <2>2, PriAssumption DEF Pri
  <2> QED BY <2>1, <2>2, <2>3 DEF TCB
<1>3. Holds(s, R \cup {t}, pri)
  <2>1. Holds(b, R, pri) /\ t \in Tasks \ R /\ R \in SUBSET Tasks
    BY <1>1
  <2>2. LET n == ready_queue_insert(b, t, pri[t])
        IN /\ Holds(n, R \cup {t}, pri)
           /\ ready_queue_top(n) = IF pri[t] < b.top_priority THEN t
                                   ELSE ready_queue_top(b)
    BY <2>1, Insert
  <2> QED BY <2>2
<1> HIDE DEF p
<1>4. r = [rq EXCEPT !.slicecnt[t] = 0, !.tskque[p] = q, !.bitmap = @ \cup {p},
                     !.klocktsk = k, !.top_priority = top]
  BY <1>1 DEF ready_queue_insert, Linked, RDYQUE
<1>5. s = [b EXCEPT !.slicecnt[t] = 0, !.tskque[p] = q, !.bitmap = @ \cup {p},
                    !.top_priority = top]
  BY <1>1 DEF ready_queue_insert, Linked, RDYQUE
<1> HIDE DEF q, top, k, r, s
<1>6. r \in RDYQUE /\ SameLocks(r, rq) /\ r.klocktsk = k
  BY <1>1, <1>2, <1>4 DEF RDYQUE, SameLocks
<1>7. r.top_priority = s.top_priority /\ r.tskque = s.tskque /\ r.bitmap = s.bitmap
  BY <1>1, <1>4, <1>5 DEF RDYQUE
<1>8. Ordered(r, R \cup {t}, pri)
  BY <1>3, <1>6, <1>7, OrderedLike
<1> QED BY <1>6, <1>8 DEF p, r, k, Inserted

\* Unlink takes a task out of the lists of the locks.
LEMMA UnlinkWaiter ==
  ASSUME NEW rq \in RDYQUE, NEW W, Waiters(rq, W), NEW t \in Tasks
  PROVE  /\ Unlink(rq.wtskq, t) \in [Locks -> Seq(Tasks)]
         /\ \A l \in Locks : IsQueue(Unlink(rq.wtskq, t)[l], W[l] \ {t})
         /\ (\A l \in Locks : t \notin W[l]) => Unlink(rq.wtskq, t) = rq.wtskq
<1> DEFINE ws == Unlink(rq.wtskq, t)
<1>1. rq.wtskq \in [Locks -> Seq(Tasks)] /\ ws = [l \in Locks |-> QueRemove(rq.wtskq[l], t)]
  BY DEF Unlink, RDYQUE
<1>2. ASSUME NEW l \in Locks
      PROVE  /\ IsQueue(QueRemove(rq.wtskq[l], t), W[l] \ {t})
             /\ t \notin W[l] => QueRemove(rq.wtskq[l], t) = rq.wtskq[l]
  <2> DEFINE q == rq.wtskq[l]
             S == W[l]
  <2>1. IsQueue(q, S)
    BY DEF Waiters
  <2> HIDE DEF q, S
  <2>2. IsQueue(QueRemove(q, t), S \ {t}) /\ (t \notin S => QueRemove(q, t) = q)
    BY <2>1, RemoveQueue
  <2> QED BY <2>2 DEF q, S
<1>3. \A l \in Locks : ws[l] \in Seq(Tasks) /\ IsQueue(ws[l], W[l] \ {t})
  BY <1>1, <1>2 DEF IsQueue
<1>4. (\A l \in Locks : t \notin W[l]) => ws = rq.wtskq
  BY <1>1, <1>2
<1> HIDE DEF ws
<1>5. ws \in [Locks -> Seq(Tasks)]
  BY <1>1, <1>3
<1> QED BY <1>3, <1>4, <1>5 DEF ws

\* ready_queue_delete, of a task in a priority queue or of one that waits for
\* a lock.
LEMMA KDelete ==
  ASSUME NEW rq, NEW R \in SUBSET Tasks, NEW pri \in [Tasks -> Pri],
         Ordered(rq, R, pri), NEW W, Waiters(rq, W), NEW t \in Tasks,
         InOneList(rq, t, R, W)
  PROVE  Deleted(ready_queue_delete(rq, t, pri[t]), rq, t, R, pri, W)
<1> DEFINE p == pri[t]
           k == IF rq.klocktsk = t THEN NULL ELSE rq.klocktsk
           b == plain(rq)
           ws == Unlink(rq.wtskq, t)
           r == ready_queue_delete(rq, t, p)
           s == ready_queue_delete(b, t, p)
<1>1. /\ Holds(b, R, pri) /\ b \in RDYQUE /\ rq \in RDYQUE
      /\ b.tskque = rq.tskque /\ b.bitmap = rq.bitmap
      /\ b.top_priority = rq.top_priority
      /\ \A u \in Tasks : ~b.klockwait[u]
  BY PlainHolds
<1> HIDE DEF b
<1>2. k \in TCB /\ p \in Pri
  BY <1>1 DEF RDYQUE, TCB
<1>3. CASE t \notin R
  <2>1. r = [rq EXCEPT !.klocktsk = k, !.wtskq = ws, !.klockwait[t] = FALSE]
    BY <1>3 DEF ready_queue_delete, InOneList
  <2>2. ws \in [Locks -> Seq(Tasks)] /\ \A l \in Locks : IsQueue(ws[l], W[l] \ {t})
    BY <1>1, UnlinkWaiter
  <2> HIDE DEF ws, k, r
  <2>3. /\ r \in RDYQUE /\ r.klocktsk = k /\ r.klocked = rq.klocked /\ r.wtskq = ws
        /\ r.klockwait = [rq.klockwait EXCEPT ![t] = FALSE]
        /\ r.top_priority = b.top_priority /\ r.tskque = b.tskque /\ r.bitmap = b.bitmap
    BY <1>1, <1>2, <2>1, <2>2 DEF RDYQUE
  <2>4. Ordered(r, R, pri) /\ R \ {t} = R
    BY <1>1, <1>3, <2>3, OrderedLike
  <2>5. rq.klockwait \in [Tasks -> BOOLEAN]
    BY <1>1 DEF RDYQUE
  <2>6. Left(r, rq, t, W)
    BY <2>2, <2>3, <2>5 DEF Left
  <2> QED BY <2>3, <2>4, <2>6 DEF r, k, Deleted
<1>4. CASE t \in R
  <2> DEFINE qs == Unlink(rq.tskque, t)
             bm == IF qs[p] = << >> THEN rq.bitmap \ {p} ELSE rq.bitmap
             top == IF qs[p] = << >> /\ p = rq.top_priority
                    THEN BitSearch1(bm, p) ELSE rq.top_priority
  <2>1. Holds(s, R \ {t}, pri)
    BY <1>1, <1>4, Delete
  <2>2. r = [rq EXCEPT !.klocktsk = k, !.tskque = qs, !.bitmap = bm, !.top_priority = top]
    BY <1>1, <1>4 DEF ready_queue_delete, RDYQUE, InOneList
  <2>3. s = [b EXCEPT !.klocktsk = IF b.klocktsk = t THEN NULL ELSE b.klocktsk,
                      !.tskque = qs, !.bitmap = bm, !.top_priority = top]
    BY <1>1, <1>4 DEF ready_queue_delete, RDYQUE
  <2> HIDE DEF qs, bm, top, k, r, s
  <2>4. s.tskque = qs /\ s.bitmap = bm /\ s.top_priority = top
    BY <1>1, <2>3 DEF RDYQUE
  <2>5. qs \in [Pri -> Seq(Tasks)] /\ bm \in SUBSET Pri /\ top \in 0 .. NUM_PRI
    BY <2>1, <2>4 DEF Holds, RDYQUE
  <2>6. /\ r \in RDYQUE /\ r.klocktsk = k /\ SameLocks(r, rq)
        /\ r.top_priority = s.top_priority /\ r.tskque = s.tskque /\ r.bitmap = s.bitmap
    BY <1>1, <1>2, <2>2, <2>4, <2>5 DEF RDYQUE, SameLocks
  <2>7. Ordered(r, R \ {t}, pri)
    BY <2>1, <2>6, OrderedLike
  <2>8. \A l \in Locks : IsQueue(r.wtskq[l], W[l] \ {t})
    <3>1. \A l \in Locks : W[l] \ {t} = W[l]
      BY <1>4 DEF InOneList
    <3> QED BY <2>6, <3>1 DEF SameLocks, Waiters
  <2>9. Left(r, rq, t, W)
    BY <1>4, <2>6, <2>8 DEF SameLocks, Left, InOneList
  <2> QED BY <2>6, <2>7, <2>9 DEF r, k, Deleted
<1> QED BY <1>3, <1>4

\* ready_queue_rotate
LEMMA KRotate ==
  ASSUME NEW rq, NEW R \in SUBSET Tasks, NEW pri \in [Tasks -> Pri],
         Ordered(rq, R, pri), NEW p \in Pri
  PROVE  LET r == ready_queue_rotate(rq, p)
         IN Ordered(r, R, pri) /\ SameLocks(r, rq) /\ r.klocktsk = rq.klocktsk
<1> DEFINE q == rq.tskque[p]
           n == Append(Tail(q), Head(q))
           b == plain(rq)
           r == ready_queue_rotate(rq, p)
           s == ready_queue_rotate(b, p)
<1>1. /\ Holds(b, R, pri) /\ b \in RDYQUE /\ rq \in RDYQUE
      /\ b.tskque = rq.tskque /\ b.bitmap = rq.bitmap
      /\ b.top_priority = rq.top_priority
  BY PlainHolds
<1> HIDE DEF b
<1>2. CASE q = << >>
  BY <1>2 DEF ready_queue_rotate, SameLocks
<1>3. CASE q # << >>
  <2>1. Holds(s, R, pri)
    BY <1>1, Rotate
  <2>2. Head(q) \in Tasks
    <3>1. IsQueue(q, OfPri(R, pri, p))
      BY <1>1 DEF Holds
    <3> HIDE DEF q
    <3>2. Head(q) \in OfPri(R, pri, p)
      BY <1>3, <3>1, RotateQueue
    <3> QED BY <3>2 DEF OfPri
  <2>3. r = [rq EXCEPT !.tskque[p] = n, !.slicecnt[Head(q)] = 0]
    BY <1>3 DEF ready_queue_rotate
  <2>4. s = [b EXCEPT !.tskque[p] = n, !.slicecnt[Head(q)] = 0]
    BY <1>1, <1>3 DEF ready_queue_rotate
  <2> HIDE DEF q, n, r, s
  <2>5. s.tskque = [rq.tskque EXCEPT ![p] = n] /\ s.bitmap = rq.bitmap
        /\ s.top_priority = rq.top_priority
    BY <1>1, <2>4 DEF RDYQUE
  <2>6. [rq.tskque EXCEPT ![p] = n] \in [Pri -> Seq(Tasks)]
    BY <2>1, <2>5 DEF Holds, RDYQUE
  <2>7. /\ r \in RDYQUE /\ SameLocks(r, rq) /\ r.klocktsk = rq.klocktsk
        /\ r.top_priority = s.top_priority /\ r.tskque = s.tskque /\ r.bitmap = s.bitmap
    BY <1>1, <2>2, <2>3, <2>5, <2>6 DEF RDYQUE, SameLocks
  <2> QED BY <2>1, <2>7, OrderedLike DEF r
<1> QED BY <1>2, <1>3

\* ready_queue_move_last, of a task in a priority queue.
LEMMA KMoveLast ==
  ASSUME NEW rq, NEW R \in SUBSET Tasks, NEW pri \in [Tasks -> Pri],
         Ordered(rq, R, pri), NEW t \in R,
         NEW W, Waiters(rq, W), \A l \in Locks : t \notin W[l]
  PROVE  LET r == ready_queue_move_last(rq, t, pri[t])
         IN /\ Ordered(r, R, pri) /\ SameLocks(r, rq) /\ r.klocktsk = rq.klocktsk
            /\ Head(r.tskque[pri[t]]) \in R
<1> DEFINE p == pri[t]
           qs == Unlink(rq.tskque, t)
           ns == [qs EXCEPT ![p] = Append(qs[p], t)]
           b == plain(rq)
           r == ready_queue_move_last(rq, t, p)
           s == ready_queue_move_last(b, t, p)
<1>1. /\ Holds(b, R, pri) /\ b \in RDYQUE /\ rq \in RDYQUE
      /\ b.tskque = rq.tskque /\ b.bitmap = rq.bitmap /\ b.wtskq = rq.wtskq
      /\ b.top_priority = rq.top_priority
  BY PlainHolds
<1> HIDE DEF b
<1>2. t \in Tasks /\ p \in Pri
  OBVIOUS
<1>3. Holds(s, R, pri)
  BY <1>1, MoveLast
<1>4. Unlink(rq.wtskq, t) = rq.wtskq
  BY <1>1, <1>2, UnlinkWaiter
<1>5. /\ r = [rq EXCEPT !.tskque = ns, !.wtskq = rq.wtskq, !.slicecnt[t] = 0]
      /\ s = [b EXCEPT !.tskque = ns, !.wtskq = rq.wtskq, !.slicecnt[t] = 0]
  BY <1>1, <1>4 DEF ready_queue_move_last
<1>6. IsQueue(s.tskque[p], OfPri(R, pri, p)) /\ OfPri(R, pri, p) # {}
  BY <1>2, <1>3 DEF Holds, OfPri
<1> HIDE DEF ns, p, r, s
<1>7. s.tskque = ns /\ s.bitmap = rq.bitmap /\ s.top_priority = rq.top_priority
  BY <1>1, <1>5 DEF RDYQUE
<1>8. ns \in [Pri -> Seq(Tasks)]
  BY <1>3, <1>7 DEF Holds, RDYQUE
<1>9. /\ r \in RDYQUE /\ SameLocks(r, rq) /\ r.klocktsk = rq.klocktsk
      /\ r.top_priority = s.top_priority /\ r.tskque = s.tskque /\ r.bitmap = s.bitmap
  BY <1>1, <1>2, <1>5, <1>7, <1>8 DEF RDYQUE, SameLocks
<1>10. Head(r.tskque[p]) \in R
  <2> DEFINE q == r.tskque[p]
  <2>1. IsQueue(q, OfPri(R, pri, p)) /\ OfPri(R, pri, p) # {}
    BY <1>6, <1>9
  <2> HIDE DEF q
  <2>2. Head(q) \in OfPri(R, pri, p)
    BY <2>1, EmptyQueue, RotateQueue
  <2> QED BY <2>2 DEF OfPri, q
<1>11. Ordered(r, R, pri)
  BY <1>3, <1>9, OrderedLike
<1> QED BY <1>9, <1>10, <1>11 DEF r, p

\* A task put at the head of a list.
LEMMA PushQueue ==
  ASSUME NEW q, NEW S, IsQueue(q, S), NEW t \in Tasks \ S
  PROVE  IsQueue(<<t>> \o q, S \cup {t})
<1> DEFINE r == <<t>> \o q
<1>1. q \in Seq(Tasks) /\ Len(q) \in Nat /\ DOMAIN q = 1 .. Len(q)
  BY LenProperties DEF IsQueue
<1>2. <<t>> \in Seq(Tasks) /\ Len(<<t>>) = 1 /\ <<t>>[1] = t
  OBVIOUS
<1>3. /\ r \in Seq(Tasks) /\ Len(r) = 1 + Len(q)
      /\ \A i \in 1 .. 1 + Len(q) : r[i] = IF i <= 1 THEN <<t>>[i] ELSE q[i - 1]
  BY <1>1, <1>2, ConcatProperties
<1> HIDE DEF r
<1>4. DOMAIN r = 1 .. 1 + Len(q) /\ r[1] = t /\ \A i \in 1 .. Len(q) : r[i + 1] = q[i]
  BY <1>1, <1>2, <1>3, LenProperties
<1>5. \A i \in 2 .. 1 + Len(q) : i - 1 \in 1 .. Len(q) /\ r[i] = q[i - 1]
  BY <1>1, <1>3
<1>6. \A i \in 1 .. Len(q) : q[i] \in S
  BY <1>1 DEF IsQueue, Range
<1>7. IsInjective(r)
  <2>1. \A i, j \in 1 .. Len(q) : q[i] = q[j] => i = j
    BY <1>1 DEF IsInjective, IsQueue
  <2>2. ASSUME NEW i \in 1 .. 1 + Len(q), NEW j \in 1 .. 1 + Len(q), r[i] = r[j]
        PROVE  i = j
    <3>1. i # 1 => i - 1 \in 1 .. Len(q) /\ r[i] = q[i - 1] /\ r[i] # t
      BY <1>1, <1>5, <1>6
    <3>2. j # 1 => j - 1 \in 1 .. Len(q) /\ r[j] = q[j - 1] /\ r[j] # t
      BY <1>1, <1>5, <1>6
    <3>3. i # 1 /\ j # 1 => i - 1 = j - 1
      BY <2>1, <2>2, <3>1, <3>2
    <3> QED BY <1>1, <1>4, <2>2, <3>1, <3>2, <3>3
  <2> QED BY <1>4, <2>2 DEF IsInjective
<1>8. Range(r) = S \cup {t}
  <2>1. \A x \in Range(r) : x \in S \cup {t}
    BY <1>1, <1>4, <1>5, <1>6 DEF Range
  <2>2. \A x \in S : \E i \in 1 .. Len(q) : q[i] = x
    BY <1>1 DEF IsQueue, Range
  <2>3. \A i \in 1 .. Len(q) : i + 1 \in 1 .. 1 + Len(q) /\ r[i + 1] = q[i]
    BY <1>1, <1>4
  <2>4. \A x \in S : x \in Range(r)
    BY <1>4, <2>2, <2>3 DEF Range
  <2>5. t \in Range(r)
    BY <1>1, <1>4 DEF Range
  <2> QED BY <2>1, <2>4, <2>5
<1> QED BY <1>3, <1>7, <1>8 DEF IsQueue, r

\* ready_queue_insert_top
LEMMA KInsertTop ==
  ASSUME NEW rq, NEW R \in SUBSET Tasks, NEW pri \in [Tasks -> Pri],
         Ordered(rq, R, pri), NEW t \in Tasks \ R
  PROVE  Inserted(ready_queue_insert_top(rq, t, pri[t]), rq, t, R, pri)
<1> DEFINE p == pri[t]
           S == R \cup {t}
           q == <<t>> \o rq.tskque[p]
           top == IF p < rq.top_priority THEN p ELSE rq.top_priority
           k == IF rq.klocked[t] THEN t ELSE rq.klocktsk
           a == ready_queue_insert(rq, t, p)
           r == ready_queue_insert_top(rq, t, p)
<1>1. /\ rq \in RDYQUE /\ p \in Pri /\ IsQueue(rq.tskque[p], OfPri(R, pri, p))
      /\ Ordered(a, S, pri) /\ a.klocktsk = k
  <2>1. Inserted(a, rq, t, R, pri)
    BY KInsert
  <2>2. rq \in RDYQUE /\ p \in Pri /\ IsQueue(rq.tskque[p], OfPri(R, pri, p))
    BY PlainHolds DEF Holds
  <2> QED BY <2>1, <2>2 DEF Inserted
<1>2. IsQueue(q, OfPri(S, pri, p)) /\ q \in Seq(Tasks)
  <2> DEFINE o == rq.tskque[p]
  <2>1. t \in Tasks \ OfPri(R, pri, p) /\ OfPri(S, pri, p) = OfPri(R, pri, p) \cup {t}
    BY DEF OfPri
  <2>2. IsQueue(o, OfPri(R, pri, p))
    BY <1>1
  <2> HIDE DEF o
  <2>3. IsQueue(<<t>> \o o, OfPri(S, pri, p))
    BY <2>1, <2>2, PushQueue
  <2> QED BY <2>3 DEF o, IsQueue
<1>3. k \in TCB /\ top \in 0 .. NUM_PRI
  BY <1>1, PriAssumption DEF RDYQUE, TCB, Pri
<1> HIDE DEF p
<1>4. /\ a.tskque = [rq.tskque EXCEPT ![p] = Append(rq.tskque[p], t)]
      /\ a.bitmap = rq.bitmap \cup {p} /\ a.top_priority = top
  BY <1>1 DEF ready_queue_insert, Linked, RDYQUE
<1>5. r = [rq EXCEPT !.tskque[p] = q, !.bitmap = @ \cup {p},
                     !.klocktsk = k, !.top_priority = top]
  BY <1>1 DEF ready_queue_insert_top, Linked, RDYQUE
<1> HIDE DEF q, top, k, a, r, S
<1>6. /\ r \in RDYQUE /\ SameLocks(r, rq) /\ r.klocktsk = k
      /\ r.bitmap = a.bitmap /\ r.top_priority = a.top_priority
      /\ r.tskque = [rq.tskque EXCEPT ![p] = q]
  BY <1>1, <1>2, <1>3, <1>4, <1>5 DEF RDYQUE, SameLocks
<1> DEFINE b == plain(r)
<1>7. Ordered(r, S, pri)
  <2>1. /\ b \in RDYQUE /\ b.klocktsk = NULL
        /\ b.tskque = r.tskque /\ b.bitmap = r.bitmap /\ b.top_priority = r.top_priority
        /\ \A u \in Tasks : ~b.klocked[u] /\ ~b.klockwait[u]
    BY <1>6, PlainFields
  <2>2. /\ Holds(plain(a), S, pri) /\ plain(a).bitmap = a.bitmap
        /\ plain(a).tskque = a.tskque /\ plain(a).top_priority = a.top_priority
    BY <1>1, PlainHolds
  <2> HIDE DEF b
  <2>3. \A i \in Pri : IsQueue(b.tskque[i], OfPri(S, pri, i))
    <3>1. \A i \in Pri : IsQueue(a.tskque[i], OfPri(S, pri, i))
      BY <2>2 DEF Holds
    <3> QED BY <1>1, <1>2, <1>4, <1>6, <2>1, <3>1 DEF RDYQUE
  <2>4. Holds(b, S, pri)
    BY <1>6, <2>1, <2>2, <2>3 DEF Holds
  <2> QED BY <1>6, <2>4 DEF Ordered, b
<1> QED BY <1>6, <1>7 DEF r, p, k, S, Inserted

\* A queue whose locker, if any, may run gives the processor to a task that
\* may, and to none only if there is none.
LEMMA KTop ==
  ASSUME NEW rq, NEW R \in SUBSET Tasks, NEW pri \in [Tasks -> Pri],
         Ordered(rq, R, pri), rq.klocktsk \in R \cup {NULL}
  PROVE  /\ ready_queue_top(rq) \in R \cup {NULL}
         /\ ready_queue_top(rq) = NULL <=> R = {}
<1> DEFINE b == plain(rq)
<1>1. /\ Holds(b, R, pri) /\ b.klocktsk = NULL
      /\ b.tskque = rq.tskque /\ b.top_priority = rq.top_priority
  BY PlainHolds
<1> HIDE DEF b
<1>2. rq.klocktsk = NULL => ready_queue_top(rq) = ready_queue_top(b)
  BY <1>1 DEF ready_queue_top
<1>3. rq.klocktsk # NULL => ready_queue_top(rq) = rq.klocktsk
  BY DEF ready_queue_top
<1>4. (R = {} <=> ready_queue_top(b) = NULL) /\ (R # {} => ready_queue_top(b) \in R)
  BY <1>1, TopProperties
<1> QED BY <1>2, <1>3, <1>4, NullAssumption

\* time_slice_schedule
LEMMA KTimeSlice ==
  ASSUME NEW rq, NEW R \in SUBSET Tasks, NEW pri \in [Tasks -> Pri],
         Ordered(rq, R, pri), NEW tcb \in R \cup {NULL},
         slicetime \in [Tasks -> SliceTimes],
         NEW W, Waiters(rq, W), \A l \in Locks : tcb \notin W[l]
  PROVE  LET s == time_slice_schedule(rq, tcb, pri)
         IN /\ Ordered(s.rq, R, pri) /\ SameLocks(s.rq, rq)
            /\ s.rq.klocktsk = rq.klocktsk
            /\ s.tcb \in R \cup {NULL}
<1> DEFINE s == time_slice_schedule(rq, tcb, pri)
           n == rq.slicecnt[tcb] + TIMER_PERIOD
           moved == ready_queue_move_last(rq, tcb, pri[tcb])
           counted == [rq EXCEPT !.slicecnt[tcb] = n]
<1>1. CASE tcb = NULL \/ slicetime[tcb] = 0
  BY <1>1 DEF time_slice_schedule, SameLocks
<1>2. CASE tcb # NULL /\ slicetime[tcb] # 0 /\ n > slicetime[tcb]
  <2>1. tcb \in R
    BY <1>2
  <2>2. /\ Ordered(moved, R, pri) /\ SameLocks(moved, rq) /\ moved.klocktsk = rq.klocktsk
        /\ Head(moved.tskque[pri[tcb]]) \in R
    BY <2>1, KMoveLast
  <2>3. s = [rq |-> moved, tcb |-> Head(moved.tskque[pri[tcb]])]
    BY <1>2 DEF time_slice_schedule
  <2> HIDE DEF moved, s
  <2>4. s.rq = moved /\ s.tcb = Head(moved.tskque[pri[tcb]])
    BY <2>3
  <2> QED BY <2>2, <2>4 DEF s
<1>3. CASE tcb # NULL /\ slicetime[tcb] # 0 /\ ~(n > slicetime[tcb])
  <2>1. /\ Holds(plain(rq), R, pri) /\ rq \in RDYQUE
        /\ plain(rq).tskque = rq.tskque /\ plain(rq).bitmap = rq.bitmap
        /\ plain(rq).top_priority = rq.top_priority
    BY PlainHolds
  <2>2. tcb \in Tasks /\ n \in Nat
    BY <1>3, <2>1, SliceAssumption DEF RDYQUE
  <2>3. s = [rq |-> counted, tcb |-> tcb]
    BY <1>3 DEF time_slice_schedule
  <2> HIDE DEF n
  <2>4. /\ counted \in RDYQUE /\ SameLocks(counted, rq) /\ counted.klocktsk = rq.klocktsk
        /\ counted.tskque = rq.tskque /\ counted.bitmap = rq.bitmap
        /\ counted.top_priority = rq.top_priority
    BY <2>1, <2>2 DEF RDYQUE, SameLocks
  <2> HIDE DEF counted, s
  <2>5. Ordered(counted, R, pri)
    BY <2>1, <2>4, OrderedLike
  <2>6. s.rq = counted /\ s.tcb = tcb
    BY <2>3
  <2> QED BY <2>4, <2>5, <2>6 DEF s
<1> QED BY <1>1, <1>2, <1>3
---------------------------------------------------------------------------

Runnables  == {t \in Tasks : Runnable(t)}
Queuers(l) == {t \in Tasks : ready_queue.klockwait[t] /\ use[t] = l}
Queues     == [l \in Locks |-> Queuers(l)]

KTypes ==
  /\ state \in [Tasks -> TSTAT]
  /\ ipriority \in [Tasks -> Pri]
  /\ priority \in [Tasks -> Pri]
  /\ slicetime \in [Tasks -> SliceTimes]
  /\ ctxtsk \in TCB
  /\ dispatch_disabled \in DDS
  /\ at \in [Tasks -> At]
  /\ use \in [Tasks -> Locks \cup {NULL}]
  /\ locked \in [Locks -> BOOLEAN]

\* The priority queues hold the tasks that may run, and the processor and the
\* precedence of a locker go to such tasks.
KQueue ==
  /\ Ordered(ready_queue, Runnables, priority)
  /\ schedtsk \in Runnables \cup {NULL}
  /\ ready_queue.klocktsk \in {t \in Runnables : ready_queue.klocked[t]} \cup {NULL}

\* A task under tk_dis_dsp is READY and outside of every call on an object.
DisabledInUser ==
  dispatch_disabled = "DISABLE" =>
    ctxtsk # NULL /\ state[ctxtsk] = "READY" /\ at[ctxtsk] = "user"

\* The lists of the locks and the tasks in them.
Waits ==
  /\ Waiters(ready_queue, Queues)
  /\ \A t \in Tasks :
       ready_queue.klockwait[t] =>
         /\ state[t] = "READY" /\ at[t] = "lock"
         /\ ~ready_queue.klocked[t] /\ locked[use[t]]

\* A lock that is taken has a holder, which is on its way to UnlockOBJ, and
\* the holder of a lock that is not its own is no task.
Holding ==
  /\ \A t \in Tasks : at[t] # "user" => use[t] \in Locks
  /\ \A t \in Tasks : at[t] \in {"locked", "released"} => ready_queue.klocked[t]
  /\ \A t \in Tasks : ready_queue.klocked[t] => at[t] # "user" /\ locked[use[t]]
  /\ \A t, u \in Tasks :
       ready_queue.klocked[t] /\ ready_queue.klocked[u] /\ use[t] = use[u] => t = u
  /\ \A l \in Locks : locked[l] => \E t \in Tasks : ready_queue.klocked[t] /\ use[t] = l

KInv == KTypes /\ KQueue /\ DisabledInUser /\ Waits /\ Holding

---------------------------------------------------------------------------

\* What is known of the queue in a state.
LEMMA QueueFacts ==
  ASSUME KInv
  PROVE  /\ Ordered(ready_queue, Runnables, priority)
         /\ ready_queue \in RDYQUE
         /\ Runnables \in SUBSET Tasks
         /\ priority \in [Tasks -> Pri] /\ slicetime \in [Tasks -> SliceTimes]
         /\ Waiters(ready_queue, Queues)
         /\ \A t \in Runnables, l \in Locks : t \notin Queues[l]
         /\ \A l \in Locks : NULL \notin Queues[l]
BY NullAssumption DEF KInv, KTypes, KQueue, Waits, Ordered, Runnables, Runnable,
                      Queues, Queuers

\* Two priority functions that agree on the tasks in the queue.
LEMMA KSamePriorities ==
  ASSUME NEW rq, NEW R \in SUBSET Tasks, NEW pri, NEW new,
         Ordered(rq, R, pri), \A t \in R : new[t] = pri[t]
  PROVE  Ordered(rq, R, new)
<1>1. rq \in RDYQUE /\ Holds(plain(rq), R, pri)
  BY DEF Ordered
<1>2. Holds(plain(rq), R, new)
  BY <1>1, SamePriorities
<1> QED BY <1>1, <1>2 DEF Ordered

\* The task whose code runs may run.
LEMMA KRunner ==
  ASSUME KInv, InTask
  PROVE  /\ ctxtsk \in Tasks /\ ctxtsk \in Runnables /\ state[ctxtsk] = "READY"
         /\ dispatch_disabled # "DISABLE" => schedtsk = ctxtsk
         /\ at[ctxtsk] # "user" => dispatch_disabled = "ENABLE"
<1>1. ctxtsk \in Tasks
  BY DEF InTask, KInv, KTypes, TCB
<1>2. CASE dispatch_disabled = "DISABLE"
  <2>1. state[ctxtsk] = "READY" /\ at[ctxtsk] = "user"
    BY <1>2 DEF KInv, DisabledInUser
  <2>2. ~ready_queue.klockwait[ctxtsk]
    BY <1>1, <2>1 DEF KInv, Waits
  <2> QED BY <1>1, <1>2, <2>1, <2>2 DEF Runnables, Runnable
<1>3. CASE dispatch_disabled = "ENABLE" /\ ctxtsk = schedtsk
  BY <1>1, <1>3, NullAssumption DEF KInv, KQueue, Runnables, Runnable
<1> QED BY <1>2, <1>3 DEF InTask

\* A step that neither makes a task runnable nor ends that, and changes no
\* lock.
LEMMA LocksSame ==
  ASSUME KInv, UNCHANGED lockvars, SameLocks(ready_queue', ready_queue),
         \A u \in Tasks : ready_queue.klockwait[u] => state'[u] = "READY"
  PROVE  Waits' /\ Holding'
<1>1. Queues' = Queues
  BY DEF Queues, Queuers, SameLocks, lockvars
<1> QED BY <1>1 DEF KInv, Waits, Holding, Waiters, SameLocks, lockvars

\* A step in which a task leaves the list of a lock, if it is in one, and
\* perhaps ends.
LEMMA LocksLeft ==
  ASSUME KInv, NEW t \in Tasks,
         Left(ready_queue', ready_queue, t, Queues),
         UNCHANGED lockvars \/ (~ready_queue.klocked[t] /\ Ends(t)),
         \A u \in Tasks \ {t} : ready_queue.klockwait[u] => state'[u] = "READY"
  PROVE  Waits' /\ Holding'
<1>1. at \in [Tasks -> At] /\ use \in [Tasks -> Locks \cup {NULL}]
  BY DEF KInv, KTypes
<1>2. /\ locked' = locked
      /\ \A u \in Tasks \ {t} : at'[u] = at[u] /\ use'[u] = use[u]
      /\ ~ready_queue'.klockwait[t]
      /\ \A u \in Tasks \ {t} : ready_queue'.klockwait[u] = ready_queue.klockwait[u]
      /\ ready_queue'.klocked = ready_queue.klocked
  BY <1>1 DEF Ends, lockvars, Left
<1>3. \A l \in Locks : Queues'[l] = Queues[l] \ {t}
  BY <1>2 DEF Queues, Queuers
<1>4. Waiters(ready_queue', Queues')
  BY <1>3 DEF Waiters, Left
<1>5. \A u \in Tasks : ready_queue'.klockwait[u] =>
        /\ state'[u] = "READY" /\ at'[u] = "lock"
        /\ ~ready_queue'.klocked[u] /\ locked'[use'[u]]
  BY <1>2 DEF KInv, Waits
<1>6. Holding'
  <2>1. CASE UNCHANGED lockvars
    BY <1>2, <2>1 DEF KInv, Holding, lockvars
  <2>2. CASE ~ready_queue.klocked[t] /\ Ends(t)
    <3>1. at'[t] = "user"
      BY <1>1, <2>2 DEF Ends
    <3> QED BY <1>2, <2>2, <3>1 DEF KInv, Holding
  <2> QED BY <2>1, <2>2
<1> QED BY <1>4, <1>5, <1>6 DEF Waits

---------------------------------------------------------------------------

\* preempt
LEMMA KPreempt ==
  ASSUME NEW rq, NEW R \in SUBSET Tasks, NEW pri \in [Tasks -> Pri],
         Ordered(rq, R, pri), schedtsk \in R \cup {NULL},
         slicetime \in [Tasks -> SliceTimes],
         NEW W, Waiters(rq, W), \A l \in Locks : schedtsk \notin W[l]
  PROVE  LET r == preempt(rq, pri)
         IN Ordered(r, R, pri) /\ SameLocks(r, rq) /\ r.klocktsk = rq.klocktsk
<1> DEFINE s == time_slice_schedule(rq, schedtsk, pri)
<1>1. Ordered(s.rq, R, pri) /\ SameLocks(s.rq, rq) /\ s.rq.klocktsk = rq.klocktsk
  BY KTimeSlice
<1>2. preempt(rq, pri) = IF schedtsk = ctxtsk THEN s.rq ELSE rq
  BY DEF preempt
<1> HIDE DEF s
<1> QED BY <1>1, <1>2 DEF SameLocks

\* reschedule
LEMMA KReschedule ==
  ASSUME NEW rq, NEW R \in SUBSET Tasks, NEW pri \in [Tasks -> Pri],
         Ordered(rq, R, pri), schedtsk \in R \cup {NULL},
         rq.klocktsk \in {t \in R : rq.klocked[t]} \cup {NULL},
         slicetime \in [Tasks -> SliceTimes],
         NEW W, Waiters(rq, W), \A l \in Locks : schedtsk \notin W[l],
         reschedule(rq, pri)
  PROVE  /\ Ordered(ready_queue', R, pri)
         /\ SameLocks(ready_queue', rq) /\ ready_queue'.klocktsk = rq.klocktsk
         /\ schedtsk' \in R \cup {NULL}
<1>1. /\ Ordered(preempt(rq, pri), R, pri) /\ SameLocks(preempt(rq, pri), rq)
      /\ preempt(rq, pri).klocktsk = rq.klocktsk
  BY KPreempt
<1>2. ready_queue_top(rq) \in R \cup {NULL}
  BY KTop
<1>3. /\ ready_queue' = IF schedtsk # ready_queue_top(rq) THEN preempt(rq, pri) ELSE rq
      /\ schedtsk' = ready_queue_top(rq)
  BY DEF reschedule
<1> QED BY <1>1, <1>2, <1>3 DEF SameLocks

\* make_ready, for a task that is not READY.
LEMMA KMakeReady ==
  ASSUME KInv, NEW t \in Tasks, state[t] # "READY", make_ready(t),
         priority' = priority
  PROVE  KQueue' /\ SameLocks(ready_queue', ready_queue)
<1> DEFINE R == Runnables
           S == R \cup {t}
           rq == ready_queue_insert(ready_queue, t, priority[t])
           raises == ready_queue_insert_raises(ready_queue, priority[t])
<1>1. /\ Ordered(ready_queue, R, priority) /\ R \in SUBSET Tasks
      /\ priority \in [Tasks -> Pri] /\ slicetime \in [Tasks -> SliceTimes]
      /\ Waiters(ready_queue, Queues)
      /\ \A u \in Runnables, l \in Locks : u \notin Queues[l]
      /\ \A l \in Locks : NULL \notin Queues[l]
  BY QueueFacts
<1>2. /\ schedtsk \in R \cup {NULL}
      /\ ready_queue.klocktsk \in {u \in R : ready_queue.klocked[u]} \cup {NULL}
      /\ ~ready_queue.klockwait[t] /\ t \in Tasks \ R
  BY DEF KInv, KQueue, Waits, Runnables, Runnable
<1>3. /\ Ordered(rq, S, priority) /\ SameLocks(rq, ready_queue)
      /\ rq.klocktsk = IF ready_queue.klocked[t] THEN t ELSE ready_queue.klocktsk
  <2>1. Inserted(rq, ready_queue, t, R, priority)
    <3> HIDE DEF R
    <3> QED BY <1>1, <1>2, KInsert
  <2> QED BY <2>1 DEF Inserted
<1>4. /\ ready_queue' = IF raises THEN preempt(rq, priority) ELSE rq
      /\ schedtsk' = IF raises THEN t ELSE schedtsk
      /\ state' = [state EXCEPT ![t] = "READY"]
  BY DEF make_ready
<1> HIDE DEF rq, raises
<1>5. /\ Ordered(preempt(rq, priority), S, priority)
      /\ SameLocks(preempt(rq, priority), rq)
      /\ preempt(rq, priority).klocktsk = rq.klocktsk
  <2>1. Waiters(rq, Queues) /\ S \in SUBSET Tasks /\ schedtsk \in S \cup {NULL}
    BY <1>1, <1>2, <1>3 DEF Waiters, SameLocks
  <2>2. \A l \in Locks : schedtsk \notin Queues[l]
    BY <1>1, <1>2
  <2> HIDE DEF S
  <2> QED BY <1>1, <1>3, <2>1, <2>2, KPreempt
<1>6. /\ Ordered(ready_queue', S, priority) /\ SameLocks(ready_queue', ready_queue)
      /\ ready_queue'.klocktsk = rq.klocktsk
  BY <1>3, <1>4, <1>5 DEF SameLocks
<1>7. Runnables' = S
  BY <1>2, <1>4, <1>6 DEF Runnables, Runnable, SameLocks, KInv, KTypes
<1>8. schedtsk' \in S \cup {NULL}
  BY <1>2, <1>4
<1>9. ready_queue'.klocktsk \in {u \in S : ready_queue'.klocked[u]} \cup {NULL}
  BY <1>2, <1>3, <1>6 DEF SameLocks
<1> HIDE DEF S, R
<1> QED BY <1>6, <1>7, <1>8, <1>9 DEF KQueue

\* make_non_ready, for a task that is READY and will no longer be.
LEMMA KMakeNonReady ==
  ASSUME KInv, NEW t \in Tasks, state[t] = "READY", make_non_ready(t),
         state'[t] # "READY", \A u \in Tasks \ {t} : state'[u] = state[u],
         \A u \in Tasks \ {t} : priority'[u] = priority[u]
  PROVE  KQueue' /\ Left(ready_queue', ready_queue, t, Queues)
<1> DEFINE R == Runnables
           S == R \ {t}
           rq == ready_queue_delete(ready_queue, t, priority[t])
<1>1. /\ Ordered(ready_queue, R, priority) /\ R \in SUBSET Tasks
      /\ priority \in [Tasks -> Pri] /\ ready_queue \in RDYQUE
      /\ Waiters(ready_queue, Queues)
      /\ \A u \in Runnables, l \in Locks : u \notin Queues[l]
  BY QueueFacts
<1>2. /\ schedtsk \in R \cup {NULL}
      /\ ready_queue.klocktsk \in {u \in R : ready_queue.klocked[u]} \cup {NULL}
      /\ InOneList(ready_queue, t, R, Queues)
  BY <1>1 DEF KInv, KQueue, Runnables, Runnable, RDYQUE, InOneList
<1>3. /\ Ordered(rq, S, priority)
      /\ Left(rq, ready_queue, t, Queues)
      /\ rq.klocktsk = IF ready_queue.klocktsk = t THEN NULL ELSE ready_queue.klocktsk
  <2>1. /\ R \in SUBSET Tasks /\ priority \in [Tasks -> Pri]
        /\ Ordered(ready_queue, R, priority) /\ Waiters(ready_queue, Queues)
        /\ InOneList(ready_queue, t, R, Queues)
    BY <1>1, <1>2
  <2>2. Deleted(rq, ready_queue, t, R, priority, Queues)
    <3> HIDE DEF R
    <3> QED BY <2>1, KDelete
  <2> QED BY <2>2 DEF Deleted
<1>4. /\ ready_queue' = rq
      /\ schedtsk' = IF schedtsk = t THEN ready_queue_top(rq) ELSE schedtsk
  BY DEF make_non_ready
<1> HIDE DEF rq
<1>5. rq.klocktsk \in {u \in S : rq.klocked[u]} \cup {NULL}
  BY <1>2, <1>3 DEF Left
<1>6. ready_queue_top(rq) \in S \cup {NULL}
  BY <1>1, <1>3, <1>5, KTop
<1>7. schedtsk' \in S \cup {NULL}
  BY <1>2, <1>4, <1>6
<1>8. Runnables' = S
  BY <1>1, <1>3, <1>4 DEF Runnables, Runnable, RDYQUE, Left
<1>9. Ordered(rq, S, priority')
  <2>1. S \in SUBSET Tasks /\ \A u \in S : priority'[u] = priority[u]
    BY <1>1
  <2> HIDE DEF S
  <2> QED BY <1>3, <2>1, KSamePriorities
<1> HIDE DEF S, R
<1> QED BY <1>3, <1>4, <1>5, <1>7, <1>8, <1>9 DEF KQueue

\* A task that is in no list of a lock leaves none.
LEMMA NotQueued ==
  ASSUME KInv, NEW t \in Tasks, ~ready_queue.klockwait[t]
  PROVE  Left(ready_queue, ready_queue, t, Queues)
<1>1. Waiters(ready_queue, Queues)
  BY QueueFacts
<1>2. \A l \in Locks : Queues[l] \ {t} = Queues[l]
  BY DEF Queues, Queuers
<1> QED BY <1>1, <1>2 DEF Waiters, Left

\* change_task_priority: a task that waits for a lock leaves its list and will
\* try again.
LEMMA KChangePriority ==
  ASSUME KInv, NEW t \in Tasks, NEW p \in Pri, change_task_priority(t, p)
  PROVE  KQueue' /\ Left(ready_queue', ready_queue, t, Queues)
<1> DEFINE R == Runnables
           S == R \ {t}
           pri == [priority EXCEPT ![t] = p]
           deleted == ready_queue_delete(ready_queue, t, priority[t])
           rq == ready_queue_insert(deleted, t, pri[t])
           W == [l \in Locks |-> Queues[l] \ {t}]
<1>1. /\ Ordered(ready_queue, R, priority) /\ R \in SUBSET Tasks /\ S \in SUBSET Tasks
      /\ priority \in [Tasks -> Pri] /\ ready_queue \in RDYQUE
      /\ slicetime \in [Tasks -> SliceTimes]
      /\ Waiters(ready_queue, Queues)
      /\ \A u \in R, l \in Locks : u \notin Queues[l]
      /\ \A l \in Locks : NULL \notin Queues[l]
  BY QueueFacts
<1>2. /\ schedtsk \in R \cup {NULL}
      /\ ready_queue.klocktsk \in {u \in R : ready_queue.klocked[u]} \cup {NULL}
  BY DEF KInv, KQueue
<1>3. priority' = pri /\ pri \in [Tasks -> Pri] /\ pri[t] = p /\ state' = state
  BY <1>1 DEF change_task_priority
<1>4. CASE state[t] # "READY"
  <2>1. UNCHANGED <<ready_queue, schedtsk>> /\ ~ready_queue.klockwait[t] /\ t \notin R
    BY <1>4 DEF change_task_priority, KInv, Waits, Runnables, Runnable
  <2>2. Runnables' = R
    BY <1>3, <2>1 DEF Runnables, Runnable
  <2>3. Ordered(ready_queue, R, pri)
    BY <1>1, <2>1, KSamePriorities
  <2> HIDE DEF R
  <2> QED BY <1>2, <1>3, <2>1, <2>2, <2>3, NotQueued DEF KQueue
<1>5. CASE state[t] = "READY"
  <2>1. InOneList(ready_queue, t, R, Queues) /\ t \in Tasks \ S
    BY <1>1, <1>5 DEF Runnables, Runnable, RDYQUE, InOneList
  <2>2. reschedule(rq, pri)
    BY <1>3, <1>5 DEF change_task_priority
  <2>3. \A u \in S : pri[u] = priority[u]
    BY <1>1
  <2>4. \A l \in Locks : schedtsk \notin Queues[l]
    BY <1>1, <1>2
  <2> HIDE DEF R, pri
  <2>5. /\ Ordered(deleted, S, priority)
        /\ Left(deleted, ready_queue, t, Queues)
        /\ deleted.klocktsk = IF ready_queue.klocktsk = t THEN NULL ELSE ready_queue.klocktsk
    <3> HIDE DEF W
    <3>1. /\ Ordered(ready_queue, R, priority) /\ R \in SUBSET Tasks
          /\ priority \in [Tasks -> Pri] /\ Waiters(ready_queue, Queues)
          /\ InOneList(ready_queue, t, R, Queues)
      BY <1>1, <2>1
    <3>2. Deleted(deleted, ready_queue, t, R, priority, Queues)
      BY <3>1, KDelete
    <3> QED BY <3>2 DEF Deleted
  <2> HIDE DEF deleted
  <2>6. Ordered(deleted, S, pri)
    <3> HIDE DEF S
    <3> QED BY <1>1, <2>3, <2>5, KSamePriorities
  <2>7. /\ Ordered(rq, S \cup {t}, pri) /\ SameLocks(rq, deleted)
        /\ rq.klocktsk = IF deleted.klocked[t] THEN t ELSE deleted.klocktsk
    <3> HIDE DEF S, deleted
    <3>1. S \in SUBSET Tasks /\ t \in Tasks \ S
      BY <1>1, <2>1 DEF S
    <3>2. pri \in [Tasks -> Pri] /\ Ordered(deleted, S, pri) /\ pri[t] = p
      BY <1>3, <2>6
    <3>3. Inserted(ready_queue_insert(deleted, t, pri[t]), deleted, t, S, pri)
      BY <3>1, <3>2, KInsert
    <3> QED BY <3>2, <3>3 DEF Inserted
  <2> HIDE DEF rq
  <2>8. /\ Waiters(rq, W) /\ \A l \in Locks : schedtsk \notin W[l]
        /\ S \cup {t} \in SUBSET Tasks /\ schedtsk \in (S \cup {t}) \cup {NULL}
        /\ rq.klocktsk \in {u \in S \cup {t} : rq.klocked[u]} \cup {NULL}
    BY <1>1, <1>2, <2>4, <2>5, <2>7 DEF Waiters, SameLocks, Left
  <2> HIDE DEF S
  <2>9. /\ Ordered(ready_queue', S \cup {t}, pri)
        /\ SameLocks(ready_queue', rq) /\ ready_queue'.klocktsk = rq.klocktsk
        /\ schedtsk' \in (S \cup {t}) \cup {NULL}
    <3> HIDE DEF W
    <3> DEFINE T == S \cup {t}
    <3>1. /\ Ordered(rq, T, pri) /\ T \in SUBSET Tasks /\ schedtsk \in T \cup {NULL}
          /\ rq.klocktsk \in {u \in T : rq.klocked[u]} \cup {NULL}
      BY <2>7, <2>8
    <3> HIDE DEF T
    <3>2. /\ Ordered(ready_queue', T, pri)
          /\ SameLocks(ready_queue', rq) /\ ready_queue'.klocktsk = rq.klocktsk
          /\ schedtsk' \in T \cup {NULL}
      BY <1>1, <1>3, <2>2, <2>8, <3>1, KReschedule
    <3> QED BY <3>2 DEF T
  <2>10. Runnables' = S \cup {t}
    BY <1>1, <1>3, <1>5, <2>5, <2>7, <2>9 DEF Runnables, Runnable, SameLocks, R, S, RDYQUE, Left
  <2>11. ready_queue'.klocked = rq.klocked
    BY <2>9 DEF SameLocks
  <2>12. KQueue'
    BY <1>3, <2>8, <2>9, <2>10, <2>11 DEF KQueue
  <2> QED BY <2>5, <2>7, <2>9, <2>12 DEF SameLocks, Left
<1> QED BY <1>4, <1>5

\* tk_rot_rdq.
LEMMA KRotateReady ==
  ASSUME KInv, NEW p \in Pri,
         reschedule(ready_queue_rotate(ready_queue, p), priority),
         UNCHANGED <<state, priority>>
  PROVE  KQueue' /\ SameLocks(ready_queue', ready_queue)
<1> DEFINE R == Runnables
           rq == ready_queue_rotate(ready_queue, p)
<1>1. /\ Ordered(ready_queue, R, priority) /\ R \in SUBSET Tasks
      /\ priority \in [Tasks -> Pri] /\ slicetime \in [Tasks -> SliceTimes]
      /\ Waiters(ready_queue, Queues)
      /\ \A u \in R, l \in Locks : u \notin Queues[l]
      /\ \A l \in Locks : NULL \notin Queues[l]
  BY QueueFacts
<1>2. /\ schedtsk \in R \cup {NULL}
      /\ ready_queue.klocktsk \in {u \in R : ready_queue.klocked[u]} \cup {NULL}
  BY DEF KInv, KQueue
<1> HIDE DEF R
<1>3. /\ Ordered(rq, R, priority) /\ SameLocks(rq, ready_queue)
      /\ rq.klocktsk = ready_queue.klocktsk
  BY <1>1, KRotate
<1>4. reschedule(rq, priority)
  OBVIOUS
<1> HIDE DEF rq
<1>5. /\ Waiters(rq, Queues) /\ \A l \in Locks : schedtsk \notin Queues[l]
      /\ rq.klocktsk \in {u \in R : rq.klocked[u]} \cup {NULL}
  BY <1>1, <1>2, <1>3 DEF Waiters, SameLocks
<1>6. /\ Ordered(ready_queue', R, priority)
      /\ SameLocks(ready_queue', rq) /\ ready_queue'.klocktsk = rq.klocktsk
      /\ schedtsk' \in R \cup {NULL}
  BY <1>1, <1>2, <1>3, <1>4, <1>5, KReschedule
<1>7. Runnables' = R
  BY <1>3, <1>6 DEF Runnables, Runnable, SameLocks, R
<1> QED BY <1>3, <1>5, <1>6, <1>7 DEF KQueue, SameLocks

\* The slice step of the timer handler.
LEMMA KTimerSlice ==
  ASSUME KInv, timer_handler
  PROVE  KQueue' /\ SameLocks(ready_queue', ready_queue)
<1> DEFINE R == Runnables
           s == time_slice_schedule(ready_queue, ctxtsk, priority)
<1>1. /\ Ordered(ready_queue, R, priority) /\ R \in SUBSET Tasks
      /\ priority \in [Tasks -> Pri] /\ slicetime \in [Tasks -> SliceTimes]
      /\ Waiters(ready_queue, Queues)
      /\ \A u \in R, l \in Locks : u \notin Queues[l]
  BY QueueFacts
<1>2. /\ schedtsk \in R \cup {NULL}
      /\ ready_queue.klocktsk \in {u \in R : ready_queue.klocked[u]} \cup {NULL}
      /\ UNCHANGED <<state, priority>>
  BY DEF KInv, KQueue, timer_handler, tcbvars
<1>3. CASE ctxtsk # NULL /\ schedtsk = ctxtsk
  <2>1. ctxtsk \in R
    BY <1>2, <1>3
  <2>2. ready_queue' = s.rq /\ schedtsk' = s.tcb
    BY <1>3 DEF timer_handler
  <2> HIDE DEF R
  <2>3. /\ Ordered(s.rq, R, priority) /\ SameLocks(s.rq, ready_queue)
        /\ s.rq.klocktsk = ready_queue.klocktsk /\ s.tcb \in R \cup {NULL}
    BY <1>1, <2>1, KTimeSlice
  <2> HIDE DEF s
  <2>4. Runnables' = R
    BY <1>2, <2>2, <2>3 DEF Runnables, Runnable, SameLocks, R
  <2> QED BY <1>2, <2>2, <2>3, <2>4 DEF KQueue, SameLocks
<1>4. CASE ~(ctxtsk # NULL /\ schedtsk = ctxtsk)
  <2>1. UNCHANGED <<ready_queue, schedtsk>>
    BY <1>4 DEF timer_handler
  <2>2. Runnables' = R
    BY <1>2, <2>1 DEF Runnables, Runnable
  <2> QED BY <1>1, <1>2, <2>1, <2>2 DEF KQueue, SameLocks
<1> QED BY <1>3, <1>4

---------------------------------------------------------------------------

\* The processor after a step that leaves a queue whose locker may run.
LEMMA KTopStep ==
  ASSUME NEW R \in SUBSET Tasks, priority \in [Tasks -> Pri],
         Ordered(ready_queue', R, priority), priority' = priority, Runnables' = R,
         ready_queue'.klocktsk \in {u \in R : ready_queue'.klocked[u]} \cup {NULL},
         schedtsk' = ready_queue_top(ready_queue')
  PROVE  KQueue'
<1>1. ready_queue_top(ready_queue') \in R \cup {NULL}
  BY KTop
<1> QED BY <1>1 DEF KQueue

\* The task c unlocks l in the queue rq, in which the tasks R are ordered.
Unlocking(c, l, rq, R) ==
  /\ c = ctxtsk /\ ready_queue.klocked[c] /\ l = use[c]
  /\ Ordered(rq, R, priority)
  /\ rq.klocked = ready_queue.klocked /\ rq.klockwait = ready_queue.klockwait
  /\ Waiters(rq, Queues)
  /\ UnlockOBJ(rq, l)
  /\ priority' = priority
  /\ \A u \in Tasks : u \in R <=> state'[u] = "READY" /\ ~ready_queue.klockwait[u]
  /\ \A u \in Tasks : ready_queue.klockwait[u] => state'[u] = "READY"

\* UnlockOBJ when no task waits for the lock.
LEMMA UnlockedFree ==
  ASSUME KInv, NEW c \in Tasks, NEW l \in Locks, NEW R \in SUBSET Tasks, NEW rq,
         Unlocking(c, l, rq, R), rq.wtskq[l] = << >>
  PROVE  KQueue' /\ Waits' /\ Holding'
<1> DEFINE given == [rq EXCEPT !.klocked[c] = FALSE, !.klocktsk = NULL]
<1>1. /\ rq \in RDYQUE /\ priority \in [Tasks -> Pri]
      /\ at \in [Tasks -> At] /\ use \in [Tasks -> Locks \cup {NULL}]
      /\ locked \in [Locks -> BOOLEAN]
  BY DEF Unlocking, KInv, KTypes, Ordered
<1>2. /\ ready_queue' = given /\ schedtsk' = ready_queue_top(ready_queue')
      /\ locked' = [locked EXCEPT ![l] = FALSE]
      /\ at' = [at EXCEPT ![c] = "user"] /\ use' = [use EXCEPT ![c] = NULL]
  BY DEF Unlocking, UnlockOBJ, unlock
<1>3. /\ given \in RDYQUE /\ given.klocktsk = NULL
      /\ given.klocked = [rq.klocked EXCEPT ![c] = FALSE]
      /\ given.klockwait = rq.klockwait /\ given.wtskq = rq.wtskq
      /\ given.tskque = rq.tskque /\ given.bitmap = rq.bitmap
      /\ given.top_priority = rq.top_priority
  BY <1>1 DEF RDYQUE, TCB
<1> HIDE DEF given
<1>4. Ordered(given, R, priority)
  BY <1>3, PlainHolds, OrderedLike DEF Unlocking
<1>5. Runnables' = R
  BY <1>2, <1>3 DEF Unlocking, Runnables, Runnable
<1>6. KQueue'
  BY <1>1, <1>2, <1>3, <1>4, <1>5, KTopStep DEF Unlocking
<1>7. /\ ready_queue.klocked \in [Tasks -> BOOLEAN]
      /\ ready_queue'.klocked = [ready_queue.klocked EXCEPT ![c] = FALSE]
      /\ ready_queue'.klockwait = ready_queue.klockwait
      /\ ready_queue'.wtskq = rq.wtskq
  BY <1>2, <1>3, QueueFacts DEF Unlocking, RDYQUE
<1>8. \A t \in Tasks : ready_queue.klockwait[t] => t # c /\ use[t] # l
  <2>1. Queues[l] = {}
    BY EmptyQueue DEF Unlocking, Waiters
  <2> QED BY <2>1 DEF Unlocking, Queues, Queuers, KInv, Waits
<1>9. Waits'
  <2>1. Queues' = Queues
    BY <1>1, <1>2, <1>7, <1>8 DEF Queues, Queuers
  <2>2. Waiters(ready_queue', Queues')
    BY <1>7, <2>1 DEF Unlocking, Waiters
  <2> QED BY <1>1, <1>2, <1>7, <1>8, <2>2 DEF Unlocking, Waits, KInv
<1>10. Holding'
  <2>1. \A t \in Tasks \ {c} :
          /\ at'[t] = at[t] /\ use'[t] = use[t]
          /\ ready_queue'.klocked[t] = ready_queue.klocked[t]
          /\ ready_queue.klocked[t] => use[t] # l
    BY <1>1, <1>2, <1>7 DEF Unlocking, KInv, Holding
  <2>2. at'[c] = "user" /\ ~ready_queue'.klocked[c]
    BY <1>1, <1>2, <1>7
  <2>3. ~locked'[l] /\ \A k \in Locks \ {l} : locked'[k] = locked[k]
    BY <1>1, <1>2
  <2> QED BY <2>1, <2>2, <2>3 DEF Unlocking, KInv, Holding
<1> QED BY <1>6, <1>9, <1>10

\* The lock l goes from c to h, and the tasks q still wait for it.
Handed(rq, c, h, l, q) ==
  [rq EXCEPT !.klocked[c] = FALSE, !.klocktsk = NULL, !.wtskq[l] = q,
             !.klockwait[h] = FALSE, !.klocked[h] = TRUE]

\* The queue after a lock has been given to the first of those that wait.
LEMMA GivenLock ==
  ASSUME NEW rq, NEW R \in SUBSET Tasks, NEW pri \in [Tasks -> Pri],
         Ordered(rq, R, pri), NEW c \in Tasks, NEW l \in Locks,
         NEW h \in Tasks \ R, h # c, NEW q \in Seq(Tasks)
  PROVE  LET r == ready_queue_insert_top(Handed(rq, c, h, l, q), h, pri[h])
         IN /\ Ordered(r, R \cup {h}, pri) /\ r.klocktsk = h
            /\ SameLocks(r, Handed(rq, c, h, l, q))
<1> DEFINE given == Handed(rq, c, h, l, q)
           r == ready_queue_insert_top(given, h, pri[h])
<1>1. /\ given \in RDYQUE /\ given.klocked[h]
      /\ given.tskque = rq.tskque /\ given.bitmap = rq.bitmap
      /\ given.top_priority = rq.top_priority
  BY DEF Handed, Ordered, RDYQUE, TCB
<1> HIDE DEF given
<1>2. Ordered(given, R, pri)
  BY <1>1, PlainHolds, OrderedLike
<1>3. Inserted(r, given, h, R, pri)
  BY <1>2, KInsertTop
<1> QED BY <1>1, <1>3 DEF given, Inserted

\* UnlockOBJ when a task waits for the lock: it is given to the first one.
LEMMA UnlockedGiven ==
  ASSUME KInv, NEW c \in Tasks, NEW l \in Locks, NEW R \in SUBSET Tasks, NEW rq,
         Unlocking(c, l, rq, R), rq.wtskq[l] # << >>
  PROVE  KQueue' /\ Waits' /\ Holding'
<1> DEFINE q == rq.wtskq[l]
           h == Head(q)
           r == ready_queue_insert_top(Handed(rq, c, h, l, Tail(q)), h, priority[h])
<1>1. /\ rq \in RDYQUE /\ priority \in [Tasks -> Pri]
      /\ at \in [Tasks -> At] /\ use \in [Tasks -> Locks \cup {NULL}]
      /\ locked \in [Locks -> BOOLEAN]
  BY DEF Unlocking, KInv, KTypes, Ordered
<1>2. IsQueue(Tail(q), Queues[l] \ {h}) /\ h \in Queues[l] /\ q \in Seq(Tasks)
  <2>1. IsQueue(q, Queues[l]) /\ q # << >>
    BY DEF Unlocking, Waiters
  <2> HIDE DEF q
  <2> QED BY <2>1, TailQueue DEF IsQueue
<1>3. /\ h \in Tasks /\ ready_queue.klockwait[h] /\ use[h] = l
      /\ ~ready_queue.klocked[h] /\ at[h] = "lock" /\ h # c /\ h \notin R
  BY <1>2 DEF Unlocking, Queues, Queuers, KInv, Waits
<1>4. /\ ready_queue' = r /\ schedtsk' = ready_queue_top(ready_queue')
      /\ locked' = [locked EXCEPT ![l] = TRUE]
      /\ at' = [at EXCEPT ![c] = "user"] /\ use' = [use EXCEPT ![c] = NULL]
  BY DEF Unlocking, UnlockOBJ, unlock, Handed
<1>5. Tail(q) \in Seq(Tasks)
  BY <1>2 DEF IsQueue
<1> HIDE DEF q
<1>6. /\ Ordered(r, R \cup {h}, priority) /\ r.klocktsk = h
      /\ SameLocks(r, Handed(rq, c, h, l, Tail(q)))
  <2> DEFINE n == Tail(q)
  <2>1. /\ h \in Tasks \ R /\ h # c /\ n \in Seq(Tasks)
        /\ priority \in [Tasks -> Pri] /\ Ordered(rq, R, priority)
    BY <1>1, <1>3, <1>5 DEF Unlocking
  <2> HIDE DEF n, h
  <2> QED BY <2>1, GivenLock DEF n
<1> HIDE DEF r, h
<1>7. /\ r.klocked = [rq.klocked EXCEPT ![c] = FALSE, ![h] = TRUE]
      /\ r.klockwait = [rq.klockwait EXCEPT ![h] = FALSE]
      /\ r.wtskq = [rq.wtskq EXCEPT ![l] = Tail(q)]
  BY <1>1, <1>6 DEF SameLocks, Handed, RDYQUE
<1>9. /\ ready_queue.klocked \in [Tasks -> BOOLEAN]
      /\ ready_queue.klockwait \in [Tasks -> BOOLEAN]
      /\ ready_queue'.klocked = [ready_queue.klocked EXCEPT ![c] = FALSE, ![h] = TRUE]
      /\ ready_queue'.klockwait = [ready_queue.klockwait EXCEPT ![h] = FALSE]
      /\ ready_queue'.wtskq = [rq.wtskq EXCEPT ![l] = Tail(q)]
  BY <1>4, <1>7, QueueFacts DEF Unlocking, RDYQUE
<1>10. KQueue'
  <2>1. Runnables' = R \cup {h}
    BY <1>3, <1>9 DEF Unlocking, Runnables, Runnable
  <2>2. R \cup {h} \in SUBSET Tasks /\ Ordered(ready_queue', R \cup {h}, priority)
    BY <1>3, <1>4, <1>6
  <2>3. ready_queue'.klocktsk = h /\ ready_queue'.klocked[h]
    BY <1>3, <1>4, <1>6, <1>9
  <2> QED BY <1>1, <1>4, <2>1, <2>2, <2>3, KTopStep DEF Unlocking
<1>11. Waits'
  <2>1. \A t \in Tasks : ready_queue.klockwait[t] => t # c /\ use'[t] = use[t] /\ at'[t] = at[t]
    BY <1>1, <1>4 DEF Unlocking, KInv, Waits
  <2>2. \A k \in Locks : Queues'[k] = Queues[k] \ {h}
    BY <1>3, <1>9, <2>1 DEF Queues, Queuers
  <2>3. Waiters(ready_queue', Queues')
    <3>1. \A k \in Locks \ {l} : h \notin Queues[k] /\ ready_queue'.wtskq[k] = rq.wtskq[k]
      BY <1>1, <1>3, <1>9 DEF Queues, Queuers, RDYQUE
    <3>2. ready_queue'.wtskq[l] = Tail(q)
      BY <1>1, <1>9 DEF RDYQUE
    <3>3. ASSUME NEW k \in Locks PROVE IsQueue(ready_queue'.wtskq[k], Queues'[k])
      <4>1. CASE k = l
        BY <1>2, <2>2, <3>2, <4>1
      <4>2. CASE k # l
        <5>1. Queues[k] \ {h} = Queues[k] /\ IsQueue(rq.wtskq[k], Queues[k])
          BY <3>1, <4>2 DEF Unlocking, Waiters
        <5> QED BY <2>2, <3>1, <4>2, <5>1
      <4> QED BY <4>1, <4>2
    <3> QED BY <3>3 DEF Waiters
  <2>4. \A t \in Tasks : ready_queue'.klockwait[t] =>
          t # h /\ ready_queue.klockwait[t] /\ ready_queue'.klocked[t] = ready_queue.klocked[t]
    BY <1>3, <1>9, <2>1
  <2>5. \A k \in Locks : locked[k] => locked'[k]
    BY <1>1, <1>4
  <2>6. \A t \in Tasks : ready_queue.klockwait[t] => use[t] \in Locks
    BY DEF KInv, Waits, Holding
  <2> QED BY <2>1, <2>3, <2>4, <2>5, <2>6 DEF Unlocking, Waits, KInv
<1>12. Holding'
  <2>1. \A t \in Tasks \ {c, h} :
          /\ at'[t] = at[t] /\ use'[t] = use[t]
          /\ ready_queue'.klocked[t] = ready_queue.klocked[t]
          /\ ready_queue.klocked[t] => use[t] # l
    BY <1>1, <1>4, <1>9 DEF Unlocking, KInv, Holding
  <2>2. at'[c] = "user" /\ ~ready_queue'.klocked[c]
    BY <1>1, <1>3, <1>4, <1>9
  <2>3. at'[h] = "lock" /\ use'[h] = l /\ ready_queue'.klocked[h]
    BY <1>1, <1>3, <1>4, <1>9
  <2>4. locked'[l] /\ \A k \in Locks \ {l} : locked'[k] = locked[k]
    BY <1>1, <1>4
  <2> QED BY <1>3, <2>1, <2>2, <2>3, <2>4 DEF Unlocking, KInv, Holding
<1> QED BY <1>10, <1>11, <1>12

\* LockOBJ of a free lock.
LEMMA KLockFree ==
  ASSUME KInv, InTask, NEW c \in Tasks, c = ctxtsk, NEW l \in Locks,
         use' = [use EXCEPT ![c] = l], LockOBJ_free(l), UNCHANGED callvars,
         c \in Runnables, Entering(c, l)
  PROVE  KQueue' /\ Waits' /\ Holding'
<1> DEFINE taken == [ready_queue EXCEPT !.klocked[c] = TRUE, !.klocktsk = c]
<1>1. /\ ready_queue \in RDYQUE /\ priority \in [Tasks -> Pri]
      /\ at \in [Tasks -> At] /\ use \in [Tasks -> Locks \cup {NULL}]
      /\ locked \in [Locks -> BOOLEAN] /\ Ordered(ready_queue, Runnables, priority)
      /\ Waiters(ready_queue, Queues)
  BY QueueFacts DEF KInv, KTypes
<1>2. /\ ready_queue' = taken /\ schedtsk' = schedtsk
      /\ state' = state /\ priority' = priority
      /\ locked' = [locked EXCEPT ![l] = TRUE] /\ ~locked[l]
      /\ at' = [at EXCEPT ![c] = "locked"]
      /\ ~ready_queue.klocked[c] /\ ~ready_queue.klockwait[c]
  BY DEF LockOBJ_free, free, callvars, tcbvars, Runnables, Runnable
<1>3. /\ taken \in RDYQUE /\ taken.klocktsk = c
      /\ taken.klocked = [ready_queue.klocked EXCEPT ![c] = TRUE]
      /\ taken.klockwait = ready_queue.klockwait /\ taken.wtskq = ready_queue.wtskq
      /\ taken.tskque = ready_queue.tskque /\ taken.bitmap = ready_queue.bitmap
      /\ taken.top_priority = ready_queue.top_priority
  BY <1>1 DEF RDYQUE, TCB
<1> HIDE DEF taken
<1>4. Ordered(taken, Runnables, priority)
  BY <1>1, <1>3, PlainHolds, OrderedLike
<1>5. ready_queue.klocked \in [Tasks -> BOOLEAN]
  BY <1>1 DEF RDYQUE
<1>6. KQueue'
  <2>1. Runnables' = Runnables
    BY <1>2, <1>3 DEF Runnables, Runnable
  <2>2. ready_queue'.klocked[c]
    BY <1>2, <1>3, <1>5
  <2> QED BY <1>2, <1>3, <1>4, <2>1, <2>2 DEF KQueue, KInv
<1>7. Waits'
  <2>1. \A t \in Tasks \ {c} : use'[t] = use[t] /\ at'[t] = at[t]
                               /\ taken.klocked[t] = ready_queue.klocked[t]
    BY <1>1, <1>2, <1>3, <1>5
  <2>2. Queues' = Queues
    BY <1>2, <1>3, <2>1 DEF Queues, Queuers
  <2>3. \A k \in Locks : locked[k] => locked'[k]
    BY <1>1, <1>2
  <2>4. \A t \in Tasks : ready_queue.klockwait[t] => use[t] \in Locks
    BY DEF KInv, Waits, Holding
  <2> QED BY <1>1, <1>2, <1>3, <2>1, <2>2, <2>3, <2>4 DEF KInv, Waits, Waiters
<1>8. Holding'
  <2>1. \A t \in Tasks \ {c} :
          /\ use'[t] = use[t] /\ at'[t] = at[t]
          /\ ready_queue'.klocked[t] = ready_queue.klocked[t]
          /\ ready_queue.klocked[t] => use[t] # l
    BY <1>1, <1>2, <1>3, <1>5 DEF KInv, Holding
  <2>2. use'[c] = l /\ at'[c] = "locked" /\ ready_queue'.klocked[c]
    BY <1>1, <1>2, <1>3, <1>5
  <2>3. locked'[l] /\ \A k \in Locks \ {l} : locked'[k] = locked[k]
    BY <1>1, <1>2
  <2> QED BY <1>2, <2>1, <2>2, <2>3 DEF KInv, Holding
<1> QED BY <1>6, <1>7, <1>8

\* The queue LockOBJ leaves when the lock is taken.
QueuedFor(rq, t, p, l) ==
  LET d == ready_queue_delete(rq, t, p)
  IN [d EXCEPT !.klockwait[t] = TRUE, !.wtskq[l] = Append(d.wtskq[l], t)]

\* The queue after a task has gone from its priority queue to the list of a
\* lock.
LEMMA QueuedForLock ==
  ASSUME NEW rq, NEW R \in SUBSET Tasks, NEW pri \in [Tasks -> Pri],
         Ordered(rq, R, pri), NEW W, Waiters(rq, W), NEW t \in Tasks, t \in R,
         InOneList(rq, t, R, W), NEW l \in Locks
  PROVE  LET r == QueuedFor(rq, t, pri[t], l)
         IN Ordered(r, R \ {t}, pri) /\ Joined(r, rq, t, l, W)
<1> DEFINE S == R \ {t}
           d == ready_queue_delete(rq, t, pri[t])
           q == Append(d.wtskq[l], t)
           r == QueuedFor(rq, t, pri[t], l)
<1>1. /\ Ordered(d, S, pri) /\ Left(d, rq, t, W)
      /\ d.klocktsk = IF rq.klocktsk = t THEN NULL ELSE rq.klocktsk
  <2>1. t \in Tasks /\ InOneList(rq, t, R, W)
    OBVIOUS
  <2> HIDE DEF S
  <2>2. Deleted(d, rq, t, R, pri, W)
    BY <2>1, KDelete
  <2> QED BY <2>2 DEF S, Deleted
<1>2. d \in RDYQUE /\ d.klockwait \in [Tasks -> BOOLEAN]
  BY <1>1 DEF Ordered, RDYQUE
<1> HIDE DEF d
<1>3. ASSUME NEW k \in Locks PROVE IsQueue(d.wtskq[k], W[k])
  <2>1. W[k] \ {t} = W[k]
    BY DEF InOneList
  <2> QED BY <1>1, <2>1 DEF Left
<1>4. IsQueue(q, W[l] \cup {t})
  <2> DEFINE o == d.wtskq[l]
             V == W[l]
  <2>1. IsQueue(o, V) /\ t \in Tasks \ V
    BY <1>3 DEF InOneList
  <2> HIDE DEF o, V
  <2>2. IsQueue(Append(o, t), V \cup {t})
    BY <2>1, AppendQueue
  <2> QED BY <2>2 DEF o, V
<1>5. q \in Seq(Tasks)
  BY <1>4 DEF IsQueue
<1> HIDE DEF q
<1>6. /\ r \in RDYQUE /\ r.klocktsk = d.klocktsk /\ r.klocked = d.klocked
      /\ r.klockwait = [d.klockwait EXCEPT ![t] = TRUE]
      /\ r.wtskq = [d.wtskq EXCEPT ![l] = q]
      /\ r.tskque = d.tskque /\ r.bitmap = d.bitmap /\ r.top_priority = d.top_priority
  <2>1. r = [d EXCEPT !.klockwait[t] = TRUE, !.wtskq[l] = q]
    BY DEF QueuedFor, d, q
  <2> HIDE DEF r
  <2> QED BY <1>2, <1>5, <2>1 DEF RDYQUE
<1> HIDE DEF r
<1>7. Ordered(r, S, pri)
  <2> HIDE DEF S
  <2> QED BY <1>1, <1>6, PlainHolds, OrderedLike
<1>8. r.klockwait[t] /\ \A u \in Tasks \ {t} : r.klockwait[u] = rq.klockwait[u]
  BY <1>1, <1>2, <1>6 DEF Left
<1>9. ASSUME NEW k \in Locks
      PROVE  IsQueue(r.wtskq[k], IF k = l THEN W[k] \cup {t} ELSE W[k])
  <2>1. r.wtskq[k] = IF k = l THEN q ELSE d.wtskq[k]
    BY <1>2, <1>6 DEF RDYQUE
  <2> QED BY <1>3, <1>4, <2>1
<1> QED BY <1>1, <1>6, <1>7, <1>8, <1>9 DEF d, q, r, Left, Joined

\* LockOBJ of a lock that is taken.
LEMMA KLockWait ==
  ASSUME KInv, InTask, NEW c \in Tasks, c = ctxtsk, NEW l \in Locks,
         use' = [use EXCEPT ![c] = l], LockOBJ_wait(l), UNCHANGED callvars,
         c \in Runnables
  PROVE  KQueue' /\ Waits' /\ Holding'
<1> DEFINE S == Runnables \ {c}
           r == QueuedFor(ready_queue, c, priority[c], l)
<1>1. /\ priority \in [Tasks -> Pri]
      /\ at \in [Tasks -> At] /\ use \in [Tasks -> Locks \cup {NULL}]
      /\ locked \in [Locks -> BOOLEAN] /\ Ordered(ready_queue, Runnables, priority)
      /\ Waiters(ready_queue, Queues) /\ Runnables \in SUBSET Tasks
      /\ \A u \in Runnables, k \in Locks : u \notin Queues[k]
      /\ ready_queue.klocktsk \in {u \in Runnables : ready_queue.klocked[u]} \cup {NULL}
  BY QueueFacts DEF KInv, KTypes, KQueue
<1>2. /\ ready_queue' = r /\ schedtsk' = ready_queue_top(ready_queue')
      /\ state' = state /\ priority' = priority
      /\ locked' = locked /\ locked[l]
      /\ at' = [at EXCEPT ![c] = "lock"] /\ state[c] = "READY"
      /\ ~ready_queue.klocked[c] /\ ~ready_queue.klockwait[c]
  BY <1>1 DEF LockOBJ_wait, free, QueuedFor, callvars, tcbvars, Runnables, Runnable
<1>3. Ordered(r, S, priority) /\ Joined(r, ready_queue, c, l, Queues)
  <2>1. /\ InOneList(ready_queue, c, Runnables, Queues)
        /\ priority \in [Tasks -> Pri] /\ Ordered(ready_queue, Runnables, priority)
        /\ Waiters(ready_queue, Queues) /\ Runnables \in SUBSET Tasks
    BY <1>1, <1>2 DEF InOneList
  <2> HIDE DEF r
  <2>2. /\ Ordered(QueuedFor(ready_queue, c, priority[c], l), Runnables \ {c}, priority)
        /\ Joined(QueuedFor(ready_queue, c, priority[c], l), ready_queue, c, l, Queues)
    BY <2>1, QueuedForLock
  <2> QED BY <2>2 DEF r
<1> HIDE DEF r
<1>4. KQueue'
  <2>1. Runnables' = S
    BY <1>2, <1>3 DEF Runnables, Runnable, Joined
  <2>2. ready_queue'.klocktsk \in {u \in S : ready_queue'.klocked[u]} \cup {NULL}
    BY <1>1, <1>2, <1>3 DEF Joined
  <2>3. S \in SUBSET Tasks
    BY <1>1
  <2> HIDE DEF S
  <2>4. Ordered(ready_queue', S, priority)
    BY <1>2, <1>3
  <2> QED BY <1>1, <1>2, <2>1, <2>2, <2>3, <2>4, KTopStep
<1>5. \A t \in Tasks \ {c} : use'[t] = use[t] /\ at'[t] = at[t]
  BY <1>1, <1>2
<1>6. use'[c] = l /\ at'[c] = "lock"
  BY <1>1, <1>2
<1>7. Waits'
  <2>1. \A k \in Locks : Queues'[k] = IF k = l THEN Queues[k] \cup {c} ELSE Queues[k]
    BY <1>2, <1>3, <1>5, <1>6 DEF Queues, Queuers, Joined
  <2>2. Waiters(ready_queue', Queues')
    BY <1>2, <1>3, <2>1 DEF Waiters, Joined
  <2> QED BY <1>2, <1>3, <1>5, <1>6, <2>2 DEF KInv, Waits, Joined
<1>8. Holding'
  BY <1>2, <1>3, <1>5, <1>6 DEF KInv, Holding, Joined
<1> QED BY <1>4, <1>7, <1>8

\* LockOBJ of a task that was given the lock while it waited.
LEMMA KLockGiven ==
  ASSUME KInv, InTask, NEW c \in Tasks, c = ctxtsk, NEW l \in Locks,
         use' = [use EXCEPT ![c] = l], LockOBJ_given(l), UNCHANGED callvars,
         Entering(c, l)
  PROVE  KQueue' /\ Waits' /\ Holding'
<1>1. /\ at \in [Tasks -> At] /\ use \in [Tasks -> Locks \cup {NULL}]
      /\ ready_queue' = ready_queue /\ schedtsk' = schedtsk
      /\ state' = state /\ priority' = priority /\ locked' = locked
      /\ at' = [at EXCEPT ![c] = "locked"] /\ ready_queue.klocked[c]
  BY DEF LockOBJ_given, callvars, tcbvars, KInv, KTypes
<1>2. at[c] = "lock" /\ use[c] = l
  BY <1>1 DEF Entering, KInv, Holding
<1>3. use' = use
  BY <1>1, <1>2
<1>4. \A t \in Tasks \ {c} : at'[t] = at[t]
  BY <1>1
<1>5. at'[c] = "locked"
  BY <1>1
<1>6. Runnables' = Runnables /\ Queues' = Queues
  BY <1>1, <1>3 DEF Runnables, Runnable, Queues, Queuers
<1>7. KQueue'
  BY <1>1, <1>6 DEF KInv, KQueue
<1>8. Waits'
  BY <1>1, <1>3, <1>4, <1>6 DEF KInv, Waits
<1>9. Holding'
  BY <1>1, <1>3, <1>4, <1>5 DEF KInv, Holding
<1> QED BY <1>7, <1>8, <1>9

\* A step that makes no task runnable and ends that of none.
LEMMA KSameQueue ==
  ASSUME KInv, UNCHANGED <<ready_queue, schedtsk>>, Runnables' = Runnables,
         \A u \in Runnables : priority'[u] = priority[u]
  PROVE  KQueue'
<1>1. Ordered(ready_queue, Runnables, priority) /\ Runnables \in SUBSET Tasks
  BY QueueFacts
<1>2. Ordered(ready_queue, Runnables, priority')
  BY <1>1, KSamePriorities
<1> QED BY <1>2 DEF KQueue, KInv

\* A step that leaves the queue alone and changes at most the state of a task
\* that is and stays not READY.
LEMMA KSameTask ==
  ASSUME KInv, NEW t \in Tasks, state[t] # "READY", state'[t] # "READY",
         \A u \in Tasks \ {t} : state'[u] = state[u] /\ priority'[u] = priority[u],
         UNCHANGED <<ready_queue, schedtsk>>
  PROVE  /\ KQueue' /\ SameLocks(ready_queue', ready_queue)
         /\ \A u \in Tasks : ready_queue.klockwait[u] => state'[u] = "READY"
<1>1. Runnables' = Runnables /\ t \notin Runnables
  BY DEF Runnables, Runnable
<1>2. \A u \in Runnables : priority'[u] = priority[u]
  BY <1>1 DEF Runnables
<1> QED BY <1>1, <1>2, KSameQueue DEF SameLocks, KInv, Waits

\* A task that is made READY, by the end of a wait or of a suspension.
LEMMA KReadied ==
  ASSUME KInv, NEW t \in Tasks, state[t] # "READY", make_ready(t),
         priority' = priority
  PROVE  /\ KQueue' /\ SameLocks(ready_queue', ready_queue)
         /\ \A u \in Tasks : ready_queue.klockwait[u] => state'[u] = "READY"
         /\ state' = [state EXCEPT ![t] = "READY"]
<1>1. state' = [state EXCEPT ![t] = "READY"]
  BY DEF make_ready
<1>2. KQueue' /\ SameLocks(ready_queue', ready_queue)
  BY KMakeReady
<1> QED BY <1>1, <1>2 DEF KInv, Waits, KTypes

\* make_non_wait
LEMMA KNonWait ==
  ASSUME KInv, NEW t \in Tasks, Waiting(t), make_non_wait(t), priority' = priority
  PROVE  /\ KQueue' /\ SameLocks(ready_queue', ready_queue)
         /\ \A u \in Tasks : ready_queue.klockwait[u] => state'[u] = "READY"
         /\ state' \in [Tasks -> TSTAT]
         /\ \A u \in Tasks : state[u] = "READY" => state'[u] = "READY"
<1>1. state \in [Tasks -> TSTAT] /\ state[t] # "READY"
  BY DEF KInv, KTypes, Waiting
<1>2. CASE state[t] = "WAIT"
  <2>1. make_ready(t)
    BY <1>2 DEF make_non_wait
  <2>2. /\ KQueue' /\ SameLocks(ready_queue', ready_queue)
        /\ \A u \in Tasks : ready_queue.klockwait[u] => state'[u] = "READY"
        /\ state' = [state EXCEPT ![t] = "READY"]
    BY <1>1, <2>1, KReadied
  <2> QED BY <1>1, <2>2 DEF TSTAT
<1>3. CASE state[t] # "WAIT"
  <2>1. state' = [state EXCEPT ![t] = "SUSPEND"] /\ UNCHANGED <<ready_queue, schedtsk>>
    BY <1>3 DEF make_non_wait
  <2>2. /\ state'[t] # "READY"
        /\ \A u \in Tasks \ {t} : state'[u] = state[u] /\ priority'[u] = priority[u]
    BY <1>1, <2>1
  <2>3. /\ KQueue' /\ SameLocks(ready_queue', ready_queue)
        /\ \A u \in Tasks : ready_queue.klockwait[u] => state'[u] = "READY"
    BY <1>1, <2>1, <2>2, KSameTask
  <2> QED BY <1>1, <2>1, <2>3 DEF TSTAT
<1> QED BY <1>2, <1>3

---------------------------------------------------------------------------

\* LockOBJ
LEMMA StepLockOBJ ==
  ASSUME KInv, NEW l \in Locks, LockOBJ(l)
  PROVE  KInv'
<1>1. /\ ctxtsk \in Tasks /\ ctxtsk \in Runnables /\ InTask /\ Entering(ctxtsk, l)
      /\ UNCHANGED callvars /\ use' = [use EXCEPT ![ctxtsk] = l]
      /\ dispatch_disabled = "ENABLE"
  BY KRunner DEF LockOBJ, Entering
<1>2. KQueue' /\ Waits' /\ Holding'
  <2>1. CASE LockOBJ_given(l)
    BY <1>1, <2>1, KLockGiven
  <2>2. CASE LockOBJ_free(l)
    BY <1>1, <2>2, KLockFree
  <2>3. CASE LockOBJ_wait(l)
    BY <1>1, <2>3, KLockWait
  <2> QED BY <2>1, <2>2, <2>3 DEF LockOBJ
<1>3. DisabledInUser'
  BY <1>1 DEF DisabledInUser, callvars, cpuvars
<1>4. KTypes'
  <2>1. at' \in [Tasks -> At] /\ locked' \in [Locks -> BOOLEAN]
    BY DEF LockOBJ, LockOBJ_given, LockOBJ_free, LockOBJ_wait, KInv, KTypes, At
  <2>2. use' \in [Tasks -> Locks \cup {NULL}]
    BY <1>1 DEF KInv, KTypes
  <2> QED BY <1>1, <2>1, <2>2 DEF KInv, KTypes, callvars, tcbvars, cpuvars
<1> QED BY <1>2, <1>3, <1>4 DEF KInv

\* UnlockOBJ at the end of a call, and the types it leaves.
LEMMA Unlocked ==
  ASSUME KInv, NEW c \in Tasks, NEW l \in Locks, NEW R \in SUBSET Tasks, NEW rq,
         Unlocking(c, l, rq, R)
  PROVE  /\ KQueue' /\ Waits' /\ Holding'
         /\ at' \in [Tasks -> At] /\ use' \in [Tasks -> Locks \cup {NULL}]
         /\ locked' \in [Locks -> BOOLEAN]
<1>1. KQueue' /\ Waits' /\ Holding'
  BY UnlockedFree, UnlockedGiven
<1> QED BY <1>1 DEF Unlocking, UnlockOBJ, KInv, KTypes, At

\* tk_get_mpf that gets a block at once, and the end of tk_rel_mpf.
LEMMA StepExit ==
  ASSUME KInv, mpf_exit
  PROVE  KInv'
<1> DEFINE c == ctxtsk
           l == use[c]
<1>1. /\ c \in Tasks /\ dispatch_disabled = "ENABLE" /\ at[c] \in {"locked", "released"}
      /\ UNCHANGED callvars /\ UnlockOBJ(ready_queue, l)
  BY KRunner DEF mpf_exit, Leaving, KInv, KTypes, TCB
<1>2. ready_queue.klocked[c] /\ l \in Locks
  BY <1>1 DEF KInv, Holding
<1>3. Unlocking(c, l, ready_queue, Runnables) /\ Runnables \in SUBSET Tasks
  BY <1>1, <1>2, QueueFacts DEF Unlocking, callvars, tcbvars, Runnables, Runnable,
                               KInv, Waits
<1>4. /\ KQueue' /\ Waits' /\ Holding'
      /\ at' \in [Tasks -> At] /\ use' \in [Tasks -> Locks \cup {NULL}]
      /\ locked' \in [Locks -> BOOLEAN]
  BY <1>1, <1>2, <1>3, Unlocked
<1>5. DisabledInUser'
  BY <1>1 DEF DisabledInUser, callvars, cpuvars
<1>6. KTypes'
  BY <1>1, <1>4 DEF KInv, KTypes, callvars, tcbvars, cpuvars
<1> QED BY <1>4, <1>5, <1>6 DEF KInv

\* tk_get_mpf that waits for a block.
LEMMA StepMakeWait ==
  ASSUME KInv, mpf_make_wait
  PROVE  KInv'
<1> DEFINE c == ctxtsk
           l == use[c]
           S == Runnables \ {c}
           rq == ready_queue_delete(ready_queue, c, priority[c])
<1>1. /\ c \in Tasks /\ c \in Runnables
      /\ dispatch_disabled = "ENABLE" /\ at[c] = "locked"
      /\ UNCHANGED <<tcbvars, cpuvars>> /\ UnlockOBJ(rq, l)
      /\ state' = [state EXCEPT ![c] = "WAIT"] /\ state \in [Tasks -> TSTAT]
  BY KRunner DEF mpf_make_wait, KInv, KTypes
<1>2. ready_queue.klocked[c] /\ l \in Locks /\ ~ready_queue.klockwait[c]
  BY <1>1 DEF KInv, Holding, Waits
<1>3. /\ Ordered(ready_queue, Runnables, priority) /\ Runnables \in SUBSET Tasks
      /\ priority \in [Tasks -> Pri] /\ ready_queue \in RDYQUE
      /\ Waiters(ready_queue, Queues)
      /\ InOneList(ready_queue, c, Runnables, Queues)
  BY <1>1, <1>2, QueueFacts DEF InOneList
<1>4. Ordered(rq, S, priority) /\ Left(rq, ready_queue, c, Queues)
  <2>1. Deleted(rq, ready_queue, c, Runnables, priority, Queues)
    BY <1>1, <1>3, KDelete
  <2> QED BY <2>1 DEF Deleted
<1> HIDE DEF rq
<1>5. rq.klockwait = ready_queue.klockwait /\ rq.klocked = ready_queue.klocked
  <2>1. /\ rq.klockwait \in [Tasks -> BOOLEAN]
        /\ ready_queue.klockwait \in [Tasks -> BOOLEAN]
    BY <1>3, <1>4 DEF Ordered, RDYQUE
  <2>2. \A t \in Tasks : rq.klockwait[t] = ready_queue.klockwait[t]
    BY <1>2, <1>4, <2>1 DEF Left
  <2>3. rq.klockwait = ready_queue.klockwait
    BY <2>1, <2>2
  <2> QED BY <1>4, <2>3 DEF Left
<1>6. Waiters(rq, Queues)
  <2>1. \A k \in Locks : Queues[k] \ {c} = Queues[k]
    BY <1>2 DEF Queues, Queuers
  <2> QED BY <1>4, <2>1 DEF Left, Waiters
<1>7. \A u \in Tasks : u \in S <=> state'[u] = "READY" /\ ~ready_queue.klockwait[u]
  BY <1>1 DEF Runnables, Runnable
<1>8. \A u \in Tasks : ready_queue.klockwait[u] => state'[u] = "READY"
  BY <1>1, <1>2 DEF KInv, Waits
<1>9. Unlocking(c, l, rq, S) /\ S \in SUBSET Tasks
  BY <1>1, <1>2, <1>3, <1>4, <1>5, <1>6, <1>7, <1>8 DEF Unlocking, tcbvars
<1> HIDE DEF S
<1>10. /\ KQueue' /\ Waits' /\ Holding'
       /\ at' \in [Tasks -> At] /\ use' \in [Tasks -> Locks \cup {NULL}]
       /\ locked' \in [Locks -> BOOLEAN]
  BY <1>1, <1>2, <1>9, Unlocked
<1>11. DisabledInUser'
  BY <1>1 DEF DisabledInUser, cpuvars
<1>12. KTypes'
  BY <1>1, <1>10 DEF KInv, KTypes, tcbvars, cpuvars, TSTAT
<1> QED BY <1>10, <1>11, <1>12 DEF KInv

\* tk_rel_mpf that gives the block to a task.
LEMMA StepRelease ==
  ASSUME KInv, NEW t \in Tasks, mpf_release(t)
  PROVE  KInv'
<1> DEFINE c == ctxtsk
<1>1. /\ c \in Tasks /\ dispatch_disabled = "ENABLE" /\ at[c] = "locked"
      /\ Waiting(t) /\ make_non_wait(t) /\ at' = [at EXCEPT ![c] = "released"]
      /\ UNCHANGED <<tcbvars, cpuvars, use, locked>> /\ at \in [Tasks -> At]
  BY KRunner DEF mpf_release, KInv, KTypes
<1>2. /\ KQueue' /\ SameLocks(ready_queue', ready_queue)
      /\ \A u \in Tasks : ready_queue.klockwait[u] => state'[u] = "READY"
      /\ state' \in [Tasks -> TSTAT]
  BY <1>1, KNonWait DEF tcbvars
<1>3. \A u \in Tasks \ {c} : at'[u] = at[u]
  BY <1>1
<1>4. at'[c] = "released" /\ ready_queue.klocked[c] /\ use[c] \in Locks
  BY <1>1 DEF KInv, Holding
<1>5. Waits'
  <2>1. Queues' = Queues
    BY <1>1, <1>2 DEF Queues, Queuers, SameLocks
  <2>2. Waiters(ready_queue', Queues')
    BY <1>2, <2>1 DEF KInv, Waits, Waiters, SameLocks
  <2> QED BY <1>1, <1>2, <1>3, <1>4, <2>2 DEF KInv, Waits, SameLocks
<1>6. Holding'
  BY <1>1, <1>2, <1>3, <1>4 DEF KInv, Holding, SameLocks
<1>7. DisabledInUser'
  BY <1>1 DEF DisabledInUser, cpuvars
<1>8. KTypes'
  BY <1>1, <1>2 DEF KInv, KTypes, tcbvars, cpuvars, At
<1> QED BY <1>2, <1>5, <1>6, <1>7, <1>8 DEF KInv

---------------------------------------------------------------------------

\* A step outside of the calls on objects that leaves the lists of the locks
\* alone.
LEMMA OutsideSame ==
  ASSUME KInv, KQueue', SameLocks(ready_queue', ready_queue),
         \A u \in Tasks : ready_queue.klockwait[u] => state'[u] = "READY",
         UNCHANGED <<lockvars, cpuvars>>,
         state' \in [Tasks -> TSTAT], ipriority' \in [Tasks -> Pri],
         priority' \in [Tasks -> Pri], slicetime' \in [Tasks -> SliceTimes],
         dispatch_disabled = "DISABLE" => state'[ctxtsk] = "READY"
  PROVE  KInv'
<1>1. Waits' /\ Holding'
  BY LocksSame
<1> QED BY <1>1 DEF KInv, KTypes, DisabledInUser, lockvars, cpuvars

\* The same where a task may leave the list of a lock.
LEMMA OutsideLeft ==
  ASSUME KInv, NEW t \in Tasks, KQueue',
         Left(ready_queue', ready_queue, t, Queues),
         \A u \in Tasks \ {t} : ready_queue.klockwait[u] => state'[u] = "READY",
         UNCHANGED <<lockvars, cpuvars>>,
         state' \in [Tasks -> TSTAT], ipriority' \in [Tasks -> Pri],
         priority' \in [Tasks -> Pri], slicetime' \in [Tasks -> SliceTimes],
         dispatch_disabled = "DISABLE" => state'[ctxtsk] = "READY"
  PROVE  KInv'
<1>1. Waits' /\ Holding'
  BY LocksLeft
<1> QED BY <1>1 DEF KInv, KTypes, DisabledInUser, lockvars, cpuvars

\* What is known of a state outside of the queue.
LEMMA TypeFacts ==
  ASSUME KInv
  PROVE  /\ state \in [Tasks -> TSTAT] /\ ipriority \in [Tasks -> Pri]
         /\ priority \in [Tasks -> Pri] /\ slicetime \in [Tasks -> SliceTimes]
         /\ ctxtsk \in TCB
         /\ dispatch_disabled = "DISABLE" => ctxtsk \in Tasks /\ state[ctxtsk] = "READY"
         /\ \A u \in Tasks : ready_queue.klockwait[u] => state[u] = "READY"
BY DEF KInv, KTypes, DisabledInUser, Waits, TCB

\* tk_sta_tsk
LEMMA StepStart ==
  ASSUME KInv, NEW c, NEW t \in Tasks, tk_sta_tsk(c, t), UNCHANGED lockvars
  PROVE  KInv'
<1>1. /\ state[t] = "DORMANT" /\ make_ready(t) /\ UNCHANGED <<tcbvars, cpuvars>>
  BY DEF tk_sta_tsk
<1>2. /\ KQueue' /\ SameLocks(ready_queue', ready_queue)
      /\ \A u \in Tasks : ready_queue.klockwait[u] => state'[u] = "READY"
      /\ state' = [state EXCEPT ![t] = "READY"]
  BY <1>1, KReadied DEF tcbvars
<1> QED BY <1>1, <1>2, TypeFacts, OutsideSame DEF tcbvars, TSTAT

\* tk_rel_wai and the expiry of a wait
LEMMA StepNonWait ==
  ASSUME KInv, NEW t \in Tasks, Waiting(t), make_non_wait(t),
         UNCHANGED <<tcbvars, cpuvars, lockvars>>
  PROVE  KInv'
<1>1. /\ KQueue' /\ SameLocks(ready_queue', ready_queue)
      /\ \A u \in Tasks : ready_queue.klockwait[u] => state'[u] = "READY"
      /\ state' \in [Tasks -> TSTAT]
      /\ \A u \in Tasks : state[u] = "READY" => state'[u] = "READY"
  BY KNonWait DEF tcbvars
<1> QED BY <1>1, TypeFacts, OutsideSame DEF tcbvars

\* tk_sus_tsk
LEMMA StepSuspend ==
  ASSUME KInv, NEW c, NEW t \in Tasks, tk_sus_tsk(c, t), UNCHANGED lockvars
  PROVE  KInv'
<1>1. /\ UNCHANGED <<ipriority, priority, slicetime, cpuvars>>
      /\ ~(t = ctxtsk /\ dispatch_disabled = "DISABLE")
  BY DEF tk_sus_tsk, suspendable
<1>2. CASE state[t] = "READY"
  <2>1. make_non_ready(t) /\ state' = [state EXCEPT ![t] = "SUSPEND"]
    BY <1>2 DEF tk_sus_tsk
  <2>2. /\ state'[t] # "READY" /\ state' \in [Tasks -> TSTAT]
        /\ \A u \in Tasks \ {t} : state'[u] = state[u] /\ priority'[u] = priority[u]
    BY <1>1, <2>1, TypeFacts DEF TSTAT
  <2>3. KQueue' /\ Left(ready_queue', ready_queue, t, Queues)
    BY <1>2, <2>1, <2>2, KMakeNonReady
  <2> QED BY <1>1, <2>2, <2>3, TypeFacts, OutsideLeft
<1>3. CASE state[t] # "READY"
  <2>1. /\ state' = [state EXCEPT ![t] = IF @ = "WAIT" THEN "WAITSUS" ELSE @]
        /\ UNCHANGED <<ready_queue, schedtsk>>
    BY <1>3 DEF tk_sus_tsk
  <2>2. /\ state'[t] # "READY" /\ state' \in [Tasks -> TSTAT]
        /\ \A u \in Tasks \ {t} : state'[u] = state[u] /\ priority'[u] = priority[u]
    BY <1>1, <1>3, <2>1, TypeFacts DEF TSTAT
  <2>3. /\ KQueue' /\ SameLocks(ready_queue', ready_queue)
        /\ \A u \in Tasks : ready_queue.klockwait[u] => state'[u] = "READY"
    BY <1>3, <2>1, <2>2, KSameTask
  <2> QED BY <1>1, <2>2, <2>3, TypeFacts, OutsideSame
<1> QED BY <1>2, <1>3

\* tk_rsm_tsk
LEMMA StepResume ==
  ASSUME KInv, NEW c, NEW t \in Tasks, tk_rsm_tsk(c, t), UNCHANGED lockvars
  PROVE  KInv'
<1>1. /\ UNCHANGED <<ipriority, priority, slicetime, cpuvars>>
      /\ state[t] \in {"SUSPEND", "WAITSUS"}
  BY DEF tk_rsm_tsk
<1>2. CASE suscnt[t] = 1 /\ state[t] = "SUSPEND"
  <2>1. make_ready(t)
    BY <1>2 DEF tk_rsm_tsk, resume
  <2>2. /\ KQueue' /\ SameLocks(ready_queue', ready_queue)
        /\ \A u \in Tasks : ready_queue.klockwait[u] => state'[u] = "READY"
        /\ state' = [state EXCEPT ![t] = "READY"]
    BY <1>1, <1>2, <2>1, KReadied
  <2> QED BY <1>1, <2>2, TypeFacts, OutsideSame DEF TSTAT
<1>3. CASE ~(suscnt[t] = 1 /\ state[t] = "SUSPEND")
  <2>1. /\ state' = state \/ state' = [state EXCEPT ![t] = "WAIT"]
        /\ UNCHANGED <<ready_queue, schedtsk>>
    BY <1>3 DEF tk_rsm_tsk, resume
  <2>2. /\ state[t] # "READY" /\ state'[t] # "READY" /\ state' \in [Tasks -> TSTAT]
        /\ \A u \in Tasks \ {t} : state'[u] = state[u] /\ priority'[u] = priority[u]
    BY <1>1, <2>1, TypeFacts DEF TSTAT
  <2>3. /\ KQueue' /\ SameLocks(ready_queue', ready_queue)
        /\ \A u \in Tasks : ready_queue.klockwait[u] => state'[u] = "READY"
    BY <2>1, <2>2, KSameTask
  <2> QED BY <1>1, <2>2, <2>3, TypeFacts, OutsideSame
<1> QED BY <1>2, <1>3

\* tk_chg_pri
LEMMA StepChangePriority ==
  ASSUME KInv, NEW c, NEW t \in Tasks, NEW p \in Pri, tk_chg_pri(c, t, p),
         UNCHANGED lockvars
  PROVE  KInv'
<1>1. /\ change_task_priority(t, p) /\ UNCHANGED <<ipriority, slicetime, cpuvars>>
      /\ state' = state /\ priority' = [priority EXCEPT ![t] = p]
  BY DEF tk_chg_pri, change_task_priority
<1>2. KQueue' /\ Left(ready_queue', ready_queue, t, Queues)
  BY <1>1, KChangePriority
<1>3. priority' \in [Tasks -> Pri]
  BY <1>1, TypeFacts
<1> QED BY <1>1, <1>2, <1>3, TypeFacts, OutsideLeft

\* tk_rot_rdq
LEMMA StepRotate ==
  ASSUME KInv, NEW c, NEW p \in Pri, tk_rot_rdq(c, p), UNCHANGED lockvars
  PROVE  KInv'
<1>1. /\ reschedule(ready_queue_rotate(ready_queue, p), priority)
      /\ UNCHANGED <<state, tcbvars, cpuvars>>
  BY DEF tk_rot_rdq
<1>2. KQueue' /\ SameLocks(ready_queue', ready_queue)
  BY <1>1, KRotateReady DEF tcbvars
<1> QED BY <1>1, <1>2, TypeFacts, OutsideSame DEF tcbvars

\* A step that changes at most a slice time and where the CPU stands.
LEMMA StepCpu ==
  ASSUME KInv, UNCHANGED <<state, ipriority, priority, ready_queue, schedtsk, lockvars>>,
         slicetime' \in [Tasks -> SliceTimes],
         ctxtsk' \in TCB, dispatch_disabled' \in DDS, DisabledInUser'
  PROVE  KInv'
<1>1. Runnables' = Runnables
  BY DEF Runnables, Runnable
<1>2. KQueue'
  BY <1>1, KSameQueue
<1>3. Waits' /\ Holding'
  <2>1. SameLocks(ready_queue', ready_queue)
    BY DEF SameLocks
  <2> QED BY <2>1, TypeFacts, LocksSame
<1> QED BY <1>2, <1>3 DEF KInv, KTypes, lockvars

\* tk_cre_tsk
LEMMA StepCreate ==
  ASSUME KInv, NEW t \in Tasks, NEW p \in Pri, tk_cre_tsk(t, p), UNCHANGED lockvars
  PROVE  KInv'
<1>1. /\ state[t] = "NONEXIST" /\ ipriority' = [ipriority EXCEPT ![t] = p]
      /\ state' = [state EXCEPT ![t] = "DORMANT"]
      /\ priority' = [priority EXCEPT ![t] = ipriority'[t]]
      /\ slicetime' = [slicetime EXCEPT ![t] = 0]
      /\ UNCHANGED <<ready_queue, schedtsk, cpuvars>>
  BY DEF tk_cre_tsk, make_dormant
<1>2. /\ ipriority' \in [Tasks -> Pri] /\ ipriority'[t] = p
      /\ slicetime' \in [Tasks -> SliceTimes]
      /\ state' \in [Tasks -> TSTAT] /\ state'[t] # "READY" /\ state[t] # "READY"
  BY <1>1, TypeFacts, SliceAssumption DEF TSTAT
<1>3. /\ priority' \in [Tasks -> Pri]
      /\ \A u \in Tasks \ {t} : state'[u] = state[u] /\ priority'[u] = priority[u]
  BY <1>1, <1>2, TypeFacts
<1>4. /\ KQueue' /\ SameLocks(ready_queue', ready_queue)
      /\ \A u \in Tasks : ready_queue.klockwait[u] => state'[u] = "READY"
  BY <1>1, <1>2, <1>3, KSameTask
<1> QED BY <1>1, <1>2, <1>3, <1>4, TypeFacts, OutsideSame

\* The end of a task that holds no lock: tk_ter_tsk and tk_ext_tsk.
LEMMA StepEnd ==
  ASSUME KInv, NEW t \in Tasks, ter_tsk(t), make_dormant(t), Ends(t),
         ipriority' = ipriority, ~ready_queue.klocked[t],
         ctxtsk' \in TCB, dispatch_disabled' \in DDS,
         dispatch_disabled' = "DISABLE" => UNCHANGED cpuvars /\ t # ctxtsk
  PROVE  KInv'
<1>1. /\ state' = [state EXCEPT ![t] = "DORMANT"]
      /\ priority' = [priority EXCEPT ![t] = ipriority[t]]
      /\ slicetime' = [slicetime EXCEPT ![t] = 0]
      /\ at' = [at EXCEPT ![t] = "user"] /\ use' = [use EXCEPT ![t] = NULL]
      /\ locked' = locked /\ at \in [Tasks -> At] /\ use \in [Tasks -> Locks \cup {NULL}]
  BY DEF make_dormant, Ends, KInv, KTypes
<1>2. /\ state' \in [Tasks -> TSTAT] /\ state'[t] # "READY"
      /\ priority' \in [Tasks -> Pri] /\ slicetime' \in [Tasks -> SliceTimes]
      /\ \A u \in Tasks \ {t} : state'[u] = state[u] /\ priority'[u] = priority[u]
      /\ \A u \in Tasks \ {t} : at'[u] = at[u]
      /\ at' \in [Tasks -> At] /\ use' \in [Tasks -> Locks \cup {NULL}]
  BY <1>1, TypeFacts, SliceAssumption DEF TSTAT, At
<1>3. KQueue' /\ Left(ready_queue', ready_queue, t, Queues)
  <2>1. CASE state[t] = "READY"
    <3>1. make_non_ready(t)
      BY <2>1 DEF ter_tsk
    <3> QED BY <1>2, <2>1, <3>1, KMakeNonReady
  <2>2. CASE state[t] # "READY"
    <3>1. UNCHANGED <<ready_queue, schedtsk>>
      BY <2>2 DEF ter_tsk
    <3>2. KQueue'
      BY <1>2, <2>2, <3>1, KSameTask
    <3>3. Left(ready_queue, ready_queue, t, Queues)
      BY <2>2, TypeFacts, NotQueued
    <3> QED BY <3>1, <3>2, <3>3
  <2> QED BY <2>1, <2>2
<1>4. Waits' /\ Holding'
  BY <1>2, <1>3, TypeFacts, LocksLeft
<1>5. DisabledInUser'
  <2> SUFFICES ASSUME dispatch_disabled' = "DISABLE"
               PROVE  ctxtsk' # NULL /\ state'[ctxtsk'] = "READY" /\ at'[ctxtsk'] = "user"
    BY DEF DisabledInUser
  <2>1. ctxtsk' = ctxtsk /\ dispatch_disabled = "DISABLE" /\ t # ctxtsk
    BY DEF cpuvars
  <2>2. ctxtsk # NULL /\ ctxtsk \in Tasks /\ state[ctxtsk] = "READY" /\ at[ctxtsk] = "user"
    BY <2>1 DEF KInv, DisabledInUser, KTypes, TCB
  <2> QED BY <1>2, <2>1, <2>2
<1>6. KTypes'
  BY <1>1, <1>2 DEF KTypes, KInv
<1> QED BY <1>3, <1>4, <1>5, <1>6 DEF KInv

---------------------------------------------------------------------------

\* The initial task is the only one in the queue and no lock is taken.
LEMMA KInitInv == KInit => KInv
<1> SUFFICES ASSUME KInit PROVE KInv
  OBVIOUS
<1> USE NullAssumption, PriAssumption, SliceAssumption
<1> DEFINE idle == ready_queue_initialize
<1>1. PICK t \in Tasks, p \in Pri :
        /\ state = [u \in Tasks |-> IF u = t THEN "READY" ELSE "NONEXIST"]
        /\ ipriority = [u \in Tasks |-> IF u = t THEN p ELSE 0]
        /\ priority = ipriority
        /\ slicetime = [u \in Tasks |-> 0]
        /\ ready_queue = ready_queue_insert(idle, t, p)
        /\ schedtsk = t
        /\ ctxtsk = NULL
        /\ dispatch_disabled = "DISABLE_IMPLICIT"
  BY DEF KInit, Init
<1>2. /\ at = [u \in Tasks |-> "user"] /\ use = [u \in Tasks |-> NULL]
      /\ locked = [l \in Locks |-> FALSE]
  BY DEF KInit
<1>3. KTypes
  BY <1>1, <1>2 DEF KTypes, TSTAT, Pri, TCB, DDS, At
<1>4. priority \in [Tasks -> Pri] /\ priority[t] = p
  BY <1>1, <1>3 DEF KTypes
<1>5. /\ idle.klocktsk = NULL
      /\ \A u \in Tasks : ~idle.klocked[u] /\ ~idle.klockwait[u]
      /\ \A l \in Locks : idle.wtskq[l] = << >>
  BY DEF ready_queue_initialize
<1>6. Ordered(idle, {}, priority)
  <2>1. Holds(idle, {}, priority)
    BY <1>4, Initialised
  <2> HIDE DEF idle
  <2> QED BY <2>1, OrderedLike DEF Holds
<1> HIDE DEF idle
<1>7. /\ Ordered(ready_queue, {t}, priority) /\ SameLocks(ready_queue, idle)
      /\ ready_queue.klocktsk = NULL
  <2> DEFINE R == {}
  <2>1. R \in SUBSET Tasks /\ t \in Tasks \ R /\ R \cup {t} = {t}
    OBVIOUS
  <2> HIDE DEF R
  <2>2. Ordered(idle, R, priority)
    BY <1>6 DEF R
  <2>3. Inserted(ready_queue_insert(idle, t, priority[t]), idle, t, R, priority)
    BY <1>4, <2>1, <2>2, KInsert
  <2> QED BY <1>1, <1>4, <1>5, <2>1, <2>3 DEF Inserted
<1>8. \A u \in Tasks : ~ready_queue.klocked[u] /\ ~ready_queue.klockwait[u]
  BY <1>5, <1>7 DEF SameLocks
<1>9. Runnables = {t}
  BY <1>1, <1>8 DEF Runnables, Runnable
<1>10. KQueue
  BY <1>1, <1>7, <1>9 DEF KQueue
<1>11. DisabledInUser
  BY <1>1 DEF DisabledInUser
<1>12. Waits
  <2>1. ASSUME NEW l \in Locks PROVE IsQueue(ready_queue.wtskq[l], Queues[l])
    <3>1. Queues[l] = {} /\ ready_queue.wtskq[l] = << >>
      BY <1>5, <1>7, <1>8 DEF Queues, Queuers, SameLocks
    <3>2. IsQueue(<< >>, {})
      BY DEF IsQueue, IsInjective, Range
    <3> QED BY <3>1, <3>2
  <2> QED BY <1>8, <2>1 DEF Waits, Waiters
<1>13. Holding
  BY <1>2, <1>8 DEF Holding
<1> QED BY <1>3, <1>10, <1>11, <1>12, <1>13 DEF KInv

\* The calls a task as well as a handler makes.
LEMMA StepOtherCalls ==
  ASSUME KInv, NEW c, OtherCalls(c), UNCHANGED lockvars
  PROVE  KInv'
<1>1. ASSUME NEW t \in Tasks, tk_rel_wai(c, t) PROVE KInv'
  BY <1>1, StepNonWait DEF tk_rel_wai
<1>2. ASSUME NEW t \in Tasks, NEW slt \in SliceTimes, tk_chg_slt_u(c, t, slt) PROVE KInv'
  <2>1. /\ slicetime' = [slicetime EXCEPT ![t] = slt]
        /\ UNCHANGED <<state, ipriority, priority, ready_queue, schedtsk, cpuvars>>
    BY <1>2 DEF tk_chg_slt_u
  <2>2. slicetime' \in [Tasks -> SliceTimes] /\ ctxtsk' \in TCB /\ dispatch_disabled' \in DDS
    BY <2>1 DEF KInv, KTypes, cpuvars
  <2>3. DisabledInUser'
    BY <2>1 DEF KInv, DisabledInUser, cpuvars, lockvars
  <2> QED BY <2>1, <2>2, <2>3, StepCpu
<1>3. ASSUME NEW t \in Tasks
      PROVE  /\ tk_sta_tsk(c, t) => KInv'
             /\ tk_sus_tsk(c, t) => KInv'
             /\ tk_rsm_tsk(c, t) => KInv'
             /\ \A p \in Pri : tk_chg_pri(c, t, p) => KInv'
  BY StepStart, StepSuspend, StepResume, StepChangePriority
<1>4. ASSUME NEW p \in Pri, tk_rot_rdq(c, p) PROVE KInv'
  BY <1>4, StepRotate
<1> QED BY <1>1, <1>2, <1>3, <1>4 DEF OtherCalls

\* The timer interrupt: the slice of the running task, or the end of a wait.
LEMMA StepTimer ==
  ASSUME KInv, TimerInterrupt, UNCHANGED lockvars
  PROVE  KInv'
<1>1. CASE timer_handler
  <2>1. KQueue' /\ SameLocks(ready_queue', ready_queue)
    BY <1>1, KTimerSlice
  <2>2. UNCHANGED <<state, tcbvars, cpuvars>>
    BY <1>1 DEF timer_handler
  <2> QED BY <2>1, <2>2, TypeFacts, OutsideSame DEF tcbvars
<1>2. ASSUME NEW t \in Tasks, wait_release_tmout(t) PROVE KInv'
  BY <1>2, StepNonWait DEF wait_release_tmout
<1> QED BY <1>1, <1>2 DEF TimerInterrupt

\* The steps of the dispatcher.
LEMMA StepDispatcher ==
  ASSUME KInv, Dispatcher, UNCHANGED lockvars
  PROVE  KInv'
<1>1. /\ UNCHANGED <<state, tcbvars, ready_queue, schedtsk>>
      /\ ctxtsk' \in {ctxtsk, NULL, schedtsk} /\ dispatch_disabled' \in {"ENABLE", "DISABLE_IMPLICIT"}
  BY DEF Dispatcher, dispatch_entry, dispatch_save, dispatch_to_schedtsk
<1>2. DisabledInUser'
  BY <1>1 DEF DisabledInUser
<1>3. /\ slicetime' \in [Tasks -> SliceTimes] /\ ctxtsk' \in TCB
      /\ dispatch_disabled' \in DDS
  BY <1>1 DEF KInv, KTypes, KQueue, Runnables, TCB, DDS, tcbvars
<1> QED BY <1>1, <1>2, <1>3, StepCpu DEF tcbvars

\* tk_dis_dsp and tk_ena_dsp, outside of the calls on objects.
LEMMA StepDispatching ==
  ASSUME KInv, InUser, tk_dis_dsp \/ tk_ena_dsp, UNCHANGED lockvars
  PROVE  KInv'
<1>1. /\ InTask /\ UNCHANGED <<state, tcbvars, ready_queue, schedtsk, ctxtsk>>
      /\ dispatch_disabled' \in DDS
  BY DEF tk_dis_dsp, tk_ena_dsp, DDS
<1>2. ctxtsk \in Tasks /\ state[ctxtsk] = "READY" /\ at[ctxtsk] = "user"
  BY <1>1, KRunner, NullAssumption DEF InUser
<1>3. DisabledInUser'
  BY <1>1, <1>2, NullAssumption DEF DisabledInUser, lockvars
<1>4. slicetime' \in [Tasks -> SliceTimes] /\ ctxtsk' \in TCB
  BY <1>1 DEF KInv, KTypes, tcbvars
<1> QED BY <1>1, <1>3, <1>4, StepCpu DEF tcbvars

\* A task that ends another or itself, outside of the calls on objects.
LEMMA StepTerminate ==
  ASSUME KInv, InUser,
         (\E t \in Tasks : tk_ter_tsk(t) /\ Ends(t)) \/ (tk_ext_tsk /\ Ends(ctxtsk))
  PROVE  KInv'
<1>1. ASSUME NEW t \in Tasks, tk_ter_tsk(t), Ends(t) PROVE KInv'
  <2>1. /\ ter_tsk(t) /\ make_dormant(t) /\ ipriority' = ipriority
        /\ ~ready_queue.klocked[t] /\ UNCHANGED cpuvars /\ t # ctxtsk
    BY <1>1 DEF tk_ter_tsk
  <2>2. ctxtsk' \in TCB /\ dispatch_disabled' \in DDS
    BY <2>1 DEF cpuvars, KInv, KTypes
  <2> QED BY <1>1, <2>1, <2>2, StepEnd
<1>2. ASSUME tk_ext_tsk, Ends(ctxtsk) PROVE KInv'
  <2>1. /\ InTask /\ ter_tsk(ctxtsk) /\ make_dormant(ctxtsk) /\ ipriority' = ipriority
        /\ dispatch_disabled' = "DISABLE_IMPLICIT" /\ ctxtsk' = NULL
    BY <1>2 DEF tk_ext_tsk, force_dispatch
  <2>2. ctxtsk \in Tasks /\ ~ready_queue.klocked[ctxtsk]
    BY <2>1, KRunner, NullAssumption DEF InUser, KInv, Holding
  <2>3. ctxtsk' \in TCB /\ dispatch_disabled' \in DDS /\ dispatch_disabled' # "DISABLE"
    BY <2>1 DEF TCB, DDS
  <2> QED BY <1>2, <2>1, <2>2, <2>3, StepEnd
<1> QED BY <1>1, <1>2

\* Every step keeps the invariant.
LEMMA KNextInv == KInv /\ [KNext]_allvars => KInv'
<1> SUFFICES ASSUME KInv, [KNext]_allvars PROVE KInv'
  OBVIOUS
<1>1. CASE ObjectCalls
  BY <1>1, StepLockOBJ, StepExit, StepMakeWait, StepRelease DEF ObjectCalls
<1>2. CASE UNCHANGED lockvars /\ (OtherCalls("handler") \/ OtherCalls("task"))
  BY <1>2, StepOtherCalls
<1>3. CASE TimerInterrupt /\ UNCHANGED lockvars
  BY <1>3, StepTimer
<1>4. CASE Dispatcher /\ UNCHANGED lockvars
  BY <1>4, StepDispatcher
<1>5. CASE InUser /\ UNCHANGED lockvars /\ (tk_dis_dsp \/ tk_ena_dsp)
  BY <1>5, StepDispatching
<1>6. CASE \E t \in Tasks, p \in Pri : tk_cre_tsk(t, p) /\ UNCHANGED lockvars
  BY <1>6, StepCreate
<1>7. CASE InUser /\ ((\E t \in Tasks : tk_ter_tsk(t) /\ Ends(t))
                        \/ (tk_ext_tsk /\ Ends(ctxtsk)))
  BY <1>7, StepTerminate
<1>8. CASE UNCHANGED allvars
  <2>1. UNCHANGED <<state, tcbvars, ready_queue, schedtsk, cpuvars, lockvars>>
    BY <1>8 DEF allvars, vars
  <2>2. DisabledInUser'
    BY <2>1 DEF KInv, DisabledInUser, cpuvars, lockvars
  <2>3. /\ slicetime' \in [Tasks -> SliceTimes] /\ ctxtsk' \in TCB
        /\ dispatch_disabled' \in DDS
    BY <2>1 DEF KInv, KTypes, tcbvars, cpuvars
  <2> QED BY <2>1, <2>2, <2>3, StepCpu DEF tcbvars
<1> QED BY <1>1, <1>2, <1>3, <1>4, <1>5, <1>6, <1>7, <1>8 DEF KNext

\* The invariant holds in every state.
THEOREM KInductive == KSpec => []KInv
BY KInitInv, KNextInv, PTL DEF KSpec

\* The code between LockOBJ and UnlockOBJ of one object is run by one task at
\* a time, although klocked says nothing of which lock a task holds.
THEOREM LockIsExclusive == KSpec => []MutualExclusion
<1>1. KInv => MutualExclusion
  BY DEF KInv, Holding, MutualExclusion
<1> QED BY <1>1, KInductive, PTL

\* A taken lock has one holder, a free one none, and the lists of waiters hold
\* those that wait, whatever else happens to the tasks.
THEOREM LockIsNeverLost == KSpec => []NoLockLost
<1>1. ASSUME KInv PROVE HolderOfTaken
  <2> SUFFICES ASSUME NEW l \in Locks
               PROVE  Cardinality(Holders(l)) = IF locked[l] THEN 1 ELSE 0
    BY DEF HolderOfTaken
  <2>1. CASE locked[l]
    <3>1. PICK t \in Tasks : ready_queue.klocked[t] /\ use[t] = l
      BY <1>1, <2>1 DEF KInv, Holding
    <3>2. Holders(l) = {t}
      BY <1>1, <3>1 DEF KInv, Holding, Holders
    <3> QED BY <2>1, <3>2, FS_Singleton
  <2>2. CASE ~locked[l]
    <3>1. Holders(l) = {}
      BY <1>1, <2>2 DEF KInv, Holding, Holders
    <3> QED BY <2>2, <3>1, FS_EmptySet
  <2> QED BY <2>1, <2>2
<1>2. ASSUME KInv PROVE WaitersQueued
  <2> SUFFICES ASSUME NEW l \in Locks
               PROVE  /\ Range(ready_queue.wtskq[l]) = Queuers(l)
                      /\ IsInjective(ready_queue.wtskq[l])
                      /\ ready_queue.wtskq[l] # << >> => locked[l]
                      /\ \A t \in Queuers(l) : state[t] = "READY" /\ at[t] = "lock"
    BY DEF WaitersQueued, Queuers
  <2>1. IsQueue(ready_queue.wtskq[l], Queuers(l))
    BY <1>2 DEF KInv, Waits, Waiters, Queues
  <2>2. \A t \in Queuers(l) : state[t] = "READY" /\ at[t] = "lock" /\ locked[l]
    BY <1>2 DEF KInv, Waits, Queuers
  <2>3. ready_queue.wtskq[l] # << >> => locked[l]
    BY <2>1, <2>2, EmptyQueue
  <2> QED BY <2>1, <2>2, <2>3 DEF IsQueue
<1>3. KInv => NoLockLost
  BY <1>1, <1>2 DEF NoLockLost
<1> QED BY <1>3, KInductive, PTL

---------------------------------------------------------------------------
(* The task the processor goes to, where no task has a slice time.  With    *)
(* slice times the timer handler gives the processor to the next task of    *)
(* the priority of a locker that runs (timer.c:193).                        *)

\* The head of the most urgent queue, whoever holds a lock.
Top(rq) == ready_queue_top(plain(rq))

\* The processor idles only if no task may run, and otherwise goes to a task
\* with a lock or to the most urgent one.
KSched ==
  /\ schedtsk = NULL => Runnables = {}
  /\ schedtsk # NULL => ready_queue.klocked[schedtsk] \/ schedtsk = Top(ready_queue)

\* A queue with the same lists has the same head.
LEMMA SameTop ==
  ASSUME NEW r \in RDYQUE, NEW rq \in RDYQUE,
         r.tskque = rq.tskque, r.top_priority = rq.top_priority
  PROVE  Top(r) = Top(rq)
BY PlainFields DEF Top, ready_queue_top

\* A step that has the processor go to ready_queue_top.
LEMMA SchedTop ==
  ASSUME KInv', schedtsk' = ready_queue_top(ready_queue')
  PROVE  KSched'
<1>1. /\ Ordered(ready_queue', Runnables', priority') /\ Runnables' \in SUBSET Tasks
      /\ priority' \in [Tasks -> Pri]
      /\ ready_queue'.klocktsk \in {t \in Runnables' : ready_queue'.klocked[t]} \cup {NULL}
  BY DEF KInv, KTypes, KQueue, Runnables
<1>2. schedtsk' = NULL => Runnables' = {}
  BY <1>1, KTop
<1>3. CASE ready_queue'.klocktsk # NULL
  BY <1>1, <1>2, <1>3 DEF KSched, ready_queue_top
<1>4. CASE ready_queue'.klocktsk = NULL
  <2>1. /\ plain(ready_queue').tskque = ready_queue'.tskque
        /\ plain(ready_queue').top_priority = ready_queue'.top_priority
        /\ plain(ready_queue').klocktsk = NULL
    BY <1>1, PlainHolds
  <2>2. schedtsk' = Top(ready_queue')
    BY <1>4, <2>1 DEF Top, ready_queue_top
  <2> QED BY <1>2, <2>2 DEF KSched
<1> QED BY <1>3, <1>4

\* A step that leaves the priority queues and the processor alone, lets no
\* task run where none could, and takes no lock from the task scheduled.
LEMMA SchedSame ==
  ASSUME KInv, KInv', KSched, schedtsk' = schedtsk,
         ready_queue'.tskque = ready_queue.tskque,
         ready_queue'.top_priority = ready_queue.top_priority,
         Runnables = {} => Runnables' = {},
         schedtsk # NULL /\ ready_queue.klocked[schedtsk]
           => ready_queue'.klocked[schedtsk]
  PROVE  KSched'
<1>1. ready_queue \in RDYQUE /\ ready_queue' \in RDYQUE
  BY DEF KInv, KQueue, Ordered
<1>2. Top(ready_queue') = Top(ready_queue)
  BY <1>1, SameTop
<1> QED BY <1>2 DEF KSched

\* Without slice times nothing moves when a task is preempted.
LEMMA NoSlices ==
  ASSUME SliceTimes = {0}, KInv
  PROVE  /\ \A rq, pri : preempt(rq, pri) = rq
         /\ timer_handler => UNCHANGED <<ready_queue, schedtsk>>
<1>1. schedtsk = NULL \/ slicetime[schedtsk] = 0
  BY DEF KInv, KTypes, KQueue, Runnables
<1>2. ASSUME NEW rq, NEW pri
      PROVE  LET s == time_slice_schedule(rq, schedtsk, pri)
             IN s.rq = rq /\ s.tcb = schedtsk
  BY <1>1 DEF time_slice_schedule
<1>3. \A rq, pri : preempt(rq, pri) = rq
  BY <1>2 DEF preempt
<1>4. timer_handler => UNCHANGED <<ready_queue, schedtsk>>
  BY <1>2 DEF timer_handler
<1> QED BY <1>3, <1>4

\* A task that is made ready is scheduled only if it raises the top.
LEMMA SchedReady ==
  ASSUME SliceTimes = {0}, KInv, KInv', KSched, NEW t \in Tasks, state[t] # "READY",
         make_ready(t)
  PROVE  KSched'
<1> DEFINE b == plain(ready_queue)
           p == priority[t]
           rq == ready_queue_insert(ready_queue, t, p)
           s == ready_queue_insert(b, t, p)
           raises == ready_queue_insert_raises(ready_queue, p)
<1>1. /\ ready_queue' = rq
      /\ schedtsk' = IF raises THEN t ELSE schedtsk
  BY NoSlices DEF make_ready
<1>2. /\ Holds(b, Runnables, priority) /\ b \in RDYQUE /\ ready_queue \in RDYQUE
      /\ b.tskque = ready_queue.tskque /\ b.top_priority = ready_queue.top_priority
      /\ \A u \in Tasks : ~b.klocked[u]
      /\ priority \in [Tasks -> Pri] /\ Runnables \in SUBSET Tasks
      /\ Ordered(ready_queue, Runnables, priority)
  BY QueueFacts, PlainHolds
<1>3. t \in Tasks \ Runnables /\ p \in Pri
  BY <1>2 DEF Runnables, Runnable
<1>4. /\ Holds(s, Runnables \cup {t}, priority)
      /\ ready_queue_top(s) = IF p < b.top_priority THEN t ELSE ready_queue_top(b)
  BY <1>2, <1>3, Insert
<1>5. SameLocks(rq, ready_queue)
  <2>1. Inserted(rq, ready_queue, t, Runnables, priority)
    BY <1>2, <1>3, KInsert
  <2> QED BY <2>1 DEF Inserted
<1> HIDE DEF b
<1>6. /\ s.tskque = rq.tskque /\ s.top_priority = rq.top_priority /\ s.klocktsk = NULL
  <2>1. s.tskque = [b.tskque EXCEPT ![p] = Append(b.tskque[p], t)]
        /\ s.top_priority = IF p < b.top_priority THEN p ELSE b.top_priority
    BY <1>2, <1>3 DEF ready_queue_insert, Linked, RDYQUE
  <2>2. rq.tskque = [ready_queue.tskque EXCEPT ![p] = Append(ready_queue.tskque[p], t)]
        /\ rq.top_priority = IF p < ready_queue.top_priority THEN p
                             ELSE ready_queue.top_priority
    BY <1>2, <1>3 DEF ready_queue_insert, Linked, RDYQUE
  <2> QED BY <1>2, <1>4, <2>1, <2>2 DEF Holds
<1>7. raises <=> p < b.top_priority
  BY <1>2 DEF ready_queue_insert_raises
<1> HIDE DEF rq, s, raises, p
<1>8. Top(rq) = ready_queue_top(s)
  <2>1. rq \in RDYQUE
    BY <1>1 DEF KInv, KQueue, Ordered
  <2> QED BY <1>6, <2>1, PlainFields DEF Top, ready_queue_top
<1>9. CASE raises
  BY <1>1, <1>4, <1>7, <1>8, <1>9, NullAssumption DEF KSched
<1>10. CASE ~raises
  <2>1. Top(ready_queue') = Top(ready_queue) /\ schedtsk' = schedtsk
    BY <1>1, <1>4, <1>7, <1>8, <1>10 DEF b, Top
  <2>2. schedtsk # NULL
    <3>1. Runnables = {} => ready_queue.top_priority = NUM_PRI
      BY <1>2, TopProperties
    <3>2. p < NUM_PRI
      BY <1>3, PriAssumption DEF Pri
    <3> QED BY <1>2, <1>7, <1>10, <3>1, <3>2 DEF KSched
  <2> QED BY <1>1, <1>5, <2>1, <2>2 DEF KSched, SameLocks
<1> QED BY <1>9, <1>10

\* When a task that is not scheduled leaves the queue, its head stays.
LEMMA SchedNonReady ==
  ASSUME KInv, KInv', KSched, NEW t \in Tasks, state[t] = "READY", make_non_ready(t),
         Runnables' = Runnables \ {t}
  PROVE  KSched'
<1> DEFINE b == plain(ready_queue)
           p == priority[t]
           rq == ready_queue_delete(ready_queue, t, p)
           s == ready_queue_delete(b, t, p)
<1>1. /\ ready_queue' = rq
      /\ schedtsk' = IF schedtsk = t THEN ready_queue_top(rq) ELSE schedtsk
  BY DEF make_non_ready
<1>2. CASE schedtsk = t
  BY <1>1, <1>2, SchedTop
<1>3. CASE schedtsk # t
  <2>1. /\ Holds(b, Runnables, priority) /\ b \in RDYQUE /\ ready_queue \in RDYQUE
        /\ b.tskque = ready_queue.tskque /\ b.top_priority = ready_queue.top_priority
        /\ b.bitmap = ready_queue.bitmap
        /\ \A u \in Tasks : ~b.klocked[u] /\ ~b.klockwait[u]
        /\ priority \in [Tasks -> Pri] /\ Runnables \in SUBSET Tasks
        /\ Ordered(ready_queue, Runnables, priority)
    BY QueueFacts, PlainHolds
  <2>2. schedtsk' = schedtsk /\ rq.klocked = ready_queue.klocked
    BY <1>1, <1>3, <2>1 DEF ready_queue_delete, RDYQUE
  <2>3. rq \in RDYQUE
    BY <1>1 DEF KInv, KQueue, Ordered
  <2>4. CASE ready_queue.klockwait[t]
    <3>1. rq.tskque = ready_queue.tskque /\ rq.top_priority = ready_queue.top_priority
      BY <2>1, <2>4 DEF ready_queue_delete, RDYQUE
    <3> HIDE DEF rq
    <3> QED BY <1>1, <2>2, <3>1, SchedSame
  <2>5. CASE ~ready_queue.klockwait[t]
    <3>1. t \in Runnables
      BY <2>5 DEF Runnables, Runnable
    <3>2. /\ Holds(s, Runnables \ {t}, priority)
          /\ t # ready_queue_top(b) => ready_queue_top(s) = ready_queue_top(b)
      BY <2>1, <3>1, Delete
    <3>3. s.tskque = Unlink(b.tskque, t)
          /\ s.top_priority = IF Unlink(b.tskque, t)[p] = << >> /\ p = b.top_priority
                              THEN BitSearch1(IF Unlink(b.tskque, t)[p] = << >>
                                              THEN b.bitmap \ {p} ELSE b.bitmap, p)
                              ELSE b.top_priority
      BY <2>1 DEF ready_queue_delete, RDYQUE
    <3>4. rq.tskque = Unlink(b.tskque, t)
          /\ rq.top_priority = IF Unlink(b.tskque, t)[p] = << >> /\ p = b.top_priority
                               THEN BitSearch1(IF Unlink(b.tskque, t)[p] = << >>
                                               THEN b.bitmap \ {p} ELSE b.bitmap, p)
                               ELSE b.top_priority
      BY <2>1, <2>5 DEF ready_queue_delete, RDYQUE
    <3> HIDE DEF rq, s, b, p
    <3>5. Top(rq) = ready_queue_top(s)
      <4>1. rq.tskque = s.tskque /\ rq.top_priority = s.top_priority /\ s.klocktsk = NULL
        BY <3>2, <3>3, <3>4 DEF Holds
      <4> QED BY <2>3, <4>1, PlainFields DEF Top, ready_queue_top
    <3>6. schedtsk # NULL
      BY <3>1 DEF KSched
    <3>7. ready_queue.klocked[schedtsk] \/ t # ready_queue_top(b)
      BY <1>3, <3>6 DEF KSched, Top, b
    <3>8. ready_queue.klocked[schedtsk] \/ schedtsk = Top(rq)
      BY <3>2, <3>5, <3>6, <3>7 DEF KSched, Top, b
    <3> QED BY <1>1, <2>2, <3>6, <3>8 DEF KSched
  <2> QED BY <2>4, <2>5
<1> QED BY <1>2, <1>3

\* A step that leaves the queue and the processor alone and makes no task
\* runnable.
LEMMA SchedUnmoved ==
  ASSUME KInv, KInv', KSched, UNCHANGED <<ready_queue, schedtsk>>,
         \A t \in Tasks : state'[t] = "READY" => state[t] = "READY"
  PROVE  KSched'
<1>1. Runnables = {} => Runnables' = {}
  BY DEF Runnables, Runnable
<1> QED BY <1>1, SchedSame

\* The calls of a task on an object.
LEMMA SchedObjectCalls ==
  ASSUME SliceTimes = {0}, KInv, KInv', KSched, ObjectCalls
  PROVE  KSched'
<1>1. ASSUME NEW l \in Locks, LockOBJ(l) PROVE KSched'
  <2>1. ctxtsk \in Tasks /\ ready_queue \in RDYQUE /\ state' = state
    BY <1>1, KRunner, QueueFacts DEF LockOBJ, callvars
  <2>2. CASE LockOBJ_given(l)
    BY <2>1, <2>2, SchedUnmoved DEF LockOBJ_given
  <2>3. CASE LockOBJ_free(l)
    <3>1. ready_queue' = [ready_queue EXCEPT !.klocked[ctxtsk] = TRUE, !.klocktsk = ctxtsk]
      BY <2>3 DEF LockOBJ_free
    <3>2. /\ ready_queue'.tskque = ready_queue.tskque
          /\ ready_queue'.top_priority = ready_queue.top_priority
          /\ ready_queue'.klockwait = ready_queue.klockwait
          /\ ready_queue'.klocked = [ready_queue.klocked EXCEPT ![ctxtsk] = TRUE]
          /\ ready_queue.klocked \in [Tasks -> BOOLEAN]
      BY <2>1, <3>1 DEF RDYQUE
    <3>3. Runnables' = Runnables
      BY <2>1, <3>2 DEF Runnables, Runnable
    <3>4. schedtsk' = schedtsk /\ schedtsk \in Tasks \cup {NULL}
      BY <2>3 DEF LockOBJ_free, KInv, KQueue, Runnables
    <3>5. schedtsk # NULL /\ ready_queue.klocked[schedtsk] => ready_queue'.klocked[schedtsk]
      BY <2>1, <3>2, <3>4
    <3> QED BY <3>2, <3>3, <3>4, <3>5, SchedSame
  <2>4. CASE LockOBJ_wait(l)
    BY <2>4, SchedTop DEF LockOBJ_wait
  <2> QED BY <1>1, <2>2, <2>3, <2>4 DEF LockOBJ
<1>2. ASSUME mpf_exit \/ mpf_make_wait PROVE KSched'
  BY <1>2, SchedTop DEF mpf_exit, mpf_make_wait, UnlockOBJ
<1>3. ASSUME NEW t \in Tasks, mpf_release(t) PROVE KSched'
  <2>1. Waiting(t) /\ make_non_wait(t)
    BY <1>3 DEF mpf_release
  <2>2. CASE state[t] = "WAIT"
    BY <2>1, <2>2, SchedReady DEF make_non_wait
  <2>3. CASE state[t] # "WAIT"
    BY <2>1, <2>3, TypeFacts, SchedUnmoved DEF make_non_wait
  <2> QED BY <2>2, <2>3
<1> QED BY <1>1, <1>2, <1>3 DEF ObjectCalls

\* make_non_wait, whoever calls it.
LEMMA SchedNonWait ==
  ASSUME SliceTimes = {0}, KInv, KInv', KSched, NEW t \in Tasks, Waiting(t),
         make_non_wait(t)
  PROVE  KSched'
<1>1. CASE state[t] = "WAIT"
  BY <1>1, SchedReady DEF make_non_wait
<1>2. CASE state[t] # "WAIT"
  BY <1>2, TypeFacts, SchedUnmoved DEF make_non_wait
<1> QED BY <1>1, <1>2

\* The calls a task as well as a handler makes.
LEMMA SchedOtherCalls ==
  ASSUME SliceTimes = {0}, KInv, KInv', KSched, NEW c, OtherCalls(c)
  PROVE  KSched'
<1>1. state \in [Tasks -> TSTAT]
  BY TypeFacts
<1>2. ASSUME NEW t \in Tasks, tk_sta_tsk(c, t) PROVE KSched'
  BY <1>2, SchedReady DEF tk_sta_tsk
<1>3. ASSUME NEW t \in Tasks, tk_rel_wai(c, t) PROVE KSched'
  BY <1>3, SchedNonWait DEF tk_rel_wai
<1>4. ASSUME NEW t \in Tasks, tk_sus_tsk(c, t) PROVE KSched'
  <2>1. CASE state[t] = "READY"
    <3>1. make_non_ready(t) /\ state' = [state EXCEPT ![t] = "SUSPEND"] /\ priority' = priority
      BY <1>4, <2>1 DEF tk_sus_tsk
    <3>2. /\ state'[t] # "READY" /\ \A u \in Tasks \ {t} : state'[u] = state[u]
          /\ \A u \in Tasks \ {t} : priority'[u] = priority[u]
      BY <1>1, <3>1
    <3>3. Left(ready_queue', ready_queue, t, Queues)
      BY <2>1, <3>1, <3>2, KMakeNonReady
    <3>4. Runnables' = Runnables \ {t}
      BY <3>2, <3>3 DEF Runnables, Runnable, Left
    <3> QED BY <2>1, <3>1, <3>4, SchedNonReady
  <2>2. CASE state[t] # "READY"
    <3>1. /\ state' = [state EXCEPT ![t] = IF @ = "WAIT" THEN "WAITSUS" ELSE @]
          /\ UNCHANGED <<ready_queue, schedtsk>>
      BY <1>4, <2>2 DEF tk_sus_tsk
    <3> QED BY <1>1, <2>2, <3>1, SchedUnmoved
  <2> QED BY <2>1, <2>2
<1>5. ASSUME NEW t \in Tasks, tk_rsm_tsk(c, t) PROVE KSched'
  <2>1. CASE suscnt[t] = 1 /\ state[t] = "SUSPEND"
    BY <1>5, <2>1, SchedReady DEF tk_rsm_tsk, resume
  <2>2. CASE ~(suscnt[t] = 1 /\ state[t] = "SUSPEND")
    <3>1. /\ state' = state \/ state' = [state EXCEPT ![t] = "WAIT"]
          /\ UNCHANGED <<ready_queue, schedtsk>>
      BY <1>5, <2>2 DEF tk_rsm_tsk, resume
    <3> QED BY <1>1, <3>1, SchedUnmoved
  <2> QED BY <2>1, <2>2
<1>6. ASSUME NEW t \in Tasks, NEW p \in Pri, tk_chg_pri(c, t, p) PROVE KSched'
  <2>1. change_task_priority(t, p)
    BY <1>6 DEF tk_chg_pri
  <2>2. CASE state[t] = "READY"
    <3> DEFINE rq == ready_queue_insert(ready_queue_delete(ready_queue, t, priority[t]), t, p)
    <3>1. reschedule(rq, priority')
      BY <2>1, <2>2 DEF change_task_priority
    <3> HIDE DEF rq
    <3>2. ready_queue' = rq /\ schedtsk' = ready_queue_top(rq)
      BY <3>1, NoSlices DEF reschedule
    <3> QED BY <3>2, SchedTop
  <2>3. CASE state[t] # "READY"
    BY <2>1, <2>3, SchedUnmoved DEF change_task_priority
  <2> QED BY <2>2, <2>3
<1>7. ASSUME NEW t \in Tasks, NEW slt, tk_chg_slt_u(c, t, slt) PROVE KSched'
  BY <1>7, SchedUnmoved DEF tk_chg_slt_u
<1>8. ASSUME NEW p \in Pri, tk_rot_rdq(c, p) PROVE KSched'
  <2> DEFINE rq == ready_queue_rotate(ready_queue, p)
  <2>1. reschedule(rq, priority)
    BY <1>8 DEF tk_rot_rdq
  <2> HIDE DEF rq
  <2>2. ready_queue' = rq /\ schedtsk' = ready_queue_top(rq)
    BY <2>1, NoSlices DEF reschedule
  <2> QED BY <2>2, SchedTop
<1> QED BY <1>2, <1>3, <1>4, <1>5, <1>6, <1>7, <1>8 DEF OtherCalls

\* The calls and interrupts that are left.
LEMMA SchedRest ==
  ASSUME SliceTimes = {0}, KInv, KInv', KSched,
         \/ TimerInterrupt
         \/ Dispatcher
         \/ tk_dis_dsp
         \/ tk_ena_dsp
         \/ \E t \in Tasks, p \in Pri : tk_cre_tsk(t, p)
         \/ \E t \in Tasks : tk_ter_tsk(t)
         \/ tk_ext_tsk
         \/ UNCHANGED allvars
  PROVE  KSched'
<1>1. state \in [Tasks -> TSTAT]
  BY TypeFacts
<1>2. CASE TimerInterrupt
  <2>1. CASE timer_handler
    <3>1. UNCHANGED <<ready_queue, schedtsk, state>>
      BY <2>1, NoSlices DEF timer_handler
    <3> QED BY <3>1, SchedUnmoved
  <2>2. ASSUME NEW t \in Tasks, wait_release_tmout(t) PROVE KSched'
    BY <2>2, SchedNonWait DEF wait_release_tmout
  <2> QED BY <1>2, <2>1, <2>2 DEF TimerInterrupt
<1>3. CASE Dispatcher \/ tk_dis_dsp \/ tk_ena_dsp
  <2>1. UNCHANGED <<ready_queue, schedtsk, state>>
    BY <1>3 DEF Dispatcher, dispatch_entry, dispatch_save, dispatch_to_schedtsk,
                tk_dis_dsp, tk_ena_dsp
  <2> QED BY <2>1, SchedUnmoved
<1>4. ASSUME NEW t \in Tasks, NEW p \in Pri, tk_cre_tsk(t, p) PROVE KSched'
  <2>1. UNCHANGED <<ready_queue, schedtsk>> /\ state' = [state EXCEPT ![t] = "DORMANT"]
    BY <1>4 DEF tk_cre_tsk, make_dormant
  <2> QED BY <1>1, <2>1, SchedUnmoved
<1>5. ASSUME NEW t \in Tasks, ter_tsk(t), make_dormant(t), UNCHANGED ipriority PROVE KSched'
  <2>1. /\ state' = [state EXCEPT ![t] = "DORMANT"]
        /\ priority' = [priority EXCEPT ![t] = ipriority'[t]]
    BY <1>5 DEF make_dormant
  <2>2. /\ state'[t] # "READY" /\ \A u \in Tasks \ {t} : state'[u] = state[u]
        /\ \A u \in Tasks \ {t} : priority'[u] = priority[u]
    BY <1>1, <2>1, TypeFacts
  <2>3. CASE state[t] = "READY"
    <3>1. make_non_ready(t)
      BY <1>5, <2>3 DEF ter_tsk
    <3>2. Left(ready_queue', ready_queue, t, Queues)
      BY <2>2, <2>3, <3>1, KMakeNonReady
    <3>3. Runnables' = Runnables \ {t}
      BY <2>2, <3>2 DEF Runnables, Runnable, Left
    <3> QED BY <2>3, <3>1, <3>3, SchedNonReady
  <2>4. CASE state[t] # "READY"
    <3>1. UNCHANGED <<ready_queue, schedtsk>>
      BY <1>5, <2>4 DEF ter_tsk
    <3> QED BY <2>2, <3>1, SchedUnmoved
  <2> QED BY <2>3, <2>4
<1>6. ASSUME NEW t \in Tasks, tk_ter_tsk(t) PROVE KSched'
  BY <1>5, <1>6 DEF tk_ter_tsk
<1>7. CASE tk_ext_tsk
  <2>1. ctxtsk \in Tasks
    BY <1>7, KRunner DEF tk_ext_tsk
  <2> QED BY <1>5, <1>7, <2>1 DEF tk_ext_tsk
<1>8. CASE UNCHANGED allvars
  <2>1. UNCHANGED <<ready_queue, schedtsk, state>>
    BY <1>8 DEF allvars, vars
  <2> QED BY <2>1, SchedUnmoved
<1> QED BY <1>2, <1>3, <1>4, <1>6, <1>7, <1>8

\* The initial task is scheduled.
LEMMA SchedInit == KInit => KSched
<1> SUFFICES ASSUME KInit PROVE KSched
  OBVIOUS
<1>1. PICK t \in Tasks, p \in Pri :
        ready_queue = ready_queue_insert(ready_queue_initialize, t, p) /\ schedtsk = t
  BY DEF KInit, Init
<1> DEFINE idle == ready_queue_initialize
<1>2. /\ idle.top_priority = NUM_PRI /\ ~idle.klocked[t] /\ idle.klocktsk = NULL
      /\ idle.tskque[p] = << >> /\ idle \in RDYQUE
  BY PriAssumption DEF ready_queue_initialize, RDYQUE, TCB
<1> HIDE DEF idle
<1>3. /\ ready_queue.top_priority = p
      /\ ready_queue.tskque = [idle.tskque EXCEPT ![p] = Append(idle.tskque[p], t)]
  BY <1>1, <1>2, PriAssumption DEF ready_queue_insert, Linked, RDYQUE, Pri, idle
<1>4. ready_queue.tskque[p] = Append(<< >>, t)
  BY <1>2, <1>3 DEF RDYQUE
<1>5. ready_queue \in RDYQUE
  BY KInitInv DEF KInv, KQueue, Ordered
<1>6. Top(ready_queue) = Head(Append(<< >>, t))
  <2>1. p # NUM_PRI
    BY PriAssumption DEF Pri
  <2> QED BY <1>3, <1>4, <1>5, <2>1, PlainFields DEF Top, ready_queue_top
<1>7. Head(Append(<< >>, t)) = t
  OBVIOUS
<1> QED BY <1>1, <1>6, <1>7, NullAssumption DEF KSched

\* Where no task has a slice time, the processor goes to a task with a lock or
\* to the head of the most urgent queue, and the ready queue holds the READY
\* tasks that do not wait for a lock.
THEOREM LockerScheduled ==
  ASSUME SliceTimes = {0}
  PROVE  KSpec => []LockerOrTopScheduled
<1>1. KSched /\ KInv /\ KInv' /\ [KNext]_allvars => KSched'
  <2> SUFFICES ASSUME KSched, KInv, KInv', [KNext]_allvars PROVE KSched'
    OBVIOUS
  <2> QED BY SchedObjectCalls, SchedOtherCalls, SchedRest DEF KNext
<1>2. ASSUME KInv, KSched PROVE LockerOrTopScheduled
  <2>1. /\ Ordered(ready_queue, Runnables, priority) /\ Runnables \in SUBSET Tasks
        /\ priority \in [Tasks -> Pri] /\ schedtsk \in Runnables \cup {NULL}
        /\ ready_queue \in RDYQUE
    BY <1>2, QueueFacts DEF KInv, KQueue
  <2>2. Consistent(ready_queue, Runnables, priority)
    <3> DEFINE b == plain(ready_queue)
    <3>1. /\ Holds(b, Runnables, priority) /\ b.tskque = ready_queue.tskque
          /\ b.bitmap = ready_queue.bitmap /\ b.top_priority = ready_queue.top_priority
      BY <2>1, PlainHolds
    <3> HIDE DEF b
    <3>2. Consistent(b, Runnables, priority)
      BY <2>1, <3>1, HoldsConsistent
    <3> QED BY <3>1, <3>2 DEF Consistent
  <2>3. Top(ready_queue) = ready_queue_top([ready_queue EXCEPT !.klocktsk = NULL])
    <3> DEFINE a == [ready_queue EXCEPT !.klocktsk = NULL]
    <3>1. /\ a.tskque = ready_queue.tskque /\ a.top_priority = ready_queue.top_priority
          /\ a.klocktsk = NULL
      BY <2>1 DEF RDYQUE
    <3>2. /\ plain(ready_queue).tskque = ready_queue.tskque
          /\ plain(ready_queue).top_priority = ready_queue.top_priority
          /\ plain(ready_queue).klocktsk = NULL
      BY <2>1, PlainHolds
    <3> HIDE DEF a
    <3>3. ready_queue_top(plain(ready_queue)) = ready_queue_top(a)
      BY <3>1, <3>2 DEF ready_queue_top
    <3> QED BY <3>3 DEF Top, a
  <2>4. (\A t \in Tasks : ~Runnable(t)) <=> Runnables = {}
    BY DEF Runnables
  <2>5. CASE schedtsk = NULL
    BY <1>2, <2>2, <2>4, <2>5 DEF KSched, LockerOrTopScheduled, Runnables
  <2>6. CASE schedtsk # NULL
    <3>1. Runnable(schedtsk) /\ Runnables # {}
      BY <2>1, <2>6 DEF Runnables
    <3> QED BY <1>2, <2>2, <2>3, <2>4, <2>6, <3>1 DEF KSched, LockerOrTopScheduled, Runnables
  <2> QED BY <2>5, <2>6
<1> QED BY <1>1, <1>2, SchedInit, KInductive, PTL DEF KSpec
=============================================================================

-------------------------- MODULE WaitQueue_proofs --------------------------
(***************************************************************************)
(* What the queue operations preserve.  A queue lists the tasks of a set,  *)
(* each once; an operation adds a task to the set or takes one out.        *)
(***************************************************************************)
EXTENDS WaitQueue, SequenceTheorems, WellFoundedInduction, TLAPS

\* q lists the elements of S, each once.
Lists(q, S) ==
  /\ q \in Seq(S)
  /\ IsInjective(q)
  /\ Range(q) = S

\* Every queue without repetitions lists what is in it.
LEMMA ListsRange ==
  ASSUME NEW T, NEW q \in Seq(T), IsInjective(q)
  PROVE  Lists(q, Range(q)) /\ Range(q) \subseteq T
<1>1. DOMAIN q = 1 .. Len(q) /\ Len(q) \in Nat /\ \A i \in 1 .. Len(q) : q[i] \in T
  BY LenProperties, ElementOfSeq
<1>2. \A i \in 1 .. Len(q) : q[i] \in Range(q)
  BY <1>1 DEF Range
<1>3. q \in Seq(Range(q))
  BY <1>1, <1>2, IsASeq
<1>4. Range(q) \subseteq T
  BY <1>1 DEF Range
<1> QED BY <1>3, <1>4 DEF Lists

\* What a list is, place by place.
LEMMA ListsPlaces ==
  ASSUME NEW q, NEW S, Lists(q, S)
  PROVE  /\ q \in Seq(S) /\ Len(q) \in Nat /\ DOMAIN q = 1 .. Len(q)
         /\ \A i \in 1 .. Len(q) : q[i] \in S
         /\ \A i, j \in 1 .. Len(q) : q[i] = q[j] => i = j
         /\ \A x \in S : \E i \in 1 .. Len(q) : q[i] = x
<1>1. q \in Seq(S) /\ Len(q) \in Nat /\ DOMAIN q = 1 .. Len(q)
  BY LenProperties DEF Lists
<1>2. \A i, j \in 1 .. Len(q) : q[i] = q[j] => i = j
  BY <1>1 DEF Lists, IsInjective
<1> QED BY <1>1, <1>2 DEF Lists, Range

\* A list of a part of T is a queue of elements of T.
LEMMA ListsSeq ==
  ASSUME NEW T, NEW S \in SUBSET T, NEW q, Lists(q, S)
  PROVE  q \in Seq(T)
<1>1. /\ q \in Seq(S) /\ Len(q) \in Nat /\ DOMAIN q = 1 .. Len(q)
      /\ \A i \in 1 .. Len(q) : q[i] \in T
  BY ListsPlaces
<1>2. q = [i \in 1 .. Len(q) |-> q[i]]
  BY <1>1
<1> QED BY <1>1, <1>2, IsASeq

\* The converse.
LEMMA PlacesList ==
  ASSUME NEW S, NEW q \in Seq(S),
         \A i, j \in 1 .. Len(q) : q[i] = q[j] => i = j,
         \A x \in S : \E i \in 1 .. Len(q) : q[i] = x
  PROVE  Lists(q, S)
<1>1. Len(q) \in Nat /\ DOMAIN q = 1 .. Len(q) /\ \A i \in 1 .. Len(q) : q[i] \in S
  BY LenProperties, ElementOfSeq
<1>2. IsInjective(q)
  BY <1>1 DEF IsInjective
<1>3. Range(q) = S
  BY <1>1 DEF Range
<1> QED BY <1>2, <1>3 DEF Lists

\* The empty queue lists nothing.
LEMMA NothingListed == Lists(<< >>, {})
<1>1. << >> \in Seq({}) /\ IsInjective(<< >>) /\ Range(<< >>) = {}
  BY DEF IsInjective, Range
<1> QED BY <1>1 DEF Lists

\* An empty queue lists nothing, and nothing else does.
LEMMA EmptyList ==
  ASSUME NEW q, NEW S, Lists(q, S)
  PROVE  q = << >> <=> S = {}
<1>1. /\ q \in Seq(S) /\ Len(q) \in Nat /\ \A i \in 1 .. Len(q) : q[i] \in S
      /\ \A x \in S : \E i \in 1 .. Len(q) : q[i] = x
  BY ListsPlaces
<1>2. q = << >> <=> Len(q) = 0
  BY <1>1, EmptySeq
<1> QED BY <1>1, <1>2

---------------------------------------------------------------------------

\* QueInsert at the end of a queue adds a task and keeps the head.
LEMMA AppendList ==
  ASSUME NEW q, NEW S, Lists(q, S), NEW t, t \notin S
  PROVE  /\ Lists(Append(q, t), S \cup {t})
         /\ Append(q, t) # << >>
         /\ Head(Append(q, t)) = IF q = << >> THEN t ELSE Head(q)
<1> DEFINE T == S \cup {t}
           r == Append(q, t)
<1>1. /\ Len(q) \in Nat /\ \A i \in 1 .. Len(q) : q[i] \in S
      /\ \A i, j \in 1 .. Len(q) : q[i] = q[j] => i = j
      /\ \A x \in S : \E i \in 1 .. Len(q) : q[i] = x
  BY ListsPlaces
<1>2. q \in Seq(T)
  <2>1. q \in Seq(S) /\ S \subseteq T
    BY DEF Lists
  <2> QED BY <2>1, SeqMonotonic
<1>3. /\ r \in Seq(T) /\ r # << >>
      /\ Len(r) = Len(q) + 1
      /\ \A i \in 1 .. Len(q) : r[i] = q[i]
      /\ r[Len(q) + 1] = t
      /\ Head(r) = IF q = << >> THEN t ELSE Head(q)
  BY <1>2, AppendProperties, HeadTailAppend
<1> HIDE DEF r
<1>4. \A i, j \in 1 .. Len(r) : r[i] = r[j] => i = j
  BY <1>1, <1>3
<1>5. \A x \in T : \E i \in 1 .. Len(r) : r[i] = x
  BY <1>1, <1>3
<1>6. Lists(r, T)
  <2> HIDE DEF T
  <2> QED BY <1>3, <1>4, <1>5, PlacesList
<1> QED BY <1>3, <1>6 DEF r

\* r is q without its place i.
SkipsPlace(r, q, i) ==
  /\ Len(r) = Len(q) - 1
  /\ \A j \in 1 .. Len(q) - 1 : r[j] = IF j < i THEN q[j] ELSE q[j + 1]

\* RemoveAt leaves out one place.
LEMMA RemoveAtPlaces ==
  ASSUME NEW T, NEW q \in Seq(T), NEW i \in 1 .. Len(q)
  PROVE  RemoveAt(q, i) \in Seq(T) /\ SkipsPlace(RemoveAt(q, i), q, i)
<1> DEFINE a == SubSeq(q, 1, i - 1)
           b == SubSeq(q, i + 1, Len(q))
           r == a \o b
<1>1. Len(q) \in Nat /\ \A j \in 1 .. Len(q) : q[j] \in T
  BY LenProperties, ElementOfSeq
<1>2. RemoveAt(q, i) = r
  BY DEF RemoveAt
<1>3. /\ a \in Seq(T) /\ Len(a) = i - 1
      /\ \A j \in 1 .. i - 1 : a[j] = q[j]
  <2>1. i - 1 \in Int /\ (\A j \in 1 .. i - 1 : q[j] \in T)
    BY <1>1
  <2> HIDE DEF a
  <2>2. /\ a \in Seq(T)
        /\ Len(a) = IF 1 <= i - 1 THEN i - 1 - 1 + 1 ELSE 0
        /\ \A j \in 1 .. i - 1 - 1 + 1 : a[j] = q[1 + j - 1]
    BY <2>1, SubSeqProperties DEF a
  <2> QED BY <2>2
<1>4. /\ b \in Seq(T) /\ Len(b) = Len(q) - i
      /\ \A j \in 1 .. Len(q) - i : b[j] = q[i + j]
  <2>1. i + 1 \in Int /\ (\A j \in i + 1 .. Len(q) : q[j] \in T)
    BY <1>1
  <2> HIDE DEF b
  <2>2. /\ b \in Seq(T)
        /\ Len(b) = IF i + 1 <= Len(q) THEN Len(q) - (i + 1) + 1 ELSE 0
        /\ \A j \in 1 .. Len(q) - (i + 1) + 1 : b[j] = q[(i + 1) + j - 1]
    BY <1>1, <2>1, SubSeqProperties DEF b
  <2>3. Len(b) = Len(q) - i
    <3>1. Len(b) = IF i + 1 <= Len(q) THEN Len(q) - (i + 1) + 1 ELSE 0
      BY <2>2
    <3>2. Len(q) \in Nat /\ i \in Nat /\ i <= Len(q)
      BY <1>1
    <3> QED BY <3>1, <3>2
  <2>4. ASSUME NEW j \in 1 .. Len(q) - i PROVE b[j] = q[i + j]
    <3>1. j \in 1 .. Len(q) - (i + 1) + 1 /\ (i + 1) + j - 1 = i + j
      BY <1>1
    <3> QED BY <2>2, <3>1
  <2> QED BY <2>2, <2>3, <2>4
<1>5. /\ r \in Seq(T) /\ Len(r) = Len(q) - 1
      /\ \A j \in 1 .. Len(q) - 1 : r[j] = IF j < i THEN q[j] ELSE q[j + 1]
  <2> HIDE DEF a, b
  <2>1. /\ r \in Seq(T)
        /\ Len(r) = Len(a) + Len(b)
        /\ \A j \in 1 .. Len(a) + Len(b) :
             r[j] = IF j <= Len(a) THEN a[j] ELSE b[j - Len(a)]
    BY <1>3, <1>4, ConcatProperties
  <2> HIDE DEF r
  <2>2. Len(a) + Len(b) = Len(q) - 1
    BY <1>1, <1>3, <1>4
  <2>3. ASSUME NEW j \in 1 .. Len(q) - 1
        PROVE  r[j] = IF j < i THEN q[j] ELSE q[j + 1]
    <3>1. r[j] = IF j <= i - 1 THEN a[j] ELSE b[j - (i - 1)]
      BY <1>3, <2>1, <2>2
    <3>2. CASE j < i
      BY <1>1, <1>3, <3>1, <3>2
    <3>3. CASE j >= i
      <4>1. j - (i - 1) \in 1 .. Len(q) - i /\ i + (j - (i - 1)) = j + 1
        BY <1>1, <3>3
      <4>2. r[j] = b[j - (i - 1)]
        BY <1>1, <3>1, <3>3
      <4> QED BY <1>1, <1>4, <3>3, <4>1, <4>2
    <3> QED BY <3>2, <3>3
  <2> QED BY <2>1, <2>2, <2>3
<1> HIDE DEF r
<1>6. SkipsPlace(r, q, i)
  BY <1>5 DEF SkipsPlace
<1> QED BY <1>2, <1>5, <1>6

\* QueRemove takes a task out of its queue, wherever it is, keeps the order
\* of the others and leaves any other queue alone.
LEMMA RemoveList ==
  ASSUME NEW q, NEW S, Lists(q, S), NEW t
  PROVE  /\ Lists(QueRemove(q, t), S \ {t})
         /\ t \notin S => QueRemove(q, t) = q
         /\ q # << >> /\ Head(q) # t =>
              /\ QueRemove(q, t) # << >>
              /\ Head(QueRemove(q, t)) = Head(q)
<1>1. /\ q \in Seq(S) /\ Len(q) \in Nat /\ \A i \in 1 .. Len(q) : q[i] \in S
      /\ \A i, j \in 1 .. Len(q) : q[i] = q[j] => i = j
      /\ \A x \in S : \E i \in 1 .. Len(q) : q[i] = x
  BY ListsPlaces
<1>2. CASE t \notin S
  <2>1. QueRemove(q, t) = q
    BY <1>1, <1>2 DEF QueRemove, RemoveFirst
  <2>2. S \ {t} = S
    BY <1>2
  <2> QED BY <2>1, <2>2
<1>3. CASE t \in S
  <2>1. PICK i \in 1 .. Len(q) : q[i] = t
    BY <1>1, <1>3
  <2>2. SelectInSeq(q, LAMBDA v : v = t) = i
    <3>1. {j \in 1 .. Len(q) : q[j] = t} = {i}
      <4>1. \A j \in 1 .. Len(q) : q[j] = t => j = i
        BY <1>1, <2>1
      <4> QED BY <2>1, <4>1
    <3>2. Min({i}) = i
      BY DEF Min
    <3> QED BY <3>1, <3>2 DEF SelectInSeq
  <2> DEFINE r == RemoveAt(q, i)
  <2>3. QueRemove(q, t) = r
    BY <2>1, <2>2 DEF QueRemove, RemoveFirst
  <2>4. r \in Seq(S) /\ SkipsPlace(r, q, i)
    BY <1>1, RemoveAtPlaces
  <2> HIDE DEF r
  <2>5. /\ r \in Seq(S) /\ Len(r) = Len(q) - 1
        /\ \A j \in 1 .. Len(q) - 1 : r[j] = IF j < i THEN q[j] ELSE q[j + 1]
    BY <2>4 DEF SkipsPlace
  <2>6. ASSUME NEW j \in 1 .. Len(q) - 1
        PROVE  \E k \in 1 .. Len(q) : r[j] = q[k] /\ k # i /\ k = IF j < i THEN j ELSE j + 1
    <3>1. CASE j < i
      <4>1. j \in 1 .. Len(q) /\ r[j] = q[j] /\ j # i
        BY <1>1, <2>5, <3>1
      <4> QED BY <3>1, <4>1
    <3>2. CASE j >= i
      <4>1. j + 1 \in 1 .. Len(q) /\ r[j] = q[j + 1] /\ j + 1 # i /\ ~(j < i)
        BY <1>1, <2>5, <3>2
      <4> QED BY <4>1
    <3> QED BY <3>1, <3>2
  <2>7. ASSUME NEW k \in 1 .. Len(q), k # i
        PROVE  \E j \in 1 .. Len(q) - 1 : r[j] = q[k]
    <3>1. CASE k < i
      <4>1. Len(q) \in Nat
        BY <1>1
      <4>2. k \in 1 .. Len(q) - 1
        BY <3>1, <4>1
      <4>3. r[k] = q[k]
        BY <2>5, <3>1, <4>2
      <4> QED BY <4>2, <4>3
    <3>2. CASE k > i
      <4>1. k - 1 \in 1 .. Len(q) - 1 /\ ~(k - 1 < i) /\ k - 1 + 1 = k
        BY <1>1, <3>2
      <4>2. r[k - 1] = q[k]
        BY <2>5, <4>1
      <4> QED BY <4>1, <4>2
    <3> QED BY <1>1, <2>7, <3>1, <3>2
  <2>8. ASSUME NEW j \in 1 .. Len(q) - 1, NEW k \in 1 .. Len(q) - 1, r[j] = r[k]
        PROVE  j = k
    <3>1. PICK x \in 1 .. Len(q) : r[j] = q[x] /\ x = IF j < i THEN j ELSE j + 1
      BY <2>6
    <3>2. PICK y \in 1 .. Len(q) : r[k] = q[y] /\ y = IF k < i THEN k ELSE k + 1
      BY <2>6
    <3>3. x = y
      BY <1>1, <2>8, <3>1, <3>2
    <3> QED BY <3>1, <3>2, <3>3
  <2>9. \A j, k \in 1 .. Len(r) : r[j] = r[k] => j = k
    BY <2>5, <2>8
  <2>10. ASSUME NEW x \in S \ {t} PROVE \E j \in 1 .. Len(r) : r[j] = x
    <3>1. PICK k \in 1 .. Len(q) : q[k] = x
      BY <1>1
    <3>2. k # i
      BY <2>1, <3>1
    <3> QED BY <2>5, <2>7, <3>1, <3>2
  <2>11. r \in Seq(S \ {t})
    <3>1. ASSUME NEW j \in 1 .. Len(r) PROVE r[j] \in S \ {t}
      <4>1. PICK k \in 1 .. Len(q) : r[j] = q[k] /\ k # i
        BY <2>5, <2>6
      <4> QED BY <1>1, <2>1, <4>1
    <3>2. Len(r) \in Nat /\ r = [j \in 1 .. Len(r) |-> r[j]]
      BY <2>5, LenProperties
    <3> QED BY <3>1, <3>2, IsASeq
  <2>12. Lists(r, S \ {t})
    BY <2>9, <2>10, <2>11, PlacesList
  <2>13. q # << >> /\ Head(q) # t => r # << >> /\ Head(r) = Head(q)
    <3>1. SUFFICES ASSUME q # << >>, Head(q) # t
                   PROVE  r # << >> /\ Head(r) = Head(q)
      OBVIOUS
    <3>2. Head(q) = q[1]
      BY <1>1, <3>1
    <3>3. i > 1 /\ Len(r) > 0 /\ r[1] = q[1]
      <4>1. i # 1 /\ i \in Nat /\ i >= 1 /\ i <= Len(q)
        BY <1>1, <2>1, <3>1, <3>2
      <4>2. 1 \in 1 .. Len(q) - 1 /\ 1 < i
        BY <1>1, <4>1
      <4> QED BY <1>1, <2>5, <4>1, <4>2
    <3>4. r # << >>
      BY <2>5, <3>3, EmptySeq
    <3> QED BY <2>5, <3>2, <3>3, <3>4
  <2> QED BY <1>3, <2>3, <2>12, <2>13
<1> QED BY <1>2, <1>3

---------------------------------------------------------------------------

\* r is q with t before its place i.
AddsPlace(r, q, i, t) ==
  /\ Len(r) = Len(q) + 1
  /\ \A j \in 1 .. Len(q) + 1 :
       r[j] = IF j < i THEN q[j] ELSE IF j = i THEN t ELSE q[j - 1]

\* InsertAt adds one place.
LEMMA InsertAtPlaces ==
  ASSUME NEW T, NEW q \in Seq(T), NEW i \in 1 .. Len(q), NEW t \in T
  PROVE  InsertAt(q, i, t) \in Seq(T) /\ AddsPlace(InsertAt(q, i, t), q, i, t)
<1> DEFINE a == SubSeq(q, 1, i - 1)
           b == SubSeq(q, i, Len(q))
           c == a \o <<t>>
           r == c \o b
<1>1. Len(q) \in Nat /\ i \in 1 .. Len(q) /\ \A j \in 1 .. Len(q) : q[j] \in T
  BY LenProperties, ElementOfSeq
<1>2. InsertAt(q, i, t) = r
  BY DEF InsertAt
<1>3. /\ a \in Seq(T) /\ Len(a) = i - 1
      /\ \A j \in 1 .. i - 1 : a[j] = q[j]
  <2>1. i - 1 \in Int /\ (\A j \in 1 .. i - 1 : q[j] \in T)
    BY <1>1
  <2> HIDE DEF a
  <2>2. /\ a \in Seq(T)
        /\ Len(a) = IF 1 <= i - 1 THEN i - 1 - 1 + 1 ELSE 0
        /\ \A j \in 1 .. i - 1 - 1 + 1 : a[j] = q[1 + j - 1]
    BY <2>1, SubSeqProperties DEF a
  <2> QED BY <2>2
<1>4. /\ b \in Seq(T) /\ Len(b) = Len(q) - i + 1
      /\ \A j \in 1 .. Len(q) - i + 1 : b[j] = q[i + j - 1]
  <2>1. i \in Int /\ Len(q) \in Int /\ (\A j \in i .. Len(q) : q[j] \in T)
    BY <1>1
  <2> HIDE DEF b
  <2>2. /\ b \in Seq(T)
        /\ Len(b) = IF i <= Len(q) THEN Len(q) - i + 1 ELSE 0
        /\ \A j \in 1 .. Len(q) - i + 1 : b[j] = q[i + j - 1]
    BY <2>1, SubSeqProperties DEF b
  <2>3. i <= Len(q)
    BY <1>1
  <2> QED BY <2>2, <2>3
<1> HIDE DEF a, b
<1>5. /\ <<t>> \in Seq(T) /\ Len(<<t>>) = 1 /\ <<t>>[1] = t
  OBVIOUS
<1>6. /\ c \in Seq(T) /\ Len(c) = i
      /\ \A j \in 1 .. i : c[j] = IF j < i THEN q[j] ELSE t
  <2>1. /\ c \in Seq(T) /\ Len(c) = Len(a) + Len(<<t>>)
        /\ \A j \in 1 .. Len(a) + Len(<<t>>) :
             c[j] = IF j <= Len(a) THEN a[j] ELSE <<t>>[j - Len(a)]
    BY <1>3, <1>5, ConcatProperties
  <2> HIDE DEF c
  <2>2. Len(a) + Len(<<t>>) = i
    BY <1>1, <1>3, <1>5
  <2>3. ASSUME NEW j \in 1 .. i PROVE c[j] = IF j < i THEN q[j] ELSE t
    <3>1. CASE j < i
      BY <1>1, <1>3, <2>1, <2>2, <3>1
    <3>2. CASE j = i
      <4>1. ~(j <= Len(a)) /\ j - Len(a) = 1
        BY <1>1, <1>3, <3>2
      <4> QED BY <1>5, <2>1, <2>2, <3>2, <4>1
    <3> QED BY <1>1, <3>1, <3>2
  <2> QED BY <2>1, <2>2, <2>3
<1> HIDE DEF c
<1>7. /\ r \in Seq(T) /\ Len(r) = Len(c) + Len(b)
      /\ \A j \in 1 .. Len(c) + Len(b) : r[j] = IF j <= Len(c) THEN c[j] ELSE b[j - Len(c)]
  BY <1>4, <1>6, ConcatProperties
<1> HIDE DEF r
<1>8. Len(c) + Len(b) = Len(q) + 1
  BY <1>1, <1>4, <1>6
<1>9. ASSUME NEW j \in 1 .. Len(q) + 1
      PROVE  r[j] = IF j < i THEN q[j] ELSE IF j = i THEN t ELSE q[j - 1]
  <2>1. CASE j <= i
    BY <1>1, <1>6, <1>7, <1>8, <2>1
  <2>2. CASE j > i
    <3>1. j - i \in 1 .. Len(q) - i + 1 /\ i + (j - i) - 1 = j - 1
      BY <1>1, <2>2
    <3>2. r[j] = b[j - i]
      BY <1>1, <1>6, <1>7, <1>8, <2>2
    <3> QED BY <1>1, <1>4, <2>2, <3>1, <3>2
  <2> QED BY <1>1, <2>1, <2>2
<1>10. AddsPlace(r, q, i, t)
  BY <1>7, <1>8, <1>9 DEF AddsPlace
<1> QED BY <1>2, <1>7, <1>10

\* A task put before a place of the queue.
LEMMA InsertAtList ==
  ASSUME NEW q, NEW S, Lists(q, S), NEW t, t \notin S, NEW i \in 1 .. Len(q)
  PROVE  Lists(InsertAt(q, i, t), S \cup {t})
<1> DEFINE T == S \cup {t}
           r == InsertAt(q, i, t)
<1>1. /\ Len(q) \in Nat /\ \A j \in 1 .. Len(q) : q[j] \in S
      /\ \A j, k \in 1 .. Len(q) : q[j] = q[k] => j = k
      /\ \A x \in S : \E j \in 1 .. Len(q) : q[j] = x
  BY ListsPlaces
<1>2. q \in Seq(T) /\ t \in T
  <2>1. q \in Seq(S) /\ S \subseteq T
    BY DEF Lists
  <2> QED BY <2>1, SeqMonotonic
<1> HIDE DEF T
<1>3. r \in Seq(T) /\ AddsPlace(r, q, i, t)
  BY <1>2, InsertAtPlaces
<1> HIDE DEF r
<1>4. /\ r \in Seq(T) /\ Len(r) = Len(q) + 1
      /\ \A j \in 1 .. Len(q) + 1 :
           r[j] = IF j < i THEN q[j] ELSE IF j = i THEN t ELSE q[j - 1]
  BY <1>3 DEF AddsPlace
<1>5. \A j \in 1 .. Len(q) + 1 : j # i =>
        \E k \in 1 .. Len(q) : r[j] = q[k] /\ k = IF j < i THEN j ELSE j - 1
  BY <1>1, <1>4
<1>6. r[i] = t
  BY <1>1, <1>4
<1>7. \A j, k \in 1 .. Len(r) : r[j] = r[k] => j = k
  <2> SUFFICES ASSUME NEW j \in 1 .. Len(q) + 1, NEW k \in 1 .. Len(q) + 1, r[j] = r[k]
               PROVE  j = k
    BY <1>4
  <2>1. CASE j = i \/ k = i
    BY <1>1, <1>5, <1>6, <2>1
  <2>2. CASE j # i /\ k # i
    <3>1. (IF j < i THEN j ELSE j - 1) = (IF k < i THEN k ELSE k - 1)
      BY <1>1, <1>5, <2>2
    <3> QED BY <1>1, <2>2, <3>1
  <2> QED BY <2>1, <2>2
<1>8. ASSUME NEW x \in T PROVE \E j \in 1 .. Len(r) : r[j] = x
  <2>1. CASE x = t
    BY <1>1, <1>4, <1>6, <2>1
  <2>2. CASE x \in S
    <3>1. PICK k \in 1 .. Len(q) : q[k] = x
      BY <1>1, <2>2
    <3>2. CASE k < i
      <4>1. k \in 1 .. Len(q) + 1 /\ r[k] = x
        BY <1>1, <1>4, <3>1, <3>2
      <4> QED BY <1>4, <4>1
    <3>3. CASE k >= i
      <4>1. k + 1 \in 1 .. Len(q) + 1 /\ k + 1 # i /\ ~(k + 1 < i) /\ k + 1 - 1 = k
        BY <1>1, <3>1, <3>3
      <4>2. r[k + 1] = x
        BY <1>4, <3>1, <4>1
      <4> QED BY <1>4, <4>1, <4>2
    <3> QED BY <1>1, <3>2, <3>3
  <2> QED BY <2>1, <2>2 DEF T
<1>9. Lists(r, T)
  BY <1>4, <1>7, <1>8, PlacesList
<1> QED BY <1>9 DEF r, T

\* A non-empty set of naturals has a least element.
LEMMA NatMin ==
  ASSUME NEW S \in SUBSET Nat, S # {}
  PROVE  \E x \in S : \A y \in S : x <= y
<1>1. PICK x \in S : \A y \in S : ~(<<y, x>> \in OpToRel(<, Nat))
  BY NatLessThanWellFounded, WFMin, Zenon
<1>2. \A y \in S : ~(y < x)
  BY <1>1 DEF OpToRel
<1> QED BY <1>2

\* Min is that element.
LEMMA MinOfNats ==
  ASSUME NEW S \in SUBSET Nat, S # {}
  PROVE  Min(S) \in S /\ \A y \in S : Min(S) <= y
BY NatMin DEF Min

\* Insertion by priority adds a task.
LEMMA InsertList ==
  ASSUME NEW q, NEW S, Lists(q, S), NEW t, t \notin S, NEW pri
  PROVE  Lists(queue_insert_tpri(q, t, pri), S \cup {t})
<1> DEFINE I == {j \in 1 .. Len(q) : pri[q[j]] > pri[t]}
           i == IF I # {} THEN Min(I) ELSE 0
<1>1. queue_insert_tpri(q, t, pri) = IF i = 0 THEN Append(q, t) ELSE InsertAt(q, i, t)
  BY DEF queue_insert_tpri, SelectInSeq
<1>2. i = 0 \/ i \in 1 .. Len(q)
  <2>1. I \in SUBSET Nat /\ I \subseteq 1 .. Len(q)
    BY ListsPlaces
  <2> HIDE DEF I
  <2> QED BY <2>1, MinOfNats
<1> HIDE DEF i
<1>3. CASE i = 0
  BY <1>1, <1>3, AppendList
<1>4. CASE i \in 1 .. Len(q)
  <2>1. i # 0
    BY <1>4
  <2>2. Lists(InsertAt(q, i, t), S \cup {t})
    BY <1>4, InsertAtList
  <2> QED BY <1>1, <2>1, <2>2
<1> QED BY <1>2, <1>3, <1>4
---------------------------------------------------------------------------

\* The tasks of q come in the order of pri.
InOrder(q, pri) ==
  \A i, j \in 1 .. Len(q) : i < j => pri[q[i]] <= pri[q[j]]

\* r is q with some of its places left out.
Thins(r, q) ==
  \A i, j \in 1 .. Len(r) : i < j =>
    \E k, l \in 1 .. Len(q) : k < l /\ r[i] = q[k] /\ r[j] = q[l]

\* What remains of an ordered queue is ordered.
LEMMA ThinsOrder ==
  ASSUME NEW q, NEW r, NEW pri, Thins(r, q), InOrder(q, pri)
  PROVE  InOrder(r, pri)
BY DEF Thins, InOrder

\* The order only depends on the priorities of the tasks listed.
LEMMA SameOrder ==
  ASSUME NEW q, NEW S, Lists(q, S), NEW pri, InOrder(q, pri),
         NEW new, \A x \in S : new[x] = pri[x]
  PROVE  InOrder(q, new)
<1>1. \A i \in 1 .. Len(q) : new[q[i]] = pri[q[i]]
  BY ListsPlaces
<1> QED BY <1>1 DEF InOrder

\* QueRemove leaves out at most one place.
LEMMA RemoveThins ==
  ASSUME NEW q, NEW S, Lists(q, S), NEW t
  PROVE  Thins(QueRemove(q, t), q)
<1> DEFINE I == {j \in 1 .. Len(q) : q[j] = t}
<1>1. CASE I = {}
  <2>1. QueRemove(q, t) = q
    BY <1>1 DEF QueRemove, RemoveFirst
  <2> QED BY <2>1 DEF Thins
<1>2. CASE I # {}
  <2>1. Min(I) \in 1 .. Len(q)
    <3>1. I \in SUBSET Nat /\ I \subseteq 1 .. Len(q)
      BY ListsPlaces
    <3> HIDE DEF I
    <3> QED BY <1>2, <3>1, MinOfNats
  <2>2. QueRemove(q, t) = RemoveAt(q, Min(I))
    BY <1>2 DEF QueRemove, RemoveFirst, SelectInSeq
  <2> HIDE DEF I
  <2>3. PICK i : i = Min(I)
    OBVIOUS
  <2>4. PICK r : r = RemoveAt(q, i)
    OBVIOUS
  <2>5. i \in 1 .. Len(q) /\ Len(q) \in Nat /\ q \in Seq(S)
    BY <2>1, <2>3, ListsPlaces
  <2>6. SkipsPlace(r, q, i)
    BY <2>4, <2>5, RemoveAtPlaces
  <2>7. ASSUME NEW j \in 1 .. Len(r)
        PROVE  \E k \in 1 .. Len(q) : r[j] = q[k] /\ k = IF j < i THEN j ELSE j + 1
    <3>1. j \in 1 .. Len(q) - 1 /\ Len(r) = Len(q) - 1
      BY <2>6 DEF SkipsPlace
    <3>2. r[j] = IF j < i THEN q[j] ELSE q[j + 1]
      BY <2>6, <3>1 DEF SkipsPlace
    <3> QED BY <2>5, <3>1, <3>2
  <2>8. ASSUME NEW j \in 1 .. Len(r), NEW m \in 1 .. Len(r), j < m
        PROVE  \E k, l \in 1 .. Len(q) : k < l /\ r[j] = q[k] /\ r[m] = q[l]
    <3>1. PICK k \in 1 .. Len(q) : r[j] = q[k] /\ k = IF j < i THEN j ELSE j + 1
      BY <2>7
    <3>2. PICK l \in 1 .. Len(q) : r[m] = q[l] /\ l = IF m < i THEN m ELSE m + 1
      BY <2>7
    <3>3. k < l
      BY <2>5, <2>8, <3>1, <3>2
    <3> QED BY <3>1, <3>2, <3>3
  <2>9. Thins(r, q)
    BY <2>8 DEF Thins
  <2> QED BY <2>2, <2>3, <2>4, <2>9
<1> QED BY <1>1, <1>2

\* QueRemove keeps the order of the others.
LEMMA RemoveOrder ==
  ASSUME NEW q, NEW S, Lists(q, S), NEW t, NEW pri, InOrder(q, pri)
  PROVE  InOrder(QueRemove(q, t), pri)
<1>1. Thins(QueRemove(q, t), q)
  BY RemoveThins
<1> QED BY <1>1, ThinsOrder

\* Insertion by priority keeps the order.
LEMMA InsertOrder ==
  ASSUME NEW q, NEW S, Lists(q, S), NEW t, NEW pri, InOrder(q, pri),
         pri[t] \in Int, \A x \in S : pri[x] \in Int
  PROVE  InOrder(queue_insert_tpri(q, t, pri), pri)
<1> DEFINE I == {j \in 1 .. Len(q) : pri[q[j]] > pri[t]}
           i == IF I # {} THEN Min(I) ELSE 0
<1>1. queue_insert_tpri(q, t, pri) = IF i = 0 THEN Append(q, t) ELSE InsertAt(q, i, t)
  BY DEF queue_insert_tpri, SelectInSeq
<1>2. /\ q \in Seq(S) /\ Len(q) \in Nat
      /\ \A j \in 1 .. Len(q) : q[j] \in S /\ pri[q[j]] \in Int
  BY ListsPlaces
<1>3. q \in Seq(S \cup {t}) /\ t \in S \cup {t}
  BY <1>2, SeqMonotonic
<1>4. CASE I = {}
  <2>1. queue_insert_tpri(q, t, pri) = Append(q, t)
    BY <1>1, <1>4
  <2>2. \A j \in 1 .. Len(q) : ~(pri[q[j]] > pri[t])
    BY <1>4
  <2>3. \A j \in 1 .. Len(q) : pri[q[j]] <= pri[t]
    BY <1>2, <2>2
  <2> HIDE DEF I, i
  <2>4. PICK r : r = Append(q, t)
    OBVIOUS
  <2>5. /\ Len(r) = Len(q) + 1
        /\ \A j \in 1 .. Len(q) : r[j] = q[j]
        /\ r[Len(q) + 1] = t
    BY <1>3, <2>4, AppendProperties
  <2>6. ASSUME NEW j \in 1 .. Len(r), NEW k \in 1 .. Len(r), j < k
        PROVE  pri[r[j]] <= pri[r[k]]
    <3>1. j \in 1 .. Len(q) /\ r[j] = q[j]
      BY <1>2, <2>5, <2>6
    <3>2. CASE k = Len(q) + 1
      BY <2>3, <2>5, <3>1, <3>2
    <3>3. CASE k # Len(q) + 1
      <4>1. k \in 1 .. Len(q) /\ r[k] = q[k]
        BY <1>2, <2>5, <3>3
      <4> QED BY <2>6, <3>1, <4>1 DEF InOrder
    <3> QED BY <3>2, <3>3
  <2>7. InOrder(r, pri)
    BY <2>6 DEF InOrder
  <2> QED BY <2>1, <2>4, <2>7
<1>5. CASE I # {}
  <2>1. I \in SUBSET Nat /\ I \subseteq 1 .. Len(q)
    BY <1>2
  <2>2. Min(I) \in I /\ \A y \in I : Min(I) <= y
    <3> HIDE DEF I
    <3> QED BY <1>5, <2>1, MinOfNats
  <2>3. PICK p : p = Min(I)
    OBVIOUS
  <2>4. p \in 1 .. Len(q) /\ pri[q[p]] > pri[t]
    BY <2>2, <2>3
  <2>5. ASSUME NEW j \in 1 .. Len(q), j < p PROVE pri[q[j]] <= pri[t]
    <3>1. ~(p <= j)
      BY <1>2, <2>4, <2>5
    <3>2. j \notin I
      BY <2>2, <2>3, <3>1
    <3>3. ~(pri[q[j]] > pri[t])
      BY <3>2
    <3> QED BY <1>2, <3>3
  <2>6. queue_insert_tpri(q, t, pri) = InsertAt(q, p, t)
    <3>1. p # 0
      BY <1>2, <2>4
    <3> QED BY <1>1, <1>5, <2>3, <3>1
  <2> HIDE DEF I, i
  <2>7. PICK r : r = InsertAt(q, p, t)
    OBVIOUS
  <2>8. AddsPlace(r, q, p, t)
    BY <1>3, <2>4, <2>7, InsertAtPlaces
  <2>9. /\ Len(r) = Len(q) + 1
        /\ \A j \in 1 .. Len(q) + 1 :
             r[j] = IF j < p THEN q[j] ELSE IF j = p THEN t ELSE q[j - 1]
    BY <2>8 DEF AddsPlace
  <2>10. ASSUME NEW j \in p .. Len(q) PROVE pri[t] <= pri[q[j]]
    <3>1. j \in 1 .. Len(q)
      BY <1>2, <2>4
    <3>2. pri[q[p]] <= pri[q[j]]
      <4>1. j = p \/ p < j
        BY <1>2, <2>4
      <4> QED BY <1>2, <2>4, <3>1, <4>1 DEF InOrder
    <3> QED BY <1>2, <2>4, <3>1, <3>2
  <2>11. ASSUME NEW j \in 1 .. Len(r), NEW k \in 1 .. Len(r), j < k
         PROVE  pri[r[j]] <= pri[r[k]]
    <3>1. j \in 1 .. Len(q) + 1 /\ k \in 1 .. Len(q) + 1
      BY <2>9
    <3>2. CASE k < p
      <4>1. /\ j \in 1 .. Len(q) /\ k \in 1 .. Len(q)
            /\ r[j] = q[j] /\ r[k] = q[k]
        BY <1>2, <2>4, <2>9, <2>11, <3>1, <3>2
      <4> QED BY <2>11, <4>1 DEF InOrder
    <3>3. CASE k = p
      <4>1. j < p /\ j \in 1 .. Len(q) /\ r[j] = q[j] /\ r[k] = t
        BY <1>2, <2>4, <2>9, <2>11, <3>1, <3>3
      <4> QED BY <2>5, <4>1
    <3>4. CASE k > p
      <4>1. k - 1 \in p .. Len(q) /\ k - 1 \in 1 .. Len(q) /\ r[k] = q[k - 1]
        BY <1>2, <2>4, <2>9, <3>1, <3>4
      <4>2. CASE j < p
        <5>1. j \in 1 .. Len(q) /\ r[j] = q[j] /\ j < k - 1
          BY <1>2, <2>4, <2>9, <3>1, <3>4, <4>2
        <5> QED BY <4>1, <5>1 DEF InOrder
      <4>3. CASE j = p
        <5>1. r[j] = t
          BY <2>9, <3>1, <4>3
        <5> QED BY <2>10, <4>1, <5>1
      <4>4. CASE j > p
        <5>1. j - 1 \in 1 .. Len(q) /\ r[j] = q[j - 1] /\ j - 1 < k - 1
          BY <1>2, <2>4, <2>9, <2>11, <3>1, <4>4
        <5> QED BY <4>1, <5>1 DEF InOrder
      <4> QED BY <1>2, <2>4, <3>1, <4>2, <4>3, <4>4
    <3> QED BY <1>2, <2>4, <3>1, <3>2, <3>3, <3>4
  <2>12. InOrder(r, pri)
    BY <2>11 DEF InOrder
  <2> QED BY <2>6, <2>7, <2>12
<1> QED BY <1>4, <1>5

\* r is q without its first n places.
Follows(r, q, n) ==
  /\ Len(r) = Len(q) - n
  /\ \A j \in 1 .. Len(q) - n : r[j] = q[n + j]

\* The rest of a queue follows its first places.
LEMMA FollowsPlaces ==
  ASSUME NEW T, NEW q \in Seq(T), NEW n \in 0 .. Len(q)
  PROVE  /\ SubSeq(q, n + 1, Len(q)) \in Seq(T)
         /\ Follows(SubSeq(q, n + 1, Len(q)), q, n)
<1>1. Len(q) \in Nat /\ \A j \in 1 .. Len(q) : q[j] \in T
  BY LenProperties, ElementOfSeq
<1>2. n \in Nat /\ n + 1 \in Int /\ Len(q) \in Int /\ (\A j \in n + 1 .. Len(q) : q[j] \in T)
  BY <1>1
<1>3. PICK r : r = SubSeq(q, n + 1, Len(q))
  OBVIOUS
<1>4. /\ r \in Seq(T)
      /\ Len(r) = IF n + 1 <= Len(q) THEN Len(q) - (n + 1) + 1 ELSE 0
      /\ \A j \in 1 .. Len(q) - (n + 1) + 1 : r[j] = q[(n + 1) + j - 1]
  BY <1>2, <1>3, SubSeqProperties
<1>5. Len(r) = Len(q) - n
  <2>1. Len(r) = IF n + 1 <= Len(q) THEN Len(q) - (n + 1) + 1 ELSE 0
    BY <1>4
  <2> QED BY <1>1, <1>2, <2>1
<1>6. ASSUME NEW j \in 1 .. Len(q) - n PROVE r[j] = q[n + j]
  <2>1. j \in 1 .. Len(q) - (n + 1) + 1 /\ (n + 1) + j - 1 = n + j
    BY <1>1, <1>2
  <2> QED BY <1>4, <2>1
<1>7. Follows(r, q, n)
  BY <1>5, <1>6 DEF Follows
<1> QED BY <1>3, <1>4, <1>7

\* The elements of the first n places of a queue.
FirstOf(q, n) == {q[i] : i \in 1 .. n}

\* The rest of a queue lists what is not before it.
LEMMA RestList ==
  ASSUME NEW q, NEW S, Lists(q, S), NEW n \in 0 .. Len(q)
  PROVE  Lists(SubSeq(q, n + 1, Len(q)), S \ FirstOf(q, n))
<1>1. /\ q \in Seq(S) /\ Len(q) \in Nat /\ \A i \in 1 .. Len(q) : q[i] \in S
      /\ \A i, j \in 1 .. Len(q) : q[i] = q[j] => i = j
      /\ \A x \in S : \E i \in 1 .. Len(q) : q[i] = x
  BY ListsPlaces
<1>2. PICK r : r = SubSeq(q, n + 1, Len(q))
  OBVIOUS
<1>3. r \in Seq(S) /\ Follows(r, q, n)
  BY <1>1, <1>2, FollowsPlaces
<1>4. Len(r) = Len(q) - n /\ n \in Nat /\ n <= Len(q)
  BY <1>1, <1>3 DEF Follows
<1>5. ASSUME NEW j \in 1 .. Len(r)
      PROVE  n + j \in 1 .. Len(q) /\ r[j] = q[n + j] /\ n + j \notin 1 .. n
  BY <1>1, <1>3, <1>4 DEF Follows
<1>6. ASSUME NEW i \in 1 .. Len(r), NEW j \in 1 .. Len(r), r[i] = r[j]
      PROVE  i = j
  <2>1. n + i = n + j
    BY <1>1, <1>5, <1>6
  <2> QED BY <1>4, <2>1
<1>7. ASSUME NEW j \in 1 .. Len(r) PROVE r[j] \in S \ FirstOf(q, n)
  <2>1. n + j \in 1 .. Len(q) /\ r[j] = q[n + j] /\ n + j \notin 1 .. n
    BY <1>5
  <2>2. ASSUME NEW i \in 1 .. n PROVE r[j] # q[i]
    <3>1. Len(q) \in Nat
      BY <1>1
    <3>2. i \in 1 .. Len(q)
      BY <1>4, <3>1
    <3>3. i # n + j
      BY <2>1
    <3> QED BY <1>1, <2>1, <3>2, <3>3
  <2> QED BY <1>1, <2>1, <2>2 DEF FirstOf
<1>8. ASSUME NEW x \in S \ FirstOf(q, n) PROVE \E j \in 1 .. Len(r) : r[j] = x
  <2>1. PICK i \in 1 .. Len(q) : q[i] = x
    BY <1>1
  <2>2. i \notin 1 .. n
    BY <2>1 DEF FirstOf
  <2>3. i - n \in 1 .. Len(r) /\ n + (i - n) = i
    BY <1>1, <1>4, <2>2
  <2>4. r[i - n] = q[i]
    BY <1>5, <2>3
  <2> QED BY <2>1, <2>3, <2>4
<1>9. r \in Seq(S \ FirstOf(q, n))
  <2>1. Len(r) \in Nat /\ r = [j \in 1 .. Len(r) |-> r[j]]
    BY <1>3, LenProperties
  <2> QED BY <1>7, <2>1, IsASeq
<1>10. Lists(r, S \ FirstOf(q, n))
  BY <1>6, <1>8, <1>9, PlacesList
<1> QED BY <1>2, <1>10

\* The rest of an ordered queue is ordered.
LEMMA RestOrder ==
  ASSUME NEW q, NEW S, Lists(q, S), NEW n \in 0 .. Len(q), NEW pri, InOrder(q, pri)
  PROVE  InOrder(SubSeq(q, n + 1, Len(q)), pri)
<1>1. q \in Seq(S) /\ Len(q) \in Nat
  BY ListsPlaces
<1>2. PICK r : r = SubSeq(q, n + 1, Len(q))
  OBVIOUS
<1>3. Follows(r, q, n)
  BY <1>1, <1>2, FollowsPlaces
<1>4. Len(r) = Len(q) - n /\ n \in Nat /\ n <= Len(q)
  BY <1>1, <1>3 DEF Follows
<1>5. ASSUME NEW j \in 1 .. Len(r) PROVE n + j \in 1 .. Len(q) /\ r[j] = q[n + j]
  BY <1>1, <1>3, <1>4 DEF Follows
<1>6. ASSUME NEW i \in 1 .. Len(r), NEW j \in 1 .. Len(r), i < j
      PROVE  pri[r[i]] <= pri[r[j]]
  <2>1. n + i < n + j
    BY <1>4, <1>6
  <2>2. /\ n + i \in 1 .. Len(q) /\ r[i] = q[n + i]
        /\ n + j \in 1 .. Len(q) /\ r[j] = q[n + j]
    BY <1>5
  <2> QED BY <2>1, <2>2 DEF InOrder
<1>7. InOrder(r, pri)
  BY <1>6 DEF InOrder
<1> QED BY <1>2, <1>7
=============================================================================

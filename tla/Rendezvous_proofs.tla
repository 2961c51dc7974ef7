-------------------------- MODULE Rendezvous_proofs --------------------------
(***************************************************************************)
(* A rendezvous number names one rendezvous, the queues of a port hold     *)
(* those who wait at it and no matching pair, and a call keeps its terms:  *)
(* for any number of tasks, ports, bits and rendezvous numbers.            *)
(***************************************************************************)
EXTENDS Rendezvous, WaitQueue_proofs

Factors == {"CAL", "ACP", "RDV"}
Numbers == 0 .. RDVNO_MOD - 1

PORCBs == [ porid : BOOLEAN, tpri : BOOLEAN, nodiswai : BOOLEAN, maxrmsz : Nat,
            call_queue : Seq(Tasks), accept_queue : Seq(Tasks) ]

RdvTypes ==
  /\ waitmask \in [Tasks -> SUBSET Factors]
  /\ winfo \in [Tasks -> WINFO \cup {NoInfo}]
  /\ por \in [Ports -> PORCBs]

(***************************************************************************)
(* The numbers.  A known number lies as many rendezvous of its task behind *)
(* the next one as its age says, and that is how numbers are told apart    *)
(* although they wrap around; a live one is the last one.                  *)
(***************************************************************************)

\* The number of the rendezvous the end of which t waits for.
NumberOf(t) == IF Waits(t, "RDV") THEN {winfo[t].rdvno} ELSE {}

Known == [tskid : Tasks, rdvno : Numbers, age : Numbers, live : BOOLEAN]

Behind(e) == \/ e.rdvno + e.age + 1 = wrdvno[e.tskid]
             \/ e.rdvno + e.age + 1 = wrdvno[e.tskid] + RDVNO_MOD

NumbersInv ==
  /\ wrdvno \in [Tasks -> Numbers]
  /\ known \subseteq Known
  /\ \A e \in known : Behind(e)
  /\ \A e, f \in known : e.tskid = f.tskid /\ e.age = f.age => (e.live <=> f.live)
  /\ \A e \in known : e.live => e.age = 0 /\ NumberOf(e.tskid) = {e.rdvno}
  /\ \A t \in Tasks : NumberOf(t) # {} => \E e \in known : e.tskid = t /\ e.live

(***************************************************************************)
(* The ports.                                                              *)
(***************************************************************************)
Callers(p)   == {t \in Tasks : Waits(t, "CAL") /\ winfo[t].wid = p}
Acceptors(p) == {t \in Tasks : Waits(t, "ACP") /\ winfo[t].wid = p}

QueuesInv ==
  \A p \in Ports :
    /\ Lists(por[p].call_queue, Callers(p))
    /\ Lists(por[p].accept_queue, Acceptors(p))
    /\ ~por[p].porid => Callers(p) = {} /\ Acceptors(p) = {}

MatchInv ==
  \A p \in Ports : \A c \in Callers(p), a \in Acceptors(p) : winfo[c].ptn \cap winfo[a].ptn = {}

\* The terms of a wait are those of its port until the call is accepted.
Terms(t) ==
  /\ winfo[t] # NoInfo /\ winfo[t].tskwait \in waitmask[t] => winfo[t].nodiswai
  /\ Waits(t, "CAL") => /\ winfo[t].nodiswai = por[winfo[t].wid].nodiswai
                        /\ por[winfo[t].wid].maxrmsz <= winfo[t].room
  /\ Waits(t, "ACP") => winfo[t].nodiswai = por[winfo[t].wid].nodiswai
  /\ Waits(t, "RDV") => winfo[t].maxrmsz <= winfo[t].room

TermsInv == \A t \in Tasks : Terms(t)

PortsInv == RdvTypes /\ QueuesInv /\ MatchInv /\ TermsInv

RdvInv == NumbersInv /\ PortsInv

---------------------------------------------------------------------------
(* The numbers. *)

\* The number that follows n.
LEMMA NextNumber ==
  ASSUME NEW n \in Numbers
  PROVE  (n + 1) % RDVNO_MOD = IF n + 1 = RDVNO_MOD THEN 0 ELSE n + 1
<1>1. RDVNO_MOD \in Nat \ {0} /\ n \in 0 .. RDVNO_MOD - 1
  BY RdvAssumption DEF Numbers
<1>2. CASE n + 1 = RDVNO_MOD
  BY <1>1, <1>2
<1>3. CASE n + 1 # RDVNO_MOD
  BY <1>1, <1>3
<1> QED BY <1>2, <1>3

\* Where the number no lies when i others came after it.
LEMMA BehindMoves ==
  ASSUME NEW no \in Numbers, NEW i \in Numbers, NEW w \in Numbers,
         no + i + 1 = w \/ no + i + 1 = w + RDVNO_MOD
  PROVE  /\ \/ no + (i + 1) + 1 = w + 1
            \/ no + (i + 1) + 1 = w + 1 + RDVNO_MOD
         /\ no + 1 = w \/ no + 1 = w + RDVNO_MOD => i = 0
<1>1. /\ RDVNO_MOD \in Int /\ no \in Int /\ i \in Int /\ w \in Int
      /\ 0 <= no /\ 0 <= i /\ 0 <= w
      /\ no <= RDVNO_MOD - 1 /\ i <= RDVNO_MOD - 1 /\ w <= RDVNO_MOD - 1
  BY RdvAssumption DEF Numbers
<1>2. \/ no + (i + 1) + 1 = w + 1
      \/ no + (i + 1) + 1 = w + 1 + RDVNO_MOD
  BY <1>1
<1>3. ASSUME no + 1 = w PROVE i = 0
  BY <1>1, <1>3
<1>4. ASSUME no + 1 = w + RDVNO_MOD PROVE i = 0
  BY <1>1, <1>4
<1> QED BY <1>2, <1>3, <1>4

\* stale takes the life of the numbers of one task and changes nothing else.
LEMMA StaleElements ==
  ASSUME NEW K \in SUBSET Known, NEW t \in Tasks
  PROVE  /\ \A x \in stale(K, t) : \E e \in K :
              /\ x \in Known
              /\ x.tskid = e.tskid /\ x.rdvno = e.rdvno /\ x.age = e.age
              /\ x.live <=> e.live /\ e.tskid # t
         /\ \A e \in K : e.tskid # t => e \in stale(K, t)
<1> DEFINE dead(e) == [e EXCEPT !.live = @ /\ e.tskid # t]
<1>1. ASSUME NEW e \in K
      PROVE  /\ dead(e) \in Known
             /\ dead(e).tskid = e.tskid /\ dead(e).rdvno = e.rdvno /\ dead(e).age = e.age
             /\ dead(e).live <=> e.live /\ e.tskid # t
             /\ e.tskid # t => dead(e) = e
  <2> DEFINE b == e.live /\ e.tskid # t
  <2>1. b \in BOOLEAN /\ (b <=> e.live /\ e.tskid # t) /\ dead(e) = [e EXCEPT !.live = b]
    OBVIOUS
  <2>2. e.tskid # t => b = e.live
    <3>1. e.live \in BOOLEAN
      BY DEF Known
    <3> QED BY <3>1
  <2> HIDE DEF b
  <2>3. e \in Known
    OBVIOUS
  <2>4. /\ [e EXCEPT !.live = b] \in Known
        /\ [e EXCEPT !.live = b].tskid = e.tskid /\ [e EXCEPT !.live = b].rdvno = e.rdvno
        /\ [e EXCEPT !.live = b].age = e.age /\ [e EXCEPT !.live = b].live = b
        /\ b = e.live => [e EXCEPT !.live = b] = e
    BY <2>1, <2>3 DEF Known
  <2> QED BY <2>1, <2>2, <2>4
<1>2. stale(K, t) = {dead(e) : e \in K}
  BY DEF stale
<1> HIDE DEF dead
<1> QED BY <1>1, <1>2

\* learned ages the numbers of one task, forgets the oldest and adds one.
LEMMA LearnedElements ==
  ASSUME NEW K \in SUBSET Known, NEW t \in Tasks, NEW b \in BOOLEAN, wrdvno[t] \in Numbers
  PROVE  /\ \A x \in learned(K, t, b) :
              \/ x = [tskid |-> t, rdvno |-> wrdvno[t], age |-> 0, live |-> b]
              \/ \E e \in K :
                   /\ x \in Known
                   /\ x.tskid = e.tskid /\ x.rdvno = e.rdvno
                   /\ e.tskid = t => x.age = e.age + 1
                   /\ e.tskid # t => x.age = e.age
                   /\ x.live <=> e.live /\ e.tskid # t
         /\ [tskid |-> t, rdvno |-> wrdvno[t], age |-> 0, live |-> b] \in learned(K, t, b)
         /\ \A e \in K : e.tskid # t => e \in learned(K, t, b)
<1> DEFINE old == {f \in stale(K, t) : ~(f.tskid = t /\ f.age = RDVNO_MOD - 1)}
           older(e) == [e EXCEPT !.age = IF e.tskid = t THEN @ + 1 ELSE @]
           new == [tskid |-> t, rdvno |-> wrdvno[t], age |-> 0, live |-> b]
<1>1. learned(K, t, b) = {older(e) : e \in old} \cup {new}
  BY DEF learned
<1>2. ASSUME NEW f \in old
      PROVE  /\ older(f) \in Known
             /\ older(f).tskid = f.tskid /\ older(f).rdvno = f.rdvno
             /\ older(f).live = f.live
             /\ f.tskid = t => older(f).age = f.age + 1
             /\ f.tskid # t => older(f).age = f.age /\ older(f) = f
  <2>1. f \in Known /\ ~(f.tskid = t /\ f.age = RDVNO_MOD - 1)
    BY StaleElements
  <2>2. RDVNO_MOD \in Nat \ {0}
    BY RdvAssumption
  <2>3. CASE f.tskid = t
    <3>1. f.age + 1 \in Numbers
      BY <2>1, <2>2, <2>3 DEF Known, Numbers
    <3>2. older(f) = [f EXCEPT !.age = f.age + 1]
      BY <2>3
    <3> QED BY <2>1, <2>3, <3>1, <3>2 DEF Known
  <2>4. CASE f.tskid # t
    <3>1. older(f) = f
      BY <2>1, <2>4 DEF Known
    <3> QED BY <2>1, <2>4, <3>1
  <2> QED BY <2>3, <2>4
<1> HIDE DEF older, new
<1>3. ASSUME NEW x \in learned(K, t, b), x # new
      PROVE  \E e \in K : /\ x \in Known
                          /\ x.tskid = e.tskid /\ x.rdvno = e.rdvno
                          /\ e.tskid = t => x.age = e.age + 1
                          /\ e.tskid # t => x.age = e.age
                          /\ x.live <=> e.live /\ e.tskid # t
  <2>1. PICK f \in old : x = older(f)
    BY <1>1, <1>3
  <2>2. PICK e \in K : /\ f.tskid = e.tskid /\ f.rdvno = e.rdvno /\ f.age = e.age
                       /\ f.live <=> e.live /\ e.tskid # t
    BY StaleElements
  <2> QED BY <1>2, <2>1, <2>2
<1>4. ASSUME NEW e \in K, e.tskid # t PROVE e \in learned(K, t, b)
  <2>1. e \in old
    BY <1>4, StaleElements
  <2>2. older(e) = e
    BY <1>2, <1>4, <2>1
  <2> QED BY <1>1, <2>1, <2>2
<1>5. new \in learned(K, t, b)
  BY <1>1
<1> QED BY <1>3, <1>4, <1>5 DEF new

\* A step that no number is about.
LEMMA NumbersSame ==
  ASSUME NumbersInv, UNCHANGED <<wrdvno, known>>,
         \A t \in Tasks : NumberOf(t)' = NumberOf(t)
  PROVE  NumbersInv'
BY DEF NumbersInv, Behind, Known

\* The end of a wait, or a wait for something else.
LEMMA NumbersStale ==
  ASSUME NumbersInv, NEW t \in Tasks, wrdvno' = wrdvno, known' = stale(known, t),
         NumberOf(t)' = {}, \A u \in Tasks \ {t} : NumberOf(u)' = NumberOf(u)
  PROVE  NumbersInv'
<1>1. /\ wrdvno \in [Tasks -> Numbers] /\ known \in SUBSET Known
      /\ \A e \in known : Behind(e)
      /\ \A e, f \in known : e.tskid = f.tskid /\ e.age = f.age => (e.live <=> f.live)
      /\ \A e \in known : e.live => e.age = 0 /\ NumberOf(e.tskid) = {e.rdvno}
      /\ \A u \in Tasks : NumberOf(u) # {} => \E e \in known : e.tskid = u /\ e.live
  BY DEF NumbersInv
<1>2. /\ \A x \in known' : \E e \in known :
           /\ x \in Known
           /\ x.tskid = e.tskid /\ x.rdvno = e.rdvno /\ x.age = e.age
           /\ x.live <=> e.live /\ e.tskid # t
      /\ \A e \in known : e.tskid # t => e \in known'
  BY <1>1, StaleElements
<1>3. \A x \in known' : Behind(x)'
  BY <1>1, <1>2 DEF Behind
<1>4. \A x, y \in known' : x.tskid = y.tskid /\ x.age = y.age => (x.live <=> y.live)
  BY <1>1, <1>2
<1>5. \A x \in known' : x.live => x.age = 0 /\ NumberOf(x.tskid)' = {x.rdvno}
  <2> SUFFICES ASSUME NEW x \in known', x.live
               PROVE  x.age = 0 /\ NumberOf(x.tskid)' = {x.rdvno}
    OBVIOUS
  <2>1. PICK e \in known : /\ x.tskid = e.tskid /\ x.rdvno = e.rdvno /\ x.age = e.age
                           /\ e.live /\ e.tskid # t
    BY <1>2
  <2>2. e.tskid \in Tasks \ {t}
    BY <1>1, <2>1 DEF Known
  <2> QED BY <1>1, <2>1, <2>2
<1>6. \A u \in Tasks : NumberOf(u)' # {} => \E x \in known' : x.tskid = u /\ x.live
  BY <1>1, <1>2
<1> QED BY <1>1, <1>2, <1>3, <1>4, <1>5, <1>6 DEF NumbersInv

\* The accept of a call of t; it goes on if b.
LEMMA NumbersLearned ==
  ASSUME NumbersInv, NEW t \in Tasks, NEW b \in BOOLEAN, gen_rdvno(t),
         known' = learned(known, t, b),
         NumberOf(t)' = IF b THEN {wrdvno[t]} ELSE {},
         \A u \in Tasks \ {t} : NumberOf(u)' = NumberOf(u)
  PROVE  NumbersInv'
<1> DEFINE w == wrdvno[t]
           new == [tskid |-> t, rdvno |-> w, age |-> 0, live |-> b]
<1>0. RDVNO_MOD \in Nat \ {0} /\ Numbers = 0 .. RDVNO_MOD - 1
  BY RdvAssumption DEF Numbers
<1>1. /\ wrdvno \in [Tasks -> Numbers] /\ known \in SUBSET Known
      /\ \A e \in known : Behind(e)
      /\ \A e, f \in known : e.tskid = f.tskid /\ e.age = f.age => (e.live <=> f.live)
      /\ \A e \in known : e.live => e.age = 0 /\ NumberOf(e.tskid) = {e.rdvno}
      /\ \A u \in Tasks : NumberOf(u) # {} => \E e \in known : e.tskid = u /\ e.live
  BY DEF NumbersInv
<1>2. w \in Numbers /\ new \in Known
  BY <1>0, <1>1 DEF Known
<1>3. /\ wrdvno' = [wrdvno EXCEPT ![t] = (w + 1) % RDVNO_MOD]
      /\ (w + 1) % RDVNO_MOD = IF w + 1 = RDVNO_MOD THEN 0 ELSE w + 1
      /\ (w + 1) % RDVNO_MOD \in Numbers
  BY <1>0, <1>2, NextNumber DEF gen_rdvno
<1>4. /\ wrdvno' \in [Tasks -> Numbers]
      /\ wrdvno'[t] = IF w + 1 = RDVNO_MOD THEN 0 ELSE w + 1
      /\ \A u \in Tasks \ {t} : wrdvno'[u] = wrdvno[u]
  BY <1>1, <1>3
<1>5. /\ \A x \in known' :
           \/ x = new
           \/ \E e \in known :
                /\ x \in Known
                /\ x.tskid = e.tskid /\ x.rdvno = e.rdvno
                /\ e.tskid = t => x.age = e.age + 1
                /\ e.tskid # t => x.age = e.age
                /\ x.live <=> e.live /\ e.tskid # t
      /\ new \in known'
      /\ \A e \in known : e.tskid # t => e \in known'
  BY <1>1, <1>2, LearnedElements
<1>6. new.tskid = t /\ new.rdvno = w /\ new.age = 0 /\ new.live = b
  OBVIOUS
<1> HIDE DEF w, new
<1>7. \A x \in known' : Behind(x)'
  <2> SUFFICES ASSUME NEW x \in known' PROVE Behind(x)'
    OBVIOUS
  <2>1. CASE x = new
    BY <1>0, <1>2, <1>4, <1>6, <2>1 DEF Behind
  <2>2. CASE x # new
    <3>1. PICK e \in known : /\ x \in Known
                             /\ x.tskid = e.tskid /\ x.rdvno = e.rdvno
                             /\ e.tskid = t => x.age = e.age + 1
                             /\ e.tskid # t => x.age = e.age
      BY <1>5, <2>2
    <3>2. /\ Behind(e)
          /\ e.tskid \in Tasks /\ e.rdvno \in Numbers /\ e.age \in Numbers /\ x.age \in Numbers
      BY <1>1, <3>1 DEF Known
    <3>3. CASE e.tskid = t
      <4>1. wrdvno[e.tskid] = w /\ x.age = e.age + 1
        BY <3>1, <3>3 DEF w
      <4>2. CASE w + 1 = RDVNO_MOD
        <5>1. wrdvno'[x.tskid] = 0
          BY <1>4, <3>1, <3>3, <4>2
        <5>2. e.rdvno + x.age + 1 = RDVNO_MOD
          BY <1>0, <1>2, <3>2, <4>1, <4>2 DEF Behind
        <5> QED BY <1>0, <3>1, <5>1, <5>2 DEF Behind
      <4>3. CASE w + 1 # RDVNO_MOD
        <5>1. wrdvno'[x.tskid] = w + 1
          BY <1>4, <3>1, <3>3, <4>3
        <5>2. \/ e.rdvno + x.age + 1 = w + 1
              \/ e.rdvno + x.age + 1 = w + 1 + RDVNO_MOD
          BY <1>2, <3>2, <4>1, BehindMoves DEF Behind
        <5> QED BY <3>1, <5>1, <5>2 DEF Behind
      <4> QED BY <4>2, <4>3
    <3>4. CASE e.tskid # t
      BY <1>4, <3>1, <3>2, <3>4 DEF Behind
    <3> QED BY <3>3, <3>4
  <2> QED BY <2>1, <2>2
<1>8. ASSUME NEW x \in known', x # new, x.tskid = t PROVE x.age # 0 /\ ~x.live
  <2>1. PICK e \in known : x.tskid = e.tskid /\ x.age = e.age + 1 /\ ~x.live
    BY <1>5, <1>8
  <2>2. e.age \in Numbers
    BY <1>1 DEF Known
  <2> QED BY <1>0, <2>1, <2>2
<1>9. ASSUME NEW x \in known', x.tskid # t
      PROVE  \E e \in known : /\ x.tskid = e.tskid /\ x.rdvno = e.rdvno /\ x.age = e.age
                              /\ x.live <=> e.live
  BY <1>5, <1>6, <1>9
<1>10. \A x, y \in known' : x.tskid = y.tskid /\ x.age = y.age => (x.live <=> y.live)
  <2> SUFFICES ASSUME NEW x \in known', NEW y \in known', x.tskid = y.tskid, x.age = y.age
               PROVE  x.live <=> y.live
    OBVIOUS
  <2>1. CASE x.tskid = t
    BY <1>6, <1>8, <2>1
  <2>2. CASE x.tskid # t
    BY <1>1, <1>9, <2>2
  <2> QED BY <2>1, <2>2
<1>11. \A x \in known' : x.live => x.age = 0 /\ NumberOf(x.tskid)' = {x.rdvno}
  <2> SUFFICES ASSUME NEW x \in known', x.live
               PROVE  x.age = 0 /\ NumberOf(x.tskid)' = {x.rdvno}
    OBVIOUS
  <2>1. CASE x.tskid = t
    <3>1. x = new
      BY <1>8, <2>1
    <3> QED BY <1>6, <3>1 DEF w
  <2>2. CASE x.tskid # t
    <3>1. PICK e \in known : /\ x.tskid = e.tskid /\ x.rdvno = e.rdvno /\ x.age = e.age
                             /\ e.live
      BY <1>9, <2>2
    <3>2. e.tskid \in Tasks \ {t}
      BY <1>1, <2>2, <3>1 DEF Known
    <3> QED BY <1>1, <3>1, <3>2
  <2> QED BY <2>1, <2>2
<1>12. \A u \in Tasks : NumberOf(u)' # {} => \E x \in known' : x.tskid = u /\ x.live
  <2> SUFFICES ASSUME NEW u \in Tasks, NumberOf(u)' # {}
               PROVE  \E x \in known' : x.tskid = u /\ x.live
    OBVIOUS
  <2>1. CASE u = t
    BY <1>5, <1>6, <2>1
  <2>2. CASE u # t
    BY <1>1, <1>5, <2>2
  <2> QED BY <2>1, <2>2
<1>13. known' \subseteq Known
  BY <1>2, <1>5
<1> QED BY <1>4, <1>7, <1>10, <1>11, <1>12, <1>13 DEF NumbersInv

\* What the ages are for.
LEMMA NumbersName ==
  ASSUME NumbersInv
  PROVE  NumberNamesItsRendezvous
<1>0. RDVNO_MOD \in Nat \ {0} /\ Numbers = 0 .. RDVNO_MOD - 1
  BY RdvAssumption DEF Numbers
<1>1. /\ wrdvno \in [Tasks -> Numbers] /\ known \in SUBSET Known
      /\ \A e \in known : Behind(e)
      /\ \A e, f \in known : e.tskid = f.tskid /\ e.age = f.age => (e.live <=> f.live)
      /\ \A e \in known : e.live => e.age = 0 /\ NumberOf(e.tskid) = {e.rdvno}
      /\ \A u \in Tasks : NumberOf(u) # {} => \E e \in known : e.tskid = u /\ e.live
  BY DEF NumbersInv
<1>2. ASSUME NEW t, NEW no PROVE rdv_of(t, no) <=> NumberOf(t) = {no}
  BY DEF rdv_of, NumberOf
<1>3. \A t \in Tasks : Waits(t, "RDV") => \E e \in known : e.tskid = t /\ e.live
  BY <1>1 DEF NumberOf
<1>4. ASSUME NEW e \in known, NumberOf(e.tskid) = {e.rdvno} PROVE e.live
  <2>1. e.tskid \in Tasks /\ e.rdvno \in Numbers /\ e.age \in Numbers
    BY <1>1 DEF Known
  <2>2. PICK f \in known : f.tskid = e.tskid /\ f.live
    BY <1>1, <1>4, <2>1
  <2>3. f.age = 0 /\ f.rdvno = e.rdvno
    BY <1>1, <1>4, <2>2
  <2>4. Behind(e) /\ Behind(f) /\ wrdvno[e.tskid] \in Numbers
    BY <1>1, <2>1
  <2>5. e.age = 0
    <3>1. /\ \/ e.rdvno + e.age + 1 = wrdvno[e.tskid]
             \/ e.rdvno + e.age + 1 = wrdvno[e.tskid] + RDVNO_MOD
          /\ \/ e.rdvno + 0 + 1 = wrdvno[e.tskid]
             \/ e.rdvno + 0 + 1 = wrdvno[e.tskid] + RDVNO_MOD
      BY <2>2, <2>3, <2>4 DEF Behind
    <3>2. e.rdvno + 0 + 1 = e.rdvno + 1
      BY <1>0, <2>1
    <3> QED BY <2>1, <2>4, <3>1, <3>2, BehindMoves
  <2> QED BY <1>1, <2>2, <2>3, <2>5
<1> QED BY <1>1, <1>2, <1>3, <1>4 DEF NumberNamesItsRendezvous

---------------------------------------------------------------------------
(* The ports. *)

\* Tasks outside T wait as before.
Rest(T) == \A u \in Tasks \ T : winfo'[u] = winfo[u]

\* The ports are what they were.
SamePorts ==
  \A x \in Ports : /\ por'[x].porid = por[x].porid
                   /\ por'[x].nodiswai = por[x].nodiswai
                   /\ por'[x].maxrmsz = por[x].maxrmsz

\* The queues of p become q and r; nothing else of the ports changes.
Requeued(p, q, r) ==
  /\ por' \in [Ports -> PORCBs]
  /\ SamePorts
  /\ por'[p].call_queue = q /\ por'[p].accept_queue = r
  /\ \A x \in Ports \ {p} : /\ por'[x].call_queue = por[x].call_queue
                            /\ por'[x].accept_queue = por[x].accept_queue

\* What the fields of a wait are, by its factor.
LEMMA InfoKinds ==
  ASSUME RdvTypes, NEW t \in Tasks
  PROVE  /\ winfo[t] # NoInfo => Waits(t, "CAL") \/ Waits(t, "ACP") \/ Waits(t, "RDV")
         /\ Waits(t, "CAL") => winfo[t].wid \in Ports /\ winfo[t].room \in Nat
         /\ Waits(t, "ACP") => winfo[t].wid \in Ports
         /\ Waits(t, "RDV") => winfo[t].maxrmsz \in Nat /\ winfo[t].room \in Nat
BY DEF RdvTypes, WINFO, Waits

\* The waits there can be are not NoInfo and have the fields they are made of.
LEMMA InfoFields ==
  ASSUME RdvTypes, NEW p \in Ports, NEW ptn \in Ptn, NEW room \in Nat,
         NEW no \in 0 .. RDVNO_MOD - 1, NEW nodis \in BOOLEAN
  PROVE  /\ Cal(p, ptn, room) \in WINFO /\ Cal(p, ptn, room) # NoInfo
         /\ Acp(p, ptn) \in WINFO /\ Acp(p, ptn) # NoInfo
         /\ Rdv(p, no, nodis, room) \in WINFO /\ Rdv(p, no, nodis, room) # NoInfo
<1>1. por[p].nodiswai \in BOOLEAN /\ por[p].maxrmsz \in Nat
  BY DEF RdvTypes, PORCBs
<1>2. Cal(p, ptn, room) \in WINFO
  BY <1>1 DEF Cal, WINFO
<1>3. Acp(p, ptn) \in WINFO
  BY <1>1 DEF Acp, WINFO
<1>4. Rdv(p, no, nodis, room) \in WINFO
  BY <1>1 DEF Rdv, WINFO
<1> QED BY <1>2, <1>3, <1>4, NoInfoAssumption

\* Those who wait as before are where they were.
LEMMA RestPlaces ==
  ASSUME NEW T \in SUBSET Tasks, Rest(T)
  PROVE  /\ \A p : Callers(p)' \ T = Callers(p) \ T
         /\ \A p : Acceptors(p)' \ T = Acceptors(p) \ T
         /\ \A u \in Tasks \ T : NumberOf(u)' = NumberOf(u)
BY DEF Rest, Callers, Acceptors, NumberOf, Waits

\* They keep their terms, at ports that stay what they are.
LEMMA RestTerms ==
  ASSUME RdvTypes, TermsInv, NEW T \in SUBSET Tasks, Rest(T), SamePorts,
         \A u \in Tasks \ T : waitmask'[u] = waitmask[u], \A t \in T : Terms(t)'
  PROVE  TermsInv'
<1> SUFFICES ASSUME NEW t \in Tasks, t \notin T PROVE Terms(t)'
  BY DEF TermsInv
<1>1. winfo'[t] = winfo[t] /\ waitmask'[t] = waitmask[t] /\ Terms(t)
  BY DEF Rest, TermsInv
<1>2. /\ Waits(t, "CAL") => winfo[t].wid \in Ports
      /\ Waits(t, "ACP") => winfo[t].wid \in Ports
  BY InfoKinds
<1> QED BY <1>1, <1>2 DEF Terms, Waits, SamePorts

\* Where nobody new is in a queue there is no new pair.
LEMMA RestMatch ==
  ASSUME MatchInv, NEW T \in SUBSET Tasks, Rest(T),
         \A t \in T : ~Waits(t, "CAL")' /\ ~Waits(t, "ACP")'
  PROVE  MatchInv'
<1> SUFFICES ASSUME NEW p \in Ports, NEW c \in Callers(p)', NEW a \in Acceptors(p)'
             PROVE  winfo'[c].ptn \cap winfo'[a].ptn = {}
  BY DEF MatchInv
<1>1. c \in Tasks \ T /\ a \in Tasks \ T
  BY DEF Callers, Acceptors
<1>2. c \in Callers(p) /\ a \in Acceptors(p)
  BY <1>1, RestPlaces
<1> QED BY <1>1, <1>2 DEF Rest, MatchInv

\* The queues after a step at p.
LEMMA QueuesMove ==
  ASSUME QueuesInv, NEW p \in Ports, NEW q, NEW r, Requeued(p, q, r), por[p].porid,
         Lists(q, Callers(p)'), Lists(r, Acceptors(p)'),
         \A x \in Ports \ {p} : Callers(x)' = Callers(x) /\ Acceptors(x)' = Acceptors(x)
  PROVE  QueuesInv'
<1> SUFFICES ASSUME NEW x \in Ports
             PROVE  /\ Lists(por'[x].call_queue, Callers(x)')
                    /\ Lists(por'[x].accept_queue, Acceptors(x)')
                    /\ ~por'[x].porid => Callers(x)' = {} /\ Acceptors(x)' = {}
  BY DEF QueuesInv
<1>1. CASE x = p
  BY <1>1 DEF Requeued, SamePorts
<1>2. CASE x # p
  BY <1>2 DEF Requeued, SamePorts, QueuesInv
<1> QED BY <1>1, <1>2

\* The first match of a queue is one of those in it, unless nobody matches.
LEMMA FirstMatch ==
  ASSUME NEW q, NEW S, Lists(q, S), NEW ptn
  PROVE  \/ first_match(q, ptn) = {} /\ \A t \in S : winfo[t].ptn \cap ptn = {}
         \/ \E t \in S : first_match(q, ptn) = {t}
<1> DEFINE I == {i \in 1 .. Len(q) : winfo[q[i]].ptn \cap ptn # {}}
           i == IF I # {} THEN Min(I) ELSE 0
<1>1. first_match(q, ptn) = IF i = 0 THEN {} ELSE {q[i]}
  BY DEF first_match, SelectInSeq
<1>2. /\ Len(q) \in Nat /\ \A j \in 1 .. Len(q) : q[j] \in S
      /\ \A x \in S : \E j \in 1 .. Len(q) : q[j] = x
  BY ListsPlaces
<1>3. CASE I = {}
  <2>1. first_match(q, ptn) = {}
    BY <1>1, <1>3
  <2>2. \A t \in S : winfo[t].ptn \cap ptn = {}
    BY <1>2, <1>3
  <2> QED BY <2>1, <2>2
<1>4. CASE I # {}
  <2>1. I \in SUBSET Nat
    BY <1>2
  <2>2. Min(I) \in I
    BY <1>4, <2>1, MinOfNats
  <2>3. i = Min(I)
    BY <1>4
  <2>4. i \in 1 .. Len(q)
    BY <2>2, <2>3
  <2> HIDE DEF i
  <2>5. first_match(q, ptn) = {q[i]} /\ q[i] \in S
    BY <1>1, <1>2, <2>4
  <2> QED BY <2>5
<1> QED BY <1>3, <1>4

---------------------------------------------------------------------------
(* The steps. *)

\* Taking t out of every queue.
LEMMA ReleasePorts ==
  ASSUME por \in [Ports -> PORCBs], QueuesInv, NEW t \in Tasks, release(t)
  PROVE  /\ por' \in [Ports -> PORCBs]
         /\ SamePorts
         /\ \A x \in Ports : /\ por'[x].call_queue = QueRemove(por[x].call_queue, t)
                             /\ por'[x].accept_queue = QueRemove(por[x].accept_queue, t)
<1>1. por' = [p \in Ports |-> [por[p] EXCEPT !.call_queue = QueRemove(@, t),
                                             !.accept_queue = QueRemove(@, t)]]
  BY DEF release
<1>2. ASSUME NEW x \in Ports
      PROVE  /\ por'[x] \in PORCBs
             /\ por'[x].porid = por[x].porid
             /\ por'[x].nodiswai = por[x].nodiswai
             /\ por'[x].maxrmsz = por[x].maxrmsz
             /\ por'[x].call_queue = QueRemove(por[x].call_queue, t)
             /\ por'[x].accept_queue = QueRemove(por[x].accept_queue, t)
  <2> DEFINE q == QueRemove(por[x].call_queue, t)
             r == QueRemove(por[x].accept_queue, t)
  <2>1. por[x] \in PORCBs
    OBVIOUS
  <2>2. Lists(q, Callers(x) \ {t}) /\ Lists(r, Acceptors(x) \ {t})
    BY RemoveList DEF QueuesInv
  <2>3. q \in Seq(Tasks) /\ r \in Seq(Tasks)
    <3>1. Callers(x) \ {t} \in SUBSET Tasks /\ Acceptors(x) \ {t} \in SUBSET Tasks
      BY DEF Callers, Acceptors
    <3> QED BY <2>2, <3>1, ListsSeq
  <2>4. por'[x] = [por[x] EXCEPT !.call_queue = q, !.accept_queue = r]
    BY <1>1
  <2> HIDE DEF q, r
  <2>5. /\ por'[x] \in PORCBs
        /\ por'[x].porid = por[x].porid
        /\ por'[x].nodiswai = por[x].nodiswai
        /\ por'[x].maxrmsz = por[x].maxrmsz
        /\ por'[x].call_queue = q /\ por'[x].accept_queue = r
    BY <2>1, <2>3, <2>4 DEF PORCBs
  <2> QED BY <2>5 DEF q, r
<1> QED BY <1>1, <1>2 DEF SamePorts

\* The end of a wait.
LEMMA ReleaseInv ==
  ASSUME RdvInv, NEW t \in Tasks, release(t), wrdvno' = wrdvno,
         waitmask' \in [Tasks -> SUBSET Factors],
         \A u \in Tasks \ {t} : waitmask'[u] = waitmask[u]
  PROVE  RdvInv'
<1>1. NumbersInv /\ RdvTypes /\ QueuesInv /\ MatchInv /\ TermsInv
  BY DEF RdvInv, PortsInv
<1>2. /\ winfo' \in [Tasks -> WINFO \cup {NoInfo}]
      /\ winfo'[t] = NoInfo /\ Rest({t}) /\ known' = stale(known, t)
  BY <1>1 DEF release, Rest, RdvTypes
<1>3. \A f : ~Waits(t, f)'
  BY <1>2 DEF Waits
<1>4. /\ por' \in [Ports -> PORCBs]
      /\ SamePorts
      /\ \A x \in Ports : /\ por'[x].call_queue = QueRemove(por[x].call_queue, t)
                          /\ por'[x].accept_queue = QueRemove(por[x].accept_queue, t)
  BY <1>1, ReleasePorts DEF RdvTypes
<1>5. RdvTypes'
  BY <1>2, <1>4 DEF RdvTypes
<1>6. NumbersInv'
  <2>1. NumberOf(t)' = {}
    BY <1>3 DEF NumberOf
  <2>2. \A u \in Tasks \ {t} : NumberOf(u)' = NumberOf(u)
    BY <1>2, RestPlaces
  <2> QED BY <1>1, <1>2, <2>1, <2>2, NumbersStale
<1>7. QueuesInv'
  <2> SUFFICES ASSUME NEW x \in Ports
               PROVE  /\ Lists(por'[x].call_queue, Callers(x)')
                      /\ Lists(por'[x].accept_queue, Acceptors(x)')
                      /\ ~por'[x].porid => Callers(x)' = {} /\ Acceptors(x)' = {}
    BY DEF QueuesInv
  <2>1. Callers(x)' = Callers(x) \ {t}
    <3>1. t \notin Callers(x)'
      BY <1>3 DEF Callers
    <3>2. Callers(x)' \ {t} = Callers(x) \ {t}
      BY <1>2, RestPlaces
    <3> QED BY <3>1, <3>2
  <2>2. Acceptors(x)' = Acceptors(x) \ {t}
    <3>1. t \notin Acceptors(x)'
      BY <1>3 DEF Acceptors
    <3>2. Acceptors(x)' \ {t} = Acceptors(x) \ {t}
      BY <1>2, RestPlaces
    <3> QED BY <3>1, <3>2
  <2>3. /\ Lists(por[x].call_queue, Callers(x)) /\ Lists(por[x].accept_queue, Acceptors(x))
        /\ ~por[x].porid => Callers(x) = {} /\ Acceptors(x) = {}
    BY <1>1 DEF QueuesInv
  <2>4. /\ Lists(QueRemove(por[x].call_queue, t), Callers(x) \ {t})
        /\ Lists(QueRemove(por[x].accept_queue, t), Acceptors(x) \ {t})
    BY <2>3, RemoveList
  <2>5. por'[x].porid = por[x].porid
    BY <1>4 DEF SamePorts
  <2> QED BY <1>4, <2>1, <2>2, <2>3, <2>4, <2>5
<1>8. MatchInv'
  BY <1>1, <1>2, <1>3, RestMatch
<1>9. TermsInv'
  <2>1. Terms(t)'
    BY <1>2, <1>3 DEF Terms
  <2> QED BY <1>1, <1>2, <1>4, <2>1, RestTerms
<1> QED BY <1>5, <1>6, <1>7, <1>8, <1>9 DEF RdvInv, PortsInv

\* An accept: c waits for the end of the rendezvous or for nothing.
LEMMA EstablishedPorts ==
  ASSUME por \in [Ports -> PORCBs], NEW p \in Ports, NEW q \in Seq(Tasks), NEW r \in Seq(Tasks),
         por' = [por EXCEPT ![p].call_queue = q, ![p].accept_queue = r]
  PROVE  Requeued(p, q, r)
<1>1. por[p] \in PORCBs
  OBVIOUS
<1> DEFINE cb == [por[p] EXCEPT !.call_queue = q, !.accept_queue = r]
<1>2. /\ cb \in PORCBs
      /\ cb.porid = por[p].porid /\ cb.nodiswai = por[p].nodiswai
      /\ cb.maxrmsz = por[p].maxrmsz
      /\ cb.call_queue = q /\ cb.accept_queue = r
  BY <1>1 DEF PORCBs
<1>3. /\ por' \in [Ports -> PORCBs]
      /\ por'[p] = cb /\ \A x \in Ports \ {p} : por'[x] = por[x]
  <2>1. por' = [por EXCEPT ![p] = cb]
    OBVIOUS
  <2> HIDE DEF cb
  <2> QED BY <1>2, <2>1
<1> HIDE DEF cb
<1>4. SamePorts
  BY <1>2, <1>3 DEF SamePorts
<1> QED BY <1>2, <1>3, <1>4 DEF Requeued

\* An accept keeps the invariant.
LEMMA EstablishedInv ==
  ASSUME RdvInv, waitmask' = waitmask,
         NEW p \in Ports, por[p].porid, NEW c \in Tasks, NEW a \in Tasks, c # a,
         ~Waits(c, "ACP"), Waits(c, "CAL") => winfo[c].wid = p,
         ~Waits(a, "CAL"), ~Waits(a, "RDV"), Waits(a, "ACP") => winfo[a].wid = p,
         NEW nodis, nodis = por[p].nodiswai, NEW size \in Nat, por[p].maxrmsz <= size,
         established(p, c, a, nodis, size)
  PROVE  RdvInv'
<1> DEFINE goes == ~is_diswai(p, c, "RDV")
           no == wrdvno[c]
           info == IF goes THEN Rdv(p, no, nodis, size) ELSE NoInfo
           q == QueRemove(por[p].call_queue, c)
           r == QueRemove(por[p].accept_queue, a)
<1>1. NumbersInv /\ RdvTypes /\ QueuesInv /\ MatchInv /\ TermsInv
  BY DEF RdvInv, PortsInv
<1>2. /\ gen_rdvno(c)
      /\ winfo' = [winfo EXCEPT ![a] = NoInfo, ![c] = info]
      /\ known' = learned(known, c, goes)
      /\ por' = [por EXCEPT ![p].call_queue = q, ![p].accept_queue = r]
  BY DEF established
<1>3. /\ no \in Numbers /\ nodis \in BOOLEAN /\ por[p].maxrmsz \in Nat
      /\ goes <=> ("RDV" \in waitmask[c] => nodis)
  BY <1>1 DEF NumbersInv, RdvTypes, PORCBs, is_diswai
<1>4. goes \in BOOLEAN
  BY DEF is_diswai
<1>5. /\ info \in WINFO \cup {NoInfo}
      /\ ~goes => info = NoInfo
      /\ goes => /\ info # NoInfo /\ info.tskwait = "RDV" /\ info.rdvno = no
                 /\ info.nodiswai = nodis /\ info.maxrmsz = por[p].maxrmsz
                 /\ info.room = size
  <2>1. CASE goes
    <3>1. Rdv(p, no, nodis, size) \in WINFO
      BY <1>3 DEF Rdv, WINFO, Numbers
    <3>2. info = Rdv(p, no, nodis, size) /\ info # NoInfo
      BY <2>1, <3>1, NoInfoAssumption
    <3> QED BY <2>1, <3>1, <3>2 DEF Rdv
  <2>2. CASE ~goes
    BY <2>2
  <2> QED BY <2>1, <2>2
<1> HIDE DEF goes, no, info
<1>6. /\ winfo' \in [Tasks -> WINFO \cup {NoInfo}]
      /\ winfo'[a] = NoInfo /\ winfo'[c] = info /\ Rest({a, c})
  BY <1>1, <1>2, <1>5 DEF RdvTypes, Rest
<1>7. /\ \A f : ~Waits(a, f)'
      /\ ~Waits(c, "CAL")' /\ ~Waits(c, "ACP")'
      /\ Waits(c, "RDV")' <=> goes
  BY <1>4, <1>5, <1>6 DEF Waits
<1>8. /\ Lists(por[p].call_queue, Callers(p)) /\ Lists(por[p].accept_queue, Acceptors(p))
      /\ Lists(q, Callers(p) \ {c}) /\ Lists(r, Acceptors(p) \ {a})
  BY <1>1, RemoveList DEF QueuesInv
<1>9. q \in Seq(Tasks) /\ r \in Seq(Tasks)
  <2>1. Callers(p) \ {c} \in SUBSET Tasks /\ Acceptors(p) \ {a} \in SUBSET Tasks
    BY DEF Callers, Acceptors
  <2> QED BY <1>8, <2>1, ListsSeq
<1> HIDE DEF q, r
<1>10. Requeued(p, q, r)
  BY <1>1, <1>2, <1>9, EstablishedPorts DEF RdvTypes
<1>11. RdvTypes'
  BY <1>1, <1>6, <1>10 DEF RdvTypes, Requeued
<1>12. NumbersInv'
  <2>1. NumberOf(c)' = IF goes THEN {wrdvno[c]} ELSE {}
    BY <1>5, <1>6, <1>7 DEF NumberOf, no
  <2>2. NumberOf(a)' = {} /\ NumberOf(a) = {}
    BY <1>7 DEF NumberOf
  <2>3. \A u \in Tasks \ {a, c} : NumberOf(u)' = NumberOf(u)
    BY <1>6, RestPlaces
  <2>4. \A u \in Tasks \ {c} : NumberOf(u)' = NumberOf(u)
    BY <2>2, <2>3
  <2> QED BY <1>1, <1>2, <1>4, <2>1, <2>4, NumbersLearned
<1>13. QueuesInv'
  <2>1. ASSUME NEW x
        PROVE  /\ a \notin Callers(x)' /\ c \notin Callers(x)' /\ a \notin Callers(x)
               /\ a \notin Acceptors(x)' /\ c \notin Acceptors(x)' /\ c \notin Acceptors(x)
    BY <1>7 DEF Callers, Acceptors
  <2>2. ASSUME NEW x, x # p
        PROVE  c \notin Callers(x) /\ a \notin Acceptors(x)
    BY <2>2 DEF Callers, Acceptors
  <2>3. ASSUME NEW x
        PROVE  /\ Callers(x)' \ {a, c} = Callers(x) \ {a, c}
               /\ Acceptors(x)' \ {a, c} = Acceptors(x) \ {a, c}
    BY <1>6, RestPlaces
  <2>4. Callers(p)' = Callers(p) \ {c} /\ Acceptors(p)' = Acceptors(p) \ {a}
    BY <2>1, <2>3
  <2>5. \A x \in Ports \ {p} : Callers(x)' = Callers(x) /\ Acceptors(x)' = Acceptors(x)
    BY <2>1, <2>2, <2>3
  <2>6. Lists(q, Callers(p)') /\ Lists(r, Acceptors(p)')
    BY <1>8, <2>4
  <2> QED BY <1>1, <1>10, <2>5, <2>6, QueuesMove
<1>14. MatchInv'
  BY <1>1, <1>6, <1>7, RestMatch
<1>15. TermsInv'
  <2>1. Terms(a)'
    BY <1>6, <1>7 DEF Terms
  <2>2. Terms(c)'
    BY <1>3, <1>5, <1>6, <1>7 DEF Terms
  <2>3. SamePorts
    BY <1>10 DEF Requeued
  <2> QED BY <1>1, <1>6, <2>1, <2>2, <2>3, RestTerms
<1> QED BY <1>11, <1>12, <1>13, <1>14, <1>15 DEF RdvInv, PortsInv

\* A step on the callers of p alone.
LEMMA CallersPorts ==
  ASSUME por \in [Ports -> PORCBs], NEW p \in Ports, NEW q \in Seq(Tasks),
         por' = [por EXCEPT ![p].call_queue = q]
  PROVE  Requeued(p, q, por[p].accept_queue)
<1>1. por[p] \in PORCBs
  OBVIOUS
<1> DEFINE cb == [por[p] EXCEPT !.call_queue = q]
<1>2. /\ cb \in PORCBs
      /\ cb.porid = por[p].porid /\ cb.nodiswai = por[p].nodiswai
      /\ cb.maxrmsz = por[p].maxrmsz
      /\ cb.call_queue = q /\ cb.accept_queue = por[p].accept_queue
  BY <1>1 DEF PORCBs
<1>3. /\ por' \in [Ports -> PORCBs]
      /\ por'[p] = cb /\ \A x \in Ports \ {p} : por'[x] = por[x]
  <2>1. por' = [por EXCEPT ![p] = cb]
    OBVIOUS
  <2> HIDE DEF cb
  <2> QED BY <1>2, <2>1
<1> HIDE DEF cb
<1>4. SamePorts
  BY <1>2, <1>3 DEF SamePorts
<1> QED BY <1>2, <1>3, <1>4 DEF Requeued

\* A step on the acceptors of p alone.
LEMMA AcceptorsPorts ==
  ASSUME por \in [Ports -> PORCBs], NEW p \in Ports, NEW r \in Seq(Tasks),
         por' = [por EXCEPT ![p].accept_queue = r]
  PROVE  Requeued(p, por[p].call_queue, r)
<1>1. por[p] \in PORCBs
  OBVIOUS
<1> DEFINE cb == [por[p] EXCEPT !.accept_queue = r]
<1>2. /\ cb \in PORCBs
      /\ cb.porid = por[p].porid /\ cb.nodiswai = por[p].nodiswai
      /\ cb.maxrmsz = por[p].maxrmsz
      /\ cb.call_queue = por[p].call_queue /\ cb.accept_queue = r
  BY <1>1 DEF PORCBs
<1>3. /\ por' \in [Ports -> PORCBs]
      /\ por'[p] = cb /\ \A x \in Ports \ {p} : por'[x] = por[x]
  <2>1. por' = [por EXCEPT ![p] = cb]
    OBVIOUS
  <2> HIDE DEF cb
  <2> QED BY <1>2, <2>1
<1> HIDE DEF cb
<1>4. SamePorts
  BY <1>2, <1>3 DEF SamePorts
<1> QED BY <1>2, <1>3, <1>4 DEF Requeued

\* A call that has to wait keeps the invariant.
LEMMA CalledInv ==
  ASSUME RdvInv, waitmask' = waitmask,
         NEW p \in Ports, por[p].porid, NEW t \in Tasks, ~is_diswai(p, t, "CAL"),
         ~Waits(t, "CAL"), ~Waits(t, "ACP"),
         NEW ptn \in Ptn, \A a \in Acceptors(p) : winfo[a].ptn \cap ptn = {},
         NEW size \in Nat, por[p].maxrmsz <= size,
         called(p, t, ptn, size)
  PROVE  RdvInv'
<1> DEFINE info == Cal(p, ptn, size)
           q == IF por[p].tpri THEN queue_insert_tpri(por[p].call_queue, t, priority)
                               ELSE Append(por[p].call_queue, t)
           r == por[p].accept_queue
<1>1. NumbersInv /\ RdvTypes /\ QueuesInv /\ MatchInv /\ TermsInv
  BY DEF RdvInv, PortsInv
<1>2. /\ winfo' = [winfo EXCEPT ![t] = info]
      /\ known' = stale(known, t) /\ wrdvno' = wrdvno
      /\ por' = [por EXCEPT ![p].call_queue = q]
  BY DEF called
<1>3. por[p].nodiswai \in BOOLEAN /\ por[p].maxrmsz \in Nat
  BY <1>1 DEF RdvTypes, PORCBs
<1>4. /\ info \in WINFO /\ info # NoInfo
      /\ info.tskwait = "CAL" /\ info.wid = p /\ info.ptn = ptn /\ info.room = size
      /\ info.nodiswai = por[p].nodiswai
  <2>1. info \in WINFO
    BY <1>3 DEF Cal, WINFO
  <2>2. info # NoInfo
    BY <2>1, NoInfoAssumption
  <2> QED BY <2>1, <2>2 DEF Cal
<1> HIDE DEF info
<1>5. /\ winfo' \in [Tasks -> WINFO \cup {NoInfo}]
      /\ winfo'[t] = info /\ Rest({t})
  BY <1>1, <1>2, <1>4 DEF RdvTypes, Rest
<1>6. Waits(t, "CAL")' /\ ~Waits(t, "ACP")' /\ ~Waits(t, "RDV")'
  BY <1>4, <1>5 DEF Waits
<1>7. /\ Lists(por[p].call_queue, Callers(p)) /\ Lists(r, Acceptors(p))
      /\ t \notin Callers(p)
  BY <1>1 DEF QueuesInv, Callers
<1>8. Lists(q, Callers(p) \cup {t})
  <2>1. Lists(queue_insert_tpri(por[p].call_queue, t, priority), Callers(p) \cup {t})
    BY <1>7, InsertList
  <2>2. Lists(Append(por[p].call_queue, t), Callers(p) \cup {t})
    BY <1>7, AppendList
  <2> QED BY <2>1, <2>2
<1>9. q \in Seq(Tasks)
  <2>1. Callers(p) \cup {t} \in SUBSET Tasks
    BY DEF Callers
  <2> HIDE DEF q
  <2> QED BY <1>8, <2>1, ListsSeq
<1> HIDE DEF q
<1>10. Requeued(p, q, r)
  BY <1>1, <1>2, <1>9, CallersPorts DEF RdvTypes
<1> HIDE DEF r
<1>11. RdvTypes'
  BY <1>1, <1>5, <1>10 DEF RdvTypes, Requeued
<1>12. NumbersInv'
  <2>1. NumberOf(t)' = {}
    BY <1>6 DEF NumberOf
  <2>2. \A u \in Tasks \ {t} : NumberOf(u)' = NumberOf(u)
    BY <1>5, RestPlaces
  <2> QED BY <1>1, <1>2, <2>1, <2>2, NumbersStale
<1>13. QueuesInv'
  <2>1. t \in Callers(p)'
    BY <1>4, <1>5, <1>6 DEF Callers
  <2>2. ASSUME NEW x, x # p PROVE t \notin Callers(x)'
    BY <1>4, <1>5, <2>2 DEF Callers
  <2>3. ASSUME NEW x
        PROVE  t \notin Callers(x) /\ t \notin Acceptors(x) /\ t \notin Acceptors(x)'
    BY <1>6 DEF Callers, Acceptors
  <2>4. ASSUME NEW x
        PROVE  /\ Callers(x)' \ {t} = Callers(x) \ {t}
               /\ Acceptors(x)' \ {t} = Acceptors(x) \ {t}
    BY <1>5, RestPlaces
  <2>5. Callers(p)' = Callers(p) \cup {t} /\ Acceptors(p)' = Acceptors(p)
    BY <2>1, <2>3, <2>4
  <2>6. \A x \in Ports \ {p} : Callers(x)' = Callers(x) /\ Acceptors(x)' = Acceptors(x)
    <3> SUFFICES ASSUME NEW x \in Ports, x # p
                 PROVE  Callers(x)' = Callers(x) /\ Acceptors(x)' = Acceptors(x)
      OBVIOUS
    <3>1. /\ Callers(x)' \ {t} = Callers(x) \ {t} /\ Acceptors(x)' \ {t} = Acceptors(x) \ {t}
          /\ t \notin Callers(x)' /\ t \notin Callers(x)
          /\ t \notin Acceptors(x)' /\ t \notin Acceptors(x)
      BY <2>2, <2>3, <2>4
    <3> QED BY <3>1
  <2>7. Lists(q, Callers(p)') /\ Lists(r, Acceptors(p)')
    BY <1>7, <1>8, <2>5
  <2> QED BY <1>1, <1>10, <2>6, <2>7, QueuesMove
<1>14. MatchInv'
  <2> SUFFICES ASSUME NEW x \in Ports, NEW c \in Callers(x)', NEW a \in Acceptors(x)'
               PROVE  winfo'[c].ptn \cap winfo'[a].ptn = {}
    BY DEF MatchInv
  <2>0. /\ Callers(x)' \ {t} = Callers(x) \ {t} /\ Acceptors(x)' \ {t} = Acceptors(x) \ {t}
        /\ \A u \in Tasks \ {t} : winfo'[u] = winfo[u]
    <3>1. /\ Callers(x)' \ {t} = Callers(x) \ {t} /\ Acceptors(x)' \ {t} = Acceptors(x) \ {t}
      BY <1>5, RestPlaces
    <3> QED BY <1>5, <3>1 DEF Rest
  <2>1. a \in Tasks /\ a # t
    BY <1>6 DEF Acceptors
  <2>2. a \in Acceptors(x) /\ winfo'[a] = winfo[a]
    BY <2>0, <2>1
  <2>3. CASE c = t
    <3>1. x = p
      BY <1>4, <1>5, <2>3 DEF Callers
    <3> QED BY <1>4, <1>5, <2>2, <2>3, <3>1
  <2>4. CASE c # t
    <3>1. c \in Tasks
      BY DEF Callers
    <3>2. c \in Callers(x) /\ winfo'[c] = winfo[c]
      BY <2>0, <2>4, <3>1
    <3> QED BY <1>1, <2>2, <3>2 DEF MatchInv
  <2> QED BY <2>3, <2>4
<1>15. TermsInv'
  <2>1. SamePorts
    BY <1>10 DEF Requeued
  <2>2. "CAL" \in waitmask'[t] => info.nodiswai
    BY <1>3, <1>4 DEF is_diswai
  <2>3. Terms(t)'
    BY <1>4, <1>5, <1>6, <2>1, <2>2 DEF Terms, SamePorts
  <2> QED BY <1>1, <1>5, <2>1, <2>3, RestTerms
<1> QED BY <1>11, <1>12, <1>13, <1>14, <1>15 DEF RdvInv, PortsInv

\* An acceptor that has to wait, at the end of the queue of its port.
AcceptWait(t, p, ptn) ==
  /\ winfo' = [winfo EXCEPT ![t] = Acp(p, ptn)]
  /\ por' = [por EXCEPT ![p].accept_queue = Append(@, t)]
  /\ UNCHANGED <<wrdvno, known>>

\* It keeps the invariant.
LEMMA AcceptWaitInv ==
  ASSUME RdvInv, waitmask' = waitmask,
         NEW p \in Ports, por[p].porid, NEW t \in Tasks, ~is_diswai(p, t, "ACP"),
         winfo[t] = NoInfo,
         NEW ptn \in Ptn, \A c \in Callers(p) : winfo[c].ptn \cap ptn = {},
         AcceptWait(t, p, ptn)
  PROVE  RdvInv'
<1> DEFINE info == Acp(p, ptn)
           q == por[p].call_queue
           r == Append(por[p].accept_queue, t)
<1>1. NumbersInv /\ RdvTypes /\ QueuesInv /\ MatchInv /\ TermsInv
  BY DEF RdvInv, PortsInv
<1>2. /\ winfo' = [winfo EXCEPT ![t] = info]
      /\ known' = known /\ wrdvno' = wrdvno
      /\ por' = [por EXCEPT ![p].accept_queue = r]
  BY DEF AcceptWait
<1>3. por[p].nodiswai \in BOOLEAN
  BY <1>1 DEF RdvTypes, PORCBs
<1>4. /\ info \in WINFO /\ info # NoInfo
      /\ info.tskwait = "ACP" /\ info.wid = p /\ info.ptn = ptn
      /\ info.nodiswai = por[p].nodiswai
  <2>1. info \in WINFO
    BY <1>3 DEF Acp, WINFO
  <2>2. info # NoInfo
    BY <2>1, NoInfoAssumption
  <2> QED BY <2>1, <2>2 DEF Acp
<1> HIDE DEF info
<1>5. /\ winfo' \in [Tasks -> WINFO \cup {NoInfo}]
      /\ winfo'[t] = info /\ Rest({t})
  BY <1>1, <1>2, <1>4 DEF RdvTypes, Rest
<1>6. /\ ~Waits(t, "CAL")' /\ Waits(t, "ACP")' /\ ~Waits(t, "RDV")'
      /\ \A f : ~Waits(t, f)
  BY <1>4, <1>5 DEF Waits
<1>7. /\ Lists(q, Callers(p)) /\ Lists(por[p].accept_queue, Acceptors(p))
      /\ t \notin Acceptors(p)
  BY <1>1, <1>6 DEF QueuesInv, Acceptors
<1>8. Lists(r, Acceptors(p) \cup {t})
  BY <1>7, AppendList
<1>9. r \in Seq(Tasks)
  <2>1. Acceptors(p) \cup {t} \in SUBSET Tasks
    BY DEF Acceptors
  <2> HIDE DEF r
  <2> QED BY <1>8, <2>1, ListsSeq
<1> HIDE DEF r
<1>10. Requeued(p, q, r)
  BY <1>1, <1>2, <1>9, AcceptorsPorts DEF RdvTypes
<1> HIDE DEF q
<1>11. RdvTypes'
  BY <1>1, <1>5, <1>10 DEF RdvTypes, Requeued
<1>12. NumbersInv'
  <2>1. NumberOf(t)' = {} /\ NumberOf(t) = {}
    BY <1>6 DEF NumberOf
  <2>2. \A u \in Tasks \ {t} : NumberOf(u)' = NumberOf(u)
    BY <1>5, RestPlaces
  <2>3. \A u \in Tasks : NumberOf(u)' = NumberOf(u)
    BY <2>1, <2>2
  <2> QED BY <1>1, <1>2, <2>3, NumbersSame
<1>13. QueuesInv'
  <2>1. t \in Acceptors(p)'
    BY <1>4, <1>5, <1>6 DEF Acceptors
  <2>2. ASSUME NEW x, x # p PROVE t \notin Acceptors(x)'
    BY <1>4, <1>5, <2>2 DEF Acceptors
  <2>3. ASSUME NEW x
        PROVE  t \notin Acceptors(x) /\ t \notin Callers(x) /\ t \notin Callers(x)'
    BY <1>6 DEF Callers, Acceptors
  <2>4. ASSUME NEW x
        PROVE  /\ Callers(x)' \ {t} = Callers(x) \ {t}
               /\ Acceptors(x)' \ {t} = Acceptors(x) \ {t}
    BY <1>5, RestPlaces
  <2>5. Callers(p)' = Callers(p) /\ Acceptors(p)' = Acceptors(p) \cup {t}
    BY <2>1, <2>3, <2>4
  <2>6. \A x \in Ports \ {p} : Callers(x)' = Callers(x) /\ Acceptors(x)' = Acceptors(x)
    <3> SUFFICES ASSUME NEW x \in Ports, x # p
                 PROVE  Callers(x)' = Callers(x) /\ Acceptors(x)' = Acceptors(x)
      OBVIOUS
    <3>1. /\ Callers(x)' \ {t} = Callers(x) \ {t} /\ Acceptors(x)' \ {t} = Acceptors(x) \ {t}
          /\ t \notin Callers(x)' /\ t \notin Callers(x)
          /\ t \notin Acceptors(x)' /\ t \notin Acceptors(x)
      BY <2>2, <2>3, <2>4
    <3> QED BY <3>1
  <2>7. Lists(q, Callers(p)') /\ Lists(r, Acceptors(p)')
    BY <1>7, <1>8, <2>5
  <2> QED BY <1>1, <1>10, <2>6, <2>7, QueuesMove
<1>14. MatchInv'
  <2> SUFFICES ASSUME NEW x \in Ports, NEW c \in Callers(x)', NEW a \in Acceptors(x)'
               PROVE  winfo'[c].ptn \cap winfo'[a].ptn = {}
    BY DEF MatchInv
  <2>1. /\ Callers(x)' \ {t} = Callers(x) \ {t} /\ Acceptors(x)' \ {t} = Acceptors(x) \ {t}
        /\ \A u \in Tasks \ {t} : winfo'[u] = winfo[u]
    <3>1. /\ Callers(x)' \ {t} = Callers(x) \ {t} /\ Acceptors(x)' \ {t} = Acceptors(x) \ {t}
      BY <1>5, RestPlaces
    <3> QED BY <1>5, <3>1 DEF Rest
  <2>2. c \in Tasks /\ c # t
    BY <1>6 DEF Callers
  <2>3. c \in Callers(x) /\ winfo'[c] = winfo[c]
    BY <2>1, <2>2
  <2>4. CASE a = t
    <3>1. x = p
      BY <1>4, <1>5, <2>4 DEF Acceptors
    <3> QED BY <1>4, <1>5, <2>3, <2>4, <3>1
  <2>5. CASE a # t
    <3>1. a \in Tasks
      BY DEF Acceptors
    <3>2. a \in Acceptors(x) /\ winfo'[a] = winfo[a]
      BY <2>1, <2>5, <3>1
    <3> QED BY <1>1, <2>3, <3>2 DEF MatchInv
  <2> QED BY <2>4, <2>5
<1>15. TermsInv'
  <2>1. SamePorts
    BY <1>10 DEF Requeued
  <2>2. "ACP" \in waitmask'[t] => info.nodiswai
    BY <1>3, <1>4 DEF is_diswai
  <2>3. Terms(t)'
    BY <1>4, <1>5, <1>6, <2>1, <2>2 DEF Terms, SamePorts
  <2> QED BY <1>1, <1>5, <2>1, <2>3, RestTerms
<1> QED BY <1>11, <1>12, <1>13, <1>14, <1>15 DEF RdvInv, PortsInv

\* Nobody waits differently and the ports are the same but for the order in
\* one queue of callers.
LEMMA NoWaitInv ==
  ASSUME RdvInv, winfo' = winfo, wrdvno' = wrdvno, known' = known,
         waitmask' \in [Tasks -> SUBSET Factors], TermsInv',
         por' = por \/ \E p \in Ports : /\ por[p].porid
                                        /\ Requeued(p, por'[p].call_queue, por[p].accept_queue)
                                        /\ Lists(por'[p].call_queue, Callers(p))
  PROVE  RdvInv'
<1>1. NumbersInv /\ RdvTypes /\ QueuesInv /\ MatchInv
  BY DEF RdvInv, PortsInv
<1>2. /\ \A p : Callers(p)' = Callers(p) /\ Acceptors(p)' = Acceptors(p)
      /\ \A u \in Tasks : NumberOf(u)' = NumberOf(u)
  BY DEF Callers, Acceptors, NumberOf, Waits
<1>3. NumbersInv'
  BY <1>1, <1>2, NumbersSame
<1>4. MatchInv'
  BY <1>1, <1>2 DEF MatchInv
<1>5. RdvTypes'
  BY <1>1 DEF RdvTypes, Requeued
<1>6. QueuesInv'
  <2>1. CASE por' = por
    BY <1>1, <1>2, <2>1 DEF QueuesInv
  <2>2. ASSUME NEW p \in Ports, por[p].porid,
               Requeued(p, por'[p].call_queue, por[p].accept_queue),
               Lists(por'[p].call_queue, Callers(p))
        PROVE  QueuesInv'
    <3>1. Lists(por[p].accept_queue, Acceptors(p)')
      BY <1>1, <1>2 DEF QueuesInv
    <3>2. Lists(por'[p].call_queue, Callers(p)')
      BY <1>2, <2>2
    <3> QED BY <1>1, <1>2, <2>2, <3>1, <3>2, QueuesMove
  <2> QED BY <2>1, <2>2
<1> QED BY <1>3, <1>4, <1>5, <1>6 DEF RdvInv, PortsInv

---------------------------------------------------------------------------
(* The calls. *)

\* A port is made: nobody waits at it yet.
LEMMA CreateInv ==
  ASSUME RdvInv, NEW p \in Ports, NEW atr \in PorAtrs, tk_cre_por(p, atr)
  PROVE  RdvInv'
<1>1. NumbersInv /\ RdvTypes /\ QueuesInv /\ MatchInv /\ TermsInv
  BY DEF RdvInv, PortsInv
<1>2. /\ winfo' = winfo /\ wrdvno' = wrdvno /\ known' = known /\ waitmask' = waitmask
      /\ ~por[p].porid /\ por' = [por EXCEPT ![p] = PORCB(atr)]
  BY DEF tk_cre_por
<1>3. /\ \A x : Callers(x)' = Callers(x) /\ Acceptors(x)' = Acceptors(x)
      /\ \A u \in Tasks : NumberOf(u)' = NumberOf(u)
  BY <1>2 DEF Callers, Acceptors, NumberOf, Waits
<1>4. Callers(p) = {} /\ Acceptors(p) = {}
  BY <1>1, <1>2 DEF QueuesInv
<1> DEFINE cb == PORCB(atr)
<1>5. /\ cb \in PORCBs /\ cb.porid /\ cb.call_queue = << >> /\ cb.accept_queue = << >>
  <2>1. atr \in [tpri : BOOLEAN, nodiswai : BOOLEAN, maxrmsz : Nat] /\ << >> \in Seq(Tasks)
    BY RdvAssumption
  <2> QED BY <2>1 DEF PORCB, PORCBs
<1> HIDE DEF cb
<1>6. /\ por' \in [Ports -> PORCBs]
      /\ por'[p] = cb /\ \A x \in Ports \ {p} : por'[x] = por[x]
  BY <1>1, <1>2, <1>5 DEF RdvTypes, cb
<1>7. RdvTypes'
  BY <1>1, <1>2, <1>6 DEF RdvTypes
<1>8. NumbersInv'
  BY <1>1, <1>2, <1>3, NumbersSame
<1>9. MatchInv'
  BY <1>1, <1>2, <1>3 DEF MatchInv
<1>10. QueuesInv'
  <2> SUFFICES ASSUME NEW x \in Ports
               PROVE  /\ Lists(por'[x].call_queue, Callers(x))
                      /\ Lists(por'[x].accept_queue, Acceptors(x))
                      /\ ~por'[x].porid => Callers(x) = {} /\ Acceptors(x) = {}
    BY <1>3 DEF QueuesInv
  <2>1. CASE x = p
    BY <1>4, <1>5, <1>6, <2>1, NothingListed
  <2>2. CASE x # p
    BY <1>1, <1>6, <2>2 DEF QueuesInv
  <2> QED BY <2>1, <2>2
<1>11. TermsInv'
  <2> SUFFICES ASSUME NEW t \in Tasks PROVE Terms(t)'
    BY DEF TermsInv
  <2>1. winfo'[t] = winfo[t] /\ waitmask'[t] = waitmask[t] /\ Terms(t)
    BY <1>1, <1>2 DEF TermsInv
  <2>2. /\ Waits(t, "CAL") => winfo[t].wid \in Ports \ {p}
        /\ Waits(t, "ACP") => winfo[t].wid \in Ports \ {p}
    BY <1>1, <1>4, InfoKinds DEF Callers, Acceptors
  <2> QED BY <1>6, <2>1, <2>2 DEF Terms, Waits
<1> QED BY <1>7, <1>8, <1>9, <1>10, <1>11 DEF RdvInv, PortsInv

\* Who waits at a port that is deleted waits no more.
LEMMA DeleteInv ==
  ASSUME RdvInv, NEW p \in Ports, tk_del_por(p)
  PROVE  RdvInv'
<1> DEFINE q == por[p].call_queue
           r == por[p].accept_queue
           T == Range(q \o r)
<1>1. NumbersInv /\ RdvTypes /\ QueuesInv /\ MatchInv /\ TermsInv
  BY DEF RdvInv, PortsInv
<1>2. /\ wrdvno' = wrdvno /\ known' = known /\ waitmask' = waitmask
      /\ winfo' = [t \in Tasks |-> IF t \in T THEN NoInfo ELSE winfo[t]]
      /\ por' = [por EXCEPT ![p] = free_porcb]
  BY DEF tk_del_por
<1>3. T = Callers(p) \cup Acceptors(p)
  <2>1. /\ Lists(q, Callers(p)) /\ Lists(r, Acceptors(p))
        /\ q \in Seq(Tasks) /\ r \in Seq(Tasks)
    BY <1>1 DEF QueuesInv, RdvTypes, PORCBs
  <2>2. Range(q) = Callers(p) /\ Range(r) = Acceptors(p)
    BY <2>1 DEF Lists
  <2> QED BY <2>1, <2>2, RangeConcatenation
<1> HIDE DEF T
<1>4. T \in SUBSET Tasks
  BY <1>3 DEF Callers, Acceptors
<1>5. /\ winfo' \in [Tasks -> WINFO \cup {NoInfo}]
      /\ Rest(T) /\ \A t \in T : winfo'[t] = NoInfo
  BY <1>1, <1>2, <1>4 DEF RdvTypes, Rest
<1>6. \A t \in T : \A f : ~Waits(t, f)'
  BY <1>5 DEF Waits
<1> DEFINE cb == free_porcb
<1>7. /\ cb \in PORCBs /\ ~cb.porid /\ cb.call_queue = << >> /\ cb.accept_queue = << >>
  <2>1. << >> \in Seq(Tasks)
    OBVIOUS
  <2> QED BY <2>1 DEF free_porcb, PORCBs
<1> HIDE DEF cb
<1>8. /\ por' \in [Ports -> PORCBs]
      /\ por'[p] = cb /\ \A x \in Ports \ {p} : por'[x] = por[x]
  BY <1>1, <1>2, <1>7 DEF RdvTypes, cb
<1>9. RdvTypes'
  BY <1>1, <1>2, <1>5, <1>8 DEF RdvTypes
<1>10. NumbersInv'
  <2>1. \A t \in T : NumberOf(t)' = {} /\ NumberOf(t) = {}
    BY <1>3, <1>6 DEF NumberOf, Callers, Acceptors, Waits
  <2>2. \A t \in Tasks \ T : NumberOf(t)' = NumberOf(t)
    BY <1>4, <1>5, RestPlaces
  <2>3. \A t \in Tasks : NumberOf(t)' = NumberOf(t)
    BY <2>1, <2>2
  <2> QED BY <1>1, <1>2, <2>3, NumbersSame
<1>11. MatchInv'
  BY <1>1, <1>4, <1>5, <1>6, RestMatch
<1>12. QueuesInv'
  <2> SUFFICES ASSUME NEW x \in Ports
               PROVE  /\ Lists(por'[x].call_queue, Callers(x)')
                      /\ Lists(por'[x].accept_queue, Acceptors(x)')
                      /\ ~por'[x].porid => Callers(x)' = {} /\ Acceptors(x)' = {}
    BY DEF QueuesInv
  <2>1. \A t \in T : t \notin Callers(x)' /\ t \notin Acceptors(x)'
    BY <1>6 DEF Callers, Acceptors
  <2>2. Callers(x)' \ T = Callers(x) \ T /\ Acceptors(x)' \ T = Acceptors(x) \ T
    BY <1>4, <1>5, RestPlaces
  <2>3. CASE x = p
    <3>1. Callers(x)' = {} /\ Acceptors(x)' = {}
      BY <1>3, <2>1, <2>2, <2>3
    <3> QED BY <1>7, <1>8, <2>3, <3>1, NothingListed
  <2>4. CASE x # p
    <3>1. \A t \in T : t \notin Callers(x) /\ t \notin Acceptors(x)
      BY <1>3, <2>4 DEF Callers, Acceptors, Waits
    <3>2. Callers(x)' = Callers(x) /\ Acceptors(x)' = Acceptors(x)
      BY <2>1, <2>2, <3>1
    <3> QED BY <1>1, <1>8, <2>4, <3>2 DEF QueuesInv
  <2> QED BY <2>3, <2>4
<1>13. TermsInv'
  <2> SUFFICES ASSUME NEW t \in Tasks PROVE Terms(t)'
    BY DEF TermsInv
  <2>1. CASE t \in T
    BY <1>5, <1>6, <2>1 DEF Terms
  <2>2. CASE t \notin T
    <3>1. winfo'[t] = winfo[t] /\ waitmask'[t] = waitmask[t] /\ Terms(t)
      BY <1>1, <1>2, <1>5, <2>2 DEF TermsInv, Rest
    <3>2. /\ Waits(t, "CAL") => winfo[t].wid \in Ports \ {p}
          /\ Waits(t, "ACP") => winfo[t].wid \in Ports \ {p}
      BY <1>1, <1>3, <2>2, InfoKinds DEF Callers, Acceptors
    <3> QED BY <1>8, <3>1, <3>2 DEF Terms, Waits
  <2> QED BY <2>1, <2>2
<1> QED BY <1>9, <1>10, <1>11, <1>12, <1>13 DEF RdvInv, PortsInv

\* Who matches waits at the port, and if nobody does the patterns are disjoint.
LEMMA MatchOf ==
  ASSUME RdvInv, NEW p \in Ports, NEW ptn
  PROVE  /\ \A c \in first_match(por[p].call_queue, ptn) : c \in Callers(p)
         /\ first_match(por[p].call_queue, ptn) = {}
              => \A c \in Callers(p) : winfo[c].ptn \cap ptn = {}
         /\ \A a \in first_match(por[p].accept_queue, ptn) : a \in Acceptors(p)
         /\ first_match(por[p].accept_queue, ptn) = {}
              => \A a \in Acceptors(p) : winfo[a].ptn \cap ptn = {}
<1>1. Lists(por[p].call_queue, Callers(p)) /\ Lists(por[p].accept_queue, Acceptors(p))
  BY DEF RdvInv, PortsInv, QueuesInv
<1>2. \/ /\ first_match(por[p].call_queue, ptn) = {}
         /\ \A c \in Callers(p) : winfo[c].ptn \cap ptn = {}
      \/ \E c \in Callers(p) : first_match(por[p].call_queue, ptn) = {c}
  BY <1>1, FirstMatch
<1>3. \/ /\ first_match(por[p].accept_queue, ptn) = {}
         /\ \A a \in Acceptors(p) : winfo[a].ptn \cap ptn = {}
      \/ \E a \in Acceptors(p) : first_match(por[p].accept_queue, ptn) = {a}
  BY <1>1, FirstMatch
<1> QED BY <1>2, <1>3

\* One of two kinds of waits is none of another kind.
LEMMA OneKind ==
  ASSUME NEW t
  PROVE  /\ Waits(t, "CAL") => ~Waits(t, "ACP") /\ ~Waits(t, "RDV")
         /\ Waits(t, "ACP") => ~Waits(t, "CAL") /\ ~Waits(t, "RDV")
         /\ winfo[t] = NoInfo => \A f : ~Waits(t, f)
BY DEF Waits

\* A call.
LEMMA CallInv ==
  ASSUME RdvInv, NEW t \in Tasks, NEW p \in Ports, NEW ptn \in Ptn, tk_cal_por_u(t, p, ptn)
  PROVE  RdvInv'
<1>1. /\ winfo[t] = NoInfo /\ por[p].porid /\ waitmask' = waitmask
      /\ ~is_diswai(p, t, "CAL")
  BY DEF tk_cal_por_u
<1>2. \A f : ~Waits(t, f)
  BY <1>1, OneKind
<1>3. por[p].maxrmsz \in Nat /\ por[p].maxrmsz <= por[p].maxrmsz
  BY DEF RdvInv, PortsInv, RdvTypes, PORCBs
<1>4. CASE \E a \in first_match(por[p].accept_queue, ptn) :
             established(p, t, a, por[p].nodiswai, por[p].maxrmsz)
  <2>1. PICK a \in first_match(por[p].accept_queue, ptn) :
          established(p, t, a, por[p].nodiswai, por[p].maxrmsz)
    BY <1>4
  <2>2. a \in Acceptors(p)
    BY MatchOf
  <2>3. a \in Tasks /\ Waits(a, "ACP") /\ winfo[a].wid = p
    BY <2>2 DEF Acceptors
  <2>4. a # t /\ ~Waits(a, "CAL") /\ ~Waits(a, "RDV")
    BY <1>2, <2>3, OneKind
  <2>5. PICK nodis, size : nodis = por[p].nodiswai /\ size = por[p].maxrmsz
    OBVIOUS
  <2>6. established(p, t, a, nodis, size)
    BY <2>1, <2>5
  <2>7. size \in Nat /\ por[p].maxrmsz <= size
    BY <1>3, <2>5
  <2> QED BY <1>1, <1>2, <2>3, <2>4, <2>5, <2>6, <2>7, EstablishedInv
<1>5. CASE /\ first_match(por[p].accept_queue, ptn) = {}
           /\ called(p, t, ptn, por[p].maxrmsz)
  <2>1. \A a \in Acceptors(p) : winfo[a].ptn \cap ptn = {}
    BY <1>5, MatchOf
  <2> QED BY <1>1, <1>2, <1>3, <1>5, <2>1, CalledInv
<1> QED BY <1>4, <1>5 DEF tk_cal_por_u

\* An accept.
LEMMA AcceptInv ==
  ASSUME RdvInv, NEW t \in Tasks, NEW p \in Ports, NEW ptn \in Ptn, tk_acp_por_u(t, p, ptn)
  PROVE  RdvInv'
<1>1. /\ winfo[t] = NoInfo /\ por[p].porid /\ waitmask' = waitmask
      /\ ~is_diswai(p, t, "ACP")
  BY DEF tk_acp_por_u
<1>2. \A f : ~Waits(t, f)
  BY <1>1, OneKind
<1>3. CASE \E c \in first_match(por[p].call_queue, ptn) :
             established(p, c, t, winfo[c].nodiswai, winfo[c].room)
  <2>1. PICK c \in first_match(por[p].call_queue, ptn) :
          established(p, c, t, winfo[c].nodiswai, winfo[c].room)
    BY <1>3
  <2>2. c \in Callers(p)
    BY MatchOf
  <2>3. c \in Tasks /\ Waits(c, "CAL") /\ winfo[c].wid = p
    BY <2>2 DEF Callers
  <2>4. c # t /\ ~Waits(c, "ACP")
    BY <1>2, <2>3, OneKind
  <2>5. winfo[c].room \in Nat
    BY <2>3, InfoKinds DEF RdvInv, PortsInv
  <2>6. winfo[c].nodiswai = por[p].nodiswai /\ por[p].maxrmsz <= winfo[c].room
    BY <2>3 DEF RdvInv, PortsInv, TermsInv, Terms
  <2> QED BY <1>1, <1>2, <2>1, <2>3, <2>4, <2>5, <2>6, EstablishedInv
<1>4. CASE /\ first_match(por[p].call_queue, ptn) = {}
           /\ AcceptWait(t, p, ptn)
  <2>1. \A c \in Callers(p) : winfo[c].ptn \cap ptn = {}
    BY <1>4, MatchOf
  <2> QED BY <1>1, <1>4, <2>1, AcceptWaitInv
<1> QED BY <1>3, <1>4 DEF tk_acp_por_u, AcceptWait

\* A rendezvous is forwarded to another port.
LEMMA ForwardInv ==
  ASSUME RdvInv, NEW e \in known, NEW p \in Ports, NEW ptn \in Ptn, tk_fwd_por(e, p, ptn)
  PROVE  RdvInv'
<1> DEFINE c == e.tskid
<1>1. /\ c \in Tasks
      /\ waitmask \in [Tasks -> SUBSET Factors]
  BY DEF RdvInv, PortsInv, RdvTypes, NumbersInv, Known
<1>2. /\ por[p].porid /\ waitmask' = waitmask
      /\ Waits(c, "RDV") /\ por[p].maxrmsz <= winfo[c].maxrmsz
  BY DEF tk_fwd_por, rdv_of
<1>3. \/ is_diswai(p, c, "CAL") /\ release(c) /\ UNCHANGED wrdvno
      \/ ~is_diswai(p, c, "CAL") /\ \E a \in first_match(por[p].accept_queue, ptn) :
           established(p, c, a, por[p].nodiswai, winfo[c].room)
      \/ /\ ~is_diswai(p, c, "CAL")
         /\ first_match(por[p].accept_queue, ptn) = {}
         /\ called(p, c, ptn, winfo[c].room)
  BY DEF tk_fwd_por
<1> HIDE DEF c
<1>4. ~Waits(c, "CAL") /\ ~Waits(c, "ACP")
  BY <1>2, OneKind
<1>5. winfo[c].room \in Nat /\ por[p].maxrmsz <= winfo[c].room
  <2>1. winfo[c].room \in Nat /\ winfo[c].maxrmsz \in Nat
    BY <1>1, <1>2, InfoKinds DEF RdvInv, PortsInv
  <2>2. winfo[c].maxrmsz <= winfo[c].room
    BY <1>1, <1>2 DEF RdvInv, PortsInv, TermsInv, Terms
  <2>3. por[p].maxrmsz \in Nat
    BY DEF RdvInv, PortsInv, RdvTypes, PORCBs
  <2> QED BY <1>2, <2>1, <2>2, <2>3
<1>6. CASE is_diswai(p, c, "CAL") /\ release(c) /\ UNCHANGED wrdvno
  BY <1>1, <1>2, <1>6, ReleaseInv
<1>7. CASE ~is_diswai(p, c, "CAL") /\ \E a \in first_match(por[p].accept_queue, ptn) :
             established(p, c, a, por[p].nodiswai, winfo[c].room)
  <2>1. PICK a \in first_match(por[p].accept_queue, ptn) :
          established(p, c, a, por[p].nodiswai, winfo[c].room)
    BY <1>7
  <2>2. a \in Acceptors(p)
    BY MatchOf
  <2>3. a \in Tasks /\ Waits(a, "ACP") /\ winfo[a].wid = p
    BY <2>2 DEF Acceptors
  <2>4. a # c /\ ~Waits(a, "CAL") /\ ~Waits(a, "RDV")
    BY <1>4, <2>3, OneKind
  <2>5. PICK nodis, size : nodis = por[p].nodiswai /\ size = winfo[c].room
    OBVIOUS
  <2>6. established(p, c, a, nodis, size)
    BY <2>1, <2>5
  <2>7. size \in Nat /\ por[p].maxrmsz <= size
    BY <1>5, <2>5
  <2> QED BY <1>1, <1>2, <1>4, <2>3, <2>4, <2>5, <2>6, <2>7, EstablishedInv
<1>8. CASE /\ ~is_diswai(p, c, "CAL")
           /\ first_match(por[p].accept_queue, ptn) = {}
           /\ called(p, c, ptn, winfo[c].room)
  <2>1. \A a \in Acceptors(p) : winfo[a].ptn \cap ptn = {}
    BY <1>8, MatchOf
  <2> QED BY <1>1, <1>2, <1>4, <1>5, <1>8, <2>1, CalledInv
<1> QED BY <1>3, <1>6, <1>7, <1>8

\* A reply, and any other end of a wait.
LEMMA ReplyInv ==
  ASSUME RdvInv, \/ \E e \in known : tk_rpl_rdv(e)
                 \/ \E t \in Tasks : release_wait(t)
  PROVE  RdvInv'
<1>1. PICK t \in Tasks : release(t) /\ wrdvno' = wrdvno /\ waitmask' = waitmask
  <2>1. \A e \in known : e.tskid \in Tasks
    BY DEF RdvInv, NumbersInv, Known
  <2> QED BY <2>1 DEF tk_rpl_rdv, release_wait
<1>2. waitmask \in [Tasks -> SUBSET Factors]
  BY DEF RdvInv, PortsInv, RdvTypes
<1> QED BY <1>1, <1>2, ReleaseInv

\* Disabling waits ends one that may be disabled.
LEMMA DisableInv ==
  ASSUME RdvInv, NEW t \in Tasks, NEW mask \in Masks, tk_dis_wai(t, mask)
  PROVE  RdvInv'
<1>1. /\ waitmask' = [waitmask EXCEPT ![t] = mask] /\ wrdvno' = wrdvno
      /\ IF winfo[t] # NoInfo /\ winfo[t].tskwait \in mask /\ ~winfo[t].nodiswai
         THEN release(t)
         ELSE UNCHANGED <<winfo, por, known>>
  BY DEF tk_dis_wai
<1>2. RdvTypes /\ TermsInv
  BY DEF RdvInv, PortsInv
<1>3. mask \in SUBSET Factors
  BY RdvAssumption DEF Factors
<1>4. /\ waitmask' \in [Tasks -> SUBSET Factors]
      /\ waitmask'[t] = mask /\ \A u \in Tasks \ {t} : waitmask'[u] = waitmask[u]
  BY <1>1, <1>2, <1>3 DEF RdvTypes
<1>5. CASE winfo[t] # NoInfo /\ winfo[t].tskwait \in mask /\ ~winfo[t].nodiswai
  BY <1>1, <1>4, <1>5, ReleaseInv
<1>6. CASE ~(winfo[t] # NoInfo /\ winfo[t].tskwait \in mask /\ ~winfo[t].nodiswai)
  <2>1. winfo' = winfo /\ por' = por /\ known' = known
    BY <1>1, <1>6
  <2>2. Terms(t)'
    BY <1>2, <1>4, <1>6, <2>1 DEF TermsInv, Terms, Waits
  <2>3. Rest({t}) /\ SamePorts
    BY <2>1 DEF Rest, SamePorts
  <2>4. TermsInv'
    BY <1>2, <1>4, <2>2, <2>3, RestTerms
  <2> QED BY <1>1, <1>4, <2>1, <2>4, NoWaitInv
<1> QED BY <1>5, <1>6

\* Enabling them again.
LEMMA EnableInv ==
  ASSUME RdvInv, NEW t \in Tasks, tk_ena_wai(t)
  PROVE  RdvInv'
<1>1. /\ waitmask' = [waitmask EXCEPT ![t] = {}]
      /\ winfo' = winfo /\ por' = por /\ known' = known /\ wrdvno' = wrdvno
  BY DEF tk_ena_wai
<1>2. RdvTypes /\ TermsInv
  BY DEF RdvInv, PortsInv
<1>3. /\ waitmask' \in [Tasks -> SUBSET Factors]
      /\ waitmask'[t] = {} /\ \A u \in Tasks \ {t} : waitmask'[u] = waitmask[u]
  BY <1>1, <1>2 DEF RdvTypes
<1>4. Terms(t)'
  BY <1>1, <1>2, <1>3 DEF TermsInv, Terms, Waits
<1>5. Rest({t}) /\ SamePorts
  BY <1>1 DEF Rest, SamePorts
<1>6. TermsInv'
  BY <1>2, <1>3, <1>4, <1>5, RestTerms
<1> QED BY <1>1, <1>3, <1>6, NoWaitInv

\* A caller takes another place in its queue.
LEMMA PriorityInv ==
  ASSUME RdvInv, NEW t \in Tasks, NEW pri \in Pri, tk_chg_pri(t, pri)
  PROVE  RdvInv'
<1>1. /\ waitmask' = waitmask /\ winfo' = winfo /\ known' = known /\ wrdvno' = wrdvno
      /\ por' = IF Waits(t, "CAL") /\ por[winfo[t].wid].tpri
                THEN [por EXCEPT ![winfo[t].wid].call_queue =
                        queue_insert_tpri(QueRemove(@, t), t, priority')]
                ELSE por
  BY DEF tk_chg_pri
<1>2. RdvTypes /\ TermsInv /\ QueuesInv
  BY DEF RdvInv, PortsInv
<1>3. waitmask' \in [Tasks -> SUBSET Factors] /\ Rest({})
  BY <1>1, <1>2 DEF RdvTypes, Rest
<1>4. CASE por' = por
  <2>1. SamePorts
    BY <1>4 DEF SamePorts
  <2>2. TermsInv'
    BY <1>1, <1>2, <1>3, <2>1, RestTerms
  <2> QED BY <1>1, <1>3, <1>4, <2>2, NoWaitInv
<1>5. CASE Waits(t, "CAL") /\ por' # por
  <2>1. PICK p \in Ports : p = winfo[t].wid
    BY <1>2, <1>5, InfoKinds
  <2>2. t \in Callers(p)
    BY <1>5, <2>1 DEF Callers
  <2> DEFINE q == queue_insert_tpri(QueRemove(por[p].call_queue, t), t, priority')
  <2>3. Lists(q, Callers(p))
    <3>1. Lists(QueRemove(por[p].call_queue, t), Callers(p) \ {t})
      BY <1>2, RemoveList DEF QueuesInv
    <3>2. Lists(q, (Callers(p) \ {t}) \cup {t})
      BY <3>1, InsertList
    <3>3. (Callers(p) \ {t}) \cup {t} = Callers(p)
      BY <2>2
    <3> QED BY <3>2, <3>3
  <2>4. por' = [por EXCEPT ![p].call_queue = q]
    BY <1>1, <1>5, <2>1
  <2>5. q \in Seq(Tasks)
    <3>1. Callers(p) \in SUBSET Tasks
      BY DEF Callers
    <3> HIDE DEF q
    <3> QED BY <2>3, <3>1, ListsSeq
  <2> HIDE DEF q
  <2>6. Requeued(p, q, por[p].accept_queue)
    BY <1>2, <2>4, <2>5, CallersPorts DEF RdvTypes
  <2>7. por'[p].call_queue = q /\ SamePorts
    BY <2>6 DEF Requeued
  <2>8. TermsInv'
    BY <1>1, <1>2, <1>3, <2>7, RestTerms
  <2>9. por[p].porid
    BY <1>2, <2>2 DEF QueuesInv
  <2> QED BY <1>1, <1>3, <2>3, <2>6, <2>7, <2>8, <2>9, NoWaitInv
<1> QED BY <1>1, <1>4, <1>5

---------------------------------------------------------------------------
(* The theorems. *)

\* The initial states.
LEMMA RdvInitial ==
  ASSUME Init
  PROVE  RdvInv
<1>1. /\ winfo = [t \in Tasks |-> NoInfo] /\ waitmask = [t \in Tasks |-> {}]
      /\ wrdvno = [t \in Tasks |-> 0] /\ known = {}
      /\ por = [p \in Ports |-> free_porcb]
  BY DEF Init
<1>2. \A t \in Tasks : \A f : ~Waits(t, f)
  BY <1>1 DEF Waits
<1>3. /\ \A p : Callers(p) = {} /\ Acceptors(p) = {}
      /\ \A t \in Tasks : NumberOf(t) = {}
  BY <1>2 DEF Callers, Acceptors, NumberOf
<1>4. 0 \in Numbers
  BY RdvAssumption DEF Numbers
<1>5. NumbersInv
  BY <1>1, <1>3, <1>4 DEF NumbersInv
<1>6. /\ free_porcb \in PORCBs /\ free_porcb.call_queue = << >>
      /\ free_porcb.accept_queue = << >>
  <2>1. << >> \in Seq(Tasks)
    OBVIOUS
  <2> QED BY <2>1 DEF free_porcb, PORCBs
<1>7. RdvTypes
  BY <1>1, <1>6 DEF RdvTypes
<1>8. QueuesInv
  BY <1>1, <1>3, <1>6, NothingListed DEF QueuesInv
<1>9. MatchInv
  BY <1>3 DEF MatchInv
<1>10. TermsInv
  BY <1>1, <1>2 DEF TermsInv, Terms
<1> QED BY <1>5, <1>7, <1>8, <1>9, <1>10 DEF RdvInv, PortsInv

\* Numbers, queues, pairs and terms: what every call leaves as it should be.
THEOREM RdvInductive == RdvSpec => []RdvInv
<1>1. Init => RdvInv
  BY RdvInitial
<1>2. RdvInv /\ [Next]_vars => RdvInv'
  <2> SUFFICES ASSUME RdvInv, [Next]_vars PROVE RdvInv'
    OBVIOUS
  <2>1. ASSUME NEW p \in Ports, tk_del_por(p) PROVE RdvInv'
    BY <2>1, DeleteInv
  <2>2. ASSUME NEW p \in Ports, NEW atr \in PorAtrs, tk_cre_por(p, atr) PROVE RdvInv'
    BY <2>2, CreateInv
  <2>3. ASSUME NEW p \in Ports, NEW ptn \in Ptn, NEW t \in Tasks, tk_cal_por_u(t, p, ptn)
        PROVE  RdvInv'
    BY <2>3, CallInv
  <2>4. ASSUME NEW p \in Ports, NEW ptn \in Ptn, NEW t \in Tasks, tk_acp_por_u(t, p, ptn)
        PROVE  RdvInv'
    BY <2>4, AcceptInv
  <2>5. ASSUME NEW p \in Ports, NEW ptn \in Ptn, NEW e \in known, tk_fwd_por(e, p, ptn)
        PROVE  RdvInv'
    BY <2>5, ForwardInv
  <2>6. ASSUME NEW e \in known, tk_rpl_rdv(e) PROVE RdvInv'
    BY <2>6, ReplyInv
  <2>7. ASSUME NEW t \in Tasks, release_wait(t) PROVE RdvInv'
    BY <2>7, ReplyInv
  <2>8. ASSUME NEW t \in Tasks, tk_ena_wai(t) PROVE RdvInv'
    BY <2>8, EnableInv
  <2>9. ASSUME NEW t \in Tasks, NEW mask \in Masks, tk_dis_wai(t, mask) PROVE RdvInv'
    BY <2>9, DisableInv
  <2>10. ASSUME NEW t \in Tasks, NEW pri \in Pri, tk_chg_pri(t, pri) PROVE RdvInv'
    BY <2>10, PriorityInv
  <2>11. CASE UNCHANGED vars
    <3>1. /\ winfo' = winfo /\ wrdvno' = wrdvno /\ known' = known /\ por' = por
          /\ waitmask' = waitmask
      BY <2>11 DEF vars
    <3>2. waitmask \in [Tasks -> SUBSET Factors] /\ TermsInv
      BY DEF RdvInv, PortsInv, RdvTypes
    <3>3. TermsInv'
      BY <3>1, <3>2 DEF TermsInv, Terms, Waits
    <3> QED BY <3>1, <3>2, <3>3, NoWaitInv
  <2> QED BY <2>1, <2>2, <2>3, <2>4, <2>5, <2>6, <2>7, <2>8, <2>9, <2>10, <2>11 DEF Next
<1> QED BY <1>1, <1>2, PTL DEF RdvSpec

\* A rendezvous number names the rendezvous it was made for and no later one,
\* however the numbers wrap around (rendezvous.c, gen_rdvno and tk_rpl_rdv).
THEOREM NumbersNameRendezvous == RdvSpec => []NumberNamesItsRendezvous
<1>1. RdvInv => NumberNamesItsRendezvous
  BY NumbersName DEF RdvInv
<1> QED BY <1>1, RdvInductive, PTL

\* No caller waits beside an acceptor of its pattern, and the queues of a port
\* hold those who wait there (rendezvous.c, tk_cal_por_u, tk_acp_por_u and
\* tk_fwd_por).
THEOREM NoPairIsLeft == RdvSpec => []NoMatchingPair
<1>1. RdvInv => NoMatchingPair
  <2> SUFFICES ASSUME RdvInv, NEW p \in Ports
               PROVE  /\ Range(por[p].call_queue) = Callers(p)
                      /\ Range(por[p].accept_queue) = Acceptors(p)
                      /\ \A c \in Callers(p), a \in Acceptors(p) :
                           winfo[c].ptn \cap winfo[a].ptn = {}
    BY DEF NoMatchingPair, Callers, Acceptors
  <2>1. Lists(por[p].call_queue, Callers(p)) /\ Lists(por[p].accept_queue, Acceptors(p))
    BY DEF RdvInv, PortsInv, QueuesInv
  <2>2. \A c \in Callers(p), a \in Acceptors(p) : winfo[c].ptn \cap winfo[a].ptn = {}
    BY DEF RdvInv, PortsInv, MatchInv
  <2> QED BY <2>1, <2>2 DEF Lists
<1> QED BY <1>1, RdvInductive, PTL

\* No wait a call passes is a disabled one, and no reply is longer than the
\* caller's buffer (rendezvous.c, tk_fwd_por and tk_rpl_rdv).
THEOREM TermsAreKept == RdvSpec => []CallKeepsItsTerms
<1>1. RdvInv => CallKeepsItsTerms
  BY DEF RdvInv, PortsInv, TermsInv, Terms, CallKeepsItsTerms
<1> QED BY <1>1, RdvInductive, PTL
=============================================================================

-------------------------- MODULE Subsystem_proofs --------------------------
EXTENDS Subsystem, WaitQueue_proofs, FiniteSetTheorems

SSID   == Ssys \cup {NULL}
TEXFLG == {"SSFN", "TEX0", "TEX1"}
Kinds  == {"svc", "ras", "ssfn", "brk"}
Places == {"lock", "locked", "body", "leave", "leaving", "break", "unlock", "self", "refused", "done"}
Counts == {0, 1}

\* A frame and the part of a control block that matter here.
FRAME ==
  [k : Kinds, at : Places,
   who : Tasks, ssid : SSID, exectex : SUBSET Codes, waitmask : BOOLEAN,
   execssid : SSID, ran : BOOLEAN, texflg : SUBSET TEXFLG, breaks : Counts]

TCB ==
  [alive : BOOLEAN, priority : Nat, sysmode : Nat, waitmask : BOOLEAN, reqdct : BOOLEAN,
   texhdr : BOOLEAN, texmask : SUBSET Codes, pendtex : SUBSET Codes, exectex : SUBSET Codes,
   texflg : SUBSET TEXFLG, execssid : SSID, ran : BOOLEAN]

Inside == {"body", "leave", "leaving"}

\* A call of an extended SVC that was entered; a function of a subsystem or
\* a break function; what counts in sysmode.
Ent(f)   == f.k = "svc" /\ f.ssid # NULL
InFn(f)  == f.k \in {"ssfn", "brk"} /\ f.at = "body"
InSys(f) == f.k \in {"svc", "brk", "ssfn"} /\ f.at \in Inside

FrameOK(f) ==
  /\ f.ssid # NULL <=> f.k = "svc" /\ f.at \in Inside
  /\ f.k = "brk" => f.at = "body"
  /\ f.k = "ssfn" => f.at \in {"body", "break", "done"}
  /\ f.ssid = NULL => f.breaks = 0 /\ f.exectex = {}

\* A frame that leaves no trace.
Plain(f) == ~Ent(f) /\ ~InFn(f) /\ ~InSys(f) /\ f.k # "brk" /\ f.breaks = 0 /\ f.exectex = {}

\* i is the next entered call below j; the innermost one; the outermost one.
Above(s, i, j) ==
  /\ Ent(s[i]) /\ Ent(s[j]) /\ i < j
  /\ \A k \in 1 .. Len(s) : i < k /\ k < j => ~Ent(s[k])
Inmost(s, i)  == Ent(s[i]) /\ \A k \in 1 .. Len(s) : i < k => ~Ent(s[k])
Outmost(s, j) == Ent(s[j]) /\ \A k \in 1 .. Len(s) : k < j => ~Ent(s[k])
NoneIn(s)     == \A k \in 1 .. Len(s) : ~Ent(s[k])

\* A call that was not marked as broken was not broken.
Chained(s, b) ==
  /\ \A i, j \in 1 .. Len(s) : Above(s, i, j) /\ s[j].ran = FALSE => s[i].breaks = 0
  /\ \A i \in 1 .. Len(s) : Inmost(s, i) /\ b.ran = FALSE => s[i].breaks = 0
  /\ \A j \in 1 .. Len(s) : Outmost(s, j) => s[j].execssid = NULL /\ s[j].ran = FALSE
  /\ NoneIn(s) => b.execssid = NULL /\ b.ran = FALSE

\* The marks in force are those of the functions that run.
Marked(s, b) ==
  /\ \A i \in 1 .. Len(s) : InFn(s[i]) =>
       /\ "SSFN" \in s[i].texflg <=> \E j \in 1 .. Len(s) : j < i /\ InFn(s[j])
       /\ s[i].texflg \ {"SSFN"} = b.texflg \ {"SSFN"}
  /\ "SSFN" \in b.texflg <=> \E j \in 1 .. Len(s) : InFn(s[j])

\* The exceptions that wait for the task to come back to user level.
Owed(b) == {c \in b.pendtex : "TEX0" \notin b.texflg /\ ("TEX1" \in b.texflg => c = 0)}

Owing(s, b) ==
  /\ \A c \in Owed(b) : c \in b.exectex \/ \E i \in 1 .. Len(s) : c \in s[i].exectex
  /\ Owed(b) # {} => b.reqdct = TRUE

Raised(t, s, b) == b.priority = bpriority[t] \/ \E i \in 1 .. Len(s) : s[i].k = "brk"

Sys(s) == {i \in 1 .. Len(s) : InSys(s[i])}

Good(t, s, b) ==
  /\ s \in Seq(FRAME) /\ b \in TCB
  /\ \A i \in 1 .. Len(s) : FrameOK(s[i])
  /\ Chained(s, b)
  /\ Marked(s, b)
  /\ Owing(s, b)
  /\ Raised(t, s, b)
  /\ b.sysmode = Cardinality(Sys(s))

FInv ==
  /\ stack \in [Tasks -> Seq(FRAME)]
  /\ tcb \in [Tasks -> TCB]
  /\ \A t \in Tasks : Good(t, stack[t], tcb[t])

USE SubsystemAssumption

---------------------------------------------------------------------------

\* Two frames that differ in nothing the invariant looks at.
Same(f, g) ==
  /\ f.k = g.k /\ (Ent(f) <=> Ent(g)) /\ (InFn(f) <=> InFn(g)) /\ (InSys(f) <=> InSys(g))
  /\ f.breaks = g.breaks /\ f.ran = g.ran /\ f.execssid = g.execssid
  /\ f.exectex = g.exectex /\ f.texflg = g.texflg

\* Two stacks that differ in plain frames at the end only.
Alike(r, s) ==
  /\ \A i \in 1 .. Len(r) : IF i <= Len(s) THEN Same(r[i], s[i]) ELSE Plain(r[i])
  /\ \A i \in 1 .. Len(s) : i > Len(r) => Plain(s[i])

\* The two control blocks differ in nothing the invariant looks at.
Still(c, b) ==
  /\ c.priority = b.priority /\ c.sysmode = b.sysmode /\ c.reqdct = b.reqdct
  /\ c.pendtex = b.pendtex /\ c.exectex = b.exectex /\ c.texflg = b.texflg
  /\ c.execssid = b.execssid /\ c.ran = b.ran

\* Such a change is of no consequence.
LEMMA AlikeGood ==
  ASSUME NEW t, NEW s, NEW b, Good(t, s, b),
         NEW r \in Seq(FRAME), NEW c \in TCB, Alike(r, s), Still(c, b),
         \A i \in 1 .. Len(r) : FrameOK(r[i])
  PROVE  Good(t, r, c)
<1>1. Len(s) \in Nat /\ Len(r) \in Nat
  BY LenProperties DEF Good
<1>2. \A i \in 1 .. Len(r) : i \in 1 .. Len(s) => Same(r[i], s[i])
  BY <1>1 DEF Alike
<1>3. \A i \in 1 .. Len(r) : i \notin 1 .. Len(s) => Plain(r[i])
  BY <1>1 DEF Alike
<1>4. \A i \in 1 .. Len(s) : i \notin 1 .. Len(r) => Plain(s[i])
  BY <1>1 DEF Alike
<1>5. \A i \in 1 .. Len(r) : Ent(r[i]) => i \in 1 .. Len(s) /\ Ent(s[i])
  BY <1>2, <1>3 DEF Same, Plain
<1>6. \A i \in 1 .. Len(s) : Ent(s[i]) => i \in 1 .. Len(r) /\ Ent(r[i])
  BY <1>2, <1>4 DEF Same, Plain
<1>7. \A i \in 1 .. Len(r) : InFn(r[i]) => i \in 1 .. Len(s) /\ InFn(s[i])
  BY <1>2, <1>3 DEF Same, Plain
<1>8. \A i \in 1 .. Len(s) : InFn(s[i]) => i \in 1 .. Len(r) /\ InFn(r[i])
  BY <1>2, <1>4 DEF Same, Plain
<1>9. Chained(r, c)
  <2>1. ASSUME NEW i \in 1 .. Len(r), NEW j \in 1 .. Len(r), Above(r, i, j), r[j].ran = FALSE
        PROVE  r[i].breaks = 0
    <3>1. i \in 1 .. Len(s) /\ j \in 1 .. Len(s) /\ Above(s, i, j)
      BY <1>5, <1>6, <2>1 DEF Above
    <3>2. Same(r[i], s[i]) /\ Same(r[j], s[j])
      BY <1>2, <3>1
    <3>3. s[j].ran = FALSE /\ r[i].breaks = s[i].breaks
      BY <2>1, <3>2 DEF Same
    <3> QED BY <3>1, <3>3 DEF Good, Chained
  <2>2. ASSUME NEW i \in 1 .. Len(r), Inmost(r, i), c.ran = FALSE
        PROVE  r[i].breaks = 0
    <3>1. i \in 1 .. Len(s) /\ Inmost(s, i)
      BY <1>5, <1>6, <2>2 DEF Inmost
    <3>2. r[i].breaks = s[i].breaks /\ b.ran = FALSE
      BY <1>2, <2>2, <3>1 DEF Same, Still
    <3> QED BY <3>1, <3>2 DEF Good, Chained
  <2>3. ASSUME NEW j \in 1 .. Len(r), Outmost(r, j)
        PROVE  r[j].execssid = NULL /\ r[j].ran = FALSE
    <3>1. j \in 1 .. Len(s) /\ Outmost(s, j)
      BY <1>5, <1>6, <2>3 DEF Outmost
    <3>2. r[j].execssid = s[j].execssid /\ r[j].ran = s[j].ran
      BY <1>2, <3>1 DEF Same
    <3> QED BY <3>1, <3>2 DEF Good, Chained
  <2>4. NoneIn(r) => c.execssid = NULL /\ c.ran = FALSE
    BY <1>6 DEF Good, Chained, NoneIn, Still
  <2> QED BY <2>1, <2>2, <2>3, <2>4 DEF Chained
<1>10. Marked(r, c)
  <2>1. c.texflg = b.texflg
    BY DEF Still
  <2>2. ASSUME NEW i \in 1 .. Len(r), InFn(r[i])
        PROVE  /\ "SSFN" \in r[i].texflg <=> \E j \in 1 .. Len(r) : j < i /\ InFn(r[j])
               /\ r[i].texflg \ {"SSFN"} = c.texflg \ {"SSFN"}
    <3>1. i \in 1 .. Len(s) /\ InFn(s[i]) /\ r[i].texflg = s[i].texflg
      BY <1>2, <1>7, <2>2 DEF Same
    <3>2. (\E j \in 1 .. Len(r) : j < i /\ InFn(r[j])) <=> \E j \in 1 .. Len(s) : j < i /\ InFn(s[j])
      BY <1>7, <1>8
    <3> QED BY <2>1, <3>1, <3>2 DEF Good, Marked
  <2>3. "SSFN" \in c.texflg <=> \E j \in 1 .. Len(r) : InFn(r[j])
    BY <1>7, <1>8, <2>1 DEF Good, Marked
  <2> QED BY <2>2, <2>3 DEF Marked
<1>11. Owing(r, c)
  <2>1. Owed(c) = Owed(b) /\ c.exectex = b.exectex /\ c.reqdct = b.reqdct
    BY DEF Owed, Still
  <2>2. ASSUME NEW i \in 1 .. Len(s), NEW x \in s[i].exectex
        PROVE  \E j \in 1 .. Len(r) : x \in r[j].exectex
    <3>1. i \in 1 .. Len(r)
      BY <1>4, <2>2 DEF Plain
    <3> QED BY <1>2, <2>2, <3>1 DEF Same
  <2> QED BY <2>1, <2>2 DEF Good, Owing
<1>12. Raised(t, r, c)
  <2>1. ASSUME NEW i \in 1 .. Len(s), s[i].k = "brk" PROVE \E j \in 1 .. Len(r) : r[j].k = "brk"
    <3>1. i \in 1 .. Len(r)
      BY <1>4, <2>1 DEF Plain
    <3> QED BY <1>2, <2>1, <3>1 DEF Same
  <2> QED BY <2>1 DEF Good, Raised, Still
<1>13. Sys(r) = Sys(s)
  BY <1>2, <1>3, <1>4 DEF Sys, Same, Plain
<1> QED BY <1>9, <1>10, <1>11, <1>12, <1>13 DEF Good, Still

---------------------------------------------------------------------------

\* r is s with f on top; with f in place of its top; without its top, which
\* at most a plain frame replaces.
Pushed(r, s, f) ==
  /\ r \in Seq(FRAME) /\ Len(r) = Len(s) + 1 /\ r[Len(s) + 1] = f
  /\ \A i \in 1 .. Len(s) : r[i] = s[i]
Topped(r, s, f) ==
  /\ r \in Seq(FRAME) /\ Len(r) = Len(s) /\ Len(s) > 0 /\ r[Len(s)] = f
  /\ \A i \in 1 .. Len(s) - 1 : r[i] = s[i]
Sheds(r, s) ==
  /\ r \in Seq(FRAME) /\ Len(s) > 0
  /\ Len(r) = Len(s) - 1 \/ (Len(r) = Len(s) /\ Plain(r[Len(s)]) /\ FrameOK(r[Len(s)]))
  /\ \A i \in 1 .. Len(s) - 1 : r[i] = s[i]

\* Cardinality of the places.
LEMMA SysCount ==
  ASSUME NEW s \in Seq(FRAME), NEW n
  PROVE  /\ IsFiniteSet(Sys(s)) /\ Cardinality(Sys(s)) \in Nat
         /\ n \notin Sys(s) => Cardinality(Sys(s) \cup {n}) = Cardinality(Sys(s)) + 1
         /\ n \in Sys(s) => Cardinality(Sys(s) \ {n}) = Cardinality(Sys(s)) - 1
<1>1. Len(s) \in Int /\ 1 \in Int
  BY LenProperties
<1>2. IsFiniteSet(1 .. Len(s))
  BY <1>1, FS_Interval
<1>3. IsFiniteSet(Sys(s))
  BY <1>2, FS_Subset DEF Sys
<1> QED BY <1>3, FS_CardinalityType, FS_AddElement, FS_RemoveElement

\* The chain and the exceptions do not depend on functions and plain frames.
SameCalls(r, s) ==
  /\ \A i \in 1 .. Len(r) :
       \/ i \in 1 .. Len(s) /\ r[i] = s[i]
       \/ ~Ent(r[i]) /\ r[i].exectex = {}
  /\ \A i \in 1 .. Len(s) :
       \/ i \in 1 .. Len(r) /\ r[i] = s[i]
       \/ ~Ent(s[i]) /\ s[i].exectex = {}

\* The chain of the calls is that of the entered calls.
LEMMA SameCallsChained ==
  ASSUME NEW s, NEW b, Chained(s, b), NEW r, NEW c, SameCalls(r, s),
         Len(r) \in Nat, Len(s) \in Nat, c.execssid = b.execssid, c.ran = b.ran
  PROVE  Chained(r, c)
<1>1. \A i \in 1 .. Len(r) : Ent(r[i]) => i \in 1 .. Len(s) /\ Ent(s[i]) /\ r[i] = s[i]
  BY DEF SameCalls
<1>2. \A i \in 1 .. Len(s) : Ent(s[i]) => i \in 1 .. Len(r) /\ Ent(r[i])
  BY DEF SameCalls
<1>3. ASSUME NEW i \in 1 .. Len(r), NEW j \in 1 .. Len(r), Above(r, i, j), r[j].ran = FALSE
      PROVE  r[i].breaks = 0
  <2>1. i \in 1 .. Len(s) /\ j \in 1 .. Len(s) /\ Above(s, i, j) /\ s[i] = r[i] /\ s[j] = r[j]
    BY <1>1, <1>2, <1>3 DEF Above
  <2> QED BY <1>3, <2>1 DEF Chained
<1>4. ASSUME NEW i \in 1 .. Len(r), Inmost(r, i), c.ran = FALSE
      PROVE  r[i].breaks = 0
  <2>1. i \in 1 .. Len(s) /\ Inmost(s, i) /\ s[i] = r[i]
    BY <1>1, <1>2, <1>4 DEF Inmost
  <2> QED BY <1>4, <2>1 DEF Chained
<1>5. ASSUME NEW j \in 1 .. Len(r), Outmost(r, j)
      PROVE  r[j].execssid = NULL /\ r[j].ran = FALSE
  <2>1. j \in 1 .. Len(s) /\ Outmost(s, j) /\ s[j] = r[j]
    BY <1>1, <1>2, <1>5 DEF Outmost
  <2> QED BY <2>1 DEF Chained
<1>6. NoneIn(r) => c.execssid = NULL /\ c.ran = FALSE
  BY <1>2 DEF Chained, NoneIn
<1> QED BY <1>3, <1>4, <1>5, <1>6 DEF Chained

\* So is what is owed, with the exceptions that the calls keep.
LEMMA SameCallsOwing ==
  ASSUME NEW s, NEW b, Owing(s, b), NEW r, NEW c, SameCalls(r, s),
         Owed(c) \subseteq Owed(b), c.exectex = b.exectex, c.reqdct = b.reqdct
  PROVE  Owing(r, c)
<1>1. ASSUME NEW i \in 1 .. Len(s), NEW x \in s[i].exectex
      PROVE  \E j \in 1 .. Len(r) : x \in r[j].exectex
  BY <1>1 DEF SameCalls
<1> QED BY <1>1 DEF Owing

\* A function of a subsystem, or a break function, begins.
FnBegins(b, f, c) ==
  /\ InFn(f) /\ ~Ent(f) /\ FrameOK(f) /\ f.texflg = b.texflg /\ f.exectex = {}
  /\ c \in TCB /\ c.texflg = b.texflg \cup {"SSFN"} /\ c.sysmode = b.sysmode + 1
  /\ c.pendtex = b.pendtex /\ c.exectex = b.exectex /\ c.reqdct = b.reqdct
  /\ c.execssid = b.execssid /\ c.ran = b.ran
  /\ f.k = "brk" \/ c.priority = b.priority

\* A function of a subsystem, or a break function, begins.
LEMMA FnGood ==
  ASSUME NEW t, NEW s, NEW b, Good(t, s, b), NEW r, NEW f, Pushed(r, s, f), NEW c, FnBegins(b, f, c)
  PROVE  Good(t, r, c)
<1>0. /\ InFn(f) /\ ~Ent(f) /\ FrameOK(f) /\ f.texflg = b.texflg /\ f.exectex = {}
      /\ c \in TCB /\ c.texflg = b.texflg \cup {"SSFN"} /\ c.sysmode = b.sysmode + 1
      /\ c.pendtex = b.pendtex /\ c.exectex = b.exectex /\ c.reqdct = b.reqdct
      /\ c.execssid = b.execssid /\ c.ran = b.ran
      /\ f.k = "brk" \/ c.priority = b.priority
  BY DEF FnBegins
<1> USE <1>0
<1> DEFINE n == Len(s) + 1
<1>1. Len(s) \in Nat /\ s \in Seq(FRAME) /\ Len(r) = n /\ r[n] = f
  BY LenProperties DEF Good, Pushed
<1>2. \A i \in 1 .. Len(r) : (i \in 1 .. Len(s) /\ r[i] = s[i]) \/ (i = n /\ r[i] = f)
  BY <1>1 DEF Pushed
<1>3. \A i \in 1 .. Len(s) : i \in 1 .. Len(r) /\ r[i] = s[i]
  BY <1>1 DEF Pushed
<1>4. n \in 1 .. Len(r) /\ n \notin 1 .. Len(s)
  BY <1>1
<1> HIDE DEF n
<1>5. SameCalls(r, s)
  BY <1>2, <1>3 DEF SameCalls
<1>6. Chained(r, c)
  BY <1>1, <1>4, <1>5, SameCallsChained DEF Good, n
<1>7. Owing(r, c)
  <2>1. Owed(c) \subseteq Owed(b)
    BY DEF Owed
  <2> QED BY <1>5, <2>1, SameCallsOwing DEF Good
<1>8. Marked(r, c)
  <2>1. c.texflg \ {"SSFN"} = b.texflg \ {"SSFN"} /\ "SSFN" \in c.texflg
    OBVIOUS
  <2>2. ASSUME NEW i \in 1 .. Len(r), InFn(r[i])
        PROVE  /\ "SSFN" \in r[i].texflg <=> \E j \in 1 .. Len(r) : j < i /\ InFn(r[j])
               /\ r[i].texflg \ {"SSFN"} = c.texflg \ {"SSFN"}
    <3>1. CASE i \in 1 .. Len(s) /\ r[i] = s[i]
      <4>1. (\E j \in 1 .. Len(r) : j < i /\ InFn(r[j])) <=> \E j \in 1 .. Len(s) : j < i /\ InFn(s[j])
        BY <1>1, <1>2, <1>3, <3>1 DEF n
      <4> QED BY <2>1, <2>2, <3>1, <4>1 DEF Good, Marked
    <3>2. CASE i = n /\ r[i] = f
      <4>1. (\E j \in 1 .. Len(r) : j < i /\ InFn(r[j])) <=> \E j \in 1 .. Len(s) : InFn(s[j])
        BY <1>1, <1>2, <1>3, <3>2 DEF n
      <4> QED BY <2>1, <3>2, <4>1 DEF Good, Marked
    <3> QED BY <1>2, <3>1, <3>2
  <2>3. \E j \in 1 .. Len(r) : InFn(r[j])
    BY <1>1, <1>4
  <2> QED BY <2>1, <2>2, <2>3 DEF Marked
<1>9. Raised(t, r, c)
  BY <1>1, <1>3, <1>4 DEF Good, Raised
<1>10. c.sysmode = Cardinality(Sys(r))
  <2>1. InSys(f)
    BY DEF InFn, InSys, Inside
  <2>2. Sys(r) = Sys(s) \cup {n} /\ n \notin Sys(s)
    BY <1>1, <1>2, <1>3, <1>4, <2>1 DEF Sys
  <2> QED BY <1>1, <2>2, SysCount DEF Good
<1>11. \A i \in 1 .. Len(r) : FrameOK(r[i])
  BY <1>2 DEF Good
<1> QED BY <1>6, <1>7, <1>8, <1>9, <1>10, <1>11 DEF Good, Pushed

\* It ends.
FnEnds(t, b, f, c) ==
  /\ InFn(f)
  /\ c \in TCB /\ c.texflg = f.texflg /\ c.sysmode = b.sysmode - 1
  /\ c.pendtex = b.pendtex /\ c.exectex = b.exectex /\ c.reqdct = b.reqdct
  /\ c.execssid = b.execssid /\ c.ran = b.ran
  /\ c.priority = bpriority[t] \/ (c.priority = b.priority /\ f.k # "brk")

\* It ends.
LEMMA FnEndGood ==
  ASSUME NEW t, NEW s, NEW b, Good(t, s, b), NEW r, Sheds(r, s), NEW c, FnEnds(t, b, s[Len(s)], c)
  PROVE  Good(t, r, c)
<1>0. /\ InFn(s[Len(s)])
      /\ c \in TCB /\ c.texflg = s[Len(s)].texflg /\ c.sysmode = b.sysmode - 1
      /\ c.pendtex = b.pendtex /\ c.exectex = b.exectex /\ c.reqdct = b.reqdct
      /\ c.execssid = b.execssid /\ c.ran = b.ran
      /\ c.priority = bpriority[t] \/ (c.priority = b.priority /\ s[Len(s)].k # "brk")
  BY DEF FnEnds
<1> USE <1>0
<1> DEFINE n == Len(s)
<1>1. n \in Nat /\ n > 0 /\ s \in Seq(FRAME) /\ Len(r) \in Nat /\ n \in 1 .. n
  BY LenProperties DEF Good, Sheds
<1>2. \A i \in 1 .. Len(r) : (i \in 1 .. n /\ i < n /\ r[i] = s[i]) \/ (i = n /\ Plain(r[i]) /\ FrameOK(r[i]))
  BY <1>1 DEF Sheds
<1>3. \A i \in 1 .. n : i = n \/ (i < n /\ i \in 1 .. Len(r) /\ r[i] = s[i])
  BY <1>1 DEF Sheds
<1>4. ~Ent(s[n]) /\ s[n].exectex = {}
  <2>1. FrameOK(s[n])
    BY <1>1 DEF Good
  <2> QED BY <2>1 DEF FrameOK, Ent, InFn
<1> HIDE DEF n
<1>5. SameCalls(r, s)
  BY <1>2, <1>3, <1>4 DEF SameCalls, Plain, n
<1>6. Chained(r, c)
  BY <1>1, <1>5, SameCallsChained DEF Good, n
<1>7. s[n].texflg \ {"SSFN"} = b.texflg \ {"SSFN"} /\ c.texflg = s[n].texflg
  BY <1>1 DEF Good, Marked, n
<1>8. Owing(r, c)
  <2>1. Owed(c) \subseteq Owed(b)
    BY <1>7 DEF Owed
  <2> QED BY <1>5, <2>1, SameCallsOwing DEF Good
<1>9. Marked(r, c)
  <2>1. c.texflg \ {"SSFN"} = b.texflg \ {"SSFN"}
    BY <1>7
  <2>2. ASSUME NEW i \in 1 .. Len(r), InFn(r[i])
        PROVE  /\ "SSFN" \in r[i].texflg <=> \E j \in 1 .. Len(r) : j < i /\ InFn(r[j])
               /\ r[i].texflg \ {"SSFN"} = c.texflg \ {"SSFN"}
    <3>1. i \in 1 .. n /\ i < n /\ r[i] = s[i]
      BY <1>2, <2>2 DEF Plain
    <3>2. (\E j \in 1 .. Len(r) : j < i /\ InFn(r[j])) <=> \E j \in 1 .. n : j < i /\ InFn(s[j])
      <4>1. ASSUME NEW j \in 1 .. Len(r), j < i, InFn(r[j])
            PROVE  \E m \in 1 .. n : m < i /\ InFn(s[m])
        <5>1. j \in 1 .. n /\ r[j] = s[j]
          BY <1>1, <1>2, <3>1, <4>1
        <5> QED BY <4>1, <5>1
      <4>2. ASSUME NEW j \in 1 .. n, j < i, InFn(s[j])
            PROVE  \E m \in 1 .. Len(r) : m < i /\ InFn(r[m])
        <5>1. j \in 1 .. Len(r) /\ r[j] = s[j]
          BY <1>1, <1>3, <3>1, <4>2
        <5> QED BY <4>2, <5>1
      <4> QED BY <4>1, <4>2
    <3> QED BY <2>1, <2>2, <3>1, <3>2 DEF Good, Marked, n
  <2>3. "SSFN" \in c.texflg <=> \E j \in 1 .. Len(r) : InFn(r[j])
    <3>1. (\E j \in 1 .. Len(r) : InFn(r[j])) <=> \E j \in 1 .. n : j < n /\ InFn(s[j])
      BY <1>1, <1>2, <1>3 DEF Plain
    <3>2. "SSFN" \in s[n].texflg <=> \E j \in 1 .. n : j < n /\ InFn(s[j])
      BY <1>1 DEF Good, Marked, n
    <3> QED BY <1>7, <3>1, <3>2
  <2> QED BY <2>2, <2>3 DEF Marked
<1>10. Raised(t, r, c)
  <2>1. CASE c.priority = bpriority[t]
    BY <2>1 DEF Raised
  <2>2. CASE c.priority = b.priority /\ s[n].k # "brk"
    BY <1>3, <2>2 DEF Good, Raised, n
  <2> QED BY <2>1, <2>2 DEF n
<1>11. c.sysmode = Cardinality(Sys(r))
  <2>1. InSys(s[n])
    BY DEF InFn, InSys, Inside, n
  <2>2. Sys(r) = Sys(s) \ {n} /\ n \in Sys(s)
    BY <1>1, <1>2, <1>3, <2>1 DEF Sys, Plain, n
  <2> QED BY <1>1, <2>2, SysCount DEF Good
<1>12. \A i \in 1 .. Len(r) : FrameOK(r[i])
  BY <1>2 DEF Good, n
<1> QED BY <1>6, <1>8, <1>9, <1>10, <1>11, <1>12 DEF Good, Sheds

---------------------------------------------------------------------------

\* r is s, but for a break counted for its innermost call.
Counting(r, s) ==
  /\ Len(r) = Len(s)
  /\ \A i \in 1 .. Len(s) :
       \/ r[i] = s[i]
       \/ Inmost(s, i) /\ s[i] \in FRAME /\ r[i] = [s[i] EXCEPT !.breaks = @ + 1]

\* A call that was not broken is now.
LEMMA BrokenGood ==
  ASSUME NEW t, NEW s, NEW b, Good(t, s, b), b.ran = FALSE, ~NoneIn(s),
         NEW r \in Seq(FRAME), Counting(r, s),
         NEW c \in TCB, c.ran = TRUE,
         c.priority = b.priority, c.sysmode = b.sysmode, c.reqdct = b.reqdct,
         c.pendtex = b.pendtex, c.exectex = b.exectex, c.texflg = b.texflg,
         c.execssid = b.execssid
  PROVE  Good(t, r, c)
<1>1. Len(s) \in Nat /\ Len(r) = Len(s)
  BY LenProperties DEF Good, Counting
<1>2. ASSUME NEW i \in 1 .. Len(s)
      PROVE  /\ r[i].k = s[i].k /\ r[i].at = s[i].at /\ r[i].ssid = s[i].ssid
             /\ r[i].ran = s[i].ran /\ r[i].execssid = s[i].execssid
             /\ r[i].exectex = s[i].exectex /\ r[i].texflg = s[i].texflg
             /\ r[i].breaks # s[i].breaks => Inmost(s, i)
  <2>1. CASE r[i] = s[i]
    BY <2>1
  <2>2. CASE Inmost(s, i) /\ s[i] \in FRAME /\ r[i] = [s[i] EXCEPT !.breaks = @ + 1]
    BY <2>2 DEF FRAME
  <2> QED BY <2>1, <2>2 DEF Counting
<1>3. \A i \in 1 .. Len(s) : (Ent(r[i]) <=> Ent(s[i])) /\ (InFn(r[i]) <=> InFn(s[i]))
                             /\ (InSys(r[i]) <=> InSys(s[i]))
  BY <1>2 DEF Ent, InFn, InSys
<1>4. Chained(r, c)
  <2>1. ASSUME NEW i \in 1 .. Len(r), NEW j \in 1 .. Len(r), Above(r, i, j), r[j].ran = FALSE
        PROVE  r[i].breaks = 0
    <3>1. Above(s, i, j)
      BY <1>1, <1>3, <2>1 DEF Above
    <3>2. ~Inmost(s, i)
      BY <1>1, <2>1, <3>1 DEF Above, Inmost
    <3>3. s[j].ran = FALSE /\ r[i].breaks = s[i].breaks
      BY <1>1, <1>2, <2>1, <3>2
    <3> QED BY <1>1, <3>1, <3>3 DEF Good, Chained
  <2>2. ASSUME NEW j \in 1 .. Len(r), Outmost(r, j)
        PROVE  r[j].execssid = NULL /\ r[j].ran = FALSE
    <3>1. Outmost(s, j)
      BY <1>1, <1>3, <2>2 DEF Outmost
    <3> QED BY <1>1, <1>2, <3>1 DEF Good, Chained
  <2>3. ~NoneIn(r)
    BY <1>1, <1>3 DEF NoneIn
  <2> QED BY <2>1, <2>2, <2>3 DEF Chained
<1>5. Marked(r, c)
  BY <1>1, <1>2, <1>3 DEF Good, Marked
<1>6. Owing(r, c)
  <2>1. Owed(c) = Owed(b)
    BY DEF Owed
  <2> QED BY <1>1, <1>2, <2>1 DEF Good, Owing
<1>7. Raised(t, r, c)
  BY <1>1, <1>2 DEF Good, Raised
<1>8. Sys(r) = Sys(s)
  BY <1>1, <1>3 DEF Sys
<1>9. \A i \in 1 .. Len(r) : FrameOK(r[i])
  <2>1. ASSUME NEW i \in 1 .. Len(s) PROVE FrameOK(r[i])
    <3>1. FrameOK(s[i])
      BY DEF Good
    <3>2. s[i].ssid = NULL => r[i].breaks = s[i].breaks
      BY <1>2 DEF Inmost, Ent
    <3> QED BY <1>2, <3>1, <3>2 DEF FrameOK
  <2> QED BY <1>1, <2>1
<1> QED BY <1>4, <1>5, <1>6, <1>7, <1>8, <1>9 DEF Good

\* An extended SVC is entered: what the caller was in goes to the frame.
SvcBegins(b, f, c) ==
  /\ Ent(f) /\ FrameOK(f) /\ InSys(f) /\ ~InFn(f) /\ f.k = "svc" /\ f.breaks = 0
  /\ f.execssid = b.execssid /\ f.ran = b.ran /\ f.exectex = b.exectex
  /\ c \in TCB /\ c.ran = FALSE /\ c.sysmode = b.sysmode + 1
  /\ c.priority = b.priority /\ c.reqdct = b.reqdct
  /\ c.pendtex = b.pendtex /\ c.texflg = b.texflg

\* An extended SVC is entered.
LEMMA EnterGood ==
  ASSUME NEW t, NEW s, NEW b, Good(t, s, b), NEW r, NEW f, Topped(r, s, f),
         Plain(s[Len(s)]), NEW c, SvcBegins(b, f, c)
  PROVE  Good(t, r, c)
<1>0. /\ Ent(f) /\ FrameOK(f) /\ InSys(f) /\ ~InFn(f) /\ f.k = "svc" /\ f.breaks = 0
      /\ f.execssid = b.execssid /\ f.ran = b.ran /\ f.exectex = b.exectex
      /\ c \in TCB /\ c.ran = FALSE /\ c.sysmode = b.sysmode + 1
      /\ c.priority = b.priority /\ c.reqdct = b.reqdct
      /\ c.pendtex = b.pendtex /\ c.texflg = b.texflg
  BY DEF SvcBegins
<1> USE <1>0
<1> DEFINE n == Len(s)
<1>1. n \in Nat /\ n > 0 /\ s \in Seq(FRAME) /\ Len(r) = n /\ r[n] = f /\ n \in 1 .. n
  BY LenProperties DEF Good, Topped
<1>2. \A i \in 1 .. n : i # n => i < n /\ r[i] = s[i]
  BY <1>1 DEF Topped
<1>3. ~Ent(s[n]) /\ ~InFn(s[n]) /\ ~InSys(s[n]) /\ s[n].exectex = {} /\ s[n].k # "brk"
  BY DEF Plain, n
<1> HIDE DEF n
<1>4. Chained(r, c)
  <2>1. ASSUME NEW i \in 1 .. n, NEW j \in 1 .. n, Above(r, i, j), r[j].ran = FALSE
        PROVE  r[i].breaks = 0
    <3>1. i # n /\ r[i] = s[i]
      BY <1>1, <1>2, <2>1 DEF Above
    <3>2. CASE j = n
      <4>1. Inmost(s, i) /\ b.ran = FALSE
        BY <1>1, <1>2, <1>3, <2>1, <3>1, <3>2 DEF Above, Inmost, n
      <4> QED BY <3>1, <4>1 DEF Good, Chained, n
    <3>3. CASE j # n
      <4>1. Above(s, i, j) /\ s[j].ran = FALSE
        BY <1>1, <1>2, <1>3, <2>1, <3>1, <3>3 DEF Above, n
      <4> QED BY <3>1, <4>1 DEF Good, Chained, n
    <3> QED BY <3>2, <3>3
  <2>2. ASSUME NEW i \in 1 .. n, Inmost(r, i)
        PROVE  r[i].breaks = 0
    BY <1>1, <1>2, <2>2 DEF Inmost
  <2>3. ASSUME NEW j \in 1 .. n, Outmost(r, j)
        PROVE  r[j].execssid = NULL /\ r[j].ran = FALSE
    <3>1. CASE j = n
      <4>1. NoneIn(s)
        BY <1>1, <1>2, <1>3, <2>3, <3>1 DEF Outmost, NoneIn, n
      <4> QED BY <1>1, <3>1, <4>1 DEF Good, Chained
    <3>2. CASE j # n
      <4>1. Outmost(s, j) /\ r[j] = s[j]
        BY <1>1, <1>2, <1>3, <2>3, <3>2 DEF Outmost, n
      <4> QED BY <4>1 DEF Good, Chained, n
    <3> QED BY <3>1, <3>2
  <2>4. ~NoneIn(r)
    BY <1>1 DEF NoneIn
  <2> QED BY <1>1, <2>1, <2>2, <2>3, <2>4 DEF Chained
<1>5. \A i \in 1 .. n : InFn(r[i]) <=> InFn(s[i])
  BY <1>1, <1>2, <1>3
<1>6. Marked(r, c)
  <2>1. ASSUME NEW i \in 1 .. n, InFn(r[i])
        PROVE  /\ "SSFN" \in r[i].texflg <=> \E j \in 1 .. n : j < i /\ InFn(r[j])
               /\ r[i].texflg \ {"SSFN"} = c.texflg \ {"SSFN"}
    <3>1. InFn(s[i]) /\ r[i] = s[i]
      BY <1>1, <1>2, <1>5, <2>1
    <3> QED BY <1>5, <3>1 DEF Good, Marked, n
  <2> QED BY <1>1, <1>5, <2>1 DEF Good, Marked, n
<1>7. Owing(r, c)
  <2>1. Owed(c) = Owed(b)
    BY DEF Owed
  <2>2. ASSUME NEW x \in Owed(b) PROVE \E i \in 1 .. n : x \in r[i].exectex
    <3>1. CASE x \in b.exectex
      BY <1>1, <3>1
    <3>2. CASE x \notin b.exectex
      <4>1. PICK i \in 1 .. n : x \in s[i].exectex
        BY <2>2, <3>2 DEF Good, Owing, n
      <4> QED BY <1>2, <1>3, <4>1
    <3> QED BY <3>1, <3>2
  <2> QED BY <1>1, <2>1, <2>2 DEF Good, Owing
<1>8. Raised(t, r, c)
  BY <1>1, <1>2, <1>3 DEF Good, Raised, n
<1>9. c.sysmode = Cardinality(Sys(r))
  <2>1. Sys(r) = Sys(s) \cup {n} /\ n \notin Sys(s)
    BY <1>1, <1>2, <1>3 DEF Sys, n
  <2> QED BY <1>1, <2>1, SysCount DEF Good
<1>10. \A i \in 1 .. n : FrameOK(r[i])
  BY <1>1, <1>2 DEF Good, n
<1> QED BY <1>1, <1>4, <1>6, <1>7, <1>8, <1>9, <1>10 DEF Good, Topped

\* It is left: the caller has its own back, and what was raised in between.
SvcEnds(b, f, c) ==
  /\ Ent(f) /\ InSys(f)
  /\ c \in TCB /\ c.sysmode = b.sysmode - 1
  /\ c.execssid = f.execssid /\ c.ran = f.ran /\ c.exectex = b.exectex \cup f.exectex
  /\ c.priority = b.priority /\ c.reqdct = b.reqdct
  /\ c.pendtex = b.pendtex /\ c.texflg = b.texflg

\* It is left.
LEMMA LeaveGood ==
  ASSUME NEW t, NEW s, NEW b, Good(t, s, b), NEW r, Sheds(r, s), NEW c, SvcEnds(b, s[Len(s)], c)
  PROVE  Good(t, r, c)
<1>0. /\ Ent(s[Len(s)]) /\ InSys(s[Len(s)])
      /\ c \in TCB /\ c.sysmode = b.sysmode - 1
      /\ c.execssid = s[Len(s)].execssid /\ c.ran = s[Len(s)].ran
      /\ c.exectex = b.exectex \cup s[Len(s)].exectex
      /\ c.priority = b.priority /\ c.reqdct = b.reqdct
      /\ c.pendtex = b.pendtex /\ c.texflg = b.texflg
  BY DEF SvcEnds
<1> USE <1>0
<1> DEFINE n == Len(s)
<1>1. n \in Nat /\ n > 0 /\ s \in Seq(FRAME) /\ Len(r) \in Nat /\ n \in 1 .. n
  BY LenProperties DEF Good, Sheds
<1>2. \A i \in 1 .. Len(r) : (i \in 1 .. n /\ i < n /\ r[i] = s[i]) \/ (i = n /\ Plain(r[i]) /\ FrameOK(r[i]))
  BY <1>1 DEF Sheds
<1>3. \A i \in 1 .. n : i = n \/ (i < n /\ i \in 1 .. Len(r) /\ r[i] = s[i])
  BY <1>1 DEF Sheds
<1>4. Ent(s[n]) /\ ~InFn(s[n]) /\ s[n].k # "brk" /\ InSys(s[n])
  BY DEF Ent, InFn, n
<1> HIDE DEF n
<1>5. \A i \in 1 .. Len(r) : Ent(r[i]) => i \in 1 .. n /\ i < n /\ r[i] = s[i]
  BY <1>2 DEF Plain
<1>6. \A i \in 1 .. Len(r) : InFn(r[i]) => i \in 1 .. n /\ i < n /\ r[i] = s[i]
  BY <1>2 DEF Plain
<1>7. Chained(r, c)
  <2>1. ASSUME NEW i \in 1 .. Len(r), NEW j \in 1 .. Len(r), Above(r, i, j), r[j].ran = FALSE
        PROVE  r[i].breaks = 0
    <3>1. i \in 1 .. n /\ j \in 1 .. n /\ j < n /\ r[i] = s[i] /\ r[j] = s[j]
      BY <1>5, <2>1 DEF Above
    <3>2. Above(s, i, j)
      BY <1>1, <1>3, <2>1, <3>1 DEF Above, n
    <3> QED BY <2>1, <3>1, <3>2 DEF Good, Chained, n
  <2>2. ASSUME NEW i \in 1 .. Len(r), Inmost(r, i), c.ran = FALSE
        PROVE  r[i].breaks = 0
    <3>1. i \in 1 .. n /\ i < n /\ r[i] = s[i]
      BY <1>5, <2>2 DEF Inmost
    <3>2. Above(s, i, n)
      BY <1>1, <1>3, <1>4, <2>2, <3>1 DEF Above, Inmost, n
    <3> QED BY <1>1, <2>2, <3>1, <3>2 DEF Good, Chained, n
  <2>3. ASSUME NEW j \in 1 .. Len(r), Outmost(r, j)
        PROVE  r[j].execssid = NULL /\ r[j].ran = FALSE
    <3>1. j \in 1 .. n /\ j < n /\ r[j] = s[j]
      BY <1>5, <2>3 DEF Outmost
    <3>2. Outmost(s, j)
      BY <1>1, <1>3, <2>3, <3>1 DEF Outmost, n
    <3> QED BY <3>1, <3>2 DEF Good, Chained, n
  <2>4. ASSUME NoneIn(r) PROVE c.execssid = NULL /\ c.ran = FALSE
    <3>1. Outmost(s, n)
      BY <1>1, <1>3, <1>4, <2>4 DEF Outmost, NoneIn, n
    <3> QED BY <1>1, <3>1 DEF Good, Chained, n
  <2> QED BY <2>1, <2>2, <2>3, <2>4 DEF Chained
<1>8. \A i \in 1 .. n : InFn(s[i]) => i \in 1 .. Len(r) /\ r[i] = s[i]
  BY <1>3, <1>4
<1>9. Marked(r, c)
  <2>1. ASSUME NEW i \in 1 .. Len(r), InFn(r[i])
        PROVE  /\ "SSFN" \in r[i].texflg <=> \E j \in 1 .. Len(r) : j < i /\ InFn(r[j])
               /\ r[i].texflg \ {"SSFN"} = c.texflg \ {"SSFN"}
    <3>1. i \in 1 .. n /\ InFn(s[i]) /\ r[i] = s[i]
      BY <1>6, <2>1
    <3>2. (\E j \in 1 .. Len(r) : j < i /\ InFn(r[j])) <=> \E j \in 1 .. n : j < i /\ InFn(s[j])
      BY <1>6, <1>8
    <3> QED BY <3>1, <3>2 DEF Good, Marked, n
  <2>2. (\E j \in 1 .. Len(r) : InFn(r[j])) <=> \E j \in 1 .. n : InFn(s[j])
    BY <1>6, <1>8
  <2> QED BY <2>1, <2>2 DEF Good, Marked, n
<1>10. Owing(r, c)
  <2>1. Owed(c) = Owed(b)
    BY DEF Owed
  <2>2. ASSUME NEW x \in Owed(b), x \notin c.exectex PROVE \E i \in 1 .. Len(r) : x \in r[i].exectex
    <3>1. PICK i \in 1 .. n : x \in s[i].exectex
      BY <2>2 DEF Good, Owing, n
    <3>2. i # n
      BY <2>2, <3>1 DEF n
    <3> QED BY <1>3, <3>1, <3>2
  <2> QED BY <2>1, <2>2 DEF Good, Owing
<1>11. Raised(t, r, c)
  BY <1>3, <1>4 DEF Good, Raised, n
<1>12. c.sysmode = Cardinality(Sys(r))
  <2>1. Sys(r) = Sys(s) \ {n} /\ n \in Sys(s)
    BY <1>1, <1>2, <1>3, <1>4 DEF Sys, Plain, n
  <2> QED BY <1>1, <2>1, SysCount DEF Good
<1>13. \A i \in 1 .. Len(r) : FrameOK(r[i])
  BY <1>2 DEF Good, n
<1> QED BY <1>7, <1>9, <1>10, <1>11, <1>12, <1>13 DEF Good, Sheds

\* The exceptions of a task change, in no function of a subsystem.
LEMMA ExceptionGood ==
  ASSUME NEW t, NEW s, NEW b, Good(t, s, b),
         NEW c \in TCB, c.sysmode = b.sysmode, c.priority = b.priority,
         c.execssid = b.execssid, c.ran = b.ran,
         c.texflg = b.texflg \/ (s = <<>> /\ ("SSFN" \in c.texflg <=> "SSFN" \in b.texflg)),
         Owing(s, c)
  PROVE  Good(t, s, c)
<1>1. Chained(s, c)
  BY DEF Good, Chained
<1>2. Marked(s, c)
  <2>1. CASE c.texflg = b.texflg
    BY <2>1 DEF Good, Marked
  <2>2. CASE s = <<>> /\ ("SSFN" \in c.texflg <=> "SSFN" \in b.texflg)
    <3>1. Len(s) = 0
      BY <2>2
    <3> QED BY <2>2, <3>1 DEF Good, Marked
  <2> QED BY <2>1, <2>2
<1> QED BY <1>1, <1>2 DEF Good, Raised

\* A task that has ended, or that starts.
LEMMA DormantGood ==
  ASSUME NEW t \in Tasks
  PROVE  Good(t, <<>>, make_dormant(t)) /\ Good(t, <<>>, [make_dormant(t) EXCEPT !.alive = TRUE])
<1>1. ASSUME NEW b, b = make_dormant(t) \/ b = [make_dormant(t) EXCEPT !.alive = TRUE]
      PROVE  Good(t, <<>>, b)
  <2>1. b \in TCB /\ b.priority = bpriority[t] /\ b.sysmode = 0 /\ b.pendtex = {} /\ b.texflg = {}
        /\ b.execssid = NULL /\ b.ran = FALSE
    <3>1. bpriority[t] \in Nat /\ {} \in SUBSET Codes /\ {} \in SUBSET TEXFLG /\ 0 \in Nat /\ NULL \in SSID
      BY DEF SSID
    <3>2. PICK a \in BOOLEAN :
            b = [alive |-> a, priority |-> bpriority[t], sysmode |-> 0, waitmask |-> FALSE,
                 reqdct |-> FALSE, texhdr |-> FALSE, texmask |-> {}, pendtex |-> {},
                 exectex |-> {}, texflg |-> {}, execssid |-> NULL, ran |-> FALSE]
      BY <1>1 DEF make_dormant
    <3> QED BY <3>1, <3>2 DEF TCB
  <2>2. <<>> \in Seq(FRAME) /\ Len(<<>>) = 0
    OBVIOUS
  <2>3. \A i \in 1 .. Len(<<>>) : FALSE
    BY <2>2
  <2>4. Chained(<<>>, b) /\ Marked(<<>>, b) /\ Raised(t, <<>>, b)
    BY <2>1, <2>3 DEF Chained, Marked, Raised
  <2>5. Owing(<<>>, b)
    <3>1. Owed(b) = {}
      BY <2>1 DEF Owed
    <3> QED BY <3>1 DEF Owing
  <2>6. Sys(<<>>) = {}
    BY <2>3 DEF Sys
  <2>7. Cardinality({}) = 0
    BY FS_EmptySet
  <2> QED BY <2>1, <2>2, <2>3, <2>4, <2>5, <2>6, <2>7 DEF Good
<1> QED BY <1>1

---------------------------------------------------------------------------

\* What the operations on a stack do, place by place.
LEMMA PushPlaces ==
  ASSUME NEW s \in Seq(FRAME), NEW f \in FRAME
  PROVE  Pushed(Append(s, f), s, f)
<1>1. Len(s) \in Nat
  BY LenProperties
<1> QED BY <1>1 DEF Pushed

\* A stack without its top.
LEMMA PopPlaces ==
  ASSUME NEW s \in Seq(FRAME), s # <<>>, NEW r, r = SubSeq(s, 1, Len(s) - 1)
  PROVE  /\ Len(s) \in Nat /\ Len(s) > 0 /\ r \in Seq(FRAME) /\ Len(r) = Len(s) - 1
         /\ \A i \in 1 .. Len(s) - 1 : r[i] = s[i]
<1>1. Len(s) \in Nat
  BY LenProperties
<1>2. Len(s) > 0
  BY <1>1, EmptySeq
<1>3. PICK m \in Nat : m = Len(s) - 1
  BY <1>1, <1>2
<1>4. \A i \in 1 .. m : i \in 1 .. Len(s)
  BY <1>1, <1>3
<1>5. \A i \in 1 .. m : s[i] \in FRAME
  BY <1>4, ElementOfSeq
<1>6. r = SubSeq(s, 1, m) /\ 1 \in Int /\ m \in Int
  BY <1>3
<1>7. r \in Seq(FRAME)
  BY <1>5, <1>6, SubSeqProperties
<1>8. Len(r) = IF 1 <= m THEN m - 1 + 1 ELSE 0
  BY <1>5, <1>6, SubSeqProperties
<1>9. Len(r) = m
  BY <1>3, <1>8
<1>10. \A i \in 1 .. m - 1 + 1 : r[i] = s[1 + i - 1]
  BY <1>5, <1>6, SubSeqProperties
<1>11. ASSUME NEW i \in 1 .. m PROVE r[i] = s[i]
  <2>1. m - 1 + 1 = m /\ 1 + i - 1 = i
    BY <1>3
  <2> QED BY <1>10, <2>1
<1> QED BY <1>1, <1>2, <1>3, <1>7, <1>9, <1>11

\* A stack with another top.
LEMMA TopPlaces ==
  ASSUME NEW s \in Seq(FRAME), s # <<>>, NEW f \in FRAME, NEW r, r = [s EXCEPT ![Len(s)] = f]
  PROVE  Topped(r, s, f)
<1>1. Len(s) \in Nat
  BY LenProperties
<1>2. Len(s) > 0
  BY <1>1, EmptySeq
<1>3. Len(s) \in 1 .. Len(s)
  BY <1>1, <1>2
<1>4. /\ r \in Seq(FRAME) /\ Len(r) = Len(s)
      /\ \A j \in 1 .. Len(s) : r[j] = IF j = Len(s) THEN f ELSE s[j]
  BY <1>3, ExceptSeq
<1>5. r[Len(s)] = f
  BY <1>3, <1>4
<1>6. \A i \in 1 .. Len(s) - 1 : i \in 1 .. Len(s) /\ i # Len(s)
  BY <1>1
<1>7. \A i \in 1 .. Len(s) - 1 : r[i] = s[i]
  BY <1>4, <1>6
<1> QED BY <1>2, <1>4, <1>5, <1>7 DEF Topped

\* A plain frame is put on a stack, taken off, or replaced by one like it.
LEMMA PushGood ==
  ASSUME NEW t, NEW s, NEW b, Good(t, s, b), NEW f \in FRAME, Plain(f), FrameOK(f)
  PROVE  Good(t, Append(s, f), b)
<1>1. PICK r : r = Append(s, f)
  OBVIOUS
<1>2. Pushed(r, s, f) /\ Len(s) \in Nat
  BY <1>1, PushPlaces, LenProperties DEF Good
<1>3. Alike(r, s)
  BY <1>2 DEF Alike, Pushed, Same
<1>4. \A i \in 1 .. Len(r) : FrameOK(r[i])
  BY <1>2 DEF Pushed, Good
<1>5. Still(b, b)
  BY DEF Still
<1>6. r \in Seq(FRAME) /\ b \in TCB
  BY <1>2 DEF Pushed, Good
<1> QED BY <1>1, <1>3, <1>4, <1>5, <1>6, AlikeGood

\* A frame that leaves no trace is popped.
LEMMA PopGood ==
  ASSUME NEW t, NEW s, NEW b, Good(t, s, b), s # <<>>, Plain(s[Len(s)])
  PROVE  Good(t, SubSeq(s, 1, Len(s) - 1), b)
<1>1. PICK r : r = SubSeq(s, 1, Len(s) - 1)
  OBVIOUS
<1>2. Len(s) \in Nat /\ Len(s) > 0 /\ r \in Seq(FRAME) /\ Len(r) = Len(s) - 1
      /\ \A i \in 1 .. Len(s) - 1 : r[i] = s[i]
  BY <1>1, PopPlaces DEF Good
<1>3. Alike(r, s)
  <2>1. \A i \in 1 .. Len(r) : i <= Len(s) /\ r[i] = s[i]
    BY <1>2
  <2>2. \A i \in 1 .. Len(s) : i > Len(r) => i = Len(s)
    BY <1>2
  <2> QED BY <2>1, <2>2 DEF Alike, Same
<1>4. \A i \in 1 .. Len(r) : FrameOK(r[i])
  BY <1>2 DEF Good
<1>5. Still(b, b) /\ b \in TCB
  BY DEF Still, Good
<1> QED BY <1>1, <1>2, <1>3, <1>4, <1>5, AlikeGood

\* The top is replaced by one that differs in nothing that matters.
LEMMA TopGood ==
  ASSUME NEW t, NEW s, NEW b, Good(t, s, b), s # <<>>, NEW f \in FRAME, Same(f, s[Len(s)]), FrameOK(f),
         NEW r, r = [s EXCEPT ![Len(s)] = f]
  PROVE  Good(t, r, b)
<1>1. Topped(r, s, f) /\ Len(s) \in Nat
  BY TopPlaces, LenProperties DEF Good
<1>2. Alike(r, s)
  <2>1. ASSUME NEW i \in 1 .. Len(s) PROVE Same(r[i], s[i])
    <3>1. CASE i = Len(s)
      BY <1>1, <3>1 DEF Topped
    <3>2. CASE i # Len(s)
      <4>1. i \in 1 .. Len(s) - 1
        BY <1>1, <3>2
      <4> QED BY <1>1, <4>1 DEF Topped, Same
    <3> QED BY <3>1, <3>2
  <2> QED BY <1>1, <2>1 DEF Alike, Topped
<1>3. \A i \in 1 .. Len(r) : FrameOK(r[i])
  <2>1. \A i \in 1 .. Len(s) : i = Len(s) \/ i \in 1 .. Len(s) - 1
    BY <1>1
  <2> QED BY <1>1, <2>1 DEF Topped, Good
<1>4. Still(b, b) /\ b \in TCB /\ r \in Seq(FRAME)
  BY <1>1 DEF Still, Good, Topped
<1> QED BY <1>2, <1>3, <1>4, AlikeGood

\* Any frame that is not inside a call leaves no trace.
LEMMA PlainFrame ==
  ASSUME NEW f \in FRAME, FrameOK(f), f.k # "brk", f.at \notin Inside
  PROVE  Plain(f)
<1>1. f.ssid = NULL /\ f.breaks = 0 /\ f.exectex = {}
  BY DEF FrameOK
<1>2. ~Ent(f) /\ ~InFn(f) /\ ~InSys(f)
  BY <1>1 DEF Ent, InFn, InSys, Inside
<1> QED BY <1>1, <1>2 DEF Plain

\* A frame of its parts.
LEMMA FrameType ==
  ASSUME NEW k \in Kinds, NEW at \in Places, NEW who \in Tasks, NEW ssid \in SSID,
         NEW ex \in SUBSET Codes, NEW mask \in BOOLEAN, NEW id \in SSID, NEW rn \in BOOLEAN,
         NEW flg \in SUBSET TEXFLG, NEW n \in Counts
  PROVE  [k |-> k, at |-> at, who |-> who, ssid |-> ssid, exectex |-> ex, waitmask |-> mask,
          execssid |-> id, ran |-> rn, texflg |-> flg, breaks |-> n] \in FRAME
BY DEF FRAME

\* A frame as it is pushed.
LEMMA NewFrame ==
  ASSUME NEW k \in {"svc", "ras"}, NEW who \in Tasks, NEW at \in {"lock", "break"},
         NEW f, f = [Frame(k, who) EXCEPT !.at = at]
  PROVE  f \in FRAME /\ Plain(f) /\ FrameOK(f)
<1>1. f = [k |-> k, at |-> at, who |-> who, ssid |-> NULL, exectex |-> {}, waitmask |-> FALSE,
           execssid |-> NULL, ran |-> FALSE, texflg |-> {}, breaks |-> 0]
  BY DEF Frame
<1>2. f \in FRAME
  <2>1. NULL \in SSID /\ {} \in SUBSET Codes /\ {} \in SUBSET TEXFLG
    BY DEF SSID
  <2>2. k \in Kinds /\ 0 \in Counts /\ FALSE \in BOOLEAN
    BY DEF Kinds, Counts
  <2>3. at \in Places
    BY DEF Places
  <2>4. [k |-> k, at |-> at, who |-> who, ssid |-> NULL, exectex |-> {}, waitmask |-> FALSE,
         execssid |-> NULL, ran |-> FALSE, texflg |-> {}, breaks |-> 0] \in FRAME
    BY <2>1, <2>2, <2>3, FrameType
  <2> QED BY <1>1, <2>4
<1>3. FrameOK(f) /\ f.k # "brk" /\ f.at \notin Inside
  BY <1>1 DEF FrameOK, Inside
<1> QED BY <1>2, <1>3, PlainFrame

\* r is s, with its top at another place.
Gone(r, s, at) == r = [s EXCEPT ![Len(s)] = [s[Len(s)] EXCEPT !.at = at]]

\* From one place of a call to another.
LEMMA GotoGood ==
  ASSUME NEW t, NEW s, NEW b, Good(t, s, b), s # <<>>, NEW at \in Places,
         \/ s[Len(s)].k \in {"svc", "ras"} /\ s[Len(s)].at \notin Inside /\ at \notin Inside
         \/ s[Len(s)].k = "ssfn" /\ s[Len(s)].at \notin Inside /\ at \in {"break", "done"}
         \/ s[Len(s)].k = "svc" /\ s[Len(s)].at \in Inside /\ at \in Inside,
         NEW r, Gone(r, s, at)
  PROVE  Good(t, r, b)
<1>1. Len(s) \in 1 .. Len(s) /\ s \in Seq(FRAME)
  BY EmptySeq, LenProperties DEF Good
<1>2. PICK f : f = s[Len(s)]
  OBVIOUS
<1>3. f \in FRAME /\ FrameOK(f)
  BY <1>1, <1>2, ElementOfSeq DEF Good
<1>4. PICK g : g = [f EXCEPT !.at = at]
  OBVIOUS
<1>5. g \in FRAME /\ g.k = f.k /\ g.ssid = f.ssid /\ g.at = at /\ g.breaks = f.breaks /\ g.ran = f.ran
      /\ g.execssid = f.execssid /\ g.exectex = f.exectex /\ g.texflg = f.texflg
  BY <1>3, <1>4 DEF FRAME
<1>6. FrameOK(g) /\ Same(g, f)
  BY <1>2, <1>3, <1>5 DEF FrameOK, Same, Ent, InFn, InSys, Inside
<1>7. r = [s EXCEPT ![Len(s)] = g]
  BY <1>2, <1>4 DEF Gone
<1> QED BY <1>2, <1>5, <1>6, <1>7, TopGood

---------------------------------------------------------------------------

\* The invariant is kept when it is kept for every task.
Kept(u) == Good(u, stack'[u], tcb'[u])
OfTasks == stack' = [u \in Tasks |-> stack'[u]] /\ tcb' = [u \in Tasks |-> tcb'[u]]
Only(t) == \A u \in Tasks : u # t => stack'[u] = stack[u] /\ tcb'[u] = tcb[u]

\* A step that keeps every task good keeps the invariant.
LEMMA EachKept ==
  ASSUME OfTasks, \A u \in Tasks : Kept(u)
  PROVE  FInv'
<1>1. \A u \in Tasks : Good(u, stack'[u], tcb'[u])
  BY DEF Kept
<1>2. \A u \in Tasks : stack'[u] \in Seq(FRAME) /\ tcb'[u] \in TCB
  BY <1>1 DEF Good
<1>3. stack' \in [Tasks -> Seq(FRAME)] /\ tcb' \in [Tasks -> TCB]
  BY <1>2 DEF OfTasks
<1> QED BY <1>1, <1>3 DEF FInv

\* So does one that changes one task only.
LEMMA AllKept ==
  ASSUME FInv, OfTasks, NEW t \in Tasks, Only(t), Kept(t)
  PROVE  FInv'
<1>1. \A u \in Tasks : Kept(u)
  BY DEF FInv, Only, Kept
<1> QED BY <1>1, EachKept

\* What the invariant says of one task.
LEMMA OneGood ==
  ASSUME FInv, NEW t \in Tasks
  PROVE  /\ Good(t, stack[t], tcb[t]) /\ stack[t] \in Seq(FRAME) /\ tcb[t] \in TCB
         /\ Len(stack[t]) \in Nat
         /\ stack[t] # <<>> => /\ Len(stack[t]) \in 1 .. Len(stack[t])
                               /\ Top(t) = stack[t][Len(stack[t])]
                               /\ Top(t) \in FRAME /\ FrameOK(Top(t))
<1>1. Good(t, stack[t], tcb[t]) /\ stack[t] \in Seq(FRAME) /\ tcb[t] \in TCB
  BY DEF FInv
<1>2. Len(stack[t]) \in Nat
  BY <1>1, LenProperties
<1>3. ASSUME stack[t] # <<>>
      PROVE  Len(stack[t]) \in 1 .. Len(stack[t])
  <2>1. Len(stack[t]) > 0
    BY <1>1, <1>2, <1>3, EmptySeq
  <2> QED BY <1>2, <2>1
<1>4. ASSUME stack[t] # <<>>
      PROVE  Top(t) \in FRAME /\ FrameOK(Top(t))
  BY <1>1, <1>3, <1>4, ElementOfSeq DEF Good, Top
<1> QED BY <1>1, <1>2, <1>3, <1>4 DEF Top

\* A task pushes a plain frame, pops one, or goes on in its own.
LEMMA PushStep ==
  ASSUME FInv, NEW t \in Tasks, NEW k \in {"svc", "ras"}, NEW who \in Tasks,
         Push(t, Frame(k, who)), UNCHANGED tcb
  PROVE  FInv'
<1>1. PICK f : f = [Frame(k, who) EXCEPT !.at = "lock"]
  OBVIOUS
<1>2. f \in FRAME /\ Plain(f) /\ FrameOK(f) /\ f = Frame(k, who)
  <2>1. f = Frame(k, who)
    BY <1>1 DEF Frame
  <2> QED BY <1>1, <2>1, NewFrame
<1>3. stack' = [stack EXCEPT ![t] = Append(@, f)] /\ tcb' = tcb
  BY <1>2 DEF Push
<1>4. OfTasks /\ Only(t)
  BY <1>3 DEF OfTasks, Only, FInv
<1>5. stack'[t] = Append(stack[t], f)
  BY <1>3 DEF FInv
<1>6. Kept(t)
  BY <1>2, <1>3, <1>5, OneGood, PushGood DEF Kept
<1> QED BY <1>4, <1>6, AllKept

\* A call returns.
LEMMA PopStep ==
  ASSUME FInv, NEW t \in Tasks, stack[t] # <<>>, Top(t).k # "brk", Top(t).at \notin Inside,
         Pop(t), UNCHANGED tcb
  PROVE  FInv'
<1>1. stack' = [stack EXCEPT ![t] = SubSeq(stack[t], 1, Len(stack[t]) - 1)] /\ tcb' = tcb
  BY DEF Pop, popped
<1>2. OfTasks /\ Only(t)
  BY <1>1 DEF OfTasks, Only, FInv
<1>3. stack'[t] = SubSeq(stack[t], 1, Len(stack[t]) - 1)
  BY <1>1 DEF FInv
<1>4. Plain(stack[t][Len(stack[t])])
  BY OneGood, PlainFrame
<1>5. Kept(t)
  BY <1>1, <1>3, <1>4, OneGood, PopGood DEF Kept
<1> QED BY <1>2, <1>5, AllKept

\* The places of one call that a task may go between.
Leads(f, at) ==
  \/ f.k \in {"svc", "ras"} /\ f.at \notin Inside /\ at \notin Inside
  \/ f.k = "ssfn" /\ f.at \notin Inside /\ at \in {"break", "done"}
  \/ f.k = "svc" /\ f.at \in Inside /\ at \in Inside

\* What a step in the task's own frame does.
LEMMA GotoIs ==
  ASSUME FInv, NEW t \in Tasks, NEW at, Goto(t, at)
  PROVE  Gone(stack'[t], stack[t], at)
<1>1. stack'[t] = [stack[t] EXCEPT ![Len(stack[t])].at = at]
  BY DEF Goto, FInv
<1>2. PICK s, r : s = stack[t] /\ r = stack'[t]
  OBVIOUS
<1>3. r = [s EXCEPT ![Len(s)].at = at]
  BY <1>1, <1>2
<1>4. r = [s EXCEPT ![Len(s)] = [s[Len(s)] EXCEPT !.at = at]]
  BY <1>3
<1> QED BY <1>2, <1>4 DEF Gone

\* A call goes on.
LEMMA GotoStep ==
  ASSUME FInv, NEW t \in Tasks, stack[t] # <<>>, NEW at \in Places, Leads(Top(t), at),
         Goto(t, at), UNCHANGED tcb
  PROVE  FInv'
<1>1. OfTasks /\ Only(t)
  BY DEF OfTasks, Only, FInv, Goto
<1>2. Gone(stack'[t], stack[t], at)
  BY GotoIs
<1>3. PICK s, r : s = stack[t] /\ r = stack'[t]
  OBVIOUS
<1>4. Good(t, s, tcb[t]) /\ s # <<>> /\ Leads(s[Len(s)], at) /\ Gone(r, s, at)
  BY <1>2, <1>3, OneGood DEF Top
<1>5. Good(t, r, tcb[t])
  BY <1>4, GotoGood DEF Leads
<1>6. Kept(t)
  BY <1>3, <1>5 DEF Kept
<1> QED BY <1>1, <1>6, AllKept

---------------------------------------------------------------------------

\* A frame that at most counted a break function.
Recounted(g, f) == g.k = f.k /\ g.at = f.at /\ g.who = f.who /\ g.ssid = f.ssid

\* The call of an SVC that a task is in counts one break function, its first.
LEMMA CountedGood ==
  ASSUME FInv, NEW t \in Tasks, breaks(t), NEW q, q = counted(t), NEW c, c = [tcb[t] EXCEPT !.ran = TRUE]
  PROVE  /\ Good(t, q, c) /\ Good(t, stack[t], c) /\ Len(q) = Len(stack[t])
         /\ q \in Seq(FRAME) /\ \A i \in 1 .. Len(q) : Recounted(q[i], stack[t][i])
<1>1. PICK s, b : s = stack[t] /\ b = tcb[t]
  OBVIOUS
<1>2. Good(t, s, b) /\ s \in Seq(FRAME) /\ b \in TCB /\ Len(s) \in Nat /\ DOMAIN s = 1 .. Len(s)
  BY <1>1, OneGood, LenProperties
<1>3. b.ran = FALSE /\ ~NoneIn(s)
  BY <1>1, <1>2 DEF breaks, Good, Chained, TCB
<1>4. c \in TCB /\ c = [b EXCEPT !.ran = TRUE] /\ c.ran = TRUE
  BY <1>1, <1>2 DEF TCB
<1>5. /\ c.priority = b.priority /\ c.sysmode = b.sysmode /\ c.reqdct = b.reqdct
      /\ c.pendtex = b.pendtex /\ c.exectex = b.exectex /\ c.texflg = b.texflg
      /\ c.execssid = b.execssid
  BY <1>2, <1>4 DEF TCB
<1>6. ASSUME NEW i \in 1 .. Len(s)
      PROVE  i \in innermost(t) <=> Inmost(s, i)
  <2>1. Entered(t) = {j \in 1 .. Len(s) : Ent(s[j])}
    BY <1>1, <1>2 DEF Entered, Ent
  <2> QED BY <1>2, <2>1 DEF innermost, Inmost
<1>7. q = [i \in 1 .. Len(s) |-> IF i \in innermost(t) THEN [s[i] EXCEPT !.breaks = @ + 1] ELSE s[i]]
  BY <1>1, <1>2 DEF counted
<1>8. ASSUME NEW i \in 1 .. Len(s)
      PROVE  /\ q[i] \in FRAME
             /\ q[i] = s[i] \/ (Inmost(s, i) /\ s[i] \in FRAME /\ q[i] = [s[i] EXCEPT !.breaks = @ + 1])
             /\ Recounted(q[i], s[i])
  <2>1. s[i] \in FRAME
    BY <1>2, ElementOfSeq
  <2>2. CASE i \in innermost(t)
    <3>1. q[i] = [s[i] EXCEPT !.breaks = @ + 1]
      BY <1>7, <2>2
    <3>2. Inmost(s, i) /\ s[i].breaks = 0
      BY <1>2, <1>3, <1>6, <2>2 DEF Good, Chained
    <3>3. [s[i] EXCEPT !.breaks = @ + 1] \in FRAME
      BY <2>1, <3>2 DEF FRAME, Counts
    <3>4. Recounted(q[i], s[i])
      BY <2>1, <3>1 DEF FRAME, Recounted
    <3> QED BY <2>1, <3>1, <3>2, <3>3, <3>4
  <2>3. CASE i \notin innermost(t)
    <3>1. q[i] = s[i]
      BY <1>7, <2>3
    <3> QED BY <2>1, <3>1 DEF Recounted
  <2> QED BY <2>2, <2>3
<1>9. q \in Seq(FRAME) /\ Len(q) = Len(s)
  <2>1. q \in [1 .. Len(s) -> FRAME]
    BY <1>7, <1>8
  <2>2. q \in Seq(FRAME)
    BY <1>2, <2>1, SeqDef
  <2>3. Len(q) \in Nat /\ 1 .. Len(q) = 1 .. Len(s)
    BY <2>1, <2>2, LenProperties
  <2> QED BY <1>2, <2>2, <2>3
<1>10. Counting(q, s)
  BY <1>8, <1>9 DEF Counting
<1>11. Good(t, q, c)
  BY <1>2, <1>3, <1>4, <1>5, <1>9, <1>10, BrokenGood
<1>12. Counting(s, s)
  BY DEF Counting
<1>13. Good(t, s, c)
  BY <1>2, <1>3, <1>4, <1>5, <1>12, BrokenGood
<1> QED BY <1>1, <1>8, <1>9, <1>11, <1>13

\* A task goes on past the call of a break function.
LEMMA PastGood ==
  ASSUME NEW r, NEW s, NEW b, Good(r, s, b), s # <<>>, NEW at \in {"done", "unlock"}, NEW p, Gone(p, s, at),
         s[Len(s)].k \in {"svc", "ras", "ssfn"}, s[Len(s)].k = "ssfn" => at = "done",
         s[Len(s)].at \notin Inside
  PROVE  Good(r, p, b)
<1>1. at \in Places /\ at \notin Inside
  BY DEF Places, Inside
<1> QED BY <1>1, GotoGood

\* The frame of a break function, and of a function of a subsystem.
FnCalled(f, k, t, flg) ==
  f = [k |-> k, at |-> "body", who |-> t, ssid |-> NULL, exectex |-> {}, waitmask |-> FALSE,
       execssid |-> NULL, ran |-> FALSE, texflg |-> flg, breaks |-> 0]

\* What such a frame is.
LEMMA FnFrame ==
  ASSUME NEW k, k = "brk" \/ k = "ssfn", NEW t \in Tasks, NEW flg \in SUBSET TEXFLG, NEW f, FnCalled(f, k, t, flg)
  PROVE  f \in FRAME /\ f.k = k /\ f.texflg = flg /\ f.exectex = {}
         /\ InFn(f) /\ ~Ent(f) /\ FrameOK(f)
<1>1. f \in FRAME
  <2>1. NULL \in SSID /\ {} \in SUBSET Codes /\ k \in Kinds
        /\ "body" \in Places /\ 0 \in Counts /\ FALSE \in BOOLEAN
    BY DEF SSID, Kinds, Places, Counts
  <2>2. [k |-> k, at |-> "body", who |-> t, ssid |-> NULL, exectex |-> {}, waitmask |-> FALSE,
         execssid |-> NULL, ran |-> FALSE, texflg |-> flg, breaks |-> 0] \in FRAME
    BY <2>1, FrameType
  <2> QED BY <2>2 DEF FnCalled
<1>2. f.k = k /\ f.at = "body" /\ f.ssid = NULL
  BY DEF FnCalled
<1>3. f.texflg = flg /\ f.exectex = {} /\ f.breaks = 0
  BY DEF FnCalled
<1> QED BY <1>1, <1>2, <1>3 DEF InFn, Ent, FrameOK, Inside

\* The break function of a task begins, with r past the call of it.
LEMMA BrkGood ==
  ASSUME NEW r \in Tasks, NEW p, NEW b, Good(r, p, b), NEW t \in Tasks, NEW f, FnCalled(f, "brk", t, b.texflg),
         NEW pr \in Nat, NEW c,
         c = [b EXCEPT !.priority = pr, !.texflg = @ \cup {"SSFN"}, !.sysmode = @ + 1]
  PROVE  Good(r, Append(p, f), c)
<1>1. b \in TCB /\ p \in Seq(FRAME)
  BY DEF Good
<1>2. PICK flg \in SUBSET TEXFLG : flg = b.texflg
  BY <1>1 DEF TCB
<1>3. FnCalled(f, "brk", t, flg)
  BY <1>2
<1>4. f \in FRAME /\ f.k = "brk" /\ f.texflg = flg /\ f.exectex = {}
      /\ InFn(f) /\ ~Ent(f) /\ FrameOK(f)
  BY <1>3, FnFrame
<1>5. b.texflg \cup {"SSFN"} \in SUBSET TEXFLG /\ b.sysmode + 1 \in Nat
  BY <1>1 DEF TCB, TEXFLG
<1>6. c \in TCB
  BY <1>1, <1>5 DEF TCB
<1>7. /\ c.texflg = b.texflg \cup {"SSFN"} /\ c.sysmode = b.sysmode + 1
      /\ c.pendtex = b.pendtex /\ c.exectex = b.exectex /\ c.reqdct = b.reqdct
      /\ c.execssid = b.execssid /\ c.ran = b.ran
  BY <1>1 DEF TCB
<1>8. FnBegins(b, f, c)
  BY <1>2, <1>4, <1>6, <1>7 DEF FnBegins
<1>9. PICK q : q = Append(p, f)
  OBVIOUS
<1>10. Pushed(q, p, f)
  BY <1>1, <1>4, <1>9, PushPlaces
<1> QED BY <1>8, <1>9, <1>10, FnGood

\* call_brkhdr keeps the invariant, for the task that calls it and for the
\* one whose SVC is broken, which may be the same.
LEMMA BreakStep ==
  ASSUME FInv, NEW r \in Tasks, NEW t \in Tasks, stack[r] # <<>>, NEW at \in {"done", "unlock"},
         Top(r).k \in {"svc", "ras", "ssfn"}, Top(r).k = "ssfn" => at = "done", Top(r).at \notin Inside,
         call_brkhdr(r, t, at)
  PROVE  FInv'
<1> DEFINE past == [stack EXCEPT ![r][Len(stack[r])].at = at]
<1> DEFINE cnt  == [stack EXCEPT ![t] = counted(t)]
<1> DEFINE both == [cnt EXCEPT ![r][Len(stack[r])].at = at]
<1>1. at \in Places /\ Leads(Top(r), at)
  BY DEF Places, Leads, Inside
<1>2. stack \in [Tasks -> Seq(FRAME)] /\ tcb \in [Tasks -> TCB]
  BY DEF FInv
<1>3. CASE ~breaks(t)
  <2>1. Goto(r, at) /\ UNCHANGED tcb
    BY <1>3 DEF call_brkhdr, Goto
  <2> QED BY <1>1, <2>1, GotoStep
<1>4. PICK c : c = [tcb[t] EXCEPT !.ran = TRUE]
  OBVIOUS
<1>5. ran(t) = [u \in Tasks |-> IF u = t THEN c ELSE tcb[u]]
  BY <1>2, <1>4 DEF ran
<1>6. CASE breaks(t) /\ ~breakfn[tcb[t].execssid]
  <2>1. stack' = past /\ tcb' = ran(t)
    BY <1>6 DEF call_brkhdr
  <2>2. OfTasks
    BY <1>2, <1>5, <2>1 DEF OfTasks
  <2>3. Gone(stack'[r], stack[r], at)
    BY <2>1, GotoIs DEF Goto
  <2>4. \A u \in Tasks : u # r => stack'[u] = stack[u]
    BY <1>2, <2>1
  <2>5. \A u \in Tasks : Good(u, stack[u], tcb'[u])
    <3>1. Good(t, stack[t], c)
      BY <1>4, <1>6, CountedGood
    <3> QED BY <1>5, <2>1, <3>1 DEF FInv
  <2>6. Kept(r)
    <3>1. PICK s, p, b : s = stack[r] /\ p = stack'[r] /\ b = tcb'[r]
      OBVIOUS
    <3>2. Good(r, s, b) /\ s # <<>> /\ Gone(p, s, at) /\ s[Len(s)] = Top(r)
      BY <2>3, <2>5, <3>1 DEF Top
    <3>3. Good(r, p, b)
      BY <3>2, PastGood
    <3> QED BY <3>1, <3>3 DEF Kept
  <2>7. \A u \in Tasks : Kept(u)
    BY <2>4, <2>5, <2>6 DEF Kept
  <2> QED BY <2>2, <2>7, EachKept
<1>7. CASE breaks(t) /\ breakfn[tcb[t].execssid]
  <2>1. stack' = [both EXCEPT ![r] = Append(@, BreakFrame(r, t))] /\ tcb' = raised(r, t, ran(t))
    BY <1>7 DEF call_brkhdr
  <2>2. PICK q : q = counted(t)
    OBVIOUS
  <2>3. /\ Good(t, q, c) /\ Len(q) = Len(stack[t])
        /\ \A i \in 1 .. Len(q) : q[i].k = stack[t][i].k /\ q[i].at = stack[t][i].at
    BY <1>4, <1>7, <2>2, CountedGood DEF Recounted
  <2>4. PICK s : s = IF r = t THEN q ELSE stack[r]
    OBVIOUS
  <2>5. PICK b : b = IF r = t THEN c ELSE tcb[r]
    OBVIOUS
  <2>6. Good(r, s, b) /\ s # <<>> /\ s[Len(s)].k = Top(r).k /\ s[Len(s)].at = Top(r).at /\ Len(s) = Len(stack[r])
    <3>1. CASE r = t
      <4>1. Len(stack[t]) \in 1 .. Len(q) /\ s = q /\ b = c
        BY <2>3, <2>4, <2>5, <3>1, OneGood
      <4>2. s # <<>>
        BY <4>1
      <4> QED BY <2>3, <3>1, <4>1, <4>2 DEF Top
    <3>2. CASE r # t
      BY <2>4, <2>5, <3>2, OneGood DEF Top
    <3> QED BY <3>1, <3>2
  <2>7. PICK p : p = [s EXCEPT ![Len(s)] = [s[Len(s)] EXCEPT !.at = at]]
    OBVIOUS
  <2>8. Good(r, p, b)
    <3>1. Gone(p, s, at)
      BY <2>7 DEF Gone
    <3> QED BY <2>6, <3>1, PastGood
  <2>9. DOMAIN both = Tasks
    BY <1>2
  <2>10. cnt[r] = s /\ both[r] = p
    <3>1. cnt[r] = s
      BY <1>2, <2>2, <2>4
    <3>2. both[r] = [cnt[r] EXCEPT ![Len(stack[r])].at = at]
      BY <1>2
    <3>3. both[r] = [s EXCEPT ![Len(s)].at = at]
      BY <2>6, <3>1, <3>2
    <3> HIDE DEF both
    <3> QED BY <2>7, <3>1, <3>3
  <2>11. \A u \in Tasks : u # r => both[u] = (IF u = t THEN q ELSE stack[u])
    BY <1>2, <2>2
  <2>12. OfTasks
    <3>1. stack' = [u \in Tasks |-> stack'[u]]
      BY <2>1, <2>9
    <3>2. tcb' = [u \in Tasks |-> tcb'[u]]
      BY <1>5, <2>1 DEF raised
    <3> QED BY <3>1, <3>2 DEF OfTasks
  <2> HIDE DEF both
  <2>13. ASSUME NEW u \in Tasks, u # r
         PROVE  Kept(u)
    <3>1. stack'[u] = both[u]
      BY <2>1, <2>9, <2>13
    <3>2. tcb'[u] = ran(t)[u]
      BY <1>5, <2>1, <2>13 DEF raised
    <3>3. CASE u = t
      BY <1>5, <2>3, <2>11, <2>13, <3>1, <3>2, <3>3 DEF Kept
    <3>4. CASE u # t
      BY <1>5, <2>11, <2>13, <3>1, <3>2, <3>4 DEF Kept, FInv
    <3> QED BY <3>3, <3>4
  <2>14. Kept(r)
    <3>1. ran(t)[r] = b /\ b.texflg = tcb[r].texflg /\ b.priority \in Nat
      <4>1. ran(t)[r] = b
        BY <1>5, <2>5
      <4>2. c.texflg = tcb[t].texflg
        BY <1>2, <1>4 DEF TCB
      <4>3. b \in TCB
        BY <2>6 DEF Good
      <4> QED BY <2>5, <4>1, <4>2, <4>3 DEF TCB
    <3>2. PICK f : BreakFrame(r, t) = f
      OBVIOUS
    <3>3. FnCalled(f, "brk", t, b.texflg)
      BY <3>1, <3>2 DEF BreakFrame, Frame, FnCalled
    <3>4. PICK pr \in Nat : pr = IF tcb[t].priority < b.priority THEN tcb[t].priority ELSE b.priority
      BY <1>2, <3>1 DEF TCB
    <3>5. PICK d : d = [b EXCEPT !.priority = pr, !.texflg = @ \cup {"SSFN"}, !.sysmode = @ + 1]
      OBVIOUS
    <3>6. tcb'[r] = d
      BY <1>5, <2>1, <3>1, <3>4, <3>5 DEF raised
    <3>7. stack'[r] = Append(p, f)
      BY <2>1, <2>9, <2>10, <3>2
    <3>8. Good(r, Append(p, f), d)
      BY <2>8, <3>3, <3>5, BrkGood
    <3> QED BY <3>6, <3>7, <3>8 DEF Kept
  <2>15. \A u \in Tasks : Kept(u)
    BY <2>13, <2>14
  <2> QED BY <2>12, <2>15, EachKept
<1> QED BY <1>3, <1>6, <1>7

---------------------------------------------------------------------------

\* The exceptions of one task change.
LEMMA ExceptionStep ==
  ASSUME FInv, UNCHANGED stack, NEW t \in Tasks, NEW c, tcb' = [tcb EXCEPT ![t] = c],
         c \in TCB, c.sysmode = tcb[t].sysmode, c.priority = tcb[t].priority,
         c.execssid = tcb[t].execssid, c.ran = tcb[t].ran,
         c.texflg = tcb[t].texflg \/ (stack[t] = <<>> /\ ("SSFN" \in c.texflg <=> "SSFN" \in tcb[t].texflg)),
         Owing(stack[t], c)
  PROVE  FInv'
<1>1. OfTasks /\ Only(t)
  BY DEF OfTasks, Only, FInv
<1>2. tcb'[t] = c
  BY DEF FInv
<1>3. PICK s, b : s = stack[t] /\ b = tcb[t]
  OBVIOUS
<1>4. Good(t, s, b)
  BY <1>3, OneGood
<1>5. Good(t, s, c)
  BY <1>3, <1>4, ExceptionGood
<1>6. Kept(t)
  BY <1>2, <1>3, <1>5 DEF Kept
<1> QED BY <1>1, <1>6, AllKept

\* Fewer exceptions are owed.
LEMMA OwesLess ==
  ASSUME NEW t \in Tasks, FInv, NEW c, Owed(c) \subseteq Owed(tcb[t]), c.exectex = tcb[t].exectex,
         c.reqdct = tcb[t].reqdct
  PROVE  Owing(stack[t], c)
<1>1. PICK s, b : s = stack[t] /\ b = tcb[t]
  OBVIOUS
<1>2. Owing(s, b)
  BY <1>1, OneGood DEF Good
<1>3. SameCalls(s, s)
  BY DEF SameCalls
<1> QED BY <1>1, <1>2, <1>3, SameCallsOwing

\* tk_def_tex: pending and masked exceptions are dropped.
LEMMA DefTexStep ==
  ASSUME FInv, NEW t \in Tasks, NEW hdr \in BOOLEAN, tk_def_tex(t, hdr)
  PROVE  FInv'
<1>1. PICK b \in TCB : b = tcb[t]
  BY OneGood
<1>2. PICK c : c = [b EXCEPT !.pendtex = {}, !.exectex = {}, !.texmask = {}, !.texhdr = hdr]
  OBVIOUS
<1>3. tcb' = [tcb EXCEPT ![t] = c] /\ UNCHANGED stack
  BY <1>1, <1>2 DEF tk_def_tex, FInv
<1>4. {} \in SUBSET Codes
  OBVIOUS
<1>5. c \in TCB /\ c.sysmode = b.sysmode /\ c.priority = b.priority /\ c.execssid = b.execssid
      /\ c.ran = b.ran /\ c.texflg = b.texflg /\ c.pendtex = {}
  BY <1>2, <1>4 DEF TCB
<1>6. Owed(c) = {}
  BY <1>5 DEF Owed
<1>7. Owing(stack[t], c)
  BY <1>6 DEF Owing
<1> QED BY <1>1, <1>3, <1>5, <1>7, ExceptionStep

\* tk_ena_tex and tk_dis_tex.
LEMMA TexMaskStep ==
  ASSUME FInv, NEW t \in Tasks, NEW mask \in SUBSET Codes, set_tex_mask(t, mask)
  PROVE  FInv'
<1>1. PICK b \in TCB : b = tcb[t]
  BY OneGood
<1>2. PICK c : c = [b EXCEPT !.texmask = mask, !.pendtex = @ \cap mask]
  OBVIOUS
<1>3. tcb' = [tcb EXCEPT ![t] = c] /\ UNCHANGED stack
  BY <1>1, <1>2 DEF set_tex_mask, FInv
<1>4. b.pendtex \cap mask \in SUBSET Codes
  OBVIOUS
<1>5. c \in TCB /\ c.sysmode = b.sysmode /\ c.priority = b.priority /\ c.execssid = b.execssid
      /\ c.ran = b.ran /\ c.texflg = b.texflg /\ c.exectex = b.exectex /\ c.reqdct = b.reqdct
  BY <1>2, <1>4 DEF TCB
<1>6. c.pendtex = b.pendtex \cap mask
  BY <1>2 DEF TCB
<1>7. Owed(c) \subseteq Owed(b)
  BY <1>5, <1>6 DEF Owed
<1>8. Owing(stack[t], c)
  BY <1>1, <1>5, <1>7, OwesLess
<1> QED BY <1>1, <1>3, <1>5, <1>8, ExceptionStep

\* tk_dis_wai and tk_ena_wai.
LEMMA DisWaiStep ==
  ASSUME FInv, NEW t \in Tasks, NEW mask \in BOOLEAN, tk_dis_wai(t, mask)
  PROVE  FInv'
<1>1. PICK b \in TCB : b = tcb[t]
  BY OneGood
<1>2. PICK c : c = [b EXCEPT !.waitmask = mask]
  OBVIOUS
<1>3. tcb' = [tcb EXCEPT ![t] = c] /\ UNCHANGED stack
  BY <1>1, <1>2 DEF tk_dis_wai, FInv
<1>4. c \in TCB /\ c.sysmode = b.sysmode /\ c.priority = b.priority /\ c.execssid = b.execssid
      /\ c.ran = b.ran /\ c.texflg = b.texflg /\ c.exectex = b.exectex /\ c.reqdct = b.reqdct
      /\ c.pendtex = b.pendtex
  BY <1>2 DEF TCB
<1>5. Owing(stack[t], c)
  BY <1>1, <1>4, OwesLess DEF Owed
<1> QED BY <1>1, <1>3, <1>4, <1>5, ExceptionStep

\* tk_sta_tsk.
LEMMA StaTskStep ==
  ASSUME FInv, NEW t \in Tasks, tk_sta_tsk(t)
  PROVE  FInv'
<1>1. PICK b \in TCB : b = tcb[t]
  BY OneGood
<1>2. PICK c : c = [b EXCEPT !.alive = TRUE]
  OBVIOUS
<1>3. tcb' = [tcb EXCEPT ![t] = c] /\ UNCHANGED stack
  BY <1>1, <1>2 DEF tk_sta_tsk, FInv
<1>4. c \in TCB /\ c.sysmode = b.sysmode /\ c.priority = b.priority /\ c.execssid = b.execssid
      /\ c.ran = b.ran /\ c.texflg = b.texflg /\ c.exectex = b.exectex /\ c.reqdct = b.reqdct
      /\ c.pendtex = b.pendtex
  BY <1>2 DEF TCB
<1>5. Owing(stack[t], c)
  BY <1>1, <1>4, OwesLess DEF Owed
<1> QED BY <1>1, <1>3, <1>4, <1>5, ExceptionStep

\* A task that comes back to user level with an exception to handle has all
\* that it owes in exectex.
LEMMA OwedHere ==
  ASSUME FInv, NEW t \in Tasks, stack[t] = <<>>
  PROVE  Owed(tcb[t]) \subseteq tcb[t].exectex /\ "SSFN" \notin tcb[t].texflg
<1>1. Len(stack[t]) = 0
  OBVIOUS
<1>2. Good(t, stack[t], tcb[t])
  BY OneGood
<1> QED BY <1>1, <1>2 DEF Good, Owing, Marked

\* setup_texhdr: the handler takes what is owed.
LEMMA TexHdrStep ==
  ASSUME FInv, NEW t \in Tasks, setup_texhdr(t)
  PROVE  FInv'
<1>1. PICK b \in TCB : b = tcb[t]
  BY OneGood
<1>2. stack[t] = <<>> /\ Owed(b) \subseteq b.exectex /\ UNCHANGED stack
  BY <1>1, OwedHere DEF setup_texhdr
<1>3. CASE b.exectex = {}
  <2>1. PICK c : c = [b EXCEPT !.reqdct = FALSE]
    OBVIOUS
  <2>2. tcb' = [tcb EXCEPT ![t] = c]
    BY <1>1, <1>3, <2>1 DEF setup_texhdr, FInv
  <2>3. c \in TCB /\ c.sysmode = b.sysmode /\ c.priority = b.priority /\ c.execssid = b.execssid
        /\ c.ran = b.ran /\ c.texflg = b.texflg /\ c.exectex = b.exectex /\ c.pendtex = b.pendtex
    BY <2>1 DEF TCB
  <2>4. Owed(c) = {}
    BY <1>2, <1>3, <2>3 DEF Owed
  <2>5. Owing(stack[t], c)
    BY <2>4 DEF Owing
  <2> QED BY <1>1, <1>2, <2>2, <2>3, <2>5, ExceptionStep
<1>4. CASE b.exectex # {}
  <2>1. PICK code : code = lowest(b.exectex)
    OBVIOUS
  <2>2. 0 \in b.exectex => code = 0
    <3>1. b.exectex \subseteq 0 .. 31
      BY DEF TCB
    <3>2. ASSUME 0 \in b.exectex
          PROVE  code \in b.exectex /\ \A d \in b.exectex : code <= d
      <4>1. \A d \in b.exectex : 0 <= d
        BY <3>1
      <4> QED BY <2>1, <3>2, <4>1 DEF lowest
    <3>3. ASSUME 0 \in b.exectex PROVE code = 0
      BY <3>1, <3>2, <3>3
    <3> QED BY <3>3
  <2>3. PICK flg : flg = IF code = 0 THEN "TEX0" ELSE "TEX1"
    OBVIOUS
  <2>4. PICK c : c = [b EXCEPT !.reqdct = FALSE, !.exectex = {}, !.pendtex = @ \ {code},
                               !.texflg = @ \cup {flg}]
    OBVIOUS
  <2>5. tcb' = [tcb EXCEPT ![t] = c]
    <3>1. tcb' = [tcb EXCEPT ![t].reqdct = FALSE, ![t].exectex = {}, ![t].pendtex = @ \ {code},
                             ![t].texflg = @ \cup {IF code = 0 THEN "TEX0" ELSE "TEX1"}]
      BY <1>1, <1>4, <2>1 DEF setup_texhdr
    <3>2. tcb' = [tcb EXCEPT ![t].reqdct = FALSE, ![t].exectex = {}, ![t].pendtex = @ \ {code},
                             ![t].texflg = @ \cup {flg}]
      BY <2>3, <3>1
    <3> QED BY <1>1, <2>4, <3>2 DEF FInv
  <2>6. b.pendtex \ {code} \in SUBSET Codes /\ b.texflg \cup {flg} \in SUBSET TEXFLG /\ {} \in SUBSET Codes
    BY <2>3 DEF TCB, TEXFLG
  <2>7. c \in TCB /\ c.sysmode = b.sysmode /\ c.priority = b.priority /\ c.execssid = b.execssid
        /\ c.ran = b.ran
    BY <2>4, <2>6 DEF TCB
  <2>8. c.pendtex = b.pendtex \ {code} /\ c.texflg = b.texflg \cup {flg}
    BY <2>4 DEF TCB
  <2>9. "SSFN" \in c.texflg <=> "SSFN" \in b.texflg
    BY <2>3, <2>8
  <2>10. Owed(c) = {}
    <3>1. ASSUME NEW x \in Owed(c) PROVE FALSE
      <4>1. "TEX0" \notin c.texflg /\ ("TEX1" \in c.texflg => x = 0) /\ x \in b.pendtex /\ x # code
        BY <2>8, <3>1 DEF Owed
      <4>2. code # 0 /\ x = 0 /\ "TEX0" \notin b.texflg
        BY <2>3, <2>8, <4>1
      <4>3. x \in Owed(b)
        BY <4>1, <4>2 DEF Owed
      <4> QED BY <1>2, <2>2, <4>2, <4>3
    <3> QED BY <3>1
  <2>11. Owing(stack[t], c)
    BY <2>10 DEF Owing
  <2> QED BY <1>1, <1>2, <2>5, <2>7, <2>9, <2>11, ExceptionStep
<1> QED BY <1>3, <1>4

\* tk_end_tex.
LEMMA EndTexStep ==
  ASSUME FInv, NEW t \in Tasks, NEW enatex \in BOOLEAN, tk_end_tex(t, enatex)
  PROVE  FInv'
<1>1. PICK b \in TCB : b = tcb[t]
  BY OneGood
<1>2. stack[t] = <<>> /\ Owed(b) \subseteq b.exectex /\ UNCHANGED stack
  BY <1>1, OwedHere DEF tk_end_tex
<1>3. "TEX1" \in b.texflg /\ "TEX0" \notin b.texflg
  BY <1>1 DEF tk_end_tex
<1>4. PICK rest : rest = b.pendtex \ {0}
  OBVIOUS
<1>5. CASE enatex \/ rest = {}
  <2>1. PICK q \in BOOLEAN : q = (b.reqdct \/ rest # {})
    OBVIOUS
  <2>2. PICK c : c = [b EXCEPT !.texflg = @ \ {"TEX1"}, !.exectex = @ \cup b.pendtex, !.reqdct = q]
    OBVIOUS
  <2>3. tcb' = [tcb EXCEPT ![t] = c]
    BY <1>1, <1>4, <1>5, <2>1, <2>2 DEF tk_end_tex, FInv
  <2>4. b.texflg \ {"TEX1"} \in SUBSET TEXFLG /\ b.exectex \cup b.pendtex \in SUBSET Codes
    BY DEF TCB
  <2>5. c \in TCB /\ c.sysmode = b.sysmode /\ c.priority = b.priority /\ c.execssid = b.execssid
        /\ c.ran = b.ran /\ c.pendtex = b.pendtex /\ c.reqdct = q
    BY <2>2, <2>4 DEF TCB
  <2>6. c.exectex = b.exectex \cup b.pendtex /\ c.texflg = b.texflg \ {"TEX1"}
    BY <2>2 DEF TCB
  <2>7. "SSFN" \in c.texflg <=> "SSFN" \in b.texflg
    BY <2>6
  <2>8. Owed(c) \subseteq c.exectex
    BY <2>5, <2>6 DEF Owed
  <2>9. Owed(c) # {} => c.reqdct = TRUE
    <3>1. SUFFICES ASSUME NEW x \in Owed(c), rest = {} PROVE b.reqdct = TRUE
      BY <2>1, <2>5
    <3>2. x \in b.pendtex /\ x = 0
      BY <1>4, <2>5, <3>1 DEF Owed
    <3>3. 0 \in Owed(b)
      BY <1>3, <3>2 DEF Owed
    <3>4. Owing(stack[t], b)
      BY <1>1, OneGood DEF Good
    <3> QED BY <3>3, <3>4 DEF Owing
  <2>10. Owing(stack[t], c)
    BY <2>8, <2>9 DEF Owing
  <2> QED BY <1>1, <1>2, <2>3, <2>5, <2>7, <2>10, ExceptionStep
<1>6. CASE ~(enatex \/ rest = {})
  <2>1. PICK code : code = lowest(rest)
    OBVIOUS
  <2>2. PICK c : c = [b EXCEPT !.pendtex = @ \ {code}]
    OBVIOUS
  <2>3. tcb' = [tcb EXCEPT ![t] = c]
    BY <1>1, <1>4, <1>6, <2>1, <2>2 DEF tk_end_tex, FInv
  <2>4. b.pendtex \ {code} \in SUBSET Codes
    BY DEF TCB
  <2>5. c \in TCB /\ c.sysmode = b.sysmode /\ c.priority = b.priority /\ c.execssid = b.execssid
        /\ c.ran = b.ran /\ c.texflg = b.texflg /\ c.exectex = b.exectex /\ c.reqdct = b.reqdct
    BY <2>2, <2>4 DEF TCB
  <2>6. c.pendtex = b.pendtex \ {code}
    BY <2>2 DEF TCB
  <2>7. Owed(c) \subseteq Owed(b)
    BY <2>5, <2>6 DEF Owed
  <2>8. Owing(stack[t], c)
    BY <1>1, <2>5, <2>7, OwesLess
  <2> QED BY <1>1, <1>2, <2>3, <2>5, <2>8, ExceptionStep
<1> QED BY <1>5, <1>6

\* The exception is raised, or kept pending, and the one who raises it goes on.
LEMMA RasTexStep ==
  ASSUME FInv, NEW r \in Tasks, NEW code \in Codes, tk_ras_tex(r, code)
  PROVE  FInv'
<1>1. PICK t : t = Top(r).who
  OBVIOUS
<1>2. stack[r] # <<>> /\ Top(r).k = "ras" /\ Top(r).at = "locked"
  BY DEF tk_ras_tex, At
<1>3. t \in Tasks
  BY <1>1, <1>2, OneGood DEF FRAME
<1>4. PICK b \in TCB : b = tcb[t]
  BY <1>3, OneGood
<1>5. PICK pend : pend = pending(t, code)
  OBVIOUS
<1>6. pend = b.pendtex \cup ({code} \cap b.texmask) /\ pend \in SUBSET Codes
  BY <1>4, <1>5 DEF pending, TCB
<1>7. PICK at : at = IF occurs(t, code) THEN "break" ELSE "refused"
  OBVIOUS
<1>8. Goto(r, at)
  BY <1>1, <1>7 DEF tk_ras_tex
<1>9. PICK c : tcb' = [tcb EXCEPT ![t] = c] /\ Good(t, stack[t], c)
  <2>1. CASE occurs(t, code)
    <3>1. PICK c : c = [b EXCEPT !.pendtex = pend, !.exectex = @ \cup pend, !.reqdct = TRUE]
      OBVIOUS
    <3>2. tcb' = [tcb EXCEPT ![t] = c]
      BY <1>1, <1>3, <1>4, <1>5, <2>1, <3>1 DEF tk_ras_tex, FInv
    <3>3. b.exectex \cup pend \in SUBSET Codes
      BY <1>6 DEF TCB
    <3>4. c \in TCB /\ c.sysmode = b.sysmode /\ c.priority = b.priority /\ c.execssid = b.execssid
          /\ c.ran = b.ran /\ c.texflg = b.texflg
      BY <1>6, <3>1, <3>3 DEF TCB
    <3>5. c.pendtex = pend /\ c.reqdct = TRUE /\ pend \subseteq c.exectex
      BY <3>1 DEF TCB
    <3>6. Owing(stack[t], c)
      BY <3>5 DEF Owing, Owed
    <3>7. Good(t, stack[t], c)
      BY <1>3, <1>4, <3>4, <3>6, OneGood, ExceptionGood
    <3> QED BY <3>2, <3>7
  <2>2. CASE ~occurs(t, code) /\ b.texhdr /\ b.alive /\ "TEX0" \notin b.texflg
    <3>1. PICK c : c = [b EXCEPT !.pendtex = pend]
      OBVIOUS
    <3>2. tcb' = [tcb EXCEPT ![t] = c]
      BY <1>1, <1>3, <1>4, <1>5, <2>2, <3>1 DEF tk_ras_tex, FInv
    <3>3. c \in TCB /\ c.sysmode = b.sysmode /\ c.priority = b.priority /\ c.execssid = b.execssid
          /\ c.ran = b.ran /\ c.texflg = b.texflg /\ c.exectex = b.exectex /\ c.reqdct = b.reqdct
          /\ c.pendtex = pend
      BY <1>6, <3>1 DEF TCB
    <3>4. pend = {} \/ (0 \notin pend /\ "TEX1" \in b.texflg)
      BY <1>4, <1>5, <2>2 DEF occurs
    <3>5. Owed(c) = {}
      BY <3>3, <3>4 DEF Owed
    <3>6. Owing(stack[t], c)
      BY <3>5 DEF Owing
    <3>7. Good(t, stack[t], c)
      BY <1>3, <1>4, <3>3, <3>6, OneGood, ExceptionGood
    <3> QED BY <3>2, <3>7
  <2>3. CASE ~occurs(t, code) /\ ~(b.texhdr /\ b.alive /\ "TEX0" \notin b.texflg)
    <3>1. tcb' = tcb
      BY <1>1, <1>4, <2>3 DEF tk_ras_tex
    <3>2. tcb' = [tcb EXCEPT ![t] = b]
      BY <1>3, <1>4, <3>1 DEF FInv
    <3> QED BY <1>3, <1>4, <3>2, OneGood
  <2> QED BY <2>1, <2>2, <2>3
<1>10. Gone(stack'[r], stack[r], at)
  BY <1>3, <1>8, GotoIs
<1>11. at \in Places /\ Leads(Top(r), at)
  BY <1>2, <1>7 DEF Places, Leads, Inside
<1>12. OfTasks
  BY <1>3, <1>8, <1>9 DEF OfTasks, FInv, Goto
<1>13. \A u \in Tasks : Good(u, stack[u], tcb'[u])
  BY <1>3, <1>9 DEF FInv
<1>14. ASSUME NEW u \in Tasks, u # r PROVE Kept(u)
  <2>1. stack'[u] = stack[u]
    BY <1>8, <1>14 DEF Goto, FInv
  <2> QED BY <1>13, <2>1 DEF Kept
<1>15. Kept(r)
  <2>1. PICK s, p, b2 : s = stack[r] /\ p = stack'[r] /\ b2 = tcb'[r]
    OBVIOUS
  <2>2. Good(r, s, b2) /\ s # <<>> /\ Gone(p, s, at) /\ Leads(s[Len(s)], at)
    BY <1>2, <1>10, <1>11, <1>13, <2>1 DEF Top
  <2>3. Good(r, p, b2)
    BY <1>11, <2>2, GotoGood DEF Leads
  <2> QED BY <2>1, <2>3 DEF Kept
<1> QED BY <1>12, <1>14, <1>15, EachKept

\* An extended SVC is entered.
LEMMA SvcEnterStep ==
  ASSUME FInv, NEW t \in Tasks, NEW ss \in Ssys, svc_enter(t, ss)
  PROVE  FInv'
<1>1. PICK s, b : s = stack[t] /\ b = tcb[t]
  OBVIOUS
<1>2. Good(t, s, b) /\ s \in Seq(FRAME) /\ b \in TCB /\ s # <<>> /\ Len(s) \in 1 .. Len(s)
  BY <1>1, OneGood DEF svc_enter, At
<1>3. PICK f : f = s[Len(s)]
  OBVIOUS
<1>4. f = Top(t) /\ f \in FRAME /\ FrameOK(f) /\ f.k = "svc" /\ f.at = "locked"
  BY <1>1, <1>2, <1>3, OneGood DEF svc_enter, At, Top
<1>5. Plain(f)
  BY <1>4, PlainFrame DEF Inside
<1>6. PICK g : g = [f EXCEPT !.at = "body", !.ssid = ss, !.execssid = b.execssid,
                             !.ran = b.ran, !.waitmask = b.waitmask, !.exectex = b.exectex]
  OBVIOUS
<1>7. PICK ex : ex = IF b.ran THEN {} ELSE b.exectex
  OBVIOUS
<1>8. PICK c : c = [b EXCEPT !.execssid = ss, !.ran = FALSE, !.waitmask = FALSE,
                             !.exectex = ex, !.sysmode = @ + 1]
  OBVIOUS
<1>9. stack' = [stack EXCEPT ![t] = [@ EXCEPT ![Len(s)] = g]]
  BY <1>1, <1>3, <1>6 DEF svc_enter, FInv
<1>10. tcb' = [tcb EXCEPT ![t] = c]
  BY <1>1, <1>7, <1>8 DEF svc_enter, FInv
<1>11. g \in FRAME
  <2>1. ss \in SSID /\ "body" \in Places
    BY DEF SSID, Places
  <2>2. b.execssid \in SSID /\ b.ran \in BOOLEAN /\ b.waitmask \in BOOLEAN /\ b.exectex \in SUBSET Codes
    BY <1>2 DEF TCB
  <2> QED BY <1>4, <1>6, <2>1, <2>2 DEF FRAME
<1>12. g.k = "svc" /\ g.at = "body" /\ g.ssid = ss /\ g.breaks = f.breaks /\ g.execssid = b.execssid
       /\ g.ran = b.ran /\ g.exectex = b.exectex
  BY <1>4, <1>6 DEF FRAME
<1>13. c \in TCB /\ c.ran = FALSE /\ c.sysmode = b.sysmode + 1
       /\ c.priority = b.priority /\ c.reqdct = b.reqdct /\ c.pendtex = b.pendtex /\ c.texflg = b.texflg
  <2>1. ss \in SSID /\ ex \in SUBSET Codes /\ b.sysmode + 1 \in Nat
    BY <1>2, <1>7 DEF SSID, TCB
  <2> QED BY <1>2, <1>8, <2>1 DEF TCB
<1>14. SvcBegins(b, g, c)
  <2>1. ss # NULL /\ g.breaks = 0
    BY <1>5, <1>12 DEF Plain
  <2>2. Ent(g) /\ FrameOK(g) /\ InSys(g) /\ ~InFn(g)
    BY <1>12, <2>1 DEF Ent, FrameOK, InSys, InFn, Inside
  <2> QED BY <1>12, <1>13, <2>1, <2>2 DEF SvcBegins
<1>15. PICK r : r = [s EXCEPT ![Len(s)] = g]
  OBVIOUS
<1>16. Good(t, r, c)
  <2>1. Topped(r, s, g)
    BY <1>2, <1>11, <1>15, TopPlaces
  <2> QED BY <1>2, <1>3, <1>5, <1>14, <2>1, EnterGood
<1>17. OfTasks /\ Only(t) /\ stack'[t] = r /\ tcb'[t] = c
  BY <1>1, <1>9, <1>10, <1>15 DEF OfTasks, Only, FInv
<1>18. Kept(t)
  BY <1>16, <1>17 DEF Kept
<1> QED BY <1>17, <1>18, AllKept

\* A task in a call has been counted.
LEMMA SysDown ==
  ASSUME NEW t, NEW s, NEW b, Good(t, s, b), Len(s) \in 1 .. Len(s), InSys(s[Len(s)])
  PROVE  b.sysmode - 1 \in Nat
<1>1. s \in Seq(FRAME) /\ Len(s) \in Sys(s)
  BY DEF Sys, Good
<1>2. Cardinality(Sys(s) \ {Len(s)}) = Cardinality(Sys(s)) - 1 /\ IsFiniteSet(Sys(s))
  BY <1>1, SysCount
<1>3. IsFiniteSet(Sys(s) \ {Len(s)})
  BY <1>2, FS_Subset
<1>4. Cardinality(Sys(s) \ {Len(s)}) \in Nat
  BY <1>3, FS_CardinalityType
<1> QED BY <1>2, <1>4 DEF Good

\* Its return: a frame for the rest of the way takes its place.
LEMMA SvcLeaveStep ==
  ASSUME FInv, NEW t \in Tasks, svc_leave(t)
  PROVE  FInv'
<1>1. PICK s, b : s = stack[t] /\ b = tcb[t]
  OBVIOUS
<1>2. Good(t, s, b) /\ s \in Seq(FRAME) /\ b \in TCB /\ s # <<>> /\ Len(s) \in 1 .. Len(s)
  BY <1>1, OneGood DEF svc_leave, At
<1>3. PICK f : f = s[Len(s)]
  OBVIOUS
<1>4. f = Top(t) /\ f \in FRAME /\ FrameOK(f) /\ f.k = "svc" /\ f.at = "leaving"
  BY <1>1, <1>2, <1>3, OneGood DEF svc_leave, At, Top
<1>5. PICK g : g = [Frame("svc", t) EXCEPT !.at = "break"]
  OBVIOUS
<1>6. g \in FRAME /\ Plain(g) /\ FrameOK(g)
  BY <1>5, NewFrame
<1>7. PICK p : p = SubSeq(s, 1, Len(s) - 1)
  OBVIOUS
<1>8. PICK r : r = Append(p, g)
  OBVIOUS
<1>9. PICK c : c = [b EXCEPT !.sysmode = @ - 1, !.execssid = f.execssid, !.ran = f.ran,
                             !.waitmask = f.waitmask, !.exectex = @ \cup f.exectex]
  OBVIOUS
<1>10. stack' = [stack EXCEPT ![t] = r]
  BY <1>1, <1>5, <1>7, <1>8 DEF svc_leave, popped
<1>11. tcb' = [tcb EXCEPT ![t] = c]
  BY <1>1, <1>4, <1>9 DEF svc_leave, FInv
<1>12. Ent(f) /\ InSys(f)
  BY <1>4 DEF Ent, InSys, FrameOK, Inside
<1>13. b.sysmode - 1 \in Nat
  BY <1>2, <1>3, <1>12, SysDown
<1>14. c \in TCB /\ c.sysmode = b.sysmode - 1 /\ c.execssid = f.execssid /\ c.ran = f.ran
       /\ c.priority = b.priority /\ c.reqdct = b.reqdct /\ c.pendtex = b.pendtex /\ c.texflg = b.texflg
  <2>1. f.execssid \in SSID /\ f.ran \in BOOLEAN /\ f.waitmask \in BOOLEAN /\ b.exectex \cup f.exectex \in SUBSET Codes
    BY <1>2, <1>4 DEF TCB, FRAME
  <2> QED BY <1>2, <1>9, <1>13, <2>1 DEF TCB
<1>15. c.exectex = b.exectex \cup f.exectex
  BY <1>2, <1>9 DEF TCB
<1>16. SvcEnds(b, f, c)
  BY <1>12, <1>14, <1>15 DEF SvcEnds
<1>17. Sheds(r, s)
  <2>1. /\ Len(s) \in Nat /\ Len(s) > 0 /\ p \in Seq(FRAME) /\ Len(p) = Len(s) - 1
        /\ \A i \in 1 .. Len(s) - 1 : p[i] = s[i]
    BY <1>2, <1>7, PopPlaces
  <2>2. Pushed(r, p, g)
    BY <1>6, <1>8, <2>1, PushPlaces
  <2>3. Len(r) = Len(s) /\ r[Len(s)] = g
    <3>1. Len(p) + 1 = Len(s)
      BY <2>1
    <3> QED BY <2>2, <3>1 DEF Pushed
  <2> QED BY <1>6, <2>1, <2>2, <2>3 DEF Sheds, Pushed
<1>18. Good(t, r, c)
  BY <1>2, <1>3, <1>16, <1>17, LeaveGood
<1>19. OfTasks /\ Only(t) /\ stack'[t] = r /\ tcb'[t] = c
  BY <1>10, <1>11 DEF OfTasks, Only, FInv
<1>20. Kept(t)
  BY <1>18, <1>19 DEF Kept
<1> QED BY <1>19, <1>20, AllKept

\* A break function returns, and a function of a subsystem.
LEMMA BrkReturnStep ==
  ASSUME FInv, NEW t \in Tasks, break_return(t)
  PROVE  FInv'
<1>1. PICK s, b : s = stack[t] /\ b = tcb[t]
  OBVIOUS
<1>2. Good(t, s, b) /\ s \in Seq(FRAME) /\ b \in TCB /\ s # <<>> /\ Len(s) \in 1 .. Len(s)
  BY <1>1, OneGood DEF break_return, At
<1>3. PICK f : f = s[Len(s)]
  OBVIOUS
<1>4. f = Top(t) /\ f \in FRAME /\ f.k = "brk" /\ f.at = "body"
  BY <1>1, <1>2, <1>3, OneGood DEF break_return, At, Top
<1>5. PICK r : r = SubSeq(s, 1, Len(s) - 1)
  OBVIOUS
<1>6. PICK c : c = [b EXCEPT !.sysmode = @ - 1, !.texflg = f.texflg, !.priority = bpriority[t]]
  OBVIOUS
<1>7. stack' = [stack EXCEPT ![t] = r]
  BY <1>1, <1>5 DEF break_return, Pop, popped
<1>8. tcb' = [tcb EXCEPT ![t] = c]
  BY <1>1, <1>4, <1>6 DEF break_return, FInv
<1>9. InFn(f) /\ InSys(f)
  BY <1>4 DEF InFn, InSys, Inside
<1>10. b.sysmode - 1 \in Nat /\ f.texflg \in SUBSET TEXFLG /\ bpriority[t] \in Nat
  BY <1>2, <1>3, <1>4, <1>9, SysDown DEF FRAME
<1>11. c \in TCB /\ c.texflg = f.texflg /\ c.sysmode = b.sysmode - 1
       /\ c.pendtex = b.pendtex /\ c.exectex = b.exectex /\ c.reqdct = b.reqdct
       /\ c.execssid = b.execssid /\ c.ran = b.ran /\ c.priority = bpriority[t]
  BY <1>2, <1>6, <1>10 DEF TCB
<1>12. FnEnds(t, b, f, c)
  BY <1>9, <1>11 DEF FnEnds
<1>13. Sheds(r, s)
  BY <1>2, <1>5, PopPlaces DEF Sheds
<1>14. Good(t, r, c)
  BY <1>2, <1>3, <1>12, <1>13, FnEndGood
<1>15. OfTasks /\ Only(t) /\ stack'[t] = r /\ tcb'[t] = c
  BY <1>7, <1>8 DEF OfTasks, Only, FInv
<1>16. Kept(t)
  BY <1>14, <1>15 DEF Kept
<1> QED BY <1>15, <1>16, AllKept

\* A function of a subsystem returns.
LEMMA SsfnReturnStep ==
  ASSUME FInv, NEW t \in Tasks, ssfn_return(t)
  PROVE  FInv'
<1>1. PICK s, b : s = stack[t] /\ b = tcb[t]
  OBVIOUS
<1>2. Good(t, s, b) /\ s \in Seq(FRAME) /\ b \in TCB /\ s # <<>> /\ Len(s) \in 1 .. Len(s)
  BY <1>1, OneGood DEF ssfn_return, At
<1>3. PICK f : f = s[Len(s)]
  OBVIOUS
<1>4. f = Top(t) /\ f \in FRAME /\ FrameOK(f) /\ f.k = "ssfn" /\ f.at = "body"
  BY <1>1, <1>2, <1>3, OneGood DEF ssfn_return, At, Top
<1>5. PICK g : g = [f EXCEPT !.at = "break"]
  OBVIOUS
<1>6. g \in FRAME /\ Plain(g) /\ FrameOK(g)
  <2>1. g \in FRAME
    BY <1>4, <1>5 DEF FRAME, Places
  <2>2. g.k = "ssfn" /\ g.at = "break" /\ g.ssid = f.ssid /\ g.breaks = f.breaks /\ g.exectex = f.exectex
    BY <1>4, <1>5 DEF FRAME
  <2>3. FrameOK(g)
    BY <1>4, <2>2 DEF FrameOK, Inside
  <2> QED BY <2>1, <2>2, <2>3, PlainFrame DEF Inside
<1>7. PICK c : c = [b EXCEPT !.texflg = f.texflg, !.sysmode = @ - 1]
  OBVIOUS
<1>8. tcb' = [tcb EXCEPT ![t] = c]
  BY <1>1, <1>4, <1>7 DEF ssfn_return, FInv
<1>9. InFn(f) /\ InSys(f)
  BY <1>4 DEF InFn, InSys, Inside
<1>10. b.sysmode - 1 \in Nat /\ f.texflg \in SUBSET TEXFLG
  BY <1>2, <1>3, <1>4, <1>9, SysDown DEF FRAME
<1>11. c \in TCB /\ c.texflg = f.texflg /\ c.sysmode = b.sysmode - 1
       /\ c.pendtex = b.pendtex /\ c.exectex = b.exectex /\ c.reqdct = b.reqdct
       /\ c.execssid = b.execssid /\ c.ran = b.ran /\ c.priority = b.priority
  BY <1>2, <1>7, <1>10 DEF TCB
<1>12. FnEnds(t, b, f, c)
  BY <1>4, <1>9, <1>11 DEF FnEnds
<1>13. PICK r : r = stack'[t]
  OBVIOUS
<1>14. r = [s EXCEPT ![Len(s)] = g]
  <2>1. Gone(r, s, "break")
    BY <1>1, <1>13, GotoIs DEF ssfn_return
  <2> QED BY <1>3, <1>5, <2>1 DEF Gone
<1>15. Sheds(r, s)
  <2>1. Topped(r, s, g)
    BY <1>2, <1>6, <1>14, TopPlaces
  <2> QED BY <1>6, <2>1 DEF Topped, Sheds
<1>16. Good(t, r, c)
  BY <1>2, <1>3, <1>12, <1>15, FnEndGood
<1>17. OfTasks /\ Only(t)
  BY <1>8 DEF ssfn_return, Goto, OfTasks, Only, FInv
<1>18. tcb'[t] = c
  BY <1>8 DEF FInv
<1>19. Kept(t)
  BY <1>13, <1>16, <1>18 DEF Kept
<1> QED BY <1>17, <1>19, AllKept

\* A function of a subsystem is called.
LEMMA SsfnCallStep ==
  ASSUME FInv, NEW t \in Tasks, ssfn_call(t)
  PROVE  FInv'
<1>1. PICK s, b : s = stack[t] /\ b = tcb[t]
  OBVIOUS
<1>2. Good(t, s, b) /\ s \in Seq(FRAME) /\ b \in TCB
  BY <1>1, OneGood
<1>3. PICK flg \in SUBSET TEXFLG : flg = b.texflg
  BY <1>2 DEF TCB
<1>4. PICK f : f = [Frame("ssfn", t) EXCEPT !.at = "body", !.texflg = b.texflg]
  OBVIOUS
<1>5. FnCalled(f, "ssfn", t, flg)
  BY <1>3, <1>4 DEF Frame, FnCalled
<1>6. f \in FRAME /\ f.k = "ssfn" /\ f.texflg = flg /\ f.exectex = {}
      /\ InFn(f) /\ ~Ent(f) /\ FrameOK(f)
  BY <1>5, FnFrame
<1>7. stack' = [stack EXCEPT ![t] = Append(@, f)]
  BY <1>1, <1>4 DEF ssfn_call, Push
<1>8. PICK c : c = [b EXCEPT !.texflg = @ \cup {"SSFN"}, !.sysmode = @ + 1]
  OBVIOUS
<1>9. tcb' = [tcb EXCEPT ![t] = c]
  BY <1>1, <1>8 DEF ssfn_call, FInv
<1>10. b.texflg \cup {"SSFN"} \in SUBSET TEXFLG /\ b.sysmode + 1 \in Nat
  BY <1>2 DEF TCB, TEXFLG
<1>11. c \in TCB
  BY <1>2, <1>8, <1>10 DEF TCB
<1>12. c.texflg = b.texflg \cup {"SSFN"} /\ c.sysmode = b.sysmode + 1
       /\ c.pendtex = b.pendtex /\ c.exectex = b.exectex /\ c.reqdct = b.reqdct
       /\ c.execssid = b.execssid /\ c.ran = b.ran /\ c.priority = b.priority
  BY <1>2, <1>8 DEF TCB
<1>13. FnBegins(b, f, c)
  BY <1>3, <1>6, <1>11, <1>12 DEF FnBegins
<1>14. PICK r : r = Append(s, f)
  OBVIOUS
<1>15. Pushed(r, s, f)
  BY <1>2, <1>6, <1>14, PushPlaces
<1>16. Good(t, r, c)
  BY <1>2, <1>13, <1>15, FnGood
<1>17. OfTasks /\ Only(t) /\ stack'[t] = r /\ tcb'[t] = c
  BY <1>1, <1>7, <1>9, <1>14 DEF OfTasks, Only, FInv
<1>18. Kept(t)
  BY <1>16, <1>17 DEF Kept
<1> QED BY <1>17, <1>18, AllKept

\* A task ends.
LEMMA TerTskStep ==
  ASSUME FInv, NEW t \in Tasks, ter_tsk(t)
  PROVE  FInv'
<1>1. tcb' = [tcb EXCEPT ![t] = make_dormant(t)] /\ stack' = [stack EXCEPT ![t] = <<>>]
  BY DEF ter_tsk
<1>2. OfTasks /\ Only(t) /\ stack'[t] = <<>> /\ tcb'[t] = make_dormant(t)
  BY <1>1 DEF OfTasks, Only, FInv
<1>3. Kept(t)
  BY <1>2, DormantGood DEF Kept
<1> QED BY <1>2, <1>3, AllKept

\* What changes neither stacks nor control blocks.
LEMMA StillStep ==
  ASSUME FInv, UNCHANGED <<stack, tcb>>
  PROVE  FInv'
BY DEF FInv

---------------------------------------------------------------------------

\* Every action keeps the invariant of stacks and control blocks.
LEMMA FInvNext ==
  ASSUME FInv, [Next]_vars
  PROVE  FInv'
<1>1. CASE UNCHANGED vars
  BY <1>1, StillStep DEF vars
<1>2. ASSUME NEW t \in Tasks, svc_call(t) PROVE FInv'
  BY <1>2, PushStep DEF svc_call
<1>3. ASSUME NEW t \in Tasks, svc_lock(t) PROVE FInv'
  <2>1. CASE UNCHANGED stack
    BY <1>3, <2>1, StillStep DEF svc_lock
  <2>2. CASE Goto(t, "locked") /\ At(t, "svc", "lock")
    BY <1>3, <2>2, GotoStep DEF svc_lock, At, Leads, Places, Inside
  <2>3. CASE Goto(t, "leaving") /\ At(t, "svc", "leave")
    BY <1>3, <2>3, GotoStep DEF svc_lock, At, Leads, Places, Inside
  <2> QED BY <1>3, <2>1, <2>2, <2>3 DEF svc_lock, LockSVC
<1>4. ASSUME NEW t \in Tasks, svc_refused(t) PROVE FInv'
  BY <1>4, PopStep DEF svc_refused, At, Inside
<1>5. ASSUME NEW t \in Tasks, NEW s \in Ssys, svc_enter(t, s) PROVE FInv'
  BY <1>5, SvcEnterStep
<1>6. ASSUME NEW t \in Tasks, svc_return(t) PROVE FInv'
  BY <1>6, GotoStep DEF svc_return, At, Leads, Places, Inside
<1>7. ASSUME NEW t \in Tasks, svc_leave(t) PROVE FInv'
  BY <1>7, SvcLeaveStep
<1>8. ASSUME NEW t \in Tasks, svc_break(t) PROVE FInv'
  BY <1>8, BreakStep DEF svc_break, At, Inside
<1>9. ASSUME NEW t \in Tasks, break_return(t) PROVE FInv'
  BY <1>9, BrkReturnStep
<1>10. ASSUME NEW t \in Tasks, done(t) PROVE FInv'
  BY <1>10, PopStep DEF done, At, Inside
<1>11. ASSUME NEW t \in Tasks, NEW u \in Tasks, ras_call(t, u) PROVE FInv'
  BY <1>11, PushStep DEF ras_call
<1>12. ASSUME NEW t \in Tasks, ras_lock(t) PROVE FInv'
  <2>1. CASE UNCHANGED stack
    BY <1>12, <2>1, StillStep DEF ras_lock
  <2>2. CASE Goto(t, "locked")
    BY <1>12, <2>2, GotoStep DEF ras_lock, At, Leads, Places, Inside
  <2> QED BY <1>12, <2>1, <2>2 DEF ras_lock, LockSVC
<1>13. ASSUME NEW t \in Tasks, NEW c \in Codes, tk_ras_tex(t, c) PROVE FInv'
  BY <1>13, RasTexStep
<1>14. ASSUME NEW t \in Tasks, ras_break(t) PROVE FInv'
  <2>1. Top(t).who \in Tasks /\ stack[t] # <<>> /\ Top(t).k = "ras" /\ Top(t).at = "break"
    BY <1>14, OneGood DEF ras_break, At, FRAME
  <2>2. call_brkhdr(t, Top(t).who, "unlock")
    BY <1>14 DEF ras_break
  <2> QED BY <2>1, <2>2, BreakStep DEF Inside
<1>15. ASSUME NEW t \in Tasks, ras_unlock(t) PROVE FInv'
  <2>1. stack[t] # <<>> /\ Top(t).k = "ras" /\ Top(t).at \notin Inside
    BY <1>15 DEF ras_unlock, At, Inside
  <2>2. (Goto(t, "self") \/ Goto(t, "done")) /\ UNCHANGED tcb
    BY <1>15 DEF ras_unlock
  <2> QED BY <2>1, <2>2, GotoStep DEF Leads, Places, Inside
<1>16. ASSUME NEW t \in Tasks, ras_self(t) PROVE FInv'
  BY <1>16, BreakStep DEF ras_self, At, Inside
<1>17. ASSUME NEW t \in Tasks, setup_texhdr(t) PROVE FInv'
  BY <1>17, TexHdrStep
<1>18. ASSUME NEW t \in Tasks, NEW e \in BOOLEAN, tk_end_tex(t, e) PROVE FInv'
  BY <1>18, EndTexStep
<1>19. ASSUME NEW t \in Tasks, ssfn_call(t) PROVE FInv'
  BY <1>19, SsfnCallStep
<1>20. ASSUME NEW t \in Tasks, ssfn_return(t) PROVE FInv'
  BY <1>20, SsfnReturnStep
<1>21. ASSUME NEW t \in Tasks, ssfn_break(t) PROVE FInv'
  BY <1>21, BreakStep DEF ssfn_break, At, Inside
<1>22. ASSUME NEW t \in Tasks, NEW hdr \in BOOLEAN, tk_def_tex(t, hdr) PROVE FInv'
  BY <1>22, DefTexStep
<1>23. ASSUME NEW t \in Tasks, NEW mask \in {{}, Codes}, set_tex_mask(t, mask) PROVE FInv'
  <2>1. mask \in SUBSET Codes
    BY <1>23
  <2> QED BY <1>23, <2>1, TexMaskStep
<1>24. ASSUME NEW t \in Tasks, NEW mask \in BOOLEAN, tk_dis_wai(t, mask) PROVE FInv'
  BY <1>24, DisWaiStep
<1>25. ASSUME NEW t \in Tasks, ter_tsk(t) PROVE FInv'
  BY <1>25, TerTskStep
<1>26. ASSUME NEW t \in Tasks, tk_sta_tsk(t) PROVE FInv'
  BY <1>26, StaTskStep
<1>27. ASSUME NEW s \in Ssys, NEW register \in BOOLEAN, tk_def_ssy(s, register) PROVE FInv'
  BY <1>27, StillStep DEF tk_def_ssy
<1> QED BY <1>1, <1>2, <1>3, <1>4, <1>5, <1>6, <1>7, <1>8, <1>9, <1>10, <1>11, <1>12, <1>13, <1>14,
           <1>15, <1>16, <1>17, <1>18, <1>19, <1>20, <1>21, <1>22, <1>23, <1>24, <1>25, <1>26, <1>27
        DEF Next

\* At first all tasks are at user level.
LEMMA FInvInit ==
  ASSUME SubsystemInit
  PROVE  FInv
<1>1. ASSUME NEW t \in Tasks
      PROVE  /\ Good(t, stack[t], tcb[t])
             /\ stack[t] \in Seq(FRAME) /\ tcb[t] \in TCB
  <2>1. stack[t] = <<>> /\ tcb[t] = [make_dormant(t) EXCEPT !.alive = TRUE]
    BY DEF SubsystemInit
  <2>2. Good(t, stack[t], tcb[t])
    BY <2>1, DormantGood
  <2> QED BY <2>2 DEF Good
<1>2. stack = [t \in Tasks |-> stack[t]] /\ tcb = [t \in Tasks |-> tcb[t]]
  BY DEF SubsystemInit
<1> QED BY <1>1, <1>2 DEF FInv

\* Stacks and control blocks: the types, the chain of the calls of extended
\* SVCs with their marks, the functions that run, the exceptions owed, the
\* priority and the count of calls.
THEOREM FramesInductive == SubsystemSpec => []FInv
<1>1. SubsystemInit => FInv
  BY FInvInit
<1>2. FInv /\ [Next]_vars => FInv'
  BY FInvNext
<1> QED BY <1>1, <1>2, PTL DEF SubsystemSpec

\* However many exceptions are raised, one call of an extended SVC is broken
\* at most once: BREAK_RAN is kept across the SVCs called inside
\* (subsystem.c:566).
THEOREM BreaksOnce == SubsystemSpec => []BreakOnce
<1>1. FInv => BreakOnce
  <2>1. SUFFICES ASSUME FInv, NEW t \in Tasks, NEW i \in DOMAIN stack[t]
                 PROVE  stack[t][i].breaks <= 1
    BY DEF BreakOnce
  <2>2. stack[t] \in Seq(FRAME)
    BY <2>1, OneGood
  <2>3. i \in 1 .. Len(stack[t])
    BY <2>1, <2>2, LenProperties
  <2>4. stack[t][i] \in FRAME
    BY <2>2, <2>3, ElementOfSeq
  <2> QED BY <2>4 DEF FRAME, Counts
<1> QED BY <1>1, FramesInductive, PTL

\* An exception enabled and pending for a task at user level, in no exception
\* handler, is about to be handled (subsystem.c and cpu_init.c).
THEOREM ExceptionsKept == SubsystemSpec => []NoExceptionLost
<1>1. FInv => NoExceptionLost
  <2>1. SUFFICES ASSUME FInv, NEW t \in Tasks, stack[t] = <<>>, tcb[t].pendtex # {},
                        tcb[t].texflg \cap {"TEX0", "TEX1"} = {}
                 PROVE  tcb[t].reqdct /\ tcb[t].pendtex \subseteq tcb[t].exectex
    BY DEF NoExceptionLost
  <2>2. Owed(tcb[t]) = tcb[t].pendtex
    BY <2>1 DEF Owed
  <2>3. Owing(stack[t], tcb[t])
    BY <2>1, OneGood DEF Good
  <2> QED BY <2>1, <2>2, <2>3, OwedHere DEF Owing
<1> QED BY <1>1, FramesInductive, PTL

---------------------------------------------------------------------------

\* The places at which a task has the extended SVC lock, and at which it is
\* about to take it.
HoldsAt(k, at) ==
  \/ k = "svc" /\ at \in {"locked", "leaving"}
  \/ k = "ras" /\ at \in {"locked", "break", "unlock", "refused"}
WantsAt(k, at) ==
  \/ k = "svc" /\ at \in {"lock", "leave"}
  \/ k = "ras" /\ at = "lock"
Holding(f) == HoldsAt(f.k, f.at)
Wanting(f) == WantsAt(f.k, f.at)

\* The frame that says which lock a task has: the last, or the one that
\* called the break function that runs.
Lf(s) == IF s # <<>> /\ s[Len(s)].k = "brk" THEN Len(s) - 1 ELSE Len(s)

\* A task is in the middle of one call; the calls below wait in their
\* functions.  A break function for another runs under the lock of the other.
Shape(t, s) ==
  /\ \A i \in 1 .. Len(s) : s[i].k = "svc" => s[i].who = t
  /\ \A i \in 1 .. Len(s) : s[i].k = "brk" => i = Len(s)
  /\ \A i \in 1 .. Len(s) : i < Lf(s) => s[i].at = "body"
  /\ \A i \in 1 .. Len(s) : s[i].k = "brk" => Lf(s) \in 1 .. Len(s) /\ s[Lf(s)].at \in {"done", "unlock"}
  /\ \A i \in 1 .. Len(s) : s[i].k = "brk" /\ s[i].who # t =>
       s[Lf(s)].k = "ras" /\ s[Lf(s)].at = "unlock" /\ s[Lf(s)].who = s[i].who

\* q is the lock of that frame, or none.
LockOf(s, q) ==
  \/ q = <<>> /\ \A i \in 1 .. Len(s) : i = Lf(s) => ~Holding(s[i])
  \/ \E i \in 1 .. Len(s) : i = Lf(s) /\ q = <<s[i].who>> /\ (Holding(s[i]) \/ Wanting(s[i]))

Lk(t, s, q) == Shape(t, s) /\ LockOf(s, q)

\* The same with another top, not of a break function.
LEMMA TopLk ==
  ASSUME NEW t, NEW s \in Seq(FRAME), NEW q, Lk(t, s, q), s[Len(s)].k # "brk",
         NEW r, NEW g, Topped(r, s, g), g.k = s[Len(s)].k, g.who = s[Len(s)].who,
         NEW p, (p = <<>> /\ ~Holding(g)) \/ (p = <<g.who>> /\ (Holding(g) \/ Wanting(g)))
  PROVE  Lk(t, r, p)
<1> DEFINE n == Len(s)
<1>1. n \in Nat /\ n > 0 /\ Len(r) = n /\ r[n] = g /\ n \in 1 .. n
  BY LenProperties DEF Topped
<1>2. \A i \in 1 .. n : i # n => i < n /\ r[i] = s[i]
  BY <1>1 DEF Topped
<1> HIDE DEF n
<1>3. Lf(s) = n /\ Lf(r) = n
  BY <1>1 DEF Lf, n
<1>4. \A i \in 1 .. n : r[i].k = s[i].k /\ r[i].who = s[i].who
  BY <1>1, <1>2 DEF n
<1>5. \A i \in 1 .. n : s[i].k # "brk"
  BY DEF Lk, Shape, n
<1>6. Shape(t, r)
  <2>1. \A i \in 1 .. n : r[i].k = "svc" => r[i].who = t
    BY <1>4 DEF Lk, Shape, n
  <2>2. \A i \in 1 .. n : i < n => s[i].at = "body"
    BY <1>3 DEF Lk, Shape, n
  <2>3. \A i \in 1 .. n : i < n => r[i].at = "body"
    BY <1>2, <2>2
  <2>4. \A i \in 1 .. n : r[i].k # "brk"
    BY <1>4, <1>5
  <2> QED BY <1>1, <1>3, <2>1, <2>3, <2>4 DEF Shape
<1>7. LockOf(r, p)
  BY <1>1, <1>3 DEF LockOf
<1> QED BY <1>6, <1>7 DEF Lk

\* A frame is pushed by code of the task's own, which has no lock.
LEMMA PushLk ==
  ASSUME NEW t, NEW s \in Seq(FRAME), NEW q, Lk(t, s, q),
         s # <<>> => s[Len(s)].k # "brk" /\ s[Len(s)].at = "body",
         NEW r, NEW f, Pushed(r, s, f), f.k # "brk", f.k = "svc" => f.who = t, ~Holding(f)
  PROVE  Lk(t, r, q) /\ q = <<>>
<1> DEFINE n == Len(s)
<1>1. n \in Nat /\ Len(r) = n + 1 /\ r[n + 1] = f /\ n + 1 \in 1 .. n + 1 /\ (s # <<>> => n \in 1 .. n)
  BY LenProperties, EmptySeq DEF Pushed
<1>2. \A i \in 1 .. n + 1 : i = n + 1 \/ (i \in 1 .. n /\ i < n + 1 /\ r[i] = s[i])
  BY <1>1 DEF Pushed
<1>3. \A i \in 1 .. n : s # <<>>
  BY EmptySeq DEF n
<1> HIDE DEF n
<1>4. Lf(s) = n
  BY DEF Lf, n
<1>5. \A i \in 1 .. n : s[i].k # "brk" /\ s[i].at = "body"
  <2>1. ASSUME NEW i \in 1 .. n PROVE s[i].k # "brk" /\ s[i].at = "body"
    <3>1. s # <<>>
      BY <1>3
    <3>2. s[n].k # "brk" /\ s[n].at = "body"
      BY <3>1 DEF n
    <3>3. s[i].k = "brk" => i = n
      BY DEF Lk, Shape, n
    <3>4. i < n => s[i].at = "body"
      BY <1>4 DEF Lk, Shape, n
    <3> QED BY <1>1, <3>2, <3>3, <3>4
  <2> QED BY <2>1
<1>6. \A i \in 1 .. n + 1 : r[i].k # "brk"
  BY <1>1, <1>2, <1>5
<1>7. Lf(r) = n + 1
  BY <1>1, <1>6 DEF Lf
<1>8. Shape(t, r)
  <2>1. \A i \in 1 .. n + 1 : r[i].k = "svc" => r[i].who = t
    BY <1>1, <1>2 DEF Lk, Shape, n
  <2>2. \A i \in 1 .. n + 1 : i < n + 1 => r[i].at = "body"
    BY <1>1, <1>2, <1>5
  <2> QED BY <1>1, <1>6, <1>7, <2>1, <2>2 DEF Shape
<1>9. q = <<>>
  BY <1>4, <1>5 DEF Lk, LockOf, Holding, Wanting, HoldsAt, WantsAt, n
<1>10. LockOf(r, q)
  BY <1>1, <1>7, <1>9 DEF LockOf
<1> QED BY <1>8, <1>9, <1>10 DEF Lk

\* The top goes, and the lock with it; a frame that has none may replace it.
LEMMA ShedLk ==
  ASSUME NEW t, NEW s \in Seq(FRAME), NEW q, Lk(t, s, q), s[Len(s)].k # "brk",
         NEW r, Sheds(r, s),
         Len(r) = Len(s) => r[Len(s)].k = "svc" /\ r[Len(s)].who = t /\ r[Len(s)].at = "break"
  PROVE  Lk(t, r, <<>>)
<1> DEFINE n == Len(s)
<1>1. n \in Nat /\ n > 0 /\ Len(r) \in Nat /\ (Len(r) = n - 1 \/ Len(r) = n) /\ n \in 1 .. n
  BY LenProperties DEF Sheds
<1>2. \A i \in 1 .. Len(r) : (i = n /\ Len(r) = n) \/ (i \in 1 .. n /\ i < n /\ r[i] = s[i])
  BY <1>1 DEF Sheds
<1> HIDE DEF n
<1>3. Lf(s) = n
  BY DEF Lf, n
<1>4. \A i \in 1 .. n : i < n => s[i].k # "brk" /\ s[i].at = "body"
  BY <1>1, <1>3 DEF Lk, Shape, n
<1>5. \A i \in 1 .. Len(r) : i = n => r[i].k = "svc" /\ r[i].who = t /\ r[i].at = "break"
  BY <1>2 DEF n
<1>6. \A i \in 1 .. Len(r) : r[i].k # "brk" /\ (i < Len(r) => r[i].at = "body")
  BY <1>1, <1>2, <1>4, <1>5
<1>7. Lf(r) = Len(r)
  <2>1. CASE r = <<>>
    BY <2>1 DEF Lf
  <2>2. CASE r # <<>>
    <3>1. Len(r) \in 1 .. Len(r)
      BY <1>1, <2>2, EmptySeq DEF Sheds
    <3> QED BY <1>6, <3>1 DEF Lf
  <2> QED BY <2>1, <2>2
<1>8. Shape(t, r)
  <2>1. \A i \in 1 .. Len(r) : r[i].k = "svc" => r[i].who = t
    BY <1>2, <1>5 DEF Lk, Shape, n
  <2> QED BY <1>6, <1>7, <2>1 DEF Shape
<1>9. \A i \in 1 .. Len(r) : ~Holding(r[i])
  BY <1>2, <1>4, <1>5 DEF Holding, HoldsAt
<1>10. LockOf(r, <<>>)
  BY <1>9 DEF LockOf
<1> QED BY <1>8, <1>10 DEF Lk

\* A break function begins, under the frame that called it.
LEMMA BrkLk ==
  ASSUME NEW t, NEW s \in Seq(FRAME), s # <<>>, NEW q, Lk(t, s, q), s[Len(s)].k # "brk",
         s[Len(s)].at \in {"done", "unlock"},
         NEW r, NEW f, Pushed(r, s, f), f.k = "brk",
         f.who # t => s[Len(s)].k = "ras" /\ s[Len(s)].at = "unlock" /\ s[Len(s)].who = f.who
  PROVE  Lk(t, r, q)
<1> DEFINE n == Len(s)
<1>1. n \in Nat /\ Len(r) = n + 1 /\ r[n + 1] = f /\ n + 1 \in 1 .. n + 1 /\ n \in 1 .. n /\ n \in 1 .. n + 1
  BY LenProperties, EmptySeq DEF Pushed
<1>2. \A i \in 1 .. n + 1 : i = n + 1 \/ (i \in 1 .. n /\ i < n + 1 /\ r[i] = s[i])
  BY <1>1 DEF Pushed
<1>3. r[n] = s[n]
  BY <1>1 DEF Pushed
<1> HIDE DEF n
<1>4. Lf(s) = n
  BY DEF Lf, n
<1>5. r # <<>>
  BY <1>1, EmptySeq
<1>6. n + 1 - 1 = n
  BY <1>1
<1>7. Lf(r) = n
  BY <1>1, <1>5, <1>6 DEF Lf
<1>8. \A i \in 1 .. n : s[i].k # "brk"
  BY DEF Lk, Shape, n
<1>9. Shape(t, r)
  <2>1. \A i \in 1 .. n + 1 : r[i].k = "svc" => r[i].who = t
    BY <1>1, <1>2 DEF Lk, Shape, n
  <2>2. \A i \in 1 .. n + 1 : r[i].k = "brk" => i = n + 1
    BY <1>2, <1>8
  <2>3. \A i \in 1 .. n + 1 : i < n => r[i].at = "body"
    BY <1>1, <1>2, <1>4 DEF Lk, Shape, n
  <2>4. r[n].at \in {"done", "unlock"}
    BY <1>3 DEF n
  <2>5. f.who # t => r[n].k = "ras" /\ r[n].at = "unlock" /\ r[n].who = f.who
    BY <1>3 DEF n
  <2> QED BY <1>1, <1>7, <2>1, <2>2, <2>3, <2>4, <2>5 DEF Shape
<1>10. LockOf(r, q)
  BY <1>1, <1>3, <1>4, <1>7 DEF Lk, LockOf, n
<1> QED BY <1>9, <1>10 DEF Lk

\* It ends.
LEMMA BrkEndLk ==
  ASSUME NEW t, NEW s \in Seq(FRAME), NEW q, Lk(t, s, q), s[Len(s)].k = "brk",
         NEW r, Sheds(r, s), Len(r) = Len(s) - 1
  PROVE  Lk(t, r, q)
<1> DEFINE n == Len(s)
<1>1. n \in Nat /\ n > 0 /\ Len(r) = n - 1 /\ n \in 1 .. n
  BY LenProperties DEF Sheds
<1>2. \A i \in 1 .. n - 1 : i \in 1 .. n /\ i < n /\ r[i] = s[i]
  BY <1>1 DEF Sheds
<1>3. s # <<>>
  BY <1>1, EmptySeq
<1> HIDE DEF n
<1>4. Lf(s) = n - 1 /\ Lf(s) \in 1 .. n
  BY <1>1, <1>3 DEF Lf, Lk, Shape, n
<1>5. n - 1 \in 1 .. n - 1
  BY <1>1, <1>4
<1>6. \A i \in 1 .. n - 1 : r[i].k # "brk"
  BY <1>1, <1>2 DEF Lk, Shape, n
<1>7. Lf(r) = n - 1
  BY <1>1, <1>5, <1>6 DEF Lf
<1>8. Shape(t, r)
  <2>1. \A i \in 1 .. n - 1 : r[i].k = "svc" => r[i].who = t
    BY <1>2 DEF Lk, Shape, n
  <2>2. \A i \in 1 .. n - 1 : i < n - 1 => r[i].at = "body"
    BY <1>2, <1>4 DEF Lk, Shape, n
  <2> QED BY <1>1, <1>6, <1>7, <2>1, <2>2 DEF Shape
<1>9. LockOf(r, q)
  BY <1>1, <1>2, <1>4, <1>5, <1>7 DEF Lk, LockOf, n
<1> QED BY <1>8, <1>9 DEF Lk

\* A frame counts a break function.
LEMMA CountLk ==
  ASSUME NEW t, NEW s \in Seq(FRAME), NEW q, Lk(t, s, q), NEW r \in Seq(FRAME), Len(r) = Len(s),
         \A i \in 1 .. Len(s) : r[i].k = s[i].k /\ r[i].at = s[i].at /\ r[i].who = s[i].who
  PROVE  Lk(t, r, q)
<1>1. Len(s) \in Nat /\ (s = <<>> <=> Len(s) = 0) /\ (r = <<>> <=> Len(s) = 0)
  BY LenProperties, EmptySeq
<1>2. r # <<>> => Len(s) \in 1 .. Len(s)
  BY <1>1
<1>3. Lf(r) = Lf(s)
  BY <1>1, <1>2 DEF Lf
<1>4. \A i \in 1 .. Len(s) : (Holding(r[i]) <=> Holding(s[i])) /\ (Wanting(r[i]) <=> Wanting(s[i]))
  BY DEF Holding, Wanting, HoldsAt, WantsAt
<1>5. Shape(t, r)
  BY <1>3 DEF Lk, Shape
<1>6. LockOf(r, q)
  BY <1>3, <1>4 DEF Lk, LockOf
<1> QED BY <1>5, <1>6 DEF Lk

---------------------------------------------------------------------------

\* A task waits for the lock l.
Waits(s, q, l) == q = <<>> /\ s # <<>> /\ Wanting(s[Len(s)]) /\ s[Len(s)].who = l

\* With the stacks s, the locks f and the queues w: every task has the lock
\* that its frames say, a lock has one owner, a queue lists each task once,
\* and whoever is in it waits for the lock.
AllHold(s, f)    == \A t \in Tasks : Lk(t, s[t], f[t])
OneOwner(f)      == \A t, u, l \in Tasks : f[t] = <<l>> /\ f[u] = <<l>> => t = u
AllList(w)       == \A l \in Tasks : Lists(w[l], elements(w[l]))
AllWait(s, f, w) == \A l \in Tasks : \A u \in elements(w[l]) : Waits(s[u], f[u], l)

LInv ==
  /\ svclocked \in [Tasks -> Seq(Tasks)]
  /\ wtskq \in [Tasks -> Seq(Tasks)]
  /\ AllHold(stack, svclocked)
  /\ OneOwner(svclocked)
  /\ AllList(wtskq)
  /\ AllWait(stack, svclocked, wtskq)

\* What a queue lists is its elements.
LEMMA ListElements ==
  ASSUME NEW q, NEW S, Lists(q, S)
  PROVE  elements(q) = S
BY DEF Lists, elements, Range

\* Nothing is in an empty sequence.
LEMMA NoElements == elements(<<>>) = {}
BY DEF elements

\* One element is in a sequence of one.
LEMMA OneElement ==
  ASSUME NEW x
  PROVE  elements(<<x>>) = {x} /\ <<x>> # <<>> /\ Head(<<x>>) = x /\ Tail(<<x>>) = <<>>
<1>1. DOMAIN <<x>> = {1} /\ <<x>>[1] = x
  OBVIOUS
<1>2. elements(<<x>>) = {x}
  BY <1>1 DEF elements
<1>3. <<x>> # <<>> /\ Head(<<x>>) = x /\ Tail(<<x>>) = <<>>
  OBVIOUS
<1> QED BY <1>2, <1>3

\* Which element it is.
LEMMA SameElement ==
  ASSUME NEW x, NEW y, <<x>> = <<y>>
  PROVE  x = y
OBVIOUS

\* The first leaves a queue.
LEMMA TailList ==
  ASSUME NEW T, NEW q \in Seq(T), NEW S, Lists(q, S), q # <<>>
  PROVE  Lists(Tail(q), S \ {Head(q)}) /\ Tail(q) \in Seq(T) /\ Head(q) \in S
<1>1. Len(q) \in Nat /\ Len(q) > 0 /\ Head(q) = q[1] /\ 1 \in 1 .. Len(q)
  BY LenProperties, EmptySeq
<1>2. Tail(q) = SubSeq(q, 2, Len(q)) /\ Tail(q) \in Seq(T)
  BY TailIsSubSeq, HeadTailProperties
<1>3. PICK n \in 0 .. Len(q) : n = 1
  BY <1>1
<1>4. Lists(SubSeq(q, n + 1, Len(q)), S \ FirstOf(q, n))
  BY RestList
<1>5. FirstOf(q, n) = {Head(q)}
  BY <1>1, <1>3 DEF FirstOf
<1>6. n + 1 = 2
  BY <1>3
<1>7. Head(q) \in S
  BY <1>1, ListsPlaces
<1> QED BY <1>2, <1>4, <1>5, <1>6, <1>7

\* A task has one lock at most, that of its frame.
LEMMA LockIs ==
  ASSUME FInv, LInv, NEW t \in Tasks
  PROVE  svclocked[t] = <<>> \/ \E l \in Tasks : svclocked[t] = <<l>>
<1>1. PICK s, q : s = stack[t] /\ q = svclocked[t]
  OBVIOUS
<1>2. LockOf(s, q) /\ s \in Seq(FRAME)
  BY <1>1, OneGood DEF LInv, AllHold, Lk
<1>3. ASSUME NEW i \in 1 .. Len(s) PROVE s[i].who \in Tasks
  <2>1. s[i] \in FRAME
    BY <1>2, ElementOfSeq
  <2> QED BY <2>1 DEF FRAME
<1> QED BY <1>1, <1>2, <1>3 DEF LockOf

\* With a top that is no break function's, the top says which.
LEMMA TopLock ==
  ASSUME FInv, LInv, NEW t \in Tasks, stack[t] # <<>>, Top(t).k # "brk"
  PROVE  /\ Lk(t, stack[t], svclocked[t])
         /\ Holding(Top(t)) => svclocked[t] = <<Top(t).who>>
         /\ Wanting(Top(t)) => svclocked[t] \in {<<>>, <<Top(t).who>>}
         /\ ~Holding(Top(t)) /\ ~Wanting(Top(t)) => svclocked[t] = <<>>
<1>1. PICK s, q : s = stack[t] /\ q = svclocked[t]
  OBVIOUS
<1>2. Lk(t, s, q) /\ LockOf(s, q) /\ s \in Seq(FRAME) /\ Len(s) \in 1 .. Len(s) /\ Top(t) = s[Len(s)]
  BY <1>1, OneGood DEF LInv, AllHold, Lk
<1>3. Lf(s) = Len(s)
  BY <1>2 DEF Lf
<1>4. (q = <<>> /\ ~Holding(Top(t))) \/ (q = <<Top(t).who>> /\ (Holding(Top(t)) \/ Wanting(Top(t))))
  BY <1>2, <1>3 DEF LockOf
<1> QED BY <1>1, <1>2, <1>4

\* Nothing is locked, unlocked or waited for.
LEMMA LocksKept ==
  ASSUME LInv, UNCHANGED <<svclocked, wtskq>>,
         AllHold(stack', svclocked), AllWait(stack', svclocked, wtskq)
  PROVE  LInv'
<1>1. svclocked' = svclocked /\ wtskq' = wtskq
  OBVIOUS
<1>2. AllHold(stack', svclocked') /\ AllWait(stack', svclocked', wtskq')
  BY <1>1
<1> QED BY <1>1, <1>2 DEF LInv, AllHold, AllWait, AllList, OneOwner

\* Nor does a frame change.
LEMMA LocksStill ==
  ASSUME LInv, UNCHANGED <<stack, svclocked, wtskq>>
  PROVE  LInv'
BY LocksKept DEF LInv

\* A task that runs waits for no lock.
LEMMA RunsFree ==
  ASSUME NEW t \in Tasks, Runs(t), NEW l \in Tasks
  PROVE  t \notin elements(wtskq[l])
BY DEF Runs, klockwait

\* A task that is listed is a task.
LEMMA WaiterIsTask ==
  ASSUME LInv, NEW l \in Tasks, NEW u \in elements(wtskq[l])
  PROVE  u \in Tasks
<1>1. PICK q : q = wtskq[l]
  OBVIOUS
<1>2. q \in Seq(Tasks) /\ u \in elements(q)
  BY <1>1 DEF LInv
<1>3. \A i \in DOMAIN q : q[i] \in Tasks
  BY <1>2, LenProperties, ElementOfSeq
<1> QED BY <1>2, <1>3 DEF elements

\* Only t, which runs, changes its frames, and its lock stays right.
LEMMA LocksAlone ==
  ASSUME LInv, UNCHANGED <<svclocked, wtskq>>, NEW t \in Tasks, Runs(t),
         \A u \in Tasks : u # t => stack'[u] = stack[u],
         Lk(t, stack'[t], svclocked[t])
  PROVE  LInv'
<1>1. AllHold(stack', svclocked)
  BY DEF LInv, AllHold
<1>2. ASSUME NEW l \in Tasks, NEW u \in elements(wtskq[l])
      PROVE  Waits(stack'[u], svclocked[u], l)
  <2>1. u # t /\ u \in Tasks
    BY RunsFree, WaiterIsTask
  <2>2. stack'[u] = stack[u]
    BY <2>1
  <2> QED BY <2>2 DEF LInv, AllWait
<1>3. AllWait(stack', svclocked, wtskq)
  BY <1>2 DEF AllWait
<1> QED BY <1>1, <1>3, LocksKept

\* What a task's lock is after a step in its own frame.
Suits(f, at, p) ==
  \/ p = <<>> /\ ~HoldsAt(f.k, at)
  \/ p = <<f.who>> /\ (HoldsAt(f.k, at) \/ WantsAt(f.k, at))

\* The top goes on.
LEMMA GoneLk ==
  ASSUME NEW t, NEW s \in Seq(FRAME), s # <<>>, NEW q, Lk(t, s, q), s[Len(s)].k # "brk",
         NEW at \in Places, NEW r, Gone(r, s, at), NEW p, Suits(s[Len(s)], at, p)
  PROVE  Lk(t, r, p)
<1>1. PICK f : f = s[Len(s)]
  OBVIOUS
<1>2. Len(s) \in 1 .. Len(s) /\ f \in FRAME
  BY <1>1, LenProperties, EmptySeq, ElementOfSeq
<1>3. PICK g : g = [f EXCEPT !.at = at]
  OBVIOUS
<1>4. g \in FRAME /\ g.k = f.k /\ g.at = at /\ g.who = f.who
  BY <1>2, <1>3 DEF FRAME
<1>5. Topped(r, s, g)
  BY <1>1, <1>3, <1>4, TopPlaces DEF Gone
<1>6. (p = <<>> /\ ~Holding(g)) \/ (p = <<g.who>> /\ (Holding(g) \/ Wanting(g)))
  BY <1>1, <1>4 DEF Suits, Holding, Wanting
<1> QED BY <1>1, <1>4, <1>5, <1>6, TopLk

\* A task's call goes on.
LEMMA GotoLk ==
  ASSUME FInv, LInv, NEW t \in Tasks, stack[t] # <<>>, Top(t).k # "brk",
         NEW at \in Places, Goto(t, at), NEW p, Suits(Top(t), at, p)
  PROVE  Lk(t, stack'[t], p) /\ \A u \in Tasks : u # t => stack'[u] = stack[u]
<1>1. PICK s, r, q : s = stack[t] /\ r = stack'[t] /\ q = svclocked[t]
  OBVIOUS
<1>2. s \in Seq(FRAME) /\ s # <<>> /\ Lk(t, s, q) /\ s[Len(s)] = Top(t)
  BY <1>1, OneGood DEF LInv, AllHold
<1>3. Gone(r, s, at)
  BY <1>1, GotoIs
<1>4. Lk(t, r, p)
  BY <1>2, <1>3, GoneLk
<1>5. \A u \in Tasks : u # t => stack'[u] = stack[u]
  BY DEF Goto, FInv
<1> QED BY <1>1, <1>4, <1>5

\* A lock that nobody has is taken.
LEMMA TakenOwner ==
  ASSUME NEW f \in [Tasks -> Seq(Tasks)], NEW t \in Tasks, NEW l \in Tasks, OneOwner(f),
         NEW g, g \in [Tasks -> Seq(Tasks)], g[t] = <<l>>, \A u \in Tasks : u # t => g[u] = f[u],
         \A u \in Tasks : f[u] # <<l>>
  PROVE  OneOwner(g)
<1>1. ASSUME NEW u \in Tasks, NEW v \in Tasks, NEW m \in Tasks, g[u] = <<m>>, g[v] = <<m>>
      PROVE  u = v
  <2>1. CASE u = t
    <3>1. m = l
      BY <1>1, <2>1, SameElement
    <3> QED BY <1>1, <2>1, <3>1
  <2>2. CASE v = t
    <3>1. m = l
      BY <1>1, <2>2, SameElement
    <3> QED BY <1>1, <2>2, <3>1
  <2>3. CASE u # t /\ v # t
    <3>1. f[u] = <<m>> /\ f[v] = <<m>>
      BY <1>1, <2>3
    <3> QED BY <3>1 DEF OneOwner
  <2> QED BY <2>1, <2>2, <2>3
<1> QED BY <1>1 DEF OneOwner

\* The lock is taken, or had already, or waited for.
LEMMA LockStep ==
  ASSUME FInv, LInv, NEW t \in Tasks, NEW l \in Tasks, Runs(t), stack[t] # <<>>,
         Wanting(Top(t)), Top(t).who = l, NEW at \in Places, HoldsAt(Top(t).k, at),
         LockSVC(t, l, at)
  PROVE  LInv'
<1>1. Top(t).k # "brk"
  BY DEF Wanting, WantsAt
<1>2. svclocked[t] = <<>> \/ svclocked[t] = <<l>>
  BY <1>1, TopLock
<1>3. Suits(Top(t), at, <<l>>)
  BY DEF Suits
<1>4. CASE svclocked[t] # <<>> /\ Head(svclocked[t]) = l /\ Goto(t, at) /\ UNCHANGED <<svclocked, wtskq>>
  <2>1. Lk(t, stack'[t], <<l>>) /\ \A u \in Tasks : u # t => stack'[u] = stack[u]
    BY <1>1, <1>3, <1>4, GotoLk
  <2> QED BY <1>2, <1>4, <2>1, LocksAlone
<1>5. CASE ~held(l) /\ svclocked' = [svclocked EXCEPT ![t] = <<l>> \o @] /\ Goto(t, at) /\ UNCHANGED wtskq
  <2>1. Lk(t, stack'[t], <<l>>) /\ \A u \in Tasks : u # t => stack'[u] = stack[u]
    BY <1>1, <1>3, <1>5, GotoLk
  <2>2. \A u \in Tasks : svclocked[u] # <<l>>
    BY <1>5, OneElement DEF held
  <2>3. svclocked[t] = <<>> /\ <<l>> \o <<>> = <<l>>
    BY <1>2, <2>2
  <2>4. svclocked' = [svclocked EXCEPT ![t] = <<l>>]
    BY <1>5, <2>3
  <2>5. svclocked' \in [Tasks -> Seq(Tasks)] /\ svclocked'[t] = <<l>>
        /\ \A u \in Tasks : u # t => svclocked'[u] = svclocked[u]
    BY <2>4 DEF LInv
  <2>6. AllHold(stack', svclocked')
    BY <2>1, <2>5 DEF LInv, AllHold
  <2>7. OneOwner(svclocked')
    BY <2>2, <2>5, TakenOwner DEF LInv
  <2>8. ASSUME NEW m \in Tasks, NEW u \in elements(wtskq[m])
        PROVE  Waits(stack'[u], svclocked'[u], m)
    <3>1. u \in Tasks /\ u # t
      BY RunsFree, WaiterIsTask
    <3>2. stack'[u] = stack[u] /\ svclocked'[u] = svclocked[u]
      BY <2>1, <2>5, <3>1
    <3> QED BY <3>2 DEF LInv, AllWait
  <2>9. AllWait(stack', svclocked', wtskq') /\ AllList(wtskq')
    BY <1>5, <2>8 DEF LInv, AllWait, AllList
  <2>10. wtskq' \in [Tasks -> Seq(Tasks)]
    BY <1>5 DEF LInv
  <2> QED BY <2>5, <2>6, <2>7, <2>9, <2>10 DEF LInv, AllHold, OneOwner, AllWait, AllList
<1>6. CASE /\ held(l) /\ l # Head(svclocked[t] \o <<NULL>>)
           /\ wtskq' = [wtskq EXCEPT ![l] = Append(@, t)]
           /\ UNCHANGED <<stack, svclocked>>
  <2>1. svclocked[t] = <<>>
    <3>1. Head(<<l>> \o <<NULL>>) = l
      OBVIOUS
    <3> QED BY <1>2, <1>6, <3>1
  <2>2. PICK q, r : q = wtskq[l] /\ r = wtskq'[l]
    OBVIOUS
  <2>3. q \in Seq(Tasks) /\ Lists(q, elements(q)) /\ r = Append(q, t) /\ t \notin elements(q)
    BY <1>6, <2>2, RunsFree DEF LInv, AllList
  <2>4. r \in Seq(Tasks) /\ Lists(r, elements(q) \cup {t})
    BY <2>3, AppendList
  <2>5. elements(r) = elements(q) \cup {t}
    BY <2>4, ListElements
  <2>6. wtskq' \in [Tasks -> Seq(Tasks)] /\ \A m \in Tasks : m # l => wtskq'[m] = wtskq[m]
    BY <1>6, <2>2, <2>4 DEF LInv
  <2>7. AllList(wtskq')
    BY <2>2, <2>4, <2>5, <2>6 DEF LInv, AllList
  <2>8. ASSUME NEW m \in Tasks, NEW u \in elements(wtskq'[m])
        PROVE  Waits(stack[u], svclocked[u], m)
    <3>1. CASE u \in elements(wtskq[m])
      BY <3>1 DEF LInv, AllWait
    <3>2. CASE m = l /\ u = t
      BY <2>1, <3>2, OneGood DEF Waits, Top
    <3> QED BY <2>2, <2>5, <2>6, <3>1, <3>2
  <2>9. AllWait(stack, svclocked, wtskq') /\ stack' = stack /\ svclocked' = svclocked
    BY <1>6, <2>8 DEF AllWait
  <2> QED BY <2>6, <2>7, <2>9 DEF LInv, AllHold, OneOwner, AllWait, AllList
<1> QED BY <1>4, <1>5, <1>6 DEF LockSVC

\* A lock is given to who waits for it.
LEMMA GrantLk ==
  ASSUME NEW t, NEW s \in Seq(FRAME), NEW q, Lk(t, s, q), NEW l, Waits(s, q, l)
  PROVE  Lk(t, s, <<l>>)
<1>1. Len(s) \in 1 .. Len(s) /\ Wanting(s[Len(s)]) /\ s[Len(s)].who = l
  BY LenProperties, EmptySeq DEF Waits
<1>2. Lf(s) = Len(s)
  BY <1>1 DEF Lf, Wanting, WantsAt
<1>3. LockOf(s, <<l>>)
  BY <1>1, <1>2 DEF LockOf
<1> QED BY <1>3 DEF Lk

\* Who is given a lock of L.
Given(u, L) == \E l \in L : wtskq[l] # <<>> /\ Head(wtskq[l]) = u

\* What Unlock makes of the locks, when one lock leaves at most.
LEMMA UnlockLocks ==
  ASSUME NEW t \in Tasks, NEW L, Unlock(t, L, <<>>)
  PROVE  /\ DOMAIN svclocked' = Tasks /\ svclocked'[t] = <<>>
         /\ \A u \in Tasks : u # t /\ ~Given(u, L) => svclocked'[u] = svclocked[u]
         /\ \A l : \A u \in Tasks :
              u # t /\ Given(u, L) /\ L = {l} => svclocked'[u] = <<l>> \o svclocked[u]
<1> DEFINE given(u) == {l \in L : wtskq[l] # <<>> /\ Head(wtskq[l]) = u}
           new(u) == IF u = t THEN <<>>
                     ELSE IF given(u) = {} THEN svclocked[u]
                     ELSE <<CHOOSE l \in given(u) : TRUE>> \o svclocked[u]
<1>1. svclocked' = [u \in Tasks |-> new(u)]
  BY DEF Unlock
<1>2. \A u : Given(u, L) <=> given(u) # {}
  BY DEF Given
<1>3. ASSUME NEW u, NEW l, given(u) # {}, L = {l}
      PROVE  (CHOOSE x \in given(u) : TRUE) = l
  <2>1. given(u) = {l}
    BY <1>3
  <2> HIDE DEF given
  <2> QED BY <2>1
<1> HIDE DEF given
<1>4. ASSUME NEW u \in Tasks, NEW l, u # t, Given(u, L), L = {l} PROVE svclocked'[u] = <<l>> \o svclocked[u]
  <2>1. given(u) # {} /\ (CHOOSE x \in given(u) : TRUE) = l
    BY <1>2, <1>3, <1>4
  <2>2. new(u) = <<CHOOSE x \in given(u) : TRUE>> \o svclocked[u]
    BY <1>4, <2>1
  <2>3. new(u) = <<l>> \o svclocked[u]
    BY <2>1, <2>2
  <2> QED BY <1>1, <2>3
<1>5. ASSUME NEW u \in Tasks, u # t, ~Given(u, L) PROVE svclocked'[u] = svclocked[u]
  BY <1>1, <1>2, <1>5
<1> QED BY <1>1, <1>4, <1>5

\* What it makes of a queue, which t is not in if a lock leaves t.
LEMMA UnlockQueue ==
  ASSUME LInv, NEW t \in Tasks, NEW L, Unlock(t, L, <<>>), NEW m \in Tasks,
         m \in L => t \notin elements(wtskq[m])
  PROVE  /\ wtskq'[m] \in Seq(Tasks) /\ Lists(wtskq'[m], elements(wtskq'[m]))
         /\ elements(wtskq'[m]) \subseteq elements(wtskq[m]) \ {t}
         /\ m \in L /\ wtskq[m] # <<>> => Head(wtskq[m]) \in elements(wtskq[m]) \ elements(wtskq'[m])
<1>1. PICK q, r : q = wtskq[m] /\ r = wtskq'[m]
  OBVIOUS
<1>2. q \in Seq(Tasks) /\ Lists(q, elements(q))
  BY <1>1 DEF LInv, AllList
<1>3. r = IF m \in L /\ q # <<>> THEN Tail(q) ELSE QueRemove(q, t)
  BY <1>1 DEF Unlock
<1>4. CASE m \in L /\ q # <<>>
  <2>1. r = Tail(q) /\ t \notin elements(q)
    BY <1>1, <1>3, <1>4
  <2>2. r \in Seq(Tasks) /\ Lists(r, elements(q) \ {Head(q)}) /\ Head(q) \in elements(q)
    BY <1>2, <1>4, <2>1, TailList
  <2>3. elements(r) = elements(q) \ {Head(q)}
    BY <2>2, ListElements
  <2>4. Lists(r, elements(r))
    BY <2>2, <2>3
  <2> QED BY <1>1, <2>1, <2>2, <2>3, <2>4
<1>5. CASE ~(m \in L /\ q # <<>>)
  <2>1. r = QueRemove(q, t)
    BY <1>3, <1>5
  <2>2. Lists(r, elements(q) \ {t})
    BY <1>2, <2>1, RemoveList
  <2>3. elements(r) = elements(q) \ {t}
    BY <2>2, ListElements
  <2>4. Lists(r, elements(r))
    BY <2>2, <2>3
  <2>5. elements(q) \subseteq Tasks
    <3>1. \A i \in DOMAIN q : q[i] \in Tasks
      BY <1>2, LenProperties, ElementOfSeq
    <3> QED BY <3>1 DEF elements
  <2>6. elements(r) \subseteq Tasks
    BY <2>3, <2>5
  <2>7. r \in Seq(Tasks)
    BY <2>4, <2>6, ListsSeq
  <2> QED BY <1>1, <1>5, <2>3, <2>4, <2>7
<1> QED BY <1>4, <1>5

\* A task gives up the lock it has, if any, and its call goes on or ends.
LEMMA UnlockStep ==
  ASSUME FInv, LInv, NEW t \in Tasks, Unlock(t, elements(svclocked[t]), <<>>),
         \A u \in Tasks : u # t => stack'[u] = stack[u],
         Lk(t, stack'[t], <<>>)
  PROVE  LInv'
<1>1. PICK L : L = elements(svclocked[t])
  OBVIOUS
<1>2. Unlock(t, L, <<>>)
  BY <1>1
<1>3. \A m \in L : L = {m} /\ svclocked[t] = <<m>> /\ m \in Tasks
  <2>1. CASE svclocked[t] = <<>>
    BY <1>1, <2>1, NoElements
  <2>2. ASSUME NEW l \in Tasks, svclocked[t] = <<l>> PROVE L = {l}
    BY <1>1, <2>2, OneElement
  <2> QED BY <2>1, <2>2, LockIs
<1>4. \A m \in Tasks : m \in L => t \notin elements(wtskq[m])
  <2>1. ASSUME NEW m \in Tasks, m \in L, t \in elements(wtskq[m]) PROVE FALSE
    <3>1. svclocked[t] = <<>>
      BY <2>1 DEF LInv, AllWait, Waits
    <3> QED BY <1>1, <2>1, <3>1, NoElements
  <2> QED BY <2>1
<1>5. DOMAIN svclocked' = Tasks /\ svclocked'[t] = <<>>
      /\ \A u \in Tasks : u # t /\ ~Given(u, L) => svclocked'[u] = svclocked[u]
  BY <1>2, UnlockLocks
<1>6. ASSUME NEW m \in Tasks
      PROVE  /\ wtskq'[m] \in Seq(Tasks) /\ Lists(wtskq'[m], elements(wtskq'[m]))
             /\ elements(wtskq'[m]) \subseteq elements(wtskq[m]) \ {t}
             /\ m \in L /\ wtskq[m] # <<>> => Head(wtskq[m]) \in elements(wtskq[m]) \ elements(wtskq'[m])
  BY <1>2, <1>4, UnlockQueue
<1>7. ASSUME NEW u \in Tasks, u # t, Given(u, L)
      PROVE  \E l \in Tasks : /\ L = {l} /\ svclocked[t] = <<l>> /\ u \in elements(wtskq[l]) \ elements(wtskq'[l])
                              /\ Waits(stack[u], svclocked[u], l) /\ svclocked'[u] = <<l>>
                              /\ u = Head(wtskq[l])
  <2>1. PICK l \in L : wtskq[l] # <<>> /\ Head(wtskq[l]) = u
    BY <1>7 DEF Given
  <2>2. l \in Tasks /\ L = {l} /\ svclocked[t] = <<l>>
    BY <1>3
  <2>3. u \in elements(wtskq[l]) \ elements(wtskq'[l])
    BY <1>6, <2>1, <2>2
  <2>4. Waits(stack[u], svclocked[u], l)
    BY <2>2, <2>3 DEF LInv, AllWait
  <2>5. svclocked[u] = <<>> /\ svclocked'[u] = <<l>> \o svclocked[u]
    BY <1>2, <1>7, <2>2, <2>4, UnlockLocks DEF Waits
  <2>6. <<l>> \o <<>> = <<l>>
    OBVIOUS
  <2>7. svclocked'[u] = <<l>>
    BY <2>5, <2>6
  <2> QED BY <2>1, <2>2, <2>3, <2>4, <2>7
<1>8. svclocked' \in [Tasks -> Seq(Tasks)]
  <2>1. \E f : svclocked' = [u \in Tasks |-> f[u]]
    <3>1. svclocked' = [u \in Tasks |-> svclocked'[u]]
      BY DEF Unlock
    <3> QED BY <3>1
  <2>2. ASSUME NEW u \in Tasks PROVE svclocked'[u] \in Seq(Tasks)
    <3>1. CASE u = t
      BY <1>5, <3>1
    <3>2. CASE u # t /\ Given(u, L)
      <4>1. PICK l \in Tasks : svclocked'[u] = <<l>>
        BY <1>7, <3>2
      <4>2. <<l>> \in Seq(Tasks)
        OBVIOUS
      <4> QED BY <4>1, <4>2
    <3>3. CASE u # t /\ ~Given(u, L)
      BY <1>5, <3>3 DEF LInv
    <3> QED BY <3>1, <3>2, <3>3
  <2> QED BY <2>1, <2>2
<1>9. wtskq' \in [Tasks -> Seq(Tasks)]
  <2>1. \E f : wtskq' = [u \in Tasks |-> f[u]]
    <3>1. wtskq' = [u \in Tasks |-> wtskq'[u]]
      BY DEF Unlock
    <3> QED BY <3>1
  <2> QED BY <1>6, <2>1
<1>10. AllList(wtskq')
  BY <1>6 DEF AllList
<1>11. AllHold(stack', svclocked')
  <2>1. ASSUME NEW u \in Tasks PROVE Lk(u, stack'[u], svclocked'[u])
    <3>1. CASE u = t
      BY <1>5, <3>1
    <3>2. CASE u # t /\ Given(u, L)
      <4>1. PICK l \in Tasks : Waits(stack[u], svclocked[u], l) /\ svclocked'[u] = <<l>>
        BY <1>7, <3>2
      <4>2. PICK s, q : s = stack[u] /\ q = svclocked[u]
        OBVIOUS
      <4>3. s \in Seq(FRAME) /\ Lk(u, s, q) /\ Waits(s, q, l)
        BY <4>1, <4>2, OneGood DEF LInv, AllHold
      <4>4. Lk(u, s, <<l>>)
        BY <4>3, GrantLk
      <4> QED BY <3>2, <4>1, <4>2, <4>4
    <3>3. CASE u # t /\ ~Given(u, L)
      BY <1>5, <3>3 DEF LInv, AllHold
    <3> QED BY <3>1, <3>2, <3>3
  <2> QED BY <2>1 DEF AllHold
<1>12. OneOwner(svclocked')
  <2>1. ASSUME NEW u \in Tasks, svclocked'[u] # <<>>
        PROVE  u # t /\ ~Given(u, L) => svclocked'[u] = svclocked[u]
    BY <1>5
  <2>2. ASSUME NEW u \in Tasks, NEW m \in Tasks, svclocked'[u] = <<m>> PROVE u # t
    BY <1>5, <2>2, OneElement
  <2>3. ASSUME NEW u \in Tasks, NEW v \in Tasks, NEW m \in Tasks, u # t, v # t, Given(u, L),
               svclocked'[u] = <<m>>, svclocked'[v] = <<m>>
        PROVE  u = v
    <3>1. PICK l \in Tasks : L = {l} /\ svclocked[t] = <<l>> /\ svclocked'[u] = <<l>> /\ u = Head(wtskq[l])
      BY <1>7, <2>3
    <3>2. CASE Given(v, L)
      BY <2>3, <3>1, <3>2 DEF Given
    <3>3. CASE ~Given(v, L)
      <4>1. svclocked[v] = <<l>>
        BY <1>5, <2>3, <3>1, <3>3
      <4>2. v = t
        BY <3>1, <4>1 DEF LInv, OneOwner
      <4> QED BY <2>3, <4>2
    <3> QED BY <3>2, <3>3
  <2>4. ASSUME NEW u \in Tasks, NEW v \in Tasks, NEW m \in Tasks,
               svclocked'[u] = <<m>>, svclocked'[v] = <<m>>
        PROVE  u = v
    <3>1. u # t /\ v # t
      BY <2>2, <2>4
    <3>2. CASE Given(u, L)
      BY <2>3, <2>4, <3>1, <3>2
    <3>3. CASE Given(v, L)
      BY <2>3, <2>4, <3>1, <3>3
    <3>4. CASE ~Given(u, L) /\ ~Given(v, L)
      <4>1. svclocked[u] = <<m>> /\ svclocked[v] = <<m>>
        BY <1>5, <2>4, <3>1, <3>4
      <4> QED BY <4>1 DEF LInv, OneOwner
    <3> QED BY <3>2, <3>3, <3>4
  <2> QED BY <2>4 DEF OneOwner
<1>13. AllWait(stack', svclocked', wtskq')
  <2>1. ASSUME NEW m \in Tasks, NEW u \in elements(wtskq'[m]) PROVE Waits(stack'[u], svclocked'[u], m)
    <3>1. u \in elements(wtskq[m]) /\ u # t /\ u \in Tasks
      BY <1>6, WaiterIsTask
    <3>2. Waits(stack[u], svclocked[u], m)
      BY <3>1 DEF LInv, AllWait
    <3>3. ~Given(u, L)
      <4>1. ASSUME Given(u, L) PROVE FALSE
        <5>1. PICK l \in Tasks : Waits(stack[u], svclocked[u], l) /\ u \notin elements(wtskq'[l])
          BY <1>7, <3>1, <4>1
        <5>2. l = m
          BY <3>2, <5>1 DEF Waits
        <5> QED BY <5>1, <5>2
      <4> QED BY <4>1
    <3>4. svclocked'[u] = svclocked[u] /\ stack'[u] = stack[u]
      BY <1>5, <3>1, <3>3
    <3> QED BY <3>2, <3>4
  <2> QED BY <2>1 DEF AllWait
<1> QED BY <1>8, <1>9, <1>10, <1>11, <1>12, <1>13 DEF LInv, AllHold, OneOwner, AllList, AllWait

---------------------------------------------------------------------------

\* What the steps of a task do to its frames.
LEMMA PushIs ==
  ASSUME FInv, NEW t \in Tasks, NEW f \in FRAME, Push(t, f)
  PROVE  Pushed(stack'[t], stack[t], f) /\ \A u \in Tasks : u # t => stack'[u] = stack[u]
<1>1. PICK s, r : s = stack[t] /\ r = stack'[t]
  OBVIOUS
<1>2. s \in Seq(FRAME) /\ r = Append(s, f) /\ \A u \in Tasks : u # t => stack'[u] = stack[u]
  BY <1>1 DEF FInv, Push
<1>3. Pushed(r, s, f)
  BY <1>2, PushPlaces
<1> QED BY <1>1, <1>2, <1>3

\* The top goes.
LEMMA PopIs ==
  ASSUME FInv, NEW t \in Tasks, stack[t] # <<>>, Pop(t)
  PROVE  /\ Sheds(stack'[t], stack[t]) /\ Len(stack'[t]) = Len(stack[t]) - 1
         /\ \A u \in Tasks : u # t => stack'[u] = stack[u]
<1>1. PICK s, r : s = stack[t] /\ r = stack'[t]
  OBVIOUS
<1>2. s \in Seq(FRAME) /\ s # <<>> /\ r = SubSeq(s, 1, Len(s) - 1)
      /\ \A u \in Tasks : u # t => stack'[u] = stack[u]
  BY <1>1 DEF FInv, Pop, popped
<1>3. /\ Len(s) \in Nat /\ Len(s) > 0 /\ r \in Seq(FRAME) /\ Len(r) = Len(s) - 1
      /\ \A i \in 1 .. Len(s) - 1 : r[i] = s[i]
  BY <1>2, PopPlaces
<1> QED BY <1>1, <1>2, <1>3 DEF Sheds

\* The frame of the call becomes that of an entered SVC.
LEMMA EnterIs ==
  ASSUME FInv, NEW t \in Tasks, NEW ss \in Ssys, svc_enter(t, ss)
  PROVE  /\ \E g \in FRAME : Topped(stack'[t], stack[t], g) /\ g.k = "svc" /\ g.at = "body" /\ g.who = Top(t).who
         /\ \A u \in Tasks : u # t => stack'[u] = stack[u]
<1>1. PICK s, b : s = stack[t] /\ b = tcb[t]
  OBVIOUS
<1>2. s \in Seq(FRAME) /\ b \in TCB /\ s # <<>> /\ Len(s) \in 1 .. Len(s)
  BY <1>1, OneGood DEF svc_enter, At
<1>3. PICK f : f = s[Len(s)]
  OBVIOUS
<1>4. f = Top(t) /\ f \in FRAME /\ f.k = "svc"
  BY <1>1, <1>2, <1>3, OneGood DEF svc_enter, At, Top
<1>5. PICK g : g = [f EXCEPT !.at = "body", !.ssid = ss, !.execssid = b.execssid,
                             !.ran = b.ran, !.waitmask = b.waitmask, !.exectex = b.exectex]
  OBVIOUS
<1>6. stack' = [stack EXCEPT ![t] = [@ EXCEPT ![Len(s)] = g]]
  BY <1>1, <1>3, <1>5 DEF svc_enter, FInv
<1>7. g \in FRAME
  <2>1. ss \in SSID /\ "body" \in Places
    BY DEF SSID, Places
  <2>2. b.execssid \in SSID /\ b.ran \in BOOLEAN /\ b.waitmask \in BOOLEAN /\ b.exectex \in SUBSET Codes
    BY <1>2 DEF TCB
  <2> QED BY <1>4, <1>5, <2>1, <2>2 DEF FRAME
<1>8. g.k = "svc" /\ g.at = "body" /\ g.who = Top(t).who
  BY <1>4, <1>5 DEF FRAME
<1>9. PICK r : r = [s EXCEPT ![Len(s)] = g]
  OBVIOUS
<1>10. Topped(r, s, g)
  BY <1>2, <1>7, <1>9, TopPlaces
<1>11. stack'[t] = r /\ \A u \in Tasks : u # t => stack'[u] = stack[u]
  BY <1>1, <1>6, <1>9 DEF FInv
<1> QED BY <1>1, <1>7, <1>8, <1>10, <1>11

\* The frame of the rest of the way takes the place of the call's.
LEMMA LeaveIs ==
  ASSUME FInv, NEW t \in Tasks, svc_leave(t)
  PROVE  /\ Sheds(stack'[t], stack[t]) /\ Len(stack'[t]) = Len(stack[t])
         /\ LET g == stack'[t][Len(stack[t])] IN g.k = "svc" /\ g.who = t /\ g.at = "break"
         /\ \A u \in Tasks : u # t => stack'[u] = stack[u]
<1>1. PICK s, r : s = stack[t] /\ r = stack'[t]
  OBVIOUS
<1>2. s \in Seq(FRAME) /\ s # <<>>
  BY <1>1, OneGood DEF svc_leave, At
<1>3. PICK g : g = [Frame("svc", t) EXCEPT !.at = "break"]
  OBVIOUS
<1>4. g \in FRAME /\ Plain(g) /\ FrameOK(g)
  BY <1>3, NewFrame
<1>5. g.k = "svc" /\ g.who = t /\ g.at = "break"
  BY <1>3 DEF Frame
<1>6. PICK p : p = SubSeq(s, 1, Len(s) - 1)
  OBVIOUS
<1>7. r = Append(p, g) /\ \A u \in Tasks : u # t => stack'[u] = stack[u]
  BY <1>1, <1>3, <1>6 DEF svc_leave, popped, FInv
<1>8. /\ Len(s) \in Nat /\ Len(s) > 0 /\ p \in Seq(FRAME) /\ Len(p) = Len(s) - 1
      /\ \A i \in 1 .. Len(s) - 1 : p[i] = s[i]
  BY <1>2, <1>6, PopPlaces
<1>9. Pushed(r, p, g)
  BY <1>4, <1>7, <1>8, PushPlaces
<1>10. Len(r) = Len(s) /\ r[Len(s)] = g
  <2>1. Len(p) + 1 = Len(s)
    BY <1>8
  <2> QED BY <1>9, <2>1 DEF Pushed
<1>11. Sheds(r, s)
  BY <1>4, <1>8, <1>9, <1>10 DEF Sheds, Pushed
<1> QED BY <1>1, <1>5, <1>7, <1>10, <1>11

\* Two stacks whose frames differ in the breaks they counted.
Recounts(r, s) == r \in Seq(FRAME) /\ Len(r) = Len(s) /\ \A i \in 1 .. Len(s) : Recounted(r[i], s[i])

\* A break function called: the target counts it, the caller goes on in its
\* own frame, and the function's frame comes on top, if there is one.
LEMMA BreakFrames ==
  ASSUME FInv, NEW r \in Tasks, NEW t \in Tasks, stack[r] # <<>>, NEW at \in {"done", "unlock"},
         call_brkhdr(r, t, at)
  PROVE  /\ \A u \in Tasks : u # r => Recounts(stack'[u], stack[u])
         /\ \E s, p : /\ Recounts(s, stack[r]) /\ Gone(p, s, at)
                      /\ \/ stack'[r] = p
                         \/ \E f : stack'[r] = Append(p, f) /\ FnCalled(f, "brk", t, tcb[r].texflg)
<1> DEFINE past == [stack EXCEPT ![r][Len(stack[r])].at = at]
<1> DEFINE cnt  == [stack EXCEPT ![t] = counted(t)]
<1> DEFINE both == [cnt EXCEPT ![r][Len(stack[r])].at = at]
<1>1. stack \in [Tasks -> Seq(FRAME)]
  BY DEF FInv
<1>2. \A u \in Tasks : Recounts(stack[u], stack[u])
  BY <1>1 DEF Recounts, Recounted
<1>3. CASE stack' = past
  <2>1. Gone(stack'[r], stack[r], at)
    BY <1>3, GotoIs DEF Goto
  <2>2. \A u \in Tasks : u # r => stack'[u] = stack[u]
    BY <1>1, <1>3
  <2> QED BY <1>2, <2>1, <2>2
<1>4. CASE breaks(t) /\ stack' = [both EXCEPT ![r] = Append(@, BreakFrame(r, t))]
  <2>1. PICK q, c : q = counted(t) /\ c = [tcb[t] EXCEPT !.ran = TRUE]
    OBVIOUS
  <2>2. Recounts(q, stack[t])
    <3>1. Len(q) = Len(stack[t]) /\ q \in Seq(FRAME) /\ \A i \in 1 .. Len(q) : Recounted(q[i], stack[t][i])
      BY <1>4, <2>1, CountedGood
    <3> QED BY <3>1 DEF Recounts
  <2>3. PICK s : s = IF r = t THEN q ELSE stack[r]
    OBVIOUS
  <2>4. Recounts(s, stack[r])
    BY <1>2, <2>2, <2>3
  <2>5. PICK p : p = [s EXCEPT ![Len(s)] = [s[Len(s)] EXCEPT !.at = at]]
    OBVIOUS
  <2>6. DOMAIN both = Tasks
    BY <1>1
  <2>7. both[r] = p
    <3>1. cnt[r] = s
      BY <1>1, <2>1, <2>3
    <3>2. both[r] = [cnt[r] EXCEPT ![Len(stack[r])].at = at]
      BY <1>1
    <3>3. both[r] = [s EXCEPT ![Len(s)].at = at]
      BY <2>4, <3>1, <3>2 DEF Recounts
    <3> HIDE DEF both
    <3> QED BY <2>5, <3>1, <3>3
  <2>8. \A u \in Tasks : u # r => both[u] = (IF u = t THEN q ELSE stack[u])
    BY <1>1, <2>1
  <2> HIDE DEF both
  <2>9. ASSUME NEW u \in Tasks, u # r PROVE Recounts(stack'[u], stack[u])
    <3>1. stack'[u] = both[u]
      BY <1>4, <2>6, <2>9
    <3> QED BY <1>2, <2>2, <2>8, <2>9, <3>1
  <2>10. PICK f : f = BreakFrame(r, t)
    OBVIOUS
  <2>11. FnCalled(f, "brk", t, tcb[r].texflg)
    BY <2>10 DEF BreakFrame, Frame, FnCalled
  <2>12. stack'[r] = Append(p, f)
    BY <1>4, <2>6, <2>7, <2>10
  <2>13. Gone(p, s, at)
    BY <2>5 DEF Gone
  <2> QED BY <2>4, <2>9, <2>11, <2>12, <2>13
<1> QED BY <1>3, <1>4 DEF call_brkhdr

---------------------------------------------------------------------------

\* A recount changes nothing about locks.
LEMMA RecountLk ==
  ASSUME NEW t, NEW s \in Seq(FRAME), NEW q, Lk(t, s, q), NEW r, Recounts(r, s)
  PROVE  Lk(t, r, q)
<1>1. r \in Seq(FRAME) /\ Len(r) = Len(s)
      /\ \A i \in 1 .. Len(s) : r[i].k = s[i].k /\ r[i].at = s[i].at /\ r[i].who = s[i].who
  BY DEF Recounts, Recounted
<1> QED BY <1>1, CountLk

\* Nor about who waits.
LEMMA RecountWaits ==
  ASSUME NEW s \in Seq(FRAME), NEW q, NEW l, Waits(s, q, l), NEW r, Recounts(r, s)
  PROVE  Waits(r, q, l)
<1>1. Len(s) \in 1 .. Len(s) /\ s # <<>> /\ Len(r) = Len(s) /\ r # <<>>
  BY LenProperties, EmptySeq DEF Waits, Recounts
<1>2. Recounted(r[Len(s)], s[Len(s)])
  BY <1>1 DEF Recounts
<1> QED BY <1>1, <1>2 DEF Waits, Recounted, Wanting

\* A break function is called: by a task that has the lock of the target, or
\* for itself.
LEMMA BreakLocks ==
  ASSUME FInv, LInv, NEW r \in Tasks, NEW t \in Tasks, Runs(r), stack[r] # <<>>, NEW at \in {"done", "unlock"},
         \/ Top(r).k = "ras" /\ Top(r).at = "break" /\ Top(r).who = t /\ at = "unlock"
         \/ /\ t = r /\ at = "done"
            /\ \/ Top(r).k \in {"svc", "ssfn"} /\ Top(r).at = "break"
               \/ Top(r).k = "ras" /\ Top(r).at = "self",
         call_brkhdr(r, t, at), UNCHANGED <<svclocked, wtskq>>
  PROVE  LInv'
<1>1. PICK s0, q : s0 = stack[r] /\ q = svclocked[r]
  OBVIOUS
<1>2. s0 \in Seq(FRAME) /\ s0 # <<>> /\ Len(s0) \in 1 .. Len(s0) /\ Top(r) = s0[Len(s0)] /\ Lk(r, s0, q)
  BY <1>1, OneGood DEF LInv, AllHold
<1>3. \A u \in Tasks : u # r => Recounts(stack'[u], stack[u])
  BY BreakFrames
<1>4. PICK s, p : /\ Recounts(s, s0) /\ Gone(p, s, at)
                  /\ \/ stack'[r] = p
                     \/ \E f : stack'[r] = Append(p, f) /\ FnCalled(f, "brk", t, tcb[r].texflg)
  BY <1>1, BreakFrames
<1>5. Top(r).k \in {"svc", "ras", "ssfn"} /\ at \in Places
  BY DEF Places
<1>6. \/ q = <<>> /\ at = "done"
      \/ q = <<t>> /\ at = "unlock" /\ Top(r).k = "ras" /\ Top(r).who = t
  <2>1. CASE Top(r).k = "ras" /\ Top(r).at = "break" /\ Top(r).who = t /\ at = "unlock"
    <3>1. Holding(Top(r))
      BY <2>1 DEF Holding, HoldsAt
    <3> QED BY <1>1, <2>1, <3>1, TopLock
  <2>2. CASE /\ t = r /\ at = "done"
             /\ \/ Top(r).k \in {"svc", "ssfn"} /\ Top(r).at = "break"
                \/ Top(r).k = "ras" /\ Top(r).at = "self"
    <3>1. ~Holding(Top(r)) /\ ~Wanting(Top(r)) /\ Top(r).k # "brk"
      BY <2>2 DEF Holding, Wanting, HoldsAt, WantsAt
    <3> QED BY <1>1, <2>2, <3>1, TopLock
  <2> QED BY <2>1, <2>2
<1>7. s \in Seq(FRAME) /\ s # <<>> /\ Len(s) = Len(s0)
      /\ s[Len(s)].k = Top(r).k /\ s[Len(s)].who = Top(r).who
  BY <1>2, <1>4, EmptySeq DEF Recounts, Recounted
<1>8. Lk(r, s, q)
  BY <1>2, <1>4, RecountLk
<1>9. Suits(s[Len(s)], at, q)
  BY <1>5, <1>6, <1>7 DEF Suits, HoldsAt, WantsAt
<1>10. Lk(r, p, q)
  BY <1>4, <1>5, <1>7, <1>8, <1>9, GoneLk
<1>11. /\ p \in Seq(FRAME) /\ p # <<>> /\ p[Len(p)].k = Top(r).k /\ p[Len(p)].at = at
       /\ p[Len(p)].who = Top(r).who
  <2>1. PICK f : f = s[Len(s)]
    OBVIOUS
  <2>2. Len(s) \in 1 .. Len(s) /\ f \in FRAME
    BY <1>7, <2>1, LenProperties, EmptySeq, ElementOfSeq
  <2>3. PICK g : g = [f EXCEPT !.at = at]
    OBVIOUS
  <2>4. g \in FRAME /\ g.k = f.k /\ g.at = at /\ g.who = f.who
    BY <1>5, <2>2, <2>3 DEF FRAME
  <2>5. Topped(p, s, g)
    BY <1>4, <1>7, <2>1, <2>3, <2>4, TopPlaces DEF Gone
  <2>6. p \in Seq(FRAME) /\ p # <<>> /\ p[Len(p)] = g
    BY <2>5, EmptySeq DEF Topped
  <2> QED BY <1>7, <2>1, <2>4, <2>6
<1>12. Lk(r, stack'[r], q)
  <2>1. CASE stack'[r] = p
    BY <1>10, <2>1
  <2>2. ASSUME NEW f, stack'[r] = Append(p, f), FnCalled(f, "brk", t, tcb[r].texflg)
        PROVE  Lk(r, stack'[r], q)
    <3>1. tcb[r].texflg \in SUBSET TEXFLG
      BY OneGood DEF TCB
    <3>2. f \in FRAME /\ f.k = "brk"
      <4>1. PICK flg \in SUBSET TEXFLG : flg = tcb[r].texflg
        BY <3>1
      <4>2. FnCalled(f, "brk", t, flg)
        BY <2>2, <4>1
      <4>3. f \in FRAME /\ f.k = "brk" /\ f.texflg = flg /\ f.exectex = {}
            /\ InFn(f) /\ ~Ent(f) /\ FrameOK(f)
        BY <4>2, FnFrame
      <4> QED BY <4>3
    <3>3. f.who = t
      BY <2>2 DEF FnCalled
    <3>4. PICK n : n = Append(p, f)
      OBVIOUS
    <3>5. Pushed(n, p, f)
      BY <1>11, <3>2, <3>4, PushPlaces
    <3>6. f.who # r => p[Len(p)].k = "ras" /\ p[Len(p)].at = "unlock" /\ p[Len(p)].who = f.who
      BY <1>11, <3>3
    <3>7. p[Len(p)].k # "brk"
      BY <1>5, <1>11
    <3>8. Lk(r, n, q)
      BY <1>10, <1>11, <3>2, <3>5, <3>6, <3>7, BrkLk
    <3> QED BY <2>2, <3>4, <3>8
  <2> QED BY <1>4, <2>1, <2>2
<1>13. AllHold(stack', svclocked)
  <2>1. ASSUME NEW u \in Tasks, u # r PROVE Lk(u, stack'[u], svclocked[u])
    <3>1. PICK v, w, x : v = stack[u] /\ w = stack'[u] /\ x = svclocked[u]
      OBVIOUS
    <3>2. v \in Seq(FRAME) /\ Lk(u, v, x) /\ Recounts(w, v)
      BY <1>3, <2>1, <3>1, OneGood DEF LInv, AllHold
    <3>3. Lk(u, w, x)
      BY <3>2, RecountLk
    <3> QED BY <3>1, <3>3
  <2> QED BY <1>1, <1>12, <2>1 DEF AllHold
<1>14. AllWait(stack', svclocked, wtskq)
  <2>1. ASSUME NEW m \in Tasks, NEW u \in elements(wtskq[m]) PROVE Waits(stack'[u], svclocked[u], m)
    <3>1. u \in Tasks /\ u # r
      BY RunsFree, WaiterIsTask
    <3>2. PICK v, w, x : v = stack[u] /\ w = stack'[u] /\ x = svclocked[u]
      OBVIOUS
    <3>3. v \in Seq(FRAME) /\ Waits(v, x, m) /\ Recounts(w, v)
      BY <1>3, <3>1, <3>2, OneGood DEF LInv, AllWait
    <3>4. Waits(w, x, m)
      BY <3>3, RecountWaits
    <3> QED BY <3>2, <3>4
  <2> QED BY <2>1 DEF AllWait
<1> QED BY <1>13, <1>14, LocksKept

\* The lock that a task has at its place is given up.
LEMMA HadLock ==
  ASSUME FInv, LInv, NEW t \in Tasks, stack[t] # <<>>, Holding(Top(t)), UnlockSVC(t)
  PROVE  /\ Unlock(t, elements(svclocked[t]), <<>>) /\ Top(t).k # "brk"
<1>1. Top(t).k # "brk"
  BY DEF Holding, HoldsAt
<1>2. PICK l : l = Top(t).who
  OBVIOUS
<1>3. svclocked[t] = <<l>>
  BY <1>1, <1>2, TopLock
<1>4. Head(svclocked[t]) = l /\ Tail(svclocked[t]) = <<>> /\ elements(svclocked[t]) = {l}
  BY <1>3, OneElement
<1>5. Unlock(t, {Head(svclocked[t])}, Tail(svclocked[t]))
  BY DEF UnlockSVC
<1>6. Unlock(t, {l}, <<>>)
  BY <1>4, <1>5
<1> QED BY <1>1, <1>4, <1>6

\* A task gives up its lock, and its frame goes.
LEMMA ShedUnlock ==
  ASSUME FInv, LInv, NEW t \in Tasks, stack[t] # <<>>, Top(t).k # "brk",
         Sheds(stack'[t], stack[t]),
         Len(stack'[t]) = Len(stack[t]) =>
           LET g == stack'[t][Len(stack[t])] IN g.k = "svc" /\ g.who = t /\ g.at = "break"
  PROVE  Lk(t, stack'[t], <<>>)
<1>1. PICK s, r, q : s = stack[t] /\ r = stack'[t] /\ q = svclocked[t]
  OBVIOUS
<1>2. s \in Seq(FRAME) /\ Lk(t, s, q) /\ s[Len(s)].k # "brk" /\ Sheds(r, s)
  BY <1>1, OneGood DEF LInv, AllHold
<1>3. Len(r) = Len(s) => r[Len(s)].k = "svc" /\ r[Len(s)].who = t /\ r[Len(s)].at = "break"
  BY <1>1
<1>4. Lk(t, r, <<>>)
  BY <1>2, <1>3, ShedLk
<1> QED BY <1>1, <1>4

\* A call is begun: the task has no lock.
LEMMA PushLocks ==
  ASSUME FInv, LInv, ~BreakCalls, NEW t \in Tasks, InCode(t), NEW f \in FRAME, Push(t, f),
         f.k # "brk", f.k = "svc" => f.who = t, ~Holding(f), UNCHANGED <<svclocked, wtskq>>
  PROVE  LInv'
<1>1. PICK s, r, q : s = stack[t] /\ r = stack'[t] /\ q = svclocked[t]
  OBVIOUS
<1>2. s \in Seq(FRAME) /\ Lk(t, s, q) /\ (s # <<>> => s[Len(s)].k # "brk" /\ s[Len(s)].at = "body")
  BY <1>1, OneGood DEF LInv, AllHold, InCode
<1>3. Pushed(r, s, f) /\ \A u \in Tasks : u # t => stack'[u] = stack[u]
  BY <1>1, PushIs
<1>4. Lk(t, r, q)
  BY <1>2, <1>3, PushLk
<1>5. Runs(t)
  BY DEF InCode
<1> QED BY <1>1, <1>3, <1>4, <1>5, LocksAlone

---------------------------------------------------------------------------

\* A frame's places.
LEMMA TopIs ==
  ASSUME FInv, LInv, NEW t \in Tasks, NEW k, NEW at, At(t, k, at)
  PROVE  /\ Runs(t) /\ stack[t] # <<>> /\ Top(t).k = k /\ Top(t).at = at /\ Top(t).who \in Tasks
         /\ k = "svc" => Top(t).who = t
<1>1. PICK s, f : s = stack[t] /\ f = Top(t)
  OBVIOUS
<1>2. s # <<>> /\ f = s[Len(s)] /\ Len(s) \in 1 .. Len(s) /\ f \in FRAME /\ f.k = k /\ f.at = at /\ Runs(t)
  BY <1>1, OneGood DEF At
<1>3. f.who \in Tasks
  BY <1>2 DEF FRAME
<1>4. Shape(t, s)
  BY <1>1 DEF LInv, AllHold, Lk
<1>5. k = "svc" => f.who = t
  BY <1>2, <1>4 DEF Shape
<1> QED BY <1>1, <1>2, <1>3, <1>5

\* A task goes on in its call, with the same lock or none.
LEMMA GotoLocks ==
  ASSUME FInv, LInv, NEW t \in Tasks, Runs(t), stack[t] # <<>>, Top(t).k # "brk", NEW at \in Places,
         Goto(t, at), UNCHANGED <<svclocked, wtskq>>, Suits(Top(t), at, svclocked[t])
  PROVE  LInv'
<1>1. Lk(t, stack'[t], svclocked[t]) /\ \A u \in Tasks : u # t => stack'[u] = stack[u]
  BY GotoLk
<1> QED BY <1>1, LocksAlone

\* The way into an extended SVC and out of it: the task's own lock is taken.
LEMMA SvcLockLocks ==
  ASSUME FInv, LInv, NEW t \in Tasks, svc_lock(t)
  PROVE  LInv'
<1>1. CASE At(t, "svc", "lock") /\ LockSVC(t, t, "locked")
  <2>1. Wanting(Top(t)) /\ Top(t).who = t /\ HoldsAt(Top(t).k, "locked") /\ Runs(t) /\ stack[t] # <<>>
    BY <1>1, TopIs DEF Wanting, WantsAt, HoldsAt
  <2>2. "locked" \in Places
    BY DEF Places
  <2> QED BY <1>1, <2>1, <2>2, LockStep
<1>2. CASE At(t, "svc", "leave") /\ LockSVC(t, t, "leaving")
  <2>1. Wanting(Top(t)) /\ Top(t).who = t /\ HoldsAt(Top(t).k, "leaving") /\ Runs(t) /\ stack[t] # <<>>
    BY <1>2, TopIs DEF Wanting, WantsAt, HoldsAt
  <2>2. "leaving" \in Places
    BY DEF Places
  <2> QED BY <1>2, <2>1, <2>2, LockStep
<1> QED BY <1>1, <1>2 DEF svc_lock

\* An exception is raised: the target's lock is taken.
LEMMA RasLockLocks ==
  ASSUME FInv, LInv, NEW t \in Tasks, ras_lock(t)
  PROVE  LInv'
<1>1. At(t, "ras", "lock") /\ LockSVC(t, Top(t).who, "locked")
  BY DEF ras_lock
<1>2. PICK l \in Tasks : l = Top(t).who
  BY <1>1, TopIs
<1>3. Wanting(Top(t)) /\ HoldsAt(Top(t).k, "locked") /\ Runs(t) /\ stack[t] # <<>> /\ LockSVC(t, l, "locked")
  BY <1>1, <1>2, TopIs DEF Wanting, WantsAt, HoldsAt
<1>4. "locked" \in Places
  BY DEF Places
<1> QED BY <1>2, <1>3, <1>4, LockStep

\* A call that is refused gives the lock up.
LEMMA RefusedLocks ==
  ASSUME FInv, LInv, NEW t \in Tasks, svc_refused(t)
  PROVE  LInv'
<1>1. At(t, "svc", "locked") /\ Pop(t) /\ UnlockSVC(t)
  BY DEF svc_refused
<1>2. stack[t] # <<>> /\ Holding(Top(t))
  BY <1>1, TopIs DEF Holding, HoldsAt
<1>3. Unlock(t, elements(svclocked[t]), <<>>) /\ Top(t).k # "brk"
  BY <1>1, <1>2, HadLock
<1>4. Sheds(stack'[t], stack[t]) /\ Len(stack'[t]) = Len(stack[t]) - 1 /\ Len(stack[t]) \in Nat
      /\ \A u \in Tasks : u # t => stack'[u] = stack[u]
  BY <1>1, <1>2, PopIs, OneGood
<1>5. Len(stack'[t]) # Len(stack[t])
  BY <1>4
<1>6. Lk(t, stack'[t], <<>>)
  BY <1>2, <1>3, <1>4, <1>5, ShedUnlock
<1> QED BY <1>3, <1>4, <1>6, UnlockStep

\* So does one that is entered.
LEMMA EnterLocks ==
  ASSUME FInv, LInv, NEW t \in Tasks, NEW ss \in Ssys, svc_enter(t, ss)
  PROVE  LInv'
<1>1. At(t, "svc", "locked") /\ UnlockSVC(t)
  BY DEF svc_enter
<1>2. stack[t] # <<>> /\ Top(t).k = "svc" /\ Holding(Top(t))
  BY <1>1, TopIs DEF Holding, HoldsAt
<1>3. Unlock(t, elements(svclocked[t]), <<>>)
  BY <1>1, <1>2, HadLock
<1>4. PICK s, r, q : s = stack[t] /\ r = stack'[t] /\ q = svclocked[t]
  OBVIOUS
<1>5. s \in Seq(FRAME) /\ Lk(t, s, q) /\ s[Len(s)] = Top(t)
  BY <1>2, <1>4, OneGood DEF LInv, AllHold
<1>6. PICK g \in FRAME : Topped(r, s, g) /\ g.k = "svc" /\ g.at = "body" /\ g.who = Top(t).who
  BY <1>4, EnterIs
<1>7. ~Holding(g)
  BY <1>6 DEF Holding, HoldsAt
<1>8. s[Len(s)].k # "brk" /\ g.k = s[Len(s)].k /\ g.who = s[Len(s)].who
  BY <1>2, <1>5, <1>6
<1>9. PICK p : p = <<>>
  OBVIOUS
<1>10. Lk(t, r, p)
  BY <1>5, <1>6, <1>7, <1>8, <1>9, TopLk
<1>11. \A u \in Tasks : u # t => stack'[u] = stack[u]
  BY EnterIs
<1> QED BY <1>3, <1>4, <1>9, <1>10, <1>11, UnlockStep

\* So does one that is left.
LEMMA LeaveLocks ==
  ASSUME FInv, LInv, NEW t \in Tasks, svc_leave(t)
  PROVE  LInv'
<1>1. At(t, "svc", "leaving") /\ UnlockSVC(t)
  BY DEF svc_leave
<1>2. stack[t] # <<>> /\ Holding(Top(t))
  BY <1>1, TopIs DEF Holding, HoldsAt
<1>3. Unlock(t, elements(svclocked[t]), <<>>) /\ Top(t).k # "brk"
  BY <1>1, <1>2, HadLock
<1>4. /\ Sheds(stack'[t], stack[t])
      /\ LET g == stack'[t][Len(stack[t])] IN g.k = "svc" /\ g.who = t /\ g.at = "break"
      /\ \A u \in Tasks : u # t => stack'[u] = stack[u]
  BY LeaveIs
<1>5. Lk(t, stack'[t], <<>>)
  BY <1>2, <1>3, <1>4, ShedUnlock
<1> QED BY <1>3, <1>4, <1>5, UnlockStep

\* A handler returns, with no lock.
LEMMA ReturnLocks ==
  ASSUME FInv, LInv, NEW t \in Tasks, svc_return(t)
  PROVE  LInv'
<1>1. At(t, "svc", "body") /\ Goto(t, "leave") /\ UNCHANGED <<svclocked, wtskq>>
  BY DEF svc_return
<1>2. Runs(t) /\ stack[t] # <<>> /\ Top(t).k # "brk" /\ ~Holding(Top(t)) /\ ~Wanting(Top(t))
  BY <1>1, TopIs DEF Holding, HoldsAt, Wanting, WantsAt
<1>3. svclocked[t] = <<>>
  BY <1>2, TopLock
<1>4. Suits(Top(t), "leave", svclocked[t]) /\ "leave" \in Places
  BY <1>3 DEF Suits, HoldsAt, Places
<1> QED BY <1>1, <1>2, <1>4, GotoLocks

\* A break function returns: the lock is still that of its caller.
LEMMA BreakReturnLocks ==
  ASSUME FInv, LInv, NEW t \in Tasks, break_return(t)
  PROVE  LInv'
<1>1. At(t, "brk", "body") /\ Pop(t) /\ UNCHANGED <<svclocked, wtskq>>
  BY DEF break_return
<1>2. Runs(t) /\ stack[t] # <<>> /\ Top(t).k = "brk"
  BY <1>1, TopIs
<1>3. PICK s, r, q : s = stack[t] /\ r = stack'[t] /\ q = svclocked[t]
  OBVIOUS
<1>4. s \in Seq(FRAME) /\ Lk(t, s, q) /\ s[Len(s)].k = "brk"
  BY <1>2, <1>3, OneGood DEF LInv, AllHold
<1>5. Sheds(r, s) /\ Len(r) = Len(s) - 1 /\ \A u \in Tasks : u # t => stack'[u] = stack[u]
  BY <1>1, <1>2, <1>3, PopIs
<1>6. Lk(t, r, q)
  BY <1>4, <1>5, BrkEndLk
<1> QED BY <1>1, <1>2, <1>3, <1>5, <1>6, LocksAlone

\* A call ends, with no lock.
LEMMA DoneLocks ==
  ASSUME FInv, LInv, NEW t \in Tasks, done(t)
  PROVE  LInv'
<1>1. PICK k \in {"svc", "ras", "ssfn"} : At(t, k, "done")
  BY DEF done
<1>2. Runs(t) /\ stack[t] # <<>> /\ Top(t).k # "brk" /\ ~Holding(Top(t)) /\ ~Wanting(Top(t))
  BY <1>1, TopIs DEF Holding, HoldsAt, Wanting, WantsAt
<1>3. svclocked[t] = <<>>
  BY <1>2, TopLock
<1>4. Sheds(stack'[t], stack[t]) /\ Len(stack'[t]) = Len(stack[t]) - 1 /\ Len(stack[t]) \in Nat
      /\ \A u \in Tasks : u # t => stack'[u] = stack[u]
  BY <1>2, PopIs, OneGood DEF done
<1>5. Len(stack'[t]) # Len(stack[t])
  BY <1>4
<1>6. Lk(t, stack'[t], <<>>)
  BY <1>2, <1>4, <1>5, ShedUnlock
<1>7. UNCHANGED <<svclocked, wtskq>> /\ Lk(t, stack'[t], svclocked[t])
  BY <1>3, <1>6 DEF done
<1> QED BY <1>2, <1>4, <1>7, LocksAlone

\* The exception is recorded, or refused, under the lock.
LEMMA RasTexLocks ==
  ASSUME FInv, LInv, NEW t \in Tasks, NEW code, tk_ras_tex(t, code)
  PROVE  LInv'
<1>1. At(t, "ras", "locked") /\ (Goto(t, "break") \/ Goto(t, "refused")) /\ UNCHANGED <<svclocked, wtskq>>
  BY DEF tk_ras_tex
<1>2. Runs(t) /\ stack[t] # <<>> /\ Top(t).k = "ras" /\ Holding(Top(t))
  BY <1>1, TopIs DEF Holding, HoldsAt
<1>3. svclocked[t] = <<Top(t).who>>
  BY <1>2, TopLock
<1>4. /\ Suits(Top(t), "break", svclocked[t]) /\ Suits(Top(t), "refused", svclocked[t])
      /\ "break" \in Places /\ "refused" \in Places /\ Top(t).k # "brk"
  BY <1>2, <1>3 DEF Suits, HoldsAt, Places
<1> QED BY <1>1, <1>2, <1>4, GotoLocks

\* The lock of the target is given up.
LEMMA RasUnlockLocks ==
  ASSUME FInv, LInv, NEW t \in Tasks, ras_unlock(t)
  PROVE  LInv'
<1>1. /\ UnlockSVC(t)
      /\ \/ At(t, "ras", "unlock") /\ Goto(t, "self")
         \/ At(t, "ras", "refused") /\ Goto(t, "done")
  BY DEF ras_unlock
<1>2. stack[t] # <<>> /\ Top(t).k = "ras" /\ Holding(Top(t)) /\ Top(t).k # "brk"
  BY <1>1, TopIs DEF Holding, HoldsAt
<1>3. Unlock(t, elements(svclocked[t]), <<>>)
  BY <1>1, <1>2, HadLock
<1>4. PICK at \in Places : (at = "self" \/ at = "done") /\ Goto(t, at)
  BY <1>1 DEF Places
<1>5. PICK p : p = <<>>
  OBVIOUS
<1>6. Suits(Top(t), at, p)
  BY <1>2, <1>4, <1>5 DEF Suits, HoldsAt
<1>7. Lk(t, stack'[t], p) /\ \A u \in Tasks : u # t => stack'[u] = stack[u]
  BY <1>2, <1>4, <1>6, GotoLk
<1> QED BY <1>3, <1>5, <1>7, UnlockStep

\* A function of a subsystem returns, with no lock.
LEMMA SsfnReturnLocks ==
  ASSUME FInv, LInv, NEW t \in Tasks, ssfn_return(t)
  PROVE  LInv'
<1>1. At(t, "ssfn", "body") /\ Goto(t, "break") /\ UNCHANGED <<svclocked, wtskq>>
  BY DEF ssfn_return
<1>2. Runs(t) /\ stack[t] # <<>> /\ Top(t).k = "ssfn" /\ ~Holding(Top(t)) /\ ~Wanting(Top(t))
  BY <1>1, TopIs DEF Holding, HoldsAt, Wanting, WantsAt
<1>3. svclocked[t] = <<>> /\ Top(t).k # "brk"
  BY <1>2, TopLock
<1>4. Suits(Top(t), "break", svclocked[t]) /\ "break" \in Places
  BY <1>2, <1>3 DEF Suits, HoldsAt, Places
<1> QED BY <1>1, <1>2, <1>3, <1>4, GotoLocks

\* A task that ends gives up its lock, or stops waiting.
LEMMA TerTskLocks ==
  ASSUME FInv, LInv, NEW t \in Tasks, ter_tsk(t)
  PROVE  LInv'
<1>1. Unlock(t, elements(svclocked[t]), <<>>)
  BY DEF ter_tsk, AllUnlockSVC
<1>2. stack'[t] = <<>> /\ \A u \in Tasks : u # t => stack'[u] = stack[u]
  BY DEF ter_tsk, FInv
<1>3. PICK s : s = <<>>
  OBVIOUS
<1>4. 1 .. Len(s) = {} /\ Lf(s) = 0
  BY <1>3 DEF Lf
<1>5. Lk(t, s, <<>>)
  BY <1>4 DEF Lk, Shape, LockOf
<1> QED BY <1>1, <1>2, <1>3, <1>5, UnlockStep

\* A function of a subsystem is called from code that has no lock.
LEMMA SsfnCallLocks ==
  ASSUME FInv, LInv, ~BreakCalls, NEW t \in Tasks, ssfn_call(t)
  PROVE  LInv'
<1>1. PICK f : f = [Frame("ssfn", t) EXCEPT !.at = "body", !.texflg = tcb[t].texflg]
  OBVIOUS
<1>2. InCode(t) /\ Push(t, f) /\ UNCHANGED <<svclocked, wtskq>>
  BY <1>1 DEF ssfn_call
<1>3. PICK flg \in SUBSET TEXFLG : flg = tcb[t].texflg
  BY OneGood DEF TCB
<1>4. FnCalled(f, "ssfn", t, flg)
  BY <1>1, <1>3 DEF Frame, FnCalled
<1>5. f \in FRAME /\ f.k = "ssfn" /\ f.texflg = flg /\ f.exectex = {}
      /\ InFn(f) /\ ~Ent(f) /\ FrameOK(f)
  BY <1>4, FnFrame
<1>6. ~Holding(f) /\ f.k # "brk" /\ f.k # "svc"
  BY <1>5 DEF Holding, HoldsAt
<1> QED BY <1>2, <1>5, <1>6, PushLocks

\* So is an extended SVC, and tk_ras_tex.
LEMMA CallLocks ==
  ASSUME FInv, LInv, ~BreakCalls, NEW t \in Tasks, svc_call(t) \/ \E u \in Tasks : ras_call(t, u)
  PROVE  LInv'
<1>1. PICK k \in {"svc", "ras"}, who \in Tasks :
        InCode(t) /\ Push(t, Frame(k, who)) /\ UNCHANGED <<svclocked, wtskq>> /\ (k = "svc" => who = t)
  BY DEF svc_call, ras_call
<1>2. PICK f : f = [Frame(k, who) EXCEPT !.at = "lock"]
  OBVIOUS
<1>3. f = Frame(k, who) /\ f.k = k /\ f.who = who /\ f.at = "lock"
  BY <1>2 DEF Frame
<1>4. f \in FRAME
  BY <1>2, NewFrame
<1>5. ~Holding(f) /\ f.k # "brk" /\ (f.k = "svc" => f.who = t)
  BY <1>1, <1>3 DEF Holding, HoldsAt
<1>6. InCode(t) /\ Push(t, f) /\ UNCHANGED <<svclocked, wtskq>>
  BY <1>1, <1>3
<1> QED BY <1>4, <1>5, <1>6, PushLocks

\* A task runs a break function for itself, with no lock.
LEMMA SvcBreakLocks ==
  ASSUME FInv, LInv, NEW t \in Tasks, svc_break(t) \/ ras_self(t) \/ ssfn_break(t)
  PROVE  LInv'
<1>1. /\ At(t, "svc", "break") \/ At(t, "ras", "self") \/ At(t, "ssfn", "break")
      /\ call_brkhdr(t, t, "done") /\ UNCHANGED <<svclocked, wtskq>>
  BY DEF svc_break, ras_self, ssfn_break
<1>2. /\ Runs(t) /\ stack[t] # <<>>
      /\ \/ Top(t).k \in {"svc", "ssfn"} /\ Top(t).at = "break"
         \/ Top(t).k = "ras" /\ Top(t).at = "self"
  BY <1>1, TopIs
<1> QED BY <1>1, <1>2, BreakLocks

\* It runs one for another under the other's lock.
LEMMA RasBreakLocks ==
  ASSUME FInv, LInv, NEW t \in Tasks, ras_break(t)
  PROVE  LInv'
<1>1. At(t, "ras", "break") /\ call_brkhdr(t, Top(t).who, "unlock") /\ UNCHANGED <<svclocked, wtskq>>
  BY DEF ras_break
<1>2. PICK l \in Tasks : l = Top(t).who
  BY <1>1, TopIs
<1>3. Runs(t) /\ stack[t] # <<>> /\ Top(t).k = "ras" /\ Top(t).at = "break" /\ call_brkhdr(t, l, "unlock")
  BY <1>1, <1>2, TopIs
<1> QED BY <1>1, <1>2, <1>3, BreakLocks

\* Every step keeps the locks right.
LEMMA LInvNext ==
  ASSUME FInv, LInv, ~BreakCalls, [Next]_vars
  PROVE  LInv'
<1>1. CASE UNCHANGED <<stack, svclocked, wtskq>>
  BY <1>1, LocksStill
<1>2. ASSUME NEW t \in Tasks,
             \/ svc_call(t) \/ svc_lock(t) \/ svc_refused(t) \/ svc_return(t) \/ svc_leave(t)
             \/ svc_break(t) \/ break_return(t) \/ done(t) \/ ras_lock(t) \/ ras_break(t)
             \/ ras_unlock(t) \/ ras_self(t) \/ ssfn_call(t) \/ ssfn_return(t) \/ ssfn_break(t)
             \/ ter_tsk(t)
      PROVE  LInv'
  BY <1>2, CallLocks, SvcLockLocks, RefusedLocks, ReturnLocks, LeaveLocks, SvcBreakLocks, BreakReturnLocks,
     DoneLocks, RasLockLocks, RasBreakLocks, RasUnlockLocks, SsfnCallLocks, SsfnReturnLocks, TerTskLocks
<1>3. ASSUME NEW t \in Tasks, NEW s \in Ssys, svc_enter(t, s) PROVE LInv'
  BY <1>3, EnterLocks
<1>4. ASSUME NEW t \in Tasks, NEW u \in Tasks, ras_call(t, u) PROVE LInv'
  BY <1>4, CallLocks
<1>5. ASSUME NEW t \in Tasks, NEW c \in Codes, tk_ras_tex(t, c) PROVE LInv'
  BY <1>5, RasTexLocks
<1>6. ASSUME NEW t \in Tasks,
             \/ setup_texhdr(t) \/ tk_sta_tsk(t)
             \/ \E e \in BOOLEAN : tk_end_tex(t, e)
             \/ \E hdr \in BOOLEAN : tk_def_tex(t, hdr)
             \/ \E mask \in {{}, Codes} : set_tex_mask(t, mask)
             \/ \E mask \in BOOLEAN : tk_dis_wai(t, mask)
      PROVE  LInv'
  <2>1. UNCHANGED <<stack, svclocked, wtskq>>
    BY <1>6 DEF setup_texhdr, tk_sta_tsk, tk_end_tex, tk_def_tex, set_tex_mask, tk_dis_wai
  <2> QED BY <1>1, <2>1
<1>7. ASSUME NEW s \in Ssys, NEW register \in BOOLEAN, tk_def_ssy(s, register) PROVE LInv'
  BY <1>1, <1>7 DEF tk_def_ssy
<1>8. CASE UNCHANGED vars
  BY <1>1, <1>8 DEF vars
<1> QED BY <1>2, <1>3, <1>4, <1>5, <1>6, <1>7, <1>8 DEF Next

\* No lock is taken at first.
LEMMA LInvInit ==
  ASSUME SubsystemInit
  PROVE  LInv
<1>1. PICK s, q : s = <<>> /\ q = <<>>
  OBVIOUS
<1>2. 1 .. Len(s) = {} /\ Lf(s) = 0
  BY <1>1 DEF Lf
<1>3. \A t \in Tasks : Lk(t, s, q)
  BY <1>1, <1>2 DEF Lk, Shape, LockOf
<1>4. \A t \in Tasks : stack[t] = s /\ svclocked[t] = q /\ wtskq[t] = q
  BY <1>1 DEF SubsystemInit
<1>5. svclocked \in [Tasks -> Seq(Tasks)] /\ wtskq \in [Tasks -> Seq(Tasks)]
  <2>1. <<>> \in Seq(Tasks)
    OBVIOUS
  <2> QED BY <2>1 DEF SubsystemInit
<1>6. AllHold(stack, svclocked)
  BY <1>3, <1>4 DEF AllHold
<1>7. OneOwner(svclocked)
  <2>1. \A l : q # <<l>>
    BY <1>1, OneElement
  <2> QED BY <1>4, <2>1 DEF OneOwner
<1>8. elements(q) = {}
  BY <1>1, NoElements
<1>9. AllList(wtskq)
  BY <1>1, <1>4, <1>8, NothingListed DEF AllList
<1>10. AllWait(stack, svclocked, wtskq)
  BY <1>4, <1>8 DEF AllWait
<1> QED BY <1>5, <1>6, <1>7, <1>9, <1>10 DEF LInv

\* The locks: every task has the lock that its place in its call says, a lock
\* has one owner, and whoever waits for it is about to take it and has none.
\* A break function that calls an extended SVC or raises an exception would
\* take a second lock, or its first again, which is not counted (klock.c:103):
\* here break functions make no such calls.
THEOREM LocksInductive ==
  ASSUME ~BreakCalls
  PROVE  SubsystemSpec => []LInv
<1>1. SubsystemInit => LInv
  BY LInvInit
<1>2. FInv /\ LInv /\ [Next]_vars => LInv'
  BY LInvNext
<1> QED BY <1>1, <1>2, FramesInductive, PTL DEF SubsystemSpec

\* A task back at user level has no lock, its own priority and mode, and no
\* mark of what it ran (subsystem.c and klock.c).
THEOREM TasksUnwind ==
  ASSUME ~BreakCalls
  PROVE  SubsystemSpec => []Unwound
<1>1. FInv /\ LInv => Unwound
  <2>1. SUFFICES ASSUME FInv, LInv, NEW t \in Tasks
                 PROVE  /\ stack[t] = <<>> => /\ svclocked[t] = <<>> /\ "SSFN" \notin tcb[t].texflg
                                              /\ tcb[t].execssid = NULL /\ ~tcb[t].ran
                                              /\ tcb[t].priority = bpriority[t]
                        /\ tcb[t].sysmode = Cardinality({i \in DOMAIN stack[t] :
                                              /\ stack[t][i].k \in {"svc", "brk", "ssfn"}
                                              /\ stack[t][i].at \in {"body", "leave", "leaving"}})
    BY DEF Unwound
  <2>2. PICK s, b, q : s = stack[t] /\ b = tcb[t] /\ q = svclocked[t]
    OBVIOUS
  <2>3. Good(t, s, b) /\ s \in Seq(FRAME) /\ Lk(t, s, q) /\ b \in TCB
    BY <2>1, <2>2, OneGood DEF LInv, AllHold
  <2>4. b.sysmode = Cardinality({i \in DOMAIN s : /\ s[i].k \in {"svc", "brk", "ssfn"}
                                                  /\ s[i].at \in {"body", "leave", "leaving"}})
    <3>1. DOMAIN s = 1 .. Len(s)
      BY <2>3, LenProperties
    <3>2. Sys(s) = {i \in DOMAIN s : /\ s[i].k \in {"svc", "brk", "ssfn"}
                                     /\ s[i].at \in {"body", "leave", "leaving"}}
      BY <3>1 DEF Sys, InSys, Inside
    <3> QED BY <2>3, <3>2 DEF Good
  <2>5. ASSUME s = <<>>
        PROVE  /\ q = <<>> /\ "SSFN" \notin b.texflg /\ b.execssid = NULL /\ ~b.ran
               /\ b.priority = bpriority[t]
    <3>1. 1 .. Len(s) = {}
      BY <2>5
    <3>2. q = <<>>
      BY <2>3, <3>1 DEF Lk, LockOf
    <3>3. b.execssid = NULL /\ b.ran = FALSE
      BY <2>3, <3>1 DEF Good, Chained, NoneIn
    <3>4. "SSFN" \notin b.texflg
      BY <2>3, <3>1 DEF Good, Marked
    <3>5. b.priority = bpriority[t]
      BY <2>3, <3>1 DEF Good, Raised
    <3> QED BY <3>2, <3>3, <3>4, <3>5
  <2> QED BY <2>2, <2>4, <2>5
<1> QED BY <1>1, FramesInductive, LocksInductive, PTL

---------------------------------------------------------------------------

\* The calls of extended SVCs that are entered.
Ents(s) == {i \in 1 .. Len(s) : Ent(s[i])}

\* A frame that is not of an entered call is pushed.
LEMMA EntsPush ==
  ASSUME NEW s \in Seq(FRAME), NEW r, NEW f, Pushed(r, s, f), ~Ent(f)
  PROVE  Ents(r) = Ents(s)
<1>1. Len(s) \in Nat /\ Len(r) = Len(s) + 1
  BY LenProperties DEF Pushed
<1>2. \A i \in 1 .. Len(r) : (i = Len(s) + 1 /\ ~Ent(r[i])) \/ (i \in 1 .. Len(s) /\ r[i] = s[i])
  BY <1>1 DEF Pushed
<1>3. \A i \in 1 .. Len(s) : i \in 1 .. Len(r) /\ r[i] = s[i]
  BY <1>1 DEF Pushed
<1> QED BY <1>2, <1>3 DEF Ents

\* Such a frame is popped.
LEMMA EntsPop ==
  ASSUME NEW s \in Seq(FRAME), NEW r, Sheds(r, s), Len(r) = Len(s) - 1, ~Ent(s[Len(s)])
  PROVE  Ents(r) = Ents(s)
<1>1. Len(s) \in Nat
  BY LenProperties
<1>2. \A i \in 1 .. Len(s) : i = Len(s) \/ (i \in 1 .. Len(r) /\ r[i] = s[i])
  BY <1>1 DEF Sheds
<1>3. \A i \in 1 .. Len(r) : i \in 1 .. Len(s) /\ r[i] = s[i]
  BY <1>1 DEF Sheds
<1> QED BY <1>2, <1>3 DEF Ents

\* A frame counts a break function.
LEMMA EntsRecount ==
  ASSUME NEW s \in Seq(FRAME), NEW r, Recounts(r, s)
  PROVE  Ents(r) = Ents(s)
BY DEF Ents, Ent, Recounts, Recounted

\* A call goes on.
LEMMA EntsGone ==
  ASSUME NEW s \in Seq(FRAME), s # <<>>, NEW at \in Places, NEW r, Gone(r, s, at)
  PROVE  r \in Seq(FRAME) /\ Ents(r) = Ents(s)
<1>1. PICK f : f = s[Len(s)]
  OBVIOUS
<1>2. Len(s) \in 1 .. Len(s) /\ f \in FRAME
  BY <1>1, LenProperties, EmptySeq, ElementOfSeq
<1>3. PICK g : g = [f EXCEPT !.at = at]
  OBVIOUS
<1>4. g \in FRAME /\ g.k = f.k /\ g.ssid = f.ssid
  BY <1>2, <1>3 DEF FRAME
<1>5. Topped(r, s, g)
  BY <1>1, <1>3, <1>4, TopPlaces DEF Gone
<1>6. Len(s) \in Nat /\ Len(r) = Len(s) /\ r[Len(s)] = g /\ \A i \in 1 .. Len(s) - 1 : r[i] = s[i]
  BY <1>5, LenProperties DEF Topped
<1>7. \A i \in 1 .. Len(s) : i = Len(s) \/ r[i] = s[i]
  BY <1>6
<1>8. Ent(g) <=> Ent(f)
  BY <1>4 DEF Ent
<1>9. \A i \in 1 .. Len(s) : Ent(r[i]) <=> Ent(s[i])
  BY <1>1, <1>6, <1>7, <1>8
<1> QED BY <1>5, <1>6, <1>9 DEF Ents, Topped

\* Entered is that of the frames.
LEMMA EnteredIs ==
  ASSUME FInv, NEW t \in Tasks
  PROVE  Entered(t) = Ents(stack[t])
<1>1. DOMAIN stack[t] = 1 .. Len(stack[t])
  BY OneGood, LenProperties
<1> QED BY <1>1 DEF Entered, Ents, Ent

\* Which calls a task has entered: the same after a step of its own that does
\* not enter or leave one.
SameEnts(t) == Ents(stack'[t]) = Ents(stack[t])

\* A call is begun.
LEMMA PushEnts ==
  ASSUME FInv, NEW t \in Tasks, NEW u \in Tasks, NEW f \in FRAME, Push(u, f), ~Ent(f)
  PROVE  SameEnts(t)
<1>1. PICK s, r : s = stack[u] /\ r = stack'[u]
  OBVIOUS
<1>2. s \in Seq(FRAME) /\ Pushed(r, s, f) /\ \A v \in Tasks : v # u => stack'[v] = stack[v]
  BY <1>1, OneGood, PushIs
<1>3. Ents(r) = Ents(s)
  BY <1>2, EntsPush
<1> QED BY <1>1, <1>2, <1>3 DEF SameEnts

\* A call that was not entered ends.
LEMMA PopEnts ==
  ASSUME FInv, NEW t \in Tasks, NEW u \in Tasks, stack[u] # <<>>, ~Ent(Top(u)), Pop(u)
  PROVE  SameEnts(t)
<1>1. PICK s, r : s = stack[u] /\ r = stack'[u]
  OBVIOUS
<1>2. s \in Seq(FRAME) /\ ~Ent(s[Len(s)]) /\ Sheds(r, s) /\ Len(r) = Len(s) - 1
      /\ \A v \in Tasks : v # u => stack'[v] = stack[v]
  BY <1>1, OneGood, PopIs
<1>3. Ents(r) = Ents(s)
  BY <1>2, EntsPop
<1> QED BY <1>1, <1>2, <1>3 DEF SameEnts

\* A call goes on, whatever its task.
LEMMA GotoEnts ==
  ASSUME FInv, NEW t \in Tasks, NEW u \in Tasks, stack[u] # <<>>, NEW at \in Places, Goto(u, at)
  PROVE  SameEnts(t)
<1>1. PICK s, r : s = stack[u] /\ r = stack'[u]
  OBVIOUS
<1>2. s \in Seq(FRAME) /\ s # <<>> /\ Gone(r, s, at)
  BY <1>1, OneGood, GotoIs
<1>3. \A v \in Tasks : v # u => stack'[v] = stack[v]
  BY DEF Goto, FInv
<1>4. Ents(r) = Ents(s)
  BY <1>2, EntsGone
<1> QED BY <1>1, <1>3, <1>4 DEF SameEnts

\* A break function is called.
LEMMA BreakEnts ==
  ASSUME FInv, NEW t \in Tasks, NEW r \in Tasks, NEW l \in Tasks, stack[r] # <<>>,
         NEW at \in {"done", "unlock"}, call_brkhdr(r, l, at)
  PROVE  SameEnts(t)
<1>1. CASE t # r
  <2>1. PICK s, n : s = stack[t] /\ n = stack'[t]
    OBVIOUS
  <2>2. s \in Seq(FRAME) /\ Recounts(n, s)
    BY <1>1, <2>1, OneGood, BreakFrames
  <2>3. Ents(n) = Ents(s)
    BY <2>2, EntsRecount
  <2> QED BY <2>1, <2>3 DEF SameEnts
<1>2. CASE t = r
  <2>1. PICK s0, n : s0 = stack[r] /\ n = stack'[r]
    OBVIOUS
  <2>2. PICK s, p : /\ Recounts(s, s0) /\ Gone(p, s, at)
                    /\ \/ n = p
                       \/ \E f : n = Append(p, f) /\ FnCalled(f, "brk", l, tcb[r].texflg)
    BY <2>1, BreakFrames
  <2>3. s0 \in Seq(FRAME) /\ s0 # <<>> /\ at \in Places
    BY <2>1, OneGood DEF Places
  <2>4. s \in Seq(FRAME) /\ s # <<>> /\ Ents(s) = Ents(s0)
    BY <2>2, <2>3, EntsRecount, EmptySeq DEF Recounts
  <2>5. p \in Seq(FRAME) /\ Ents(p) = Ents(s)
    BY <2>2, <2>3, <2>4, EntsGone
  <2>6. ASSUME NEW f, n = Append(p, f), FnCalled(f, "brk", l, tcb[r].texflg)
        PROVE  Ents(n) = Ents(p)
    <3>1. PICK flg \in SUBSET TEXFLG : flg = tcb[r].texflg
      BY OneGood DEF TCB
    <3>2. FnCalled(f, "brk", l, flg)
      BY <2>6, <3>1
    <3>3. f \in FRAME /\ f.k = "brk" /\ f.texflg = flg /\ f.exectex = {}
          /\ InFn(f) /\ ~Ent(f) /\ FrameOK(f)
      BY <3>2, FnFrame
    <3>4. Pushed(n, p, f)
      BY <2>5, <2>6, <3>3, PushPlaces
    <3> QED BY <2>5, <3>3, <3>4, EntsPush
  <2>7. Ents(n) = Ents(s0)
    BY <2>2, <2>4, <2>5, <2>6
  <2> QED BY <1>2, <2>1, <2>7 DEF SameEnts
<1> QED BY <1>1, <1>2

\* A step that does not enter or leave an extended SVC under the task's own
\* lock, and does not end the task, keeps the calls it has entered.
LEMMA SameEntered ==
  ASSUME FInv, LInv, NEW t \in Tasks, svclocked[t] # <<t>>, [Next]_vars, tcb'[t].alive
  PROVE  SameEnts(t)
<1>1. CASE stack'[t] = stack[t]
  BY <1>1 DEF SameEnts
<1>2. ASSUME NEW u \in Tasks, svc_call(u) \/ \E v \in Tasks : ras_call(u, v) PROVE SameEnts(t)
  <2>1. PICK k \in {"svc", "ras"}, who \in Tasks : Push(u, Frame(k, who))
    BY <1>2 DEF svc_call, ras_call
  <2>2. PICK f : f = [Frame(k, who) EXCEPT !.at = "lock"]
    OBVIOUS
  <2>3. f = Frame(k, who)
    BY <2>2 DEF Frame
  <2>4. f \in FRAME /\ Plain(f)
    BY <2>2, NewFrame
  <2> QED BY <2>1, <2>3, <2>4, PushEnts DEF Plain
<1>3. ASSUME NEW u \in Tasks, ssfn_call(u) PROVE SameEnts(t)
  <2>1. PICK f : f = [Frame("ssfn", u) EXCEPT !.at = "body", !.texflg = tcb[u].texflg]
    OBVIOUS
  <2>2. PICK flg \in SUBSET TEXFLG : flg = tcb[u].texflg
    BY OneGood DEF TCB
  <2>3. FnCalled(f, "ssfn", u, flg)
    BY <2>1, <2>2 DEF Frame, FnCalled
  <2>4. f \in FRAME /\ f.k = "ssfn" /\ f.texflg = flg /\ f.exectex = {}
        /\ InFn(f) /\ ~Ent(f) /\ FrameOK(f)
    BY <2>3, FnFrame
  <2>5. Push(u, f)
    BY <1>3, <2>1 DEF ssfn_call
  <2> QED BY <2>4, <2>5, PushEnts
<1>4. ASSUME NEW u \in Tasks, svc_refused(u) \/ break_return(u) \/ done(u) PROVE SameEnts(t)
  <2>1. PICK k, at : At(u, k, at) /\ (k = "brk" \/ at \in {"locked", "done"}) /\ Pop(u)
    BY <1>4 DEF svc_refused, break_return, done
  <2>2. stack[u] # <<>> /\ FrameOK(Top(u)) /\ (Top(u).k = "brk" \/ Top(u).at \in {"locked", "done"})
    BY <2>1, TopIs, OneGood
  <2>3. ~Ent(Top(u))
    BY <2>2 DEF Ent, FrameOK, Inside
  <2> QED BY <2>1, <2>2, <2>3, PopEnts
<1>5. ASSUME NEW u \in Tasks, NEW at \in Places, stack[u] # <<>>, Goto(u, at) PROVE SameEnts(t)
  BY <1>5, GotoEnts
<1>6. ASSUME NEW u \in Tasks, svc_lock(u) \/ ras_lock(u) PROVE SameEnts(t)
  <2>1. stack[u] # <<>> /\ (UNCHANGED stack \/ \E at \in {"locked", "leaving"} : Goto(u, at))
    BY <1>6 DEF svc_lock, ras_lock, At, LockSVC
  <2> QED BY <1>1, <1>5, <2>1 DEF Places
<1>7. ASSUME NEW u \in Tasks, svc_return(u) \/ ras_unlock(u) \/ ssfn_return(u) \/ \E c \in Codes : tk_ras_tex(u, c)
      PROVE  SameEnts(t)
  <2>1. stack[u] # <<>> /\ \E at \in {"leave", "self", "done", "break", "refused"} : Goto(u, at)
    BY <1>7 DEF svc_return, ras_unlock, ssfn_return, tk_ras_tex, At
  <2> QED BY <1>5, <2>1 DEF Places
<1>8. ASSUME NEW u \in Tasks, svc_break(u) \/ ras_break(u) \/ ras_self(u) \/ ssfn_break(u) PROVE SameEnts(t)
  <2>1. CASE svc_break(u) \/ ras_self(u) \/ ssfn_break(u)
    <3>1. stack[u] # <<>> /\ call_brkhdr(u, u, "done")
      BY <2>1 DEF svc_break, ras_self, ssfn_break, At
    <3> QED BY <3>1, BreakEnts
  <2>2. CASE ras_break(u)
    <3>1. At(u, "ras", "break") /\ call_brkhdr(u, Top(u).who, "unlock")
      BY <2>2 DEF ras_break
    <3>2. PICK l \in Tasks : l = Top(u).who
      BY <3>1, TopIs
    <3>3. stack[u] # <<>> /\ call_brkhdr(u, l, "unlock")
      BY <3>1, <3>2 DEF At
    <3> QED BY <3>3, BreakEnts
  <2> QED BY <1>8, <2>1, <2>2
<1>9. ASSUME NEW u \in Tasks, svc_leave(u) \/ \E ss \in Ssys : svc_enter(u, ss) PROVE SameEnts(t)
  <2>1. PICK at \in {"locked", "leaving"} : At(u, "svc", at)
    BY <1>9 DEF svc_leave, svc_enter
  <2>2. stack[u] # <<>> /\ Holding(Top(u)) /\ Top(u).who = u /\ Top(u).k # "brk"
    BY <2>1, TopIs DEF Holding, HoldsAt
  <2>3. svclocked[u] = <<u>>
    BY <2>2, TopLock
  <2>4. \A v \in Tasks : v # u => stack'[v] = stack[v]
    BY <1>9, LeaveIs, EnterIs
  <2>5. u # t
    BY <2>3
  <2> QED BY <1>1, <2>4, <2>5
<1>10. ASSUME NEW u \in Tasks, ter_tsk(u) PROVE SameEnts(t)
  <2>1. tcb'[u] = make_dormant(u) /\ \A v \in Tasks : v # u => stack'[v] = stack[v]
    BY <1>10 DEF ter_tsk, FInv
  <2>2. ~make_dormant(u).alive
    BY DEF make_dormant
  <2>3. u # t
    BY <2>1, <2>2
  <2> QED BY <1>1, <2>1, <2>3
<1>11. ASSUME NEW u \in Tasks,
             \/ setup_texhdr(u) \/ tk_sta_tsk(u)
             \/ \E e \in BOOLEAN : tk_end_tex(u, e)
             \/ \E hdr \in BOOLEAN : tk_def_tex(u, hdr)
             \/ \E mask \in {{}, Codes} : set_tex_mask(u, mask)
             \/ \E mask \in BOOLEAN : tk_dis_wai(u, mask)
      PROVE  SameEnts(t)
  <2>1. UNCHANGED stack
    BY <1>11 DEF setup_texhdr, tk_sta_tsk, tk_end_tex, tk_def_tex, set_tex_mask, tk_dis_wai
  <2> QED BY <1>1, <2>1
<1>12. ASSUME NEW s \in Ssys, NEW register \in BOOLEAN, tk_def_ssy(s, register) PROVE SameEnts(t)
  BY <1>1, <1>12 DEF tk_def_ssy
<1>13. CASE UNCHANGED vars
  BY <1>1, <1>13 DEF vars
<1> QED BY <1>2, <1>3, <1>4, <1>6, <1>7, <1>8, <1>9, <1>10, <1>11, <1>12, <1>13 DEF Next

\* A task that runs the break function of another has the other's lock.
LEMMA BreakHolds ==
  ASSUME FInv, LInv, NEW r \in Tasks, NEW t \in Tasks, r # t,
         NEW i \in DOMAIN stack[r], stack[r][i].k = "brk", stack[r][i].who = t
  PROVE  svclocked[r] = <<t>>
<1>1. PICK s, q : s = stack[r] /\ q = svclocked[r]
  OBVIOUS
<1>2. s \in Seq(FRAME) /\ Shape(r, s) /\ LockOf(s, q)
  BY <1>1, OneGood DEF LInv, AllHold, Lk
<1>3. i \in 1 .. Len(s) /\ s[i].k = "brk" /\ s[i].who # r /\ s[i].who = t
  BY <1>1, <1>2, LenProperties
<1>4. Lf(s) \in 1 .. Len(s)
  BY <1>2, <1>3 DEF Shape
<1>5. s[Lf(s)].k = "ras" /\ s[Lf(s)].at = "unlock" /\ s[Lf(s)].who = t
  BY <1>2, <1>3 DEF Shape
<1>6. Holding(s[Lf(s)])
  BY <1>5 DEF Holding, HoldsAt
<1> QED BY <1>1, <1>2, <1>4, <1>5, <1>6 DEF LockOf

\* While a task runs the break function for another, the other neither enters
\* nor leaves an extended SVC, unless one of them is terminated: the lock of
\* the target is held all the while (subsystem.c:566, 595, 809).
THEOREM BreaksAlone ==
  ASSUME ~BreakCalls
  PROVE  SubsystemSpec => BreakExclusive
<1> DEFINE Step ==
      \A r, t \in Tasks :
        (/\ r # t /\ \E i \in DOMAIN stack[r] : stack[r][i].k = "brk" /\ stack[r][i].who = t
         /\ tcb'[r].alive /\ tcb'[t].alive)
        => Entered(t)' = Entered(t)
<1>1. FInv /\ FInv' /\ LInv /\ [Next]_vars => [Step]_vars
  <2>1. SUFFICES ASSUME FInv, FInv', LInv, [Next]_vars,
                        NEW r \in Tasks, NEW t \in Tasks, r # t,
                        \E i \in DOMAIN stack[r] : stack[r][i].k = "brk" /\ stack[r][i].who = t,
                        tcb'[t].alive
                 PROVE  Entered(t)' = Entered(t)
    OBVIOUS
  <2>2. svclocked[r] = <<t>>
    BY <2>1, BreakHolds
  <2>3. svclocked[t] # <<t>>
    BY <2>1, <2>2 DEF LInv, OneOwner
  <2>4. Ents(stack'[t]) = Ents(stack[t])
    BY <2>1, <2>3, SameEntered DEF SameEnts
  <2>5. Entered(t)' = Ents(stack'[t])
    <3>1. stack'[t] \in Seq(FRAME)
      BY <2>1 DEF FInv
    <3>2. DOMAIN stack'[t] = 1 .. Len(stack'[t])
      BY <3>1, LenProperties
    <3> QED BY <3>2 DEF Entered, Ents, Ent
  <2>6. Entered(t) = Ents(stack[t])
    BY <2>1, EnteredIs
  <2> QED BY <2>4, <2>5, <2>6
<1> QED BY <1>1, FramesInductive, LocksInductive, PTL DEF SubsystemSpec, BreakExclusive
=============================================================================

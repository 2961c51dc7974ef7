--------------------------- MODULE Device_proofs ---------------------------
(***************************************************************************)
(* The device manager for any tasks, opens, requests and units: one driver *)
(* call at a time, what the driver has seen opened, requests that stay     *)
(* with their tasks, and the wake-up of those who wait.                    *)
(***************************************************************************)
EXTENDS Device, WaitQueue_proofs, FiniteSetTheorems

ModeBits == {"READ", "WRITE", "EXCL", "REXCL", "WEXCL"}

\* The places in an open, in a close, in the synchronisation queue, and of
\* those the places of the task at work and of a task that waits.
Opening   == {"open", "open_wait", "openfn"}
Aborting  == {"abortfn", "abort_test", "abort_wait"}
Aborted   == {"abort_rest", "abort_waitfn", "close", "close_wait", "close_sync", "closefn"}
Emptied   == {"close", "close_wait", "close_sync", "closefn"}
Closing   == {"abort"} \cup Aborting \cup Aborted
Working   == {"open", "openfn", "close_sync", "closefn"}
Queueing  == {"open_wait", "close_wait"}
Driving   == {"execfn", "waitfn"}
Places    == {"user", "started", "suspend", "suspended"} \cup Opening \cup Closing \cup Driving

PC ==
  [at : Places, o : OpnCBs \cup {NULL}, rs : Seq(ReqCBs), kind : {"async", "sync", "any"},
   cleanup : BOOLEAN, brk : BOOLEAN]

OPN ==
  [resid : Int, grp : Int, unitno : Units \cup {0}, omode : SUBSET ModeBits,
   requestq : Seq(ReqCBs), syncreq : Int, waitone : Int, nwaireq : Nat,
   waireqlst : Seq(ReqCBs), abort_tskid : Tasks \cup {NULL}, abort_cnt : Int]

REQ == [opncb : OpnCBs \cup {NULL}, tskid : Tasks \cup {NULL}, abort : BOOLEAN]

DevTypes ==
  /\ ddev \in BOOLEAN \cup {NULL}
  /\ opn \in [OpnCBs -> OPN]
  /\ req \in [ReqCBs -> REQ]
  /\ pc \in [Tasks -> PC]

(***************************************************************************)
(* The synchronisation queue: the first is at work, or has been woken.     *)
(***************************************************************************)
InSync == {t \in Tasks : pc[t].at \in Working \cup Queueing}

SyncInv ==
  /\ Lists(syncq, InSync)
  /\ \A t \in Tasks : pc[t].at \in Working => Head(syncq) = t
  /\ \A t \in Tasks : pc[t].at \in Queueing => (t \in disabled <=> Head(syncq) = t)
  /\ \A t \in disabled : t \in Tasks /\ pc[t].at \in Queueing \cup {"abort_wait"}

(***************************************************************************)
(* Who opens or closes which block.                                        *)
(***************************************************************************)
Has(t, o) == pc[t].at \in Opening \cup Closing /\ pc[t].o = o

\* A block in use is being opened, in use, or being closed, by one task.
BlockInv ==
  /\ \A t \in Tasks : pc[t].at \in Opening =>
       pc[t].o \in openq /\ opn[pc[t].o].resid = 0 /\ opn[pc[t].o].grp = resid[t]
  /\ \A t \in Tasks : pc[t].at \in Closing =>
       /\ pc[t].o \in openq /\ opn[pc[t].o].resid = -1
       /\ pc[t].cleanup \/ opn[pc[t].o].grp = resid[t]
  /\ \A t, u \in Tasks : \A o \in OpnCBs : Has(t, o) /\ Has(u, o) => t = u
  /\ \A o \in openq : \/ opn[o].resid \in Nat \ {0} /\ opn[o].resid = opn[o].grp
                      \/ opn[o].resid \in {0, -1} /\ \E t \in Tasks : Has(t, o)
  /\ \A o \in OpnCBs \ openq : opn[o].resid = 0

\* The tasks of a group that is cleaned up have ended.
CleanupInv ==
  /\ \A t \in Tasks : pc[t].cleanup => pc[t].at \in Closing
  /\ \A t, u \in Tasks : pc[t].cleanup /\ u # t /\ resid[u] = opn[pc[t].o].grp => At(u, "user")
  /\ \A t, u \in Tasks :
       pc[t].cleanup /\ pc[u].cleanup /\ opn[pc[t].o].grp = opn[pc[u].o].grp => t = u

(***************************************************************************)
(* The requests of an open, and those the driver works on for a task.      *)
(***************************************************************************)
Of(o)   == {r \in ReqCBs : req[r].opncb = o}
Back(o) == {u \in Tasks : pc[u].at \in Driving /\ pc[u].o = o}

QueueInv ==
  /\ \A o \in OpnCBs : Lists(opn[o].requestq, Of(o))
  /\ \A o \in OpnCBs : o \notin openq \/ opn[o].resid = 0 => Of(o) = {}
  /\ \A t \in Tasks : pc[t].at \in Emptied => Of(pc[t].o) = {}

TaskInv ==
  /\ \A t \in Tasks : pc[t].at \in Driving =>
       /\ pc[t].o \in OpnCBs
       /\ \E r \in ReqCBs : r \in Range(pc[t].rs)
       /\ \A r \in Range(pc[t].rs) :
            r \in ReqCBs /\ req[r].opncb = pc[t].o /\ req[r].tskid = t
       /\ pc[t].kind = "any" => At(t, "waitfn")
  /\ \A t \in Tasks : (pc[t].at \in Driving /\ pc[t].kind # "any") \/ At(t, "started") =>
       \E r \in ReqCBs : pc[t].rs = <<r>>
  /\ \A t \in Tasks : At(t, "started") => pc[t].o \in OpnCBs /\ pc[t].kind = "sync"
  /\ \A r \in ReqCBs : req[r].tskid # NULL =>
       /\ req[r].tskid \in Tasks
       /\ pc[req[r].tskid].at \in Driving /\ r \in Range(pc[req[r].tskid].rs)

\* A wait for any request of an open is the only call of its driver.
AnyInv ==
  /\ \A o \in OpnCBs : opn[o].nwaireq > 0 =>
       \E t \in Tasks : At(t, "waitfn") /\ pc[t].kind = "any" /\ pc[t].o = o
  /\ \A t \in Tasks : At(t, "waitfn") /\ pc[t].kind = "any" =>
       opn[pc[t].o].nwaireq > 0 /\ Back(pc[t].o) = {t}

(***************************************************************************)
(* The abort of what is outstanding.                                       *)
(***************************************************************************)
AbortInv ==
  /\ \A t \in Tasks : At(t, "abortfn") => dabort = t
  /\ \A o \in OpnCBs : opn[o].abort_tskid # NULL =>
       /\ opn[o].abort_tskid \in Tasks
       /\ pc[opn[o].abort_tskid].at \in Aborting /\ pc[opn[o].abort_tskid].o = o
  /\ \A t \in Tasks : pc[t].at \in Aborting => opn[pc[t].o].abort_tskid = t
  /\ \A t \in Tasks : pc[t].at \in {"abort_test", "abort_wait"} =>
       /\ opn[pc[t].o].abort_cnt = Cardinality(Back(pc[t].o))
       /\ \A u \in Back(pc[t].o), r \in ReqCBs :
            pc[u].kind # "any" /\ r \in Range(pc[u].rs) => req[r].abort
  /\ \A t \in Tasks : At(t, "abort_wait") =>
       (t \in disabled <=> opn[pc[t].o].abort_cnt = 0)
  /\ \A t \in Tasks : pc[t].at \in Aborted => Back(pc[t].o) = {}
  /\ \A t \in Tasks : At(t, "abort_waitfn") =>
       \E r \in ReqCBs : r \in Of(pc[t].o) /\ pc[t].rs = <<r>>

(***************************************************************************)
(* What the driver has seen opened.                                        *)
(***************************************************************************)
Counts(o) == opn[o].resid # 0 /\ \A t \in Tasks : ~(At(t, "closefn") /\ pc[t].o = o)

Complete(u) == {o \in openq : opn[o].unitno = u /\ Counts(o)}

OpenInv ==
  /\ IsFiniteSet(openq)
  /\ ddev = NULL => openq = {}
  /\ \A o \in openq : opn[o].unitno \in Units
  /\ drv \in [Units -> Int]
  /\ \A u \in Units :
       drv[u] = IF Complete(u) = {} THEN 0 ELSE IF ddev THEN Cardinality(Complete(u)) ELSE 1
  /\ \A t \in Tasks : At(t, "openfn") /\ ~ddev => ~chkopen(pc[t].o)
  /\ \A t \in Tasks : At(t, "closefn") /\ ~ddev => ~chkopen(pc[t].o)

DevInv ==
  DevTypes /\ SyncInv /\ BlockInv /\ CleanupInv /\ QueueInv /\ TaskInv /\ AnyInv /\ AbortInv
    /\ OpenInv

---------------------------------------------------------------------------
(* What a step of one task leaves alone. *)

\* The other tasks are where they were.
Others(t) == \A u \in Tasks \ {t} : pc'[u] = pc[u]

\* The task takes everything but its place along.
Moves(t, x) ==
  /\ pc'[t].at = x /\ pc'[t].o = pc[t].o /\ pc'[t].rs = pc[t].rs
  /\ pc'[t].kind = pc[t].kind /\ pc'[t].cleanup = pc[t].cleanup /\ pc'[t].brk = pc[t].brk

\* A task in no call.
LEMMA IdleTask == Idle \in PC
BY DEF Idle, PC, Places

\* A task that begins to close a block.
LEMMA ClosingTask ==
  ASSUME NEW o \in OpnCBs, NEW b \in BOOLEAN
  PROVE  /\ [Idle EXCEPT !.at = "abort", !.o = o] \in PC
         /\ [Idle EXCEPT !.at = "abort", !.o = o, !.cleanup = b] \in PC
<1>1. "abort" \in Places
  BY DEF Places, Closing
<1> QED BY <1>1, IdleTask DEF PC

\* One field of a block.
LEMMA ResidField ==
  ASSUME NEW b \in OPN, NEW n \in Int
  PROVE  /\ [b EXCEPT !.resid = n] \in OPN
         /\ [b EXCEPT !.resid = n].resid = n
         /\ [b EXCEPT !.resid = n].grp = b.grp /\ [b EXCEPT !.resid = n].omode = b.omode
         /\ [b EXCEPT !.resid = n].unitno = b.unitno
         /\ [b EXCEPT !.resid = n].requestq = b.requestq
         /\ [b EXCEPT !.resid = n].nwaireq = b.nwaireq
         /\ [b EXCEPT !.resid = n].abort_tskid = b.abort_tskid
         /\ [b EXCEPT !.resid = n].abort_cnt = b.abort_cnt
BY DEF OPN

\* A task that goes on to another place.
LEMMA GotoEffect ==
  ASSUME pc \in [Tasks -> PC], NEW t \in Tasks, NEW x \in Places, Goto(t, x)
  PROVE  pc' \in [Tasks -> PC] /\ Others(t) /\ Moves(t, x)
BY DEF Goto, Others, Moves, PC

\* A task that leaves the manager.
LEMMA ReturnEffect ==
  ASSUME pc \in [Tasks -> PC], NEW t \in Tasks, Return(t)
  PROVE  /\ pc' \in [Tasks -> PC] /\ Others(t)
         /\ pc'[t].at = "user" /\ ~pc'[t].cleanup
BY DEF Return, Others, PC, Idle, Places

\* The synchronisation queue is left alone.
LEMMA SyncKept ==
  ASSUME SyncInv, NEW t \in Tasks, Others(t), UNCHANGED <<syncq, disabled>>,
         pc'[t].at \in Working <=> pc[t].at \in Working,
         pc'[t].at \in Queueing <=> pc[t].at \in Queueing,
         t \in disabled => pc'[t].at \in Queueing \cup {"abort_wait"}
  PROVE  SyncInv'
<1>1. InSync' = InSync
  BY DEF InSync, Others
<1>2. /\ \A u \in Tasks : pc'[u].at \in Working <=> pc[u].at \in Working
      /\ \A u \in Tasks : pc'[u].at \in Queueing <=> pc[u].at \in Queueing
      /\ \A u \in Tasks \ {t} : pc'[u].at = pc[u].at
  BY DEF Others
<1>3. \A u \in disabled : u \in Tasks /\ pc'[u].at \in Queueing \cup {"abort_wait"}
  BY <1>2 DEF SyncInv
<1>4. /\ Lists(syncq, InSync)
      /\ \A u \in Tasks : pc[u].at \in Working => Head(syncq) = u
      /\ \A u \in Tasks : pc[u].at \in Queueing => (u \in disabled <=> Head(syncq) = u)
  BY DEF SyncInv
<1> QED BY <1>1, <1>2, <1>3, <1>4 DEF SyncInv

\* The blocks in use, and who opens and closes them, are left alone.
LEMMA BlocksKept ==
  ASSUME BlockInv, CleanupInv, NEW t \in Tasks, Others(t),
         \A o \in OpnCBs : /\ opn'[o].omode = opn[o].omode /\ opn'[o].resid = opn[o].resid
                           /\ opn'[o].grp = opn[o].grp,
         pc'[t].at \in Opening <=> pc[t].at \in Opening,
         pc'[t].at \in Closing <=> pc[t].at \in Closing,
         pc[t].at \in Opening \cup Closing =>
           pc'[t].o = pc[t].o /\ pc'[t].cleanup = pc[t].cleanup,
         pc[t].at \notin Closing => ~pc'[t].cleanup,
         pc[t].at = "user" /\ pc'[t].at # "user" => ~Cleaned(resid[t])
  PROVE  BlockInv' /\ CleanupInv'
<1>1. openq' = openq
  BY DEF openq
<1>2. \A u \in Tasks : /\ pc'[u].at \in Opening <=> pc[u].at \in Opening
                       /\ pc'[u].at \in Closing <=> pc[u].at \in Closing
                       /\ pc[u].at \in Opening \cup Closing =>
                            pc'[u].o = pc[u].o /\ pc'[u].cleanup = pc[u].cleanup
                       /\ pc'[u].cleanup => pc'[u].at \in Closing
  BY DEF Others, CleanupInv
<1>3. openq \subseteq OpnCBs
  BY DEF openq
<1>4. \A u \in Tasks : pc[u].at \in Opening \cup Closing => pc[u].o \in OpnCBs
  BY <1>3 DEF BlockInv
<1>5. \A u \in Tasks, o \in OpnCBs : Has(u, o)' <=> Has(u, o)
  BY <1>2 DEF Has
<1>6. /\ \A u \in Tasks : pc'[u].at \in Opening =>
            /\ pc'[u].o \in openq'
            /\ opn'[pc'[u].o].resid = 0 /\ opn'[pc'[u].o].grp = resid[u]
      /\ \A u \in Tasks : pc'[u].at \in Closing =>
            /\ pc'[u].o \in openq' /\ opn'[pc'[u].o].resid = -1
            /\ pc'[u].cleanup \/ opn'[pc'[u].o].grp = resid[u]
  BY <1>1, <1>2, <1>4 DEF BlockInv
<1>7. /\ \A u, v \in Tasks : \A o \in OpnCBs : Has(u, o)' /\ Has(v, o)' => u = v
      /\ \A o \in openq' :
           \/ opn'[o].resid \in Nat \ {0} /\ opn'[o].resid = opn'[o].grp
           \/ opn'[o].resid \in {0, -1} /\ \E u \in Tasks : Has(u, o)'
      /\ \A o \in OpnCBs \ openq' : opn'[o].resid = 0
  BY <1>1, <1>3, <1>5 DEF BlockInv
<1>8. \A u, v \in Tasks : pc'[u].cleanup /\ v # u /\ resid[v] = opn'[pc'[u].o].grp => At(v, "user")'
  <2> SUFFICES ASSUME NEW u \in Tasks, NEW v \in Tasks,
                      pc'[u].cleanup, v # u, resid[v] = opn'[pc'[u].o].grp
               PROVE  pc'[v].at = "user"
    BY DEF At
  <2>1. pc[u].cleanup /\ resid[v] = opn[pc[u].o].grp
    BY <1>2, <1>4
  <2>2. pc[v].at = "user" /\ Cleaned(resid[v])
    BY <2>1 DEF CleanupInv, Cleaned, At
  <2> QED BY <2>2 DEF Others
<1>9. \A u, v \in Tasks :
        pc'[u].cleanup /\ pc'[v].cleanup /\ opn'[pc'[u].o].grp = opn'[pc'[v].o].grp => u = v
  BY <1>2, <1>4 DEF CleanupInv
<1> QED BY <1>2, <1>6, <1>7, <1>8, <1>9 DEF BlockInv, CleanupInv

\* The requests and the tasks in the driver are left alone; a block is taken
\* or freed only without requests.
LEMMA RequestsKept ==
  ASSUME QueueInv, TaskInv, AnyInv, NEW t \in Tasks, Others(t),
         \A r \in ReqCBs : req'[r].opncb = req[r].opncb /\ req'[r].tskid = req[r].tskid,
         \A o \in OpnCBs :
           \/ opn'[o].requestq = opn[o].requestq /\ opn'[o].nwaireq = opn[o].nwaireq
           \/ Of(o) = {} /\ opn'[o].requestq = << >> /\ opn'[o].nwaireq = 0,
         \A o \in OpnCBs : o \notin openq' \/ opn'[o].resid = 0 => Of(o) = {},
         pc'[t].at \in Emptied => Of(pc'[t].o) = {},
         {pc[t].at, pc'[t].at} \cap (Driving \cup {"started"}) = {}
  PROVE  QueueInv' /\ TaskInv' /\ AnyInv'
<1>1. /\ \A o : Of(o)' = Of(o)
      /\ \A o : Back(o)' = Back(o)
  BY DEF Of, Back, Others
<1>2. \A u \in Tasks : pc'[u].at \in Driving \cup {"started"} => pc'[u] = pc[u]
  BY DEF Others
<1>3. QueueInv'
  <2>1. ASSUME NEW o \in OpnCBs PROVE Lists(opn'[o].requestq, Of(o))
    BY NothingListed DEF QueueInv
  <2>2. \A u \in Tasks : pc'[u].at \in Emptied => Of(pc'[u].o) = {}
    BY DEF QueueInv, Others
  <2> QED BY <1>1, <2>1, <2>2 DEF QueueInv
<1>4. TaskInv'
  <2>1. ASSUME NEW r \in ReqCBs, req'[r].tskid # NULL
        PROVE  pc'[req'[r].tskid].at \in Driving /\ r \in Range(pc'[req'[r].tskid].rs)
    <3>1. pc[req[r].tskid].at \in Driving /\ r \in Range(pc[req[r].tskid].rs)
      BY <2>1 DEF TaskInv
    <3>2. req[r].tskid \in Tasks
      BY <2>1 DEF TaskInv
    <3> QED BY <3>1, <3>2 DEF Others
  <2>2. \A u \in Tasks : pc'[u].at \in Driving =>
          /\ pc'[u].o \in OpnCBs
          /\ \E r \in ReqCBs : r \in Range(pc'[u].rs)
          /\ \A r \in Range(pc'[u].rs) : r \in ReqCBs /\ req'[r].opncb = pc'[u].o /\ req'[r].tskid = u
          /\ pc'[u].kind = "any" => pc'[u].at = "waitfn"
    BY <1>2 DEF TaskInv, At
  <2>3. \A u \in Tasks : (pc'[u].at \in Driving /\ pc'[u].kind # "any") \/ pc'[u].at = "started" =>
          \E r \in ReqCBs : pc'[u].rs = <<r>>
    BY <1>2 DEF TaskInv, At
  <2>4. \A u \in Tasks : pc'[u].at = "started" => pc'[u].o \in OpnCBs /\ pc'[u].kind = "sync"
    BY <1>2 DEF TaskInv, At
  <2> QED BY <2>1, <2>2, <2>3, <2>4 DEF TaskInv, At
<1>5. AnyInv'
  <2>1. ASSUME NEW u \in Tasks, pc'[u].at = "waitfn", pc'[u].kind = "any"
        PROVE  opn'[pc'[u].o].nwaireq > 0 /\ Back(pc'[u].o) = {u}
    <3>1. pc'[u] = pc[u]
      BY <1>2, <2>1 DEF Driving
    <3>2. opn[pc[u].o].nwaireq > 0 /\ Back(pc[u].o) = {u}
      BY <2>1, <3>1 DEF AnyInv, At
    <3>3. pc[u].o \in OpnCBs /\ Of(pc[u].o) # {}
      BY <2>1, <3>1 DEF TaskInv, Driving, Of
    <3> QED BY <3>1, <3>2, <3>3
  <2>2. ASSUME NEW o \in OpnCBs, opn'[o].nwaireq > 0
        PROVE  \E u \in Tasks : pc'[u].at = "waitfn" /\ pc'[u].kind = "any" /\ pc'[u].o = o
    <3>1. PICK u \in Tasks : pc[u].at = "waitfn" /\ pc[u].kind = "any" /\ pc[u].o = o
      BY <2>2 DEF AnyInv, At
    <3>2. pc'[u] = pc[u]
      BY <3>1 DEF Others, Driving
    <3> QED BY <3>1, <3>2
  <2> QED BY <1>1, <2>1, <2>2 DEF AnyInv, At
<1> QED BY <1>3, <1>4, <1>5

\* The aborts are left alone.
LEMMA AbortKept ==
  ASSUME AbortInv, BlockInv, NEW t \in Tasks, Others(t), dabort' = dabort,
         \A o \in OpnCBs : /\ opn'[o].abort_tskid = opn[o].abort_tskid
                           /\ opn[o].abort_tskid # NULL => opn'[o].abort_cnt = opn[o].abort_cnt,
         \A r \in ReqCBs : req'[r].opncb = req[r].opncb /\ req'[r].abort = req[r].abort,
         \A u \in Tasks \ {t} : u \in disabled' /\ At(u, "abort_wait") <=> u \in disabled /\ At(u, "abort_wait"),
         {pc[t].at, pc'[t].at} \cap (Driving \cup Aborting \cup {"abort_waitfn"}) = {},
         pc'[t].at \in Aborted => Back(pc'[t].o) = {}
  PROVE  AbortInv'
<1>1. /\ \A o : Of(o)' = Of(o)
      /\ \A o : Back(o)' = Back(o)
  BY DEF Of, Back, Others
<1>2. \A u \in Tasks : pc'[u].at \in Driving \cup Aborting \cup {"abort_waitfn"} => pc'[u] = pc[u] /\ u # t
  BY DEF Others
<1>3. \A u \in Tasks : pc'[u].at \in Aborting => pc'[u].o \in OpnCBs
  BY <1>2 DEF BlockInv, openq, Closing
<1>4. \A o \in OpnCBs : opn'[o].abort_tskid # NULL =>
        /\ opn'[o].abort_tskid \in Tasks
        /\ pc'[opn'[o].abort_tskid].at \in Aborting /\ pc'[opn'[o].abort_tskid].o = o
  BY DEF AbortInv, Others
<1>5. /\ \A u \in Tasks : pc'[u].at = "abortfn" => dabort' = u
      /\ \A u \in Tasks : pc'[u].at \in Aborting => opn'[pc'[u].o].abort_tskid = u
  BY <1>2, <1>3 DEF AbortInv, At, Aborting
<1>6. ASSUME NEW u \in Tasks, pc'[u].at \in {"abort_test", "abort_wait"}
      PROVE  /\ opn'[pc'[u].o].abort_cnt = Cardinality(Back(pc[u].o))
             /\ \A v \in Back(pc[u].o), r \in ReqCBs :
                  pc'[v].kind # "any" /\ r \in Range(pc'[v].rs) => req'[r].abort
             /\ pc'[u].at = "abort_wait" =>
                  (u \in disabled' <=> opn'[pc'[u].o].abort_cnt = 0)
  <2>1. pc'[u] = pc[u] /\ u # t /\ pc[u].at \in Aborting
    BY <1>2, <1>6 DEF Aborting
  <2>2. /\ opn[pc[u].o].abort_tskid = u /\ opn[pc[u].o].abort_cnt = Cardinality(Back(pc[u].o))
        /\ \A v \in Back(pc[u].o), r \in ReqCBs :
             pc[v].kind # "any" /\ r \in Range(pc[v].rs) => req[r].abort
        /\ pc[u].at = "abort_wait" => (u \in disabled <=> opn[pc[u].o].abort_cnt = 0)
    BY <1>6, <2>1 DEF AbortInv, At
  <2>3. opn'[pc[u].o].abort_cnt = opn[pc[u].o].abort_cnt
    BY <1>3, <2>1, <2>2, DeviceAssumption
  <2>4. \A v \in Back(pc[u].o) : pc'[v] = pc[v]
    BY DEF Back, Others
  <2> QED BY <1>6, <2>1, <2>2, <2>3, <2>4 DEF At
<1>7. \A u \in Tasks : pc'[u].at \in Aborted => Back(pc'[u].o) = {}
  BY DEF AbortInv, Others
<1>8. \A u \in Tasks : pc'[u].at = "abort_waitfn" =>
        \E r \in ReqCBs : r \in Of(pc'[u].o) /\ pc'[u].rs = <<r>>
  BY <1>2 DEF AbortInv, At
<1>9. \A u \in Tasks : pc'[u].at \in {"abort_test", "abort_wait"} =>
        /\ opn'[pc'[u].o].abort_cnt = Cardinality(Back(pc'[u].o))
        /\ \A v \in Back(pc'[u].o), r \in ReqCBs :
             pc'[v].kind # "any" /\ r \in Range(pc'[v].rs) => req'[r].abort
  BY <1>2, <1>6 DEF Aborting
<1>10. \A u \in Tasks : pc'[u].at = "abort_wait" =>
         (u \in disabled' <=> opn'[pc'[u].o].abort_cnt = 0)
  BY <1>2, <1>6 DEF Aborting
<1>11. /\ (\A u \in Tasks : At(u, "abortfn") => dabort = u)'
       /\ (\A u \in Tasks : pc[u].at \in Aborting => opn[pc[u].o].abort_tskid = u)'
  BY <1>5 DEF At
<1>12. (\A u \in Tasks : pc[u].at \in {"abort_test", "abort_wait"} =>
          /\ opn[pc[u].o].abort_cnt = Cardinality(Back(pc[u].o))
          /\ \A v \in Back(pc[u].o), r \in ReqCBs :
               pc[v].kind # "any" /\ r \in Range(pc[v].rs) => req[r].abort)'
  BY <1>1, <1>9
<1>13. (\A u \in Tasks : At(u, "abort_wait") => (u \in disabled <=> opn[pc[u].o].abort_cnt = 0))'
  BY <1>10 DEF At
<1>14. (\A u \in Tasks : pc[u].at \in Aborted => Back(pc[u].o) = {})'
  BY <1>1, <1>7
<1>15. (\A u \in Tasks : At(u, "abort_waitfn") =>
          \E r \in ReqCBs : r \in Of(pc[u].o) /\ pc[u].rs = <<r>>)'
  BY <1>1, <1>8 DEF At
<1> QED BY <1>4, <1>11, <1>12, <1>13, <1>14, <1>15 DEF AbortInv

\* What the driver has seen is left alone.
LEMMA OpenKept ==
  ASSUME OpenInv, BlockInv, NEW t \in Tasks, Others(t), UNCHANGED <<ddev, drv>>,
         \A o \in OpnCBs : /\ opn'[o].omode = opn[o].omode /\ opn'[o].unitno = opn[o].unitno
                           /\ (opn'[o].resid = 0 <=> opn[o].resid = 0),
         {pc[t].at, pc'[t].at} \cap {"openfn", "closefn"} = {}
  PROVE  OpenInv'
<1>1. openq' = openq /\ openq \subseteq OpnCBs
  BY DEF openq
<1>2. \A o \in OpnCBs : Counts(o)' <=> Counts(o)
  <2> SUFFICES ASSUME NEW o \in OpnCBs PROVE Counts(o)' <=> Counts(o)
    OBVIOUS
  <2>1. \A u \in Tasks : (pc'[u].at = "closefn" /\ pc'[u].o = o) <=> (pc[u].at = "closefn" /\ pc[u].o = o)
    BY DEF Others
  <2> QED BY <2>1 DEF Counts, At
<1>3. \A u \in Units : Complete(u)' = Complete(u)
  BY <1>1, <1>2 DEF Complete
<1>4. \A o \in OpnCBs : chkopen(o)' <=> chkopen(o)
  BY <1>1 DEF chkopen
<1>5. \A u \in Tasks : pc'[u].at \in {"openfn", "closefn"} =>
        pc'[u] = pc[u] /\ pc[u].o \in OpnCBs
  BY <1>1 DEF Others, BlockInv, Opening, Closing, Aborted
<1>6. /\ IsFiniteSet(openq') /\ (ddev' = NULL => openq' = {})
      /\ \A o \in openq' : opn'[o].unitno \in Units
      /\ drv' \in [Units -> Int]
  BY <1>1 DEF OpenInv
<1>7. \A u \in Units :
        drv'[u] = IF Complete(u)' = {} THEN 0 ELSE IF ddev' THEN Cardinality(Complete(u)') ELSE 1
  BY <1>3 DEF OpenInv
<1>8. /\ \A u \in Tasks : \A o \in OpnCBs :
            pc'[u].at \in {"openfn", "closefn"} /\ ~ddev' /\ o = pc'[u].o => ~chkopen(o)'
  BY <1>4, <1>5 DEF OpenInv, At
<1>9. /\ (\A u \in Tasks : At(u, "openfn") /\ ~ddev => ~chkopen(pc[u].o))'
      /\ (\A u \in Tasks : At(u, "closefn") /\ ~ddev => ~chkopen(pc[u].o))'
  BY <1>5, <1>8 DEF At
<1> QED BY <1>6, <1>7, <1>9 DEF OpenInv

---------------------------------------------------------------------------
(* Registration and suspension. *)

\* The places outside of opens and requests.
Outside == {"user", "suspend", "suspended"}

\* A task that is not opening, closing or requesting, before and after.
LEMMA OutsideStep ==
  ASSUME DevInv, NEW t \in Tasks, pc' \in [Tasks -> PC], Others(t),
         UNCHANGED <<ddev, syncq, opn, req, disabled, dabort, drv>>,
         {pc[t].at, pc'[t].at} \subseteq Outside, ~pc'[t].cleanup,
         pc[t].at = "user" /\ pc'[t].at # "user" => ~Cleaned(resid[t])
  PROVE  DevInv'
<1> USE DEF Outside, Places, Opening, Closing, Aborting, Aborted, Emptied, Working, Queueing, Driving
<1>1. DevTypes' /\ openq' = openq
  BY DEF DevInv, DevTypes, openq
<1>2. SyncInv'
  BY SyncKept DEF DevInv, SyncInv
<1>3. BlockInv' /\ CleanupInv'
  BY BlocksKept DEF DevInv
<1>4. QueueInv' /\ TaskInv' /\ AnyInv'
  BY <1>1, RequestsKept DEF DevInv, QueueInv
<1>5. AbortInv'
  BY AbortKept DEF DevInv
<1>6. OpenInv'
  BY OpenKept DEF DevInv
<1> QED BY <1>1, <1>2, <1>3, <1>4, <1>5, <1>6 DEF DevInv

\* A registration changes while nothing is open.
LEMMA DefStep ==
  ASSUME DevInv, NEW t \in Tasks, NEW d \in BOOLEAN \cup {NULL}, tk_def_dev(t, d)
  PROVE  DevInv'
<1> USE DEF Places, Opening, Closing, Aborting, Aborted, Emptied, Working, Queueing, Driving
<1>1. /\ UNCHANGED <<syncq, opn, req, disabled, dabort, pc, drv>> /\ ddev' = d /\ openq = {}
      /\ pc[t].at = "user" /\ Others(t)
  BY DEF tk_def_dev, blocks, locks, DevInv, OpenInv, Calling, At, Others
<1>2. DevTypes' /\ openq' = openq
  BY <1>1 DEF DevInv, DevTypes, openq
<1>3. SyncInv'
  BY <1>1, SyncKept DEF DevInv, SyncInv
<1>4. BlockInv' /\ CleanupInv'
  BY <1>1, BlocksKept DEF DevInv, CleanupInv
<1>5. QueueInv' /\ TaskInv' /\ AnyInv'
  BY <1>1, <1>2, RequestsKept DEF DevInv, QueueInv
<1>6. AbortInv'
  BY <1>1, AbortKept DEF DevInv
<1>7. OpenInv'
  <2>1. \A u \in Units : Complete(u) = {} /\ Complete(u)' = {} /\ drv'[u] = 0
    BY <1>1, <1>2 DEF Complete, DevInv, OpenInv
  <2>2. \A u \in Tasks : pc'[u].at \notin {"openfn", "closefn"}
    BY <1>1 DEF DevInv, BlockInv
  <2>3. IsFiniteSet(openq') /\ drv' \in [Units -> Int]
    BY <1>1, <1>2, FS_EmptySet DEF DevInv, OpenInv
  <2> QED BY <1>1, <1>2, <2>1, <2>2, <2>3 DEF OpenInv, At
<1> QED BY <1>2, <1>3, <1>4, <1>5, <1>6, <1>7 DEF DevInv

\* TD_SUSPEND.
LEMMA SusStep ==
  ASSUME DevInv, NEW t \in Tasks,
         \/ tk_sus_dev_dis(t) \/ tk_sus_dev_ena(t) \/ tk_sus_dev(t) \/ do_suspend(t)
         \/ do_resume(t)
  PROVE  DevInv'
<1>1. /\ UNCHANGED <<ddev, syncq, opn, req, disabled, dabort, drv>>
      /\ pc \in [Tasks -> PC]
      /\ pc[t].at \in Outside
      /\ pc[t].at = "user" => ~Cleaned(resid[t])
      /\ ~pc[t].cleanup
  BY DEF tk_sus_dev_dis, tk_sus_dev_ena, tk_sus_dev, do_suspend, do_resume, Calling, At, Outside,
         blocks, locks, DevInv, DevTypes, CleanupInv, Closing, Aborting, Aborted
<1>2. CASE tk_sus_dev_dis(t) \/ tk_sus_dev_ena(t)
  BY <1>1, <1>2, OutsideStep DEF tk_sus_dev_dis, tk_sus_dev_ena, Others
<1>3. CASE tk_sus_dev(t)
  BY <1>1, <1>3, GotoEffect, OutsideStep DEF tk_sus_dev, Moves, Places, Outside
<1>4. CASE do_suspend(t)
  BY <1>1, <1>4, GotoEffect, OutsideStep DEF do_suspend, Moves, Places, Outside
<1>5. CASE do_resume(t)
  BY <1>1, <1>5, ReturnEffect, OutsideStep DEF do_resume, Outside
<1> QED BY <1>2, <1>3, <1>4, <1>5

---------------------------------------------------------------------------
(* The synchronisation queue. *)

\* Only one task is at work.
LEMMA OneWorks ==
  ASSUME SyncInv, NEW t \in Tasks, NEW u \in Tasks, pc[t].at \in Working, pc[u].at \in Working
  PROVE  t = u
BY DEF SyncInv

\* The head of the queue is one of those in it.
LEMMA HeadInSync ==
  ASSUME NEW q, NEW S, Lists(q, S), q # << >>
  PROVE  Head(q) \in S
<1>1. q \in Seq(S) /\ 1 \in 1 .. Len(q) /\ Head(q) = q[1]
  BY EmptySeq, ListsPlaces
<1> QED BY <1>1, ListsPlaces

\* enterSyncWait.
LEMMA EnterSync ==
  ASSUME SyncInv, NEW t \in Tasks, Others(t), pc[t].at \notin Working \cup Queueing,
         pc[t].at # "abort_wait", syncq' = Append(syncq, t), UNCHANGED disabled,
         syncq = << >> => pc'[t].at \in Working,
         syncq # << >> => pc'[t].at \in Queueing
  PROVE  SyncInv'
<1>1. t \notin InSync /\ t \notin disabled /\ Lists(syncq, InSync)
  BY DEF InSync, SyncInv
<1>2. InSync' = InSync \cup {t}
  BY EmptyList DEF InSync, Others
<1>3. /\ Lists(syncq', InSync')
      /\ Head(syncq') = IF syncq = << >> THEN t ELSE Head(syncq)
  BY <1>1, <1>2, AppendList
<1>4. syncq # << >> => Head(syncq) # t
  BY <1>1, HeadInSync
<1>5. syncq = << >> => InSync = {}
  BY <1>1, EmptyList
<1>6. \A u \in Tasks \ {t} : pc'[u].at = pc[u].at
  BY DEF Others
<1>7. \A u \in Tasks : pc'[u].at \in Working => Head(syncq') = u
  BY <1>3, <1>5, <1>6 DEF SyncInv, InSync, Working, Queueing
<1>8. \A u \in Tasks : pc'[u].at \in Queueing => (u \in disabled' <=> Head(syncq') = u)
  BY <1>1, <1>3, <1>4, <1>5, <1>6 DEF SyncInv, InSync, Working, Queueing
<1>9. \A u \in disabled' : u \in Tasks /\ pc'[u].at \in Queueing \cup {"abort_wait"}
  BY <1>1, <1>6 DEF SyncInv
<1> QED BY <1>3, <1>7, <1>8, <1>9 DEF SyncInv

\* SyncWaitDM in the queue.
LEMMA SyncedSync ==
  ASSUME SyncInv, NEW t \in Tasks, Others(t), pc[t].at \in Queueing, t \in disabled,
         disabled' = disabled \ {t}, UNCHANGED syncq, pc'[t].at \in Working
  PROVE  SyncInv'
<1>1. InSync' = InSync /\ Lists(syncq, InSync) /\ Head(syncq) = t
  BY DEF InSync, Others, SyncInv
<1>2. \A u \in Tasks \ {t} : pc'[u].at = pc[u].at
  BY DEF Others
<1>3. \A u \in Tasks : pc'[u].at \in Working => Head(syncq') = u
  BY <1>1, <1>2 DEF SyncInv
<1>4. \A u \in Tasks : pc'[u].at \in Queueing => (u \in disabled' <=> Head(syncq') = u)
  BY <1>1, <1>2 DEF SyncInv, Working, Queueing
<1>5. \A u \in disabled' : u \in Tasks /\ pc'[u].at \in Queueing \cup {"abort_wait"}
  BY <1>2 DEF SyncInv
<1> QED BY <1>1, <1>3, <1>4, <1>5 DEF SyncInv

\* leaveSyncWait.
LEMMA LeaveSync ==
  ASSUME SyncInv, NEW t \in Tasks, Others(t), pc[t].at \in Working, NEW back \in BOOLEAN,
         leaveSyncWait(t, back), pc'[t].at \notin Working \cup Queueing
  PROVE  /\ SyncInv'
         /\ \A u \in Tasks : At(u, "abort_wait") => (u \in disabled' <=> u \in disabled)
<1> DEFINE q == QueRemove(syncq, t)
           h == IF q = << >> THEN {} ELSE {Head(q)}
<1>1. /\ t \in InSync /\ t \notin disabled /\ Lists(syncq, InSync) /\ Head(syncq) = t
      /\ \A u \in Tasks : pc[u].at \in Queueing => u \notin disabled
  BY DEF InSync, SyncInv, Working, Queueing
<1>2. InSync' = InSync \ {t}
  BY DEF InSync, Others
<1>3. Lists(q, InSync')
  BY <1>1, <1>2, RemoveList
<1>4. syncq' = q /\ (disabled' = (disabled \cup h) \/ disabled' = (disabled \cup h) \ {t})
  BY DEF leaveSyncWait
<1>5. q # << >> => Head(q) \in InSync'
  BY <1>3, HeadInSync
<1>6. \A u \in InSync' : u \in Tasks /\ u # t /\ pc[u].at \in Queueing
  BY <1>1, <1>2 DEF InSync, SyncInv
<1>7. disabled' = disabled \cup h
  BY <1>1, <1>4, <1>5, <1>6
<1>8. \A u \in Tasks \ {t} : pc'[u].at = pc[u].at
  BY DEF Others
<1>9. \A u \in Tasks : pc'[u].at \notin Working
  BY <1>6, <1>8, <1>2 DEF InSync, Working, Queueing
<1>10. InSync' = {} => \A u \in Tasks : pc'[u].at \notin Queueing
  BY DEF InSync
<1>11. ASSUME NEW u \in Tasks, pc'[u].at \in Queueing
       PROVE  u \in disabled' <=> Head(syncq') = u
  <2>1. u # t /\ pc[u].at \in Queueing /\ u \notin disabled
    BY <1>1, <1>8, <1>11
  <2>2. q # << >>
    BY <1>3, <1>10, <1>11, EmptyList
  <2> QED BY <1>4, <1>7, <2>1, <2>2
<1>12. \A u \in disabled' : u \in Tasks /\ pc'[u].at \in Queueing \cup {"abort_wait"}
  BY <1>1, <1>5, <1>6, <1>7, <1>8 DEF SyncInv
<1>13. \A u \in Tasks : At(u, "abort_wait") => (u \in disabled' <=> u \in disabled)
  BY <1>5, <1>6, <1>7 DEF At, Queueing
<1> QED BY <1>3, <1>4, <1>9, <1>11, <1>12, <1>13 DEF SyncInv

\* The task at work is the only one in a call of openfn or closefn.
LEMMA CountsWorking ==
  ASSUME SyncInv, NEW t \in Tasks, Others(t), pc[t].at \in Working
  PROVE  /\ \A o : Counts(o) <=> opn[o].resid # 0 /\ ~(pc[t].at = "closefn" /\ o = pc[t].o)
         /\ \A o : Counts(o)' <=> opn'[o].resid # 0 /\ ~(pc'[t].at = "closefn" /\ o = pc'[t].o)
         /\ \A u \in Tasks \ {t} : /\ pc[u].at \notin {"openfn", "closefn"}
                                   /\ pc'[u].at \notin {"openfn", "closefn"}
<1>1. \A u \in Tasks \ {t} : /\ pc[u].at \notin {"openfn", "closefn"}
                             /\ pc'[u].at \notin {"openfn", "closefn"}
  BY OneWorks DEF Others, Working
<1> QED BY <1>1 DEF Counts, At

---------------------------------------------------------------------------
(* Opening. *)

\* tk_opn_dev takes a free block, which no task and no request knows.
LEMMA OpnStep ==
  ASSUME DevInv, NEW t \in Tasks, NEW u \in Units, NEW m \in Modes, NEW o \in OpnCBs,
         tk_opn_dev(t, u, m, o)
  PROVE  DevInv'
<1> USE DEF Opening, Closing, Aborting, Aborted, Emptied, Working, Queueing, Driving
<1>1. /\ pc[t].at = "user" /\ ~Cleaned(resid[t]) /\ o \notin openq /\ m # {} /\ ddev # NULL
      /\ UNCHANGED <<ddev, req, disabled, dabort, drv>> /\ syncq' = Append(syncq, t)
  BY DEF tk_opn_dev, Calling, At, chkopenmode, enterSyncWait
<1>2. /\ pc' \in [Tasks -> PC] /\ Others(t)
      /\ pc'[t].at = (IF syncq = << >> THEN "open" ELSE "open_wait")
      /\ pc'[t].o = o /\ pc'[t].cleanup = pc[t].cleanup
  <2> DEFINE p == [pc EXCEPT ![t].o = o]
             x == IF syncq = << >> THEN "open" ELSE "open_wait"
  <2>1. pc \in [Tasks -> PC]
    BY DEF DevInv, DevTypes
  <2>2. /\ p \in [Tasks -> PC] /\ (\A v \in Tasks \ {t} : p[v] = pc[v])
        /\ p[t].o = o /\ p[t].cleanup = pc[t].cleanup
    BY <2>1 DEF PC
  <2>3. pc' = [p EXCEPT ![t].at = x]
    BY DEF tk_opn_dev, enterSyncWait
  <2>4. x \in Places
    BY DEF Places
  <2> HIDE DEF p, x
  <2>5. /\ pc' \in [Tasks -> PC] /\ (\A v \in Tasks \ {t} : pc'[v] = p[v])
        /\ pc'[t].at = x /\ pc'[t].o = p[t].o /\ pc'[t].cleanup = p[t].cleanup
    BY <2>2, <2>3, <2>4 DEF PC
  <2> QED BY <2>2, <2>5 DEF Others, x
<1>3. /\ \A p \in OpnCBs \ {o} : opn'[p] = opn[p]
      /\ opn' \in [OpnCBs -> OPN]
      /\ opn'[o] = [FreeOpn EXCEPT !.grp = resid[t], !.unitno = u, !.omode = m]
  <2> DEFINE b == [FreeOpn EXCEPT !.grp = resid[t], !.unitno = u, !.omode = m]
  <2>1. opn' = [opn EXCEPT ![o] = b] /\ opn \in [OpnCBs -> OPN]
    BY DEF tk_opn_dev, DevInv, DevTypes
  <2>2. resid[t] \in Int /\ m \in SUBSET ModeBits
    BY DeviceAssumption DEF ModeBits
  <2>3. FreeOpn \in OPN
    BY DEF FreeOpn, OPN
  <2>4. b \in OPN
    BY <2>2, <2>3 DEF OPN
  <2>5. opn'[o] = b
    BY <2>1
  <2>6. opn' \in [OpnCBs -> OPN] /\ \A p \in OpnCBs \ {o} : opn'[p] = opn[p]
    <3> HIDE DEF b
    <3> QED BY <2>1, <2>4
  <2> QED BY <2>5, <2>6
<1>4. /\ opn'[o].omode = m /\ opn'[o].resid = 0 /\ opn'[o].grp = resid[t]
      /\ opn'[o].unitno = u /\ opn'[o].requestq = << >> /\ opn'[o].nwaireq = 0
      /\ opn'[o].abort_tskid = NULL
  BY <1>3 DEF FreeOpn
<1>5. openq' = openq \cup {o} /\ openq \subseteq OpnCBs
  <2>1. openq' \subseteq openq \cup {o}
    BY <1>3 DEF openq
  <2>2. openq \cup {o} \subseteq openq'
    BY <1>1, <1>3, <1>4 DEF openq
  <2> QED BY <2>1, <2>2 DEF openq
<1>6. ~pc[t].cleanup /\ Of(o) = {} /\ opn[o].resid = 0
      /\ \A v \in Tasks : pc[v].at \in Opening \cup Closing => pc[v].o \in openq
  BY <1>1 DEF DevInv, CleanupInv, BlockInv, QueueInv
<1>7. opn[o].abort_tskid = NULL
  BY <1>1, <1>6 DEF DevInv, AbortInv
<1>8. DevTypes'
  BY <1>1, <1>2, <1>3 DEF DevInv, DevTypes
<1>9. SyncInv'
  BY <1>1, <1>2, EnterSync DEF DevInv
<1>10. BlockInv' /\ CleanupInv'
  <2>1. \A v \in Tasks \ {t} : /\ pc'[v] = pc[v]
                               /\ pc[v].at \in Opening \cup Closing =>
                                    pc[v].o # o /\ opn'[pc[v].o] = opn[pc[v].o]
    BY <1>1, <1>2, <1>3, <1>5, <1>6 DEF Others
  <2>2. \A v \in Tasks : \A p \in OpnCBs :
          Has(v, p)' <=> ((v # t /\ Has(v, p)) \/ (v = t /\ p = o))
    BY <1>1, <1>2, <2>1 DEF Has
  <2>3. \A v \in Tasks : pc'[v].at \in Opening =>
          pc'[v].o \in openq' /\ opn'[pc'[v].o].resid = 0 /\ opn'[pc'[v].o].grp = resid[v]
    BY <1>2, <1>4, <1>5, <2>1 DEF DevInv, BlockInv
  <2>4. \A v \in Tasks : pc'[v].at \in Closing =>
          /\ pc'[v].o \in openq' /\ opn'[pc'[v].o].resid = -1
          /\ pc'[v].cleanup \/ opn'[pc'[v].o].grp = resid[v]
    BY <1>2, <1>5, <2>1 DEF DevInv, BlockInv
  <2>5. \A v, w \in Tasks : \A p \in OpnCBs : Has(v, p)' /\ Has(w, p)' => v = w
    BY <1>1, <1>6, <2>2 DEF DevInv, BlockInv, Has
  <2>6. ASSUME NEW p \in openq'
        PROVE  \/ opn'[p].resid \in Nat \ {0} /\ opn'[p].resid = opn'[p].grp
               \/ opn'[p].resid \in {0, -1} /\ \E v \in Tasks : Has(v, p)'
    <3>1. CASE p = o
      BY <1>4, <2>2, <3>1
    <3>2. CASE p # o
      <4>1. p \in openq /\ opn'[p] = opn[p] /\ p \in OpnCBs
        BY <1>3, <1>5, <3>2
      <4>2. \A v \in Tasks : Has(v, p) => v # t
        BY <1>1 DEF Has
      <4> QED BY <2>2, <4>1, <4>2 DEF DevInv, BlockInv
    <3> QED BY <3>1, <3>2
  <2>7. \A p \in OpnCBs \ openq' : opn'[p].resid = 0
    BY <1>3, <1>5 DEF DevInv, BlockInv
  <2>8. \A v \in Tasks : pc'[v].cleanup => v # t /\ pc'[v].at \in Closing
    BY <1>2, <1>6, <2>1 DEF DevInv, CleanupInv
  <2>9. \A v, w \in Tasks :
          pc'[v].cleanup /\ w # v /\ resid[w] = opn'[pc'[v].o].grp => pc'[w].at = "user"
    <3> SUFFICES ASSUME NEW v \in Tasks, NEW w \in Tasks,
                        pc'[v].cleanup, w # v, resid[w] = opn'[pc'[v].o].grp
                 PROVE  pc'[w].at = "user"
      OBVIOUS
    <3>1. pc[v].cleanup /\ resid[w] = opn[pc[v].o].grp
      BY <2>1, <2>8
    <3>2. pc[w].at = "user" /\ Cleaned(resid[w])
      BY <3>1 DEF Cleaned, DevInv, CleanupInv, At
    <3> QED BY <1>1, <2>1, <3>2
  <2>10. \A v, w \in Tasks :
           pc'[v].cleanup /\ pc'[w].cleanup /\ opn'[pc'[v].o].grp = opn'[pc'[w].o].grp => v = w
    BY <2>1, <2>8 DEF DevInv, CleanupInv
  <2> QED BY <2>3, <2>4, <2>5, <2>6, <2>7, <2>8, <2>9, <2>10 DEF BlockInv, CleanupInv, At
<1>11. QueueInv' /\ TaskInv' /\ AnyInv'
  <2>1. \A p \in OpnCBs : p \notin openq' \/ opn'[p].resid = 0 => Of(p) = {}
    BY <1>3, <1>5, <1>6 DEF DevInv, QueueInv
  <2> QED BY <1>1, <1>2, <1>3, <1>4, <1>6, <2>1, RequestsKept DEF DevInv
<1>12. AbortInv'
  BY <1>1, <1>2, <1>3, <1>4, <1>7, AbortKept DEF DevInv
<1>13. OpenInv'
  <2>1. \A v \in Tasks : pc'[v].at \in {"openfn", "closefn"} <=> v # t /\ pc[v].at \in {"openfn", "closefn"}
    BY <1>1, <1>2 DEF Others
  <2>2. \A v \in Tasks : /\ pc'[v].at \in {"openfn", "closefn"} => pc'[v] = pc[v]
                         /\ pc[v].at \in {"openfn", "closefn"} => pc'[v] = pc[v]
    BY <1>1, <1>2 DEF Others
  <2>3. \A p \in openq : Counts(p)' <=> Counts(p)
    BY <1>1, <1>3, <1>5, <2>2 DEF Counts, At
  <2>4. ~Counts(o)'
    BY <1>4 DEF Counts
  <2>5. \A p \in openq : opn'[p] = opn[p]
    BY <1>1, <1>3, <1>5
  <2>6. ASSUME NEW v \in Units PROVE Complete(v)' = Complete(v)
    BY <1>5, <2>3, <2>4, <2>5 DEF Complete
  <2>7. ASSUME NEW v \in Tasks, pc'[v].at \in {"openfn", "closefn"}, ~ddev', NEW p, p = pc'[v].o
        PROVE  ~chkopen(p)'
    <3>1. p \in openq /\ ~chkopen(p)
      BY <1>1, <2>1, <2>2, <2>7 DEF DevInv, OpenInv, BlockInv, At
    <3>2. \A q \in openq' \ {p} : opn'[q].unitno = opn'[p].unitno /\ opn'[q].resid # 0 =>
            q \in openq \ {p} /\ opn[q].unitno = opn[p].unitno /\ opn[q].resid # 0
      BY <1>4, <1>5, <2>5, <3>1
    <3> QED BY <3>1, <3>2 DEF chkopen
  <2>8. /\ (\A v \in Tasks : At(v, "openfn") /\ ~ddev => ~chkopen(pc[v].o))'
        /\ (\A v \in Tasks : At(v, "closefn") /\ ~ddev => ~chkopen(pc[v].o))'
    BY <2>7 DEF At
  <2>9. /\ IsFiniteSet(openq') /\ (ddev' = NULL => openq' = {})
        /\ \A p \in openq' : opn'[p].unitno \in Units
    BY <1>1, <1>4, <1>5, <2>5, FS_AddElement DEF DevInv, OpenInv
  <2>10. \A v \in Units :
           drv'[v] = IF Complete(v)' = {} THEN 0 ELSE IF ddev' THEN Cardinality(Complete(v)') ELSE 1
    BY <1>1, <2>6 DEF DevInv, OpenInv
  <2>11. drv' \in [Units -> Int]
    BY <1>1 DEF DevInv, OpenInv
  <2> QED BY <2>8, <2>9, <2>10, <2>11 DEF OpenInv
<1> QED BY <1>8, <1>9, <1>10, <1>11, <1>12, <1>13 DEF DevInv

\* A task is done with the block it opens or closes: the block is free or in
\* use now.
LEMMA BlocksLeft ==
  ASSUME BlockInv, CleanupInv, NEW t \in Tasks, Others(t),
         pc[t].at \in Opening \cup Closing, pc'[t].at = "user", ~pc'[t].cleanup,
         \A p \in OpnCBs \ {pc[t].o} : opn'[p] = opn[p],
         \/ opn'[pc[t].o].omode = {} /\ opn'[pc[t].o].resid = 0
         \/ /\ opn'[pc[t].o].omode = opn[pc[t].o].omode
            /\ opn'[pc[t].o].resid \in Nat \ {0} /\ opn'[pc[t].o].resid = opn'[pc[t].o].grp
  PROVE  BlockInv' /\ CleanupInv' /\ openq' \subseteq openq
<1> DEFINE o == pc[t].o
<1>1. o \in openq /\ openq \subseteq OpnCBs
  BY DEF BlockInv, openq
<1>2. openq' \subseteq openq /\ openq \subseteq openq' \cup {o}
  BY <1>1 DEF openq
<1>3. \A u \in Tasks \ {t} : /\ pc'[u] = pc[u]
                             /\ pc[u].at \in Opening \cup Closing =>
                                  pc[u].o \in openq' /\ pc[u].o # o /\ opn'[pc[u].o] = opn[pc[u].o]
  BY <1>1, <1>2 DEF Others, BlockInv, Has
<1>4. pc'[t].at \notin Opening \cup Closing
  BY DEF Opening, Closing, Aborting, Aborted
<1>5. \A u \in Tasks : \A p \in OpnCBs : Has(u, p)' <=> (u # t /\ Has(u, p))
  BY <1>3, <1>4 DEF Has
<1>6. \A u \in Tasks : pc'[u].at \in Opening =>
        pc'[u].o \in openq' /\ opn'[pc'[u].o].resid = 0 /\ opn'[pc'[u].o].grp = resid[u]
  BY <1>3, <1>4 DEF BlockInv
<1>7. \A u \in Tasks : pc'[u].at \in Closing =>
        /\ pc'[u].o \in openq' /\ opn'[pc'[u].o].resid = -1
        /\ pc'[u].cleanup \/ opn'[pc'[u].o].grp = resid[u]
  BY <1>3, <1>4 DEF BlockInv
<1>8. \A u, v \in Tasks : \A p \in OpnCBs : Has(u, p)' /\ Has(v, p)' => u = v
  BY <1>5 DEF BlockInv
<1>9. ASSUME NEW p \in openq'
      PROVE  \/ opn'[p].resid \in Nat \ {0} /\ opn'[p].resid = opn'[p].grp
             \/ opn'[p].resid \in {0, -1} /\ \E u \in Tasks : Has(u, p)'
  <2>1. CASE p = o
    BY <1>9, <2>1 DEF openq
  <2>2. CASE p # o
    <3>1. p \in openq /\ p \in OpnCBs /\ opn'[p] = opn[p]
      BY <1>1, <1>2, <2>2
    <3>2. ~Has(t, p)
      BY <2>2 DEF Has
    <3> QED BY <1>5, <3>1, <3>2 DEF BlockInv
  <2> QED BY <2>1, <2>2
<1>10. \A p \in OpnCBs \ openq' : opn'[p].resid = 0
  BY <1>1, <1>2 DEF BlockInv, openq
<1>11. \A u \in Tasks : pc'[u].cleanup => u # t /\ pc'[u].at \in Closing /\ pc[u].cleanup
  BY <1>3 DEF CleanupInv
<1>12. \A u, v \in Tasks :
         pc'[u].cleanup /\ v # u /\ resid[v] = opn'[pc'[u].o].grp => pc'[v].at = "user"
  BY <1>3, <1>11 DEF CleanupInv, At
<1>13. \A u, v \in Tasks :
         pc'[u].cleanup /\ pc'[v].cleanup /\ opn'[pc'[u].o].grp = opn'[pc'[v].o].grp => u = v
  BY <1>3, <1>11 DEF CleanupInv
<1>14. BlockInv'
  BY <1>6, <1>7, <1>8, <1>9, <1>10 DEF BlockInv
<1>15. CleanupInv'
  BY <1>11, <1>12, <1>13 DEF CleanupInv, At
<1> QED BY <1>2, <1>14, <1>15

\* A task at work gets to where the driver is called or goes on waiting.
LEMMA OpenSyncedStep ==
  ASSUME DevInv, NEW t \in Tasks, open_synced(t)
  PROVE  DevInv'
<1> USE DEF Places, Opening, Closing, Aborting, Aborted, Emptied, Working, Queueing, Driving
<1>1. /\ UNCHANGED <<ddev, syncq, opn, req, dabort, drv>> /\ pc[t].at = "open_wait"
      /\ t \in disabled /\ disabled' = disabled \ {t}
  BY DEF open_synced, SyncWaitDM, At, blocks
<1>2. pc' \in [Tasks -> PC] /\ Others(t) /\ Moves(t, "open")
  BY GotoEffect DEF open_synced, DevInv, DevTypes
<1>3. DevTypes' /\ openq' = openq
  BY <1>1, <1>2 DEF DevInv, DevTypes, openq
<1>4. SyncInv'
  BY <1>1, <1>2, SyncedSync DEF DevInv, Moves
<1>5. BlockInv' /\ CleanupInv'
  BY <1>1, <1>2, BlocksKept DEF DevInv, CleanupInv, Moves
<1>6. QueueInv' /\ TaskInv' /\ AnyInv'
  BY <1>1, <1>2, <1>3, RequestsKept DEF DevInv, QueueInv, Moves
<1>7. AbortInv'
  BY <1>1, <1>2, AbortKept DEF DevInv, Moves
<1>8. OpenInv'
  BY <1>1, <1>2, OpenKept DEF DevInv, Moves
<1> QED BY <1>3, <1>4, <1>5, <1>6, <1>7, <1>8 DEF DevInv

\* openfn is called unless another open of the unit is complete.
LEMMA OpenfnStep ==
  ASSUME DevInv, NEW t \in Tasks, open_sections(t), ~(chkopen(pc[t].o) /\ ~ddev)
  PROVE  DevInv'
<1> USE DEF Places, Opening, Closing, Aborting, Aborted, Emptied, Working, Queueing, Driving
<1>1. /\ UNCHANGED <<ddev, syncq, opn, req, disabled, dabort, drv>> /\ pc[t].at = "open"
      /\ Goto(t, "openfn")
  BY DEF open_sections, At
<1>2. pc' \in [Tasks -> PC] /\ Others(t) /\ Moves(t, "openfn")
  BY <1>1, GotoEffect DEF DevInv, DevTypes
<1>3. DevTypes' /\ openq' = openq
  BY <1>1, <1>2 DEF DevInv, DevTypes, openq
<1>4. SyncInv'
  BY <1>1, <1>2, SyncKept DEF DevInv, SyncInv, Moves
<1>5. BlockInv' /\ CleanupInv'
  BY <1>1, <1>2, BlocksKept DEF DevInv, CleanupInv, Moves
<1>6. QueueInv' /\ TaskInv' /\ AnyInv'
  BY <1>1, <1>2, <1>3, RequestsKept DEF DevInv, QueueInv, Moves
<1>7. AbortInv'
  BY <1>1, <1>2, AbortKept DEF DevInv, Moves
<1>8. OpenInv'
  <2>1. /\ \A o : Counts(o)' <=> Counts(o)
        /\ \A u \in Tasks \ {t} : pc'[u].at \notin {"openfn", "closefn"}
    BY <1>1, <1>2, CountsWorking DEF DevInv, Moves
  <2>2. \A u \in Units : Complete(u)' = Complete(u)
    BY <1>1, <1>3, <2>1 DEF Complete
  <2>3. ~ddev' => ~chkopen(pc[t].o)'
    BY <1>1, <1>2, <1>3 DEF chkopen, Moves
  <2>4. /\ (\A u \in Tasks : At(u, "openfn") /\ ~ddev => ~chkopen(pc[u].o))'
        /\ (\A u \in Tasks : At(u, "closefn") /\ ~ddev => ~chkopen(pc[u].o))'
    BY <1>2, <2>1, <2>3 DEF At, Moves
  <2> QED BY <1>1, <1>3, <2>2, <2>4 DEF DevInv, OpenInv
<1> QED BY <1>3, <1>4, <1>5, <1>6, <1>7, <1>8 DEF DevInv

\* An open is complete: the driver has seen it, or another one of the unit.
LEMMA OpenComplete ==
  ASSUME DevInv, NEW t \in Tasks, pc[t].at \in {"open", "openfn"},
         opn' = [opn EXCEPT ![pc[t].o].resid = resid[t]],
         leaveSyncWait(t, TRUE), Return(t), UNCHANGED <<ddev, req, dabort>>,
         NEW called \in BOOLEAN, pc[t].at = "open" <=> ~called,
         ~called => chkopen(pc[t].o) /\ ~ddev,
         drv' = IF called THEN [drv EXCEPT ![opn[pc[t].o].unitno] = @ + 1] ELSE drv
  PROVE  DevInv'
<1> USE DEF Opening, Closing, Aborting, Aborted, Emptied, Working, Queueing, Driving
<1> DEFINE o == pc[t].o
<1>1. /\ pc' \in [Tasks -> PC] /\ Others(t) /\ pc'[t].at = "user" /\ ~pc'[t].cleanup
      /\ opn \in [OpnCBs -> OPN]
  BY ReturnEffect DEF DevInv, DevTypes
<1>2. /\ o \in openq /\ o \in OpnCBs /\ opn[o].resid = 0 /\ opn[o].grp = resid[t]
      /\ resid[t] \in Nat \ {0} /\ Of(o) = {} /\ opn[o].omode # {}
  BY DeviceAssumption DEF DevInv, BlockInv, QueueInv, openq
<1>3. /\ \A p \in OpnCBs \ {o} : opn'[p] = opn[p]
      /\ opn' \in [OpnCBs -> OPN]
      /\ opn'[o] = [opn[o] EXCEPT !.resid = resid[t]]
  <2>1. resid[t] \in Int
    BY <1>2
  <2>2. [opn[o] EXCEPT !.resid = resid[t]] \in OPN
    BY <1>1, <1>2, <2>1, ResidField
  <2> QED BY <1>1, <1>2, <2>2
<1>4. /\ opn'[o].resid = resid[t] /\ opn'[o].grp = opn[o].grp /\ opn'[o].omode = opn[o].omode
      /\ opn'[o].unitno = opn[o].unitno /\ opn'[o].requestq = opn[o].requestq
      /\ opn'[o].nwaireq = opn[o].nwaireq /\ opn'[o].abort_tskid = opn[o].abort_tskid
      /\ opn'[o].abort_cnt = opn[o].abort_cnt
  <2>1. opn[o] \in OPN /\ resid[t] \in Int
    BY <1>1, <1>2
  <2> QED BY <1>3, <2>1, ResidField
<1>5. openq' = openq /\ openq \subseteq OpnCBs
  BY <1>2, <1>3, <1>4 DEF openq
<1>6. DevTypes'
  BY <1>1, <1>3 DEF DevInv, DevTypes
<1>7. SyncInv' /\ \A u \in Tasks : At(u, "abort_wait") => (u \in disabled' <=> u \in disabled)
  BY <1>1, LeaveSync DEF DevInv
<1>8. BlockInv' /\ CleanupInv'
  BY <1>1, <1>2, <1>3, <1>4, BlocksLeft DEF DevInv
<1>9. QueueInv' /\ TaskInv' /\ AnyInv'
  <2>1. \A p \in OpnCBs : p \notin openq' \/ opn'[p].resid = 0 => Of(p) = {}
    BY <1>2, <1>3, <1>4, <1>5 DEF DevInv, QueueInv
  <2> QED BY <1>1, <1>3, <1>4, <2>1, RequestsKept DEF DevInv
<1>10. AbortInv'
  <2>1. dabort' = dabort /\ req' = req
    OBVIOUS
  <2> QED BY <1>1, <1>3, <1>4, <1>7, <2>1, AbortKept DEF DevInv
<1>11. OpenInv'
  <2>1. /\ \A p : Counts(p) <=> opn[p].resid # 0
        /\ \A p : Counts(p)' <=> opn'[p].resid # 0
        /\ \A u \in Tasks : pc'[u].at \notin {"openfn", "closefn"}
    BY <1>1, CountsWorking DEF DevInv
  <2>0. PICK n \in Units : n = opn[o].unitno
    BY <1>2 DEF DevInv, OpenInv
  <2>2. /\ ddev \in BOOLEAN /\ IsFiniteSet(openq) /\ drv \in [Units -> Int]
        /\ \A u \in Units :
             drv[u] = IF Complete(u) = {} THEN 0 ELSE IF ddev THEN Cardinality(Complete(u)) ELSE 1
    BY <1>2 DEF DevInv, DevTypes, OpenInv
  <2>3. ASSUME NEW u \in Units \ {n} PROVE Complete(u)' = Complete(u)
    BY <1>3, <1>4, <1>5, <2>0, <2>1 DEF Complete
  <2>4. Complete(n)' = Complete(n) \cup {o} /\ o \notin Complete(n)
    BY <1>2, <1>3, <1>4, <1>5, <2>0, <2>1 DEF Complete
  <2>5. drv' \in [Units -> Int] /\ \A u \in Units : drv'[u] = IF called /\ u = n THEN drv[u] + 1 ELSE drv[u]
    BY <2>0, <2>2
  <2>6. IsFiniteSet(Complete(n))
    BY <2>2, FS_Subset DEF Complete
  <2>7. /\ Cardinality(Complete(n)) \in Nat /\ Cardinality(Complete(n)') = Cardinality(Complete(n)) + 1
        /\ Cardinality({}) = 0
    BY <2>4, <2>6, FS_AddElement, FS_CardinalityType, FS_EmptySet
  <2>8. ~ddev => (Complete(n) # {} <=> ~called)
    <3>1. chkopen(o) <=> Complete(n) # {}
      BY <1>2, <2>0, <2>1 DEF chkopen, Complete
    <3>2. called /\ ~ddev => ~chkopen(o)
      BY DEF DevInv, OpenInv, At
    <3> QED BY <3>1, <3>2
  <2>9. drv'[n] = IF Complete(n)' = {} THEN 0 ELSE IF ddev THEN Cardinality(Complete(n)') ELSE 1
    <3>1. CASE ddev
      <4>1. called
        BY <3>1
      <4>2. drv[n] = Cardinality(Complete(n))
        BY <2>2, <2>7, <3>1
      <4> QED BY <2>2, <2>4, <2>5, <2>7, <3>1, <4>1, <4>2
    <3>2. CASE ~ddev
      BY <2>2, <2>4, <2>5, <2>8, <3>2
    <3> QED BY <3>1, <3>2
  <2>10. \A u \in Units :
           drv'[u] = IF Complete(u)' = {} THEN 0 ELSE IF ddev' THEN Cardinality(Complete(u)') ELSE 1
    <3>1. ddev' = ddev
      OBVIOUS
    <3>2. ASSUME NEW u \in Units \ {n}
          PROVE  drv'[u] = IF Complete(u)' = {} THEN 0 ELSE IF ddev THEN Cardinality(Complete(u)') ELSE 1
      BY <2>2, <2>3, <2>5, <3>2
    <3> QED BY <2>9, <3>1, <3>2
  <2>11. \A p \in openq' : opn'[p].unitno \in Units
    BY <1>3, <1>4, <1>5 DEF DevInv, OpenInv
  <2>12. ddev' # NULL
    BY <1>2 DEF DevInv, OpenInv
  <2> QED BY <1>5, <2>1, <2>2, <2>5, <2>10, <2>11, <2>12 DEF OpenInv, At
<1> QED BY <1>6, <1>7, <1>8, <1>9, <1>10, <1>11 DEF DevInv

\* The rest of tk_opn_dev.
LEMMA OpenSectionsStep ==
  ASSUME DevInv, NEW t \in Tasks, open_sections(t)
  PROVE  DevInv'
<1>1. CASE ~(chkopen(pc[t].o) /\ ~ddev)
  BY <1>1, OpenfnStep
<1>2. CASE chkopen(pc[t].o) /\ ~ddev
  <2>1. /\ pc[t].at = "open" /\ UNCHANGED <<ddev, req, dabort, drv>>
        /\ opn' = [opn EXCEPT ![pc[t].o].resid = resid[t]]
        /\ leaveSyncWait(t, TRUE) /\ Return(t)
    BY <1>2 DEF open_sections, At
  <2> QED BY <1>2, <2>1, OpenComplete
<1> QED BY <1>1, <1>2

\* openfn fails: the block is free again.
LEMMA OpenFailsStep ==
  ASSUME DevInv, NEW t \in Tasks, openfn_returns(t, FALSE)
  PROVE  DevInv'
<1> USE DEF Opening, Closing, Aborting, Aborted, Emptied, Working, Queueing, Driving
<1> DEFINE o == pc[t].o
<1>1. /\ pc' \in [Tasks -> PC] /\ Others(t) /\ pc'[t].at = "user" /\ ~pc'[t].cleanup
      /\ opn \in [OpnCBs -> OPN] /\ pc[t].at = "openfn" /\ leaveSyncWait(t, TRUE)
      /\ UNCHANGED <<ddev, req, dabort>>
  BY ReturnEffect DEF DevInv, DevTypes, openfn_returns, At, locks
<1>2. /\ o \in openq /\ o \in OpnCBs /\ opn[o].resid = 0 /\ opn[o].grp = resid[t] /\ Of(o) = {}
  BY <1>1 DEF DevInv, BlockInv, QueueInv, openq
<1>3. /\ \A p \in OpnCBs \ {o} : opn'[p] = opn[p]
      /\ opn' \in [OpnCBs -> OPN]
      /\ opn'[o] = FreeOpn
  <2>1. FreeOpn \in OPN
    BY DEF FreeOpn, OPN
  <2> QED BY <1>1, <1>2, <2>1 DEF openfn_returns
<1>4. /\ opn'[o].resid = 0 /\ opn'[o].omode = {}
      /\ opn'[o].requestq = << >> /\ opn'[o].nwaireq = 0 /\ opn'[o].abort_tskid = NULL
  BY <1>3 DEF FreeOpn
<1>5. opn[o].abort_tskid = NULL
  BY <1>1, <1>2 DEF DevInv, AbortInv, BlockInv, Has
<1>6. DevTypes'
  BY <1>1, <1>3 DEF DevInv, DevTypes
<1>7. SyncInv' /\ \A u \in Tasks : At(u, "abort_wait") => (u \in disabled' <=> u \in disabled)
  BY <1>1, LeaveSync DEF DevInv
<1>8. BlockInv' /\ CleanupInv' /\ openq' \subseteq openq
  BY <1>1, <1>2, <1>3, <1>4, BlocksLeft DEF DevInv
<1>9. openq' = openq \ {o}
  BY <1>3, <1>4, <1>8 DEF openq
<1>10. QueueInv' /\ TaskInv' /\ AnyInv'
  <2>1. \A p \in OpnCBs : p \notin openq' \/ opn'[p].resid = 0 => Of(p) = {}
    BY <1>2, <1>3, <1>9 DEF DevInv, QueueInv
  <2> QED BY <1>1, <1>2, <1>3, <1>4, <2>1, RequestsKept DEF DevInv
<1>11. AbortInv'
  BY <1>1, <1>3, <1>4, <1>5, <1>7, AbortKept DEF DevInv
<1>12. OpenInv'
  <2>1. /\ \A p : Counts(p) <=> opn[p].resid # 0
        /\ \A p : Counts(p)' <=> opn'[p].resid # 0
        /\ \A u \in Tasks : pc'[u].at \notin {"openfn", "closefn"}
    BY <1>1, CountsWorking DEF DevInv
  <2>2. \A u \in Units : Complete(u)' = Complete(u)
    BY <1>2, <1>3, <1>9, <2>1 DEF Complete, openq
  <2>3. drv' = drv
    BY DEF openfn_returns, DevInv, OpenInv
  <2>4. IsFiniteSet(openq') /\ \A p \in openq' : opn'[p].unitno \in Units
    BY <1>3, <1>9, FS_Subset DEF DevInv, OpenInv, openq
  <2> QED BY <1>1, <1>2, <2>1, <2>2, <2>3, <2>4 DEF DevInv, OpenInv, At
<1> QED BY <1>6, <1>7, <1>8, <1>10, <1>11, <1>12 DEF DevInv

\* openfn returns.
LEMMA OpenfnReturnsStep ==
  ASSUME DevInv, NEW t \in Tasks, NEW ok \in BOOLEAN, openfn_returns(t, ok)
  PROVE  DevInv'
<1>1. CASE ~ok
  BY <1>1, OpenFailsStep
<1>2. CASE ok
  <2>1. /\ pc[t].at = "openfn" /\ UNCHANGED <<ddev, req, dabort>>
        /\ opn' = [opn EXCEPT ![pc[t].o].resid = resid[t]]
        /\ drv' = [drv EXCEPT ![opn[pc[t].o].unitno] = @ + 1]
        /\ leaveSyncWait(t, TRUE) /\ Return(t)
    BY <1>2 DEF openfn_returns, At, locks
  <2> QED BY <2>1, OpenComplete
<1> QED BY <1>1, <1>2

---------------------------------------------------------------------------
(* Closing: the block is taken out of use. *)

\* A block whose group has ended but for one task is in use, unless that
\* task opens or closes it.
LEMMA BlockInUse ==
  ASSUME BlockInv, NEW t \in Tasks, NEW o \in openq, ~Has(t, o),
         \A u \in Tasks \ {t} : resid[u] = opn[o].grp => pc[u].at = "user",
         \A u \in Tasks \ {t} : pc[u].cleanup => opn[pc[u].o].grp # opn[o].grp
  PROVE  opn[o].resid \in Nat \ {0} /\ opn[o].resid = opn[o].grp
<1>1. SUFFICES ASSUME ~(opn[o].resid \in Nat \ {0} /\ opn[o].resid = opn[o].grp) PROVE FALSE
  OBVIOUS
<1>2. PICK u \in Tasks : Has(u, o)
  BY <1>1 DEF BlockInv
<1>3. u # t /\ pc[u].o = o /\ pc[u].at \in Opening \cup Closing
  BY <1>2 DEF Has
<1>4. opn[o].grp = resid[u] \/ pc[u].cleanup
  BY <1>3 DEF BlockInv
<1>5. pc[u].at # "user"
  BY <1>3 DEF Opening, Closing, Aborting, Aborted
<1> QED BY <1>3, <1>4, <1>5

\* A task outside of opens and closes begins to close a block in use.
LEMMA BlocksTaken ==
  ASSUME BlockInv, CleanupInv, NEW t \in Tasks, Others(t), pc[t].at = "user",
         ~Cleaned(resid[t]), NEW o \in openq, opn[o].resid \in Nat \ {0},
         \A p \in OpnCBs \ {o} : opn'[p] = opn[p],
         opn'[o].omode = opn[o].omode, opn'[o].grp = opn[o].grp, opn'[o].resid = -1,
         pc'[t].at = "abort", pc'[t].o = o,
         ~pc'[t].cleanup => opn[o].grp = resid[t],
         pc'[t].cleanup => /\ \A u \in Tasks \ {t} : resid[u] = opn[o].grp => pc[u].at = "user"
                           /\ ~Cleaned(opn[o].grp)
  PROVE  BlockInv' /\ CleanupInv' /\ openq' = openq
<1> USE DEF Opening, Closing, Aborting, Aborted
<1>1. o \in OpnCBs /\ openq \subseteq OpnCBs
  BY DEF openq
<1>2. openq' = openq
  BY DEF openq
<1>3. \A u \in Tasks : ~Has(u, o)
  BY <1>1 DEF Has, BlockInv
<1>4. \A u \in Tasks \ {t} : /\ pc'[u] = pc[u]
                             /\ pc[u].at \in Opening \cup Closing =>
                                  pc[u].o \in openq /\ pc[u].o # o /\ opn'[pc[u].o] = opn[pc[u].o]
  BY <1>1, <1>3 DEF Others, BlockInv, Has
<1>5. \A u \in Tasks : \A p \in OpnCBs : Has(u, p)' <=> IF u = t THEN p = o ELSE Has(u, p)
  BY <1>4 DEF Has
<1>6. \A u \in Tasks : pc'[u].at \in Opening =>
        pc'[u].o \in openq' /\ opn'[pc'[u].o].resid = 0 /\ opn'[pc'[u].o].grp = resid[u]
  BY <1>2, <1>4 DEF BlockInv
<1>7. \A u \in Tasks : pc'[u].at \in Closing =>
        /\ pc'[u].o \in openq' /\ opn'[pc'[u].o].resid = -1
        /\ pc'[u].cleanup \/ opn'[pc'[u].o].grp = resid[u]
  BY <1>1, <1>2, <1>4 DEF BlockInv
<1>8. \A u, v \in Tasks : \A p \in OpnCBs : Has(u, p)' /\ Has(v, p)' => u = v
  BY <1>3, <1>5 DEF BlockInv
<1>9. ASSUME NEW p \in openq'
      PROVE  \/ opn'[p].resid \in Nat \ {0} /\ opn'[p].resid = opn'[p].grp
             \/ opn'[p].resid \in {0, -1} /\ \E u \in Tasks : Has(u, p)'
  <2>1. CASE p = o
    BY <1>1, <1>5, <2>1
  <2>2. CASE p # o
    <3>1. p \in openq /\ p \in OpnCBs /\ opn'[p] = opn[p]
      BY <1>1, <1>2, <2>2
    <3>2. ~Has(t, p)
      BY DEF Has
    <3> QED BY <1>5, <3>1, <3>2 DEF BlockInv
  <2> QED BY <2>1, <2>2
<1>10. \A p \in OpnCBs \ openq' : opn'[p].resid = 0
  BY <1>1, <1>2 DEF BlockInv, openq
<1>11. /\ \A u \in Tasks : pc'[u].cleanup => pc'[u].at \in Closing
       /\ \A u \in Tasks \ {t} : pc'[u].cleanup <=> pc[u].cleanup
       /\ ~pc[t].cleanup
  BY <1>4 DEF CleanupInv
<1>12. \A u \in Tasks : pc'[u].cleanup => opn'[pc'[u].o].grp = IF u = t THEN opn[o].grp ELSE opn[pc[u].o].grp
  BY <1>1, <1>4, <1>11
<1>13. ASSUME NEW u \in Tasks, NEW v \in Tasks,
              pc'[u].cleanup, v # u, resid[v] = opn'[pc'[u].o].grp
       PROVE  pc'[v].at = "user"
  <2>1. CASE u = t
    BY <1>4, <1>12, <1>13, <2>1
  <2>2. CASE u # t
    <3>1. pc[u].cleanup /\ resid[v] = opn[pc[u].o].grp
      BY <1>11, <1>12, <1>13, <2>2
    <3>2. v # t
      BY <3>1 DEF Cleaned
    <3> QED BY <1>4, <1>13, <3>1, <3>2 DEF CleanupInv, At
  <2> QED BY <2>1, <2>2
<1>14. ASSUME NEW u \in Tasks, NEW v \in Tasks,
              pc'[u].cleanup, pc'[v].cleanup, opn'[pc'[u].o].grp = opn'[pc'[v].o].grp
       PROVE  u = v
  BY <1>11, <1>12, <1>14 DEF CleanupInv, Cleaned
<1>15. BlockInv'
  BY <1>6, <1>7, <1>8, <1>9, <1>10 DEF BlockInv
<1>16. CleanupInv'
  BY <1>11, <1>13, <1>14 DEF CleanupInv, At
<1> QED BY <1>2, <1>15, <1>16

\* A task begins to close a block: tk_cls_dev or devmgr_cleanup.
LEMMA TakesBlock ==
  ASSUME DevInv, NEW t \in Tasks, pc[t].at = "user", ~Cleaned(resid[t]),
         NEW o \in openq, opn[o].resid \in Nat \ {0}, NEW b \in BOOLEAN,
         opn' = [opn EXCEPT ![o].resid = -1],
         pc' \in [Tasks -> PC], Others(t), pc'[t].at = "abort", pc'[t].o = o, pc'[t].cleanup = b,
         UNCHANGED <<ddev, syncq, req, disabled, dabort, drv>>,
         ~b => opn[o].grp = resid[t],
         b => /\ \A u \in Tasks \ {t} : resid[u] = opn[o].grp => pc[u].at = "user"
              /\ ~Cleaned(opn[o].grp)
  PROVE  DevInv'
<1> USE DEF Opening, Closing, Aborting, Aborted, Emptied, Working, Queueing, Driving
<1>1. /\ opn \in [OpnCBs -> OPN] /\ pc \in [Tasks -> PC] /\ o \in OpnCBs
      /\ UNCHANGED <<ddev, syncq, req, disabled, dabort, drv>>
  BY DEF DevInv, DevTypes, openq
<1>2. pc' \in [Tasks -> PC] /\ Others(t) /\ pc'[t].at = "abort" /\ pc'[t].o = o /\ pc'[t].cleanup = b
  OBVIOUS
<1>3. /\ \A p \in OpnCBs \ {o} : opn'[p] = opn[p]
      /\ opn' \in [OpnCBs -> OPN]
      /\ opn'[o] = [opn[o] EXCEPT !.resid = -1]
  <2>1. [opn[o] EXCEPT !.resid = -1] \in OPN
    BY <1>1, ResidField
  <2> QED BY <1>1, <2>1
<1>4. /\ opn'[o].resid = -1 /\ opn'[o].grp = opn[o].grp /\ opn'[o].omode = opn[o].omode
      /\ opn'[o].unitno = opn[o].unitno /\ opn'[o].requestq = opn[o].requestq
      /\ opn'[o].nwaireq = opn[o].nwaireq /\ opn'[o].abort_tskid = opn[o].abort_tskid
      /\ opn'[o].abort_cnt = opn[o].abort_cnt
  BY <1>1, <1>3, ResidField
<1>5. DevTypes'
  BY <1>1, <1>2, <1>3 DEF DevInv, DevTypes
<1>6. SyncInv'
  BY <1>1, <1>2, SyncKept DEF DevInv, SyncInv
<1>7. BlockInv' /\ CleanupInv' /\ openq' = openq
  <2>1. BlockInv /\ CleanupInv
    BY DEF DevInv
  <2> QED BY <1>1, <1>2, <1>3, <1>4, <2>1, BlocksTaken
<1>8. QueueInv' /\ TaskInv' /\ AnyInv'
  <2>1. \A p \in OpnCBs : p \notin openq' \/ opn'[p].resid = 0 => Of(p) = {}
    BY <1>3, <1>4, <1>7 DEF DevInv, QueueInv
  <2> QED BY <1>1, <1>2, <1>3, <1>4, <2>1, RequestsKept DEF DevInv
<1>9. AbortInv'
  BY <1>1, <1>2, <1>3, <1>4, AbortKept DEF DevInv
<1>10. OpenInv'
  <2>1. \A p \in OpnCBs : opn'[p].resid = 0 <=> opn[p].resid = 0
    BY <1>3, <1>4
  <2> QED BY <1>1, <1>2, <1>3, <1>4, <2>1, OpenKept DEF DevInv
<1> QED BY <1>5, <1>6, <1>7, <1>8, <1>9, <1>10 DEF DevInv

\* tk_cls_dev.
LEMMA ClsStep ==
  ASSUME DevInv, NEW t \in Tasks, NEW o \in OpnCBs, tk_cls_dev(t, o)
  PROVE  DevInv'
<1>1. /\ pc[t].at = "user" /\ ~Cleaned(resid[t]) /\ opn[o].resid = resid[t]
      /\ opn' = [opn EXCEPT ![o].resid = -1]
      /\ pc' = [pc EXCEPT ![t] = [Idle EXCEPT !.at = "abort", !.o = o]]
      /\ UNCHANGED <<ddev, syncq, req, disabled, dabort, drv>>
  BY DEF tk_cls_dev, Calling, At, check_devdesc, locks
<1>2. opn[o].resid \in Nat \ {0}
  BY <1>1, DeviceAssumption
<1>3. o \in openq /\ opn[o].grp = resid[t]
  BY <1>1, <1>2 DEF DevInv, BlockInv, openq
<1>4. /\ pc' \in [Tasks -> PC] /\ Others(t) /\ pc'[t].at = "abort" /\ pc'[t].o = o
      /\ pc'[t].cleanup = FALSE
  <2>1. [Idle EXCEPT !.at = "abort", !.o = o] \in PC
    BY ClosingTask
  <2> QED BY <1>1, <2>1 DEF DevInv, DevTypes, Others, Idle
<1> QED BY <1>1, <1>2, <1>3, <1>4, TakesBlock

\* devmgr_cleanup.
LEMMA CleanupStep ==
  ASSUME DevInv, NEW t \in Tasks, NEW g \in Groups, devmgr_cleanup(t, g)
  PROVE  DevInv'
<1>1. /\ pc[t].at = "user" /\ ~Cleaned(resid[t]) /\ ~Cleaned(g)
      /\ \A u \in Tasks : resid[u] = g => pc[u].at = "user"
      /\ UNCHANGED <<ddev, syncq, req, disabled, dabort, drv>>
  BY DEF devmgr_cleanup, Calling, At, locks
<1>2. CASE {o \in openq : opn[o].grp = g} = {}
  <2>1. UNCHANGED <<opn, pc>>
    BY <1>2 DEF devmgr_cleanup
  <2> QED BY <1>1, <2>1, OutsideStep DEF DevInv, DevTypes, CleanupInv, Outside, Others, Closing, Aborting, Aborted
<1>3. CASE {o \in openq : opn[o].grp = g} # {}
  <2>1. PICK o \in openq :
          /\ opn[o].grp = g
          /\ opn' = [opn EXCEPT ![o].resid = -1]
          /\ pc' = [pc EXCEPT ![t] = [Idle EXCEPT !.at = "abort", !.o = o, !.cleanup = TRUE]]
    BY <1>3 DEF devmgr_cleanup
  <2>2. ~Has(t, o)
    BY <1>1 DEF Has, Opening, Closing, Aborting, Aborted
  <2>3. opn[o].resid \in Nat \ {0} /\ opn[o].resid = opn[o].grp
    BY <1>1, <2>1, <2>2, BlockInUse DEF DevInv, Cleaned
  <2>4. /\ pc' \in [Tasks -> PC] /\ Others(t) /\ pc'[t].at = "abort" /\ pc'[t].o = o
        /\ pc'[t].cleanup = TRUE
    <3>1. [Idle EXCEPT !.at = "abort", !.o = o, !.cleanup = TRUE] \in PC
      BY ClosingTask DEF openq
    <3> QED BY <2>1, <3>1 DEF DevInv, DevTypes, Others, Idle
  <2> QED BY <1>1, <2>1, <2>3, <2>4, TakesBlock
<1> QED BY <1>2, <1>3

---------------------------------------------------------------------------
(* The abort of what is outstanding. *)

\* What is listed is finite.
LEMMA ListFinite ==
  ASSUME NEW q, NEW S, Lists(q, S)
  PROVE  IsFiniteSet(S)
<1>1. /\ q \in Seq(S) /\ Len(q) \in Nat /\ DOMAIN q = 1 .. Len(q)
      /\ \A i \in 1 .. Len(q) : q[i] \in S
      /\ \A x \in S : \E i \in 1 .. Len(q) : q[i] = x
  BY ListsPlaces
<1> DEFINE f == [i \in 1 .. Len(q) |-> q[i]]
<1>2. f \in Surjection(1 .. Len(q), S)
  BY <1>1 DEF Surjection
<1>3. IsFiniteSet(1 .. Len(q))
  BY <1>1, FS_Interval
<1> QED BY <1>2, <1>3, FS_Surjection

\* A task in the driver comes back once for each request it is there for,
\* or for any of them; call_abortfn counts these returns.
LEMMA ReturnsCounted ==
  ASSUME QueueInv, TaskInv, AnyInv, NEW o \in OpnCBs
  PROVE  /\ IsFiniteSet(Back(o)) /\ Cardinality(Back(o)) = abortfns(o)
         /\ \A v \in Back(o), r \in ReqCBs :
              pc[v].kind # "any" /\ r \in Range(pc[v].rs) => r \in aborted(o)
<1>1. Lists(opn[o].requestq, Of(o)) /\ ToSet(opn[o].requestq) = Of(o)
  BY DEF QueueInv, Lists, ToSet, Range
<1>2. InDriver(o) = {r \in Of(o) : req[r].tskid # NULL}
  BY <1>1 DEF InDriver
<1>3. IsFiniteSet(InDriver(o))
  <2>1. IsFiniteSet(Of(o))
    BY <1>1, ListFinite
  <2> QED BY <1>2, <2>1, FS_Subset
<1>4. \A v \in Back(o) : \E r \in ReqCBs : r \in Range(pc[v].rs) /\ r \in InDriver(o) /\ req[r].tskid = v
  BY <1>2, DeviceAssumption DEF Back, TaskInv, Of
<1>5. \A r \in InDriver(o) :
        req[r].tskid \in Back(o) /\ r \in Range(pc[req[r].tskid].rs)
  BY <1>2 DEF Back, TaskInv, Of
<1>6. \A v \in Back(o), r \in ReqCBs : r \in Range(pc[v].rs) => r \in InDriver(o)
  BY <1>2, DeviceAssumption DEF Back, TaskInv, Of
<1> DEFINE f == [r \in InDriver(o) |-> req[r].tskid]
<1>7. f \in Surjection(InDriver(o), Back(o))
  BY <1>4, <1>5 DEF Surjection
<1>8. IsFiniteSet(Back(o))
  BY <1>3, <1>7, FS_Surjection
<1>9. CASE opn[o].nwaireq > 0
  <2>1. PICK v \in Tasks : At(v, "waitfn") /\ pc[v].kind = "any" /\ pc[v].o = o
    BY <1>9 DEF AnyInv
  <2>2. Back(o) = {v}
    BY <2>1 DEF AnyInv
  <2> QED BY <1>8, <1>9, <2>1, <2>2, FS_Singleton DEF abortfns
<1>10. CASE ~(opn[o].nwaireq > 0)
  <2>1. \A v \in Back(o) : pc[v].kind # "any"
    BY <1>10 DEF AnyInv, Back, TaskInv, At
  <2>2. \A v \in Back(o) : \E r \in ReqCBs : Range(pc[v].rs) = {r}
    BY <2>1 DEF Back, TaskInv, Range
  <2>3. f \in Injection(InDriver(o), Back(o))
    <3>1. f \in [InDriver(o) -> Back(o)]
      BY <1>5
    <3>2. ASSUME NEW r \in InDriver(o), NEW s \in InDriver(o), f[r] = f[s] PROVE r = s
      BY <1>5, <2>2, <3>2
    <3> QED BY <3>1, <3>2 DEF Injection, IsInjective
  <2>4. Cardinality(Back(o)) = Cardinality(InDriver(o))
    BY <1>3, <1>7, <2>3, FS_Surjection
  <2> QED BY <1>6, <1>8, <1>10, <2>4 DEF abortfns, aborted
<1> QED BY <1>9, <1>10

\* A step of a task that goes on closing its block, and of the block only
\* the abort changes.
LEMMA ClosingKept ==
  ASSUME DevInv, NEW t \in Tasks, NEW x \in Closing, pc[t].at \in Closing,
         "closefn" \notin {x, pc[t].at},
         pc' \in [Tasks -> PC], Others(t), pc'[t].at = x,
         pc'[t].o = pc[t].o, pc'[t].cleanup = pc[t].cleanup,
         UNCHANGED <<ddev, drv>>, opn' \in [OpnCBs -> OPN], req' \in [ReqCBs -> REQ],
         \A o \in OpnCBs : /\ opn'[o].omode = opn[o].omode /\ opn'[o].resid = opn[o].resid
                           /\ opn'[o].grp = opn[o].grp /\ opn'[o].unitno = opn[o].unitno
                           /\ opn'[o].requestq = opn[o].requestq
                           /\ opn'[o].nwaireq = opn[o].nwaireq,
         \A r \in ReqCBs : req'[r].opncb = req[r].opncb /\ req'[r].tskid = req[r].tskid,
         x \in Emptied => Of(pc[t].o) = {}
  PROVE  DevTypes' /\ BlockInv' /\ CleanupInv' /\ QueueInv' /\ TaskInv' /\ AnyInv' /\ OpenInv'
<1>1. DevTypes' /\ openq' = openq
  BY DEF DevInv, DevTypes, openq
<1>2. pc[t].at \notin Opening /\ x \notin Opening
  BY DEF Opening, Closing, Aborting, Aborted
<1>3. {pc[t].at, x} \cap (Driving \cup {"started", "openfn", "user"}) = {}
  BY DEF Driving, Closing, Aborting, Aborted
<1>4. BlockInv' /\ CleanupInv'
  BY <1>2, <1>3, BlocksKept DEF DevInv
<1>5. QueueInv' /\ TaskInv' /\ AnyInv'
  <2>1. \A p \in OpnCBs : p \notin openq' \/ opn'[p].resid = 0 => Of(p) = {}
    BY <1>1 DEF DevInv, QueueInv
  <2> QED BY <1>3, <2>1, RequestsKept DEF DevInv
<1>6. OpenInv'
  BY <1>3, OpenKept DEF DevInv
<1> QED BY <1>1, <1>4, <1>5, <1>6

\* A block with the task that aborts and its count.
Counting(b, a, n) == [b EXCEPT !.abort_tskid = a, !.abort_cnt = n]

\* The fields an abort changes.
LEMMA AbortFields ==
  ASSUME opn \in [OpnCBs -> OPN], NEW o \in OpnCBs, NEW a \in Tasks \cup {NULL}, NEW n \in Int,
         opn' = [opn EXCEPT ![o] = Counting(opn[o], a, n)]
  PROVE  /\ \A p \in OpnCBs \ {o} : opn'[p] = opn[p]
         /\ opn' \in [OpnCBs -> OPN]
         /\ opn'[o].abort_tskid = a /\ opn'[o].abort_cnt = n
         /\ \A p \in OpnCBs : /\ opn'[p].omode = opn[p].omode /\ opn'[p].resid = opn[p].resid
                              /\ opn'[p].grp = opn[p].grp /\ opn'[p].unitno = opn[p].unitno
                              /\ opn'[p].requestq = opn[p].requestq
                              /\ opn'[p].nwaireq = opn[p].nwaireq
<1> DEFINE b == opn[o]
           c == Counting(b, a, n)
<1>1. b \in OPN
  OBVIOUS
<1>2. /\ c \in OPN /\ c.abort_tskid = a /\ c.abort_cnt = n
      /\ c.omode = b.omode /\ c.resid = b.resid /\ c.grp = b.grp /\ c.unitno = b.unitno
      /\ c.requestq = b.requestq /\ c.nwaireq = b.nwaireq
  <2> HIDE DEF b
  <2> QED BY <1>1 DEF OPN, Counting
<1>3. opn' = [opn EXCEPT ![o] = c]
  OBVIOUS
<1> HIDE DEF c
<1> QED BY <1>2, <1>3

\* The task of a block, where it is.
LEMMA ClosingBlock ==
  ASSUME DevInv, NEW t \in Tasks, pc[t].at \in Closing
  PROVE  /\ pc[t].o \in openq /\ pc[t].o \in OpnCBs /\ opn[pc[t].o] \in OPN
         /\ \A u \in Tasks : pc[u].at \in Closing /\ pc[u].o = pc[t].o => u = t
BY DEF DevInv, DevTypes, BlockInv, openq, Has

\* A step of a task that goes on closing its block, seen from the aborts.
LEMMA AbortStep ==
  ASSUME DevInv, NEW t \in Tasks, pc[t].at \in Closing, pc'[t].at \in Closing, Others(t),
         pc'[t].o = pc[t].o,
         \A p \in OpnCBs \ {pc[t].o} : opn'[p] = opn[p],
         \A r \in ReqCBs : /\ req'[r].opncb = req[r].opncb \/ req[r].opncb = pc[t].o
                           /\ req[r].abort /\ req[r].opncb # pc[t].o => req'[r].abort,
         \A u \in Tasks \ {t} : pc[u].at = "abort_wait" => (u \in disabled' <=> u \in disabled),
         dabort' # dabort => dabort \in {NULL, t},
         pc'[t].at = "abortfn" => dabort' = t,
         opn'[pc[t].o].abort_tskid = IF pc'[t].at \in Aborting THEN t ELSE NULL,
         pc'[t].at \in {"abort_test", "abort_wait"} =>
           /\ opn'[pc[t].o].abort_cnt = Cardinality(Back(pc[t].o))
           /\ \A v \in Back(pc[t].o), r \in ReqCBs :
                pc[v].kind # "any" /\ r \in Range(pc[v].rs) => req'[r].abort,
         pc'[t].at = "abort_wait" => (t \in disabled' <=> opn'[pc[t].o].abort_cnt = 0),
         pc'[t].at \in Aborted => Back(pc[t].o) = {},
         pc'[t].at = "abort_waitfn" =>
           \E r \in ReqCBs : req'[r].opncb = pc[t].o /\ pc'[t].rs = <<r>>
  PROVE  AbortInv'
<1> DEFINE o == pc[t].o
<1>1. /\ \A p : Back(p)' = Back(p)
      /\ \A v \in Tasks : pc[v].at \in Driving => pc'[v] = pc[v]
      /\ Aborting \subseteq Closing /\ "abort_waitfn" \in Closing
  BY DEF Back, Others, Driving, Closing, Aborting, Aborted
<1>2. o \in OpnCBs /\ \A u \in Tasks : pc[u].at \in Closing /\ pc[u].o = pc[t].o => u = t
  BY ClosingBlock
<1>3. \A u \in Tasks \ {t} : /\ pc'[u] = pc[u]
                             /\ pc[u].at \in Closing => pc[u].o \in OpnCBs \ {o}
  BY <1>2, ClosingBlock DEF Others
<1>4. AbortInv
  BY DEF DevInv
<1>5. ASSUME NEW p \in OpnCBs, opn'[p].abort_tskid # NULL
      PROVE  /\ opn'[p].abort_tskid \in Tasks
             /\ pc'[opn'[p].abort_tskid].at \in Aborting
             /\ pc'[opn'[p].abort_tskid].o = p
  <2>1. CASE p = o
    BY <1>5, <2>1
  <2>2. CASE p # o
    <3>1. /\ opn[p].abort_tskid \in Tasks /\ opn'[p] = opn[p]
          /\ pc[opn[p].abort_tskid].at \in Aborting /\ pc[opn[p].abort_tskid].o = p
      BY <1>4, <1>5, <2>2 DEF AbortInv
    <3> QED BY <1>3, <2>2, <3>1
  <2> QED BY <2>1, <2>2
<1>6. (\A u \in Tasks : At(u, "abortfn") => dabort = u)'
  BY <1>3, <1>4, DeviceAssumption DEF At, AbortInv
<1>7. (\A u \in Tasks : pc[u].at \in Aborting => opn[pc[u].o].abort_tskid = u)'
  BY <1>1, <1>3, <1>4 DEF AbortInv
<1>8. ASSUME NEW u \in Tasks, pc'[u].at \in {"abort_test", "abort_wait"}
      PROVE  /\ opn'[pc'[u].o].abort_cnt = Cardinality(Back(pc'[u].o))
             /\ \A v \in Back(pc'[u].o), r \in ReqCBs :
                  pc'[v].kind # "any" /\ r \in Range(pc'[v].rs) => req'[r].abort
             /\ pc'[u].at = "abort_wait" => (u \in disabled' <=> opn'[pc'[u].o].abort_cnt = 0)
  <2>1. \A p : \A v \in Back(p) : pc'[v] = pc[v]
    BY <1>1 DEF Back
  <2>2. CASE u = t
    BY <1>8, <2>1, <2>2
  <2>3. CASE u # t
    <3>1. pc'[u] = pc[u] /\ pc[u].o \in OpnCBs \ {o} /\ opn'[pc[u].o] = opn[pc[u].o]
      BY <1>1, <1>3, <1>8, <2>3 DEF Aborting
    <3>2. /\ opn[pc[u].o].abort_cnt = Cardinality(Back(pc[u].o))
          /\ \A v \in Back(pc[u].o), r \in ReqCBs :
               pc[v].kind # "any" /\ r \in Range(pc[v].rs) => req[r].abort
          /\ pc[u].at = "abort_wait" => (u \in disabled <=> opn[pc[u].o].abort_cnt = 0)
      BY <1>4, <1>8, <3>1 DEF AbortInv, At
    <3>3. \A v \in Back(pc[u].o), r \in ReqCBs : r \in Range(pc[v].rs) => req[r].opncb # o
      BY <3>1 DEF DevInv, TaskInv, Back
    <3> QED BY <1>8, <2>1, <2>3, <3>1, <3>2, <3>3
  <2> QED BY <2>2, <2>3
<1>9. (\A u \in Tasks : pc[u].at \in {"abort_test", "abort_wait"} =>
         /\ opn[pc[u].o].abort_cnt = Cardinality(Back(pc[u].o))
         /\ \A v \in Back(pc[u].o), r \in ReqCBs :
              pc[v].kind # "any" /\ r \in Range(pc[v].rs) => req[r].abort)'
  BY <1>1, <1>8
<1>10. (\A u \in Tasks : At(u, "abort_wait") => (u \in disabled <=> opn[pc[u].o].abort_cnt = 0))'
  BY <1>8 DEF At
<1>11. (\A u \in Tasks : pc[u].at \in Aborted => Back(pc[u].o) = {})'
  <2>1. \A u \in Tasks : pc'[u].at \in Aborted => Back(pc'[u].o) = {}
    BY <1>3, <1>4 DEF AbortInv
  <2> QED BY <1>1, <2>1
<1>12. (\A u \in Tasks : At(u, "abort_waitfn") =>
          \E r \in ReqCBs : r \in Of(pc[u].o) /\ pc[u].rs = <<r>>)'
  BY <1>1, <1>3, <1>4 DEF AbortInv, At, Of
<1> QED BY <1>5, <1>6, <1>7, <1>9, <1>10, <1>11, <1>12 DEF AbortInv

\* LockDAbort is taken.
LEMMA AbortBeginsStep ==
  ASSUME DevInv, NEW t \in Tasks, abort_begins(t)
  PROVE  DevInv'
<1> USE DEF Closing, Aborting
<1>0. PICK o \in OpnCBs : o = pc[t].o
  BY ClosingBlock DEF abort_begins, At
<1>1. /\ pc[t].at = "abort" /\ dabort = NULL /\ dabort' = t
      /\ UNCHANGED <<ddev, syncq, req, disabled, drv>>
      /\ opn' = [opn EXCEPT ![o] = Counting(opn[o], t, 0)]
  BY <1>0 DEF abort_begins, At, Counting
<1>2. pc' \in [Tasks -> PC] /\ Others(t) /\ Moves(t, "abortfn")
  BY GotoEffect DEF abort_begins, DevInv, DevTypes, Places
<1>3. opn \in [OpnCBs -> OPN] /\ req \in [ReqCBs -> REQ]
  BY DEF DevInv, DevTypes
<1>4. /\ \A p \in OpnCBs \ {o} : opn'[p] = opn[p]
      /\ opn' \in [OpnCBs -> OPN]
      /\ opn'[o].abort_tskid = t /\ opn'[o].abort_cnt = 0
      /\ \A p \in OpnCBs : /\ opn'[p].omode = opn[p].omode /\ opn'[p].resid = opn[p].resid
                           /\ opn'[p].grp = opn[p].grp /\ opn'[p].unitno = opn[p].unitno
                           /\ opn'[p].requestq = opn[p].requestq
                           /\ opn'[p].nwaireq = opn[p].nwaireq
  <2>1. t \in Tasks \cup {NULL} /\ 0 \in Int /\ o \in OpnCBs
    OBVIOUS
  <2>2. opn \in [OpnCBs -> OPN] /\ opn' = [opn EXCEPT ![o] = Counting(opn[o], t, 0)]
    BY <1>1, <1>3
  <2> QED BY ONLY <2>1, <2>2, AbortFields
<1>5. DevTypes' /\ BlockInv' /\ CleanupInv' /\ QueueInv' /\ TaskInv' /\ AnyInv' /\ OpenInv'
  <2>1. "abortfn" \notin Emptied
    BY DEF Emptied
  <2> QED BY <1>1, <1>2, <1>3, <1>4, <2>1, ClosingKept DEF Moves
<1>6. SyncInv'
  BY <1>1, <1>2, SyncKept DEF DevInv, SyncInv, Moves, Working, Queueing
<1>7. AbortInv'
  BY <1>0, <1>1, <1>2, <1>3, <1>4, AbortStep DEF Moves, Aborted
<1> QED BY <1>5, <1>6, <1>7 DEF DevInv

\* Without the count.
LEMMA TaskField ==
  ASSUME opn \in [OpnCBs -> OPN], NEW o \in OpnCBs, NEW a \in Tasks \cup {NULL},
         opn' = [opn EXCEPT ![o].abort_tskid = a]
  PROVE  opn' = [opn EXCEPT ![o] = Counting(opn[o], a, opn[o].abort_cnt)]
<1> DEFINE b == opn[o]
<1>1. b \in OPN /\ opn' = [opn EXCEPT ![o] = [b EXCEPT !.abort_tskid = a]]
  OBVIOUS
<1>2. [b EXCEPT !.abort_tskid = a] = Counting(b, a, b.abort_cnt)
  <2> HIDE DEF b
  <2> QED BY <1>1 DEF OPN, Counting
<1> QED BY <1>1, <1>2

\* With the count alone.
LEMMA CountField ==
  ASSUME opn \in [OpnCBs -> OPN], NEW o \in OpnCBs, NEW n \in Int,
         opn' = [opn EXCEPT ![o].abort_cnt = n]
  PROVE  opn' = [opn EXCEPT ![o] = Counting(opn[o], opn[o].abort_tskid, n)]
<1> DEFINE b == opn[o]
<1>1. b \in OPN /\ opn' = [opn EXCEPT ![o] = [b EXCEPT !.abort_cnt = n]]
  OBVIOUS
<1>2. [b EXCEPT !.abort_cnt = n] = Counting(b, b.abort_tskid, n)
  <2> HIDE DEF b
  <2> QED BY <1>1 DEF OPN, Counting
<1> QED BY <1>1, <1>2

\* The requests in the driver are marked, and their returns counted.
LEMMA CallAbortfnStep ==
  ASSUME DevInv, NEW t \in Tasks, call_abortfn(t)
  PROVE  DevInv'
<1> USE DEF Closing, Aborting
<1>0. PICK o \in OpnCBs : o = pc[t].o
  BY ClosingBlock DEF call_abortfn, At
<1> DEFINE n == abortfns(o)
<1>1. /\ pc[t].at = "abortfn" /\ dabort' = NULL /\ dabort = t
      /\ UNCHANGED <<ddev, syncq, disabled, drv>>
      /\ opn' = [opn EXCEPT ![o].abort_cnt = n]
      /\ opn[o].abort_tskid = t
  BY <1>0 DEF call_abortfn, At, DevInv, AbortInv
<1>2. pc' \in [Tasks -> PC] /\ Others(t) /\ Moves(t, "abort_test")
  BY GotoEffect DEF call_abortfn, DevInv, DevTypes, Places
<1>3. opn \in [OpnCBs -> OPN] /\ req \in [ReqCBs -> REQ]
  BY DEF DevInv, DevTypes
<1>4. /\ n \in Nat /\ n = Cardinality(Back(o))
      /\ \A v \in Back(o), r \in ReqCBs : pc[v].kind # "any" /\ r \in Range(pc[v].rs) => r \in aborted(o)
  BY ReturnsCounted, FS_CardinalityType DEF DevInv
<1>5. /\ req' \in [ReqCBs -> REQ]
      /\ \A r \in ReqCBs : /\ req'[r].opncb = req[r].opncb /\ req'[r].tskid = req[r].tskid
                           /\ req'[r].abort <=> req[r].abort \/ r \in aborted(o)
  <2>1. req' = [r \in ReqCBs |-> [req[r] EXCEPT !.abort = @ \/ r \in aborted(o)]]
    BY <1>0 DEF call_abortfn
  <2>2. \A r \in ReqCBs : req[r] \in REQ
    BY <1>3
  <2> QED BY <2>1, <2>2 DEF REQ
<1>6. /\ \A p \in OpnCBs \ {o} : opn'[p] = opn[p]
      /\ opn' \in [OpnCBs -> OPN]
      /\ opn'[o].abort_tskid = t /\ opn'[o].abort_cnt = n
      /\ \A p \in OpnCBs : /\ opn'[p].omode = opn[p].omode /\ opn'[p].resid = opn[p].resid
                           /\ opn'[p].grp = opn[p].grp /\ opn'[p].unitno = opn[p].unitno
                           /\ opn'[p].requestq = opn[p].requestq
                           /\ opn'[p].nwaireq = opn[p].nwaireq
  <2> HIDE DEF n
  <2>1. t \in Tasks \cup {NULL} /\ n \in Int /\ o \in OpnCBs
    BY <1>4
  <2>2. opn \in [OpnCBs -> OPN]
    BY <1>3
  <2>3. opn' = [opn EXCEPT ![o] = Counting(opn[o], t, n)]
    <3>1. opn' = [opn EXCEPT ![o].abort_cnt = n]
      BY <1>1
    <3>2. opn' = [opn EXCEPT ![o] = Counting(opn[o], opn[o].abort_tskid, n)]
      BY ONLY <2>1, <2>2, <3>1, CountField
    <3> QED BY <1>1, <3>2
  <2> QED BY ONLY <2>1, <2>2, <2>3, AbortFields
<1>7. DevTypes' /\ BlockInv' /\ CleanupInv' /\ QueueInv' /\ TaskInv' /\ AnyInv' /\ OpenInv'
  <2>1. "abort_test" \notin Emptied
    BY DEF Emptied
  <2> QED BY <1>1, <1>2, <1>5, <1>6, <2>1, ClosingKept DEF Moves
<1>8. SyncInv'
  BY <1>1, <1>2, SyncKept DEF DevInv, SyncInv, Moves, Working, Queueing
<1>9. AbortInv'
  <2> HIDE DEF n
  <2> QED BY <1>0, <1>1, <1>2, <1>4, <1>5, <1>6, AbortStep DEF Moves, Aborted
<1> QED BY <1>7, <1>8, <1>9 DEF DevInv

\* abort_cnt is read again: the task waits, or is through.
LEMMA AbortTestStep ==
  ASSUME DevInv, NEW t \in Tasks, abort_test(t)
  PROVE  DevInv'
<1> USE DEF Closing, Aborting
<1>0. PICK o \in OpnCBs : o = pc[t].o
  BY ClosingBlock DEF abort_test, At
<1>1. /\ pc[t].at = "abort_test" /\ UNCHANGED <<ddev, syncq, req, disabled, dabort, drv>>
      /\ opn[o].abort_tskid = t /\ opn[o].abort_cnt = Cardinality(Back(o))
      /\ \A v \in Back(o), r \in ReqCBs : pc[v].kind # "any" /\ r \in Range(pc[v].rs) => req[r].abort
      /\ t \notin disabled
  BY <1>0 DEF abort_test, At, DevInv, AbortInv, SyncInv, Queueing, locks
<1>2. opn \in [OpnCBs -> OPN] /\ req \in [ReqCBs -> REQ] /\ opn[o].abort_cnt \in Int
  BY DEF DevInv, DevTypes, OPN
<1>3. IsFiniteSet(Back(o)) /\ Cardinality(Back(o)) \in Nat
  BY ReturnsCounted, FS_CardinalityType DEF DevInv
<1>4. CASE opn[o].abort_cnt > 0
  <2>1. opn' = opn /\ Goto(t, "abort_wait")
    BY <1>0, <1>4 DEF abort_test
  <2>2. pc' \in [Tasks -> PC] /\ Others(t) /\ Moves(t, "abort_wait")
    BY <2>1, GotoEffect DEF DevInv, DevTypes, Places
  <2>3. DevTypes' /\ BlockInv' /\ CleanupInv' /\ QueueInv' /\ TaskInv' /\ AnyInv' /\ OpenInv'
    <3>1. "abort_wait" \notin Emptied
      BY DEF Emptied
    <3> QED BY <1>1, <1>2, <2>1, <2>2, <3>1, ClosingKept DEF Moves
  <2>4. SyncInv'
    BY <1>1, <2>2, SyncKept DEF DevInv, SyncInv, Moves, Working, Queueing
  <2>5. AbortInv'
    BY <1>0, <1>1, <1>4, <2>1, <2>2, AbortStep DEF Moves, Aborted
  <2> QED BY <2>3, <2>4, <2>5 DEF DevInv
<1>5. CASE ~(opn[o].abort_cnt > 0)
  <2>1. opn' = [opn EXCEPT ![o].abort_tskid = NULL] /\ Goto(t, "abort_rest")
    BY <1>0, <1>5 DEF abort_test
  <2>2. pc' \in [Tasks -> PC] /\ Others(t) /\ Moves(t, "abort_rest")
    BY <2>1, GotoEffect DEF DevInv, DevTypes, Places, Aborted
  <2>3. PICK n \in Int : n = opn[o].abort_cnt
    BY <1>2
  <2>4. /\ \A p \in OpnCBs \ {o} : opn'[p] = opn[p]
        /\ opn' \in [OpnCBs -> OPN]
        /\ opn'[o].abort_tskid = NULL /\ opn'[o].abort_cnt = n
        /\ \A p \in OpnCBs : /\ opn'[p].omode = opn[p].omode /\ opn'[p].resid = opn[p].resid
                             /\ opn'[p].grp = opn[p].grp /\ opn'[p].unitno = opn[p].unitno
                             /\ opn'[p].requestq = opn[p].requestq
                             /\ opn'[p].nwaireq = opn[p].nwaireq
    <3>1. NULL \in Tasks \cup {NULL} /\ o \in OpnCBs /\ n \in Int
      OBVIOUS
    <3>2. opn' = [opn EXCEPT ![o] = Counting(opn[o], NULL, n)]
      BY <1>2, <2>1, <2>3, TaskField
    <3> QED BY ONLY <1>2, <3>1, <3>2, AbortFields
  <2>5. Back(o) = {}
    BY <1>1, <1>2, <1>3, <1>5, FS_EmptySet
  <2>6. DevTypes' /\ BlockInv' /\ CleanupInv' /\ QueueInv' /\ TaskInv' /\ AnyInv' /\ OpenInv'
    <3>1. "abort_rest" \notin Emptied /\ "abort_rest" \in Aborted
      BY DEF Emptied, Aborted
    <3> QED BY <1>1, <1>2, <2>2, <2>4, <3>1, ClosingKept DEF Moves
  <2>7. SyncInv'
    BY <1>1, <2>2, SyncKept DEF DevInv, SyncInv, Moves, Working, Queueing
  <2>8. AbortInv'
    BY <1>0, <1>1, <2>2, <2>4, <2>5, AbortStep DEF Moves, Aborted
  <2> QED BY <2>6, <2>7, <2>8 DEF DevInv
<1> QED BY <1>4, <1>5

\* The last of those counted has come back.
LEMMA AbortSyncedStep ==
  ASSUME DevInv, NEW t \in Tasks, abort_synced(t)
  PROVE  DevInv'
<1> USE DEF Closing, Aborting
<1>0. PICK o \in OpnCBs : o = pc[t].o
  BY ClosingBlock DEF abort_synced, At
<1>1. /\ pc[t].at = "abort_wait" /\ UNCHANGED <<ddev, syncq, req, dabort, drv>>
      /\ disabled' = disabled \ {t} /\ t \in disabled
      /\ opn' = [opn EXCEPT ![o].abort_tskid = NULL]
      /\ opn[o].abort_cnt = Cardinality(Back(o)) /\ opn[o].abort_cnt = 0
  BY <1>0 DEF abort_synced, SyncWaitDM, At, DevInv, AbortInv, locks
<1>2. opn \in [OpnCBs -> OPN] /\ req \in [ReqCBs -> REQ]
  BY DEF DevInv, DevTypes
<1>3. Back(o) = {}
  BY <1>1, ReturnsCounted, FS_EmptySet DEF DevInv
<1>4. pc' \in [Tasks -> PC] /\ Others(t) /\ Moves(t, "abort_rest")
  BY GotoEffect DEF abort_synced, DevInv, DevTypes, Places, Aborted
<1>5. /\ \A p \in OpnCBs \ {o} : opn'[p] = opn[p]
      /\ opn' \in [OpnCBs -> OPN]
      /\ opn'[o].abort_tskid = NULL /\ opn'[o].abort_cnt = 0
      /\ \A p \in OpnCBs : /\ opn'[p].omode = opn[p].omode /\ opn'[p].resid = opn[p].resid
                           /\ opn'[p].grp = opn[p].grp /\ opn'[p].unitno = opn[p].unitno
                           /\ opn'[p].requestq = opn[p].requestq
                           /\ opn'[p].nwaireq = opn[p].nwaireq
  <2>1. NULL \in Tasks \cup {NULL} /\ o \in OpnCBs /\ 0 \in Int
    OBVIOUS
  <2>2. opn' = [opn EXCEPT ![o] = Counting(opn[o], NULL, 0)]
    BY <1>1, <1>2, TaskField
  <2> QED BY ONLY <1>2, <2>1, <2>2, AbortFields
<1>6. DevTypes' /\ BlockInv' /\ CleanupInv' /\ QueueInv' /\ TaskInv' /\ AnyInv' /\ OpenInv'
  <2>1. "abort_rest" \notin Emptied /\ "abort_rest" \in Aborted
    BY DEF Emptied, Aborted
  <2> QED BY <1>1, <1>2, <1>4, <1>5, <2>1, ClosingKept DEF Moves
<1>7. SyncInv'
  <2>1. \A u \in Tasks \ {t} : pc'[u].at = pc[u].at
    BY <1>4 DEF Others
  <2>2. /\ pc'[t].at \notin Working \cup Queueing /\ pc[t].at \notin Working \cup Queueing
        /\ InSync' = InSync
    BY <1>1, <1>4, <2>1 DEF InSync, Moves, Working, Queueing
  <2> QED BY <1>1, <2>1, <2>2 DEF DevInv, SyncInv
<1>8. AbortInv'
  BY <1>0, <1>1, <1>3, <1>4, <1>5, AbortStep DEF Moves, Aborted
<1> QED BY <1>6, <1>7, <1>8 DEF DevInv

\* A task gives requests D of block o back, of which those in G leave their
\* queue; it is no longer in the driver.
GivesBack(t, o, D, G) ==
  /\ D \subseteq Of(o) /\ G \subseteq D
  /\ \A s \in ReqCBs \ D : req'[s].opncb = req[s].opncb /\ req'[s].tskid = req[s].tskid
  /\ \A s \in D : /\ req[s].tskid \in {NULL, t} /\ req'[s].tskid = NULL
                  /\ req'[s].opncb = IF s \in G THEN NULL ELSE o
  /\ \A s \in ReqCBs : req[s].tskid = t => s \in D
  /\ Lists(opn'[o].requestq, Of(o) \ G)
  /\ \A p \in OpnCBs \ {o} : /\ opn'[p].requestq = opn[p].requestq
                             /\ opn'[p].nwaireq = opn[p].nwaireq
  /\ \A p \in OpnCBs : opn'[p].omode = opn[p].omode /\ opn'[p].resid = opn[p].resid
  /\ IF pc[t].at = "waitfn" /\ pc[t].kind = "any"
     THEN pc[t].o = o /\ opn'[o].nwaireq = 0
     ELSE opn'[o].nwaireq = opn[o].nwaireq
  /\ pc'[t].at \notin Driving \cup Emptied
  /\ pc'[t].at = "started" =>
       pc'[t].o \in OpnCBs /\ pc'[t].kind = "sync" /\ \E r \in ReqCBs : pc'[t].rs = <<r>>

\* Requests given back are nobody's.
LEMMA RequestsLeft ==
  ASSUME BlockInv, QueueInv, TaskInv, AnyInv, NEW t \in Tasks, Others(t), NEW o \in OpnCBs,
         NEW D, NEW G, GivesBack(t, o, D, G)
  PROVE  QueueInv' /\ TaskInv' /\ AnyInv'
<1> USE DEF GivesBack
<1>1. D \subseteq ReqCBs /\ \A s \in D : req[s].opncb = o
  BY DEF Of
<1>2. \A p \in OpnCBs : Of(p)' = IF p = o THEN Of(o) \ G ELSE Of(p)
  <2>1. \A p \in OpnCBs : \A s \in ReqCBs :
          req'[s].opncb = p <=> req[s].opncb = p /\ s \notin G
    BY <1>1, DeviceAssumption
  <2> QED BY <2>1 DEF Of
<1>3. \A p \in OpnCBs : Back(p)' = Back(p) \ {t}
  BY DEF Back, Others
<1>4. \A u \in Tasks \ {t} : pc'[u] = pc[u]
  BY DEF Others
<1>5. QueueInv'
  <2>1. openq' = openq
    BY DEF openq
  <2>2. (\A p \in OpnCBs : Lists(opn[p].requestq, Of(p)))'
    <3>1. ASSUME NEW p \in OpnCBs PROVE Lists(opn'[p].requestq, Of(p)')
      BY <1>2 DEF QueueInv
    <3> QED BY <3>1
  <2>3. (\A p \in OpnCBs : p \notin openq \/ opn[p].resid = 0 => Of(p) = {})'
    BY <1>2, <2>1 DEF QueueInv
  <2>4. (\A u \in Tasks : pc[u].at \in Emptied => Of(pc[u].o) = {})'
    <3>1. ASSUME NEW u \in Tasks, pc'[u].at \in Emptied
          PROVE  pc'[u].o \in OpnCBs /\ pc'[u] = pc[u] /\ Of(pc[u].o) = {}
      <4>1. pc'[u] = pc[u]
        BY <1>4, <3>1
      <4>2. pc[u].o \in openq
        BY <3>1, <4>1 DEF BlockInv, Emptied, Closing, Aborted
      <4> QED BY <3>1, <4>1, <4>2 DEF QueueInv, openq
    <3> QED BY <1>2, <3>1
  <2> QED BY <2>2, <2>3, <2>4 DEF QueueInv
<1>6. TaskInv'
  <2>1. \A u \in Tasks : pc'[u].at \in Driving => u # t /\ pc'[u] = pc[u]
    BY <1>4
  <2>2. \A u \in Tasks \ {t} : \A s \in ReqCBs : req[s].tskid = u => s \notin D
    BY DeviceAssumption
  <2>3. ASSUME NEW u \in Tasks, pc'[u].at \in Driving
        PROVE  /\ pc'[u].o \in OpnCBs
               /\ \E r \in ReqCBs : r \in Range(pc'[u].rs)
               /\ \A r \in Range(pc'[u].rs) :
                    r \in ReqCBs /\ req'[r].opncb = pc'[u].o /\ req'[r].tskid = u
               /\ pc'[u].kind = "any" => pc'[u].at = "waitfn"
    BY <2>1, <2>2, <2>3 DEF TaskInv, At
  <2>4. ASSUME NEW u \in Tasks, (pc'[u].at \in Driving /\ pc'[u].kind # "any") \/ pc'[u].at = "started"
        PROVE  \E r \in ReqCBs : pc'[u].rs = <<r>>
    BY <1>4, <2>1, <2>4 DEF TaskInv, At
  <2>5. ASSUME NEW u \in Tasks, pc'[u].at = "started" PROVE pc'[u].o \in OpnCBs /\ pc'[u].kind = "sync"
    BY <1>4, <2>5 DEF TaskInv, At
  <2>6. ASSUME NEW r \in ReqCBs, req'[r].tskid # NULL
        PROVE  /\ req'[r].tskid \in Tasks
               /\ pc'[req'[r].tskid].at \in Driving /\ r \in Range(pc'[req'[r].tskid].rs)
    <3>1. r \notin D /\ req'[r].tskid = req[r].tskid /\ req[r].tskid # t
      BY <2>6
    <3> QED BY <1>4, <2>6, <3>1 DEF TaskInv
  <2> QED BY <2>3, <2>4, <2>5, <2>6 DEF TaskInv, At
<1>7. AnyInv'
  <2>1. ASSUME NEW p \in OpnCBs, opn'[p].nwaireq > 0
        PROVE  \E u \in Tasks : pc'[u].at = "waitfn" /\ pc'[u].kind = "any" /\ pc'[u].o = p
    <3>1. opn'[p].nwaireq = opn[p].nwaireq
      BY <2>1
    <3>2. PICK u \in Tasks : pc[u].at = "waitfn" /\ pc[u].kind = "any" /\ pc[u].o = p
      BY <2>1, <3>1 DEF AnyInv, At
    <3>3. u # t
      BY <2>1, <3>2
    <3> QED BY <1>4, <3>2, <3>3
  <2>2. ASSUME NEW u \in Tasks, pc'[u].at = "waitfn", pc'[u].kind = "any"
        PROVE  (opn[pc[u].o].nwaireq > 0 /\ Back(pc[u].o) = {u})'
    <3>1. u # t /\ pc'[u] = pc[u]
      BY <1>4, <2>2 DEF Driving
    <3>2. opn[pc[u].o].nwaireq > 0 /\ Back(pc[u].o) = {u} /\ pc[u].o \in OpnCBs
      <4>1. pc[u].at = "waitfn" /\ pc[u].kind = "any"
        BY <2>2, <3>1
      <4>2. pc[u].o \in OpnCBs
        BY <4>1 DEF TaskInv, Driving
      <4> QED BY <4>1, <4>2 DEF AnyInv, At
    <3>3. pc[t].at = "waitfn" /\ pc[t].kind = "any" => pc[t].o # pc[u].o
      BY <3>1, <3>2 DEF Back, Driving
    <3>4. opn'[pc[u].o].nwaireq = opn[pc[u].o].nwaireq
      BY <3>2, <3>3
    <3>6. PICK p \in OpnCBs : p = pc[u].o
      BY <3>2
    <3>7. Back(p)' = {u} /\ opn'[p].nwaireq > 0
      BY <1>3, <3>1, <3>2, <3>4, <3>6
    <3>8. pc'[u].o = p
      BY <3>1, <3>6
    <3> QED BY <3>7, <3>8 DEF Back
  <2> QED BY <2>1, <2>2 DEF AnyInv, At
<1> QED BY <1>5, <1>6, <1>7

\* Only a task that aborts is named in its block.
LEMMA NotAborting ==
  ASSUME DevInv, NEW t \in Tasks, pc[t].at \in Closing \ Aborting
  PROVE  opn[pc[t].o].abort_tskid = NULL
<1>1. pc[t].o \in OpnCBs
  BY ClosingBlock
<1>2. ASSUME opn[pc[t].o].abort_tskid # NULL PROVE FALSE
  <2>1. PICK u \in Tasks : pc[u].at \in Aborting /\ pc[u].o = pc[t].o
    BY <1>1, <1>2 DEF DevInv, AbortInv
  <2> QED BY <2>1, ClosingBlock DEF Closing
<1> QED BY <1>2

\* The driver is asked for the next request nobody waits for; with none left
\* the block is closed.
LEMMA AbortRestStep ==
  ASSUME DevInv, NEW t \in Tasks, abort_rest(t)
  PROVE  DevInv'
<1> USE DEF Closing, Aborting, Aborted
<1>0. PICK o \in OpnCBs : o = pc[t].o
  BY ClosingBlock DEF abort_rest, At
<1> DEFINE q == opn[o].requestq
<1>1. /\ pc[t].at = "abort_rest" /\ UNCHANGED <<ddev, syncq, opn, disabled, dabort, drv>>
      /\ opn[o].abort_tskid = NULL /\ Back(o) = {} /\ Lists(q, Of(o))
  <2>1. pc[t].at = "abort_rest" /\ UNCHANGED <<ddev, syncq, opn, disabled, dabort, drv>>
    BY DEF abort_rest, At
  <2>2. opn[o].abort_tskid = NULL
    BY <1>0, <2>1, NotAborting
  <2> QED BY <1>0, <2>1, <2>2 DEF DevInv, AbortInv, QueueInv
<1>2. opn \in [OpnCBs -> OPN] /\ req \in [ReqCBs -> REQ] /\ pc \in [Tasks -> PC]
  BY DEF DevInv, DevTypes
<1>3. CASE q = << >>
  <2>1. req' = req /\ Goto(t, "close")
    BY <1>0, <1>3 DEF abort_rest
  <2>2. pc' \in [Tasks -> PC] /\ Others(t) /\ Moves(t, "close")
    BY <1>2, <2>1, GotoEffect DEF Places
  <2>3. Of(o) = {}
    BY <1>1, <1>3, EmptyList
  <2>4. DevTypes' /\ BlockInv' /\ CleanupInv' /\ QueueInv' /\ TaskInv' /\ AnyInv' /\ OpenInv'
    BY <1>0, <1>1, <1>2, <2>1, <2>2, <2>3, ClosingKept DEF Moves
  <2>5. SyncInv'
    BY <1>1, <2>2, SyncKept DEF DevInv, SyncInv, Moves, Working, Queueing
  <2>6. AbortInv'
    BY <1>0, <1>1, <2>1, <2>2, AbortStep DEF Moves
  <2> QED BY <2>4, <2>5, <2>6 DEF DevInv
<1>4. CASE q # << >>
  <2>1. PICK r \in Of(o) : r = Head(q)
    BY <1>1, <1>4, HeadInSync
  <2>2. /\ req' = [req EXCEPT ![r].abort = TRUE]
        /\ pc' = [pc EXCEPT ![t].at = "abort_waitfn", ![t].rs = <<r>>]
        /\ r \in ReqCBs /\ req[r].opncb = o
    BY <1>0, <1>4, <2>1 DEF abort_rest, Of
  <2>3. /\ pc' \in [Tasks -> PC] /\ Others(t) /\ pc'[t].at = "abort_waitfn" /\ pc'[t].rs = <<r>>
        /\ pc'[t].o = pc[t].o /\ pc'[t].cleanup = pc[t].cleanup
    <3>1. "abort_waitfn" \in Places /\ <<r>> \in Seq(ReqCBs) /\ pc[t] \in PC
      BY <1>2, <2>2 DEF Places
    <3> QED BY <1>2, <2>2, <3>1 DEF PC, Others
  <2>4. /\ req' \in [ReqCBs -> REQ]
        /\ \A s \in ReqCBs : /\ req'[s].opncb = req[s].opncb /\ req'[s].tskid = req[s].tskid
                             /\ req[s].abort => req'[s].abort
    <3>1. req[r] \in REQ
      BY <1>2, <2>2
    <3> QED BY <1>2, <2>2, <3>1 DEF REQ
  <2>5. DevTypes' /\ BlockInv' /\ CleanupInv' /\ QueueInv' /\ TaskInv' /\ AnyInv' /\ OpenInv'
    <3>1. "abort_waitfn" \notin Emptied
      BY DEF Emptied
    <3> QED BY <1>1, <1>2, <2>3, <2>4, <3>1, ClosingKept
  <2>6. SyncInv'
    BY <1>1, <2>3, SyncKept DEF DevInv, SyncInv, Working, Queueing
  <2>7. AbortInv'
    BY <1>0, <1>1, <2>2, <2>3, <2>4, AbortStep
  <2> QED BY <2>5, <2>6, <2>7 DEF DevInv
<1> QED BY <1>3, <1>4

\* The driver has ended it.
LEMMA AbortWaitfnStep ==
  ASSUME DevInv, NEW t \in Tasks, abort_waitfn_returns(t)
  PROVE  DevInv'
<1> USE DEF Closing, Aborting, Aborted
<1>0. PICK o \in OpnCBs : o = pc[t].o
  BY ClosingBlock DEF abort_waitfn_returns, At
<1>1. PICK r \in Of(o) : pc[t].rs = <<r>>
  BY <1>0 DEF abort_waitfn_returns, DevInv, AbortInv, At
<1>2. /\ pc[t].at = "abort_waitfn" /\ UNCHANGED <<ddev, syncq, disabled, dabort, drv>>
      /\ opn' = [opn EXCEPT ![o].requestq = QueRemove(@, r)]
      /\ req' = [req EXCEPT ![r] = FreeReq]
      /\ pc' = [pc EXCEPT ![t].at = "abort_rest", ![t].rs = << >>]
      /\ r \in ReqCBs /\ req[r].opncb = o /\ o # NULL
  <2>1. pc[t].rs[1] = r
    BY <1>1
  <2>2. req[r].opncb = o /\ o # NULL /\ r \in ReqCBs
    BY DeviceAssumption DEF Of
  <2> QED BY <2>1, <2>2 DEF abort_waitfn_returns, delReqCB, At
<1>3. opn \in [OpnCBs -> OPN] /\ req \in [ReqCBs -> REQ] /\ pc \in [Tasks -> PC]
  BY DEF DevInv, DevTypes
<1>4. /\ Back(o) = {} /\ Lists(opn[o].requestq, Of(o)) /\ opn[o].abort_tskid = NULL
  <2>1. opn[o].abort_tskid = NULL
    BY <1>0, <1>2, NotAborting
  <2> QED BY <1>0, <1>2, <2>1 DEF DevInv, AbortInv, QueueInv
<1>5. req[r].tskid = NULL
  <2>1. ASSUME req[r].tskid # NULL PROVE req[r].tskid \in Back(o)
    BY <1>2, <2>1 DEF DevInv, TaskInv, Back
  <2> QED BY <1>4, <2>1
<1>6. /\ pc' \in [Tasks -> PC] /\ Others(t) /\ pc'[t].at = "abort_rest"
      /\ pc'[t].o = pc[t].o /\ pc'[t].cleanup = pc[t].cleanup
  <2>1. "abort_rest" \in Places /\ << >> \in Seq(ReqCBs) /\ pc[t] \in PC
    BY <1>3 DEF Places
  <2> QED BY <1>2, <1>3, <2>1 DEF PC, Others
<1>7. /\ req' \in [ReqCBs -> REQ] /\ \A s \in ReqCBs \ {r} : req'[s] = req[s]
      /\ req'[r].opncb = NULL /\ req'[r].tskid = NULL
  <2>1. FreeReq \in REQ /\ FreeReq.opncb = NULL /\ FreeReq.tskid = NULL
    BY DEF FreeReq, REQ
  <2> HIDE DEF FreeReq
  <2> QED BY <1>2, <1>3, <2>1
<1>8. Lists(QueRemove(opn[o].requestq, r), Of(o) \ {r})
  BY <1>4, RemoveList
<1>9. /\ opn' \in [OpnCBs -> OPN] /\ \A p \in OpnCBs \ {o} : opn'[p] = opn[p]
      /\ opn'[o].requestq = QueRemove(opn[o].requestq, r)
      /\ \A p \in OpnCBs : /\ opn'[p].omode = opn[p].omode /\ opn'[p].resid = opn[p].resid
                           /\ opn'[p].grp = opn[p].grp /\ opn'[p].unitno = opn[p].unitno
                           /\ opn'[p].nwaireq = opn[p].nwaireq
                           /\ opn'[p].abort_tskid = opn[p].abort_tskid
                           /\ opn'[p].abort_cnt = opn[p].abort_cnt
  <2>1. PICK q \in Seq(ReqCBs) : q = QueRemove(opn[o].requestq, r)
    <3>1. Of(o) \ {r} \in SUBSET ReqCBs
      BY DEF Of
    <3> QED BY <1>8, <3>1, ListsSeq
  <2>2. opn' = [opn EXCEPT ![o] = [opn[o] EXCEPT !.requestq = q]] /\ opn[o] \in OPN
    BY <1>2, <1>3, <2>1
  <2> QED BY <1>3, <2>1, <2>2 DEF OPN
<1>10. DevTypes' /\ openq' = openq
  BY <1>2, <1>6, <1>7, <1>9 DEF DevInv, DevTypes, openq
<1>11. SyncInv'
  BY <1>2, <1>6, SyncKept DEF DevInv, SyncInv, Working, Queueing
<1>12. BlockInv' /\ CleanupInv'
  BY <1>2, <1>6, <1>9, BlocksKept DEF DevInv, Opening
<1>13. QueueInv' /\ TaskInv' /\ AnyInv'
  <2>1. \A s \in ReqCBs : req[s].tskid # t
    BY <1>2, DeviceAssumption DEF DevInv, TaskInv, Driving
  <2>2. pc'[t].at \notin Driving \cup Emptied \cup {"started"} /\ pc[t].at # "waitfn"
    BY <1>2, <1>6 DEF Driving, Emptied
  <2>3. GivesBack(t, o, {r}, {r})
    BY <1>5, <1>7, <1>8, <1>9, <2>1, <2>2 DEF GivesBack
  <2> QED BY <1>6, <2>3, RequestsLeft DEF DevInv
<1>14. AbortInv'
  BY <1>0, <1>2, <1>4, <1>6, <1>7, <1>9, AbortStep
<1>15. OpenInv'
  BY <1>2, <1>6, <1>9, OpenKept DEF DevInv
<1> QED BY <1>10, <1>11, <1>12, <1>13, <1>14, <1>15 DEF DevInv

---------------------------------------------------------------------------
(* The close itself. *)

\* The closing task enters the queue.
LEMMA CloseBeginsStep ==
  ASSUME DevInv, NEW t \in Tasks, close_begins(t)
  PROVE  DevInv'
<1> USE DEF Closing, Aborted
<1>1. /\ pc[t].at = "close" /\ UNCHANGED <<ddev, opn, req, disabled, dabort, drv>>
      /\ syncq' = Append(syncq, t)
  BY DEF close_begins, enterSyncWait, At, blocks
<1>2. PICK x \in {"close_sync", "close_wait"} :
        x = IF syncq = << >> THEN "close_sync" ELSE "close_wait"
  OBVIOUS
<1>3. pc' \in [Tasks -> PC] /\ Others(t) /\ Moves(t, x)
  <2>1. Goto(t, x)
    BY <1>2 DEF close_begins, enterSyncWait, Goto
  <2>2. x \in Places
    BY <1>2 DEF Places
  <2> QED BY <2>1, <2>2, GotoEffect DEF DevInv, DevTypes
<1>4. /\ opn \in [OpnCBs -> OPN] /\ req \in [ReqCBs -> REQ]
      /\ Of(pc[t].o) = {} /\ Back(pc[t].o) = {}
  BY <1>1 DEF DevInv, DevTypes, QueueInv, AbortInv, Emptied
<1>5. DevTypes' /\ BlockInv' /\ CleanupInv' /\ QueueInv' /\ TaskInv' /\ AnyInv' /\ OpenInv'
  BY <1>1, <1>2, <1>3, <1>4, ClosingKept DEF Moves
<1>6. SyncInv'
  BY <1>1, <1>2, <1>3, EnterSync DEF DevInv, Moves, Working, Queueing
<1>7. AbortInv'
  <2>1. opn[pc[t].o].abort_tskid = NULL
    BY <1>1, NotAborting DEF Aborting
  <2>2. x \in Aborted /\ x \notin Aborting /\ x \in Closing
    BY <1>2 DEF Aborting
  <2> QED BY <1>1, <1>3, <1>4, <2>1, <2>2, AbortStep DEF Moves, Aborting
<1> QED BY <1>5, <1>6, <1>7 DEF DevInv

\* It is its turn.
LEMMA CloseSyncedStep ==
  ASSUME DevInv, NEW t \in Tasks, close_synced(t)
  PROVE  DevInv'
<1> USE DEF Closing, Aborted
<1>1. /\ pc[t].at = "close_wait" /\ UNCHANGED <<ddev, syncq, opn, req, dabort, drv>>
      /\ t \in disabled /\ disabled' = disabled \ {t}
  BY DEF close_synced, SyncWaitDM, At, blocks
<1>2. pc' \in [Tasks -> PC] /\ Others(t) /\ Moves(t, "close_sync")
  BY GotoEffect DEF close_synced, DevInv, DevTypes, Places
<1>3. /\ opn \in [OpnCBs -> OPN] /\ req \in [ReqCBs -> REQ]
      /\ Of(pc[t].o) = {} /\ Back(pc[t].o) = {}
  BY <1>1 DEF DevInv, DevTypes, QueueInv, AbortInv, Emptied
<1>4. DevTypes' /\ BlockInv' /\ CleanupInv' /\ QueueInv' /\ TaskInv' /\ AnyInv' /\ OpenInv'
  BY <1>1, <1>2, <1>3, ClosingKept DEF Moves
<1>5. SyncInv'
  BY <1>1, <1>2, SyncedSync DEF DevInv, Moves, Working, Queueing
<1>6. AbortInv'
  <2>1. opn[pc[t].o].abort_tskid = NULL
    BY <1>1, NotAborting DEF Aborting
  <2> QED BY <1>1, <1>2, <1>3, <2>1, AbortStep DEF Moves, Aborting
<1> QED BY <1>4, <1>5, <1>6 DEF DevInv

\* closefn is called unless another open of the unit is complete.
LEMMA ClosefnStep ==
  ASSUME DevInv, NEW t \in Tasks, close_device(t), ~(chkopen(pc[t].o) /\ ~ddev)
  PROVE  DevInv'
<1> USE DEF Closing, Aborted
<1>0. PICK o \in OpnCBs : o = pc[t].o
  BY ClosingBlock DEF close_device, At
<1>1. /\ UNCHANGED <<ddev, syncq, opn, req, disabled, dabort>> /\ pc[t].at = "close_sync"
      /\ Goto(t, "closefn") /\ drv' = [drv EXCEPT ![opn[o].unitno] = @ - 1]
  BY <1>0 DEF close_device, At
<1>2. pc' \in [Tasks -> PC] /\ Others(t) /\ Moves(t, "closefn")
  BY <1>1, GotoEffect DEF DevInv, DevTypes, Places
<1>3. DevTypes' /\ openq' = openq
  BY <1>1, <1>2 DEF DevInv, DevTypes, openq
<1>4. SyncInv'
  BY <1>1, <1>2, SyncKept DEF DevInv, SyncInv, Moves, Working, Queueing
<1>5. BlockInv' /\ CleanupInv'
  BY <1>1, <1>2, BlocksKept DEF DevInv, CleanupInv, Moves, Opening
<1>6. QueueInv' /\ TaskInv' /\ AnyInv'
  <2>1. Of(o) = {}
    BY <1>0, <1>1 DEF DevInv, QueueInv, Emptied
  <2> QED BY <1>0, <1>1, <1>2, <1>3, <2>1, RequestsKept DEF DevInv, QueueInv, Moves, Driving
<1>7. AbortInv'
  <2>1. opn[pc[t].o].abort_tskid = NULL /\ Back(pc[t].o) = {}
    BY <1>1, NotAborting DEF Aborting, DevInv, AbortInv
  <2> QED BY <1>1, <1>2, <2>1, AbortStep DEF Moves, Aborting
<1>8. OpenInv'
  <2>1. /\ \A p : Counts(p) <=> opn[p].resid # 0
        /\ \A p : Counts(p)' <=> opn[p].resid # 0 /\ p # o
        /\ \A u \in Tasks \ {t} : pc'[u].at \notin {"openfn", "closefn"}
    BY <1>0, <1>1, <1>2, CountsWorking DEF DevInv, Moves, Working
  <2>2. o \in openq /\ opn[o].resid = -1 /\ openq \subseteq OpnCBs
    BY <1>0, <1>1 DEF DevInv, BlockInv, openq
  <2>3. PICK n \in Units : n = opn[o].unitno
    BY <2>2 DEF DevInv, OpenInv
  <2>4. /\ ddev \in BOOLEAN /\ IsFiniteSet(openq) /\ drv \in [Units -> Int]
        /\ \A u \in Units :
             drv[u] = IF Complete(u) = {} THEN 0 ELSE IF ddev THEN Cardinality(Complete(u)) ELSE 1
    BY <2>2 DEF DevInv, DevTypes, OpenInv
  <2>5. ASSUME NEW u \in Units \ {n} PROVE Complete(u)' = Complete(u)
    BY <1>1, <1>3, <2>1, <2>3 DEF Complete
  <2>6. Complete(n)' = Complete(n) \ {o} /\ o \in Complete(n)
    BY <1>1, <1>3, <2>1, <2>2, <2>3 DEF Complete
  <2>7. drv' \in [Units -> Int] /\ \A u \in Units : drv'[u] = IF u = n THEN drv[u] - 1 ELSE drv[u]
    BY <1>1, <2>3, <2>4
  <2>8. IsFiniteSet(Complete(n))
    BY <2>4, FS_Subset DEF Complete
  <2>9. /\ Cardinality(Complete(n)) \in Nat /\ Cardinality(Complete(n)') = Cardinality(Complete(n)) - 1
        /\ Cardinality({}) = 0
    BY <2>6, <2>8, FS_RemoveElement, FS_CardinalityType, FS_EmptySet
  <2>10. ~ddev => Complete(n) = {o}
    <3>1. ~ddev => ~chkopen(o)
      BY <1>0
    <3> QED BY <2>1, <2>2, <2>3, <3>1 DEF chkopen, Complete
  <2>11. drv'[n] = IF Complete(n)' = {} THEN 0 ELSE IF ddev THEN Cardinality(Complete(n)') ELSE 1
    <3>1. CASE ddev
      <4>1. drv[n] = Cardinality(Complete(n))
        BY <2>4, <2>6, <3>1
      <4> QED BY <2>7, <2>9, <3>1, <4>1
    <3>2. CASE ~ddev
      <4>1. drv[n] = 1 /\ Complete(n)' = {}
        BY <2>4, <2>6, <2>10, <3>2
      <4> QED BY <2>7, <4>1
    <3> QED BY <3>1, <3>2
  <2>12. \A u \in Units :
           drv'[u] = IF Complete(u)' = {} THEN 0 ELSE IF ddev' THEN Cardinality(Complete(u)') ELSE 1
    <3>1. ASSUME NEW u \in Units \ {n}
          PROVE  drv'[u] = IF Complete(u)' = {} THEN 0 ELSE IF ddev THEN Cardinality(Complete(u)') ELSE 1
      BY <2>4, <2>5, <2>7, <3>1
    <3> QED BY <1>1, <2>11, <3>1
  <2>13. \A p \in openq' : opn'[p].unitno \in Units
    BY <1>1, <1>3 DEF DevInv, OpenInv
  <2>14. ~ddev' => ~chkopen(o)'
    BY <1>0, <1>1, <1>3 DEF chkopen
  <2>15. /\ (\A u \in Tasks : At(u, "openfn") /\ ~ddev => ~chkopen(pc[u].o))'
         /\ (\A u \in Tasks : At(u, "closefn") /\ ~ddev => ~chkopen(pc[u].o))'
    <3>1. pc'[t].at = "closefn" /\ pc'[t].o = o
      BY <1>0, <1>2 DEF Moves
    <3> QED BY <2>1, <2>14, <3>1 DEF At, chkopen
  <2>16. ddev' # NULL /\ IsFiniteSet(openq')
    BY <1>1, <1>3, <2>2, <2>4 DEF DevInv, OpenInv
  <2> QED BY <2>7, <2>12, <2>13, <2>15, <2>16 DEF OpenInv
<1> QED BY <1>3, <1>4, <1>5, <1>6, <1>7, <1>8 DEF DevInv

\* The closed block is free; of another one at most resid changes.
Frees(t, o) ==
  /\ opn' \in [OpnCBs -> OPN] /\ opn'[o] = FreeOpn
  /\ \A q \in OpnCBs \ {o} :
       /\ opn'[q].omode = opn[q].omode /\ opn'[q].unitno = opn[q].unitno
       /\ opn'[q].grp = opn[q].grp /\ (opn'[q].resid = 0 <=> opn[q].resid = 0)
       /\ opn'[q].requestq = opn[q].requestq /\ opn'[q].nwaireq = opn[q].nwaireq
       /\ opn'[q].abort_tskid = opn[q].abort_tskid /\ opn'[q].abort_cnt = opn[q].abort_cnt

\* A close ends: the driver has seen it, or another open of the unit is
\* complete.
LEMMA BlockFreed ==
  ASSUME DevInv, NEW t \in Tasks, pc[t].at \in {"close_sync", "closefn"},
         NEW o \in OpnCBs, o = pc[t].o, pc[t].at = "close_sync" => chkopen(o) /\ ~ddev,
         NEW back \in BOOLEAN, leaveSyncWait(t, back), UNCHANGED <<ddev, req, dabort, drv>>,
         Others(t), pc'[t].at \in {"user", "abort"}, Frees(t, o)
  PROVE  SyncInv' /\ QueueInv' /\ TaskInv' /\ AnyInv' /\ AbortInv' /\ OpenInv'
<1> USE DEF Frees
<1>1. SyncInv' /\ \A u \in Tasks : At(u, "abort_wait") => (u \in disabled' <=> u \in disabled)
  BY LeaveSync DEF DevInv, Working, Queueing
<1>2. /\ o \in openq /\ openq \subseteq OpnCBs /\ opn[o].resid = -1 /\ Of(o) = {}
      /\ opn[o].abort_tskid = NULL
  BY NotAborting DEF DevInv, BlockInv, QueueInv, openq, Emptied, Closing, Aborting, Aborted
<1>3. /\ opn'[o].resid = 0 /\ opn'[o].omode = {} /\ opn'[o].requestq = << >>
      /\ opn'[o].nwaireq = 0 /\ opn'[o].abort_tskid = NULL
  BY DEF FreeOpn
<1>4. openq' = openq \ {o}
  BY <1>2, <1>3 DEF openq
<1>5. {pc[t].at, pc'[t].at} \cap (Driving \cup {"started"} \cup Aborting \cup {"abort_waitfn"}) = {}
  BY DEF Driving, Aborting
<1>6. pc'[t].at \notin Emptied \cup Aborted
  BY DEF Emptied, Aborted
<1>7. QueueInv' /\ TaskInv' /\ AnyInv'
  <2>1. \A p \in OpnCBs : p \notin openq' \/ opn'[p].resid = 0 => Of(p) = {}
    BY <1>2, <1>4 DEF DevInv, QueueInv
  <2> QED BY <1>2, <1>3, <1>5, <1>6, <2>1, RequestsKept DEF DevInv
<1>8. AbortInv'
  BY <1>1, <1>2, <1>3, <1>5, <1>6, AbortKept DEF DevInv
<1>9. OpenInv'
  <2>1. /\ \A p : Counts(p) <=> opn[p].resid # 0 /\ ~(pc[t].at = "closefn" /\ p = o)
        /\ \A p : Counts(p)' <=> opn'[p].resid # 0
        /\ \A u \in Tasks : pc'[u].at \notin {"openfn", "closefn"}
    BY CountsWorking DEF DevInv, Working
  <2>2. PICK n \in Units : n = opn[o].unitno
    BY <1>2 DEF DevInv, OpenInv
  <2>3. /\ ddev \in BOOLEAN /\ IsFiniteSet(openq) /\ drv \in [Units -> Int]
        /\ \A u \in Units :
             drv[u] = IF Complete(u) = {} THEN 0 ELSE IF ddev THEN Cardinality(Complete(u)) ELSE 1
    BY <1>2 DEF DevInv, DevTypes, OpenInv
  <2>4. \A p \in openq \ {o} : /\ Counts(p)' <=> Counts(p)
                               /\ opn'[p].unitno = opn[p].unitno
    BY <1>2, <2>1
  <2>5. ASSUME NEW u \in Units PROVE Complete(u)' = Complete(u) \ {o}
    BY <1>4, <2>4 DEF Complete
  <2>6. CASE pc[t].at = "closefn"
    <3>1. \A u \in Units : o \notin Complete(u)
      BY <2>1, <2>6 DEF Complete
    <3>2. ASSUME NEW u \in Units PROVE Complete(u)' = Complete(u)
      BY <2>5, <3>1
    <3>3. drv' \in [Units -> Int] /\ IsFiniteSet(openq') /\ ddev' # NULL
      BY <1>2, <1>4, <2>3, FS_Subset DEF DevInv, OpenInv
    <3>4. \A p \in openq' : opn'[p].unitno \in Units
      BY <1>4, <2>4 DEF DevInv, OpenInv
    <3>5. ASSUME NEW u \in Units
          PROVE  drv'[u] = IF Complete(u)' = {} THEN 0 ELSE IF ddev' THEN Cardinality(Complete(u)') ELSE 1
      BY <2>3, <3>2
    <3> QED BY <2>1, <3>3, <3>4, <3>5 DEF OpenInv, At
  <2>7. CASE pc[t].at = "close_sync"
    <3>1. ~ddev /\ \E p \in openq \ {o} : opn[p].unitno = opn[o].unitno /\ opn[p].resid # 0
      BY <2>7 DEF chkopen
    <3>2. \A p \in openq : p # o /\ opn[p].unitno = opn[o].unitno /\ opn[p].resid # 0 => p \in Complete(n)
      BY <2>1, <2>2, <2>7 DEF Complete
    <3>3. Complete(n) \ {o} # {}
      BY <3>1, <3>2
    <3>4. ASSUME NEW u \in Units \ {n} PROVE o \notin Complete(u)
      BY <2>2, <3>4 DEF Complete
    <3>5. ASSUME NEW u \in Units
          PROVE  drv'[u] = IF Complete(u)' = {} THEN 0 ELSE IF ddev' THEN Cardinality(Complete(u)') ELSE 1
      <4>1. CASE u = n
        BY <2>3, <2>5, <3>1, <3>3, <4>1
      <4>2. CASE u # n
        <5>1. Complete(u)' = Complete(u)
          BY <2>5, <3>4, <4>2
        <5> QED BY <2>3, <5>1
      <4> QED BY <4>1, <4>2
    <3>6. drv' \in [Units -> Int] /\ IsFiniteSet(openq') /\ ddev' # NULL
      BY <1>2, <1>4, <2>3, FS_Subset DEF DevInv, OpenInv
    <3>7. \A p \in openq' : opn'[p].unitno \in Units
      BY <1>4, <2>4 DEF DevInv, OpenInv
    <3> QED BY <2>1, <3>5, <3>6, <3>7 DEF OpenInv, At
  <2> QED BY <2>6, <2>7
<1> QED BY <1>1, <1>7, <1>8, <1>9

\* devmgr_cleanup goes on with another block of the group.
LEMMA BlocksMoved ==
  ASSUME BlockInv, CleanupInv, NEW t \in Tasks, Others(t), pc[t].at \in Closing, pc[t].cleanup,
         NEW o \in OpnCBs, o = pc[t].o, NEW p \in openq \ {o}, opn[p].grp = opn[o].grp,
         pc'[t].at = "abort", pc'[t].o = p, pc'[t].cleanup,
         \A q \in OpnCBs \ {o, p} : opn'[q] = opn[q],
         opn'[p].omode = opn[p].omode, opn'[p].grp = opn[p].grp, opn'[p].resid = -1,
         opn'[o].resid = 0, opn'[o].omode = {}
  PROVE  BlockInv' /\ CleanupInv' /\ opn[p].resid \in Nat \ {0}
<1>1. ~Has(t, p)
  BY DEF Has
<1>2. opn[p].resid \in Nat \ {0} /\ opn[p].resid = opn[p].grp
  <2>1. \A u \in Tasks \ {t} : resid[u] = opn[p].grp => pc[u].at = "user"
    BY DEF CleanupInv, At
  <2>2. \A u \in Tasks \ {t} : pc[u].cleanup => opn[pc[u].o].grp # opn[p].grp
    BY DEF CleanupInv
  <2> QED BY <1>1, <2>1, <2>2, BlockInUse
<1>3. openq' = openq \ {o} /\ openq \subseteq OpnCBs /\ p \in OpnCBs
  BY DEF openq
<1>4. \A u \in Tasks : ~Has(u, p)
  <2>1. ASSUME NEW u \in Tasks, Has(u, p) PROVE FALSE
    <3>1. pc[u].o = p /\ (pc[u].at \in Opening \/ pc[u].at \in Closing)
      BY <2>1 DEF Has
    <3>2. opn[p].resid \in {0, -1}
      BY <3>1 DEF BlockInv
    <3> QED BY <1>2, <3>2
  <2> QED BY <2>1
<1>5. Has(t, o)
  BY DEF Has
<1>6. \A u \in Tasks \ {t} : /\ pc'[u] = pc[u]
                             /\ pc[u].at \in Opening \cup Closing =>
                                  /\ pc[u].o \in openq' /\ pc[u].o \notin {o, p}
                                  /\ opn'[pc[u].o] = opn[pc[u].o]
  <2>1. ASSUME NEW u \in Tasks \ {t}, pc[u].at \in Opening \cup Closing
        PROVE  pc[u].o \in openq' /\ pc[u].o \notin {o, p} /\ opn'[pc[u].o] = opn[pc[u].o]
    <3>1. Has(u, pc[u].o) /\ pc[u].o \in openq
      BY <2>1 DEF Has, BlockInv
    <3>2. pc[u].o # o /\ pc[u].o # p
      BY <1>3, <1>4, <1>5, <3>1 DEF BlockInv
    <3> QED BY <1>3, <3>1, <3>2
  <2> QED BY <2>1 DEF Others
<1>7. pc'[t].at \in Closing /\ pc'[t].at \notin Opening
  BY DEF Opening, Closing
<1>8. \A u \in Tasks : \A q \in OpnCBs : Has(u, q)' <=> IF u = t THEN q = p ELSE Has(u, q)
  BY <1>6, <1>7 DEF Has
<1>9. \A u \in Tasks : pc'[u].at \in Opening =>
        pc'[u].o \in openq' /\ opn'[pc'[u].o].resid = 0 /\ opn'[pc'[u].o].grp = resid[u]
  BY <1>6, <1>7 DEF BlockInv
<1>10. \A u \in Tasks : pc'[u].at \in Closing =>
         /\ pc'[u].o \in openq' /\ opn'[pc'[u].o].resid = -1
         /\ pc'[u].cleanup \/ opn'[pc'[u].o].grp = resid[u]
  BY <1>3, <1>6 DEF BlockInv
<1>11. \A u, v \in Tasks : \A q \in OpnCBs : Has(u, q)' /\ Has(v, q)' => u = v
  BY <1>4, <1>8 DEF BlockInv
<1>12. ASSUME NEW q \in openq'
       PROVE  \/ opn'[q].resid \in Nat \ {0} /\ opn'[q].resid = opn'[q].grp
              \/ opn'[q].resid \in {0, -1} /\ \E u \in Tasks : Has(u, q)'
  <2>1. CASE q = p
    BY <1>3, <1>8, <2>1
  <2>2. CASE q # p
    <3>1. q \in openq /\ q \in OpnCBs /\ q # o /\ opn'[q] = opn[q]
      BY <1>3, <2>2
    <3>2. ~Has(t, q)
      BY <3>1 DEF Has
    <3> QED BY <1>8, <3>1, <3>2 DEF BlockInv
  <2> QED BY <2>1, <2>2
<1>13. \A q \in OpnCBs \ openq' : opn'[q].resid = 0
  BY <1>3 DEF BlockInv
<1>14. \A u \in Tasks : /\ pc'[u].cleanup <=> pc[u].cleanup
                        /\ pc[u].cleanup => /\ pc'[u].at \in Closing
                                            /\ opn'[pc'[u].o].grp = opn[pc[u].o].grp
  BY <1>6, <1>7 DEF CleanupInv
<1>15. \A u, v \in Tasks :
         pc'[u].cleanup /\ v # u /\ resid[v] = opn'[pc'[u].o].grp => pc'[v].at = "user"
  <2>1. ASSUME NEW u \in Tasks, NEW v \in Tasks, pc[u].cleanup, v # u, resid[v] = opn[pc[u].o].grp
        PROVE  pc'[v].at = "user"
    <3>1. pc[v].at = "user"
      BY <2>1 DEF CleanupInv, At
    <3>2. v # t
      BY <3>1 DEF Closing, Aborting, Aborted
    <3> QED BY <1>6, <3>1, <3>2
  <2> QED BY <1>14, <2>1
<1>16. \A u, v \in Tasks :
         pc'[u].cleanup /\ pc'[v].cleanup /\ opn'[pc'[u].o].grp = opn'[pc'[v].o].grp => u = v
  BY <1>14 DEF CleanupInv
<1>17. BlockInv'
  BY <1>9, <1>10, <1>11, <1>12, <1>13 DEF BlockInv
<1>18. CleanupInv'
  BY <1>14, <1>15, <1>16 DEF CleanupInv, At
<1> QED BY <1>2, <1>17, <1>18

\* A close ends.
LEMMA CloseEndsStep ==
  ASSUME DevInv, NEW t \in Tasks, pc[t].at \in {"close_sync", "closefn"},
         pc[t].at = "close_sync" => chkopen(pc[t].o) /\ ~ddev,
         close_ends(t), UNCHANGED <<ddev, req, dabort, drv>>
  PROVE  DevInv'
<1>1. pc[t].at \in Closing
  BY DEF Closing, Aborted
<1>2. PICK o \in OpnCBs : o = pc[t].o
  BY <1>1, ClosingBlock
<1> DEFINE rest == {p \in openq \ {pc[t].o} : opn[p].grp = opn[pc[t].o].grp}
           free == [opn EXCEPT ![o] = FreeOpn]
<1>3. PICK back \in BOOLEAN : back <=> ~(pc[t].cleanup /\ rest # {})
  BY DEF DevInv, DevTypes, PC
<1>4. leaveSyncWait(t, back)
  <2>1. leaveSyncWait(t, ~(pc[t].cleanup /\ rest # {}))
    BY DEF close_ends
  <2> HIDE DEF rest
  <2> QED BY ONLY <1>3, <2>1 DEF leaveSyncWait
<1>5. /\ opn \in [OpnCBs -> OPN] /\ pc \in [Tasks -> PC]
      /\ free \in [OpnCBs -> OPN] /\ free[o] = FreeOpn /\ \A q \in OpnCBs \ {o} : free[q] = opn[q]
  <2>1. FreeOpn \in OPN
    BY DEF FreeOpn, OPN
  <2> QED BY <2>1 DEF DevInv, DevTypes
<1>6. FreeOpn.resid = 0 /\ FreeOpn.omode = {}
  BY DEF FreeOpn
<1>7. CASE back
  <2>1. opn' = free /\ Return(t)
    BY <1>2, <1>3, <1>7 DEF close_ends
  <2>2. pc' \in [Tasks -> PC] /\ Others(t) /\ pc'[t].at = "user" /\ ~pc'[t].cleanup
    BY <1>5, <2>1, ReturnEffect
  <2>3. Frees(t, o)
    <3> HIDE DEF free
    <3> QED BY <1>5, <2>1 DEF Frees
  <2>4. SyncInv' /\ QueueInv' /\ TaskInv' /\ AnyInv' /\ AbortInv' /\ OpenInv'
    BY <1>2, <1>4, <2>2, <2>3, BlockFreed
  <2>5. BlockInv' /\ CleanupInv'
    <3> HIDE DEF free
    <3> QED BY <1>1, <1>2, <1>5, <1>6, <2>1, <2>2, BlocksLeft DEF DevInv
  <2>6. DevTypes'
    <3> HIDE DEF free
    <3> QED BY <1>5, <2>1, <2>2 DEF DevInv, DevTypes
  <2> QED BY <2>4, <2>5, <2>6 DEF DevInv
<1>8. CASE ~back
  <2>1. PICK p \in rest : /\ opn' = [free EXCEPT ![p].resid = -1]
                          /\ pc' = [pc EXCEPT ![t].at = "abort", ![t].o = p]
    BY <1>2, <1>3, <1>8 DEF close_ends
  <2>2. p \in openq \ {o} /\ p \in OpnCBs /\ opn[p].grp = opn[o].grp /\ pc[t].cleanup
    BY <1>2, <1>3, <1>8, <2>1 DEF openq
  <2>3. /\ pc' \in [Tasks -> PC] /\ Others(t) /\ pc'[t].at = "abort" /\ pc'[t].o = p
        /\ pc'[t].cleanup
    <3>1. pc[t] \in PC /\ "abort" \in Places
      BY <1>5 DEF Places, Closing
    <3> QED BY <1>5, <2>1, <2>2, <3>1 DEF PC, Others
  <2>4. /\ opn' \in [OpnCBs -> OPN] /\ opn'[o] = FreeOpn
        /\ \A q \in OpnCBs \ {o, p} : opn'[q] = opn[q]
        /\ opn'[p] = [opn[p] EXCEPT !.resid = -1]
    <3>1. opn' = [free EXCEPT ![p] = [free[p] EXCEPT !.resid = -1]]
      BY <2>1
    <3>2. free[p] = opn[p] /\ p # o
      BY <1>5, <2>2
    <3>3. [opn[p] EXCEPT !.resid = -1] \in OPN
      BY <1>5, <2>2, ResidField
    <3> HIDE DEF free
    <3> QED BY <1>5, <2>2, <3>1, <3>2, <3>3
  <2>5. /\ opn'[p].resid = -1 /\ opn'[p].grp = opn[p].grp /\ opn'[p].omode = opn[p].omode
        /\ opn'[p].unitno = opn[p].unitno /\ opn'[p].requestq = opn[p].requestq
        /\ opn'[p].nwaireq = opn[p].nwaireq /\ opn'[p].abort_tskid = opn[p].abort_tskid
        /\ opn'[p].abort_cnt = opn[p].abort_cnt
    <3>1. opn[p] \in OPN
      BY <1>5, <2>2
    <3> QED BY <2>4, <3>1, ResidField
  <2>6. BlockInv' /\ CleanupInv' /\ opn[p].resid \in Nat \ {0}
    <3>1. opn'[o].resid = 0 /\ opn'[o].omode = {}
      BY <1>6, <2>4
    <3> QED BY <1>1, <1>2, <2>2, <2>3, <2>4, <2>5, <3>1, BlocksMoved DEF DevInv
  <2>7. Frees(t, o)
    <3>1. opn[p].resid # 0 /\ opn'[p].resid # 0
      BY <2>5, <2>6
    <3>2. ASSUME NEW q \in OpnCBs \ {o}, q # p PROVE opn'[q] = opn[q]
      BY <2>4, <3>2
    <3> QED BY <2>4, <2>5, <3>1, <3>2 DEF Frees
  <2>8. SyncInv' /\ QueueInv' /\ TaskInv' /\ AnyInv' /\ AbortInv' /\ OpenInv'
    BY <1>2, <1>4, <2>3, <2>7, BlockFreed
  <2>9. DevTypes'
    BY <2>3, <2>4 DEF DevInv, DevTypes
  <2> QED BY <2>6, <2>8, <2>9 DEF DevInv
<1> QED BY <1>7, <1>8

\* close_device.
LEMMA CloseDeviceStep ==
  ASSUME DevInv, NEW t \in Tasks, close_device(t)
  PROVE  DevInv'
<1>1. CASE ~(chkopen(pc[t].o) /\ ~ddev)
  BY <1>1, ClosefnStep
<1>2. CASE chkopen(pc[t].o) /\ ~ddev
  <2>1. /\ pc[t].at = "close_sync" /\ UNCHANGED <<ddev, req, dabort, drv>> /\ close_ends(t)
    BY <1>2 DEF close_device, At
  <2> QED BY <1>2, <2>1, CloseEndsStep
<1> QED BY <1>1, <1>2

\* closefn returns.
LEMMA ClosefnReturnsStep ==
  ASSUME DevInv, NEW t \in Tasks, closefn_returns(t)
  PROVE  DevInv'
<1>1. /\ pc[t].at = "closefn" /\ UNCHANGED <<ddev, req, dabort, drv>> /\ close_ends(t)
  BY DEF closefn_returns, At, locks
<1> QED BY <1>1, CloseEndsStep

---------------------------------------------------------------------------
(* Requests: a task enters the driver. *)

\* A task outside of the driver enters it with requests D of block o.
Enters(t, o, D) ==
  /\ UNCHANGED <<ddev, syncq, disabled, dabort, drv>> /\ Others(t)
  /\ opn[o].resid = resid[t]
  /\ D \subseteq ReqCBs /\ D # {}
  /\ \A s \in D : /\ req[s].opncb \in {o, NULL} /\ req[s].tskid = NULL
                  /\ req'[s].opncb = o /\ req'[s].tskid = t
  /\ \A s \in ReqCBs \ D : req'[s] = req[s]
  /\ opn' \in [OpnCBs -> OPN] /\ req' \in [ReqCBs -> REQ] /\ pc' \in [Tasks -> PC]
  /\ Lists(opn'[o].requestq, Of(o) \cup D)
  /\ \A p \in OpnCBs \ {o} : opn'[p] = opn[p]
  /\ opn'[o].omode = opn[o].omode /\ opn'[o].unitno = opn[o].unitno
  /\ opn'[o].resid = opn[o].resid /\ opn'[o].grp = opn[o].grp
  /\ opn'[o].abort_tskid = opn[o].abort_tskid /\ opn'[o].abort_cnt = opn[o].abort_cnt
  /\ pc[t].at \in {"user", "started"} /\ (pc[t].at = "user" => ~Cleaned(resid[t]))
  /\ pc'[t].at \in Driving /\ pc'[t].o = o /\ Range(pc'[t].rs) = D /\ ~pc'[t].cleanup
  /\ IF pc'[t].kind = "any"
     THEN pc'[t].at = "waitfn" /\ opn'[o].nwaireq > 0 /\ Back(o) = {}
     ELSE opn'[o].nwaireq = 0 /\ opn[o].nwaireq = 0 /\ \E r \in ReqCBs : pc'[t].rs = <<r>>

\* Nobody closes a block in use.
LEMMA InUse ==
  ASSUME DevInv, NEW t \in Tasks, NEW o \in OpnCBs, opn[o].resid = resid[t]
  PROVE  /\ o \in openq /\ opn[o].resid \in Nat \ {0} /\ opn[o].abort_tskid = NULL
         /\ \A u \in Tasks : pc[u].at \in Closing => pc[u].o \in OpnCBs \ {o}
<1>1. opn[o].resid \in Nat \ {0}
  BY DeviceAssumption
<1>2. o \in openq
  BY <1>1 DEF DevInv, BlockInv
<1>3. \A u \in Tasks : pc[u].at \in Closing => pc[u].o \in OpnCBs \ {o}
  BY <1>1, ClosingBlock DEF DevInv, BlockInv
<1>4. opn[o].abort_tskid = NULL
  <2>1. ASSUME opn[o].abort_tskid # NULL PROVE FALSE
    BY <1>3, <2>1 DEF DevInv, AbortInv, Closing
  <2> QED BY <2>1
<1> QED BY <1>1, <1>2, <1>3, <1>4

\* The driver is called for requests of a block in use.
LEMMA EnterStep ==
  ASSUME DevInv, NEW t \in Tasks, NEW o \in OpnCBs, NEW D, Enters(t, o, D)
  PROVE  DevInv'
<1> USE DEF Enters
<1>1. /\ o \in openq /\ opn[o].abort_tskid = NULL
      /\ \A u \in Tasks : pc[u].at \in Closing => pc[u].o \in OpnCBs \ {o}
  BY InUse
<1>2. \A u \in Tasks \ {t} : pc'[u] = pc[u]
  BY DEF Others
<1>3. /\ {pc[t].at, pc'[t].at} \cap (Opening \cup Closing \cup Working \cup Queueing \cup Aborting
                                        \cup Aborted \cup Emptied) = {}
      /\ pc[t].at \notin Driving /\ pc'[t].at # "started"
  BY DEF Opening, Closing, Working, Queueing, Aborting, Aborted, Emptied, Driving
<1>4. /\ \A p \in OpnCBs : Of(p)' = IF p = o THEN Of(o) \cup D ELSE Of(p)
      /\ \A p \in OpnCBs : Back(p)' = IF p = o THEN Back(o) \cup {t} ELSE Back(p)
  <2>1. ASSUME NEW p \in OpnCBs PROVE Of(p)' = IF p = o THEN Of(o) \cup D ELSE Of(p)
    <3>1. \A s \in ReqCBs : req'[s].opncb = p <=> IF s \in D THEN p = o ELSE req[s].opncb = p
      OBVIOUS
    <3>2. \A s \in D : req[s].opncb = p => p = o
      BY DeviceAssumption
    <3> QED BY <3>1, <3>2 DEF Of
  <2>2. \A p \in OpnCBs : Back(p)' = IF p = o THEN Back(o) \cup {t} ELSE Back(p)
    BY <1>2, <1>3 DEF Back
  <2> QED BY <2>1, <2>2
<1>5. DevTypes' /\ openq' = openq
  BY DEF DevInv, DevTypes, openq
<1>6. SyncInv'
  BY <1>3, SyncKept DEF DevInv, SyncInv
<1>7. BlockInv' /\ CleanupInv'
  BY <1>3, BlocksKept DEF DevInv
<1>8. QueueInv'
  <2>1. ASSUME NEW p \in OpnCBs PROVE Lists(opn'[p].requestq, Of(p)')
    BY <1>4 DEF DevInv, QueueInv
  <2>2. (\A p \in OpnCBs : p \notin openq \/ opn[p].resid = 0 => Of(p) = {})'
    <3>1. opn[o].resid # 0
      BY DeviceAssumption
    <3> QED BY <1>1, <1>4, <1>5, <3>1 DEF DevInv, QueueInv
  <2>3. (\A u \in Tasks : pc[u].at \in Emptied => Of(pc[u].o) = {})'
    <3>1. ASSUME NEW u \in Tasks, pc'[u].at \in Emptied PROVE (Of(pc[u].o) = {})'
      <4>0. pc'[u] = pc[u] /\ pc[u].at \in Emptied
        BY <1>2, <1>3, <3>1
      <4>1. pc[u].o \in OpnCBs \ {o} /\ Of(pc[u].o) = {}
        <5>1. pc[u].at \in Closing
          BY <4>0 DEF Emptied, Closing, Aborted
        <5>2. Of(pc[u].o) = {}
          BY <4>0 DEF DevInv, QueueInv
        <5> QED BY <1>1, <5>1, <5>2
      <4>2. PICK p \in OpnCBs : p = pc[u].o
        BY <4>1
      <4>3. Of(p)' = {} /\ pc'[u].o = p
        BY <1>4, <4>0, <4>1, <4>2
      <4> QED BY <4>3 DEF Of
    <3> QED BY <3>1
  <2> QED BY <2>1, <2>2, <2>3 DEF QueueInv
<1>9. TaskInv'
  <2>0. TaskInv
    BY DEF DevInv
  <2>1. \A u \in Tasks \ {t} : \A r \in ReqCBs : req[r].tskid = u => r \notin D
    BY DeviceAssumption
  <2>2. ASSUME NEW u \in Tasks, pc'[u].at \in Driving
        PROVE  /\ pc'[u].o \in OpnCBs
               /\ \E r \in ReqCBs : r \in Range(pc'[u].rs)
               /\ \A r \in Range(pc'[u].rs) :
                    r \in ReqCBs /\ req'[r].opncb = pc'[u].o /\ req'[r].tskid = u
               /\ pc'[u].kind = "any" => pc'[u].at = "waitfn"
    <3>1. CASE u = t
      <4>1. PICK s \in D : s \in ReqCBs
        OBVIOUS
      <4>2. pc'[t].o = o /\ Range(pc'[t].rs) = D /\ (pc'[t].kind = "any" => pc'[t].at = "waitfn")
        OBVIOUS
      <4>3. \A r \in D : r \in ReqCBs /\ req'[r].opncb = o /\ req'[r].tskid = t
        OBVIOUS
      <4> QED BY ONLY <3>1, <4>1, <4>2, <4>3, o \in OpnCBs
    <3>2. CASE u # t
      BY <1>2, <2>0, <2>1, <2>2, <3>2 DEF TaskInv, At
    <3> QED BY <3>1, <3>2
  <2>3. ASSUME NEW u \in Tasks, (pc'[u].at \in Driving /\ pc'[u].kind # "any") \/ pc'[u].at = "started"
        PROVE  \E r \in ReqCBs : pc'[u].rs = <<r>>
    BY <1>2, <1>3, <2>0, <2>3 DEF TaskInv, At
  <2>4. ASSUME NEW u \in Tasks, pc'[u].at = "started" PROVE pc'[u].o \in OpnCBs /\ pc'[u].kind = "sync"
    BY <1>2, <1>3, <2>0, <2>4 DEF TaskInv, At
  <2>5. ASSUME NEW r \in ReqCBs, req'[r].tskid # NULL
        PROVE  /\ req'[r].tskid \in Tasks
               /\ pc'[req'[r].tskid].at \in Driving /\ r \in Range(pc'[req'[r].tskid].rs)
    <3>1. CASE r \in D
      BY <3>1
    <3>2. CASE r \notin D
      BY <1>2, <1>3, <2>0, <2>5, <3>2 DEF TaskInv
    <3> QED BY <3>1, <3>2
  <2> QED BY <2>2, <2>3, <2>4, <2>5 DEF TaskInv, At
<1>10. AnyInv'
  <2>0. AnyInv /\ TaskInv
    BY DEF DevInv
  <2>1. ASSUME NEW p \in OpnCBs, opn'[p].nwaireq > 0
        PROVE  \E u \in Tasks : pc'[u].at = "waitfn" /\ pc'[u].kind = "any" /\ pc'[u].o = p
    <3>1. CASE p = o
      BY <2>1, <3>1
    <3>2. CASE p # o
      <4>1. PICK u \in Tasks : pc[u].at = "waitfn" /\ pc[u].kind = "any" /\ pc[u].o = p
        BY <2>0, <2>1, <3>2 DEF AnyInv, At
      <4> QED BY <1>2, <1>3, <4>1 DEF Driving
    <3> QED BY <3>1, <3>2
  <2>2. ASSUME NEW u \in Tasks, pc'[u].at = "waitfn", pc'[u].kind = "any"
        PROVE  (opn[pc[u].o].nwaireq > 0 /\ Back(pc[u].o) = {u})'
    <3>1. CASE u = t
      <4>1. pc'[u].o = o /\ opn'[o].nwaireq > 0 /\ Back(o)' = {u}
        BY <1>4, <2>2, <3>1
      <4> QED BY <4>1 DEF Back
    <3>2. CASE u # t
      <4>1. pc'[u] = pc[u] /\ pc[u].at = "waitfn" /\ pc[u].kind = "any"
        BY <1>2, <2>2, <3>2
      <4>2. opn[pc[u].o].nwaireq > 0 /\ Back(pc[u].o) = {u} /\ pc[u].o \in OpnCBs
        BY <2>0, <4>1 DEF AnyInv, TaskInv, At, Driving
      <4>3. pc[u].o # o
        BY <4>2
      <4>4. PICK p \in OpnCBs : p = pc[u].o
        BY <4>2
      <4>5. Back(p)' = {u} /\ opn'[p].nwaireq > 0 /\ pc'[u].o = p
        BY <1>4, <4>1, <4>2, <4>3, <4>4
      <4> QED BY <4>5 DEF Back
    <3> QED BY <3>1, <3>2
  <2> QED BY <2>1, <2>2 DEF AnyInv, At
<1>11. AbortInv'
  <2>0. AbortInv /\ Aborting \subseteq Closing /\ Aborted \subseteq Closing
    BY DEF DevInv, Closing
  <2>1. ASSUME NEW u \in Tasks, pc'[u].at \in Closing
        PROVE  /\ pc'[u] = pc[u] /\ pc[u].o \in OpnCBs /\ opn'[pc[u].o] = opn[pc[u].o]
               /\ Back(pc[u].o)' = Back(pc[u].o) /\ Of(pc[u].o)' = Of(pc[u].o)
    BY <1>1, <1>2, <1>3, <1>4, <2>1
  <2>2. ASSUME NEW p \in OpnCBs, opn'[p].abort_tskid # NULL
        PROVE  /\ opn'[p].abort_tskid \in Tasks
               /\ pc'[opn'[p].abort_tskid].at \in Aborting
               /\ pc'[opn'[p].abort_tskid].o = p
    BY <1>1, <1>2, <1>3, <2>0, <2>2 DEF AbortInv
  <2>3. (\A u \in Tasks : At(u, "abortfn") => dabort = u)'
    BY <2>0, <2>1 DEF AbortInv, At, Closing, Aborting
  <2>4. (\A u \in Tasks : pc[u].at \in Aborting => opn[pc[u].o].abort_tskid = u)'
    BY <2>0, <2>1 DEF AbortInv
  <2>5. ASSUME NEW u \in Tasks, pc'[u].at \in {"abort_test", "abort_wait"}
        PROVE  (/\ opn[pc[u].o].abort_cnt = Cardinality(Back(pc[u].o))
                /\ \A v \in Back(pc[u].o), r \in ReqCBs :
                     pc[v].kind # "any" /\ r \in Range(pc[v].rs) => req[r].abort)'
    <3>1. PICK p \in OpnCBs : p = pc[u].o
      BY <2>1, <2>5 DEF Closing, Aborting
    <3>2. /\ pc'[u] = pc[u] /\ opn'[p] = opn[p] /\ Back(p)' = Back(p) /\ p # o
      BY <1>1, <1>2, <1>3, <2>1, <2>5, <3>1 DEF Closing, Aborting
    <3>3. /\ opn[p].abort_cnt = Cardinality(Back(p))
          /\ \A v \in Back(p), r \in ReqCBs :
               pc[v].kind # "any" /\ r \in Range(pc[v].rs) => req[r].abort
      BY <2>0, <2>5, <3>1, <3>2 DEF AbortInv
    <3>4. \A v \in Back(p) : pc'[v] = pc[v] /\ \A r \in Range(pc[v].rs) : req[r].tskid = v /\ v \in Tasks
      BY <1>2, <1>3 DEF Back, DevInv, TaskInv
    <3>5. \A v \in Back(p), r \in ReqCBs : r \in Range(pc[v].rs) => req'[r] = req[r]
      BY <3>4, DeviceAssumption
    <3>6. (/\ opn[p].abort_cnt = Cardinality(Back(p))
           /\ \A v \in Back(p), r \in ReqCBs :
                pc[v].kind # "any" /\ r \in Range(pc[v].rs) => req[r].abort)'
      BY <3>2, <3>3, <3>4, <3>5
    <3>7. pc'[u].o = p
      BY <3>1, <3>2
    <3> QED BY <3>6, <3>7 DEF Back
  <2>6. (\A u \in Tasks : At(u, "abort_wait") => (u \in disabled <=> opn[pc[u].o].abort_cnt = 0))'
    BY <2>0, <2>1 DEF AbortInv, At, Closing, Aborting
  <2>7. ASSUME NEW u \in Tasks, pc'[u].at \in Aborted PROVE (Back(pc[u].o) = {})'
    <3>1. pc'[u] = pc[u] /\ pc[u].o \in OpnCBs \ {o} /\ Back(pc[u].o) = {}
      BY <1>1, <2>0, <2>1, <2>7 DEF AbortInv
    <3>2. PICK p \in OpnCBs : p = pc[u].o
      BY <3>1
    <3>3. Back(p)' = {} /\ pc'[u].o = p
      BY <1>4, <3>1, <3>2
    <3> QED BY <3>3 DEF Back
  <2>8. (\A u \in Tasks : At(u, "abort_waitfn") =>
           \E r \in ReqCBs : r \in Of(pc[u].o) /\ pc[u].rs = <<r>>)'
    BY <2>0, <2>1 DEF AbortInv, At, Closing, Aborted
  <2> QED BY <2>2, <2>3, <2>4, <2>5, <2>6, <2>7, <2>8 DEF AbortInv
<1>12. OpenInv'
  <2>1. {pc[t].at, pc'[t].at} \cap {"openfn", "closefn"} = {}
    BY DEF Driving
  <2> QED BY <2>1, OpenKept DEF DevInv
<1> QED BY <1>5, <1>6, <1>7, <1>8, <1>9, <1>10, <1>11, <1>12 DEF DevInv

\* The fields of blocks the requests change.
Requested(b, n, q) == [b EXCEPT !.syncreq = n, !.requestq = q]
AnyWaited(b, n, q) == [b EXCEPT !.nwaireq = n, !.waireqlst = q]
OneWaited(b, n)    == [b EXCEPT !.waitone = n]
Waited(x, t, b)    == [x EXCEPT !.tskid = t, !.abort = b]

\* And the ones they leave alone.
Untouched(c, b) ==
  /\ c.omode = b.omode /\ c.unitno = b.unitno /\ c.resid = b.resid /\ c.grp = b.grp
  /\ c.abort_tskid = b.abort_tskid /\ c.abort_cnt = b.abort_cnt

\* A request keeps the rest of the block.
LEMMA RequestedFields ==
  ASSUME NEW b \in OPN, NEW q \in Seq(ReqCBs), NEW n \in Int
  PROVE  /\ Requested(b, n, q) \in OPN /\ Untouched(Requested(b, n, q), b)
         /\ Requested(b, n, q).requestq = q /\ Requested(b, n, q).nwaireq = b.nwaireq
BY DEF OPN, Requested, Untouched

\* The same of a wait for any request.
LEMMA AnyWaitedFields ==
  ASSUME NEW b \in OPN, NEW q \in Seq(ReqCBs), NEW n \in Nat
  PROVE  /\ AnyWaited(b, n, q) \in OPN /\ Untouched(AnyWaited(b, n, q), b)
         /\ AnyWaited(b, n, q).requestq = b.requestq /\ AnyWaited(b, n, q).nwaireq = n
BY DEF OPN, AnyWaited, Untouched

\* And of a wait for one.
LEMMA OneWaitedFields ==
  ASSUME NEW b \in OPN, NEW n \in Int
  PROVE  /\ OneWaited(b, n) \in OPN /\ Untouched(OneWaited(b, n), b)
         /\ OneWaited(b, n).requestq = b.requestq /\ OneWaited(b, n).nwaireq = b.nwaireq
BY DEF OPN, OneWaited, Untouched

\* A task as a call sets it up.
Called(x, o, q, k) == [Idle EXCEPT !.at = x, !.o = o, !.rs = q, !.kind = k]

\* Its fields.
LEMMA CalledTask ==
  ASSUME NEW x \in Places, NEW o \in OpnCBs, NEW q \in Seq(ReqCBs), NEW k \in {"async", "sync", "any"}
  PROVE  /\ Called(x, o, q, k) \in PC
         /\ Called(x, o, q, k).at = x /\ Called(x, o, q, k).o = o /\ Called(x, o, q, k).rs = q
         /\ Called(x, o, q, k).kind = k /\ ~Called(x, o, q, k).cleanup
<1>1. Idle \in PC /\ ~Idle.cleanup
  BY IdleTask DEF Idle
<1> QED BY <1>1 DEF Called, PC

\* The requests of one place.
LEMMA OneRequest ==
  ASSUME NEW r \in ReqCBs
  PROVE  <<r>> \in Seq(ReqCBs) /\ Range(<<r>>) = {r}
BY DEF Range

\* request.
LEMMA RequestStep ==
  ASSUME DevInv, ~MixedWaits, NEW t \in Tasks, NEW o \in OpnCBs, NEW bit, NEW r \in ReqCBs,
         NEW kind \in {"async", "sync"}, request(t, o, bit, r, kind)
  PROVE  DevInv'
<1>1. /\ pc[t].at = "user" /\ ~Cleaned(resid[t]) /\ opn[o].resid = resid[t] /\ req[r].opncb = NULL
      /\ UNCHANGED <<ddev, syncq, disabled, dabort, drv>>
      /\ ~(opn[o].nwaireq > 0)
      /\ req' = [req EXCEPT ![r] = [opncb |-> o, tskid |-> t, abort |-> FALSE]]
      /\ pc' = [pc EXCEPT ![t] = Called("execfn", o, <<r>>, kind)]
  BY DEF request, Calling, At, check_devdesc, mixed, locks, Called
<1>2. opn \in [OpnCBs -> OPN] /\ req \in [ReqCBs -> REQ] /\ pc \in [Tasks -> PC] /\ opn[o] \in OPN
  BY DEF DevInv, DevTypes
<1>3. PICK k \in Int : k = IF kind = "sync" THEN opn[o].syncreq + 1 ELSE opn[o].syncreq
  BY <1>2 DEF OPN
<1>4. Lists(opn[o].requestq, Of(o)) /\ r \notin Of(o) /\ opn[o].nwaireq = 0
  <2>1. opn[o].nwaireq = 0
    BY <1>1, <1>2 DEF OPN
  <2>2. r \notin Of(o)
    BY <1>1, DeviceAssumption DEF Of
  <2> QED BY <2>1, <2>2 DEF DevInv, QueueInv
<1>5. PICK q : q = Append(opn[o].requestq, r)
  OBVIOUS
<1>6. Lists(q, Of(o) \cup {r}) /\ q \in Seq(ReqCBs)
  <2>1. Lists(q, Of(o) \cup {r})
    BY <1>4, <1>5, AppendList
  <2>2. Of(o) \cup {r} \in SUBSET ReqCBs
    BY DEF Of
  <2> QED BY <2>1, <2>2, ListsSeq
<1>7. opn' = [opn EXCEPT ![o] = Requested(opn[o], k, q)]
  BY <1>2, <1>3, <1>5 DEF request, Requested
<1>8. req[r].tskid = NULL
  BY <1>1, DeviceAssumption DEF DevInv, TaskInv
<1>9. /\ pc' \in [Tasks -> PC] /\ Others(t) /\ pc'[t].at = "execfn" /\ pc'[t].o = o
      /\ pc'[t].rs = <<r>> /\ Range(pc'[t].rs) = {r} /\ ~pc'[t].cleanup /\ pc'[t].kind = kind
  <2>1. "execfn" \in Places /\ kind \in {"async", "sync", "any"}
    BY DEF Places, Driving
  <2>2. PICK s \in Seq(ReqCBs) : s = <<r>> /\ Range(s) = {r}
    BY OneRequest
  <2>3. PICK c \in PC : /\ c = Called("execfn", o, s, kind) /\ c.at = "execfn" /\ c.o = o
                        /\ c.rs = s /\ c.kind = kind /\ ~c.cleanup
    BY <2>1, CalledTask
  <2>4. pc' = [pc EXCEPT ![t] = c]
    BY <1>1, <2>2, <2>3
  <2> QED BY <1>2, <2>2, <2>3, <2>4 DEF Others
<1>10. /\ opn' \in [OpnCBs -> OPN] /\ \A p \in OpnCBs \ {o} : opn'[p] = opn[p]
       /\ opn'[o] = Requested(opn[o], k, q) /\ Untouched(opn'[o], opn[o])
       /\ opn'[o].requestq = q /\ opn'[o].nwaireq = 0
  <2>1. /\ Requested(opn[o], k, q) \in OPN /\ Untouched(Requested(opn[o], k, q), opn[o])
        /\ Requested(opn[o], k, q).requestq = q
        /\ Requested(opn[o], k, q).nwaireq = opn[o].nwaireq
    BY <1>2, <1>6, RequestedFields
  <2> QED BY <1>2, <1>4, <1>7, <2>1
<1>11. /\ req' \in [ReqCBs -> REQ] /\ \A s \in ReqCBs \ {r} : req'[s] = req[s]
       /\ req'[r].opncb = o /\ req'[r].tskid = t
  BY <1>1, <1>2 DEF REQ
<1>12. Enters(t, o, {r})
  BY <1>1, <1>4, <1>6, <1>8, <1>9, <1>10, <1>11 DEF Enters, Untouched, Driving
<1> QED BY <1>12, EnterStep

\* A wait for one request.
LEMMA WaitOneStep ==
  ASSUME DevInv, NEW t \in Tasks, NEW o \in OpnCBs, NEW r \in ReqCBs,
         opn[o].resid = resid[t], waitable(o, r), NEW p \in [Tasks -> PC], wait_one(t, o, r, p),
         pc[t].at \in {"user", "started"}, pc[t].at = "user" => ~Cleaned(resid[t]),
         \A u \in Tasks \ {t} : p[u] = pc[u],
         p[t].o = o, p[t].rs = <<r>>, p[t].kind # "any", ~p[t].cleanup
  PROVE  DevInv'
<1>1. /\ UNCHANGED <<ddev, syncq, disabled, dabort, drv>>
      /\ pc' = [p EXCEPT ![t].at = "waitfn"]
      /\ req[r].opncb = o /\ opn[o].nwaireq = 0 /\ req[r].tskid = NULL
      /\ opn' = [opn EXCEPT ![o].waitone = @ + 1]
      /\ req' = [req EXCEPT ![r].tskid = t, ![r].abort = @ \/ pc[t].brk]
  BY DEF wait_one, waitable, locks
<1>2. opn \in [OpnCBs -> OPN] /\ req \in [ReqCBs -> REQ] /\ pc \in [Tasks -> PC] /\ opn[o] \in OPN
  BY DEF DevInv, DevTypes
<1>3. PICK k \in Int : k = opn[o].waitone + 1
  BY <1>2 DEF OPN
<1>4. opn' = [opn EXCEPT ![o] = OneWaited(opn[o], k)]
  BY <1>1, <1>3 DEF OneWaited
<1>5. PICK b \in BOOLEAN : b = (req[r].abort \/ pc[t].brk)
  OBVIOUS
<1>6. req' = [req EXCEPT ![r] = Waited(req[r], t, b)]
  BY <1>1, <1>2, <1>5 DEF Waited
<1>7. Lists(opn[o].requestq, Of(o) \cup {r})
  <2>1. Of(o) \cup {r} = Of(o)
    BY <1>1 DEF Of
  <2> QED BY <2>1 DEF DevInv, QueueInv
<1>8. /\ pc' \in [Tasks -> PC] /\ Others(t) /\ pc'[t].at = "waitfn" /\ pc'[t].o = o
      /\ pc'[t].rs = <<r>> /\ Range(pc'[t].rs) = {r} /\ ~pc'[t].cleanup /\ pc'[t].kind # "any"
  <2>1. /\ pc' \in [Tasks -> PC] /\ (\A u \in Tasks \ {t} : pc'[u] = p[u]) /\ pc'[t].at = "waitfn"
        /\ pc'[t].o = p[t].o /\ pc'[t].rs = p[t].rs /\ pc'[t].cleanup = p[t].cleanup
        /\ pc'[t].kind = p[t].kind
    BY <1>1 DEF PC, Places, Driving
  <2> QED BY <2>1, OneRequest DEF Others
<1>9. /\ opn' \in [OpnCBs -> OPN] /\ \A q \in OpnCBs \ {o} : opn'[q] = opn[q]
      /\ Untouched(opn'[o], opn[o])
      /\ opn'[o].requestq = opn[o].requestq /\ opn'[o].nwaireq = 0
  <2>1. /\ OneWaited(opn[o], k) \in OPN /\ Untouched(OneWaited(opn[o], k), opn[o])
        /\ OneWaited(opn[o], k).requestq = opn[o].requestq
        /\ OneWaited(opn[o], k).nwaireq = opn[o].nwaireq
    BY <1>2, OneWaitedFields
  <2> QED BY <1>1, <1>2, <1>4, <2>1
<1>10. /\ req' \in [ReqCBs -> REQ] /\ \A s \in ReqCBs \ {r} : req'[s] = req[s]
       /\ req'[r].opncb = o /\ req'[r].tskid = t
  <2>1. /\ Waited(req[r], t, b) \in REQ /\ Waited(req[r], t, b).opncb = o
        /\ Waited(req[r], t, b).tskid = t
    <3>1. req[r] \in REQ
      BY <1>2
    <3> QED BY <1>1, <3>1 DEF REQ, Waited
  <2> QED BY <1>2, <1>6, <2>1
<1>11. Enters(t, o, {r})
  BY <1>1, <1>7, <1>8, <1>9, <1>10 DEF Enters, Untouched, Driving
<1> QED BY <1>11, EnterStep

\* tk_wai_dev.
LEMMA WaiStep ==
  ASSUME DevInv, NEW t \in Tasks, NEW o \in OpnCBs, NEW r \in ReqCBs, tk_wai_dev(t, o, r)
  PROVE  DevInv'
<1>1. PICK c : c = [Idle EXCEPT !.o = o, !.rs = <<r>>]
  OBVIOUS
<1>2. c \in PC /\ c.o = o /\ c.rs = <<r>> /\ c.kind # "any" /\ ~c.cleanup
  <2>1. Idle \in PC /\ ~Idle.cleanup /\ Idle.kind # "any"
    BY IdleTask DEF Idle
  <2>2. <<r>> \in Seq(ReqCBs)
    BY OneRequest
  <2> QED BY <1>1, <2>1, <2>2 DEF PC
<1>3. PICK p : p = [pc EXCEPT ![t] = c]
  OBVIOUS
<1>4. /\ pc[t].at = "user" /\ ~Cleaned(resid[t]) /\ opn[o].resid = resid[t] /\ waitable(o, r)
      /\ wait_one(t, o, r, p)
  BY <1>1, <1>3 DEF tk_wai_dev, Calling, At, check_devdesc
<1>5. p \in [Tasks -> PC] /\ (\A u \in Tasks \ {t} : p[u] = pc[u]) /\ p[t] = c
  BY <1>2, <1>3 DEF DevInv, DevTypes
<1> QED BY <1>2, <1>4, <1>5, WaitOneStep

\* The second half of a synchronous call.
LEMMA SreaWaitsStep ==
  ASSUME DevInv, NEW t \in Tasks, tk_srea_dev_waits(t)
  PROVE  DevInv'
<1>1. pc[t].at = "started" /\ pc \in [Tasks -> PC]
  BY DEF tk_srea_dev_waits, At, DevInv, DevTypes
<1>2. PICK r \in ReqCBs : pc[t].rs = <<r>>
  BY <1>1 DEF DevInv, TaskInv, At
<1>3. PICK o \in OpnCBs : o = pc[t].o
  BY <1>1 DEF DevInv, TaskInv, At
<1>4. pc[t].kind # "any" /\ ~pc[t].cleanup
  BY <1>1 DEF DevInv, TaskInv, At, CleanupInv, Closing, Aborting, Aborted
<1>5. opn[o].resid = resid[t] /\ waitable(o, r) /\ wait_one(t, o, r, pc)
  <2>1. pc[t].rs[1] = r
    BY <1>2
  <2> QED BY <1>3, <2>1 DEF tk_srea_dev_waits, check_devdesc
<1> QED BY <1>1, <1>2, <1>3, <1>4, <1>5, WaitOneStep

\* tk_wai_dev for any request of an open.
LEMMA WaiAnyStep ==
  ASSUME DevInv, ~MixedWaits, NEW t \in Tasks, NEW o \in OpnCBs, tk_wai_dev_any(t, o)
  PROVE  DevInv'
<1>1. PICK q : q = opn[o].requestq
  OBVIOUS
<1>2. /\ pc[t].at = "user" /\ ~Cleaned(resid[t]) /\ opn[o].resid = resid[t]
      /\ UNCHANGED <<ddev, syncq, disabled, dabort, drv>>
      /\ opn[o].nwaireq = 0 /\ q # << >> /\ InDriver(o) = {}
      /\ req' = [r \in ReqCBs |-> [req[r] EXCEPT !.tskid = IF r \in ToSet(q) THEN t ELSE @]]
      /\ opn' = [opn EXCEPT ![o].nwaireq = Len(q), ![o].waireqlst = q]
      /\ pc' = [pc EXCEPT ![t] = Called("waitfn", o, q, "any")]
  BY <1>1 DEF tk_wai_dev_any, Calling, At, check_devdesc, locks, Called
<1>3. opn \in [OpnCBs -> OPN] /\ req \in [ReqCBs -> REQ] /\ pc \in [Tasks -> PC] /\ opn[o] \in OPN
  BY DEF DevInv, DevTypes
<1>4. Lists(q, Of(o)) /\ q \in Seq(ReqCBs) /\ Range(q) = Of(o) /\ ToSet(q) = Of(o)
  <2>1. Lists(q, Of(o))
    BY <1>1 DEF DevInv, QueueInv
  <2>2. q \in Seq(ReqCBs)
    BY <1>1, <1>3 DEF OPN
  <2> QED BY <2>1, <2>2 DEF Lists, ToSet, Range
<1>5. Len(q) \in Nat /\ Len(q) > 0 /\ Of(o) # {}
  <2>1. Len(q) \in Nat /\ Len(q) # 0
    BY <1>2, <1>4, EmptySeq, LenProperties
  <2> QED BY <1>2, <1>4, <2>1, EmptyList
<1>6. opn' = [opn EXCEPT ![o] = AnyWaited(opn[o], Len(q), q)]
  BY <1>2, <1>3 DEF AnyWaited
<1>7. \A r \in Of(o) : req[r].tskid = NULL
  BY <1>1, <1>2, <1>4 DEF InDriver
<1>8. Back(o) = {}
  BY <1>7, DeviceAssumption DEF Back, Of, DevInv, TaskInv
<1>9. /\ pc' \in [Tasks -> PC] /\ Others(t) /\ pc'[t].at = "waitfn" /\ pc'[t].o = o
      /\ pc'[t].rs = q /\ ~pc'[t].cleanup /\ pc'[t].kind = "any"
  <2>1. "waitfn" \in Places
    BY DEF Places, Driving
  <2> QED BY <1>2, <1>3, <1>4, <2>1, CalledTask DEF Others
<1>10. /\ opn' \in [OpnCBs -> OPN] /\ \A p \in OpnCBs \ {o} : opn'[p] = opn[p]
       /\ Untouched(opn'[o], opn[o]) /\ opn'[o].requestq = q /\ opn'[o].nwaireq > 0
  <2>1. /\ AnyWaited(opn[o], Len(q), q) \in OPN /\ Untouched(AnyWaited(opn[o], Len(q), q), opn[o])
        /\ AnyWaited(opn[o], Len(q), q).requestq = opn[o].requestq
        /\ AnyWaited(opn[o], Len(q), q).nwaireq = Len(q)
    BY <1>3, <1>4, <1>5, AnyWaitedFields
  <2> QED BY <1>1, <1>3, <1>5, <1>6, <2>1
<1>11. /\ req' \in [ReqCBs -> REQ] /\ \A s \in ReqCBs \ Of(o) : req'[s] = req[s]
       /\ \A s \in Of(o) : req'[s].opncb = o /\ req'[s].tskid = t
  <2>1. ASSUME NEW s \in ReqCBs
        PROVE  /\ req'[s] \in REQ /\ req'[s].opncb = req[s].opncb
               /\ s \in Of(o) => req'[s].tskid = t
               /\ s \notin Of(o) => req'[s] = req[s]
    <3>1. req[s] \in REQ
      BY <1>3
    <3> QED BY <1>2, <1>4, <3>1 DEF REQ
  <2>2. \A s \in Of(o) : s \in ReqCBs /\ req[s].opncb = o
    BY DEF Of
  <2>3. req' \in [ReqCBs -> REQ]
    BY <1>2, <2>1
  <2> QED BY <2>1, <2>2, <2>3
<1>12. Enters(t, o, Of(o))
  <2>1. Lists(opn'[o].requestq, Of(o) \cup Of(o))
    BY <1>4, <1>10
  <2>2. \A s \in Of(o) : req[s].opncb = o /\ s \in ReqCBs
    BY DEF Of
  <2> QED BY <1>2, <1>4, <1>5, <1>7, <1>8, <1>9, <1>10, <1>11, <2>1, <2>2 DEF Enters, Untouched, Driving
<1> QED BY <1>12, EnterStep

---------------------------------------------------------------------------
(* Requests: a task comes back from the driver. *)

\* A task gives requests D of block o back, those in G for good, and is
\* counted down for the task that closes the block.
Leaves(t, o, D, G) ==
  /\ UNCHANGED <<ddev, syncq, dabort, drv>> /\ Others(t)
  /\ pc[t].at \in Driving /\ pc[t].o = o
  /\ pc'[t].at \in {"user", "started"} /\ ~pc'[t].cleanup
  /\ dabort = NULL
  /\ \A u \in Tasks : ~(pc[u].at = "abort_test" /\ pc[u].o = o)
  /\ GivesBack(t, o, D, G)
  /\ opn' \in [OpnCBs -> OPN] /\ req' \in [ReqCBs -> REQ] /\ pc' \in [Tasks -> PC]
  /\ \A p \in OpnCBs \ {o} : opn'[p] = opn[p]
  /\ opn'[o].omode = opn[o].omode /\ opn'[o].unitno = opn[o].unitno
  /\ opn'[o].resid = opn[o].resid /\ opn'[o].grp = opn[o].grp
  /\ opn'[o].abort_tskid = opn[o].abort_tskid
  /\ \A s \in ReqCBs \ D : req'[s] = req[s]
  /\ IF opn[o].abort_tskid = NULL
     THEN disabled' = disabled
     ELSE /\ opn'[o].abort_cnt = opn[o].abort_cnt - 1
          /\ disabled' = disabled \cup IF opn'[o].abort_cnt = 0 THEN {opn[o].abort_tskid} ELSE {}

\* Who is woken waits for that.
LEMMA WokenWaits ==
  ASSUME DevInv, NEW t \in Tasks, NEW o \in OpnCBs, NEW D, NEW G, Leaves(t, o, D, G),
         opn[o].abort_tskid # NULL
  PROVE  /\ opn[o].abort_tskid \in Tasks
         /\ pc[opn[o].abort_tskid].at = "abort_wait" /\ pc[opn[o].abort_tskid].o = o
<1>1. PICK u \in Tasks : u = opn[o].abort_tskid /\ pc[u].at \in Aborting /\ pc[u].o = o
  BY DEF DevInv, AbortInv
<1>2. pc[u].at # "abort_test" /\ dabort = NULL
  BY <1>1 DEF Leaves
<1>3. pc[u].at # "abortfn"
  BY <1>2, DeviceAssumption DEF DevInv, AbortInv, At
<1> QED BY <1>1, <1>2, <1>3 DEF Aborting

\* The queue does not notice.
LEMMA LeavesSync ==
  ASSUME DevInv, NEW t \in Tasks, NEW o \in OpnCBs, NEW D, NEW G, Leaves(t, o, D, G)
  PROVE  SyncInv'
<1>0. PICK W : W = IF opn[o].abort_tskid = NULL \/ opn'[o].abort_cnt # 0
                   THEN {} ELSE {opn[o].abort_tskid}
  OBVIOUS
<1>1. disabled' = disabled \cup W /\ \A w \in W : w \in Tasks \ {t} /\ pc[w].at = "abort_wait"
  <2>1. disabled' = disabled \cup W
    BY <1>0 DEF Leaves
  <2>2. ASSUME NEW w \in W PROVE w \in Tasks \ {t} /\ pc[w].at = "abort_wait"
    <3>1. w = opn[o].abort_tskid /\ opn[o].abort_tskid # NULL
      BY <1>0
    <3>2. pc[t].at # "abort_wait"
      BY DEF Leaves, Driving
    <3> QED BY <3>1, <3>2, WokenWaits
  <2> QED BY <2>1, <2>2
<1>2. /\ syncq' = syncq /\ \A u \in Tasks \ {t} : pc'[u] = pc[u]
      /\ pc[t].at \in Driving /\ pc'[t].at \in {"user", "started"}
  BY DEF Leaves, Others
<1>3. {pc[t].at, pc'[t].at} \cap (Working \cup Queueing \cup {"abort_wait"}) = {}
  BY <1>2 DEF Driving, Working, Queueing
<1>4. SyncInv
  BY DEF DevInv
<1>5. InSync' = InSync
  BY <1>2, <1>3 DEF InSync
<1>6. \A u \in Tasks : pc'[u].at \in Working \cup Queueing => pc'[u] = pc[u]
  BY <1>2, <1>3
<1>7. \A u \in Tasks : pc[u].at \in Queueing => (u \in disabled' <=> u \in disabled)
  BY <1>1 DEF Queueing
<1>8. \A u \in disabled' : u \in Tasks /\ pc'[u].at \in Queueing \cup {"abort_wait"}
  <2>1. \A u \in disabled' : u \in Tasks /\ pc[u].at \in Queueing \cup {"abort_wait"}
    BY <1>1, <1>4 DEF SyncInv
  <2> QED BY <1>2, <1>3, <2>1
<1>9. /\ \A u \in Tasks : pc'[u].at \in Working => Head(syncq') = u
      /\ \A u \in Tasks : pc'[u].at \in Queueing => (u \in disabled' <=> Head(syncq') = u)
  BY <1>2, <1>4, <1>6, <1>7 DEF SyncInv
<1>10. Lists(syncq', InSync')
  BY <1>2, <1>4, <1>5 DEF SyncInv
<1> QED BY <1>8, <1>9, <1>10 DEF SyncInv

\* The task that aborts waits for one task less.
LEMMA LeavesAbort ==
  ASSUME DevInv, NEW t \in Tasks, NEW o \in OpnCBs, NEW D, NEW G, Leaves(t, o, D, G)
  PROVE  AbortInv'
<1>0. AbortInv /\ TaskInv /\ Aborting \subseteq Closing /\ Aborted \subseteq Closing
  BY DEF DevInv, Closing
<1>1. /\ \A u \in Tasks \ {t} : pc'[u] = pc[u]
      /\ pc[t].at \in Driving /\ pc[t].o = o
      /\ {pc[t].at, pc'[t].at} \cap (Closing \cup Driving) \subseteq {pc[t].at} \cap Driving
      /\ {pc[t].at, pc'[t].at} \cap Closing = {}
      /\ dabort' = dabort
  BY DEF Leaves, Others, Closing, Aborting, Aborted, Driving
<1>2. \A p : Back(p)' = Back(p) \ {t}
  BY <1>1 DEF Back, Leaves, Driving
<1>3. /\ \A p \in OpnCBs \ {o} : opn'[p] = opn[p] /\ Back(p)' = Back(p)
      /\ Back(o)' = Back(o) \ {t} /\ t \in Back(o)
      /\ opn'[o].abort_tskid = opn[o].abort_tskid
  BY <1>1, <1>2 DEF Back, Leaves
<1>4. IsFiniteSet(Back(o)) /\ Cardinality(Back(o)) \in Nat /\ Cardinality(Back(o)) # 0
      /\ Cardinality(Back(o) \ {t}) = Cardinality(Back(o)) - 1
  <2>1. IsFiniteSet(Back(o))
    BY ReturnsCounted DEF DevInv
  <2> QED BY <1>3, <2>1, FS_CardinalityType, FS_EmptySet, FS_RemoveElement
<1>5. ASSUME NEW u \in Tasks, pc'[u].at \in Closing
      PROVE  u # t /\ pc'[u] = pc[u] /\ pc[u].o \in OpnCBs
  <2>1. u # t
    BY <1>1, <1>5
  <2> QED BY <1>1, <1>5, <2>1, ClosingBlock
<1>6. ASSUME NEW p \in OpnCBs, NEW v \in Back(p) \ {t}, NEW r \in ReqCBs, r \in Range(pc[v].rs)
      PROVE  pc'[v] = pc[v] /\ req'[r] = req[r]
  <2>1. v \in Tasks \ {t} /\ req[r].tskid = v
    BY <1>0, <1>6 DEF Back, TaskInv
  <2>2. \A s \in D : req[s].tskid \in {NULL, t}
    BY DEF Leaves, GivesBack
  <2>3. v # NULL
    BY <2>1, DeviceAssumption
  <2>4. r \in ReqCBs \ D
    BY <1>6, <2>1, <2>2, <2>3
  <2> QED BY <1>1, <2>1, <2>4 DEF Leaves
<1>7. ASSUME NEW p \in OpnCBs, opn'[p].abort_tskid # NULL
      PROVE  /\ opn'[p].abort_tskid \in Tasks
             /\ pc'[opn'[p].abort_tskid].at \in Aborting /\ pc'[opn'[p].abort_tskid].o = p
  <2>1. PICK a \in Tasks : /\ a = opn[p].abort_tskid /\ opn'[p].abort_tskid = a
                           /\ pc[a].at \in Aborting /\ pc[a].o = p
    BY <1>0, <1>3, <1>7 DEF AbortInv
  <2>2. a # t
    BY <1>0, <1>1, <2>1
  <2> QED BY <1>1, <2>1, <2>2
<1>8. (\A u \in Tasks : At(u, "abortfn") => dabort = u)'
  BY <1>0, <1>1, <1>5 DEF AbortInv, At, Closing, Aborting
<1>9. (\A u \in Tasks : pc[u].at \in Aborting => opn[pc[u].o].abort_tskid = u)'
  BY <1>0, <1>3, <1>5 DEF AbortInv
<1>10. ASSUME NEW u \in Tasks, pc'[u].at \in {"abort_test", "abort_wait"}
       PROVE  /\ (opn[pc[u].o].abort_cnt = Cardinality(Back(pc[u].o)))'
              /\ pc'[u].at = "abort_wait" => (u \in disabled' <=> opn'[pc'[u].o].abort_cnt = 0)
              /\ (\A v \in Back(pc[u].o), r \in ReqCBs :
                    pc[v].kind # "any" /\ r \in Range(pc[v].rs) => req[r].abort)'
  <2>1. pc'[u] = pc[u] /\ pc[u].o \in OpnCBs /\ pc[u].at \in {"abort_test", "abort_wait"}
    BY <1>0, <1>5, <1>10 DEF Aborting
  <2>2. PICK p \in OpnCBs : p = pc[u].o /\ pc'[u].o = p
    BY <2>1
  <2>3. /\ opn[p].abort_cnt = Cardinality(Back(p)) /\ opn[p].abort_tskid = u
        /\ \A v \in Back(p), r \in ReqCBs :
             pc[v].kind # "any" /\ r \in Range(pc[v].rs) => req[r].abort
        /\ pc[u].at = "abort_wait" => (u \in disabled <=> opn[p].abort_cnt = 0)
    BY <1>0, <2>1, <2>2 DEF AbortInv, At, Aborting
  <2>4. \A v \in Back(p) \ {t}, r \in ReqCBs :
          pc'[v].kind # "any" /\ r \in Range(pc'[v].rs) => req'[r].abort
    <3>1. \A v \in Back(p) \ {t} : pc'[v] = pc[v]
      BY <1>1 DEF Back
    <3> QED BY <1>6, <2>3, <3>1
  <2>5. Back(p)' \subseteq Back(p) \ {t}
    BY <1>2
  <2>6. (\A v \in Back(p), r \in ReqCBs :
           pc[v].kind # "any" /\ r \in Range(pc[v].rs) => req[r].abort)'
    BY <2>4, <2>5
  <2>7. /\ (opn[p].abort_cnt = Cardinality(Back(p)))'
        /\ pc[u].at = "abort_wait" => (u \in disabled' <=> opn'[p].abort_cnt = 0)
    <3>1. CASE p = o
      <4>1. u # NULL /\ pc[u].at = "abort_wait"
        <5>1. ~(pc[u].at = "abort_test" /\ pc[u].o = o)
          BY DEF Leaves
        <5> QED BY <2>1, <2>2, <3>1, <5>1, DeviceAssumption
      <4>2. /\ opn'[o].abort_cnt = opn[o].abort_cnt - 1
            /\ disabled' = disabled \cup IF opn'[o].abort_cnt = 0 THEN {u} ELSE {}
        BY <2>3, <3>1, <4>1 DEF Leaves
      <4>3. u \notin disabled
        BY <1>4, <2>3, <3>1, <4>1
      <4> QED BY <1>3, <1>4, <2>3, <3>1, <4>2, <4>3
    <3>2. CASE p # o
      <4>1. opn[o].abort_tskid # u
        BY <1>0, <2>2, <2>3, <3>2, DeviceAssumption DEF AbortInv
      <4>2. u \in disabled' <=> u \in disabled
        BY <4>1 DEF Leaves
      <4> QED BY <1>3, <2>3, <3>2, <4>2
    <3> QED BY <3>1, <3>2
  <2> QED BY <2>1, <2>2, <2>6, <2>7 DEF Back
<1>11. ASSUME NEW u \in Tasks, pc'[u].at \in Aborted PROVE (Back(pc[u].o) = {})'
  <2>1. pc'[u] = pc[u] /\ pc[u].o \in OpnCBs /\ Back(pc[u].o) = {}
    BY <1>0, <1>5, <1>11 DEF AbortInv
  <2>2. PICK p \in OpnCBs : p = pc[u].o
    BY <2>1
  <2>3. Back(p)' = {} /\ pc'[u].o = p
    BY <1>2, <2>1, <2>2
  <2> QED BY <2>3 DEF Back
<1>12. ASSUME NEW u \in Tasks, pc'[u].at = "abort_waitfn"
       PROVE  (\E r \in ReqCBs : r \in Of(pc[u].o) /\ pc[u].rs = <<r>>)'
  <2>1. pc'[u] = pc[u] /\ pc[u].o \in OpnCBs /\ Back(pc[u].o) = {}
    BY <1>0, <1>5, <1>12 DEF AbortInv, Aborted
  <2>2. PICK r \in ReqCBs : req[r].opncb = pc[u].o /\ pc[u].rs = <<r>>
    BY <1>0, <1>12, <2>1 DEF AbortInv, At, Of
  <2>3. pc[u].o # o
    BY <1>3, <2>1
  <2>4. r \in ReqCBs \ D
    BY <2>2, <2>3 DEF Leaves, GivesBack, Of
  <2>5. req'[r].opncb = pc'[u].o /\ pc'[u].rs = <<r>>
    BY <2>1, <2>2, <2>4 DEF Leaves
  <2> QED BY <2>5 DEF Of
<1> QED BY <1>7, <1>8, <1>9, <1>10, <1>11, <1>12 DEF AbortInv, At

\* A return from the driver.
LEMMA LeavesStep ==
  ASSUME DevInv, NEW t \in Tasks, NEW o \in OpnCBs, NEW D, NEW G, Leaves(t, o, D, G)
  PROVE  DevInv'
<1>1. /\ {pc[t].at, pc'[t].at} \cap (Opening \cup Closing \cup {"openfn", "closefn"}) = {}
      /\ UNCHANGED <<ddev, syncq, dabort, drv>> /\ Others(t)
      /\ pc[t].at \in Driving
  BY DEF Leaves, Opening, Closing, Aborting, Aborted, Driving
<1>2. /\ opn' \in [OpnCBs -> OPN] /\ req' \in [ReqCBs -> REQ] /\ pc' \in [Tasks -> PC]
      /\ \A p \in OpnCBs : /\ opn'[p].omode = opn[p].omode /\ opn'[p].resid = opn[p].resid
                           /\ opn'[p].grp = opn[p].grp /\ opn'[p].unitno = opn[p].unitno
      /\ GivesBack(t, o, D, G) /\ ~pc'[t].cleanup
  BY DEF Leaves
<1>3. DevTypes'
  BY <1>1, <1>2 DEF DevInv, DevTypes
<1>4. SyncInv'
  BY LeavesSync
<1>5. BlockInv' /\ CleanupInv'
  BY <1>1, <1>2, BlocksKept DEF DevInv, Driving
<1>6. QueueInv' /\ TaskInv' /\ AnyInv'
  BY <1>1, <1>2, RequestsLeft DEF DevInv
<1>7. AbortInv'
  BY LeavesAbort
<1>8. OpenInv'
  BY <1>1, <1>2, OpenKept DEF DevInv
<1> QED BY <1>3, <1>4, <1>5, <1>6, <1>7, <1>8 DEF DevInv

\* What a return leaves of a block, but for its counts.
Same(c, b) ==
  /\ c.omode = b.omode /\ c.unitno = b.unitno /\ c.resid = b.resid /\ c.grp = b.grp
  /\ c.abort_tskid = b.abort_tskid

\* A request leaves the queue of its block.
LEMMA QueueField ==
  ASSUME NEW O \in [OpnCBs -> OPN], NEW o \in OpnCBs, NEW q \in Seq(ReqCBs),
         NEW P, P = [O EXCEPT ![o].requestq = q]
  PROVE  /\ P \in [OpnCBs -> OPN] /\ \A p \in OpnCBs \ {o} : P[p] = O[p]
         /\ Same(P[o], O[o]) /\ P[o].requestq = q
         /\ P[o].nwaireq = O[o].nwaireq /\ P[o].abort_cnt = O[o].abort_cnt
<1>1. PICK b \in OPN : b = O[o]
  OBVIOUS
<1>2. PICK c : c = [b EXCEPT !.requestq = q]
  OBVIOUS
<1>3. /\ c \in OPN /\ Same(c, b) /\ c.requestq = q
      /\ c.nwaireq = b.nwaireq /\ c.abort_cnt = b.abort_cnt
  BY <1>2 DEF OPN, Same
<1>4. P = [O EXCEPT ![o] = c]
  BY <1>1, <1>2
<1> QED BY <1>1, <1>3, <1>4

\* A synchronous request is over.
LEMMA SyncField ==
  ASSUME NEW O \in [OpnCBs -> OPN], NEW o \in OpnCBs, NEW n \in Int,
         NEW P, P = [O EXCEPT ![o].syncreq = n]
  PROVE  /\ P \in [OpnCBs -> OPN] /\ \A p \in OpnCBs \ {o} : P[p] = O[p]
         /\ Same(P[o], O[o]) /\ P[o].requestq = O[o].requestq
         /\ P[o].nwaireq = O[o].nwaireq /\ P[o].abort_cnt = O[o].abort_cnt
<1>1. PICK b \in OPN : b = O[o]
  OBVIOUS
<1>2. PICK c : c = [b EXCEPT !.syncreq = n]
  OBVIOUS
<1>3. /\ c \in OPN /\ Same(c, b) /\ c.requestq = b.requestq
      /\ c.nwaireq = b.nwaireq /\ c.abort_cnt = b.abort_cnt
  BY <1>2 DEF OPN, Same
<1>4. P = [O EXCEPT ![o] = c]
  BY <1>1, <1>2
<1> QED BY <1>1, <1>3, <1>4

\* The counts of those who wait.
Waits(O, o, m, w) == [O EXCEPT ![o].nwaireq = m, ![o].waitone = w]

\* They leave the rest alone.
LEMMA WaitFields ==
  ASSUME NEW O \in [OpnCBs -> OPN], NEW o \in OpnCBs, NEW m \in Nat, NEW w \in Int
  PROVE  /\ Waits(O, o, m, w) \in [OpnCBs -> OPN]
         /\ \A p \in OpnCBs \ {o} : Waits(O, o, m, w)[p] = O[p]
         /\ Same(Waits(O, o, m, w)[o], O[o]) /\ Waits(O, o, m, w)[o].requestq = O[o].requestq
         /\ Waits(O, o, m, w)[o].nwaireq = m /\ Waits(O, o, m, w)[o].abort_cnt = O[o].abort_cnt
<1>1. PICK b \in OPN : b = O[o]
  OBVIOUS
<1>2. PICK c : c = [b EXCEPT !.nwaireq = m, !.waitone = w]
  OBVIOUS
<1>3. /\ c \in OPN /\ Same(c, b) /\ c.requestq = b.requestq /\ c.nwaireq = m
      /\ c.abort_cnt = b.abort_cnt
  BY <1>2 DEF OPN, Same
<1>4. Waits(O, o, m, w) = [O EXCEPT ![o] = c]
  BY <1>1, <1>2 DEF Waits
<1> QED BY <1>1, <1>3, <1>4

\* The count of the task that aborts.
LEMMA CountedDown ==
  ASSUME NEW O \in [OpnCBs -> OPN], opn \in [OpnCBs -> OPN], NEW o \in OpnCBs,
         O[o].abort_cnt = opn[o].abort_cnt, abort_counted(o, O)
  PROVE  /\ opn' \in [OpnCBs -> OPN] /\ \A p \in OpnCBs \ {o} : opn'[p] = O[p]
         /\ Same(opn'[o], O[o]) /\ opn'[o].requestq = O[o].requestq
         /\ opn'[o].nwaireq = O[o].nwaireq
         /\ IF opn[o].abort_tskid = NULL
            THEN disabled' = disabled
            ELSE /\ opn'[o].abort_cnt = opn[o].abort_cnt - 1
                 /\ disabled' = disabled \cup
                                  IF opn'[o].abort_cnt = 0 THEN {opn[o].abort_tskid} ELSE {}
<1>1. opn[o] \in OPN /\ O[o] \in OPN
  OBVIOUS
<1>2. PICK n \in Int : n = IF opn[o].abort_tskid # NULL THEN opn[o].abort_cnt - 1
                                                        ELSE opn[o].abort_cnt
  BY <1>1 DEF OPN
<1>3. PICK b \in OPN : b = O[o]
  BY <1>1
<1>4. /\ opn' \in [OpnCBs -> OPN] /\ \A p \in OpnCBs \ {o} : opn'[p] = O[p]
      /\ Same(opn'[o], O[o]) /\ opn'[o].requestq = O[o].requestq
      /\ opn'[o].nwaireq = O[o].nwaireq /\ opn'[o].abort_cnt = n
  <2>1. PICK c : c = [b EXCEPT !.abort_cnt = n]
    OBVIOUS
  <2>2. /\ c \in OPN /\ Same(c, b) /\ c.requestq = b.requestq /\ c.nwaireq = b.nwaireq
        /\ c.abort_cnt = n
    BY <2>1 DEF OPN, Same
  <2>3. opn' = [O EXCEPT ![o] = c]
    BY <1>1, <1>2, <1>3, <2>1 DEF abort_counted
  <2> QED BY <1>3, <2>2, <2>3
<1>5. disabled' = disabled \cup IF opn[o].abort_tskid # NULL /\ opn[o].abort_cnt - 1 = 0
                                THEN {opn[o].abort_tskid} ELSE {}
  BY DEF abort_counted, SyncSignalDM
<1>6. CASE opn[o].abort_tskid = NULL
  BY <1>4, <1>5, <1>6
<1>7. CASE opn[o].abort_tskid # NULL
  BY <1>2, <1>4, <1>5, <1>7
<1> QED BY <1>6, <1>7

\* Numbers of type UH are numbers.
LEMMA LessType ==
  ASSUME NEW n \in Int
  PROVE  less(n) \in Int
BY DEF less

\* The block of a request the driver gives back.
LEMMA RequestGone ==
  ASSUME NEW O \in [OpnCBs -> OPN], NEW o \in OpnCBs, NEW r \in Of(o),
         Lists(O[o].requestq, Of(o))
  PROVE  /\ delReqCB(r, O) \in [OpnCBs -> OPN]
         /\ \A p \in OpnCBs \ {o} : delReqCB(r, O)[p] = O[p]
         /\ Same(delReqCB(r, O)[o], O[o]) /\ Lists(delReqCB(r, O)[o].requestq, Of(o) \ {r})
         /\ delReqCB(r, O)[o].nwaireq = O[o].nwaireq
         /\ delReqCB(r, O)[o].abort_cnt = O[o].abort_cnt
<1>0. PICK P : P = delReqCB(r, O)
  OBVIOUS
<1>1. req[r].opncb = o /\ o # NULL
  BY DeviceAssumption DEF Of
<1>2. P = [O EXCEPT ![o].requestq = QueRemove(O[o].requestq, r)]
  BY <1>0, <1>1 DEF delReqCB
<1>3. Lists(QueRemove(O[o].requestq, r), Of(o) \ {r})
  BY RemoveList
<1>4. PICK q \in Seq(ReqCBs) : q = QueRemove(O[o].requestq, r)
  <2>1. Of(o) \ {r} \in SUBSET ReqCBs
    BY DEF Of
  <2> QED BY <1>3, <2>1, ListsSeq
<1>5. /\ P \in [OpnCBs -> OPN] /\ \A p \in OpnCBs \ {o} : P[p] = O[p]
      /\ Same(P[o], O[o]) /\ P[o].requestq = q
      /\ P[o].nwaireq = O[o].nwaireq /\ P[o].abort_cnt = O[o].abort_cnt
  BY <1>2, <1>4, QueueField
<1> QED BY <1>0, <1>3, <1>4, <1>5

\* What is common to both returns: O is opn without the requests in G.
Returns(t, o, O, G) ==
  /\ pc[t].at \in Driving /\ comes_back(t) /\ o = pc[t].o /\ abort_counted(o, O)
  /\ O \in [OpnCBs -> OPN]
  /\ \A p \in OpnCBs \ {o} : O[p] = opn[p]
  /\ Same(O[o], opn[o]) /\ O[o].abort_cnt = opn[o].abort_cnt
  /\ G \subseteq Range(pc[t].rs) /\ Lists(O[o].requestq, Of(o) \ G)
  /\ O[o].nwaireq = IF pc[t].kind = "any" THEN 0 ELSE opn[o].nwaireq
  /\ req' \in [ReqCBs -> REQ]
  /\ \A s \in ReqCBs \ Range(pc[t].rs) : req'[s] = req[s]
  /\ \A s \in Range(pc[t].rs) :
       req'[s].tskid = NULL /\ req'[s].opncb = IF s \in G THEN NULL ELSE o
  /\ Return(t) \/ (Goto(t, "started") /\ pc[t].kind = "sync")
  /\ UNCHANGED <<ddev, syncq, dabort, drv>>

\* Such a return keeps the invariant.
LEMMA ReturnsStep ==
  ASSUME DevInv, ~AbortRace, NEW t \in Tasks, NEW o \in OpnCBs, NEW O, NEW G,
         Returns(t, o, O, G)
  PROVE  DevInv'
<1> USE DEF Returns
<1>1. pc \in [Tasks -> PC] /\ opn \in [OpnCBs -> OPN] /\ TaskInv
  BY DEF DevInv, DevTypes
<1>2. /\ Range(pc[t].rs) \subseteq Of(o)
      /\ \A s \in Range(pc[t].rs) : req[s].tskid = t
      /\ \A s \in ReqCBs : req[s].tskid = t => s \in Range(pc[t].rs)
      /\ pc[t].kind = "any" => pc[t].at = "waitfn"
      /\ pc[t].kind # "any" => \E r \in ReqCBs : pc[t].rs = <<r>>
  BY <1>1, DeviceAssumption DEF TaskInv, Of, At
<1>3. ~pc[t].cleanup
  BY DEF DevInv, CleanupInv, Driving, Closing, Aborting, Aborted
<1>4. /\ pc' \in [Tasks -> PC] /\ Others(t) /\ pc'[t].at \in {"user", "started"} /\ ~pc'[t].cleanup
      /\ pc'[t].at = "started" =>
           pc'[t].o \in OpnCBs /\ pc'[t].kind = "sync" /\ \E r \in ReqCBs : pc'[t].rs = <<r>>
  <2>1. CASE Return(t)
    BY <1>1, <2>1, ReturnEffect
  <2>2. CASE Goto(t, "started") /\ pc[t].kind = "sync"
    <3>1. pc' \in [Tasks -> PC] /\ Others(t) /\ Moves(t, "started")
      BY <1>1, <2>2, GotoEffect DEF Places
    <3> QED BY <1>2, <1>3, <2>2, <3>1 DEF Moves
  <2> QED BY <2>1, <2>2
<1>5. /\ opn' \in [OpnCBs -> OPN] /\ \A p \in OpnCBs \ {o} : opn'[p] = opn[p]
      /\ Same(opn'[o], opn[o]) /\ Lists(opn'[o].requestq, Of(o) \ G)
      /\ opn'[o].nwaireq = IF pc[t].kind = "any" THEN 0 ELSE opn[o].nwaireq
      /\ IF opn[o].abort_tskid = NULL
         THEN disabled' = disabled
         ELSE /\ opn'[o].abort_cnt = opn[o].abort_cnt - 1
              /\ disabled' = disabled \cup
                               IF opn'[o].abort_cnt = 0 THEN {opn[o].abort_tskid} ELSE {}
  <2>1. /\ opn' \in [OpnCBs -> OPN] /\ \A p \in OpnCBs \ {o} : opn'[p] = O[p]
        /\ Same(opn'[o], O[o]) /\ opn'[o].requestq = O[o].requestq
        /\ opn'[o].nwaireq = O[o].nwaireq
        /\ IF opn[o].abort_tskid = NULL
           THEN disabled' = disabled
           ELSE /\ opn'[o].abort_cnt = opn[o].abort_cnt - 1
                /\ disabled' = disabled \cup
                                 IF opn'[o].abort_cnt = 0 THEN {opn[o].abort_tskid} ELSE {}
    BY <1>1, CountedDown
  <2> QED BY <2>1 DEF Same
<1>6. dabort = NULL /\ \A u \in Tasks : ~(pc[u].at = "abort_test" /\ pc[u].o = o)
  BY DEF comes_back, At
<1>7. GivesBack(t, o, Range(pc[t].rs), G)
  <2>1. pc'[t].at \notin Driving \cup Emptied
    BY <1>4 DEF Driving, Emptied
  <2>2. /\ \A p \in OpnCBs \ {o} : /\ opn'[p].requestq = opn[p].requestq
                                   /\ opn'[p].nwaireq = opn[p].nwaireq
        /\ \A p \in OpnCBs : opn'[p].omode = opn[p].omode /\ opn'[p].resid = opn[p].resid
    BY <1>5 DEF Same
  <2>3. IF pc[t].at = "waitfn" /\ pc[t].kind = "any"
        THEN pc[t].o = o /\ opn'[o].nwaireq = 0
        ELSE opn'[o].nwaireq = opn[o].nwaireq
    BY <1>2, <1>5
  <2> QED BY <1>2, <1>4, <1>5, <2>1, <2>2, <2>3 DEF GivesBack
<1>8. Leaves(t, o, Range(pc[t].rs), G)
  BY <1>4, <1>5, <1>6, <1>7 DEF Leaves, Same
<1> QED BY <1>8, LeavesStep

\* The driver has started a request, or refused it.
LEMMA ExecfnReturnsStep ==
  ASSUME DevInv, ~AbortRace, NEW t \in Tasks, NEW ok \in BOOLEAN, execfn_returns(t, ok)
  PROVE  DevInv'
<1>1. pc[t].at = "execfn" /\ comes_back(t) /\ UNCHANGED <<ddev, syncq, dabort, drv>>
  BY DEF execfn_returns, At, locks
<1>2. PICK o \in OpnCBs : o = pc[t].o
  BY <1>1 DEF DevInv, TaskInv, Driving
<1>3. PICK r \in ReqCBs : pc[t].rs = <<r>> /\ pc[t].kind # "any"
  BY <1>1 DEF DevInv, TaskInv, Driving, At
<1>4. Range(pc[t].rs) = {r} /\ pc[t].rs[1] = r
  BY <1>3, OneRequest
<1>5. r \in Of(o) /\ req[r].opncb = o /\ Lists(opn[o].requestq, Of(o))
  <2>1. req[r].opncb = o
    BY <1>1, <1>2, <1>4 DEF DevInv, TaskInv, Driving
  <2>2. r \in Of(o)
    BY <2>1 DEF Of
  <2> QED BY <2>1, <2>2 DEF DevInv, QueueInv
<1>6. opn \in [OpnCBs -> OPN] /\ req \in [ReqCBs -> REQ] /\ opn[o] \in OPN /\ req[r] \in REQ
  BY DEF DevInv, DevTypes
<1>7. /\ Return(t) \/ (Goto(t, "started") /\ pc[t].kind = "sync")
      /\ req' = [req EXCEPT ![r] = IF ok THEN [@ EXCEPT !.tskid = NULL] ELSE FreeReq]
  BY <1>4 DEF execfn_returns
<1>8. /\ req' \in [ReqCBs -> REQ] /\ \A s \in ReqCBs \ {r} : req'[s] = req[s]
      /\ req'[r].tskid = NULL /\ req'[r].opncb = IF ok THEN o ELSE NULL
  <2>1. FreeReq \in REQ /\ FreeReq.opncb = NULL /\ FreeReq.tskid = NULL
    BY DEF FreeReq, REQ
  <2>0. PICK y \in REQ : y = req[r]
    BY <1>6
  <2>2. PICK x : x = [y EXCEPT !.tskid = NULL]
    OBVIOUS
  <2>4. x \in REQ /\ x.tskid = NULL /\ x.opncb = y.opncb
    BY <2>2 DEF REQ
  <2>3. req' = [req EXCEPT ![r] = IF ok THEN x ELSE FreeReq] 
    BY <1>6, <1>7, <2>0, <2>2
  <2> HIDE DEF FreeReq
  <2> QED BY <1>5, <1>6, <2>0, <2>1, <2>3, <2>4
<1>9. CASE ok
  <2>1. abort_counted(o, opn)
    BY <1>2, <1>9 DEF execfn_returns
  <2>2. PICK G : G = {}
    OBVIOUS
  <2>3. /\ G \subseteq Range(pc[t].rs) /\ Lists(opn[o].requestq, Of(o) \ G)
        /\ \A s \in Range(pc[t].rs) :
             req'[s].tskid = NULL /\ req'[s].opncb = IF s \in G THEN NULL ELSE o
    <3>1. Of(o) \ G = Of(o)
      BY <2>2
    <3> QED BY <1>4, <1>5, <1>8, <1>9, <2>2, <3>1
  <2>4. Same(opn[o], opn[o])
    BY DEF Same
  <2>5. Returns(t, o, opn, G)
    BY <1>1, <1>2, <1>3, <1>4, <1>6, <1>7, <1>8, <2>1, <2>3, <2>4 DEF Driving, Returns
  <2> QED BY <2>5, ReturnsStep
<1>10. CASE ~ok
  <2>1. PICK P : P = delReqCB(r, opn)
    OBVIOUS
  <2>2. /\ P \in [OpnCBs -> OPN] /\ \A p \in OpnCBs \ {o} : P[p] = opn[p]
        /\ Same(P[o], opn[o]) /\ Lists(P[o].requestq, Of(o) \ {r})
        /\ P[o].nwaireq = opn[o].nwaireq /\ P[o].abort_cnt = opn[o].abort_cnt
    BY <1>5, <1>6, <2>1, RequestGone
  <2>3. PICK n \in Int : n = IF pc[t].kind = "sync" THEN less(P[o].syncreq) ELSE P[o].syncreq
    <3>1. P[o].syncreq \in Int
      BY <2>2 DEF OPN
    <3> QED BY <3>1, LessType
  <2>4. PICK O : O = [P EXCEPT ![o].syncreq = n]
    OBVIOUS
  <2>5. /\ O \in [OpnCBs -> OPN] /\ \A p \in OpnCBs \ {o} : O[p] = P[p]
        /\ Same(O[o], P[o]) /\ O[o].requestq = P[o].requestq
        /\ O[o].nwaireq = P[o].nwaireq /\ O[o].abort_cnt = P[o].abort_cnt
    BY <2>2, <2>4, SyncField
  <2>6. abort_counted(o, O)
    BY <1>2, <1>4, <1>10, <2>1, <2>3, <2>4 DEF execfn_returns
  <2>7. /\ \A p \in OpnCBs \ {o} : O[p] = opn[p]
        /\ Same(O[o], opn[o]) /\ O[o].abort_cnt = opn[o].abort_cnt
        /\ Lists(O[o].requestq, Of(o) \ {r}) /\ O[o].nwaireq = opn[o].nwaireq
    BY <2>2, <2>5 DEF Same
  <2>8. PICK G : G = {r}
    OBVIOUS
  <2>9. /\ G \subseteq Range(pc[t].rs) /\ Lists(O[o].requestq, Of(o) \ G)
        /\ \A s \in Range(pc[t].rs) :
             req'[s].tskid = NULL /\ req'[s].opncb = IF s \in G THEN NULL ELSE o
    BY <1>4, <1>8, <1>10, <2>7, <2>8
  <2>10. Returns(t, o, O, G)
    BY <1>1, <1>2, <1>3, <1>4, <1>7, <1>8, <2>5, <2>6, <2>7, <2>9 DEF Driving, Returns
  <2> QED BY <2>10, ReturnsStep
<1> QED BY <1>9, <1>10

\* The driver has completed one of the requests a task waits for, or fails.
LEMMA WaitfnReturnsStep ==
  ASSUME DevInv, ~AbortRace, NEW t \in Tasks, NEW i \in 0 .. Len(pc[t].rs), waitfn_returns(t, i)
  PROVE  DevInv'
<1>1. /\ pc[t].at = "waitfn" /\ comes_back(t) /\ UNCHANGED <<ddev, syncq, dabort, drv>>
      /\ Return(t)
  BY DEF waitfn_returns, At, locks
<1>2. PICK o \in OpnCBs : o = pc[t].o
  BY <1>1 DEF DevInv, TaskInv, Driving
<1>3. opn \in [OpnCBs -> OPN] /\ req \in [ReqCBs -> REQ] /\ opn[o] \in OPN /\ pc[t] \in PC
  BY DEF DevInv, DevTypes
<1>4. pc[t].rs \in Seq(ReqCBs) /\ ToSet(pc[t].rs) = Range(pc[t].rs)
  BY <1>3 DEF PC, ToSet, Range
<1>5. /\ Range(pc[t].rs) \subseteq Of(o) /\ Lists(opn[o].requestq, Of(o))
      /\ \A s \in Range(pc[t].rs) : s \in ReqCBs /\ req[s].opncb = o
  BY <1>1, <1>2 DEF DevInv, TaskInv, QueueInv, Driving, Of
<1>6. PICK m \in Nat : m = IF pc[t].kind = "any" THEN 0 ELSE opn[o].nwaireq
  BY <1>3 DEF OPN
<1>7. PICK w \in Int : w = IF pc[t].kind = "any" THEN opn[o].waitone ELSE less(opn[o].waitone)
  BY <1>3, LessType DEF OPN
<1>8. PICK n \in Int : n = IF pc[t].kind = "sync" THEN less(opn[o].syncreq) ELSE opn[o].syncreq
  BY <1>3, LessType DEF OPN
<1>9. PICK N : N = Waits(opn, o, m, w)
  OBVIOUS
<1>10. /\ N \in [OpnCBs -> OPN] /\ \A p \in OpnCBs \ {o} : N[p] = opn[p]
       /\ Same(N[o], opn[o]) /\ N[o].requestq = opn[o].requestq
       /\ N[o].nwaireq = m /\ N[o].abort_cnt = opn[o].abort_cnt
  BY <1>3, <1>9, WaitFields
<1>11. PICK O : O = [N EXCEPT ![o].syncreq = n]
  OBVIOUS
<1>12. /\ O \in [OpnCBs -> OPN] /\ \A p \in OpnCBs \ {o} : O[p] = N[p]
       /\ Same(O[o], N[o]) /\ O[o].requestq = N[o].requestq
       /\ O[o].nwaireq = N[o].nwaireq /\ O[o].abort_cnt = N[o].abort_cnt
  BY <1>10, <1>11, SyncField
<1>13. O = [opn EXCEPT ![o].nwaireq = IF pc[t].kind = "any" THEN 0 ELSE @,
                       ![o].waitone = IF pc[t].kind = "any" THEN @ ELSE less(@),
                       ![o].syncreq = IF pc[t].kind = "sync" THEN less(@) ELSE @]
  BY <1>3, <1>6, <1>7, <1>8, <1>9, <1>11 DEF Waits
<1>14. PICK F : F = [r \in ReqCBs |->
                       [req[r] EXCEPT !.tskid = IF r \in ToSet(pc[t].rs) THEN NULL ELSE @]]
  OBVIOUS
<1>15. /\ F \in [ReqCBs -> REQ]
       /\ \A s \in ReqCBs \ Range(pc[t].rs) : F[s] = req[s]
       /\ \A s \in Range(pc[t].rs) : F[s].tskid = NULL /\ F[s].opncb = o
  <2>1. ASSUME NEW s \in ReqCBs
        PROVE  /\ F[s] \in REQ /\ F[s].opncb = req[s].opncb
               /\ s \in Range(pc[t].rs) => F[s].tskid = NULL
               /\ s \notin Range(pc[t].rs) => F[s] = req[s]
    <3>1. req[s] \in REQ
      BY <1>3
    <3> QED BY <1>4, <1>14, <3>1 DEF REQ
  <2>2. F \in [ReqCBs -> REQ]
    BY <1>14, <2>1
  <2> QED BY <1>5, <2>1, <2>2
<1>16. /\ O \in [OpnCBs -> OPN] /\ \A p \in OpnCBs \ {o} : O[p] = opn[p]
       /\ Same(O[o], opn[o]) /\ O[o].abort_cnt = opn[o].abort_cnt
       /\ Lists(O[o].requestq, Of(o))
       /\ O[o].nwaireq = IF pc[t].kind = "any" THEN 0 ELSE opn[o].nwaireq
  BY <1>5, <1>6, <1>10, <1>12 DEF Same
<1>17. CASE i = 0
  <2>1. abort_counted(o, O) /\ req' = F
    BY <1>2, <1>13, <1>14, <1>17 DEF waitfn_returns
  <2>0. PICK G : G = {}
    OBVIOUS
  <2>2. Lists(O[o].requestq, Of(o) \ G) /\ G \subseteq Range(pc[t].rs)
    <3>1. Of(o) \ G = Of(o)
      BY <2>0
    <3> QED BY <1>16, <2>0, <3>1
  <2>3. /\ \A s \in ReqCBs \ Range(pc[t].rs) : req'[s] = req[s]
        /\ \A s \in Range(pc[t].rs) :
             req'[s].tskid = NULL /\ req'[s].opncb = IF s \in G THEN NULL ELSE o
        /\ req' \in [ReqCBs -> REQ]
    BY <1>15, <2>0, <2>1
  <2>4. Returns(t, o, O, G)
    BY <1>1, <1>2, <1>16, <2>1, <2>2, <2>3 DEF Driving, Returns
  <2> QED BY <2>4, ReturnsStep
<1>18. CASE i # 0
  <2>1. PICK r \in Range(pc[t].rs) : r = pc[t].rs[i]
    BY <1>4, <1>18 DEF Range
  <2>2. PICK P : P = delReqCB(r, O)
    OBVIOUS
  <2>3. abort_counted(o, P) /\ req' = [F EXCEPT ![r] = FreeReq]
    BY <1>2, <1>13, <1>14, <1>18, <2>1, <2>2 DEF waitfn_returns
  <2>4. /\ P \in [OpnCBs -> OPN] /\ \A p \in OpnCBs \ {o} : P[p] = O[p]
        /\ Same(P[o], O[o]) /\ Lists(P[o].requestq, Of(o) \ {r})
        /\ P[o].nwaireq = O[o].nwaireq /\ P[o].abort_cnt = O[o].abort_cnt
    BY <1>5, <1>16, <2>1, <2>2, RequestGone
  <2>5. /\ \A p \in OpnCBs \ {o} : P[p] = opn[p]
        /\ Same(P[o], opn[o]) /\ P[o].abort_cnt = opn[o].abort_cnt
        /\ P[o].nwaireq = IF pc[t].kind = "any" THEN 0 ELSE opn[o].nwaireq
    BY <1>16, <2>4 DEF Same
  <2>6. /\ req' \in [ReqCBs -> REQ]
        /\ \A s \in ReqCBs \ Range(pc[t].rs) : req'[s] = req[s]
        /\ \A s \in Range(pc[t].rs) :
             req'[s].tskid = NULL /\ req'[s].opncb = IF s \in {r} THEN NULL ELSE o
    <3>1. FreeReq \in REQ /\ FreeReq.opncb = NULL /\ FreeReq.tskid = NULL
      BY DEF FreeReq, REQ
    <3> HIDE DEF FreeReq
    <3> QED BY <1>5, <1>15, <2>1, <2>3, <3>1
  <2>7. PICK G : G = {r}
    OBVIOUS
  <2>8. /\ G \subseteq Range(pc[t].rs) /\ Lists(P[o].requestq, Of(o) \ G)
        /\ \A s \in Range(pc[t].rs) :
             req'[s].tskid = NULL /\ req'[s].opncb = IF s \in G THEN NULL ELSE o
    BY <2>1, <2>4, <2>6, <2>7
  <2>9. Returns(t, o, P, G)
    BY <1>1, <1>2, <2>3, <2>4, <2>5, <2>6, <2>8 DEF Driving, Returns
  <2> QED BY <2>9, ReturnsStep
<1> QED BY <1>17, <1>18

\* The second half of a synchronous call finds its block closed.
LEMMA SreaFailsStep ==
  ASSUME DevInv, NEW t \in Tasks, tk_srea_dev_fails(t)
  PROVE  DevInv'
<1>1. /\ pc[t].at = "started" /\ UNCHANGED <<ddev, syncq, req, disabled, dabort, drv>> /\ Return(t)
  BY DEF tk_srea_dev_fails, At, locks
<1>2. PICK o \in OpnCBs : o = pc[t].o
  BY <1>1 DEF DevInv, TaskInv, At
<1>3. opn \in [OpnCBs -> OPN] /\ req \in [ReqCBs -> REQ] /\ pc \in [Tasks -> PC] /\ opn[o] \in OPN
  BY DEF DevInv, DevTypes
<1>4. PICK n \in Int : n = less(opn[o].syncreq)
  BY <1>3, LessType DEF OPN
<1>5. opn' = opn \/ opn' = [opn EXCEPT ![o].syncreq = n]
  BY <1>2, <1>4 DEF tk_srea_dev_fails
<1>6. /\ opn' \in [OpnCBs -> OPN] /\ \A p \in OpnCBs \ {o} : opn'[p] = opn[p]
      /\ Same(opn'[o], opn[o]) /\ opn'[o].requestq = opn[o].requestq
      /\ opn'[o].nwaireq = opn[o].nwaireq /\ opn'[o].abort_cnt = opn[o].abort_cnt
  <2>1. CASE opn' = opn
    BY <1>3, <2>1 DEF Same
  <2>2. CASE opn' = [opn EXCEPT ![o].syncreq = n]
    BY <1>3, <2>2, SyncField
  <2> QED BY <1>5, <2>1, <2>2
<1>7. /\ pc' \in [Tasks -> PC] /\ Others(t) /\ pc'[t].at = "user" /\ ~pc'[t].cleanup
      /\ \A p \in OpnCBs : /\ opn'[p].omode = opn[p].omode /\ opn'[p].resid = opn[p].resid
                           /\ opn'[p].grp = opn[p].grp /\ opn'[p].unitno = opn[p].unitno
                           /\ opn'[p].nwaireq = opn[p].nwaireq
                           /\ opn'[p].requestq = opn[p].requestq
                           /\ opn'[p].abort_tskid = opn[p].abort_tskid
                           /\ opn'[p].abort_cnt = opn[p].abort_cnt
  BY <1>1, <1>3, <1>6, ReturnEffect DEF Same
<1>8. {pc[t].at, pc'[t].at} \cap (Opening \cup Closing \cup Driving \cup Aborting \cup Aborted
                                     \cup Working \cup Queueing \cup Emptied) = {}
  BY <1>1, <1>7 DEF Opening, Closing, Driving, Aborting, Aborted, Working, Queueing, Emptied
<1>9. DevTypes'
  BY <1>1, <1>3, <1>6, <1>7 DEF DevInv, DevTypes
<1>10. SyncInv'
  BY <1>1, <1>7, <1>8, SyncKept DEF DevInv, SyncInv
<1>11. BlockInv' /\ CleanupInv'
  BY <1>1, <1>7, <1>8, BlocksKept DEF DevInv
<1>12. QueueInv' /\ TaskInv' /\ AnyInv'
  <2>1. PICK D : D = {}
    OBVIOUS
  <2>2. \A s \in ReqCBs : req[s].tskid # t
    BY <1>1, <1>8, DeviceAssumption DEF DevInv, TaskInv
  <2>3. Lists(opn'[o].requestq, Of(o) \ D)
    <3>1. Of(o) \ D = Of(o)
      BY <2>1
    <3> QED BY <1>7, <3>1 DEF DevInv, QueueInv
  <2>4. GivesBack(t, o, D, D)
    BY <1>1, <1>7, <1>8, <2>1, <2>2, <2>3 DEF GivesBack
  <2> QED BY <1>7, <2>4, RequestsLeft DEF DevInv
<1>13. AbortInv'
  <2>1. {pc[t].at, pc'[t].at} \cap (Driving \cup Aborting \cup {"abort_waitfn"}) = {}
    BY <1>8 DEF Aborted
  <2>2. pc'[t].at \notin Aborted
    BY <1>8
  <2> QED BY <1>1, <1>7, <2>1, <2>2, AbortKept DEF DevInv
<1>14. OpenInv'
  <2>1. {pc[t].at, pc'[t].at} \cap {"openfn", "closefn"} = {}
    BY <1>1, <1>7
  <2> QED BY <1>1, <1>7, <2>1, OpenKept DEF DevInv
<1> QED BY <1>9, <1>10, <1>11, <1>12, <1>13, <1>14 DEF DevInv

\* A task exception marks the requests of its task.
LEMMA BreakStep ==
  ASSUME DevInv, NEW t \in Tasks, devmgr_break(t)
  PROVE  DevInv'
<1>1. /\ UNCHANGED <<ddev, syncq, opn, disabled, dabort, drv>>
      /\ pc[t].at \in {"execfn", "started", "waitfn"}
  BY DEF devmgr_break, locks
<1>2. opn \in [OpnCBs -> OPN] /\ req \in [ReqCBs -> REQ] /\ pc \in [Tasks -> PC]
  BY DEF DevInv, DevTypes
<1>3. /\ pc' \in [Tasks -> PC] /\ Others(t)
      /\ \A u \in Tasks : /\ pc'[u].at = pc[u].at /\ pc'[u].o = pc[u].o /\ pc'[u].rs = pc[u].rs
                          /\ pc'[u].kind = pc[u].kind /\ pc'[u].cleanup = pc[u].cleanup
  <2>1. pc' = [pc EXCEPT ![t].brk = pc[t].kind = "sync"]
    BY DEF devmgr_break
  <2>2. PICK c \in PC : c = pc[t]
    BY <1>2
  <2>3. PICK b \in BOOLEAN : b = (c.kind = "sync")
    OBVIOUS
  <2>4. PICK d : d = [c EXCEPT !.brk = b]
    OBVIOUS
  <2>5. /\ d \in PC /\ d.at = c.at /\ d.o = c.o /\ d.rs = c.rs /\ d.kind = c.kind
        /\ d.cleanup = c.cleanup
    BY <2>4 DEF PC
  <2>6. pc' = [pc EXCEPT ![t] = d]
    BY <2>1, <2>2, <2>3, <2>4
  <2> QED BY <1>2, <2>2, <2>5, <2>6 DEF Others
<1>4. /\ req' \in [ReqCBs -> REQ]
      /\ \A r \in ReqCBs : /\ req'[r].opncb = req[r].opncb /\ req'[r].tskid = req[r].tskid
                           /\ req[r].abort => req'[r].abort
  <2>1. PICK rs : req' = [r \in ReqCBs |-> [req[r] EXCEPT !.abort = @ \/ r \in rs]]
    BY DEF devmgr_break
  <2>2. \A r \in ReqCBs : req[r] \in REQ
    BY <1>2
  <2> QED BY <2>1, <2>2 DEF REQ
<1>5. /\ \A p : Of(p)' = Of(p)
      /\ \A p : Back(p)' = Back(p)
      /\ openq' = openq
  BY <1>1, <1>3, <1>4 DEF Of, Back, openq
<1>6. {pc[t].at, pc'[t].at} \cap (Opening \cup Closing \cup Working \cup Queueing
                                     \cup {"user", "openfn", "closefn"}) = {}
  BY <1>1, <1>3 DEF Opening, Closing, Aborting, Aborted, Working, Queueing
<1>7. DevTypes'
  BY <1>1, <1>2, <1>3, <1>4 DEF DevInv, DevTypes
<1>8. SyncInv'
  BY <1>1, <1>3, SyncKept DEF DevInv, SyncInv
<1>9. BlockInv' /\ CleanupInv'
  <2>1. ~pc'[t].cleanup
    BY <1>3, <1>6 DEF DevInv, CleanupInv
  <2> QED BY <1>1, <1>3, <1>6, <2>1, BlocksKept DEF DevInv
<1>10. QueueInv'
  <2>1. (\A p \in OpnCBs : Lists(opn[p].requestq, Of(p)))'
    <3>1. ASSUME NEW p \in OpnCBs PROVE Lists(opn'[p].requestq, Of(p)')
      BY <1>1, <1>5 DEF DevInv, QueueInv
    <3> QED BY <3>1
  <2>2. (\A p \in OpnCBs : p \notin openq \/ opn[p].resid = 0 => Of(p) = {})'
    BY <1>1, <1>5 DEF DevInv, QueueInv
  <2>3. (\A u \in Tasks : pc[u].at \in Emptied => Of(pc[u].o) = {})'
    <3>1. \A u \in Tasks : pc'[u].at \in Emptied => Of(pc'[u].o) = {}
      BY <1>3 DEF DevInv, QueueInv
    <3> QED BY <1>5, <3>1
  <2> QED BY <2>1, <2>2, <2>3 DEF QueueInv
<1>11. TaskInv'
  BY <1>3, <1>4 DEF DevInv, TaskInv, At
<1>12. AnyInv'
  <2>1. \A u \in Tasks : pc'[u].at = "waitfn" /\ pc'[u].kind = "any" =>
          opn'[pc'[u].o].nwaireq > 0 /\ Back(pc'[u].o) = {u}
    BY <1>1, <1>3 DEF DevInv, AnyInv, At
  <2>2. \A p \in OpnCBs : opn'[p].nwaireq > 0 =>
          \E u \in Tasks : pc'[u].at = "waitfn" /\ pc'[u].kind = "any" /\ pc'[u].o = p
    BY <1>1, <1>3 DEF DevInv, AnyInv, At
  <2> QED BY <1>5, <2>1, <2>2 DEF AnyInv, At
<1>13. AbortInv'
  <2>0. AbortInv
    BY DEF DevInv
  <2>1. ASSUME NEW u \in Tasks, pc'[u].at \in {"abort_test", "abort_wait"}
        PROVE  /\ opn'[pc'[u].o].abort_cnt = Cardinality(Back(pc'[u].o))
               /\ \A v \in Back(pc'[u].o), r \in ReqCBs :
                    pc'[v].kind # "any" /\ r \in Range(pc'[v].rs) => req'[r].abort
    <3>1. /\ opn[pc[u].o].abort_cnt = Cardinality(Back(pc[u].o))
          /\ \A v \in Back(pc[u].o), r \in ReqCBs :
               pc[v].kind # "any" /\ r \in Range(pc[v].rs) => req[r].abort
      BY <1>3, <2>0, <2>1 DEF AbortInv
    <3>2. pc'[u].o = pc[u].o
      BY <1>3
    <3>3. \A v \in Back(pc[u].o) : v \in Tasks
      BY DEF Back
    <3> QED BY <1>1, <1>3, <1>4, <3>1, <3>2, <3>3
  <2>2. (\A u \in Tasks : pc[u].at \in {"abort_test", "abort_wait"} =>
           /\ opn[pc[u].o].abort_cnt = Cardinality(Back(pc[u].o))
           /\ \A v \in Back(pc[u].o), r \in ReqCBs :
                pc[v].kind # "any" /\ r \in Range(pc[v].rs) => req[r].abort)'
    BY <1>5, <2>1
  <2>3. (\A u \in Tasks : pc[u].at \in Aborted => Back(pc[u].o) = {})'
    <3>1. \A u \in Tasks : pc'[u].at \in Aborted => Back(pc'[u].o) = {}
      BY <1>3, <2>0 DEF AbortInv
    <3> QED BY <1>5, <3>1
  <2>4. (\A u \in Tasks : At(u, "abort_waitfn") =>
           \E r \in ReqCBs : r \in Of(pc[u].o) /\ pc[u].rs = <<r>>)'
    <3>1. \A u \in Tasks : pc'[u].at = "abort_waitfn" =>
            \E r \in ReqCBs : r \in Of(pc'[u].o) /\ pc'[u].rs = <<r>>
      BY <1>3, <2>0 DEF AbortInv, At
    <3> QED BY <1>5, <3>1 DEF At
  <2>5. /\ (\A u \in Tasks : At(u, "abortfn") => dabort = u)'
        /\ (\A u \in Tasks : pc[u].at \in Aborting => opn[pc[u].o].abort_tskid = u)'
        /\ (\A u \in Tasks : At(u, "abort_wait") => (u \in disabled <=> opn[pc[u].o].abort_cnt = 0))'
        /\ (\A p \in OpnCBs : opn[p].abort_tskid # NULL =>
              /\ opn[p].abort_tskid \in Tasks
              /\ pc[opn[p].abort_tskid].at \in Aborting /\ pc[opn[p].abort_tskid].o = p)'
    BY <1>1, <1>3, <2>0 DEF AbortInv, At
  <2> QED BY <2>2, <2>3, <2>4, <2>5 DEF AbortInv
<1>14. OpenInv'
  BY <1>1, <1>3, <1>6, OpenKept DEF DevInv
<1> QED BY <1>7, <1>8, <1>9, <1>10, <1>11, <1>12, <1>13, <1>14 DEF DevInv

---------------------------------------------------------------------------
(* The invariant. *)

\* It holds initially.
LEMMA DevInit ==
  ASSUME DeviceInit
  PROVE  DevInv
<1> USE DEF Opening, Closing, Aborting, Aborted, Emptied, Working, Queueing, Driving
<1>1. /\ ddev \in BOOLEAN /\ syncq = << >> /\ disabled = {}
      /\ opn \in [OpnCBs -> OPN] /\ req \in [ReqCBs -> REQ] /\ pc \in [Tasks -> PC]
      /\ drv = [u \in Units |-> 0]
      /\ \A o \in OpnCBs : /\ opn[o].resid = 0 /\ opn[o].omode = {} /\ opn[o].requestq = << >>
                           /\ opn[o].nwaireq = 0 /\ opn[o].abort_tskid = NULL
      /\ \A r \in ReqCBs : req[r].opncb = NULL /\ req[r].tskid = NULL
      /\ \A t \in Tasks : pc[t].at = "user" /\ ~pc[t].cleanup
  <2>1. FreeOpn \in OPN /\ FreeReq \in REQ
    BY DEF FreeOpn, OPN, FreeReq, REQ
  <2>2. Idle \in PC /\ Idle.at = "user" /\ ~Idle.cleanup
    BY IdleTask DEF Idle
  <2>3. /\ FreeOpn.resid = 0 /\ FreeOpn.omode = {} /\ FreeOpn.requestq = << >>
        /\ FreeOpn.nwaireq = 0 /\ FreeOpn.abort_tskid = NULL
        /\ FreeReq.opncb = NULL /\ FreeReq.tskid = NULL
    BY DEF FreeOpn, FreeReq
  <2> HIDE DEF FreeOpn, FreeReq, Idle
  <2> QED BY <2>1, <2>2, <2>3 DEF DeviceInit
<1>2. openq = {} /\ InSync = {} /\ \A o \in OpnCBs : Of(o) = {}
  <2>1. openq = {} /\ InSync = {}
    BY <1>1 DEF openq, InSync
  <2>2. \A o \in OpnCBs : Of(o) = {}
    BY <1>1, DeviceAssumption DEF Of
  <2> QED BY <2>1, <2>2
<1>3. DevTypes
  BY <1>1 DEF DevTypes
<1>4. SyncInv
  BY <1>1, <1>2, NothingListed DEF SyncInv
<1>5. BlockInv /\ CleanupInv
  BY <1>1, <1>2 DEF BlockInv, CleanupInv, Has
<1>6. QueueInv
  BY <1>1, <1>2, NothingListed DEF QueueInv
<1>7. TaskInv /\ AnyInv /\ AbortInv
  BY <1>1 DEF TaskInv, AnyInv, AbortInv, At
<1>8. OpenInv
  <2>1. \A u \in Units : Complete(u) = {}
    BY <1>2 DEF Complete
  <2> QED BY <1>1, <1>2, <2>1, FS_EmptySet, DeviceAssumption DEF OpenInv, At
<1> QED BY <1>3, <1>4, <1>5, <1>6, <1>7, <1>8 DEF DevInv

\* Every step keeps it, as long as a task that closes looks at the count
\* before another one comes back, and a wait for any request meets none in
\* the driver.
LEMMA DevStep ==
  ASSUME DevInv, ~AbortRace, ~MixedWaits, [DeviceNext]_vars
  PROVE  DevInv'
<1>1. CASE UNCHANGED vars
  <2>1. /\ UNCHANGED <<ddev, syncq, opn, req, disabled, dabort, pc, drv>>
        /\ openq' = openq /\ InSync' = InSync
        /\ \A o : Of(o)' = Of(o) /\ Back(o)' = Back(o)
        /\ \A t, o : Has(t, o)' <=> Has(t, o)
        /\ \A t, x : At(t, x)' <=> At(t, x)
    BY <1>1 DEF vars, blocks, sus, locks, openq, InSync, Of, Back, Has, At
  <2>2. /\ \A u : Complete(u)' = Complete(u)
        /\ \A o : chkopen(o)' <=> chkopen(o)
    BY <2>1 DEF Complete, Counts, chkopen
  <2>3. DevTypes' /\ SyncInv' /\ BlockInv' /\ CleanupInv'
    BY <2>1 DEF DevInv, DevTypes, SyncInv, BlockInv, CleanupInv
  <2>4. QueueInv' /\ AnyInv'
    BY <2>1 DEF DevInv, QueueInv, AnyInv
  <2>5. TaskInv' /\ AbortInv'
    BY <2>1 DEF DevInv, TaskInv, AbortInv
  <2>6. OpenInv'
    BY <2>1, <2>2 DEF DevInv, OpenInv
  <2> QED BY <2>3, <2>4, <2>5, <2>6 DEF DevInv
<1>2. ASSUME NEW t \in Tasks, Close(t) PROVE DevInv'
  BY <1>2, ClsStep, AbortBeginsStep, CallAbortfnStep, AbortTestStep, AbortSyncedStep, AbortRestStep,
     AbortWaitfnStep, CloseBeginsStep, CloseSyncedStep, CloseDeviceStep, ClosefnReturnsStep
     DEF Close
<1>3. ASSUME NEW t \in Tasks, Requests(t) PROVE DevInv'
  <2>1. CASE \E o \in OpnCBs, bit \in {"READ", "WRITE"}, r \in ReqCBs, k \in {"async", "sync"} :
               request(t, o, bit, r, k)
    BY <2>1, RequestStep
  <2>2. CASE \E ok \in BOOLEAN : execfn_returns(t, ok)
    BY <2>2, ExecfnReturnsStep
  <2>3. CASE \E o \in OpnCBs, r \in ReqCBs : tk_wai_dev(t, o, r)
    BY <2>3, WaiStep
  <2>4. CASE \E o \in OpnCBs : tk_wai_dev_any(t, o)
    BY <2>4, WaiAnyStep
  <2>5. CASE \E i \in 0 .. Len(pc[t].rs) : waitfn_returns(t, i)
    BY <2>5, WaitfnReturnsStep
  <2> QED BY <1>3, <2>1, <2>2, <2>3, <2>4, <2>5, SreaWaitsStep, SreaFailsStep, BreakStep DEF Requests
<1>4. ASSUME NEW t \in Tasks, Manage(t) PROVE DevInv'
  BY <1>4, OpnStep, OpenSyncedStep, OpenSectionsStep, OpenfnReturnsStep, DefStep, SusStep, CleanupStep
     DEF Manage
<1> QED BY <1>1, <1>2, <1>3, <1>4, DeviceAssumption DEF DeviceNext

\* What the properties say of one state.
LEMMA DevInvImplies ==
  ASSUME DevInv
  PROVE  OneDriverCall /\ DriverOpen /\ RequestsOwned /\ WaitersWillBeWoken
<1>1. OneDriverCall
  <2>1. {"openfn", "closefn"} \subseteq Working
    BY DEF Working
  <2> QED BY <2>1, OneWorks DEF DevInv, OneDriverCall
<1>2. DriverOpen
  BY DEF DriverOpen, DevInv, OpenInv, Complete, Counts
<1>3. RequestsOwned
  <2> DEFINE InDriverFn == {t \in Tasks : pc[t].at \in {"execfn", "waitfn", "abort_waitfn"}}
  <2>0. pc \in [Tasks -> PC]
    BY DEF DevInv, DevTypes
  <2>1. ASSUME NEW t \in InDriverFn, NEW r \in ToSet(pc[t].rs)
        PROVE  /\ r \in ReqCBs /\ req[r].opncb = pc[t].o /\ pc[t].o \in OpnCBs
               /\ pc[t].at \in Driving => req[r].tskid = t
               /\ pc[t].at = "abort_waitfn" => Back(pc[t].o) = {}
    <3>1. r \in Range(pc[t].rs)
      BY <2>0 DEF PC, ToSet, Range
    <3>2. CASE pc[t].at \in Driving
      BY <3>1, <3>2 DEF DevInv, TaskInv, Driving
    <3>3. CASE pc[t].at = "abort_waitfn"
      <4>1. PICK s \in ReqCBs : s \in Of(pc[t].o) /\ pc[t].rs = <<s>>
        BY <3>3 DEF DevInv, AbortInv, At
      <4>2. r = s
        BY <3>1, <4>1, OneRequest
      <4>3. req[s].opncb = pc[t].o
        BY <4>1 DEF Of
      <4>4. pc[t].o \in OpnCBs /\ Back(pc[t].o) = {}
        BY <3>3, ClosingBlock DEF DevInv, AbortInv, Closing, Aborted
      <4> QED BY <3>3, <4>2, <4>3, <4>4 DEF Driving
    <3> QED BY <3>2, <3>3 DEF Driving
  <2>2. ASSUME NEW t \in InDriverFn, NEW r \in ToSet(pc[t].rs)
        PROVE  Contains(opn[pc[t].o].requestq, r)
    <3>1. PICK o \in OpnCBs : o = pc[t].o /\ r \in Of(o)
      BY <2>1, <2>2 DEF Of
    <3>2. Lists(opn[o].requestq, Of(o)) /\ opn[o].requestq \in Seq(ReqCBs)
      BY DEF DevInv, QueueInv, DevTypes, OPN
    <3>3. PICK i \in 1 .. Len(opn[o].requestq) : opn[o].requestq[i] = r
      BY <3>1, <3>2 DEF Lists, Range
    <3> QED BY <3>1, <3>3 DEF Contains
  <2>3. ASSUME NEW t \in InDriverFn, NEW u \in InDriverFn, t # u,
               NEW r \in ToSet(pc[t].rs), r \in ToSet(pc[u].rs)
        PROVE  FALSE
    <3>1. /\ req[r].opncb = pc[t].o /\ req[r].opncb = pc[u].o
          /\ pc[t].at \in Driving => req[r].tskid = t
          /\ pc[u].at \in Driving => req[r].tskid = u
          /\ pc[t].at = "abort_waitfn" => Back(pc[t].o) = {}
          /\ pc[u].at = "abort_waitfn" => Back(pc[u].o) = {}
      BY <2>1, <2>3
    <3>2. \/ pc[t].at \in Driving /\ pc[u].at = "abort_waitfn"
          \/ pc[u].at \in Driving /\ pc[t].at = "abort_waitfn"
          \/ pc[t].at = "abort_waitfn" /\ pc[u].at = "abort_waitfn"
      BY <2>3, <3>1 DEF Driving
    <3>3. CASE pc[t].at = "abort_waitfn" /\ pc[u].at = "abort_waitfn"
      BY <2>3, <3>1, <3>3, ClosingBlock DEF Closing, Aborted
    <3> QED BY <3>1, <3>2, <3>3 DEF Back
  <2> QED BY <2>1, <2>2, <2>3 DEF RequestsOwned
<1>4. WaitersWillBeWoken
  <2>1. ASSUME NEW t \in Tasks, pc[t].at \in {"open_wait", "close_wait"}
        PROVE  t \in disabled \/ Head(syncq) # t
    BY <2>1 DEF DevInv, SyncInv, Queueing
  <2>2. ASSUME NEW t \in Tasks, pc[t].at = "abort_wait", t \notin disabled
        PROVE  /\ opn[pc[t].o].abort_cnt = Cardinality(Back(pc[t].o)) /\ Back(pc[t].o) # {}
               /\ \A u \in Back(pc[t].o) : pc[u].kind # "any" => req[pc[u].rs[1]].abort
    <3>1. /\ opn[pc[t].o].abort_cnt = Cardinality(Back(pc[t].o)) /\ opn[pc[t].o].abort_cnt # 0
          /\ \A u \in Back(pc[t].o), r \in ReqCBs :
               pc[u].kind # "any" /\ r \in Range(pc[u].rs) => req[r].abort
      BY <2>2 DEF DevInv, AbortInv, At
    <3>2. Back(pc[t].o) # {}
      BY <3>1, FS_EmptySet
    <3>3. ASSUME NEW u \in Back(pc[t].o), pc[u].kind # "any" PROVE req[pc[u].rs[1]].abort
      <4>1. PICK r \in ReqCBs : pc[u].rs = <<r>>
        BY <3>3 DEF Back, DevInv, TaskInv
      <4>2. r \in Range(pc[u].rs) /\ pc[u].rs[1] = r
        BY <4>1, OneRequest
      <4> QED BY <3>1, <3>3, <4>2
    <3> QED BY <3>1, <3>2, <3>3
  <2> QED BY <2>1, <2>2 DEF WaitersWillBeWoken, At, Back, Driving
<1> QED BY <1>1, <1>2, <1>3, <1>4

\* The inductive invariant, for any tasks, blocks, units and modes, without
\* the two races the module's constants name.
THEOREM DeviceInvariant ==
  ASSUME ~AbortRace, ~MixedWaits
  PROVE  DeviceSpec => []DevInv
<1>1. DeviceInit => DevInv
  BY DevInit
<1>2. DevInv /\ [DeviceNext]_vars => DevInv'
  BY DevStep
<1> QED BY <1>1, <1>2, PTL DEF DeviceSpec

\* deviceio.c:343, 472: openfn and closefn of the driver never run for two
\* tasks at once.
THEOREM DeviceOneDriverCall ==
  ASSUME ~AbortRace, ~MixedWaits
  PROVE  DeviceSpec => []OneDriverCall
BY DeviceInvariant, DevInvImplies, PTL

\* What the driver has seen opened is what the manager hands out.
THEOREM DeviceDriverOpen ==
  ASSUME ~AbortRace, ~MixedWaits
  PROVE  DeviceSpec => []DriverOpen
BY DeviceInvariant, DevInvImplies, PTL

\* A request in the driver stays on the queue of its open block and belongs
\* to one task, whoever closes the block meanwhile.
THEOREM DeviceRequestsOwned ==
  ASSUME ~AbortRace, ~MixedWaits
  PROVE  DeviceSpec => []RequestsOwned
BY DeviceInvariant, DevInvImplies, PTL

\* Who waits for its turn to open or close, or for the returns of what it
\* aborts, has a signal pending or somebody to send it.
THEOREM DeviceWaitersWillBeWoken ==
  ASSUME ~AbortRace, ~MixedWaits
  PROVE  DeviceSpec => []WaitersWillBeWoken
BY DeviceInvariant, DevInvImplies, PTL
=============================================================================

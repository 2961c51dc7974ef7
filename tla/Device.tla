------------------------------- MODULE Device -------------------------------
(***************************************************************************)
(* One device of the device manager (device.c, deviceio.c): opening and    *)
(* closing it, starting requests on it and waiting for them, the abort of  *)
(* what is outstanding when it is closed, and the count of those who       *)
(* forbid to suspend the system.                                           *)
(*                                                                         *)
(* The manager works under a lock (DM) that it gives up around every call  *)
(* of the driver, and while it waits for another task.  A task waits on a  *)
(* semaphore nobody signals; tk_dis_wai ends the wait and is remembered if *)
(* it comes too early.  The bits of DevMgrLock are exclusive locks, as     *)
(* FastLocks.tla shows.  The driver is external: it may return from a      *)
(* request at any time and with any result.                                *)
(***************************************************************************)
EXTENDS FiniteSets, WaitQueue

CONSTANTS
  Tasks,       \* the tasks
  resid,       \* the resource group (a positive number) of each task
  OpnCBs,      \* the open management blocks
  ReqCBs,      \* the request management blocks
  Units,       \* the subunits, 0 being the physical device
  Modes,       \* the open modes in use, sets of the TD_ bits
  Requesters,  \* bound: the tasks that make requests
  Managers,    \* bound: the tasks that register the device, open it, call
               \* tk_sus_dev and clean up
  MAX_DISSUS,  \* bound of the suspend disable requests
  NULL,        \* no task, no block
  AbortRace,   \* whether a closing task may lose the processor between the
               \* release of DAbort and its look at abort_cnt
  MixedWaits   \* whether a wait for any request of an open device meets
               \* requests of it that are being started

ASSUME DeviceAssumption ==
  /\ \A t \in Tasks : resid[t] \in Nat \ {0}
  /\ Modes \subseteq SUBSET {"READ", "WRITE", "EXCL", "REXCL", "WEXCL"}
  /\ MAX_DISSUS \in Nat
  /\ Requesters \subseteq Tasks /\ Managers \subseteq Tasks
  /\ NULL \notin Tasks \cup OpnCBs
  /\ AbortRace \in BOOLEAN /\ MixedWaits \in BOOLEAN

Groups == {resid[t] : t \in Tasks}

VARIABLES
  ddev,       \* the registration: NULL, or whether every open is passed on (TDA_OPENREQ)
  syncq,      \* DevCB.syncq: the tasks that open or close, the first at work
  opn,        \* the open management blocks
  req,        \* the request management blocks
  DisSusCnt,  \* suspend disable requests of all groups
  dissus,     \* ResCB.dissus, the ones of each group
  disabled,   \* the tasks whose next semaphore wait ends at once
  dm,         \* the task in a section locked by LockDM, NULL between them
  dabort,     \* the task that holds LockDAbort
  pc,         \* where in the manager or the driver each task is
  drv         \* external: how many opens of each unit the driver has seen

blocks == <<opn, req>>
locks  == <<dm, dabort>>
sus    == <<DisSusCnt, dissus>>
vars   == <<ddev, syncq, blocks, sus, disabled, locks, pc, drv>>

FreeOpn == [ resid |-> 0, grp |-> 0, unitno |-> 0, omode |-> {}, requestq |-> << >>,
             syncreq |-> 0, waitone |-> 0, nwaireq |-> 0, waireqlst |-> << >>,
             abort_tskid |-> NULL, abort_cnt |-> 0 ]
FreeReq == [opncb |-> NULL, tskid |-> NULL, abort |-> FALSE]
Idle    == [at |-> "user", o |-> NULL, rs |-> << >>, kind |-> "async",
            cleanup |-> FALSE, brk |-> FALSE]

DeviceInit ==
  /\ ddev \in BOOLEAN
  /\ syncq = << >>
  /\ opn = [o \in OpnCBs |-> FreeOpn]
  /\ req = [r \in ReqCBs |-> FreeReq]
  /\ DisSusCnt = 0 /\ dissus = [g \in Groups |-> 0]
  /\ disabled = {}
  /\ dm = NULL /\ dabort = NULL
  /\ pc = [t \in Tasks |-> Idle]
  /\ drv = [u \in Units |-> 0]

At(t, there)   == pc[t].at = there
Goto(t, there) == pc' = [pc EXCEPT ![t].at = there]
Return(t)      == pc' = [pc EXCEPT ![t] = Idle]

Cleaned(g) == \E t \in Tasks : pc[t].cleanup /\ opn[pc[t].o].grp = g

\* The tasks of a group have ended when its resources are cleaned up.
Calling(t) == At(t, "user") /\ dm = NULL /\ ~Cleaned(resid[t])

openq == {o \in OpnCBs : opn[o].omode # {}}

check_devdesc(t, o) == opn[o].resid = resid[t]

---------------------------------------------------------------------------
(* The synchronisation queue *)

SyncSignalDM(T) == disabled' = disabled \cup T

\* tk_wai_sem, tk_ena_wai and then LockDM
SyncWaitDM(t) ==
  /\ t \in disabled /\ dm = NULL
  /\ disabled' = disabled \ {t}

\* Mutant: the task does not wait.
enterSyncWait_through(t, go, wait, p) ==
  /\ syncq' = Append(syncq, t)
  /\ dm' = t /\ pc' = [p EXCEPT ![t].at = go]

\* The task enters the queue and goes on, still in DM, if it is the first.
enterSyncWait(t, go, wait, p) ==
  /\ syncq' = Append(syncq, t)
  /\ IF syncq = << >>
     THEN dm' = t /\ pc' = [p EXCEPT ![t].at = go]
     ELSE dm' = NULL /\ pc' = [p EXCEPT ![t].at = wait]

\* Mutant: the next task is not woken.
leaveSyncWait_silent(t, back) == syncq' = QueRemove(syncq, t) /\ UNCHANGED disabled

\* back: the task also leaves the manager, and svc_ientry gives it the wait
\* mask back that it had before the call.
leaveSyncWait(t, back) ==
  LET q == QueRemove(syncq, t)
  IN /\ syncq' = q
     /\ disabled' = (disabled \cup (IF q = << >> THEN {} ELSE {Head(q)}))
                      \ (IF back THEN {t} ELSE {})

---------------------------------------------------------------------------
(* Opening *)

overlap(u, v) == u = 0 \/ v = 0 \/ u = v

Bars(m, bit, excl) == m \cap {"EXCL", excl} # {}

\* Whether opens with modes m and n go together on one unit.
compatible(m, n) ==
  /\ Bars(m, "READ", "REXCL") => "READ" \notin n
  /\ Bars(m, "WRITE", "WEXCL") => "WRITE" \notin n
  /\ Bars(n, "READ", "REXCL") => "READ" \notin m
  /\ Bars(n, "WRITE", "WEXCL") => "WRITE" \notin m

chkopenmode(unitno, omode) ==
  /\ omode \cap {"READ", "WRITE"} # {}
  /\ \A o \in openq :
       overlap(unitno, opn[o].unitno) => compatible(omode, opn[o].omode)

\* Mutant: an open being closed does not count.
chkopen_usable(o) ==
  \E p \in openq \ {o} : opn[p].unitno = opn[o].unitno /\ opn[p].resid > 0

\* Another open of the unit is complete, or on its way out.
chkopen(o) ==
  \E p \in openq \ {o} : opn[p].unitno = opn[o].unitno /\ opn[p].resid # 0

tk_opn_dev(t, unitno, omode, o) ==
  /\ Calling(t)
  /\ ddev # NULL
  /\ chkopenmode(unitno, omode)
  /\ o \notin openq
  /\ opn' = [opn EXCEPT ![o] = [FreeOpn EXCEPT !.grp = resid[t], !.unitno = unitno,
                                               !.omode = omode]]
  /\ enterSyncWait(t, "open", "open_wait", [pc EXCEPT ![t].o = o])
  /\ UNCHANGED <<ddev, req, sus, disabled, dabort, drv>>

open_synced(t) ==
  /\ At(t, "open_wait")
  /\ SyncWaitDM(t)
  /\ dm' = t /\ Goto(t, "open")
  /\ UNCHANGED <<ddev, syncq, blocks, sus, dabort, drv>>

\* Without a call of the driver the open is complete in the same section.
open_sections(t) ==
  /\ At(t, "open") /\ dm = t
  /\ dm' = NULL
  /\ IF chkopen(pc[t].o) /\ ~ddev
     THEN /\ opn' = [opn EXCEPT ![pc[t].o].resid = resid[t]]
          /\ leaveSyncWait(t, TRUE)
          /\ Return(t)
     ELSE /\ Goto(t, "openfn")
          /\ UNCHANGED <<opn, syncq, disabled>>
  /\ UNCHANGED <<ddev, req, sus, dabort, drv>>

openfn_returns(t, ok) ==
  /\ At(t, "openfn") /\ dm = NULL
  /\ opn' = [opn EXCEPT ![pc[t].o] =
               IF ok THEN [@ EXCEPT !.resid = resid[t]] ELSE FreeOpn]
  /\ drv' = [drv EXCEPT ![opn[pc[t].o].unitno] = IF ok THEN @ + 1 ELSE @]
  /\ leaveSyncWait(t, TRUE)
  /\ Return(t)
  /\ UNCHANGED <<ddev, req, sus, locks>>

---------------------------------------------------------------------------
(* Closing *)

tk_cls_dev(t, o) ==
  /\ Calling(t)
  /\ check_devdesc(t, o)
  /\ opn' = [opn EXCEPT ![o].resid = -1]
  /\ pc' = [pc EXCEPT ![t] = [Idle EXCEPT !.at = "abort", !.o = o]]
  /\ UNCHANGED <<ddev, syncq, req, sus, disabled, locks, drv>>

\* LockDM is kept until LockDAbort is taken: the task is in both when it
\* changes the block.
abort_begins(t) ==
  /\ At(t, "abort") /\ dm = NULL /\ dabort = NULL
  /\ opn' = [opn EXCEPT ![pc[t].o].abort_tskid = t, ![pc[t].o].abort_cnt = 0]
  /\ dabort' = t
  /\ Goto(t, "abortfn")
  /\ UNCHANGED <<ddev, syncq, req, sus, disabled, dm, drv>>

\* The requests marked before the driver is told to abort them, and how many
\* returns follow.  Those of a wait for any request are not marked.
InDriver(o) == {r \in ToSet(opn[o].requestq) : req[r].tskid # NULL}
aborted(o)  == IF opn[o].nwaireq > 0 THEN {} ELSE InDriver(o)
abortfns(o) == IF opn[o].nwaireq > 0 THEN 1 ELSE Cardinality(InDriver(o))

call_abortfn(t) ==
  LET o == pc[t].o
  IN /\ At(t, "abortfn")
     /\ req' = [r \in ReqCBs |-> [req[r] EXCEPT !.abort = @ \/ r \in aborted(o)]]
     /\ opn' = [opn EXCEPT ![o].abort_cnt = abortfns(o)]
     /\ dabort' = NULL
     /\ Goto(t, "abort_test")
     /\ UNCHANGED <<ddev, syncq, sus, disabled, dm, drv>>

\* abort_cnt is read again after UnlockDAbort.
abort_test(t) ==
  /\ At(t, "abort_test")
  /\ IF opn[pc[t].o].abort_cnt > 0
     THEN Goto(t, "abort_wait") /\ UNCHANGED opn
     ELSE Goto(t, "abort_rest") /\ opn' = [opn EXCEPT ![pc[t].o].abort_tskid = NULL]
  /\ UNCHANGED <<ddev, syncq, req, sus, disabled, locks, drv>>

abort_synced(t) ==
  /\ At(t, "abort_wait")
  /\ SyncWaitDM(t)
  /\ opn' = [opn EXCEPT ![pc[t].o].abort_tskid = NULL]
  /\ Goto(t, "abort_rest")
  /\ UNCHANGED <<ddev, syncq, req, sus, locks, drv>>

\* The driver is asked to end the requests nobody waits for, one by one.
abort_rest(t) ==
  LET q == opn[pc[t].o].requestq
  IN /\ At(t, "abort_rest") /\ dm \in {NULL, t}
     /\ dm' = NULL
     /\ IF q = << >>
        THEN Goto(t, "close") /\ UNCHANGED req
        ELSE /\ req' = [req EXCEPT ![Head(q)].abort = TRUE]
             /\ pc' = [pc EXCEPT ![t].at = "abort_waitfn", ![t].rs = <<Head(q)>>]
     /\ UNCHANGED <<ddev, syncq, opn, sus, disabled, dabort, drv>>

delReqCB(r, O) ==
  LET o == req[r].opncb
  IN IF o = NULL THEN O ELSE [O EXCEPT ![o].requestq = QueRemove(@, r)]

abort_waitfn_returns(t) ==
  LET r == pc[t].rs[1]
  IN /\ At(t, "abort_waitfn") /\ dm = NULL
     /\ opn' = delReqCB(r, opn)
     /\ req' = [req EXCEPT ![r] = FreeReq]
     /\ dm' = t
     /\ pc' = [pc EXCEPT ![t].at = "abort_rest", ![t].rs = << >>]
     /\ UNCHANGED <<ddev, syncq, sus, disabled, dabort, drv>>

close_begins(t) ==
  /\ At(t, "close") /\ dm = NULL
  /\ enterSyncWait(t, "close_sync", "close_wait", pc)
  /\ UNCHANGED <<ddev, blocks, sus, disabled, dabort, drv>>

close_synced(t) ==
  /\ At(t, "close_wait")
  /\ SyncWaitDM(t)
  /\ dm' = t /\ Goto(t, "close_sync")
  /\ UNCHANGED <<ddev, syncq, blocks, sus, dabort, drv>>

\* delOpnCB, leaveSyncWait; devmgr_cleanup goes on with another block.
close_ends(t) ==
  LET rest == {o \in openq \ {pc[t].o} : opn[o].grp = opn[pc[t].o].grp}
      free == [opn EXCEPT ![pc[t].o] = FreeOpn]
      again == pc[t].cleanup /\ rest # {}
  IN /\ leaveSyncWait(t, ~again)
     /\ IF again
        THEN \E o \in rest :
               /\ opn' = [free EXCEPT ![o].resid = -1]
               /\ pc' = [pc EXCEPT ![t].at = "abort", ![t].o = o]
        ELSE opn' = free /\ Return(t)

close_device(t) ==
  /\ At(t, "close_sync") /\ dm = t
  /\ dm' = NULL
  /\ IF chkopen(pc[t].o) /\ ~ddev
     THEN close_ends(t) /\ UNCHANGED drv
     ELSE /\ drv' = [drv EXCEPT ![opn[pc[t].o].unitno] = @ - 1]
          /\ Goto(t, "closefn")
          /\ UNCHANGED <<opn, syncq, disabled>>
  /\ UNCHANGED <<ddev, req, sus, dabort>>

closefn_returns(t) ==
  /\ At(t, "closefn") /\ dm = NULL
  /\ close_ends(t)
  /\ UNCHANGED <<ddev, req, sus, locks, drv>>

devmgr_cleanup(t, g) ==
  LET open == {o \in openq : opn[o].grp = g}
  IN /\ Calling(t)
     /\ ~Cleaned(g)
     /\ \A u \in Tasks : resid[u] = g => At(u, "user")
     /\ DisSusCnt' = DisSusCnt - dissus[g]
     /\ dissus' = [dissus EXCEPT ![g] = 0]
     /\ IF open = {}
        THEN UNCHANGED <<opn, pc>>
        ELSE \E o \in open :
               /\ opn' = [opn EXCEPT ![o].resid = -1]
               /\ pc' = [pc EXCEPT ![t] = [Idle EXCEPT !.at = "abort", !.o = o,
                                                       !.cleanup = TRUE]]
     /\ UNCHANGED <<ddev, syncq, req, disabled, locks, drv>>

---------------------------------------------------------------------------
(* Requests *)

\* Numbers of type UH
less(n) == (n - 1) % 65536

\* `mixed` is the use of wait-for-any the bound MixedWaits excludes.
mixed(o) == opn[o].nwaireq > 0

request(t, o, bit, r, kind) ==
  /\ Calling(t)
  /\ check_devdesc(t, o) /\ bit \in opn[o].omode
  /\ kind = "sync" => opn[o].nwaireq = 0
  /\ mixed(o) => MixedWaits
  /\ req[r].opncb = NULL
  /\ opn' = [opn EXCEPT ![o].syncreq = IF kind = "sync" THEN @ + 1 ELSE @,
                        ![o].requestq = Append(@, r)]
  /\ req' = [req EXCEPT ![r] = [opncb |-> o, tskid |-> t, abort |-> FALSE]]
  /\ pc' = [pc EXCEPT ![t] = [Idle EXCEPT !.at = "execfn", !.o = o, !.rs = <<r>>,
                                          !.kind = kind]]
  /\ UNCHANGED <<ddev, syncq, sus, disabled, locks, drv>>

\* Unless the closing task may lose the processor before abort_test, none of
\* the tasks that wait for DAbort comes in between.
comes_back(t) ==
  /\ dm = NULL /\ dabort = NULL
  /\ AbortRace \/ \A u \in Tasks : ~(At(u, "abort_test") /\ pc[u].o = pc[t].o)

\* Mutant: the first request that comes back ends the wait.
abort_counted_first(o, O) ==
  LET counted == opn[o].abort_tskid # NULL
  IN /\ opn' = [O EXCEPT ![o].abort_cnt = IF counted THEN @ - 1 ELSE @]
     /\ SyncSignalDM(IF counted THEN {opn[o].abort_tskid} ELSE {})

\* A request that comes back is counted down for the task that aborts; O is
\* opn as the caller changes it.
abort_counted(o, O) ==
  LET counted == opn[o].abort_tskid # NULL
      cnt     == opn[o].abort_cnt - 1
  IN /\ opn' = [O EXCEPT ![o].abort_cnt = IF counted THEN cnt ELSE @]
     /\ SyncSignalDM(IF counted /\ cnt = 0 THEN {opn[o].abort_tskid} ELSE {})

execfn_returns(t, ok) ==
  LET o == pc[t].o
      r == pc[t].rs[1]
      failed == [delReqCB(r, opn) EXCEPT
                   ![o].syncreq = IF pc[t].kind = "sync" THEN less(@) ELSE @]
  IN /\ At(t, "execfn") /\ comes_back(t)
     /\ abort_counted(o, IF ok THEN opn ELSE failed)
     /\ req' = [req EXCEPT ![r] = IF ok THEN [@ EXCEPT !.tskid = NULL] ELSE FreeReq]
     /\ IF ok /\ pc[t].kind = "sync" THEN Goto(t, "started") ELSE Return(t)
     /\ UNCHANGED <<ddev, syncq, sus, locks, drv>>

waitable(o, r) == req[r].opncb = o /\ opn[o].nwaireq = 0 /\ req[r].tskid = NULL

\* The wait for one request; p is pc with the task's other fields set.
wait_one(t, o, r, p) ==
  /\ req' = [req EXCEPT ![r].tskid = t, ![r].abort = @ \/ pc[t].brk]
  /\ opn' = [opn EXCEPT ![o].waitone = @ + 1]
  /\ pc' = [p EXCEPT ![t].at = "waitfn"]
  /\ UNCHANGED <<ddev, syncq, sus, disabled, locks, drv>>

\* A task knows the numbers of the requests that are not another task's
\* synchronous ones.
tk_wai_dev(t, o, r) ==
  /\ Calling(t)
  /\ check_devdesc(t, o) /\ waitable(o, r)
  /\ \A u \in Tasks : ~(At(u, "started") /\ pc[u].rs = <<r>>)
  /\ wait_one(t, o, r, [pc EXCEPT ![t] = [Idle EXCEPT !.o = o, !.rs = <<r>>]])

tk_srea_dev_waits(t) ==
  /\ At(t, "started") /\ dm = NULL
  /\ check_devdesc(t, pc[t].o) /\ waitable(pc[t].o, pc[t].rs[1])
  /\ wait_one(t, pc[t].o, pc[t].rs[1], pc)

\* The block was closed or reused meanwhile: after check_devdesc failed,
\* opncb is not initialised and its syncreq is counted down: that of the
\* block request() left on the stack, or something outside the manager.
tk_srea_dev_fails(t) ==
  LET o == pc[t].o
      less_sync == [opn EXCEPT ![o].syncreq = less(@)]
  IN /\ At(t, "started") /\ dm = NULL
     /\ \/ ~check_devdesc(t, o) /\ opn' \in {opn, less_sync}
        \/ check_devdesc(t, o) /\ ~waitable(o, pc[t].rs[1]) /\ opn' = less_sync
     /\ Return(t)
     /\ UNCHANGED <<ddev, syncq, req, sus, disabled, locks, drv>>

tk_wai_dev_any(t, o) ==
  LET q == opn[o].requestq
  IN /\ Calling(t)
     /\ check_devdesc(t, o)
     /\ opn[o].nwaireq = 0 /\ opn[o].waitone = 0 /\ opn[o].syncreq = 0
     /\ q # << >>
     /\ InDriver(o) # {} => MixedWaits
     /\ req' = [r \in ReqCBs |->
                  [req[r] EXCEPT !.tskid = IF r \in ToSet(q) THEN t ELSE @]]
     /\ opn' = [opn EXCEPT ![o].nwaireq = Len(q), ![o].waireqlst = q]
     /\ pc' = [pc EXCEPT ![t] = [Idle EXCEPT !.at = "waitfn", !.o = o, !.rs = q,
                                             !.kind = "any"]]
     /\ UNCHANGED <<ddev, syncq, sus, disabled, locks, drv>>

\* i is the request the driver says is complete, 0 an error: then the
\* request stays, a synchronous one too.
waitfn_returns(t, i) ==
  LET o   == pc[t].o
      any == pc[t].kind = "any"
      O   == [opn EXCEPT ![o].nwaireq = IF any THEN 0 ELSE @,
                         ![o].waitone = IF any THEN @ ELSE less(@),
                         ![o].syncreq = IF pc[t].kind = "sync" THEN less(@) ELSE @]
      nobody == [r \in ReqCBs |->
                   [req[r] EXCEPT !.tskid = IF r \in ToSet(pc[t].rs) THEN NULL ELSE @]]
  IN /\ At(t, "waitfn") /\ comes_back(t)
     /\ abort_counted(o, IF i = 0 THEN O ELSE delReqCB(pc[t].rs[i], O))
     /\ req' = IF i = 0 THEN nobody ELSE [nobody EXCEPT ![pc[t].rs[i]] = FreeReq]
     /\ Return(t)
     /\ UNCHANGED <<ddev, syncq, sus, locks, drv>>

\* A task exception is raised for t inside the manager; brk is pendtex # 0,
\* which only the second half of a synchronous call asks for.
devmgr_break(t) ==
  LET O == opn[pc[t].o]
      rs == {r \in ToSet(O.requestq) : O.nwaireq = 0 /\ req[r].tskid = t}
  IN /\ pc[t].at \in {"execfn", "started", "waitfn"} /\ ~pc[t].brk
     /\ dm = NULL /\ dabort = NULL
     /\ pc' = [pc EXCEPT ![t].brk = pc[t].kind = "sync"]
     /\ req' = [r \in ReqCBs |-> [req[r] EXCEPT !.abort = @ \/ r \in rs]]
     /\ UNCHANGED <<ddev, syncq, opn, sus, disabled, locks, drv>>

---------------------------------------------------------------------------
(* Registration, and the suspension of the system *)

tk_def_dev(t, d) ==
  /\ Calling(t)
  /\ \/ ddev = NULL /\ d # NULL
     \/ ddev # NULL /\ d = NULL /\ openq = {}
  /\ ddev' = d
  /\ UNCHANGED <<syncq, blocks, sus, disabled, locks, pc, drv>>

tk_sus_dev_dis(t) ==
  /\ Calling(t)
  /\ DisSusCnt < MAX_DISSUS
  /\ DisSusCnt' = DisSusCnt + 1
  /\ dissus' = [dissus EXCEPT ![resid[t]] = @ + 1]
  /\ UNCHANGED <<ddev, syncq, blocks, disabled, locks, pc, drv>>

tk_sus_dev_ena(t) ==
  /\ Calling(t)
  /\ dissus[resid[t]] > 0
  /\ DisSusCnt' = DisSusCnt - 1
  /\ dissus' = [dissus EXCEPT ![resid[t]] = @ - 1]
  /\ UNCHANGED <<ddev, syncq, blocks, disabled, locks, pc, drv>>

\* TD_SUSPEND without TD_FORCE; drivers are told before DM is locked.
tk_sus_dev(t) ==
  /\ Calling(t)
  /\ DisSusCnt = 0
  /\ Goto(t, "suspend")
  /\ UNCHANGED <<ddev, syncq, blocks, sus, disabled, locks, drv>>

do_suspend(t) ==
  /\ At(t, "suspend") /\ dm = NULL
  /\ dm' = t /\ Goto(t, "suspended")
  /\ UNCHANGED <<ddev, syncq, blocks, sus, disabled, dabort, drv>>

do_resume(t) ==
  /\ At(t, "suspended")
  /\ dm' = NULL /\ Return(t)
  /\ UNCHANGED <<ddev, syncq, blocks, sus, disabled, dabort, drv>>

---------------------------------------------------------------------------

Close(t) ==
  \/ \E o \in OpnCBs : tk_cls_dev(t, o)
  \/ abort_begins(t)
  \/ call_abortfn(t)
  \/ abort_test(t)
  \/ abort_synced(t)
  \/ abort_rest(t)
  \/ abort_waitfn_returns(t)
  \/ close_begins(t)
  \/ close_synced(t)
  \/ close_device(t)
  \/ closefn_returns(t)

Requests(t) ==
  \/ \E o \in OpnCBs, bit \in {"READ", "WRITE"}, r \in ReqCBs, k \in {"async", "sync"} :
       request(t, o, bit, r, k)
  \/ \E ok \in BOOLEAN : execfn_returns(t, ok)
  \/ \E o \in OpnCBs, r \in ReqCBs : tk_wai_dev(t, o, r)
  \/ tk_srea_dev_waits(t)
  \/ tk_srea_dev_fails(t)
  \/ \E o \in OpnCBs : tk_wai_dev_any(t, o)
  \/ \E i \in 0 .. Len(pc[t].rs) : waitfn_returns(t, i)
  \/ devmgr_break(t)

Manage(t) ==
  \/ \E u \in Units, m \in Modes, o \in OpnCBs : tk_opn_dev(t, u, m, o)
  \/ open_synced(t)
  \/ open_sections(t)
  \/ \E ok \in BOOLEAN : openfn_returns(t, ok)
  \/ \E d \in BOOLEAN \cup {NULL} : tk_def_dev(t, d)
  \/ tk_sus_dev_dis(t)
  \/ tk_sus_dev_ena(t)
  \/ tk_sus_dev(t)
  \/ do_suspend(t)
  \/ do_resume(t)
  \/ \E g \in Groups : devmgr_cleanup(t, g)

DeviceNext ==
  \/ \E t \in Tasks : Close(t)
  \/ \E t \in Requesters : Requests(t)
  \/ \E t \in Managers : Manage(t)

DeviceSpec == DeviceInit /\ [][DeviceNext]_vars
---------------------------------------------------------------------------
(* Properties *)

\* deviceio.c:343, 472: "Multiple tasks can initiate open/close processing, so
\* ensure processing only by one task at a time": the driver's openfn and
\* closefn never run for two tasks at once, although each of them runs
\* unlocked.
OneDriverCall ==
  \A t, u \in Tasks : {pc[t].at, pc[u].at} \subseteq {"openfn", "closefn"} => t = u

\* What the driver has seen of a unit is what the manager hands out: without
\* TDA_OPENREQ the first open and the last close of all that overlap, with it
\* every one; a descriptor in use never refers to a unit the driver closed.
DriverOpen ==
  \A u \in Units :
    LET complete == {o \in openq : /\ opn[o].unitno = u /\ opn[o].resid # 0
                                   /\ \A t \in Tasks : ~(At(t, "closefn") /\ pc[t].o = o)}
    IN drv[u] = IF complete = {} THEN 0 ELSE IF ddev THEN Cardinality(complete) ELSE 1

\* A request the driver is working on for a task stays that task's: its
\* block is on the queue of the open block it was made for, no other task is
\* in the driver for it, and closing frees neither before the task is back.
RequestsOwned ==
  LET InDriverFn == {t \in Tasks : pc[t].at \in {"execfn", "waitfn", "abort_waitfn"}}
  IN \A t \in InDriverFn :
       /\ \A r \in ToSet(pc[t].rs) : /\ req[r].opncb = pc[t].o
                                     /\ Contains(opn[pc[t].o].requestq, r)
       /\ \A u \in InDriverFn \ {t} : ToSet(pc[t].rs) \cap ToSet(pc[u].rs) = {}

\* Nobody waits in SyncWaitDM for good: who is to go on has a signal pending,
\* or there is somebody before it in the queue, or requests are still in the
\* driver, marked and told to abort them, and the count is that of the tasks
\* to come back.
WaitersWillBeWoken ==
  \A t \in Tasks :
    /\ pc[t].at \in {"open_wait", "close_wait"} => t \in disabled \/ Head(syncq) # t
    /\ At(t, "abort_wait") /\ t \notin disabled =>
         LET back == {u \in Tasks : pc[u].at \in {"execfn", "waitfn"} /\ pc[u].o = pc[t].o}
         IN /\ opn[pc[t].o].abort_cnt = Cardinality(back)
            /\ back # {}
            /\ \A u \in back : pc[u].kind # "any" => req[pc[u].rs[1]].abort
=============================================================================

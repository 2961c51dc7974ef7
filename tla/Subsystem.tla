----------------------------- MODULE Subsystem -----------------------------
(***************************************************************************)
(* Extended SVCs, break functions and task exceptions: subsystem.c with    *)
(* the extended SVC lock of klock.c and the delivery of an exception on    *)
(* the way back to user level (cpu_init.c).                                *)
(*                                                                         *)
(* A task calls an extended SVC of a subsystem; another task, or itself,   *)
(* raises an exception on it (tk_ras_tex); the one who raises runs the     *)
(* break function of the SVC the target is in, so that the SVC ends soon;  *)
(* the target then runs its exception handler at user level.  The target's *)
(* extended SVC lock keeps the break function and the way into and out of  *)
(* an SVC apart.  What a task is in the middle of is a stack of frames.    *)
(* Which of the tasks that do not wait for a lock runs is left open.       *)
(***************************************************************************)
EXTENDS FiniteSets, WaitQueue

CONSTANTS
  Tasks, Ssys,  \* tasks and subsystems
  NULL,         \* no subsystem
  Codes,        \* the exception codes raised
  bpriority,    \* the base priority of each task
  RNG0,         \* the tasks at protection level 0
  BreakCalls,   \* whether break functions make calls of their own
  MaxDepth      \* bound on the nesting of calls

ASSUME SubsystemAssumption ==
  /\ Codes \subseteq 0 .. 31 /\ bpriority \in [Tasks -> Nat]
  /\ RNG0 \subseteq Tasks /\ BreakCalls \in BOOLEAN /\ NULL \notin Ssys /\ MaxDepth \in Nat

VARIABLES
  tcb,        \* the fields of each task control block that matter here
  stack,      \* what each task is in the middle of, the innermost last
  svclocked,  \* TCB.svclocked: the locks a task holds, the last taken first
  wtskq,      \* the tasks that wait for the lock of each task
  breakfn     \* whether a subsystem is registered, with its break function

vars == <<tcb, stack, svclocked, wtskq, breakfn>>

(***************************************************************************)
(* The control block.  execssid and BREAK_RAN are two fields; waitmask is  *)
(* whether it holds TTX_SVC.                                               *)
(***************************************************************************)
make_dormant(t) ==
  [alive |-> FALSE, priority |-> bpriority[t], sysmode |-> 0, waitmask |-> FALSE,
   reqdct |-> FALSE, texhdr |-> FALSE, texmask |-> {}, pendtex |-> {},
   exectex |-> {}, texflg |-> {}, execssid |-> NULL, ran |-> FALSE]

SubsystemInit ==
  /\ tcb = [t \in Tasks |-> [make_dormant(t) EXCEPT !.alive = TRUE]]
  /\ stack = [t \in Tasks |-> <<>>]
  /\ svclocked = [t \in Tasks |-> <<>>]
  /\ wtskq = [t \in Tasks |-> <<>>]
  /\ breakfn = [s \in Ssys |-> TRUE]

elements(q)  == {q[i] : i \in DOMAIN q}
klockwait(t) == \E l \in Tasks : t \in elements(wtskq[l])
Runs(t)      == tcb[t].alive /\ ~klockwait(t)

Top(t)       == stack[t][Len(stack[t])]
At(t, k, at) == Runs(t) /\ stack[t] # <<>> /\ Top(t).k = k /\ Top(t).at = at
popped(t)    == SubSeq(stack[t], 1, Len(stack[t]) - 1)
Push(t, f)   == stack' = [stack EXCEPT ![t] = Append(@, f)]
Pop(t)       == stack' = [stack EXCEPT ![t] = popped(t)]
Goto(t, at)  == stack' = [stack EXCEPT ![t][Len(stack[t])].at = at]

\* t is in code of its own: at user level, in the handler of an extended
\* SVC, in a function of a subsystem, or in a break function
InCode(t) ==
  /\ Runs(t) /\ Len(stack[t]) < MaxDepth
  /\ stack[t] = <<>> => ~tcb[t].reqdct
  /\ stack[t] # <<>> => Top(t).at = "body" /\ (Top(t).k = "brk" => BreakCalls)

Frame(k, who) ==
  [k |-> k, at |-> "lock", who |-> who, ssid |-> NULL, exectex |-> {}, waitmask |-> FALSE,
   execssid |-> NULL, ran |-> FALSE, texflg |-> {}, breaks |-> 0]

(***************************************************************************)
(* klock.c                                                                 *)
(***************************************************************************)
held(l) == \E t \in Tasks : l \in elements(svclocked[t])

\* The lock is had if it was the last one taken, with no count kept, or if
\* it is free; otherwise the task waits, and tries again when it is woken
LockSVC(t, l, at) ==
  \/ /\ svclocked[t] # <<>> /\ Head(svclocked[t]) = l
     /\ Goto(t, at) /\ UNCHANGED <<svclocked, wtskq>>
  \/ /\ ~held(l)
     /\ svclocked' = [svclocked EXCEPT ![t] = <<l>> \o @]
     /\ Goto(t, at) /\ UNCHANGED wtskq
  \/ /\ held(l) /\ l # Head(svclocked[t] \o <<NULL>>)
     /\ wtskq' = [wtskq EXCEPT ![l] = Append(@, t)]
     /\ UNCHANGED <<stack, svclocked>>

\* The locks in L leave t, which keeps rest, each to the first that waits
\* for it; a task that ends stops waiting
Unlock(t, L, rest) ==
  LET given(u) == {l \in L : wtskq[l] # <<>> /\ Head(wtskq[l]) = u}
  IN  /\ svclocked' = [u \in Tasks |->
           IF u = t THEN rest
           ELSE IF given(u) = {} THEN svclocked[u]
           ELSE <<CHOOSE l \in given(u) : TRUE>> \o svclocked[u]]
      /\ wtskq' = [l \in Tasks |-> IF l \in L /\ wtskq[l] # <<>> THEN Tail(wtskq[l])
                                   ELSE QueRemove(wtskq[l], t)]

UnlockSVC(t) ==
  svclocked[t] # <<>> /\ Unlock(t, {Head(svclocked[t])}, Tail(svclocked[t]))

AllUnlockSVC(t) == Unlock(t, elements(svclocked[t]), <<>>)

(***************************************************************************)
(* call_brkhdr: r runs the break function of the SVC that t is in, once    *)
(* for each call of an SVC.                                                *)
(***************************************************************************)
breaks(t) ==
  /\ "SSFN" \notin tcb[t].texflg
  /\ tcb[t].exectex # {} /\ tcb[t].execssid # NULL /\ ~tcb[t].ran

\* The calls of extended SVCs a task has entered and not left
Entered(t) == {i \in DOMAIN stack[t] : stack[t][i].k = "svc" /\ stack[t][i].ssid # NULL}

\* The frame of the call of an SVC that t is in counts its break functions
innermost(t) == {i \in Entered(t) : \A j \in Entered(t) : j <= i}
counted(t) == [i \in DOMAIN stack[t] |->
                 IF i \in innermost(t) THEN [stack[t][i] EXCEPT !.breaks = @ + 1] ELSE stack[t][i]]

BreakFrame(r, t) == [Frame("brk", t) EXCEPT !.at = "body", !.texflg = tcb[r].texflg]

\* What call_brkhdr does to the one who runs the break function
raised(r, t, tcbs) ==
  [tcbs EXCEPT ![r].priority = IF tcb[t].priority < @ THEN tcb[t].priority ELSE @,
               ![r].texflg = @ \cup {"SSFN"}, ![r].sysmode = @ + 1]

\* Mutant: that the break function ran is not noted.
ran_unmarked(t) == tcb

ran(t) == [tcb EXCEPT ![t].ran = TRUE]

\* With r past the call in its own frame, at "at"
call_brkhdr(r, t, at) ==
  LET past == [stack EXCEPT ![r][Len(stack[r])].at = at]
      cnt  == [stack EXCEPT ![t] = counted(t)]
      both == [cnt EXCEPT ![r][Len(stack[r])].at = at]
      fn   == breaks(t) /\ breakfn[tcb[t].execssid]
  IN  /\ ~breaks(t) => stack' = past /\ UNCHANGED tcb
      /\ breaks(t) /\ ~fn => stack' = past /\ tcb' = ran(t)
      /\ fn => /\ stack' = [both EXCEPT ![r] = Append(@, BreakFrame(r, t))]
               /\ tcb' = raised(r, t, ran(t))

break_return(r) ==
  /\ At(r, "brk", "body")
  /\ tcb' = [tcb EXCEPT ![r].sysmode = @ - 1, ![r].texflg = Top(r).texflg,
                        ![r].priority = bpriority[r]]
  /\ Pop(r)
  /\ UNCHANGED <<svclocked, wtskq, breakfn>>

(***************************************************************************)
(* svc_ientry                                                              *)
(***************************************************************************)
svc_call(t) ==
  /\ InCode(t)
  /\ Push(t, Frame("svc", t))
  /\ UNCHANGED <<tcb, svclocked, wtskq, breakfn>>

svc_lock(t) ==
  /\ \/ At(t, "svc", "lock") /\ LockSVC(t, t, "locked")
     \/ At(t, "svc", "leave") /\ LockSVC(t, t, "leaving")
  /\ UNCHANGED <<tcb, breakfn>>

svc_refused(t) ==
  /\ At(t, "svc", "locked") /\ tcb[t].waitmask
  /\ Pop(t) /\ UnlockSVC(t)
  /\ UNCHANGED <<tcb, breakfn>>

svc_enter(t, s) ==
  /\ At(t, "svc", "locked") /\ ~tcb[t].waitmask
  /\ stack' = [stack EXCEPT ![t][Len(stack[t])] =
                 [@ EXCEPT !.at = "body", !.ssid = s, !.execssid = tcb[t].execssid,
                           !.ran = tcb[t].ran, !.waitmask = tcb[t].waitmask,
                           !.exectex = tcb[t].exectex]]
  /\ tcb' = [tcb EXCEPT ![t].execssid = s, ![t].ran = FALSE, ![t].waitmask = FALSE,
                        ![t].exectex = IF tcb[t].ran THEN {} ELSE @,
                        ![t].sysmode = @ + 1]
  /\ UnlockSVC(t)
  /\ UNCHANGED breakfn

\* Mutant: the lock is not taken again.
svc_return_unlocked(t) ==
  /\ At(t, "svc", "body")
  /\ Goto(t, "leaving")
  /\ svclocked' = [svclocked EXCEPT ![t] = <<t>> \o @]
  /\ UNCHANGED <<tcb, wtskq, breakfn>>

\* The handler returns: the lock is taken again to go back
svc_return(t) ==
  /\ At(t, "svc", "body")
  /\ Goto(t, "leave")
  /\ UNCHANGED <<tcb, svclocked, wtskq, breakfn>>

\* Mutant: the exceptions raised during the call are forgotten.
svc_leave_restored(t) ==
  /\ At(t, "svc", "leaving")
  /\ tcb' = [tcb EXCEPT ![t].sysmode = @ - 1, ![t].execssid = Top(t).execssid,
                        ![t].ran = Top(t).ran, ![t].waitmask = Top(t).waitmask,
                        ![t].exectex = Top(t).exectex]
  /\ stack' = [stack EXCEPT ![t] = Append(popped(t), [Frame("svc", t) EXCEPT !.at = "break"])]
  /\ UnlockSVC(t)
  /\ UNCHANGED breakfn

svc_leave(t) ==
  /\ At(t, "svc", "leaving")
  /\ tcb' = [tcb EXCEPT ![t].sysmode = @ - 1, ![t].execssid = Top(t).execssid,
                        ![t].ran = Top(t).ran, ![t].waitmask = Top(t).waitmask,
                        ![t].exectex = @ \cup Top(t).exectex]
  /\ stack' = [stack EXCEPT ![t] = Append(popped(t), [Frame("svc", t) EXCEPT !.at = "break"])]
  /\ UnlockSVC(t)
  /\ UNCHANGED breakfn

\* An exception that was raised in the SVC breaks the one it was called from
svc_break(t) ==
  /\ At(t, "svc", "break")
  /\ call_brkhdr(t, t, "done")
  /\ UNCHANGED <<svclocked, wtskq, breakfn>>

\* The end of svc_ientry, of tk_ras_tex, of tk_sta_ssy and its like
done(t) ==
  /\ \E k \in {"svc", "ras", "ssfn"} : At(t, k, "done")
  /\ Pop(t)
  /\ UNCHANGED <<tcb, svclocked, wtskq, breakfn>>

(***************************************************************************)
(* Task exceptions.                                                        *)
(***************************************************************************)
tk_def_tex(t, hdr) ==
  /\ t \notin RNG0
  /\ tcb' = [tcb EXCEPT ![t].pendtex = {}, ![t].exectex = {}, ![t].texmask = {}, ![t].texhdr = hdr]
  /\ UNCHANGED <<stack, svclocked, wtskq, breakfn>>

set_tex_mask(t, mask) ==
  /\ tcb[t].texhdr
  /\ tcb' = [tcb EXCEPT ![t].texmask = mask, ![t].pendtex = @ \cap mask]
  /\ UNCHANGED <<stack, svclocked, wtskq, breakfn>>

ras_call(r, t) ==
  /\ InCode(r)
  /\ Push(r, Frame("ras", t))
  /\ UNCHANGED <<tcb, svclocked, wtskq, breakfn>>

ras_lock(r) ==
  /\ At(r, "ras", "lock") /\ LockSVC(r, Top(r).who, "locked")
  /\ UNCHANGED <<tcb, breakfn>>

\* The exceptions pending with the new one; code 0 even in a handler of others
pending(t, code) == tcb[t].pendtex \cup ({code} \cap tcb[t].texmask)
occurs(t, code) ==
  /\ tcb[t].alive /\ tcb[t].texhdr /\ "TEX0" \notin tcb[t].texflg
  /\ pending(t, code) # {}
  /\ 0 \in pending(t, code) \/ "TEX1" \notin tcb[t].texflg

tk_ras_tex(r, code) ==
  LET t    == Top(r).who
      pend == pending(t, code)
  IN  /\ At(r, "ras", "locked")
      /\ occurs(t, code) =>
           /\ tcb' = [tcb EXCEPT ![t].pendtex = pend, ![t].exectex = @ \cup pend, ![t].reqdct = TRUE]
           /\ Goto(r, "break")
      /\ ~occurs(t, code) =>
           /\ tcb' = IF tcb[t].texhdr /\ tcb[t].alive /\ "TEX0" \notin tcb[t].texflg
                     THEN [tcb EXCEPT ![t].pendtex = pend] ELSE tcb
           /\ Goto(r, "refused")
      /\ UNCHANGED <<svclocked, wtskq, breakfn>>

ras_break(r) ==
  /\ At(r, "ras", "break")
  /\ call_brkhdr(r, Top(r).who, "unlock")
  /\ UNCHANGED <<svclocked, wtskq, breakfn>>

ras_unlock(r) ==
  /\ \/ At(r, "ras", "unlock") /\ Goto(r, "self")
     \/ At(r, "ras", "refused") /\ Goto(r, "done")
  /\ UnlockSVC(r)
  /\ UNCHANGED <<tcb, breakfn>>

\* An exception raised on the caller meanwhile breaks the SVC it is in
ras_self(r) ==
  /\ At(r, "ras", "self")
  /\ call_brkhdr(r, r, "done")
  /\ UNCHANGED <<svclocked, wtskq, breakfn>>

lowest(codes) == CHOOSE c \in codes : \A d \in codes : c <= d

\* Back at user level, the handler of the lowest code pending is started
setup_texhdr(t) ==
  /\ Runs(t) /\ stack[t] = <<>> /\ tcb[t].reqdct
  /\ IF tcb[t].exectex = {} THEN tcb' = [tcb EXCEPT ![t].reqdct = FALSE]
     ELSE LET code == lowest(tcb[t].exectex)
          IN  tcb' = [tcb EXCEPT ![t].reqdct = FALSE, ![t].exectex = {}, ![t].pendtex = @ \ {code},
                                 ![t].texflg = @ \cup {IF code = 0 THEN "TEX0" ELSE "TEX1"}]
  /\ UNCHANGED <<stack, svclocked, wtskq, breakfn>>

\* The next code is returned to the handler, or the handler ends
tk_end_tex(t, enatex) ==
  LET rest == tcb[t].pendtex \ {0}
      code == lowest(rest)
  IN  /\ InCode(t) /\ stack[t] = <<>>
      /\ tcb[t].texflg \cap {"TEX0", "TEX1"} = {"TEX1"}
      /\ enatex \/ rest = {} =>
           tcb' = [tcb EXCEPT ![t].texflg = @ \ {"TEX1"}, ![t].exectex = @ \cup tcb[t].pendtex,
                              ![t].reqdct = @ \/ rest # {}]
      /\ ~enatex /\ rest # {} => tcb' = [tcb EXCEPT ![t].pendtex = @ \ {code}]
      /\ UNCHANGED <<stack, svclocked, wtskq, breakfn>>

(***************************************************************************)
(* Functions of a subsystem, its registration, and calls of other modules. *)
(***************************************************************************)
\* tk_sta_ssy, tk_cln_ssy and tk_evt_ssy: no exception while they run
ssfn_call(t) ==
  /\ InCode(t)
  /\ Push(t, [Frame("ssfn", t) EXCEPT !.at = "body", !.texflg = tcb[t].texflg])
  /\ tcb' = [tcb EXCEPT ![t].texflg = @ \cup {"SSFN"}, ![t].sysmode = @ + 1]
  /\ UNCHANGED <<svclocked, wtskq, breakfn>>

ssfn_return(t) ==
  /\ At(t, "ssfn", "body")
  /\ tcb' = [tcb EXCEPT ![t].texflg = Top(t).texflg, ![t].sysmode = @ - 1]
  /\ Goto(t, "break")
  /\ UNCHANGED <<svclocked, wtskq, breakfn>>

ssfn_break(t) ==
  /\ At(t, "ssfn", "break")
  /\ call_brkhdr(t, t, "done")
  /\ UNCHANGED <<svclocked, wtskq, breakfn>>

tk_def_ssy(s, register) ==
  /\ breakfn[s] # register
  /\ breakfn' = [breakfn EXCEPT ![s] = register]
  /\ UNCHANGED <<tcb, stack, svclocked, wtskq>>

\* tk_dis_wai with TTX_SVC, and tk_ena_wai
tk_dis_wai(t, mask) ==
  /\ tcb[t].alive
  /\ tcb' = [tcb EXCEPT ![t].waitmask = mask]
  /\ UNCHANGED <<stack, svclocked, wtskq, breakfn>>

\* Mutant: the locks of the task stay taken.
ter_tsk_holding(t) ==
  /\ tcb[t].alive
  /\ wtskq' = [l \in Tasks |-> QueRemove(wtskq[l], t)]
  /\ tcb' = [tcb EXCEPT ![t] = make_dormant(t)]
  /\ stack' = [stack EXCEPT ![t] = <<>>]
  /\ UNCHANGED <<svclocked, breakfn>>

\* tk_ext_tsk of the task itself, tk_ter_tsk by another
ter_tsk(t) ==
  /\ tcb[t].alive
  /\ AllUnlockSVC(t)
  /\ tcb' = [tcb EXCEPT ![t] = make_dormant(t)]
  /\ stack' = [stack EXCEPT ![t] = <<>>]
  /\ UNCHANGED breakfn

tk_sta_tsk(t) ==
  /\ ~tcb[t].alive
  /\ tcb' = [tcb EXCEPT ![t].alive = TRUE]
  /\ UNCHANGED <<stack, svclocked, wtskq, breakfn>>

Next ==
  \/ \E t \in Tasks :
       \/ svc_call(t) \/ svc_lock(t) \/ svc_refused(t) \/ \E s \in Ssys : svc_enter(t, s)
       \/ svc_return(t) \/ svc_leave(t) \/ svc_break(t) \/ break_return(t) \/ done(t)
       \/ \E u \in Tasks : ras_call(t, u)
       \/ ras_lock(t) \/ \E c \in Codes : tk_ras_tex(t, c)
       \/ ras_break(t) \/ ras_unlock(t) \/ ras_self(t)
       \/ setup_texhdr(t) \/ \E e \in BOOLEAN : tk_end_tex(t, e)
       \/ ssfn_call(t) \/ ssfn_return(t) \/ ssfn_break(t)
       \/ \E hdr \in BOOLEAN : tk_def_tex(t, hdr)
       \/ \E mask \in {{}, Codes} : set_tex_mask(t, mask)
       \/ \E mask \in BOOLEAN : tk_dis_wai(t, mask)
       \/ ter_tsk(t) \/ tk_sta_tsk(t)
  \/ \E s \in Ssys, register \in BOOLEAN : tk_def_ssy(s, register)

SubsystemSpec == SubsystemInit /\ [][Next]_vars

-----------------------------------------------------------------------------
(***************************************************************************)
(* Properties.                                                             *)
(***************************************************************************)
\* While a task runs the break function for another, the other neither
\* enters nor leaves an extended SVC, unless one of them is terminated
\* (subsystem.c:566, 595, 809: exclusively with the break function).
BreakExclusive ==
  [][\A r, t \in Tasks :
       (/\ r # t /\ \E i \in DOMAIN stack[r] : stack[r][i].k = "brk" /\ stack[r][i].who = t
        /\ tcb'[r].alive /\ tcb'[t].alive)
       => Entered(t)' = Entered(t)]_vars

\* However many exceptions are raised, one call of an extended SVC is broken
\* at most once (BREAK_RAN, kept across the SVCs called inside).
BreakOnce == \A t \in Tasks : \A i \in DOMAIN stack[t] : stack[t][i].breaks <= 1

\* A task that is back at user level has no lock, its own priority and mode,
\* and no mark of the SVCs, break functions and subsystem functions it ran.
Unwound ==
  \A t \in Tasks :
    /\ stack[t] = <<>> => /\ svclocked[t] = <<>> /\ "SSFN" \notin tcb[t].texflg
                          /\ tcb[t].execssid = NULL /\ ~tcb[t].ran
                          /\ tcb[t].priority = bpriority[t]
    /\ tcb[t].sysmode = Cardinality({i \in DOMAIN stack[t] :
                          /\ stack[t][i].k \in {"svc", "brk", "ssfn"}
                          /\ stack[t][i].at \in {"body", "leave", "leaving"}})

\* An exception that is enabled and pending is about to be handled when the
\* task is at user level and in no exception handler: none raised during an
\* SVC, or kept pending by a handler that has ended, is forgotten.
NoExceptionLost ==
  \A t \in Tasks :
    stack[t] = <<>> /\ tcb[t].pendtex # {} /\ tcb[t].texflg \cap {"TEX0", "TEX1"} = {}
      => tcb[t].reqdct /\ tcb[t].pendtex \subseteq tcb[t].exectex
=============================================================================

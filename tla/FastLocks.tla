----------------------------- MODULE FastLocks -----------------------------
(***************************************************************************)
(* High-speed locks of libtk: FastLock (fastlock.c), a counter with a      *)
(* semaphore for those that find it taken, and FastMLock (fastmlock.c),    *)
(* bits with an event flag.  Both exist to spare a free lock the system    *)
(* call, so the counter, the bits and the number of waiters change apart   *)
(* from the kernel object, each with interrupts disabled for itself only.  *)
(* A step is one such change or one system call.  Which of the waiters the *)
(* kernel releases (TA_TPRI) is left open.                                 *)
(*                                                                         *)
(* kind says which of the two is used.  A task that waits for a FastLock   *)
(* is taken not to be released by tk_rel_wai: Lock does not look at what   *)
(* tk_wai_sem returns.                                                     *)
(***************************************************************************)
EXTENDS Integers, FiniteSets

CONSTANTS
  Lockers,
  Numbers  \* the lock numbers of the FastMLock in use, 0 among them

FastLockAssumption == 0 \in Numbers /\ Numbers \subseteq 0 .. 31

VARIABLES
  kind,  \* "FastLock" or "FastMLock"
  at,    \* where in Lock or Unlock each task is
  no,    \* the lock number it uses
  cnt,   \* FastLock.cnt
  sem,   \* the count of the semaphore
  wai,   \* FastMLock.wai
  flg,   \* FastMLock.flg
  ptn    \* the bits of the event flag

fast     == <<cnt, sem>>
multi    == <<wai, flg, ptn>>
fastvars == <<kind, at, no, fast, multi>>

\* CreateLock, CreateMLock
FastInit ==
  /\ kind \in {"FastLock", "FastMLock"}
  /\ at = [t \in Lockers |-> "user"]
  /\ no = [t \in Lockers |-> 0]
  /\ cnt = -1 /\ sem = 0
  /\ wai = 0 /\ flg = {} /\ ptn = {}

Goto(t, there)    == at' = [at EXCEPT ![t] = there]
GotoBoth(t, x, u, y) == at' = [at EXCEPT ![t] = x, ![u] = y]
Queued(n)         == {t \in Lockers : at[t] = "queued" /\ no[t] = n}

(***************************************************************************)
(* fastlock.c                                                              *)
(***************************************************************************)
Lock(t) ==
  /\ kind = "FastLock" /\ at[t] = "user"
  /\ cnt' = cnt + 1
  /\ Goto(t, IF cnt + 1 > 0 THEN "wait" ELSE "in")
  /\ UNCHANGED <<kind, no, sem, multi>>

tk_wai_sem(t) ==
  /\ kind = "FastLock" /\ at[t] = "wait"
  /\ sem' = IF sem > 0 THEN sem - 1 ELSE sem
  /\ Goto(t, IF sem > 0 THEN "in" ELSE "queued")
  /\ UNCHANGED <<kind, no, cnt, multi>>

\* Dec gives the count as it was
Unlock(t) ==
  /\ kind = "FastLock" /\ at[t] = "in"
  /\ cnt' = cnt - 1
  /\ Goto(t, IF cnt > 0 THEN "signal" ELSE "user")
  /\ UNCHANGED <<kind, no, sem, multi>>

tk_sig_sem(t) ==
  /\ kind = "FastLock" /\ at[t] = "signal"
  /\ \/ \E u \in Queued(0) : GotoBoth(t, "user", u, "in") /\ UNCHANGED sem
     \/ Queued(0) = {} /\ Goto(t, "user") /\ sem' = IF sem = 1 THEN 1 ELSE sem + 1
  /\ UNCHANGED <<kind, no, cnt, multi>>

(***************************************************************************)
(* fastmlock.c                                                             *)
(***************************************************************************)
MLock(t, n) ==
  /\ kind = "FastMLock" /\ at[t] = "user"
  /\ wai' = wai + 1
  /\ no' = [no EXCEPT ![t] = n]
  /\ Goto(t, "try")
  /\ UNCHANGED <<kind, fast, flg, ptn>>

BTS(t) ==
  /\ at[t] = "try"
  /\ flg' = flg \cup {no[t]}
  /\ Goto(t, IF no[t] \in flg THEN "wait" ELSE "got")
  /\ UNCHANGED <<kind, no, fast, wai, ptn>>

tk_wai_flg(t) ==
  /\ kind = "FastMLock" /\ at[t] = "wait"
  /\ ptn' = ptn \ {no[t]}
  /\ Goto(t, IF no[t] \in ptn THEN "try" ELSE "queued")
  /\ UNCHANGED <<kind, no, fast, wai, flg>>

\* tmo is over, or tk_rel_wai releases the wait
Timeout(t) ==
  /\ kind = "FastMLock" /\ at[t] = "queued"
  /\ Goto(t, "failed")
  /\ UNCHANGED <<kind, no, fast, multi>>

MLock_return(t) ==
  /\ at[t] \in {"got", "failed"}
  /\ wai' = wai - 1
  /\ Goto(t, IF at[t] = "got" THEN "in" ELSE "user")
  /\ no' = [no EXCEPT ![t] = IF at[t] = "got" THEN @ ELSE 0]
  /\ UNCHANGED <<kind, fast, flg, ptn>>

MUnlock(t) ==
  /\ kind = "FastMLock" /\ at[t] = "in"
  /\ flg' = flg \ {no[t]}
  /\ Goto(t, "reset")
  /\ UNCHANGED <<kind, no, fast, wai, ptn>>

\* Mutant: the caller counts itself among the waiters.
MUnlock_wai_late(t) ==
  /\ at[t] = "reset"
  /\ Goto(t, IF wai <= 1 THEN "user" ELSE "set")
  /\ no' = [no EXCEPT ![t] = IF wai <= 1 THEN 0 ELSE @]
  /\ UNCHANGED <<kind, fast, multi>>

\* Is anybody waiting, for any of the locks?
MUnlock_wai(t) ==
  /\ at[t] = "reset"
  /\ Goto(t, IF wai = 0 THEN "user" ELSE "set")
  /\ no' = [no EXCEPT ![t] = IF wai = 0 THEN 0 ELSE @]
  /\ UNCHANGED <<kind, fast, multi>>

\* TWF_BITCLR: the first waiter for the bit clears it
tk_set_flg(t) ==
  /\ at[t] = "set"
  /\ \/ \E u \in Queued(no[t]) : GotoBoth(t, "user", u, "try") /\ UNCHANGED ptn
     \/ Queued(no[t]) = {} /\ Goto(t, "user") /\ ptn' = ptn \cup {no[t]}
  /\ no' = [no EXCEPT ![t] = 0]
  /\ UNCHANGED <<kind, fast, wai, flg>>

Continue(t) == \/ tk_wai_sem(t) \/ tk_sig_sem(t)
               \/ BTS(t) \/ tk_wai_flg(t) \/ MLock_return(t) \/ MUnlock_wai(t) \/ tk_set_flg(t)

LockNext == \E t \in Lockers : \/ Lock(t) \/ Unlock(t)
                         \/ \E n \in Numbers : MLock(t, n)
                         \/ MUnlock(t) \/ Timeout(t) \/ Continue(t)

\* A task in Lock or Unlock goes on, unless the kernel has it wait
FastSpec == FastInit /\ [][LockNext]_fastvars /\ \A t \in Lockers : WF_fastvars(Continue(t))

-----------------------------------------------------------------------------
(***************************************************************************)
(* Properties.                                                             *)
(***************************************************************************)
Wants(n)   == {t \in Lockers : no[t] = n /\ at[t] \in {"try", "wait", "queued"}}
Holders(n) == {t \in Lockers : no[t] = n /\ at[t] \in {"got", "in"}}

Abstract == INSTANCE ExclusiveLock WITH
              Locks   <- Numbers,
              wants   <- [n \in Numbers |-> Wants(n)],
              holders <- [n \in Numbers |-> Holders(n)]

\* Both kinds are locks: never two tasks hold one, and a wakeup is never
\* lost between the counter, the bits and the kernel object: a lock that is
\* free while somebody wants it is taken.
ImplementsLock == Abstract!LockSpec
=============================================================================

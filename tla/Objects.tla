------------------------------ MODULE Objects ------------------------------
(***************************************************************************)
(* The objects a task waits for in a GCB queue, with the tasks that wait   *)
(* and the calls that end waits: an object of any kind is created in a     *)
(* free control block, used and deleted, and the tasks meet the next one.  *)
(* Which hook runs when a wait ends or a priority changes is a matter of   *)
(* the task's WSPEC, that is of the kind of the object it waits for.       *)
(***************************************************************************)
EXTENDS Wait

CONSTANTS
  Kinds,                     \* the kinds of objects in use
  MAXSEM,                    \* Semaphore
  Bits, Modes,               \* EventFlag
  Msgs, msgpri, NULL,        \* Mailbox, MessageBuffer
  msgsz, BufSizes, Handler,  \* MessageBuffer
  MPLSZ, BlkSizes,           \* MemoryPool
  MPFCNT                     \* FixedPool

VARIABLES
  nextmsg,  \* the links of messages (Mailbox)
  given     \* <<t, m>> when the last step gave message m to t, else << >>

objvars == <<waitvars, nextmsg, given>>

Sem == INSTANCE Semaphore
Flg == INSTANCE EventFlag
Mbx == INSTANCE Mailbox
Mbf == INSTANCE MessageBuffer
Mpl == INSTANCE MemoryPool
Mpf == INSTANCE FixedPool

ASSUME ObjectsAssumption ==
  /\ Sem!MaxsemAssumption /\ Flg!ModesAssumption /\ Mbx!MsgpriAssumption
  /\ Mbf!MbfAssumption /\ Mpl!PoolAssumption /\ Mpf!MpfcntAssumption

\* rel_wai_hook and chg_pri_hook of WSPEC, by kind.
rel_wai_hook(t, g) ==
  CASE g.objid = "sem" -> Sem!sem_rel_wai(g)
    [] g.objid = "mbf" -> Mbf!mbf_rel_wai(t, g)
    [] g.objid = "mpl" -> Mpl!mpl_rel_wai(g)
    [] OTHER           -> no_hook(g)

chg_pri_hook(g) ==
  CASE g.objid = "sem" -> Sem!sem_chg_pri(g)
    [] g.objid = "mbf" -> Mbf!mbf_chg_pri(g)
    [] g.objid = "mpl" -> Mpl!mpl_chg_pri(g)
    [] OTHER           -> no_hook(g)

no_message == given' = << >> /\ UNCHANGED nextmsg

ObjInit ==
  /\ WaitInit
  /\ nextmsg = [m \in Msgs |-> NULL]
  /\ given = << >>

ObjNext ==
  \/ "sem" \in Kinds /\ Sem!SemCalls /\ no_message
  \/ "flg" \in Kinds /\ Flg!FlgCalls /\ no_message
  \/ "mbx" \in Kinds /\ Mbx!MbxCalls
  \/ "mbf" \in Kinds /\ Mbf!MbfCalls /\ UNCHANGED nextmsg
  \/ "mpl" \in Kinds /\ Mpl!MplCalls /\ no_message
  \/ "mpf" \in Kinds /\ Mpf!MpfCalls /\ no_message
  \/ TaskCalls(rel_wai_hook, chg_pri_hook) /\ no_message

ObjSpec == ObjInit /\ [][ObjNext]_objvars

---------------------------------------------------------------------------
(* Properties; those of one kind are stated in its module. *)

\* Nobody waits for what is there: counts, bits, a message, room, a block.
\* Every way in which a wait ends, an object changes or a queue is reordered
\* must look at those who can go on then.
NoServableWaiter ==
  /\ Sem!SemNoServableWaiter
  /\ Flg!NoSatisfiedWaiter
  /\ Mbx!NoWaiterWithMessage
  /\ Mbf!MbfNoServableWaiter
  /\ Mpl!MplNoServableWaiter
  /\ Mpf!MpfNoServableWaiter

\* Objects that serve only the first waiter: nobody is served while a task
\* before it in the queue, as it is ordered when the step ends, keeps waiting.
NoOvertaking ==
  [][/\ gcb.objid \in {"sem", "mbx", "mbf", "mpl", "mpf"}
     /\ gcb.objid = "sem" => ~gcb.cnt
     => \A t \in ok' \cap Range(gcb.wait_queue), u \in Range(gcb'.wait_queue) :
          IF gcb.tpri THEN priority'[t] <= priority'[u]
          ELSE Ahead(gcb.wait_queue, t, u)]_objvars

\* No release of a wait, deletion or change of priority is the reason for a
\* count to be lost or taken twice, or for bits to be taken out of turn; see
\* Semaphore and EventFlag.
ConsumedInOrder == Sem!CountsConserved /\ Flg!BitsConsumedInOrder

\* The blocks of a pool are free or held, each once, and the areas of a memory
\* pool tile it; see FixedPool and MemoryPool.
PoolsPartitioned == Mpf!BlocksAccounted /\ Mpl!PoolPartitioned

\* Messages linked through memory the program may have written to, and
\* messages copied into a ring, both make a queue that keeps their order and
\* gives each of them once.
MQ == INSTANCE MessageQueue WITH
        exists <- gcb.objid \in {"mbx", "mbf"},
        byPri  <- IF gcb.objid = "mbx" THEN gcb.mpri ELSE FALSE,
        queue  <- CASE gcb.objid = "mbx" -> Mbx!msgs
                    [] gcb.objid = "mbf" -> Mbf!Stored
                    [] OTHER             -> << >>

ImplementsMessageQueue == MQ!MQSpec
============================================================================

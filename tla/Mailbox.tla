------------------------------ MODULE Mailbox ------------------------------
(***************************************************************************)
(* A mailbox (mailbox.c).  Messages stay in the memory of the program; the *)
(* mailbox links them through their first word, msgque, which belongs to   *)
(* the program while a message is not queued and may then hold anything.   *)
(***************************************************************************)
EXTENDS Wait

CONSTANTS
  Msgs,    \* the messages
  msgpri,  \* the priority in each message (T_MSG_PRI), the least number first
  NULL     \* no message

MsgpriAssumption == msgpri \in [Msgs -> Nat \ {0}] /\ NULL \notin Msgs

VARIABLES
  nextmsg,  \* msgque of each message; NULL stands for any value if not queued
  given     \* <<t, m>> when the last step gave m to t, else << >>

\* TA_MPRI is `mpri`; mq_head is the msgque of the head, mq_tail not valid
\* while the queue is empty.
MBXCB == [ objid : {"mbx"}, tpri : BOOLEAN, nodiswai : BOOLEAN, mpri : BOOLEAN,
           mq_head : Msgs \cup {NULL}, mq_tail : Msgs, wait_queue : Seq(Tasks),
           recv_queue : {<< >>} ]

\* The messages in turn, as the links give them; n bounds the search.
msgs ==
  LET chain[n \in 0 .. Cardinality(Msgs) + 1, m \in Msgs \cup {NULL}] ==
        IF m = NULL \/ n = 0 THEN << >> ELSE <<m>> \o chain[n - 1, nextmsg[m]]
  IN chain[Cardinality(Msgs) + 1, gcb.mq_head]

Queued == Range(msgs)

---------------------------------------------------------------------------

\* mq_tail is what it was, any message.
tk_cre_mbx(tpri, mpri, nodiswai, tail) ==
  /\ gcb.objid = "none"
  /\ gcb' = [ objid |-> "mbx", tpri |-> tpri, nodiswai |-> nodiswai, mpri |-> mpri,
              mq_head |-> NULL, mq_tail |-> tail, wait_queue |-> << >>,
              recv_queue |-> << >> ]
  /\ ok' = {}
  /\ given' = << >>
  /\ UNCHANGED <<taskvars, nextmsg>>

\* The messages belong to the program again.
tk_del_mbx ==
  /\ gcb.objid = "mbx"
  /\ wait_delete
  /\ nextmsg' = [m \in Msgs |-> NULL]
  /\ given' = << >>

\* Links m between prev, or the head, and next.
link(prev, m, next) ==
  IF prev = NULL
  THEN /\ gcb' = [gcb EXCEPT !.mq_head = m]
       /\ nextmsg' = [nextmsg EXCEPT ![m] = next]
  ELSE /\ nextmsg' = [nextmsg EXCEPT ![m] = next, ![prev] = m]
       /\ UNCHANGED gcb

queue_insert_mpri(m) ==
  LET later == SelectInSeq(msgs, LAMBDA n : msgpri[n] > msgpri[m])
      i     == IF later = 0 THEN Len(msgs) + 1 ELSE later
  IN link(IF i = 1 THEN NULL ELSE msgs[i - 1], m, IF later = 0 THEN NULL ELSE msgs[i])

\* Mutant: what the program left in the message stays there.
connect_unterminated(m, g) ==
  /\ gcb' = [gcb EXCEPT !.mq_head = IF @ = NULL THEN m ELSE @, !.mq_tail = m]
  /\ nextmsg' = [n \in Msgs |-> IF n = m THEN g
                                ELSE IF gcb.mq_head # NULL /\ n = gcb.mq_tail THEN m
                                ELSE nextmsg[n]]

\* To the end of a queue in order of arrival; m holds g before.
connect(m, g) ==
  /\ gcb' = [gcb EXCEPT !.mq_head = IF @ = NULL THEN m ELSE @, !.mq_tail = m]
  /\ nextmsg' = [n \in Msgs |-> IF n = m THEN NULL
                                ELSE IF gcb.mq_head # NULL /\ n = gcb.mq_tail THEN m
                                ELSE nextmsg[n]]

\* A program sends a message only while it is not queued.
tk_snd_mbx(m, g) ==
  /\ gcb.objid = "mbx"
  /\ m \notin Queued
  /\ \/ /\ gcb.wait_queue # << >>
        /\ LET t == Head(gcb.wait_queue)
           IN /\ ends({t}, {t})
              /\ gcb' = left(t)
              /\ given' = <<t, m>>
        /\ UNCHANGED <<priority, waitmask, nextmsg>>
     \/ /\ gcb.wait_queue = << >>
        /\ IF gcb.mpri THEN queue_insert_mpri(m) ELSE connect(m, g)
        /\ ok' = {}
        /\ given' = << >>
        /\ UNCHANGED taskvars

\* The receiver may write to the message at once: its msgque becomes NULL.
tk_rcv_mbx_u(t) ==
  /\ Running(t)
  /\ gcb.objid = "mbx"
  /\ ~is_diswai(gcb, t)
  /\ \/ /\ gcb.mq_head # NULL
        /\ gcb' = [gcb EXCEPT !.mq_head = nextmsg[@]]
        /\ nextmsg' = [nextmsg EXCEPT ![gcb.mq_head] = NULL]
        /\ ok' = {}
        /\ given' = <<t, gcb.mq_head>>
        /\ UNCHANGED taskvars
     \/ /\ gcb.mq_head = NULL
        /\ gcb_make_wait(t, "RCV")
        /\ given' = << >>
        /\ UNCHANGED nextmsg

MbxCalls ==
  \/ \E tpri, mpri, nodiswai \in BOOLEAN, tail \in Msgs :
       tk_cre_mbx(tpri, mpri, nodiswai, tail)
  \/ tk_del_mbx
  \/ \E m \in Msgs, g \in Msgs \cup {NULL} : tk_snd_mbx(m, g)
  \/ \E t \in Tasks : tk_rcv_mbx_u(t)

---------------------------------------------------------------------------
(* Properties *)

\* Nobody waits while there is a message.
NoWaiterWithMessage ==
  gcb.objid = "mbx" /\ gcb.wait_queue # << >> => gcb.mq_head = NULL
============================================================================

---------------------------- MODULE MessageQueue ----------------------------
(***************************************************************************)
(* What a mailbox and a message buffer promise: messages wait in the order *)
(* of their priority, those of one priority in the order they were sent,   *)
(* and each is given to one task, once.                                    *)
(***************************************************************************)
EXTENDS Integers, FiniteSets, SequencesExt

CONSTANTS
  Tasks,  \* the receivers, and as many senders may wait for room
  Msgs,   \* the messages
  msgpri  \* the priority of each message, the least number first

VARIABLES
  exists, \* is there a mailbox or a message buffer?
  byPri,  \* are priorities looked at?
  queue,  \* the messages, the next to be received first
  given   \* <<t, m>> when the last step gave m to t, else << >>

mqvars == <<exists, byPri, queue, given>>

Insert(q, m) ==
  LET i == SelectInSeq(q, LAMBDA n : byPri /\ msgpri[n] > msgpri[m])
  IN IF i = 0 THEN Append(q, m) ELSE InsertAt(q, i, m)

\* What the senders that get room in one step bring, in turn.
Arrivals(q, r) ==
  /\ Len(r) \in Len(q) .. Len(q) + Cardinality(Tasks)
  /\ SubSeq(r, 1, Len(q)) = q
  /\ Range(r) \subseteq Msgs

MQInit == exists = FALSE /\ byPri = FALSE /\ queue = << >> /\ given = << >>

\* What is queued when it is deleted belongs to the senders again, or is lost.
CreateOrDelete(r) ==
  /\ exists' = ~exists
  /\ byPri' \in BOOLEAN
  /\ r = << >>
  /\ given' = << >>

\* Senders that waited for room find it, if any.
Enter(q, r) == given' = << >> /\ Arrivals(q, r)

Send(q, r) == given' = << >> /\ \E m \in Msgs : r = Insert(q, m)

\* A receiver waits for the message, or finds it with a sender.
Give(q, r) == q = << >> /\ given' \in Tasks \X Msgs /\ Arrivals(q, r)

Receive(q, r) ==
  /\ q # << >>
  /\ \E t \in Tasks : given' = <<t, Head(q)>>
  /\ Arrivals(Tail(q), r)

\* q and r are the queue before and after.
MQNext ==
  \E q \in {queue}, r \in {queue'} :
    \/ /\ UNCHANGED <<exists, byPri>>
       /\ Enter(q, r) \/ Send(q, r) \/ Give(q, r) \/ Receive(q, r)
    \/ CreateOrDelete(r)

MQSpec == MQInit /\ [][MQNext]_mqvars
=============================================================================

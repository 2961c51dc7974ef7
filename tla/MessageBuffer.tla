--------------------------- MODULE MessageBuffer ---------------------------
(***************************************************************************)
(* A message buffer (messagebuf.c): messages are copied into a ring of     *)
(* words, each behind a header with its size, as long as they fit; senders *)
(* wait for room and receivers for messages.  A message that never fits    *)
(* (the buffer may have no size at all) passes from sender to receiver.    *)
(***************************************************************************)
EXTENDS Wait

CONSTANTS
  Msgs,       \* the messages
  msgsz,      \* the size of each, in words (ROUNDSZ)
  NULL,       \* no message
  BufSizes,   \* the sizes of buffers, in words
  Handler     \* an interrupt handler, as a sender

MbfAssumption == /\ msgsz \in [Msgs -> Nat \ {0}] /\ NULL \notin Msgs
                 /\ BufSizes \subseteq Nat /\ Handler \notin Tasks

VARIABLE given  \* <<t, m>> when the last step gave m to t, else << >>

HEADERSZ == 1

\* A word of the ring: word 0 of a message is its header, which tells its
\* size.  What has been read is NULL.
Words == (Msgs \X Nat) \cup {NULL}

\* send_queue is the wait_queue of the control block.
MBFCB(bufsz) ==
  [ objid : {"mbf"}, tpri : BOOLEAN, nodiswai : BOOLEAN, wait_queue : Seq(Tasks),
    recv_queue : Seq(Tasks), bufsz : {bufsz}, frbufsz : 0 .. bufsz,
    head : 0 .. bufsz, tail : 0 .. bufsz, buffer : [0 .. bufsz - 1 -> Words] ]

mbf_free(g, m) == HEADERSZ + msgsz[m] <= g.frbufsz

mbf_empty(g) == g.frbufsz = g.bufsz

\* i + n words on; at the end of the buffer an index becomes 0 at once.
wrap(g, i, n) == IF i + n >= g.bufsz THEN i + n - g.bufsz ELSE i + n

\* How far index j is behind i.
dist(g, i, j) == IF j >= i THEN j - i ELSE j - i + g.bufsz

msg_to_mbf(g, m) ==
  [g EXCEPT !.frbufsz = @ - (HEADERSZ + msgsz[m]),
            !.tail = wrap(g, @, HEADERSZ + msgsz[m]),
            !.buffer = [j \in DOMAIN @ |->
                          LET k == dist(g, g.tail, j)
                          IN IF k <= msgsz[m] THEN <<m, k>> ELSE @[j]]]

\* The message that the header at index i tells, as it is read from there;
\* NULL if its words are not in their places.
read(g, i) ==
  LET m == g.buffer[i][1]
  IN IF /\ g.buffer[i] # NULL
        /\ \A k \in 0 .. msgsz[m] : g.buffer[wrap(g, i, k)] = <<m, k>>
     THEN m ELSE NULL

mbf_to_msg(g) ==
  LET m == g.buffer[g.head][1]
  IN [g EXCEPT !.frbufsz = @ + HEADERSZ + msgsz[m],
               !.head = wrap(g, @, HEADERSZ + msgsz[m]),
               !.buffer = [j \in DOMAIN @ |->
                             IF dist(g, g.head, j) <= msgsz[m] THEN NULL ELSE @[j]]]

\* The first senders in turn, while their messages fit.
mbf_wakeup(g) ==
  FoldLeft(LAMBDA h, t :
             IF t = Head(h.gcb.wait_queue) /\ mbf_free(h.gcb, winfo[t])
             THEN [ gcb |-> [msg_to_mbf(h.gcb, winfo[t]) EXCEPT !.wait_queue = Tail(@)],
                    ok  |-> h.ok \cup {t} ]
             ELSE h,
           [gcb |-> g, ok |-> {}], g.wait_queue)

\* A receiver has no hook.
mbf_rel_wai(t, g) == IF winfo[t] = "RCV" THEN [gcb |-> g, ok |-> {}] ELSE mbf_wakeup(g)

mbf_chg_pri(g) == mbf_wakeup(g)

---------------------------------------------------------------------------

tk_cre_mbf(tpri, nodiswai, bufsz) ==
  /\ gcb.objid = "none"
  /\ gcb' = [ objid |-> "mbf", tpri |-> tpri, nodiswai |-> nodiswai,
              wait_queue |-> << >>, recv_queue |-> << >>, bufsz |-> bufsz,
              frbufsz |-> bufsz, head |-> 0, tail |-> 0,
              buffer |-> [j \in 0 .. bufsz - 1 |-> NULL] ]
  /\ ok' = {}
  /\ given' = << >>
  /\ UNCHANGED taskvars

tk_del_mbf == gcb.objid = "mbf" /\ wait_delete /\ given' = << >>

\* May s store m at once?  A handler does not look at the senders that wait.
stores(s, m) ==
  (s # Handler => gcb_top_of_wait_queue(gcb, s)) /\ mbf_free(gcb, m)

\* By a task, or by a handler or a task that does not wait (TMO_POL): then
\* the last case is an error.
tk_snd_mbf_u(s, m) ==
  /\ gcb.objid = "mbf"
  /\ s # Handler => Running(s) /\ ~is_diswai(gcb, s)
  /\ \/ /\ gcb.recv_queue # << >>
        /\ LET t == Head(gcb.recv_queue)
           IN /\ ends({t}, {t})
              /\ gcb' = left(t)
              /\ given' = <<t, m>>
        /\ UNCHANGED <<priority, waitmask>>
     \/ /\ gcb.recv_queue = << >>
        /\ stores(s, m)
        /\ gcb' = msg_to_mbf(gcb, m)
        /\ ok' = {}
        /\ given' = << >>
        /\ UNCHANGED taskvars
     \/ /\ gcb.recv_queue = << >>
        /\ ~stores(s, m)
        /\ s # Handler
        /\ gcb_make_wait(s, m)
        /\ given' = << >>

\* What is received when something is, and the block before senders are
\* looked at: from the buffer, or from the first sender.
received(g) == IF mbf_empty(g) THEN winfo[Head(g.wait_queue)] ELSE read(g, g.head)

taken(g) ==
  IF mbf_empty(g) THEN [g EXCEPT !.wait_queue = Tail(@)] ELSE mbf_to_msg(g)

tk_rcv_mbf_u(t) ==
  /\ gcb.objid = "mbf"
  /\ Running(t)
  /\ ~is_diswai(gcb, t)
  /\ \/ /\ ~mbf_empty(gcb) \/ gcb.wait_queue # << >>
        /\ LET h == mbf_wakeup(taken(gcb))
               R == IF mbf_empty(gcb) THEN {Head(gcb.wait_queue)} ELSE {}
           IN ends(R \cup h.ok, R \cup h.ok) /\ gcb' = h.gcb
        /\ given' = <<t, received(gcb)>>
        /\ UNCHANGED <<priority, waitmask>>
     \/ /\ mbf_empty(gcb) /\ gcb.wait_queue = << >>
        /\ state' = [state EXCEPT ![t] = "WAIT"]
        /\ winfo' = [winfo EXCEPT ![t] = "RCV"]
        /\ ok' = {}
        /\ gcb' = [gcb EXCEPT !.recv_queue = Append(@, t)]
        /\ given' = << >>
        /\ UNCHANGED <<priority, waitmask>>

MbfCalls ==
  \/ \E tpri, nodiswai \in BOOLEAN, bufsz \in BufSizes :
       tk_cre_mbf(tpri, nodiswai, bufsz)
  \/ tk_del_mbf
  \/ \E s \in Tasks \cup {Handler}, m \in Msgs : tk_snd_mbf_u(s, m)
  \/ \E t \in Tasks : tk_rcv_mbf_u(t)

---------------------------------------------------------------------------
(* Properties *)

\* The messages stored, in turn: from head on each word is the header of a
\* message behind the last word of one, or the next word of the same message.
Stored ==
  LET used    == gcb.bufsz - gcb.frbufsz
      word(k) == gcb.buffer[wrap(gcb, gcb.head, k)]
      ends_at(k) == k = -1 \/ word(k)[2] = msgsz[word(k)[1]]
      follows(k) == IF ends_at(k - 1) THEN word(k) # NULL /\ word(k)[2] = 0
                    ELSE word(k) = <<word(k - 1)[1], word(k - 1)[2] + 1>>
      headers == SelectSeq([k \in 1 .. used |-> word(k - 1)], LAMBDA w : w[2] = 0)
  IN IF (\A k \in 0 .. used - 1 : follows(k)) /\ ends_at(used - 1)
     THEN [i \in DOMAIN headers |-> headers[i][1]]
     ELSE <<NULL>>

\* A sender waits only while its message does not fit or others are before
\* it, and a receiver only while there is nothing to receive.
MbfNoServableWaiter ==
  gcb.objid = "mbf" =>
    /\ gcb.wait_queue # << >> => ~mbf_free(gcb, winfo[Head(gcb.wait_queue)])
    /\ gcb.recv_queue # << >> => mbf_empty(gcb) /\ gcb.wait_queue = << >>
============================================================================

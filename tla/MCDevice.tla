------------------------------ MODULE MCDevice ------------------------------
(* Devices.tla.  The manager: one task opens the device and looks after it, *)
(* two make requests, all of them close.  The library: two tasks with two   *)
(* requests, a driver task that accepts both kinds, one block or two.       *)
EXTENDS Devices

CONSTANTS t1, t2, t3, o1, o2, r1, r2, v1

MCTasks      == {t1, t2, t3}
MCResid      == [t \in MCTasks |-> 1]
MCRequesters == {t1, t2}
MCManagers   == {t3}
MCOpnCBs     == {o1, o2}
MCReqCBs     == {r1, r2}
MCUnits      == {1}
MCTwoUnits   == {1, 2}
MCModes      == {{"READ"}, {"READ", "REXCL"}}

MCDrivers == {v1}
MCKinds   == {"DREAD", "DWRITE"}
MCAccepts == [v \in MCDrivers |-> MCKinds]

MCSymmetry == Permutations({t1, t2}) \cup Permutations(MCOpnCBs)
                \cup Permutations(MCReqCBs)

\* Requests on one open of the device at a time, and none while the system
\* is being suspended or must not be, or every open goes to the driver; two
\* requests at once only while nothing else is open or cleaned up; a task
\* exception only with one request and one open.
MCManagerBound ==
  /\ \A r, s \in ReqCBs :
       NULL \notin {req[r].opncb, req[s].opncb} => req[r].opncb = req[s].opncb
  /\ (\A r \in ReqCBs : req[r].opncb # NULL) =>
       Cardinality(openq) <= 1 /\ \A t \in Tasks : ~pc[t].brk /\ ~pc[t].cleanup
  /\ (\E t \in Tasks : pc[t].brk) => Cardinality(openq) <= 1
  /\ DisSusCnt > 0 \/ ddev = TRUE \/ (\E t \in Tasks : pc[t].at \in {"suspend", "suspended"}) =>
       \A r \in ReqCBs : req[r] = FreeReq

\* User commands only between requests; with two blocks requests of one kind,
\* with one block of both, and then none is aborted; one request is aborted at
\* a time; a timeout, or a wait that is forbidden; no event is left pending
\* under a wait mask, and no request is aborted after its block went to
\* another one: these last two can happen, and then NobodyLeftAsleep and
\* EventMeansCompletion do not hold.
MCLibraryBound ==
  LET used    == {p \in ReqCBs : pkt[p].used}
      marked  == {p \in ReqCBs : pkt[p].abort}
      busy    == {d \in DOMAIN gdi.drq : gdi.drq[d].req # NULL}
  IN /\ Len(gdi.freeq) + Cardinality(busy) = 2 => \A p \in used : pkt[p].kind # "DWRITE"
     /\ Cardinality({pkt[p].kind : p \in used}) = 2 => marked = {}
     /\ Cardinality(marked) <= 1
     /\ Cmds \cap (flgptn \cup UNION {st[v].aptn : v \in Drivers}) # {} => used = {}
     /\ \A t, u \in Requesters : st[t].err = "tmout" => waitmask[u] = "none"
     /\ \A u \in Requesters :
          /\ ~(u \in tev /\ waitmask[u] = "TEV")
          /\ st[u].at = "abort" /\ Len(st[u].rs) = 1 =>
               \A d \in DOMAIN gdi.drq : pkt[st[u].rs[1]].exinf = d =>
                 gdi.drq[d].req \in {NULL, st[u].rs[1]}

MCBound == MCManagerBound /\ MCLibraryBound
=============================================================================

---------------------------- MODULE WorkersProofs ----------------------------
(***************************************************************************)
(* Proofs about the parts that work beside the requests: what a capture    *)
(* works with (its proxy and the browser pool), the change checks and the  *)
(* push channels, for any number of tunnels, captures, browsers, links,    *)
(* jobs, instances, accounts and endpoints.                                *)
(***************************************************************************)
EXTENDS ChangeCheck, PushDelivery, Captures, FiniteSetTheorems, TLAPS

-------------------------------------------------------------------------------
(***************************************************************************)
(* The proxy of a capture.                                                 *)
(***************************************************************************)

ReqRows == [pc : {"new", "dial", "resolve", "flush", "track", "relay", "untrack", "end"},
            client : BOOLEAN, up : {"none", "open", "closed"}]

\* A tunnel is tracked from its relay to its end; whoever is to close the tunnels, or has, was told to
\* by an enforcement that blocks new ones or by a Close.
ProxyInv ==
    /\ px \in ProxyScenarios
    /\ req \in [Requests -> ReqRows]
    /\ proxy \in [blocked : BOOLEAN, closed : BOOLEAN, enforced : BOOLEAN]
    /\ connSem \in Nat
    /\ tunnels \subseteq Requests
    /\ \A r \in tunnels : req[r].pc \in {"relay", "untrack"}
    /\ \A r \in Requests : req[r].pc \in {"new", "dial", "resolve"} => req[r].up = "none"
    /\ proxy.enforced \/ chores # {} => Refused
    /\ EnforcedMeansCut
    /\ SlotsMatchConnections

\* The slots of the connections that are closed return, each once.
LEMMA SlotsFollow ==
    ASSUME ProxyInv, NEW conns \in SUBSET Requests, connSem' = Closing(conns), px' = px,
           \A r \in conns : req[r].pc # "resolve",
           \A r \in Requests : HoldsConn(r)' <=> HoldsConn(r) /\ r \notin conns
    PROVE  connSem' \in Nat /\ SlotsMatchConnections'
<1> DEFINE O == {r \in Requests : HoldsConn(r)}
           C == {r \in conns : req[r].up = "open"}
           P == {r \in Requests : HoldsConn(r)'}
<1>0. px.requests \in Nat
  BY ProxyAssumption DEF ProxyInv
<1>1. IsFiniteSet(Requests) /\ Requests' = Requests
  <2>1. IsFiniteSet(1..px.requests)
    BY <1>0, FS_Interval
  <2> QED
    BY <2>1 DEF Requests
<1>2. IsFiniteSet(O) /\ O \cap C = C /\ P = O \ C
  BY <1>1, FS_Subset DEF HoldsConn
<1>3. IsFiniteSet(P) /\ Cardinality(P) = Cardinality(O) - Cardinality(C)
  <2> HIDE DEF O, C, P
  <2>1. IsFiniteSet(O \ C) /\ Cardinality(O \ C) = Cardinality(O) - Cardinality(O \cap C)
    BY <1>2, FS_Difference
  <2> QED
    BY <1>2, <2>1
<1>4. Cardinality(P) \in Nat
  BY <1>3, FS_CardinalityType
<1>5. connSem = Cardinality(O) /\ connSem' = connSem - Cardinality(C)
  BY DEF ProxyInv, SlotsMatchConnections, Closing
<1>6. connSem' = Cardinality(P)
  BY <1>3, <1>5
<1> QED
  BY <1>1, <1>4, <1>6 DEF SlotsMatchConnections

\* No connection opens or closes.
LEMMA SlotsStay ==
    ASSUME ProxyInv, UNCHANGED <<px, connSem>>,
           \A r \in Requests : HoldsConn(r)' <=> HoldsConn(r)
    PROVE  connSem' \in Nat /\ SlotsMatchConnections'
<1>1. {r \in Requests : HoldsConn(r)} = {r \in Requests : HoldsConn(r)'}
  OBVIOUS
<1>2. Requests' = Requests
  BY DEF Requests
<1> QED
  BY <1>1, <1>2 DEF ProxyInv, SlotsMatchConnections

\* A request moves on, and its connections stay as they are.
LEMMA Moved ==
    ASSUME ProxyInv, NEW r \in Requests, NEW pc \in {"dial", "resolve", "flush", "track", "relay", "untrack", "end"}, Move(r, pc)
    PROVE  /\ req' \in [Requests -> ReqRows]
           /\ req'[r].pc = pc /\ \A q \in Requests : q # r => req'[q] = req[q]
           /\ \A q \in Requests : req'[q].up = req[q].up
<1>1. req \in [Requests -> ReqRows] /\ req' = [req EXCEPT ![r].pc = pc]
  BY DEF ProxyInv, Move
<1>2. PICK q \in ReqRows : q = req[r]
  BY <1>1
<1>3. [q EXCEPT !.pc = pc] \in ReqRows /\ [q EXCEPT !.pc = pc].pc = pc /\ [q EXCEPT !.pc = pc].up = q.up
  BY DEF ReqRows
<1>4. req' = [req EXCEPT ![r] = [q EXCEPT !.pc = pc]]
  BY <1>1, <1>2
<1> QED
  BY <1>1, <1>2, <1>3, <1>4

\* A request moves on, its connections closed.
LEMMA Cut ==
    ASSUME ProxyInv, NEW r \in Requests, NEW pc \in {"untrack", "end"},
           req' = [req EXCEPT ![r] = [pc |-> pc, client |-> FALSE, up |-> "closed"]]
    PROVE  /\ req' \in [Requests -> ReqRows]
           /\ req'[r].pc = pc /\ req'[r].up = "closed" /\ \A q \in Requests : q # r => req'[q] = req[q]
<1>1. [pc |-> pc, client |-> FALSE, up |-> "closed"] \in ReqRows
  BY DEF ReqRows
<1> QED
  BY <1>1 DEF ProxyInv

\* A dial begins and takes a slot, or fails and returns it.
LEMMA SlotTaken ==
    ASSUME ProxyInv, NEW r \in Requests, px' = px, \A q \in Requests : q # r => req'[q] = req[q],
           \/ ~HoldsConn(r) /\ HoldsConn(r)' /\ connSem' = connSem + 1
           \/ HoldsConn(r) /\ ~HoldsConn(r)' /\ connSem' = connSem - 1
    PROVE  connSem' \in Nat /\ SlotsMatchConnections'
<1> DEFINE O == {q \in Requests : HoldsConn(q)}
           P == {q \in Requests : HoldsConn(q)'}
<1>0. px.requests \in Nat
  BY ProxyAssumption DEF ProxyInv
<1>1. IsFiniteSet(Requests) /\ Requests' = Requests
  <2>1. IsFiniteSet(1..px.requests)
    BY <1>0, FS_Interval
  <2> QED
    BY <2>1 DEF Requests
<1>2. IsFiniteSet(O) /\ IsFiniteSet(P)
  BY <1>1, FS_Subset
<1>3. connSem = Cardinality(O) /\ connSem \in Nat
  BY DEF ProxyInv, SlotsMatchConnections
<1>4. ASSUME ~HoldsConn(r) /\ HoldsConn(r)' PROVE connSem' = Cardinality(P)
  <2>1. r \notin O /\ P = O \cup {r}
    BY <1>4 DEF HoldsConn
  <2>2. Cardinality(P) = Cardinality(O) + 1
    BY <1>2, <2>1, FS_AddElement
  <2> QED
    BY <1>3, <1>4, <2>2
<1>5. ASSUME HoldsConn(r) /\ ~HoldsConn(r)' PROVE connSem' = Cardinality(P)
  <2>1. r \in O /\ P = O \ {r}
    BY <1>5 DEF HoldsConn
  <2>2. Cardinality(P) = Cardinality(O) - 1
    BY <1>2, <2>1, FS_RemoveElement
  <2> QED
    BY <1>3, <1>5, <2>2
<1>6. connSem' = Cardinality(P) /\ Cardinality(P) \in Nat
  BY <1>2, <1>4, <1>5, FS_CardinalityType
<1> QED
  BY <1>1, <1>6 DEF SlotsMatchConnections

Flags == [blocked : BOOLEAN, closed : BOOLEAN, enforced : BOOLEAN]

\* Every step of the proxy keeps the invariant.
LEMMA ProxyStep ==
    ASSUME ProxyInv, [ProxyNext]_proxyVars
    PROVE  ProxyInv'
<1>0. /\ px \in ProxyScenarios /\ req \in [Requests -> ReqRows] /\ connSem \in Nat /\ tunnels \subseteq Requests
      /\ proxy \in Flags /\ SlotsMatchConnections
      /\ \A r \in tunnels : req[r].pc \in {"relay", "untrack"}
      /\ \A r \in Requests : req[r].pc \in {"new", "dial", "resolve"} => req[r].up = "none"
      /\ proxy.enforced \/ chores # {} => proxy.closed \/ proxy.blocked
      /\ proxy.enforced => \A r \in tunnels : req[r].up = "closed"
  BY DEF ProxyInv, EnforcedMeansCut, Refused, Flags
<1> DEFINE Same(r) == \A q \in Requests : q # r => req'[q] = req[q]
           Warned  == proxy'.enforced \/ chores' # {} => proxy'.closed \/ proxy'.blocked
<1>b. [proxy EXCEPT !.blocked = TRUE] \in Flags /\ [proxy EXCEPT !.blocked = TRUE].blocked
      /\ [proxy EXCEPT !.blocked = TRUE].enforced = proxy.enforced
  BY <1>0 DEF Flags
<1>1. ASSUME NEW r \in Requests, serveConnect(r) PROVE ProxyInv'
  <2>1. req[r].pc = "new" /\ UNCHANGED <<px, connSem, tunnels>> /\ Requests' = Requests /\ r \notin tunnels
    BY <1>0, <1>1 DEF serveConnect, On, Requests
  <2>2. \/ Move(r, "dial") /\ UNCHANGED <<proxy, chores>>
        \/ Move(r, "end") /\ proxy' = [proxy EXCEPT !.blocked = TRUE]
    BY <1>1 DEF serveConnect, exceedBudget, markBlocked
  <2>3. /\ req' \in [Requests -> ReqRows] /\ Same(r) /\ req'[r].pc \in {"dial", "end"}
        /\ \A q \in Requests : req'[q].up = req[q].up
    BY <2>2, Moved
  <2>4. connSem' \in Nat /\ SlotsMatchConnections'
    BY <2>1, <2>3, SlotsStay DEF HoldsConn
  <2>5. proxy' \in Flags /\ proxy'.enforced = proxy.enforced /\ Warned
    BY <1>0, <1>b, <2>2
  <2> QED
    BY <1>0, <2>1, <2>3, <2>4, <2>5 DEF ProxyInv, EnforcedMeansCut, Refused, Flags
<1>2. ASSUME NEW r \in Requests, dialContext(r) PROVE ProxyInv'
  <2>1. /\ req[r].pc = "dial" /\ UNCHANGED <<px, tunnels, chores>> /\ Requests' = Requests /\ r \notin tunnels
        /\ req[r].up = "none"
    BY <1>0, <1>2 DEF dialContext, On, Requests
  <2>2. CASE connSem' = connSem + 1 /\ Move(r, "resolve") /\ UNCHANGED proxy
    <3>1. /\ req' \in [Requests -> ReqRows] /\ Same(r) /\ req'[r].pc = "resolve"
          /\ \A q \in Requests : req'[q].up = req[q].up
      BY <2>2, Moved
    <3>2. connSem' \in Nat /\ SlotsMatchConnections'
      BY <2>1, <2>2, <3>1, SlotTaken DEF HoldsConn
    <3> QED
      BY <1>0, <2>1, <2>2, <3>1, <3>2 DEF ProxyInv, EnforcedMeansCut, Refused, Flags
  <2>3. CASE Move(r, "end") /\ (proxy' = [proxy EXCEPT !.blocked = TRUE] \/ UNCHANGED proxy) /\ UNCHANGED connSem
    <3>1. /\ req' \in [Requests -> ReqRows] /\ Same(r) /\ req'[r].pc = "end"
          /\ \A q \in Requests : req'[q].up = req[q].up
      BY <2>3, Moved
    <3>2. connSem' \in Nat /\ SlotsMatchConnections'
      BY <2>1, <2>3, <3>1, SlotsStay DEF HoldsConn
    <3> QED
      BY <1>0, <1>b, <2>1, <2>3, <3>1, <3>2 DEF ProxyInv, EnforcedMeansCut, Refused, Flags
  <2> QED
    BY <1>2, <2>2, <2>3 DEF dialContext, markBlocked
<1>d. ASSUME NEW r \in Requests, strictDialContext(r) PROVE ProxyInv'
  <2>1. /\ req[r].pc = "resolve" /\ UNCHANGED <<px, tunnels, chores>> /\ Requests' = Requests /\ r \notin tunnels
        /\ req[r].up = "none"
    BY <1>0, <1>d DEF strictDialContext, On, Requests
  <2>2. CASE req' = [req EXCEPT ![r] = [@ EXCEPT !.pc = "flush", !.up = "open"]] /\ UNCHANGED <<proxy, connSem>>
    <3>1. PICK q \in ReqRows : q = req[r]
      BY <1>0
    <3>2. /\ [q EXCEPT !.pc = "flush", !.up = "open"] \in ReqRows
          /\ [q EXCEPT !.pc = "flush", !.up = "open"].up = "open"
          /\ [q EXCEPT !.pc = "flush", !.up = "open"].pc = "flush"
      BY DEF ReqRows
    <3>3. req' \in [Requests -> ReqRows] /\ req'[r].up = "open" /\ req'[r].pc = "flush" /\ Same(r)
      BY <1>0, <2>2, <3>1, <3>2
    <3>4. connSem' \in Nat /\ SlotsMatchConnections'
      BY <2>1, <2>2, <3>3, SlotsStay DEF HoldsConn
    <3> QED
      BY <1>0, <2>1, <2>2, <3>3, <3>4 DEF ProxyInv, EnforcedMeansCut, Refused, Flags
  <2>3. CASE Move(r, "end") /\ (proxy' = [proxy EXCEPT !.blocked = TRUE] \/ UNCHANGED proxy) /\ connSem' = connSem - 1
    <3>1. /\ req' \in [Requests -> ReqRows] /\ Same(r) /\ req'[r].pc = "end"
          /\ \A q \in Requests : req'[q].up = req[q].up
      BY <2>3, Moved
    <3>2. connSem' \in Nat /\ SlotsMatchConnections'
      BY <2>1, <2>3, <3>1, SlotTaken DEF HoldsConn
    <3> QED
      BY <1>0, <1>b, <2>1, <2>3, <3>1, <3>2 DEF ProxyInv, EnforcedMeansCut, Refused, Flags
  <2> QED
    BY <1>d, <2>2, <2>3 DEF strictDialContext, markBlocked
\* The connections of a request are closed by its handler.
<1>e. ASSUME NEW r \in Requests, NEW pc \in {"untrack", "end"}, connSem' = Closing({r}), UNCHANGED <<px, proxy, chores, tunnels>>,
             req' = [req EXCEPT ![r] = [pc |-> pc, client |-> FALSE, up |-> "closed"]],
             r \in tunnels => pc = "untrack", req[r].pc # "resolve"
      PROVE  ProxyInv'
  <2>1. /\ req' \in [Requests -> ReqRows]
        /\ req'[r].pc = pc /\ req'[r].up = "closed" /\ Same(r)
    BY <1>e, Cut
  <2>2. connSem' \in Nat /\ SlotsMatchConnections'
    BY <1>e, <2>1, SlotsFollow DEF HoldsConn
  <2>3. Requests' = Requests
    BY <1>e DEF Requests
  <2> QED
    BY <1>0, <1>e, <2>1, <2>2, <2>3 DEF ProxyInv, EnforcedMeansCut, Refused, Flags
\* A request goes on with its connections as they are.
<1>m. ASSUME NEW r \in Requests, NEW pc \in {"track", "end"}, Move(r, pc), UNCHANGED <<px, proxy, chores, connSem>>,
             tunnels' \subseteq tunnels \ {r}, req[r].pc # "resolve"
      PROVE  ProxyInv'
  <2>1. /\ req' \in [Requests -> ReqRows] /\ req'[r].pc = pc /\ Same(r)
        /\ \A q \in Requests : req'[q].up = req[q].up
    BY <1>m, Moved
  <2>2. connSem' \in Nat /\ SlotsMatchConnections' /\ Requests' = Requests
    BY <1>m, <2>1, SlotsStay DEF Requests, HoldsConn
  <2> QED
    BY <1>0, <1>m, <2>1, <2>2 DEF ProxyInv, EnforcedMeansCut, Refused, Flags
<1>3. ASSUME NEW r \in Requests, flush(r) PROVE ProxyInv'
  <2>1. req[r].pc = "flush" /\ UNCHANGED <<px, proxy, tunnels, chores>> /\ r \notin tunnels
    BY <1>0, <1>3 DEF flush, On
  <2> QED
    BY <1>3, <2>1, <1>e, <1>m DEF flush
<1>4. ASSUME NEW r \in Requests, trackTunnel(r) PROVE ProxyInv'
  <2>1. req[r].pc = "track" /\ UNCHANGED <<px, proxy, chores>> /\ r \notin tunnels /\ Requests' = Requests
    BY <1>0, <1>4 DEF trackTunnel, On, Requests
  <2>2. CASE Refused
    BY <1>4, <2>1, <2>2, <1>e DEF trackTunnel
  <2>3. CASE ~Refused
    <3>1. Move(r, "relay") /\ tunnels' = tunnels \cup {r} /\ UNCHANGED connSem
      BY <1>4, <2>3 DEF trackTunnel
    <3>2. ~proxy.enforced
      BY <1>0, <2>3 DEF Refused
    <3>3. /\ req' \in [Requests -> ReqRows] /\ req'[r].pc = "relay" /\ Same(r)
          /\ \A q \in Requests : req'[q].up = req[q].up
      BY <3>1, Moved
    <3>4. connSem' \in Nat /\ SlotsMatchConnections'
      BY <2>1, <3>1, <3>3, SlotsStay DEF HoldsConn
    <3> QED
      BY <1>0, <2>1, <3>1, <3>2, <3>3, <3>4 DEF ProxyInv, EnforcedMeansCut, Refused, Flags
  <2> QED
    BY <2>2, <2>3
<1>5. ASSUME NEW r \in Requests, proxyCopy(r) \/ hangsUp(r) PROVE ProxyInv'
  BY <1>5, <1>e DEF proxyCopy, hangsUp, On
<1>6. ASSUME NEW r \in Requests, untrackTunnel(r) PROVE ProxyInv'
  BY <1>6, <1>m DEF untrackTunnel, On
<1>7. ASSUME NEW r \in Requests, reserveBytes(r) PROVE ProxyInv'
  <2>1. UNCHANGED <<px, req, connSem, tunnels>> /\ Requests' = Requests
    BY <1>7 DEF reserveBytes, Requests
  <2>2. \/ UNCHANGED <<proxy, chores>>
        \/ proxy' = [proxy EXCEPT !.blocked = TRUE]
    BY <1>7 DEF reserveBytes, exceedBudget, markBlocked
  <2>3. proxy' \in Flags /\ proxy'.enforced = proxy.enforced /\ Warned
    BY <1>0, <1>b, <2>2
  <2>4. connSem' \in Nat /\ SlotsMatchConnections'
    BY <2>1, SlotsStay DEF HoldsConn
  <2> QED
    BY <1>0, <2>1, <2>3, <2>4 DEF ProxyInv, EnforcedMeansCut, Refused, Flags
<1>8. CASE Close
  <2>1. UNCHANGED <<px, req, connSem, tunnels>> /\ Requests' = Requests /\ proxy' = [proxy EXCEPT !.closed = TRUE]
    BY <1>8 DEF Close, Requests
  <2>2. proxy' \in Flags /\ proxy'.enforced = proxy.enforced /\ Warned
    BY <1>0, <2>1 DEF Flags
  <2>3. connSem' \in Nat /\ SlotsMatchConnections'
    BY <2>1, SlotsStay DEF HoldsConn
  <2> QED
    BY <1>0, <2>1, <2>2, <2>3 DEF ProxyInv, EnforcedMeansCut, Refused, Flags
<1>9. ASSUME NEW why \in {"budget", "close"}, closeTunnels(why) PROVE ProxyInv'
  <2>1. /\ chores # {} /\ UNCHANGED <<px, tunnels>> /\ Requests' = Requests /\ connSem' = Closing(tunnels)
        /\ proxy' = [proxy EXCEPT !.enforced = TRUE]
        /\ req' = [r \in Requests |-> IF r \in tunnels THEN [req[r] EXCEPT !.client = FALSE, !.up = "closed"] ELSE req[r]]
    BY <1>9 DEF closeTunnels, Requests
  <2>2. proxy' \in Flags /\ Warned
    BY <1>0, <2>1 DEF Flags
  <2>3. ASSUME NEW r \in Requests
        PROVE  /\ req'[r] \in ReqRows
               /\ r \in tunnels => req'[r].up = "closed" /\ req'[r].pc = req[r].pc
               /\ r \notin tunnels => req'[r] = req[r]
    <3>1. PICK q \in ReqRows : q = req[r]
      BY <1>0
    <3>2. /\ [q EXCEPT !.client = FALSE, !.up = "closed"] \in ReqRows
          /\ [q EXCEPT !.client = FALSE, !.up = "closed"].up = "closed"
          /\ [q EXCEPT !.client = FALSE, !.up = "closed"].pc = q.pc
      BY DEF ReqRows
    <3>3. req'[r] = IF r \in tunnels THEN [q EXCEPT !.client = FALSE, !.up = "closed"] ELSE req[r]
      BY <2>1, <3>1
    <3> QED
      BY <3>1, <3>2, <3>3
  <2>4. req' \in [Requests -> ReqRows]
    BY <2>1, <2>3
  <2>5. connSem' \in Nat /\ SlotsMatchConnections'
    BY <1>0, <2>1, <2>3, SlotsFollow DEF HoldsConn
  <2> QED
    BY <1>0, <2>1, <2>2, <2>3, <2>4, <2>5 DEF ProxyInv, EnforcedMeansCut, Refused, Flags
<1>10. CASE UNCHANGED proxyVars
  BY <1>10 DEF proxyVars, ProxyInv, EnforcedMeansCut, Refused, SlotsMatchConnections, HoldsConn, Requests
<1> QED
  BY <1>1, <1>2, <1>d, <1>3, <1>4, <1>5, <1>6, <1>7, <1>8, <1>9, <1>10 DEF ProxyNext, handler

\* A proxy starts without connections.
LEMMA ProxyStart == ProxyInit => ProxyInv
<1> SUFFICES ASSUME ProxyInit PROVE ProxyInv
  OBVIOUS
<1>1. /\ px \in ProxyScenarios /\ tunnels = {} /\ connSem = 0 /\ chores = {}
      /\ req = [r \in Requests |-> [pc |-> "new", client |-> TRUE, up |-> "none"]]
      /\ proxy = [blocked |-> FALSE, closed |-> FALSE, enforced |-> FALSE]
  BY DEF ProxyInit
<1>2. {r \in Requests : HoldsConn(r)} = {}
  BY <1>1 DEF HoldsConn
<1>3. SlotsMatchConnections
  BY <1>1, <1>2, FS_EmptySet DEF SlotsMatchConnections
<1> QED
  BY <1>1, <1>3 DEF ProxyInv, ReqRows, EnforcedMeansCut, Refused

\* The slots of the connections are those in use, and once the tunnels were closed none joins them
\* (closeTunnels against trackTunnel): for any number of tunnels and limits.
THEOREM TunnelsAreSound == ProxySpec => []TunnelsSound
<1>1. ProxyInv => TunnelsSound
  BY DEF ProxyInv, TunnelsSound
<1> QED
  BY <1>1, ProxyStart, ProxyStep, PTL DEF ProxySpec

-------------------------------------------------------------------------------
(***************************************************************************)
(* The browser pool.                                                       *)
(***************************************************************************)

\* What a browser, a capture, the pool, Close and the faults that remain may be.
BroRows == [known : BOOLEAN, once : BOOLEAN, early : BOOLEAN, cancelled : BOOLEAN, done : BOOLEAN,
            refs : {0, 1}, retired : BOOLEAN, force : BOOLEAN, stopping : BOOLEAN, cleaned : BOOLEAN, fin : BOOLEAN,
            stop : {"none", "begin", "queued", "close", "clean", "finish"},
            proc : {"none", "up", "ending"}, profile : BOOLEAN, proxy : BOOLEAN, blocked : BOOLEAN, dirty : BOOLEAN,
            lost : BOOLEAN]
CapPcs == {"idle", "claim", "proxy", "store", "ctx", "launch", "connect", "failed", "adopt", "stale", "check", "use",
           "release", "end"}
Numbers == 0..po.browsers

CapRows == [pc : CapPcs, b : Numbers]
PoolRows == [current : Numbers, starting : Numbers, closed : BOOLEAN, slot : 0..po.captures, made : Numbers]
CloserRows == [pc : {"open", "stop", "join", "closed"}, startup : Numbers, gens : SUBSET Browsers, expired : BOOLEAN]
Spares == [escapes : Nat, faults : Nat, closes : Nat]

PoolTypes ==
    /\ po \in PoolScenarios
    /\ cap \in [Captures -> CapRows]
    /\ bro \in [Browsers -> BroRows]
    /\ pool \in PoolRows
    /\ gens \in SUBSET Browsers
    /\ closer \in CloserRows
    /\ spare \in Spares

\* What is left of a browser's process and of its profile, and of its proxy too.
Clean(r) == r.proc # "up" /\ (r.profile => r.lost)
Left(r) == Clean(r) /\ ~r.proxy

\* A teardown has taken what its stage says.
TornDown(r) ==
    /\ r.fin => Left(r)
    /\ r.cleaned => Clean(r)
    /\ r.stop = "clean" => r.proc # "up"
    /\ r.stop = "finish" => r.cleaned
    /\ r.stop # "none" => r.stopping

\* A browser that no teardown has seen, and one that a startup has not reached.
Untouched(r) ==
    /\ ~r.retired /\ ~r.stopping /\ ~r.cleaned /\ ~r.fin /\ r.stop = "none" /\ ~r.dirty /\ r.proc # "ending"
Unmade(r) ==
    /\ Untouched(r) /\ ~r.known /\ ~r.once /\ ~r.done /\ r.refs = 0 /\ r.proc = "none" /\ ~r.profile /\ ~r.proxy

Whole(r) == r.proc = "up" /\ r.profile /\ r.proxy

\* A startup, at each of its places.
StartPcs == {"proxy", "store", "ctx", "launch", "connect", "failed", "adopt"}
StartOk(pc, r, closed) ==
    /\ Untouched(r) /\ ~r.done
    /\ r.refs = IF pc = "adopt" THEN 1 ELSE 0
    /\ pc \in {"proxy", "store"} => ~r.known
    /\ pc = "proxy" => ~r.proxy
    /\ pc \in {"ctx", "launch", "connect", "adopt"} => r.known
    /\ pc \in {"proxy", "store", "ctx", "launch"} => r.proc = "none" /\ ~r.profile /\ (r.once => r.early)
    /\ pc \in {"connect", "adopt"} /\ r.once => r.early \/ Left(r)
    /\ pc = "failed" => r.early \/ Left(r)
    /\ ~closed /\ pc \in {"store", "ctx", "launch", "connect", "adopt"} => r.proxy
    /\ ~closed /\ pc \in {"connect", "adopt"} => r.proc = "up" /\ r.profile

\* Whatever a browser has that a capture must not meet, its proxy shows.
Shows(r) == r.dirty => r.blocked

\* A browser in the hands of a capture.
HeldPcs == {"check", "use", "release"}
HeldOk(pc, r, closed) ==
    /\ r.refs = 1
    /\ pc = "check" => Shows(r)
    /\ pc = "use" => ~r.dirty
    /\ ~closed => Whole(r) /\ ~r.stopping /\ r.stop = "none"

\* The slot is one capture's, and with it the only startup and the only hold.
CapOk(c) ==
    LET w == cap[c]
    IN  /\ w.pc \notin {"idle", "end"} => pool.slot = c
        /\ w.pc \in StartPcs \cup HeldPcs \cup {"stale"} => w.b \in Browsers /\ w.b <= pool.made
        /\ w.pc \in StartPcs => /\ pool.starting = w.b /\ w.b \notin gens /\ pool.current = 0
                                /\ StartOk(w.pc, bro[w.b], pool.closed)
        /\ w.pc \in StartPcs \cup {"stale"} => ~bro[w.b].done /\ (pool.closed => w.b = closer.startup)
        /\ w.pc = "stale" => pool.closed /\ bro[w.b].refs = 0
        /\ w.pc \in HeldPcs => pool.current \in {0, w.b} /\ HeldOk(w.pc, bro[w.b], pool.closed)

Started == pool.starting # 0 => \E c \in Captures : cap[c].pc \in StartPcs /\ cap[c].b = pool.starting

\* The browser that the next capture gets.
CurrentOk ==
    pool.current # 0 =>
        LET r == bro[pool.current]
        IN  /\ ~pool.closed /\ pool.current \in gens
            /\ Whole(r) /\ ~r.retired /\ ~r.stopping /\ r.stop = "none" /\ Shows(r) /\ ~r.fin
            /\ r.refs = 1 => \E c \in Captures : cap[c].pc \in HeldPcs /\ cap[c].b = pool.current

CloserOk ==
    /\ pool.closed <=> closer.pc # "open"
    /\ closer.pc = "open" => closer.startup = 0 /\ closer.gens = {}
    /\ closer.startup # 0 => closer.startup \notin gens \cup closer.gens
    /\ pool.closed => gens \subseteq closer.gens
    /\ closer.pc = "closed" => \A b \in closer.gens : bro[b].fin
    /\ closer.pc = "closed" /\ ~closer.expired /\ closer.startup # 0 => bro[closer.startup].done
    /\ closer.pc \in {"open", "stop"} => \A b \in Browsers : ~bro[b].early
    /\ \A b \in gens \cup closer.gens \cup {closer.startup} : b <= pool.made

BrowserOk(b) ==
    /\ TornDown(bro[b])
    /\ b > pool.made => Unmade(bro[b])
    /\ \/ bro[b].early \/ Left(bro[b]) \/ b \in gens
       \/ \E c \in Captures : cap[c].pc \in StartPcs \cup {"stale"} /\ cap[c].b = b

PoolInv ==
    /\ PoolTypes
    /\ \A c \in Captures : CapOk(c)
    /\ Started /\ CurrentOk /\ CloserOk
    /\ \A b \in Browsers : BrowserOk(b)


\* The fields that no teardown of a launcher touches.
Kept(r, s) ==
    /\ s.known = r.known /\ s.early = r.early /\ s.done = r.done /\ s.refs = r.refs /\ s.retired = r.retired
    /\ s.dirty = r.dirty /\ s.blocked = r.blocked

\* A profile's removal leaves nothing that is not known to be lost.
LEMMA RemovedRow ==
    ASSUME NEW r \in BroRows, NEW s \in removed(r)
    PROVE  /\ s \in BroRows /\ Kept(r, s) /\ s.once = r.once /\ s.stopping = r.stopping /\ s.cleaned = r.cleaned
           /\ s.fin = r.fin /\ s.stop = r.stop /\ s.proc = r.proc /\ s.proxy = r.proxy
           /\ (s.profile => s.lost /\ r.profile)
  BY ZenonT(60) DEF removed, BroRows, Kept

\* A launcher's hard stop ends its process, and leaves no profile that is not known to be lost.
LEMMA LauncherRow ==
    ASSUME NEW r \in BroRows, NEW s \in hardStopLauncher(r)
    PROVE  /\ s \in BroRows /\ Kept(r, s) /\ s.once = r.once /\ s.stopping = r.stopping /\ s.cleaned = r.cleaned
           /\ s.fin = r.fin /\ s.stop = r.stop /\ s.proc = "none" /\ s.proxy = r.proxy
           /\ (s.profile => s.lost /\ r.profile)
<1>1. PICK q : q = [r EXCEPT !.proc = "none"]
  OBVIOUS
<1>2. q \in BroRows /\ Kept(r, q) /\ q.once = r.once /\ q.stopping = r.stopping /\ q.cleaned = r.cleaned
      /\ q.fin = r.fin /\ q.stop = r.stop /\ q.proc = "none" /\ q.proxy = r.proxy /\ q.profile = r.profile
  BY <1>1 DEF BroRows, Kept
<1>3. s \in removed(q)
  BY <1>1 DEF hardStopLauncher
<1> QED
  BY <1>2, <1>3, RemovedRow DEF Kept

\* A startup is stopped once, and what it had told of itself by then is gone.
LEMMA StartupRow ==
    ASSUME NEW r \in BroRows, NEW s \in hardStopStartup(r)
    PROVE  /\ s \in BroRows /\ Kept(r, s) /\ s.once /\ s.stopping = r.stopping /\ s.cleaned = r.cleaned
           /\ s.fin = r.fin /\ s.stop = r.stop /\ (s.proxy => r.proxy) /\ (s.profile => r.profile)
           /\ s.proc \in {r.proc, "none"}
           /\ (r.once => s = r)
           /\ (~r.known => s.proc = r.proc /\ s.proxy = r.proxy)
           /\ (~r.once /\ r.known => Left(s))
           /\ (Left(r) => Left(s)) /\ (Clean(r) => Clean(s))
<1>1. CASE r.once
  BY <1>1 DEF hardStopStartup, Kept
<1>2. CASE ~r.once /\ ~r.known
  BY <1>2, ZenonT(60) DEF hardStopStartup, Kept, BroRows, Left, Clean
<1>3. CASE ~r.once /\ r.known
  <2>1. PICK q \in hardStopLauncher(r) : s = [q EXCEPT !.once = TRUE, !.proxy = FALSE]
    BY <1>3 DEF hardStopStartup
  <2>2. /\ q \in BroRows /\ Kept(r, q) /\ q.stopping = r.stopping /\ q.cleaned = r.cleaned
        /\ q.fin = r.fin /\ q.stop = r.stop /\ q.proc = "none" /\ (q.profile => q.lost /\ r.profile)
    BY <2>1, LauncherRow
  <2>3. /\ s \in BroRows /\ Kept(r, s) /\ s.once /\ s.stopping = r.stopping /\ s.cleaned = r.cleaned
        /\ s.fin = r.fin /\ s.stop = r.stop /\ ~s.proxy /\ s.proc = "none" /\ (s.profile => s.lost /\ r.profile)
    BY <2>1, <2>2, ZenonT(60) DEF BroRows, Kept
  <2> QED
    BY <1>3, <2>3 DEF Left, Clean
<1> QED
  BY <1>1, <1>2, <1>3

\* A generation's launcher is cleaned up once; only a forced cleanup ends a process.
LEMMA CleanupRow ==
    ASSUME NEW r \in BroRows, NEW force \in BOOLEAN, NEW s \in cleanupGenerationLauncher(r, force),
           r.cleaned => Clean(r), force \/ r.proc # "up"
    PROVE  /\ s \in BroRows /\ Kept(r, s) /\ s.once = r.once /\ s.stopping = r.stopping /\ s.cleaned
           /\ s.fin = r.fin /\ s.stop = r.stop /\ s.proxy = r.proxy
           /\ Clean(s)
<1>1. CASE r.cleaned
  BY <1>1 DEF cleanupGenerationLauncher, Kept
<1>2. CASE ~r.cleaned
  <2>1. PICK q \in removed(r) \cup hardStopLauncher(r) :
            s = [q EXCEPT !.cleaned = TRUE] /\ (force => q \in hardStopLauncher(r))
    BY <1>2 DEF cleanupGenerationLauncher
  <2>2. /\ q \in BroRows /\ Kept(r, q) /\ q.once = r.once /\ q.stopping = r.stopping
        /\ q.fin = r.fin /\ q.stop = r.stop /\ q.proxy = r.proxy /\ q.proc # "up" /\ (q.profile => q.lost)
    BY <2>1, RemovedRow, LauncherRow
  <2> QED
    BY <2>1, <2>2 DEF BroRows, Kept, Clean
<1> QED
  BY <1>1, <1>2

\* The faults that remain are still a number.
LEMMA SpareStays ==
    ASSUME PoolInv, NEW what \in {"escapes", "faults", "closes"}, spare' = spare \/ Pay(what)
    PROVE  spare' \in Spares
<1>1. PICK q \in Spares : q = spare
  BY DEF PoolInv, PoolTypes
<1>2. ASSUME Pay(what) PROVE spare' \in Spares
  <2>1. q[what] > 0 /\ spare' = [q EXCEPT ![what] = @ - 1]
    BY <1>1, <1>2 DEF Pay, Has
  <2>2. q[what] \in Nat
    BY <1>1 DEF Spares
  <2>3. q[what] - 1 \in Nat
    BY <2>1, <2>2
  <2> QED
    BY <1>1, <2>1, <2>3 DEF Spares
<1> QED
  BY <1>1, <1>2

\* A browser's row changes; the others do not.
LEMMA Becomes ==
    ASSUME PoolInv, NEW b \in Browsers, NEW S, Become(b, S)
    PROVE  spare' \in Spares /\ \E s \in S : bro' = [bro EXCEPT ![b] = s]
<1>1. PICK s \in S : bro' = [bro EXCEPT ![b] = s] /\ Losing(bro[b], s)
  BY DEF Become
<1>2. spare' = spare \/ Pay("faults")
  BY <1>1 DEF Losing
<1> QED
  BY <1>1, <1>2, SpareStays

\* The numbers of captures and browsers are numbers, and no browser is 0.
LEMMA Sizes ==
    ASSUME PoolInv
    PROVE  /\ po.captures \in Nat /\ po.browsers \in Nat /\ 0 \in Numbers /\ 0 \in 0..po.captures /\ 0 \notin Captures
           /\ Numbers \subseteq Int /\ Browsers \subseteq Numbers /\ Captures \subseteq 0..po.captures /\ 0 \notin Browsers
           /\ \A b \in Numbers : b # 0 => b \in Browsers
           /\ \A o \in PoolRows : o.made \in Int /\ o.made \in Numbers /\ o.made >= o.made
<1>1. {po.captures, po.browsers} \subseteq Nat
  BY PoolAssumption DEF PoolInv, PoolTypes
<1>2. po.captures \in Nat /\ po.browsers \in Nat
  BY <1>1
<1> QED
  BY <1>2 DEF Numbers, Browsers, Captures, PoolRows

\* Who holds the slot is alone: every other capture waits for it, or has ended.
LEMMA Alone ==
    ASSUME PoolInv, NEW c \in Captures, cap[c].pc \notin {"idle", "end"}
    PROVE  \A d \in Captures : d # c => cap[d].pc \in {"idle", "end"}
<1>1. \A d \in Captures : cap[d].pc \notin {"idle", "end"} => pool.slot = d
  BY DEF PoolInv, CapOk
<1> QED
  BY <1>1

\* A capture that holds the slot takes a step with the browser that is its own.
LEMMA Turn ==
    ASSUME PoolInv, NEW c \in Captures, cap[c].pc \notin {"idle", "end"}, UNCHANGED <<po, closer>>, spare' \in Spares,
           NEW w \in CapRows, cap' = [cap EXCEPT ![c] = w], w.b \in Browsers,
           cap[c].pc \in StartPcs \cup {"stale"} => cap[c].b = w.b,
           NEW s \in BroRows, bro' = [bro EXCEPT ![w.b] = s],
           NEW p \in PoolRows, pool' = p, p.closed = pool.closed, p.made >= pool.made, w.b <= p.made,
           w.pc \notin {"idle", "end"} => p.slot = c,
           gens' \in SUBSET Browsers, gens \subseteq gens', gens' \subseteq gens \cup {w.b}, pool.closed => gens' = gens,
           TornDown(s), s.early = bro[w.b].early, bro[w.b].fin => s.fin, bro[w.b].done => s.done,
           s.early \/ Left(s) \/ w.b \in gens' \/ w.pc \in StartPcs \cup {"stale"},
           w.pc \in StartPcs => p.starting = w.b /\ w.b \notin gens' /\ p.current = 0 /\ StartOk(w.pc, s, p.closed),
           w.pc \in StartPcs \cup {"stale"} => ~s.done /\ (pool.closed => w.b = closer.startup),
           w.pc = "stale" => pool.closed /\ s.refs = 0,
           w.pc \in HeldPcs => p.current \in {0, w.b} /\ HeldOk(w.pc, s, p.closed),
           p.starting # 0 => w.pc \in StartPcs /\ p.starting = w.b,
           CurrentOk'
    PROVE  PoolInv'
<1>1. Captures' = Captures /\ Browsers' = Browsers /\ Numbers' = Numbers /\ CapRows' = CapRows /\ PoolRows' = PoolRows
      /\ CloserRows' = CloserRows
  BY DEF Captures, Browsers, Numbers, CapRows, PoolRows, CloserRows
<1>2. /\ PoolTypes /\ CloserOk /\ cap'[c] = w /\ bro'[w.b] = s
      /\ \A d \in Captures : d # c => cap'[d] = cap[d]
      /\ \A x \in Browsers : x # w.b => bro'[x] = bro[x]
  BY DEF PoolInv, PoolTypes
<1>3. PoolTypes'
  BY <1>1, <1>2 DEF PoolTypes
<1>4. ASSUME NEW d \in Captures PROVE CapOk(d)'
  <2>1. CASE d = c
    BY <1>1, <1>2, <2>1 DEF CapOk
  <2>2. CASE d # c
    BY <1>2, <2>2, Alone DEF CapOk, HeldPcs, StartPcs
  <2> QED
    BY <2>1, <2>2
<1>5. Started'
  BY <1>1, <1>2 DEF Started
<1>6. CloserOk'
  <2>1. \A b \in Browsers : (bro'[b].early <=> bro[b].early) /\ (bro[b].fin => bro'[b].fin) /\ (bro[b].done => bro'[b].done)
    BY <1>2
  <2>2. closer.gens \subseteq Browsers /\ (closer.startup # 0 => closer.startup \in Browsers) /\ pool.made \in Int /\ p.made \in Int
    BY <1>2, PoolAssumption DEF PoolTypes, CloserRows, Numbers, Browsers, PoolRows
  <2>3. \A b \in gens' \cup closer.gens \cup {closer.startup} : b <= p.made
    <3>1. closer.startup \in Int /\ Browsers \subseteq Int
      BY <1>2, Sizes DEF PoolTypes, CloserRows
    <3> QED
      BY <1>2, <2>2, <3>1 DEF CloserOk
  <2> QED
    BY <1>1, <1>2, <2>1, <2>2, <2>3 DEF CloserOk
<1>7. ASSUME NEW b \in Browsers PROVE BrowserOk(b)'
  <2>1. CASE b = w.b
    <3>1. w.pc \in StartPcs \cup {"stale"} => \E d \in Captures : cap'[d].pc \in StartPcs \cup {"stale"} /\ cap'[d].b = b
      BY <1>2, <2>1
    <3>2. ~(b > p.made)
      BY <2>1, PoolAssumption DEF PoolRows, Numbers, Browsers, PoolTypes, PoolInv
    <3> QED
      BY <1>1, <1>2, <2>1, <3>1, <3>2 DEF BrowserOk
  <2>2. CASE b # w.b
    <3>1. BrowserOk(b) /\ bro'[b] = bro[b]
      BY <1>2, <2>2 DEF PoolInv
    <3>2. b > p.made => b > pool.made
      BY PoolAssumption DEF PoolRows, Numbers, Browsers, PoolTypes, PoolInv
    <3>3. ASSUME NEW d \in Captures, cap[d].pc \in StartPcs \cup {"stale"}, cap[d].b = b PROVE FALSE
      BY <2>2, <3>3, Alone DEF StartPcs
    <3> QED
      BY <1>1, <3>1, <3>2, <3>3 DEF BrowserOk
  <2> QED
    BY <2>1, <2>2
<1> QED
  BY <1>1, <1>3, <1>4, <1>5, <1>6, <1>7 DEF PoolInv

\* A capture leaves, or takes the slot, with no browser.
LEMMA Passes ==
    ASSUME PoolInv, UNCHANGED <<po, bro, gens, closer>>, spare' \in Spares,
           NEW c \in Captures, cap[c].pc \in {"idle", "claim"},
           NEW w \in CapRows, cap' = [cap EXCEPT ![c] = w], w.pc \in {"claim", "end"}, w.b = cap[c].b,
           NEW p \in PoolRows, pool' = p, p.current = pool.current, p.starting = pool.starting, p.closed = pool.closed,
           p.made = pool.made,
           \/ p.slot = pool.slot /\ w.pc = "end"
           \/ pool.slot = c /\ w.pc = "end"
           \/ pool.slot = 0 /\ p.slot = c
    PROVE  PoolInv'
<1>1. Captures' = Captures /\ Browsers' = Browsers /\ Numbers' = Numbers /\ CapRows' = CapRows /\ PoolRows' = PoolRows
      /\ CloserRows' = CloserRows /\ 0 \notin Captures
  BY DEF Captures, Browsers, Numbers, CapRows, PoolRows, CloserRows
<1>2. /\ PoolTypes /\ CloserOk /\ cap'[c] = w
      /\ \A d \in Captures : d # c => cap'[d] = cap[d]
  BY DEF PoolInv, PoolTypes
<1>3. PoolTypes'
  BY <1>1, <1>2 DEF PoolTypes
<1>4. ASSUME NEW d \in Captures PROVE CapOk(d)'
  <2>1. CASE d = c
    BY <1>2, <2>1 DEF CapOk, HeldPcs, StartPcs
  <2>2. CASE d # c
    <3>1. CapOk(d) /\ cap'[d] = cap[d]
      BY <1>2, <2>2 DEF PoolInv
    <3>2. cap[d].pc \notin {"idle", "end"} => pool.slot = d /\ p.slot = d
      BY <1>1, <2>2, <3>1 DEF CapOk
    <3> QED
      BY <1>1, <3>1, <3>2 DEF CapOk
  <2> QED
    BY <2>1, <2>2
<1>5. \A d \in Captures : cap[d].pc \in StartPcs \cup HeldPcs \cup {"stale"} => cap'[d] = cap[d]
  BY <1>2 DEF StartPcs, HeldPcs
<1>6. Started' /\ CurrentOk'
  BY <1>1, <1>5 DEF Started, CurrentOk, PoolInv
<1>7. CloserOk'
  BY <1>1, <1>2 DEF CloserOk
<1>8. ASSUME NEW b \in Browsers PROVE BrowserOk(b)'
  BY <1>1, <1>5 DEF BrowserOk, PoolInv
<1> QED
  BY <1>1, <1>3, <1>4, <1>6, <1>7, <1>8 DEF PoolInv

\* A teardown takes a step with a browser that no capture starts, and that none is to get or keep.
LEMMA Torn ==
    ASSUME PoolInv, UNCHANGED <<po, cap, pool, closer>>, spare' \in Spares,
           NEW b \in Browsers, b <= pool.made,
           NEW s \in BroRows, bro' = [bro EXCEPT ![b] = s],
           gens' = gens \/ (gens' = gens \ {b} /\ Left(s)),
           TornDown(s), Kept(bro[b], s), bro[b].fin => s.fin, Left(bro[b]) => Left(s),
           pool.closed \/ bro[b].proc # "up" \/ bro[b].stop # "none",
           \A c \in Captures : cap[c].pc \in StartPcs => cap[c].b # b
    PROVE  PoolInv'
<1>1. Captures' = Captures /\ Browsers' = Browsers /\ Numbers' = Numbers /\ CapRows' = CapRows /\ PoolRows' = PoolRows
      /\ CloserRows' = CloserRows
  BY DEF Captures, Browsers, Numbers, CapRows, PoolRows, CloserRows
<1>2. /\ PoolTypes /\ CloserOk /\ CurrentOk /\ bro'[b] = s
      /\ \A x \in Browsers : x # b => bro'[x] = bro[x]
  BY DEF PoolInv, PoolTypes
<1>3. PoolTypes'
  BY <1>1, <1>2 DEF PoolTypes
<1>4. ASSUME NEW c \in Captures PROVE CapOk(c)'
  <2>1. CapOk(c)
    BY DEF PoolInv
  <2>2. CASE cap[c].b = b
    <3>1. cap[c].pc \notin StartPcs
      BY <2>2
    <3>2. cap[c].pc \in HeldPcs => HeldOk(cap[c].pc, s, pool.closed)
      BY <2>1, <2>2 DEF CapOk, HeldOk, Kept, Whole, Shows
    <3> QED
      BY <1>1, <1>2, <2>1, <2>2, <3>1, <3>2 DEF CapOk, Kept
  <2>3. CASE cap[c].b # b
    BY <1>1, <1>2, <2>1, <2>3 DEF CapOk
  <2> QED
    BY <2>2, <2>3
<1>5. Started'
  BY <1>1 DEF Started, PoolInv
<1>6. CurrentOk'
  <2>1. pool.current # 0 => pool.current # b /\ pool.current \in Browsers
    BY <1>2 DEF CurrentOk, Whole, PoolTypes
  <2> QED
    BY <1>1, <1>2, <2>1 DEF CurrentOk
<1>7. CloserOk'
  <2>1. \A x \in Browsers : (bro'[x].early <=> bro[x].early) /\ (bro[x].fin => bro'[x].fin) /\ (bro[x].done => bro'[x].done)
    BY <1>2 DEF Kept
  <2>2. closer.gens \subseteq Browsers /\ (closer.startup # 0 => closer.startup \in Browsers)
    BY <1>2, PoolAssumption DEF PoolTypes, CloserRows, Numbers, Browsers
  <2> QED
    BY <1>1, <1>2, <2>1, <2>2 DEF CloserOk
<1>8. ASSUME NEW x \in Browsers PROVE BrowserOk(x)'
  <2>1. CASE x = b
    <3>1. BrowserOk(b)
      BY DEF PoolInv
    <3>2. ~(b > pool.made)
      BY PoolAssumption DEF PoolRows, Numbers, Browsers, PoolTypes, PoolInv
    <3> QED
      BY <1>1, <1>2, <2>1, <3>1, <3>2 DEF BrowserOk, Kept
  <2>2. CASE x # b
    BY <1>1, <1>2, <2>2 DEF BrowserOk, PoolInv
  <2> QED
    BY <2>1, <2>2
<1> QED
  BY <1>1, <1>3, <1>4, <1>5, <1>6, <1>7, <1>8 DEF PoolInv

\* What the invariant reads of a row, but for what a capture must not meet.
Resembles(r, s) ==
    /\ s.known = r.known /\ s.early = r.early /\ s.done = r.done /\ s.refs = r.refs /\ s.retired = r.retired
    /\ s.once = r.once /\ s.stopping = r.stopping /\ s.cleaned = r.cleaned /\ s.fin = r.fin
    /\ s.stop = r.stop /\ s.proc = r.proc /\ s.profile = r.profile /\ s.proxy = r.proxy /\ s.lost = r.lost

\* What the invariant reads of a row.
Alike(r, s) ==
    /\ Kept(r, s) /\ s.once = r.once /\ s.stopping = r.stopping /\ s.cleaned = r.cleaned /\ s.fin = r.fin
    /\ s.stop = r.stop /\ s.proc = r.proc /\ s.profile = r.profile /\ s.proxy = r.proxy /\ s.lost = r.lost

\* A mark on a browser that nothing else depends on; a refused address is news only to the captures that have not begun.
LEMMA Marked ==
    ASSUME PoolInv, UNCHANGED <<po, cap, pool, gens, closer>>, spare' \in Spares,
           NEW b \in Browsers, NEW s \in BroRows, bro' = [bro EXCEPT ![b] = s], Resembles(bro[b], s),
           \/ s.dirty = bro[b].dirty /\ s.blocked = bro[b].blocked
           \/ b \in gens /\ s.blocked /\ (Using(b) => s.dirty = bro[b].dirty)
    PROVE  PoolInv'
<1>1. Captures' = Captures /\ Browsers' = Browsers /\ Numbers' = Numbers /\ CapRows' = CapRows /\ PoolRows' = PoolRows
      /\ CloserRows' = CloserRows
  BY DEF Captures, Browsers, Numbers, CapRows, PoolRows, CloserRows
<1>2. PoolTypes /\ bro' \in [Browsers -> BroRows] /\ \A x \in Browsers : Resembles(bro[x], bro'[x])
  BY DEF PoolInv, PoolTypes, Resembles
<1>11. \A x \in Browsers : Alike(bro[x], bro'[x]) \/ (x \in gens /\ bro'[x].blocked /\ (Using(x) => bro'[x].dirty = bro[x].dirty))
  BY <1>2 DEF PoolInv, PoolTypes, Resembles, Alike, Kept
<1>3. PoolTypes'
  BY <1>1, <1>2 DEF PoolTypes
<1>4. \A x \in Browsers : x \notin gens => (Untouched(bro'[x]) <=> Untouched(bro[x]))
  BY <1>11 DEF Alike, Kept, Untouched
<1>5. \A x \in Browsers : Left(bro'[x]) <=> Left(bro[x])
  BY <1>2 DEF Resembles, Left, Clean
<1>6. ASSUME NEW c \in Captures PROVE CapOk(c)'
  <2>1. CapOk(c)
    BY DEF PoolInv
  <2>2. CASE cap[c].b \in Browsers
    <3>1. cap[c].b \notin gens /\ StartOk(cap[c].pc, bro[cap[c].b], pool.closed) => StartOk(cap[c].pc, bro'[cap[c].b], pool.closed)
      BY <1>2, <1>4, <1>5, <2>2 DEF StartOk, Resembles
    <3>2. cap[c].pc = "use" => Using(cap[c].b)
      BY DEF Using, InCap
    <3>3. HeldOk(cap[c].pc, bro[cap[c].b], pool.closed) => HeldOk(cap[c].pc, bro'[cap[c].b], pool.closed)
      BY <1>2, <1>11, <2>2, <3>2 DEF HeldOk, Alike, Kept, Resembles, Whole, Shows
    <3> QED
      BY <1>1, <1>2, <2>1, <2>2, <3>1, <3>3 DEF CapOk, Resembles
  <2>3. CASE cap[c].b \notin Browsers
    BY <1>1, <2>1, <2>3 DEF CapOk
  <2> QED
    BY <2>2, <2>3
<1>7. Started'
  BY <1>1 DEF Started, PoolInv
<1>8. CurrentOk'
  <2>1. pool.current # 0 => pool.current \in Browsers
    BY DEF CurrentOk, PoolInv, PoolTypes
  <2> QED
    BY <1>1, <1>2, <1>11, <2>1 DEF CurrentOk, PoolInv, Alike, Kept, Resembles, Whole, Shows
<1>9. CloserOk'
  <2>1. closer.gens \subseteq Browsers /\ (closer.startup # 0 => closer.startup \in Browsers)
    BY <1>2, PoolAssumption DEF PoolTypes, CloserRows, Numbers, Browsers
  <2>2. \A x \in Browsers : (bro'[x].early <=> bro[x].early) /\ (bro[x].fin <=> bro'[x].fin) /\ (bro[x].done <=> bro'[x].done)
    BY <1>2 DEF Resembles
  <2> QED
    BY <1>1, <2>1, <2>2 DEF CloserOk, PoolInv
<1>10. ASSUME NEW x \in Browsers PROVE BrowserOk(x)'
  <2>1. TornDown(bro'[x]) <=> TornDown(bro[x])
    BY <1>2, <1>5 DEF Resembles, TornDown, Clean
  <2>2. x > pool.made => x \notin gens
    <3>1. x \in Int /\ pool.made \in Int
      BY Sizes DEF PoolInv, PoolTypes
    <3> QED
      BY <3>1 DEF PoolInv, CloserOk
  <2>3. x > pool.made => (Unmade(bro'[x]) <=> Unmade(bro[x]))
    BY <1>2, <1>4, <2>2 DEF Resembles, Unmade
  <2> QED
    BY <1>1, <1>2, <1>5, <2>1, <2>3 DEF BrowserOk, PoolInv, Resembles
<1> QED
  BY <1>1, <1>3, <1>6, <1>7, <1>8, <1>9, <1>10 DEF PoolInv

\* A capture moves on.
LEMMA Goes ==
    ASSUME PoolInv, NEW c \in Captures, NEW pc \in CapPcs, Go(c, pc)
    PROVE  \E w \in CapRows : cap' = [cap EXCEPT ![c] = w] /\ w.pc = pc /\ w.b = cap[c].b
<1>1. PICK q \in CapRows : q = cap[c]
  BY DEF PoolInv, PoolTypes
<1>2. cap' = [cap EXCEPT ![c] = [q EXCEPT !.pc = pc]]
  BY <1>1 DEF Go
<1>3. [q EXCEPT !.pc = pc] \in CapRows /\ [q EXCEPT !.pc = pc].pc = pc /\ [q EXCEPT !.pc = pc].b = q.b
  BY DEF CapRows
<1> QED
  BY <1>1, <1>2, <1>3

\* A capture with a browser: what the invariant says of the two.
LEMMA Holds ==
    ASSUME PoolInv, NEW c \in Captures, cap[c].pc \in StartPcs \cup HeldPcs \cup {"stale"}
    PROVE  /\ cap[c].b \in Browsers /\ cap[c].b <= pool.made /\ cap[c].b # 0 /\ Mine(c) \in BroRows /\ TornDown(Mine(c))
           /\ cap[c].pc \notin {"idle", "end"} /\ pool.slot = c /\ CapOk(c) /\ pool \in PoolRows
           /\ pool.starting # 0 => cap[c].pc \in StartPcs
           /\ cap[c].pc \in HeldPcs => Mine(c).early \/ Left(Mine(c)) \/ cap[c].b \in gens
<1>1. CapOk(c) /\ cap[c].pc \notin {"idle", "end"}
  BY DEF PoolInv, StartPcs, HeldPcs
<1>2. cap[c].b \in Browsers /\ cap[c].b <= pool.made /\ cap[c].b # 0 /\ pool.slot = c
  BY <1>1 DEF CapOk, Browsers
<1>3. BrowserOk(cap[c].b) /\ Mine(c) = bro[cap[c].b]
  BY <1>2 DEF PoolInv, Mine
<1>4. Mine(c) \in BroRows /\ pool \in PoolRows
  BY <1>2 DEF PoolInv, PoolTypes, Mine
<1>5. ASSUME NEW d \in Captures, cap[d].pc \in StartPcs \cup {"stale"}, cap[c].pc \notin StartPcs \cup {"stale"} PROVE FALSE
  BY <1>1, <1>5, Alone DEF StartPcs
<1>6. pool.starting # 0 => cap[c].pc \in StartPcs
  BY <1>1, Alone DEF PoolInv, Started, StartPcs
<1>7. cap[c].pc \in HeldPcs => cap[c].pc \notin StartPcs \cup {"stale"}
  BY DEF HeldPcs, StartPcs
<1> QED
  BY <1>1, <1>2, <1>3, <1>4, <1>5, <1>6, <1>7 DEF BrowserOk

\* A startup moves on.
LEMMA Starts ==
    ASSUME PoolInv, UNCHANGED <<po, pool, gens, closer>>, spare' \in Spares,
           NEW c \in Captures, cap[c].pc \in StartPcs, NEW pc \in StartPcs, Go(c, pc),
           NEW s \in BroRows, SetMine(c, s), s.early = Mine(c).early, StartOk(pc, s, pool.closed)
    PROVE  PoolInv'
<1>1. PICK w \in CapRows : cap' = [cap EXCEPT ![c] = w] /\ w.pc = pc /\ w.b = cap[c].b
  BY Goes DEF StartPcs, CapPcs
<1>2. /\ w.b \in Browsers /\ w.b <= pool.made /\ Mine(c) \in BroRows /\ Mine(c) = bro[w.b]
      /\ cap[c].pc \notin {"idle", "end"} /\ pool.slot = c /\ CapOk(c) /\ pool \in PoolRows
  BY <1>1, Holds DEF Mine
<1>3. /\ pool.starting = w.b /\ w.b \notin gens /\ pool.current = 0 /\ (pool.closed => w.b = closer.startup)
      /\ StartOk(cap[c].pc, bro[w.b], pool.closed) /\ ~bro[w.b].done /\ ~bro[w.b].fin
  BY <1>1, <1>2 DEF CapOk, StartOk, Untouched
<1>4. TornDown(s) /\ ~s.done
  BY DEF StartOk, Untouched, TornDown
<1>5. bro' = [bro EXCEPT ![w.b] = s]
  BY <1>1 DEF SetMine
<1>6. CurrentOk'
  BY <1>3 DEF CurrentOk
<1>7. pc \notin HeldPcs /\ pc # "stale" /\ pc \notin {"idle", "end"}
  BY DEF HeldPcs, StartPcs
<1>8. gens \in SUBSET Browsers /\ pool.made \in Int
  BY PoolAssumption DEF PoolInv, PoolTypes, PoolRows, Numbers
<1>9. pool.made >= pool.made
  BY <1>8
<1> QED
  BY <1>1, <1>2, <1>3, <1>4, <1>5, <1>6, <1>7, <1>8, <1>9, Turn

\* What a startup does, up to the browser that it hands over or to its failure.
LEMMA StartStep ==
    ASSUME PoolInv, NEW c \in Captures,
           \/ newCaptureProxy(c) \/ startBrowserGeneration(c) \/ checkContext(c) \/ launch(c) \/ launchBrowserWithCleanup(c)
    PROVE  PoolInv'
<1> DEFINE r == Mine(c)
<1>1. cap[c].pc \in StartPcs /\ UNCHANGED <<po, pool, gens, closer>>
  BY DEF newCaptureProxy, startBrowserGeneration, checkContext, launch, launchBrowserWithCleanup, InCap, StartPcs
<1>2. r \in BroRows /\ StartOk(cap[c].pc, r, pool.closed) /\ cap[c].b \in Browsers
  BY <1>1, Holds DEF CapOk, Mine
<1>3. PICK q \in BroRows : q = r
  BY <1>2
<1>4. StartOk(cap[c].pc, q, pool.closed) /\ q.early = Mine(c).early
  BY <1>2, <1>3
<1>5. spare \in Spares /\ Mine(c) = bro[cap[c].b]
  BY DEF PoolInv, PoolTypes, Mine
<1> HIDE DEF r
<1>6. ASSUME NEW t \in BroRows, Fails(c, hardStopStartup(t)), Kept(q, t), Untouched(t),
             t.refs = 0, t.once => t.early \/ Left(t), ~t.once => t.known
      PROVE  PoolInv'
  <2>1. PICK s \in hardStopStartup(t) : bro' = [bro EXCEPT ![cap[c].b] = s] /\ spare' \in Spares
    BY <1>2, <1>6, Becomes DEF Fails
  <2>2. /\ s \in BroRows /\ Kept(t, s) /\ s.once /\ s.stopping = t.stopping /\ s.cleaned = t.cleaned
        /\ s.fin = t.fin /\ s.stop = t.stop /\ s.proc \in {t.proc, "none"}
        /\ (t.once => s = t) /\ (~t.once /\ t.known => Left(s))
    BY <2>1, StartupRow
  <2>3. StartOk("failed", s, pool.closed)
    BY <1>4, <1>6, <2>2 DEF StartOk, Untouched, Kept
  <2>4. SetMine(c, s) /\ s.early = Mine(c).early /\ Go(c, "failed")
    BY <1>4, <1>6, <2>1, <2>2 DEF SetMine, Kept, Fails
  <2> QED
    BY <1>1, <2>1, <2>2, <2>3, <2>4, Starts DEF StartPcs
<1>7. CASE newCaptureProxy(c)
  <2>1. cap[c].pc = "proxy"
    BY <1>7 DEF newCaptureProxy, InCap
  <2>2. CASE Go(c, "store") /\ SetMine(c, [r EXCEPT !.proxy = TRUE]) /\ spare' = spare
    <3>1. PICK s : s = [q EXCEPT !.proxy = TRUE]
      OBVIOUS
    <3>2. s \in BroRows /\ s.early = q.early /\ StartOk("store", s, pool.closed)
      BY <1>4, <2>1, <3>1 DEF StartOk, Untouched, BroRows
    <3> QED
      BY <1>1, <1>3, <1>4, <1>5, <2>2, <3>1, <3>2, Starts DEF StartPcs
  <2>3. CASE Pay("faults") /\ Go(c, "failed") /\ bro' = bro
    <3>1. spare' \in Spares
      BY <2>3, SpareStays
    <3>2. SetMine(c, q)
      BY <1>2, <1>3, <1>5, <2>3 DEF SetMine, PoolInv, PoolTypes, r
    <3>3. StartOk("failed", q, pool.closed)
      BY <1>4, <2>1 DEF StartOk, Untouched, Left, Clean
    <3> QED
      BY <1>1, <1>4, <2>3, <3>1, <3>2, <3>3, Starts DEF StartPcs
  <2> QED
    BY <1>7, <2>2, <2>3 DEF newCaptureProxy, r
<1>8. CASE startBrowserGeneration(c)
  <2>1. cap[c].pc = "store" /\ Go(c, "ctx") /\ SetMine(c, [r EXCEPT !.known = TRUE]) /\ spare' = spare
    BY <1>8 DEF startBrowserGeneration, InCap, r
  <2>2. PICK s : s = [q EXCEPT !.known = TRUE]
    OBVIOUS
  <2>3. s \in BroRows /\ s.early = q.early /\ StartOk("ctx", s, pool.closed)
    BY <1>4, <2>1, <2>2 DEF StartOk, Untouched, BroRows
  <2> QED
    BY <1>1, <1>3, <1>4, <1>5, <2>1, <2>2, <2>3, Starts DEF StartPcs
<1>9. CASE checkContext(c)
  <2>1. cap[c].pc = "ctx"
    BY <1>9 DEF checkContext, InCap
  <2>2. CASE Fails(c, hardStopStartup(r))
    <3>1. Kept(q, q) /\ Untouched(q) /\ q.refs = 0 /\ (q.once => q.early \/ Left(q)) /\ (~q.once => q.known)
      BY <1>4, <2>1 DEF StartOk, Kept
    <3> QED
      BY <1>3, <1>6, <2>2, <3>1
  <2>3. CASE Go(c, "launch") /\ UNCHANGED <<bro, spare>>
    <3>1. SetMine(c, q)
      BY <1>2, <1>3, <1>5, <2>3 DEF SetMine, PoolInv, PoolTypes, r
    <3>2. StartOk("launch", q, pool.closed)
      BY <1>4, <2>1 DEF StartOk
    <3> QED
      BY <1>1, <1>4, <1>5, <2>3, <3>1, <3>2, Starts DEF StartPcs
  <2> QED
    BY <1>9, <2>2, <2>3 DEF checkContext, r
<1>10. CASE launch(c)
  <2>1. cap[c].pc = "launch"
    BY <1>10 DEF launch, InCap
  <2>2. CASE SetMine(c, [r EXCEPT !.proc = "up", !.profile = TRUE]) /\ Go(c, "connect") /\ spare' = spare
    <3>1. PICK s : s = [q EXCEPT !.proc = "up", !.profile = TRUE]
      OBVIOUS
    <3>2. s \in BroRows /\ s.early = q.early /\ StartOk("connect", s, pool.closed)
      BY <1>4, <2>1, <3>1 DEF StartOk, Untouched, BroRows
    <3> QED
      BY <1>1, <1>3, <1>4, <1>5, <2>2, <3>1, <3>2, Starts DEF StartPcs
  <2>3. CASE Fails(c, hardStopStartup([r EXCEPT !.profile = TRUE]))
    <3>1. PICK s : s = [q EXCEPT !.profile = TRUE]
      OBVIOUS
    <3>2. s \in BroRows /\ Kept(q, s) /\ Untouched(s) /\ s.refs = 0 /\ (s.once => s.early \/ Left(s)) /\ (~s.once => s.known)
      BY <1>4, <2>1, <3>1 DEF StartOk, Kept, BroRows, Untouched
    <3> QED
      BY <1>3, <1>6, <2>3, <3>1, <3>2
  <2> QED
    BY <1>10, <2>2, <2>3 DEF launch, r
<1>11. CASE launchBrowserWithCleanup(c)
  <2>1. cap[c].pc = "connect"
    BY <1>11 DEF launchBrowserWithCleanup, InCap
  <2>2. CASE SetMine(c, [r EXCEPT !.refs = 1]) /\ Go(c, "adopt") /\ spare' = spare
    <3>1. PICK s : s = [q EXCEPT !.refs = 1]
      OBVIOUS
    <3>2. s \in BroRows /\ s.early = q.early /\ StartOk("adopt", s, pool.closed)
      BY <1>4, <2>1, <3>1 DEF StartOk, Untouched, BroRows, Left, Clean
    <3> QED
      BY <1>1, <1>3, <1>4, <1>5, <2>2, <3>1, <3>2, Starts DEF StartPcs
  <2>3. CASE Fails(c, hardStopStartup(r))
    <3>1. Kept(q, q) /\ Untouched(q) /\ q.refs = 0 /\ (q.once => q.early \/ Left(q)) /\ (~q.once => q.known)
      BY <1>4, <2>1 DEF StartOk, Kept
    <3> QED
      BY <1>3, <1>6, <2>3, <3>1
  <2> QED
    BY <1>11, <2>2, <2>3 DEF launchBrowserWithCleanup, r
<1> QED
  BY <1>7, <1>8, <1>9, <1>10, <1>11

\* A startup that failed gives its slot back.
LEMMA StartFailsStep ==
    ASSUME PoolInv, NEW c \in Captures, startFails(c)
    PROVE  PoolInv'
<1>1. /\ cap[c].pc = "failed" /\ SetMine(c, [Mine(c) EXCEPT !.done = TRUE])
      /\ pool' = [pool EXCEPT !.starting = 0, !.slot = 0] /\ Go(c, "end") /\ UNCHANGED <<po, gens, closer, spare>>
  BY DEF startFails, InCap
<1>2. PICK w \in CapRows : cap' = [cap EXCEPT ![c] = w] /\ w.pc = "end" /\ w.b = cap[c].b
  BY <1>1, Goes DEF CapPcs
<1>3. /\ w.b \in Browsers /\ w.b <= pool.made /\ Mine(c) \in BroRows /\ Mine(c) = bro[w.b]
      /\ cap[c].pc \notin {"idle", "end"} /\ CapOk(c) /\ pool \in PoolRows
  BY <1>1, <1>2, Holds DEF Mine, StartPcs
<1>4. PICK q \in BroRows, o \in PoolRows : q = Mine(c) /\ o = pool
  BY <1>3
<1>5. StartOk("failed", q, o.closed) /\ o.current = 0
  BY <1>1, <1>3, <1>4 DEF CapOk, StartPcs, Mine
<1>6. PICK s, p : s = [q EXCEPT !.done = TRUE] /\ p = [o EXCEPT !.starting = 0, !.slot = 0]
  OBVIOUS
<1>7. /\ s \in BroRows /\ s.early = q.early /\ s.done /\ (s.early \/ Left(s)) /\ TornDown(s) /\ ~q.fin
  BY <1>5, <1>6 DEF StartOk, Untouched, BroRows, Left, Clean, TornDown
<1>8. /\ p \in PoolRows /\ p.closed = o.closed /\ p.made = o.made /\ p.starting = 0 /\ p.current = 0
      /\ o.made \in Int
  BY <1>5, <1>6, Sizes DEF PoolRows
<1>9. bro' = [bro EXCEPT ![w.b] = s] /\ pool' = p /\ p.made >= pool.made
  BY <1>1, <1>2, <1>4, <1>6, <1>8 DEF SetMine
<1>10. CurrentOk'
  BY <1>8, <1>9 DEF CurrentOk
<1>11. gens \in SUBSET Browsers /\ spare \in Spares
  BY DEF PoolInv, PoolTypes
<1>12. "end" \notin StartPcs \cup HeldPcs \cup {"stale"}
  BY DEF StartPcs, HeldPcs
<1> QED
  BY <1>1, <1>2, <1>3, <1>4, <1>7, <1>8, <1>9, <1>10, <1>11, <1>12, Turn

\* A browser that started is the pool's, unless Close came first.
LEMMA AdoptStep ==
    ASSUME PoolInv, NEW c \in Captures, adoptStartedBrowser(c)
    PROVE  PoolInv'
<1>1. cap[c].pc = "adopt" /\ UNCHANGED <<po, closer, spare>>
  BY DEF adoptStartedBrowser, InCap
<1>2. /\ cap[c].b \in Browsers /\ cap[c].b <= pool.made /\ cap[c].b # 0 /\ Mine(c) \in BroRows /\ Mine(c) = bro[cap[c].b]
      /\ cap[c].pc \notin {"idle", "end"} /\ pool.slot = c /\ CapOk(c) /\ pool \in PoolRows
  BY <1>1, Holds DEF Mine, StartPcs
<1>3. PICK q \in BroRows, o \in PoolRows : q = Mine(c) /\ o = pool
  BY <1>2
<1>4. /\ StartOk("adopt", q, o.closed) /\ o.current = 0 /\ o.starting = cap[c].b /\ cap[c].b \notin gens /\ ~q.done
      /\ (o.closed => cap[c].b = closer.startup)
  BY <1>1, <1>2, <1>3 DEF CapOk, StartPcs, Mine
<1>5. gens \in SUBSET Browsers /\ spare \in Spares /\ CloserOk
  BY DEF PoolInv, PoolTypes
<1>6. Stale <=> o.closed
  BY <1>3, <1>4 DEF Stale
<1>7. CASE o.closed
  <2>1. PICK w \in CapRows : cap' = [cap EXCEPT ![c] = w] /\ w.pc = "stale" /\ w.b = cap[c].b
    BY <1>6, <1>7, Goes DEF CapPcs, adoptStartedBrowser
  <2>2. PICK s, p : /\ s = [q EXCEPT !.refs = 0, !.retired = TRUE, !.stopping = TRUE, !.stop = "begin"]
                    /\ p = [o EXCEPT !.starting = 0]
    OBVIOUS
  <2>3. s \in BroRows /\ s.early = q.early /\ ~s.done /\ s.refs = 0 /\ TornDown(s) /\ ~q.fin
    BY <1>4, <2>2, ZenonT(60) DEF StartOk, Untouched, BroRows, TornDown
  <2>4. /\ p \in PoolRows /\ p.closed = o.closed /\ p.made = o.made /\ p.starting = 0 /\ p.current = 0 /\ p.slot = o.slot
        /\ o.made \in Int
    BY <1>4, <2>2, Sizes DEF PoolRows
  <2>5. bro' = [bro EXCEPT ![w.b] = s] /\ pool' = p /\ gens' = gens /\ p.made >= pool.made
    BY <1>3, <1>6, <1>7, <2>1, <2>2, <2>4 DEF SetMine, adoptStartedBrowser
  <2>6. CurrentOk'
    BY <2>4, <2>5 DEF CurrentOk
  <2>7. "stale" \notin StartPcs \cup HeldPcs
    BY DEF StartPcs, HeldPcs
  <2>8. /\ w.b \in Browsers /\ w.b <= p.made /\ p.slot = c /\ p.closed = pool.closed /\ pool.closed
        /\ s.early = bro[w.b].early /\ ~bro[w.b].fin /\ ~bro[w.b].done /\ w.b = closer.startup
        /\ gens \subseteq gens' /\ gens' \subseteq gens \cup {w.b} /\ gens' \in SUBSET Browsers
    BY <1>2, <1>3, <1>4, <1>5, <1>7, <2>1, <2>3, <2>4, <2>5
  <2> QED
    BY <1>1, <1>2, <1>5, <2>1, <2>3, <2>4, <2>5, <2>6, <2>7, <2>8, Turn
<1>8. CASE ~o.closed
  <2>1. PICK w \in CapRows : cap' = [cap EXCEPT ![c] = w] /\ w.pc = "check" /\ w.b = cap[c].b
    BY <1>6, <1>8, Goes DEF CapPcs, adoptStartedBrowser
  <2>2. PICK s, p : s = [q EXCEPT !.known = FALSE, !.done = TRUE] /\ p = [o EXCEPT !.starting = 0, !.current = cap[c].b]
    OBVIOUS
  <2>3. /\ s \in BroRows /\ s.early = q.early /\ TornDown(s) /\ ~q.fin /\ HeldOk("check", s, o.closed)
        /\ ~s.retired /\ Shows(s) /\ ~s.fin /\ s.refs = 1
    BY <1>4, <1>8, <2>2 DEF StartOk, Untouched, BroRows, TornDown, HeldOk, Whole, Shows
  <2>4. /\ p \in PoolRows /\ p.closed = o.closed /\ p.made = o.made /\ p.starting = 0 /\ p.current = cap[c].b
        /\ p.slot = o.slot /\ o.made \in Int
    BY <1>2, <2>2, Sizes DEF PoolRows
  <2>5. bro' = [bro EXCEPT ![w.b] = s] /\ pool' = p /\ gens' = gens \cup {w.b} /\ p.made >= pool.made
    BY <1>3, <1>6, <1>8, <2>1, <2>2, <2>4 DEF SetMine, adoptStartedBrowser
  <2>6. bro'[w.b] = s /\ cap'[c] = w /\ Captures' = Captures
    BY <1>1, <1>2, <2>1, <2>5 DEF PoolInv, PoolTypes, Captures
  <2>7. "check" \in HeldPcs /\ "check" \notin StartPcs \cup {"stale"}
    BY DEF StartPcs, HeldPcs
  <2>8. CurrentOk'
    <3>1. pool'.current = w.b /\ ~pool'.closed /\ w.b \in gens'
      BY <1>8, <2>1, <2>4, <2>5
    <3>2. Whole(s) /\ ~s.stopping /\ s.stop = "none"
      BY <1>8, <2>3 DEF HeldOk
    <3>3. cap'[c].pc \in HeldPcs /\ cap'[c].b = w.b
      BY <2>1, <2>6, <2>7
    <3> QED
      BY <2>3, <2>6, <3>1, <3>2, <3>3 DEF CurrentOk
  <2>9. /\ w.b \in Browsers /\ w.b <= p.made /\ p.slot = c /\ p.closed = pool.closed /\ ~pool.closed /\ p.current = w.b
        /\ s.early = bro[w.b].early /\ ~bro[w.b].fin /\ ~bro[w.b].done /\ w.b \in gens'
        /\ gens \subseteq gens' /\ gens' \subseteq gens \cup {w.b} /\ gens' \in SUBSET Browsers
        /\ HeldOk(w.pc, s, p.closed) /\ w.pc \notin StartPcs \cup {"stale"} /\ w.pc # "stale" /\ w.pc \notin StartPcs
    BY <1>2, <1>3, <1>4, <1>5, <1>8, <2>1, <2>3, <2>4, <2>5, <2>7
  <2> QED
    BY <1>1, <1>2, <1>5, <2>1, <2>3, <2>4, <2>5, <2>8, <2>9, Turn
<1> QED
  BY <1>7, <1>8

\* A startup that came too late was torn down.
LEMMA StaleStep ==
    ASSUME PoolInv, NEW c \in Captures, launchOwnedBrowser(c)
    PROVE  PoolInv'
<1>1. /\ cap[c].pc = "stale" /\ Mine(c).fin /\ SetMine(c, [Mine(c) EXCEPT !.done = TRUE])
      /\ pool' = [pool EXCEPT !.slot = 0] /\ Go(c, "end") /\ UNCHANGED <<po, gens, closer, spare>>
  BY DEF launchOwnedBrowser, InCap
<1>2. PICK w \in CapRows : cap' = [cap EXCEPT ![c] = w] /\ w.pc = "end" /\ w.b = cap[c].b
  BY <1>1, Goes DEF CapPcs
<1>3. /\ w.b \in Browsers /\ w.b <= pool.made /\ Mine(c) \in BroRows /\ Mine(c) = bro[w.b] /\ TornDown(Mine(c))
      /\ cap[c].pc \notin {"idle", "end"} /\ CapOk(c) /\ pool \in PoolRows /\ (pool.starting # 0 => cap[c].pc \in StartPcs)
  BY <1>1, <1>2, Holds DEF Mine
<1>4. PICK q \in BroRows, o \in PoolRows : q = Mine(c) /\ o = pool
  BY <1>3
<1>5. o.current = 0 /\ o.starting = 0
  BY <1>1, <1>3, <1>4 DEF CapOk, PoolInv, CurrentOk, StartPcs
<1>6. PICK s, p : s = [q EXCEPT !.done = TRUE] /\ p = [o EXCEPT !.slot = 0]
  OBVIOUS
<1>7. s \in BroRows /\ s.early = q.early /\ s.done /\ Left(s) /\ TornDown(s) /\ s.fin
  BY <1>1, <1>3, <1>4, <1>6 DEF BroRows, Left, Clean, TornDown
<1>8. /\ p \in PoolRows /\ p.closed = o.closed /\ p.made = o.made /\ p.starting = 0 /\ p.current = 0
      /\ o.made \in Int
  BY <1>5, <1>6, Sizes DEF PoolRows
<1>9. bro' = [bro EXCEPT ![w.b] = s] /\ pool' = p /\ p.made >= pool.made
  BY <1>1, <1>2, <1>4, <1>6, <1>8 DEF SetMine
<1>10. CurrentOk'
  BY <1>8, <1>9 DEF CurrentOk
<1>11. gens \in SUBSET Browsers /\ spare \in Spares
  BY DEF PoolInv, PoolTypes
<1>12. "end" \notin StartPcs \cup HeldPcs \cup {"stale"}
  BY DEF StartPcs, HeldPcs
<1>13. /\ w.b <= p.made /\ p.closed = pool.closed /\ s.early = bro[w.b].early
       /\ gens \subseteq gens' /\ gens' \subseteq gens \cup {w.b} /\ gens' \in SUBSET Browsers
  BY <1>1, <1>3, <1>4, <1>7, <1>8, <1>9, <1>11
<1> QED
  BY <1>1, <1>2, <1>3, <1>7, <1>8, <1>9, <1>10, <1>11, <1>12, <1>13, Turn, ZenonT(60)

\* The slot, and a browser for who has it: the running one, or the next.
LEMMA ClaimsStep ==
    ASSUME PoolInv, NEW c \in Captures, acquireSlot(c) \/ claimBrowserOrWait(c)
    PROVE  PoolInv'
<1>1. PICK o \in PoolRows : o = pool
  BY DEF PoolInv, PoolTypes
<1>2. /\ gens \in SUBSET Browsers /\ spare \in Spares /\ CloserOk /\ CapOk(c) /\ CurrentOk /\ c # 0 /\ 0 \in Numbers
      /\ \A s \in 0..po.captures : [o EXCEPT !.slot = s] \in PoolRows
      /\ po.browsers \in Nat
  BY Sizes DEF PoolInv, PoolTypes, PoolRows
<1>3. UNCHANGED <<po, gens, closer, spare>>
  BY DEF acquireSlot, claimBrowserOrWait
<1>4. CASE acquireSlot(c)
  <2>1. cap[c].pc = "idle" /\ bro' = bro
    BY <1>4 DEF acquireSlot, InCap
  <2>2. CASE pool.slot = 0 /\ pool' = [pool EXCEPT !.slot = c] /\ Go(c, "claim")
    <3>1. PICK w \in CapRows : cap' = [cap EXCEPT ![c] = w] /\ w.pc = "claim" /\ w.b = cap[c].b
      BY <2>2, Goes DEF CapPcs
    <3>2. PICK p : p = [o EXCEPT !.slot = c]
      OBVIOUS
    <3>3. p \in PoolRows /\ p.current = o.current /\ p.starting = o.starting /\ p.closed = o.closed /\ p.made = o.made /\ p.slot = c
      BY <3>2 DEF PoolRows, Captures
    <3> QED
      BY <1>1, <1>2, <1>3, <2>1, <2>2, <3>1, <3>2, <3>3, Passes
  <2>3. CASE Go(c, "end") /\ pool' = pool
    <3>1. PICK w \in CapRows : cap' = [cap EXCEPT ![c] = w] /\ w.pc = "end" /\ w.b = cap[c].b
      BY <2>3, Goes DEF CapPcs
    <3> QED
      BY <1>1, <1>2, <1>3, <2>1, <2>3, <3>1, Passes
  <2> QED
    BY <1>4, <2>2, <2>3 DEF acquireSlot
<1>5. CASE claimBrowserOrWait(c)
  <2>1. cap[c].pc = "claim" /\ pool.slot = c /\ (\A d \in Captures : d # c => cap[d].pc \in {"idle", "end"})
    BY <1>2, <1>5, Alone DEF claimBrowserOrWait, InCap, CapOk
  <2>2. pool.starting = 0
    BY <2>1 DEF PoolInv, Started, StartPcs
  <2>3. CASE Go(c, "end") /\ pool' = [pool EXCEPT !.slot = 0] /\ bro' = bro
    <3>1. PICK w \in CapRows : cap' = [cap EXCEPT ![c] = w] /\ w.pc = "end" /\ w.b = cap[c].b
      BY <2>3, Goes DEF CapPcs
    <3>2. PICK p : p = [o EXCEPT !.slot = 0]
      OBVIOUS
    <3>3. p \in PoolRows /\ p.current = o.current /\ p.starting = o.starting /\ p.closed = o.closed /\ p.made = o.made
      BY <1>2, <3>2, Sizes DEF PoolRows
    <3>4. UNCHANGED <<po, bro, gens, closer>> /\ spare' \in Spares /\ cap[c].pc \in {"idle", "claim"}
      BY <1>2, <1>3, <2>1, <2>3
    <3>5. /\ w.pc \in {"claim", "end"} /\ pool' = p /\ p.current = pool.current /\ p.starting = pool.starting
          /\ p.closed = pool.closed /\ p.made = pool.made
          /\ (p.slot = pool.slot /\ w.pc = "end") \/ (pool.slot = c /\ w.pc = "end") \/ (pool.slot = 0 /\ p.slot = c)
      BY <1>1, <2>1, <2>3, <3>1, <3>2, <3>3
    <3> QED
      BY <3>1, <3>3, <3>4, <3>5, Passes
  <2>4. CASE /\ ~pool.closed /\ pool.current # 0
             /\ cap' = [cap EXCEPT ![c] = [pc |-> "check", b |-> pool.current]]
             /\ bro' = [bro EXCEPT ![pool.current].refs = @ + 1] /\ pool' = pool
    <3>1. PICK b \in Browsers : b = pool.current
      BY <1>2, <2>4 DEF CurrentOk
    <3>2. PICK q \in BroRows : q = bro[b]
      BY DEF PoolInv, PoolTypes
    <3>3. /\ b \in gens /\ Whole(q) /\ ~q.retired /\ ~q.stopping /\ q.stop = "none" /\ Shows(q) /\ ~q.fin /\ TornDown(q)
          /\ b <= pool.made
      BY <1>2, <2>4, <3>1, <3>2 DEF CurrentOk, CloserOk, PoolInv, BrowserOk
    <3>4. q.refs = 0
      BY <1>2, <2>1, <2>4, <3>1, <3>2 DEF CurrentOk, HeldPcs, BroRows
    <3>5. PICK w, s : w = [pc |-> "check", b |-> b] /\ s = [q EXCEPT !.refs = 1]
      OBVIOUS
    <3>6. w \in CapRows /\ w.pc = "check" /\ w.b = b
      BY <1>2, <3>5 DEF CapRows, CapPcs, Numbers, Browsers
    <3>7. /\ s \in BroRows /\ s.early = q.early /\ (s.done <=> q.done) /\ (s.fin <=> q.fin) /\ TornDown(s) /\ HeldOk("check", s, o.closed)
          /\ Whole(s) /\ ~s.retired /\ ~s.stopping /\ s.stop = "none" /\ Shows(s) /\ ~s.fin
      BY <3>3, <3>4, <3>5 DEF BroRows, TornDown, HeldOk, Whole, Left, Clean, Shows
    <3>8. bro' = [bro EXCEPT ![b] = s] /\ cap' = [cap EXCEPT ![c] = w]
      BY <2>4, <3>1, <3>2, <3>4, <3>5
    <3>9. bro'[b] = s /\ cap'[c] = w /\ Captures' = Captures
      BY <1>3, <3>8 DEF PoolInv, PoolTypes, Captures
    <3>10. "check" \in HeldPcs /\ "check" \notin StartPcs \cup {"stale"} /\ "claim" \notin StartPcs \cup {"stale"}
      BY DEF StartPcs, HeldPcs
    <3>11. CurrentOk'
      BY <1>3, <2>4, <3>1, <3>3, <3>6, <3>7, <3>9, <3>10 DEF CurrentOk
    <3>12. o.made >= o.made
      BY <1>2 DEF PoolRows, Numbers
    <3> QED
      <4>1. /\ w.b \in Browsers /\ w.b <= o.made /\ o.slot = c /\ ~o.closed /\ o.current = w.b /\ o.starting = 0
            /\ s.early = bro[w.b].early /\ (bro[w.b].fin => s.fin) /\ (bro[w.b].done => s.done) /\ w.b \in gens'
            /\ gens \subseteq gens' /\ gens' \subseteq gens \cup {w.b} /\ gens' \in SUBSET Browsers /\ gens' = gens
            /\ HeldOk(w.pc, s, o.closed) /\ pool' = o /\ o.closed = pool.closed /\ o.made >= pool.made
            /\ cap[c].pc \notin {"idle", "end"} /\ cap[c].pc \notin StartPcs \cup {"stale"}
            /\ w.pc \notin StartPcs \cup {"stale"} /\ w.pc # "stale" /\ w.pc \notin StartPcs
        BY <1>1, <1>2, <1>3, <2>1, <2>2, <2>4, <3>1, <3>2, <3>3, <3>6, <3>7, <3>10, <3>12
      <4>2. bro' = [bro EXCEPT ![w.b] = s] /\ UNCHANGED <<po, closer>> /\ spare' \in Spares
        BY <1>2, <1>3, <3>6, <3>8
      <4> QED
        BY <1>1, <3>6, <3>7, <3>8, <3>11, <4>1, <4>2, Turn
  <2>5. CASE /\ ~pool.closed /\ pool.current = 0 /\ pool.made < po.browsers
             /\ cap' = [cap EXCEPT ![c] = [pc |-> "proxy", b |-> pool.made + 1]]
             /\ pool' = [pool EXCEPT !.starting = pool.made + 1, !.made = @ + 1] /\ bro' = bro
    <3>1. PICK b : b = o.made + 1
      OBVIOUS
    <3>2. b \in Browsers /\ b \in Numbers /\ b > o.made /\ b # 0
      BY <1>1, <1>2, <2>5, <3>1 DEF PoolRows, Numbers, Browsers
    <3>3. PICK s \in BroRows : s = bro[b]
      BY <3>2 DEF PoolInv, PoolTypes
    <3>4. Unmade(s) /\ TornDown(s) /\ b \notin gens
      BY <1>1, <1>2, <3>2, <3>3 DEF PoolInv, BrowserOk, CloserOk, Browsers, PoolRows, Numbers
    <3>5. PICK w, p : w = [pc |-> "proxy", b |-> b] /\ p = [o EXCEPT !.starting = b, !.made = b]
      OBVIOUS
    <3>6. w \in CapRows /\ w.pc = "proxy" /\ w.b = b
      BY <3>2, <3>5 DEF CapRows, CapPcs
    <3>7. /\ p \in PoolRows /\ p.current = o.current /\ p.starting = b /\ p.closed = o.closed /\ p.made = b /\ p.slot = o.slot
          /\ b >= o.made /\ b <= b
      <4>1. b \in Int /\ o.made \in Int
        BY <3>2, Sizes
      <4>2. b >= o.made /\ b <= b
        BY <3>2, <4>1
      <4> QED
        BY <3>2, <3>5, <4>2 DEF PoolRows
    <3>8. bro' = [bro EXCEPT ![b] = s] /\ cap' = [cap EXCEPT ![c] = w] /\ pool' = p
      BY <1>1, <2>5, <3>1, <3>2, <3>3, <3>5 DEF PoolInv, PoolTypes
    <3>9. StartOk("proxy", s, p.closed)
      BY <3>4 DEF StartOk, Unmade
    <3>10. "proxy" \notin HeldPcs /\ "proxy" \in StartPcs /\ "claim" \notin StartPcs \cup {"stale"}
      BY DEF StartPcs, HeldPcs
    <3>11. CurrentOk'
      BY <1>1, <2>5, <3>7, <3>8 DEF CurrentOk
    <3>12. ~s.done
      BY <3>4 DEF Unmade
    <3> QED
      <4>1. /\ w.b \in Browsers /\ w.b <= p.made /\ p.slot = c /\ ~p.closed /\ p.current = 0 /\ p.starting = w.b
            /\ s.early = bro[w.b].early /\ (bro[w.b].fin => s.fin) /\ (bro[w.b].done => s.done) /\ w.b \notin gens'
            /\ gens \subseteq gens' /\ gens' \subseteq gens \cup {w.b} /\ gens' \in SUBSET Browsers /\ gens' = gens
            /\ StartOk(w.pc, s, p.closed) /\ p.closed = pool.closed /\ p.made >= pool.made
            /\ cap[c].pc \notin {"idle", "end"} /\ cap[c].pc \notin StartPcs \cup {"stale"}
            /\ w.pc \in StartPcs \cup {"stale"} /\ w.pc # "stale" /\ w.pc \notin HeldPcs /\ w.pc \in StartPcs /\ ~pool.closed
        BY <1>1, <1>2, <1>3, <2>1, <2>5, <3>2, <3>3, <3>4, <3>6, <3>7, <3>8, <3>9, <3>10, <3>12
      <4>2. bro' = [bro EXCEPT ![w.b] = s] /\ UNCHANGED <<po, closer>> /\ spare' \in Spares
        BY <1>2, <1>3, <3>6, <3>8
      <4> QED
        BY <3>3, <3>4, <3>6, <3>7, <3>8, <3>11, <3>12, <4>1, <4>2, Turn
  <2> QED
    BY <1>5, <2>3, <2>4, <2>5 DEF claimBrowserOrWait
<1> QED
  BY <1>4, <1>5

\* A capture works with the browser it holds, lets go of it, or retires it; no teardown begins that it could see.
LEMMA Works ==
    ASSUME PoolInv, UNCHANGED <<po, gens, closer>>, spare' \in Spares,
           NEW c \in Captures, cap[c].pc \in HeldPcs, NEW pc \in HeldPcs \cup {"end"}, Go(c, pc),
           NEW s \in BroRows, SetMine(c, s), TornDown(s), s.early = Mine(c).early, Mine(c).fin => s.fin,
           Mine(c).done => s.done, Left(Mine(c)) => Left(s),
           NEW p \in PoolRows, pool' = p, p.closed = pool.closed, p.made = pool.made, p.starting = pool.starting,
           pc # "end" => p.slot = c /\ HeldOk(pc, s, p.closed),
           \/ p.current = 0
           \/ /\ p.current = pool.current /\ ~s.retired /\ ~s.stopping /\ s.stop = "none" /\ ~s.fin
              /\ (Whole(Mine(c)) => Whole(s)) /\ (Shows(Mine(c)) => Shows(s)) /\ (pc = "end" => s.refs = 0)
    PROVE  PoolInv'
<1>1. PICK w \in CapRows : cap' = [cap EXCEPT ![c] = w] /\ w.pc = pc /\ w.b = cap[c].b
  BY Goes DEF HeldPcs, CapPcs
<1>2. /\ w.b \in Browsers /\ w.b <= pool.made /\ Mine(c) = bro[w.b]
      /\ cap[c].pc \notin {"idle", "end"} /\ CapOk(c) /\ pool \in PoolRows /\ (pool.starting # 0 => cap[c].pc \in StartPcs)
      /\ (Mine(c).early \/ Left(Mine(c)) \/ w.b \in gens)
  BY <1>1, Holds DEF Mine
<1>3. cap[c].pc \notin StartPcs \cup {"stale"} /\ w.pc \notin StartPcs \cup {"stale"} /\ w.pc # "stale" /\ w.pc \notin StartPcs
      /\ "end" \notin HeldPcs /\ (w.pc \notin {"idle", "end"} => p.slot = c) /\ (w.pc \in HeldPcs => HeldOk(w.pc, s, p.closed))
  BY <1>1 DEF HeldPcs, StartPcs
<1>4. p.starting = 0
  BY <1>2, <1>3
<1>5. pool.current \in {0, w.b} /\ p.current \in {0, w.b}
  BY <1>1, <1>2 DEF CapOk
<1>6. bro' = [bro EXCEPT ![w.b] = s]
  BY <1>1 DEF SetMine
<1>7. bro'[w.b] = s /\ cap'[c] = w /\ Captures' = Captures
  BY <1>1, <1>2, <1>6 DEF PoolInv, PoolTypes, Captures
<1>8. CurrentOk'
  <2>1. CASE p.current = 0
    BY <2>1 DEF CurrentOk
  <2>2. CASE p.current # 0
    <3>1. /\ p.current = w.b /\ p.current = pool.current /\ ~s.retired /\ ~s.stopping /\ s.stop = "none" /\ ~s.fin
          /\ (Whole(Mine(c)) => Whole(s)) /\ (Shows(Mine(c)) => Shows(s)) /\ (pc = "end" => s.refs = 0)
      BY <1>5, <2>2
    <3>2. ~pool.closed /\ w.b \in gens /\ Whole(Mine(c)) /\ Shows(Mine(c))
      BY <1>2, <2>2, <3>1 DEF PoolInv, CurrentOk
    <3>3. s.refs = 1 => cap'[c].pc \in HeldPcs /\ cap'[c].b = p.current
      BY <1>1, <1>7, <3>1
    <3> QED
      BY <1>7, <3>1, <3>2, <3>3 DEF CurrentOk
  <2> QED
    BY <2>1, <2>2
<1>9. /\ w.b <= p.made /\ p.made >= pool.made /\ s.early = bro[w.b].early /\ (bro[w.b].fin => s.fin) /\ (bro[w.b].done => s.done)
      /\ (s.early \/ Left(s) \/ w.b \in gens')
      /\ gens \subseteq gens' /\ gens' \subseteq gens \cup {w.b} /\ gens' \in SUBSET Browsers /\ gens' = gens
  BY <1>2, Sizes DEF PoolInv, PoolTypes
<1> QED
  BY <1>1, <1>2, <1>3, <1>4, <1>5, <1>6, <1>8, <1>9, Turn

\* What a retirement makes of the browser of a capture: it is no teardown's while the capture holds it.
LEMMA Retires ==
    ASSUME PoolInv, NEW c \in Captures, cap[c].pc \in {"check", "use"}, NEW force \in BOOLEAN, NEW dirty \in BOOLEAN,
           retireBrowserGeneration(c, force, dirty), Go(c, "release"), UNCHANGED <<po, gens, closer>>, spare' \in Spares
    PROVE  PoolInv'
<1>1. cap[c].pc \in HeldPcs /\ "release" \in HeldPcs /\ "release" # "end"
  BY DEF HeldPcs
<1>2. /\ CapOk(c) /\ Mine(c) \in BroRows /\ TornDown(Mine(c)) /\ pool \in PoolRows /\ pool.slot = c /\ Mine(c) = bro[cap[c].b]
  BY <1>1, Holds DEF Mine
<1>3. PICK q \in BroRows, o \in PoolRows : q = Mine(c) /\ o = pool
  BY <1>2
<1>4. HeldOk(cap[c].pc, q, o.closed) /\ TornDown(q) /\ o.current \in {0, cap[c].b}
  BY <1>1, <1>2, <1>3 DEF CapOk
<1>0. PICK f \in BOOLEAN : f = (q.force \/ force)
  BY Zenon
<1>5. PICK s, p : /\ s = [q EXCEPT !.retired = TRUE, !.force = f, !.dirty = dirty]
                  /\ p = [o EXCEPT !.current = 0]
  BY Zenon
<1>6. /\ s \in BroRows /\ TornDown(s) /\ s.early = q.early /\ (q.fin => s.fin) /\ (q.done => s.done) /\ (Left(q) => Left(s))
      /\ HeldOk("release", s, o.closed) /\ s.refs = 1
  <2>1. s \in BroRows
    BY <1>5, ZenonT(60) DEF BroRows
  <2>2. /\ s.early = q.early /\ s.fin = q.fin /\ s.done = q.done /\ s.refs = q.refs /\ s.stopping = q.stopping
        /\ s.cleaned = q.cleaned /\ s.stop = q.stop /\ s.proc = q.proc /\ s.profile = q.profile /\ s.proxy = q.proxy
        /\ s.lost = q.lost
    BY <1>5 DEF BroRows
  <2> QED
    BY <1>4, <2>1, <2>2 DEF TornDown, HeldOk, Whole, Left, Clean
<1>7. /\ p \in PoolRows /\ p.closed = o.closed /\ p.made = o.made /\ p.starting = o.starting /\ p.slot = o.slot /\ p.current = 0
  BY <1>5, Sizes DEF PoolRows
<1>8. SetMine(c, s)
  <2>1. [Mine(c) EXCEPT !.retired = TRUE, !.force = @ \/ force, !.dirty = dirty] = s
    BY <1>0, <1>3, <1>5, Zenon
  <2>2. markBrowserStoppingLocked(s) = s
    BY <1>6 DEF markBrowserStoppingLocked
  <2> QED
    BY <2>1, <2>2, Zenon DEF retireBrowserGeneration
<1>9. pool' = p
  BY <1>3, <1>4, <1>5 DEF retireBrowserGeneration, PoolRows
<1>10. HeldOk("release", s, p.closed) /\ p.slot = c
  BY <1>2, <1>3, <1>6, <1>7
<1> QED
  BY <1>1, <1>3, <1>6, <1>7, <1>8, <1>9, <1>10, Works

\* A capture with its browser.
LEMMA HeldStep ==
    ASSUME PoolInv, NEW c \in Captures, checkBlocked(c) \/ Capture(c) \/ releaseBrowser(c)
    PROVE  PoolInv'
<1>1. cap[c].pc \in HeldPcs /\ UNCHANGED <<po, gens, closer>>
  BY DEF checkBlocked, Capture, releaseBrowser, InCap, HeldPcs
<1>2. /\ CapOk(c) /\ Mine(c) \in BroRows /\ TornDown(Mine(c)) /\ pool \in PoolRows /\ pool.slot = c /\ Mine(c) = bro[cap[c].b]
      /\ cap[c].b \in Browsers
  BY <1>1, Holds DEF Mine
<1>3. PICK q \in BroRows, o \in PoolRows : q = Mine(c) /\ o = pool
  BY <1>2
<1>4. HeldOk(cap[c].pc, q, o.closed) /\ TornDown(q) /\ o.current \in {0, cap[c].b} /\ spare \in Spares
  BY <1>1, <1>2, <1>3 DEF CapOk, PoolInv, PoolTypes
<1>5. o.current # 0 => ~q.retired /\ ~q.stopping /\ q.stop = "none" /\ ~q.fin
  BY <1>2, <1>3, <1>4 DEF PoolInv, CurrentOk
<1>6. ASSUME UNCHANGED <<bro, pool>>, spare' \in Spares, NEW pc \in {"use", "release"}, Go(c, pc), cap[c].pc \in {"check", "use"},
             pc = "use" => cap[c].pc = "check" /\ ~q.blocked
      PROVE  PoolInv'
  <2>1. SetMine(c, q)
    BY <1>2, <1>3, <1>6 DEF SetMine, PoolInv, PoolTypes
  <2>2. HeldOk(pc, q, o.closed) /\ pc \in HeldPcs /\ pc # "end"
    BY <1>4, <1>6 DEF HeldOk, HeldPcs, Shows
  <2> QED
    BY <1>1, <1>2, <1>3, <1>4, <1>5, <1>6, <2>1, <2>2, Works
<1>7. CASE checkBlocked(c)
  BY <1>1, <1>3, <1>4, <1>6, <1>7, Retires DEF checkBlocked, InCap
<1>8. CASE Capture(c)
  <2>1. cap[c].pc \in {"check", "use"} /\ Go(c, "release")
    BY <1>8 DEF Capture, InCap
  <2>2. spare' = spare \/ Pay("faults")
    BY <1>8 DEF Capture
  <2>3. spare' \in Spares
    BY <2>2, SpareStays
  <2>4. UNCHANGED <<bro, pool>> \/ \E force, dirty \in BOOLEAN : retireBrowserGeneration(c, force, dirty)
    BY <1>8 DEF Capture
  <2> QED
    BY <1>1, <1>6, <2>1, <2>3, <2>4, Retires
<1>9. CASE releaseBrowser(c)
  <2>1. /\ cap[c].pc = "release" /\ SetMine(c, markBrowserStoppingLocked([Mine(c) EXCEPT !.refs = @ - 1, !.dirty = @ \/ Mine(c).blocked]))
        /\ pool' = [pool EXCEPT !.slot = 0] /\ Go(c, "end") /\ spare' = spare
    BY <1>9 DEF releaseBrowser, InCap
  <2>10. PICK d \in BOOLEAN : d = (q.dirty \/ q.blocked)
    BY Zenon
  <2>2. PICK t, p : t = [q EXCEPT !.refs = 0, !.dirty = d] /\ p = [o EXCEPT !.slot = 0]
    OBVIOUS
  <2>3. /\ t \in BroRows /\ TornDown(t) /\ t.early = q.early /\ (t.fin <=> q.fin) /\ (t.done <=> q.done) /\ (Left(q) => Left(t))
        /\ t.refs = 0 /\ (t.retired <=> q.retired) /\ (t.stopping <=> q.stopping) /\ t.stop = q.stop /\ (Whole(q) => Whole(t))
        /\ (Shows(q) => Shows(t))
    <3>1. t \in BroRows
      BY <2>2, ZenonT(60) DEF BroRows
    <3>2. /\ t.early = q.early /\ t.fin = q.fin /\ t.done = q.done /\ t.refs = 0 /\ t.retired = q.retired
          /\ t.stopping = q.stopping /\ t.stop = q.stop /\ t.cleaned = q.cleaned /\ t.proc = q.proc
          /\ t.profile = q.profile /\ t.proxy = q.proxy /\ t.lost = q.lost /\ t.blocked = q.blocked /\ t.dirty = d
      BY <2>2 DEF BroRows
    <3> QED
      BY <1>4, <2>10, <3>1, <3>2 DEF TornDown, Whole, Left, Clean, Shows
  <2>4. PICK s : s = markBrowserStoppingLocked(t)
    OBVIOUS
  <2>5. /\ s \in BroRows /\ TornDown(s) /\ s.early = q.early /\ (q.fin => s.fin) /\ (q.done => s.done) /\ (Left(q) => Left(s))
        /\ (~q.retired => s = t)
    <3>1. CASE t.retired /\ t.refs = 0 /\ ~t.stopping
      <4>1. s = [t EXCEPT !.stopping = TRUE, !.stop = "begin"]
        BY <2>4, <3>1 DEF markBrowserStoppingLocked
      <4> QED
        BY <2>3, <3>1, <4>1, ZenonT(60) DEF BroRows, TornDown, Left, Clean
    <3>2. CASE ~(t.retired /\ t.refs = 0 /\ ~t.stopping)
      <4>1. s = t
        BY <2>4, <3>2 DEF markBrowserStoppingLocked
      <4> QED
        BY <2>3, <4>1
    <3> QED
      BY <3>1, <3>2
  <2>6. /\ p \in PoolRows /\ p.closed = o.closed /\ p.made = o.made /\ p.starting = o.starting /\ p.current = o.current
    BY <2>2, Sizes DEF PoolRows
  <2>7. t = [q EXCEPT !.refs = @ - 1, !.dirty = d]
    BY <1>4, <2>2 DEF HeldOk
  <2>8. SetMine(c, s) /\ pool' = p
    <3>1. [Mine(c) EXCEPT !.refs = @ - 1, !.dirty = @ \/ Mine(c).blocked] = t
      BY <1>3, <2>7, <2>10, Zenon
    <3>2. SetMine(c, s)
      BY <2>1, <2>4, <3>1, Zenon
    <3>3. pool' = p
      BY <1>3, <2>1, <2>2
    <3> QED
      BY <3>2, <3>3
  <2>9. \/ p.current = 0
        \/ s = t /\ p.current = pool.current /\ ~s.retired /\ ~s.stopping /\ s.stop = "none" /\ ~s.fin
    <3>1. CASE o.current = 0
      BY <2>6, <3>1
    <3>2. CASE o.current # 0
      <4>1. ~q.retired /\ ~q.stopping /\ q.stop = "none" /\ ~q.fin /\ s = t
        BY <1>5, <2>5, <3>2
      <4> QED
        BY <1>3, <2>3, <2>6, <4>1
    <3> QED
      BY <3>1, <3>2
  <2> QED
    BY <1>1, <1>3, <1>4, <2>1, <2>3, <2>5, <2>6, <2>8, <2>9, Works
<1> QED
  BY <1>7, <1>8, <1>9

\* A browser that a teardown has seen was made, and no capture is starting it.
LEMMA NotStarting ==
    ASSUME PoolInv, NEW b \in Browsers, ~Untouched(bro[b])
    PROVE  b <= pool.made /\ \A c \in Captures : cap[c].pc \in StartPcs => cap[c].b # b
<1>1. b <= pool.made
  <2>1. BrowserOk(b)
    BY DEF PoolInv
  <2>2. b \in Int /\ pool.made \in Int
    BY Sizes DEF PoolInv, PoolTypes
  <2> QED
    BY <2>1, <2>2 DEF BrowserOk, Unmade
<1>2. \A c \in Captures : cap[c].pc \in StartPcs => Untouched(bro[cap[c].b])
  BY DEF PoolInv, CapOk, StartOk
<1> QED
  BY <1>1, <1>2

\* A teardown's own steps, and the end of a process.
LEMMA StopStep ==
    ASSUME PoolInv, NEW b \in Browsers, stopStep(b)
    PROVE  PoolInv'
<1>1. PICK q \in BroRows : q = bro[b]
  BY DEF PoolInv, PoolTypes
<1>2. /\ TornDown(q) /\ spare \in Spares /\ UNCHANGED <<po, cap, pool, closer>>
  BY <1>1 DEF PoolInv, PoolTypes, BrowserOk, stopStep, stopBegins, closeAnswers, closesGently, finishBrowserStop, exits
<1>3. q.stop # "none" \/ q.proc = "ending"
  BY <1>1 DEF stopStep, stopBegins, closeAnswers, closesGently, finishBrowserStop, exits
<1>4. /\ b <= pool.made /\ (\A c \in Captures : cap[c].pc \in StartPcs => cap[c].b # b)
      /\ (pool.closed \/ bro[b].proc # "up" \/ bro[b].stop # "none")
  BY <1>1, <1>3, NotStarting DEF Untouched
<1>5. ASSUME NEW force \in BOOLEAN, NEW u \in cleanupGenerationLauncher(q, force), force \/ q.proc # "up",
             q.stop # "none", NEW s, s = [u EXCEPT !.stop = "finish"]
      PROVE  s \in BroRows /\ TornDown(s) /\ Kept(q, s) /\ (q.fin => s.fin) /\ (Left(q) => Left(s))
  <2>1. q.stopping
    BY <1>2, <1>5 DEF TornDown
  <2>2. /\ u \in BroRows /\ Kept(q, u) /\ u.stopping = q.stopping /\ u.cleaned /\ u.fin = q.fin /\ u.proxy = q.proxy
        /\ Clean(u)
    BY <1>2, <1>5, CleanupRow DEF TornDown
  <2>3. /\ s \in BroRows /\ Kept(q, s) /\ s.stopping = q.stopping /\ s.cleaned /\ s.fin = q.fin /\ s.proxy = q.proxy
        /\ Clean(s) /\ s.stop = "finish"
    BY <1>5, <2>2 DEF BroRows, Kept, Clean
  <2> QED
    BY <1>2, <2>1, <2>3 DEF TornDown, Left
<1>6. ASSUME NEW S, Become(b, S), gens' = gens,
             \A s \in S : s \in BroRows /\ TornDown(s) /\ Kept(q, s) /\ (q.fin => s.fin) /\ (Left(q) => Left(s))
      PROVE  PoolInv'
  <2>1. PICK s \in S : bro' = [bro EXCEPT ![b] = s] /\ spare' \in Spares
    BY <1>6, Becomes
  <2>2. s \in BroRows /\ TornDown(s) /\ Kept(q, s) /\ (q.fin => s.fin) /\ (Left(q) => Left(s))
    BY <1>6
  <2> QED
    BY <1>1, <1>2, <1>4, <1>6, <2>1, <2>2, Torn
<1>7. CASE stopBegins(b)
  <2>1. q.stop = "begin" /\ gens' = gens
    BY <1>1, <1>7 DEF stopBegins
  <2>2. CASE q.force
    <3>1. Become(b, {[s EXCEPT !.stop = "finish"] : s \in cleanupGenerationLauncher(q, TRUE)})
      BY <1>1, <1>7, <2>2 DEF stopBegins
    <3>2. ASSUME NEW s \in {[u EXCEPT !.stop = "finish"] : u \in cleanupGenerationLauncher(q, TRUE)}
          PROVE  s \in BroRows /\ TornDown(s) /\ Kept(q, s) /\ (q.fin => s.fin) /\ (Left(q) => Left(s))
      <4>1. PICK u \in cleanupGenerationLauncher(q, TRUE) : s = [u EXCEPT !.stop = "finish"]
        BY <3>2
      <4> QED
        BY <1>5, <2>1, <4>1
    <3> QED
      BY <1>6, <2>1, <3>1, <3>2
  <2>3. CASE ~q.force
    <3>1. PICK s : s = [q EXCEPT !.stop = "close"]
      OBVIOUS
    <3>2. Become(b, {s})
      BY <1>1, <1>7, <2>3, <3>1 DEF stopBegins
    <3>3. s \in BroRows /\ TornDown(s) /\ Kept(q, s) /\ (q.fin => s.fin) /\ (Left(q) => Left(s))
      BY <1>2, <2>1, <3>1 DEF BroRows, TornDown, Kept, Left, Clean
    <3> QED
      BY <1>6, <2>1, <3>2, <3>3
  <2> QED
    BY <2>2, <2>3
<1>8. CASE closeAnswers(b)
  <2>1. PICK g : g = [q EXCEPT !.stop = "clean", !.proc = IF @ = "up" THEN "ending" ELSE @]
    OBVIOUS
  <2>2. q.stop = "close" /\ gens' = gens
        /\ Become(b, {g} \cup {[s EXCEPT !.stop = "finish"] : s \in cleanupGenerationLauncher(q, TRUE)})
    BY <1>1, <1>8, <2>1 DEF closeAnswers
  <2>3. g \in BroRows /\ TornDown(g) /\ Kept(q, g) /\ (q.fin => g.fin) /\ (Left(q) => Left(g))
    BY <1>2, <2>1, <2>2 DEF BroRows, TornDown, Kept, Left, Clean
  <2>4. ASSUME NEW s \in {[u EXCEPT !.stop = "finish"] : u \in cleanupGenerationLauncher(q, TRUE)}
        PROVE  s \in BroRows /\ TornDown(s) /\ Kept(q, s) /\ (q.fin => s.fin) /\ (Left(q) => Left(s))
    <3>1. PICK u \in cleanupGenerationLauncher(q, TRUE) : s = [u EXCEPT !.stop = "finish"]
      BY <2>4
    <3> QED
      BY <1>5, <2>2, <3>1
  <2> QED
    BY <1>6, <2>2, <2>3, <2>4
<1>9. CASE closesGently(b)
  <2>1. q.stop = "clean" /\ gens' = gens
        /\ Become(b, {[s EXCEPT !.stop = "finish"] : s \in cleanupGenerationLauncher(q, FALSE)})
    BY <1>1, <1>9 DEF closesGently
  <2>2. q.proc # "up"
    BY <1>2, <2>1 DEF TornDown
  <2>3. ASSUME NEW s \in {[u EXCEPT !.stop = "finish"] : u \in cleanupGenerationLauncher(q, FALSE)}
        PROVE  s \in BroRows /\ TornDown(s) /\ Kept(q, s) /\ (q.fin => s.fin) /\ (Left(q) => Left(s))
    <3>1. PICK u \in cleanupGenerationLauncher(q, FALSE) : s = [u EXCEPT !.stop = "finish"]
      BY <2>3
    <3> QED
      BY <1>5, <2>1, <2>2, <3>1
  <2> QED
    BY <1>6, <2>1, <2>3
<1>10. CASE finishBrowserStop(b)
  <2>1. PICK s : s = [finished(q) EXCEPT !.stop = "none"]
    OBVIOUS
  <2>2. q.stop = "finish" /\ gens' = gens \ {b} /\ spare' = spare /\ bro' = [bro EXCEPT ![b] = s]
    BY <1>1, <1>10, <2>1 DEF finishBrowserStop
  <2>3. s \in BroRows /\ TornDown(s) /\ Kept(q, s) /\ s.fin /\ Left(s)
    BY <1>2, <2>1, <2>2 DEF BroRows, TornDown, Kept, Left, Clean, finished
  <2> QED
    BY <1>1, <1>2, <1>4, <2>2, <2>3, Torn
<1>11. CASE exits(b)
  <2>1. PICK s : s = [q EXCEPT !.proc = "none"]
    OBVIOUS
  <2>2. q.proc = "ending" /\ gens' = gens /\ spare' = spare /\ bro' = [bro EXCEPT ![b] = s]
    BY <1>1, <1>11, <2>1 DEF exits
  <2>3. s \in BroRows /\ TornDown(s) /\ Kept(q, s) /\ (q.fin => s.fin) /\ (Left(q) => Left(s))
    BY <1>2, <2>1, <2>2 DEF BroRows, TornDown, Kept, Left, Clean
  <2> QED
    BY <1>1, <1>2, <1>4, <2>2, <2>3, Torn
<1> QED
  BY <1>7, <1>8, <1>9, <1>10, <1>11 DEF stopStep

\* Marks: a startup's budget runs out, a process is refused an address.
LEMMA MarkStep ==
    ASSUME PoolInv, (\E c \in Captures : startupExpires(c)) \/ (\E b \in Browsers : escapes(b))
    PROVE  PoolInv'
<1>1. CASE \E c \in Captures : startupExpires(c)
  <2>1. PICK c \in Captures : startupExpires(c)
    BY <1>1
  <2>2. cap[c].pc \in StartPcs /\ Pay("faults") /\ UNCHANGED <<po, cap, pool, gens, closer>>
    BY <2>1 DEF startupExpires, StartPcs
  <2>3. PICK q \in BroRows : q = Mine(c)
    BY <2>2, Holds
  <2>4. PICK s : s = [q EXCEPT !.cancelled = TRUE]
    OBVIOUS
  <2>5. cap[c].b \in Browsers /\ Mine(c) = bro[cap[c].b] /\ bro' = [bro EXCEPT ![cap[c].b] = s]
    BY <2>1, <2>2, <2>3, <2>4, Holds DEF startupExpires, SetMine, Mine
  <2>6. s \in BroRows /\ Resembles(q, s) /\ s.dirty = q.dirty /\ s.blocked = q.blocked
    BY <2>4 DEF BroRows, Resembles
  <2> QED
    BY <2>2, <2>3, <2>5, <2>6, SpareStays, Marked
<1>2. CASE \E b \in Browsers : escapes(b)
  <2>1. PICK b \in Browsers : escapes(b)
    BY <1>2
  <2>2. PICK q \in BroRows : q = bro[b]
    BY DEF PoolInv, PoolTypes
  <2>6. PICK d \in BOOLEAN : d = (q.dirty \/ ~Using(b))
    BY Zenon
  <2>3. PICK s : s = [q EXCEPT !.blocked = TRUE, !.dirty = d]
    OBVIOUS
  <2>4. Pay("escapes") /\ UNCHANGED <<po, cap, pool, gens, closer>> /\ bro' = [bro EXCEPT ![b] = s] /\ b \in gens
    <3>1. bro' = [bro EXCEPT ![b] = [bro[b] EXCEPT !.blocked = TRUE, !.dirty = @ \/ ~Using(b)]]
      BY <2>1, Zenon DEF escapes
    <3>2. [bro[b] EXCEPT !.blocked = TRUE, !.dirty = @ \/ ~Using(b)] = s
      BY <2>2, <2>3, <2>6, Zenon
    <3>3. bro' = [bro EXCEPT ![b] = s]
      BY <3>1, <3>2
    <3> QED
      BY <2>1, <3>3 DEF escapes
  <2>5. s \in BroRows /\ Resembles(q, s) /\ s.blocked /\ (Using(b) => s.dirty = q.dirty)
    BY <2>3, <2>6 DEF BroRows, Resembles
  <2> QED
    BY <2>2, <2>4, <2>5, SpareStays, Marked
<1> QED
  BY <1>1, <1>2

\* Close takes a generation away by force when its budget has run out.
LEMMA ForceStep ==
    ASSUME PoolInv, NEW b \in Browsers, forceBrowserStop(b)
    PROVE  PoolInv'
<1>1. PICK q \in BroRows : q = bro[b]
  BY DEF PoolInv, PoolTypes
<1>2. /\ closer.pc = "join" /\ b \in closer.gens /\ gens' = gens \ {b} /\ UNCHANGED <<po, cap, pool, closer>>
      /\ Become(b, {finished([s EXCEPT !.stopping = TRUE]) : s \in cleanupGenerationLauncher(q, TRUE)})
  BY <1>1 DEF forceBrowserStop
<1>3. PICK s \in {finished([u EXCEPT !.stopping = TRUE]) : u \in cleanupGenerationLauncher(q, TRUE)} :
          bro' = [bro EXCEPT ![b] = s] /\ spare' \in Spares
  BY <1>2, Becomes
<1>4. PICK u \in cleanupGenerationLauncher(q, TRUE) : s = finished([u EXCEPT !.stopping = TRUE])
  BY <1>3
<1>5. TornDown(q)
  BY <1>1 DEF PoolInv, BrowserOk
<1>6. /\ u \in BroRows /\ Kept(q, u) /\ u.cleaned /\ u.stop = q.stop /\ Clean(u)
  BY <1>4, <1>5, CleanupRow DEF TornDown
<1>7. s \in BroRows /\ Kept(q, s) /\ s.fin /\ TornDown(s) /\ Left(s)
  <2>1. PICK v : v = [u EXCEPT !.stopping = TRUE]
    OBVIOUS
  <2>2. v \in BroRows /\ Kept(q, v) /\ v.cleaned /\ v.stop = q.stop /\ Clean(v) /\ v.stopping
    BY <1>6, <2>1 DEF BroRows, Kept, Clean
  <2>3. s = [v EXCEPT !.proxy = FALSE, !.fin = TRUE]
    BY <1>4, <2>1 DEF finished
  <2> QED
    <3>1. s \in BroRows
      BY <2>2, <2>3, ZenonT(60) DEF BroRows
    <3>2. /\ s.fin /\ ~s.proxy /\ s.proc = v.proc /\ s.profile = v.profile /\ s.lost = v.lost
          /\ s.cleaned = v.cleaned /\ s.stop = v.stop /\ s.stopping = v.stopping
      BY <2>2, <2>3 DEF BroRows
    <3>3. /\ s.known = v.known /\ s.early = v.early /\ s.done = v.done /\ s.refs = v.refs /\ s.retired = v.retired
          /\ s.dirty = v.dirty /\ s.blocked = v.blocked
      BY <2>2, <2>3 DEF BroRows
    <3>4. Kept(q, s)
      BY <2>2, <3>3 DEF Kept
    <3>5. Clean(s) /\ Left(s)
      BY <2>2, <3>2 DEF Clean, Left
    <3>6. TornDown(s)
      BY <2>2, <3>2, <3>5 DEF TornDown, Clean
    <3> QED
      BY <3>1, <3>2, <3>4, <3>5, <3>6
<1>8. CloserOk /\ pool.closed /\ b <= pool.made
  BY <1>2 DEF PoolInv, CloserOk
<1>9. ASSUME NEW c \in Captures, cap[c].pc \in StartPcs, cap[c].b = b PROVE FALSE
  <2>1. b = closer.startup
    BY <1>8, <1>9 DEF PoolInv, CapOk
  <2> QED
    BY <1>2, <1>8, <2>1, Sizes DEF CloserOk
<1> QED
  BY <1>1, <1>2, <1>3, <1>7, <1>8, <1>9, Torn

\* What Close's lock does to a row: it may begin a teardown, and takes nothing away yet.
Nearly(r, s) ==
    /\ s.known = r.known /\ s.early = r.early /\ s.done = r.done /\ s.refs = r.refs /\ s.dirty = r.dirty /\ s.blocked = r.blocked /\ s.once = r.once
    /\ s.cleaned = r.cleaned /\ s.fin = r.fin /\ s.proc = r.proc /\ s.profile = r.profile /\ s.proxy = r.proxy
    /\ s.lost = r.lost

\* A row that Close's lock reached is torn down as far as it was.
LEMMA NearlyRow ==
    ASSUME NEW r \in BroRows, NEW s \in BroRows, Nearly(r, s)
    PROVE  /\ Left(s) <=> Left(r)
           /\ TornDown(r) /\ s.stop \in {r.stop, "queued", "begin"} /\ (s.stop # "none" => s.stopping) => TornDown(s)
<1>1. Left(s) <=> Left(r)
  BY DEF Nearly, Left, Clean
<1>2. Clean(s) <=> Clean(r)
  BY DEF Nearly, Clean
<1> QED
  BY <1>1, <1>2 DEF Nearly, TornDown

\* A startup's row stays a startup's when Close begins.
LEMMA StartRow ==
    ASSUME NEW r, NEW s, Alike(r, s), NEW pc, NEW closed, StartOk(pc, r, closed)
    PROVE  StartOk(pc, s, TRUE)
<1>1. Left(s) <=> Left(r)
  BY DEF Alike, Kept, Left, Clean
<1>2. Untouched(s)
  BY DEF Alike, Kept, StartOk, Untouched
<1> QED
  BY <1>1, <1>2 DEF Alike, Kept, StartOk

\* Close takes the lock: no browser is current any more, and every generation is retired.
LEMMA BeginCloseStep ==
    ASSUME PoolInv, beginClose
    PROVE  PoolInv'
<1>1. PICK o \in PoolRows : o = pool
  BY DEF PoolInv, PoolTypes
<1>2. /\ closer.pc = "open" /\ Pay("closes") /\ UNCHANGED <<po, cap, gens>>
      /\ closer' = [pc |-> "stop", startup |-> o.starting, gens |-> gens, expired |-> FALSE]
      /\ pool' = [o EXCEPT !.closed = TRUE, !.current = 0]
  BY <1>1 DEF beginClose
<1>3. Captures' = Captures /\ Browsers' = Browsers /\ Numbers' = Numbers /\ CapRows' = CapRows /\ PoolRows' = PoolRows
      /\ CloserRows' = CloserRows
  BY <1>2 DEF Captures, Browsers, Numbers, CapRows, PoolRows, CloserRows
<1>4. /\ pool' \in PoolRows /\ pool'.closed /\ pool'.current = 0 /\ pool'.starting = o.starting /\ pool'.slot = o.slot
      /\ pool'.made = o.made
  BY <1>2, Sizes DEF PoolRows
<1>5. /\ closer' \in CloserRows /\ closer'.pc = "stop" /\ closer'.startup = o.starting /\ closer'.gens = gens
      /\ ~closer'.expired
  BY <1>2 DEF CloserRows, PoolRows, PoolInv, PoolTypes
<1>6. PoolTypes /\ CloserOk /\ ~o.closed /\ spare' \in Spares
  BY <1>1, <1>2, SpareStays DEF PoolInv, CloserOk
<1>7. ASSUME NEW b \in Browsers
      PROVE  /\ bro'[b] \in BroRows /\ Nearly(bro[b], bro'[b]) /\ TornDown(bro'[b])
             /\ b \notin gens => Alike(bro[b], bro'[b])
  <2>1. PICK q \in BroRows : q = bro[b]
    BY <1>6 DEF PoolTypes
  <2>2. TornDown(q)
    BY <2>1 DEF PoolInv, BrowserOk
  <2>3. CASE b = pool.starting
    <3>1. PICK s : s = [q EXCEPT !.cancelled = TRUE]
      OBVIOUS
    <3>2. bro'[b] = s
      BY <2>1, <2>3, <3>1 DEF beginClose
    <3>3. s \in BroRows /\ Nearly(q, s) /\ Alike(q, s) /\ s.stop = q.stop /\ s.stopping = q.stopping
      BY <3>1 DEF BroRows, Nearly, Alike, Kept
    <3>4. TornDown(s)
      BY <2>2, <3>3, NearlyRow DEF TornDown
    <3> QED
      BY <2>1, <3>2, <3>3, <3>4
  <2>4. CASE b # pool.starting /\ b \in gens
    <3>1. PICK t : t = [q EXCEPT !.retired = TRUE]
      OBVIOUS
    <3>2. t \in BroRows /\ Nearly(q, t) /\ t.stop = q.stop /\ t.stopping = q.stopping
      BY <3>1 DEF BroRows, Nearly
    <3>3. PICK r : r = markBrowserStoppingLocked(t)
      OBVIOUS
    <3>4. r \in BroRows /\ Nearly(q, r) /\ r.stop \in {q.stop, "begin"} /\ (r.stop # "none" => r.stopping)
      <4>1. CASE t.retired /\ t.refs = 0 /\ ~t.stopping
        <5>1. r = [t EXCEPT !.stopping = TRUE, !.stop = "begin"]
          BY <3>3, <4>1 DEF markBrowserStoppingLocked
        <5> QED
          BY <3>2, <5>1 DEF BroRows, Nearly
      <4>2. CASE ~(t.retired /\ t.refs = 0 /\ ~t.stopping)
        <5>1. r = t
          BY <3>3, <4>2 DEF markBrowserStoppingLocked
        <5> QED
          BY <2>2, <3>2, <5>1 DEF TornDown
      <4> QED
        BY <4>1, <4>2
    <3>5. PICK s : s = [r EXCEPT !.stop = IF r.stop = "begin" /\ q.stop = "none" THEN "queued" ELSE @]
      OBVIOUS
    <3>6. bro'[b] = s
      <4>1. bro'[b] = LET k == markBrowserStoppingLocked([bro[b] EXCEPT !.retired = TRUE])
                      IN [k EXCEPT !.stop = IF k.stop = "begin" /\ bro[b].stop = "none" THEN "queued" ELSE @]
        BY <2>4 DEF beginClose
      <4> QED
        BY <2>1, <3>1, <3>3, <3>5, <4>1
    <3>7. s \in BroRows /\ Nearly(q, s) /\ s.stop \in {r.stop, "queued"} /\ s.stopping = r.stopping
          /\ (s.stop = "queued" => r.stop # "none")
      BY <2>1, <3>4, <3>5 DEF BroRows, Nearly
    <3>8. s.stop \in {q.stop, "queued", "begin"} /\ (s.stop # "none" => s.stopping)
      BY <3>4, <3>7
    <3>9. TornDown(s)
      BY <2>2, <3>7, <3>8, NearlyRow
    <3> QED
      BY <2>1, <2>4, <3>6, <3>7, <3>9
  <2>5. CASE b # pool.starting /\ b \notin gens
    <3>1. bro'[b] = q
      BY <2>1, <2>5 DEF beginClose
    <3> QED
      BY <2>1, <2>2, <3>1 DEF Nearly, Alike, Kept
  <2> QED
    BY <2>3, <2>4, <2>5
<1>8. bro' \in [Browsers -> BroRows]
  BY <1>7 DEF beginClose
<1>9. PoolTypes'
  BY <1>2, <1>3, <1>4, <1>5, <1>6, <1>8 DEF PoolTypes
<1>10. ASSUME NEW c \in Captures PROVE CapOk(c)'
  <2>1. CapOk(c) /\ cap'[c] = cap[c] /\ cap[c].pc \in CapPcs
    BY <1>2, <1>6 DEF PoolInv, PoolTypes, CapRows
  <2>2. cap[c].pc # "stale"
    BY <1>1, <1>6, <2>1 DEF CapOk
  <2>3. cap[c].pc \in StartPcs => cap[c].b \in Browsers /\ Alike(bro[cap[c].b], bro'[cap[c].b])
    BY <1>7, <2>1 DEF CapOk
  <2>4. cap[c].pc \in StartPcs => StartOk(cap[c].pc, bro'[cap[c].b], TRUE) /\ ~bro'[cap[c].b].done
    <3>1. ASSUME cap[c].pc \in StartPcs
          PROVE  StartOk(cap[c].pc, bro'[cap[c].b], TRUE) /\ ~bro'[cap[c].b].done
      <4>1. StartOk(cap[c].pc, bro[cap[c].b], pool.closed) /\ ~bro[cap[c].b].done
        BY <2>1, <3>1 DEF CapOk
      <4>2. Alike(bro[cap[c].b], bro'[cap[c].b])
        BY <2>3, <3>1
      <4>3. StartOk(cap[c].pc, bro'[cap[c].b], TRUE)
        BY <4>1, <4>2, StartRow
      <4> QED
        BY <4>1, <4>2, <4>3 DEF Alike, Kept
    <3> QED
      BY <3>1
  <2>5. cap[c].pc \in HeldPcs => HeldOk(cap[c].pc, bro'[cap[c].b], TRUE)
    <3>1. ASSUME cap[c].pc \in HeldPcs PROVE HeldOk(cap[c].pc, bro'[cap[c].b], TRUE)
      <4>1. cap[c].b \in Browsers /\ HeldOk(cap[c].pc, bro[cap[c].b], pool.closed)
        BY <2>1, <3>1 DEF CapOk
      <4>2. Nearly(bro[cap[c].b], bro'[cap[c].b])
        BY <1>7, <4>1
      <4> QED
        BY <4>1, <4>2 DEF HeldOk, Nearly, Shows
    <3> QED
      BY <3>1
  <2>6. StartOk(cap[c].pc, bro'[cap[c].b], TRUE) => StartOk(cap[c].pc, bro'[cap[c].b], pool'.closed)
    BY <1>4 DEF StartOk
  <2>7. HeldOk(cap[c].pc, bro'[cap[c].b], TRUE) => HeldOk(cap[c].pc, bro'[cap[c].b], pool'.closed)
    BY <1>4 DEF HeldOk
  <2>8. cap[c].pc \in StartPcs => cap[c].b = closer'.startup
    BY <1>1, <1>5, <2>1 DEF CapOk
  <2> QED
    BY <1>1, <1>2, <1>3, <1>4, <2>1, <2>2, <2>4, <2>5, <2>6, <2>7, <2>8 DEF CapOk
<1>11. Started' /\ CurrentOk'
  BY <1>1, <1>2, <1>3, <1>4 DEF Started, CurrentOk, PoolInv
<1>12. CloserOk'
  <2>1. (o.starting # 0 => o.starting \notin gens) /\ o.starting <= o.made
    <3>1. CASE o.starting = 0
      BY <1>1, <1>2, <3>1 DEF CloserOk, PoolInv
    <3>2. CASE o.starting # 0
      BY <1>1, <3>2 DEF PoolInv, Started, CapOk
    <3> QED
      BY <3>1, <3>2
  <2>2. \A b \in Browsers : ~bro'[b].early
    BY <1>2, <1>6, <1>7 DEF CloserOk, Nearly
  <2> QED
    BY <1>1, <1>2, <1>3, <1>4, <1>5, <1>6, <2>1, <2>2 DEF CloserOk
<1>13. ASSUME NEW b \in Browsers PROVE BrowserOk(b)'
  <2>1. BrowserOk(b) /\ bro[b] \in BroRows /\ bro'[b] \in BroRows
    BY <1>6, <1>7 DEF PoolInv, PoolTypes
  <2>2. (bro'[b].early <=> bro[b].early) /\ (Left(bro'[b]) <=> Left(bro[b]))
    BY <1>7, <2>1, NearlyRow DEF Nearly
  <2>3. b > o.made => Unmade(bro'[b])
    <3>1. ASSUME b > o.made PROVE b \notin gens
      <4>1. b \in Int /\ o.made \in Int
        BY Sizes
      <4> QED
        BY <1>1, <1>6, <3>1, <4>1 DEF CloserOk
    <3> QED
      BY <1>1, <1>7, <2>1, <3>1 DEF BrowserOk, Alike, Kept, Unmade, Untouched
  <2> QED
    BY <1>1, <1>2, <1>3, <1>4, <1>7, <2>1, <2>2, <2>3 DEF BrowserOk
<1> QED
  BY <1>3, <1>9, <1>10, <1>11, <1>12, <1>13 DEF PoolInv

\* What finishClose does to the row of the startup that it stops.
Stopped(r, s) ==
    /\ s.known = r.known /\ s.done = r.done /\ s.refs = r.refs /\ s.retired = r.retired /\ s.dirty = r.dirty
    /\ s.blocked = r.blocked /\ s.stopping = r.stopping /\ s.cleaned = r.cleaned /\ s.fin = r.fin /\ s.stop = r.stop
    /\ (s.proxy => r.proxy) /\ (s.profile => r.profile) /\ s.proc \in {r.proc, "none"}
    /\ (Left(r) => Left(s)) /\ (Clean(r) => Clean(s)) /\ (~r.once /\ r.known => Left(s))
    /\ (~r.once /\ ~r.done /\ r.proc = "none" => s.early)

\* The row that finishClose writes, and its mark of a startup that had no process yet.
LEMMA StoppedRow ==
    ASSUME NEW r \in BroRows, NEW h \in hardStopStartup(r), NEW early \in BOOLEAN,
           early <=> ~r.once /\ ~r.done /\ r.proc = "none"
    PROVE  [h EXCEPT !.early = early] \in BroRows /\ Stopped(r, [h EXCEPT !.early = early])
<1>1. PICK s : s = [h EXCEPT !.early = early]
  OBVIOUS
<1>2. /\ h \in BroRows /\ Kept(r, h) /\ h.stopping = r.stopping /\ h.cleaned = r.cleaned
      /\ h.fin = r.fin /\ h.stop = r.stop /\ (h.proxy => r.proxy) /\ (h.profile => r.profile)
      /\ h.proc \in {r.proc, "none"} /\ (~r.once /\ r.known => Left(h)) /\ (Left(r) => Left(h)) /\ (Clean(r) => Clean(h))
  BY StartupRow
<1>3. /\ s \in BroRows /\ s.known = h.known /\ s.done = h.done /\ s.refs = h.refs /\ s.retired = h.retired
      /\ s.dirty = h.dirty /\ s.blocked = h.blocked /\ s.stopping = h.stopping /\ s.cleaned = h.cleaned /\ s.fin = h.fin /\ s.stop = h.stop
      /\ s.proxy = h.proxy /\ s.profile = h.profile /\ s.proc = h.proc /\ s.lost = h.lost /\ s.early = early
  BY <1>1, <1>2 DEF BroRows
<1>4. (Left(s) <=> Left(h)) /\ (Clean(s) <=> Clean(h))
  BY <1>3 DEF Left, Clean
<1>5. Stopped(r, s)
  BY <1>2, <1>3, <1>4 DEF Stopped, Kept
<1> QED
  BY <1>1, <1>3, <1>5

\* The startup that Close stops is where it was, with nothing left, or marked as too early for that.
LEMMA StoppedStart ==
    ASSUME NEW r, NEW s, Stopped(r, s), ~r.early, NEW pc, StartOk(pc, r, TRUE)
    PROVE  StartOk(pc, s, TRUE)
<1>1. Untouched(s) /\ ~s.done /\ s.refs = r.refs
  BY DEF Stopped, StartOk, Untouched
<1>2. pc \in {"proxy", "store", "ctx", "launch"} => s.proc = "none" /\ ~s.profile /\ (s.once => s.early)
  BY DEF Stopped, StartOk
<1>3. pc \in {"connect", "adopt"} /\ s.once => s.early \/ Left(s)
  BY DEF Stopped, StartOk
<1>4. pc = "failed" => s.early \/ Left(s)
  BY DEF Stopped, StartOk
<1> QED
  BY <1>1, <1>2, <1>3, <1>4 DEF Stopped, StartOk

\* Close stops the startup that it found, and the teardowns that it began go on.
LEMMA FinishCloseStep ==
    ASSUME PoolInv, finishClose
    PROVE  PoolInv'
<1>1. PICK k \in CloserRows : k = closer
  BY DEF PoolInv, PoolTypes
<1>2. k.pc = "stop" /\ UNCHANGED <<po, cap, pool, gens>> /\ closer' = [k EXCEPT !.pc = "join"]
  BY <1>1 DEF finishClose
<1>3. Captures' = Captures /\ Browsers' = Browsers /\ Numbers' = Numbers /\ CapRows' = CapRows /\ PoolRows' = PoolRows
      /\ CloserRows' = CloserRows
  BY <1>2 DEF Captures, Browsers, Numbers, CapRows, PoolRows, CloserRows
<1>4. /\ closer' \in CloserRows /\ closer'.pc = "join" /\ closer'.startup = k.startup /\ closer'.gens = k.gens
  BY <1>2 DEF CloserRows
<1>5. PoolTypes /\ CloserOk /\ pool.closed /\ \A b \in Browsers : ~bro[b].early
  BY <1>1, <1>2 DEF PoolInv, CloserOk
<1> DEFINE gone(b) == [bro[b] EXCEPT !.cancelled = @ \/ b \in closer.gens, !.stop = IF @ = "queued" THEN "begin" ELSE @]
           rest == [b \in Browsers |-> gone(b)]
<1>6. ASSUME NEW b \in Browsers
      PROVE  gone(b) \in BroRows /\ Nearly(bro[b], gone(b)) /\ TornDown(gone(b))
             /\ (bro[b].stop = "none" => Alike(bro[b], gone(b))) /\ rest[b] = gone(b)
  <2>1. PICK q \in BroRows : q = bro[b]
    BY <1>5 DEF PoolTypes
  <2>2. PICK f \in BOOLEAN : f = (q.cancelled \/ b \in closer.gens)
    BY Zenon
  <2>3. PICK s : s = [q EXCEPT !.cancelled = f, !.stop = IF @ = "queued" THEN "begin" ELSE @]
    OBVIOUS
  <2>4. gone(b) = s
    BY <2>1, <2>2, <2>3, Zenon
  <2>5. TornDown(q)
    BY <2>1 DEF PoolInv, BrowserOk
  <2>6. /\ s \in BroRows /\ Nearly(q, s) /\ s.stopping = q.stopping /\ s.retired = q.retired /\ s.stop \in {q.stop, "begin"}
        /\ (q.stop = "none" => s.stop = "none") /\ (s.stop # "none" => q.stop # "none")
    BY <2>3, ZenonT(60) DEF BroRows, Nearly
  <2>7. TornDown(s)
    BY <2>5, <2>6 DEF TornDown, Nearly, Left, Clean
  <2>8. q.stop = "none" => Alike(q, s)
    BY <2>6 DEF Alike, Kept, Nearly
  <2> QED
    BY <2>1, <2>4, <2>6, <2>7, <2>8
<1>7. /\ spare' \in Spares
      /\ \/ k.startup = 0 /\ bro' = rest
         \/ /\ k.startup # 0
            /\ \E s \in hardStopStartup(bro[k.startup]) :
                 bro' = [rest EXCEPT ![k.startup] =
                            [s EXCEPT !.early = ~bro[k.startup].once /\ ~bro[k.startup].done /\ bro[k.startup].proc = "none"]]
  <2>1. CASE k.startup = 0
    BY <1>1, <1>5, <2>1 DEF finishClose, PoolTypes
  <2>2. CASE k.startup # 0
    <3>1. PICK s \in hardStopStartup(bro[k.startup]) :
            /\ bro' = [rest EXCEPT ![k.startup] =
                         [s EXCEPT !.early = ~bro[k.startup].once /\ ~bro[k.startup].done /\ bro[k.startup].proc = "none"]]
            /\ Losing(bro[k.startup], s)
      BY <1>1, <2>2 DEF finishClose
    <3>2. spare' = spare \/ Pay("faults")
      BY <3>1 DEF Losing
    <3> QED
      BY <2>2, <3>1, <3>2, SpareStays
  <2> QED
    BY <2>1, <2>2
<1> HIDE DEF gone, rest
<1>8. rest = [b \in Browsers |-> gone(b)]
  BY DEF rest
<1>9. ASSUME NEW b \in Browsers
      PROVE  /\ bro'[b] \in BroRows
             /\ b # k.startup => bro'[b] = gone(b)
             /\ b = k.startup => Stopped(bro[b], bro'[b])
  <2>1. CASE k.startup = 0
    BY <1>6, <1>7, <1>8, <2>1, Sizes
  <2>2. CASE k.startup # 0
    <3>1. PICK h \in hardStopStartup(bro[k.startup]) :
            bro' = [rest EXCEPT ![k.startup] =
                      [h EXCEPT !.early = ~bro[k.startup].once /\ ~bro[k.startup].done /\ bro[k.startup].proc = "none"]]
      BY <1>7, <2>2
    <3>2. PICK early \in BOOLEAN : early = (~bro[k.startup].once /\ ~bro[k.startup].done /\ bro[k.startup].proc = "none")
      BY Zenon
    <3>3. bro' = [rest EXCEPT ![k.startup] = [h EXCEPT !.early = early]]
      BY <3>1, <3>2, Zenon
    <3>4. k.startup \in Browsers
      BY <2>2, Sizes DEF CloserRows
    <3>5. bro[k.startup] \in BroRows
      BY <1>5, <3>4 DEF PoolTypes
    <3>6. [h EXCEPT !.early = early] \in BroRows /\ Stopped(bro[k.startup], [h EXCEPT !.early = early])
      BY <3>1, <3>2, <3>5, StoppedRow
    <3>7. PICK s : s = [h EXCEPT !.early = early]
      OBVIOUS
    <3>8. bro' = [rest EXCEPT ![k.startup] = s] /\ s \in BroRows /\ Stopped(bro[k.startup], s)
      BY <3>3, <3>6, <3>7
    <3> QED
      BY <1>6, <1>8, <3>4, <3>8
  <2> QED
    BY <2>1, <2>2
<1>10. bro' \in [Browsers -> BroRows]
  BY <1>7, <1>8, <1>9
<1>11. PoolTypes'
  BY <1>2, <1>3, <1>4, <1>5, <1>7, <1>10 DEF PoolTypes
<1>12. ASSUME NEW c \in Captures PROVE CapOk(c)'
  <2>1. CapOk(c) /\ cap'[c] = cap[c]
    BY <1>2 DEF PoolInv
  <2>2. ASSUME cap[c].pc \in StartPcs PROVE StartOk(cap[c].pc, bro'[cap[c].b], pool.closed) /\ ~bro'[cap[c].b].done
    <3>1. cap[c].b \in Browsers /\ StartOk(cap[c].pc, bro[cap[c].b], pool.closed) /\ cap[c].b = k.startup /\ ~bro[cap[c].b].done
      BY <1>1, <1>5, <2>1, <2>2 DEF CapOk
    <3>2. StartOk(cap[c].pc, bro[cap[c].b], TRUE) /\ ~bro[cap[c].b].early /\ Stopped(bro[cap[c].b], bro'[cap[c].b])
      BY <1>5, <1>9, <3>1 DEF StartOk
    <3>3. StartOk(cap[c].pc, bro'[cap[c].b], TRUE)
      BY <3>2, StoppedStart
    <3> QED
      BY <1>5, <3>1, <3>2, <3>3 DEF StartOk, Stopped
  <2>3. ASSUME cap[c].pc \in HeldPcs \cup {"stale"}
        PROVE  /\ bro'[cap[c].b].refs = bro[cap[c].b].refs /\ bro'[cap[c].b].dirty = bro[cap[c].b].dirty
               /\ bro'[cap[c].b].blocked = bro[cap[c].b].blocked /\ bro'[cap[c].b].done = bro[cap[c].b].done
    <3>1. cap[c].b \in Browsers
      BY <2>1, <2>3 DEF CapOk
    <3>2. CASE cap[c].b = k.startup
      BY <1>9, <3>1, <3>2 DEF Stopped
    <3>3. CASE cap[c].b # k.startup
      BY <1>6, <1>9, <3>1, <3>3 DEF Nearly
    <3> QED
      BY <3>2, <3>3
  <2>4. cap[c].pc \in HeldPcs => HeldOk(cap[c].pc, bro'[cap[c].b], pool.closed)
    BY <1>5, <2>1, <2>3 DEF CapOk, HeldOk, Shows
  <2> QED
    BY <1>1, <1>2, <1>3, <1>4, <2>1, <2>2, <2>3, <2>4 DEF CapOk
<1>13. Started' /\ CurrentOk'
  BY <1>2, <1>3, <1>5 DEF Started, CurrentOk, PoolInv
<1>14. CloserOk'
  BY <1>1, <1>2, <1>3, <1>4, <1>5 DEF CloserOk
<1>15. ASSUME NEW b \in Browsers PROVE BrowserOk(b)'
  <2>1. BrowserOk(b) /\ bro[b] \in BroRows /\ bro'[b] \in BroRows /\ ~bro[b].early
    BY <1>5, <1>9 DEF PoolInv, PoolTypes
  <2>2. (Left(bro[b]) => Left(bro'[b])) /\ TornDown(bro'[b])
    <3>1. CASE b = k.startup
      BY <1>9, <2>1, <3>1 DEF Stopped, BrowserOk, TornDown
    <3>2. CASE b # k.startup
      BY <1>6, <1>9, <2>1, <3>2, NearlyRow
    <3> QED
      BY <3>1, <3>2
  <2>3. b > pool.made => Unmade(bro'[b])
    <3>1. ASSUME b > pool.made PROVE b # k.startup
      <4>1. b \in Int /\ pool.made \in Int
        BY <1>5, Sizes DEF PoolTypes
      <4> QED
        BY <1>1, <1>5, <3>1, <4>1 DEF CloserOk
    <3>2. ASSUME b > pool.made PROVE Unmade(bro'[b])
      <4>1. Unmade(bro[b]) /\ bro'[b] = gone(b)
        BY <1>9, <2>1, <3>1, <3>2 DEF BrowserOk
      <4>2. Alike(bro[b], bro'[b])
        BY <1>6, <4>1 DEF Unmade, Untouched
      <4> QED
        BY <4>1, <4>2 DEF Alike, Kept, Unmade, Untouched
    <3> QED
      BY <3>2
  <2> QED
    BY <1>2, <1>3, <2>1, <2>2, <2>3 DEF BrowserOk
<1> QED
  BY <1>3, <1>11, <1>12, <1>13, <1>14, <1>15 DEF PoolInv

\* Close waits for what it found, or until its budget has run out.
LEMMA CloseWaitStep ==
    ASSUME PoolInv, shutdownExpires \/ waitForTeardown
    PROVE  PoolInv'
<1>1. PICK k \in CloserRows : k = closer
  BY DEF PoolInv, PoolTypes
<1>2. /\ UNCHANGED <<po, cap, bro, pool, gens, spare>> /\ k.pc = "join"
      /\ \/ closer' = [k EXCEPT !.expired = TRUE]
         \/ /\ k.startup # 0 => bro[k.startup].done \/ k.expired
            /\ \A b \in k.gens : bro[b].fin
            /\ closer' = [k EXCEPT !.pc = "closed"]
  BY <1>1 DEF shutdownExpires, waitForTeardown
<1>3. Captures' = Captures /\ Browsers' = Browsers /\ Numbers' = Numbers /\ CapRows' = CapRows /\ PoolRows' = PoolRows
      /\ CloserRows' = CloserRows
  BY <1>2 DEF Captures, Browsers, Numbers, CapRows, PoolRows, CloserRows
<1>4. /\ closer' \in CloserRows /\ closer'.startup = k.startup /\ closer'.gens = k.gens
      /\ closer'.pc \in {"join", "closed"}
      /\ closer'.pc = "closed" => /\ closer'.expired = k.expired /\ \A b \in k.gens : bro[b].fin
                                  /\ k.startup # 0 => bro[k.startup].done \/ k.expired
  <2>1. CASE closer' = [k EXCEPT !.expired = TRUE]
    BY <1>2, <2>1 DEF CloserRows
  <2>2. CASE /\ k.startup # 0 => bro[k.startup].done \/ k.expired
             /\ \A b \in k.gens : bro[b].fin
             /\ closer' = [k EXCEPT !.pc = "closed"]
    BY <2>2 DEF CloserRows
  <2> QED
    BY <1>2, <2>1, <2>2
<1>5. PoolTypes'
  BY <1>2, <1>3, <1>4 DEF PoolInv, PoolTypes
<1>6. ASSUME NEW c \in Captures PROVE CapOk(c)'
  <2>1. CapOk(c)
    BY DEF PoolInv
  <2> QED
    BY <1>1, <1>2, <1>3, <1>4, <2>1 DEF CapOk
<1>7. Started' /\ CurrentOk'
  BY <1>2, <1>3 DEF PoolInv, Started, CurrentOk
<1>8. CloserOk'
  BY <1>1, <1>2, <1>3, <1>4 DEF PoolInv, CloserOk
<1>9. ASSUME NEW b \in Browsers PROVE BrowserOk(b)'
  BY <1>2, <1>3 DEF PoolInv, BrowserOk
<1> QED
  BY <1>3, <1>5, <1>6, <1>7, <1>8, <1>9 DEF PoolInv

\* Nothing has started.
LEMMA PoolStart == PoolInit => PoolInv
<1> SUFFICES ASSUME PoolInit PROVE PoolInv
  OBVIOUS
<1>1. {po.captures, po.browsers, po.escapes, po.faults, po.closes} \subseteq Nat
  BY PoolAssumption DEF PoolInit
<1>2. po.captures \in Nat /\ po.browsers \in Nat /\ po.escapes \in Nat /\ po.faults \in Nat /\ po.closes \in Nat
  BY <1>1
<1>3. 0 \in Numbers /\ 0 \in 0..po.captures /\ 0 \notin Browsers
  BY <1>2 DEF Numbers, Browsers
<1>4. NotMade \in BroRows /\ TornDown(NotMade) /\ Unmade(NotMade) /\ Left(NotMade) /\ ~NotMade.early
  BY DEF NotMade, BroRows, TornDown, Unmade, Untouched, Left, Clean
<1>5. [pc |-> "idle", b |-> 0] \in CapRows
  BY <1>3 DEF CapRows, CapPcs
<1>6. \A c \in Captures : cap[c].pc = "idle"
  BY DEF PoolInit
<1>7. \A b \in Browsers : bro[b] = NotMade
  BY DEF PoolInit
<1>8. /\ pool \in PoolRows /\ pool.current = 0 /\ pool.starting = 0 /\ ~pool.closed /\ pool.made = 0
      /\ closer \in CloserRows /\ closer.pc = "open" /\ closer.startup = 0 /\ closer.gens = {} /\ gens = {}
      /\ spare \in Spares
  BY <1>2, <1>3 DEF PoolInit, PoolRows, CloserRows, Spares
<1>9. PoolTypes
  BY <1>4, <1>5, <1>8 DEF PoolInit, PoolTypes
<1>10. ASSUME NEW c \in Captures PROVE CapOk(c)
  BY <1>6 DEF CapOk, StartPcs, HeldPcs
<1>11. Started /\ CurrentOk
  BY <1>8 DEF Started, CurrentOk
<1>12. CloserOk
  BY <1>4, <1>7, <1>8 DEF CloserOk
<1>13. ASSUME NEW b \in Browsers PROVE BrowserOk(b)
  BY <1>4, <1>7 DEF BrowserOk
<1> QED
  BY <1>9, <1>10, <1>11, <1>12, <1>13 DEF PoolInv

\* Every step of the pool keeps the invariant.
LEMMA PoolStep ==
    ASSUME PoolInv, [PoolNext]_poolVars
    PROVE  PoolInv'
<1>1. CASE UNCHANGED poolVars
  <2>1. UNCHANGED <<po, cap, bro, pool, gens, closer, spare>>
    BY <1>1 DEF poolVars
  <2>2. Captures' = Captures /\ Browsers' = Browsers /\ Numbers' = Numbers /\ CapRows' = CapRows /\ PoolRows' = PoolRows
        /\ CloserRows' = CloserRows
    BY <2>1 DEF Captures, Browsers, Numbers, CapRows, PoolRows, CloserRows
  <2>6. PoolTypes'
    BY <2>1, <2>2 DEF PoolInv, PoolTypes
  <2>7. \A c \in Captures : CapOk(c)'
    <3> SUFFICES ASSUME NEW c \in Captures PROVE CapOk(c)'
      OBVIOUS
    <3>1. CapOk(c)
      BY DEF PoolInv
    <3> QED
      BY <2>1, <2>2, <3>1 DEF CapOk
  <2>8. Started' /\ CurrentOk'
    BY <2>1, <2>2 DEF PoolInv, Started, CurrentOk
  <2>9. CloserOk'
    BY <2>1, <2>2 DEF PoolInv, CloserOk
  <2>10. \A b \in Browsers : BrowserOk(b)'
    BY <2>1, <2>2 DEF PoolInv, BrowserOk
  <2> QED
    BY <2>2, <2>6, <2>7, <2>8, <2>9, <2>10 DEF PoolInv
<1>2. ASSUME NEW c \in Captures, captureStep(c) \/ startupExpires(c) PROVE PoolInv'
  BY <1>2, ClaimsStep, StartStep, StartFailsStep, AdoptStep, StaleStep, HeldStep, MarkStep DEF captureStep
<1>3. ASSUME NEW b \in Browsers, stopStep(b) \/ escapes(b) PROVE PoolInv'
  BY <1>3, StopStep, MarkStep
<1>4. CASE beginClose \/ closeStep
  BY <1>4, BeginCloseStep, FinishCloseStep, ForceStep, CloseWaitStep DEF closeStep
<1> QED
  BY <1>1, <1>2, <1>3, <1>4 DEF PoolNext

\* A browser in a capture's hands keeps its process, its profile and its proxy while the pool is open, and is clean
\* when the capture uses it; and once Close has returned, and what it did not wait for has ended, no process, profile
\* or proxy is left of any browser (Pool of pool.go), for any number of captures, browsers and faults.
THEOREM BrowsersAreSound == PoolSpec => []BrowsersSound
<1>1. PoolInv => BrowsersSound
  <2> SUFFICES ASSUME PoolInv PROVE BrowsersSound
    OBVIOUS
  <2>1. HeldStaysUp
    <3> SUFFICES ASSUME NEW c \in Captures, ~pool.closed, cap[c].pc \in {"check", "use", "release"}
                 PROVE  Mine(c).proc = "up" /\ Mine(c).profile /\ Mine(c).proxy
      BY DEF HeldStaysUp
    <3>1. HeldOk(cap[c].pc, bro[cap[c].b], pool.closed)
      BY DEF PoolInv, CapOk, HeldPcs
    <3> QED
      BY <3>1 DEF HeldOk, Whole, Mine
  <2>2. StateNeverCrosses
    <3> SUFFICES ASSUME NEW c \in Captures, cap[c].pc = "use" PROVE ~Mine(c).dirty
      BY DEF StateNeverCrosses
    <3>1. HeldOk(cap[c].pc, bro[cap[c].b], pool.closed)
      BY DEF PoolInv, CapOk, HeldPcs
    <3> QED
      BY <3>1 DEF HeldOk, Mine
  <2>3. ClosedMeansGone
    <3> SUFFICES ASSUME Joined, NEW b \in Browsers PROVE bro[b].early \/ Gone(b)
      BY DEF ClosedMeansGone
    <3>1. closer.pc = "closed" /\ (~closer.expired \/ \A c \in Captures : cap[c].pc \in {"idle", "end"})
      BY DEF Joined, Quiet
    <3>2. CloserOk /\ pool.closed
      BY <3>1 DEF PoolInv, CloserOk
    <3>3. TornDown(bro[b])
      BY DEF PoolInv, BrowserOk
    <3>4. ASSUME b \in gens PROVE Left(bro[b])
      BY <3>1, <3>2, <3>3, <3>4 DEF CloserOk, TornDown
    <3>5. ASSUME NEW c \in Captures, cap[c].pc \in StartPcs \cup {"stale"}, cap[c].b = b PROVE FALSE
      <4>1. ~bro[b].done /\ b = closer.startup /\ b # 0
        BY <3>2, <3>5, Sizes DEF PoolInv, CapOk
      <4>2. cap[c].pc \notin {"idle", "end"}
        BY <3>5 DEF StartPcs
      <4> QED
        BY <3>1, <3>2, <4>1, <4>2 DEF CloserOk
    <3>6. bro[b].early \/ Left(bro[b])
      BY <3>4, <3>5 DEF PoolInv, BrowserOk
    <3> QED
      BY <3>6 DEF Left, Clean, Gone
  <2> QED
    BY <2>1, <2>2, <2>3 DEF BrowsersSound
<1> QED
  BY <1>1, PoolStart, PoolStep, PTL DEF PoolSpec

\* Once Close has begun no capture is handed a browser, not even the one whose own startup ends then
\* (claimBrowserOrWait and adoptStartedBrowser look at closed under the lock).
THEOREM ClosedPoolHandsNothingOut == PoolSpec => NoneHandedAfterClose
<1>1. ASSUME PoolInv, PoolNext, NEW c \in Captures, pool.closed, cap'[c].pc = "check"
      PROVE  cap[c].pc = "check"
  <2>1. cap \in [Captures -> CapRows] /\ CurrentOk
    BY <1>1 DEF PoolInv, PoolTypes
  <2>2. ASSUME NEW d \in Captures, NEW pc, Go(d, pc), pc # "check" PROVE cap[c].pc = "check"
    <3>1. PICK q \in CapRows : q = cap[d]
      BY <2>1
    <3>2. cap' = [cap EXCEPT ![d] = [q EXCEPT !.pc = pc]] /\ [q EXCEPT !.pc = pc].pc = pc
      BY <2>2, <3>1 DEF Go, CapRows
    <3>3. d # c
      BY <1>1, <2>1, <2>2, <3>2
    <3> QED
      BY <1>1, <2>1, <3>2, <3>3
  <2>3. ASSUME NEW d \in Captures, captureStep(d) PROVE cap[c].pc = "check"
    <3>1. CASE acquireSlot(d)
      BY <2>2, <3>1 DEF acquireSlot
    <3>2. CASE claimBrowserOrWait(d)
      BY <1>1, <2>2, <3>2 DEF claimBrowserOrWait
    <3>3. CASE newCaptureProxy(d) \/ startBrowserGeneration(d) \/ checkContext(d) \/ launch(d) \/ launchBrowserWithCleanup(d)
      BY <2>1, <2>2, <3>3 DEF newCaptureProxy, startBrowserGeneration, checkContext, launch, launchBrowserWithCleanup, Fails
    <3>4. CASE startFails(d) \/ launchOwnedBrowser(d) \/ releaseBrowser(d)
      BY <2>2, <3>4 DEF startFails, launchOwnedBrowser, releaseBrowser
    <3>5. CASE adoptStartedBrowser(d)
      BY <1>1, <2>2, <3>5 DEF adoptStartedBrowser, Stale
    <3>6. CASE checkBlocked(d) \/ Capture(d)
      BY <2>2, <3>6 DEF checkBlocked, Capture
    <3> QED
      BY <2>3, <3>1, <3>2, <3>3, <3>4, <3>5, <3>6 DEF captureStep
  <2>4. ASSUME cap' = cap PROVE cap[c].pc = "check"
    BY <1>1, <2>4
  <2>5. ASSUME NEW d \in Captures, startupExpires(d) PROVE cap[c].pc = "check"
    BY <2>4, <2>5 DEF startupExpires
  <2>6. ASSUME NEW b \in Browsers, stopStep(b) \/ escapes(b) PROVE cap[c].pc = "check"
    BY <2>4, <2>6 DEF stopStep, stopBegins, closeAnswers, closesGently, finishBrowserStop, exits, escapes
  <2>7. CASE beginClose \/ closeStep
    BY <2>4, <2>7 DEF beginClose, closeStep, finishClose, shutdownExpires, forceBrowserStop, waitForTeardown
  <2> QED
    BY <1>1, <2>3, <2>5, <2>6, <2>7 DEF PoolNext
<1>2. ASSUME PoolInv, PoolNext
      PROVE  \A c \in Captures : pool.closed /\ cap'[c].pc = "check" => cap[c].pc = "check"
  BY <1>1, <1>2
<1>3. PoolInv /\ [PoolNext]_poolVars
      => [\A c \in Captures : pool.closed /\ cap'[c].pc = "check" => cap[c].pc = "check"]_poolVars
  BY <1>2
<1> QED
  BY <1>3, PoolStart, PoolStep, PTL DEF PoolSpec, NoneHandedAfterClose


\* The pool and the proxy of the captures, each with its own state: what a capture holds is its own, and what ended
\* left nothing behind.
THEOREM CapturesAreSound == CapturesSpec => []CapturesSound
  BY BrowsersAreSound, TunnelsAreSound, PTL DEF CapturesSpec, CapturesSound

-------------------------------------------------------------------------------
(***************************************************************************)
(* The change checks.                                                      *)
(***************************************************************************)

\* Two queues in a row: the second begins where the first ends.
LEMMA Queued ==
    ASSUME NEW S, NEW s \in Seq(S), NEW t \in Seq(S)
    PROVE  /\ s \o t \in Seq(S) /\ DOMAIN (s \o t) = 1..(Len(s) + Len(t))
           /\ \A n \in 1..Len(s) : (s \o t)[n] = s[n]
           /\ \A n \in 1..Len(t) : (s \o t)[Len(s) + n] = t[n]
  OBVIOUS

\* What moves from the head of the second queue to the end of the first keeps its place in the row.
LEMMA Enqueued ==
    ASSUME NEW S, NEW s \in Seq(S), NEW t \in Seq(S), t # <<>>
    PROVE  /\ Append(s, Head(t)) \in Seq(S) /\ Tail(t) \in Seq(S)
           /\ Append(s, Head(t)) \o Tail(t) = s \o t
<1>1. /\ Append(s, Head(t)) \in Seq(S) /\ Tail(t) \in Seq(S) /\ Len(t) >= 1
      /\ Len(Append(s, Head(t))) = Len(s) + 1 /\ Len(Tail(t)) = Len(t) - 1
  OBVIOUS
<1>2. Append(s, Head(t)) \o Tail(t) \in Seq(S) /\ s \o t \in Seq(S)
      /\ Len(Append(s, Head(t)) \o Tail(t)) = Len(s \o t)
  BY <1>1
<1>3. ASSUME NEW n \in 1..Len(s \o t) PROVE (Append(s, Head(t)) \o Tail(t))[n] = (s \o t)[n]
  <2>1. CASE n <= Len(s)
    BY <1>1, <2>1
  <2>2. CASE n = Len(s) + 1
    BY <1>1, <2>2
  <2>3. CASE n > Len(s) + 1
    BY <1>1, <2>3
  <2> QED
    BY <2>1, <2>2, <2>3
<1> QED
  BY <1>1, <1>2, <1>3

\* What leaves the first queue moves everything behind it up by one.
LEMMA Dequeued ==
    ASSUME NEW S, NEW s \in Seq(S), NEW t \in Seq(S), s # <<>>
    PROVE  /\ Tail(s) \in Seq(S) /\ Head(s) \in S /\ Head(s) = (s \o t)[1] /\ 1 \in DOMAIN (s \o t)
           /\ \A n \in DOMAIN (Tail(s) \o t) :
                n + 1 \in DOMAIN (s \o t) /\ (Tail(s) \o t)[n] = (s \o t)[n + 1]
           /\ \A n \in DOMAIN (s \o t) : n # 1 => n - 1 \in DOMAIN (Tail(s) \o t) /\ (Tail(s) \o t)[n - 1] = (s \o t)[n]
<1>1. /\ Tail(s) \in Seq(S) /\ Head(s) \in S /\ Len(s) \in Nat \ {0} /\ Len(Tail(s)) = Len(s) - 1 /\ Head(s) = s[1]
      /\ Len(t) \in Nat
  OBVIOUS
<1>2. DOMAIN (Tail(s) \o t) = 1..(Len(s) - 1 + Len(t)) /\ DOMAIN (s \o t) = 1..(Len(s) + Len(t))
  BY <1>1
<1>3. ASSUME NEW n \in DOMAIN (Tail(s) \o t) PROVE (Tail(s) \o t)[n] = (s \o t)[n + 1]
  <2>1. CASE n <= Len(s) - 1
    BY <1>1, <1>2, <2>1
  <2>2. CASE n > Len(s) - 1
    BY <1>1, <1>2, <2>2
  <2> QED
    BY <1>1, <1>2, <2>1, <2>2
<1>4. ASSUME NEW n \in DOMAIN (s \o t), n # 1
      PROVE  n - 1 \in DOMAIN (Tail(s) \o t) /\ (Tail(s) \o t)[n - 1] = (s \o t)[n]
  <2>1. n - 1 \in DOMAIN (Tail(s) \o t) /\ (n - 1) + 1 = n
    BY <1>1, <1>2, <1>4
  <2> QED
    BY <2>1, <1>3
<1> QED
  BY <1>1, <1>2, <1>3, <1>4

Fps == {"none", "feed", "content"} \X Nat
CheckJobs == [id : Links, url : Urls, last : Fps, token : Nat \ {0}]
Tellings == [id : Links, url : Urls, from : Fps, to : Fps]
LinkRows == [url : Urls, on : BOOLEAN, locked : BOOLEAN, active : BOOLEAN, claimed : Nat, elapsed : BOOLEAN,
             base : [url : Urls, fp : Fps]]
InstRows == [st : {"up", "stopping", "down"}, scan : {"idle", "queue", "out"}, due : Seq(CheckJobs), jobs : Seq(CheckJobs),
             pc : {"idle", "fetch", "record", "push", "out"}, job : CheckJobs \cup {NoJob}, fp : Fps, push : Seq(Tellings)]

CheckTypes ==
    /\ cc \in CheckScenarios
    /\ link \in [Links -> LinkRows]
    /\ page \in [Urls -> [v : Nat, feed : BOOLEAN]]
    /\ inst \in [Instances -> InstRows]
    /\ told \in Seq(Tellings)

\* What waits for a worker, in the channel or before it.
Both(w) == w.jobs \o w.due
Waiting(i) == Both(inst[i])
Current(j) == link[j.id].claimed = j.token
Same(j, k) == j.id = k.id /\ j.token = k.token
Fitting(j) == Current(j) => j.url = link[j.id].url /\ j.last = link[j.id].base.fp

\* A baseline is of the page the link watches, and never newer than it.
LinksOk ==
    \A l \in Links : /\ link[l].base.url = link[l].url
                     /\ link[l].base.fp # NoBase => link[l].on
                     /\ link[l].base.fp[2] <= page[link[l].url].v

\* A job whose stamp is still on its row knows the row's URL and baseline.
WaitOk == \A i \in Instances : \A n \in DOMAIN Waiting(i) : Fitting(Waiting(i)[n])

\* And so does a worker's, whose fetch is no older than the baseline.
HandOk ==
    \A i \in Instances :
        LET w == inst[i]
        IN  /\ w.pc \in {"idle", "out"} => w.job = NoJob
            /\ w.pc \in {"fetch", "record", "push"} => w.job \in CheckJobs
            /\ w.pc \in {"fetch", "record", "push"} /\ Current(w.job) => w.job.id \in begun
            /\ w.pc \in {"fetch", "record"} => Fitting(w.job)
            /\ w.pc \in {"record", "push"} => w.fp[2] <= page[w.job.url].v
            /\ w.pc = "record" /\ Current(w.job) => link[w.job.id].base.fp[2] <= w.fp[2]

\* No two jobs are of the same claim and link.
JobsApart ==
    \A i \in Instances : \A a \in DOMAIN Waiting(i) :
        /\ ~Same(Waiting(i)[a], inst[i].job)
        /\ \A b \in DOMAIN Waiting(i) : a # b => ~Same(Waiting(i)[a], Waiting(i)[b])
InstancesApart ==
    \A i, k \in Instances : i # k =>
        /\ inst[i].job.id # 0 => ~Same(inst[i].job, inst[k].job)
        /\ \A a \in DOMAIN Waiting(i) :
              /\ ~Same(Waiting(i)[a], inst[k].job)
              /\ \A b \in DOMAIN Waiting(k) : ~Same(Waiting(i)[a], Waiting(k)[b])

\* A version that was announced is not past: nothing older becomes a baseline again.
Past(x) ==
    /\ x.to[2] <= page[x.url].v
    /\ link[x.id].url = x.url /\ link[x.id].base.fp # NoBase => x.to[2] <= link[x.id].base.fp[2]
    /\ \A i \in Instances : inst[i].pc = "record" /\ inst[i].job.id = x.id /\ inst[i].job.url = x.url /\ Current(inst[i].job)
                            => x.to[2] <= inst[i].fp[2]
Announcing(i) == inst[i].pc = "push"
ToldOk ==
    /\ \A a \in DOMAIN told : Past(told[a])
    /\ \A i \in Instances : Announcing(i) => Past(Told(i)) /\ \A a \in DOMAIN told : told[a] # Told(i)
    /\ \A i, k \in Instances : i # k /\ Announcing(i) /\ Announcing(k) => Told(i) # Told(k)
    /\ NotifiedOnce

\* An instance that is down, or whose scan rests, holds nothing.
Resting ==
    \A i \in Instances : /\ inst[i].scan \in {"idle", "out"} => inst[i].due = <<>>
                         /\ inst[i].st = "down" => /\ inst[i].jobs = <<>> /\ inst[i].scan # "queue"
                                                   /\ inst[i].pc \in {"idle", "out"}

CheckInv == CheckTypes /\ LinksOk /\ WaitOk /\ HandOk /\ JobsApart /\ InstancesApart /\ ToldOk /\ Resting /\ ClaimHasHolder

\* What a step that begins, records and announces nothing may do to a link, to a worker and to what waits.
LinkKept(l) ==
    \/ /\ link'[l].url = link[l].url /\ link'[l].on = link[l].on /\ link'[l].base = link[l].base
       /\ \/ link'[l].claimed \in {link[l].claimed, 0}
          \/ \A i \in Instances : \A j \in JobsOf(i) : j.token # link'[l].claimed
    \/ link'[l].claimed = 0 /\ link'[l].base = [url |-> link'[l].url, fp |-> NoBase]
HandKept(i) ==
    \/ inst'[i].job = inst[i].job /\ inst'[i].pc = inst[i].pc /\ inst'[i].fp = inst[i].fp
    \/ inst'[i].job = NoJob /\ inst'[i].pc \in {"idle", "out"}
WaitKept(i) ==
    \A n \in DOMAIN Waiting(i)' : n \in DOMAIN Waiting(i) /\ Waiting(i)'[n] = Waiting(i)[n]
Fewer == (\A l \in Links : LinkKept(l)) /\ \A i \in Instances : HandKept(i) /\ WaitKept(i)

\* What waits for a worker are jobs.
LEMMA WaitingType ==
    ASSUME CheckTypes, NEW i \in Instances
    PROVE  Waiting(i) \in Seq(CheckJobs) /\ \A n \in DOMAIN Waiting(i) : Waiting(i)[n] \in CheckJobs
<1>1. inst[i].jobs \in Seq(CheckJobs) /\ inst[i].due \in Seq(CheckJobs)
  BY DEF CheckTypes, InstRows
<1>2. Waiting(i) \in Seq(CheckJobs)
  BY <1>1, Queued DEF Waiting, Both
<1> QED
  BY <1>2

\* A worker has a job or none, and a fingerprint.
LEMMA HandType ==
    ASSUME CheckTypes, NEW i \in Instances
    PROVE  inst[i].job \in CheckJobs \cup {NoJob} /\ inst[i].fp \in Fps
  BY DEF CheckTypes, InstRows

\* What waits in either queue waits in both.
LEMMA QueuedSets ==
    ASSUME NEW S, NEW s \in Seq(S), NEW t \in Seq(S)
    PROVE  \A j : j \in ToSet(s) \/ j \in ToSet(t) <=> \E n \in DOMAIN (s \o t) : j = (s \o t)[n]
<1>1. /\ DOMAIN (s \o t) = 1..(Len(s) + Len(t)) /\ Len(s) \in Nat /\ Len(t) \in Nat
      /\ DOMAIN s = 1..Len(s) /\ DOMAIN t = 1..Len(t)
      /\ \A n \in 1..Len(s) : (s \o t)[n] = s[n]
      /\ \A n \in 1..Len(t) : (s \o t)[Len(s) + n] = t[n]
  BY Queued
<1>2. ASSUME NEW n \in DOMAIN (s \o t) PROVE (s \o t)[n] \in ToSet(s) \cup ToSet(t)
  <2>1. CASE n <= Len(s)
    BY <1>1, <2>1 DEF ToSet
  <2>2. CASE n > Len(s)
    <3>1. n - Len(s) \in 1..Len(t) /\ Len(s) + (n - Len(s)) = n
      BY <1>1, <2>2
    <3>2. (s \o t)[n] = t[n - Len(s)]
      BY <1>1, <3>1
    <3> QED
      BY <1>1, <3>1, <3>2 DEF ToSet
  <2> QED
    BY <1>1, <2>1, <2>2
<1>3. ASSUME NEW j \in ToSet(s) PROVE \E n \in DOMAIN (s \o t) : j = (s \o t)[n]
  <2>1. PICK n \in DOMAIN s : j = s[n]
    BY <1>3 DEF ToSet
  <2>2. n \in DOMAIN (s \o t) /\ (s \o t)[n] = j
    BY <1>1, <2>1
  <2> QED
    BY <2>2
<1>4. ASSUME NEW j \in ToSet(t) PROVE \E n \in DOMAIN (s \o t) : j = (s \o t)[n]
  <2>1. PICK n \in DOMAIN t : j = t[n]
    BY <1>4 DEF ToSet
  <2>2. Len(s) + n \in DOMAIN (s \o t) /\ (s \o t)[Len(s) + n] = j
    BY <1>1, <2>1
  <2> QED
    BY <2>2
<1> QED
  BY <1>2, <1>3, <1>4

\* The jobs of an instance are the one in a worker's hands and those that wait.
LEMMA JobsAre ==
    ASSUME CheckTypes, NEW i \in Instances
    PROVE  \A j : j \in JobsOf(i) <=> j = inst[i].job \/ \E n \in DOMAIN Waiting(i) : j = Waiting(i)[n]
<1>1. inst[i].jobs \in Seq(CheckJobs) /\ inst[i].due \in Seq(CheckJobs)
  BY DEF CheckTypes, InstRows
<1>2. \A j : j \in JobsOf(i) <=> j = inst[i].job \/ j \in ToSet(inst[i].jobs) \/ j \in ToSet(inst[i].due)
  BY DEF JobsOf
<1>3. \A j : j \in ToSet(inst[i].jobs) \/ j \in ToSet(inst[i].due) <=> \E n \in DOMAIN Waiting(i) : j = Waiting(i)[n]
  <2>1. PICK s \in Seq(CheckJobs), t \in Seq(CheckJobs) : s = inst[i].jobs /\ t = inst[i].due
    BY <1>1
  <2>2. \A j : j \in ToSet(s) \/ j \in ToSet(t) <=> \E n \in DOMAIN (s \o t) : j = (s \o t)[n]
    BY QueuedSets
  <2> QED
    BY <2>1, <2>2 DEF Waiting, Both
<1> QED
  BY <1>2, <1>3

\* That there is no job is told by its id, which is no link's.
LEMMA NoJobId == NoJob.id = 0 /\ 0 \notin Links
  BY DEF NoJob, Links


\* Such a step keeps the invariant: the stamp of a kept link that is still a job's was the job's before, and
\* no job and no fetch is new.
LEMMA FewerKeeps ==
    ASSUME CheckInv, CheckTypes', cc' = cc, told' = told, begun \subseteq begun',
           \A u \in Urls : page[u].v <= page'[u].v, Fewer
    PROVE  LinksOk' /\ WaitOk' /\ HandOk' /\ JobsApart' /\ InstancesApart' /\ ToldOk'
<1>0. Links' = Links /\ Instances' = Instances /\ CheckJobs' = CheckJobs
  BY DEF Links, Instances, CheckJobs
<1>1. /\ CheckTypes /\ LinksOk /\ WaitOk /\ HandOk /\ JobsApart /\ InstancesApart /\ ToldOk
      /\ \A l \in Links : LinkKept(l)
      /\ \A i \in Instances : HandKept(i) /\ WaitKept(i)
  BY DEF CheckInv, Fewer
<1>2. ASSUME NEW l \in Links
      PROVE  /\ link[l] \in LinkRows /\ link'[l] \in LinkRows
             /\ page[link[l].url].v \in Nat /\ page'[link[l].url].v \in Nat /\ page[link[l].url].v <= page'[link[l].url].v
             /\ page'[link'[l].url].v \in Nat
  <2>1. link[l] \in LinkRows /\ link'[l] \in LinkRows
    BY <1>0, <1>1 DEF CheckTypes
  <2>2. link[l].url \in Urls /\ link'[l].url \in Urls
    BY <2>1 DEF LinkRows
  <2> QED
    BY <1>1, <2>1, <2>2 DEF CheckTypes
<1>3. ASSUME NEW k \in Instances, NEW j \in JobsOf(k), j \in CheckJobs, link'[j.id].claimed = j.token
      PROVE  /\ Current(j) /\ j.id \in Links
             /\ link'[j.id].url = link[j.id].url /\ link'[j.id].base = link[j.id].base
  <2>1. j.id \in Links /\ j.token # 0
    BY <1>3 DEF CheckJobs
  <2> QED
    BY <1>1, <1>3, <2>1 DEF LinkKept, Current
<1>4. LinksOk'
  <2> SUFFICES ASSUME NEW l \in Links
               PROVE  /\ link'[l].base.url = link'[l].url
                      /\ link'[l].base.fp # NoBase => link'[l].on
                      /\ link'[l].base.fp[2] <= page'[link'[l].url].v
    BY <1>0 DEF LinksOk
  <2>1. CASE link'[l].url = link[l].url /\ link'[l].on = link[l].on /\ link'[l].base = link[l].base
    <3>1. link[l].base.fp[2] \in Nat
      BY <1>2 DEF LinkRows, Fps
    <3> QED
      BY <1>1, <1>2, <2>1, <3>1 DEF LinksOk
  <2>2. CASE link'[l].base = [url |-> link'[l].url, fp |-> NoBase]
    <3>1. link'[l].base.fp = NoBase /\ link'[l].base.url = link'[l].url /\ NoBase[2] = 0
      BY <2>2 DEF NoBase
    <3> QED
      BY <1>2, <3>1
  <2> QED
    BY <1>1, <2>1, <2>2 DEF LinkKept
<1>5. WaitOk'
  <2> SUFFICES ASSUME NEW i \in Instances, NEW n \in DOMAIN Waiting(i)', link'[Waiting(i)'[n].id].claimed = Waiting(i)'[n].token
               PROVE  /\ Waiting(i)'[n].url = link'[Waiting(i)'[n].id].url
                      /\ Waiting(i)'[n].last = link'[Waiting(i)'[n].id].base.fp
    BY <1>0 DEF WaitOk, Fitting, Current
  <2>1. n \in DOMAIN Waiting(i) /\ Waiting(i)'[n] = Waiting(i)[n]
    BY <1>1 DEF WaitKept
  <2>2. Waiting(i)[n] \in CheckJobs /\ Waiting(i)[n] \in JobsOf(i)
    BY <1>1, <2>1, WaitingType, JobsAre
  <2>3. Fitting(Waiting(i)[n])
    BY <1>1, <2>1 DEF WaitOk
  <2> QED
    BY <1>3, <2>1, <2>2, <2>3 DEF Fitting
<1>6. ASSUME NEW i \in Instances, inst'[i].pc \in {"fetch", "record", "push"}
      PROVE  /\ inst'[i].job = inst[i].job /\ inst'[i].pc = inst[i].pc /\ inst'[i].fp = inst[i].fp
             /\ inst[i].job \in CheckJobs /\ inst[i].job \in JobsOf(i)
             /\ inst[i].job.url \in Urls
  <2>1. inst'[i].job = inst[i].job /\ inst'[i].pc = inst[i].pc /\ inst'[i].fp = inst[i].fp
    BY <1>1, <1>6 DEF HandKept
  <2>2. inst[i].job \in CheckJobs
    BY <1>1, <1>6, <2>1 DEF HandOk
  <2> QED
    BY <2>1, <2>2 DEF CheckJobs, JobsOf
<1>6a. ASSUME NEW i \in Instances PROVE inst[i].fp[2] \in Nat
  BY <1>1, HandType DEF Fps
<1>6b. ASSUME NEW u \in Urls PROVE page[u].v \in Nat /\ page'[u].v \in Nat
  BY <1>1 DEF CheckTypes
<1>7. HandOk'
  <2> SUFFICES ASSUME NEW i \in Instances
               PROVE  /\ inst'[i].pc \in {"idle", "out"} => inst'[i].job = NoJob
                      /\ inst'[i].pc \in {"fetch", "record", "push"} => inst'[i].job \in CheckJobs
                      /\ inst'[i].pc \in {"fetch", "record", "push"} /\ Current(inst[i].job)' => inst'[i].job.id \in begun'
                      /\ inst'[i].pc \in {"fetch", "record"} => Fitting(inst[i].job)'
                      /\ inst'[i].pc \in {"record", "push"} => inst'[i].fp[2] <= page'[inst'[i].job.url].v
                      /\ inst'[i].pc = "record" /\ Current(inst[i].job)' => link'[inst'[i].job.id].base.fp[2] <= inst'[i].fp[2]
    BY <1>0, <1>1 DEF HandOk, CheckTypes, Current, Fitting
  <2>1. CASE inst'[i].pc \in {"idle", "out"}
    BY <1>1, <2>1 DEF HandKept, HandOk
  <2>2. CASE inst'[i].pc \in {"fetch", "record", "push"}
    <3>2. /\ inst'[i].pc \in {"fetch", "record", "push"} /\ Current(inst[i].job) => inst[i].job.id \in begun
          /\ inst'[i].pc \in {"fetch", "record"} => Fitting(inst[i].job)
          /\ inst'[i].pc \in {"record", "push"} => inst[i].fp[2] <= page[inst[i].job.url].v
          /\ inst'[i].pc = "record" /\ Current(inst[i].job) => link[inst[i].job.id].base.fp[2] <= inst[i].fp[2]
      BY <1>1, <1>6, <2>2 DEF HandOk
    <3>3. Current(inst[i].job)' => Current(inst[i].job) /\ link'[inst[i].job.id].url = link[inst[i].job.id].url
                                   /\ link'[inst[i].job.id].base = link[inst[i].job.id].base
      BY <1>3, <1>6, <2>2 DEF Current
    <3>4. page[inst[i].job.url].v <= page'[inst[i].job.url].v
      BY <1>6, <2>2
    <3>5. inst'[i].pc \in {"record", "push"} => inst[i].fp[2] <= page'[inst[i].job.url].v
      BY <1>6, <1>6a, <1>6b, <2>2, <3>2, <3>4
    <3>6. inst'[i].pc \in {"fetch", "record"} => Fitting(inst[i].job)'
      BY <1>6, <2>2, <3>2, <3>3 DEF Fitting
    <3> QED
      BY <1>6, <2>2, <3>2, <3>3, <3>5, <3>6
  <2>3. inst'[i] \in InstRows'
    BY <1>0, <1>1 DEF CheckTypes
  <2> QED
    BY <2>1, <2>2, <2>3 DEF InstRows
<1>8. ASSUME NEW i \in Instances
      PROVE  /\ inst'[i].job = inst[i].job \/ inst'[i].job = NoJob
             /\ \A n \in DOMAIN Waiting(i)' : /\ n \in DOMAIN Waiting(i) /\ Waiting(i)'[n] = Waiting(i)[n]
                                              /\ Waiting(i)[n].id # 0
  <2>1. inst'[i].job = inst[i].job \/ inst'[i].job = NoJob
    BY <1>1 DEF HandKept
  <2>2. \A n \in DOMAIN Waiting(i) : Waiting(i)[n].id # 0
    BY <1>1, WaitingType, NoJobId DEF CheckJobs
  <2> QED
    BY <1>1, <2>1, <2>2 DEF WaitKept
<1>9. JobsApart'
  <2> SUFFICES ASSUME NEW i \in Instances, NEW a \in DOMAIN Waiting(i)'
               PROVE  /\ ~Same(Waiting(i)'[a], inst'[i].job)
                      /\ \A b \in DOMAIN Waiting(i)' : a # b => ~Same(Waiting(i)'[a], Waiting(i)'[b])
    BY <1>0 DEF JobsApart, Same
  <2> QED
    BY <1>1, <1>8, NoJobId DEF JobsApart, Same
<1>10. InstancesApart'
  <2> SUFFICES ASSUME NEW i \in Instances, NEW k \in Instances, i # k
               PROVE  /\ inst'[i].job.id # 0 => ~Same(inst'[i].job, inst'[k].job)
                      /\ \A a \in DOMAIN Waiting(i)' :
                           /\ ~Same(Waiting(i)'[a], inst'[k].job)
                           /\ \A b \in DOMAIN Waiting(k)' : ~Same(Waiting(i)'[a], Waiting(k)'[b])
    BY <1>0 DEF InstancesApart, Same
  <2> QED
    BY <1>1, <1>8, NoJobId DEF InstancesApart, Same
<1>11. ASSUME NEW x \in Tellings, Past(x) PROVE Past(x)'
  <2>1. x.id \in Links /\ x.url \in Urls /\ x.to[2] \in Nat
    BY DEF Tellings, Fps
  <2>2. x.to[2] <= page'[x.url].v
    BY <1>6b, <1>11, <2>1 DEF Past
  <2>3. link'[x.id].url = x.url /\ link'[x.id].base.fp # NoBase => x.to[2] <= link'[x.id].base.fp[2]
    <3>1. CASE link'[x.id].base = [url |-> link'[x.id].url, fp |-> NoBase]
      BY <3>1
    <3>2. CASE link'[x.id].url = link[x.id].url /\ link'[x.id].base = link[x.id].base
      BY <1>11, <3>2 DEF Past
    <3> QED
      BY <1>1, <2>1, <3>1, <3>2 DEF LinkKept
  <2>4. ASSUME NEW i \in Instances, inst'[i].pc = "record", inst'[i].job.id = x.id, inst'[i].job.url = x.url, Current(inst[i].job)'
        PROVE  x.to[2] <= inst'[i].fp[2]
    <3>1. inst'[i].job = inst[i].job /\ inst[i].pc = "record" /\ inst'[i].fp = inst[i].fp /\ inst[i].job \in CheckJobs
          /\ inst[i].job \in JobsOf(i)
      BY <1>6, <2>4
    <3>2. Current(inst[i].job)
      BY <1>3, <2>4, <3>1 DEF Current
    <3> QED
      BY <1>11, <2>4, <3>1, <3>2 DEF Past
  <2> QED
    BY <1>0, <2>2, <2>3, <2>4 DEF Past
<1>12. ASSUME NEW i \in Instances, Announcing(i)'
       PROVE  Announcing(i) /\ Told(i)' = Told(i) /\ Told(i) \in Tellings
  <2>1. inst'[i].job = inst[i].job /\ inst'[i].pc = inst[i].pc /\ inst'[i].fp = inst[i].fp /\ inst[i].job \in CheckJobs
    BY <1>6, <1>12 DEF Announcing
  <2>2. inst[i].fp \in Fps
    BY <1>1, HandType
  <2> QED
    BY <1>12, <2>1, <2>2 DEF Announcing, Told, Tellings, CheckJobs
<1>13. ToldOk'
  <2>1. \A a \in DOMAIN told : told[a] \in Tellings /\ Past(told[a])
    BY <1>1 DEF ToldOk, CheckTypes
  <2>2. \A a \in DOMAIN told' : Past(told[a])'
    BY <1>11, <2>1
  <2>3. ASSUME NEW i \in Instances, Announcing(i)' PROVE Past(Told(i))' /\ \A a \in DOMAIN told' : told'[a] # Told(i)'
    <3>1. Past(Told(i)) /\ \A a \in DOMAIN told : told[a] # Told(i)
      BY <1>1, <1>12, <2>3 DEF ToldOk
    <3>2. PICK x \in Tellings : x = Told(i) /\ x = Told(i)'
      BY <1>12, <2>3
    <3>3. Past(x)'
      BY <1>11, <3>1, <3>2
    <3> QED
      BY <1>12, <2>3, <3>1, <3>2, <3>3 DEF Past
  <2>4. \A i, k \in Instances : i # k /\ Announcing(i)' /\ Announcing(k)' => Told(i)' # Told(k)'
    BY <1>1, <1>12 DEF ToldOk
  <2>5. NotifiedOnce'
    BY <1>1 DEF ToldOk, NotifiedOnce
  <2> QED
    BY <1>0, <2>2, <2>3, <2>4, <2>5 DEF ToldOk
<1> QED
  BY <1>4, <1>5, <1>7, <1>9, <1>10, <1>13

\* One instance takes a step.
LEMMA InstanceSteps ==
    ASSUME CheckTypes, cc' = cc, NEW i \in Instances, NEW r \in InstRows, inst' = [inst EXCEPT ![i] = r]
    PROVE  /\ inst' \in [Instances' -> InstRows'] /\ inst'[i] = r /\ \A k \in Instances : k # i => inst'[k] = inst[k]
           /\ Waiting(i)' = Both(r)
           /\ \A j : j \in JobsOf(i)' <=> j = r.job \/ \E n \in DOMAIN Both(r) : j = Both(r)[n]
           /\ \A k \in Instances : k # i => /\ Waiting(k)' = Waiting(k) /\ HandKept(k) /\ WaitKept(k)
                                            /\ JobsOf(k)' = JobsOf(k)
<1>1. Instances' = Instances /\ CheckJobs' = CheckJobs /\ Tellings' = Tellings /\ inst \in [Instances -> InstRows]
  BY DEF Instances, CheckJobs, Links, CheckTypes, Tellings
<1>2. InstRows' = InstRows
  BY <1>1 DEF InstRows
<1>3. inst' \in [Instances' -> InstRows'] /\ inst'[i] = r /\ \A k \in Instances : k # i => inst'[k] = inst[k]
  BY <1>1, <1>2
<1>4. r.jobs \in Seq(CheckJobs) /\ r.due \in Seq(CheckJobs)
  BY DEF InstRows
<1>5. \A j : j \in JobsOf(i)' <=> j = r.job \/ \E n \in DOMAIN Both(r) : j = Both(r)[n]
  <2>1. \A j : j \in JobsOf(i)' <=> j = r.job \/ j \in ToSet(r.jobs) \/ j \in ToSet(r.due)
    BY <1>3 DEF JobsOf
  <2>2. \A j : j \in ToSet(r.jobs) \/ j \in ToSet(r.due)
              <=> \E n \in DOMAIN Both(r) : j = Both(r)[n]
    <3>1. PICK s \in Seq(CheckJobs), t \in Seq(CheckJobs) : s = r.jobs /\ t = r.due
      BY <1>4
    <3>2. \A j : j \in ToSet(s) \/ j \in ToSet(t) <=> \E n \in DOMAIN (s \o t) : j = (s \o t)[n]
      BY QueuedSets
    <3> QED
      BY <3>1, <3>2 DEF Both
  <2> QED
    BY <2>1, <2>2
<1> QED
  BY <1>3, <1>5 DEF Waiting, HandKept, WaitKept, JobsOf

\* What is still claimed was, and its job is where it was.
LEMMA HolderKept ==
    ASSUME CheckInv, cc' = cc,
           \A l \in Links : link'[l].claimed # 0 /\ ~link'[l].elapsed /\ l \notin begun' /\ link'[l].on
                            => /\ link'[l].claimed = link[l].claimed /\ ~link[l].elapsed /\ l \notin begun /\ link[l].on
                               /\ \A i \in Instances : \A j \in JobsOf(i) :
                                    j.id = l /\ j.token = link[l].claimed => j \in JobsOf(i)'
    PROVE  ClaimHasHolder'
<1>1. Links' = Links /\ Instances' = Instances /\ ClaimHasHolder
  BY DEF Links, Instances, CheckInv
<1> SUFFICES ASSUME NEW l \in Links, link'[l].claimed # 0, ~link'[l].elapsed, l \notin begun', link'[l].on
             PROVE  \E i \in Instances : \E j \in JobsOf(i)' : j.id = l /\ j.token = link'[l].claimed
  BY <1>1 DEF ClaimHasHolder, OnItsWay
<1>2. PICK i \in Instances : \E j \in JobsOf(i) : j.id = l /\ j.token = link[l].claimed
  BY <1>1 DEF ClaimHasHolder, OnItsWay
<1> QED
  BY <1>2

\* A step that touches no row keeps every link.
LEMMA LinksStay ==
    ASSUME link' = link
    PROVE  \A l \in Links : LinkKept(l)
  BY DEF LinkKept

\* An instance takes a step that begins, records and announces nothing.
LEMMA OneSteps ==
    ASSUME CheckInv, cc' = cc, told' = told, page' = page, begun \subseteq begun',
           NEW i \in Instances, NEW r \in InstRows, inst' = [inst EXCEPT ![i] = r],
           \/ r.job = inst[i].job /\ r.pc = inst[i].pc /\ r.fp = inst[i].fp
           \/ r.job = NoJob /\ r.pc \in {"idle", "out"},
           \A n \in DOMAIN Both(r) : n \in DOMAIN Waiting(i) /\ Both(r)[n] = Waiting(i)[n],
           r.scan \in {"idle", "out"} => r.due = <<>>,
           r.st = "down" => r.jobs = <<>> /\ r.scan # "queue" /\ r.pc \in {"idle", "out"},
           link' \in [Links -> LinkRows], \A l \in Links : LinkKept(l),
           \A l \in Links : link'[l].claimed # 0 /\ ~link'[l].elapsed /\ l \notin begun' /\ link'[l].on
                            => /\ link'[l].claimed = link[l].claimed /\ ~link[l].elapsed /\ link[l].on
                               /\ \A j \in JobsOf(i) : j.id = l /\ j.token = link[l].claimed => j \in JobsOf(i)'
    PROVE  CheckInv'
<1>1. CheckTypes /\ Resting /\ Links' = Links /\ Instances' = Instances /\ LinkRows' = LinkRows /\ Tellings' = Tellings
  BY DEF CheckInv, Links, Instances, LinkRows, Tellings
<1>2. /\ inst' \in [Instances' -> InstRows'] /\ inst'[i] = r /\ \A k \in Instances : k # i => inst'[k] = inst[k]
      /\ Waiting(i)' = Both(r)
      /\ \A k \in Instances : k # i => /\ Waiting(k)' = Waiting(k) /\ HandKept(k) /\ WaitKept(k)
                                       /\ JobsOf(k)' = JobsOf(k)
  BY <1>1, InstanceSteps
<1>3. CheckTypes'
  BY <1>1, <1>2 DEF CheckTypes
<1>4. HandKept(i) /\ WaitKept(i)
  BY <1>2 DEF HandKept, WaitKept
<1>5. Fewer
  BY <1>2, <1>4 DEF Fewer
<1>6. \A u \in Urls : page[u].v <= page'[u].v
  BY <1>1 DEF CheckTypes
<1>7. LinksOk' /\ WaitOk' /\ HandOk' /\ JobsApart' /\ InstancesApart' /\ ToldOk'
  BY <1>3, <1>5, <1>6, FewerKeeps
<1>8. Resting'
  BY <1>1, <1>2 DEF Resting
<1>9. ClaimHasHolder'
  <2>1. ASSUME NEW l \in Links, link'[l].claimed # 0, ~link'[l].elapsed, l \notin begun', link'[l].on
        PROVE  /\ link'[l].claimed = link[l].claimed /\ ~link[l].elapsed /\ l \notin begun /\ link[l].on
               /\ \A k \in Instances : \A j \in JobsOf(k) : j.id = l /\ j.token = link[l].claimed => j \in JobsOf(k)'
    BY <1>2, <2>1
  <2> QED
    BY <2>1, HolderKept
<1> QED
  BY <1>3, <1>7, <1>8, <1>9 DEF CheckInv

\* Rows change, or pages do.
LEMMA RowsStep ==
    ASSUME CheckInv, UNCHANGED <<cc, inst, told>>, begun \subseteq begun',
           link' \in [Links -> LinkRows], \A l \in Links : LinkKept(l),
           page' \in [Urls -> [v : Nat, feed : BOOLEAN]], \A u \in Urls : page[u].v <= page'[u].v,
           \A l \in Links : link'[l].claimed # 0 /\ ~link'[l].elapsed /\ l \notin begun' /\ link'[l].on
                            => link'[l].claimed = link[l].claimed /\ ~link[l].elapsed /\ link[l].on
    PROVE  CheckInv'
<1>1. CheckTypes /\ Resting /\ Links' = Links /\ Instances' = Instances /\ LinkRows' = LinkRows /\ Tellings' = Tellings
      /\ InstRows' = InstRows
  BY DEF CheckInv, Links, Instances, LinkRows, Tellings, InstRows, CheckJobs
<1>3. CheckTypes'
  BY <1>1 DEF CheckTypes
<1>4. \A k \in Instances : /\ Waiting(k)' = Waiting(k) /\ HandKept(k) /\ JobsOf(k)' = JobsOf(k) /\ WaitKept(k)
  BY DEF Waiting, HandKept, JobsOf, WaitKept
<1>5. Fewer
  BY <1>4 DEF Fewer
<1>7. LinksOk' /\ WaitOk' /\ HandOk' /\ JobsApart' /\ InstancesApart' /\ ToldOk'
  BY <1>3, <1>5, FewerKeeps
<1>8. Resting'
  BY <1>1 DEF Resting
<1>9. ClaimHasHolder'
  BY <1>4, HolderKept
<1> QED
  BY <1>3, <1>7, <1>8, <1>9 DEF CheckInv

\* A fact about an instance, with its row as a constant.
LEMMA RowOf ==
    ASSUME CheckInv, NEW i \in Instances
    PROVE  \E q \in InstRows : /\ q = inst[i] /\ Waiting(i) = Both(q)
                               /\ q.jobs \in Seq(CheckJobs) /\ q.due \in Seq(CheckJobs)
                               /\ q.job \in CheckJobs \cup {NoJob} /\ q.fp \in Fps
                               /\ q.scan \in {"idle", "out"} => q.due = <<>>
                               /\ q.st = "down" => q.jobs = <<>> /\ q.scan # "queue" /\ q.pc \in {"idle", "out"}
                               /\ q.pc \in {"idle", "out"} => q.job = NoJob
<1>1. inst[i] \in InstRows
  BY DEF CheckInv, CheckTypes
<1>2. PICK q \in InstRows : q = inst[i]
  BY <1>1
<1> QED
  BY <1>2 DEF CheckInv, Resting, HandOk, Waiting, InstRows

\* What waits depends on the two queues alone.
LEMMA SameQueues ==
    ASSUME NEW q, NEW r, r.jobs = q.jobs, r.due = q.due
    PROVE  Both(r) = Both(q)
  BY DEF Both

\* The steps of a goroutine that leave every row and what waits as they are.
LEMMA QuietStep ==
    ASSUME CheckInv, NEW i \in Instances,
           scanEnqueue(i) \/ scanEnds(i) \/ workerStops(i) \/ deliverPush(i) \/ cancel(i)
    PROVE  CheckInv'
<1>1. PICK q \in InstRows :
        /\ q = inst[i] /\ Waiting(i) = Both(q)
        /\ q.jobs \in Seq(CheckJobs) /\ q.due \in Seq(CheckJobs)
        /\ q.job \in CheckJobs \cup {NoJob} /\ q.fp \in Fps
        /\ q.scan \in {"idle", "out"} => q.due = <<>>
        /\ q.st = "down" => q.jobs = <<>> /\ q.scan # "queue" /\ q.pc \in {"idle", "out"}
        /\ q.pc \in {"idle", "out"} => q.job = NoJob
  BY RowOf
<1>2. CheckTypes /\ UNCHANGED <<cc, link, page, told, begun>> /\ inst \in [Instances -> InstRows]
  BY DEF CheckInv, CheckTypes, scanEnqueue, scanEnds, workerStops, deliverPush, cancel
<1>3. PICK r \in InstRows :
        /\ inst' = [inst EXCEPT ![i] = r]
        /\ r.job = q.job /\ r.fp = q.fp /\ (r.pc = q.pc \/ (q.pc = "idle" /\ r.pc = "out"))
        /\ Both(r) = Both(q)
        /\ r.scan \in {"idle", "out"} => r.due = <<>>
        /\ r.st = "down" => q.st = "down" /\ r.jobs = q.jobs /\ r.scan = q.scan
  <2>1. CASE scanEnqueue(i)
    <3> DEFINE r == [q EXCEPT !.jobs = Append(q.jobs, Head(q.due)), !.due = Tail(q.due)]
    <3>1. q.scan = "queue" /\ q.due # <<>> /\ q.st # "down"
          /\ inst' = [inst EXCEPT ![i].jobs = Append(@, Head(inst[i].due)), ![i].due = Tail(@)]
      BY <1>1, <2>1 DEF scanEnqueue
    <3>2. /\ Append(q.jobs, Head(q.due)) \in Seq(CheckJobs) /\ Tail(q.due) \in Seq(CheckJobs)
          /\ Append(q.jobs, Head(q.due)) \o Tail(q.due) = Both(q)
      <4>1. PICK s \in Seq(CheckJobs), t \in Seq(CheckJobs) : s = q.jobs /\ t = q.due
        BY <1>1
      <4>1a. t # <<>>
        BY <3>1, <4>1
      <4>2. /\ Append(s, Head(t)) \in Seq(CheckJobs) /\ Tail(t) \in Seq(CheckJobs)
            /\ Append(s, Head(t)) \o Tail(t) = s \o t
        BY <4>1a, Enqueued
      <4> QED
        BY <4>1, <4>2 DEF Both
    <3>3. r \in InstRows /\ r.jobs = Append(q.jobs, Head(q.due)) /\ r.due = Tail(q.due) /\ r.job = q.job /\ r.fp = q.fp
          /\ r.pc = q.pc /\ r.scan = q.scan /\ r.st = q.st
      BY <3>2 DEF InstRows
    <3>4. inst' = [inst EXCEPT ![i] = r]
      BY <1>1, <1>2, <3>1
    <3> HIDE DEF r
    <3>5. Both(r) = Both(q)
      BY <3>2, <3>3, Zenon DEF Both
    <3> QED
      BY <1>1, <3>1, <3>3, <3>4, <3>5
  <2>2. CASE scanEnds(i)
    <3> DEFINE r == [q EXCEPT !.scan = "idle"]
    <3>1. q.scan = "queue" /\ q.due = <<>> /\ inst' = [inst EXCEPT ![i].scan = "idle"]
      BY <1>1, <2>2 DEF scanEnds
    <3>3. r \in InstRows /\ r.jobs = q.jobs /\ r.due = q.due /\ r.job = q.job /\ r.fp = q.fp
          /\ r.pc = q.pc /\ r.scan = "idle" /\ r.st = q.st
      BY DEF InstRows
    <3>4. inst' = [inst EXCEPT ![i] = r]
      BY <1>1, <1>2, <3>1
    <3> HIDE DEF r
    <3>5. Both(r) = Both(q)
      BY <3>3, SameQueues
    <3> QED
      BY <1>1, <3>1, <3>3, <3>4, <3>5
  <2>3. CASE workerStops(i)
    <3> DEFINE r == [q EXCEPT !.pc = "out"]
    <3>1. q.pc = "idle" /\ inst' = [inst EXCEPT ![i].pc = "out"]
      BY <1>1, <2>3 DEF workerStops
    <3>3. r \in InstRows /\ r.jobs = q.jobs /\ r.due = q.due /\ r.job = q.job /\ r.fp = q.fp
          /\ r.pc = "out" /\ r.scan = q.scan /\ r.st = q.st
      BY DEF InstRows
    <3>4. inst' = [inst EXCEPT ![i] = r]
      BY <1>1, <1>2, <3>1
    <3> HIDE DEF r
    <3>5. Both(r) = Both(q)
      BY <3>3, SameQueues
    <3> QED
      BY <1>1, <3>1, <3>3, <3>4, <3>5, ZenonT(60)
  <2>4. CASE deliverPush(i)
    <3> DEFINE r == [q EXCEPT !.push = Tail(q.push)]
    <3>1. q.push # <<>> /\ inst' = [inst EXCEPT ![i].push = Tail(@)]
      BY <1>1, <2>4 DEF deliverPush
    <3>2. q.push \in Seq(Tellings)
      BY DEF InstRows
    <3>2a. Tail(q.push) \in Seq(Tellings)
      BY <3>1, <3>2
    <3>3. r \in InstRows /\ r.jobs = q.jobs /\ r.due = q.due /\ r.job = q.job /\ r.fp = q.fp
          /\ r.pc = q.pc /\ r.scan = q.scan /\ r.st = q.st
      BY <3>2a DEF InstRows
    <3>4. inst' = [inst EXCEPT ![i] = r]
      BY <1>1, <1>2, <3>1
    <3> HIDE DEF r
    <3>5. Both(r) = Both(q)
      BY <3>3, SameQueues
    <3> QED
      BY <1>1, <3>3, <3>4, <3>5
  <2>5. CASE cancel(i)
    <3> DEFINE r == [q EXCEPT !.st = "stopping"]
    <3>1. inst' = [inst EXCEPT ![i].st = "stopping"]
      BY <2>5 DEF cancel
    <3>3. r \in InstRows /\ r.jobs = q.jobs /\ r.due = q.due /\ r.job = q.job /\ r.fp = q.fp
          /\ r.pc = q.pc /\ r.scan = q.scan /\ r.st = "stopping"
      BY DEF InstRows
    <3>4. inst' = [inst EXCEPT ![i] = r]
      BY <1>1, <1>2, <3>1
    <3> HIDE DEF r
    <3>5. Both(r) = Both(q)
      BY <3>3, SameQueues
    <3> QED
      BY <1>1, <3>3, <3>4, <3>5
  <2> QED
    BY <2>1, <2>2, <2>3, <2>4, <2>5
<1>4. \A j \in JobsOf(i) : j \in JobsOf(i)'
  <2>1. \A j : j \in JobsOf(i)' <=> j = r.job \/ \E n \in DOMAIN Both(r) : j = Both(r)[n]
    BY <1>2, <1>3, InstanceSteps, ZenonT(60)
  <2>2. \A j : j \in JobsOf(i) <=> j = q.job \/ \E n \in DOMAIN Both(q) : j = Both(q)[n]
    BY <1>1, <1>2, JobsAre
  <2> QED
    BY <1>3, <2>1, <2>2
<1>5. \A l \in Links : LinkKept(l)
  BY <1>2, LinksStay
<1>6. link' \in [Links -> LinkRows] /\ (r.st = "down" => r.jobs = <<>> /\ r.scan # "queue" /\ r.pc \in {"idle", "out"})
      /\ ((r.job = inst[i].job /\ r.pc = inst[i].pc /\ r.fp = inst[i].fp) \/ (r.job = NoJob /\ r.pc \in {"idle", "out"}))
  BY <1>1, <1>2, <1>3 DEF CheckTypes
<1>7. \A n \in DOMAIN Both(r) : n \in DOMAIN Waiting(i) /\ Both(r)[n] = Waiting(i)[n]
  BY <1>1, <1>3
<1> QED
  BY <1>2, <1>3, <1>4, <1>5, <1>6, <1>7, OneSteps

\* A worker lets go of a job that it began.
LEMMA RestStep ==
    ASSUME CheckInv, NEW i \in Instances, Rest(i), inst[i].pc \in {"fetch", "record", "push"},
           UNCHANGED <<cc, link, page, told, begun>>
    PROVE  CheckInv'
<1>1. PICK q \in InstRows :
        /\ q = inst[i] /\ Waiting(i) = Both(q)
        /\ q.jobs \in Seq(CheckJobs) /\ q.due \in Seq(CheckJobs)
        /\ q.job \in CheckJobs \cup {NoJob} /\ q.fp \in Fps
        /\ q.scan \in {"idle", "out"} => q.due = <<>>
        /\ q.st = "down" => q.jobs = <<>> /\ q.scan # "queue" /\ q.pc \in {"idle", "out"}
        /\ q.pc \in {"idle", "out"} => q.job = NoJob
  BY RowOf
<1>2. CheckTypes /\ HandOk /\ inst \in [Instances -> InstRows]
  BY DEF CheckInv, CheckTypes
<1> DEFINE r == [q EXCEPT !.pc = "idle", !.job = NoJob, !.fp = NoBase]
<1>3. NoBase \in Fps
  BY DEF NoBase, Fps
<1>4. r \in InstRows /\ r.jobs = q.jobs /\ r.due = q.due /\ r.job = NoJob
      /\ r.pc = "idle" /\ r.scan = q.scan /\ r.st = q.st
  BY <1>3 DEF InstRows
<1>5. inst' = [inst EXCEPT ![i] = r]
  BY <1>1, <1>2 DEF Rest
<1> HIDE DEF r
<1>6. Both(r) = Both(q)
  BY <1>4, SameQueues
<1>7. \A l \in Links : LinkKept(l)
  BY LinksStay
<1>8. \A j \in JobsOf(i) : j = q.job \/ j \in JobsOf(i)'
  <2>1. \A j : j \in JobsOf(i)' <=> j = r.job \/ \E n \in DOMAIN Both(r) : j = Both(r)[n]
    BY <1>2, <1>4, <1>5, InstanceSteps
  <2>2. \A j : j \in JobsOf(i) <=> j = q.job \/ \E n \in DOMAIN Both(q) : j = Both(q)[n]
    BY <1>1, <1>2, JobsAre
  <2> QED
    BY <1>6, <2>1, <2>2
<1>9. ASSUME NEW l \in Links, l \notin begun', NEW j \in JobsOf(i), j.id = l, j.token = link[l].claimed
      PROVE  j \in JobsOf(i)'
  <2>1. j # q.job
    BY <1>1, <1>2, <1>9 DEF HandOk, Current
  <2> QED
    BY <1>8, <2>1
<1>10. link' \in [Links -> LinkRows]
  BY <1>2 DEF CheckTypes
<1>11. \A n \in DOMAIN Both(r) : n \in DOMAIN Waiting(i) /\ Both(r)[n] = Waiting(i)[n]
  BY <1>1, <1>6
<1>12. r.job = NoJob /\ r.pc \in {"idle", "out"}
  BY <1>4
<1>13. \A l \in Links : link'[l].claimed # 0 /\ ~link'[l].elapsed /\ l \notin begun' /\ link'[l].on
                        => /\ link'[l].claimed = link[l].claimed /\ ~link[l].elapsed /\ link[l].on
                           /\ \A j \in JobsOf(i) : j.id = l /\ j.token = link[l].claimed => j \in JobsOf(i)'
  BY <1>9
<1> QED
  BY <1>1, <1>4, <1>5, <1>7, <1>10, <1>11, <1>12, <1>13, OneSteps, ZenonT(60)

\* The rows whose claims are released are those of the jobs, where they are still watched; when the release fails, the links
\* whose claims they are count as lost.
LEMMA Released ==
    ASSUME CheckInv, NEW jobs, releaseClaims(jobs)
    PROVE  /\ link' \in [Links -> LinkRows] /\ begun \subseteq begun'
           /\ \A l \in Links : LinkKept(l)
           /\ \A l \in Links : link'[l].claimed # 0 /\ l \notin begun' /\ link'[l].on
                               => /\ link'[l] = link[l]
                                  /\ \A j \in ToSet(jobs) : ~(j.id = l /\ j.token = link[l].claimed)
<1>1. CASE SystemReleaseCheckClaims(jobs) /\ UNCHANGED begun
  <2>1. link' = [l \in Links |-> IF link[l].on /\ \E j \in ToSet(jobs) : j.id = l
                                 THEN [link[l] EXCEPT !.claimed = 0, !.elapsed = FALSE] ELSE link[l]]
    BY <1>1 DEF SystemReleaseCheckClaims
  <2>2. ASSUME NEW l \in Links
        PROVE  /\ link'[l] \in LinkRows /\ LinkKept(l)
               /\ link'[l].claimed # 0 /\ link'[l].on => link'[l] = link[l] /\ \A j \in ToSet(jobs) : j.id # l
    <3>1. PICK row \in LinkRows : row = link[l]
      BY DEF CheckInv, CheckTypes
    <3> DEFINE freed == [row EXCEPT !.claimed = 0, !.elapsed = FALSE]
    <3>2. freed \in LinkRows /\ freed.claimed = 0 /\ freed.url = row.url /\ freed.on = row.on /\ freed.base = row.base
      BY DEF LinkRows
    <3>3. link'[l] = IF row.on /\ \E j \in ToSet(jobs) : j.id = l THEN freed ELSE row
      BY <2>1, <3>1
    <3> HIDE DEF freed
    <3>4. CASE row.on /\ \E j \in ToSet(jobs) : j.id = l
      BY <3>1, <3>2, <3>3, <3>4 DEF LinkKept
    <3>5. CASE ~(row.on /\ \E j \in ToSet(jobs) : j.id = l)
      BY <3>1, <3>3, <3>5 DEF LinkKept
    <3> QED
      BY <3>4, <3>5
  <2> QED
    BY <1>1, <2>1, <2>2
<1>2. CASE begun' = begun \cup StillTheirs(jobs) /\ UNCHANGED link
  <2>1. link' \in [Links -> LinkRows] /\ \A l \in Links : LinkKept(l)
    BY <1>2, LinksStay DEF CheckInv, CheckTypes
  <2>2. \A l \in Links : l \notin StillTheirs(jobs) => \A j \in ToSet(jobs) : ~(j.id = l /\ j.token = link[l].claimed)
    BY DEF StillTheirs
  <2> QED
    BY <1>2, <2>1, <2>2
<1> QED
  BY <1>1, <1>2 DEF releaseClaims

\* Without what follows, a queue is a part of the two.
LEMMA FirstQueue ==
    ASSUME NEW S, NEW s \in Seq(S), NEW t \in Seq(S)
    PROVE  /\ \A n \in DOMAIN (s \o <<>>) : n \in DOMAIN (s \o t) /\ (s \o <<>>)[n] = (s \o t)[n]
           /\ DOMAIN (<<>> \o <<>>) = {}
  OBVIOUS

\* The scan is told to stop.
LEMMA ScanStopsStep ==
    ASSUME CheckInv, NEW i \in Instances, scanStops(i)
    PROVE  CheckInv'
<1>1. PICK q \in InstRows :
        /\ q = inst[i] /\ Waiting(i) = Both(q)
        /\ q.jobs \in Seq(CheckJobs) /\ q.due \in Seq(CheckJobs)
        /\ q.job \in CheckJobs \cup {NoJob} /\ q.fp \in Fps
        /\ q.scan \in {"idle", "out"} => q.due = <<>>
        /\ q.st = "down" => q.jobs = <<>> /\ q.scan # "queue" /\ q.pc \in {"idle", "out"}
        /\ q.pc \in {"idle", "out"} => q.job = NoJob
  BY RowOf
<1>2. CheckTypes /\ inst \in [Instances -> InstRows] /\ UNCHANGED <<cc, page, told>>
      /\ releaseClaims(q.due) /\ q.st = "stopping"
      /\ inst' = [inst EXCEPT ![i].scan = "out", ![i].due = <<>>]
  BY <1>1 DEF CheckInv, CheckTypes, scanStops
<1> DEFINE r == [q EXCEPT !.scan = "out", !.due = <<>>]
<1>3. <<>> \in Seq(CheckJobs)
  OBVIOUS
<1>4. r \in InstRows /\ r.jobs = q.jobs /\ r.due = <<>> /\ r.job = q.job /\ r.fp = q.fp
      /\ r.pc = q.pc /\ r.scan = "out" /\ r.st = q.st
  BY <1>3 DEF InstRows
<1>5. inst' = [inst EXCEPT ![i] = r]
  BY <1>1, <1>2
<1> HIDE DEF r
<1>6. \A n \in DOMAIN Both(r) : n \in DOMAIN Waiting(i) /\ Both(r)[n] = Waiting(i)[n]
  <2>1. PICK s \in Seq(CheckJobs), t \in Seq(CheckJobs) : s = q.jobs /\ t = q.due
    BY <1>1
  <2>2. \A n \in DOMAIN (s \o <<>>) : n \in DOMAIN (s \o t) /\ (s \o <<>>)[n] = (s \o t)[n]
    BY FirstQueue
  <2> QED
    BY <1>1, <1>4, <2>1, <2>2 DEF Both
<1>7. /\ link' \in [Links -> LinkRows] /\ begun \subseteq begun' /\ \A l \in Links : LinkKept(l)
      /\ \A l \in Links : link'[l].claimed # 0 /\ l \notin begun' /\ link'[l].on
                          => link'[l] = link[l] /\ \A j \in ToSet(q.due) : ~(j.id = l /\ j.token = link[l].claimed)
  BY <1>2, Released
<1>8. \A j \in JobsOf(i) : j \in ToSet(q.due) \/ j \in JobsOf(i)'
  <2>1. inst'[i] = r
    BY <1>2, <1>5
  <2> QED
    BY <1>1, <1>4, <2>1 DEF JobsOf
<1>9. \A l \in Links : link'[l].claimed # 0 /\ ~link'[l].elapsed /\ l \notin begun' /\ link'[l].on
                       => /\ link'[l].claimed = link[l].claimed /\ ~link[l].elapsed /\ link[l].on
                          /\ \A j \in JobsOf(i) : j.id = l /\ j.token = link[l].claimed => j \in JobsOf(i)'
  BY <1>7, <1>8
<1> QED
  BY <1>1, <1>2, <1>4, <1>5, <1>6, <1>7, <1>9, OneSteps, ZenonT(60)

\* An instance that holds nothing any more, and will not: its claims were released, or its links are marked.
LEMMA Emptied ==
    ASSUME CheckInv, NEW i \in Instances, NEW r \in InstRows, inst' = [inst EXCEPT ![i] = r],
           UNCHANGED <<cc, page, told>>, begun \subseteq begun',
           r.jobs = <<>>, r.due = <<>>, r.job = NoJob, r.pc \in {"idle", "out"}, r.scan \in {"idle", "out"},
           link' \in [Links -> LinkRows], \A l \in Links : LinkKept(l),
           \A l \in Links : link'[l].claimed # 0 /\ ~link'[l].elapsed /\ l \notin begun' /\ link'[l].on
                            => /\ link'[l].claimed = link[l].claimed /\ ~link[l].elapsed /\ link[l].on
                               /\ \A j \in JobsOf(i) : ~(j.id = l /\ j.token = link[l].claimed)
    PROVE  CheckInv'
<1>1. DOMAIN Both(r) = {}
  BY FirstQueue DEF Both
<1>2. \A n \in DOMAIN Both(r) : n \in DOMAIN Waiting(i) /\ Both(r)[n] = Waiting(i)[n]
  BY <1>1
<1>3. r.st = "down" => r.jobs = <<>> /\ r.scan # "queue" /\ r.pc \in {"idle", "out"}
  OBVIOUS
<1>4. page' = page /\ told' = told /\ cc' = cc
  OBVIOUS
<1>5. \A l \in Links : link'[l].claimed # 0 /\ ~link'[l].elapsed /\ l \notin begun' /\ link'[l].on
                       => /\ link'[l].claimed = link[l].claimed /\ ~link[l].elapsed /\ link[l].on
                          /\ \A j \in JobsOf(i) : j.id = l /\ j.token = link[l].claimed => j \in JobsOf(i)'
  OBVIOUS
<1> QED
  BY <1>2, <1>3, <1>4, <1>5, OneSteps

\* Stop, crash and restart.
LEMMA EndStep ==
    ASSUME CheckInv, NEW i \in Instances, Stop(i) \/ crash(i) \/ Start(i)
    PROVE  CheckInv'
<1>1. PICK q \in InstRows :
        /\ q = inst[i] /\ Waiting(i) = Both(q)
        /\ q.jobs \in Seq(CheckJobs) /\ q.due \in Seq(CheckJobs)
        /\ q.job \in CheckJobs \cup {NoJob} /\ q.fp \in Fps
        /\ q.scan \in {"idle", "out"} => q.due = <<>>
        /\ q.st = "down" => q.jobs = <<>> /\ q.scan # "queue" /\ q.pc \in {"idle", "out"}
        /\ q.pc \in {"idle", "out"} => q.job = NoJob
  BY RowOf
<1>2. CheckTypes /\ inst \in [Instances -> InstRows] /\ link \in [Links -> LinkRows]
  BY DEF CheckInv, CheckTypes
<1>3. JobsOf(i) = {q.job} \cup ToSet(q.jobs) \cup ToSet(q.due) /\ \A l \in Links : NoJob.id # l
  BY <1>1, NoJobId DEF JobsOf
<1>4. NoBase \in Fps /\ ToSet(<<>>) = {}
  BY DEF NoBase, Fps, ToSet
<1>4a. <<>> \in Seq(CheckJobs) /\ <<>> \in Seq(Tellings)
  OBVIOUS
<1>5. Fresh \in InstRows /\ [Fresh EXCEPT !.st = "down"] \in InstRows
  <2> HIDE DEF NoBase, CheckJobs, Tellings, NoJob
  <2> QED
    BY <1>4, <1>4a DEF Fresh, InstRows
<1>6. ASSUME Stop(i) PROVE CheckInv'
  <2> DEFINE r == [q EXCEPT !.st = "down", !.jobs = <<>>, !.push = <<>>]
  <2>1. UNCHANGED <<cc, page, told>> /\ q.scan = "out" /\ q.pc = "out" /\ releaseClaims(q.jobs)
        /\ inst' = [inst EXCEPT ![i].st = "down", ![i].jobs = <<>>, ![i].push = <<>>]
    BY <1>1, <1>6 DEF Stop, Out
  <2>2. r \in InstRows /\ r.jobs = <<>> /\ r.due = q.due /\ r.job = q.job /\ r.pc = q.pc /\ r.scan = q.scan
    BY <1>4a DEF InstRows
  <2>3. inst' = [inst EXCEPT ![i] = r]
    BY <1>1, <1>2, <2>1
  <2> HIDE DEF r
  <2>4. /\ link' \in [Links -> LinkRows] /\ begun \subseteq begun' /\ \A l \in Links : LinkKept(l)
        /\ \A l \in Links : link'[l].claimed # 0 /\ l \notin begun' /\ link'[l].on
                            => link'[l] = link[l] /\ \A j \in ToSet(q.jobs) : ~(j.id = l /\ j.token = link[l].claimed)
    BY <2>1, Released
  <2>5. \A l \in Links : link'[l].claimed # 0 /\ ~link'[l].elapsed /\ l \notin begun' /\ link'[l].on
                         => /\ link'[l].claimed = link[l].claimed /\ ~link[l].elapsed /\ link[l].on
                            /\ \A j \in JobsOf(i) : ~(j.id = l /\ j.token = link[l].claimed)
    BY <1>1, <1>3, <1>4, <2>1, <2>4
  <2>6. r.due = <<>> /\ r.job = NoJob /\ r.pc \in {"idle", "out"} /\ r.scan \in {"idle", "out"} /\ begun \subseteq begun'
    BY <1>1, <2>1, <2>2, <2>4
  <2> QED
    BY <2>1, <2>2, <2>3, <2>4, <2>5, <2>6, Emptied
<1>7. ASSUME crash(i) PROVE CheckInv'
  <2>1. UNCHANGED <<cc, page, told, link>> /\ inst' = [inst EXCEPT ![i] = [Fresh EXCEPT !.st = "down"]]
        /\ begun' = begun \cup {l \in Links : \E j \in JobsOf(i) : j.id = l /\ j.token = link[l].claimed}
    BY <1>7 DEF crash
  <2>2. \A l \in Links : LinkKept(l)
    BY <2>1, LinksStay
  <2> DEFINE r == [Fresh EXCEPT !.st = "down"]
  <2>3. r \in InstRows /\ r.jobs = <<>> /\ r.due = <<>> /\ r.job = NoJob /\ r.pc = "idle" /\ r.scan = "idle"
    BY <1>5 DEF Fresh
  <2> HIDE DEF r
  <2>4. inst' = [inst EXCEPT ![i] = r]
    BY <2>1 DEF r
  <2>5. \A l \in Links : link'[l].claimed # 0 /\ ~link'[l].elapsed /\ l \notin begun' /\ link'[l].on
                         => /\ link'[l].claimed = link[l].claimed /\ ~link[l].elapsed /\ link[l].on
                            /\ \A j \in JobsOf(i) : ~(j.id = l /\ j.token = link[l].claimed)
    BY <2>1
  <2>6. begun \subseteq begun' /\ link' \in [Links -> LinkRows]
    BY <1>2, <2>1
  <2> QED
    BY <2>1, <2>2, <2>3, <2>4, <2>5, <2>6, Emptied
<1>8. ASSUME Start(i) PROVE CheckInv'
  <2>1. UNCHANGED <<cc, page, told, link, begun>> /\ inst' = [inst EXCEPT ![i] = Fresh] /\ q.st = "down"
    BY <1>1, <1>8 DEF Start
  <2>2. \A l \in Links : LinkKept(l)
    BY <2>1, LinksStay
  <2>3. Fresh.jobs = <<>> /\ Fresh.due = <<>> /\ Fresh.job = NoJob /\ Fresh.pc = "idle" /\ Fresh.scan = "idle"
    BY DEF Fresh
  <2>4. q.jobs = <<>> /\ q.due = <<>> /\ q.job = NoJob
    BY <1>1, <2>1 DEF InstRows
  <2>5. \A l \in Links : link'[l].claimed # 0 /\ ~link'[l].elapsed /\ l \notin begun' /\ link'[l].on
                         => /\ link'[l].claimed = link[l].claimed /\ ~link[l].elapsed /\ link[l].on
                            /\ \A j \in JobsOf(i) : ~(j.id = l /\ j.token = link[l].claimed)
    BY <1>3, <1>4, <2>1, <2>4
  <2> QED
    BY <1>2, <1>5, <2>1, <2>2, <2>3, <2>5, Emptied
<1> QED
  BY <1>6, <1>7, <1>8

\* The steps of the clock, the web and the user.
LEMMA WorldStep ==
    ASSUME CheckInv,
           \/ \E u \in Urls : changePage(u) \/ turnFeed(u)
           \/ \E l \in Links : elapse(l) \/ editLink(l) \/ gateLink(l)
    PROVE  CheckInv'
<1>1. CheckTypes /\ link \in [Links -> LinkRows] /\ page \in [Urls -> [v : Nat, feed : BOOLEAN]]
  BY DEF CheckInv, CheckTypes
<1>2. ASSUME NEW u \in Urls, changePage(u) \/ turnFeed(u) PROVE CheckInv'
  <2>1. UNCHANGED <<cc, link, inst, told, begun>> /\ \A l \in Links : LinkKept(l)
    BY <1>2, LinksStay DEF changePage, turnFeed
  <2>2. PICK p \in [v : Nat, feed : BOOLEAN] : p = page[u]
    BY <1>1
  <2>3. /\ [p EXCEPT !.v = p.v + 1] \in [v : Nat, feed : BOOLEAN] /\ [p EXCEPT !.v = p.v + 1].v = p.v + 1
        /\ [p EXCEPT !.feed = ~p.feed] \in [v : Nat, feed : BOOLEAN] /\ [p EXCEPT !.feed = ~p.feed].v = p.v
    <3>1. p.v \in Nat /\ p.v + 1 \in Nat /\ p.feed \in BOOLEAN
      OBVIOUS
    <3>2. [p EXCEPT !.v = p.v + 1] \in [v : Nat, feed : BOOLEAN] /\ [p EXCEPT !.v = p.v + 1].v = p.v + 1
      BY <3>1
    <3>3. [p EXCEPT !.feed = ~p.feed] \in [v : Nat, feed : BOOLEAN]
      BY <3>1
    <3>4. [p EXCEPT !.feed = ~p.feed].v = p.v
      BY <3>1
    <3> QED
      BY <3>2, <3>3, <3>4
  <2>4. page' = [page EXCEPT ![u] = [p EXCEPT !.v = p.v + 1]] \/ page' = [page EXCEPT ![u] = [p EXCEPT !.feed = ~p.feed]]
    BY <1>1, <1>2, <2>2 DEF changePage, turnFeed
  <2>5. PICK z \in [v : Nat, feed : BOOLEAN] : page' = [page EXCEPT ![u] = z] /\ (z.v = p.v + 1 \/ z.v = p.v)
    BY <2>3, <2>4
  <2>6. page' \in [Urls -> [v : Nat, feed : BOOLEAN]] /\ \A w \in Urls : page[w].v <= page'[w].v
    BY <1>1, <2>2, <2>5
  <2> QED
    BY <1>1, <2>1, <2>6, RowsStep
<1>3. ASSUME NEW l \in Links, NEW row \in LinkRows, link' = [link EXCEPT ![l] = row], UNCHANGED <<cc, page, inst, told, begun>>,
             \/ /\ row.url = link[l].url /\ row.on = link[l].on /\ row.base = link[l].base /\ row.claimed = link[l].claimed
                /\ row.elapsed \/ row.elapsed = link[l].elapsed
             \/ row.claimed = 0 /\ row.base = [url |-> row.url, fp |-> NoBase]
      PROVE  CheckInv'
  <2>1. link' \in [Links -> LinkRows] /\ link'[l] = row /\ \A k \in Links : k # l => link'[k] = link[k]
    BY <1>1, <1>3
  <2>2. \A k \in Links : LinkKept(k)
    BY <1>3, <2>1 DEF LinkKept
  <2>3. page' \in [Urls -> [v : Nat, feed : BOOLEAN]] /\ \A u \in Urls : page[u].v <= page'[u].v
    BY <1>1, <1>3
  <2>4. link[l].elapsed \in BOOLEAN
    BY <1>1 DEF LinkRows
  <2>5. \A k \in Links : link'[k].claimed # 0 /\ ~link'[k].elapsed /\ link'[k].on
                         => link'[k].claimed = link[k].claimed /\ ~link[k].elapsed /\ link[k].on
    BY <1>3, <2>1, <2>4
  <2> QED
    BY <1>3, <2>1, <2>2, <2>3, <2>5, RowsStep
<1>4. ASSUME NEW l \in Links, elapse(l) \/ editLink(l) \/ gateLink(l) PROVE CheckInv'
  <2>1. PICK p \in LinkRows : p = link[l]
    BY <1>1
  <2>2. UNCHANGED <<cc, page, inst, told, begun>>
    BY <1>4 DEF elapse, editLink, gateLink
  <2>3. CASE elapse(l)
    <3>1. [p EXCEPT !.elapsed = TRUE] \in LinkRows /\ [p EXCEPT !.elapsed = TRUE].elapsed
          /\ [p EXCEPT !.elapsed = TRUE].url = p.url /\ [p EXCEPT !.elapsed = TRUE].on = p.on
          /\ [p EXCEPT !.elapsed = TRUE].base = p.base /\ [p EXCEPT !.elapsed = TRUE].claimed = p.claimed
      BY DEF LinkRows
    <3>2. link' = [link EXCEPT ![l] = [p EXCEPT !.elapsed = TRUE]]
      BY <1>1, <2>1, <2>3 DEF elapse
    <3> QED
      BY <1>3, <2>1, <2>2, <3>1, <3>2
  <2>4. CASE gateLink(l)
    <3>1. PICK z \in LinkRows : /\ link' = [link EXCEPT ![l] = z]
                                /\ z.url = p.url /\ z.on = p.on /\ z.base = p.base /\ z.claimed = p.claimed /\ z.elapsed = p.elapsed
      <4>1. \/ link' = [link EXCEPT ![l] = [p EXCEPT !.locked = ~p.locked]]
            \/ link' = [link EXCEPT ![l] = [p EXCEPT !.active = ~p.active]]
        BY <1>1, <2>1, <2>4 DEF gateLink
      <4>2. [p EXCEPT !.locked = ~p.locked] \in LinkRows /\ [p EXCEPT !.active = ~p.active] \in LinkRows
        BY DEF LinkRows
      <4> QED
        BY <4>1, <4>2 DEF LinkRows
    <3> QED
      BY <1>3, <2>1, <2>2, <3>1
  <2>5. CASE editLink(l)
    <3>1. PICK z \in LinkRows : link' = [link EXCEPT ![l] = appendCheckResetCases(z)]
      <4>1. CASE \E u \in Urls \ {link[l].url} : link' = [link EXCEPT ![l] = appendCheckResetCases([link[l] EXCEPT !.url = u])]
        <5>1. PICK u \in Urls : link' = [link EXCEPT ![l] = appendCheckResetCases([p EXCEPT !.url = u])]
          BY <1>1, <2>1, <4>1
        <5>2. [p EXCEPT !.url = u] \in LinkRows
          BY DEF LinkRows
        <5> QED
          BY <5>1, <5>2
      <4>2. CASE link' = [link EXCEPT ![l] = appendCheckResetCases([link[l] EXCEPT !.on = ~@])]
        <5>1. link' = [link EXCEPT ![l] = appendCheckResetCases([p EXCEPT !.on = ~p.on])]
          BY <1>1, <2>1, <4>2
        <5>2. [p EXCEPT !.on = ~p.on] \in LinkRows
          BY DEF LinkRows
        <5> QED
          BY <5>1, <5>2
      <4> QED
        BY <2>5, <4>1, <4>2 DEF editLink
    <3>2. NoBase \in Fps
      BY DEF NoBase, Fps
    <3>3. /\ appendCheckResetCases(z) \in LinkRows /\ appendCheckResetCases(z).claimed = 0
          /\ appendCheckResetCases(z).base = [url |-> appendCheckResetCases(z).url, fp |-> NoBase]
      BY <3>2 DEF appendCheckResetCases, LinkRows
    <3> QED
      BY <1>3, <2>2, <3>1, <3>3
  <2> QED
    BY <1>4, <2>3, <2>4, <2>5
<1> QED
  BY <1>2, <1>4

\* Ways in which Past of something said does not depend on what a step changes.
LEMMA PastStays ==
    ASSUME UNCHANGED <<cc, link, page>>, NEW x, Past(x),
           \A i \in Instances : inst'[i].pc = "record" => inst'[i].job = inst[i].job /\ inst'[i].fp = inst[i].fp /\ inst[i].pc = "record"
    PROVE  Past(x)'
<1>1. Instances' = Instances
  BY DEF Instances
<1> QED
  BY <1>1 DEF Past, Current

\* A worker takes the job at the head of the channel.
LEMMA ReceiveStep ==
    ASSUME CheckInv, NEW i \in Instances, receive(i)
    PROVE  CheckInv'
<1>1. PICK q \in InstRows :
        /\ q = inst[i] /\ Waiting(i) = Both(q)
        /\ q.jobs \in Seq(CheckJobs) /\ q.due \in Seq(CheckJobs)
        /\ q.job \in CheckJobs \cup {NoJob} /\ q.fp \in Fps
        /\ q.scan \in {"idle", "out"} => q.due = <<>>
        /\ q.st = "down" => q.jobs = <<>> /\ q.scan # "queue" /\ q.pc \in {"idle", "out"}
        /\ q.pc \in {"idle", "out"} => q.job = NoJob
  BY RowOf
<1>2. /\ CheckTypes /\ LinksOk /\ WaitOk /\ HandOk /\ JobsApart /\ InstancesApart /\ ToldOk /\ Resting /\ ClaimHasHolder
      /\ inst \in [Instances -> InstRows] /\ Links' = Links /\ Instances' = Instances /\ CheckJobs' = CheckJobs
      /\ UNCHANGED <<cc, link, page, told>>
  BY DEF CheckInv, CheckTypes, receive, Links, Instances, CheckJobs
<1>3. q.pc = "idle" /\ q.jobs # <<>> /\ q.job = NoJob /\ q.st # "down"
  BY <1>1 DEF receive
<1> DEFINE j == Head(q.jobs)
           r == [q EXCEPT !.jobs = Tail(q.jobs), !.job = j, !.pc = "fetch"]
<1>4. /\ Tail(q.jobs) \in Seq(CheckJobs) /\ j \in CheckJobs /\ j = Both(q)[1] /\ 1 \in DOMAIN Both(q)
      /\ \A n \in DOMAIN (Tail(q.jobs) \o q.due) : n + 1 \in DOMAIN Both(q) /\ (Tail(q.jobs) \o q.due)[n] = Both(q)[n + 1]
      /\ \A n \in DOMAIN Both(q) : n # 1 => n - 1 \in DOMAIN (Tail(q.jobs) \o q.due) /\ (Tail(q.jobs) \o q.due)[n - 1] = Both(q)[n]
  <2>1. PICK s \in Seq(CheckJobs), t \in Seq(CheckJobs) : s = q.jobs /\ t = q.due
    BY <1>1
  <2>2. s # <<>>
    BY <1>3, <2>1
  <2>3. /\ Tail(s) \in Seq(CheckJobs) /\ Head(s) \in CheckJobs /\ Head(s) = (s \o t)[1] /\ 1 \in DOMAIN (s \o t)
        /\ \A n \in DOMAIN (Tail(s) \o t) : n + 1 \in DOMAIN (s \o t) /\ (Tail(s) \o t)[n] = (s \o t)[n + 1]
        /\ \A n \in DOMAIN (s \o t) : n # 1 => n - 1 \in DOMAIN (Tail(s) \o t) /\ (Tail(s) \o t)[n - 1] = (s \o t)[n]
    BY <2>2, Dequeued, SMTT(30)
  <2> QED
    BY <2>1, <2>3 DEF Both
<1>5. r \in InstRows /\ r.jobs = Tail(q.jobs) /\ r.due = q.due /\ r.job = j /\ r.fp = q.fp
      /\ r.pc = "fetch" /\ r.scan = q.scan /\ r.st = q.st
  BY <1>4 DEF InstRows
<1>6. inst' = [inst EXCEPT ![i] = r]
  BY <1>1, <1>2 DEF receive
<1>7. begun' = IF link[j.id].claimed = j.token THEN begun \cup {j.id} ELSE begun
  BY <1>1 DEF receive
<1> HIDE DEF j, r
<1>8. /\ \A n \in DOMAIN Both(r) : n + 1 \in DOMAIN Both(q) /\ Both(r)[n] = Both(q)[n + 1]
      /\ \A n \in DOMAIN Both(q) : n # 1 => n - 1 \in DOMAIN Both(r) /\ Both(r)[n - 1] = Both(q)[n]
  BY <1>4, <1>5 DEF Both
<1>9. /\ inst' \in [Instances' -> InstRows'] /\ inst'[i] = r /\ \A k \in Instances : k # i => inst'[k] = inst[k]
      /\ Waiting(i)' = Both(r)
      /\ \A n : n \in JobsOf(i)' <=> n = r.job \/ \E m \in DOMAIN Both(r) : n = Both(r)[m]
      /\ \A k \in Instances : k # i => Waiting(k)' = Waiting(k) /\ JobsOf(k)' = JobsOf(k)
  BY <1>2, <1>5, <1>6, InstanceSteps, ZenonT(60)
<1>9a. DOMAIN Both(q) \subseteq Nat \ {0} /\ DOMAIN Both(r) \subseteq Nat \ {0}
  <2>1. /\ \A s, t \in Seq(CheckJobs) : DOMAIN (s \o t) \subseteq Nat \ {0}
        /\ q.jobs \in Seq(CheckJobs) /\ q.due \in Seq(CheckJobs) /\ r.jobs \in Seq(CheckJobs) /\ r.due \in Seq(CheckJobs)
    BY <1>1, <1>4, <1>5
  <2> QED
    BY <2>1 DEF Both
<1>10. CheckTypes'
  <2>1. LinkRows' = LinkRows /\ Tellings' = Tellings
    BY <1>2 DEF LinkRows, Tellings
  <2> QED
    BY <1>2, <1>9, <2>1 DEF CheckTypes
<1>11. LinksOk'
  BY <1>2 DEF LinksOk
<1>12. \A n \in DOMAIN Both(q) : Fitting(Both(q)[n])
  BY <1>1, <1>2 DEF WaitOk
<1>13. WaitOk'
  <2>1. ASSUME NEW k \in Instances, NEW n \in DOMAIN Waiting(k)'
        PROVE  Fitting(Waiting(k)'[n])
    <3>1. CASE k = i
      BY <1>8, <1>9, <1>12, <2>1, <3>1
    <3>2. CASE k # i
      BY <1>2, <1>9, <2>1, <3>2 DEF WaitOk
    <3> QED
      BY <3>1, <3>2
  <2>2. \A k \in Instances : \A n \in DOMAIN Waiting(k)' : Fitting(Waiting(k)[n])'
    BY <1>2, <2>1 DEF Fitting, Current
  <2> QED
    BY <1>2, <2>2 DEF WaitOk
<1>14. HandOk'
  <2>1. ASSUME NEW k \in Instances, k # i
        PROVE  /\ inst'[k].pc \in {"idle", "out"} => inst'[k].job = NoJob
               /\ inst'[k].pc \in {"fetch", "record", "push"} => inst'[k].job \in CheckJobs
               /\ inst'[k].pc \in {"fetch", "record", "push"} /\ Current(inst'[k].job) => inst'[k].job.id \in begun'
               /\ inst'[k].pc \in {"fetch", "record"} => Fitting(inst'[k].job)
               /\ inst'[k].pc \in {"record", "push"} => inst'[k].fp[2] <= page[inst'[k].job.url].v
               /\ inst'[k].pc = "record" /\ Current(inst'[k].job) => link[inst'[k].job.id].base.fp[2] <= inst'[k].fp[2]
    BY <1>2, <1>7, <1>9, <2>1 DEF HandOk
  <2>2. /\ inst'[i].pc = "fetch" /\ inst'[i].job = j /\ j \in CheckJobs /\ Fitting(j)
        /\ Current(j) => j.id \in begun'
    BY <1>4, <1>5, <1>7, <1>9, <1>12 DEF Current
  <2>3. \A k \in Instances :
            /\ inst'[k].pc \in {"idle", "out"} => inst'[k].job = NoJob
            /\ inst'[k].pc \in {"fetch", "record", "push"} => inst'[k].job \in CheckJobs
            /\ inst'[k].pc \in {"fetch", "record", "push"} /\ Current(inst'[k].job) => inst'[k].job.id \in begun'
            /\ inst'[k].pc \in {"fetch", "record"} => Fitting(inst'[k].job)
            /\ inst'[k].pc \in {"record", "push"} => inst'[k].fp[2] <= page[inst'[k].job.url].v
            /\ inst'[k].pc = "record" /\ Current(inst'[k].job) => link[inst'[k].job.id].base.fp[2] <= inst'[k].fp[2]
    BY <2>1, <2>2
  <2> QED
    BY <1>2, <2>3 DEF HandOk, Fitting, Current
<1>15. \A a \in DOMAIN Both(q) : \A b \in DOMAIN Both(q) : a # b => ~Same(Both(q)[a], Both(q)[b])
  BY <1>1, <1>2 DEF JobsApart
<1>16. JobsApart'
  <2>1. ASSUME NEW k \in Instances, NEW a \in DOMAIN Waiting(k)'
        PROVE  /\ ~Same(Waiting(k)'[a], inst'[k].job)
               /\ \A b \in DOMAIN Waiting(k)' : a # b => ~Same(Waiting(k)'[a], Waiting(k)'[b])
    <3>1. CASE k = i
      <4>1. a \in Nat /\ a + 1 \in DOMAIN Both(q) /\ Both(r)[a] = Both(q)[a + 1] /\ a + 1 # 1
        BY <1>8, <1>9, <1>9a, <2>1, <3>1
      <4>2. ~Same(Both(r)[a], j)
        BY <1>4, <1>15, <4>1
      <4>3. ASSUME NEW b \in DOMAIN Both(r), a # b PROVE ~Same(Both(r)[a], Both(r)[b])
        <5>1. b \in Nat /\ b + 1 \in DOMAIN Both(q) /\ Both(r)[b] = Both(q)[b + 1] /\ a + 1 # b + 1
          BY <1>8, <1>9a, <4>1, <4>3
        <5> QED
          BY <1>15, <4>1, <5>1
      <4> QED
        BY <1>5, <1>9, <3>1, <4>2, <4>3
    <3>2. CASE k # i
      BY <1>2, <1>9, <2>1, <3>2 DEF JobsApart
    <3> QED
      BY <3>1, <3>2
  <2> QED
    BY <1>2, <2>1 DEF JobsApart, Same
<1>17. InstancesApart'
  <2>1. ASSUME NEW k \in Instances, k # i
        PROVE  /\ ~Same(j, inst[k].job) /\ ~Same(inst[k].job, j)
               /\ \A b \in DOMAIN Waiting(k) : ~Same(j, Waiting(k)[b]) /\ ~Same(Waiting(k)[b], j)
               /\ \A a \in DOMAIN Both(r) : /\ ~Same(Both(r)[a], inst[k].job)
                                            /\ \A b \in DOMAIN Waiting(k) : /\ ~Same(Both(r)[a], Waiting(k)[b])
                                                                            /\ ~Same(Waiting(k)[b], Both(r)[a])
    BY <1>1, <1>2, <1>4, <1>8, <2>1 DEF InstancesApart, Same
  <2>2. ASSUME NEW k \in Instances, NEW m \in Instances, k # m
        PROVE  /\ inst'[k].job.id # 0 => ~Same(inst'[k].job, inst'[m].job)
               /\ \A a \in DOMAIN Waiting(k)' :
                     /\ ~Same(Waiting(k)'[a], inst'[m].job)
                     /\ \A b \in DOMAIN Waiting(m)' : ~Same(Waiting(k)'[a], Waiting(m)'[b])
    <3>1. CASE k = i
      BY <1>5, <1>9, <2>1, <2>2, <3>1
    <3>2. CASE m = i
      BY <1>5, <1>9, <2>1, <2>2, <3>2
    <3>3. CASE k # i /\ m # i
      BY <1>2, <1>9, <2>2, <3>3 DEF InstancesApart
    <3> QED
      BY <3>1, <3>2, <3>3
  <2> QED
    BY <1>2, <2>2 DEF InstancesApart, Same
<1>18. ToldOk'
  <2>1. \A k \in Instances : inst'[k].pc \in {"record", "push"} => inst'[k] = inst[k]
    BY <1>5, <1>9
  <2>2. \A k \in Instances : Announcing(k)' => Announcing(k) /\ Told(k)' = Told(k)
    BY <2>1 DEF Announcing, Told
  <2>3. ASSUME NEW x, Past(x) PROVE Past(x)'
    BY <1>2, <2>1, <2>3, PastStays
  <2>4. \A a \in DOMAIN told : Past(told[a])'
    BY <1>2, <2>3 DEF ToldOk
  <2>5. ASSUME NEW k \in Instances, Announcing(k)' PROVE Past(Told(k))'
    <3>1. PICK x : x = Told(k)
      OBVIOUS
    <3>2. Past(x)'
      BY <1>2, <2>2, <2>3, <2>5, <3>1 DEF ToldOk
    <3> QED
      BY <2>2, <2>5, <3>1, <3>2 DEF Past
  <2> QED
    BY <1>2, <2>2, <2>4, <2>5 DEF ToldOk, NotifiedOnce
<1>19. Resting'
  BY <1>1, <1>2, <1>3, <1>5, <1>9 DEF Resting
<1>20. ClaimHasHolder'
  <2>1. \A k \in Instances : \A n \in JobsOf(k) : n = NoJob \/ n \in JobsOf(k)'
    <3>1. \A n : n \in JobsOf(i) <=> n = q.job \/ \E m \in DOMAIN Both(q) : n = Both(q)[m]
      BY <1>1, <1>2, JobsAre
    <3>2. \A n \in JobsOf(i) : n = NoJob \/ n \in JobsOf(i)'
      BY <1>3, <1>4, <1>5, <1>8, <1>9, <3>1
    <3> QED
      BY <1>9, <3>2
  <2>2. begun \subseteq begun' /\ \A l \in Links : l # NoJob.id
    BY <1>7, NoJobId
  <2>3. \A l \in Links : link'[l].claimed # 0 /\ ~link'[l].elapsed /\ l \notin begun' /\ link'[l].on
                         => /\ link'[l].claimed = link[l].claimed /\ ~link[l].elapsed /\ l \notin begun /\ link[l].on
                            /\ \A k \in Instances : \A n \in JobsOf(k) :
                                 n.id = l /\ n.token = link[l].claimed => n \in JobsOf(k)'
    BY <1>2, <2>1, <2>2
  <2> QED
    BY <1>2, <2>3, HolderKept
<1> QED
  BY <1>10, <1>11, <1>13, <1>14, <1>16, <1>17, <1>18, <1>19, <1>20 DEF CheckInv

\* A worker's step with the job it has: what waits, and which jobs there are, stays.
LEMMA HandSteps ==
    ASSUME CheckInv, cc' = cc, begun' = begun, NEW i \in Instances, inst[i].pc \in {"fetch", "record", "push"},
           NEW r \in InstRows, inst' = [inst EXCEPT ![i] = r],
           r.jobs = inst[i].jobs, r.due = inst[i].due, r.scan = inst[i].scan, r.st = inst[i].st,
           r.job = inst[i].job \/ r.job = NoJob
    PROVE  /\ inst' \in [Instances' -> InstRows'] /\ inst'[i] = r /\ \A k \in Instances : k # i => inst'[k] = inst[k]
           /\ \A k \in Instances : Waiting(k)' = Waiting(k)
           /\ \A k \in Instances : \A j \in JobsOf(k) : (k = i /\ j = inst[i].job) \/ j \in JobsOf(k)'
           /\ r.job = inst[i].job => inst[i].job \in JobsOf(i)'
           /\ JobsApart' /\ InstancesApart' /\ Resting'
<1>1. PICK q \in InstRows :
        /\ q = inst[i] /\ Waiting(i) = Both(q)
        /\ q.jobs \in Seq(CheckJobs) /\ q.due \in Seq(CheckJobs)
        /\ q.job \in CheckJobs \cup {NoJob} /\ q.fp \in Fps
        /\ q.scan \in {"idle", "out"} => q.due = <<>>
        /\ q.st = "down" => q.jobs = <<>> /\ q.scan # "queue" /\ q.pc \in {"idle", "out"}
        /\ q.pc \in {"idle", "out"} => q.job = NoJob
  BY RowOf
<1>2. CheckTypes /\ JobsApart /\ InstancesApart /\ Resting /\ Instances' = Instances
  BY DEF CheckInv, Instances
<1>3. Both(r) = Both(q)
  BY <1>1, SameQueues
<1>4. /\ inst' \in [Instances' -> InstRows'] /\ inst'[i] = r /\ \A k \in Instances : k # i => inst'[k] = inst[k]
      /\ Waiting(i)' = Both(r)
      /\ \A n : n \in JobsOf(i)' <=> n = r.job \/ \E m \in DOMAIN Both(r) : n = Both(r)[m]
      /\ \A k \in Instances : k # i => Waiting(k)' = Waiting(k) /\ JobsOf(k)' = JobsOf(k)
  BY <1>2, InstanceSteps, ZenonT(60)
<1>5. \A k \in Instances : Waiting(k)' = Waiting(k)
  BY <1>1, <1>3, <1>4
<1>6. \A k \in Instances : inst'[k].job = inst[k].job \/ inst'[k].job = NoJob
  BY <1>4
<1>7. \A k \in Instances : \A n \in DOMAIN Waiting(k) : Waiting(k)[n].id # 0
  BY <1>2, WaitingType, NoJobId DEF CheckJobs
<1>8. JobsApart'
  <2>1. ASSUME NEW k \in Instances, NEW a \in DOMAIN Waiting(k)'
        PROVE  /\ ~Same(Waiting(k)'[a], inst'[k].job)
               /\ \A b \in DOMAIN Waiting(k)' : a # b => ~Same(Waiting(k)'[a], Waiting(k)'[b])
    BY <1>2, <1>5, <1>6, <1>7, NoJobId DEF JobsApart, Same
  <2> QED
    BY <1>2, <2>1 DEF JobsApart, Same
<1>9. InstancesApart'
  <2>1. ASSUME NEW k \in Instances, NEW m \in Instances, k # m
        PROVE  /\ inst'[k].job.id # 0 => ~Same(inst'[k].job, inst'[m].job)
               /\ \A a \in DOMAIN Waiting(k)' :
                     /\ ~Same(Waiting(k)'[a], inst'[m].job)
                     /\ \A b \in DOMAIN Waiting(m)' : ~Same(Waiting(k)'[a], Waiting(m)'[b])
    BY <1>2, <1>5, <1>6, <1>7, <2>1, NoJobId DEF InstancesApart, Same
  <2> QED
    BY <1>2, <2>1 DEF InstancesApart, Same
<1>10. Resting'
  BY <1>1, <1>2, <1>4 DEF Resting
<1>11. \A n \in JobsOf(i) : n = inst[i].job \/ n \in JobsOf(i)'
  <2>1. \A n : n \in JobsOf(i) <=> n = q.job \/ \E m \in DOMAIN Both(q) : n = Both(q)[m]
    BY <1>1, <1>2, JobsAre
  <2> QED
    BY <1>1, <1>3, <1>4, <2>1
<1> QED
  BY <1>4, <1>5, <1>8, <1>9, <1>10, <1>11

\* A worker fetches its page.
LEMMA FetchStep ==
    ASSUME CheckInv, NEW i \in Instances, fetch(i)
    PROVE  CheckInv'
<1>1. PICK q \in InstRows : q = inst[i] /\ q.fp \in Fps
  BY RowOf
<1>2. /\ CheckTypes /\ LinksOk /\ WaitOk /\ HandOk /\ JobsApart /\ InstancesApart /\ ToldOk /\ Resting /\ ClaimHasHolder
      /\ inst \in [Instances -> InstRows] /\ Links' = Links /\ Instances' = Instances /\ CheckJobs' = CheckJobs
      /\ UNCHANGED <<cc, link, page, told, begun>> /\ q.pc = "fetch"
  BY <1>1 DEF CheckInv, CheckTypes, fetch, Links, Instances, CheckJobs
<1>3. q.job \in CheckJobs /\ q.job.url \in Urls /\ q.job.id \in Links /\ Fitting(q.job) /\ (Current(q.job) => q.job.id \in begun)
  BY <1>1, <1>2 DEF HandOk, CheckJobs
<1> DEFINE f == Compute(q.job.url)
           r == [q EXCEPT !.fp = f, !.pc = "record"]
<1>4. f \in Fps /\ f[2] = page[q.job.url].v
  <2>1. page[q.job.url].v \in Nat
    BY <1>2, <1>3 DEF CheckTypes
  <2> QED
    BY <2>1 DEF Compute, Fps
<1> HIDE DEF f
<1>5. /\ r \in InstRows /\ r.fp = f /\ r.pc = "record" /\ r.jobs = q.jobs /\ r.due = q.due /\ r.scan = q.scan /\ r.st = q.st
      /\ r.job = q.job
  BY <1>4 DEF InstRows
<1>6. inst' = [inst EXCEPT ![i] = r]
  BY <1>1, <1>2 DEF fetch, f
<1> HIDE DEF r
<1>7. /\ inst' \in [Instances' -> InstRows'] /\ inst'[i] = r /\ \A k \in Instances : k # i => inst'[k] = inst[k]
      /\ \A k \in Instances : Waiting(k)' = Waiting(k)
      /\ \A k \in Instances : \A j \in JobsOf(k) : (k = i /\ j = inst[i].job) \/ j \in JobsOf(k)'
      /\ r.job = inst[i].job => inst[i].job \in JobsOf(i)'
      /\ JobsApart' /\ InstancesApart' /\ Resting'
  BY <1>1, <1>2, <1>5, <1>6, HandSteps
<1>8. CheckTypes'
  <2>1. LinkRows' = LinkRows /\ Tellings' = Tellings
    BY <1>2 DEF LinkRows, Tellings
  <2> QED
    BY <1>2, <1>7, <2>1 DEF CheckTypes
<1>9. LinksOk' /\ WaitOk'
  BY <1>2, <1>7 DEF LinksOk, WaitOk, Fitting, Current
<1>10. Current(q.job) => link[q.job.id].base.fp[2] <= f[2]
  BY <1>2, <1>3, <1>4 DEF Fitting, LinksOk
<1>10a. f[2] <= page[q.job.url].v
  BY <1>2, <1>3, <1>4 DEF CheckTypes
<1>11. HandOk'
  <2>1. \A k \in Instances :
            /\ inst'[k].pc \in {"idle", "out"} => inst'[k].job = NoJob
            /\ inst'[k].pc \in {"fetch", "record", "push"} => inst'[k].job \in CheckJobs
            /\ inst'[k].pc \in {"fetch", "record", "push"} /\ Current(inst'[k].job) => inst'[k].job.id \in begun
            /\ inst'[k].pc \in {"fetch", "record"} => Fitting(inst'[k].job)
            /\ inst'[k].pc \in {"record", "push"} => inst'[k].fp[2] <= page[inst'[k].job.url].v
            /\ inst'[k].pc = "record" /\ Current(inst'[k].job) => link[inst'[k].job.id].base.fp[2] <= inst'[k].fp[2]
    <3>1. ASSUME NEW k \in Instances, k # i
          PROVE  /\ inst'[k].pc \in {"idle", "out"} => inst'[k].job = NoJob
                 /\ inst'[k].pc \in {"fetch", "record", "push"} => inst'[k].job \in CheckJobs
                 /\ inst'[k].pc \in {"fetch", "record", "push"} /\ Current(inst'[k].job) => inst'[k].job.id \in begun
                 /\ inst'[k].pc \in {"fetch", "record"} => Fitting(inst'[k].job)
                 /\ inst'[k].pc \in {"record", "push"} => inst'[k].fp[2] <= page[inst'[k].job.url].v
                 /\ inst'[k].pc = "record" /\ Current(inst'[k].job) => link[inst'[k].job.id].base.fp[2] <= inst'[k].fp[2]
      BY <1>2, <1>7, <3>1 DEF HandOk
    <3> QED
      BY <1>3, <1>5, <1>7, <1>10, <1>10a, <3>1
  <2> QED
    BY <1>2, <2>1 DEF HandOk, Fitting, Current
<1>12. ASSUME NEW x, Past(x) PROVE Past(x)'
  <2>1. ASSUME NEW k \in Instances, inst'[k].pc = "record", inst'[k].job.id = x.id, inst'[k].job.url = x.url, Current(inst'[k].job)
        PROVE  x.to[2] <= inst'[k].fp[2]
    BY <1>4, <1>5, <1>7, <1>12, <2>1 DEF Past
  <2> QED
    BY <1>2, <1>12, <2>1 DEF Past, Current
<1>13. ToldOk'
  <2>1. \A k \in Instances : Announcing(k)' => Announcing(k) /\ Told(k)' = Told(k)
    BY <1>5, <1>7 DEF Announcing, Told
  <2>2. \A a \in DOMAIN told : Past(told[a])'
    BY <1>2, <1>12 DEF ToldOk
  <2>3. ASSUME NEW k \in Instances, Announcing(k)' PROVE Past(Told(k))'
    <3>1. PICK x : x = Told(k)
      OBVIOUS
    <3>2. Past(x)'
      BY <1>2, <1>12, <2>1, <2>3, <3>1 DEF ToldOk
    <3> QED
      BY <2>1, <2>3, <3>1, <3>2 DEF Past
  <2> QED
    BY <1>2, <2>1, <2>2, <2>3 DEF ToldOk, NotifiedOnce
<1>14. ClaimHasHolder'
  <2>1. \A k \in Instances : \A n \in JobsOf(k) : n \in JobsOf(k)'
    BY <1>1, <1>5, <1>7
  <2> QED
    BY <1>2, <2>1, HolderKept
<1> QED
  BY <1>7, <1>8, <1>9, <1>11, <1>13, <1>14 DEF CheckInv

\* A result is recorded: the job's claim is the row's, so no other job's is, and nothing newer was announced.
LEMMA RecordStep ==
    ASSUME CheckInv, NEW i \in Instances, SystemRecordCheckResult(i)
    PROVE  CheckInv'
<1>1. PICK q \in InstRows : q = inst[i] /\ q.fp \in Fps /\ q.job \in CheckJobs \cup {NoJob}
  BY RowOf
<1>2. /\ CheckTypes /\ LinksOk /\ WaitOk /\ HandOk /\ JobsApart /\ InstancesApart /\ ToldOk /\ Resting /\ ClaimHasHolder
      /\ inst \in [Instances -> InstRows] /\ link \in [Links -> LinkRows]
      /\ Links' = Links /\ Instances' = Instances /\ CheckJobs' = CheckJobs /\ LinkRows' = LinkRows /\ Tellings' = Tellings
      /\ UNCHANGED <<cc, page, told, begun>> /\ q.pc = "record"
  BY <1>1 DEF CheckInv, CheckTypes, SystemRecordCheckResult, Links, Instances, CheckJobs, LinkRows, Tellings
<1> DEFINE l == q.job.id
<1>3. /\ q.job \in CheckJobs /\ q.job.url \in Urls /\ l \in Links /\ Current(q.job) /\ link[l].on
      /\ q.job.url = link[l].url /\ q.job.last = link[l].base.fp /\ l \in begun
      /\ q.fp[2] <= page[q.job.url].v /\ link[l].base.fp[2] <= q.fp[2]
  <2>1. Current(q.job) /\ link[l].on
    BY <1>1 DEF SystemRecordCheckResult, Applies, Current
  <2>2. q.job \in CheckJobs /\ Fitting(q.job) /\ l \in begun
        /\ q.fp[2] <= page[q.job.url].v /\ link[l].base.fp[2] <= q.fp[2]
    BY <1>1, <1>2, <2>1 DEF HandOk
  <2>3. q.job.url \in Urls /\ l \in Links
    BY <2>2 DEF CheckJobs
  <2> QED
    BY <2>1, <2>2, <2>3 DEF Fitting
<1>4. PICK row \in LinkRows : row = link[l]
  BY <1>2, <1>3
<1> DEFINE new == [row EXCEPT !.base = [url |-> q.job.url, fp |-> q.fp]]
<1>5. new \in LinkRows /\ new.url = row.url /\ new.on = row.on /\ new.claimed = row.claimed /\ new.elapsed = row.elapsed
      /\ new.base.url = q.job.url /\ new.base.fp = q.fp
  BY <1>1, <1>3 DEF LinkRows
<1>6. link' = [link EXCEPT ![l] = new]
  BY <1>1, <1>2, <1>3, <1>4 DEF SystemRecordCheckResult
<1> HIDE DEF new
<1>7. link' \in [Links -> LinkRows] /\ link'[l] = new /\ \A k \in Links : k # l => link'[k] = link[k]
  BY <1>2, <1>3, <1>5, <1>6
<1>8. \A k \in Links : link'[k].url = link[k].url /\ link'[k].on = link[k].on /\ link'[k].claimed = link[k].claimed
                       /\ link'[k].elapsed = link[k].elapsed
  BY <1>4, <1>5, <1>7
<1>9. PICK r \in InstRows : /\ inst' = [inst EXCEPT ![i] = r]
                            /\ r.jobs = q.jobs /\ r.due = q.due /\ r.scan = q.scan /\ r.st = q.st
                            /\ \/ Changed(i) /\ r.pc = "push" /\ r.job = q.job /\ r.fp = q.fp
                               \/ r.pc = "idle" /\ r.job = NoJob
  <2>1. CASE Changed(i) /\ inst' = [inst EXCEPT ![i].pc = "push"]
    <3> DEFINE r == [q EXCEPT !.pc = "push"]
    <3>1. inst' = [inst EXCEPT ![i] = r]
      BY <1>1, <1>2, <2>1
    <3>2. r \in InstRows /\ r.jobs = q.jobs /\ r.due = q.due /\ r.scan = q.scan /\ r.st = q.st
          /\ r.pc = "push" /\ r.job = q.job /\ r.fp = q.fp
      BY DEF InstRows
    <3> HIDE DEF r
    <3> QED
      BY <2>1, <3>1, <3>2
  <2>2. CASE Rest(i)
    <3> DEFINE r == [q EXCEPT !.pc = "idle", !.job = NoJob, !.fp = NoBase]
    <3>0. NoBase \in Fps
      BY DEF NoBase, Fps
    <3>1. inst' = [inst EXCEPT ![i] = r]
      BY <1>1, <1>2, <2>2 DEF Rest
    <3>2. r \in InstRows /\ r.jobs = q.jobs /\ r.due = q.due /\ r.scan = q.scan /\ r.st = q.st
          /\ r.pc = "idle" /\ r.job = NoJob
      BY <3>0 DEF InstRows
    <3> HIDE DEF r
    <3> QED
      BY <3>1, <3>2
  <2> QED
    BY <2>1, <2>2 DEF SystemRecordCheckResult
<1>10. /\ inst' \in [Instances' -> InstRows'] /\ inst'[i] = r /\ \A k \in Instances : k # i => inst'[k] = inst[k]
       /\ \A k \in Instances : Waiting(k)' = Waiting(k)
       /\ \A k \in Instances : \A j \in JobsOf(k) : (k = i /\ j = inst[i].job) \/ j \in JobsOf(k)'
       /\ JobsApart' /\ InstancesApart' /\ Resting'
  BY <1>1, <1>2, <1>9, HandSteps
<1>11. CheckTypes'
  BY <1>2, <1>7, <1>10 DEF CheckTypes
\* No other job is of this claim.
<1>12. /\ \A k \in Instances : \A n \in DOMAIN Waiting(k) : ~Same(Waiting(k)[n], q.job)
       /\ \A k \in Instances : k # i => ~Same(inst[k].job, q.job)
  <2>1. l # 0
    BY <1>3, NoJobId
  <2>2. ASSUME NEW k \in Instances, k # i, Same(inst[k].job, q.job) PROVE FALSE
    <3>1. inst[k].job.id # 0
      BY <2>1, <2>2 DEF Same
    <3> QED
      BY <1>1, <1>2, <2>2, <3>1 DEF InstancesApart
  <2>3. ASSUME NEW k \in Instances, NEW n \in DOMAIN Waiting(k) PROVE ~Same(Waiting(k)[n], q.job)
    <3>1. CASE k = i
      BY <1>1, <1>2, <3>1 DEF JobsApart
    <3>2. CASE k # i
      BY <1>1, <1>2, <3>2 DEF InstancesApart
    <3> QED
      BY <3>1, <3>2
  <2> QED
    BY <2>2, <2>3
<1>13. LinksOk'
  BY <1>2, <1>3, <1>4, <1>5, <1>7 DEF LinksOk
<1>14. ASSUME NEW j \in CheckJobs, Fitting(j), ~Same(j, q.job) PROVE Fitting(j)'
  <2>1. j.id \in Links
    BY DEF CheckJobs
  <2> QED
    BY <1>3, <1>7, <1>8, <1>14, <2>1 DEF Fitting, Current, Same
<1>15. WaitOk'
  <2>1. ASSUME NEW k \in Instances, NEW n \in DOMAIN Waiting(k)' PROVE Fitting(Waiting(k)[n])'
    <3>1. PICK j \in CheckJobs : j = Waiting(k)[n]
      BY <1>2, <1>10, <2>1, WaitingType
    <3>2. Fitting(j) /\ ~Same(j, q.job)
      BY <1>2, <1>10, <1>12, <2>1, <3>1 DEF WaitOk
    <3>3. Fitting(j)'
      BY <1>14, <3>2
    <3> QED
      BY <1>10, <3>1, <3>3 DEF Fitting, Current
  <2> QED
    BY <1>2, <2>1 DEF WaitOk
<1>16. HandOk'
  <2> DEFINE Now(j) == link'[j.id].claimed = j.token
             Fits(j) == Now(j) => j.url = link'[j.id].url /\ j.last = link'[j.id].base.fp
             Held(w) == /\ w.pc \in {"idle", "out"} => w.job = NoJob
                        /\ w.pc \in {"fetch", "record", "push"} => w.job \in CheckJobs
                        /\ w.pc \in {"fetch", "record", "push"} /\ Now(w.job) => w.job.id \in begun
                        /\ w.pc \in {"fetch", "record"} => Fits(w.job)
                        /\ w.pc \in {"record", "push"} => w.fp[2] <= page[w.job.url].v
                        /\ w.pc = "record" /\ Now(w.job) => link'[w.job.id].base.fp[2] <= w.fp[2]
  <2>1. ASSUME NEW k \in Instances, k # i PROVE Held(inst[k])
    <3>1. PICK w \in InstRows : w = inst[k]
      BY <1>2
    <3>2. /\ w.pc \in {"idle", "out"} => w.job = NoJob
          /\ w.pc \in {"fetch", "record", "push"} => w.job \in CheckJobs
          /\ w.pc \in {"fetch", "record", "push"} /\ Current(w.job) => w.job.id \in begun
          /\ w.pc \in {"fetch", "record"} => Fitting(w.job)
          /\ w.pc \in {"record", "push"} => w.fp[2] <= page[w.job.url].v
          /\ w.pc = "record" /\ Current(w.job) => link[w.job.id].base.fp[2] <= w.fp[2]
      BY <1>2, <3>1 DEF HandOk
    <3>3. ~Same(w.job, q.job)
      BY <1>12, <2>1, <3>1
    <3>4. w.job \in CheckJobs => w.job.id \in Links
      BY DEF CheckJobs
    <3>5. w.pc \in {"fetch", "record"} => Fits(w.job)
      <4>1. CASE w.pc \in {"fetch", "record"}
        <5>1. PICK j \in CheckJobs : j = w.job
          BY <3>2, <4>1
        <5>2. Fitting(j)'
          BY <1>14, <3>2, <3>3, <4>1, <5>1
        <5> QED
          BY <5>1, <5>2 DEF Fitting, Current
      <4> QED
        BY <4>1
    <3>6. w.pc \in {"fetch", "record", "push"} /\ Now(w.job) => Current(w.job) /\ link'[w.job.id] = link[w.job.id]
      BY <1>3, <1>7, <1>8, <3>2, <3>3, <3>4 DEF Current, Same
    <3>7. Held(w)
      BY <3>2, <3>5, <3>6
    <3> QED
      BY <3>1, <3>7
  <2>2. Held(r)
    BY <1>3, <1>9
  <2>3. \A k \in Instances : Held(inst'[k])
    BY <1>10, <2>1, <2>2
  <2> QED
    BY <1>2, <2>3 DEF HandOk, Fitting, Current
<1>17. ASSUME NEW x \in Tellings, Past(x) PROVE Past(x)'
  <2>1. x.id \in Links
    BY DEF Tellings
  <2>2. link'[x.id].url = x.url /\ link'[x.id].base.fp # NoBase => x.to[2] <= link'[x.id].base.fp[2]
    <3>1. CASE x.id = l
      BY <1>1, <1>2, <1>3, <1>4, <1>5, <1>7, <1>17, <3>1 DEF Past
    <3>2. CASE x.id # l
      BY <1>7, <1>17, <2>1, <3>2 DEF Past
    <3> QED
      BY <3>1, <3>2, SMTT(30)
  <2>3. ASSUME NEW k \in Instances, inst'[k].pc = "record", inst'[k].job.id = x.id, inst'[k].job.url = x.url, Current(inst[k].job)'
        PROVE  x.to[2] <= inst'[k].fp[2]
    <3>1. k # i /\ inst'[k] = inst[k]
      BY <1>9, <1>10, <2>3
    <3>2. Current(inst[k].job)
      BY <1>8, <2>1, <2>3, <3>1 DEF Current
    <3> QED
      BY <1>17, <2>3, <3>1, <3>2 DEF Past
  <2> QED
    BY <1>2, <1>17, <2>2, <2>3 DEF Past
\* What is announced from here on is newer than everything announced before.
<1>18. ASSUME Changed(i), r.pc = "push"
       PROVE  /\ Told(i)' = Told(i) /\ Told(i) \in Tellings /\ Past(Told(i))'
              /\ \A x : Past(x) => x # Told(i)
  <2>0. r.job = q.job /\ r.fp = q.fp
    BY <1>9, <1>18
  <2>1. Told(i)' = Told(i) /\ Told(i) \in Tellings
    BY <1>1, <1>3, <1>10, <2>0 DEF Told, Tellings, CheckJobs
  <2>2. PICK y \in Tellings : y = Told(i) /\ y = Told(i)'
    BY <2>1
  <2>3. y.id = l /\ y.url = q.job.url /\ y.to = q.fp /\ y.from = q.job.last
    BY <1>1, <2>2, SMTT(30) DEF Told
  <2>4. q.fp[2] \in Nat /\ link[l].base.fp[2] \in Nat /\ link[l].base.fp # NoBase /\ link[l].base.fp[2] # q.fp[2]
    BY <1>1, <1>3, <1>4, <1>18, SMTT(30) DEF Changed, Fps, LinkRows
  <2>5. Past(y)'
    <3>1. ASSUME NEW k \in Instances, inst'[k].pc = "record", inst'[k].job.id = y.id, Current(inst[k].job)'
          PROVE  FALSE
      <4>1. k # i /\ inst'[k] = inst[k]
        BY <1>10, <1>18, <3>1
      <4>2. Same(inst[k].job, q.job)
        BY <1>3, <1>8, <2>3, <3>1, <4>1 DEF Current, Same
      <4> QED
        BY <1>12, <4>1, <4>2
    <3> QED
      BY <1>2, <1>3, <1>5, <1>7, <2>3, <2>4, <3>1 DEF Past
  <2>6. ASSUME NEW x, Past(x), x = y PROVE FALSE
    <3>1. x.to[2] <= link[l].base.fp[2]
      BY <1>3, <2>3, <2>4, <2>6 DEF Past
    <3> QED
      BY <1>3, <2>3, <2>4, <2>6, <3>1
  <2> QED
    BY <2>1, <2>2, <2>5, <2>6 DEF Past
<1>19. ToldOk'
  <2>1. \A a \in DOMAIN told : told[a] \in Tellings /\ Past(told[a])
    BY <1>2 DEF ToldOk, CheckTypes
  <2>2. \A a \in DOMAIN told : Past(told[a])'
    BY <1>2, <1>17, <2>1
  <2>3. ASSUME NEW k \in Instances, k # i, Announcing(k)'
        PROVE  Announcing(k) /\ Told(k)' = Told(k) /\ Told(k) \in Tellings /\ Past(Told(k)) /\ Past(Told(k))'
    <3>1. inst'[k] = inst[k] /\ inst[k].pc = "push" /\ inst[k].job \in CheckJobs /\ inst[k].fp \in Fps
      BY <1>2, <1>10, <2>3, HandType DEF Announcing, HandOk
    <3>2. Told(k)' = Told(k) /\ Told(k) \in Tellings /\ Announcing(k)
      BY <3>1 DEF Told, Tellings, CheckJobs, Announcing
    <3>3. PICK x \in Tellings : x = Told(k) /\ x = Told(k)'
      BY <3>2
    <3>4. Past(x)
      BY <1>2, <3>2, <3>3 DEF ToldOk
    <3>5. Past(x)'
      BY <1>17, <3>4
    <3> QED
      BY <3>2, <3>3, <3>4, <3>5 DEF Past
  <2>4. Announcing(i)' => Changed(i) /\ r.pc = "push"
    BY <1>9, <1>10 DEF Announcing
  <2>5. \A k \in Instances : Announcing(k)' => Past(Told(k))' /\ \A a \in DOMAIN told' : told'[a] # Told(k)'
    BY <1>2, <1>18, <2>1, <2>3, <2>4 DEF ToldOk
  <2>6. \A k, m \in Instances : k # m /\ Announcing(k)' /\ Announcing(m)' => Told(k)' # Told(m)'
    BY <1>2, <1>18, <2>3, <2>4 DEF ToldOk
  <2>7. \A a \in DOMAIN told' : Past(told[a])'
    BY <1>2, <2>2
  <2> QED
    BY <1>2, <2>5, <2>6, <2>7 DEF ToldOk, NotifiedOnce
<1>20. ClaimHasHolder'
  <2>1. \A k \in Links : link'[k].claimed # 0 /\ ~link'[k].elapsed /\ k \notin begun' /\ link'[k].on
                         => /\ link'[k].claimed = link[k].claimed /\ ~link[k].elapsed /\ k \notin begun /\ link[k].on
                            /\ \A m \in Instances : \A j \in JobsOf(m) :
                                 j.id = k /\ j.token = link[k].claimed => j \in JobsOf(m)'
    BY <1>1, <1>2, <1>3, <1>8, <1>10
  <2> QED
    BY <1>2, <2>1, HolderKept
<1> QED
  BY <1>10, <1>11, <1>13, <1>15, <1>16, <1>19, <1>20 DEF CheckInv

\* A change is handed to the notifications.
LEMMA QueuePushStep ==
    ASSUME CheckInv, NEW i \in Instances, queuePush(i)
    PROVE  CheckInv'
<1>1. PICK q \in InstRows : q = inst[i] /\ q.fp \in Fps /\ q.job \in CheckJobs \cup {NoJob}
  BY RowOf
<1>2. /\ CheckTypes /\ LinksOk /\ WaitOk /\ HandOk /\ JobsApart /\ InstancesApart /\ ToldOk /\ Resting /\ ClaimHasHolder
      /\ inst \in [Instances -> InstRows]
      /\ Links' = Links /\ Instances' = Instances /\ CheckJobs' = CheckJobs /\ LinkRows' = LinkRows /\ Tellings' = Tellings
      /\ UNCHANGED <<cc, page, link, begun>> /\ q.pc = "push"
  BY <1>1 DEF CheckInv, CheckTypes, queuePush, Links, Instances, CheckJobs, LinkRows, Tellings
<1>3. CASE Rest(i) /\ told' = told
  BY <1>1, <1>2, <1>3, RestStep
<1>4. CASE /\ inst' = [inst EXCEPT ![i].pc = "idle", ![i].job = NoJob, ![i].fp = NoBase, ![i].push = Append(@, Told(i))]
           /\ told' = Append(told, Told(i))
  <2>1. q.job \in CheckJobs /\ (Current(q.job) => q.job.id \in begun)
    BY <1>1, <1>2 DEF HandOk
  <2>2. PICK y \in Tellings : y = Told(i)
    BY <1>1, <2>1 DEF Told, Tellings, CheckJobs
  <2> DEFINE r == [q EXCEPT !.pc = "idle", !.job = NoJob, !.fp = NoBase, !.push = Append(q.push, y)]
  <2>3. NoBase \in Fps /\ q.push \in Seq(Tellings)
    BY DEF NoBase, Fps, InstRows
  <2>3a. Append(q.push, y) \in Seq(Tellings)
    BY <2>3
  <2>4. r \in InstRows /\ r.pc = "idle" /\ r.job = NoJob /\ r.jobs = q.jobs /\ r.due = q.due /\ r.scan = q.scan /\ r.st = q.st
    BY <2>3, <2>3a DEF InstRows
  <2>5. inst' = [inst EXCEPT ![i] = r]
    BY <1>1, <1>2, <1>4, <2>2
  <2> HIDE DEF r
  <2>6. /\ inst' \in [Instances' -> InstRows'] /\ inst'[i] = r /\ \A k \in Instances : k # i => inst'[k] = inst[k]
        /\ \A k \in Instances : Waiting(k)' = Waiting(k)
        /\ \A k \in Instances : \A j \in JobsOf(k) : (k = i /\ j = inst[i].job) \/ j \in JobsOf(k)'
        /\ JobsApart' /\ InstancesApart' /\ Resting'
    BY <1>1, <1>2, <2>4, <2>5, HandSteps
  <2>7. told \in Seq(Tellings) /\ told' = Append(told, y)
    BY <1>2, <1>4, <2>2 DEF CheckTypes
  <2>8. told' \in Seq(Tellings) /\ \A a \in DOMAIN told' : (a \in DOMAIN told /\ told'[a] = told[a])
                                                           \/ (a = Len(told) + 1 /\ told'[a] = y)
    <3>1. ASSUME NEW s \in Seq(Tellings), NEW a \in DOMAIN Append(s, y)
          PROVE  (a \in DOMAIN s /\ Append(s, y)[a] = s[a]) \/ (a = Len(s) + 1 /\ Append(s, y)[a] = y)
      OBVIOUS
    <3>2. PICK s \in Seq(Tellings) : s = told
      BY <2>7
    <3>3. Append(s, y) \in Seq(Tellings) /\ told' = Append(s, y)
      BY <2>7, <3>2
    <3> QED
      BY <3>1, <3>2, <3>3
  <2>9. CheckTypes'
    BY <1>2, <2>6, <2>8 DEF CheckTypes
  <2>10. LinksOk' /\ WaitOk'
    BY <1>2, <2>6 DEF LinksOk, WaitOk, Fitting, Current
  <2>11. HandOk'
    BY <1>2, <2>4, <2>6 DEF HandOk, Fitting, Current
  <2>12. \A k \in Instances : k # i /\ Announcing(k)' => Announcing(k) /\ Told(k)' = Told(k)
    BY <2>6 DEF Announcing, Told
  <2>13. ~Announcing(i)' /\ Announcing(i)
    BY <1>1, <1>2, <2>4, <2>6 DEF Announcing
  <2>14. ASSUME NEW x, Past(x) PROVE Past(x)'
    <3>1. \A k \in Instances : inst'[k].pc = "record" => inst'[k].job = inst[k].job /\ inst'[k].fp = inst[k].fp /\ inst[k].pc = "record"
      BY <2>4, <2>6
    <3> QED
      BY <1>2, <2>14, <3>1, PastStays
  <2>15. ToldOk'
    <3>1. \A a \in DOMAIN told' : Past(told'[a])
      BY <1>2, <2>2, <2>8, <2>13 DEF ToldOk
    <3>2. ASSUME NEW a \in DOMAIN told' PROVE Past(told[a])'
      <4>1. PICK x : x = told'[a]
        OBVIOUS
      <4>2. Past(x)'
        BY <2>14, <3>1, <3>2, <4>1
      <4> QED
        BY <4>1, <4>2 DEF Past
    <3>3. ASSUME NEW k \in Instances, Announcing(k)' PROVE Past(Told(k))' /\ \A a \in DOMAIN told' : told'[a] # Told(k)'
      <4>1. k # i /\ Announcing(k) /\ Told(k)' = Told(k)
        BY <2>12, <2>13, <3>3
      <4>2. PICK x : x = Told(k)
        OBVIOUS
      <4>3. Past(x)'
        BY <1>2, <2>14, <4>1, <4>2 DEF ToldOk
      <4>4. \A a \in DOMAIN told' : told'[a] # Told(k)
        BY <1>2, <2>2, <2>8, <2>13, <4>1 DEF ToldOk
      <4> QED
        BY <4>1, <4>2, <4>3, <4>4 DEF Past
    <3>4. \A k, m \in Instances : k # m /\ Announcing(k)' /\ Announcing(m)' => Told(k)' # Told(m)'
      BY <1>2, <2>12, <2>13 DEF ToldOk
    <3>5. NotifiedOnce'
      <4>1. \A a \in DOMAIN told : told[a] # y
        BY <1>2, <2>2, <2>13 DEF ToldOk
      <4> QED
        BY <1>2, <2>8, <4>1 DEF ToldOk, NotifiedOnce
    <3> QED
      BY <1>2, <3>2, <3>3, <3>4, <3>5 DEF ToldOk
  <2>16. ClaimHasHolder'
    <3>1. \A k \in Links : link'[k].claimed # 0 /\ ~link'[k].elapsed /\ k \notin begun' /\ link'[k].on
                           => /\ link'[k].claimed = link[k].claimed /\ ~link[k].elapsed /\ k \notin begun /\ link[k].on
                              /\ \A m \in Instances : \A j \in JobsOf(m) :
                                   j.id = k /\ j.token = link[k].claimed => j \in JobsOf(m)'
      BY <1>1, <1>2, <2>1, <2>6 DEF Current
    <3> QED
      BY <1>2, <3>1, HolderKept
  <2> QED
    BY <2>6, <2>9, <2>10, <2>11, <2>15, <2>16 DEF CheckInv
<1> QED
  BY <1>3, <1>4 DEF queuePush

\* The values of a function on a finite set are finitely many.
LEMMA FiniteImage ==
    ASSUME NEW S, IsFiniteSet(S), NEW f
    PROVE  IsFiniteSet({f[x] : x \in S})
<1> DEFINE g == [x \in S |-> f[x]]
           T == {f[x] : x \in S}
<1>1. g \in Surjection(S, T)
  BY DEF Surjection
<1> HIDE DEF g, T
<1>2. IsFiniteSet(T)
  BY <1>1, FS_Surjection
<1> QED
  BY <1>2 DEF T

\* There is a stamp that nothing carries.
LEMMA TokenIsNew ==
    ASSUME CheckInv
    PROVE  /\ NewToken \in Nat \ {0} /\ \A l \in Links : link[l].claimed # NewToken
           /\ \A i \in Instances : \A j \in JobsOf(i) : j.token # NewToken
<1>1. CheckTypes /\ cc.links \in Nat /\ cc.instances \in Nat
  BY ChecksAssumption DEF CheckInv, CheckTypes
<1>2. IsFiniteSet(Links) /\ IsFiniteSet(Instances)
  <2>1. IsFiniteSet(1..cc.links) /\ IsFiniteSet(1..cc.instances)
    BY <1>1, FS_Interval, SMTT(30)
  <2> QED
    BY <2>1 DEF Links, Instances
<1> DEFINE C == {link[l].claimed : l \in Links}
           J == UNION {JobsOf(i) : i \in Instances}
           K == {j.token : j \in J}
<1>3. IsFiniteSet(C)
  <2> DEFINE f == [l \in Links |-> link[l].claimed]
  <2>1. IsFiniteSet({f[l] : l \in Links})
    BY <1>2, FiniteImage
  <2>2. C = {f[l] : l \in Links}
    OBVIOUS
  <2> QED
    BY <2>1, <2>2
<1>4. ASSUME NEW i \in Instances PROVE IsFiniteSet(JobsOf(i))
  <2>1. Len(Waiting(i)) \in Nat /\ DOMAIN Waiting(i) = 1..Len(Waiting(i))
    BY <1>1, WaitingType
  <2>2. IsFiniteSet(1..Len(Waiting(i)))
    BY <2>1, FS_Interval
  <2>3. IsFiniteSet({Waiting(i)[n] : n \in DOMAIN Waiting(i)})
    BY <2>1, <2>2, FiniteImage
  <2>4. IsFiniteSet({Waiting(i)[n] : n \in DOMAIN Waiting(i)} \cup {inst[i].job})
    BY <2>3, FS_AddElement
  <2>5. JobsOf(i) = {Waiting(i)[n] : n \in DOMAIN Waiting(i)} \cup {inst[i].job}
    BY <1>1, JobsAre
  <2> QED
    BY <2>4, <2>5
<1>5. IsFiniteSet(J)
  <2> DEFINE f == [i \in Instances |-> JobsOf(i)]
             F == {f[i] : i \in Instances}
  <2>1. IsFiniteSet(F)
    BY <1>2, FiniteImage
  <2>2. F = {JobsOf(i) : i \in Instances}
    OBVIOUS
  <2>3. \A T \in F : IsFiniteSet(T)
    BY <1>4, <2>2
  <2> HIDE DEF F
  <2>4. IsFiniteSet(UNION F)
    BY <2>1, <2>3, FS_UNION
  <2> QED
    BY <2>2, <2>4
<1>6. IsFiniteSet(K)
  <2> HIDE DEF J
  <2> DEFINE f == [j \in J |-> j.token]
  <2>1. IsFiniteSet({f[j] : j \in J})
    BY <1>5, FiniteImage
  <2>2. K = {f[j] : j \in J}
    OBVIOUS
  <2> QED
    BY <2>1, <2>2
<1>7. IsFiniteSet(InUse)
  <2> HIDE DEF C, K
  <2>1. IsFiniteSet(C \cup K)
    BY <1>3, <1>6, FS_Union
  <2> QED
    BY <2>1 DEF C, K, J, InUse
<1> DEFINE N == Cardinality(InUse) + 1
<1>8. N \in Nat /\ N >= 1 /\ N > Cardinality(InUse)
  BY <1>7, FS_CardinalityType
<1>9. \E t \in 1..N : t \notin InUse
  <2>1. SUFFICES ASSUME 1..N \subseteq InUse PROVE FALSE
    OBVIOUS
  <2>2. IsFiniteSet(1..N) /\ Cardinality(1..N) = N
    BY <1>8, FS_Interval
  <2>3. Cardinality(1..N) <= Cardinality(InUse)
    BY <1>7, <2>1, FS_Subset
  <2>4. Cardinality(InUse) \in Nat
    BY <1>7, FS_CardinalityType
  <2> QED
    BY <1>8, <2>2, <2>3, <2>4
<1>10. NewToken \in 1..N /\ NewToken \notin InUse
  BY <1>9 DEF NewToken
<1> QED
  BY <1>8, <1>10 DEF InUse

\* u is t after s, and v is s.
Joins(s, t, u, v) ==
    /\ \A n \in DOMAIN u : (n \in DOMAIN v /\ u[n] = v[n]) \/ (\E k \in DOMAIN t : n = Len(s) + k /\ u[n] = t[k])
    /\ \A n \in DOMAIN v : n \in DOMAIN u /\ u[n] = v[n]
    /\ \A k \in DOMAIN t : Len(s) + k \in DOMAIN u /\ u[Len(s) + k] = t[k]

\* A queue behind one that nothing followed.
LEMMA JoinedQueues ==
    ASSUME NEW s \in Seq(CheckJobs), NEW t \in Seq(CheckJobs)
    PROVE  Joins(s, t, s \o t, s \o <<>>)
<1>1. PICK a, b, u, v : a = Len(s) /\ b = Len(t) /\ u = s \o t /\ v = s \o <<>>
  OBVIOUS
<1>2. a \in Nat /\ b \in Nat /\ DOMAIN t = 1..b /\ DOMAIN u = 1..(a + b) /\ DOMAIN v = 1..a
  BY <1>1
<1>3. \A n \in 1..a : u[n] = v[n]
  BY <1>1
<1>4. \A n \in 1..b : u[a + n] = t[n]
  BY <1>1
<1>5. ASSUME NEW n \in DOMAIN u
      PROVE  (n \in DOMAIN v /\ u[n] = v[n]) \/ (\E k \in DOMAIN t : n = a + k /\ u[n] = t[k])
  <2>1. CASE n \in 1..a
    BY <1>2, <1>3, <2>1
  <2>2. CASE n \notin 1..a
    <3>1. n - a \in 1..b /\ a + (n - a) = n
      BY <1>2, <2>2
    <3> QED
      BY <1>2, <1>4, <3>1
  <2> QED
    BY <2>1, <2>2
<1>6. \A n \in DOMAIN v : n \in DOMAIN u /\ u[n] = v[n]
  BY <1>2, <1>3
<1>7. \A k \in DOMAIN t : a + k \in DOMAIN u /\ u[a + k] = t[k]
  BY <1>2, <1>4
<1>8. Joins(s, t, u, v)
  BY <1>1, <1>5, <1>6, <1>7, Zenon DEF Joins
<1> QED
  BY <1>1, <1>8, Zenon

\* What a scan's statement does: the links that are claimed, and a job for each.
LEMMA ClaimEffects ==
    ASSUME CheckInv, NEW i \in Instances, SystemClaimDueForCheck(i)
    PROVE  \E r \in InstRows, claim \in SUBSET Links :
              /\ inst[i].scan = "idle" /\ inst[i].st = "up" /\ inst' = [inst EXCEPT ![i] = r]
              /\ r.jobs = inst[i].jobs /\ r.job = inst[i].job /\ r.pc = inst[i].pc /\ r.fp = inst[i].fp
              /\ r.st = "up" /\ r.scan = "queue"
              /\ link' = [l \in Links |-> IF l \in claim THEN [link[l] EXCEPT !.claimed = NewToken, !.elapsed = FALSE] ELSE link[l]]
              /\ begun' = begun \ claim
              /\ \A k \in DOMAIN r.due :
                    /\ r.due[k].id \in claim /\ r.due[k].url = link[r.due[k].id].url
                    /\ r.due[k].last = link[r.due[k].id].base.fp /\ r.due[k].token = NewToken
              /\ \A k, m \in DOMAIN r.due : k # m => r.due[k].id # r.due[m].id
              /\ \A l \in claim : \E k \in DOMAIN r.due : r.due[k].id = l
<1> DEFINE D == {l \in Links : Due(l)}
           room == cc.room - Len(inst[i].jobs)
           count == IF Cardinality(D) < room THEN Cardinality(D) ELSE room
           Job(l) == [id |-> l, url |-> link[l].url, last |-> link[l].base.fp, token |-> NewToken]
<1>1. PICK row \in Injection(1..count, D) :
        /\ link' = [l \in Links |-> IF l \in Range(row) THEN [link[l] EXCEPT !.claimed = NewToken, !.elapsed = FALSE]
                                   ELSE link[l]]
        /\ inst' = [inst EXCEPT ![i].scan = "queue", ![i].due = [k \in 1..count |-> Job(row[k])]]
        /\ begun' = begun \ Range(row)
  BY DEF SystemClaimDueForCheck
<1>2. PICK q \in InstRows : q = inst[i] /\ q.jobs \in Seq(CheckJobs)
  BY RowOf
<1>3. inst[i].scan = "idle" /\ inst[i].st = "up" /\ count > 0
  BY DEF SystemClaimDueForCheck
<1>4. cc.room \in Nat /\ cc.links \in Nat
  BY ChecksAssumption DEF CheckInv, CheckTypes
<1>5. count \in Nat
  <2>1. IsFiniteSet(1..cc.links)
    BY <1>4, FS_Interval
  <2>2. IsFiniteSet(D)
    BY <2>1, FS_Subset DEF Links
  <2>3. Cardinality(D) \in Nat
    BY <2>2, FS_CardinalityType
  <2>4. Len(inst[i].jobs) \in Nat
    BY <1>2
  <2> QED
    BY <1>3, <1>4, <2>3, <2>4
<1> HIDE DEF count
<1>6. row \in [1..count -> D] /\ \A a, b \in 1..count : row[a] = row[b] => a = b
  BY <1>1 DEF Injection, IsInjective
<1>7. Range(row) \subseteq Links /\ \A l \in Range(row) : \E k \in 1..count : row[k] = l
  BY <1>6 DEF Range
<1>7a. \A k \in 1..count : row[k] \in Range(row) /\ row[k] \in Links
  BY <1>6 DEF Range
<1>8. NewToken \in Nat \ {0}
  BY TokenIsNew
<1> DEFINE new == [k \in 1..count |-> Job(row[k])]
<1>9. new \in Seq(CheckJobs)
  <2>1. ASSUME NEW k \in 1..count PROVE Job(row[k]) \in CheckJobs
    <3>1. PICK w \in LinkRows : w = link[row[k]]
      BY <1>7a DEF CheckInv, CheckTypes
    <3> QED
      BY <1>7a, <1>8, <3>1 DEF CheckJobs, LinkRows
  <2> HIDE DEF Job
  <2> QED
    BY <1>5, <2>1
<1>10. DOMAIN new = 1..count /\ \A k \in 1..count : /\ new[k].id = row[k] /\ new[k].url = link[row[k]].url
                                                   /\ new[k].last = link[row[k]].base.fp /\ new[k].token = NewToken
  OBVIOUS
<1>11. inst' = [inst EXCEPT ![i].scan = "queue", ![i].due = new]
  BY <1>1
<1> HIDE DEF new
<1> DEFINE r == [q EXCEPT !.scan = "queue", !.due = new]
<1>12. r \in InstRows /\ r.jobs = q.jobs /\ r.job = q.job /\ r.pc = q.pc /\ r.fp = q.fp /\ r.st = q.st /\ r.scan = "queue"
       /\ r.due = new
  BY <1>9 DEF InstRows
<1>13. inst' = [inst EXCEPT ![i] = r]
  BY <1>2, <1>11 DEF CheckInv, CheckTypes
<1> HIDE DEF r
<1> DEFINE claim == Range(row)
<1>14. claim \in SUBSET Links /\ begun' = begun \ claim
       /\ link' = [l \in Links |-> IF l \in claim THEN [link[l] EXCEPT !.claimed = NewToken, !.elapsed = FALSE] ELSE link[l]]
  BY <1>1, <1>7
<1>15. /\ \A k \in 1..count : row[k] \in claim
       /\ \A l \in claim : \E k \in 1..count : row[k] = l
  BY <1>7, <1>7a
<1> HIDE DEF claim
<1>16. /\ \A k \in DOMAIN r.due :
             /\ r.due[k].id \in claim /\ r.due[k].url = link[r.due[k].id].url
             /\ r.due[k].last = link[r.due[k].id].base.fp /\ r.due[k].token = NewToken
       /\ \A k, m \in DOMAIN r.due : k # m => r.due[k].id # r.due[m].id
       /\ \A l \in claim : \E k \in DOMAIN r.due : r.due[k].id = l
  BY <1>6, <1>10, <1>12, <1>15
<1>17. r.jobs = inst[i].jobs /\ r.job = inst[i].job /\ r.pc = inst[i].pc /\ r.fp = inst[i].fp /\ r.st = "up" /\ r.scan = "queue"
  BY <1>2, <1>3, <1>12
<1> QED
  BY <1>3, <1>12, <1>13, <1>14, <1>16, <1>17, ZenonT(60)

\* A scan claims what is due, under a stamp that nothing carries.
LEMMA ClaimStep ==
    ASSUME CheckInv, NEW i \in Instances, SystemClaimDueForCheck(i)
    PROVE  CheckInv'
<1>1. PICK r \in InstRows, claim \in SUBSET Links :
        /\ inst[i].scan = "idle" /\ inst[i].st = "up" /\ inst' = [inst EXCEPT ![i] = r]
        /\ r.jobs = inst[i].jobs /\ r.job = inst[i].job /\ r.pc = inst[i].pc /\ r.fp = inst[i].fp
        /\ r.st = "up" /\ r.scan = "queue"
        /\ link' = [l \in Links |-> IF l \in claim THEN [link[l] EXCEPT !.claimed = NewToken, !.elapsed = FALSE] ELSE link[l]]
        /\ begun' = begun \ claim
        /\ \A k \in DOMAIN r.due :
              /\ r.due[k].id \in claim /\ r.due[k].url = link[r.due[k].id].url
              /\ r.due[k].last = link[r.due[k].id].base.fp /\ r.due[k].token = NewToken
        /\ \A k, m \in DOMAIN r.due : k # m => r.due[k].id # r.due[m].id
        /\ \A l \in claim : \E k \in DOMAIN r.due : r.due[k].id = l
  BY ClaimEffects, ZenonT(60)
<1>2. PICK q \in InstRows : /\ q = inst[i] /\ Waiting(i) = Both(q) /\ q.jobs \in Seq(CheckJobs)
                            /\ q.job \in CheckJobs \cup {NoJob} /\ q.due = <<>>
  <2>1. \E q \in InstRows : /\ q = inst[i] /\ Waiting(i) = Both(q) /\ q.jobs \in Seq(CheckJobs)
                            /\ q.job \in CheckJobs \cup {NoJob} /\ (q.scan \in {"idle", "out"} => q.due = <<>>)
    BY RowOf
  <2> QED
    BY <1>1, <2>1
<1>3. /\ CheckTypes /\ LinksOk /\ WaitOk /\ HandOk /\ JobsApart /\ InstancesApart /\ ToldOk /\ Resting /\ ClaimHasHolder
      /\ inst \in [Instances -> InstRows] /\ link \in [Links -> LinkRows]
      /\ Links' = Links /\ Instances' = Instances /\ CheckJobs' = CheckJobs /\ LinkRows' = LinkRows /\ Tellings' = Tellings
      /\ UNCHANGED <<cc, page, told>>
  BY DEF CheckInv, CheckTypes, SystemClaimDueForCheck, Links, Instances, CheckJobs, LinkRows, Tellings
<1> DEFINE T == NewToken
<1>4. /\ T \in Nat \ {0} /\ \A l \in Links : link[l].claimed # T
      /\ \A k \in Instances : \A j \in JobsOf(k) : j.token # T
  BY TokenIsNew
<1>5. /\ inst' \in [Instances' -> InstRows'] /\ inst'[i] = r /\ \A k \in Instances : k # i => inst'[k] = inst[k]
      /\ Waiting(i)' = Both(r)
      /\ \A n : n \in JobsOf(i)' <=> n = r.job \/ \E m \in DOMAIN Both(r) : n = Both(r)[m]
      /\ \A k \in Instances : k # i => Waiting(k)' = Waiting(k) /\ JobsOf(k)' = JobsOf(k)
  BY <1>1, <1>3, InstanceSteps, ZenonT(60)
<1> HIDE DEF T
<1>6. ASSUME NEW l \in Links
      PROVE  /\ link'[l] \in LinkRows /\ link'[l].url = link[l].url /\ link'[l].on = link[l].on /\ link'[l].base = link[l].base
             /\ l \in claim => link'[l].claimed = T /\ ~link'[l].elapsed
             /\ l \notin claim => link'[l] = link[l]
  <2>1. PICK w \in LinkRows : w = link[l]
    BY <1>3
  <2> DEFINE z == [w EXCEPT !.claimed = T, !.elapsed = FALSE]
  <2>2. z \in LinkRows /\ z.url = w.url /\ z.on = w.on /\ z.base = w.base /\ z.claimed = T /\ z.elapsed = FALSE
    BY <1>4 DEF LinkRows
  <2>3. link'[l] = IF l \in claim THEN z ELSE w
    BY <1>1, <2>1 DEF T
  <2> HIDE DEF z
  <2> QED
    BY <2>1, <2>2, <2>3
<1>7. link' \in [Links -> LinkRows]
  BY <1>1, <1>6
<1>8. CheckTypes'
  BY <1>3, <1>5, <1>7 DEF CheckTypes
\* What waits: what waited, and a job for each link that was claimed.
<1>9. r.due \in Seq(CheckJobs) /\ q.jobs \in Seq(CheckJobs) /\ r.jobs = q.jobs
  BY <1>1, <1>2 DEF InstRows
<1>10. /\ \A n \in DOMAIN Both(r) : (n \in DOMAIN Both(q) /\ Both(r)[n] = Both(q)[n])
                                    \/ (\E k \in DOMAIN r.due : n = Len(q.jobs) + k /\ Both(r)[n] = r.due[k])
       /\ \A n \in DOMAIN Both(q) : n \in DOMAIN Both(r) /\ Both(r)[n] = Both(q)[n]
       /\ \A k \in DOMAIN r.due : \E n \in DOMAIN Both(r) : Both(r)[n] = r.due[k]
  <2>1. Both(r) = q.jobs \o r.due /\ Both(q) = q.jobs \o <<>>
    BY <1>2, <1>9, Zenon DEF Both
  <2>2. Joins(q.jobs, r.due, q.jobs \o r.due, q.jobs \o <<>>)
    BY <1>9, JoinedQueues, Zenon
  <2>3. Joins(q.jobs, r.due, Both(r), Both(q))
    BY <2>1, <2>2, Zenon
  <2> QED
    BY <2>3 DEF Joins
<1>11. /\ \A k \in DOMAIN r.due : /\ r.due[k].token = T /\ r.due[k].id \in claim /\ r.due[k].id \in Links
                                  /\ r.due[k].url = link[r.due[k].id].url /\ r.due[k].last = link[r.due[k].id].base.fp
       /\ \A k, m \in DOMAIN r.due : k # m => ~Same(r.due[k], r.due[m])
  BY <1>1 DEF T, Same
\* The jobs there were are of other stamps.
<1>12. /\ \A k \in Instances : inst[k].job.token # T
       /\ \A k \in Instances : \A n \in DOMAIN Waiting(k) : Waiting(k)[n].token # T
  BY <1>3, <1>4, JobsAre
<1>13. ASSUME NEW j \in CheckJobs, j.token # T, link'[j.id].claimed = j.token
       PROVE  Current(j) /\ link'[j.id] = link[j.id]
  <2>1. j.id \in Links
    BY DEF CheckJobs
  <2> QED
    BY <1>6, <1>13, <2>1 DEF Current
<1>14. LinksOk'
  BY <1>3, <1>6 DEF LinksOk
<1>15. WaitOk'
  <2>1. ASSUME NEW j \in CheckJobs, Fitting(j), j.token # T PROVE Fitting(j)'
    BY <1>13, <2>1 DEF Fitting, Current
  <2>2. ASSUME NEW k \in Instances, NEW n \in DOMAIN Waiting(k) PROVE Fitting(Waiting(k)[n]) /\ Waiting(k)[n] \in CheckJobs
    BY <1>3, WaitingType DEF WaitOk
  <2>3. ASSUME NEW k \in Instances, NEW n \in DOMAIN Waiting(k)'
        PROVE  \E j \in CheckJobs : j = Waiting(k)'[n] /\ Fitting(j)'
    <3>1. CASE k = i
      <4>1. CASE n \in DOMAIN Both(q) /\ Both(r)[n] = Both(q)[n]
        BY <1>2, <1>5, <1>12, <2>1, <2>2, <3>1, <4>1
      <4>2. CASE \E m \in DOMAIN r.due : n = Len(q.jobs) + m /\ Both(r)[n] = r.due[m]
        <5>1. PICK m \in DOMAIN r.due : Both(r)[n] = r.due[m]
          BY <4>2
        <5>2. PICK j \in CheckJobs : j = r.due[m]
          BY <1>9
        <5>3. Fitting(j)'
          BY <1>6, <1>11, <5>2 DEF Fitting
        <5> QED
          BY <1>5, <3>1, <5>1, <5>2, <5>3
      <4> QED
        BY <1>5, <1>10, <2>3, <3>1, <4>1, <4>2
    <3>2. CASE k # i
      BY <1>5, <1>12, <2>1, <2>2, <2>3, <3>2
    <3> QED
      BY <3>1, <3>2
  <2>4. \A k \in Instances : \A n \in DOMAIN Waiting(k)' : Fitting(Waiting(k)[n])'
    BY <2>3, SMTT(30) DEF Fitting, Current
  <2> QED
    BY <1>3, <2>4 DEF WaitOk
<1>16. \A k \in Instances : inst'[k].job = inst[k].job /\ inst'[k].pc = inst[k].pc /\ inst'[k].fp = inst[k].fp
  BY <1>1, <1>5
<1>17. HandOk'
  <2> DEFINE Now(j) == link'[j.id].claimed = j.token
             Fits(j) == Now(j) => j.url = link'[j.id].url /\ j.last = link'[j.id].base.fp
             Held(w) == /\ w.pc \in {"idle", "out"} => w.job = NoJob
                        /\ w.pc \in {"fetch", "record", "push"} => w.job \in CheckJobs
                        /\ w.pc \in {"fetch", "record", "push"} /\ Now(w.job) => w.job.id \in begun'
                        /\ w.pc \in {"fetch", "record"} => Fits(w.job)
                        /\ w.pc \in {"record", "push"} => w.fp[2] <= page[w.job.url].v
                        /\ w.pc = "record" /\ Now(w.job) => link'[w.job.id].base.fp[2] <= w.fp[2]
  <2>1. ASSUME NEW k \in Instances PROVE Held(inst[k])
    <3>1. PICK w \in InstRows : w = inst[k]
      BY <1>3
    <3>2. /\ w.pc \in {"idle", "out"} => w.job = NoJob
          /\ w.pc \in {"fetch", "record", "push"} => w.job \in CheckJobs
          /\ w.pc \in {"fetch", "record", "push"} /\ Current(w.job) => w.job.id \in begun
          /\ w.pc \in {"fetch", "record"} => Fitting(w.job)
          /\ w.pc \in {"record", "push"} => w.fp[2] <= page[w.job.url].v
          /\ w.pc = "record" /\ Current(w.job) => link[w.job.id].base.fp[2] <= w.fp[2]
      BY <1>3, <3>1 DEF HandOk
    <3>3. w.job.token # T
      BY <1>12, <3>1
    <3>4. w.pc \in {"fetch", "record", "push"} /\ Now(w.job)
          => Current(w.job) /\ link'[w.job.id] = link[w.job.id] /\ w.job.id \notin claim
      <4>1. ASSUME w.job \in CheckJobs, Now(w.job) PROVE Current(w.job) /\ link'[w.job.id] = link[w.job.id] /\ w.job.id \notin claim
        <5>1. w.job.id \in Links
          BY <4>1, SMTT(30) DEF CheckJobs
        <5> QED
          BY <1>6, <3>3, <4>1, <5>1 DEF Current
      <4> QED
        BY <3>2, <4>1
    <3>5. Held(w)
      BY <1>1, <3>2, <3>4 DEF Fitting
    <3> QED
      BY <3>1, <3>5
  <2>2. \A k \in Instances : Held(inst'[k])
    BY <1>16, <2>1
  <2>3. \A k \in Instances : /\ inst'[k].pc \in {"idle", "out"} => inst'[k].job = NoJob
                             /\ inst'[k].pc \in {"fetch", "record", "push"} => inst'[k].job \in CheckJobs
                             /\ inst'[k].pc \in {"fetch", "record", "push"} /\ Now(inst'[k].job) => inst'[k].job.id \in begun'
                             /\ inst'[k].pc \in {"fetch", "record"} => Fits(inst'[k].job)
                             /\ inst'[k].pc \in {"record", "push"} => inst'[k].fp[2] <= page[inst'[k].job.url].v
                             /\ inst'[k].pc = "record" /\ Now(inst'[k].job) => link'[inst'[k].job.id].base.fp[2] <= inst'[k].fp[2]
    BY <2>2
  <2> QED
    BY <1>3, <2>3 DEF HandOk, Fitting, Current
<1>18. JobsApart'
  <2>1. ASSUME NEW k \in Instances, NEW a \in DOMAIN Waiting(k)'
        PROVE  /\ ~Same(Waiting(k)'[a], inst'[k].job)
               /\ \A b \in DOMAIN Waiting(k)' : a # b => ~Same(Waiting(k)'[a], Waiting(k)'[b])
    <3>1. CASE k = i
      <4>1. \A n \in DOMAIN Both(q) : ~Same(Both(q)[n], inst[i].job) /\ Both(q)[n].token # T
        BY <1>2, <1>3, <1>12 DEF JobsApart
      <4>2. ~Same(Both(r)[a], r.job)
        <5>1. a \in DOMAIN Both(r) /\ r.job = inst[i].job /\ r.job.token # T
          BY <1>1, <1>5, <1>12, <2>1, <3>1
        <5>2. CASE a \in DOMAIN Both(q) /\ Both(r)[a] = Both(q)[a]
          BY <4>1, <5>1, <5>2
        <5>3. CASE \E m \in DOMAIN r.due : a = Len(q.jobs) + m /\ Both(r)[a] = r.due[m]
          BY <1>11, <5>1, <5>3 DEF Same
        <5> QED
          BY <1>10, <5>1, <5>2, <5>3, SMTT(30)
      <4>3. ASSUME NEW b \in DOMAIN Both(r), a # b PROVE ~Same(Both(r)[a], Both(r)[b])
        <5>1. CASE a \in DOMAIN Both(q) /\ Both(r)[a] = Both(q)[a] /\ b \in DOMAIN Both(q) /\ Both(r)[b] = Both(q)[b]
          BY <1>2, <1>3, <4>3, <5>1 DEF JobsApart
        <5>2. CASE /\ \E k1 \in DOMAIN r.due : a = Len(q.jobs) + k1 /\ Both(r)[a] = r.due[k1]
                   /\ \E k1 \in DOMAIN r.due : b = Len(q.jobs) + k1 /\ Both(r)[b] = r.due[k1]
          BY <1>11, <4>3, <5>2
        <5>3. CASE /\ a \in DOMAIN Both(q) /\ Both(r)[a] = Both(q)[a]
                   /\ \E k1 \in DOMAIN r.due : b = Len(q.jobs) + k1 /\ Both(r)[b] = r.due[k1]
          BY <1>11, <4>1, <5>3 DEF Same
        <5>4. CASE /\ b \in DOMAIN Both(q) /\ Both(r)[b] = Both(q)[b]
                   /\ \E k1 \in DOMAIN r.due : a = Len(q.jobs) + k1 /\ Both(r)[a] = r.due[k1]
          BY <1>11, <4>1, <5>4 DEF Same
        <5> QED
          BY <1>5, <1>10, <2>1, <3>1, <4>3, <5>1, <5>2, <5>3, <5>4
      <4> QED
        BY <1>5, <3>1, <4>2, <4>3
    <3>2. CASE k # i
      BY <1>3, <1>5, <2>1, <3>2 DEF JobsApart
    <3> QED
      BY <3>1, <3>2
  <2> QED
    BY <1>3, <2>1 DEF JobsApart, Same
<1>19. InstancesApart'
  <2>1. ASSUME NEW k \in Instances, k # i
        PROVE  \A a \in DOMAIN Both(r) : /\ ~Same(Both(r)[a], inst[k].job)
                                         /\ \A b \in DOMAIN Waiting(k) : /\ ~Same(Both(r)[a], Waiting(k)[b])
                                                                         /\ ~Same(Waiting(k)[b], Both(r)[a])
    BY <1>2, <1>3, <1>10, <1>11, <1>12, <2>1 DEF InstancesApart, Same
  <2>2. ASSUME NEW k \in Instances, NEW m \in Instances, k # m
        PROVE  /\ inst'[k].job.id # 0 => ~Same(inst'[k].job, inst'[m].job)
               /\ \A a \in DOMAIN Waiting(k)' :
                     /\ ~Same(Waiting(k)'[a], inst'[m].job)
                     /\ \A b \in DOMAIN Waiting(m)' : ~Same(Waiting(k)'[a], Waiting(m)'[b])
    <3>0. inst'[k].job = inst[k].job /\ inst'[m].job = inst[m].job /\ (inst[k].job.id # 0 => ~Same(inst[k].job, inst[m].job))
      BY <1>3, <1>16, <2>2 DEF InstancesApart
    <3>1. CASE k = i
      BY <1>5, <2>1, <2>2, <3>0, <3>1
    <3>2. CASE m = i
      <4>1. \A a \in DOMAIN Waiting(k) : ~Same(Waiting(k)[a], inst[i].job)
        BY <1>3, <2>2, <3>2 DEF InstancesApart
      <4> QED
        BY <1>5, <2>1, <2>2, <3>0, <3>2, <4>1
    <3>3. CASE k # i /\ m # i
      BY <1>3, <1>5, <2>2, <3>3 DEF InstancesApart
    <3> QED
      BY <3>1, <3>2, <3>3
  <2> QED
    BY <1>3, <2>2 DEF InstancesApart, Same
<1>20. ASSUME NEW x \in Tellings, Past(x) PROVE Past(x)'
  <2>1. x.id \in Links
    BY DEF Tellings
  <2>2. ASSUME NEW k \in Instances, inst'[k].pc = "record", inst'[k].job.id = x.id, inst'[k].job.url = x.url, Current(inst[k].job)'
        PROVE  x.to[2] <= inst'[k].fp[2]
    <3>1. inst[k].job.token # T /\ inst[k].pc = "record" /\ inst[k].job = inst'[k].job /\ inst'[k].fp = inst[k].fp
      BY <1>12, <1>16, <2>2
    <3>2. Current(inst[k].job)
      BY <1>6, <2>1, <2>2, <3>1 DEF Current
    <3> QED
      BY <1>20, <2>2, <3>1, <3>2 DEF Past
  <2> QED
    BY <1>3, <1>6, <1>20, <2>1, <2>2 DEF Past
<1>21. ToldOk'
  <2>1. \A a \in DOMAIN told : told[a] \in Tellings /\ Past(told[a])
    BY <1>3 DEF ToldOk, CheckTypes
  <2>2. \A a \in DOMAIN told' : Past(told[a])'
    BY <1>3, <1>20, <2>1
  <2>3. ASSUME NEW k \in Instances, Announcing(k)'
        PROVE  Announcing(k) /\ Told(k)' = Told(k) /\ Past(Told(k))'
    <3>1. inst[k].pc = "push" /\ inst[k].job \in CheckJobs /\ inst[k].fp \in Fps
      BY <1>3, <1>16, <2>3, HandType DEF Announcing, HandOk
    <3>2. Told(k)' = Told(k) /\ Told(k) \in Tellings /\ Announcing(k)
      BY <1>16, <3>1 DEF Told, Tellings, CheckJobs, Announcing
    <3>3. PICK x \in Tellings : x = Told(k) /\ x = Told(k)'
      BY <3>2
    <3>4. Past(x)'
      BY <1>3, <1>20, <3>2, <3>3, SMTT(30) DEF ToldOk
    <3> QED
      BY <3>2, <3>3, <3>4 DEF Past
  <2> QED
    BY <1>3, <2>2, <2>3 DEF ToldOk, NotifiedOnce
<1>22. Resting'
  BY <1>1, <1>3, <1>5, ZenonT(60) DEF Resting
<1>23. ClaimHasHolder'
  <2>0. \A k \in Instances : \A j \in JobsOf(k) : j \in JobsOf(k)'
    <3>1. \A n : n \in JobsOf(i) <=> n = q.job \/ \E m \in DOMAIN Both(q) : n = Both(q)[m]
      BY <1>2, <1>3, JobsAre
    <3>2. ASSUME NEW j \in JobsOf(i) PROVE j \in JobsOf(i)'
      <4>1. CASE j = q.job
        BY <1>1, <1>2, <1>5, <4>1
      <4>2. CASE \E m \in DOMAIN Both(q) : j = Both(q)[m]
        <5>1. PICK m \in DOMAIN Both(q) : j = Both(q)[m]
          BY <4>2
        <5>2. m \in DOMAIN Both(r) /\ j = Both(r)[m]
          BY <1>10, <5>1
        <5> QED
          BY <1>5, <5>2
      <4> QED
        BY <3>1, <3>2, <4>1, <4>2
    <3> QED
      BY <1>5, <3>2
  <2>1. ASSUME NEW l \in Links, link'[l].claimed # 0, ~link'[l].elapsed, l \notin begun', link'[l].on
        PROVE  \E k \in Instances : \E j \in JobsOf(k)' : j.id = l /\ j.token = link'[l].claimed
    <3>1. CASE l \in claim
      <4>1. PICK m \in DOMAIN r.due : r.due[m].id = l
        BY <1>1, <3>1
      <4>2. r.due[m] \in JobsOf(i)'
        BY <1>5, <1>10, <4>1
      <4> QED
        BY <1>6, <1>11, <3>1, <4>1, <4>2, SMTT(30)
    <3>2. CASE l \notin claim
      <4>1. link'[l] = link[l] /\ l \notin begun
        BY <1>1, <1>6, <2>1, <3>2
      <4>2. PICK k \in Instances : \E j \in JobsOf(k) : j.id = l /\ j.token = link[l].claimed
        BY <1>3, <2>1, <4>1 DEF ClaimHasHolder, OnItsWay
      <4> QED
        BY <2>0, <4>1, <4>2, SMTT(30)
    <3> QED
      BY <3>1, <3>2
  <2> QED
    BY <1>3, <2>1 DEF ClaimHasHolder, OnItsWay
<1> QED
  BY <1>8, <1>14, <1>15, <1>17, <1>18, <1>19, <1>21, <1>22, <1>23, SMTT(40) DEF CheckInv

\* A claim whose answer is lost is nobody's, and its links are known for that.
LEMMA LostStep ==
    ASSUME CheckInv, claimLost
    PROVE  CheckInv'
<1>1. PICK lost \in SUBSET Links :
        /\ link' = [l \in Links |-> IF l \in lost THEN [link[l] EXCEPT !.claimed = NewToken, !.elapsed = FALSE] ELSE link[l]]
        /\ begun' = begun \cup lost
  BY DEF claimLost
<1>2. UNCHANGED <<cc, page, inst, told>> /\ CheckTypes /\ link \in [Links -> LinkRows]
  BY DEF claimLost, CheckInv, CheckTypes
<1>3. PICK k \in Nat : k = NewToken /\ \A i \in Instances : \A j \in JobsOf(i) : j.token # k
  BY TokenIsNew
<1>4. ASSUME NEW l \in Links
      PROVE  /\ link'[l] \in LinkRows /\ LinkKept(l)
             /\ l \notin lost => link'[l] = link[l]
  <2>1. PICK row \in LinkRows : row = link[l]
    BY <1>2
  <2> DEFINE new == [row EXCEPT !.claimed = k, !.elapsed = FALSE]
  <2>2. new \in LinkRows /\ new.claimed = k /\ new.url = row.url /\ new.on = row.on /\ new.base = row.base
    BY DEF LinkRows
  <2>3. link'[l] = IF l \in lost THEN new ELSE row
    BY <1>1, <1>3, <2>1
  <2> HIDE DEF new
  <2> QED
    BY <1>3, <2>1, <2>2, <2>3 DEF LinkKept
<1>5. link' \in [Links -> LinkRows]
  BY <1>1, <1>4
<1>6. page' \in [Urls -> [v : Nat, feed : BOOLEAN]] /\ \A u \in Urls : page[u].v <= page'[u].v
  BY <1>2 DEF CheckTypes
<1>7. begun \subseteq begun'
  BY <1>1
<1>8. \A l \in Links : link'[l].claimed # 0 /\ ~link'[l].elapsed /\ l \notin begun' /\ link'[l].on
                       => link'[l].claimed = link[l].claimed /\ ~link[l].elapsed /\ link[l].on
  BY <1>1, <1>4
<1> QED
  BY <1>2, <1>4, <1>5, <1>6, <1>7, <1>8, RowsStep

\* No check has begun.
LEMMA CheckStart == CheckInit => CheckInv
<1> SUFFICES ASSUME CheckInit PROVE CheckInv
  OBVIOUS
<1>0. NoBase \in Fps /\ <<"content", 1>> \in Fps /\ <<>> \in Seq(CheckJobs) /\ <<>> \in Seq(Tellings)
      /\ <<"content", 1>>[2] = 1
  BY DEF NoBase, Fps
<1>1. /\ cc \in CheckScenarios /\ told = <<>> /\ begun = {}
      /\ \A l \in Links : link[l] = [url |-> "u1", on |-> TRUE, locked |-> FALSE, active |-> TRUE, claimed |-> 0, elapsed |-> FALSE,
                                     base |-> [url |-> "u1", fp |-> <<"content", 1>>]]
      /\ page = [u \in Urls |-> [v |-> 1, feed |-> FALSE]]
      /\ inst = [k \in Instances |-> Fresh]
      /\ DOMAIN link = Links /\ link = [l \in Links |-> link[l]]
  BY DEF CheckInit
<1>2. ASSUME NEW l \in Links
      PROVE  /\ link[l] \in LinkRows /\ link[l].claimed = 0 /\ link[l].url = "u1" /\ link[l].on
             /\ link[l].base.url = "u1" /\ link[l].base.fp[2] = 1
  <2> DEFINE b == [url |-> "u1", fp |-> <<"content", 1>>]
  <2>1. b \in [url : Urls, fp : Fps] /\ b.url = "u1" /\ b.fp[2] = 1
    BY <1>0 DEF Urls
  <2>2. link[l] = [url |-> "u1", on |-> TRUE, locked |-> FALSE, active |-> TRUE, claimed |-> 0, elapsed |-> FALSE, base |-> b]
    BY <1>1
  <2> HIDE DEF b
  <2> QED
    BY <2>1, <2>2 DEF LinkRows, Urls
<1>3. Fresh \in InstRows /\ Fresh.jobs = <<>> /\ Fresh.due = <<>> /\ Fresh.job = NoJob /\ Fresh.pc = "idle" /\ Fresh.st = "up"
  BY <1>0 DEF Fresh, InstRows
<1>4. CheckTypes
  BY <1>0, <1>1, <1>2, <1>3 DEF CheckTypes
<1>5. DOMAIN Both(Fresh) = {}
  BY <1>3, FirstQueue DEF Both
<1>6. \A k \in Instances : inst[k] = Fresh /\ Waiting(k) = Both(Fresh)
  BY <1>1 DEF Waiting
<1>7. LinksOk
  BY <1>1, <1>2 DEF LinksOk, Urls
<1>8. WaitOk /\ HandOk /\ JobsApart /\ Resting
  BY <1>3, <1>5, <1>6 DEF WaitOk, HandOk, JobsApart, Resting
<1>9. InstancesApart
  BY <1>3, <1>5, <1>6, NoJobId DEF InstancesApart
<1>10. ToldOk
  BY <1>1, <1>3, <1>6 DEF ToldOk, Announcing, NotifiedOnce
<1>11. ClaimHasHolder
  BY <1>2 DEF ClaimHasHolder
<1> QED
  BY <1>4, <1>7, <1>8, <1>9, <1>10, <1>11 DEF CheckInv

\* Every step keeps the invariant.
LEMMA CheckStep ==
    ASSUME CheckInv, [CheckNext]_checkVars
    PROVE  CheckInv'
<1>1. ASSUME NEW i \in Instances, superseded(i) \/ jobEnds(i) PROVE CheckInv'
  <2>1. Rest(i) /\ inst[i].pc \in {"fetch", "record", "push"} /\ UNCHANGED <<cc, link, page, told, begun>>
    BY <1>1 DEF superseded, jobEnds
  <2> QED
    BY <2>1, RestStep
<1>2. ASSUME NEW i \in Instances, SystemClaimDueForCheck(i) \/ Act(i) \/ jobEnds(i) \/ cancel(i) \/ crash(i) PROVE CheckInv'
  BY <1>1, <1>2, ClaimStep, QuietStep, ScanStopsStep, ReceiveStep, FetchStep, RecordStep, QueuePushStep, EndStep DEF Act
<1>3. CASE UNCHANGED checkVars
  <2>1. UNCHANGED <<cc, link, page, inst, told, begun>>
    BY <1>3 DEF checkVars
  <2>2. link' \in [Links -> LinkRows] /\ page' \in [Urls -> [v : Nat, feed : BOOLEAN]] /\ \A u \in Urls : page[u].v <= page'[u].v
    BY <2>1 DEF CheckInv, CheckTypes
  <2>3. \A l \in Links : LinkKept(l)
    BY <2>1, LinksStay
  <2>4. \A l \in Links : link'[l].claimed # 0 /\ ~link'[l].elapsed /\ link'[l].on
                         => link'[l].claimed = link[l].claimed /\ ~link[l].elapsed /\ link[l].on
    BY <2>1
  <2> QED
    BY <2>1, <2>2, <2>3, <2>4, RowsStep
<1> QED
  BY <1>2, <1>3, LostStep, WorldStep DEF CheckNext

\* What a link knows of its page: a baseline of the page it watches, each change announced once, and no claim that
\* nobody works on but those that a crash, a broken call or a failed release lost (SystemClaimDueForCheck, SystemRecordCheckResult, SystemReleaseCheckClaims), for any number of
\* links, pages' changes and instances that scan the same table.
THEOREM ChecksAreSound == CheckSpec => []ChecksSound
<1>1. CheckInv => ChecksSound
  <2> SUFFICES ASSUME CheckInv PROVE ChecksSound
    OBVIOUS
  <2>1. BaselineCurrent
    BY DEF CheckInv, LinksOk, BaselineCurrent
  <2> QED
    BY <2>1 DEF CheckInv, ToldOk, ChecksSound
<1> QED
  BY <1>1, CheckStart, CheckStep, PTL DEF CheckSpec

\* What a step may do to a baseline: nothing, wipe it, or bring a version no older than its own.
Forward(l) ==
    link'[l].base = link[l].base \/ link'[l].base.fp = NoBase \/ link[l].base.fp[2] <= link'[l].base.fp[2]

\* Every step takes every link's baseline forward: what is recorded under the claim of the row is a fetch that
\* began after the baseline was taken, every other write of a baseline wipes it.
LEMMA ForwardStep ==
    ASSUME CheckInv, CheckNext, NEW l \in Links
    PROVE  Forward(l)
<1>0. link \in [Links -> LinkRows] /\ HandOk
  BY DEF CheckInv, CheckTypes
<1>1. PICK row \in LinkRows : row = link[l]
  BY <1>0
<1>2. CASE link' = link
  BY <1>2 DEF Forward
<1>3. ASSUME LinkKept(l) PROVE Forward(l)
  BY <1>3 DEF LinkKept, Forward
<1>4. ASSUME NEW i \in Instances, scanStops(i) \/ Stop(i) PROVE Forward(l)
  BY <1>3, <1>4, Released DEF scanStops, Stop
<1>5. ASSUME NEW i \in Instances, SystemClaimDueForCheck(i) PROVE Forward(l)
  <2>1. PICK claim \in SUBSET Links :
          link' = [k \in Links |-> IF k \in claim THEN [link[k] EXCEPT !.claimed = NewToken, !.elapsed = FALSE] ELSE link[k]]
    BY <1>5, ClaimEffects, ZenonT(60)
  <2>2. [row EXCEPT !.claimed = NewToken, !.elapsed = FALSE].base = row.base
    BY DEF LinkRows
  <2> QED
    BY <1>1, <2>1, <2>2 DEF Forward
<1>6. ASSUME NEW i \in Instances, SystemRecordCheckResult(i) PROVE Forward(l)
  <2>1. /\ link' = [link EXCEPT ![inst[i].job.id].base = [url |-> inst[i].job.url, fp |-> inst[i].fp]]
        /\ inst[i].pc = "record" /\ Current(inst[i].job)
    BY <1>6 DEF SystemRecordCheckResult, Applies, Current
  <2>2. link[inst[i].job.id].base.fp[2] <= inst[i].fp[2]
    BY <1>0, <2>1 DEF HandOk
  <2>3. CASE l = inst[i].job.id
    <3> DEFINE b == [url |-> inst[i].job.url, fp |-> inst[i].fp]
    <3>1. [row EXCEPT !.base = b].base = b /\ b.fp = inst[i].fp
      BY DEF LinkRows
    <3>2. link'[l] = [row EXCEPT !.base = b]
      BY <1>0, <1>1, <2>1, <2>3
    <3> QED
      BY <2>2, <2>3, <3>1, <3>2 DEF Forward
  <2>4. CASE l # inst[i].job.id
    BY <1>0, <2>1, <2>4 DEF Forward
  <2> QED
    BY <2>3, <2>4
<1>7. ASSUME NEW k \in Links, elapse(k) \/ gateLink(k) PROVE Forward(l)
  <2>1. PICK p \in LinkRows : p = link[k]
    BY <1>0
  <2>2. \/ link' = [link EXCEPT ![k] = [p EXCEPT !.elapsed = TRUE]]
        \/ link' = [link EXCEPT ![k] = [p EXCEPT !.locked = ~p.locked]]
        \/ link' = [link EXCEPT ![k] = [p EXCEPT !.active = ~p.active]]
    BY <1>0, <1>7, <2>1 DEF elapse, gateLink
  <2>3. [p EXCEPT !.elapsed = TRUE].base = p.base /\ [p EXCEPT !.locked = ~p.locked].base = p.base
        /\ [p EXCEPT !.active = ~p.active].base = p.base
    BY DEF LinkRows
  <2> QED
    BY <1>0, <2>1, <2>2, <2>3 DEF Forward
<1>8. ASSUME NEW k \in Links, editLink(k) PROVE Forward(l)
  <2>1. PICK z : link' = [link EXCEPT ![k] = appendCheckResetCases(z)] /\ z \in LinkRows
    <3>1. CASE \E u \in Urls \ {link[k].url} : link' = [link EXCEPT ![k] = appendCheckResetCases([link[k] EXCEPT !.url = u])]
      <4>1. PICK u \in Urls : link' = [link EXCEPT ![k] = appendCheckResetCases([link[k] EXCEPT !.url = u])]
        BY <3>1
      <4>2. [link[k] EXCEPT !.url = u] \in LinkRows
        BY <1>0 DEF LinkRows
      <4> QED
        BY <4>1, <4>2
    <3>2. CASE link' = [link EXCEPT ![k] = appendCheckResetCases([link[k] EXCEPT !.on = ~@])]
      <4>1. PICK p \in LinkRows : p = link[k]
        BY <1>0
      <4>2. [p EXCEPT !.on = ~p.on] \in LinkRows
        BY DEF LinkRows
      <4>3. link' = [link EXCEPT ![k] = appendCheckResetCases([p EXCEPT !.on = ~p.on])]
        BY <3>2, <4>1
      <4> QED
        BY <4>2, <4>3
    <3> QED
      BY <1>8, <3>1, <3>2 DEF editLink
  <2>2. appendCheckResetCases(z).base.fp = NoBase
    BY <2>1 DEF appendCheckResetCases, LinkRows
  <2> QED
    BY <1>0, <2>1, <2>2 DEF Forward
<1>10. CASE claimLost
  <2>1. PICK lost \in SUBSET Links :
          link' = [k \in Links |-> IF k \in lost THEN [link[k] EXCEPT !.claimed = NewToken, !.elapsed = FALSE] ELSE link[k]]
    BY <1>10 DEF claimLost
  <2>2. [row EXCEPT !.claimed = NewToken, !.elapsed = FALSE].base = row.base
    BY DEF LinkRows
  <2> QED
    BY <1>1, <2>1, <2>2 DEF Forward
<1>9. \/ link' = link \/ claimLost
      \/ \E i \in Instances : scanStops(i) \/ Stop(i) \/ SystemClaimDueForCheck(i) \/ SystemRecordCheckResult(i)
      \/ \E k \in Links : elapse(k) \/ gateLink(k) \/ editLink(k)
  BY ZenonT(60) DEF CheckNext, Act, scanEnqueue, scanEnds, receive, workerStops, fetch, superseded, queuePush, deliverPush, Start,
         jobEnds, cancel, crash, changePage, turnFeed
<1> QED
  BY <1>2, <1>4, <1>5, <1>6, <1>7, <1>8, <1>9, <1>10

\* A slow check never puts an older version of the page over a newer one (the stamp that SystemRecordCheckResult
\* compares), whatever instances, edits and stalled fetches lie between a claim and its result.
THEOREM BaselineMovesForward == CheckSpec => BaselineForward
<1>1. ASSUME CheckInv, CheckNext
      PROVE  \A l \in Links : link'[l].base.url = link[l].base.url /\ link'[l].base.fp # NoBase
                              => link'[l].base.fp[2] >= link[l].base.fp[2]
  <2> SUFFICES ASSUME NEW l \in Links, link'[l].base.fp # NoBase PROVE link'[l].base.fp[2] >= link[l].base.fp[2]
    OBVIOUS
  <2>1. CheckInv'
    BY <1>1, CheckStep
  <2>2. Links' = Links
    BY <1>1, ZenonT(60) DEF CheckNext, Act, claimLost, SystemClaimDueForCheck, scanEnqueue, scanEnds, scanStops, receive, workerStops, fetch,
            SystemRecordCheckResult, superseded, queuePush, deliverPush, Stop, Start, jobEnds, cancel, crash, changePage, turnFeed,
            elapse, editLink, gateLink, Links
  <2>3. link[l].base.fp[2] \in Nat /\ link'[l].base.fp[2] \in Nat
    <3>1. link[l] \in LinkRows /\ link'[l] \in LinkRows
      BY <1>1, <2>1, <2>2 DEF CheckInv, CheckTypes, LinkRows
    <3> QED
      BY <3>1 DEF LinkRows, Fps
  <2>4. Forward(l)
    BY <1>1, ForwardStep
  <2> QED
    BY <2>3, <2>4 DEF Forward
<1>2. CheckInv /\ CheckNext => (\A l \in Links : link'[l].base.url = link[l].base.url /\ link'[l].base.fp # NoBase
                                                 => link'[l].base.fp[2] >= link[l].base.fp[2])
  BY <1>1
<1> QED
  BY <1>2, CheckStart, CheckStep, PTL DEF CheckSpec, BaselineForward

-------------------------------------------------------------------------------
(***************************************************************************)
(* Push channels.                                                          *)
(***************************************************************************)

Channels == [user : Users \cup {"none"}, id : Nat]
Saves    == [pc : {"idle", "reserved", "saved"}, ep : Endpoints \cup {"none"}]
Fans     == [pc : {"idle", "send", "done"}, user : Users \cup {"none"}, todo : SUBSET [id : Nat, ep : Endpoints],
             gone : SUBSET Nat]

PushTypes ==
    /\ ps \in PushScenarios /\ ids \in Nat
    /\ subs \in [Endpoints -> Channels] /\ client \in [Clients -> Saves] /\ fan \in [Senders -> Fans]

\* Whoever has reserved the slot of an account for an endpoint is the only one, and the account's other
\* channels leave room for it until it is saved, whatever else happens to them.
Reserved(c) == client[c].pc = "reserved"
RoomKept ==
    \A c \in Clients : Reserved(c) =>
        /\ client[c].ep \in Endpoints
        /\ Cardinality(Owned(ps.clients[c]) \ {client[c].ep}) < MaxSubscriptionsPerUser
        /\ \A d \in Clients : Reserved(d) /\ ps.clients[d] = ps.clients[c] => d = c

PushInv == PushTypes /\ RoomKept /\ SubscriptionCap

\* An account's channels are finitely many, and so fewer when some are lost.
LEMMA FewerChannels ==
    ASSUME NEW B \in SUBSET Endpoints, NEW A \in SUBSET B
    PROVE  Cardinality(A) \in Nat /\ Cardinality(B) \in Nat /\ Cardinality(A) <= Cardinality(B)
<1>1. IsFiniteSet(B)
  BY SubscriptionsAssumption, FS_Subset
<1>2. IsFiniteSet(A) /\ Cardinality(A) <= Cardinality(B)
  BY <1>1, FS_Subset
<1> QED
  BY <1>1, <1>2, FS_CardinalityType

LEMMA OneMoreChannel ==
    ASSUME NEW B \in SUBSET Endpoints, NEW e \in Endpoints, Cardinality(B \ {e}) < MaxSubscriptionsPerUser
    PROVE  Cardinality(B \cup {e}) <= MaxSubscriptionsPerUser
<1> DEFINE A == B \ {e}
<1>1. IsFiniteSet(A) /\ e \notin A /\ B \cup {e} = A \cup {e}
  BY SubscriptionsAssumption, FS_Subset
<1>2. Cardinality(A \cup {e}) = Cardinality(A) + 1 /\ Cardinality(A) \in Nat
  <2> HIDE DEF A
  <2> QED BY <1>1, FS_AddElement, FS_CardinalityType
<1>3. Cardinality(A) < MaxSubscriptionsPerUser /\ MaxSubscriptionsPerUser \in Nat
  BY SubscriptionsAssumption
<1> HIDE DEF A
<1> QED
  BY <1>1, <1>2, <1>3

LEMMA PushStart == PushInit => PushInv
<1> SUFFICES ASSUME PushInit PROVE PushInv
  OBVIOUS
<1>1. Cardinality(Endpoints) \in Nat
  BY SubscriptionsAssumption, FS_CardinalityType
<1>2. PushTypes
  <2>1. subs \in [Endpoints -> Channels]
    BY <1>1 DEF PushInit, Channels, NoSub
  <2> QED
    BY <1>1, <2>1 DEF PushInit, PushTypes, Saves, Fans, NoSave, Clients, Senders
<1>3. RoomKept
  BY DEF PushInit, RoomKept, Reserved, NoSave
<1>4. SubscriptionCap
  <2> SUFFICES ASSUME NEW u \in Users PROVE Cardinality(Owned(u)) <= MaxSubscriptionsPerUser
    BY DEF SubscriptionCap
  <2>1. Owned(u) = ps.first[u]
    BY SubscriptionsAssumption DEF PushInit, Owned, Users
  <2> QED
    BY <2>1, SubscriptionsAssumption DEF PushInit, Users
<1> QED
  BY <1>2, <1>3, <1>4 DEF PushInv

\* Channels are lost or change hands, but for the one that is saved.
LEMMA PushTyped ==
    ASSUME PushInv, PushNext
    PROVE  PushTypes' /\ ps' = ps
<1> USE DEF PushTypes, PushInv, Use
<1>1. ASSUME NEW c \in Clients, NEW e \in Endpoints, reserveSubscriptionSlot(c, e) PROVE PushTypes' /\ ps' = ps
  BY <1>1 DEF reserveSubscriptionSlot, Saves, Clients, Senders, Channels, Fans, Users
<1>2. ASSUME NEW c \in Clients, Save(c) PROVE PushTypes' /\ ps' = ps
  <2>1. ps.clients[c] \in Users /\ client[c].ep \in Endpoints
    BY <1>2, SubscriptionsAssumption DEF Clients, Users, Save, RoomKept, Reserved
  <2>2. client' \in [Clients -> Saves]
    BY <1>2 DEF Save, Saves
  <2>3. subs' \in [Endpoints -> Channels] /\ ids' \in Nat
    BY <1>2, <2>1 DEF Save, Channels
  <2> QED
    BY <1>2, <2>2, <2>3 DEF Save, Clients, Senders, Channels, Fans, Users
<1>3. ASSUME NEW u \in Users, NEW e \in Endpoints, DeleteByEndpointForUser(u, e) PROVE PushTypes' /\ ps' = ps
  BY <1>3 DEF DeleteByEndpointForUser, NoSub, Saves, Clients, Senders, Channels, Fans, Users
<1>4. ASSUME NEW n \in Senders, sendOne(n) PROVE PushTypes' /\ ps' = ps
  <2>1. PICK s \in fan[n].todo, heard \in BOOLEAN :
            fan' = [fan EXCEPT ![n].todo = @ \ {s}, ![n].gone = IF heard /\ s.ep \in dead THEN @ \cup {s.id} ELSE @]
    BY <1>4 DEF sendOne
  <2>2. fan[n] \in Fans /\ s.id \in Nat
    BY DEF Fans
  <2>3. fan' \in [Senders -> Fans]
    BY <2>1, <2>2 DEF Fans
  <2> QED
    BY <1>4, <2>3 DEF sendOne, Clients, Senders, Channels, Fans, Users
<1>5. ASSUME NEW n \in Senders, DeleteGone(n) PROVE PushTypes' /\ ps' = ps
  <2>1. fan' \in [Senders -> Fans]
    BY <1>5 DEF DeleteGone, Fans
  <2>2. subs' \in [Endpoints -> Channels]
    BY <1>5 DEF DeleteGone, Channels, NoSub
  <2> QED
    BY <1>5, <2>1, <2>2 DEF DeleteGone, Clients, Senders, Channels, Fans, Users
<1>6. ASSUME NEW n \in Senders, NEW u \in Users, List(n, u) PROVE PushTypes' /\ ps' = ps
  <2>1. {[id |-> subs[e].id, ep |-> e] : e \in Owned(u)} \in SUBSET [id : Nat, ep : Endpoints]
    BY DEF Owned, Channels
  <2>2. fan' \in [Senders -> Fans]
    BY <1>6, <2>1 DEF List, Fans
  <2> QED
    BY <1>6, <2>2 DEF List, Clients, Senders, Channels, Fans, Users
<1>7. ASSUME \/ \E e \in Endpoints : expire(e)
             \/ \E u \in Users : setStatus(u)
      PROVE  PushTypes' /\ ps' = ps
  BY <1>7 DEF expire, setStatus, Clients, Senders, Channels, Fans, Users
<1> QED
  BY <1>1, <1>2, <1>3, <1>4, <1>5, <1>6, <1>7 DEF PushNext

\* Losing channels leaves room where there was room.
LEMMA RoomStays ==
    ASSUME PushInv, PushTypes', ps' = ps, client' = client,
           \A e \in Endpoints : subs'[e].user \in {subs[e].user, "none"}
    PROVE  PushInv'
<1>1. Users' = Users /\ Clients' = Clients
  BY DEF Users, Clients
<1>2. ASSUME NEW u \in Users PROVE Owned(u)' \in SUBSET Owned(u) /\ Owned(u) \in SUBSET Endpoints
  <2>1. u # "none"
    BY SubscriptionsAssumption DEF PushInv, PushTypes, Users
  <2> QED
    BY <2>1 DEF Owned
<1>3. SubscriptionCap'
  <2> SUFFICES ASSUME NEW u \in Users PROVE Cardinality(Owned(u)') <= MaxSubscriptionsPerUser
    BY <1>1 DEF SubscriptionCap, Owned
  <2> QED
    BY <1>2, FewerChannels, SubscriptionsAssumption DEF PushInv, SubscriptionCap
<1>4. ASSUME NEW c \in Clients, Reserved(c)
      PROVE  Cardinality(Owned(ps.clients[c])' \ {client[c].ep}) < MaxSubscriptionsPerUser
  <2>1. ps.clients[c] \in Users
    BY SubscriptionsAssumption DEF Clients, Users, PushInv, PushTypes
  <2> DEFINE A == Owned(ps.clients[c])' \ {client[c].ep}
             B == Owned(ps.clients[c]) \ {client[c].ep}
  <2>2. A \in SUBSET B /\ B \in SUBSET Endpoints
    BY <1>2, <2>1
  <2>3. Cardinality(B) < MaxSubscriptionsPerUser
    BY <1>4 DEF PushInv, RoomKept
  <2> HIDE DEF A, B
  <2>4. Cardinality(A) < MaxSubscriptionsPerUser
    BY <2>2, <2>3, FewerChannels, SubscriptionsAssumption
  <2> QED
    BY <2>4 DEF A
<1>5. RoomKept'
  BY <1>1, <1>4 DEF PushInv, RoomKept, Reserved, Owned
<1> QED
  BY <1>3, <1>5 DEF PushInv

LEMMA PushStep ==
    ASSUME PushInv, [PushNext]_pushVars
    PROVE  PushInv'
<1>1. CASE UNCHANGED pushVars
  BY <1>1 DEF pushVars, PushInv, PushTypes, RoomKept, Reserved, SubscriptionCap, Owned, Clients, Senders, Users, Channels,
              Saves, Fans
<1>2. ASSUME PushNext PROVE PushTypes' /\ ps' = ps /\ Users' = Users /\ Clients' = Clients
  BY <1>2, PushTyped DEF Users, Clients
<1>3. ASSUME NEW c \in Clients, NEW e \in Endpoints, reserveSubscriptionSlot(c, e), PushNext PROVE PushInv'
  <2>1. ps.clients[c] \in Users /\ subs' = subs
    BY <1>3, SubscriptionsAssumption DEF Clients, Users, PushInv, PushTypes, reserveSubscriptionSlot
  <2>2. \A d \in Clients : client'[d] = IF d = c THEN [pc |-> "reserved", ep |-> e] ELSE client[d]
    BY <1>3 DEF reserveSubscriptionSlot, PushInv, PushTypes
  <2>3. Cardinality(Owned(ps.clients[c]) \ {e}) < MaxSubscriptionsPerUser
    <3> DEFINE B == Owned(ps.clients[c])
    <3>1. B \in SUBSET Endpoints /\ IsFiniteSet(B)
      BY SubscriptionsAssumption, FS_Subset DEF Owned
    <3>2. Cardinality(B) <= MaxSubscriptionsPerUser /\ (e \in B \/ Cardinality(B) < MaxSubscriptionsPerUser)
      BY <1>3, <2>1 DEF PushInv, SubscriptionCap, reserveSubscriptionSlot
    <3> HIDE DEF B
    <3>3. CASE e \in B
      <4>1. Cardinality(B \ {e}) = Cardinality(B) - 1 /\ Cardinality(B) \in Nat
        BY <3>1, <3>3, FS_RemoveElement, FS_CardinalityType
      <4> QED
        BY <3>2, <4>1, SubscriptionsAssumption DEF B
    <3>4. CASE e \notin B
      <4>1. B \ {e} = B
        BY <3>4
      <4> QED
        BY <3>2, <3>4, <4>1 DEF B
    <3> QED
      BY <3>3, <3>4
  <2>4. \A d \in Clients : Reserved(d) => ps.clients[d] # ps.clients[c]
    BY <1>3 DEF reserveSubscriptionSlot, Reserved
  <2>5. RoomKept'
    <3> SUFFICES ASSUME NEW d \in Clients, Reserved(d)'
                 PROVE  /\ client'[d].ep \in Endpoints
                        /\ Cardinality(Owned(ps.clients[d])' \ {client'[d].ep}) < MaxSubscriptionsPerUser
                        /\ \A f \in Clients : Reserved(f)' /\ ps.clients[f] = ps.clients[d] => f = d
      BY <1>2, <1>3 DEF RoomKept, Owned
    <3>1. Owned(ps.clients[d])' = Owned(ps.clients[d])
      BY <1>2, <1>3, <2>1 DEF Owned
    <3>2. CASE d = c
      <4>1. client'[d].ep = e /\ Cardinality(Owned(ps.clients[d]) \ {e}) < MaxSubscriptionsPerUser
        BY <2>2, <2>3, <3>2
      <4>2. \A f \in Clients : Reserved(f)' /\ ps.clients[f] = ps.clients[d] => f = d
        BY <2>2, <2>4, <3>2 DEF Reserved
      <4> QED
        BY <3>1, <4>1, <4>2
    <3>3. CASE d # c
      <4>1. Reserved(d) /\ client'[d] = client[d]
        BY <2>2, <3>3 DEF Reserved
      <4> QED
        BY <2>2, <2>4, <3>1, <3>3, <4>1 DEF PushInv, RoomKept, Reserved
    <3> QED
      BY <3>2, <3>3
  <2>6. SubscriptionCap'
    BY <1>2, <1>3, <2>1 DEF PushInv, SubscriptionCap, Owned
  <2> QED
    BY <1>2, <1>3, <2>5, <2>6 DEF PushInv
<1>4. ASSUME NEW c \in Clients, Save(c), PushNext PROVE PushInv'
  <2> DEFINE e == client[c].ep
             u == ps.clients[c]
  <2>1. /\ e \in Endpoints /\ u \in Users /\ Reserved(c) /\ ps.clients[c] # "none"
        /\ Cardinality(Owned(u) \ {e}) < MaxSubscriptionsPerUser
    BY <1>4, SubscriptionsAssumption DEF Clients, Users, PushInv, PushTypes, Save, RoomKept, Reserved
  <2>2. \A g \in Endpoints : subs'[g].user = IF g = e THEN u ELSE subs[g].user
    BY <1>4, <2>1 DEF Save, PushInv, PushTypes, Channels
  <2>3. \A d \in Clients : Reserved(d)' => d # c /\ Reserved(d) /\ client'[d] = client[d]
    BY <1>4 DEF Save, PushInv, PushTypes, Saves, Reserved
  <2>4. Owned(u)' = Owned(u) \cup {e} /\ \A v \in Users : v # u => Owned(v)' \in SUBSET Owned(v)
    BY <1>2, <1>4, <2>1, <2>2 DEF Owned
  <2>5. \A v \in Users : Owned(v) \in SUBSET Endpoints
    BY DEF Owned
  <2>6. SubscriptionCap'
    <3> SUFFICES ASSUME NEW v \in Users PROVE Cardinality(Owned(v)') <= MaxSubscriptionsPerUser
      BY <1>2, <1>4 DEF SubscriptionCap, Owned
    <3>1. CASE v = u
      <4>1. Cardinality(Owned(u) \cup {e}) <= MaxSubscriptionsPerUser
        <5> DEFINE B == Owned(u)
        <5>1. B \in SUBSET Endpoints /\ Cardinality(B \ {e}) < MaxSubscriptionsPerUser
          BY <2>1, <2>5
        <5> HIDE DEF B, e
        <5>2. Cardinality(B \cup {e}) <= MaxSubscriptionsPerUser
          BY <2>1, <5>1, OneMoreChannel
        <5> QED
          BY <5>2 DEF B
      <4> QED
        BY <1>2, <1>4, <2>4, <3>1, <4>1
    <3>2. CASE v # u
      BY <2>4, <2>5, <3>2, FewerChannels, SubscriptionsAssumption DEF PushInv, SubscriptionCap
    <3> QED
      BY <3>1, <3>2
  <2>7. ASSUME NEW d \in Clients, Reserved(d)'
        PROVE  Cardinality(Owned(ps.clients[d])' \ {client'[d].ep}) < MaxSubscriptionsPerUser
    <3>1. ps.clients[d] \in Users /\ ps.clients[d] # u
      BY <2>1, <2>3, <2>7, SubscriptionsAssumption DEF Clients, Users, PushInv, PushTypes, RoomKept
    <3> DEFINE A == Owned(ps.clients[d])' \ {client[d].ep}
               B == Owned(ps.clients[d]) \ {client[d].ep}
    <3>2. A \in SUBSET B /\ B \in SUBSET Endpoints
      BY <1>2, <1>4, <2>4, <2>5, <3>1 DEF Owned
    <3>3. Cardinality(B) < MaxSubscriptionsPerUser
      BY <2>3, <2>7 DEF PushInv, RoomKept
    <3> HIDE DEF A, B
    <3>4. Cardinality(A) < MaxSubscriptionsPerUser
      BY <3>2, <3>3, FewerChannels, SubscriptionsAssumption
    <3> QED
      BY <2>3, <2>7, <3>4 DEF A
  <2>8. RoomKept'
    BY <1>2, <1>4, <2>3, <2>7 DEF PushInv, RoomKept, Reserved, Owned
  <2> QED
    BY <1>2, <1>4, <2>6, <2>8 DEF PushInv
<1>5. ASSUME PushNext, client' = client, \A e \in Endpoints : subs'[e].user \in {subs[e].user, "none"} PROVE PushInv'
  BY <1>2, <1>5, RoomStays
<1>6. ASSUME NEW u \in Users, NEW e \in Endpoints, DeleteByEndpointForUser(u, e), PushNext PROVE PushInv'
  BY <1>5, <1>6 DEF DeleteByEndpointForUser, NoSub, PushInv, PushTypes
<1>7. ASSUME NEW n \in Senders, DeleteGone(n), PushNext PROVE PushInv'
  BY <1>5, <1>7 DEF DeleteGone, NoSub
<1>8. ASSUME PushNext, subs' = subs, client' = client PROVE PushInv'
  BY <1>5, <1>8
<1>9. ASSUME PushNext,
             \/ \E e \in Endpoints : expire(e)
             \/ \E u \in Users : setStatus(u)
             \/ \E n \in Senders : sendOne(n) \/ \E u \in Users : List(n, u)
      PROVE  PushInv'
  BY <1>8, <1>9 DEF expire, setStatus, sendOne, List
<1> QED
  BY <1>1, <1>3, <1>4, <1>6, <1>7, <1>9 DEF PushNext

\* An account keeps within its limit of channels while its browsers subscribe at the same time and channels
\* change hands (the row lock of reserveSubscriptionSlot), and a fan-out that ends deletes no channel that was
\* taken over while it went on (the account in persistResults' delete).
THEOREM ChannelsAreKept == PushSpec => ChannelsKept
<1>1. PushInv => SubscriptionCap
  BY DEF PushInv
<1>2. ASSUME PushInv, [PushNext]_pushVars, NEW n \in Senders, NEW e \in Endpoints,
             fan[n].pc = "send", fan'[n].pc = "done", subs[e] # subs'[e]
      PROVE  subs[e].user = fan[n].user
  <2>1. fan' # fan /\ subs' # subs
    BY <1>2
  <2>2. PICK m \in Senders : DeleteGone(m)
    BY <1>2, <2>1 DEF PushNext, pushVars, Save, reserveSubscriptionSlot, expire, DeleteByEndpointForUser, sendOne, List, setStatus
  <2>3. m = n
    BY <1>2, <2>2 DEF DeleteGone, PushInv, PushTypes
  <2> QED
    BY <1>2, <2>2, <2>3 DEF DeleteGone
<1>3. PushInv /\ [PushNext]_pushVars =>
          \A n \in Senders, e \in Endpoints :
              fan[n].pc = "send" /\ fan'[n].pc = "done" /\ subs[e] # subs'[e] => subs[e].user = fan[n].user
  BY <1>2
<1>4. PushInv /\ [PushNext]_pushVars => PushInv'
  BY PushStep
<1> QED
  BY <1>1, <1>3, <1>4, PushStart, PTL DEF PushSpec, ChannelsKept, MovedChannelKept
===============================================================================

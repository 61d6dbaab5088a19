----------------------------- MODULE CaptureProxy -----------------------------
(***************************************************************************)
(* The egress proxy of one capture: the life of a CONNECT tunnel, which    *)
(* holds a slot from its admission but joins the tracked tunnels only      *)
(* after its 200 was flushed, against a budget that is enforced and a      *)
(* Close, both of which close the tunnels that are tracked.                *)
(***************************************************************************)
EXTENDS FiniteSets, Integers

CONSTANT ProxyScenarios   \* [requests, tunnels: the slots, conns: the connections, refusals, talk]

ASSUME ProxyAssumption == \A s \in ProxyScenarios : {s.requests, s.tunnels, s.conns} \subseteq Nat

VARIABLES
    px,        \* the scenario
    req,       \* request -> [pc, client: the client's end is open, up: upstream "none" | "open" | "closed"]
    proxy,     \* [blocked, closed, enforced: a budget's closeTunnels has run]
    tunnelSem, \* requests holding a slot
    connSem,   \* slots in use of the connections
    tunnels,   \* tracked tunnels
    chores,    \* closeTunnels still to run: "budget" | "close"
    ration     \* remaining refusals, and bytes tunnels may still relay

proxyVars == <<px, req, proxy, tunnelSem, connSem, tunnels, chores, ration>>

Requests == 1..px.requests

ProxyInit ==
    /\ px \in ProxyScenarios
    /\ req = [r \in Requests |-> [pc |-> "new", client |-> TRUE, up |-> "none"]]
    /\ proxy = [blocked |-> FALSE, closed |-> FALSE, enforced |-> FALSE]
    /\ tunnelSem = {} /\ connSem = 0 /\ tunnels = {} /\ chores = {}
    /\ ration = [refusals |-> px.refusals, talk |-> px.talk]

On(r, pc) == req[r].pc = pc
Move(r, pc) == req' = [req EXCEPT ![r].pc = pc]
markBlocked == proxy' = [proxy EXCEPT !.blocked = TRUE]

\* Mutant: every Close of a connection returns its slot.
closeEachTime(conns) == connSem - Cardinality(conns)
Closing(conns) == connSem - Cardinality({r \in conns : req[r].up = "open"})

exceedBudget == markBlocked /\ chores' = chores \cup {"budget"}

\* A CONNECT that finds every tunnel's slot taken, or a request past the limit, enforces the budget; an invalid target is
\* only refused.  Close does not stop the requests of a connection that was accepted.
serveConnect(r) ==
    /\ On(r, "new")
    /\ \/ /\ Cardinality(tunnelSem) < px.tunnels /\ tunnelSem' = tunnelSem \cup {r}
          /\ Move(r, "dial") /\ UNCHANGED <<proxy, chores, ration>>
       \/ /\ Cardinality(tunnelSem) = px.tunnels
          /\ exceedBudget /\ Move(r, "end") /\ UNCHANGED <<tunnelSem, ration>>
       \/ /\ ration.refusals > 0 /\ ration' = [ration EXCEPT !.refusals = @ - 1]
          /\ (markBlocked /\ UNCHANGED chores) \/ exceedBudget
          /\ Move(r, "end") /\ UNCHANGED tunnelSem
    /\ UNCHANGED <<px, connSem, tunnels>>

\* The slot comes first.  A connection past the limit blocks without closing what is tracked, unless its client is gone.
dialContext(r) ==
    /\ On(r, "dial")
    /\ \/ connSem < px.conns /\ connSem' = connSem + 1 /\ Move(r, "resolve") /\ UNCHANGED <<proxy, tunnelSem>>
       \/ /\ (connSem = px.conns /\ markBlocked) \/ UNCHANGED proxy
          /\ Move(r, "end") /\ tunnelSem' = tunnelSem \ {r} /\ UNCHANGED connSem
    /\ UNCHANGED <<px, tunnels, chores, ration>>

\* Mutant: a dial that failed keeps its slot.
dialKeepsSlot(r) ==
    /\ On(r, "resolve")
    /\ \/ req' = [req EXCEPT ![r] = [@ EXCEPT !.pc = "flush", !.up = "open"]] /\ UNCHANGED <<proxy, tunnelSem>>
       \/ /\ markBlocked \/ UNCHANGED proxy
          /\ Move(r, "end") /\ tunnelSem' = tunnelSem \ {r}
    /\ UNCHANGED <<px, connSem, tunnels, chores, ration>>

\* The target is resolved and dialled, for which the slot is held; a dial that fails gives it back, and blocks where the
\* policy refused an address of the target or the peer.
strictDialContext(r) ==
    /\ On(r, "resolve")
    /\ \/ /\ req' = [req EXCEPT ![r] = [@ EXCEPT !.pc = "flush", !.up = "open"]]
          /\ UNCHANGED <<proxy, connSem, tunnelSem>>
       \/ /\ markBlocked \/ UNCHANGED proxy
          /\ connSem' = connSem - 1
          /\ Move(r, "end") /\ tunnelSem' = tunnelSem \ {r}
    /\ UNCHANGED <<px, tunnels, chores, ration>>

\* The 200 reaches the client, which may speak from here on; or the client is gone.
flush(r) ==
    /\ On(r, "flush")
    /\ \/ Move(r, "track") /\ UNCHANGED <<tunnelSem, connSem>>
       \/ /\ req' = [req EXCEPT ![r] = [pc |-> "end", client |-> FALSE, up |-> "closed"]]
          /\ connSem' = Closing({r}) /\ tunnelSem' = tunnelSem \ {r}
    /\ UNCHANGED <<px, proxy, tunnels, chores, ration>>

\* Mutant: only a closed proxy refuses a tunnel.
refusedWhenClosed == proxy.closed
Refused == proxy.closed \/ proxy.blocked

trackTunnel(r) ==
    /\ On(r, "track")
    /\ IF Refused
         THEN /\ req' = [req EXCEPT ![r] = [pc |-> "end", client |-> FALSE, up |-> "closed"]]
              /\ connSem' = Closing({r}) /\ tunnelSem' = tunnelSem \ {r} /\ UNCHANGED tunnels
         ELSE Move(r, "relay") /\ tunnels' = tunnels \cup {r} /\ UNCHANGED <<connSem, tunnelSem>>
    /\ UNCHANGED <<px, proxy, chores, ration>>

\* Bytes of an open tunnel; past the budget the relay enforces it.
reserveBytes(r) ==
    /\ On(r, "relay") /\ req[r].up = "open"
    /\ IF ration.talk > 0 THEN ration' = [ration EXCEPT !.talk = @ - 1] /\ UNCHANGED <<proxy, chores>>
       ELSE exceedBudget /\ UNCHANGED ration
    /\ UNCHANGED <<px, req, tunnelSem, connSem, tunnels>>

\* One direction ends because a connection was closed, or because a peer hung up; the handler closes both.
proxyCopy(r) ==
    /\ On(r, "relay") /\ req[r].up = "closed"
    /\ connSem' = Closing({r})
    /\ req' = [req EXCEPT ![r] = [pc |-> "untrack", client |-> FALSE, up |-> "closed"]]
    /\ UNCHANGED <<px, proxy, tunnelSem, tunnels, chores, ration>>
hangsUp(r) ==
    /\ On(r, "relay") /\ req[r].up = "open"
    /\ connSem' = Closing({r})
    /\ req' = [req EXCEPT ![r] = [pc |-> "untrack", client |-> FALSE, up |-> "closed"]]
    /\ UNCHANGED <<px, proxy, tunnelSem, tunnels, chores, ration>>

untrackTunnel(r) ==
    /\ On(r, "untrack")
    /\ tunnels' = tunnels \ {r} /\ tunnelSem' = tunnelSem \ {r} /\ Move(r, "end")
    /\ UNCHANGED <<px, proxy, connSem, chores, ration>>

Close ==
    /\ ~proxy.closed
    /\ proxy' = [proxy EXCEPT !.closed = TRUE] /\ chores' = chores \cup {"close"}
    /\ UNCHANGED <<px, req, tunnelSem, connSem, tunnels, ration>>

closeTunnels(why) ==
    /\ why \in chores /\ chores' = chores \ {why}
    /\ connSem' = Closing(tunnels)
    /\ req' = [r \in Requests |-> IF r \in tunnels THEN [req[r] EXCEPT !.client = FALSE, !.up = "closed"] ELSE req[r]]
    /\ proxy' = [proxy EXCEPT !.enforced = TRUE]
    /\ UNCHANGED <<px, tunnelSem, tunnels, ration>>

-----------------------------------------------------------------------------
handler(r) == dialContext(r) \/ strictDialContext(r) \/ flush(r) \/ trackTunnel(r) \/ proxyCopy(r) \/ untrackTunnel(r)

ProxyNext ==
    \/ \E r \in Requests : serveConnect(r) \/ handler(r) \/ hangsUp(r) \/ reserveBytes(r)
    \/ Close \/ \E why \in {"budget", "close"} : closeTunnels(why)

\* A handler proceeds, and so does who closes tunnels; a peer need neither speak nor hang up.
ProxyFairness ==
    /\ \A r \in 1..3 : WF_proxyVars(r \in Requests /\ handler(r))
    /\ \A why \in {"budget", "close"} : WF_proxyVars(closeTunnels(why))

ProxySpec == ProxyInit /\ [][ProxyNext]_proxyVars /\ ProxyFairness

-----------------------------------------------------------------------------
(* Properties *)

\* Once a budget was enforced or the proxy closed, no tunnel is left relaying, however late it joined.
EnforcedMeansCut == proxy.enforced => \A r \in tunnels : req[r].up = "closed"

\* The connection slots in use are exactly those of the dials under way and of the open connections: a dial that fails, a
\* handler and closeTunnels give each slot back once.
HoldsConn(r) == req[r].pc = "resolve" \/ req[r].up = "open"
SlotsMatchConnections == connSem = Cardinality({r \in Requests : HoldsConn(r)})

\* After an enforcement or a Close, every admitted tunnel gives its slot back, even between two silent peers.
SlotsReturn == []<>(proxy.enforced \/ proxy.closed => tunnelSem = {})

\* What a proxy still relays and counts.
TunnelsSound == EnforcedMeansCut /\ SlotsMatchConnections
=============================================================================

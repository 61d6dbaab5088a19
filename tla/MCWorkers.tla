------------------------------ MODULE MCWorkers ------------------------------
(***************************************************************************)
(* Small instances of the parts that work beside the requests: note media  *)
(* and its sweeper, change checks, push deliveries, the browser pool and a *)
(* capture's proxy, one of them at a time: they share no state.            *)
(***************************************************************************)
EXTENDS NoteMedia, ChangeCheck, PushDelivery, Captures, TLC

CONSTANTS k1, k2, n1, n2

Media(k, f, bs, l, o) == [keys |-> k, folder |-> f, bodies |-> bs, live |-> l, ops |-> o]
In(f, g)  == n1 :> f @@ n2 :> g
Of(x, y)  == n1 :> x @@ n2 :> y
With(k)   == {{}, {k}}

NoMedia == Media({}, In("root", "root"), Of({{}}, {{}}), {}, {})

\* One note with two images; two notes of one folder that share an image; two notes that do not.
MediaPlans ==
    {NoMedia,
     Media({k1, k2}, In("root", "root"), Of({{}, {k1, k2}}, {{}}), {n1}, {"update"}),
     Media({k1}, In("f", "f"), Of(With(k1), With(k1)), {n1, n2}, {"update", "cascade"}),
     Media({k1}, In("root", "root"), Of(With(k1), {{}}), {}, {"create", "delete"})}

\* Two notes outside any folder that may share an image.
SharedPlans == {Media({k1}, In("root", "root"), Of(With(k1), With(k1)), {n1, n2}, {"update"})}

\* ChangeCheck.
Cc(n, i, r, c, fd, e, g, sl, f, s) ==
    [links |-> n, instances |-> i, room |-> r, pushes |-> 1, changes |-> c, feeds |-> fd, edits |-> e, gates |-> g,
     slow |-> sl, faults |-> f, stops |-> s]
NoWatch == Cc(1, 0, 0, 0, 0, 0, 0, 0, 0, 0)
NoChecks == {NoWatch}
CheckPlans ==
    {NoWatch,
     Cc(1, 2, 1, 1, 0, 0, 0, 1, 0, 0),
     Cc(1, 1, 1, 2, 1, 2, 0, 1, 0, 0),
     Cc(1, 1, 1, 1, 1, 0, 2, 1, 1, 1),
     Cc(2, 1, 2, 1, 0, 0, 0, 0, 1, 1)}

\* Two browsers of one account and one of another.
Ps(first, senders, removals, status) ==
    [clients |-> "b1" :> "anna" @@ "b2" :> "anna" @@ "b3" :> "ben", first |-> first, senders |-> senders,
     removals |-> removals, status |-> status]
NoPush == [clients |-> <<>>, first |-> <<>>, senders |-> 0, removals |-> 0, status |-> 0]
NoPushes == {NoPush}
PushPlans == {NoPush, Ps("anna" :> {"e1"} @@ "ben" :> {}, 1, 1, 1), Ps("anna" :> {"e1"} @@ "ben" :> {"e2"}, 1, 0, 0)}

\* BrowserPool and CaptureProxy.
Bp(c, b, e, f, cl) == [captures |-> c, browsers |-> b, escapes |-> e, faults |-> f, closes |-> cl]
NoPool == Bp(0, 0, 0, 0, 0)
NoPools == {NoPool}
PoolPlans == {NoPool, Bp(2, 2, 1, 1, 1), Bp(3, 2, 1, 1, 0)}

Px(r, t, c, f, k) == [requests |-> r, tunnels |-> t, conns |-> c, refusals |-> f, talk |-> k]
NoTunnel == Px(0, 1, 1, 0, 0)
NoTunnels == {NoTunnel}
ProxyPlans == {NoTunnel, Px(3, 2, 2, 1, 1), Px(3, 3, 2, 0, 1), Px(2, 1, 2, 0, 0)}

-----------------------------------------------------------------------------
MediaAlone  == plan # NoMedia /\ cc = NoWatch /\ ps = NoPush /\ po = NoPool /\ px = NoTunnel
ChecksAlone == plan = NoMedia /\ cc # NoWatch /\ ps = NoPush /\ po = NoPool /\ px = NoTunnel
PushAlone   == plan = NoMedia /\ cc = NoWatch /\ ps # NoPush /\ po = NoPool /\ px = NoTunnel
PoolAlone   == plan = NoMedia /\ cc = NoWatch /\ ps = NoPush /\ po # NoPool /\ px = NoTunnel
ProxyAlone  == plan = NoMedia /\ cc = NoWatch /\ ps = NoPush /\ po = NoPool /\ px # NoTunnel

WorkersInit ==
    /\ MediaInit /\ CheckInit /\ PushInit /\ PoolInit /\ ProxyInit
    /\ MediaAlone \/ ChecksAlone \/ PushAlone \/ PoolAlone \/ ProxyAlone
WorkersNext ==
    \/ MediaAlone /\ MediaNext /\ UNCHANGED <<checkVars, pushVars, poolVars, proxyVars>>
    \/ ChecksAlone /\ CheckNext /\ UNCHANGED <<mediaVars, pushVars, poolVars, proxyVars>>
    \/ PushAlone /\ PushNext /\ UNCHANGED <<mediaVars, checkVars, poolVars, proxyVars>>
    \/ PoolAlone /\ PoolNext /\ UNCHANGED <<mediaVars, checkVars, pushVars, proxyVars>>
    \/ ProxyAlone /\ ProxyNext /\ UNCHANGED <<mediaVars, checkVars, pushVars, poolVars>>
WorkersSpec ==
    /\ WorkersInit /\ [][WorkersNext]_<<mediaVars, checkVars, pushVars, poolVars, proxyVars>>
    /\ MediaFairness /\ CheckFairness /\ PoolFairness /\ ProxyFairness
=============================================================================

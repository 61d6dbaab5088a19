------------------------------- MODULE Captures -------------------------------
(***************************************************************************)
(* What a capture works with: a browser of the pool, and the egress proxy  *)
(* that the browser's traffic goes through.  They keep their state apart.  *)
(***************************************************************************)
EXTENDS BrowserPool, CaptureProxy

CapturesSpec == PoolSpec /\ ProxySpec

\* A capture keeps its browser and its tunnels to itself, and a pool or a proxy that ended leaves
\* nothing relaying, counted or running.
CapturesSound == BrowsersSound /\ TunnelsSound

\* What a capture took, browsers and slots, ends with it, and nothing is handed out any more.
CapturesEnd == BrowsersEnd /\ SlotsReturn
=============================================================================

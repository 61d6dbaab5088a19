----------------------------- MODULE BrowserPool -----------------------------
(***************************************************************************)
(* The pool of the one Chromium process behind screenshots and metadata    *)
(* extraction.  A capture takes the only slot, holds the running browser   *)
(* or starts one outside the mutex, and may retire it; the teardown of a   *)
(* retired browser runs beside the captures that follow, and Close races   *)
(* with a startup, a capture and a teardown alike.  A browser is its       *)
(* process, its profile directory and its process proxy.                   *)
(***************************************************************************)
EXTENDS FiniteSets, Integers

CONSTANT PoolScenarios   \* [captures, browsers, escapes, faults, closes]

ASSUME PoolAssumption == \A s \in PoolScenarios : {s.captures, s.browsers, s.escapes, s.faults, s.closes} \subseteq Nat

VARIABLES
    po,        \* the scenario
    cap,       \* capture -> [pc, b: the browser it starts or holds]
    bro,       \* browser -> its record: fields of pooledBrowser and browserStartup, and what exists outside the program
    pool,      \* [current, starting, closed, slot: who has captureSem, made: browsers started so far]
    gens,      \* generations
    closer,    \* [pc, startup, gens: snapshots of beginClose, expired: the shutdown budget has run out]
    spare      \* remaining faults

poolVars == <<po, cap, bro, pool, gens, closer, spare>>

Captures == 1..po.captures
Browsers == 1..po.browsers

\* once: hardStopOnce was used; early: Close used it before there was a process; cleaned: launcherCleanupOnce was used;
\* stop: where stopBrowser is; done: browserStartup.done; fin: stopped; dirty: holds what a capture could not dispose of, or its proxy
\* refused an address and not only to the capture that uses it; lost: the profile could not be removed twice.
NotMade == [known |-> FALSE, once |-> FALSE, early |-> FALSE, cancelled |-> FALSE, done |-> FALSE,
            refs |-> 0, retired |-> FALSE, force |-> FALSE, stopping |-> FALSE, cleaned |-> FALSE, fin |-> FALSE, stop |-> "none",
            proc |-> "none", profile |-> FALSE, proxy |-> FALSE, blocked |-> FALSE, dirty |-> FALSE, lost |-> FALSE]

PoolInit ==
    /\ po \in PoolScenarios
    /\ cap = [c \in Captures |-> [pc |-> "idle", b |-> 0]]
    /\ bro = [b \in Browsers |-> NotMade]
    /\ pool = [current |-> 0, starting |-> 0, closed |-> FALSE, slot |-> 0, made |-> 0]
    /\ gens = {} /\ closer = [pc |-> "open", startup |-> 0, gens |-> {}, expired |-> FALSE]
    /\ spare = [escapes |-> po.escapes, faults |-> po.faults, closes |-> po.closes]

Has(what) == spare[what] > 0
Pay(what) == Has(what) /\ spare' = [spare EXCEPT ![what] = @ - 1]
InCap(c, pc) == cap[c].pc = pc
Go(c, pc) == cap' = [cap EXCEPT ![c].pc = pc]
Mine(c) == bro[cap[c].b]
SetMine(c, r) == bro' = [bro EXCEPT ![cap[c].b] = r]

-----------------------------------------------------------------------------
(* Tearing down *)

\* Mutant: a browser stops although a capture still holds it.
markHeld(r) == IF r.retired /\ ~r.stopping THEN [r EXCEPT !.stopping = TRUE, !.stop = "begin"] ELSE r
markBrowserStoppingLocked(r) ==
    IF r.retired /\ r.refs = 0 /\ ~r.stopping THEN [r EXCEPT !.stopping = TRUE, !.stop = "begin"] ELSE r

\* The profile's removal, tried twice; only with a fault is it left behind.
removed(r) == {[r EXCEPT !.profile = FALSE]} \cup (IF Has("faults") /\ r.profile THEN {[r EXCEPT !.lost = TRUE]} ELSE {})
hardStopLauncher(r) == removed([r EXCEPT !.proc = "none"])

\* Only the first caller acts, and on what the startup has stored by then.
hardStopStartup(r) ==
    IF r.once THEN {r}
    ELSE IF ~r.known THEN {[r EXCEPT !.once = TRUE]}
    ELSE {[s EXCEPT !.once = TRUE, !.proxy = FALSE] : s \in hardStopLauncher(r)}

\* A gentle cleanup kills only what would not let go of its profile.
cleanupGenerationLauncher(r, force) ==
    IF r.cleaned THEN {r}
    ELSE {[s EXCEPT !.cleaned = TRUE] :
            s \in IF force THEN hardStopLauncher(r) ELSE removed(r) \cup hardStopLauncher(r)}

finished(r) == [r EXCEPT !.proxy = FALSE, !.fin = TRUE]

Losing(r, s) == IF s.lost /\ ~r.lost THEN Pay("faults") ELSE spare' = spare
Become(b, S) == \E s \in S : bro' = [bro EXCEPT ![b] = s] /\ Losing(bro[b], s)

stopBegins(b) ==
    /\ bro[b].stop = "begin"
    /\ IF bro[b].force
         THEN Become(b, {[s EXCEPT !.stop = "finish"] : s \in cleanupGenerationLauncher(bro[b], TRUE)})
         ELSE Become(b, {[bro[b] EXCEPT !.stop = "close"]})
    /\ UNCHANGED <<po, cap, pool, gens, closer>>

\* closeBrowser answers, and the process ends by itself; or it fails or runs out of time.
closeAnswers(b) ==
    /\ bro[b].stop = "close"
    /\ Become(b, {[bro[b] EXCEPT !.stop = "clean", !.proc = IF @ = "up" THEN "ending" ELSE @]}
                 \cup {[s EXCEPT !.stop = "finish"] : s \in cleanupGenerationLauncher(bro[b], TRUE)})
    /\ UNCHANGED <<po, cap, pool, gens, closer>>

closesGently(b) ==
    /\ bro[b].stop = "clean"
    /\ Become(b, {[s EXCEPT !.stop = "finish"] : s \in cleanupGenerationLauncher(bro[b], FALSE)})
    /\ UNCHANGED <<po, cap, pool, gens, closer>>

\* Mutant: a generation is forgotten, its proxy is not closed.
finishForgets(b) ==
    /\ bro[b].stop = "finish"
    /\ bro' = [bro EXCEPT ![b] = [@ EXCEPT !.stop = "none", !.fin = TRUE]]
    /\ gens' = gens \ {b}
    /\ UNCHANGED <<po, cap, pool, closer, spare>>
finishBrowserStop(b) ==
    /\ bro[b].stop = "finish"
    /\ bro' = [bro EXCEPT ![b] = [finished(@) EXCEPT !.stop = "none"]]
    /\ gens' = gens \ {b}
    /\ UNCHANGED <<po, cap, pool, closer, spare>>

\* The process that was asked to close ends.
exits(b) ==
    /\ bro[b].proc = "ending"
    /\ bro' = [bro EXCEPT ![b].proc = "none"]
    /\ UNCHANGED <<po, cap, pool, gens, closer, spare>>

-----------------------------------------------------------------------------
(* A capture *)

\* The slot, also when Close wakes the queue at the same time; a capture may give up in the queue.
acquireSlot(c) ==
    /\ InCap(c, "idle")
    /\ \/ pool.slot = 0 /\ pool' = [pool EXCEPT !.slot = c] /\ Go(c, "claim")
       \/ (pool.closed \/ Has("faults")) /\ Go(c, "end") /\ pool' = pool
    /\ UNCHANGED <<po, bro, gens, closer, spare>>

\* The slot is the capture's own, so no other startup is under way here.
claimBrowserOrWait(c) ==
    /\ InCap(c, "claim")
    /\ \/ pool.closed /\ Go(c, "end") /\ pool' = [pool EXCEPT !.slot = 0] /\ bro' = bro
       \/ /\ ~pool.closed /\ pool.current # 0
          /\ cap' = [cap EXCEPT ![c] = [pc |-> "check", b |-> pool.current]]
          /\ bro' = [bro EXCEPT ![pool.current].refs = @ + 1] /\ pool' = pool
       \/ /\ ~pool.closed /\ pool.current = 0 /\ pool.made < po.browsers
          /\ cap' = [cap EXCEPT ![c] = [pc |-> "proxy", b |-> pool.made + 1]]
          /\ pool' = [pool EXCEPT !.starting = pool.made + 1, !.made = @ + 1] /\ bro' = bro
    /\ UNCHANGED <<po, gens, closer, spare>>

\* The process proxy; then the startup learns of its launcher and its proxy.
newCaptureProxy(c) ==
    /\ InCap(c, "proxy")
    /\ \/ SetMine(c, [Mine(c) EXCEPT !.proxy = TRUE]) /\ Go(c, "store") /\ spare' = spare
       \/ Pay("faults") /\ Go(c, "failed") /\ bro' = bro
    /\ UNCHANGED <<po, pool, gens, closer>>

startBrowserGeneration(c) ==
    /\ InCap(c, "store")
    /\ SetMine(c, [Mine(c) EXCEPT !.known = TRUE]) /\ Go(c, "ctx")
    /\ UNCHANGED <<po, pool, gens, closer, spare>>

Fails(c, S) == Become(cap[c].b, S) /\ Go(c, "failed")

checkContext(c) ==
    /\ InCap(c, "ctx")
    /\ IF Mine(c).cancelled THEN Fails(c, hardStopStartup(Mine(c)))
       ELSE Go(c, "launch") /\ UNCHANGED <<bro, spare>>
    /\ UNCHANGED <<po, pool, gens, closer>>

\* Launch makes a profile and starts the process, whatever became of the context since; or it ends before there is a PID.
launch(c) ==
    /\ InCap(c, "launch")
    /\ \/ SetMine(c, [Mine(c) EXCEPT !.proc = "up", !.profile = TRUE]) /\ Go(c, "connect") /\ spare' = spare
       \/ Has("faults") /\ Fails(c, hardStopStartup([Mine(c) EXCEPT !.profile = TRUE]))
    /\ UNCHANGED <<po, pool, gens, closer>>

\* Launch or the connection fails, or the startup was cancelled meanwhile.
launchBrowserWithCleanup(c) ==
    /\ InCap(c, "connect")
    /\ \/ ~Mine(c).cancelled /\ SetMine(c, [Mine(c) EXCEPT !.refs = 1]) /\ Go(c, "adopt") /\ spare' = spare
       \/ (Mine(c).cancelled \/ Has("faults")) /\ Fails(c, hardStopStartup(Mine(c)))
    /\ UNCHANGED <<po, pool, gens, closer>>

\* The startup budget runs out, or the caller's context ends.
startupExpires(c) ==
    /\ cap[c].pc \in {"proxy", "store", "ctx", "launch", "connect"} /\ ~Mine(c).cancelled /\ Pay("faults")
    /\ SetMine(c, [Mine(c) EXCEPT !.cancelled = TRUE])
    /\ UNCHANGED <<po, cap, pool, gens, closer>>

startFails(c) ==
    /\ InCap(c, "failed")
    /\ SetMine(c, [Mine(c) EXCEPT !.done = TRUE])
    /\ pool' = [pool EXCEPT !.starting = 0, !.slot = 0] /\ Go(c, "end")
    /\ UNCHANGED <<po, gens, closer, spare>>

\* Mutant: a startup that ends after Close is adopted.
AlwaysFresh == FALSE
Stale == pool.closed \/ pool.current # 0

adoptStartedBrowser(c) ==
    /\ InCap(c, "adopt")
    /\ IF Stale
         THEN /\ SetMine(c, [Mine(c) EXCEPT !.refs = 0, !.retired = TRUE, !.stopping = TRUE, !.stop = "begin"])
              /\ pool' = [pool EXCEPT !.starting = 0] /\ gens' = gens /\ Go(c, "stale")
         ELSE /\ SetMine(c, [Mine(c) EXCEPT !.known = FALSE, !.done = TRUE])
              /\ pool' = [pool EXCEPT !.starting = 0, !.current = cap[c].b]
              /\ gens' = gens \cup {cap[c].b} /\ Go(c, "check")
    /\ UNCHANGED <<po, closer, spare>>

\* The owner of a startup that came too late tears it down itself.
launchOwnedBrowser(c) ==
    /\ InCap(c, "stale") /\ Mine(c).fin
    /\ SetMine(c, [Mine(c) EXCEPT !.done = TRUE]) /\ pool' = [pool EXCEPT !.slot = 0] /\ Go(c, "end")
    /\ UNCHANGED <<po, gens, closer, spare>>

\* Close's lock and the retirement are one critical section each.
retireBrowserGeneration(c, force, dirty) ==
    /\ SetMine(c, markBrowserStoppingLocked([Mine(c) EXCEPT !.retired = TRUE, !.force = @ \/ force, !.dirty = dirty]))
    /\ pool' = [pool EXCEPT !.current = IF @ = cap[c].b THEN 0 ELSE @]

\* Mutant: a capture takes the process as it finds it.
checkNothing(c) ==
    /\ InCap(c, "check") /\ Go(c, "use")
    /\ UNCHANGED <<po, bro, pool, gens, closer, spare>>
checkBlocked(c) ==
    /\ InCap(c, "check")
    /\ IF Mine(c).blocked THEN retireBrowserGeneration(c, TRUE, TRUE) /\ Go(c, "release")
       ELSE Go(c, "use") /\ UNCHANGED <<bro, pool>>
    /\ UNCHANGED <<po, gens, closer, spare>>

\* The outcome of the page, as Capture and ExtractMetadata judge it.
\* Mutant: an unknown browser context does not retire the process.
keepsContext(c) ==
    /\ InCap(c, "use")
    /\ \/ Mine(c).blocked /\ retireBrowserGeneration(c, TRUE, TRUE) /\ spare' = spare
       \/ ~Mine(c).blocked /\ Pay("faults") /\ SetMine(c, [Mine(c) EXCEPT !.dirty = TRUE]) /\ pool' = pool
       \/ ~Mine(c).blocked /\ UNCHANGED <<bro, pool, spare>>
    /\ Go(c, "release") /\ UNCHANGED <<po, gens, closer>>
\* Without a proxy of its own a capture ends before it is judged.
Capture(c) ==
    /\ InCap(c, "use")
    /\ \/ Mine(c).blocked /\ retireBrowserGeneration(c, TRUE, TRUE) /\ spare' = spare
       \/ Mine(c).blocked /\ Pay("faults") /\ UNCHANGED <<bro, pool>>
       \/ /\ ~Mine(c).blocked /\ \E force \in BOOLEAN : retireBrowserGeneration(c, force, force)
          /\ IF Mine(c).cancelled THEN spare' = spare ELSE Pay("faults")
       \/ ~Mine(c).blocked /\ UNCHANGED <<bro, pool, spare>>
    /\ Go(c, "release") /\ UNCHANGED <<po, gens, closer>>

\* Mutant: the last capture of a retired browser leaves.
leaveBrowser(c) ==
    /\ InCap(c, "release")
    /\ SetMine(c, [Mine(c) EXCEPT !.refs = @ - 1])
    /\ pool' = [pool EXCEPT !.slot = 0] /\ Go(c, "end")
    /\ UNCHANGED <<po, gens, closer, spare>>
releaseBrowser(c) ==
    /\ InCap(c, "release")
    /\ SetMine(c, markBrowserStoppingLocked([Mine(c) EXCEPT !.refs = @ - 1, !.dirty = @ \/ Mine(c).blocked]))
    /\ pool' = [pool EXCEPT !.slot = 0] /\ Go(c, "end")
    /\ UNCHANGED <<po, gens, closer, spare>>

Using(b) == \E c \in Captures : InCap(c, "use") /\ cap[c].b = b

\* The process reaches for an address that its proxy refuses, during a capture or between two.
escapes(b) ==
    /\ bro[b].proc = "up" /\ bro[b].proxy /\ ~bro[b].blocked /\ b \in gens /\ Pay("escapes")
    /\ bro' = [bro EXCEPT ![b] = [bro[b] EXCEPT !.blocked = TRUE, !.dirty = @ \/ ~Using(b)]]
    /\ UNCHANGED <<po, cap, pool, gens, closer>>

-----------------------------------------------------------------------------
(* Close *)

beginClose ==
    /\ closer.pc = "open" /\ Pay("closes")
    /\ closer' = [pc |-> "stop", startup |-> pool.starting, gens |-> gens, expired |-> FALSE]
    /\ pool' = [pool EXCEPT !.closed = TRUE, !.current = 0]
    /\ bro' = [b \in Browsers |->
                 IF b = pool.starting THEN [bro[b] EXCEPT !.cancelled = TRUE]
                 ELSE IF b \in gens THEN LET r == markBrowserStoppingLocked([bro[b] EXCEPT !.retired = TRUE])
                                         IN [r EXCEPT !.stop = IF r.stop = "begin" /\ bro[b].stop = "none" THEN "queued" ELSE @]
                 ELSE bro[b]]
    /\ UNCHANGED <<po, cap, gens>>

\* The startup is stopped, every generation cancelled, and the idle ones begin to stop.
finishClose ==
    /\ closer.pc = "stop"
    /\ closer' = [closer EXCEPT !.pc = "join"]
    /\ LET gone(b) == [bro[b] EXCEPT !.cancelled = @ \/ b \in closer.gens, !.stop = IF @ = "queued" THEN "begin" ELSE @]
           rest == [b \in Browsers |-> gone(b)]
       IN  IF closer.startup = 0 THEN bro' = rest /\ spare' = spare
           ELSE \E r \in {bro[closer.startup]} : \E s \in hardStopStartup(r) :
                   /\ bro' = [rest EXCEPT ![closer.startup] = [s EXCEPT !.early = ~r.once /\ ~r.done /\ r.proc = "none"]]
                   /\ Losing(r, s)
    /\ UNCHANGED <<po, cap, pool, gens>>

shutdownExpires ==
    /\ closer.pc = "join" /\ ~closer.expired
    /\ closer' = [closer EXCEPT !.expired = TRUE]
    /\ UNCHANGED <<po, cap, bro, pool, gens, spare>>

forceBrowserStop(b) ==
    /\ closer.pc = "join" /\ closer.expired /\ b \in closer.gens /\ ~bro[b].fin
    /\ Become(b, {finished([s EXCEPT !.stopping = TRUE]) : s \in cleanupGenerationLauncher(bro[b], TRUE)})
    /\ gens' = gens \ {b}
    /\ UNCHANGED <<po, cap, pool, closer>>

waitForTeardown ==
    /\ closer.pc = "join"
    /\ closer.startup # 0 => bro[closer.startup].done \/ closer.expired
    /\ \A b \in closer.gens : bro[b].fin
    /\ closer' = [closer EXCEPT !.pc = "closed"]
    /\ UNCHANGED <<po, cap, bro, pool, gens, spare>>

-----------------------------------------------------------------------------
captureStep(c) ==
    \/ acquireSlot(c) \/ claimBrowserOrWait(c) \/ newCaptureProxy(c) \/ startBrowserGeneration(c) \/ checkContext(c)
    \/ launch(c) \/ launchBrowserWithCleanup(c) \/ startFails(c) \/ adoptStartedBrowser(c) \/ launchOwnedBrowser(c)
    \/ checkBlocked(c) \/ Capture(c) \/ releaseBrowser(c)
stopStep(b) == stopBegins(b) \/ closeAnswers(b) \/ closesGently(b) \/ finishBrowserStop(b) \/ exits(b)
closeStep == finishClose \/ shutdownExpires \/ (\E b \in Browsers : forceBrowserStop(b)) \/ waitForTeardown

PoolNext ==
    \/ \E c \in Captures : captureStep(c) \/ startupExpires(c)
    \/ \E b \in Browsers : stopStep(b) \/ escapes(b)
    \/ beginClose \/ closeStep

\* Every wait of a capture, of a teardown and of Close has a timeout.
PoolFairness ==
    /\ \A c \in 1..3 : WF_poolVars(c \in Captures /\ captureStep(c))
    /\ \A b \in 1..3 : WF_poolVars(b \in Browsers /\ stopStep(b))
    /\ WF_poolVars(closeStep)

PoolSpec == PoolInit /\ [][PoolNext]_poolVars /\ PoolFairness

-----------------------------------------------------------------------------
(* Properties *)

\* While the pool is open, the browser a capture holds keeps its process, its profile and its proxy: a retirement or a
\* teardown never reaches it before releaseBrowser.
HeldStaysUp ==
    \A c \in Captures : ~pool.closed /\ cap[c].pc \in {"check", "use", "release"} =>
        Mine(c).proc = "up" /\ Mine(c).profile /\ Mine(c).proxy

\* No capture runs in a process where an earlier capture left a browser context of unknown state, or whose proxy refused an
\* address during an earlier capture, between two, or before this one had looked.
StateNeverCrosses == \A c \in Captures : cap[c].pc = "use" => ~Mine(c).dirty

Gone(b) == bro[b].proc # "up" /\ ~bro[b].proxy /\ (bro[b].profile => bro[b].lost)
Quiet == (\A c \in Captures : cap[c].pc \in {"idle", "end"}) /\ \A b \in Browsers : bro[b].stop = "none"
Joined == closer.pc = "closed" /\ (~closer.expired \/ Quiet)

\* When Close returns within its budget, or has returned and what it did not wait for has ended, no process, profile or
\* proxy is left of any browser, but for a startup that Close stopped before it had a process (see CloseLeavesNothing).
ClosedMeansGone == Joined => \A b \in Browsers : bro[b].early \/ Gone(b)

\* Once Close has begun, no capture gets a browser, not even the one whose startup was under way.
NoneHandedAfterClose ==
    [][\A c \in Captures : pool.closed /\ cap'[c].pc = "check" => cap[c].pc = "check"]_poolVars

\* A retired browser is stopped, whether it was idle or held when it was retired.
RetiredStops == []<>(\A b \in Browsers : bro[b].retired => bro[b].fin)

\* "every launch failure cleans the profile" (docs/INVARIANTS.md), and Close joins a late startup's cleanup.
\* It does not hold of a startup that Close stops before it has a process (README, section 3).
CloseLeavesNothing == Joined => \A b \in Browsers : bro[b].proc # "up" /\ (bro[b].profile => bro[b].lost)

\* What a capture gets and what Close leaves.
BrowsersSound == HeldStaysUp /\ StateNeverCrosses /\ ClosedMeansGone

\* No browser is handed out once Close has begun, and each one retired is stopped.
BrowsersEnd == NoneHandedAfterClose /\ RetiredStops
=============================================================================

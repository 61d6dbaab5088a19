------------------------------ MODULE ChangeCheck ------------------------------
(***************************************************************************)
(* The change checks of watched pages.  A scan claims the links whose      *)
(* interval has passed by stamping last_checked_at, and that stamp is both *)
(* the schedule and the token of the claim: a result is recorded only      *)
(* while it is still on the row.  Two instances of the program may scan    *)
(* the same table.  A page, or the feed it declares, is reduced to the     *)
(* version that was current when it was fetched.                           *)
(***************************************************************************)
EXTENDS FiniteSets, Integers, Sequences, SequencesExt

CONSTANT CheckScenarios  \* [links, instances, room, pushes, changes, feeds, edits, gates, slow, faults, stops]

ASSUME ChecksAssumption == \A s \in CheckScenarios : {s.links, s.instances, s.room} \subseteq Nat

VARIABLES
    cc,        \* the scenario
    link,      \* link -> [url, on, locked, active: its owner, claimed: the stamp, elapsed: the interval has passed, base]
    page,      \* url -> [v: version, feed: the page declares a feed that answers]
    inst,      \* instance -> [st, scan, due, jobs, pc, job, fp, push: queued notifications]
    told,      \* history: the notifications that were queued
    begun,     \* history: links whose present claim a worker took, or was lost with a crash or a failed statement
    left       \* remaining operations of the user and the web, and faults

checkVars == <<cc, link, page, inst, told, begun, left>>

Links == 1..cc.links
Urls == {"u1", "u2"}
Instances == 1..cc.instances
NoBase == <<"none", 0>>
NoJob == [id |-> 0, url |-> "u1", last |-> NoBase, token |-> 0]
Fresh == [st |-> "up", scan |-> "idle", due |-> <<>>, jobs |-> <<>>, pc |-> "idle", job |-> NoJob, fp |-> NoBase,
          push |-> <<>>]

CheckInit ==
    /\ cc \in CheckScenarios
    /\ link = [l \in Links |-> [url |-> "u1", on |-> TRUE, locked |-> FALSE, active |-> TRUE, claimed |-> 0, elapsed |-> FALSE,
                                base |-> [url |-> "u1", fp |-> <<"content", 1>>]]]
    /\ page = [u \in Urls |-> [v |-> 1, feed |-> FALSE]]
    /\ inst = [i \in Instances |-> Fresh]
    /\ told = <<>> /\ begun = {}
    /\ left = [changes |-> cc.changes, feeds |-> cc.feeds, edits |-> cc.edits, gates |-> cc.gates, slow |-> cc.slow,
               faults |-> cc.faults, stops |-> cc.stops]

Spend(what) == left[what] > 0 /\ left' = [left EXCEPT ![what] = @ - 1]
Out(i) == inst[i].scan = "out" /\ inst[i].pc = "out"

\* A stamp no row and no job carries.
JobsOf(i) == {inst[i].job} \cup ToSet(inst[i].jobs) \cup ToSet(inst[i].due)
InUse == {link[l].claimed : l \in Links} \cup {j.token : j \in UNION {JobsOf(i) : i \in Instances}}
NewToken == CHOOSE t \in 1..(Cardinality(InUse) + 1) : t \notin InUse

-----------------------------------------------------------------------------
(* The scan *)

\* Mutant: only a row that was never checked is due.
neverChecked(l) == link[l].on /\ ~link[l].locked /\ link[l].active /\ link[l].claimed = 0

Due(l) == link[l].on /\ ~link[l].locked /\ link[l].active /\ (link[l].claimed = 0 \/ link[l].elapsed)

\* As many as the channel has room for.  Which of them the ages of the stamps decide, and in which order
\* the statement returns them, is left open.
SystemClaimDueForCheck(i) ==
    /\ inst[i].st = "up" /\ inst[i].scan = "idle"
    /\ LET due   == {l \in Links : Due(l)}
           room  == cc.room - Len(inst[i].jobs)
           count == IF Cardinality(due) < room THEN Cardinality(due) ELSE room
           Job(l) == [id |-> l, url |-> link[l].url, last |-> link[l].base.fp, token |-> NewToken]
       IN  /\ count > 0
           /\ \E row \in Injection(1..count, due) :
                /\ link' = [l \in Links |-> IF l \in Range(row) THEN [link[l] EXCEPT !.claimed = NewToken, !.elapsed = FALSE]
                                           ELSE link[l]]
                /\ inst' = [inst EXCEPT ![i].scan = "queue", ![i].due = [k \in 1..count |-> Job(row[k])]]
                /\ begun' = begun \ Range(row)
    /\ UNCHANGED <<cc, page, told, left>>

\* The call fails after the server has run its statement: the connection breaks, or Stop cancels the call, while the answer is
\* read.  scan returns with nothing, and the stamps stay.  The server may get there after the instance has gone on, or ended.
claimLost ==
    /\ Spend("faults")
    /\ \E lost \in SUBSET {l \in Links : Due(l)} :
         /\ lost # {} /\ Cardinality(lost) <= cc.room
         /\ link' = [l \in Links |-> IF l \in lost THEN [link[l] EXCEPT !.claimed = NewToken, !.elapsed = FALSE] ELSE link[l]]
         /\ begun' = begun \cup lost
    /\ UNCHANGED <<cc, page, inst, told>>

scanEnqueue(i) ==
    /\ inst[i].scan = "queue" /\ inst[i].due # <<>>
    /\ inst' = [inst EXCEPT ![i].jobs = Append(@, Head(inst[i].due)), ![i].due = Tail(@)]
    /\ UNCHANGED <<cc, link, page, told, begun, left>>

scanEnds(i) ==
    /\ inst[i].scan = "queue" /\ inst[i].due = <<>>
    /\ inst' = [inst EXCEPT ![i].scan = "idle"]
    /\ UNCHANGED <<cc, link, page, told, begun, left>>

\* By the link, not by the stamp: NULL is due at once.
SystemReleaseCheckClaims(jobs) ==
    link' = [l \in Links |-> IF link[l].on /\ \E j \in ToSet(jobs) : j.id = l
                             THEN [link[l] EXCEPT !.claimed = 0, !.elapsed = FALSE] ELSE link[l]]

\* Links whose claim is that of one of the jobs.
StillTheirs(jobs) == {l \in Links : \E j \in ToSet(jobs) : j.id = l /\ j.token = link[l].claimed}

\* A release that fails is only logged: the stamps stay.
releaseClaims(jobs) ==
    \/ SystemReleaseCheckClaims(jobs) /\ UNCHANGED <<begun, left>>
    \/ jobs # <<>> /\ Spend("faults") /\ begun' = begun \cup StillTheirs(jobs) /\ UNCHANGED link

\* The context is done: what has not reached the channel is released.
scanStops(i) ==
    /\ inst[i].st = "stopping" /\ inst[i].scan # "out"
    /\ releaseClaims(inst[i].due)
    /\ inst' = [inst EXCEPT ![i].scan = "out", ![i].due = <<>>]
    /\ UNCHANGED <<cc, page, told>>

-----------------------------------------------------------------------------
(* A worker *)

\* A worker that is told to stop may still take a job.
receive(i) ==
    /\ inst[i].pc = "idle" /\ inst[i].jobs # <<>>
    /\ inst' = [inst EXCEPT ![i].jobs = Tail(@), ![i].job = Head(inst[i].jobs), ![i].pc = "fetch"]
    /\ begun' = IF link[Head(inst[i].jobs).id].claimed = Head(inst[i].jobs).token THEN begun \cup {Head(inst[i].jobs).id} ELSE begun
    /\ UNCHANGED <<cc, link, page, told, left>>

workerStops(i) ==
    /\ inst[i].st = "stopping" /\ inst[i].pc = "idle"
    /\ inst' = [inst EXCEPT ![i].pc = "out"]
    /\ UNCHANGED <<cc, link, page, told, begun, left>>

Rest(i) == inst' = [inst EXCEPT ![i].pc = "idle", ![i].job = NoJob, ![i].fp = NoBase]

\* The feed's items when the page declares a feed that answers, its text otherwise.
Compute(u) == <<IF page[u].feed THEN "feed" ELSE "content", page[u].v>>

fetch(i) ==
    /\ inst[i].pc = "fetch"
    /\ inst' = [inst EXCEPT ![i].fp = Compute(inst[i].job.url), ![i].pc = "record"]
    /\ UNCHANGED <<cc, link, page, told, begun, left>>

\* What a stop does to a job's calls, a fault may do at any time.
Interrupted(i) == IF inst[i].st = "stopping" THEN UNCHANGED left ELSE Spend("faults")

\* A page that cannot be fetched leaves the baseline; a cancelled job or a panic writes nothing.
jobEnds(i) ==
    /\ inst[i].pc \in {"fetch", "record"} /\ Rest(i)
    /\ Interrupted(i)
    /\ UNCHANGED <<cc, link, page, told, begun>>

\* A baseline of the same kind that moved.
Changed(i) == LET last == inst[i].job.last IN last # NoBase /\ last[1] = inst[i].fp[1] /\ last[2] # inst[i].fp[2]
Told(i) == [id |-> inst[i].job.id, url |-> inst[i].job.url, from |-> inst[i].job.last, to |-> inst[i].fp]

\* Mutant: any claim on the row will do.
recordAnyClaim(i) ==
    LET l == inst[i].job.id
    IN  link[l].claimed # 0 /\ link[l].on /\ ~link[l].locked

\* The stamp, the interval and the lock are compared in the statement that writes.
Applies(i) ==
    LET l == inst[i].job.id
    IN  link[l].claimed = inst[i].job.token /\ link[l].on /\ ~link[l].locked

\* A result whose answer is lost is recorded and not announced.
SystemRecordCheckResult(i) ==
    /\ inst[i].pc = "record" /\ Applies(i)
    /\ link' = [link EXCEPT ![inst[i].job.id].base = [url |-> inst[i].job.url, fp |-> inst[i].fp]]
    /\ \/ (IF Changed(i) THEN inst' = [inst EXCEPT ![i].pc = "push"] ELSE Rest(i)) /\ UNCHANGED left
       \/ Changed(i) /\ Interrupted(i) /\ Rest(i)
    /\ UNCHANGED <<cc, page, told, begun>>

\* Mutant: a change is announced whether its result was recorded or not.
announceAnyway(i) ==
    /\ inst[i].pc = "record" /\ ~Applies(i)
    /\ IF Changed(i) THEN inst' = [inst EXCEPT ![i].pc = "push"] ELSE Rest(i)
    /\ UNCHANGED <<cc, link, page, told, begun, left>>

\* A newer claim or a new configuration won.
superseded(i) ==
    /\ inst[i].pc = "record" /\ ~Applies(i)
    /\ Rest(i)
    /\ UNCHANGED <<cc, link, page, told, begun, left>>

\* A full queue drops the notification.
queuePush(i) ==
    /\ inst[i].pc = "push"
    /\ IF Len(inst[i].push) < cc.pushes
       THEN /\ inst' = [inst EXCEPT ![i].pc = "idle", ![i].job = NoJob, ![i].fp = NoBase, ![i].push = Append(@, Told(i))]
            /\ told' = Append(told, Told(i))
       ELSE Rest(i) /\ UNCHANGED told
    /\ UNCHANGED <<cc, link, page, begun, left>>

deliverPush(i) ==
    /\ inst[i].push # <<>>
    /\ inst' = [inst EXCEPT ![i].push = Tail(@)]
    /\ UNCHANGED <<cc, link, page, told, begun, left>>

-----------------------------------------------------------------------------
(* Stop, crash and restart *)

cancel(i) ==
    /\ inst[i].st = "up" /\ Spend("stops")
    /\ inst' = [inst EXCEPT ![i].st = "stopping"]
    /\ UNCHANGED <<cc, link, page, told, begun>>

\* Mutant: the buffered claims go with the channel.
StopForgets(i) ==
    /\ inst[i].st = "stopping" /\ Out(i)
    /\ inst' = [inst EXCEPT ![i].st = "down", ![i].jobs = <<>>, ![i].push = <<>>]
    /\ UNCHANGED <<cc, link, page, told, begun, left>>

\* Every goroutine is out: the claims in the channel are released.
Stop(i) ==
    /\ inst[i].st = "stopping" /\ Out(i)
    /\ releaseClaims(inst[i].jobs)
    /\ inst' = [inst EXCEPT ![i].st = "down", ![i].jobs = <<>>, ![i].push = <<>>]
    /\ UNCHANGED <<cc, page, told>>

crash(i) ==
    /\ inst[i].st # "down" /\ Spend("faults")
    /\ begun' = begun \cup {l \in Links : \E j \in JobsOf(i) : j.id = l /\ j.token = link[l].claimed}
    /\ inst' = [inst EXCEPT ![i] = [Fresh EXCEPT !.st = "down"]]
    /\ UNCHANGED <<cc, link, page, told>>

Start(i) ==
    /\ inst[i].st = "down" /\ inst' = [inst EXCEPT ![i] = Fresh]
    /\ UNCHANGED <<cc, link, page, told, begun, left>>

-----------------------------------------------------------------------------
(* The web, the clock and the user *)

changePage(u) ==
    /\ Spend("changes") /\ page' = [page EXCEPT ![u].v = @ + 1]
    /\ UNCHANGED <<cc, link, inst, told, begun>>

turnFeed(u) ==
    /\ Spend("feeds") /\ page' = [page EXCEPT ![u].feed = ~@]
    /\ UNCHANGED <<cc, link, inst, told, begun>>

OnItsWay(l) == \E i \in Instances : \E j \in JobsOf(i) : j.id = l /\ j.token = link[l].claimed

\* An interval is an hour or more: only a stalled program spends one on a check.
elapse(l) ==
    /\ link[l].claimed # 0 /\ ~link[l].elapsed
    /\ IF OnItsWay(l) THEN Spend("slow") ELSE UNCHANGED left
    /\ link' = [link EXCEPT ![l].elapsed = TRUE]
    /\ UNCHANGED <<cc, page, inst, told, begun>>

\* Mutant: a new URL forgets the baseline and leaves the stamp.
resetBaseline(row) == [row EXCEPT !.base = [url |-> row.url, fp |-> NoBase]]

\* A URL or an interval that changed wipes the baseline and the stamp.
appendCheckResetCases(row) == [row EXCEPT !.base = [url |-> row.url, fp |-> NoBase], !.claimed = 0, !.elapsed = FALSE]

editLink(l) ==
    /\ Spend("edits")
    /\ \/ \E u \in Urls \ {link[l].url} : link' = [link EXCEPT ![l] = appendCheckResetCases([link[l] EXCEPT !.url = u])]
       \/ link' = [link EXCEPT ![l] = appendCheckResetCases([link[l] EXCEPT !.on = ~@])]
    /\ UNCHANGED <<cc, page, inst, told, begun>>

\* The link's folder is given a password, or loses it; its owner is disabled, or enabled.
gateLink(l) ==
    /\ Spend("gates")
    /\ \/ link' = [link EXCEPT ![l].locked = ~@]
       \/ link' = [link EXCEPT ![l].active = ~@]
    /\ UNCHANGED <<cc, page, inst, told, begun>>

Act(i) ==
    \/ scanEnqueue(i) \/ scanEnds(i) \/ scanStops(i) \/ receive(i) \/ workerStops(i) \/ fetch(i)
    \/ SystemRecordCheckResult(i) \/ superseded(i) \/ queuePush(i) \/ deliverPush(i) \/ Stop(i) \/ Start(i)

CheckNext ==
    \/ claimLost
    \/ \E i \in Instances : SystemClaimDueForCheck(i) \/ Act(i) \/ jobEnds(i) \/ cancel(i) \/ crash(i)
    \/ \E u \in Urls : changePage(u) \/ turnFeed(u)
    \/ \E l \in Links : elapse(l) \/ editLink(l) \/ gateLink(l)

\* Goroutines run, the scan's ticker ticks, an interval passes, a stopped program is started again.
CheckFairness ==
    /\ \A i \in 1..2 : WF_checkVars(i \in Instances /\ Act(i)) /\ WF_checkVars(i \in Instances /\ SystemClaimDueForCheck(i))
    /\ WF_checkVars(elapse(1))

CheckSpec == CheckInit /\ [][CheckNext]_checkVars /\ CheckFairness

-----------------------------------------------------------------------------
(* Properties *)

\* Nothing a link was told of an earlier URL or interval stays, or comes back: neither its baseline is
\* of another page, nor has a link that is not watched one.
BaselineCurrent ==
    \A l \in Links : link[l].base.fp # NoBase => link[l].base.url = link[l].url /\ link[l].on

\* A slow check never puts an older version of the page over a newer one.
BaselineForward ==
    [][\A l \in Links : link'[l].base.url = link[l].base.url /\ link'[l].base.fp # NoBase
                        => link'[l].base.fp[2] >= link[l].base.fp[2]]_checkVars

\* The owner hears of a change once.
NotifiedOnce == \A a, b \in DOMAIN told : a # b => told[a] # told[b]

\* A claim whose interval runs has a job on its way, or one that was begun, unless a crash lost it, the claim's call failed after
\* its statement had run, or its release failed: a stop without such a failure leaves no link waiting for its next interval
\* because of a check that never began, in the channel or on the way there.
ClaimHasHolder ==
    \A l \in Links : link[l].claimed # 0 /\ ~link[l].elapsed /\ l \notin begun /\ link[l].on => OnItsWay(l)

\* A page that stopped changing is the baseline in the end.
Watched == link[1].on /\ ~link[1].locked /\ link[1].active
CheckCatchesUp == <>[]~Watched \/ []<>(link[1].base.fp = Compute(link[1].url))

\* What a link knows of its page: a baseline of the page it watches, each change announced once,
\* and no claim that nobody works on but those that a failure lost.
ChecksSound == BaselineCurrent /\ NotifiedOnce /\ ClaimHasHolder

\* The baseline only moves forward, and reaches the page in the end.
BaselineAdvances == BaselineForward /\ CheckCatchesUp
=============================================================================

----------------------------- MODULE PreviewWorker -----------------------------
(***************************************************************************)
(* A link's preview: a pool of workers fetches the page, or captures a     *)
(* screenshot of it, and writes what it found unless the row changed       *)
(* meanwhile.  The row's status is the durable queue: a bounded channel in *)
(* memory carries the requests, a sweep refills it with pending rows when  *)
(* it drained, and every 45 seconds in case a wake-up was lost.            *)
(*                                                                         *)
(* The same rows and image objects are written by the user's requests:     *)
(* refresh, edit, upload, capture, remove, and a read that finds the       *)
(* object gone.  Every image object has a key of its own.                  *)
(***************************************************************************)
EXTENDS FiniteSets, Integers, Sequences

CONSTANT PreviewScenarios  \* [status: of each link, pages, workers, refreshes, edits, images, losses, faults]

Statuses == {"pending", "ok", "failed"}

ASSUME PreviewAssumption ==
    \A s \in PreviewScenarios :
        /\ s.status \in Seq(Statuses) /\ s.pages \subseteq {"failed", "image", "bare"} /\ s.workers \in Nat \ {0}
        /\ {s.refreshes, s.edits, s.images, s.losses, s.faults} \subseteq Nat

VARIABLES
    pv,         \* the scenario
    rows,       \* link -> [status, url, img, gen, upd] and, history, [asked, ans]
    jobs,       \* the channel: a sequence of [id, claimed, work]
    scheduled,  \* link -> [running, rerun, recovery], or NotScheduled
    recovery,   \* [needed: recoveryNeeded, wake: recoveryWake holds a token]
    worker,     \* worker -> [pc, id, claimed, work, key]
    sweep,      \* requeueLoop: [pc, limit, todo, full]
    waiting,    \* link -> requests between their row write and their Enqueue
    manual,     \* POST /screenshot: the row it read, or NoCapture
    trash,      \* images a handler has replaced and not deleted yet
    objects,    \* keys in the object store
    keys,       \* keys given so far
    stalled,    \* history: pending links whose job writes nothing, which only the ticker brings back
    dropped,    \* history: pending links whose Enqueue or rerun found the channel full
    left        \* remaining operations of the user, and faults

queue == <<jobs, scheduled, recovery>>
handlers == <<waiting, manual, trash>>
bucket == <<objects, keys>>
missed == <<stalled, dropped>>
previewVars == <<pv, rows, queue, worker, sweep, handlers, bucket, missed, left>>

Ids == DOMAIN pv.status
Pool == 1..pv.workers
NoImage == 0
Remote == 1            \* an og:image on the page's own server; every larger number is a key
NotScheduled == [running |-> FALSE, rerun |-> FALSE, recovery |-> FALSE, in |-> FALSE]
NoCapture == [id |-> 0, upd |-> 0, img |-> NoImage]
Resting == [pc |-> "idle", id |-> 0, claimed |-> FALSE, work |-> <<>>, key |-> 0]
Asleep == [pc |-> "idle", limit |-> 0, todo |-> {}, full |-> FALSE]

PreviewInit ==
    /\ pv \in PreviewScenarios
    /\ rows = [id \in Ids |-> [status |-> pv.status[id], url |-> 0, img |-> NoImage, gen |-> 0, upd |-> 0, asked |-> 0, ans |-> 0]]
    /\ jobs = <<>> /\ scheduled = [id \in Ids |-> NotScheduled]
    /\ recovery = [needed |-> FALSE, wake |-> TRUE]
    /\ worker = [w \in Pool |-> Resting] /\ sweep = Asleep
    /\ waiting = [id \in Ids |-> 0] /\ manual = NoCapture
    /\ trash = {} /\ objects = {} /\ keys = 1 /\ stalled = {} /\ dropped = {}
    /\ left = [refreshes |-> pv.refreshes, edits |-> pv.edits, images |-> pv.images, losses |-> pv.losses,
               faults |-> pv.faults]

Spend(what) == left[what] > 0 /\ left' = [left EXCEPT ![what] = @ - 1]

\* The row's next version; every write stamps updated_at.
Stamp(row) == [row EXCEPT !.upd = @ + 1]
Answer(row, asked, status, img) == [Stamp(row) EXCEPT !.ans = asked, !.status = status, !.img = img]

-----------------------------------------------------------------------------
(* The channel and the schedule *)

Room == Len(jobs) < pv.workers

\* recoveryNeeded, which a drained channel turns into a wake-up.
requireRecovery(js) == [needed |-> js # <<>>, wake |-> recovery.wake \/ js = <<>>]
wakeRecoveryIfNeeded(js) ==
    IF js = <<>> /\ recovery.needed THEN [needed |-> FALSE, wake |-> TRUE] ELSE recovery

\* Mutant: a refresh of a link whose recovered job waits in the channel is the same job.
enqueueRunning(job, explicit) ==
    LET s == scheduled[job.id]
    IN  CASE s.in -> /\ scheduled' = [scheduled EXCEPT ![job.id].rerun = @ \/ (explicit /\ s.running)]
                     /\ UNCHANGED <<jobs, recovery>>
          [] ~s.in /\ Room -> /\ scheduled' = [scheduled EXCEPT ![job.id] = [NotScheduled EXCEPT !.in = TRUE, !.recovery = job.claimed]]
                              /\ jobs' = Append(jobs, job) /\ UNCHANGED recovery
          [] OTHER -> recovery' = requireRecovery(jobs) /\ UNCHANGED <<jobs, scheduled>>

\* Under jobsMu.  A job that may have read the row already runs again; a full channel is not waited for.
enqueue(job, explicit) ==
    LET s == scheduled[job.id]
    IN  CASE s.in -> /\ scheduled' = [scheduled EXCEPT ![job.id].rerun = @ \/ (explicit /\ (s.running \/ s.recovery))]
                     /\ UNCHANGED <<jobs, recovery>>
          [] ~s.in /\ Room -> /\ scheduled' = [scheduled EXCEPT ![job.id] = [NotScheduled EXCEPT !.in = TRUE, !.recovery = job.claimed]]
                              /\ jobs' = Append(jobs, job) /\ UNCHANGED recovery
          [] OTHER -> recovery' = requireRecovery(jobs) /\ UNCHANGED <<jobs, scheduled>>

\* Mutant: a rerun the channel has no room for keeps its place in the schedule.
finishKept(w) ==
    LET id == worker[w].id
        s  == scheduled[id]
    IN  /\ worker[w].pc = "finish"
        /\ worker' = [worker EXCEPT ![w] = Resting]
        /\ scheduled' = [scheduled EXCEPT ![id] = IF s.rerun THEN [NotScheduled EXCEPT !.in = TRUE] ELSE NotScheduled]
        /\ jobs' = IF s.rerun /\ Room THEN Append(jobs, [id |-> id, claimed |-> FALSE, work |-> <<>>]) ELSE jobs
        /\ IF s.rerun /\ ~Room THEN recovery' = requireRecovery(jobs) /\ dropped' = dropped \cup {id}
                             ELSE UNCHANGED <<recovery, dropped>>
        /\ UNCHANGED <<pv, rows, sweep, handlers, bucket, stalled, left>>

finishJob(w) ==
    LET id == worker[w].id
        s  == scheduled[id]
    IN  /\ worker[w].pc = "finish"
        /\ worker' = [worker EXCEPT ![w] = Resting]
        /\ IF s.rerun /\ Room
           THEN /\ scheduled' = [scheduled EXCEPT ![id] = [NotScheduled EXCEPT !.in = TRUE]]
                /\ jobs' = Append(jobs, [id |-> id, claimed |-> FALSE, work |-> <<>>])
           ELSE scheduled' = [scheduled EXCEPT ![id] = NotScheduled] /\ UNCHANGED jobs
        /\ IF s.rerun /\ ~Room THEN recovery' = requireRecovery(jobs) /\ dropped' = dropped \cup {id}
                             ELSE UNCHANGED <<recovery, dropped>>
        /\ UNCHANGED <<pv, rows, sweep, handlers, bucket, stalled, left>>

\* requeuePending: as many rows as are scheduled or fit, of the pending ones in order.
recoveryQueryLimit == IF Room THEN Cardinality({id \in Ids : scheduled[id].in}) + pv.workers - Len(jobs) ELSE 0

\* By the wake-up, or by the ticker without one.
requeuePending ==
    /\ sweep.pc = "idle"
    /\ LET woken == [recovery EXCEPT !.wake = FALSE]
       IN  IF recoveryQueryLimit = 0
           THEN recovery' = [woken EXCEPT !.needed = TRUE] /\ UNCHANGED sweep
           ELSE recovery' = woken /\ sweep' = [Asleep EXCEPT !.pc = "query", !.limit = recoveryQueryLimit]
    /\ UNCHANGED <<pv, rows, jobs, scheduled, worker, handlers, bucket, missed, left>>

Pending == {id \in Ids : rows[id].status = "pending"}

\* ORDER BY id ASC LIMIT
firstPending(limit) == {id \in Pending : Cardinality({j \in Pending : j < id}) < limit}

SystemPendingPreviews ==
    /\ sweep.pc = "query"
    /\ \/ /\ sweep' = [sweep EXCEPT !.pc = "refill", !.full = Cardinality(Pending) >= sweep.limit,
                              !.todo = {[id |-> id, claimed |-> TRUE, work |-> rows[id]] : id \in firstPending(sweep.limit)}]
          /\ UNCHANGED <<stalled, left>>
       \/ Spend("faults") /\ stalled' = stalled \cup Pending /\ sweep' = Asleep
    /\ UNCHANGED <<pv, rows, queue, worker, handlers, bucket, dropped>>

\* The first row that finds the channel full ends the round.
enqueueRecovered ==
    /\ sweep.pc = "refill"
    /\ \E job \in sweep.todo :
          /\ \A other \in sweep.todo : job.id <= other.id
          /\ enqueue(job, FALSE)
          /\ sweep' = [sweep EXCEPT !.todo = IF scheduled[job.id].in \/ Room THEN @ \ {job} ELSE {}]
    /\ UNCHANGED <<pv, rows, worker, handlers, bucket, missed, left>>

refilled ==
    /\ sweep.pc = "refill" /\ sweep.todo = {}
    /\ recovery' = IF sweep.full THEN [requireRecovery(jobs) EXCEPT !.needed = @ \/ recovery.needed] ELSE recovery
    /\ sweep' = Asleep
    /\ UNCHANGED <<pv, rows, jobs, scheduled, worker, handlers, bucket, missed, left>>

-----------------------------------------------------------------------------
(* A worker *)

Becomes(w, next) == worker' = [worker EXCEPT ![w] = next]
To(w, pc) == [worker[w] EXCEPT !.pc = pc]
Row(w) == rows[worker[w].id]

receive(w) ==
    /\ jobs # <<>>
    /\ worker[w].pc = "idle"
    /\ Becomes(w, [pc |-> "start", id |-> Head(jobs).id, claimed |-> Head(jobs).claimed,
                        work |-> Head(jobs).work, key |-> 0])
    /\ jobs' = Tail(jobs)
    /\ recovery' = wakeRecoveryIfNeeded(Tail(jobs))
    /\ UNCHANGED <<pv, rows, scheduled, sweep, handlers, bucket, missed, left>>

startJob(w) ==
    /\ worker[w].pc = "start"
    /\ Becomes(w, To(w, "load"))
    /\ scheduled' = [scheduled EXCEPT ![worker[w].id].running = TRUE]
    /\ UNCHANGED <<pv, rows, jobs, recovery, sweep, handlers, bucket, missed, left>>

\* A recovered job works on the row the sweep read.
loadPendingPreview(w) ==
    /\ worker[w].pc = "load"
    /\ \E work \in {IF worker[w].claimed THEN worker[w].work ELSE Row(w)} :
          Becomes(w, [worker[w] EXCEPT !.work = work, !.pc = IF work.status # "pending" THEN "finish"
                                                                 ELSE IF work.img # NoImage THEN "keep" ELSE "fetch"])
    /\ UNCHANGED <<pv, rows, queue, sweep, handlers, bucket, missed, left>>

Unchanged(w) ==
    /\ Row(w).status = "pending" /\ Row(w).upd = worker[w].work.upd /\ Row(w).gen = worker[w].work.gen

\* Mutant: the write is not conditional on the row the job read.
updateAnyPending(w, status, img) ==
    rows' = IF Row(w).status = "pending"
            THEN [rows EXCEPT ![worker[w].id] =
                     Answer(Row(w), worker[w].work.asked, status, IF Row(w).img = NoImage THEN img ELSE Row(w).img)]
            ELSE rows

\* The row as it was read, or nothing; an image already there stays.
SystemUpdatePreviewIfUnchanged(w, status, img) ==
    rows' = IF Unchanged(w)
            THEN [rows EXCEPT ![worker[w].id] =
                     Answer(Row(w), worker[w].work.asked, status, IF Row(w).img = NoImage THEN img ELSE Row(w).img)]
            ELSE rows

shortCircuitExistingImage(w) ==
    /\ worker[w].pc = "keep"
    /\ Becomes(w, To(w, "finish"))
    /\ SystemUpdatePreviewIfUnchanged(w, "ok", NoImage)
    /\ UNCHANGED <<pv, queue, sweep, handlers, bucket, missed, left>>

\* The page cannot be fetched, has an image, or has none and is captured.
publishPreview(w) ==
    /\ worker[w].pc = "fetch"
    /\ \/ "failed" \in pv.pages /\ Becomes(w, To(w, "finish")) /\ SystemUpdatePreviewIfUnchanged(w, "failed", NoImage)
       \/ "image" \in pv.pages /\ Becomes(w, To(w, "finish")) /\ SystemUpdatePreviewIfUnchanged(w, "ok", Remote)
       \/ /\ "bare" \in pv.pages /\ SystemUpdatePreviewIfUnchanged(w, "pending", NoImage)
          /\ Becomes(w, To(w, IF rows' # rows THEN "look" ELSE "finish"))
    /\ UNCHANGED <<pv, queue, sweep, handlers, bucket, missed, left>>

\* maybeScreenshot: the row again, for its new version; the page stays the one the job was given.
lookAgain(w) ==
    /\ worker[w].pc = "look"
    /\ Becomes(w, [worker[w] EXCEPT !.work = [Row(w) EXCEPT !.url = worker[w].work.url],
          !.pc = IF Row(w).gen # worker[w].work.gen \/ Row(w).status # "pending" \/ Row(w).img # NoImage
                 THEN "finish" ELSE "capture"])
    /\ UNCHANGED <<pv, rows, queue, sweep, handlers, bucket, missed, left>>

\* Mutant: the object is named after the link alone.
sharedKey(id) == id + 1

\* linkimage.Store: a key of its own.
storeKey(id) == keys + 1

\* A page that must not be, or cannot be captured is released; a picture is stored.
capture(w) ==
    /\ worker[w].pc = "capture"
    /\ \/ Becomes(w, To(w, "release")) /\ UNCHANGED <<objects, keys>>
       \/ /\ Becomes(w, [worker[w] EXCEPT !.pc = "publish", !.key = storeKey(worker[w].id)])
          /\ objects' = objects \cup {storeKey(worker[w].id)} /\ keys' = keys + 1
    /\ UNCHANGED <<pv, rows, queue, sweep, handlers, missed, left>>

\* A row that changed makes the picture nobody's.
SystemUpdateOGImage(w) ==
    /\ worker[w].pc = "publish"
    /\ Becomes(w, To(w, "finish"))
    /\ IF Unchanged(w) /\ Row(w).img = NoImage
       THEN /\ rows' = [rows EXCEPT ![worker[w].id] = Answer(Row(w), worker[w].work.asked, "ok", worker[w].key)]
            /\ UNCHANGED objects
       ELSE objects' = objects \ {worker[w].key} /\ UNCHANGED rows
    /\ UNCHANGED <<pv, queue, sweep, handlers, keys, missed, left>>

SystemFinishScreenshotFallback(w) ==
    /\ worker[w].pc = "release"
    /\ Becomes(w, To(w, "finish"))
    /\ rows' = IF Unchanged(w) /\ Row(w).img = NoImage
               THEN [rows EXCEPT ![worker[w].id] = Answer(Row(w), worker[w].work.asked, "ok", NoImage)] ELSE rows
    /\ UNCHANGED <<pv, queue, sweep, handlers, bucket, missed, left>>

\* A database error, or a panic: the job ends and the row stays as it is.  A publish that failed
\* takes its object away and releases the row.
jobFails(w) ==
    /\ Spend("faults") /\ worker[w].pc \notin {"idle", "start", "finish"}
    /\ worker' = [worker EXCEPT ![w].pc = IF @ = "publish" THEN "release" ELSE "finish"]
    /\ objects' = IF worker[w].pc = "publish" THEN objects \ {worker[w].key} ELSE objects
    /\ stalled' = IF worker[w].pc = "publish" THEN stalled ELSE stalled \cup {worker[w].id}
    /\ UNCHANGED <<pv, rows, queue, sweep, handlers, keys, dropped>>

\* The publish went through and its answer was lost: the picture on the row is taken away.
publishUnanswered(w) ==
    /\ worker[w].pc = "publish" /\ Spend("losses") /\ Unchanged(w) /\ Row(w).img = NoImage
    /\ Becomes(w, To(w, "release"))
    /\ rows' = [rows EXCEPT ![worker[w].id] = Answer(Row(w), worker[w].work.asked, "ok", worker[w].key)]
    /\ objects' = objects \ {worker[w].key}
    /\ UNCHANGED <<pv, queue, sweep, handlers, keys, missed>>

-----------------------------------------------------------------------------
(* The user *)

Ask(id) == dropped' = dropped \ {id} /\ waiting' = [waiting EXCEPT ![id] = @ + 1] /\ stalled' = stalled \ {id}
Request(row) == [Stamp(row) EXCEPT !.status = "pending", !.asked = @ + 1]

\* POST /links/{id}/refresh, and a new link: the row, then the channel.
refreshPreview(id) ==
    /\ Spend("refreshes")
    /\ rows' = [rows EXCEPT ![id] = [Request(rows[id]) EXCEPT !.gen = @ + 1]]
    /\ Ask(id)
    /\ UNCHANGED <<pv, queue, worker, sweep, manual, trash, bucket>>

Enqueue(id) ==
    /\ waiting[id] > 0 /\ waiting' = [waiting EXCEPT ![id] = @ - 1]
    /\ enqueue([id |-> id, claimed |-> FALSE, work |-> <<>>], TRUE)
    /\ dropped' = IF ~scheduled[id].in /\ ~Room THEN dropped \cup {id} ELSE dropped
    /\ UNCHANGED <<pv, rows, worker, sweep, manual, trash, bucket, stalled, left>>

\* An edit of the link, its URL included, or DELETE /image: nothing is enqueued.
editLink(id) ==
    /\ Spend("edits")
    /\ \/ rows' = [rows EXCEPT ![id] = Stamp([rows[id] EXCEPT !.url = @ + 1])]
       \/ rows' = [rows EXCEPT ![id] = Stamp([rows[id] EXCEPT !.img = NoImage])]
    /\ stalled' = stalled \cup {id}
    /\ UNCHANGED <<pv, queue, worker, sweep, handlers, bucket, dropped>>

\* Store, ReplaceOGImage; the image it replaced is deleted later.
UploadImage(id) ==
    /\ Spend("images")
    /\ objects' = objects \cup {storeKey(id)} /\ keys' = keys + 1
    /\ rows' = [rows EXCEPT ![id] = Answer(rows[id], rows[id].asked, "ok", storeKey(id))]
    /\ trash' = trash \cup ({rows[id].img} \ {NoImage, Remote, storeKey(id)})
    /\ UNCHANGED <<pv, queue, worker, sweep, waiting, manual, missed>>

deletePreviousLinkImage(k) ==
    /\ k \in trash
    /\ trash' = trash \ {k} /\ objects' = objects \ {k}
    /\ UNCHANGED <<pv, rows, queue, worker, sweep, waiting, manual, keys, missed, left>>

\* POST /links/{id}/screenshot reads the row, captures, stores and publishes on the row it read.
admitCapture(id) ==
    /\ manual = NoCapture /\ Spend("images")
    /\ manual' = [id |-> id, upd |-> rows[id].upd, img |-> rows[id].img]
    /\ UNCHANGED <<pv, rows, queue, worker, sweep, waiting, trash, bucket, missed>>

publishScreenshot ==
    /\ manual # NoCapture /\ manual' = NoCapture
    /\ LET id == manual.id
           k  == storeKey(id)
       IN  IF rows[id].upd = manual.upd
           THEN /\ rows' = [rows EXCEPT ![id] = Answer(rows[id], rows[id].asked, "ok", k)]
                /\ objects' = objects \cup {k} /\ keys' = keys + 1
                /\ trash' = trash \cup ({manual.img} \ {NoImage, Remote, k})
           ELSE objects' = objects \ {k} /\ UNCHANGED <<rows, trash, keys>>
    /\ UNCHANGED <<pv, queue, worker, sweep, waiting, missed, left>>

\* The store loses an object.
lose(k) ==
    /\ Spend("losses") /\ k \in objects
    /\ objects' = objects \ {k}
    /\ UNCHANGED <<pv, rows, queue, worker, sweep, handlers, keys, missed>>

\* Mutant: the row is reset whatever image it names by now.
healWhatever(id, k) ==
    /\ k \notin objects /\ k <= keys /\ rows[id].img \notin {NoImage, Remote}
    /\ rows' = [rows EXCEPT ![id] = [Request(rows[id]) EXCEPT !.img = NoImage]]
    /\ Ask(id)
    /\ UNCHANGED <<pv, queue, worker, sweep, manual, trash, bucket, left>>

\* GET /files/{key} of a key the store does not have.
healMissingObject(id, k) ==
    /\ k \notin objects /\ rows[id].img = k
    /\ rows' = [rows EXCEPT ![id] = [Request(rows[id]) EXCEPT !.img = NoImage]]
    /\ Ask(id)
    /\ UNCHANGED <<pv, queue, worker, sweep, manual, trash, bucket, left>>

\* Stop, or a crash, and a new Start: what was in memory goes, and the first sweep comes.
restartWorker ==
    /\ Spend("faults")
    /\ jobs' = <<>> /\ scheduled' = [id \in Ids |-> NotScheduled]
    /\ recovery' = [needed |-> FALSE, wake |-> TRUE]
    /\ worker' = [w \in Pool |-> Resting] /\ sweep' = Asleep
    /\ waiting' = [id \in Ids |-> 0] /\ manual' = NoCapture /\ trash' = {}
    /\ UNCHANGED <<pv, rows, bucket, missed>>

Work(w) ==
    \/ receive(w) \/ startJob(w) \/ loadPendingPreview(w) \/ shortCircuitExistingImage(w) \/ publishPreview(w)
    \/ lookAgain(w) \/ capture(w) \/ SystemUpdateOGImage(w) \/ SystemFinishScreenshotFallback(w) \/ finishJob(w)
Sweep == SystemPendingPreviews \/ enqueueRecovered \/ refilled

PreviewNext ==
    \/ \E w \in Pool : Work(w) \/ jobFails(w) \/ publishUnanswered(w)
    \/ requeuePending \/ Sweep \/ publishScreenshot \/ restartWorker
    \/ \E id \in Ids : refreshPreview(id) \/ Enqueue(id) \/ editLink(id) \/ UploadImage(id) \/ admitCapture(id)
    \/ \E k \in 2..keys : lose(k) \/ deletePreviousLinkImage(k) \/ \E id \in Ids : healMissingObject(id, k)

\* The goroutines run, the ticker ticks, a handler gets to its Enqueue.
PreviewFairness ==
    /\ WF_previewVars(requeuePending) /\ WF_previewVars(Sweep)
    /\ \A w \in 1..2 : WF_previewVars(w \in Pool /\ Work(w))
    /\ \A id \in 1..3 : WF_previewVars(id \in Ids /\ Enqueue(id))

PreviewSpec == PreviewInit /\ [][PreviewNext]_previewVars /\ PreviewFairness

-----------------------------------------------------------------------------
(* Properties *)

Fresh(id, job) == job.id = id /\ (~job.claimed \/ (job.work.upd = rows[id].upd /\ job.work.gen = rows[id].gen))
Works(w, id) ==
    \/ worker[w].pc \in {"start", "load"} /\ Fresh(id, worker[w])
    \/ /\ worker[w].pc \notin {"idle", "start", "load", "finish"} /\ worker[w].id = id
       /\ worker[w].work.gen = rows[id].gen
       /\ worker[w].pc = "look" \/ worker[w].work.upd = rows[id].upd
Scheduled(id) ==
    \/ \E i \in DOMAIN jobs : Fresh(id, jobs[i])
    \/ \E w \in Pool : Works(w, id)
    \/ scheduled[id].rerun
Recovering(id) ==
    \/ (recovery.needed /\ jobs # <<>>) \/ recovery.wake \/ sweep.pc = "query"
    \/ sweep.pc = "refill" /\ (sweep.full \/ \E job \in sweep.todo : Fresh(id, job))

\* A request the channel took is not forgotten: while its row waits, a job that will read it, a rerun,
\* or a sweep that the next free slot starts, stands for it, without the ticker's help.
RefreshCovered ==
    \A id \in Ids \ (stalled \cup dropped) : rows[id].status = "pending" /\ waiting[id] = 0 => Scheduled(id) \/ Recovering(id)

\* A row leaves the pending state with the answer to its latest request.
AnswersCurrent == \A id \in Ids : rows[id].status # "pending" => rows[id].ans = rows[id].asked

\* Every request is under way or answered, and answered for what it asked.
RequestsAnswered == RefreshCovered /\ AnswersCurrent

\* The image a link shows is in the store until the store loses it: no cleanup of another upload,
\* capture or job takes it away.
ShownObjectExists ==
    left.losses = pv.losses => \A id \in Ids : rows[id].img \in {NoImage, Remote} \cup objects

\* A row is asked for again by a refresh, or by a read that found the image it names gone: a reader
\* of an object that is gone resets no row that names a newer one.
HealSparesNewer ==
    [][\A id \in Ids : rows'[id].asked # rows[id].asked /\ rows'[id].gen = rows[id].gen => rows[id].img \notin objects]_previewVars

\* A picture a job publishes is of the page its row names.  It does not hold of an edit between the
\* job's two reads of the row (README, section 3).
PictureOfItsPage ==
    [][\A w \in Pool : worker[w].pc = "publish" /\ rows'[worker[w].id] # Row(w) => worker[w].work.url = Row(w).url]_previewVars

\* Every preview comes to an end, whatever is lost in memory on the way.
PreviewSettles == \A id \in 1..3 : []<>(id \in Ids => rows[id].status # "pending")
=============================================================================

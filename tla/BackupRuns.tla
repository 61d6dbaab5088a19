------------------------------ MODULE BackupRuns ------------------------------
(***************************************************************************)
(* The ledger of backup runs and the agents that work it off.              *)
(*                                                                         *)
(* Every loop of every agent (one per scheduled job, one for the runs an   *)
(* administrator requested) goes through execute: it takes the instance's  *)
(* advisory lock, has a row of backup_run in status running, does the job, *)
(* gives the lock back and then records the outcome, with retries.  A      *)
(* janitor fails rows that have been running for too long, whoever owns    *)
(* them.  An agent may crash, its lock's connection may die under it, and  *)
(* a write may land although its caller sees an error.                     *)
(*                                                                         *)
(* Dumps are objects <<day, time>>; each dump prunes the store by the GFS  *)
(* policy before its own outcome is recorded.                              *)
(***************************************************************************)
EXTENDS FiniteSets, FiniteSetsExt, Integers, Sequences

CONSTANTS
    Loops,          \* the agents' loops
    AgentOf,        \* the agent of each loop
    RunScenarios,   \* [serves: the jobs of each loop, asks: jobs requested by hand, days,
                    \* max: rows of backup_run, kinds of fault that may happen, faults: how many]
    MaxRuns,        \* rows of backup_run in any scenario
    Daily, Weekly, Monthly, Sundays, Firsts   \* GFSPolicy; which days are Sundays, firsts of a month

JobNames == {"dump", "drill"}
NoLoop   == "none"

\* The agent's policy keeps at least one daily dump; its loops serve the jobs it knows.
ASSUME RunsAssumption ==
    /\ Daily \in Nat \ {0} /\ Weekly \in Nat /\ Monthly \in Nat
    /\ NoLoop \notin Loops
    /\ \A s \in RunScenarios :
          /\ s.asks \subseteq JobNames
          /\ DOMAIN s.serves \subseteq Loops
          /\ \A l \in DOMAIN s.serves : s.serves[l] \in JobNames \cup {"requested"}

VARIABLES
    runPlan,    \* the scenario
    runs,       \* backup_run, in order of id
    jobLock,    \* the loop whose connection holds the advisory lock, or NoLoop
    loop,       \* each loop's execute
    dumps,      \* dump objects in the store
    asks,       \* requests of an administrator: each job's "no", "seen" (nothing pending), "done"
    today,
    clock,      \* a stamp for every start
    faultsLeft

runsVars == <<runPlan, runs, jobLock, loop, dumps, asks, today, clock, faultsLeft>>

NoKey    == <<0, 0>>
IdleLoop == [pc |-> "idle", job |-> "none", run |-> 0, key |-> NoKey, src |-> 0,
             victims |-> {}, ok |-> FALSE, lost |-> FALSE]

Serving == DOMAIN runPlan.serves
Asker(l) == runPlan.serves[l] = "requested"

RunsInit ==
    /\ runPlan \in RunScenarios
    /\ runs = <<>> /\ jobLock = NoLoop /\ dumps = {}
    /\ loop = [l \in Loops |-> IdleLoop]
    /\ asks = [j \in runPlan.asks |-> "no"]
    /\ today = 1 /\ clock = 0
    /\ faultsLeft = runPlan.faults

Fault(kind) ==
    /\ kind \in runPlan.kinds /\ faultsLeft > 0
    /\ faultsLeft' = faultsLeft - 1

NextDay ==
    /\ today < runPlan.days
    /\ today' = today + 1
    /\ UNCHANGED <<runPlan, runs, jobLock, loop, dumps, asks, clock, faultsLeft>>

-----------------------------------------------------------------------------
(* backup_run *)

Is(j, s)     == {r \in DOMAIN runs : runs[r].job = j /\ runs[r].status \in s}
NewRun(j, s) == [job |-> j, status |-> s, started |-> 0, claim |-> "none", key |-> NoKey,
                 drillOf |-> 0]
\* backup_run_one_running_idx, the partial unique index.
SlotTaken(j) == Is(j, {"running"}) # {}

\* The administrator's request is one INSERT ... WHERE NOT EXISTS; two of them may read
\* before either has written.
RequestScan(j) ==
    /\ asks[j] = "no" /\ Is(j, {"requested", "running"}) = {}
    /\ asks' = [asks EXCEPT ![j] = "seen"]
    /\ UNCHANGED <<runPlan, runs, jobLock, loop, dumps, today, clock, faultsLeft>>

Request(j) ==
    /\ asks[j] = "seen" /\ Len(runs) < runPlan.max
    /\ runs' = Append(runs, NewRun(j, "requested"))
    /\ \E again \in {"no", "done"} : asks' = [asks EXCEPT ![j] = again]
    /\ UNCHANGED <<runPlan, jobLock, loop, dumps, today, clock, faultsLeft>>

\* The oldest requested row of a job starts, unless the job's slot is taken.
ClaimRequested(l, j) ==
    /\ Asker(l) /\ loop[l].pc = "idle"
    /\ ~SlotTaken(j) /\ Is(j, {"requested"}) # {}
    /\ LET r == Min(Is(j, {"requested"}))
       IN  /\ runs' = [runs EXCEPT ![r].status = "running", ![r].started = clock + 1,
                                   ![r].claim = AgentOf[l]]
           /\ loop' = [loop EXCEPT ![l] = [IdleLoop EXCEPT !.pc = "lock", !.job = j, !.run = r]]
    /\ clock' = clock + 1
    /\ UNCHANGED <<runPlan, jobLock, dumps, asks, today, faultsLeft>>

\* ExpireStale randomises the claim with the verdict.  How long a run takes against the
\* TTL is open: a run that is only slow may be expired too.
ExpireStaleOwn(r) ==
    /\ runs[r].status = "running"
    /\ \E l \in Serving : AgentOf[l] = runs[r].claim /\ loop[l].run = r
    /\ runs' = [runs EXCEPT ![r].status = "failed", ![r].claim = "expired"]
    /\ UNCHANGED <<runPlan, jobLock, loop, dumps, asks, today, clock, faultsLeft>>

ExpireStale(r) ==
    /\ runs[r].status = "running"
    /\ runs' = [runs EXCEPT ![r].status = "failed", ![r].claim = "expired"]
    /\ UNCHANGED <<runPlan, jobLock, loop, dumps, asks, today, clock, faultsLeft>>

FinishAnyClaim(l, s) ==
    IF loop[l].run \in DOMAIN runs
    THEN [runs EXCEPT ![loop[l].run].status = s, ![loop[l].run].key = loop[l].key]
    ELSE runs

\* What runs becomes by Succeed or Fail: WHERE claim_token is ours AND status = 'running'.
Finish(l, s) ==
    LET r == loop[l].run
    IN  IF runs[r].status = "running" /\ runs[r].claim = AgentOf[l]
        THEN [runs EXCEPT ![r].status = s, ![r].key = loop[l].key]
        ELSE runs

-----------------------------------------------------------------------------
(* execute *)

\* A scheduled slot, or the catch-up at boot, fires.
Fire(l) ==
    /\ ~Asker(l) /\ loop[l].pc = "idle" /\ Len(runs) < runPlan.max
    /\ loop' = [loop EXCEPT ![l] = [IdleLoop EXCEPT !.pc = "lock", !.job = runPlan.serves[l]]]
    /\ UNCHANGED <<runPlan, runs, jobLock, dumps, asks, today, clock, faultsLeft>>

\* Each job starts with a time of its own; a dump makes its key from it.
StartWork(l, r, t) ==
    [loop[l] EXCEPT !.pc = loop[l].job, !.run = r,
                    !.key = IF loop[l].job = "dump" THEN <<today, t>> ELSE NoKey]

acquireAnyway(l) ==
    /\ loop[l].pc = "lock"
    /\ jobLock' = l
    /\ loop' = [loop EXCEPT ![l] = IF @.run = 0 THEN [@ EXCEPT !.pc = "begin"]
                                   ELSE StartWork(l, @.run, clock + 1)]
    /\ clock' = IF loop[l].run = 0 THEN clock ELSE clock + 1
    /\ UNCHANGED <<runPlan, runs, dumps, asks, today, faultsLeft>>

\* pg_try_advisory_lock succeeds; a run without a row goes on to Begin.
acquireJobLock(l) ==
    /\ loop[l].pc = "lock" /\ jobLock = NoLoop
    /\ jobLock' = l
    /\ loop' = [loop EXCEPT ![l] = IF @.run = 0 THEN [@ EXCEPT !.pc = "begin"]
                                   ELSE StartWork(l, @.run, clock + 1)]
    /\ clock' = IF loop[l].run = 0 THEN clock ELSE clock + 1
    /\ UNCHANGED <<runPlan, runs, dumps, asks, today, faultsLeft>>

\* Another loop holds it: a claimed row fails with lock_busy, and that write is not retried.
LockBusy(l) ==
    /\ loop[l].pc = "lock" /\ jobLock # NoLoop
    /\ loop' = [loop EXCEPT ![l] = IdleLoop]
    /\ IF loop[l].run = 0 THEN UNCHANGED <<runs, faultsLeft>>
       ELSE \/ runs' = Finish(l, "failed") /\ UNCHANGED faultsLeft
            \/ Fault("record") /\ UNCHANGED runs
    /\ UNCHANGED <<runPlan, jobLock, dumps, asks, today, clock>>

\* The database does not answer: a claimed row stays running until the janitor comes.
LockError(l) ==
    /\ loop[l].pc = "lock" /\ Fault("lock")
    /\ loop' = [loop EXCEPT ![l] = IdleLoop]
    /\ UNCHANGED <<runPlan, runs, jobLock, dumps, asks, today, clock>>

release(l) == jobLock' = IF jobLock = l THEN NoLoop ELSE jobLock

Begin(l) ==
    /\ loop[l].pc = "begin"
    /\ IF SlotTaken(loop[l].job) \/ Len(runs) = runPlan.max
       THEN /\ release(l)
            /\ loop' = [loop EXCEPT ![l] = IdleLoop]
            /\ UNCHANGED <<runs, clock>>
       ELSE /\ runs' = Append(runs, [NewRun(loop[l].job, "running") EXCEPT
                                        !.started = clock + 1, !.claim = AgentOf[l]])
            /\ loop' = [loop EXCEPT ![l] = StartWork(l, Len(runs) + 1, clock + 1)]
            /\ clock' = clock + 1
            /\ UNCHANGED jobLock
    /\ UNCHANGED <<runPlan, dumps, asks, today, faultsLeft>>

\* The job returns: the lock goes first, the outcome is recorded after.
Done(l, ok) ==
    /\ release(l)
    /\ loop' = [loop EXCEPT ![l].pc = "record", ![l].ok = ok, ![l].key = IF ok THEN @ ELSE NoKey]

\* pg_dump, the upload, the connection or the restored cluster fails, or the agent stops.
\* A failed upload may have left its object.
WorkFails(l) ==
    /\ loop[l].pc \in {"dump", "drill", "download"} /\ Fault("work")
    /\ Done(l, FALSE)
    /\ dumps' \in {dumps} \cup (IF loop[l].pc = "dump" THEN {dumps \cup {loop[l].key}} ELSE {})
    /\ UNCHANGED <<runPlan, runs, asks, today, clock>>

\* DumpJob.Run: the dump is spooled whole and then put under its key.
Dump(l) ==
    /\ loop[l].pc = "dump"
    /\ dumps' = dumps \cup {loop[l].key}
    /\ loop' = [loop EXCEPT ![l].pc = "list"]
    /\ UNCHANGED <<runPlan, runs, jobLock, asks, today, clock, faultsLeft>>

-----------------------------------------------------------------------------
(* Retention *)

Older(k, j) == k[1] < j[1] \/ (k[1] = j[1] /\ k[2] < j[2])

oldestDumpPerDay(keys) == {k \in keys : \A j \in keys : j[1] = k[1] => j[2] >= k[2]}
newestDumpPerDay(keys) == {k \in keys : \A j \in keys : j[1] = k[1] => j[2] <= k[2]}

\* The n most recent of a set of one key per day.
Recent(n, keys) == {k \in keys : Cardinality({j \in keys : Older(k, j)}) < n}
claimGFSSlots(days) ==
    Recent(Daily, days) \cup Recent(Weekly, {k \in days : k[1] \in Sundays})
                        \cup Recent(Monthly, {k \in days : k[1] \in Firsts})
prunable(keys) == keys \ claimGFSSlots(newestDumpPerDay(keys))

\* prune lists, then deletes by key; a failure to list leaves everything.
List(l) ==
    /\ loop[l].pc = "list"
    /\ loop' = [loop EXCEPT ![l].pc = "prune", ![l].victims = prunable(dumps)]
    /\ UNCHANGED <<runPlan, runs, jobLock, dumps, asks, today, clock, faultsLeft>>

\* A bulk delete that fails may have removed some; the dump succeeds all the same.
Prune(l) ==
    /\ loop[l].pc = "prune"
    /\ \/ dumps' = dumps \ loop[l].victims /\ UNCHANGED faultsLeft
       \/ Fault("work") /\ \E part \in SUBSET loop[l].victims : dumps' = dumps \ part
    /\ Done(l, TRUE)
    /\ UNCHANGED <<runPlan, runs, asks, today, clock>>

-----------------------------------------------------------------------------
(* DrillJob.Run: restores the newest dump recorded as succeeded. *)

Dumped == {r \in Is("dump", {"succeeded"}) : runs[r].key # NoKey}
LatestSucceededDump == CHOOSE r \in Dumped : \A q \in Dumped : runs[q].started <= runs[r].started

\* SetDrillSource checks the claim but not the status.
pickDump(l) ==
    /\ loop[l].pc = "drill"
    /\ IF Dumped = {} THEN Done(l, FALSE) /\ UNCHANGED runs
       ELSE LET src == LatestSucceededDump
            IN  /\ loop' = [loop EXCEPT ![l].pc = "download", ![l].src = src]
                /\ runs' = IF runs[loop[l].run].claim = AgentOf[l]
                           THEN [runs EXCEPT ![loop[l].run].drillOf = src] ELSE runs
                /\ UNCHANGED jobLock
    /\ UNCHANGED <<runPlan, dumps, asks, today, clock, faultsLeft>>

\* Download, digest, decryption, restore and counts; WorkFails covers their failures.
prepareDump(l) ==
    /\ loop[l].pc = "download"
    /\ Done(l, runs[loop[l].src].key \in dumps)
    /\ UNCHANGED <<runPlan, runs, dumps, asks, today, clock, faultsLeft>>

-----------------------------------------------------------------------------
(* recordOutcome: retried, each time with a fresh context, until a deadline. *)

recordOutcome(l) ==
    /\ loop[l].pc = "record"
    /\ runs' = Finish(l, IF loop[l].ok THEN "succeeded" ELSE "failed")
    /\ loop' = [loop EXCEPT ![l] = IdleLoop]
    /\ UNCHANGED <<runPlan, jobLock, dumps, asks, today, clock, faultsLeft>>

\* The write lands and its answer is lost; it is tried again.
RecordUnanswered(l) ==
    /\ loop[l].pc = "record" /\ Fault("record")
    /\ runs' = Finish(l, IF loop[l].ok THEN "succeeded" ELSE "failed")
    /\ UNCHANGED <<runPlan, jobLock, loop, dumps, asks, today, clock>>

\* The deadline passes.
RecordGivesUp(l) ==
    /\ loop[l].pc = "record" /\ Fault("record")
    /\ loop' = [loop EXCEPT ![l] = IdleLoop]
    /\ UNCHANGED <<runPlan, runs, jobLock, dumps, asks, today, clock>>

-----------------------------------------------------------------------------
(* Faults *)

\* The agent dies with all its loops and comes back with a new claim.
Crash(a) ==
    /\ Fault("crash")
    /\ \E l \in Serving : AgentOf[l] = a /\ loop[l].pc # "idle"
    /\ loop' = [l \in Loops |-> IF AgentOf[l] = a THEN IdleLoop ELSE loop[l]]
    /\ jobLock' = IF jobLock # NoLoop /\ AgentOf[jobLock] = a THEN NoLoop ELSE jobLock
    /\ runs' = [r \in DOMAIN runs |->
                   IF runs[r].claim = a THEN [runs[r] EXCEPT !.claim = "dead"] ELSE runs[r]]
    /\ UNCHANGED <<runPlan, dumps, asks, today, clock>>

\* The connection that holds the advisory lock dies; its loop works on.
LoseLock(l) ==
    /\ Fault("lose") /\ jobLock = l
    /\ jobLock' = NoLoop
    /\ loop' = [loop EXCEPT ![l].lost = TRUE]
    /\ UNCHANGED <<runPlan, runs, dumps, asks, today, clock>>

-----------------------------------------------------------------------------
Execute(l) ==
    \/ Fire(l) \/ (\E j \in runPlan.asks : ClaimRequested(l, j))
    \/ acquireJobLock(l) \/ LockBusy(l) \/ Begin(l)
    \/ Dump(l) \/ List(l) \/ Prune(l) \/ pickDump(l) \/ prepareDump(l)
    \/ recordOutcome(l)

RunsNext ==
    \/ NextDay
    \/ \E j \in runPlan.asks : RequestScan(j) \/ Request(j)
    \/ \E r \in DOMAIN runs : ExpireStale(r)
    \/ \E l \in Serving :
        \/ Execute(l)
        \/ LockError(l) \/ WorkFails(l) \/ RecordUnanswered(l) \/ RecordGivesUp(l) \/ LoseLock(l)
    \/ \E a \in {AgentOf[l] : l \in Serving} : Crash(a)

\* Loops run on, agents come back, and the janitor's ticker meets every row at last.
RunsFairness ==
    /\ \A l \in Loops : WF_runsVars(l \in Serving /\ Execute(l))
    /\ \A r \in 1..MaxRuns : WF_runsVars(r \in DOMAIN runs /\ ExpireStale(r))

RunsSpec == RunsInit /\ [][RunsNext]_runsVars /\ RunsFairness

-----------------------------------------------------------------------------
(* Properties *)

\* Two loops work on the same job at once only if one of them lost its advisory lock and the
\* row of one of them was expired: the lock (lock.go) and the index behind Begin and
\* ClaimRequested each suffice alone.
Working(l) == loop[l].pc \in {"dump", "list", "prune", "drill", "download"}
SameJobAlone ==
    \A l, m \in Serving :
        (l # m /\ Working(l) /\ Working(m) /\ loop[l].job = loop[m].job) =>
            /\ loop[l].lost \/ loop[m].lost
            /\ \E x \in {l, m} : runs[loop[x].run].status # "running"

\* Whatever prunes, fails, crashes or loses its lock: for every dump recorded as succeeded the
\* store holds that dump or a younger one.
FreshestKept ==
    \A r \in Dumped : \E k \in dumps : ~Older(k, runs[r].key)

\* A verdict is final: the late outcome of a run the janitor has failed, a retried write and a
\* crashed agent's successor leave a finished row as it is.
VerdictFinal ==
    [][\A r \in DOMAIN runs : runs[r].status \in {"succeeded", "failed"} =>
        runs'[r].status = runs[r].status /\ runs'[r].key = runs[r].key]_runsVars

\* Every run ends, the ones administrators asked for included, though agents crash with their
\* slots taken: a plan holds finitely many, so in the end none is requested or running.
RequestsEnd == <>[](\A r \in DOMAIN runs : runs[r].status \in {"succeeded", "failed"})

\* What the ledger and the store keep of a job: one worker at a time, and the freshest dump.
RunsSound == SameJobAlone /\ FreshestKept

\* Every request reaches a verdict, and a verdict stays.
VerdictsReached == VerdictFinal /\ RequestsEnd
===============================================================================

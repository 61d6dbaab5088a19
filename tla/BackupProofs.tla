----------------------------- MODULE BackupProofs -----------------------------
(***************************************************************************)
(* Proofs about the backup agent and the account's own backups, each for   *)
(* every value of its constants.                                           *)
(*                                                                         *)
(* BackupRuns: a verdict is final, a job has one worker unless a lock was  *)
(* lost and a row expired, and retention never costs the store the         *)
(* freshest of the dumps that the ledger calls succeeded.  The inductive   *)
(* invariant has two halves.  The ledger's: each loop at work holds the    *)
(* advisory lock or has lost it, and has a row of its own, of its job, of  *)
(* which one at most is running.  The store's: the youngest dump is in     *)
(* nobody's list of victims, however old that list is, because a key is    *)
(* used once; and what a run will record as succeeded is covered by a dump *)
(* that is not older.                                                      *)
(*                                                                         *)
(* BackupAgenda: whatever document an owner writes, the slots the agent    *)
(* computes are the neighbours of now in the calendar of that document, it *)
(* is never woken for a slot twice, and the floor under verification       *)
(* stands.                                                                 *)
(*                                                                         *)
(* BackupCopies: what a mirror pass leaves out of its delta was written    *)
(* before the last pass that succeeded began, and what it takes is in the  *)
(* mirror as it is unless it was written since this pass began.            *)
(*                                                                         *)
(* BackupDownloads: bytes leave under a charge that stays, and between a   *)
(* count and its insert nobody else charges that account.                  *)
(*                                                                         *)
(* BackupTickets: whatever tidies the table takes no running ticket away,  *)
(* and a ticket that can still be used has exported nothing.               *)
(*                                                                         *)
(* BackupRestore: however many backends resume it, and whatever fails, a   *)
(* skip restore inserts each note of the archive once; and, where accounts *)
(* are restored without a wipe or one at a time, a ledger that says the    *)
(* restore is complete has every object that its rows name.                *)
(* What a wipe deletes, after its commit, no row names: ids and keys are   *)
(* reserved among those that nobody uses, its list included.               *)
(***************************************************************************)
EXTENDS BackupRuns, BackupAgenda, BackupCopies, BackupDownloads, BackupTickets,
    BackupRestore, FiniteSetTheorems, SequenceTheorems, WellFoundedInduction, TLAPS

Keys     == Nat \X Nat
Statuses == {"requested", "running", "succeeded", "failed"}
Claims   == {AgentOf[l] : l \in Loops} \cup {"none", "expired", "dead"}
RunRows  == [job : JobNames, status : Statuses, started : Nat, claim : Claims, key : Keys,
             drillOf : Nat]
Jobs     == {"dump", "list", "prune", "drill", "download"}
LoopRows == [pc : {"idle", "lock", "begin", "record"} \cup Jobs, job : JobNames \cup {"none"},
             run : Nat, key : Keys, src : Nat, victims : SUBSET Keys, ok : BOOLEAN,
             lost : BOOLEAN]

RunsTyped ==
    /\ runPlan \in RunScenarios
    /\ runs \in Seq(RunRows)
    /\ jobLock \in Loops \cup {NoLoop}
    /\ loop \in [Loops -> LoopRows]
    /\ dumps \subseteq Keys
    /\ today \in Nat /\ clock \in Nat

\* A loop's reference to its row: a row of its job that has been started, and its alone.
RowsOwned ==
    /\ \A l \in Loops :
          /\ loop[l].run # 0 => /\ loop[l].run \in DOMAIN runs
                                /\ runs[loop[l].run].job = loop[l].job
                                /\ runs[loop[l].run].status # "requested"
          /\ loop[l].pc \in Jobs \cup {"record"} => loop[l].run # 0
          /\ loop[l].pc \in {"lock", "begin"} \cup Jobs => loop[l].job \in JobNames
    /\ \A l, m \in Loops : l # m /\ loop[l].run = loop[m].run => loop[l].run = 0

\* The index backup_run_one_running_idx.
OneRunning ==
    \A r, q \in DOMAIN runs :
        runs[r].status = "running" /\ runs[q].status = "running" /\ runs[r].job = runs[q].job
            => r = q

\* The advisory lock is held by whoever is at work and has not lost it.
LockHeld ==
    \A l \in Loops : loop[l].pc \in {"begin"} \cup Jobs => jobLock = l \/ loop[l].lost

\* Stamps: a row started, a key made, a dump stored before now; the key of a dump to be made is
\* nobody else's and nowhere yet.
KeysFresh ==
    /\ \A r \in DOMAIN runs : runs[r].started <= clock
    /\ \A k \in dumps : k[1] <= today /\ k[2] <= clock
    /\ \A l \in Loops :
          /\ loop[l].key[1] <= today /\ loop[l].key[2] <= clock
          /\ \A k \in loop[l].victims : k[2] <= clock
          /\ loop[l].pc = "dump" =>
                /\ \A k \in dumps : k[2] # loop[l].key[2]
                /\ \A m \in Loops : /\ \A k \in loop[m].victims : k[2] # loop[l].key[2]
                                    /\ m # l /\ loop[m].pc = "dump" =>
                                          loop[m].key[2] # loop[l].key[2]

\* The youngest dump is no victim.
Youngest(k, keys) == k \in keys /\ \A j \in keys : ~Older(k, j)
YoungestSpared == \A k \in dumps : Youngest(k, dumps) => \A l \in Loops : k \notin loop[l].victims

\* A dump that is not older than key is in the store.
Covered(key, keys) == \E k \in keys : ~Older(k, key)

\* What is or will be recorded as succeeded is covered; a drill has no key.
DumpsCovered ==
    /\ \A l \in Loops : loop[l].pc \in {"drill", "download"} => loop[l].key = NoKey
    /\ \A r \in DOMAIN runs :
          runs[r].status = "succeeded" /\ runs[r].key # NoKey => Covered(runs[r].key, dumps)
    /\ \A l \in Loops :
          /\ loop[l].pc \in {"list", "prune"} \/ (loop[l].pc = "record" /\ loop[l].ok)
          /\ loop[l].key # NoKey
          => Covered(loop[l].key, dumps)

\* The inductive invariant.
RInv ==
    /\ RunsTyped /\ RowsOwned /\ OneRunning /\ LockHeld
    /\ KeysFresh /\ YoungestSpared /\ DumpsCovered

-------------------------------------------------------------------------------
(***************************************************************************)
(* Keys and retention.                                                     *)
(***************************************************************************)

\* A set of numbers has a least one.
LEMMA LeastElement ==
    ASSUME NEW T \in SUBSET Nat, T # {}
    PROVE  \E x \in T : \A y \in T : x <= y
<1>1. T \subseteq Nat
  OBVIOUS
<1>2. PICK x \in T : \A y \in T : <<y, x>> \notin OpToRel(<, Nat)
  BY <1>1, WFMin, NatLessThanWellFounded, Zenon
<1>3. \A y \in T : ~(y < x)
  BY <1>1, <1>2, Zenon DEF OpToRel
<1> QED BY <1>1, <1>3

\* A set of bounded numbers has a greatest one.
LEMMA GreatestElement ==
    ASSUME NEW T \in SUBSET Nat, T # {}, NEW b \in Nat, \A y \in T : y <= b
    PROVE  \E x \in T : \A y \in T : y <= x
<1> DEFINE U == {b - y : y \in T}
<1>0. \A y \in T : b - y \in Nat
  OBVIOUS
<1>1. U \in SUBSET Nat /\ U # {}
  BY <1>0
<1>2. PICK u \in U : \A w \in U : u <= w
  BY <1>1, LeastElement
<1>3. PICK x \in T : u = b - x
  BY <1>2
<1>4. \A y \in T : b - y \in U
  OBVIOUS
<1> HIDE DEF U
<1>5. ASSUME NEW y \in T
      PROVE  y <= x
  <2>1. b - x <= b - y
    BY <1>2, <1>3, <1>4
  <2> QED BY <2>1
<1> QED BY <1>5

\* Older orders the keys.
LEMMA OlderIsAnOrder ==
    ASSUME NEW a \in Keys, NEW b \in Keys, NEW c \in Keys
    PROVE  /\ ~Older(a, a)
           /\ Older(a, b) => ~Older(b, a)
           /\ a # b => Older(a, b) \/ Older(b, a)
           /\ ~Older(a, b) /\ ~Older(b, c) => ~Older(a, c)
<1>1. a[1] \in Nat /\ a[2] \in Nat /\ b[1] \in Nat /\ b[2] \in Nat /\ c[1] \in Nat /\ c[2] \in Nat
  BY DEF Keys
<1>2. a = <<a[1], a[2]>> /\ b = <<b[1], b[2]>>
  BY DEF Keys
<1>3. a # b => a[1] # b[1] \/ a[2] # b[2]
  BY <1>2
<1> QED BY <1>1, <1>3 DEF Older

\* A store whose keys were made before now has a youngest dump.
LEMMA YoungestExists ==
    ASSUME NEW keys \in SUBSET Keys, keys # {}, NEW d \in Nat, NEW t \in Nat,
           \A k \in keys : k[1] <= d /\ k[2] <= t
    PROVE  \E k \in keys : Youngest(k, keys)
<1>0. \A k \in keys : k[1] \in Nat /\ k[2] \in Nat
  BY DEF Keys
<1> DEFINE D == {k[1] : k \in keys}
<1>1. D \in SUBSET Nat /\ D # {} /\ \A y \in D : y <= d
  BY <1>0
<1>2. PICK x \in D : \A y \in D : y <= x
  BY <1>1, GreatestElement
<1> DEFINE Y == {k \in keys : k[1] = x}
           S == {k[2] : k \in Y}
<1>3. S \in SUBSET Nat /\ S # {} /\ \A y \in S : y <= t
  BY <1>0, <1>2
<1>4. PICK z \in S : \A y \in S : y <= z
  BY <1>3, GreatestElement
<1>5. PICK k \in keys : k[1] = x /\ k[2] = z
  BY <1>4
<1>6. ASSUME NEW j \in keys
      PROVE  ~Older(k, j)
  <2>1. j[1] <= x
    BY <1>2
  <2>2. j[1] = x => j[2] <= z
    BY <1>4
  <2>3. j[1] \in Nat /\ j[2] \in Nat /\ x \in Nat /\ z \in Nat
    BY <1>0, <1>1, <1>2, <1>3, <1>4
  <2> HIDE DEF D, S, Y
  <2> QED BY <1>5, <2>1, <2>2, <2>3 DEF Older
<1> QED BY <1>6 DEF Youngest

\* Retention spares the youngest: it is its day's newest, and of those at most Daily - 1 days
\* are younger.
LEMMA YoungestIsClaimed ==
    ASSUME NEW keys \in SUBSET Keys, NEW k, Youngest(k, keys)
    PROVE  k \notin prunable(keys)
<1> DEFINE days == newestDumpPerDay(keys)
<1>1. k \in days
  <2>1. \A j \in keys : j[1] = k[1] => j[2] <= k[2]
    <3> SUFFICES ASSUME NEW j \in keys, j[1] = k[1]
                 PROVE  j[2] <= k[2]
      OBVIOUS
    <3>1. k \in Keys /\ j \in Keys /\ ~Older(k, j)
      BY DEF Youngest
    <3>2. k[2] \in Nat /\ j[2] \in Nat /\ k[1] \in Nat
      BY <3>1 DEF Keys
    <3> QED BY <3>1, <3>2 DEF Older
  <2> QED BY <2>1 DEF Youngest, newestDumpPerDay
<1>2. days \subseteq keys
  BY DEF newestDumpPerDay
<1>3. {j \in days : Older(k, j)} = {}
  BY <1>2 DEF Youngest
<1>4. Cardinality({j \in days : Older(k, j)}) < Daily
  BY <1>3, FS_EmptySet, RunsAssumption
<1>5. k \in Recent(Daily, days)
  BY <1>1, <1>4 DEF Recent
<1> QED BY <1>5 DEF prunable, claimGFSSlots

-------------------------------------------------------------------------------
(***************************************************************************)
(* Types.                                                                  *)
(***************************************************************************)

\* A loop's row and a ledger's row, field by field.
LEMMA LoopFields ==
    ASSUME RunsTyped, NEW l \in Loops
    PROVE  /\ loop[l] \in LoopRows
           /\ loop[l].pc \in {"idle", "lock", "begin", "record"} \cup Jobs
           /\ loop[l].job \in JobNames \cup {"none"}
           /\ loop[l].run \in Nat /\ loop[l].src \in Nat
           /\ loop[l].key \in Keys /\ loop[l].victims \in SUBSET Keys
           /\ loop[l].ok \in BOOLEAN /\ loop[l].lost \in BOOLEAN
<1>1. loop[l] \in LoopRows
  BY DEF RunsTyped
<1> QED BY <1>1 DEF LoopRows

\* A row of the ledger, field by field.
LEMMA RowFields ==
    ASSUME RunsTyped, NEW r \in DOMAIN runs
    PROVE  /\ r \in 1..Len(runs) /\ r \in Nat /\ Len(runs) \in Nat
           /\ runs[r] \in RunRows
           /\ runs[r].job \in JobNames /\ runs[r].status \in Statuses
           /\ runs[r].started \in Nat /\ runs[r].claim \in Claims
           /\ runs[r].key \in Keys /\ runs[r].drillOf \in Nat
<1>1. runs[r] \in RunRows /\ DOMAIN runs = 1..Len(runs) /\ Len(runs) \in Nat
  BY DEF RunsTyped
<1> QED BY <1>1 DEF RunRows

\* A scenario's loops and jobs are the model's.
LEMMA PlanTyped ==
    ASSUME RunsTyped
    PROVE  /\ Serving \subseteq Loops /\ runPlan.asks \subseteq JobNames
           /\ \A l \in Serving : ~Asker(l) => runPlan.serves[l] \in JobNames
  BY RunsAssumption DEF RunsTyped, Serving, Asker

\* A loop's new row is typed if its new fields are.
LEMMA IdleTyped == IdleLoop \in LoopRows /\ NoKey \in Keys
  BY DEF IdleLoop, LoopRows, NoKey, Keys, Jobs

\* Rows that change in a field or two stay typed.
LEMMA RunsEdited ==
    ASSUME RunsTyped, NEW R, DOMAIN R = DOMAIN runs, \A r \in DOMAIN runs : R[r] \in RunRows,
           R = [r \in DOMAIN runs |-> R[r]]
    PROVE  R \in Seq(RunRows)
<1>1. DOMAIN runs = 1..Len(runs) /\ Len(runs) \in Nat
  BY DEF RunsTyped
<1>2. R \in [1..Len(runs) -> RunRows]
  BY <1>1
<1> QED BY <1>1, <1>2

\* Succeed and Fail change a row of theirs that is running, or nothing.
LEMMA FinishStep ==
    ASSUME RInv, NEW l \in Loops, loop[l].run # 0, NEW s \in {"succeeded", "failed"}
    PROVE  /\ Finish(l, s) \in Seq(RunRows) /\ DOMAIN Finish(l, s) = DOMAIN runs
           /\ \A r \in DOMAIN runs :
                 \/ Finish(l, s)[r] = runs[r]
                 \/ /\ runs[r].status = "running" /\ r = loop[l].run
                    /\ Finish(l, s)[r].job = runs[r].job
                    /\ Finish(l, s)[r].started = runs[r].started
                    /\ Finish(l, s)[r].status = s
                    /\ Finish(l, s)[r].key = loop[l].key
<1> DEFINE q == loop[l].run
           R == Finish(l, s)
<1>0. RunsTyped /\ q \in DOMAIN runs
  BY DEF RInv, RowsOwned
<1>1. CASE ~(runs[q].status = "running" /\ runs[q].claim = AgentOf[l])
  <2>1. R = runs
    BY <1>1 DEF Finish
  <2> QED BY <2>1, <1>0 DEF RunsTyped
<1>2. CASE runs[q].status = "running" /\ runs[q].claim = AgentOf[l]
  <2>1. R = [runs EXCEPT ![q] = [[runs[q] EXCEPT !.status = s] EXCEPT !.key = loop[l].key]]
    BY <1>0, <1>2 DEF Finish, RunsTyped
  <2>2. runs[q] \in RunRows /\ loop[l].key \in Keys
    BY <1>0, RowFields, LoopFields
  <2>3. s \in Statuses
    BY DEF Statuses
  <2>4. [[runs[q] EXCEPT !.status = s] EXCEPT !.key = loop[l].key] \in RunRows
    BY <2>2, <2>3 DEF RunRows
  <2>5. R \in Seq(RunRows) /\ DOMAIN R = DOMAIN runs
    BY <2>1, <2>4, <1>0 DEF RunsTyped
  <2>6. /\ R[q].job = runs[q].job /\ R[q].started = runs[q].started
        /\ R[q].status = s /\ R[q].key = loop[l].key
    BY <2>1, <2>2, <1>0 DEF RunRows
  <2>7. \A r \in DOMAIN runs : r # q => R[r] = runs[r]
    BY <2>1
  <2> QED BY <2>5, <2>6, <2>7, <1>2
<1> QED BY <1>1, <1>2

-------------------------------------------------------------------------------
(***************************************************************************)
(* Steps that start nothing: verdicts, expiries, requests, crashes, losses.*)
(***************************************************************************)

\* A loop works on as it was, with its lock or without.
SameWork(l) ==
    /\ loop'[l].pc = loop[l].pc /\ loop'[l].job = loop[l].job /\ loop'[l].run = loop[l].run
    /\ loop'[l].key = loop[l].key /\ loop'[l].victims = loop[l].victims
    /\ loop'[l].ok = loop[l].ok /\ (loop[l].lost => loop'[l].lost)

\* A row is still the row it was.
SameRow(r) ==
    /\ runs'[r].job = runs[r].job /\ runs'[r].started = runs[r].started
    /\ runs'[r].status = "requested" => runs[r].status = "requested"
    /\ runs'[r].status = "running" => runs[r].status = "running"
    /\ runs'[r].status = "succeeded" =>
          \/ runs[r].status = "succeeded" /\ runs'[r].key = runs[r].key
          \/ \E l \in Loops : loop[l].pc = "record" /\ loop[l].ok /\ runs'[r].key = loop[l].key

\* Loops stay at what they do or stop, rows get a verdict, a request comes.
Settles ==
    /\ dumps' = dumps /\ clock' = clock /\ today' \in Nat /\ today' >= today
    /\ \A l \in Loops : loop'[l] = IdleLoop \/ SameWork(l)
    /\ \A l \in Loops :
          loop'[l].pc \in {"begin"} \cup Jobs /\ jobLock = l => jobLock' = l \/ loop'[l].lost
    /\ DOMAIN runs \subseteq DOMAIN runs'
    /\ \A r \in DOMAIN runs : SameRow(r)
    /\ \A r \in DOMAIN runs' \ DOMAIN runs :
          runs'[r].status = "requested" /\ runs'[r].started = 0

\* Whatever settles preserves the invariant.
LEMMA SettlesStep ==
    ASSUME RInv, RunsTyped', Settles
    PROVE  RInv'
<1> USE DEF RInv
<1>0. /\ \A l \in Loops : loop'[l] = IdleLoop \/ SameWork(l)
      /\ IdleLoop.pc = "idle" /\ IdleLoop.run = 0 /\ IdleLoop.victims = {}
      /\ IdleLoop.key = NoKey /\ IdleLoop.job = "none"
      /\ "idle" \notin {"lock", "begin", "record"} \cup Jobs
  BY DEF Settles, IdleLoop, Jobs
<1>1. RowsOwned'
  <2>1. ASSUME NEW l \in Loops
        PROVE  (/\ loop[l].run # 0 => /\ loop[l].run \in DOMAIN runs
                                      /\ runs[loop[l].run].job = loop[l].job
                                      /\ runs[loop[l].run].status # "requested"
                /\ loop[l].pc \in Jobs \cup {"record"} => loop[l].run # 0
                /\ loop[l].pc \in {"lock", "begin"} \cup Jobs => loop[l].job \in JobNames)'
    <3>1. CASE loop'[l] = IdleLoop
      BY <3>1, <1>0
    <3>2. CASE SameWork(l)
      <4>1. /\ loop[l].run # 0 => /\ loop[l].run \in DOMAIN runs
                                  /\ runs[loop[l].run].job = loop[l].job
                                  /\ runs[loop[l].run].status # "requested"
            /\ loop[l].pc \in Jobs \cup {"record"} => loop[l].run # 0
            /\ loop[l].pc \in {"lock", "begin"} \cup Jobs => loop[l].job \in JobNames
        BY DEF RowsOwned
      <4>2. \A r \in DOMAIN runs : /\ r \in DOMAIN runs' /\ runs'[r].job = runs[r].job
                                   /\ runs'[r].status = "requested" => runs[r].status = "requested"
        BY DEF Settles, SameRow
      <4> QED BY <3>2, <4>1, <4>2 DEF SameWork
    <3> QED BY <1>0, <3>1, <3>2
  <2>2. \A l \in Loops : loop'[l].run = 0 \/ loop'[l].run = loop[l].run
    BY <1>0 DEF SameWork
  <2>3. \A l, m \in Loops : l # m /\ loop'[l].run = loop'[m].run => loop'[l].run = 0
    BY <2>2 DEF RowsOwned
  <2> QED BY <2>1, <2>3 DEF RowsOwned
<1>2. OneRunning'
  <2>1. \A r \in DOMAIN runs' : runs'[r].status = "running" =>
            r \in DOMAIN runs /\ runs[r].status = "running" /\ runs'[r].job = runs[r].job
    BY DEF Settles, SameRow
  <2> QED BY <2>1 DEF OneRunning
<1>3. LockHeld'
  <2> SUFFICES ASSUME NEW l \in Loops, loop'[l].pc \in {"begin"} \cup Jobs
               PROVE  jobLock' = l \/ loop'[l].lost
    BY DEF LockHeld
  <2>1. SameWork(l)
    BY <1>0
  <2> QED BY <2>1 DEF SameWork, LockHeld, Settles
<1>4. KeysFresh'
  <2>1. \A r \in DOMAIN runs' : runs'[r].started <= clock'
    <3>1. clock \in Nat
      BY DEF RunsTyped
    <3> QED BY <3>1 DEF Settles, SameRow, KeysFresh
  <2>2. \A k \in dumps' : k[1] <= today' /\ k[2] <= clock'
    <3>1. \A k \in dumps : k[1] \in Nat /\ today \in Nat
      BY DEF RunsTyped, Keys
    <3> QED BY <3>1 DEF Settles, KeysFresh
  <2>3. ASSUME NEW l \in Loops
        PROVE  /\ loop'[l].key[1] <= today' /\ loop'[l].key[2] <= clock'
               /\ \A k \in loop'[l].victims : k[2] <= clock'
    <3>1. loop[l].key[1] \in Nat /\ today \in Nat /\ clock \in Nat
      BY LoopFields DEF RunsTyped, Keys
    <3>2. CASE loop'[l] = IdleLoop
      BY <3>1, <3>2, <1>0 DEF Settles, NoKey
    <3>3. CASE SameWork(l)
      BY <3>1, <3>3 DEF Settles, KeysFresh, SameWork
    <3> QED BY <1>0, <3>2, <3>3
  <2>4. ASSUME NEW l \in Loops, loop'[l].pc = "dump"
        PROVE  /\ \A k \in dumps' : k[2] # loop'[l].key[2]
               /\ \A m \in Loops : /\ \A k \in loop'[m].victims : k[2] # loop'[l].key[2]
                                   /\ m # l /\ loop'[m].pc = "dump" =>
                                         loop'[m].key[2] # loop'[l].key[2]
    <3>1. SameWork(l)
      BY <2>4, <1>0
    <3>2. /\ \A k \in dumps : k[2] # loop[l].key[2]
          /\ \A m \in Loops : /\ \A k \in loop[m].victims : k[2] # loop[l].key[2]
                              /\ m # l /\ loop[m].pc = "dump" =>
                                    loop[m].key[2] # loop[l].key[2]
      BY <2>4, <3>1 DEF SameWork, KeysFresh
    <3>3. \A m \in Loops : /\ loop'[m].victims \in {{}, loop[m].victims}
                           /\ loop'[m].pc = "dump" =>
                                 loop[m].pc = "dump" /\ loop'[m].key = loop[m].key
      BY <1>0 DEF SameWork
    <3> QED BY <3>1, <3>2, <3>3 DEF SameWork, Settles
  <2> QED BY <2>1, <2>2, <2>3, <2>4 DEF KeysFresh
<1>5. YoungestSpared'
  <2>1. \A l \in Loops : loop'[l].victims \in {{}, loop[l].victims}
    BY <1>0 DEF SameWork
  <2>2. dumps' = dumps
    BY DEF Settles
  <2> QED BY <2>1, <2>2 DEF YoungestSpared, Youngest
<1>6. DumpsCovered'
  <2>0. dumps' = dumps
    BY DEF Settles
  <2>1. \A l \in Loops : loop'[l].pc \in {"drill", "download"} => loop'[l].key = NoKey
    BY <1>0 DEF SameWork, DumpsCovered
  <2>2. \A r \in DOMAIN runs' :
          runs'[r].status = "succeeded" /\ runs'[r].key # NoKey => Covered(runs'[r].key, dumps')
    <3> SUFFICES ASSUME NEW r \in DOMAIN runs', runs'[r].status = "succeeded",
                        runs'[r].key # NoKey
                 PROVE  Covered(runs'[r].key, dumps)
      BY <2>0 DEF Covered
    <3>1. r \in DOMAIN runs
      BY DEF Settles
    <3>2. \/ runs[r].status = "succeeded" /\ runs'[r].key = runs[r].key
          \/ \E l \in Loops : loop[l].pc = "record" /\ loop[l].ok /\ runs'[r].key = loop[l].key
      BY <3>1 DEF Settles, SameRow
    <3> QED BY <3>1, <3>2 DEF DumpsCovered
  <2>3. \A l \in Loops :
          /\ loop'[l].pc \in {"list", "prune"} \/ (loop'[l].pc = "record" /\ loop'[l].ok)
          /\ loop'[l].key # NoKey
          => Covered(loop'[l].key, dumps')
    <3> SUFFICES ASSUME NEW l \in Loops, loop'[l].key # NoKey,
                        loop'[l].pc \in {"list", "prune"} \/ (loop'[l].pc = "record" /\ loop'[l].ok)
                 PROVE  Covered(loop'[l].key, dumps)
      BY <2>0 DEF Covered
    <3>1. SameWork(l)
      BY <1>0
    <3> QED BY <3>1 DEF SameWork, DumpsCovered
  <2> QED BY <2>1, <2>2, <2>3 DEF DumpsCovered
<1> QED BY <1>1, <1>2, <1>3, <1>4, <1>5, <1>6

\* A loop that is untouched works on.
LEMMA SameLoop == \A l \in Loops : loop'[l] = loop[l] => SameWork(l)
  BY Zenon DEF SameWork

\* Unchanged rows are the rows they were.
LEMMA SameRows ==
    ASSUME runs' = runs
    PROVE  DOMAIN runs \subseteq DOMAIN runs' /\ \A r \in DOMAIN runs : SameRow(r)
  BY DEF SameRow

\* Rows after the late write of a loop that is done, or of one that did not get its lock.
LEMMA FinishedRows ==
    ASSUME RInv, NEW l \in Loops, loop[l].run # 0, NEW s \in {"succeeded", "failed"},
           s = "succeeded" => loop[l].pc = "record" /\ loop[l].ok, runs' = Finish(l, s)
    PROVE  /\ runs' \in Seq(RunRows) /\ DOMAIN runs' = DOMAIN runs
           /\ \A r \in DOMAIN runs : SameRow(r)
  BY FinishStep DEF SameRow

\* The loops after one of them stopped.
LEMMA Stopped ==
    ASSUME RunsTyped, NEW l \in Loops, loop' = [loop EXCEPT ![l] = IdleLoop]
    PROVE  /\ loop' \in [Loops -> LoopRows] /\ loop'[l] = IdleLoop
           /\ \A m \in Loops : loop'[m] = IdleLoop \/ SameWork(m)
<1>1. loop \in [Loops -> LoopRows]
  BY DEF RunsTyped
<1> QED BY <1>1, IdleTyped, SameLoop

\* A verdict written by a loop that then stops or tries again.
LEMMA OutcomeSteps ==
    ASSUME RInv, NEW l \in Loops,
           \/ recordOutcome(l) \/ RecordUnanswered(l) \/ RecordGivesUp(l)
           \/ LockBusy(l) \/ LockError(l)
    PROVE  RInv'
<1>0. RunsTyped /\ RowsOwned /\ IdleLoop.pc = "idle" /\ "idle" \notin {"begin"} \cup Jobs
      /\ loop[l].ok \in BOOLEAN
  BY LoopFields DEF RInv, IdleLoop, Jobs
<1>1. /\ jobLock' = jobLock /\ dumps' = dumps /\ clock' = clock /\ today' = today
      /\ runPlan' = runPlan
      /\ loop' = loop \/ loop' = [loop EXCEPT ![l] = IdleLoop]
  BY DEF recordOutcome, RecordUnanswered, RecordGivesUp, LockBusy, LockError
<1>2. loop' \in [Loops -> LoopRows] /\ \A m \in Loops : loop'[m] = IdleLoop \/ SameWork(m)
  <2>1. CASE loop' = loop
    BY <2>1, <1>0, SameLoop DEF RunsTyped
  <2> QED BY <1>0, <1>1, <2>1, Stopped
<1>3. /\ runs' \in Seq(RunRows) /\ DOMAIN runs' = DOMAIN runs
      /\ \A r \in DOMAIN runs : SameRow(r)
  <2>1. CASE runs' = runs
    BY <2>1, <1>0, SameRows DEF RunsTyped
  <2>2. CASE loop[l].pc = "record" /\ runs' = Finish(l, IF loop[l].ok THEN "succeeded" ELSE "failed")
    <3>1. loop[l].run # 0
      BY <2>2, <1>0 DEF RowsOwned
    <3>2. CASE loop[l].ok
      BY <2>2, <3>1, <3>2, FinishedRows
    <3>3. CASE ~loop[l].ok
      BY <2>2, <3>1, <3>3, FinishedRows
    <3> QED BY <3>2, <3>3
  <2>3. CASE loop[l].run # 0 /\ runs' = Finish(l, "failed")
    BY <2>3, FinishedRows
  <2>4. \/ runs' = runs
        \/ loop[l].pc = "record" /\ runs' = Finish(l, IF loop[l].ok THEN "succeeded" ELSE "failed")
        \/ loop[l].run # 0 /\ runs' = Finish(l, "failed")
    BY DEF recordOutcome, RecordUnanswered, RecordGivesUp, LockBusy, LockError
  <2> QED BY <2>1, <2>2, <2>3, <2>4
<1>4. RunsTyped'
  BY <1>0, <1>1, <1>2, <1>3 DEF RunsTyped
<1>5. Settles
  BY <1>0, <1>1, <1>2, <1>3 DEF Settles, RunsTyped
<1> QED BY <1>4, <1>5, SettlesStep

\* The janitor's verdict, and the ledger's new rows.
LEMMA LedgerSteps ==
    ASSUME RInv,
           \/ \E r \in DOMAIN runs : ExpireStale(r)
           \/ \E j \in runPlan.asks : RequestScan(j) \/ Request(j)
    PROVE  RInv'
<1>0. RunsTyped /\ runPlan.asks \subseteq JobNames
  BY PlanTyped DEF RInv
<1>1. /\ jobLock' = jobLock /\ dumps' = dumps /\ clock' = clock /\ today' = today
      /\ runPlan' = runPlan /\ loop' = loop
  BY DEF ExpireStale, RequestScan, Request
<1>2. \A l \in Loops : SameWork(l)
  BY <1>1, SameLoop
<1> DEFINE RowsOK ==
      /\ runs' \in Seq(RunRows) /\ DOMAIN runs \subseteq DOMAIN runs'
      /\ \A r \in DOMAIN runs : SameRow(r)
      /\ \A r \in DOMAIN runs' \ DOMAIN runs :
            runs'[r].status = "requested" /\ runs'[r].started = 0
<1>3. RowsOK
  <2>1. ASSUME NEW r \in DOMAIN runs, ExpireStale(r)
        PROVE  RowsOK
    <3> DEFINE R == [[runs[r] EXCEPT !.status = "failed"] EXCEPT !.claim = "expired"]
    <3>1. runs' = [runs EXCEPT ![r] = R]
      BY <2>1, <1>0 DEF ExpireStale, RunsTyped
    <3>2. runs[r] \in RunRows
      BY <1>0, RowFields
    <3>3. R \in RunRows /\ R.job = runs[r].job /\ R.started = runs[r].started /\ R.status = "failed"
      BY <3>2 DEF RunRows, Statuses, Claims
    <3> HIDE DEF R
    <3>4. runs' \in Seq(RunRows) /\ DOMAIN runs' = DOMAIN runs
      BY <3>1, <3>3, <1>0 DEF RunsTyped
    <3>5. \A q \in DOMAIN runs : runs'[q] = runs[q] \/ (q = r /\ runs'[q] = R)
      BY <3>1
    <3> QED BY <3>3, <3>4, <3>5 DEF SameRow
  <2>2. ASSUME NEW j \in runPlan.asks, Request(j)
        PROVE  RowsOK
    <3>1. runs' = Append(runs, NewRun(j, "requested"))
      BY <2>2 DEF Request
    <3>2. NewRun(j, "requested") \in RunRows
      BY <1>0 DEF NewRun, RunRows, Statuses, Claims, NoKey, Keys
    <3>3. /\ runs' \in Seq(RunRows) /\ DOMAIN runs' = DOMAIN runs \cup {Len(runs) + 1}
          /\ \A r \in DOMAIN runs : runs'[r] = runs[r]
          /\ runs'[Len(runs) + 1] = NewRun(j, "requested")
      BY <3>1, <3>2, <1>0 DEF RunsTyped
    <3>4. NewRun(j, "requested").status = "requested" /\ NewRun(j, "requested").started = 0
      BY DEF NewRun
    <3> QED BY <3>3, <3>4 DEF SameRow
  <2>3. ASSUME NEW j \in runPlan.asks, RequestScan(j)
        PROVE  RowsOK
    <3>1. runs' = runs
      BY <2>3 DEF RequestScan
    <3> QED BY <3>1, <1>0, SameRows DEF RunsTyped
  <2> QED BY <2>1, <2>2, <2>3
<1>4. RunsTyped'
  BY <1>0, <1>1, <1>3 DEF RunsTyped
<1>5. Settles
  BY <1>0, <1>1, <1>2, <1>3 DEF Settles, RunsTyped
<1> QED BY <1>4, <1>5, SettlesStep

\* The agent comes back with nothing at work and a claim that no row bears.
LEMMA CrashStep ==
    ASSUME RInv, NEW a, Crash(a)
    PROVE  RInv'
<1>0. RunsTyped /\ IdleLoop.pc = "idle" /\ "idle" \notin {"begin"} \cup Jobs
  BY DEF RInv, IdleLoop, Jobs
<1>1. /\ dumps' = dumps /\ clock' = clock /\ today' = today /\ runPlan' = runPlan
      /\ loop' = [l \in Loops |-> IF AgentOf[l] = a THEN IdleLoop ELSE loop[l]]
      /\ jobLock' = IF jobLock # NoLoop /\ AgentOf[jobLock] = a THEN NoLoop ELSE jobLock
      /\ runs' = [r \in DOMAIN runs |->
                     IF runs[r].claim = a THEN [runs[r] EXCEPT !.claim = "dead"] ELSE runs[r]]
  BY DEF Crash
<1>2. loop' \in [Loops -> LoopRows]
  BY <1>0, <1>1, IdleTyped DEF RunsTyped
<1>3. \A l \in Loops : loop'[l] = IdleLoop \/ SameWork(l)
  BY <1>1, SameLoop
<1>4. \A l \in Loops :
          loop'[l].pc \in {"begin"} \cup Jobs /\ jobLock = l => jobLock' = l \/ loop'[l].lost
  BY <1>0, <1>1
<1>5. ASSUME NEW r \in DOMAIN runs
      PROVE  runs'[r] \in RunRows /\ SameRow(r)
  <2>1. runs[r] \in RunRows
    BY <1>0, RowFields
  <2>2. [runs[r] EXCEPT !.claim = "dead"] \in RunRows
    BY <2>1 DEF RunRows, Claims
  <2>3. LET R == [runs[r] EXCEPT !.claim = "dead"]
        IN  /\ R.job = runs[r].job /\ R.started = runs[r].started
            /\ R.status = runs[r].status /\ R.key = runs[r].key
    BY <2>1 DEF RunRows
  <2>4. runs'[r] = runs[r] \/ runs'[r] = [runs[r] EXCEPT !.claim = "dead"]
    BY <1>1
  <2> QED BY <2>1, <2>2, <2>3, <2>4 DEF SameRow
<1>6. runs' \in Seq(RunRows) /\ DOMAIN runs' = DOMAIN runs
  BY <1>0, <1>1, <1>5, RunsEdited
<1>7. RunsTyped'
  BY <1>0, <1>1, <1>2, <1>6 DEF RunsTyped
<1>8. dumps' = dumps /\ clock' = clock /\ today' \in Nat /\ today' >= today
  BY <1>0, <1>1 DEF RunsTyped
<1>9. Settles
  BY <1>3, <1>4, <1>5, <1>6, <1>8 DEF Settles
<1> QED BY <1>7, <1>9, SettlesStep

\* The lock goes, its loop works on and bears the mark; a day passes.
LEMMA EnvironmentSteps ==
    ASSUME RInv, NextDay \/ (\E l \in Loops : LoseLock(l)) \/ UNCHANGED runsVars
    PROVE  RInv'
<1>0. RunsTyped
  BY DEF RInv
<1>1. runs' = runs /\ dumps' = dumps /\ clock' = clock /\ runPlan' = runPlan
      /\ today' \in {today, today + 1}
  BY DEF NextDay, LoseLock, runsVars
<1> DEFINE LoopsOK ==
      /\ loop' \in [Loops -> LoopRows] /\ jobLock' \in Loops \cup {NoLoop}
      /\ \A l \in Loops : SameWork(l)
      /\ \A l \in Loops :
          loop'[l].pc \in {"begin"} \cup Jobs /\ jobLock = l => jobLock' = l \/ loop'[l].lost
<1>2. LoopsOK
  <2>1. CASE NextDay \/ UNCHANGED runsVars
    BY <2>1, <1>0, SameLoop DEF NextDay, runsVars, RunsTyped
  <2>2. ASSUME NEW l \in Loops, LoseLock(l)
        PROVE  LoopsOK
    <3>1. jobLock = l /\ jobLock' = NoLoop /\ loop' = [loop EXCEPT ![l] = [loop[l] EXCEPT !.lost = TRUE]]
      BY <2>2, <1>0 DEF LoseLock, RunsTyped
    <3>2. loop[l] \in LoopRows
      BY <1>0, LoopFields
    <3>3. [loop[l] EXCEPT !.lost = TRUE] \in LoopRows
      BY <3>2 DEF LoopRows
    <3>4. loop'[l] = [loop[l] EXCEPT !.lost = TRUE] /\ \A m \in Loops : m # l => loop'[m] = loop[m]
      BY <3>1, <1>0 DEF RunsTyped
    <3>5. SameWork(l) /\ loop'[l].lost
      BY <3>2, <3>4 DEF SameWork, LoopRows
    <3>6. loop' \in [Loops -> LoopRows]
      BY <3>1, <3>3, <1>0 DEF RunsTyped
    <3> QED BY <3>1, <3>4, <3>5, <3>6, SameLoop
  <2> QED BY <2>1, <2>2
<1>3. RunsTyped'
  BY <1>0, <1>1, <1>2 DEF RunsTyped
<1>4. Settles
  BY <1>0, <1>1, <1>2, SameRows DEF Settles, RunsTyped
<1> QED BY <1>3, <1>4, SettlesStep

-------------------------------------------------------------------------------
(***************************************************************************)
(* Steps that start: a slot fires, a requested row is claimed, the lock is *)
(* acquired, a row begins.                                                 *)
(***************************************************************************)

\* The loops after one of them took a new row.
LEMMA LoopSet ==
    ASSUME RunsTyped, NEW l \in Loops, NEW n \in LoopRows, loop' = [loop EXCEPT ![l] = n]
    PROVE  /\ loop' \in [Loops -> LoopRows] /\ loop'[l] = n
           /\ \A m \in Loops : m # l => loop'[m] = loop[m]
<1>1. loop \in [Loops -> LoopRows]
  BY DEF RunsTyped
<1> QED BY <1>1

\* A loop that starts has no list that it did not have, and a new key or none.
Starts(l) ==
    /\ \A m \in Loops : m # l => loop'[m] = loop[m]
    /\ loop'[l].victims \in {{}, loop[l].victims}
    /\ \/ loop'[l].pc \in {"lock", "begin"} /\ loop'[l].key \in {NoKey, loop[l].key}
       \/ loop'[l].pc = "drill" /\ loop'[l].key = NoKey
       \/ loop'[l].pc = "dump" /\ loop'[l].key = <<today, clock + 1>> /\ clock' = clock + 1
    /\ dumps' = dumps /\ today' = today /\ clock' \in {clock, clock + 1}
    /\ \A r \in DOMAIN runs' :
          /\ runs'[r].started <= clock'
          /\ runs'[r].status = "succeeded" =>
                r \in DOMAIN runs /\ runs[r].status = "succeeded" /\ runs'[r].key = runs[r].key

\* The store and its keys do not mind.
LEMMA StartKeepsStore ==
    ASSUME RInv, NEW l \in Loops, Starts(l)
    PROVE  (KeysFresh /\ YoungestSpared /\ DumpsCovered)'
<1>0. /\ RunsTyped /\ KeysFresh /\ YoungestSpared /\ DumpsCovered
      /\ today \in Nat /\ clock \in Nat /\ NoKey = <<0, 0>>
  BY DEF RInv, RunsTyped, NoKey
<1>1. \A m \in Loops : m # l => loop'[m] = loop[m]
  BY DEF Starts
<1>2. /\ loop'[l].victims \in {{}, loop[l].victims} /\ dumps' = dumps /\ today' = today
      /\ clock' \in {clock, clock + 1}
      /\ loop'[l].pc \in {"lock", "begin", "drill", "dump"}
  BY DEF Starts
<1>3. loop'[l].pc = "dump" => loop'[l].key = <<today, clock + 1>> /\ clock' = clock + 1
  BY DEF Starts
<1>4. /\ loop'[l].key \in {NoKey, loop[l].key} \/ loop'[l].pc = "dump"
      /\ loop'[l].pc = "drill" => loop'[l].key = NoKey
  BY DEF Starts
<1>5. KeysFresh'
  <2>1. \A r \in DOMAIN runs' : runs'[r].started <= clock'
    BY DEF Starts
  <2>2. \A k \in dumps' : k[1] <= today' /\ k[2] <= clock'
    <3>1. \A k \in dumps : k[2] \in Nat /\ k[1] <= today /\ k[2] <= clock
      BY <1>0 DEF RunsTyped, Keys, KeysFresh
    <3> QED BY <3>1, <1>0, <1>2
  <2>3. ASSUME NEW m \in Loops
        PROVE  /\ loop'[m].key[1] <= today' /\ loop'[m].key[2] <= clock'
               /\ \A k \in loop'[m].victims : k[2] <= clock'
    <3>1. CASE m = l
      <4>0. /\ loop[l].key[1] <= today /\ loop[l].key[2] <= clock
            /\ \A k \in loop[l].victims : k[2] \in Nat /\ k[2] <= clock
            /\ loop[l].key[1] \in Nat /\ loop[l].key[2] \in Nat
        BY <1>0, LoopFields DEF KeysFresh, Keys
      <4>1. \A k \in loop'[l].victims : k[2] <= clock'
        BY <4>0, <1>0, <1>2
      <4>2. CASE loop'[l].key = NoKey
        BY <3>1, <4>1, <4>2, <1>0, <1>2
      <4>3. CASE loop'[l].key = loop[l].key
        BY <3>1, <4>0, <4>1, <4>3, <1>0, <1>2
      <4>4. CASE loop'[l].pc = "dump"
        BY <3>1, <4>1, <4>4, <1>0, <1>2, <1>3
      <4> QED BY <4>2, <4>3, <4>4, <1>4
    <3>2. CASE m # l
      <4>1. /\ loop[m].key[1] <= today /\ loop[m].key[2] <= clock
            /\ \A k \in loop[m].victims : k[2] <= clock
        BY <1>0 DEF KeysFresh
      <4>2. loop[m].key \in Keys /\ loop[m].victims \subseteq Keys
        BY <1>0, LoopFields
      <4> QED BY <3>2, <4>1, <4>2, <1>0, <1>1, <1>2 DEF Keys
    <3> QED BY <3>1, <3>2
  <2>4. ASSUME NEW m \in Loops, loop'[m].pc = "dump"
        PROVE  /\ \A k \in dumps' : k[2] # loop'[m].key[2]
               /\ \A n \in Loops : /\ \A k \in loop'[n].victims : k[2] # loop'[m].key[2]
                                   /\ n # m /\ loop'[n].pc = "dump" =>
                                         loop'[n].key[2] # loop'[m].key[2]
    <3>1. \A k \in dumps : k[2] <= clock
      BY <1>0 DEF KeysFresh
    <3>2. \A n \in Loops : /\ loop[n].key[2] <= clock
                           /\ \A k \in loop[n].victims : k[2] <= clock
      BY <1>0 DEF KeysFresh
    <3>3. ASSUME loop'[l].pc = "dump", NEW n \in Loops, n # l
          PROVE  loop'[n].key[2] # loop'[l].key[2]
      BY <3>2, <3>3, <1>0, <1>1, <1>3
    <3>4. CASE m = l
      <4>1. loop'[m].key[2] = clock + 1
        BY <2>4, <3>4, <1>3
      <4>2. \A k \in dumps' : k[2] # clock + 1
        BY <3>1, <1>0, <1>2
      <4>3. \A n \in Loops : \A k \in loop'[n].victims : k[2] # clock + 1
        BY <3>2, <1>0, <1>1, <1>2
      <4> QED BY <2>4, <3>3, <3>4, <4>1, <4>2, <4>3
    <3>5. CASE m # l
      <4>1. /\ \A k \in dumps : k[2] # loop[m].key[2]
            /\ \A n \in Loops : /\ \A k \in loop[n].victims : k[2] # loop[m].key[2]
                                /\ n # m /\ loop[n].pc = "dump" =>
                                      loop[n].key[2] # loop[m].key[2]
        BY <2>4, <3>5, <1>0, <1>1 DEF KeysFresh
      <4>2. \A n \in Loops : \A k \in loop'[n].victims : k[2] # loop'[m].key[2]
        BY <3>5, <4>1, <1>1, <1>2
      <4> QED BY <2>4, <3>3, <3>5, <4>1, <4>2, <1>1, <1>2
    <3> QED BY <3>4, <3>5
  <2> QED BY <2>1, <2>2, <2>3, <2>4 DEF KeysFresh
<1>6. YoungestSpared'
  <2>1. \A m \in Loops : loop'[m].victims \in {{}, loop[m].victims}
    BY <1>1, <1>2
  <2> QED BY <2>1, <1>0, <1>2 DEF YoungestSpared, Youngest
<1>7. DumpsCovered'
  <2>1. \A m \in Loops : loop'[m].pc \in {"drill", "download"} => loop'[m].key = NoKey
    BY <1>0, <1>1, <1>2, <1>4 DEF DumpsCovered
  <2>2. \A r \in DOMAIN runs' :
          runs'[r].status = "succeeded" /\ runs'[r].key # NoKey => Covered(runs'[r].key, dumps')
    <3> SUFFICES ASSUME NEW r \in DOMAIN runs', runs'[r].status = "succeeded",
                        runs'[r].key # NoKey
                 PROVE  Covered(runs'[r].key, dumps)
      BY <1>2 DEF Covered
    <3>1. r \in DOMAIN runs /\ runs[r].status = "succeeded" /\ runs'[r].key = runs[r].key
      BY DEF Starts
    <3> QED BY <3>1, <1>0 DEF DumpsCovered
  <2>3. \A m \in Loops :
          /\ loop'[m].pc \in {"list", "prune"} \/ (loop'[m].pc = "record" /\ loop'[m].ok)
          /\ loop'[m].key # NoKey
          => Covered(loop'[m].key, dumps')
    <3> SUFFICES ASSUME NEW m \in Loops, loop'[m].key # NoKey,
                        loop'[m].pc \in {"list", "prune"} \/ (loop'[m].pc = "record" /\ loop'[m].ok)
                 PROVE  Covered(loop'[m].key, dumps)
      BY <1>2 DEF Covered
    <3>1. m # l
      BY <1>2
    <3> QED BY <3>1, <1>0, <1>1 DEF DumpsCovered
  <2> QED BY <2>1, <2>2, <2>3 DEF DumpsCovered
<1> QED BY <1>5, <1>6, <1>7

\* StartWork is a loop's row with its job for a program counter, and a new key or none.
LEMMA WorkStarts ==
    ASSUME RunsTyped, NEW l \in Loops, loop[l].job \in JobNames, NEW r \in Nat
    PROVE  LET n == StartWork(l, r, clock + 1)
           IN  /\ n \in LoopRows /\ n.job = loop[l].job /\ n.run = r
               /\ n.pc = loop[l].job /\ n.lost = loop[l].lost /\ n.victims = loop[l].victims
               /\ \/ n.pc = "drill" /\ n.key = NoKey
                  \/ n.pc = "dump" /\ n.key = <<today, clock + 1>>
<1> DEFINE k == IF loop[l].job = "dump" THEN <<today, clock + 1>> ELSE NoKey
<1>1. loop[l] \in LoopRows
  BY LoopFields
<1>2. k \in Keys
  BY IdleTyped DEF RunsTyped, Keys
<1>3. StartWork(l, r, clock + 1) = [loop[l] EXCEPT !.pc = loop[l].job, !.run = r, !.key = k]
  BY DEF StartWork
<1>4. loop[l].job \in {"dump", "drill"}
  BY DEF JobNames
<1>5. loop[l].job = "dump" => k = <<today, clock + 1>>
  OBVIOUS
<1>6. loop[l].job # "dump" => k = NoKey
  OBVIOUS
<1> HIDE DEF k
<1> QED BY <1>1, <1>2, <1>3, <1>4, <1>5, <1>6 DEF LoopRows, Jobs

\* A slot fires.
LEMMA FireStep ==
    ASSUME RInv, NEW l \in Serving, Fire(l)
    PROVE  RInv'
<1> DEFINE n == [IdleLoop EXCEPT !.pc = "lock", !.job = runPlan.serves[l]]
<1>0. RunsTyped /\ l \in Loops /\ runPlan.serves[l] \in JobNames
  BY PlanTyped DEF RInv, Fire
<1>1. /\ loop' = [loop EXCEPT ![l] = n]
      /\ runs' = runs /\ jobLock' = jobLock /\ dumps' = dumps /\ today' = today /\ clock' = clock
      /\ runPlan' = runPlan
  BY DEF Fire
<1>2. /\ n \in LoopRows /\ n.pc = "lock" /\ n.job \in JobNames /\ n.run = 0 /\ n.key = NoKey
      /\ n.victims = {}
  BY <1>0, IdleTyped DEF LoopRows, IdleLoop
<1> HIDE DEF n
<1>3. /\ loop' \in [Loops -> LoopRows] /\ loop'[l] = n
      /\ \A m \in Loops : m # l => loop'[m] = loop[m]
  BY <1>0, <1>1, <1>2, LoopSet
<1>4. RunsTyped'
  BY <1>0, <1>1, <1>3 DEF RunsTyped
<1>5. Starts(l)
  BY <1>0, <1>1, <1>2, <1>3 DEF Starts, RInv, KeysFresh
<1>6. (KeysFresh /\ YoungestSpared /\ DumpsCovered)'
  BY <1>0, <1>5, StartKeepsStore
<1>7. RowsOwned'
  <2>1. "lock" \notin Jobs \cup {"record"}
    BY DEF Jobs
  <2> QED BY <1>0, <1>1, <1>2, <1>3, <2>1 DEF RowsOwned, RInv
<1>8. OneRunning'
  BY <1>1 DEF OneRunning, RInv
<1>9. LockHeld'
  BY <1>1, <1>2, <1>3 DEF LockHeld, RInv, Jobs
<1> QED BY <1>4, <1>6, <1>7, <1>8, <1>9 DEF RInv

\* The oldest request is one that is there.
LEMMA OldestRequest ==
    ASSUME RunsTyped, NEW j, Is(j, {"requested"}) # {}
    PROVE  /\ Min(Is(j, {"requested"})) \in DOMAIN runs
           /\ runs[Min(Is(j, {"requested"}))].job = j
           /\ runs[Min(Is(j, {"requested"}))].status = "requested"
<1> DEFINE T == Is(j, {"requested"})
<1>1. T \in SUBSET Nat
  BY RowFields DEF Is
<1>2. \E x \in T : \A y \in T : x <= y
  BY <1>1, LeastElement
<1>3. Min(T) \in T
  BY <1>2 DEF Min
<1> QED BY <1>3 DEF Is

\* A row that was started at t and is claimed by c: typed, and of the same job.
Started(x, t, c) == [[x EXCEPT !.started = t] EXCEPT !.claim = c]
\* Such a row has its type.
LEMMA RowStarted ==
    ASSUME NEW x \in RunRows, NEW t \in Nat, NEW c \in Claims
    PROVE  /\ Started(x, t, c) \in RunRows /\ Started(x, t, c).job = x.job
           /\ Started(x, t, c).status = x.status /\ Started(x, t, c).started = t
  BY DEF RunRows, Started

\* A requested row is claimed.
LEMMA ClaimStep ==
    ASSUME RInv, NEW l \in Serving, NEW j \in runPlan.asks, ClaimRequested(l, j)
    PROVE  RInv'
<1> DEFINE r == Min(Is(j, {"requested"}))
           n == [IdleLoop EXCEPT !.pc = "lock", !.job = j, !.run = r]
           R == Started([runs[r] EXCEPT !.status = "running"], clock + 1, AgentOf[l])
<1>0. RunsTyped /\ l \in Loops /\ j \in JobNames /\ clock \in Nat
  BY PlanTyped DEF RInv, RunsTyped
<1>1. r \in DOMAIN runs /\ runs[r].job = j /\ runs[r].status = "requested"
  BY <1>0, OldestRequest DEF ClaimRequested
<1>2. r \in Nat /\ r # 0 /\ runs[r] \in RunRows
  BY <1>0, <1>1, RowFields
<1> HIDE DEF r
<1>3. /\ loop' = [loop EXCEPT ![l] = n] /\ clock' = clock + 1
      /\ runs' = [runs EXCEPT ![r].status = "running", ![r].started = clock + 1,
                              ![r].claim = AgentOf[l]]
      /\ jobLock' = jobLock /\ dumps' = dumps /\ today' = today /\ runPlan' = runPlan
  BY DEF ClaimRequested, r
<1>4. runs' = [runs EXCEPT ![r] = R]
  BY <1>0, <1>1, <1>3 DEF RunsTyped, Started
<1>5. /\ R \in RunRows /\ R.job = j /\ R.status = "running" /\ R.started = clock + 1
  <2>1. clock + 1 \in Nat /\ AgentOf[l] \in Claims
    BY <1>0 DEF Claims
  <2>2. LET x == [runs[r] EXCEPT !.status = "running"]
        IN  x \in RunRows /\ x.job = j /\ x.status = "running"
    BY <1>1, <1>2 DEF RunRows, Statuses
  <2> QED BY <2>1, <2>2, RowStarted
<1>6. /\ n \in LoopRows /\ n.pc = "lock" /\ n.job = j /\ n.run = r /\ n.key = NoKey
      /\ n.victims = {}
  BY <1>0, <1>2, IdleTyped DEF LoopRows, IdleLoop
<1> HIDE DEF n, R
<1>7. /\ loop' \in [Loops -> LoopRows] /\ loop'[l] = n
      /\ \A m \in Loops : m # l => loop'[m] = loop[m]
  BY <1>0, <1>3, <1>6, LoopSet
<1>8. /\ runs' \in Seq(RunRows) /\ DOMAIN runs' = DOMAIN runs /\ runs'[r] = R
      /\ \A q \in DOMAIN runs : q # r => runs'[q] = runs[q]
  BY <1>0, <1>1, <1>4, <1>5 DEF RunsTyped
<1>9. RunsTyped'
  BY <1>0, <1>3, <1>7, <1>8 DEF RunsTyped
<1>10. Starts(l)
  <2>1. \A q \in DOMAIN runs' :
          /\ runs'[q].started <= clock'
          /\ runs'[q].status = "succeeded" =>
                q \in DOMAIN runs /\ runs[q].status = "succeeded" /\ runs'[q].key = runs[q].key
    <3>1. \A q \in DOMAIN runs : runs[q].started \in Nat /\ runs[q].started <= clock
      BY <1>0, RowFields DEF RInv, KeysFresh
    <3> QED BY <3>1, <1>0, <1>3, <1>5, <1>8
  <2> QED BY <2>1, <1>3, <1>6, <1>7 DEF Starts
<1>11. (KeysFresh /\ YoungestSpared /\ DumpsCovered)'
  BY <1>0, <1>10, StartKeepsStore
<1>12. RowsOwned'
  <2>0. "lock" \notin Jobs \cup {"record"} /\ RowsOwned
    BY DEF Jobs, RInv
  <2>1. \A m \in Loops : loop[m].run # r
    BY <2>0, <1>1, <1>2 DEF RowsOwned
  <2>2. \A q \in DOMAIN runs' : runs'[q].job = runs[q].job
                                /\ (runs'[q].status = "requested" => runs[q].status = "requested")
    BY <1>1, <1>5, <1>8
  <2> QED BY <2>0, <2>1, <2>2, <1>0, <1>1, <1>5, <1>6, <1>7, <1>8 DEF RowsOwned
<1>13. OneRunning'
  <2>1. \A q \in DOMAIN runs : runs[q].job = j => runs[q].status # "running"
    BY DEF ClaimRequested, SlotTaken, Is
  <2> QED BY <2>1, <1>1, <1>5, <1>8 DEF OneRunning, RInv
<1>14. LockHeld'
  BY <1>3, <1>6, <1>7 DEF LockHeld, RInv, Jobs
<1> QED BY <1>9, <1>11, <1>12, <1>13, <1>14 DEF RInv

\* The lock is free and taken; a loop with a row starts its work, one without goes on to Begin.
LEMMA AcquireStep ==
    ASSUME RInv, NEW l \in Loops, acquireJobLock(l)
    PROVE  RInv'
<1> DEFINE n == IF loop[l].run = 0 THEN [loop[l] EXCEPT !.pc = "begin"]
                ELSE StartWork(l, loop[l].run, clock + 1)
<1>0. /\ RunsTyped /\ RowsOwned /\ clock \in Nat /\ loop[l].pc = "lock"
      /\ loop[l] \in LoopRows /\ loop[l].run \in Nat
  BY LoopFields DEF RInv, RunsTyped, acquireJobLock
<1>1. loop[l].job \in JobNames
  BY <1>0 DEF RowsOwned
<1>2. /\ loop' = [loop EXCEPT ![l] = n] /\ jobLock = NoLoop /\ jobLock' = l
      /\ clock' = IF loop[l].run = 0 THEN clock ELSE clock + 1
      /\ runs' = runs /\ dumps' = dumps /\ today' = today /\ runPlan' = runPlan
  BY <1>0 DEF acquireJobLock, RunsTyped
<1>3. /\ n \in LoopRows /\ n.job = loop[l].job /\ n.run = loop[l].run
      /\ n.victims = loop[l].victims /\ n.lost = loop[l].lost
      /\ n.run = 0 => n.pc = "begin" /\ n.key = loop[l].key
      /\ n.run # 0 => n.pc \in Jobs /\ ((n.pc = "drill" /\ n.key = NoKey)
                                        \/ (n.pc = "dump" /\ n.key = <<today, clock + 1>>))
  <2>1. CASE loop[l].run = 0
    <3>1. n = [loop[l] EXCEPT !.pc = "begin"]
      BY <2>1
    <3> HIDE DEF n
    <3> QED BY <2>1, <3>1, <1>0 DEF LoopRows
  <2>2. CASE loop[l].run # 0
    <3>1. n = StartWork(l, loop[l].run, clock + 1)
      BY <2>2
    <3> HIDE DEF n
    <3> QED BY <2>2, <3>1, <1>0, <1>1, WorkStarts DEF Jobs
  <2> HIDE DEF n
  <2> QED BY <2>1, <2>2
<1> HIDE DEF n
<1>4. /\ loop' \in [Loops -> LoopRows] /\ loop'[l] = n
      /\ \A m \in Loops : m # l => loop'[m] = loop[m]
  BY <1>0, <1>2, <1>3, LoopSet
<1>5. RunsTyped'
  BY <1>0, <1>2, <1>4 DEF RunsTyped
<1>6. Starts(l)
  <2>1. \A q \in DOMAIN runs : runs[q].started \in Nat /\ runs[q].started <= clock
    BY <1>0, RowFields DEF RInv, KeysFresh
  <2> QED BY <2>1, <1>0, <1>2, <1>3, <1>4 DEF Starts
<1>7. (KeysFresh /\ YoungestSpared /\ DumpsCovered)'
  BY <1>6, StartKeepsStore
<1>8. RowsOwned'
  <2>1. "begin" \notin Jobs \cup {"record"}
    BY DEF Jobs
  <2> QED BY <2>1, <1>0, <1>1, <1>2, <1>3, <1>4 DEF RowsOwned
<1>9. OneRunning'
  BY <1>2 DEF OneRunning, RInv
<1>10. LockHeld'
  <2>1. \A m \in Loops : NoLoop # m
    BY RunsAssumption
  <2> QED BY <2>1, <1>2, <1>4 DEF LockHeld, RInv
<1> QED BY <1>5, <1>7, <1>8, <1>9, <1>10 DEF RInv

\* A row begins if the job's slot is free; else the lock goes back.
LEMMA BeginStep ==
    ASSUME RInv, NEW l \in Loops, Begin(l)
    PROVE  RInv'
<1>0. /\ RunsTyped /\ RowsOwned /\ clock \in Nat /\ loop[l].pc = "begin"
      /\ loop[l] \in LoopRows /\ Len(runs) \in Nat /\ DOMAIN runs = 1..Len(runs)
  BY LoopFields DEF RInv, RunsTyped, Begin
<1>1. loop[l].job \in JobNames
  BY <1>0 DEF RowsOwned
<1>2. CASE SlotTaken(loop[l].job) \/ Len(runs) = runPlan.max
  <2>0. IdleLoop.pc = "idle" /\ "idle" \notin {"begin"} \cup Jobs
    BY DEF IdleLoop, Jobs
  <2>1. /\ loop' = [loop EXCEPT ![l] = IdleLoop] /\ runs' = runs /\ clock' = clock
        /\ dumps' = dumps /\ today' = today /\ runPlan' = runPlan
        /\ jobLock' = IF jobLock = l THEN NoLoop ELSE jobLock
    BY <1>2 DEF Begin, release
  <2>2. /\ loop' \in [Loops -> LoopRows] /\ loop'[l] = IdleLoop
        /\ \A m \in Loops : loop'[m] = IdleLoop \/ SameWork(m)
    BY <1>0, <2>1, Stopped
  <2>3. RunsTyped'
    BY <1>0, <2>1, <2>2 DEF RunsTyped
  <2>4. Settles
    BY <1>0, <2>0, <2>1, <2>2, SameRows DEF Settles, RunsTyped
  <2> QED BY <2>3, <2>4, SettlesStep
<1>3. CASE ~(SlotTaken(loop[l].job) \/ Len(runs) = runPlan.max)
  <2> DEFINE q == Len(runs) + 1
             n == StartWork(l, q, clock + 1)
             R == Started(NewRun(loop[l].job, "running"), clock + 1, AgentOf[l])
  <2>1. /\ runs' = Append(runs, R) /\ loop' = [loop EXCEPT ![l] = n] /\ clock' = clock + 1
        /\ jobLock' = jobLock /\ dumps' = dumps /\ today' = today /\ runPlan' = runPlan
    BY <1>3 DEF Begin, Started
  <2>2. /\ R \in RunRows /\ R.job = loop[l].job /\ R.status = "running" /\ R.started = clock + 1
    <3>1. clock + 1 \in Nat /\ AgentOf[l] \in Claims
      BY <1>0 DEF Claims
    <3>2. /\ NewRun(loop[l].job, "running") \in RunRows
          /\ NewRun(loop[l].job, "running").job = loop[l].job
          /\ NewRun(loop[l].job, "running").status = "running"
      BY <1>1, IdleTyped DEF NewRun, RunRows, Statuses, Claims
    <3> QED BY <3>1, <3>2, RowStarted
  <2>3. q \in Nat /\ q # 0 /\ q \notin DOMAIN runs
    BY <1>0
  <2>4. /\ n \in LoopRows /\ n.job = loop[l].job /\ n.run = q /\ n.pc \in Jobs
        /\ n.victims = loop[l].victims /\ n.lost = loop[l].lost
        /\ \/ n.pc = "drill" /\ n.key = NoKey
           \/ n.pc = "dump" /\ n.key = <<today, clock + 1>>
    BY <1>0, <1>1, <2>3, WorkStarts DEF Jobs
  <2> HIDE DEF n, R
  <2>5. /\ loop' \in [Loops -> LoopRows] /\ loop'[l] = n
        /\ \A m \in Loops : m # l => loop'[m] = loop[m]
    BY <1>0, <2>1, <2>4, LoopSet
  <2>6. /\ runs' \in Seq(RunRows) /\ DOMAIN runs' = DOMAIN runs \cup {q} /\ runs'[q] = R
        /\ \A r \in DOMAIN runs : runs'[r] = runs[r]
    BY <1>0, <2>1, <2>2 DEF RunsTyped
  <2> HIDE DEF q
  <2>7. RunsTyped'
    BY <1>0, <2>1, <2>5, <2>6 DEF RunsTyped
  <2>8. Starts(l)
    <3>1. \A r \in DOMAIN runs' :
          /\ runs'[r].started <= clock'
          /\ runs'[r].status = "succeeded" =>
                r \in DOMAIN runs /\ runs[r].status = "succeeded" /\ runs'[r].key = runs[r].key
      <4>1. \A r \in DOMAIN runs : runs[r].started \in Nat /\ runs[r].started <= clock
        BY <1>0, RowFields DEF RInv, KeysFresh
      <4> QED BY <4>1, <1>0, <2>1, <2>2, <2>6
    <3> QED BY <3>1, <2>1, <2>4, <2>5 DEF Starts
  <2>9. (KeysFresh /\ YoungestSpared /\ DumpsCovered)'
    BY <2>8, StartKeepsStore
  <2>10. RowsOwned'
    <3>1. \A m \in Loops : loop[m].run # q
      BY <1>0, <2>3 DEF RowsOwned
    <3>2. "running" # "requested"
      OBVIOUS
    <3> QED BY <3>1, <3>2, <1>0, <1>1, <2>2, <2>3, <2>4, <2>5, <2>6 DEF RowsOwned
  <2>11. OneRunning'
    <3>1. \A r \in DOMAIN runs : runs[r].job = loop[l].job => runs[r].status # "running"
      BY <1>3 DEF SlotTaken, Is
    <3> QED BY <3>1, <2>2, <2>6 DEF OneRunning, RInv
  <2>12. LockHeld'
    BY <1>0, <2>1, <2>4, <2>5 DEF LockHeld, RInv
  <2> QED BY <2>7, <2>9, <2>10, <2>11, <2>12 DEF RInv
<1> QED BY <1>2, <1>3

-------------------------------------------------------------------------------
(***************************************************************************)
(* Steps of a job at work.                                                 *)
(***************************************************************************)

\* A loop goes from a step of its job to the next one, or to the recording of the outcome,
\* which gives the lock back; the rows keep all but the dump a drill is of.
GoesOn(l) ==
    /\ loop[l].pc \in Jobs /\ loop'[l].pc \in Jobs \cup {"record"}
    /\ loop'[l].run = loop[l].run /\ loop'[l].job = loop[l].job /\ loop'[l].lost = loop[l].lost
    /\ loop'[l].key \in {loop[l].key, NoKey}
    /\ \A m \in Loops : m # l => loop'[m] = loop[m]
    /\ jobLock' = jobLock \/ (loop'[l].pc = "record" /\ jobLock = l)
    /\ DOMAIN runs' = DOMAIN runs
    /\ \A r \in DOMAIN runs :
          /\ runs'[r].job = runs[r].job /\ runs'[r].status = runs[r].status
          /\ runs'[r].started = runs[r].started /\ runs'[r].key = runs[r].key
    /\ today' = today /\ clock' = clock

\* The ledger's half of the invariant does not mind.
LEMMA WorkKeepsLedger ==
    ASSUME RInv, NEW l \in Loops, GoesOn(l)
    PROVE  (RowsOwned /\ OneRunning /\ LockHeld)'
<1>0. /\ \A m \in Loops : loop'[m].run = loop[m].run /\ loop'[m].job = loop[m].job
                          /\ loop'[m].lost = loop[m].lost
      /\ \A m \in Loops : loop'[m].pc \in Jobs \cup {"record"} => loop[m].pc \in Jobs \cup {"record"}
      /\ \A m \in Loops : loop'[m].pc \in {"begin"} \cup Jobs => loop[m].pc \in {"begin"} \cup Jobs
      /\ \A m \in Loops : loop'[m].pc \in {"lock", "begin"} \cup Jobs =>
                              loop[m].pc \in {"lock", "begin"} \cup Jobs
  BY DEF GoesOn
<1>1. /\ DOMAIN runs' = DOMAIN runs
      /\ \A r \in DOMAIN runs : runs'[r].job = runs[r].job /\ runs'[r].status = runs[r].status
  BY DEF GoesOn
<1>2. RowsOwned'
  BY <1>0, <1>1 DEF RowsOwned, RInv
<1>3. OneRunning'
  BY <1>1 DEF OneRunning, RInv
<1>4. LockHeld'
  <2> SUFFICES ASSUME NEW m \in Loops, loop'[m].pc \in {"begin"} \cup Jobs
               PROVE  jobLock' = m \/ loop'[m].lost
    BY DEF LockHeld
  <2>1. jobLock = m \/ loop[m].lost
    BY <1>0 DEF LockHeld, RInv
  <2>2. "record" \notin {"begin"} \cup Jobs
    BY DEF Jobs
  <2> QED BY <2>1, <2>2, <1>0 DEF GoesOn
<1> QED BY <1>2, <1>3, <1>4

\* Keys stay fresh if what is new in the store is the key of the loop that made it, and what is
\* new in its list is in the store.
LEMMA WorkKeepsKeys ==
    ASSUME RInv, NEW l \in Loops, GoesOn(l), loop'[l].pc # "dump",
           dumps' \subseteq dumps \/ (loop[l].pc = "dump" /\ dumps' \subseteq dumps \cup {loop[l].key}),
           loop'[l].victims \subseteq loop[l].victims \/ loop'[l].victims \subseteq dumps
    PROVE  KeysFresh'
<1>0. /\ RunsTyped /\ KeysFresh /\ today' = today /\ clock' = clock
      /\ today \in Nat /\ clock \in Nat /\ NoKey = <<0, 0>>
      /\ \A m \in Loops : m # l => loop'[m] = loop[m]
  BY DEF RInv, RunsTyped, GoesOn, NoKey
<1>1. \A r \in DOMAIN runs' : runs'[r].started <= clock'
  BY DEF RInv, KeysFresh, GoesOn
<1>2. \A k \in dumps' : k[1] <= today' /\ k[2] <= clock'
  BY <1>0 DEF KeysFresh
<1>3. ASSUME NEW m \in Loops
      PROVE  /\ loop'[m].key[1] <= today' /\ loop'[m].key[2] <= clock'
             /\ \A k \in loop'[m].victims : k[2] <= clock'
  <2>1. CASE m # l
    BY <2>1, <1>0 DEF KeysFresh
  <2>2. CASE m = l
    <3>1. loop'[l].key \in {loop[l].key, NoKey}
      BY DEF GoesOn
    <3> QED BY <2>2, <3>1, <1>0 DEF KeysFresh
  <2> QED BY <2>1, <2>2
<1>4. ASSUME NEW m \in Loops, loop'[m].pc = "dump"
      PROVE  /\ \A k \in dumps' : k[2] # loop'[m].key[2]
             /\ \A n \in Loops : /\ \A k \in loop'[n].victims : k[2] # loop'[m].key[2]
                                 /\ n # m /\ loop'[n].pc = "dump" =>
                                       loop'[n].key[2] # loop'[m].key[2]
  <2>0. m # l /\ loop'[m] = loop[m] /\ loop[m].pc = "dump"
    BY <1>0, <1>4
  <2>1. /\ \A k \in dumps : k[2] # loop[m].key[2]
        /\ \A n \in Loops : /\ \A k \in loop[n].victims : k[2] # loop[m].key[2]
                            /\ n # m /\ loop[n].pc = "dump" =>
                                  loop[n].key[2] # loop[m].key[2]
    BY <2>0, <1>0 DEF KeysFresh
  <2>2. \A k \in dumps' : k[2] # loop'[m].key[2]
    BY <2>0, <2>1
  <2>3. \A n \in Loops : \A k \in loop'[n].victims : k[2] # loop'[m].key[2]
    BY <2>0, <2>1, <1>0
  <2>4. \A n \in Loops : n # m /\ loop'[n].pc = "dump" => loop'[n].key[2] # loop'[m].key[2]
    BY <2>0, <2>1, <1>0
  <2> QED BY <2>2, <2>3, <2>4
<1> QED BY <1>1, <1>2, <1>3, <1>4 DEF KeysFresh

\* Covered stays so if no dump is lost.
LEMMA CoveredGrows ==
    ASSUME NEW K, NEW L, K \subseteq L, NEW k, Covered(k, K)
    PROVE  Covered(k, L)
  BY DEF Covered

\* What is recorded stays covered, and so does what is about to be, except that the loop at work
\* answers for its own key.
LEMMA WorkKeepsCover ==
    ASSUME RInv, NEW l \in Loops, GoesOn(l),
           \A k \in Keys : Covered(k, dumps) => Covered(k, dumps'),
           loop'[l].pc \in {"drill", "download"} => loop'[l].key = NoKey,
           /\ loop'[l].pc \in {"list", "prune"} \/ (loop'[l].pc = "record" /\ loop'[l].ok)
           /\ loop'[l].key # NoKey
           => Covered(loop'[l].key, dumps')
    PROVE  DumpsCovered'
<1>0. /\ RunsTyped /\ DumpsCovered
      /\ \A m \in Loops : m # l => loop'[m] = loop[m]
      /\ DOMAIN runs' = DOMAIN runs
      /\ \A r \in DOMAIN runs : runs'[r].status = runs[r].status /\ runs'[r].key = runs[r].key
  BY DEF RInv, GoesOn
<1>1. \A m \in Loops : loop[m].key \in Keys
  BY <1>0, LoopFields
<1>2. \A r \in DOMAIN runs : runs[r].key \in Keys
  BY <1>0, RowFields
<1>3. \A r \in DOMAIN runs' :
          runs'[r].status = "succeeded" /\ runs'[r].key # NoKey => Covered(runs'[r].key, dumps')
  BY <1>0, <1>2 DEF DumpsCovered
<1>4. \A m \in Loops :
          /\ loop'[m].pc \in {"list", "prune"} \/ (loop'[m].pc = "record" /\ loop'[m].ok)
          /\ loop'[m].key # NoKey
          => Covered(loop'[m].key, dumps')
  BY <1>0, <1>1 DEF DumpsCovered
<1>5. \A m \in Loops : loop'[m].pc \in {"drill", "download"} => loop'[m].key = NoKey
  BY <1>0 DEF DumpsCovered
<1> QED BY <1>3, <1>4, <1>5 DEF DumpsCovered

\* A new key is in nobody's list, so the youngest is spared with it or without it.
LEMMA GrownStoreSpares ==
    ASSUME RInv, NEW l \in Loops, loop[l].pc = "dump",
           dumps' = dumps \cup {loop[l].key} \/ dumps' = dumps,
           \A m \in Loops : loop'[m].victims = loop[m].victims
    PROVE  YoungestSpared'
<1> SUFFICES ASSUME NEW k \in dumps', Youngest(k, dumps'), NEW m \in Loops
             PROVE  k \notin loop'[m].victims
  BY DEF YoungestSpared
<1>1. CASE k \in dumps
  <2>1. Youngest(k, dumps)
    BY <1>1 DEF Youngest
  <2> QED BY <1>1, <2>1 DEF YoungestSpared, RInv
<1>2. CASE k = loop[l].key
  <2>1. \A j \in loop[m].victims : j[2] # loop[l].key[2]
    BY DEF RInv, KeysFresh
  <2> QED BY <1>2, <2>1
<1> QED BY <1>1, <1>2

\* The youngest survives whatever of a list is deleted: it stays the youngest, and it covers
\* what the deleted ones covered.
LEMMA DeletionSpares ==
    ASSUME RInv, NEW l \in Loops, NEW part \in SUBSET loop[l].victims, dumps' = dumps \ part,
           \A m \in Loops : loop'[m].victims = loop[m].victims
    PROVE  /\ YoungestSpared'
           /\ \A k \in Keys : Covered(k, dumps) => Covered(k, dumps')
<1>0. RunsTyped /\ today \in Nat /\ clock \in Nat /\ dumps \subseteq Keys
      /\ \A k \in dumps : k[1] <= today /\ k[2] <= clock
  BY DEF RInv, RunsTyped, KeysFresh
<1>1. CASE dumps = {}
  BY <1>1 DEF YoungestSpared, Covered
<1>2. CASE dumps # {}
  <2>1. PICK y \in dumps : Youngest(y, dumps)
    BY <1>0, <1>2, YoungestExists
  <2>2. \A m \in Loops : y \notin loop[m].victims
    BY <2>1 DEF YoungestSpared, RInv
  <2>3. y \in dumps' /\ y \in Keys
    BY <2>2, <1>0
  <2>4. \A j \in dumps : ~Older(y, j)
    BY <2>1 DEF Youngest
  <2>5. YoungestSpared'
    <3> SUFFICES ASSUME NEW k \in dumps', Youngest(k, dumps'), NEW m \in Loops
                 PROVE  k \notin loop'[m].victims
      BY DEF YoungestSpared
    <3>1. ~Older(k, y) /\ ~Older(y, k)
      BY <2>3, <2>4 DEF Youngest
    <3>2. k = y
      BY <3>1, <2>3, <1>0, OlderIsAnOrder
    <3> QED BY <3>2, <2>2
  <2>6. ASSUME NEW k \in Keys, Covered(k, dumps)
        PROVE  Covered(k, dumps')
    <3>1. PICK j \in dumps : ~Older(j, k)
      BY <2>6 DEF Covered
    <3>2. ~Older(y, k)
      BY <3>1, <2>3, <2>4, <1>0, OlderIsAnOrder
    <3> QED BY <3>2, <2>3 DEF Covered
  <2> QED BY <2>5, <2>6
<1> QED BY <1>1, <1>2

\* What a loop's row becomes when its job is done.
DoneRow(l, ok) ==
    [loop[l] EXCEPT !.pc = "record", !.ok = ok, !.key = IF ok THEN loop[l].key ELSE NoKey]

\* A job that is done gives the lock back and goes on to the recording.
LEMMA DoneStep ==
    ASSUME RunsTyped, NEW l \in Loops, NEW ok \in BOOLEAN, Done(l, ok)
    PROVE  /\ loop' \in [Loops -> LoopRows] /\ jobLock' \in Loops \cup {NoLoop}
           /\ \A m \in Loops : m # l => loop'[m] = loop[m]
           /\ loop'[l].pc = "record" /\ loop'[l].ok = ok
           /\ loop'[l].key = (IF ok THEN loop[l].key ELSE NoKey)
           /\ loop'[l].run = loop[l].run /\ loop'[l].job = loop[l].job
           /\ loop'[l].lost = loop[l].lost /\ loop'[l].victims = loop[l].victims
           /\ jobLock' = jobLock \/ jobLock = l
<1> DEFINE n == DoneRow(l, ok)
           k == IF ok THEN loop[l].key ELSE NoKey
<1>1. loop[l] \in LoopRows /\ loop[l].key \in Keys
  BY LoopFields
<1>2. loop' = [loop EXCEPT ![l] = n]
  BY DEF Done, DoneRow, RunsTyped
<1>3. k \in Keys
  BY <1>1, IdleTyped
<1>4. n = [loop[l] EXCEPT !.pc = "record", !.ok = ok, !.key = k]
  BY DEF DoneRow
<1> HIDE DEF n, k
<1>5. /\ n \in LoopRows /\ n.pc = "record" /\ n.ok = ok /\ n.key = k
      /\ n.run = loop[l].run /\ n.job = loop[l].job
      /\ n.lost = loop[l].lost /\ n.victims = loop[l].victims
  BY <1>1, <1>3, <1>4 DEF LoopRows
<1>6. /\ loop' \in [Loops -> LoopRows] /\ loop'[l] = n
      /\ \A m \in Loops : m # l => loop'[m] = loop[m]
  BY <1>2, <1>5, LoopSet
<1>7. jobLock' \in Loops \cup {NoLoop} /\ (jobLock' = jobLock \/ jobLock = l)
  BY DEF Done, release, RunsTyped
<1> QED BY <1>5, <1>6, <1>7 DEF k

\* The two halves together.
LEMMA Halves ==
    RunsTyped /\ (RowsOwned /\ OneRunning /\ LockHeld)
              /\ (KeysFresh /\ YoungestSpared /\ DumpsCovered) => RInv
  BY DEF RInv

\* The dump is stored under its key, which nobody has listed.
LEMMA DumpStep ==
    ASSUME RInv, NEW l \in Loops, Dump(l)
    PROVE  RInv'
<1> DEFINE n == [loop[l] EXCEPT !.pc = "list"]
<1>0. /\ RunsTyped /\ loop[l].pc = "dump" /\ loop[l] \in LoopRows /\ loop[l].key \in Keys
      /\ runs' = runs /\ jobLock' = jobLock /\ today' = today /\ clock' = clock
      /\ runPlan' = runPlan /\ dumps' = dumps \cup {loop[l].key}
  BY LoopFields DEF RInv, Dump
<1>1. loop' = [loop EXCEPT ![l] = n]
  BY <1>0 DEF Dump, RunsTyped
<1>2. /\ n \in LoopRows /\ n.pc = "list" /\ n.run = loop[l].run /\ n.job = loop[l].job
      /\ n.key = loop[l].key /\ n.lost = loop[l].lost /\ n.victims = loop[l].victims
  BY <1>0 DEF LoopRows, Jobs
<1> HIDE DEF n
<1>3. /\ loop' \in [Loops -> LoopRows] /\ loop'[l] = n
      /\ \A m \in Loops : m # l => loop'[m] = loop[m]
  BY <1>0, <1>1, <1>2, LoopSet
<1>4. RunsTyped'
  BY <1>0, <1>3 DEF RunsTyped
<1>5. GoesOn(l)
  BY <1>0, <1>2, <1>3 DEF GoesOn, Jobs
<1>6. (RowsOwned /\ OneRunning /\ LockHeld)'
  BY <1>5, WorkKeepsLedger
<1>7. KeysFresh'
  BY <1>0, <1>2, <1>3, <1>5, WorkKeepsKeys
<1>8. YoungestSpared'
  BY <1>0, <1>2, <1>3, GrownStoreSpares
<1>9. DumpsCovered'
  <2>1. \A k \in Keys : Covered(k, dumps) => Covered(k, dumps')
    BY <1>0, CoveredGrows
  <2>2. Covered(loop'[l].key, dumps')
    BY <1>0, <1>2, <1>3, OlderIsAnOrder DEF Covered
  <2> QED BY <2>1, <2>2, <1>2, <1>3, <1>5, WorkKeepsCover
<1> QED BY <1>4, <1>6, <1>7, <1>8, <1>9 DEF RInv

\* The list spares the youngest of what it saw.
LEMMA ListStep ==
    ASSUME RInv, NEW l \in Loops, List(l)
    PROVE  RInv'
<1> DEFINE n == [loop[l] EXCEPT !.pc = "prune", !.victims = prunable(dumps)]
<1>0. /\ RunsTyped /\ loop[l].pc = "list" /\ loop[l] \in LoopRows /\ dumps \subseteq Keys
      /\ runs' = runs /\ jobLock' = jobLock /\ today' = today /\ clock' = clock
      /\ runPlan' = runPlan /\ dumps' = dumps
  BY LoopFields DEF RInv, List, RunsTyped
<1>1. loop' = [loop EXCEPT ![l] = n]
  BY <1>0 DEF List, RunsTyped
<1>2. prunable(dumps) \subseteq dumps
  BY DEF prunable
<1>3. /\ n \in LoopRows /\ n.pc = "prune" /\ n.run = loop[l].run /\ n.job = loop[l].job
      /\ n.key = loop[l].key /\ n.lost = loop[l].lost /\ n.victims = prunable(dumps)
  <2>1. prunable(dumps) \in SUBSET Keys
    BY <1>0, <1>2
  <2> QED BY <1>0, <2>1 DEF LoopRows, Jobs
<1> HIDE DEF n
<1>4. /\ loop' \in [Loops -> LoopRows] /\ loop'[l] = n
      /\ \A m \in Loops : m # l => loop'[m] = loop[m]
  BY <1>0, <1>1, <1>3, LoopSet
<1>5. RunsTyped'
  BY <1>0, <1>4 DEF RunsTyped
<1>6. GoesOn(l)
  BY <1>0, <1>3, <1>4 DEF GoesOn, Jobs
<1>7. (RowsOwned /\ OneRunning /\ LockHeld)'
  BY <1>6, WorkKeepsLedger
<1>8. KeysFresh'
  BY <1>0, <1>2, <1>3, <1>4, <1>6, WorkKeepsKeys
<1>9. YoungestSpared'
  <2> SUFFICES ASSUME NEW k \in dumps, Youngest(k, dumps), NEW m \in Loops
               PROVE  k \notin loop'[m].victims
    BY <1>0 DEF YoungestSpared, Youngest
  <2>1. CASE m = l
    BY <2>1, <1>0, <1>3, <1>4, YoungestIsClaimed
  <2>2. CASE m # l
    BY <2>2, <1>4 DEF YoungestSpared, RInv
  <2> QED BY <2>1, <2>2
<1>10. DumpsCovered'
  <2>1. loop[l].key # NoKey => Covered(loop[l].key, dumps)
    BY <1>0 DEF RInv, DumpsCovered
  <2> QED BY <2>1, <1>0, <1>3, <1>4, <1>6, WorkKeepsCover
<1> QED BY <1>5, <1>7, <1>8, <1>9, <1>10 DEF RInv

\* A prune deletes its list, or a part of it, or a failure.
LEMMA PruneStep ==
    ASSUME RInv, NEW l \in Loops, Prune(l)
    PROVE  RInv'
<1>0. /\ RunsTyped /\ loop[l].pc = "prune"
      /\ runs' = runs /\ today' = today /\ clock' = clock /\ runPlan' = runPlan
      /\ Done(l, TRUE) /\ loop[l].key \in Keys
  BY LoopFields DEF RInv, Prune
<1>1. PICK part \in SUBSET loop[l].victims : dumps' = dumps \ part
  BY DEF Prune
<1>2. /\ loop' \in [Loops -> LoopRows] /\ jobLock' \in Loops \cup {NoLoop}
      /\ \A m \in Loops : m # l => loop'[m] = loop[m]
      /\ loop'[l].pc = "record" /\ loop'[l].key = loop[l].key
      /\ loop'[l].run = loop[l].run /\ loop'[l].job = loop[l].job
      /\ loop'[l].lost = loop[l].lost /\ loop'[l].victims = loop[l].victims
      /\ jobLock' = jobLock \/ jobLock = l
  BY <1>0, DoneStep
<1>3. RunsTyped'
  BY <1>0, <1>1, <1>2 DEF RunsTyped
<1>4. GoesOn(l)
  BY <1>0, <1>2 DEF GoesOn, Jobs
<1>5. (RowsOwned /\ OneRunning /\ LockHeld)'
  BY <1>4, WorkKeepsLedger
<1>6. KeysFresh'
  BY <1>1, <1>2, <1>4, WorkKeepsKeys
<1>7. /\ YoungestSpared'
      /\ \A k \in Keys : Covered(k, dumps) => Covered(k, dumps')
  BY <1>1, <1>2, DeletionSpares
<1>8. DumpsCovered'
  <2>1. loop[l].key # NoKey => Covered(loop[l].key, dumps)
    BY <1>0 DEF RInv, DumpsCovered
  <2> QED BY <2>1, <1>0, <1>2, <1>4, <1>7, WorkKeepsCover
<1> QED BY <1>3, <1>5, <1>6, <1>7, <1>8 DEF RInv

\* A failure, with the object it may have left behind.
LEMMA WorkFailsStep ==
    ASSUME RInv, NEW l \in Loops, WorkFails(l)
    PROVE  RInv'
<1>0. /\ RunsTyped /\ loop[l].pc \in {"dump", "drill", "download"}
      /\ runs' = runs /\ today' = today /\ clock' = clock /\ runPlan' = runPlan
      /\ Done(l, FALSE) /\ loop[l].key \in Keys
      /\ dumps' = dumps \/ (loop[l].pc = "dump" /\ dumps' = dumps \cup {loop[l].key})
  BY LoopFields DEF RInv, WorkFails
<1>1. /\ loop' \in [Loops -> LoopRows] /\ jobLock' \in Loops \cup {NoLoop}
      /\ \A m \in Loops : m # l => loop'[m] = loop[m]
      /\ loop'[l].pc = "record" /\ loop'[l].key = NoKey
      /\ loop'[l].run = loop[l].run /\ loop'[l].job = loop[l].job
      /\ loop'[l].lost = loop[l].lost /\ loop'[l].victims = loop[l].victims
      /\ jobLock' = jobLock \/ jobLock = l
  BY <1>0, DoneStep
<1>2. RunsTyped'
  BY <1>0, <1>1 DEF RunsTyped
<1>3. GoesOn(l)
  BY <1>0, <1>1 DEF GoesOn, Jobs
<1>4. (RowsOwned /\ OneRunning /\ LockHeld)'
  BY <1>3, WorkKeepsLedger
<1>5. KeysFresh'
  BY <1>0, <1>1, <1>3, WorkKeepsKeys
<1>6. YoungestSpared'
  <2>1. CASE dumps' = dumps
    BY <2>1, <1>1 DEF YoungestSpared, Youngest, RInv
  <2>2. CASE loop[l].pc = "dump" /\ dumps' = dumps \cup {loop[l].key}
    BY <2>2, <1>1, GrownStoreSpares
  <2> QED BY <2>1, <2>2, <1>0
<1>7. DumpsCovered'
  <2>1. \A k \in Keys : Covered(k, dumps) => Covered(k, dumps')
    BY <1>0, CoveredGrows
  <2> QED BY <2>1, <1>1, <1>3, WorkKeepsCover
<1> QED BY <1>2, <1>4, <1>5, <1>6, <1>7 DEF RInv

\* Among the dumps recorded there is a latest.
LEMMA LatestDump ==
    ASSUME RInv, Dumped # {}
    PROVE  LatestSucceededDump \in Dumped
<1>0. RunsTyped /\ clock \in Nat /\ Dumped \subseteq DOMAIN runs
  BY DEF RInv, RunsTyped, Dumped, Is
<1>1. \A r \in DOMAIN runs : runs[r].started \in Nat /\ runs[r].started <= clock
  BY <1>0, RowFields DEF RInv, KeysFresh
<1> DEFINE T == {runs[r].started : r \in Dumped}
<1>2. T \in SUBSET Nat /\ T # {} /\ \A t \in T : t <= clock
  BY <1>0, <1>1
<1>3. PICK x \in T : \A y \in T : y <= x
  BY <1>0, <1>2, GreatestElement
<1>4. \E r \in Dumped : \A q \in Dumped : runs[q].started <= runs[r].started
  BY <1>3
<1> QED BY <1>4 DEF LatestSucceededDump

\* A drill picks its dump, or has none to pick.
LEMMA PickDumpStep ==
    ASSUME RInv, NEW l \in Loops, pickDump(l)
    PROVE  RInv'
<1>0. /\ RunsTyped /\ loop[l].pc = "drill" /\ loop[l] \in LoopRows /\ loop[l].key = NoKey
      /\ today' = today /\ clock' = clock /\ runPlan' = runPlan /\ dumps' = dumps
      /\ loop[l].run \in DOMAIN runs
  BY LoopFields DEF RInv, pickDump, DumpsCovered, RowsOwned, Jobs
<1> DEFINE OK ==
      /\ RunsTyped' /\ GoesOn(l)
      /\ loop'[l].pc # "dump" /\ loop'[l].victims = loop[l].victims
      /\ loop'[l].key = NoKey /\ loop'[l].pc \in {"record", "download"}
      /\ \A m \in Loops : m # l => loop'[m] = loop[m]
<1>1. ASSUME Dumped = {} PROVE OK
  <2>1. Done(l, FALSE) /\ runs' = runs
    BY <1>1 DEF pickDump
  <2>2. /\ loop' \in [Loops -> LoopRows] /\ jobLock' \in Loops \cup {NoLoop}
        /\ \A m \in Loops : m # l => loop'[m] = loop[m]
        /\ loop'[l].pc = "record" /\ loop'[l].key = NoKey
        /\ loop'[l].run = loop[l].run /\ loop'[l].job = loop[l].job
        /\ loop'[l].lost = loop[l].lost /\ loop'[l].victims = loop[l].victims
        /\ jobLock' = jobLock \/ jobLock = l
    BY <1>0, <2>1, DoneStep
  <2>3. RunsTyped'
    BY <1>0, <2>1, <2>2 DEF RunsTyped
  <2> QED BY <1>0, <2>1, <2>2, <2>3 DEF GoesOn, Jobs
<1>2. ASSUME Dumped # {} PROVE OK
  <2> DEFINE src == LatestSucceededDump
             n == [loop[l] EXCEPT !.pc = "download", !.src = src]
             q == loop[l].run
             R == [runs[q] EXCEPT !.drillOf = src]
  <2>1. src \in Nat
    BY <1>0, <1>2, LatestDump, RowFields DEF Dumped, Is
  <2>2. /\ loop' = [loop EXCEPT ![l] = n] /\ jobLock' = jobLock
        /\ runs' = runs \/ runs' = [runs EXCEPT ![q] = R]
    BY <1>0, <1>2 DEF pickDump, RunsTyped
  <2>3. /\ n \in LoopRows /\ n.pc = "download" /\ n.run = loop[l].run /\ n.job = loop[l].job
        /\ n.key = NoKey /\ n.lost = loop[l].lost /\ n.victims = loop[l].victims
    <3> HIDE DEF src
    <3> QED BY <1>0, <2>1 DEF LoopRows, Jobs
  <2>4. /\ R \in RunRows /\ R.job = runs[q].job /\ R.status = runs[q].status
        /\ R.started = runs[q].started /\ R.key = runs[q].key
    <3> HIDE DEF src
    <3>1. runs[q] \in RunRows
      BY <1>0, RowFields
    <3> QED BY <2>1, <3>1 DEF RunRows
  <2> HIDE DEF n, R, src
  <2>5. /\ loop' \in [Loops -> LoopRows] /\ loop'[l] = n
        /\ \A m \in Loops : m # l => loop'[m] = loop[m]
    BY <1>0, <2>2, <2>3, LoopSet
  <2>6. /\ runs' \in Seq(RunRows) /\ DOMAIN runs' = DOMAIN runs
        /\ \A r \in DOMAIN runs : runs'[r] = runs[r] \/ (r = q /\ runs'[r] = R)
    BY <1>0, <2>2, <2>4 DEF RunsTyped
  <2>7. RunsTyped'
    BY <1>0, <2>2, <2>5, <2>6 DEF RunsTyped
  <2>8. GoesOn(l)
    BY <1>0, <2>2, <2>3, <2>4, <2>5, <2>6 DEF GoesOn, Jobs
  <2> QED BY <2>3, <2>5, <2>7, <2>8
<1>3. OK
  BY <1>1, <1>2
<1>4. (RowsOwned /\ OneRunning /\ LockHeld)'
  BY <1>3, WorkKeepsLedger
<1>5. KeysFresh'
  BY <1>0, <1>3, WorkKeepsKeys
<1>6. YoungestSpared'
  BY <1>0, <1>3 DEF YoungestSpared, Youngest, RInv
<1>7. DumpsCovered'
  BY <1>0, <1>3, WorkKeepsCover
<1> QED BY <1>3, <1>4, <1>5, <1>6, <1>7 DEF RInv

\* A drill ends with the verdict its dump deserves.
LEMMA PrepareDumpStep ==
    ASSUME RInv, NEW l \in Loops, prepareDump(l)
    PROVE  RInv'
<1> DEFINE ok == runs[loop[l].src].key \in dumps
<1>0. /\ RunsTyped /\ loop[l].pc = "download" /\ loop[l].key = NoKey
      /\ runs' = runs /\ today' = today /\ clock' = clock /\ runPlan' = runPlan
      /\ dumps' = dumps /\ Done(l, ok) /\ ok \in BOOLEAN
  BY DEF RInv, prepareDump, DumpsCovered
<1> HIDE DEF ok
<1>1. /\ loop' \in [Loops -> LoopRows] /\ jobLock' \in Loops \cup {NoLoop}
      /\ \A m \in Loops : m # l => loop'[m] = loop[m]
      /\ loop'[l].pc = "record" /\ loop'[l].key = NoKey
      /\ loop'[l].run = loop[l].run /\ loop'[l].job = loop[l].job
      /\ loop'[l].lost = loop[l].lost /\ loop'[l].victims = loop[l].victims
      /\ jobLock' = jobLock \/ jobLock = l
  BY <1>0, DoneStep
<1>2. RunsTyped'
  BY <1>0, <1>1 DEF RunsTyped
<1>3. GoesOn(l)
  BY <1>0, <1>1 DEF GoesOn, Jobs
<1>4. (RowsOwned /\ OneRunning /\ LockHeld)'
  BY <1>3, WorkKeepsLedger
<1>5. KeysFresh'
  BY <1>0, <1>1, <1>3, WorkKeepsKeys
<1>6. YoungestSpared'
  BY <1>0, <1>1 DEF YoungestSpared, Youngest, RInv
<1>7. DumpsCovered'
  BY <1>0, <1>1, <1>3, WorkKeepsCover
<1> QED BY <1>2, <1>4, <1>5, <1>6, <1>7 DEF RInv

-------------------------------------------------------------------------------
(***************************************************************************)
(* The theorems.                                                           *)
(***************************************************************************)

\* The invariant holds at the start.
LEMMA RunsStart == RunsInit => RInv
<1> SUFFICES ASSUME RunsInit PROVE RInv
  OBVIOUS
<1>0. /\ runs = <<>> /\ DOMAIN runs = {} /\ dumps = {} /\ today = 1 /\ clock = 0
      /\ \A l \in Loops : loop[l] = IdleLoop
      /\ IdleLoop.pc = "idle" /\ IdleLoop.run = 0 /\ IdleLoop.key = <<0, 0>>
      /\ IdleLoop.victims = {} /\ "idle" \notin {"lock", "begin", "record"} \cup Jobs
  BY DEF RunsInit, IdleLoop, NoKey, Jobs
<1>1. RunsTyped
  BY <1>0, IdleTyped DEF RunsInit, RunsTyped
<1>2. RowsOwned /\ OneRunning /\ LockHeld
  BY <1>0 DEF RowsOwned, OneRunning, LockHeld
<1>3. KeysFresh
  BY <1>0 DEF KeysFresh
<1>4. YoungestSpared /\ DumpsCovered
  <2>1. "idle" \notin {"drill", "download", "list", "prune", "record"}
    OBVIOUS
  <2> QED BY <1>0, <2>1 DEF YoungestSpared, DumpsCovered
<1> QED BY <1>1, <1>2, <1>3, <1>4 DEF RInv

\* Every step preserves it.
LEMMA RunsStep == RInv /\ [RunsNext]_runsVars => RInv'
<1> SUFFICES ASSUME RInv, [RunsNext]_runsVars PROVE RInv'
  OBVIOUS
<1>0. Serving \subseteq Loops
  BY PlanTyped DEF RInv
<1>1. CASE NextDay \/ UNCHANGED runsVars
  BY <1>1, EnvironmentSteps
<1>2. CASE \E j \in runPlan.asks : RequestScan(j) \/ Request(j)
  BY <1>2, LedgerSteps
<1>3. CASE \E r \in DOMAIN runs : ExpireStale(r)
  BY <1>3, LedgerSteps
<1>4. ASSUME NEW l \in Serving, Execute(l)
      PROVE  RInv'
  <2>0. l \in Loops
    BY <1>0
  <2>1. CASE Fire(l)
    BY <2>1, FireStep
  <2>2. CASE \E j \in runPlan.asks : ClaimRequested(l, j)
    BY <2>2, ClaimStep
  <2>3. CASE acquireJobLock(l)
    BY <2>0, <2>3, AcquireStep
  <2>4. CASE LockBusy(l) \/ recordOutcome(l)
    BY <2>0, <2>4, OutcomeSteps
  <2>5. CASE Begin(l)
    BY <2>0, <2>5, BeginStep
  <2>6. CASE Dump(l)
    BY <2>0, <2>6, DumpStep
  <2>7. CASE List(l)
    BY <2>0, <2>7, ListStep
  <2>8. CASE Prune(l)
    BY <2>0, <2>8, PruneStep
  <2>9. CASE pickDump(l)
    BY <2>0, <2>9, PickDumpStep
  <2>10. CASE prepareDump(l)
    BY <2>0, <2>10, PrepareDumpStep
  <2> QED BY <1>4, <2>1, <2>2, <2>3, <2>4, <2>5, <2>6, <2>7, <2>8, <2>9, <2>10 DEF Execute
<1>5. ASSUME NEW l \in Serving,
             \/ LockError(l) \/ WorkFails(l) \/ RecordUnanswered(l) \/ RecordGivesUp(l)
             \/ LoseLock(l)
      PROVE  RInv'
  <2>0. l \in Loops
    BY <1>0
  <2>1. CASE LockError(l) \/ RecordUnanswered(l) \/ RecordGivesUp(l)
    BY <2>0, <2>1, OutcomeSteps
  <2>2. CASE WorkFails(l)
    BY <2>0, <2>2, WorkFailsStep
  <2>3. CASE LoseLock(l)
    BY <2>0, <2>3, EnvironmentSteps
  <2> QED BY <1>5, <2>1, <2>2, <2>3
<1>6. CASE \E a \in {AgentOf[l] : l \in Serving} : Crash(a)
  BY <1>6, CrashStep
<1> QED BY <1>1, <1>2, <1>3, <1>4, <1>5, <1>6 DEF RunsNext

\* What the run checks follows: two loops at work on a job have two rows of it, of which one is
\* not running, and one of the two is not the holder of the lock; what is recorded is covered.
LEMMA RunsSoundFollows == RInv => RunsSound
<1> SUFFICES ASSUME RInv PROVE RunsSound
  OBVIOUS
<1>0. Serving \subseteq Loops
  BY PlanTyped DEF RInv
<1>1. SameJobAlone
  <2> SUFFICES ASSUME NEW l \in Serving, NEW m \in Serving, l # m, Working(l), Working(m),
                      loop[l].job = loop[m].job
               PROVE  /\ loop[l].lost \/ loop[m].lost
                      /\ \E x \in {l, m} : runs[loop[x].run].status # "running"
    BY DEF SameJobAlone
  <2>1. l \in Loops /\ m \in Loops /\ loop[l].pc \in Jobs /\ loop[m].pc \in Jobs
    BY <1>0 DEF Working, Jobs
  <2>2. loop[l].lost \/ loop[m].lost
    BY <2>1 DEF LockHeld, RInv
  <2>3. /\ loop[l].run # loop[m].run
        /\ loop[l].run \in DOMAIN runs /\ runs[loop[l].run].job = loop[l].job
        /\ loop[m].run \in DOMAIN runs /\ runs[loop[m].run].job = loop[m].job
    BY <2>1 DEF RowsOwned, RInv
  <2>4. \E x \in {l, m} : runs[loop[x].run].status # "running"
    BY <2>3 DEF OneRunning, RInv
  <2> QED BY <2>2, <2>4
<1>2. FreshestKept
  BY DEF FreshestKept, Dumped, Is, Covered, DumpsCovered, RInv
<1> QED BY <1>1, <1>2 DEF RunsSound

\* Retention and the two locks, for any number of agents, faults and days: two loops work on the
\* same job only if one lost its lock and a row was expired, and the store holds every dump
\* recorded as succeeded or a younger one (lock.go, retention.go, repository.go).
THEOREM RunsSafety == RunsSpec => []RunsSound
<1>1. RunsInit => RInv
  BY RunsStart
<1>2. RInv /\ [RunsNext]_runsVars => RInv'
  BY RunsStep
<1>3. RInv => RunsSound
  BY RunsSoundFollows
<1> QED BY <1>1, <1>2, <1>3, PTL DEF RunsSpec

\* The step that VerdictFinal asks for.
VerdictStays ==
    \A r \in DOMAIN runs : runs[r].status \in {"succeeded", "failed"} =>
        runs'[r].status = runs[r].status /\ runs'[r].key = runs[r].key

\* No step changes a verdict.
LEMMA VerdictStep == RInv /\ [RunsNext]_runsVars => VerdictStays
<1> SUFFICES ASSUME RInv, [RunsNext]_runsVars PROVE VerdictStays
  OBVIOUS
<1>0. RunsTyped /\ RowsOwned /\ Serving \subseteq Loops
  BY PlanTyped DEF RInv
<1>1. CASE runs' = runs
  BY <1>1 DEF VerdictStays
<1>2. ASSUME NEW j \in runPlan.asks, Request(j)
      PROVE  VerdictStays
  <2>1. \A r \in DOMAIN runs : runs'[r] = runs[r]
    BY <1>0, <1>2 DEF Request, RunsTyped
  <2> QED BY <2>1 DEF VerdictStays
<1>3. ASSUME NEW q \in DOMAIN runs, ExpireStale(q)
      PROVE  VerdictStays
  <2>1. \A r \in DOMAIN runs : r # q => runs'[r] = runs[r]
    BY <1>0, <1>3 DEF ExpireStale, RunsTyped
  <2>2. runs[q].status = "running"
    BY <1>3 DEF ExpireStale
  <2> QED BY <2>1, <2>2 DEF VerdictStays
<1>4. ASSUME NEW l \in Serving, NEW j \in runPlan.asks, ClaimRequested(l, j)
      PROVE  VerdictStays
  <2> DEFINE q == Min(Is(j, {"requested"}))
  <2>1. runs[q].status = "requested"
    BY <1>0, <1>4, OldestRequest DEF ClaimRequested
  <2> HIDE DEF q
  <2>2. runs' = [runs EXCEPT ![q].status = "running", ![q].started = clock + 1,
                             ![q].claim = AgentOf[l]]
    BY <1>4 DEF ClaimRequested, q
  <2>3. \A r \in DOMAIN runs : r # q => runs'[r] = runs[r]
    BY <2>2, <1>0 DEF RunsTyped
  <2> QED BY <2>1, <2>3 DEF VerdictStays
<1>5. ASSUME NEW l \in Loops, loop[l].run # 0, NEW s \in {"succeeded", "failed"},
             runs' = Finish(l, s)
      PROVE  VerdictStays
  BY <1>5, FinishStep DEF VerdictStays
<1>6. ASSUME NEW l \in Loops, recordOutcome(l) \/ RecordUnanswered(l)
      PROVE  VerdictStays
  <2>1. /\ loop[l].pc = "record"
        /\ runs' = Finish(l, IF loop[l].ok THEN "succeeded" ELSE "failed")
    BY <1>6 DEF recordOutcome, RecordUnanswered
  <2>2. loop[l].run # 0
    BY <1>0, <2>1 DEF RowsOwned
  <2>3. CASE loop[l].ok
    BY <2>1, <2>2, <2>3, <1>5
  <2>4. CASE ~loop[l].ok
    BY <2>1, <2>2, <2>4, <1>5
  <2> QED BY <2>3, <2>4
<1>7. ASSUME NEW l \in Loops, LockBusy(l)
      PROVE  VerdictStays
  BY <1>1, <1>5, <1>7 DEF LockBusy
<1>8. ASSUME NEW l \in Loops, Begin(l)
      PROVE  VerdictStays
  <2>1. \A r \in DOMAIN runs : runs'[r] = runs[r]
    BY <1>0, <1>8 DEF Begin, RunsTyped
  <2> QED BY <2>1 DEF VerdictStays
<1>9. ASSUME NEW l \in Loops, pickDump(l)
      PROVE  VerdictStays
  <2> DEFINE q == loop[l].run
  <2>1. \/ runs' = runs
        \/ q \in DOMAIN runs /\ runs' = [runs EXCEPT ![q].drillOf = LatestSucceededDump]
    BY <1>0, <1>9 DEF pickDump, RowsOwned, Jobs
  <2>2. q \in DOMAIN runs => runs[q] \in RunRows
    BY <1>0, RowFields
  <2> HIDE DEF q
  <2>3. CASE q \in DOMAIN runs /\ runs' = [runs EXCEPT ![q].drillOf = LatestSucceededDump]
    <3>1. runs' = [runs EXCEPT ![q] = [runs[q] EXCEPT !.drillOf = LatestSucceededDump]]
      BY <2>3, <1>0 DEF RunsTyped
    <3>2. LET R == [runs[q] EXCEPT !.drillOf = LatestSucceededDump]
          IN  R.status = runs[q].status /\ R.key = runs[q].key
      BY <2>2, <2>3 DEF RunRows
    <3> QED BY <3>1, <3>2, <1>0 DEF RunsTyped, VerdictStays
  <2> QED BY <1>1, <2>1, <2>3
<1>10. ASSUME NEW a, Crash(a)
       PROVE  VerdictStays
  <2> SUFFICES ASSUME NEW r \in DOMAIN runs
               PROVE  runs'[r].status = runs[r].status /\ runs'[r].key = runs[r].key
    BY DEF VerdictStays
  <2>1. runs[r] \in RunRows
    BY <1>0, RowFields
  <2>2. runs'[r] = runs[r] \/ runs'[r] = [runs[r] EXCEPT !.claim = "dead"]
    BY <1>10 DEF Crash
  <2> QED BY <2>1, <2>2 DEF RunRows
<1>11. CASE UNCHANGED runsVars \/ NextDay \/ \E j \in runPlan.asks : RequestScan(j)
  BY <1>1, <1>11 DEF runsVars, NextDay, RequestScan
<1>12. ASSUME NEW l \in Serving, Execute(l)
       PROVE  VerdictStays
  <2>1. CASE \/ Fire(l) \/ acquireJobLock(l) \/ Dump(l) \/ List(l) \/ Prune(l) \/ prepareDump(l)
    BY <1>1, <2>1 DEF Fire, acquireJobLock, Dump, List, Prune, prepareDump
  <2> QED BY <1>0, <1>4, <1>6, <1>7, <1>8, <1>9, <1>12, <2>1 DEF Execute
<1>13. ASSUME NEW l \in Serving,
              \/ LockError(l) \/ WorkFails(l) \/ RecordUnanswered(l) \/ RecordGivesUp(l)
              \/ LoseLock(l)
       PROVE  VerdictStays
  <2>1. CASE LockError(l) \/ WorkFails(l) \/ RecordGivesUp(l) \/ LoseLock(l)
    BY <1>1, <2>1 DEF LockError, WorkFails, RecordGivesUp, LoseLock
  <2> QED BY <1>0, <1>6, <1>13, <2>1
<1> QED BY <1>2, <1>3, <1>10, <1>11, <1>12, <1>13 DEF RunsNext

\* A verdict is final: neither a late outcome, nor a retried or unanswered write, nor the
\* janitor, nor a crash, nor a drill that picks its dump changes a finished row's status or key.
THEOREM VerdictsStand == RunsSpec => VerdictFinal
<1>1. RunsInit => RInv
  BY RunsStart
<1>2. RInv /\ [RunsNext]_runsVars => RInv'
  BY RunsStep
<1>3. RInv /\ [RunsNext]_runsVars => VerdictStays
  BY VerdictStep
<1> QED BY <1>1, <1>2, <1>3, PTL DEF RunsSpec, VerdictFinal, VerdictStays

-------------------------------------------------------------------------------
(***************************************************************************)
(* The copies: what a succeeded pass promises, and the archives that       *)
(* pruning leaves.                                                         *)
(***************************************************************************)

Passing == {"probe", "list", "diff", "copy"}

\* The stamps: an object was written at its true time, which the store stamped with its own clock.
StampsTyped ==
    /\ copyPlan \in CopyScenarios /\ time \in Nat
    /\ \A k \in DOMAIN source : /\ source[k].at \in Nat \ {0} /\ source[k].at <= time
                                /\ source[k].mod = source[k].at + copyPlan.skew
    /\ mirrored = NeverRan \/ (mirrored \in Nat /\ mirrored <= time)

\* A pass began after the last one that succeeded, and its mark lies the overlap before that.
PassMarked ==
    /\ pass = [pc |-> pass.pc, began |-> pass.began, mark |-> pass.mark, list |-> pass.list,
               delta |-> pass.delta, held |-> pass.held, cut |-> pass.cut]
    /\ pass.pc \in Passing \cup {"idle"}
    /\ pass.pc \in Passing => pass.began \in Nat /\ pass.began <= time /\ mirrored <= pass.began
    /\ pass.pc \in {"list", "diff"} => pass.mark = mirrorWatermark
    /\ DOMAIN pass.held \subseteq pass.delta
    /\ pass.pc # "copy" => DOMAIN pass.held = {}

\* What was there when the pass began and has not changed is in the listing under its stamp ...
ListedInTime ==
    pass.pc = "diff" =>
        \A k \in DOMAIN source : source[k].at <= pass.began =>
            k \in DOMAIN pass.list /\ pass.list[k] = source[k].mod

\* ... and then either waits for its copy, is being copied as it is, or is in the mirror already.
CopiedInTime ==
    pass.pc = "copy" =>
        \A k \in DOMAIN source : source[k].at <= pass.began =>
            \/ k \in pass.delta /\ (k \in DOMAIN pass.held => pass.held[k] = source[k].ver)
            \/ k \notin pass.delta /\ k \in DOMAIN mirror /\ mirror[k] = source[k].ver

\* Archives have times that have been, and every user once archived keeps one as young.
ZipsTyped ==
    /\ DOMAIN zips = Users /\ \A u \in Users : zips[u] \subseteq 0..time
    /\ "newest" \in DOMAIN zipRun /\ DOMAIN zipRun.newest \subseteq Users
    /\ \A u \in DOMAIN zipRun.newest : zipRun.newest[u] \in Nat

CInv ==
    /\ StampsTyped /\ PassMarked /\ ListedInTime /\ CopiedInTime /\ ZipsTyped
    /\ MirrorCaughtUp /\ ArchiveKept

LEMMA CopiesStart == CopyInit => CInv
<1> SUFFICES ASSUME CopyInit PROVE CInv
  OBVIOUS
<1>1. DOMAIN source = {} /\ DOMAIN NoPass.held = {} /\ NoPass.pc = "idle"
  BY DEF CopyInit, NoPass
<1>2. StampsTyped /\ MirrorCaughtUp /\ ListedInTime /\ CopiedInTime
  BY <1>1 DEF CopyInit, StampsTyped, MirrorCaughtUp, ListedInTime, CopiedInTime
<1>3. PassMarked
  BY <1>1 DEF CopyInit, PassMarked, NoPass, Passing
<1>4. ZipsTyped /\ ArchiveKept
  <2>1. DOMAIN zipRun.newest = {} /\ "newest" \in DOMAIN zipRun
    BY DEF CopyInit, NoZipRun
  <2> QED BY <2>1 DEF CopyInit, ZipsTyped, ArchiveKept
<1> QED BY <1>2, <1>3, <1>4 DEF CInv

\* The skew of a scenario is a number within the overlap.
LEMMA SkewBounded ==
    ASSUME StampsTyped
    PROVE  Overlap \in Nat /\ copyPlan.skew \in Int /\ -Overlap <= copyPlan.skew
           /\ copyPlan.skew <= Overlap
BY CopiesAssumption DEF StampsTyped

\* What the steps of a pass and of a user leave alone of the archives.
LEMMA ZipsUntouched ==
    ASSUME ZipsTyped, ArchiveKept, time \in Nat, time' \in Nat, time <= time', UNCHANGED <<zips, zipRun>>
    PROVE  ZipsTyped' /\ ArchiveKept'
BY DEF ZipsTyped, ArchiveKept

\* An object is written: from now on it is younger than the pass.
LEMMA WrittenStep ==
    ASSUME CInv, NEW k \in Objects, ObjectWritten(k)
    PROVE  CInv'
<1>0. /\ StampsTyped /\ PassMarked /\ ListedInTime /\ CopiedInTime /\ MirrorCaughtUp
      /\ time' = time + 1 /\ time \in Nat
      /\ copyPlan' = copyPlan /\ mirror' = mirror /\ mirrored' = mirrored /\ pass' = pass
      /\ DOMAIN source' = DOMAIN source \cup {k}
      /\ \A j \in DOMAIN source : j # k => source'[j] = source[j]
      /\ source'[k].at = time + 1 /\ source'[k].mod = time + 1 + copyPlan.skew
  BY DEF ObjectWritten, CInv, StampsTyped
<1>1. ZipsTyped' /\ ArchiveKept'
  BY <1>0, ZipsUntouched DEF CInv, ObjectWritten
<1>2. mirrored <= time /\ mirrored \in Int
  BY <1>0, CopiesAssumption DEF StampsTyped, NeverRan
<1>3. StampsTyped'
  BY <1>0 DEF StampsTyped, NeverRan
<1>4. MirrorCaughtUp'
  BY <1>0, <1>2 DEF MirrorCaughtUp
<1>5. PassMarked'
  BY <1>0, <1>2 DEF PassMarked, Passing, mirrorWatermark, NeverRan
<1>6. ListedInTime' /\ CopiedInTime'
  BY <1>0 DEF PassMarked, ListedInTime, CopiedInTime, Passing
<1> QED BY <1>1, <1>3, <1>4, <1>5, <1>6 DEF CInv

\* An object goes away.
LEMMA RemovedStep ==
    ASSUME CInv, NEW k \in Objects, ObjectRemoved(k)
    PROVE  CInv'
<1>0. /\ StampsTyped /\ PassMarked /\ ListedInTime /\ CopiedInTime /\ MirrorCaughtUp
      /\ time' = time /\ time \in Nat
      /\ copyPlan' = copyPlan /\ mirror' = mirror /\ mirrored' = mirrored /\ pass' = pass
      /\ DOMAIN source' \subseteq DOMAIN source
      /\ \A j \in DOMAIN source' : source'[j] = source[j]
  BY DEF ObjectRemoved, Passes, CInv, StampsTyped, Restrict
<1>1. ZipsTyped' /\ ArchiveKept'
  BY <1>0, ZipsUntouched DEF CInv, ObjectRemoved, Passes
<1>2. StampsTyped' /\ MirrorCaughtUp' /\ ListedInTime' /\ CopiedInTime'
  BY <1>0 DEF StampsTyped, MirrorCaughtUp, ListedInTime, CopiedInTime, NeverRan
<1>3. PassMarked'
  BY <1>0 DEF PassMarked, Passing, mirrorWatermark, NeverRan
<1> QED BY <1>1, <1>2, <1>3 DEF CInv

\* A pass ends, well or badly: only one that copied everything moves the promise.
LEMMA PassEnds ==
    ASSUME CInv, NEW ok \in BOOLEAN, EndPass(ok), UNCHANGED <<source, mirror>>, pass.pc \in Passing,
           ok => pass.pc = "copy" /\ pass.delta = {}
    PROVE  CInv'
<1>0. /\ StampsTyped /\ PassMarked /\ CopiedInTime /\ MirrorCaughtUp
      /\ time' = time /\ time \in Nat
      /\ copyPlan' = copyPlan /\ mirror' = mirror /\ source' = source
      /\ pass' = NoPass /\ pass'.pc = "idle" /\ DOMAIN pass'.held = {}
  BY DEF EndPass, CInv, StampsTyped, NoPass
<1>1. ZipsTyped' /\ ArchiveKept'
  BY <1>0, ZipsUntouched DEF CInv, EndPass
<1>2. mirrored' = IF ok THEN pass.began ELSE mirrored
  BY DEF EndPass
<1>3. StampsTyped'
  BY <1>0, <1>2 DEF StampsTyped, NeverRan, PassMarked
<1>4. MirrorCaughtUp'
  <2>1. CASE ok
    BY <1>0, <1>2, <2>1 DEF MirrorCaughtUp, CopiedInTime
  <2>2. CASE ~ok
    BY <1>0, <1>2, <2>2 DEF MirrorCaughtUp
  <2> QED BY <2>1, <2>2
<1>5. PassMarked'
  BY <1>0 DEF PassMarked, Passing, NoPass
<1>6. ListedInTime' /\ CopiedInTime'
  BY <1>0 DEF ListedInTime, CopiedInTime
<1> QED BY <1>1, <1>3, <1>4, <1>5, <1>6 DEF CInv

\* What a pass does between its beginning and its end leaves the source and the promise alone.
LEMMA PassGoesOn ==
    ASSUME CInv, Passes, source' = source,
           PassMarked', ListedInTime', CopiedInTime', MirrorCaughtUp'
    PROVE  CInv'
<1>1. ZipsTyped' /\ ArchiveKept'
  BY ZipsUntouched DEF CInv, Passes, StampsTyped
<1>2. StampsTyped'
  BY DEF CInv, StampsTyped, NeverRan, Passes
<1> QED BY <1>1, <1>2 DEF CInv

\* A pass begins.
LEMMA PassBegins ==
    ASSUME CInv, StartPass
    PROVE  CInv'
<1>0. /\ StampsTyped /\ MirrorCaughtUp
      /\ time' = time + 1 /\ time \in Nat
      /\ copyPlan' = copyPlan /\ mirror' = mirror /\ source' = source /\ mirrored' = mirrored
      /\ pass' = [NoPass EXCEPT !.pc = "probe", !.began = time + 1]
  BY DEF StartPass, CInv, StampsTyped
<1>1. ZipsTyped' /\ ArchiveKept'
  BY <1>0, ZipsUntouched DEF CInv, StartPass
<1>2. mirrored <= time /\ mirrored \in Int
  BY <1>0, CopiesAssumption DEF StampsTyped, NeverRan
<1>3. pass' = [pc |-> "probe", began |-> time + 1, mark |-> 0, list |-> <<>>, delta |-> {},
               held |-> <<>>, cut |-> FALSE]
  BY <1>0 DEF NoPass
<1>4. StampsTyped' /\ MirrorCaughtUp'
  BY <1>0 DEF StampsTyped, MirrorCaughtUp, NeverRan
<1>5. /\ pass'.pc = "probe" /\ pass'.began = time + 1 /\ DOMAIN pass'.held = {}
      /\ pass' = [pc |-> pass'.pc, began |-> pass'.began, mark |-> pass'.mark, list |-> pass'.list,
                  delta |-> pass'.delta, held |-> pass'.held, cut |-> pass'.cut]
  BY <1>3
<1>6. PassMarked' /\ ListedInTime' /\ CopiedInTime'
  BY <1>0, <1>2, <1>5 DEF PassMarked, Passing, ListedInTime, CopiedInTime
<1> QED BY <1>1, <1>4, <1>6 DEF CInv

\* Past the restore, or given up.
LEMMA ProbeStep ==
    ASSUME CInv, waitRestoreClear
    PROVE  CInv'
<1>1. CASE ~restoring /\ UNCHANGED <<source, mirror, copyFaults>> /\ Passes
           /\ pass' = [pass EXCEPT !.pc = "list", !.mark = mirrorWatermark]
  <2>1. pass.pc = "probe" /\ PassMarked /\ MirrorCaughtUp
    BY DEF waitRestoreClear, CInv
  <2>2. /\ pass'.pc = "list" /\ pass'.mark = mirrorWatermark /\ pass'.began = pass.began
        /\ pass'.held = pass.held /\ pass'.delta = pass.delta
        /\ pass' = [pc |-> pass'.pc, began |-> pass'.began, mark |-> pass'.mark, list |-> pass'.list,
                    delta |-> pass'.delta, held |-> pass'.held, cut |-> pass'.cut]
    BY <1>1, <2>1 DEF PassMarked
  <2>3. /\ time' = time /\ mirrored' = mirrored /\ source' = source /\ mirror' = mirror
        /\ mirrorWatermark' = mirrorWatermark
    BY <1>1 DEF Passes, mirrorWatermark, NeverRan
  <2>4. PassMarked'
    BY <2>1, <2>2, <2>3 DEF PassMarked, Passing
  <2>5. ListedInTime' /\ CopiedInTime' /\ MirrorCaughtUp'
    BY <2>1, <2>2, <2>3 DEF ListedInTime, CopiedInTime, MirrorCaughtUp
  <2> QED BY <1>1, <2>4, <2>5, PassGoesOn
<1>2. CASE restoring /\ EndPass(FALSE) /\ UNCHANGED <<source, mirror, copyFaults>>
  BY <1>2, PassEnds DEF waitRestoreClear, Passing
<1> QED BY <1>1, <1>2 DEF waitRestoreClear

\* The listing is taken after the pass began, so what was there then is in it.
LEMMA ListStepMirror ==
    ASSUME CInv, ListSource
    PROVE  CInv'
<1>1. pass.pc = "list" /\ PassMarked /\ MirrorCaughtUp /\ Passes /\ source' = source /\ mirror' = mirror
  BY DEF ListSource, CInv
<1>2. /\ pass'.pc = "diff" /\ pass'.mark = pass.mark /\ pass'.began = pass.began
      /\ pass'.held = pass.held /\ pass'.delta = pass.delta
      /\ pass'.list = [k \in DOMAIN source |-> source[k].mod]
      /\ pass' = [pc |-> pass'.pc, began |-> pass'.began, mark |-> pass'.mark, list |-> pass'.list,
                  delta |-> pass'.delta, held |-> pass'.held, cut |-> pass'.cut]
  BY <1>1 DEF PassMarked, ListSource
<1>3. time' = time /\ mirrored' = mirrored /\ mirrorWatermark' = mirrorWatermark
  BY <1>1 DEF Passes, mirrorWatermark, NeverRan
<1>4. PassMarked'
  BY <1>1, <1>2, <1>3 DEF PassMarked, Passing
<1>5. ListedInTime' /\ CopiedInTime' /\ MirrorCaughtUp'
  BY <1>1, <1>2, <1>3 DEF ListedInTime, CopiedInTime, MirrorCaughtUp
<1> QED BY <1>1, <1>4, <1>5, PassGoesOn

\* The delta: what it leaves out was stamped before the mark, hence written before the last pass
\* that succeeded began, for the clocks differ by the overlap at most.
LEMMA DeltaStep ==
    ASSUME CInv, ListDestination
    PROVE  CInv'
<1>1. /\ pass.pc = "diff" /\ PassMarked /\ MirrorCaughtUp /\ ListedInTime /\ StampsTyped
      /\ Passes /\ source' = source /\ mirror' = mirror
  BY DEF ListDestination, CInv
<1>2. /\ pass'.pc = "copy" /\ pass'.began = pass.began /\ pass'.delta = mirrorDelta
      /\ pass'.held = pass.held
      /\ pass' = [pc |-> pass'.pc, began |-> pass'.began, mark |-> pass'.mark, list |-> pass'.list,
                  delta |-> pass'.delta, held |-> pass'.held, cut |-> pass'.cut]
  BY <1>1 DEF PassMarked, ListDestination
<1>3. time' = time /\ mirrored' = mirrored
  BY <1>1 DEF Passes
<1>4. ASSUME NEW k \in DOMAIN source, source[k].at <= pass.began, k \notin mirrorDelta
      PROVE  k \in DOMAIN mirror /\ mirror[k] = source[k].ver
  <2>1. k \in DOMAIN pass.list /\ pass.list[k] = source[k].mod
    BY <1>1, <1>4 DEF ListedInTime
  <2>2. k \in DOMAIN mirror /\ ~(source[k].mod >= mirrorWatermark)
    BY <1>1, <1>4, <2>1 DEF mirrorDelta, PassMarked
  <2>3. /\ source[k].mod = source[k].at + copyPlan.skew /\ source[k].at \in Nat
        /\ copyPlan.skew \in Int /\ -Overlap <= copyPlan.skew /\ Overlap \in Nat
    BY <1>1, SkewBounded DEF StampsTyped
  <2>4. mirrored # NeverRan
    BY <2>2, <2>3 DEF mirrorWatermark, NeverRan
  <2>5. source[k].at <= mirrored
    BY <1>1, <2>2, <2>3, <2>4 DEF mirrorWatermark, StampsTyped
  <2> QED BY <1>1, <2>5 DEF MirrorCaughtUp
<1>5. PassMarked'
  BY <1>1, <1>2, <1>3 DEF PassMarked, Passing
<1>6. ListedInTime' /\ CopiedInTime' /\ MirrorCaughtUp'
  BY <1>1, <1>2, <1>3, <1>4 DEF PassMarked, ListedInTime, CopiedInTime, MirrorCaughtUp
<1> QED BY <1>1, <1>5, <1>6, PassGoesOn

\* A worker opens an object as it is, or finds it gone.
LEMMA OpenStep ==
    ASSUME CInv, NEW k \in Objects, OpenSource(k)
    PROVE  CInv'
<1>1. /\ pass.pc = "copy" /\ PassMarked /\ MirrorCaughtUp /\ CopiedInTime /\ k \in pass.delta
      /\ Passes /\ source' = source /\ mirror' = mirror /\ time' = time /\ mirrored' = mirrored
  BY DEF OpenSource, CInv, Passes
<1>2. /\ pass'.pc = "copy" /\ pass'.began = pass.began /\ pass'.delta = pass.delta
      /\ pass' = [pc |-> pass'.pc, began |-> pass'.began, mark |-> pass'.mark, list |-> pass'.list,
                  delta |-> pass'.delta, held |-> pass'.held, cut |-> pass'.cut]
  BY <1>1 DEF PassMarked, OpenSource
<1>3. /\ DOMAIN pass'.held \subseteq DOMAIN pass.held \cup {k}
      /\ \A j \in DOMAIN pass'.held : j # k => pass'.held[j] = pass.held[j]
      /\ k \in DOMAIN pass'.held => k \in DOMAIN source /\ pass'.held[k] = source[k].ver
  <2>1. CASE k \in DOMAIN source
    <3>1. pass'.held = [j \in DOMAIN pass.held \cup {k} |->
                          IF j = k THEN source[k].ver ELSE pass.held[j]]
      BY <1>1, <2>1 DEF PassMarked, OpenSource
    <3> QED BY <2>1, <3>1
  <2>2. CASE k \notin DOMAIN source
    <3>1. pass'.held = pass.held
      BY <1>1, <2>2 DEF PassMarked, OpenSource
    <3>2. k \notin DOMAIN pass.held
      BY DEF OpenSource
    <3> QED BY <3>1, <3>2
  <2> QED BY <2>1, <2>2
<1>4. PassMarked'
  BY <1>1, <1>2, <1>3 DEF PassMarked, Passing
<1>5. CopiedInTime'
  BY <1>1, <1>2, <1>3 DEF CopiedInTime
<1>6. ListedInTime' /\ MirrorCaughtUp'
  BY <1>1, <1>2 DEF ListedInTime, MirrorCaughtUp
<1> QED BY <1>1, <1>4, <1>5, <1>6, PassGoesOn

\* A copy is stored: of the object as it was opened, which is as it is unless it was written since.
LEMMA CopyStep ==
    ASSUME CInv, NEW k \in Objects, copyOne(k)
    PROVE  CInv'
<1>1. /\ pass.pc = "copy" /\ PassMarked /\ MirrorCaughtUp /\ CopiedInTime /\ StampsTyped
      /\ k \in DOMAIN pass.held /\ k \in pass.delta
      /\ Passes /\ source' = source /\ time' = time /\ mirrored' = mirrored
      /\ DOMAIN mirror' = DOMAIN mirror \cup {k} /\ mirror'[k] = pass.held[k]
      /\ \A j \in DOMAIN mirror : j # k => mirror'[j] = mirror[j]
  BY DEF copyOne, CInv, Passes, PassMarked
<1>2. /\ pass'.pc = "copy" /\ pass'.began = pass.began /\ pass'.delta = pass.delta \ {k}
      /\ pass'.held = Restrict(pass.held, DOMAIN pass.held \ {k})
      /\ pass' = [pc |-> pass'.pc, began |-> pass'.began, mark |-> pass'.mark, list |-> pass'.list,
                  delta |-> pass'.delta, held |-> pass'.held, cut |-> pass'.cut]
  BY <1>1 DEF PassMarked, copyOne
<1>3. /\ DOMAIN pass'.held = DOMAIN pass.held \ {k}
      /\ \A j \in DOMAIN pass'.held : pass'.held[j] = pass.held[j]
  BY <1>2 DEF Restrict
<1>4. PassMarked'
  BY <1>1, <1>2, <1>3 DEF PassMarked, Passing
<1>5. CopiedInTime'
  BY <1>1, <1>2, <1>3 DEF CopiedInTime
<1>6. MirrorCaughtUp'
  <2> SUFFICES ASSUME NEW j \in DOMAIN source, source[j].at <= mirrored
               PROVE  j \in DOMAIN mirror' /\ mirror'[j] = source[j].ver
    BY <1>1 DEF MirrorCaughtUp
  <2>1. source[j].at \in Nat /\ pass.began \in Nat /\ mirrored <= pass.began /\ mirrored \in Int
    BY <1>1, CopiesAssumption DEF StampsTyped, PassMarked, Passing, NeverRan
  <2>2. source[j].at <= pass.began
    BY <2>1
  <2>3. CASE j = k
    BY <1>1, <2>2, <2>3 DEF CopiedInTime
  <2>4. CASE j # k
    BY <1>1, <2>4 DEF MirrorCaughtUp
  <2> QED BY <2>3, <2>4
<1>7. ListedInTime'
  BY <1>2 DEF ListedInTime
<1> QED BY <1>1, <1>4, <1>5, <1>6, <1>7, PassGoesOn

\* A copy fails.
LEMMA CutStep ==
    ASSUME CInv, CopyCut
    PROVE  CInv'
<1>0. PICK k \in DOMAIN pass.held \cup {"context"} :
         pass' = [pass EXCEPT !.cut = TRUE, !.held = Restrict(@, DOMAIN @ \ {k})]
  BY DEF CopyCut
<1>1. /\ pass.pc = "copy" /\ PassMarked /\ MirrorCaughtUp /\ CopiedInTime
      /\ Passes /\ source' = source /\ mirror' = mirror /\ time' = time /\ mirrored' = mirrored
  BY DEF CopyCut, CInv, Passes
<1>2. /\ pass'.pc = "copy" /\ pass'.began = pass.began /\ pass'.delta = pass.delta
      /\ pass'.held = Restrict(pass.held, DOMAIN pass.held \ {k})
      /\ pass' = [pc |-> pass'.pc, began |-> pass'.began, mark |-> pass'.mark, list |-> pass'.list,
                  delta |-> pass'.delta, held |-> pass'.held, cut |-> pass'.cut]
  BY <1>0, <1>1 DEF PassMarked
<1>3. /\ DOMAIN pass'.held \subseteq DOMAIN pass.held
      /\ \A j \in DOMAIN pass'.held : pass'.held[j] = pass.held[j]
  BY <1>2 DEF Restrict
<1>4. PassMarked'
  BY <1>1, <1>2, <1>3 DEF PassMarked, Passing
<1>5. CopiedInTime'
  BY <1>1, <1>2, <1>3 DEF CopiedInTime
<1>6. ListedInTime' /\ MirrorCaughtUp'
  BY <1>1, <1>2 DEF ListedInTime, MirrorCaughtUp
<1> QED BY <1>1, <1>4, <1>5, <1>6, PassGoesOn

\* All workers are done.
LEMMA DeltaDone ==
    ASSUME CInv, copyDelta
    PROVE  CInv'
<1>1. pass.pc \in Passing /\ UNCHANGED <<source, mirror>> /\ EndPass(~pass.cut)
  BY DEF copyDelta, Passing
<1>2. ~pass.cut => pass.pc = "copy" /\ pass.delta = {}
  BY DEF copyDelta
<1>3. CASE pass.cut
  BY <1>1, <1>3, PassEnds DEF EndPass
<1>4. CASE ~pass.cut
  BY <1>1, <1>2, <1>4, PassEnds DEF EndPass
<1> QED BY <1>3, <1>4

-------------------------------------------------------------------------------
\* What is left to prove of a step that does not touch the mirror.
LEMMA MirrorUntouched ==
    ASSUME CInv, UNCHANGED <<copyPlan, source, mirror, mirrored, pass>>,
           time' \in Nat, time <= time', ZipsTyped', ArchiveKept'
    PROVE  CInv'
<1>1. StampsTyped'
  BY DEF CInv, StampsTyped, NeverRan
<1>2. PassMarked'
  BY DEF CInv, PassMarked, Passing, StampsTyped, mirrorWatermark, NeverRan
<1>3. ListedInTime' /\ CopiedInTime' /\ MirrorCaughtUp'
  BY DEF CInv, ListedInTime, CopiedInTime, MirrorCaughtUp
<1> QED BY <1>1, <1>2, <1>3 DEF CInv

\* The youngest archive is never pruned.
LEMMA YoungestArchiveStays ==
    ASSUME NEW t \in Nat, NEW keys \in SUBSET (0..t), keys # {}
    PROVE  \E z \in keys \ pruneUser(keys) : \A j \in keys : j <= z
<1>1. keys \in SUBSET Nat /\ \A y \in keys : y <= t
  OBVIOUS
<1>2. PICK z \in keys : \A y \in keys : y <= z
  BY <1>1, GreatestElement
<1>3. {j \in keys : j > z} = {}
  <2>1. ASSUME NEW j \in keys PROVE ~(j > z)
    <3>1. j \in Nat /\ z \in Nat /\ j <= z
      BY <1>1, <1>2
    <3> QED BY <3>1
  <2> QED BY <2>1
<1>4. z \notin pruneUser(keys)
  BY <1>3, FS_EmptySet, CopiesAssumption DEF pruneUser
<1> QED BY <1>2, <1>4

\* A user is archived, or is not.
LEMMA ShipStep ==
    ASSUME CInv, NEW u \in Users, shipOne(u)
    PROVE  ZipsTyped' /\ ArchiveKept'
<1>1. ZipsTyped /\ ArchiveKept /\ time' = time /\ time \in Nat
  BY DEF CInv, StampsTyped, shipOne, ZipStep, CopyFault
<1>2. /\ \A v \in Users : zips[v] \subseteq zips'[v] /\ zips'[v] \subseteq zips[v] \cup {time}
      /\ DOMAIN zips' = Users
  BY <1>1 DEF shipOne, ZipsTyped
<1>3. /\ "newest" \in DOMAIN zipRun'
      /\ \/ zipRun'.newest = zipRun.newest
         \/ /\ zipRun'.newest = [v \in DOMAIN zipRun.newest \cup {u} |->
                                     IF v = u THEN time ELSE zipRun.newest[v]]
            /\ time \in zips'[u]
  <2>1. CASE /\ zips' = [zips EXCEPT ![u] = @ \cup {time}]
             /\ zipRun' = [zipRun EXCEPT !.pc = "prune", !.shipped = @ \cup {u},
                             !.newest = [v \in DOMAIN @ \cup {u} |-> IF v = u THEN time ELSE @[v]]]
    BY <1>1, <2>1 DEF ZipsTyped
  <2>2. CASE zipRun' = NextUser([zipRun EXCEPT !.failed = @ \cup {u}])
    BY <1>1, <2>2 DEF NextUser, ZipsTyped
  <2> QED BY <2>1, <2>2 DEF shipOne, ZipStep
<1>4. ZipsTyped'
  BY <1>1, <1>2, <1>3 DEF ZipsTyped
<1>5. ArchiveKept'
  BY <1>1, <1>2, <1>3 DEF ArchiveKept, ZipsTyped
<1> QED BY <1>4, <1>5

\* The oldest archives of a user go.
LEMMA PruneArchives ==
    ASSUME CInv, NEW u \in Users, pruneShippedUser(u)
    PROVE  ZipsTyped' /\ ArchiveKept'
<1>1. ZipsTyped /\ ArchiveKept /\ time' = time /\ time \in Nat
  BY DEF CInv, StampsTyped, pruneShippedUser, ZipStep, CopyFault
<1>2. zipRun'.newest = zipRun.newest /\ "newest" \in DOMAIN zipRun'
  BY <1>1 DEF pruneShippedUser, ZipStep, NextUser, ZipsTyped
<1>3. PICK part \in SUBSET pruneUser(zips[u]) : zips' = [zips EXCEPT ![u] = @ \ part]
  BY DEF pruneShippedUser
<1>4. ZipsTyped'
  BY <1>1, <1>2, <1>3 DEF ZipsTyped
<1>5. ASSUME NEW v \in DOMAIN zipRun.newest
      PROVE  \E z \in zips'[v] : z >= zipRun.newest[v]
  <2>1. PICK y \in zips[v] : y >= zipRun.newest[v]
    BY <1>1 DEF ArchiveKept
  <2>2. v \in Users /\ zips[v] \subseteq 0..time /\ zipRun.newest[v] \in Nat /\ y \in Nat
    BY <1>1, <2>1 DEF ZipsTyped
  <2>3. CASE v # u
    BY <1>1, <1>3, <2>1, <2>3, <2>2 DEF ZipsTyped
  <2>4. CASE v = u
    <3>1. PICK z \in zips[u] \ pruneUser(zips[u]) : \A j \in zips[u] : j <= z
      BY <1>1, <2>1, <2>2, <2>4, YoungestArchiveStays
    <3>2. z \in zips'[u] /\ y <= z /\ z \in Nat
      BY <1>1, <1>3, <2>1, <2>2, <2>4, <3>1 DEF ZipsTyped
    <3> QED BY <2>1, <2>2, <2>4, <3>2
  <2> QED BY <2>3, <2>4
<1>6. ArchiveKept'
  BY <1>2, <1>5 DEF ArchiveKept
<1> QED BY <1>4, <1>6

\* A run over the users begins, passes a user by, or ends.
LEMMA ZipRunMoves ==
    ASSUME CInv, \/ StartZipRun \/ ZipRunEnds \/ (\E u \in Users : exportOneUser(u))
    PROVE  CInv'
<1>1. ZipsTyped /\ ArchiveKept /\ time \in Nat
  BY DEF CInv, StampsTyped
<1>2. /\ zipRun'.newest = zipRun.newest /\ "newest" \in DOMAIN zipRun'
      /\ zips' = zips /\ (time' = time \/ time' = time + 1)
      /\ UNCHANGED <<copyPlan, source, mirror, mirrored, pass>>
  <2>1. CASE StartZipRun
    <3>1. zipRun' = [NoZipRun EXCEPT !.pc = "user", !.newest = zipRun.newest]
      BY <2>1 DEF StartZipRun
    <3>2. zipRun'.newest = zipRun.newest /\ "newest" \in DOMAIN zipRun'
      BY <3>1 DEF NoZipRun
    <3> QED BY <2>1, <3>2 DEF StartZipRun
  <2>2. CASE ZipRunEnds
    BY <1>1, <2>2 DEF ZipRunEnds, ZipStep, ZipsTyped
  <2>3. ASSUME NEW u \in Users, exportOneUser(u)
        PROVE  zipRun'.newest = zipRun.newest /\ "newest" \in DOMAIN zipRun'
               /\ zips' = zips /\ time' = time
               /\ UNCHANGED <<copyPlan, source, mirror, mirrored, pass>>
    <3>1. \/ zipRun' = NextUser([zipRun EXCEPT !.deferred = @ \cup {u}])
          \/ zipRun' = [zipRun EXCEPT !.pc = "ship"]
      BY <2>3 DEF exportOneUser, ZipStep
    <3>2. zipRun'.newest = zipRun.newest /\ "newest" \in DOMAIN zipRun'
      BY <1>1, <3>1 DEF NextUser, ZipsTyped
    <3> QED BY <2>3, <3>2 DEF exportOneUser, ZipStep
  <2> QED BY <2>1, <2>2, <2>3
<1>3. time' \in Nat /\ time <= time'
  BY <1>1, <1>2
<1>4. ZipsTyped' /\ ArchiveKept'
  BY <1>1, <1>2, <1>3 DEF ZipsTyped, ArchiveKept
<1> QED BY <1>2, <1>3, <1>4, MirrorUntouched

LEMMA CopiesStep == CInv /\ [CopyNext]_copyVars => CInv'
<1> SUFFICES ASSUME CInv, [CopyNext]_copyVars PROVE CInv'
  OBVIOUS
<1>0. time \in Nat
  BY DEF CInv, StampsTyped
<1>1. CASE \E k \in Objects : ObjectWritten(k) \/ ObjectRemoved(k) \/ OpenSource(k) \/ copyOne(k)
  BY <1>1, WrittenStep, RemovedStep, OpenStep, CopyStep
<1>2. CASE Restore
  <2>1. UNCHANGED <<copyPlan, source, mirror, mirrored, pass, zips, zipRun, time>>
    BY <1>2 DEF Restore
  <2>2. ZipsTyped' /\ ArchiveKept'
    BY <1>0, <2>1, ZipsUntouched DEF CInv
  <2> QED BY <1>0, <2>1, <2>2, MirrorUntouched
<1>3. CASE StartPass \/ waitRestoreClear \/ ListSource \/ ListDestination \/ CopyCut \/ copyDelta
  BY <1>3, PassBegins, ProbeStep, ListStepMirror, DeltaStep, CutStep, DeltaDone
<1>4. CASE StartZipRun \/ ZipRunEnds \/ (\E u \in Users : exportOneUser(u))
  BY <1>4, ZipRunMoves
<1>5. ASSUME NEW u \in Users, shipOne(u) \/ pruneShippedUser(u)
      PROVE  CInv'
  <2>1. UNCHANGED <<copyPlan, source, mirror, mirrored, pass, time>>
    BY <1>5 DEF shipOne, pruneShippedUser, ZipStep
  <2> QED BY <1>0, <1>5, <2>1, ShipStep, PruneArchives, MirrorUntouched
<1>6. CASE UNCHANGED copyVars
  <2>1. UNCHANGED <<copyPlan, source, mirror, mirrored, pass, zips, zipRun, time>>
    BY <1>6 DEF copyVars
  <2>2. ZipsTyped' /\ ArchiveKept'
    BY <1>0, <2>1, ZipsUntouched DEF CInv
  <2> QED BY <1>0, <2>1, <2>2, MirrorUntouched
<1> QED BY <1>1, <1>2, <1>3, <1>4, <1>5, <1>6 DEF CopyNext

\* What a pass that succeeded promised stands, for any overlap at least as large as the clocks'
\* difference and any order of writes, listings and copies; and no user archived ends without an
\* archive as young (MirrorJob.Run, pruneShippedUser).
THEOREM CopiesSafety == CopySpec => []CopiesSound
<1>1. CInv => CopiesSound
  BY DEF CInv, CopiesSound
<1> QED BY <1>1, CopiesStart, CopiesStep, PTL DEF CopySpec

-------------------------------------------------------------------------------
(***************************************************************************)
(* Downloads: bytes leave only under a charge that stays, and the lock on  *)
(* an account's reservations keeps the charges under the maximum.          *)
(***************************************************************************)

Progress == {"new", "refused", "lock", "count", "spent", "insert", "ask", "asked", "release",
             "copy", "failed", "done"}
Reserved == {"ask", "asked", "release", "copy"}

DownloadsTyped ==
    /\ DOMAIN request = Requests /\ \A r \in Requests : request[r] \in Progress
    /\ DOMAIN charges \subseteq Requests /\ IsFiniteSet(DOMAIN charges)
    /\ sent \subseteq Requests

\* One reservation of an account at a time is between its count and its commit.
OneReserves ==
    \A r, q \in Requests :
        request[r] \in {"count", "insert"} /\ request[q] \in {"count", "insert"}
        /\ ask.asks[r] = ask.asks[q] => r = q

\* A request that goes on is charged, and one that gave bytes away is not refunded.
ChargeStays ==
    /\ \A r \in Requests : request[r] \in Reserved => r \in DOMAIN charges
    /\ \A r \in sent : r \in DOMAIN charges /\ request[r] \in {"copy", "done", "failed"}

\* What the count saw is still so when the row is inserted.
Room(u) == Cardinality(Charged(u)) < MaxDownloadsPerAdmin
ChargesBounded ==
    \A r \in Requests :
        /\ Cardinality(Charged(ask.asks[r])) <= MaxDownloadsPerAdmin
        /\ request[r] = "insert" => Room(ask.asks[r])

DInv == DownloadsTyped /\ OneReserves /\ ChargeStays /\ ChargesBounded

LEMMA ChargedFinite ==
    ASSUME IsFiniteSet(DOMAIN charges), NEW u
    PROVE  IsFiniteSet(Charged(u)) /\ Cardinality(Charged(u)) \in Nat
BY FS_Subset, FS_CardinalityType DEF Charged

LEMMA DownloadsStart == DownloadInit => DInv
<1> SUFFICES ASSUME DownloadInit PROVE DInv
  OBVIOUS
<1>1. DOMAIN charges = {} /\ request = [r \in Requests |-> "new"] /\ sent = {}
  BY DEF DownloadInit
<1>2. DownloadsTyped
  BY <1>1, FS_EmptySet DEF DownloadsTyped, Progress
<1>3. OneReserves /\ ChargeStays
  BY <1>1 DEF OneReserves, ChargeStays, Reserved
<1>4. \A u : Charged(u) = {}
  BY <1>1 DEF Charged
<1>5. ChargesBounded
  BY <1>1, <1>4, FS_EmptySet, DownloadsAssumption DEF ChargesBounded
<1> QED BY <1>2, <1>3, <1>5 DEF DInv

\* A step of the backend that leaves charges and bytes alone and reserves nothing.
LEMMA RequestMoves ==
    ASSUME DInv, UNCHANGED <<ask, charges, sent>>, NEW r \in Requests, NEW to \in Progress,
           request' = [request EXCEPT ![r] = to],
           to \in {"count", "insert"} =>
               \A q \in Requests \ {r} : request[q] \in {"count", "insert"} => ask.asks[q] # ask.asks[r],
           to = "insert" => Room(ask.asks[r]),
           to \in Reserved => r \in DOMAIN charges,
           r \in sent => to \in {"copy", "done", "failed"}
    PROVE  DInv'
<1>1. /\ DOMAIN request' = Requests /\ request'[r] = to /\ Requests' = Requests
      /\ \A q \in Requests : q # r => request'[q] = request[q]
  BY DEF DInv, DownloadsTyped, Requests
<1>2. DownloadsTyped'
  BY <1>1 DEF DInv, DownloadsTyped
<1>3. OneReserves'
  BY <1>1 DEF DInv, OneReserves
<1>4. ChargeStays'
  BY <1>1 DEF DInv, ChargeStays, DownloadsTyped
<1>5. \A u : Charged(u)' = Charged(u) /\ (Room(u)' <=> Room(u))
  BY DEF Charged, Room
<1>6. ChargesBounded'
  BY <1>1, <1>5 DEF DInv, ChargesBounded
<1> QED BY <1>2, <1>3, <1>4, <1>6 DEF DInv

\* The agent's half touches neither requests nor charges.
LEMMA BridgeMoves ==
    ASSUME DInv, UNCHANGED <<ask, charges, sent, request>>
    PROVE  DInv'
<1>1. Requests' = Requests /\ \A u : Charged(u)' = Charged(u) /\ (Room(u)' <=> Room(u))
  BY DEF Charged, Room, Requests
<1> QED BY <1>1 DEF DInv, DownloadsTyped, OneReserves, ChargeStays, ChargesBounded

\* The count is taken under the lock, and the row is what the lock covers.
LEMMA ReserveSteps ==
    ASSUME DInv, NEW r \in Requests, ReserveDownload(r) \/ ReserveCount(r)
    PROVE  DInv'
<1>1. CASE ReserveDownload(r)
  <2>1. request' = [request EXCEPT ![r] = "count"] /\ UNCHANGED <<ask, charges, sent>>
        /\ request[r] = "lock"
    BY <1>1 DEF ReserveDownload, ReqStep
  <2>2. \A q \in Requests : request[q] \in {"count", "insert"} => ask.asks[q] # ask.asks[r]
    BY <1>1 DEF ReserveDownload, Locked
  <2>3. r \notin sent
    BY <2>1 DEF DInv, ChargeStays
  <2> QED BY <2>1, <2>2, <2>3, RequestMoves DEF Progress, Reserved
<1>2. CASE ReserveCount(r)
  <2>1. request[r] = "count" /\ UNCHANGED <<ask, charges, sent>>
    BY <1>2 DEF ReserveCount
  <2>2. r \notin sent
    BY <2>1 DEF DInv, ChargeStays
  <2>3. \A q \in Requests \ {r} : request[q] \in {"count", "insert"} => ask.asks[q] # ask.asks[r]
    BY <2>1 DEF DInv, OneReserves
  <2>4. CASE Cardinality(Charged(ask.asks[r])) >= MaxDownloadsPerAdmin
    <3>1. request' = [request EXCEPT ![r] = "spent"]
      BY <1>2, <2>4 DEF ReserveCount
    <3> QED BY <2>1, <2>2, <3>1, RequestMoves DEF Progress, Reserved
  <2>5. CASE ~(Cardinality(Charged(ask.asks[r])) >= MaxDownloadsPerAdmin)
    <3>1. request' = [request EXCEPT ![r] = "insert"]
      BY <1>2, <2>5 DEF ReserveCount
    <3>2. Cardinality(Charged(ask.asks[r])) \in Nat
      BY ChargedFinite DEF DInv, DownloadsTyped
    <3>3. Room(ask.asks[r])
      BY <2>5, <3>2, DownloadsAssumption DEF Room
    <3> QED BY <2>1, <2>2, <2>3, <3>1, <3>3, RequestMoves DEF Progress, Reserved
  <2> QED BY <2>4, <2>5
<1> QED BY <1>1, <1>2

\* The row: there was room for it, and nobody else is between count and commit.
LEMMA InsertStep ==
    ASSUME DInv, NEW r \in Requests, ReserveInsert(r)
    PROVE  DInv'
<1>1. /\ request[r] = "insert" /\ request' = [request EXCEPT ![r] = "ask"]
      /\ UNCHANGED <<ask, sent>> /\ DOMAIN charges' = DOMAIN charges \cup {r} /\ Requests' = Requests
  BY DEF ReserveInsert, ReqStep, Requests
<1>2. /\ DOMAIN request' = Requests /\ request'[r] = "ask"
      /\ \A q \in Requests : q # r => request'[q] = request[q]
  BY <1>1 DEF DInv, DownloadsTyped
<1>3. DownloadsTyped'
  BY <1>1, <1>2, FS_AddElement DEF DInv, DownloadsTyped, Progress
<1>4. OneReserves'
  BY <1>1, <1>2 DEF DInv, OneReserves
<1>5. ChargeStays'
  BY <1>1, <1>2 DEF DInv, ChargeStays, DownloadsTyped, Reserved
<1>6. ASSUME NEW u
      PROVE  Charged(u)' = IF u = ask.asks[r] THEN Charged(u) \cup {r} ELSE Charged(u)
  BY <1>1 DEF Charged
<1>7. /\ IsFiniteSet(Charged(ask.asks[r])) /\ Cardinality(Charged(ask.asks[r])) \in Nat
      /\ Cardinality(Charged(ask.asks[r])) < MaxDownloadsPerAdmin
  BY <1>1, ChargedFinite DEF DInv, DownloadsTyped, ChargesBounded, Room
<1>8. ASSUME NEW u, u = ask.asks[r]
      PROVE  Cardinality(Charged(u)') <= MaxDownloadsPerAdmin
  <2>1. PICK C : C = Charged(u)
    OBVIOUS
  <2>2. IsFiniteSet(C) /\ Cardinality(C) \in Nat /\ Cardinality(C) < MaxDownloadsPerAdmin
    BY <1>7, <1>8, <2>1
  <2>3. Cardinality(C \cup {r}) = IF r \in C THEN Cardinality(C) ELSE Cardinality(C) + 1
    BY <2>2, FS_AddElement
  <2>4. Cardinality(C \cup {r}) <= MaxDownloadsPerAdmin
    BY <2>2, <2>3, DownloadsAssumption
  <2> QED BY <1>6, <1>8, <2>1, <2>4
<1>9. ASSUME NEW q \in Requests, NEW u, u = ask.asks[q]
      PROVE  /\ Cardinality(Charged(u)') <= MaxDownloadsPerAdmin
             /\ request'[q] = "insert" => Cardinality(Charged(u)') < MaxDownloadsPerAdmin
  <2>1. CASE u = ask.asks[r]
    <3>1. request'[q] # "insert"
      BY <1>1, <1>2, <1>9, <2>1 DEF DInv, OneReserves
    <3> QED BY <1>8, <2>1, <3>1
  <2>2. CASE u # ask.asks[r]
    <3>1. Charged(u)' = Charged(u) /\ q # r
      BY <1>6, <1>9, <2>2
    <3> QED BY <1>2, <1>9, <3>1 DEF DInv, ChargesBounded, Room
  <2> QED BY <2>1, <2>2
<1>10. ChargesBounded'
  BY <1>1, <1>9 DEF ChargesBounded, Room
<1> QED BY <1>3, <1>4, <1>5, <1>10 DEF DInv

\* A refund takes back only what gave no byte away.
LEMMA ReleaseStep ==
    ASSUME DInv, NEW r \in Requests, ReleaseDownload(r)
    PROVE  DInv'
<1>1. /\ request[r] = "release" /\ request' = [request EXCEPT ![r] = "failed"]
      /\ UNCHANGED <<ask, sent>> /\ DOMAIN charges' \subseteq DOMAIN charges
      /\ DOMAIN charges \ {r} \subseteq DOMAIN charges' /\ Requests' = Requests
  BY DEF ReleaseDownload, ReqStep, Requests
<1>2. /\ DOMAIN request' = Requests /\ request'[r] = "failed"
      /\ \A q \in Requests : q # r => request'[q] = request[q]
  BY <1>1 DEF DInv, DownloadsTyped
<1>3. DownloadsTyped'
  BY <1>1, <1>2, FS_Subset DEF DInv, DownloadsTyped, Progress
<1>4. OneReserves'
  BY <1>1, <1>2 DEF DInv, OneReserves
<1>5. r \notin sent
  BY <1>1 DEF DInv, ChargeStays
<1>6. ChargeStays'
  BY <1>1, <1>2, <1>5 DEF DInv, ChargeStays, DownloadsTyped, Reserved
<1>7. ASSUME NEW u
      PROVE  /\ Cardinality(Charged(u)') <= Cardinality(Charged(u))
             /\ Cardinality(Charged(u)') \in Nat /\ Cardinality(Charged(u)) \in Nat
  <2>1. Charged(u)' \subseteq Charged(u)
    BY <1>1 DEF Charged
  <2>2. IsFiniteSet(Charged(u)) /\ Cardinality(Charged(u)) \in Nat
    BY ChargedFinite DEF DInv, DownloadsTyped
  <2> QED BY <2>1, <2>2, FS_Subset, FS_CardinalityType
<1>8. ChargesBounded'
  BY <1>1, <1>2, <1>7, DownloadsAssumption DEF DInv, ChargesBounded, Room
<1> QED BY <1>3, <1>4, <1>6, <1>8 DEF DInv

\* The bytes begin to flow, and the download is settled.
LEMMA StreamSteps ==
    ASSUME DInv, NEW r \in Requests, streamDownload(r) \/ CompleteDownload(r)
    PROVE  DInv'
<1>1. CASE streamDownload(r)
  <2>1. /\ request[r] = "asked" /\ request' = [request EXCEPT ![r] = "copy"]
        /\ UNCHANGED <<ask, charges>> /\ sent' = sent \cup {r} /\ Requests' = Requests
    BY <1>1 DEF streamDownload, ReqStep, Requests
  <2>2. /\ DOMAIN request' = Requests /\ request'[r] = "copy"
        /\ \A q \in Requests : q # r => request'[q] = request[q]
    BY <2>1 DEF DInv, DownloadsTyped
  <2>3. DownloadsTyped' /\ OneReserves' /\ ChargeStays'
    BY <2>1, <2>2 DEF DInv, DownloadsTyped, Progress, OneReserves, ChargeStays, Reserved
  <2>4. \A u : Charged(u)' = Charged(u) /\ (Room(u)' <=> Room(u))
    BY <2>1 DEF Charged, Room
  <2>5. ChargesBounded'
    BY <2>1, <2>2, <2>4 DEF DInv, ChargesBounded
  <2> QED BY <2>3, <2>5 DEF DInv
<1>2. CASE CompleteDownload(r)
  <2>1. /\ request[r] = "copy" /\ request' = [request EXCEPT ![r] = "done"]
        /\ UNCHANGED <<ask, sent>> /\ DOMAIN charges' = DOMAIN charges /\ Requests' = Requests
    BY <1>2 DEF CompleteDownload, ReqStep, Requests
  <2>2. /\ DOMAIN request' = Requests /\ request'[r] = "done"
        /\ \A q \in Requests : q # r => request'[q] = request[q]
    BY <2>1 DEF DInv, DownloadsTyped
  <2>3. DownloadsTyped' /\ OneReserves' /\ ChargeStays'
    BY <2>1, <2>2 DEF DInv, DownloadsTyped, Progress, OneReserves, ChargeStays, Reserved
  <2>4. \A u : Charged(u)' = Charged(u) /\ (Room(u)' <=> Room(u))
    BY <2>1 DEF Charged, Room
  <2>5. ChargesBounded'
    BY <2>1, <2>2, <2>4 DEF DInv, ChargesBounded
  <2> QED BY <2>3, <2>5 DEF DInv
<1> QED BY <1>1, <1>2

\* The other moves of the backend.
LEMMA PlainSteps ==
    ASSUME DInv, NEW r \in Requests,
           downloadableKey(r) \/ Ask(r) \/ OpenRefused(r) \/ ReserveFails(r) \/ BackendFails(r)
    PROVE  DInv'
<1>1. UNCHANGED <<ask, charges, sent>>
  BY DEF downloadableKey, Ask, OpenRefused, ReserveFails, BackendFails
<1>2. PICK to \in {"lock", "refused", "asked", "release", "failed"} :
         /\ request' = [request EXCEPT ![r] = to]
         /\ to \in Reserved => request[r] \in Reserved
         /\ to # "failed" => request[r] \notin {"copy", "done", "failed"}
  BY DEF downloadableKey, Ask, OpenRefused, ReserveFails, BackendFails, ReqStep, Reserved
<1>3. to \in Reserved => r \in DOMAIN charges
  BY <1>2 DEF DInv, ChargeStays
<1>4. r \in sent => to = "failed"
  BY <1>2 DEF DInv, ChargeStays
<1> QED BY <1>1, <1>2, <1>3, <1>4, RequestMoves DEF Progress

LEMMA DownloadsStep == DInv /\ [DownloadNext]_downloadVars => DInv'
<1> SUFFICES ASSUME DInv, [DownloadNext]_downloadVars PROVE DInv'
  OBVIOUS
<1>1. ASSUME NEW r \in Requests, Backend(r) \/ ReserveFails(r) \/ BackendFails(r)
      PROVE  DInv'
  BY <1>1, PlainSteps, ReserveSteps, InsertStep, ReleaseStep, StreamSteps DEF Backend
<1>2. ASSUME NEW r \in Requests, BridgeStep(r)
      PROVE  DInv'
  BY <1>2, BridgeMoves DEF BridgeStep, OpenFails, serveArtifact, StreamEnds
<1>3. CASE UNCHANGED downloadVars
  BY <1>3, BridgeMoves DEF downloadVars
<1> QED BY <1>1, <1>2, <1>3 DEF DownloadNext

\* An account gets the bytes of an artifact at most MaxDownloadsPerAdmin times, however many of its
\* requests run at once, for any maximum and any number of requests (ReserveDownload,
\* ReleaseDownload).
THEOREM BytesAreBounded == DownloadSpec => []BytesBudget
<1>1. ASSUME DInv
      PROVE  BytesBudget
  <2> SUFFICES ASSUME NEW q \in Requests
               PROVE  Cardinality({r \in sent : ask.asks[r] = ask.asks[q]}) <= MaxDownloadsPerAdmin
    BY DEF BytesBudget
  <2> DEFINE S == {r \in sent : ask.asks[r] = ask.asks[q]}
  <2>1. S \subseteq Charged(ask.asks[q])
    BY <1>1 DEF DInv, ChargeStays, Charged
  <2>2. IsFiniteSet(Charged(ask.asks[q])) /\ Cardinality(Charged(ask.asks[q])) \in Nat
    BY <1>1, ChargedFinite DEF DInv, DownloadsTyped
  <2>3. Cardinality(S) \in Nat /\ Cardinality(S) <= Cardinality(Charged(ask.asks[q]))
    BY <2>1, <2>2, FS_Subset, FS_CardinalityType
  <2>4. Cardinality(Charged(ask.asks[q])) <= MaxDownloadsPerAdmin
    BY <1>1 DEF DInv, ChargesBounded
  <2> HIDE DEF S
  <2>5. Cardinality(S) <= MaxDownloadsPerAdmin
    BY <2>2, <2>3, <2>4, DownloadsAssumption
  <2> QED BY <2>5 DEF S
<1> HIDE DEF BytesBudget
<1> QED BY <1>1, DownloadsStart, DownloadsStep, PTL DEF DownloadSpec

-------------------------------------------------------------------------------
(***************************************************************************)
(* Download tickets: the table, what tidies it, and the handlers.          *)
(***************************************************************************)

TicketStates == {"pending", "running", "finished"}
Issued == desk.issues - left.issues

IsTicket(t) ==
    /\ t = [session |-> t.session, state |-> t.state, due |-> t.due, at |-> t.at]
    /\ t.state \in TicketStates

\* What a table must be, whoever tidied it.
TableSound(ts) ==
    /\ DOMAIN ts \subseteq 1..Issued
    /\ \A id \in DOMAIN ts : IsTicket(ts[id])
    /\ \A id \in TicketIds : (getter[id] # "none") <=> (id \in DOMAIN ts /\ ts[id].state = "running")
    /\ \A id \in DOMAIN ts : ts[id].state = "pending" => exports[id] = 0
    /\ \A u : Cardinality(Active(ts, u)) <= MaxActive
    /\ Cardinality(DOMAIN ts) <= MaxTickets

DeskTyped ==
    /\ desk \in TicketScenarios
    /\ "issues" \in DOMAIN left /\ left.issues \in 0..desk.issues
    /\ getter \in [TicketIds -> {"none", "admit", "stream"}]
    /\ exports \in [TicketIds -> {0, 1}]

\* A ticket that has not been used, or not even issued, has exported nothing.
ExportsLater ==
    \A id \in TicketIds : getter[id] = "admit" \/ id > Issued => exports[id] = 0

TInv == DeskTyped /\ ExportsLater /\ TableSound(tickets)

LEMMA IssuedNumber ==
    ASSUME DeskTyped
    PROVE  /\ desk.issues \in Nat /\ left.issues \in Nat /\ Issued \in Nat /\ Issued <= desk.issues
           /\ 1..Issued \subseteq TicketIds
BY TicketsAssumption DEF DeskTyped, Issued, TicketIds

LEMMA TableFinite ==
    ASSUME NEW ts, NEW n \in Nat, DOMAIN ts \subseteq 1..n, NEW u
    PROVE  /\ IsFiniteSet(DOMAIN ts) /\ Cardinality(DOMAIN ts) \in Nat
           /\ IsFiniteSet(Active(ts, u)) /\ Cardinality(Active(ts, u)) \in Nat
<1>1. IsFiniteSet(DOMAIN ts)
  <2>1. IsFiniteSet(1..n)
    BY FS_Interval
  <2> QED BY <2>1, FS_Subset
<1>2. Active(ts, u) \subseteq DOMAIN ts
  BY DEF Active
<1> QED BY <1>1, <1>2, FS_Subset, FS_CardinalityType

\* The next state's table, from what each of its parts says.
LEMMA NextTable ==
    ASSUME desk' = desk, DOMAIN tickets' \subseteq 1..Issued',
           \A id \in DOMAIN tickets' : IsTicket(tickets'[id]),
           \A id \in TicketIds :
               (getter'[id] # "none") <=> (id \in DOMAIN tickets' /\ tickets'[id].state = "running"),
           \A id \in DOMAIN tickets' : tickets'[id].state = "pending" => exports'[id] = 0,
           \A u : Cardinality(Active(tickets', u)) <= MaxActive,
           Cardinality(DOMAIN tickets') <= MaxTickets
    PROVE  TableSound(tickets)'
<1>1. \A u : Active(tickets, u)' = Active(tickets', u)
  BY DEF Active, Finished
<1>2. TicketIds' = TicketIds
  BY DEF TicketIds
<1> QED BY <1>1, <1>2 DEF TableSound

-------------------------------------------------------------------------------
\* One table is another one tidied up: some tickets that were not running went, some pending ones
\* have finished.
Tidied(ts, us) ==
    /\ DOMAIN us \subseteq DOMAIN ts
    /\ \A id \in DOMAIN ts \ DOMAIN us : ts[id].state # "running"
    /\ \A id \in DOMAIN us : /\ IsTicket(us[id]) /\ us[id].session = ts[id].session
                             /\ us[id].state = ts[id].state
                                \/ (ts[id].state = "pending" /\ us[id].state = "finished")

LEMMA TidiedIsSound ==
    ASSUME DeskTyped, NEW ts, NEW us, TableSound(ts), Tidied(ts, us)
    PROVE  /\ TableSound(us)
           /\ \A u : Active(us, u) \subseteq Active(ts, u)
           /\ \A u : Cardinality(Active(us, u)) <= Cardinality(Active(ts, u))
           /\ Cardinality(DOMAIN us) <= Cardinality(DOMAIN ts)
<1>0. Issued \in Nat /\ DOMAIN ts \subseteq 1..Issued
  BY IssuedNumber DEF TableSound
<1>1. \A u : Active(us, u) \subseteq Active(ts, u)
  BY DEF Tidied, Active, Finished
<1>2. ASSUME NEW u
      PROVE  /\ Cardinality(Active(us, u)) \in Nat /\ Cardinality(Active(ts, u)) \in Nat
             /\ Cardinality(Active(us, u)) <= Cardinality(Active(ts, u))
  <2>1. IsFiniteSet(Active(ts, u)) /\ Cardinality(Active(ts, u)) \in Nat
    BY <1>0, TableFinite
  <2> QED BY <1>1, <2>1, FS_Subset, FS_CardinalityType
<1>3. /\ Cardinality(DOMAIN us) \in Nat /\ Cardinality(DOMAIN ts) \in Nat
      /\ Cardinality(DOMAIN us) <= Cardinality(DOMAIN ts)
  <2>1. IsFiniteSet(DOMAIN ts) /\ Cardinality(DOMAIN ts) \in Nat
    BY <1>0, TableFinite
  <2> QED BY <2>1, FS_Subset, FS_CardinalityType DEF Tidied
<1>4. \A u : Cardinality(Active(us, u)) <= MaxActive
  BY <1>2, TicketsAssumption DEF TableSound
<1>5. Cardinality(DOMAIN us) <= MaxTickets
  BY <1>3, TicketsAssumption DEF TableSound
<1>6. /\ DOMAIN us \subseteq 1..Issued
      /\ \A id \in DOMAIN us : IsTicket(us[id])
      /\ \A id \in DOMAIN us : us[id].state = "pending" => exports[id] = 0
  BY DEF TableSound, Tidied
<1>7. \A id \in TicketIds : (getter[id] # "none") <=> (id \in DOMAIN us /\ us[id].state = "running")
  BY DEF TableSound, Tidied
<1> QED BY <1>1, <1>2, <1>3, <1>4, <1>5, <1>6, <1>7 DEF TableSound

LEMMA TidiedTwice ==
    ASSUME NEW ts, NEW us, NEW vs, Tidied(ts, us), Tidied(us, vs)
    PROVE  Tidied(ts, vs)
BY DEF Tidied

LEMMA DropTidies ==
    ASSUME NEW ts, NEW ids, \A id \in DOMAIN ts : IsTicket(ts[id]),
           \A id \in ids : ts[id].state # "running"
    PROVE  Tidied(ts, Drop(ids, ts)) /\ \A id \in DOMAIN Drop(ids, ts) : IsTicket(Drop(ids, ts)[id])
BY DEF Tidied, Drop, Restrict

LEMMA EndTidies ==
    ASSUME NEW ts, NEW ids, \A id \in DOMAIN ts : IsTicket(ts[id]),
           \A id \in ids : ts[id].state # "running"
    PROVE  Tidied(ts, EndTickets(ids, ts))
<1>1. DOMAIN EndTickets(ids, ts) = DOMAIN ts
  BY DEF EndTickets
<1>2. ASSUME NEW id \in DOMAIN ts, id \in ids \ Finished(ts)
      PROVE  /\ IsTicket(EndTickets(ids, ts)[id])
             /\ EndTickets(ids, ts)[id].session = ts[id].session
             /\ EndTickets(ids, ts)[id].state = "finished" /\ ts[id].state = "pending"
  <2>1. ts[id].state = "pending"
    BY <1>2 DEF Finished, IsTicket, TicketStates
  <2>2. PICK n : n = Now(ts)
    OBVIOUS
  <2>3. EndTickets(ids, ts)[id] = [ts[id] EXCEPT !.state = "finished", !.due = FALSE, !.at = n]
    BY <1>2, <2>2 DEF EndTickets
  <2>4. ts[id] = [session |-> ts[id].session, state |-> ts[id].state, due |-> ts[id].due, at |-> ts[id].at]
    BY DEF IsTicket
  <2>5. EndTickets(ids, ts)[id] = [session |-> ts[id].session, state |-> "finished", due |-> FALSE, at |-> n]
    BY <2>3, <2>4
  <2> QED BY <2>1, <2>5 DEF IsTicket, TicketStates
<1>3. ASSUME NEW id \in DOMAIN ts, id \notin ids \ Finished(ts)
      PROVE  EndTickets(ids, ts)[id] = ts[id]
  BY <1>3 DEF EndTickets
<1> QED BY <1>1, <1>2, <1>3 DEF Tidied

\* The table's own operations tidy it.
LEMMA CleanupTidies ==
    ASSUME TInv
    PROVE  Tidied(tickets, cleanupLocked)
<1> DEFINE kept == Drop(TicketDue("finished"), tickets)
<1>1. \A id \in DOMAIN tickets : IsTicket(tickets[id])
  BY DEF TInv, TableSound
<1>2. Tidied(tickets, kept) /\ \A id \in DOMAIN kept : IsTicket(kept[id])
  <2>1. \A id \in TicketDue("finished") : tickets[id].state # "running"
    BY DEF TicketDue
  <2> QED BY <1>1, <2>1, DropTidies
<1>3. Tidied(kept, cleanupLocked)
  <2>1. DOMAIN kept = DOMAIN tickets \ TicketDue("finished") /\ \A id \in DOMAIN kept : kept[id] = tickets[id]
    BY DEF Drop, Restrict
  <2>2. TicketDue("pending") \cap TicketDue("finished") = {}
    BY DEF TicketDue
  <2>3. \A id \in TicketDue("pending") : kept[id].state # "running"
    BY <2>1, <2>2 DEF TicketDue
  <2> HIDE DEF kept
  <2> QED BY <1>2, <2>3, EndTidies DEF cleanupLocked, kept
<1> HIDE DEF kept
<1> QED BY <1>2, <1>3, TidiedTwice

LEMMA EvictTidies ==
    ASSUME NEW ts, \A id \in DOMAIN ts : IsTicket(ts[id]), NEW room \in evictFinishedLocked(ts)
    PROVE  Tidied(ts, room)
<1>1. CASE room = ts
  BY <1>1 DEF Tidied
<1>2. CASE room # ts
  <2>1. PICK id \in Finished(ts) : room = Drop({id}, ts)
    BY <1>2 DEF evictFinishedLocked
  <2>2. \A i \in {id} : ts[i].state # "running"
    BY <2>1 DEF Finished
  <2> QED BY <2>1, <2>2, DropTidies
<1> QED BY <1>1, <1>2

-------------------------------------------------------------------------------
\* A request that only tidies the table.
LEMMA TidyStep ==
    ASSUME TInv, Tidied(tickets, tickets'), UNCHANGED <<desk, left, getter, exports>>
    PROVE  TInv'
<1>1. TableSound(tickets') /\ DeskTyped
  BY TidiedIsSound DEF TInv
<1>2. DeskTyped' /\ ExportsLater'
  BY DEF TInv, DeskTyped, ExportsLater, TicketIds, Issued
<1>3. TableSound(tickets)'
  BY <1>1 DEF TableSound, Active, TicketIds, Issued
<1> QED BY <1>2, <1>3 DEF TInv

\* The next ticket of a session: what is tidied away for it, and whether there is room.
LEMMA IssueStep ==
    ASSUME TInv, NEW s \in Sessions, issue(s)
    PROVE  TInv'
<1> DEFINE id   == Issued + 1
           mine == Drop(Unused(cleanupLocked, s), cleanupLocked)
           new  == [session |-> s, state |-> "pending", due |-> FALSE, at |-> 0]
           full == Cardinality(Active(mine, desk.userOf[s])) >= MaxActive
           With(room) == [i \in DOMAIN room \cup {id} |-> IF i = id THEN new ELSE room[i]]
<1>0. /\ DeskTyped /\ ExportsLater /\ TableSound(tickets)
      /\ UNCHANGED <<desk, getter, exports>> /\ left.issues > 0
      /\ left' = [left EXCEPT !.issues = @ - 1]
  BY DEF TInv, issue, Use
<1>1. /\ left'.issues = left.issues - 1 /\ "issues" \in DOMAIN left' /\ Issued' = Issued + 1
      /\ Issued \in Nat /\ Issued + 1 <= desk.issues /\ desk.issues \in Nat /\ TicketIds' = TicketIds
  BY <1>0, IssuedNumber DEF DeskTyped, Issued, TicketIds
<1>2. DeskTyped'
  BY <1>0, <1>1 DEF DeskTyped
<1>3. ExportsLater'
  BY <1>0, <1>1 DEF ExportsLater, TicketIds
<1>4. Tidied(tickets, mine) /\ \A i \in DOMAIN mine : IsTicket(mine[i])
  <2>1. Tidied(tickets, cleanupLocked)
    BY CleanupTidies
  <2>2. \A i \in DOMAIN cleanupLocked : IsTicket(cleanupLocked[i])
    BY <2>1 DEF Tidied
  <2>3. \A i \in Unused(cleanupLocked, s) : cleanupLocked[i].state # "running"
    BY DEF Unused
  <2>4. Tidied(cleanupLocked, mine)
    BY <2>2, <2>3, DropTidies
  <2>5. Tidied(tickets, mine)
    BY <2>1, <2>4, TidiedTwice
  <2> HIDE DEF mine
  <2> QED BY <2>5 DEF Tidied
<1>5. \/ full /\ tickets' = mine
      \/ /\ ~full
         /\ \E room \in evictFinishedLocked(mine) :
               tickets' = IF Cardinality(DOMAIN room) >= MaxTickets THEN room ELSE With(room)
  BY DEF issue, Issued
<1> HIDE DEF mine, new, id, With
\* A table without the new ticket.
<1>6. ASSUME Tidied(tickets, tickets')
      PROVE  TableSound(tickets)'
  <2>1. TableSound(tickets')
    BY <1>0, <1>6, TidiedIsSound
  <2>2. 1..Issued \subseteq 1..Issued'
    BY <1>1
  <2>3. DOMAIN tickets' \subseteq 1..Issued'
    BY <2>1, <2>2 DEF TableSound
  <2> QED BY <1>0, <2>1, <2>3, NextTable DEF TableSound
\* A table with it.
<1>7. ASSUME NEW room, Tidied(mine, room), ~full, ~(Cardinality(DOMAIN room) >= MaxTickets),
             tickets' = With(room)
      PROVE  TableSound(tickets)'
  <2>1. Tidied(tickets, room)
    BY <1>4, <1>7, TidiedTwice
  <2>2. TableSound(room) /\ TableSound(mine)
    BY <1>0, <1>4, <2>1, TidiedIsSound
  <2>3. /\ \A u : Active(room, u) \subseteq Active(mine, u)
        /\ \A u : Cardinality(Active(room, u)) <= Cardinality(Active(mine, u))
    BY <1>0, <1>7, <2>2, TidiedIsSound
  <2>4. id \notin DOMAIN room /\ id = Issued + 1 /\ DOMAIN room \subseteq 1..Issued
    BY <1>1, <2>2 DEF TableSound, id
  <2>5. /\ DOMAIN tickets' = DOMAIN room \cup {id} /\ tickets'[id] = new
        /\ \A i \in DOMAIN room : tickets'[i] = room[i]
    BY <1>7, <2>4 DEF With
  <2>6. new.session = s /\ new.state = "pending" /\ IsTicket(new)
    BY DEF new, IsTicket, TicketStates
  <2>7. id \in TicketIds /\ exports[id] = 0 /\ getter[id] = "none"
    <3>1. id \in TicketIds /\ id > Issued
      BY <1>1, <2>4 DEF TicketIds
    <3>2. id \notin DOMAIN tickets
      BY <1>0, <1>1, <2>4 DEF TableSound
    <3> QED BY <1>0, <3>1, <3>2 DEF ExportsLater, TableSound, DeskTyped
  <2>8. ASSUME NEW u
        PROVE  Cardinality(Active(tickets', u)) <= MaxActive
    <3>1. Active(tickets', u) = IF u = desk.userOf[s] THEN Active(room, u) \cup {id} ELSE Active(room, u)
      BY <2>4, <2>5, <2>6 DEF Active, Finished
    <3>2. /\ IsFiniteSet(Active(room, u)) /\ Cardinality(Active(room, u)) \in Nat
          /\ Cardinality(Active(mine, u)) \in Nat
      BY <1>1, <2>2, TableFinite DEF TableSound
    <3>3. CASE u = desk.userOf[s]
      <4>1. PICK A : A = Active(room, u)
        OBVIOUS
      <4>2. Cardinality(A) < MaxActive
        BY <1>7, <2>3, <3>2, <3>3, <4>1, TicketsAssumption
      <4>3. IsFiniteSet(A) /\ Cardinality(A) \in Nat
        BY <3>2, <4>1
      <4>4. Cardinality(A \cup {id}) = IF id \in A THEN Cardinality(A) ELSE Cardinality(A) + 1
        BY <4>3, FS_AddElement
      <4>5. Cardinality(A \cup {id}) <= MaxActive
        BY <4>2, <4>3, <4>4, TicketsAssumption
      <4> QED BY <3>1, <3>3, <4>1, <4>5
    <3>4. CASE u # desk.userOf[s]
      BY <2>2, <3>1, <3>4 DEF TableSound
    <3> QED BY <3>3, <3>4
  <2>9. Cardinality(DOMAIN tickets') <= MaxTickets
    <3>1. PICK D : D = DOMAIN room
      OBVIOUS
    <3>2. IsFiniteSet(D) /\ Cardinality(D) \in Nat /\ Cardinality(D) < MaxTickets
      BY <1>1, <1>7, <2>2, <3>1, TableFinite, TicketsAssumption DEF TableSound
    <3>3. Cardinality(D \cup {id}) = IF id \in D THEN Cardinality(D) ELSE Cardinality(D) + 1
      BY <3>2, FS_AddElement
    <3>4. Cardinality(D \cup {id}) <= MaxTickets
      BY <3>2, <3>3, TicketsAssumption
    <3> QED BY <2>5, <3>1, <3>4
  <2>10. /\ DOMAIN tickets' \subseteq 1..Issued'
         /\ \A i \in DOMAIN tickets' : IsTicket(tickets'[i])
         /\ \A i \in DOMAIN tickets' : tickets'[i].state = "pending" => exports[i] = 0
    BY <1>1, <2>2, <2>4, <2>5, <2>6, <2>7 DEF TableSound
  <2>11. \A i \in TicketIds :
            (getter[i] # "none") <=> (i \in DOMAIN tickets' /\ tickets'[i].state = "running")
    BY <2>2, <2>4, <2>5, <2>6, <2>7 DEF TableSound
  <2> QED BY <1>0, <2>8, <2>9, <2>10, <2>11, NextTable
<1>8. TableSound(tickets)'
  <2>1. CASE full /\ tickets' = mine
    BY <1>4, <1>6, <2>1
  <2>2. CASE ~full /\ \E room \in evictFinishedLocked(mine) :
               tickets' = IF Cardinality(DOMAIN room) >= MaxTickets THEN room ELSE With(room)
    <3>1. PICK room \in evictFinishedLocked(mine) :
             tickets' = IF Cardinality(DOMAIN room) >= MaxTickets THEN room ELSE With(room)
      BY <2>2
    <3>2. Tidied(mine, room)
      BY <1>4, EvictTidies
    <3>3. CASE Cardinality(DOMAIN room) >= MaxTickets
      <4>1. Tidied(tickets, tickets')
        BY <1>4, <3>1, <3>2, <3>3, TidiedTwice
      <4> QED BY <1>6, <4>1
    <3>4. CASE ~(Cardinality(DOMAIN room) >= MaxTickets)
      BY <1>7, <2>2, <3>1, <3>2, <3>4
    <3> QED BY <3>3, <3>4
  <2> HIDE DEF full
  <2> QED BY <1>5, <2>1, <2>2
<1> QED BY <1>2, <1>3, <1>8 DEF TInv

\* A ticket is used: the pending one of the session that asks, after the table was tidied.
LEMMA ConsumeStep ==
    ASSUME TInv, NEW id \in TicketIds, NEW s \in Sessions, consume(id, s)
    PROVE  TInv'
<1> DEFINE clean == cleanupLocked
           valid == id \in DOMAIN clean /\ clean[id].state = "pending" /\ clean[id].session = s
<1>0. /\ DeskTyped /\ ExportsLater /\ Tidied(tickets, clean)
      /\ UNCHANGED <<desk, exports, left>> /\ TicketIds' = TicketIds /\ Issued' = Issued
  BY CleanupTidies DEF TInv, consume, TicketIds, Issued
<1>1. TableSound(clean)
  BY <1>0, TidiedIsSound DEF TInv
<1>2. CASE ~valid
  <2>1. tickets' = clean /\ getter' = [getter EXCEPT ![id] = @]
    BY <1>2 DEF consume
  <2> HIDE DEF clean, valid
  <2>2. getter' = getter
    BY <1>0, <2>1 DEF DeskTyped
  <2> QED BY <1>0, <2>1, <2>2, TidyStep
<1>3. CASE valid
  <2>1. /\ tickets' = [clean EXCEPT ![id].state = "running"]
        /\ getter' = [getter EXCEPT ![id] = "admit"]
    BY <1>3 DEF consume
  <2>2. id \in DOMAIN clean /\ clean[id].state = "pending"
    BY <1>3
  <2> HIDE DEF clean, valid
  <2>3. /\ getter' \in [TicketIds -> {"none", "admit", "stream"}] /\ getter'[id] = "admit"
        /\ \A i \in TicketIds : i # id => getter'[i] = getter[i]
    BY <1>0, <2>1 DEF DeskTyped
  <2>4. IsTicket(clean[id]) /\ DOMAIN tickets' = DOMAIN clean
        /\ tickets'[id] = [clean[id] EXCEPT !.state = "running"]
        /\ \A i \in DOMAIN clean : i # id => tickets'[i] = clean[i]
    BY <1>1, <2>1, <2>2 DEF TableSound
  <2>5. IsTicket(tickets'[id]) /\ tickets'[id].session = clean[id].session
        /\ tickets'[id].state = "running"
    BY <2>4 DEF IsTicket, TicketStates
  <2>6. exports[id] = 0
    BY <1>1, <2>2 DEF TableSound
  <2>7. DeskTyped'
    BY <1>0, <2>3 DEF DeskTyped
  <2>8. ExportsLater'
    BY <1>0, <2>3, <2>6 DEF ExportsLater
  <2>9. \A u : Active(tickets', u) = Active(clean, u)
    BY <1>0, <2>2, <2>4, <2>5 DEF Active, Finished
  <2>10. TableSound(tickets)'
    <3>1. \A u : Cardinality(Active(tickets', u)) <= MaxActive
      BY <1>1, <2>9 DEF TableSound
    <3>2. /\ DOMAIN tickets' \subseteq 1..Issued' /\ Cardinality(DOMAIN tickets') <= MaxTickets
          /\ \A i \in DOMAIN tickets' : IsTicket(tickets'[i])
          /\ \A i \in DOMAIN tickets' : tickets'[i].state = "pending" => exports'[i] = 0
      BY <1>0, <1>1, <2>4, <2>5 DEF TableSound
    <3>3. ASSUME NEW i \in TicketIds
          PROVE  (getter'[i] # "none") <=> (i \in DOMAIN tickets' /\ tickets'[i].state = "running")
      <4>1. CASE i = id
        BY <2>2, <2>3, <2>4, <2>5, <4>1
      <4>2. CASE i # id
        BY <1>1, <2>3, <2>4, <4>2 DEF TableSound
      <4> QED BY <4>1, <4>2
    <3> QED BY <1>0, <3>1, <3>2, <3>3, NextTable
  <2> QED BY <2>7, <2>8, <2>10 DEF TInv
<1> QED BY <1>2, <1>3

\* A running ticket ends with its handler.
LEMMA TicketEnds ==
    ASSUME TInv, NEW id \in TicketIds, getter[id] # "none",
           tickets' = EndTickets({id}, tickets), getter' = [getter EXCEPT ![id] = "none"],
           UNCHANGED <<desk, exports, left>>
    PROVE  TInv'
<1>0. /\ DeskTyped /\ ExportsLater /\ TableSound(tickets)
      /\ TicketIds' = TicketIds /\ Issued' = Issued
  BY DEF TInv, TicketIds, Issued
<1>1. id \in DOMAIN tickets /\ tickets[id].state = "running" /\ IsTicket(tickets[id])
  BY <1>0 DEF TableSound
<1>2. PICK n : n = Now(tickets)
  OBVIOUS
<1>3. /\ DOMAIN tickets' = DOMAIN tickets
      /\ tickets'[id] = [tickets[id] EXCEPT !.state = "finished", !.due = FALSE, !.at = n]
      /\ \A i \in DOMAIN tickets : i # id => tickets'[i] = tickets[i]
  BY <1>1, <1>2 DEF EndTickets, Finished
<1>4. IsTicket(tickets'[id]) /\ tickets'[id].state = "finished"
  BY <1>1, <1>3 DEF IsTicket, TicketStates
<1>5. /\ getter' \in [TicketIds -> {"none", "admit", "stream"}] /\ getter'[id] = "none"
      /\ \A i \in TicketIds : i # id => getter'[i] = getter[i]
  BY <1>0 DEF DeskTyped
<1>6. DeskTyped'
  BY <1>0, <1>5 DEF DeskTyped
<1>7. ExportsLater'
  BY <1>0, <1>5 DEF ExportsLater
<1>8. ASSUME NEW u
      PROVE  Cardinality(Active(tickets', u)) <= MaxActive
  <2>1. Active(tickets', u) \subseteq Active(tickets, u)
    BY <1>3, <1>4 DEF Active, Finished
  <2>2. IsFiniteSet(Active(tickets, u)) /\ Cardinality(Active(tickets, u)) \in Nat
    BY <1>0, IssuedNumber, TableFinite DEF TableSound
  <2>3. Cardinality(Active(tickets', u)) \in Nat
        /\ Cardinality(Active(tickets', u)) <= Cardinality(Active(tickets, u))
    BY <2>1, <2>2, FS_Subset, FS_CardinalityType
  <2>4. Cardinality(Active(tickets, u)) <= MaxActive
    BY <1>0 DEF TableSound
  <2> QED BY <2>2, <2>3, <2>4, TicketsAssumption
<1>9. TableSound(tickets)'
  <2>1. /\ DOMAIN tickets' \subseteq 1..Issued' /\ Cardinality(DOMAIN tickets') <= MaxTickets
        /\ \A i \in DOMAIN tickets' : IsTicket(tickets'[i])
        /\ \A i \in DOMAIN tickets' : tickets'[i].state = "pending" => exports'[i] = 0
    <3>1. exports' = exports /\ DOMAIN tickets' = DOMAIN tickets
          /\ \A i \in DOMAIN tickets : i # id => tickets'[i] = tickets[i]
      BY <1>3
    <3>2. tickets'[id].state # "pending"
      BY <1>4
    <3> QED BY <1>0, <1>4, <3>1, <3>2 DEF TableSound
  <2>2. ASSUME NEW i \in TicketIds
        PROVE  (getter'[i] # "none") <=> (i \in DOMAIN tickets' /\ tickets'[i].state = "running")
    <3>1. CASE i = id
      <4>1. getter'[i] = "none" /\ tickets'[i].state = "finished"
        BY <1>4, <1>5, <3>1
      <4> QED BY <4>1
    <3>2. CASE i # id
      <4>1. /\ getter'[i] = getter[i] /\ DOMAIN tickets' = DOMAIN tickets
            /\ i \in DOMAIN tickets => tickets'[i] = tickets[i]
        BY <1>3, <1>5, <3>2
      <4>2. (getter[i] # "none") <=> (i \in DOMAIN tickets /\ tickets[i].state = "running")
        BY <1>0 DEF TableSound
      <4> QED BY <4>1, <4>2
    <3> QED BY <3>1, <3>2
  <2> QED BY <1>8, <2>1, <2>2, NextTable
<1> QED BY <1>6, <1>7, <1>9 DEF TInv

\* The archive slot: the export begins, or the ticket is spent.
LEMMA AdmitStep ==
    ASSUME TInv, NEW id \in TicketIds, admitDownload(id)
    PROVE  TInv'
<1>1. CASE archiveSlot # {}
  BY <1>1, TicketEnds DEF admitDownload
<1>2. CASE archiveSlot = {}
  <2>0. /\ DeskTyped /\ ExportsLater /\ TableSound(tickets) /\ getter[id] = "admit"
        /\ getter' = [getter EXCEPT ![id] = "stream"] /\ exports' = [exports EXCEPT ![id] = @ + 1]
        /\ UNCHANGED <<tickets, desk, left>> /\ TicketIds' = TicketIds /\ Issued' = Issued
    BY <1>2 DEF TInv, admitDownload, TicketIds, Issued
  <2>1. /\ getter' \in [TicketIds -> {"none", "admit", "stream"}] /\ getter'[id] = "stream"
        /\ \A i \in TicketIds : i # id => getter'[i] = getter[i]
    BY <2>0 DEF DeskTyped
  <2>2. exports[id] = 0
    BY <2>0 DEF ExportsLater
  <2>3. /\ exports' \in [TicketIds -> {0, 1}] /\ exports'[id] = 1
        /\ \A i \in TicketIds : i # id => exports'[i] = exports[i]
    BY <2>0, <2>2 DEF DeskTyped
  <2>4. id \in DOMAIN tickets /\ tickets[id].state = "running" /\ DOMAIN tickets \subseteq 1..Issued
    BY <2>0 DEF TableSound
  <2>5. ~(id > Issued)
    BY <2>0, <2>4, IssuedNumber
  <2>6. DeskTyped' /\ ExportsLater'
    BY <2>0, <2>1, <2>3, <2>5 DEF DeskTyped, ExportsLater
  <2>7. \A u : Active(tickets, u)' = Active(tickets, u)
    BY <2>0 DEF Active, Finished
  <2>8. TableSound(tickets)'
    <3>1. 1..Issued \subseteq TicketIds
      BY <2>0, IssuedNumber
    <3> QED BY <2>0, <2>1, <2>3, <2>4, <2>7, <3>1 DEF TableSound
  <2> QED BY <2>6, <2>8 DEF TInv
<1> QED BY <1>1, <1>2

\* Time passes.
LEMMA ElapseStep ==
    ASSUME TInv, NEW id \in TicketIds, elapse(id)
    PROVE  TInv'
<1>1. /\ id \in DOMAIN tickets /\ tickets' = [tickets EXCEPT ![id].due = TRUE]
      /\ UNCHANGED <<desk, getter, exports, left>> /\ \A i \in DOMAIN tickets : IsTicket(tickets[i])
  BY DEF elapse, TInv, TableSound
<1>2. /\ DOMAIN tickets' = DOMAIN tickets /\ tickets'[id] = [tickets[id] EXCEPT !.due = TRUE]
      /\ \A i \in DOMAIN tickets : i # id => tickets'[i] = tickets[i]
  BY <1>1
<1>3. IsTicket(tickets'[id]) /\ tickets'[id].session = tickets[id].session
      /\ tickets'[id].state = tickets[id].state
  <2>1. PICK t : t = tickets[id]
    OBVIOUS
  <2>2. IsTicket(t) /\ tickets'[id] = [t EXCEPT !.due = TRUE]
    BY <1>1, <1>2, <2>1
  <2> QED BY <2>1, <2>2 DEF IsTicket
<1>4. Tidied(tickets, tickets')
  BY <1>1, <1>2, <1>3 DEF Tidied
<1> QED BY <1>1, <1>4, TidyStep

\* A restart takes the table and the handlers with it.
LEMMA RestartStep ==
    ASSUME TInv, restart
    PROVE  TInv'
<1>0. /\ DeskTyped /\ ExportsLater /\ UNCHANGED <<desk, exports>>
      /\ left' = [left EXCEPT !.restarts = @ - 1]
      /\ getter' = [id \in TicketIds |-> "none"] /\ tickets' = <<>>
  BY DEF TInv, restart, Use
<1>1. DOMAIN tickets' = {}
  BY <1>0
<1>2. "issues" \in DOMAIN left' /\ left'.issues = left.issues
  BY <1>0 DEF DeskTyped
<1>3. TicketIds' = TicketIds /\ Issued' = Issued
  BY <1>0, <1>2 DEF TicketIds, Issued
<1>4. DeskTyped' /\ ExportsLater'
  BY <1>0, <1>2, <1>3 DEF DeskTyped, ExportsLater
<1>5. \A u : Active(tickets', u) = {}
  BY <1>1 DEF Active
<1>6. Cardinality({}) = 0 /\ 0 <= MaxActive /\ 0 <= MaxTickets
  BY FS_EmptySet, TicketsAssumption
<1>7. TableSound(tickets)'
  BY <1>0, <1>3, <1>5, <1>6, <1>1, NextTable
<1> QED BY <1>4, <1>7 DEF TInv

\* Another archive operation comes or goes.
LEMMA OtherStep ==
    ASSUME TInv, otherArchive
    PROVE  TInv'
<1>0. /\ DeskTyped /\ ExportsLater /\ TableSound(tickets) /\ UNCHANGED <<desk, tickets, getter, exports>>
      /\ left' = left \/ left' = [left EXCEPT !.busy = @ - 1]
  BY DEF TInv, otherArchive, Use
<1>1. "issues" \in DOMAIN left' /\ left'.issues = left.issues
  BY <1>0 DEF DeskTyped
<1>2. TicketIds' = TicketIds /\ Issued' = Issued
  BY <1>0, <1>1 DEF TicketIds, Issued
<1>3. DeskTyped' /\ ExportsLater'
  BY <1>0, <1>1, <1>2 DEF DeskTyped, ExportsLater
<1>4. \A u : Active(tickets, u)' = Active(tickets, u)
  BY <1>0 DEF Active
<1>5. TableSound(tickets)'
  BY <1>0, <1>2, <1>4 DEF TableSound
<1> QED BY <1>3, <1>5 DEF TInv

LEMMA TicketsStart == TicketInit => TInv
<1> SUFFICES ASSUME TicketInit PROVE TInv
  OBVIOUS
<1>0. /\ desk \in TicketScenarios /\ DOMAIN tickets = {} /\ desk.issues \in Nat
      /\ getter = [id \in TicketIds |-> "none"] /\ exports = [id \in TicketIds |-> 0]
      /\ "issues" \in DOMAIN left /\ left.issues = desk.issues
  BY TicketsAssumption DEF TicketInit
<1>1. DeskTyped /\ ExportsLater
  BY <1>0 DEF DeskTyped, ExportsLater
<1>2. \A u : Active(tickets, u) = {}
  BY <1>0 DEF Active
<1>3. Cardinality({}) = 0 /\ 0 <= MaxActive /\ 0 <= MaxTickets
  BY FS_EmptySet, TicketsAssumption
<1>4. TableSound(tickets)
  BY <1>0, <1>2, <1>3 DEF TableSound
<1> QED BY <1>1, <1>4 DEF TInv

LEMMA TicketsStep == TInv /\ [TicketsNext]_ticketVars => TInv'
<1> SUFFICES ASSUME TInv, [TicketsNext]_ticketVars PROVE TInv'
  OBVIOUS
<1>1. ASSUME NEW s \in Sessions, issue(s) PROVE TInv'
  BY <1>1, IssueStep
<1>2. ASSUME NEW id \in TicketIds, NEW s \in Sessions, consume(id, s) PROVE TInv'
  BY <1>2, ConsumeStep
<1>3. ASSUME NEW id \in TicketIds, admitDownload(id) \/ download(id) \/ elapse(id) PROVE TInv'
  <2>1. CASE download(id)
    BY <2>1, TicketEnds DEF download
  <2> QED BY <1>3, <2>1, AdmitStep, ElapseStep
<1>4. CASE status
  BY <1>4, CleanupTidies, TidyStep DEF status
<1>5. CASE UNCHANGED ticketVars
  <2>1. Tidied(tickets, tickets')
    BY <1>5 DEF TInv, TableSound, Tidied, ticketVars
  <2> QED BY <1>5, <2>1, TidyStep DEF ticketVars
<1> QED BY <1>1, <1>2, <1>3, <1>4, <1>5, OtherStep, RestartStep DEF TicketsNext

\* A ticket starts one export at most, and a ticket is running exactly while its handler is, with
\* any number of tickets, sessions, accounts and restarts (downloadTickets, Handler.download).
THEOREM TicketsAreSound == TicketSpec => []TicketsSound
<1>1. ASSUME TInv
      PROVE  TicketsSound
  <2>1. DownloadOnce
    BY <1>1 DEF TInv, DeskTyped, DownloadOnce
  <2>2. RunningHasHandler
    BY <1>1 DEF TInv, TableSound, RunningHasHandler
  <2> QED BY <2>1, <2>2 DEF TicketsSound
<1> HIDE DEF TicketsSound
<1> QED BY <1>1, TicketsStart, TicketsStep, PTL DEF TicketSpec

-----------------------------------------------------------------------------
(***************************************************************************)
(* BackupRestore: the archive's notes are inserted once, and a ledger that *)
(* is complete has its objects.                                            *)
(***************************************************************************)

\* An operation, the ledger and a link have their fields.
OpFields == {"pc", "mode", "attempt", "linkMap", "noteFiles", "inserted", "owned", "pending", "raced", "rows"}
IsOp(o) == DOMAIN o = OpFields /\ o = [f \in OpFields |-> o[f]]
IsLedger(g) ==
    /\ g = [found |-> g.found, complete |-> g.complete, linkMap |-> g.linkMap, noteFiles |-> g.noteFiles]
    /\ g.found \in BOOLEAN /\ g.complete \in BOOLEAN

IsLink(l) == l = [id |-> l.id, url |-> l.url, img |-> l.img, via |-> l.via]

RestoreShapes ==
    /\ rest \in RestoreScenarios
    /\ \A l \in links : IsLink(l)
    /\ op = [b \in Backends |-> op[b]] /\ \A b \in Backends : IsOp(op[b])
    /\ IsLedger(ledger)
    /\ IsFiniteSet(objects) /\ \A b \in Backends : IsFiniteSet(op[b].pending)

NoteKeys == {n.key : n \in archive.notes}

\* What an operation under way knows of its request, of its archive and of the lock.
OpKnown(b) ==
    /\ ~At(b, "idle") => b \in rest.backends
    /\ op[b].mode = "skip" => "skip" \in rest.modes
    /\ op[b].mode = "wipe" => "wipe" \in rest.modes
    /\ At(b, "wipe") => op[b].mode = "wipe"
    /\ op[b].pc \notin {"idle", "export"} => inspectBackupArchive(archive)
    /\ op[b].pc \in {"begin", "apply"} => DOMAIN op[b].noteFiles = NoteKeys
    /\ At(b, "apply") => restoreLock = {b}
    /\ At(b, "apply") /\ op[b].mode = "skip" => ~ledger.found
    /\ At(b, "export") => Cardinality(op[b].pending) <= MaxEntries - 2

\* A ledger maps the archive's note objects, and no ledger stands for no row of a skip restore.
LedgerKnown ==
    /\ ledger.complete => ledger.found
    /\ ledger.found => "skip" \in rest.modes /\ DOMAIN ledger.noteFiles = NoteKeys /\ inspectBackupArchive(archive)

SkipNotes == {n \in notes : n.via = "skip"}
NotesOnce ==
    /\ ~ledger.found => SkipNotes = {}
    /\ IsFiniteSet(SkipNotes) /\ Cardinality(SkipNotes) <= Cardinality(archive.notes)

\* A link that a skip restore inserted names its own object.
SkipLinksNamed ==
    \A l \in links : l.via = "skip" => ledger.found /\ (l.id \in Range(ledger.linkMap) => l.img = l.id)

ExportsFit ==
    \A a \in exported : IsFiniteSet(a.files) /\ a.sums = a.files /\ Cardinality(a.files) <= MaxEntries - 2

ROnce ==
    RestoreShapes /\ (\A b \in Backends : OpKnown(b)) /\ LedgerKnown /\ NotesOnce /\ SkipLinksNamed /\ ExportsFit

\* The objects that the ledger's rows name, of the ones the archive holds: the notes' all, the
\* links' that an operation takes for inserted.
NotesPut(keys) == \A s \in NoteKeys : Key("note", ledger.noteFiles[s]) \in keys
LinksPut(ids, keys) ==
    \A s \in DOMAIN ledger.linkMap :
        ledger.linkMap[s] \in ids /\ Key("link", s) \in archive.files => Key("link", ledger.linkMap[s]) \in keys
SkipIds == {l.id : l \in {k \in links : k.via = "skip"}}

\* An operation that writes objects for a skip restore writes those of the ledger that is there.
WritesLedger(b) ==
    op[b].pc \in {"plan", "put"} /\ op[b].mode = "skip" =>
        /\ ledger.found /\ op[b].linkMap = ledger.linkMap /\ op[b].noteFiles = ledger.noteFiles
        /\ SkipIds \cap Range(ledger.linkMap) \subseteq op[b].inserted
Planned(b) ==
    At(b, "put") /\ op[b].mode = "skip" =>
        NotesPut(op[b].pending \cup objects) /\ LinksPut(op[b].inserted, op[b].pending \cup objects)
WipesForget(b) == At(b, "wipe") => ~ledger.found
CompleteIsPut == ledger.complete => NotesPut(objects) /\ LinksPut(SkipIds, objects)

RFiles ==
    /\ ROnce /\ WipesAlone
    /\ \A b \in Backends : WritesLedger(b) /\ Planned(b) /\ WipesForget(b)
    /\ CompleteIsPut

\* What the idle operation is.
LEMMA OpIdles == IsOp(Idle) /\ Idle.pc = "idle" /\ Idle.mode = "none" /\ Idle.pending = {}
<1>1. DOMAIN Idle = OpFields  BY DEF Idle, OpFields
<1>2. Idle = [f \in OpFields |-> Idle[f]]  BY DEF Idle, OpFields
<1> QED BY <1>1, <1>2 DEF IsOp, Idle

\* A backend's operation moves, and no other.
LEMMA OpMoves ==
    ASSUME op = [b \in Backends |-> op[b]], NEW b \in Backends, NEW o, Go(b, o)
    PROVE  /\ op' = [c \in Backends |-> op'[c]] /\ op'[b] = o
           /\ \A c \in Backends : c # b => op'[c] = op[c]
BY DEF Go

\* The mapping of a ledger stays when it is completed.
SameMapping ==
    /\ IsLedger(ledger') /\ (ledger'.complete => ledger'.found)
    /\ ledger'.found = ledger.found /\ ledger'.linkMap = ledger.linkMap /\ ledger'.noteFiles = ledger.noteFiles

\* A step of one operation that inserts no row needs to keep its own operation sound, and to leave
\* the lock with the others.
LEMMA OnceMoves ==
    ASSUME ROnce, NEW b \in Backends, NEW o, Go(b, o), IsOp(o), IsFiniteSet(o.pending),
           UNCHANGED <<rest, links, notes>>, SameMapping, IsFiniteSet(objects'), ExportsFit', OpKnown(b)',
           \A c \in Backends : c # b /\ restoreLock = {c} => restoreLock' = {c}
    PROVE  ROnce'
<1>1. op' = [c \in Backends |-> op'[c]] /\ op'[b] = o /\ \A c \in Backends : c # b => op'[c] = op[c]
  BY OpMoves DEF ROnce, RestoreShapes
<1>2. RestoreShapes'
  BY <1>1 DEF ROnce, RestoreShapes, SameMapping
<1>3. ASSUME NEW c \in Backends PROVE OpKnown(c)'
  <2>1. CASE c = b  BY <2>1
  <2>2. CASE c # b
    <3>1. op'[c] = op[c] /\ (restoreLock = {c} => restoreLock' = {c})  BY <1>1, <2>2
    <3> QED BY <3>1 DEF ROnce, OpKnown, At, NoteKeys, archive, SameMapping
  <2> QED BY <2>1, <2>2
<1>4. LedgerKnown' /\ NotesOnce' /\ SkipLinksNamed'
  BY DEF ROnce, LedgerKnown, NotesOnce, SkipNotes, SkipLinksNamed, NoteKeys, archive, SameMapping
<1> QED BY <1>2, <1>3, <1>4 DEF ROnce

LEMMA RestoreStarts == RestoreInit => ROnce
<1> SUFFICES ASSUME RestoreInit PROVE ROnce
  OBVIOUS
<1>1. RestoreShapes
  <2>1. IsFiniteSet(objects)
    <3> DEFINE S == {j \in DOMAIN rest.live : rest.live[j].img}
    <3>1. IsFiniteSet(DOMAIN rest.live)  BY RestoreAssumption DEF RestoreInit
    <3>2. IsFiniteSet(S)  BY <3>1, FS_Subset
    <3>3. [i \in S |-> Key("link", i)] \in Surjection(S, {Key("link", i) : i \in S})
      BY DEF Surjection
    <3>4. IsFiniteSet({Key("link", i) : i \in S})  BY <3>2, <3>3, FS_Surjection
    <3> QED BY <3>4 DEF RestoreInit
  <2>2. \A b \in Backends : IsOp(op[b]) /\ IsFiniteSet(op[b].pending)
    BY OpIdles, FS_EmptySet DEF RestoreInit
  <2>3. IsLedger(ledger)
    BY DEF RestoreInit, IsLedger, NoLedger
  <2>4. \A l \in links : IsLink(l)
    BY DEF RestoreInit, IsLink
  <2> QED BY <2>1, <2>2, <2>3, <2>4 DEF RestoreShapes, RestoreInit
<1>2. \A b \in Backends : OpKnown(b)
  BY DEF RestoreInit, OpKnown, At, Idle
<1>3. NotesOnce
  <2>1. SkipNotes = {}  BY DEF RestoreInit, SkipNotes
  <2>2. IsFiniteSet(archive.notes)  BY RestoreAssumption DEF RestoreInit, archive
  <2>3. Cardinality(archive.notes) \in Nat  BY <2>2, FS_CardinalityType
  <2>4. IsFiniteSet({}) /\ Cardinality({}) = 0  BY FS_EmptySet
  <2> QED BY <2>1, <2>3, <2>4 DEF NotesOnce
<1>4. LedgerKnown
  BY DEF RestoreInit, LedgerKnown, NoLedger
<1>5. SkipLinksNamed /\ ExportsFit
  BY DEF RestoreInit, SkipLinksNamed, ExportsFit
<1> QED BY <1>1, <1>2, <1>3, <1>4, <1>5 DEF ROnce

\* Steps of one operation that change no row, but may change objects.
LEMMA OnceOpSteps ==
    ASSUME ROnce, NEW b \in Backends,
           \/ \E mode \in {"skip", "wipe", "duplicate"} : restoreRequest(b, mode)
           \/ restoreFromLedger(b) \/ prepareNoteMediaRestore(b) \/ applyRestoreTransaction(b) \/ slugRace(b)
    PROVE  ROnce'
<1> USE DEF ROnce
<1> DEFINE o == op'[b]
<1>0. /\ rest \in RestoreScenarios /\ op = [c \in Backends |-> op[c]] /\ IsOp(op[b]) /\ IsLedger(ledger)
      /\ IsFiniteSet(objects) /\ IsFiniteSet(op[b].pending) /\ OpKnown(b)
  BY DEF RestoreShapes
<1>1. IsOp(Idle) /\ IsFiniteSet(Idle.pending)
  BY FS_EmptySet, OpIdles
<1>2. ASSUME SameMapping \/ ledger' = ledger PROVE SameMapping
  BY <1>0, <1>2 DEF SameMapping, LedgerKnown
<1>3. ASSUME NEW mode \in {"skip", "wipe", "duplicate"}, restoreRequest(b, mode) PROVE ROnce'
  <2> DEFINE n == [Idle EXCEPT !.pc = "ledger", !.mode = mode]
  <2>1. Go(b, n) /\ UNCHANGED <<rest, Contents, objects, restoreLock, exported>>
        /\ mode \in rest.modes /\ b \in rest.backends /\ inspectBackupArchive(archive)
    BY <1>3 DEF restoreRequest, admitArchive
  <2>2. n.pc = "ledger" /\ n.mode = mode /\ n.pending = {} /\ IsOp(n)
    <3>1. IsOp(Idle) /\ Idle.pending = {}  BY OpIdles
    <3>2. IsOp(n) /\ n.pc = "ledger" /\ n.mode = mode /\ n.pending = Idle.pending  BY <3>1 DEF IsOp, OpFields
    <3> HIDE DEF n
    <3> QED BY <3>1, <3>2
  <2>3. op'[b] = n  BY <1>0, <2>1, OpMoves
  <2>4. OpKnown(b)'
    BY <2>1, <2>2, <2>3 DEF OpKnown, At, archive, inspectBackupArchive, inspectArchive, manifestChecksumErrors, missingNoteMediaErrors
  <2> QED BY <1>0, <1>2, <2>1, <2>2, <2>4, FS_EmptySet, OnceMoves DEF Contents, ExportsFit
<1>4. ASSUME restoreFromLedger(b) \/ prepareNoteMediaRestore(b) \/ applyRestoreTransaction(b) \/ slugRace(b)
      PROVE ROnce'
  <2> DEFINE Next1(n) ==
        \/ n = Idle
        \/ /\ IsOp(n) /\ n.mode = op[b].mode /\ n.pending = op[b].pending
           /\ n.pc \in {"prepare", "begin", "apply", "plan"}
           /\ n.pc = "begin" => DOMAIN n.noteFiles = NoteKeys
           /\ n.pc = "apply" => DOMAIN n.noteFiles = NoteKeys /\ restoreLock' = {b} /\ (n.mode = "skip" => ~ledger.found)
  <2>0. Next1(resumeSkipRestore(op[b])) /\ Next1(Idle)
    <3> DEFINE n == [op[b] EXCEPT !.pc = "plan", !.linkMap = ledger.linkMap, !.noteFiles = ledger.noteFiles,
                                  !.inserted = Range(ledger.linkMap)]
    <3>1. IsOp(n) /\ n.pc = "plan" /\ n.mode = op[b].mode /\ n.pending = op[b].pending  BY <1>0 DEF IsOp, OpFields
    <3>2. resumeSkipRestore(op[b]) = Idle \/ resumeSkipRestore(op[b]) = n  BY DEF resumeSkipRestore
    <3> HIDE DEF n
    <3>3. Next1(n)  BY <3>1
    <3> QED BY <3>2, <3>3
  <2>1. \E n : Go(b, n) /\ Next1(n)
    <3>1. CASE restoreFromLedger(b)
      <4> DEFINE n == [op[b] EXCEPT !.pc = "prepare"]
      <4>0. IsOp(n) /\ n.pc = "prepare" /\ n.mode = op[b].mode /\ n.pending = op[b].pending  BY <1>0 DEF IsOp, OpFields
      <4>1. Next1(n)
        <5> HIDE DEF n
        <5> QED BY <4>0
      <4>2. Go(b, n) \/ Go(b, resumeSkipRestore(op[b]))  BY <3>1 DEF restoreFromLedger
      <4> HIDE DEF n, Next1
      <4> QED BY <2>0, <4>1, <4>2
    <3>2. CASE prepareNoteMediaRestore(b)
      <4> DEFINE f == reserveRestoreIDs({m.key : m \in archive.notes})
                 n == [op[b] EXCEPT !.pc = "begin", !.noteFiles = f]
      <4>1. DOMAIN f = NoteKeys  BY DEF reserveRestoreIDs, NoteKeys
      <4>0. IsOp(n) /\ n.pc = "begin" /\ n.mode = op[b].mode /\ n.pending = op[b].pending /\ n.noteFiles = f
        BY <1>0 DEF IsOp, OpFields
      <4>2. Next1(n)
        <5> HIDE DEF n, f
        <5> QED BY <4>0, <4>1
      <4>3. Go(b, n)  BY <3>2 DEF prepareNoteMediaRestore
      <4> HIDE DEF n, Next1
      <4> QED BY <4>2, <4>3
    <3>3. CASE applyRestoreTransaction(b)
      <4> DEFINE keys == IF op[b].mode = "wipe" THEN userObjectKeys(media) ELSE {}
                 n == [op[b] EXCEPT !.pc = "apply", !.raced = FALSE, !.owned = keys]
      <4>1. CASE restoreLock' = {b} /\ ~loadRestoreLedger(op[b].mode).found
        <5>1. op[b].mode = "skip" => ~ledger.found  BY <4>1 DEF loadRestoreLedger
        <5>2. DOMAIN op[b].noteFiles = NoteKeys  BY <1>0, <3>3 DEF OpKnown, At, applyRestoreTransaction
        <5>0. IsOp(n) /\ n.pc = "apply" /\ n.mode = op[b].mode /\ n.pending = op[b].pending
              /\ n.noteFiles = op[b].noteFiles
          BY <1>0 DEF IsOp, OpFields
        <5>3. Next1(n)
          <6> HIDE DEF n
          <6> QED BY <5>0, <4>1, <5>1, <5>2
        <5> HIDE DEF Next1
        <5> QED BY <2>0, <3>3, <5>3 DEF applyRestoreTransaction
      <4>2. CASE ~(restoreLock' = {b} /\ ~loadRestoreLedger(op[b].mode).found)
        <5>1. Go(b, Idle) \/ Go(b, resumeSkipRestore(op[b]))
          BY <3>3, <4>2 DEF applyRestoreTransaction
        <5> HIDE DEF Next1
        <5> QED BY <2>0, <5>1
      <4> QED BY <4>1, <4>2
    <3>4. CASE slugRace(b)
      <4> DEFINE n == [op[b] EXCEPT !.pc = "begin", !.attempt = @ + 1, !.owned = {}]
      <4>1. DOMAIN op[b].noteFiles = NoteKeys  BY <1>0, <3>4 DEF OpKnown, At, slugRace
      <4>0. IsOp(n) /\ n.pc = "begin" /\ n.mode = op[b].mode /\ n.pending = op[b].pending
            /\ n.noteFiles = op[b].noteFiles
        BY <1>0 DEF IsOp, OpFields
      <4>2. Next1(n)
        <5> HIDE DEF n
        <5> QED BY <4>0, <4>1
      <4>3. Go(b, n) \/ Go(b, Idle)  BY <3>4 DEF slugRace
      <4> HIDE DEF n, Next1
      <4> QED BY <2>0, <4>2, <4>3
    <3> QED BY <1>4, <3>1, <3>2, <3>3, <3>4
  <2>1a. PICK n : Go(b, n) /\ Next1(n)  BY <2>1
  <2>2. UNCHANGED <<rest, Contents, objects, exported>>
    BY <1>4 DEF restoreFromLedger, prepareNoteMediaRestore, applyRestoreTransaction, slugRace
  <2>3. op[b].pc \in {"ledger", "prepare", "begin", "apply"}
    BY <1>4 DEF restoreFromLedger, prepareNoteMediaRestore, applyRestoreTransaction, slugRace, At
  <2>4. \A c \in Backends : c # b /\ restoreLock = {c} => restoreLock' = {c}
    BY <1>4, <2>3 DEF restoreFromLedger, prepareNoteMediaRestore, applyRestoreTransaction, slugRace, At, OpKnown
  <2>5. op'[b] = n  BY <1>0, <2>1a, OpMoves
  <2>6. OpKnown(b)'
    BY <1>0, <2>1a, <2>2, <2>3, <2>5 DEF OpKnown, At, Idle, NoteKeys, Contents, archive, inspectBackupArchive, inspectArchive,
       manifestChecksumErrors, missingNoteMediaErrors
  <2>7. IsOp(n) /\ IsFiniteSet(n.pending)  BY <1>0, <1>1, <2>1a
  <2> QED BY <1>0, <1>2, <2>1a, <2>2, <2>4, <2>6, <2>7, OnceMoves DEF Contents, ExportsFit
<1> QED BY <1>3, <1>4

\* An archive of finitely many files gives finitely many objects to write.
LEMMA PlanFinite ==
    ASSUME ROnce, NEW b \in Backends
    PROVE  IsFiniteSet(UNION {remapRestoreFileKey(b, k) : k \in archive.files})
<1> DEFINE F(k) == remapRestoreFileKey(b, k)
           S == {F(k) : k \in archive.files}
<1>1. ASSUME NEW k PROVE IsFiniteSet(F(k))
  <2>1. F(k) \subseteq {Key("link", op[b].linkMap[k.id]), Key("note", op[b].noteFiles[k.id])}
    BY DEF remapRestoreFileKey, remapFileKey
  <2>2. IsFiniteSet({Key("link", op[b].linkMap[k.id])} \cup {Key("note", op[b].noteFiles[k.id])})
    BY FS_Singleton, FS_Union
  <2>3. F(k) \subseteq {Key("link", op[b].linkMap[k.id])} \cup {Key("note", op[b].noteFiles[k.id])}
    BY <2>1
  <2> HIDE DEF F
  <2> QED BY <2>2, <2>3, FS_Subset
<1>2. IsFiniteSet(archive.files)
  BY RestoreAssumption DEF ROnce, RestoreShapes, archive
<1> HIDE DEF F
<1>3. [k \in archive.files |-> F(k)] \in Surjection(archive.files, S)
  BY DEF Surjection
<1>4. IsFiniteSet(S)
  BY <1>2, <1>3, FS_Surjection
<1>5. \A T \in S : IsFiniteSet(T)
  BY <1>1
<1>6. IsFiniteSet(UNION S)
  <2> HIDE DEF S
  <2> QED BY <1>4, <1>5, FS_UNION
<1> QED BY <1>6 DEF F

\* The steps after the commit, an export's and a stop.
LEMMA OnceFileSteps ==
    ASSUME ROnce, NEW b \in Backends,
           \/ Files(b) \/ runRestoreObjectTasks(b)
           \/ captureExportSnapshot(b) \/ writeExportZip(b) \/ crashBackend(b)
    PROVE  ROnce'
<1>0. /\ rest \in RestoreScenarios /\ op = [c \in Backends |-> op[c]] /\ IsOp(op[b]) /\ IsLedger(ledger)
      /\ IsFiniteSet(objects) /\ IsFiniteSet(op[b].pending) /\ OpKnown(b) /\ ExportsFit /\ LedgerKnown
  BY DEF ROnce, RestoreShapes
<1>1. IsOp(Idle) /\ IsFiniteSet(Idle.pending) /\ Idle.pc = "idle" /\ Idle.mode = "none"
  BY FS_EmptySet, OpIdles
<1> USE DEF ROnce
<1>2. ledger' = ledger => SameMapping
  BY <1>0 DEF SameMapping, LedgerKnown
<1>3. ASSUME NEW n, Go(b, n), IsOp(n), IsFiniteSet(n.pending), n.mode = op[b].mode,
             n.pc \in {"plan", "put"}, op[b].pc \notin {"idle", "export"}, rest' = rest
      PROVE  OpKnown(b)'
  <2>1. op'[b] = n  BY <1>0, <1>3, OpMoves
  <2> QED BY <1>0, <1>3, <2>1 DEF OpKnown, At, archive, inspectBackupArchive, inspectArchive,
       manifestChecksumErrors, missingNoteMediaErrors
<1>4. ASSUME Go(b, Idle) PROVE OpKnown(b)'
  <2>1. op'[b] = Idle  BY <1>0, <1>4, OpMoves
  <2> QED BY <1>1, <2>1 DEF OpKnown, At
<1>5. CASE wipeRestoreFiles(b)
  <2> DEFINE n == [op[b] EXCEPT !.pc = "plan", !.owned = {}]
  <2>1. IsOp(n) /\ n.pc = "plan" /\ n.mode = op[b].mode /\ n.pending = op[b].pending  BY <1>0 DEF IsOp, OpFields
  <2>2. /\ Go(b, n) /\ op[b].pc = "wipe" /\ objects' = objects \ op[b].owned
        /\ UNCHANGED <<rest, links, notes, ledger, restoreLock, exported>>
    BY <1>5 DEF wipeRestoreFiles, At
  <2>3. IsFiniteSet(objects')  BY <1>0, <2>2, FS_Subset
  <2> HIDE DEF n
  <2>4. OpKnown(b)'  BY <1>0, <1>3, <2>1, <2>2
  <2> QED BY <1>0, <1>2, <2>1, <2>2, <2>3, <2>4, OnceMoves DEF ExportsFit
<1>6. CASE buildRestoreFilePlan(b)
  <2> DEFINE keys == UNION {remapRestoreFileKey(b, k) : k \in archive.files}
             put == keys \ existingRestoreFiles(b)
             n == [op[b] EXCEPT !.pc = "put", !.pending = put]
  <2>2. /\ Go(b, n) /\ op[b].pc = "plan"
        /\ UNCHANGED <<rest, links, notes, ledger, objects, restoreLock, exported>>
    BY <1>6 DEF buildRestoreFilePlan, At, Contents
  <2>0. IsFiniteSet(put)
    <3>1. IsFiniteSet(keys)  BY PlanFinite
    <3> HIDE DEF keys
    <3> QED BY <3>1, FS_Difference
  <2> HIDE DEF put
  <2>1. IsOp(n) /\ n.pc = "put" /\ n.mode = op[b].mode /\ n.pending = put  BY <1>0 DEF IsOp, OpFields
  <2> HIDE DEF n
  <2>4. OpKnown(b)'  BY <1>0, <1>3, <2>0, <2>1, <2>2
  <2> QED BY <1>0, <1>2, <2>0, <2>1, <2>2, <2>4, OnceMoves DEF ExportsFit
<1>7. CASE applyRestoreObject(b)
  <2>0. PICK k \in op[b].pending :
          objects' = objects \cup {k} /\ Go(b, [op[b] EXCEPT !.pending = @ \ {k}])
    BY <1>7 DEF applyRestoreObject
  <2> DEFINE n == [op[b] EXCEPT !.pending = @ \ {k}]
  <2>1. IsOp(n) /\ n.pc = op[b].pc /\ n.mode = op[b].mode /\ n.pending = op[b].pending \ {k}
    BY <1>0 DEF IsOp, OpFields
  <2>2. Go(b, n) /\ op[b].pc = "put" /\ UNCHANGED <<rest, links, notes, ledger, restoreLock, exported>>
    BY <1>7, <2>0 DEF applyRestoreObject, At, Contents
  <2>3. IsFiniteSet(objects')  BY <1>0, <2>0, FS_Singleton, FS_Union
  <2> HIDE DEF n
  <2>5. IsFiniteSet(n.pending)  BY <1>0, <2>1, FS_Subset
  <2>4. OpKnown(b)'  BY <1>0, <1>3, <2>1, <2>2, <2>5
  <2> QED BY <1>0, <1>2, <2>1, <2>2, <2>3, <2>4, <2>5, OnceMoves DEF ExportsFit
<1>8. CASE completeRestoreLedger(b)
  <2>1. Go(b, Idle) /\ UNCHANGED <<rest, links, notes, objects, restoreLock, exported>>
        /\ ledger' = [ledger EXCEPT !.complete = @ \/ (op[b].mode = "skip" /\ ledger.found)]
    BY <1>8 DEF completeRestoreLedger
  <2>2. SameMapping  BY <1>0, <2>1 DEF IsLedger, SameMapping, LedgerKnown
  <2> QED BY <1>0, <1>1, <1>4, <2>1, <2>2, OnceMoves DEF ExportsFit
<1>9. CASE runRestoreObjectTasks(b)
  <2>1. Go(b, Idle) /\ UNCHANGED <<rest, links, notes, ledger, restoreLock, exported>>
        /\ \E done \in SUBSET op[b].pending : objects' = objects \cup done
    BY <1>9 DEF runRestoreObjectTasks, Contents
  <2>2. IsFiniteSet(objects')  BY <1>0, <2>1, FS_Subset, FS_Union
  <2> QED BY <1>0, <1>1, <1>2, <1>4, <2>1, <2>2, OnceMoves DEF ExportsFit
<1>10. CASE captureExportSnapshot(b)
  <2> DEFINE keys == listOwnedObjects
             n == [Idle EXCEPT !.pc = "export", !.rows = streamSnapshotJSON, !.pending = keys]
  <2>1. IsOp(n) /\ n.pc = "export" /\ n.mode = "none" /\ n.pending = keys
    <3>1. IsOp(n) /\ n.pc = "export" /\ n.mode = Idle.mode /\ n.pending = keys  BY <1>1 DEF IsOp, OpFields
    <3> HIDE DEF n, keys
    <3> QED BY <1>1, <3>1
  <2>2. /\ Go(b, n) /\ UNCHANGED <<rest, links, notes, ledger, objects, restoreLock, exported>>
        /\ b \in rest.backends /\ Cardinality(keys) <= MaxEntries - 2
    BY <1>10 DEF captureExportSnapshot, admitArchive, addToListing, Contents
  <2>3. IsFiniteSet(keys)  BY <1>0, FS_Subset DEF listOwnedObjects
  <2> HIDE DEF n, keys
  <2>4. op'[b] = n  BY <1>0, <2>2, OpMoves
  <2>5. OpKnown(b)'  BY <2>1, <2>2, <2>4 DEF OpKnown, At
  <2> QED BY <1>0, <1>2, <2>1, <2>2, <2>3, <2>5, OnceMoves DEF ExportsFit
<1>11. CASE writeExportZip(b)
  <2>1. Go(b, Idle) /\ UNCHANGED <<rest, links, notes, ledger, objects, restoreLock>>
        /\ op[b].pc = "export" /\ b \in Backends
        /\ \A a \in exported' : a \in exported \/ (a.files = op[b].pending /\ a.sums = op[b].pending)
    BY <1>11 DEF writeExportZip, At, Contents
  <2>2. Cardinality(op[b].pending) <= MaxEntries - 2  BY <1>0, <2>1 DEF OpKnown, At
  <2>3. ExportsFit'  BY <1>0, <2>1, <2>2 DEF ExportsFit
  <2> QED BY <1>0, <1>1, <1>2, <1>4, <2>1, <2>3, OnceMoves
<1>12. CASE crashBackend(b)
  <2>1. Go(b, Idle) /\ UNCHANGED <<rest, links, notes, ledger, exported>> /\ restoreLock' = restoreLock \ {b}
        /\ objects' \subseteq objects
    BY <1>12 DEF crashBackend, Contents
  <2>2. IsFiniteSet(objects')  BY <1>0, <2>1, FS_Subset
  <2>3. \A c \in Backends : c # b /\ restoreLock = {c} => restoreLock' = {c}  BY <2>1
  <2> QED BY <1>0, <1>1, <1>2, <1>4, <2>1, <2>2, <2>3, OnceMoves DEF ExportsFit
<1> QED BY <1>5, <1>6, <1>7, <1>8, <1>9, <1>10, <1>11, <1>12 DEF Files

\* What a transaction leaves of the links: the ones a skip restore inserted earlier, unless it is a
\* wipe, and its own; the ones it maps name their own objects.
LEMMA CommitLinks ==
    ASSUME RestoreShapes, NEW b \in Backends, applyRestoreMode(b)
    PROVE  /\ \A l \in links' : IsLink(l)
           /\ \A l \in links' : l.via = "skip" =>
                 \/ op[b].mode = "skip" /\ l.id \in op'[b].inserted /\ (l.id \in Range(op'[b].linkMap) => l.img = l.id)
                 \/ /\ op[b].mode # "wipe"
                    /\ \E k \in links : k.via = "skip" /\ k.id = l.id /\ (l.img = k.img \/ l.img = l.id)
           /\ op'[b] = [op[b] EXCEPT !.pc = IF op[b].mode = "wipe" THEN "wipe" ELSE "plan",
                                     !.linkMap = op'[b].linkMap, !.inserted = op'[b].inserted]
           /\ op' = [op EXCEPT ![b] = op'[b]]
           /\ ledger' = saveRestoreLedger(b, op'[b].linkMap)
<1> DEFINE ids == reserveRestoreIDs({l.id : l \in archive.links})
           ins == restoreConflictLinks(b, ids)
           rows == restoreStaged(b, ins)
           lm == loadStagedIDMapping(rows)
           n == [op[b] EXCEPT !.pc = IF op[b].mode = "wipe" THEN "wipe" ELSE "plan",
                              !.linkMap = lm, !.inserted = {l.id : l \in ins}]
<1>1. /\ links' = realignLinkImageURLs(rows, Range(lm)) /\ ledger' = saveRestoreLedger(b, lm)
      /\ Go(b, n)
  BY DEF applyRestoreMode
<1>2. \A l \in rows : IsLink(l) /\ (l \in ins \/ (op[b].mode # "wipe" /\ l \in links))
  <2>1. \A l \in ins : IsLink(l)
    <3> HIDE DEF ids
    <3> QED BY DEF restoreConflictLinks, IsLink
  <2> HIDE DEF ins
  <2> QED BY <2>1 DEF restoreStaged, wipeUser, RestoreShapes
<1> HIDE DEF ids
<1>3. \A l \in ins : l.via = op[b].mode
  BY DEF restoreConflictLinks
<1> HIDE DEF ins, rows, lm
<1>4. IsOp(n) /\ n.linkMap = lm /\ n.inserted = {l.id : l \in ins}
  BY DEF RestoreShapes, IsOp, OpFields
<1>5. op'[b] = n /\ op' = [op EXCEPT ![b] = n]
  BY <1>1, OpMoves DEF RestoreShapes, Go
<1>6. ASSUME NEW l \in rows, NEW R, NEW m, m = [l EXCEPT !.img = IF l.id \in R THEN l.id ELSE @]
      PROVE  IsLink(m) /\ m.id = l.id /\ m.via = l.via /\ m.img = IF l.id \in R THEN l.id ELSE l.img
  <2>1. l = [id |-> l.id, url |-> l.url, img |-> l.img, via |-> l.via]  BY <1>2 DEF IsLink
  <2> QED BY <1>6, <2>1 DEF IsLink
<1>7. \A m \in links' : \E l \in rows :
         IsLink(m) /\ m.id = l.id /\ m.via = l.via /\ m.img = IF l.id \in Range(lm) THEN l.id ELSE l.img
  BY <1>1, <1>6 DEF realignLinkImageURLs
<1>8. ASSUME NEW l \in links', l.via = "skip"
      PROVE  \/ op[b].mode = "skip" /\ l.id \in n.inserted /\ (l.id \in Range(n.linkMap) => l.img = l.id)
             \/ /\ op[b].mode # "wipe"
                /\ \E k \in links : k.via = "skip" /\ k.id = l.id /\ (l.img = k.img \/ l.img = l.id)
  <2>1. PICK k \in rows : l.id = k.id /\ l.via = k.via /\ l.img = IF k.id \in Range(lm) THEN k.id ELSE k.img
    BY <1>7
  <2> HIDE DEF n
  <2>2. CASE k \in ins  BY <1>3, <1>4, <1>8, <2>1, <2>2
  <2>3. CASE op[b].mode # "wipe" /\ k \in links  BY <1>8, <2>1, <2>3
  <2> QED BY <1>2, <2>2, <2>3
<1>9. n = [op[b] EXCEPT !.pc = IF op[b].mode = "wipe" THEN "wipe" ELSE "plan",
                        !.linkMap = n.linkMap, !.inserted = n.inserted]
  BY <1>4
<1> HIDE DEF n
<1> QED BY <1>1, <1>4, <1>5, <1>7, <1>8, <1>9

\* The commit of a restore: in skip mode it is the first, and its notes are the archive's.
LEMMA OnceCommits ==
    ASSUME ROnce, NEW b \in Backends, applyRestoreMode(b)
    PROVE  ROnce'
<1> DEFINE n == op'[b]
<1>0. /\ rest \in RestoreScenarios /\ op = [c \in Backends |-> op[c]] /\ IsOp(op[b]) /\ IsLedger(ledger)
      /\ IsFiniteSet(objects) /\ IsFiniteSet(op[b].pending) /\ OpKnown(b) /\ ExportsFit /\ LedgerKnown /\ RestoreShapes
  BY DEF ROnce, RestoreShapes
<1>1. /\ op[b].pc = "apply" /\ restoreLock = {b} /\ restoreLock' = {} /\ UNCHANGED <<rest, objects, exported>>
      /\ notes' = wipeUser(b, notes) \cup insertStagedNotes(b)
  BY <1>0 DEF applyRestoreMode, At, OpKnown
<1>2. /\ b \in rest.backends /\ inspectBackupArchive(archive) /\ DOMAIN op[b].noteFiles = NoteKeys
      /\ (op[b].mode = "skip" => "skip" \in rest.modes /\ ~ledger.found)
      /\ (op[b].mode = "wipe" => "wipe" \in rest.modes)
  BY <1>0, <1>1 DEF OpKnown, At
<1>3. /\ n = [op[b] EXCEPT !.pc = IF op[b].mode = "wipe" THEN "wipe" ELSE "plan",
                           !.linkMap = n.linkMap, !.inserted = n.inserted]
      /\ op' = [op EXCEPT ![b] = n] /\ ledger' = saveRestoreLedger(b, n.linkMap)
  BY <1>0, CommitLinks
<1>4. /\ IsOp(n) /\ n.mode = op[b].mode /\ n.pending = op[b].pending /\ n.noteFiles = op[b].noteFiles
      /\ n.pc = IF op[b].mode = "wipe" THEN "wipe" ELSE "plan"
  <2> DEFINE x == n.linkMap  y == n.inserted
             m == [op[b] EXCEPT !.pc = IF op[b].mode = "wipe" THEN "wipe" ELSE "plan", !.linkMap = x, !.inserted = y]
  <2>1. n = m  BY <1>3
  <2> HIDE DEF n, x, y
  <2>2. IsOp(m) /\ m.mode = op[b].mode /\ m.pending = op[b].pending /\ m.noteFiles = op[b].noteFiles
        /\ m.pc = IF op[b].mode = "wipe" THEN "wipe" ELSE "plan"
    BY <1>0 DEF IsOp, OpFields
  <2> QED BY <2>1, <2>2
<1>5. op' = [c \in Backends |-> op'[c]] /\ \A c \in Backends : c # b => op'[c] = op[c]
  BY <1>0, <1>3
<1> HIDE DEF n
<1>6. /\ op[b].mode = "skip" => /\ ledger'.found /\ ~ledger'.complete /\ ledger'.linkMap = n.linkMap
                                /\ ledger'.noteFiles = op[b].noteFiles
      /\ op[b].mode = "wipe" => ~ledger'.found /\ ~ledger'.complete
      /\ op[b].mode \notin {"skip", "wipe"} => ledger' = ledger
      /\ IsLedger(ledger')
  BY <1>0, <1>3 DEF saveRestoreLedger, NoLedger, IsLedger
<1>7. RestoreShapes'
  <2>1. \A l \in links' : IsLink(l)  BY <1>0, CommitLinks
  <2>2. \A c \in Backends : IsOp(op'[c]) /\ IsFiniteSet(op'[c].pending)
    BY <1>0, <1>4, <1>5 DEF n, RestoreShapes
  <2> QED BY <1>0, <1>1, <1>5, <1>6, <2>1, <2>2 DEF RestoreShapes
<1>8. archive' = archive /\ inspectBackupArchive(archive') /\ NoteKeys' = NoteKeys
  BY <1>1, <1>2 DEF archive, NoteKeys, inspectBackupArchive, inspectArchive, manifestChecksumErrors, missingNoteMediaErrors
<1>9. ASSUME NEW c \in Backends PROVE OpKnown(c)'
  <2>1. CASE c = b
    <3>1. op'[c] = n  BY <2>1 DEF n
    <3> QED BY <1>1, <1>2, <1>4, <1>8, <2>1, <3>1 DEF OpKnown, At
  <2>2. CASE c # b
    <3>1. op'[c] = op[c] /\ OpKnown(c) /\ op[c].pc # "apply"
      BY <1>1, <1>5, <2>2 DEF ROnce, OpKnown, At
    <3> QED BY <1>1, <1>8, <3>1 DEF OpKnown, At
  <2> QED BY <2>1, <2>2
<1>10. LedgerKnown'
  BY <1>0, <1>1, <1>2, <1>6, <1>8 DEF LedgerKnown
<1>11. NotesOnce'
  <2>1. \A x \in insertStagedNotes(b) : x.via = op[b].mode
    BY DEF insertStagedNotes
  <2>2. CASE op[b].mode = "skip"
    <3> DEFINE f == [x \in archive.notes |-> [key |-> op[b].noteFiles[x.key], via |-> "skip"]]
    <3>1. SkipNotes = {} /\ wipeUser(b, notes) = notes
      BY <1>2, <2>2 DEF ROnce, NotesOnce, wipeUser
    <3>2. SkipNotes' = insertStagedNotes(b)
      BY <1>1, <2>1, <2>2, <3>1 DEF SkipNotes
    <3>3. insertStagedNotes(b) = {[key |-> op[b].noteFiles[x.key], via |-> "skip"] : x \in archive.notes}
      BY <2>2 DEF insertStagedNotes, restoreNoteMediaRefs
    <3>4. f \in Surjection(archive.notes, insertStagedNotes(b))
      BY <3>3 DEF Surjection
    <3>5. IsFiniteSet(archive.notes)  BY <1>0, RestoreAssumption DEF archive
    <3>6. IsFiniteSet(insertStagedNotes(b)) /\ Cardinality(insertStagedNotes(b)) <= Cardinality(archive.notes)
      <4> HIDE DEF f
      <4> QED BY <3>4, <3>5, FS_Surjection
    <3> QED BY <1>6, <1>8, <2>2, <3>2, <3>6 DEF NotesOnce
  <2>3. CASE op[b].mode = "wipe"
    <3>1. SkipNotes' = {}
      BY <1>1, <2>1, <2>3 DEF SkipNotes, wipeUser
    <3>2. IsFiniteSet({}) /\ Cardinality({}) = 0  BY FS_EmptySet
    <3>3. Cardinality(archive.notes) \in Nat
      BY <1>0, RestoreAssumption, FS_CardinalityType DEF archive
    <3> QED BY <1>8, <3>1, <3>2, <3>3 DEF NotesOnce
  <2>4. CASE op[b].mode \notin {"skip", "wipe"}
    <3>1. SkipNotes' = SkipNotes
      BY <1>1, <2>1, <2>4 DEF SkipNotes, wipeUser
    <3> QED BY <1>6, <1>8, <2>4, <3>1 DEF ROnce, NotesOnce
  <2> QED BY <2>2, <2>3, <2>4
<1>12. SkipLinksNamed'
  <2> SUFFICES ASSUME NEW l \in links', l.via = "skip"
               PROVE  ledger'.found /\ (l.id \in Range(ledger'.linkMap) => l.img = l.id)
    BY DEF SkipLinksNamed
  <2>1. \/ op[b].mode = "skip" /\ l.id \in n.inserted /\ (l.id \in Range(n.linkMap) => l.img = l.id)
        \/ /\ op[b].mode # "wipe"
           /\ \E k \in links : k.via = "skip" /\ k.id = l.id /\ (l.img = k.img \/ l.img = l.id)
    BY <1>0, CommitLinks DEF n
  <2>2. \A k \in links : k.via = "skip" => ledger.found /\ (k.id \in Range(ledger.linkMap) => k.img = k.id)
    BY DEF ROnce, SkipLinksNamed
  <2>3. CASE op[b].mode = "skip"  BY <1>2, <1>6, <2>1, <2>2, <2>3
  <2>4. CASE op[b].mode # "skip"  BY <1>6, <2>1, <2>2, <2>4
  <2> QED BY <2>3, <2>4
<1> QED BY <1>0, <1>1, <1>7, <1>9, <1>10, <1>11, <1>12 DEF ROnce, ExportsFit

\* What a user does to the links takes no slot, lock or ledger.
LEMMA OnceUserSteps ==
    ASSUME ROnce, (\E l \in archive.links : userCreates(l.url)) \/ (\E l \in links : userDeletes(l))
    PROVE  ROnce'
<1>1. /\ UNCHANGED <<rest, notes, objects, ledger, restoreLock, exported>>
      /\ op' = [c \in Backends |-> op'[c]]
      /\ \A c \in Backends : /\ IsOp(op'[c]) /\ op'[c].pc = op[c].pc /\ op'[c].mode = op[c].mode
                             /\ op'[c].noteFiles = op[c].noteFiles /\ op'[c].pending = op[c].pending
      /\ \A l \in links' : l \in links \/ (IsLink(l) /\ l.via = "user")
  <2>1. CASE \E l \in links : userDeletes(l)
    BY <2>1 DEF userDeletes, ROnce, RestoreShapes
  <2>2. CASE \E l \in archive.links : userCreates(l.url)
    <3>0. PICK u : userCreates(u)  BY <2>2
    <3>1. /\ UNCHANGED <<rest, notes, objects, ledger, restoreLock, exported>>
          /\ op' = [c \in Backends |-> [op[c] EXCEPT !.raced = At(c, "apply")]]
          /\ \E id : links' = links \cup {[id |-> id, url |-> u, img |-> id, via |-> "user"]}
      BY <3>0 DEF userCreates
    <3>2. ASSUME NEW c \in Backends
          PROVE  /\ IsOp(op'[c]) /\ op'[c].pc = op[c].pc /\ op'[c].mode = op[c].mode
                 /\ op'[c].noteFiles = op[c].noteFiles /\ op'[c].pending = op[c].pending
      <4> DEFINE x == At(c, "apply")
                 m == [op[c] EXCEPT !.raced = x]
      <4>1. op'[c] = m  BY <3>1
      <4>2. IsOp(op[c])  BY DEF ROnce, RestoreShapes
      <4> HIDE DEF x
      <4>3. IsOp(m) /\ m.pc = op[c].pc /\ m.mode = op[c].mode /\ m.noteFiles = op[c].noteFiles /\ m.pending = op[c].pending
        BY <4>2 DEF IsOp, OpFields
      <4> QED BY <4>1, <4>3
    <3> QED BY <3>1, <3>2 DEF IsLink
  <2> QED BY <2>1, <2>2
<1>2. RestoreShapes'
  BY <1>1 DEF ROnce, RestoreShapes
<1>3. \A c \in Backends : OpKnown(c)'
  BY <1>1 DEF ROnce, OpKnown, At, NoteKeys, archive, inspectBackupArchive, inspectArchive, manifestChecksumErrors,
       missingNoteMediaErrors
<1>4. LedgerKnown' /\ NotesOnce' /\ ExportsFit'
  BY <1>1 DEF ROnce, LedgerKnown, NotesOnce, SkipNotes, ExportsFit, NoteKeys, archive, inspectBackupArchive, inspectArchive,
       manifestChecksumErrors, missingNoteMediaErrors
<1>5. SkipLinksNamed'
  BY <1>1 DEF ROnce, SkipLinksNamed
<1> QED BY <1>2, <1>3, <1>4, <1>5 DEF ROnce

LEMMA OnceStep == ROnce /\ [RestoreNext]_restoreVars => ROnce'
<1> SUFFICES ASSUME ROnce, [RestoreNext]_restoreVars PROVE ROnce'
  OBVIOUS
<1>1. CASE RestoreNext
  <2>1. CASE (\E l \in archive.links : userCreates(l.url)) \/ (\E l \in links : userDeletes(l))
    BY <2>1, OnceUserSteps
  <2>2. ASSUME NEW b \in Backends,
               \/ \E mode \in {"skip", "wipe", "duplicate"} : restoreRequest(b, mode)
               \/ Transaction(b) \/ Files(b) \/ runRestoreObjectTasks(b)
               \/ captureExportSnapshot(b) \/ writeExportZip(b) \/ crashBackend(b)
        PROVE  ROnce'
    BY <2>2, OnceOpSteps, OnceFileSteps, OnceCommits DEF Transaction
  <2> QED BY <1>1, <2>1, <2>2 DEF RestoreNext
<1>2. CASE UNCHANGED restoreVars
  BY <1>2 DEF ROnce, RestoreShapes, OpKnown, At, LedgerKnown, NotesOnce, SkipNotes, SkipLinksNamed, ExportsFit,
       NoteKeys, archive, inspectBackupArchive, inspectArchive, manifestChecksumErrors, missingNoteMediaErrors, restoreVars
<1> QED BY <1>1, <1>2

\* Restoring the same archive again in skip mode, after a crash, a failed upload or from a second
\* backend at the same time, inserts its notes once, whatever is wiped or duplicated in between
\* (restore_ledger.go: the ledger commits with the rows).
THEOREM RestoresOnce == RestoreSpec => []SkipRestoresOnce
<1>1. ROnce => SkipRestoresOnce
  BY DEF ROnce, NotesOnce, SkipNotes, SkipRestoresOnce
<1> QED BY <1>1, RestoreStarts, OnceStep, PTL DEF RestoreSpec

LEMMA FilesStart == RestoreInit /\ WipesAlone => RFiles
BY RestoreStarts, OpIdles DEF RestoreInit, RFiles, WritesLedger, Planned, WipesForget, CompleteIsPut, At, NoLedger

\* Objects are put or, while no ledger is there, deleted: what a complete ledger speaks of stays.
KeepsObjects == ~ledger.found \/ objects \subseteq objects'

LEMMA CompleteStays ==
    ASSUME RFiles, rest' = rest, ledger' = ledger, KeepsObjects, SkipIds' \subseteq SkipIds
    PROVE  CompleteIsPut'
BY DEF RFiles, ROnce, LedgerKnown, CompleteIsPut, KeepsObjects, NotesPut, LinksPut, NoteKeys, archive

\* An operation that does not move keeps what it knows of its ledger.
LEMMA OthersWrite ==
    ASSUME RFiles, NEW c \in Backends, rest' = rest, SameMapping, KeepsObjects, SkipIds' \subseteq SkipIds,
           op'[c].pc = op[c].pc, op'[c].mode = op[c].mode, op'[c].linkMap = op[c].linkMap,
           op'[c].noteFiles = op[c].noteFiles, op'[c].inserted = op[c].inserted, op'[c].pending = op[c].pending
    PROVE  WritesLedger(c)' /\ Planned(c)' /\ WipesForget(c)'
<1>1. WritesLedger(c) /\ Planned(c) /\ WipesForget(c)
  BY DEF RFiles
<1>2. WritesLedger(c)' /\ WipesForget(c)'
  BY <1>1 DEF WritesLedger, WipesForget, At, SameMapping
<1>3. Planned(c)'
  <2> SUFFICES ASSUME op[c].pc = "put", op[c].mode = "skip"
               PROVE  NotesPut(op[c].pending \cup objects)' /\ LinksPut(op[c].inserted, op[c].pending \cup objects)'
    BY DEF Planned, At
  <2>1. NotesPut(op[c].pending \cup objects) /\ LinksPut(op[c].inserted, op[c].pending \cup objects)
    BY <1>1 DEF Planned, At
  <2>2. objects \subseteq objects'
    BY <1>1 DEF WritesLedger, KeepsObjects
  <2> QED BY <2>1, <2>2 DEF NotesPut, LinksPut, NoteKeys, archive, SameMapping
<1> QED BY <1>2, <1>3

LEMMA FilesMoves ==
    ASSUME RFiles, ROnce', NEW b \in Backends, NEW o, Go(b, o), UNCHANGED <<rest, links>>, SameMapping, KeepsObjects,
           WritesLedger(b)', Planned(b)', WipesForget(b)', CompleteIsPut'
    PROVE  RFiles'
<1>1. \A c \in Backends : c # b => op'[c] = op[c]
  BY OpMoves DEF RFiles, ROnce, RestoreShapes
<1>2. SkipIds' = SkipIds
  BY DEF SkipIds
<1>3. ASSUME NEW c \in Backends PROVE WritesLedger(c)' /\ Planned(c)' /\ WipesForget(c)'
  <2>1. CASE c = b  BY <2>1
  <2>2. CASE c # b  BY <1>1, <1>2, <2>2, OthersWrite
  <2> QED BY <2>1, <2>2
<1> QED BY <1>3 DEF RFiles, WipesAlone

\* The steps of one operation.
LEMMA FilesOpSteps ==
    ASSUME RFiles, ROnce', NEW b \in Backends,
           \/ \E mode \in {"skip", "wipe", "duplicate"} : restoreRequest(b, mode)
           \/ restoreFromLedger(b) \/ prepareNoteMediaRestore(b) \/ applyRestoreTransaction(b) \/ slugRace(b)
           \/ runRestoreObjectTasks(b) \/ captureExportSnapshot(b) \/ writeExportZip(b) \/ crashBackend(b)
    PROVE  RFiles'
<1>0. /\ op = [c \in Backends |-> op[c]] /\ IsOp(op[b]) /\ IsLedger(ledger) /\ OpKnown(b) /\ LedgerKnown
      /\ WipesForget(b)
  BY DEF RFiles, ROnce, RestoreShapes
<1>1. UNCHANGED <<rest, links, ledger>>
  BY DEF restoreRequest, restoreFromLedger, prepareNoteMediaRestore, applyRestoreTransaction, slugRace,
       runRestoreObjectTasks, captureExportSnapshot, writeExportZip, crashBackend, Contents
<1>2. SameMapping /\ SkipIds' = SkipIds
  BY <1>0, <1>1 DEF SameMapping, LedgerKnown, SkipIds
<1>3. KeepsObjects
  <2>1. CASE crashBackend(b)
    BY <1>0, <2>1 DEF crashBackend, KeepsObjects, WipesForget
  <2>2. CASE ~crashBackend(b)
    BY <2>2 DEF restoreRequest, restoreFromLedger, prepareNoteMediaRestore, applyRestoreTransaction, slugRace,
       runRestoreObjectTasks, captureExportSnapshot, writeExportZip, KeepsObjects
  <2> QED BY <2>1, <2>2
<1>4. \E n : Go(b, n) /\ (\/ n.pc \notin {"plan", "put", "wipe"}
                          \/ /\ n.pc = "plan" /\ ledger.found /\ n.linkMap = ledger.linkMap
                             /\ n.noteFiles = ledger.noteFiles /\ n.inserted = Range(ledger.linkMap))
  <2> DEFINE Moved(n) == \/ n.pc \notin {"plan", "put", "wipe"}
                         \/ /\ n.pc = "plan" /\ ledger.found /\ n.linkMap = ledger.linkMap
                            /\ n.noteFiles = ledger.noteFiles /\ n.inserted = Range(ledger.linkMap)
  <2>0. Moved(Idle)  BY OpIdles
  <2>1. ASSUME NEW pc, NEW n, n = [op[b] EXCEPT !.pc = pc] PROVE n.pc = pc
    BY <1>0, <2>1 DEF IsOp, OpFields
  <2>2. ledger.found => Moved(resumeSkipRestore(op[b]))
    <3> DEFINE n == [op[b] EXCEPT !.pc = "plan", !.linkMap = ledger.linkMap, !.noteFiles = ledger.noteFiles,
                                  !.inserted = Range(ledger.linkMap)]
    <3>1. n.pc = "plan" /\ n.linkMap = ledger.linkMap /\ n.noteFiles = ledger.noteFiles
          /\ n.inserted = Range(ledger.linkMap)
      BY <1>0 DEF IsOp, OpFields
    <3>2. resumeSkipRestore(op[b]) = Idle \/ resumeSkipRestore(op[b]) = n  BY DEF resumeSkipRestore
    <3> HIDE DEF n
    <3>3. ledger.found => Moved(n)  BY <3>1
    <3> HIDE DEF Moved
    <3> QED BY <2>0, <3>2, <3>3
  <2>3. CASE restoreFromLedger(b)
    <3> DEFINE n == [op[b] EXCEPT !.pc = "prepare"]
    <3>1. Moved(n)  BY <1>0 DEF IsOp, OpFields
    <3>2. Go(b, n) \/ (ledger.found /\ Go(b, resumeSkipRestore(op[b])))
      BY <2>3 DEF restoreFromLedger, loadRestoreLedger, NoLedger
    <3> HIDE DEF n, Moved
    <3> QED BY <2>2, <3>1, <3>2 DEF Moved
  <2>4. CASE prepareNoteMediaRestore(b)
    <3> DEFINE f == reserveRestoreIDs({m.key : m \in archive.notes})
               n == [op[b] EXCEPT !.pc = "begin", !.noteFiles = f]
    <3>1. Go(b, n)  BY <2>4 DEF prepareNoteMediaRestore
    <3> HIDE DEF f
    <3>2. Moved(n)  BY <1>0 DEF IsOp, OpFields
    <3> HIDE DEF n, Moved
    <3> QED BY <3>1, <3>2 DEF Moved
  <2>5. CASE applyRestoreTransaction(b)
    <3> DEFINE keys == IF op[b].mode = "wipe" THEN userObjectKeys(media) ELSE {}
               n == [op[b] EXCEPT !.pc = "apply", !.raced = FALSE, !.owned = keys]
    <3>1. Go(b, n) \/ Go(b, Idle) \/ (ledger.found /\ Go(b, resumeSkipRestore(op[b])))
      BY <2>5 DEF applyRestoreTransaction, loadRestoreLedger, NoLedger
    <3> HIDE DEF keys
    <3>2. Moved(n)  BY <1>0 DEF IsOp, OpFields
    <3> HIDE DEF n, Moved
    <3> QED BY <2>0, <2>2, <3>1, <3>2 DEF Moved
  <2>6. CASE slugRace(b)
    <3> DEFINE n == [op[b] EXCEPT !.pc = "begin", !.attempt = @ + 1, !.owned = {}]
    <3>1. Go(b, n) \/ Go(b, Idle)  BY <2>6 DEF slugRace
    <3>2. Moved(n)  BY <1>0 DEF IsOp, OpFields
    <3> HIDE DEF n, Moved
    <3> QED BY <2>0, <3>1, <3>2 DEF Moved
  <2>7. CASE \E mode \in {"skip", "wipe", "duplicate"} : restoreRequest(b, mode)
    <3>1. PICK mode : Go(b, [Idle EXCEPT !.pc = "ledger", !.mode = mode])  BY <2>7 DEF restoreRequest
    <3> DEFINE n == [Idle EXCEPT !.pc = "ledger", !.mode = mode]
    <3>2. Moved(n)  BY OpIdles DEF IsOp, OpFields
    <3> HIDE DEF n, Moved
    <3> QED BY <3>1, <3>2 DEF n, Moved
  <2>8. CASE captureExportSnapshot(b)
    <3> DEFINE rows == streamSnapshotJSON  keys == listOwnedObjects
               n == [Idle EXCEPT !.pc = "export", !.rows = rows, !.pending = keys]
    <3>1. Go(b, n)  BY <2>8 DEF captureExportSnapshot
    <3> HIDE DEF rows, keys
    <3>2. Moved(n)  BY OpIdles DEF IsOp, OpFields
    <3> HIDE DEF n, Moved
    <3> QED BY <3>1, <3>2 DEF Moved
  <2>9. CASE runRestoreObjectTasks(b) \/ writeExportZip(b) \/ crashBackend(b)
    BY <2>0, <2>9 DEF runRestoreObjectTasks, writeExportZip, crashBackend
  <2> QED BY <2>3, <2>4, <2>5, <2>6, <2>7, <2>8, <2>9
<1>5. PICK n : Go(b, n) /\ (\/ n.pc \notin {"plan", "put", "wipe"}
                            \/ /\ n.pc = "plan" /\ ledger.found /\ n.linkMap = ledger.linkMap
                               /\ n.noteFiles = ledger.noteFiles /\ n.inserted = Range(ledger.linkMap))
  BY <1>4
<1>6. op'[b] = n
  BY <1>0, <1>5, OpMoves
<1>7. WritesLedger(b)' /\ Planned(b)' /\ WipesForget(b)'
  BY <1>1, <1>5, <1>6 DEF WritesLedger, Planned, WipesForget, At
<1> QED BY <1>1, <1>2, <1>3, <1>5, <1>7, CompleteStays, FilesMoves

\* The objects after the commit: a plan takes what the ledger names and the store has not, and an
\* operation completes the ledger that it wrote the objects of.
LEMMA FilesFileSteps ==
    ASSUME RFiles, ROnce', NEW b \in Backends, Files(b)
    PROVE  RFiles'
<1>0. /\ op = [c \in Backends |-> op[c]] /\ IsOp(op[b]) /\ IsLedger(ledger) /\ OpKnown(b) /\ LedgerKnown
      /\ WipesForget(b) /\ WritesLedger(b) /\ Planned(b)
  BY DEF RFiles, ROnce, RestoreShapes
<1>1. ASSUME UNCHANGED <<rest, links, ledger>> PROVE SameMapping /\ SkipIds' = SkipIds
  BY <1>0, <1>1 DEF SameMapping, LedgerKnown, SkipIds
<1>2. CASE wipeRestoreFiles(b)
  <2> DEFINE n == [op[b] EXCEPT !.pc = "plan", !.owned = {}]
  <2>1. n.pc = "plan" /\ n.mode = op[b].mode  BY <1>0 DEF IsOp, OpFields
  <2>2. Go(b, n) /\ op[b].pc = "wipe" /\ UNCHANGED <<rest, links, ledger>>
    BY <1>2 DEF wipeRestoreFiles, At
  <2> HIDE DEF n
  <2>3. op'[b] = n  BY <1>0, <2>2, OpMoves
  <2>4. op[b].mode = "wipe" /\ KeepsObjects  BY <1>0, <2>2 DEF OpKnown, WipesForget, At, KeepsObjects
  <2>5. WritesLedger(b)' /\ Planned(b)' /\ WipesForget(b)'
    BY <2>1, <2>3, <2>4 DEF WritesLedger, Planned, WipesForget, At
  <2> QED BY <1>1, <2>2, <2>4, <2>5, CompleteStays, FilesMoves
<1>3. CASE buildRestoreFilePlan(b)
  <2> DEFINE keys == UNION {remapRestoreFileKey(b, k) : k \in archive.files}
             put == keys \ existingRestoreFiles(b)
             n == [op[b] EXCEPT !.pc = "put", !.pending = put]
  <2>1. Go(b, n) /\ op[b].pc = "plan" /\ UNCHANGED <<rest, links, ledger, objects>>
    BY <1>3 DEF buildRestoreFilePlan, At, Contents
  <2>2. ASSUME op[b].mode = "skip"
        PROVE  NotesPut(put \cup objects) /\ LinksPut(op[b].inserted, put \cup objects)
    <3>1. keys \subseteq put \cup objects
      BY <2>2 DEF existingRestoreFiles
    <3>2. op[b].linkMap = ledger.linkMap /\ op[b].noteFiles = ledger.noteFiles /\ ledger.found
      BY <1>0, <2>1, <2>2 DEF WritesLedger
    <3>3. DOMAIN ledger.noteFiles = NoteKeys /\ inspectBackupArchive(archive)
      BY <1>0, <3>2 DEF LedgerKnown
    <3>4. NotesPut(keys)
      <4> SUFFICES ASSUME NEW s \in NoteKeys PROVE Key("note", ledger.noteFiles[s]) \in keys
        BY DEF NotesPut
      <4>1. Key("note", s) \in archive.files
        BY <3>3 DEF NoteKeys, inspectBackupArchive, missingNoteMediaErrors
      <4>2. Key("note", ledger.noteFiles[s]) \in remapRestoreFileKey(b, Key("note", s))
        BY <3>2, <3>3 DEF remapRestoreFileKey, Key
      <4> QED BY <4>1, <4>2
    <3>5. LinksPut(op[b].inserted, keys)
      <4> SUFFICES ASSUME NEW s \in DOMAIN ledger.linkMap, ledger.linkMap[s] \in op[b].inserted,
                          Key("link", s) \in archive.files
                   PROVE  Key("link", ledger.linkMap[s]) \in keys
        BY DEF LinksPut
      <4>1. Key("link", ledger.linkMap[s]) \in remapRestoreFileKey(b, Key("link", s))
        BY <3>2 DEF remapRestoreFileKey, remapFileKey, Key
      <4> QED BY <4>1
    <3> HIDE DEF keys, put
    <3> QED BY <3>1, <3>4, <3>5 DEF NotesPut, LinksPut
  <2> HIDE DEF put
  <2>3. /\ n.pc = "put" /\ n.mode = op[b].mode /\ n.linkMap = op[b].linkMap /\ n.noteFiles = op[b].noteFiles
        /\ n.inserted = op[b].inserted /\ n.pending = put
    BY <1>0 DEF IsOp, OpFields
  <2> HIDE DEF n
  <2>4. op'[b] = n  BY <1>0, <2>1, OpMoves
  <2>5. WritesLedger(b)' /\ WipesForget(b)'
    BY <1>0, <1>1, <2>1, <2>3, <2>4 DEF WritesLedger, WipesForget, At
  <2>6. Planned(b)'
    BY <2>1, <2>2, <2>3, <2>4 DEF Planned, At, NotesPut, LinksPut, NoteKeys, archive
  <2> QED BY <1>1, <2>1, <2>5, <2>6, CompleteStays, FilesMoves DEF KeepsObjects
<1>4. CASE applyRestoreObject(b)
  <2>0. PICK k \in op[b].pending :
          objects' = objects \cup {k} /\ Go(b, [op[b] EXCEPT !.pending = @ \ {k}])
    BY <1>4 DEF applyRestoreObject
  <2> DEFINE n == [op[b] EXCEPT !.pending = @ \ {k}]
  <2>1. /\ n.pc = op[b].pc /\ n.mode = op[b].mode /\ n.linkMap = op[b].linkMap /\ n.noteFiles = op[b].noteFiles
        /\ n.inserted = op[b].inserted /\ n.pending = op[b].pending \ {k}
    BY <1>0 DEF IsOp, OpFields
  <2>2. Go(b, n) /\ op[b].pc = "put" /\ UNCHANGED <<rest, links, ledger>>
    BY <1>4, <2>0 DEF applyRestoreObject, At, Contents
  <2> HIDE DEF n
  <2>3. op'[b] = n  BY <1>0, <2>2, OpMoves
  <2>4. n.pending \cup objects' = op[b].pending \cup objects  BY <2>0, <2>1
  <2>5. WritesLedger(b)' /\ WipesForget(b)'
    BY <1>0, <1>1, <2>1, <2>2, <2>3 DEF WritesLedger, WipesForget, At
  <2>6. Planned(b)'
    BY <1>0, <2>1, <2>2, <2>3, <2>4 DEF Planned, At, NotesPut, LinksPut, NoteKeys, archive
  <2>7. KeepsObjects  BY <2>0 DEF KeepsObjects
  <2> QED BY <1>1, <2>2, <2>5, <2>6, <2>7, CompleteStays, FilesMoves
<1>5. CASE completeRestoreLedger(b)
  <2>1. Go(b, Idle) /\ op[b].pc = "put" /\ op[b].pending = {} /\ UNCHANGED <<rest, links, objects>>
        /\ ledger' = [ledger EXCEPT !.complete = @ \/ (op[b].mode = "skip" /\ ledger.found)]
    BY <1>5 DEF completeRestoreLedger, At
  <2>2. SameMapping /\ (ledger'.complete => ledger.complete \/ (op[b].mode = "skip" /\ ledger.found))
    BY <1>0, <2>1 DEF IsLedger, SameMapping, LedgerKnown
  <2>3. op'[b] = Idle  BY <1>0, <2>1, OpMoves
  <2>4. WritesLedger(b)' /\ Planned(b)' /\ WipesForget(b)'
    BY <2>3, OpIdles DEF WritesLedger, Planned, WipesForget, At
  <2>5. CompleteIsPut'
    <3> SUFFICES ASSUME ledger'.complete PROVE NotesPut(objects)' /\ LinksPut(SkipIds, objects)'
      BY DEF CompleteIsPut
    <3>1. NotesPut(objects) /\ LinksPut(SkipIds, objects)
      <4>1. CASE ledger.complete  BY <4>1 DEF RFiles, CompleteIsPut
      <4>2. CASE op[b].mode = "skip" /\ ledger.found
        <5>1. NotesPut(objects) /\ LinksPut(op[b].inserted, objects)
          <6>1. op[b].pending \cup objects = objects  BY <2>1
          <6> QED BY <1>0, <2>1, <4>2, <6>1 DEF Planned, At
        <5>2. SkipIds \cap Range(ledger.linkMap) \subseteq op[b].inserted
          BY <1>0, <2>1, <4>2 DEF WritesLedger
        <5> QED BY <5>1, <5>2 DEF LinksPut, Range
      <4> QED BY <2>2, <4>1, <4>2
    <3> QED BY <2>1, <2>2, <3>1 DEF NotesPut, LinksPut, NoteKeys, archive, SkipIds, SameMapping
  <2>6. KeepsObjects  BY <2>1 DEF KeepsObjects
  <2> QED BY <2>1, <2>2, <2>4, <2>5, <2>6, FilesMoves
<1> QED BY <1>2, <1>3, <1>4, <1>5 DEF Files

\* The commit: of a skip restore, while nobody else writes objects for the archive; of a wipe, while
\* nobody else restores it in skip mode; or of one that leaves the ledger alone.
LEMMA FilesCommit ==
    ASSUME RFiles, ROnce', NEW b \in Backends, applyRestoreMode(b)
    PROVE  RFiles'
<1> DEFINE n == op'[b]
<1>0. /\ op = [c \in Backends |-> op[c]] /\ IsOp(op[b]) /\ IsLedger(ledger) /\ OpKnown(b) /\ LedgerKnown
      /\ RestoreShapes /\ WipesAlone
  BY DEF RFiles, ROnce, RestoreShapes
<1>1. op[b].pc = "apply" /\ UNCHANGED <<rest, objects>>
  BY DEF applyRestoreMode, At
<1>2. /\ b \in rest.backends
      /\ (op[b].mode = "skip" => "skip" \in rest.modes /\ ~ledger.found)
      /\ (op[b].mode = "wipe" => "wipe" \in rest.modes)
  BY <1>0, <1>1 DEF OpKnown, At
<1>3. /\ n = [op[b] EXCEPT !.pc = IF op[b].mode = "wipe" THEN "wipe" ELSE "plan",
                           !.linkMap = n.linkMap, !.inserted = n.inserted]
      /\ op' = [op EXCEPT ![b] = n] /\ ledger' = saveRestoreLedger(b, n.linkMap)
  BY <1>0, CommitLinks
<1>4. /\ n.mode = op[b].mode /\ n.noteFiles = op[b].noteFiles
      /\ n.pc = IF op[b].mode = "wipe" THEN "wipe" ELSE "plan"
  <2> DEFINE x == n.linkMap  y == n.inserted
             m == [op[b] EXCEPT !.pc = IF op[b].mode = "wipe" THEN "wipe" ELSE "plan", !.linkMap = x, !.inserted = y]
  <2>1. n = m  BY <1>3
  <2> HIDE DEF n, x, y
  <2>2. m.mode = op[b].mode /\ m.noteFiles = op[b].noteFiles
        /\ m.pc = IF op[b].mode = "wipe" THEN "wipe" ELSE "plan"
    BY <1>0 DEF IsOp, OpFields
  <2> QED BY <2>1, <2>2
<1>5. \A c \in Backends : c # b => op'[c] = op[c]
  BY <1>0, <1>3
<1>6. /\ op[b].mode = "skip" => /\ ledger'.found /\ ~ledger'.complete /\ ledger'.linkMap = n.linkMap
                                /\ ledger'.noteFiles = op[b].noteFiles
      /\ op[b].mode = "wipe" => ~ledger'.found /\ ~ledger'.complete
      /\ op[b].mode \notin {"skip", "wipe"} => ledger' = ledger
  BY <1>3 DEF saveRestoreLedger, NoLedger
<1>7. \A l \in links' : l.via = "skip" =>
         \/ op[b].mode = "skip" /\ l.id \in n.inserted
         \/ op[b].mode # "wipe" /\ l.id \in SkipIds
  BY <1>0, CommitLinks DEF n, SkipIds
<1>8. WipesAlone'
  BY <1>0, <1>1 DEF WipesAlone
<1>9. \A c \in Backends : WritesLedger(c) /\ WipesForget(c) /\ OpKnown(c)
  BY DEF RFiles, ROnce
<1> HIDE DEF n
<1>10. CASE op[b].mode = "skip"
  <2>1. ASSUME NEW c \in Backends PROVE WritesLedger(c)' /\ Planned(c)' /\ WipesForget(c)'
    <3>1. CASE c = b
      <4>1. SkipIds' \subseteq n.inserted
        <5>1. SkipIds = {}  BY <1>2, <1>10 DEF SkipIds, RFiles, ROnce, SkipLinksNamed
        <5> QED BY <1>7, <5>1 DEF SkipIds
      <4>2. op'[c] = n  BY <3>1 DEF n
      <4> QED BY <1>4, <1>6, <1>10, <4>1, <4>2 DEF WritesLedger, Planned, WipesForget, At
    <3>2. CASE c # b
      <4>1. op'[c] = op[c]  BY <1>5, <3>2
      <4>2. ~(op[c].pc \in {"plan", "put"} /\ op[c].mode = "skip")
        BY <1>2, <1>9, <1>10 DEF WritesLedger
      <4>3. op[c].pc # "wipe"
        BY <1>0, <1>2, <1>9, <1>10, <3>2 DEF WipesAlone, OpKnown, At
      <4> QED BY <4>1, <4>2, <4>3 DEF WritesLedger, Planned, WipesForget, At
    <3> QED BY <3>1, <3>2
  <2> QED BY <1>6, <1>8, <1>10, <2>1 DEF RFiles, CompleteIsPut
<1>11. CASE op[b].mode = "wipe"
  <2>1. ASSUME NEW c \in Backends PROVE WritesLedger(c)' /\ Planned(c)' /\ WipesForget(c)'
    <3>1. CASE c = b
      <4>1. op'[c] = n  BY <3>1 DEF n
      <4> QED BY <1>4, <1>6, <1>11, <4>1 DEF WritesLedger, Planned, WipesForget, At
    <3>2. CASE c # b
      <4>1. op'[c] = op[c]  BY <1>5, <3>2
      <4>2. ~(op[c].pc \in {"plan", "put"} /\ op[c].mode = "skip")
        BY <1>0, <1>2, <1>9, <1>11, <3>2 DEF WipesAlone, OpKnown, At
      <4> QED BY <1>6, <1>11, <4>1, <4>2 DEF WritesLedger, Planned, WipesForget, At
    <3> QED BY <3>1, <3>2
  <2> QED BY <1>6, <1>8, <1>11, <2>1 DEF RFiles, CompleteIsPut
<1>12. CASE op[b].mode \notin {"skip", "wipe"}
  <2>0. SkipIds' \subseteq SkipIds /\ ledger' = ledger /\ SameMapping /\ KeepsObjects
    BY <1>0, <1>1, <1>6, <1>7, <1>12 DEF SkipIds, SameMapping, LedgerKnown, KeepsObjects
  <2>1. ASSUME NEW c \in Backends PROVE WritesLedger(c)' /\ Planned(c)' /\ WipesForget(c)'
    <3>1. CASE c = b
      <4>1. op'[c] = n  BY <3>1 DEF n
      <4> QED BY <1>4, <1>12, <4>1 DEF WritesLedger, Planned, WipesForget, At
    <3>2. CASE c # b
      BY <1>1, <1>5, <2>0, <3>2, OthersWrite
    <3> QED BY <3>1, <3>2
  <2>2. CompleteIsPut'  BY <1>1, <2>0, CompleteStays
  <2> QED BY <1>8, <2>1, <2>2 DEF RFiles
<1> QED BY <1>10, <1>11, <1>12

LEMMA FilesUserSteps ==
    ASSUME RFiles, ROnce', (\E l \in archive.links : userCreates(l.url)) \/ (\E l \in links : userDeletes(l))
    PROVE  RFiles'
<1>0. op = [c \in Backends |-> op[c]] /\ (\A c \in Backends : IsOp(op[c])) /\ IsLedger(ledger) /\ LedgerKnown
  BY DEF RFiles, ROnce, RestoreShapes
<1>1. UNCHANGED <<rest, objects, ledger>> /\ SkipIds' \subseteq SkipIds
  BY DEF userCreates, userDeletes, SkipIds
<1>2. ASSUME NEW c \in Backends
      PROVE  /\ op'[c].pc = op[c].pc /\ op'[c].mode = op[c].mode /\ op'[c].linkMap = op[c].linkMap
             /\ op'[c].noteFiles = op[c].noteFiles /\ op'[c].inserted = op[c].inserted
             /\ op'[c].pending = op[c].pending
  <2> DEFINE x == At(c, "apply")
             m == [op[c] EXCEPT !.raced = x]
  <2>1. op'[c] = op[c] \/ op'[c] = m
    BY DEF userCreates, userDeletes
  <2> HIDE DEF x
  <2>2. /\ m.pc = op[c].pc /\ m.mode = op[c].mode /\ m.linkMap = op[c].linkMap /\ m.noteFiles = op[c].noteFiles
        /\ m.inserted = op[c].inserted /\ m.pending = op[c].pending
    BY <1>0 DEF IsOp, OpFields
  <2> HIDE DEF m
  <2> QED BY <2>1, <2>2
<1>3. SameMapping /\ KeepsObjects
  BY <1>0, <1>1 DEF SameMapping, LedgerKnown, KeepsObjects
<1>4. \A c \in Backends : WritesLedger(c)' /\ Planned(c)' /\ WipesForget(c)'
  BY <1>1, <1>2, <1>3, OthersWrite
<1>5. CompleteIsPut'
  BY <1>1, <1>3, CompleteStays
<1> QED BY <1>1, <1>4, <1>5 DEF RFiles, WipesAlone

LEMMA FilesStep == RFiles /\ [RestoreNext]_restoreVars => RFiles'
<1> SUFFICES ASSUME RFiles, [RestoreNext]_restoreVars PROVE RFiles'
  OBVIOUS
<1>0. ROnce'
  BY OnceStep DEF RFiles
<1>1. CASE RestoreNext
  <2>1. CASE (\E l \in archive.links : userCreates(l.url)) \/ (\E l \in links : userDeletes(l))
    BY <1>0, <2>1, FilesUserSteps
  <2>2. ASSUME NEW b \in Backends,
               \/ \E mode \in {"skip", "wipe", "duplicate"} : restoreRequest(b, mode)
               \/ Transaction(b) \/ Files(b) \/ runRestoreObjectTasks(b)
               \/ captureExportSnapshot(b) \/ writeExportZip(b) \/ crashBackend(b)
        PROVE  RFiles'
    BY <1>0, <2>2, FilesOpSteps, FilesFileSteps, FilesCommit DEF Transaction
  <2> QED BY <1>1, <2>1, <2>2 DEF RestoreNext
<1>2. CASE UNCHANGED restoreVars
  BY <1>0, <1>2 DEF RFiles, WipesAlone, WritesLedger, Planned, WipesForget, CompleteIsPut, NotesPut, LinksPut, NoteKeys,
       SkipIds, archive, At, restoreVars
<1> QED BY <1>1, <1>2

\* Unless a backend wipes the account while another restores the archive in skip mode: its notes are
\* inserted once; the ledger says its files are complete only when every row that the archive
\* inserted and the user kept has its object, whatever failed, stopped or was sent again
\* (completeRestoreLedger); and an archive that Export finishes is within Restore's limits.
THEOREM RestoreIsSound == RestoreSpec /\ WipesAlone => []RestoreSound
<1>1. ASSUME RFiles PROVE RestoreSound
  <2>1. ROnce  BY <1>1 DEF RFiles
  <2>2. SkipRestoresOnce
    BY <2>1 DEF ROnce, NotesOnce, SkipNotes, SkipRestoresOnce
  <2>3. CompleteMeansFiles
    <3> SUFFICES ASSUME ledger.complete
                 PROVE  /\ \A n \in notes : n.key \in Range(ledger.noteFiles) => Key("note", n.key) \in objects
                        /\ \A s \in DOMAIN ledger.linkMap : \A l \in links :
                              l.id = ledger.linkMap[s] /\ l.via = "skip" /\ Key("link", s) \in archive.files =>
                                  Key("link", l.img) \in objects
      BY DEF CompleteMeansFiles
    <3>1. NotesPut(objects) /\ LinksPut(SkipIds, objects) /\ DOMAIN ledger.noteFiles = NoteKeys
      BY <1>1, <2>1 DEF RFiles, ROnce, CompleteIsPut, LedgerKnown
    <3>2. \A l \in links : l.via = "skip" => l.id \in SkipIds /\ (l.id \in Range(ledger.linkMap) => l.img = l.id)
      BY <2>1 DEF ROnce, SkipLinksNamed, SkipIds
    <3> QED BY <3>1, <3>2 DEF NotesPut, LinksPut, Range
  <2>4. ExportFits
    <3> SUFFICES ASSUME NEW a \in exported PROVE inspectArchive(a) /\ ~manifestChecksumErrors(a)
      BY DEF ExportFits
    <3>1. IsFiniteSet(a.files) /\ a.sums = a.files /\ Cardinality(a.files) <= MaxEntries - 2
      BY <2>1 DEF ROnce, ExportsFit
    <3>2. Cardinality(a.files) \in Nat /\ MaxEntries \in Nat  BY <3>1, FS_CardinalityType, RestoreAssumption
    <3> QED BY <3>1, <3>2 DEF inspectArchive, manifestChecksumErrors
  <2> QED BY <2>2, <2>3, <2>4 DEF RestoreSound
<1> QED BY <1>1, FilesStart, FilesStep, PTL DEF RestoreSpec

-------------------------------------------------------------------------------
(***************************************************************************)
(* BackupAgenda: the arithmetic of the week, the catch-up and the floor.   *)
(***************************************************************************)

\* A time has a quotient and a remainder, and no others.
LEMMA Quotients ==
    ASSUME NEW k \in Nat \ {0}, NEW c \in Int
    PROVE  /\ c \div k \in Int /\ c % k \in 0..(k - 1)
           /\ c = (c \div k) * k + (c % k)
<1>1. k \in Int /\ k > 0
  OBVIOUS
<1>2. c \div k \in Int /\ c % k \in 0..(k - 1)
  BY <1>1
<1>3. c = k * (c \div k) + (c % k)
  BY <1>1
<1> DEFINE q == c \div k
<1>4. q \in Int /\ k * q = q * k
  BY <1>1, <1>2
<1> QED BY <1>2, <1>3, <1>4

LEMMA QuotientIs ==
    ASSUME NEW k \in Nat \ {0}, NEW q \in Int, NEW r \in 0..(k - 1)
    PROVE  (q * k + r) \div k = q /\ (q * k + r) % k = r
<1> DEFINE c == q * k + r
<1>1. c \in Int /\ k \in Int /\ k > 0
  OBVIOUS
<1>2. c \div k \in Int /\ c % k \in 0..(k - 1) /\ c = (c \div k) * k + (c % k)
  BY <1>1, Quotients
<1> DEFINE p == c \div k
           s == c % k
<1>3. q * k + r = p * k + s /\ p \in Int /\ s \in 0..(k - 1)
  BY <1>2
<1> HIDE DEF p, s
<1>4. ASSUME p < q PROVE FALSE
  <2>1. PICK e \in Nat : q = p + 1 + e
    BY <1>3, <1>4
  <2>2. q * k = p * k + k + e * k
    BY <2>1, <1>3
  <2>3. e * k >= 0
    BY <2>1
  <2>4. p * k \in Int /\ e * k \in Int
    BY <2>1, <1>3
  <2> QED BY <1>3, <2>2, <2>3, <2>4
<1>5. ASSUME q < p PROVE FALSE
  <2>1. PICK e \in Nat : p = q + 1 + e
    BY <1>3, <1>5
  <2>2. p * k = q * k + k + e * k
    BY <2>1, <1>3
  <2>3. e * k >= 0
    BY <2>1
  <2>4. q * k \in Int /\ e * k \in Int
    BY <2>1, <1>3
  <2> QED BY <1>3, <2>2, <2>3, <2>4
<1>6. p = q
  BY <1>3, <1>4, <1>5
<1>7. s = r
  <2>1. q * k \in Int
    OBVIOUS
  <2> QED BY <1>3, <1>6, <2>1
<1> QED BY <1>6, <1>7 DEF p, s

\* From any day, a weekday comes within a week, and was within the last one.
LEMMA WeekdaysCome ==
    ASSUME NEW m \in Int, NEW d \in Days
    PROVE  /\ \E i \in 1..WeekDays : (m + i) % WeekDays = d
           /\ \E i \in 0..(WeekDays - 1) : (m - i) % WeekDays = d
<1> DEFINE q == m \div WeekDays
           r == m % WeekDays
<1>0. WeekDays \in Nat \ {0} /\ d \in 0..(WeekDays - 1)
  BY AgendaAssumption DEF Days
<1>1. q \in Int /\ r \in 0..(WeekDays - 1) /\ m = q * WeekDays + r
  BY <1>0, Quotients
<1> HIDE DEF q, r
<1>2. (q * WeekDays + d) % WeekDays = d /\ ((q + 1) * WeekDays + d) % WeekDays = d /\ ((q - 1) * WeekDays + d) % WeekDays = d
  BY <1>0, <1>1, QuotientIs
<1>3. (q + 1) * WeekDays = q * WeekDays + WeekDays /\ (q - 1) * WeekDays = q * WeekDays - WeekDays /\ q * WeekDays \in Int
  BY <1>0, <1>1
<1>4. CASE d > r
  <2>1. d - r \in 1..WeekDays /\ m + (d - r) = q * WeekDays + d
    BY <1>0, <1>1, <1>3, <1>4
  <2>2. r - d + WeekDays \in 0..(WeekDays - 1) /\ m - (r - d + WeekDays) = (q - 1) * WeekDays + d
    BY <1>0, <1>1, <1>3, <1>4
  <2> QED BY <1>2, <2>1, <2>2
<1>5. CASE d <= r
  <2>1. d - r + WeekDays \in 1..WeekDays /\ m + (d - r + WeekDays) = (q + 1) * WeekDays + d
    BY <1>0, <1>1, <1>3, <1>5
  <2>2. r - d \in 0..(WeekDays - 1) /\ m - (r - d) = q * WeekDays + d
    BY <1>0, <1>1, <1>3, <1>5
  <2> QED BY <1>2, <2>1, <2>2
<1> QED BY <1>0, <1>1, <1>4, <1>5

\* The time a of the i-th day after that of n, or before it.
LEMMA CellAt ==
    ASSUME NEW n \in Int, NEW a \in Clocks, NEW i \in Int
    PROVE  LET c == Midnight(n) + a + i * DayTicks
           IN  /\ c \in Int /\ c \div DayTicks = n \div DayTicks + i /\ c % DayTicks = a
               /\ Weekday(c) = ((n \div DayTicks) + i) % WeekDays
               /\ i > 0 => c > n
               /\ i < 0 => c <= n
               /\ \A j \in Int, b \in Clocks : i < j => c < Midnight(n) + b + j * DayTicks
<1> DEFINE m == n \div DayTicks
           c == Midnight(n) + a + i * DayTicks
<1>0. DayTicks \in Nat \ {0} /\ a \in 0..(DayTicks - 1) /\ Clocks = 0..(DayTicks - 1)
  BY AgendaAssumption DEF Clocks
<1>1. m \in Int /\ n % DayTicks \in 0..(DayTicks - 1) /\ n = m * DayTicks + (n % DayTicks)
  BY <1>0, Quotients
<1>2. Midnight(n) = m * DayTicks
  BY DEF Midnight
<1> DEFINE r == n % DayTicks
<1>3. r \in 0..(DayTicks - 1) /\ n = m * DayTicks + r
  BY <1>1
<1> HIDE DEF m, r
<1>4. c = (m + i) * DayTicks + a
  BY <1>0, <1>1, <1>2
<1>5. m + i \in Int /\ (m + i) * DayTicks \in Int
  BY <1>0, <1>1
<1>6. c \in Int /\ c \div DayTicks = m + i /\ c % DayTicks = a
  <2>1. ((m + i) * DayTicks + a) \div DayTicks = m + i /\ ((m + i) * DayTicks + a) % DayTicks = a
    BY <1>0, <1>5, QuotientIs
  <2>2. (m + i) * DayTicks + a \in Int
    BY <1>0, <1>5
  <2> HIDE DEF c
  <2> QED BY <1>4, <2>1, <2>2
<1>7. Weekday(c) = (m + i) % WeekDays
  BY <1>6 DEF Weekday
<1>8. ASSUME NEW x \in Int, NEW y \in Int, x < y
      PROVE  x * DayTicks + DayTicks <= y * DayTicks
  <2>1. PICK e \in Nat : y = x + 1 + e
    BY <1>8
  <2>2. y * DayTicks = x * DayTicks + DayTicks + e * DayTicks
    BY <2>1, <1>0
  <2>3. e * DayTicks >= 0 /\ e * DayTicks \in Int /\ x * DayTicks \in Int
    BY <2>1, <1>0
  <2> QED BY <1>0, <2>2, <2>3
<1>9. m * DayTicks \in Int
  BY <1>0, <1>1
<1>10. i > 0 => c > n
  <2>1. i > 0 => m * DayTicks + DayTicks <= (m + i) * DayTicks
    BY <1>8, <1>1, <1>5
  <2> QED BY <2>1, <1>0, <1>3, <1>4, <1>5, <1>9
<1>11. i < 0 => c <= n
  <2>1. i < 0 => (m + i) * DayTicks + DayTicks <= m * DayTicks
    BY <1>8, <1>1, <1>5
  <2> QED BY <2>1, <1>0, <1>3, <1>4, <1>5, <1>9
<1>12. ASSUME NEW j \in Int, NEW b \in Clocks, i < j
       PROVE  c < Midnight(n) + b + j * DayTicks
  <2>1. (m + i) * DayTicks + DayTicks <= (m + j) * DayTicks /\ (m + j) * DayTicks \in Int
    BY <1>0, <1>1, <1>5, <1>8, <1>12
  <2>2. Midnight(n) + b + j * DayTicks = (m + j) * DayTicks + b
    BY <1>0, <1>1, <1>2, <1>12
  <2>3. b \in 0..(DayTicks - 1)
    BY <1>0, <1>12
  <2> QED BY <1>0, <1>4, <1>5, <2>1, <2>2, <2>3
<1> QED BY <1>6, <1>7, <1>10, <1>11, <1>12 DEF m

\* Every time is such a cell.
LEMMA CellOf ==
    ASSUME NEW n \in Int, NEW c \in Int
    PROVE  /\ (c \div DayTicks) - (n \div DayTicks) \in Int /\ c % DayTicks \in Clocks
           /\ c = Midnight(n) + (c % DayTicks) + ((c \div DayTicks) - (n \div DayTicks)) * DayTicks
<1>0. DayTicks \in Nat \ {0}
  BY AgendaAssumption
<1> DEFINE m == n \div DayTicks
           q == c \div DayTicks
           r == c % DayTicks
<1>1. m \in Int /\ q \in Int /\ r \in 0..(DayTicks - 1) /\ c = q * DayTicks + r
  BY <1>0, Quotients
<1>2. Midnight(n) = m * DayTicks
  BY DEF Midnight
<1> HIDE DEF m, q, r
<1>3. (q - m) * DayTicks = q * DayTicks - m * DayTicks /\ q * DayTicks \in Int /\ m * DayTicks \in Int
  BY <1>0, <1>1
<1>4. q - m \in Int /\ r \in Clocks /\ c = Midnight(n) + r + (q - m) * DayTicks
  BY <1>0, <1>1, <1>2, <1>3 DEF Clocks
<1> QED BY <1>4 DEF m, q, r

\* What Next and PreviousSlot choose from lies on the grid, on the wanted side of now.
LEMMA CandidatesAreSlots ==
    ASSUME NEW t \in Timings, NEW n \in Int, NEW a \in t.at, NEW dir \in {1, -1}, NEW steps \in Nat,
           NEW c \in Candidates(t, n, a, dir, steps)
    PROVE  /\ c \in Int /\ OnGrid(t, c)
           /\ IF dir = 1 THEN c > n ELSE c <= n
<1>0. a \in Clocks
  BY DEF Timings
<1>1. PICK i \in 0..(steps - 1) : c = Midnight(n) + a + dir * i * DayTicks
  BY DEF Candidates
<1>2. Weekday(c) \in DaySet(t) /\ IF dir = 1 THEN c > n ELSE c <= n
  BY DEF Candidates
<1>3. dir * i \in Int
  BY <1>1
<1>4. c \in Int /\ c % DayTicks = a
  BY <1>0, <1>1, <1>3, CellAt
<1> QED BY <1>2, <1>4 DEF OnGrid

\* A slot after now is in the first week, or a candidate of it comes sooner.
LEMMA SlotsAreCandidates ==
    ASSUME NEW t \in Timings, NEW n \in Int, NEW dir \in {1, -1}, NEW c \in Int, OnGrid(t, c),
           IF dir = 1 THEN c > n ELSE c <= n,
           NEW i \in Nat, i <= WeekDays, (c \div DayTicks) - (n \div DayTicks) = dir * i
    PROVE  c \in Candidates(t, n, c % DayTicks, dir, WeekDays + 1)
<1>1. c = Midnight(n) + (c % DayTicks) + (dir * i) * DayTicks
  BY CellOf
<1>2. i \in 0..((WeekDays + 1) - 1)
  BY AgendaAssumption
<1>3. Weekday(c) \in DaySet(t)
  BY DEF OnGrid
<1> QED BY <1>1, <1>2, <1>3 DEF Candidates

\* A set of numbers of which one is no greater than the rest has that as its Min, and so for Max.
LEMMA MinIs ==
    ASSUME NEW T \in SUBSET Int, NEW b \in Int, T # {}, \A y \in T : b <= y
    PROVE  Min(T) \in T /\ \A y \in T : Min(T) <= y
<1> DEFINE U == {y - b : y \in T}
<1>0. \A y \in T : y \in Int /\ y - b \in Nat
  OBVIOUS
<1>1. U \in SUBSET Nat /\ U # {}
  BY <1>0
<1>2. PICK u \in U : \A w \in U : u <= w
  BY <1>1, LeastElement
<1>3. PICK x \in T : u = x - b
  BY <1>2
<1>4. \A y \in T : y - b \in U
  OBVIOUS
<1> HIDE DEF U
<1>5. ASSUME NEW y \in T PROVE x <= y
  <2>1. x - b <= y - b
    BY <1>2, <1>3, <1>4
  <2> QED BY <2>1
<1> QED BY <1>5 DEF Min

LEMMA MaxIs ==
    ASSUME NEW T \in SUBSET Int, NEW b \in Int, T # {}, \A y \in T : y <= b
    PROVE  Max(T) \in T /\ \A y \in T : y <= Max(T)
<1> DEFINE U == {b - y : y \in T}
<1>0. \A y \in T : y \in Int /\ b - y \in Nat
  OBVIOUS
<1>1. U \in SUBSET Nat /\ U # {}
  BY <1>0
<1>2. PICK u \in U : \A w \in U : u <= w
  BY <1>1, LeastElement
<1>3. PICK x \in T : u = b - x
  BY <1>2
<1>4. \A y \in T : b - y \in U
  OBVIOUS
<1> HIDE DEF U
<1>5. ASSUME NEW y \in T PROVE x >= y
  <2>1. b - x <= b - y
    BY <1>2, <1>3, <1>4
  <2> QED BY <2>1
<1>6. Max(T) \in T /\ \A y \in T : Max(T) >= y
  BY <1>5 DEF Max
<1> QED BY <1>6

\* A timing's days: some, and days of the week.
LEMMA DaysThere ==
    ASSUME NEW t \in Timings
    PROVE  DaySet(t) \subseteq Days /\ DaySet(t) # {}
<1>1. 0 \in Days
  BY AgendaAssumption DEF Days
<1> QED BY <1>1 DEF DaySet, Timings

\* Next is the first slot after now.
LEMMA NextIsFirst ==
    ASSUME NEW t \in Timings, t.at # {}, NEW n \in Int
    PROVE  /\ Next(t, n) \in Int /\ OnGrid(t, Next(t, n)) /\ n < Next(t, n)
           /\ \A c \in Int : OnGrid(t, c) /\ n < c => Next(t, n) <= c
<1> DEFINE found == UNION {Candidates(t, n, a, 1, WeekDays + 1) : a \in t.at}
           m == n \div DayTicks
<1>0. DayTicks \in Nat \ {0} /\ WeekDays \in Nat \ {0}
  BY AgendaAssumption
<1>1. m \in Int
  BY <1>0, Quotients
<1>2. ASSUME NEW c \in found PROVE c \in Int /\ OnGrid(t, c) /\ n < c
  <2>1. PICK a \in t.at : c \in Candidates(t, n, a, 1, WeekDays + 1)
    OBVIOUS
  <2>2. WeekDays + 1 \in Nat
    BY <1>0
  <2> QED BY <2>1, <2>2, CandidatesAreSlots
<1>3. ASSUME NEW c \in Int, OnGrid(t, c), NEW i \in Nat, i <= WeekDays, (c \div DayTicks) - m = i, n < c
      PROVE  c \in found
  <2>1. c \in Candidates(t, n, c % DayTicks, 1, WeekDays + 1)
    BY <1>3, SlotsAreCandidates
  <2>2. c % DayTicks \in t.at
    BY <1>3 DEF OnGrid
  <2> QED BY <2>1, <2>2
<1>4. PICK a \in t.at, d \in DaySet(t) : TRUE
  BY DaysThere
<1>5. a \in Clocks /\ d \in Days
  BY <1>4, DaysThere DEF Timings
<1>6. PICK i \in 1..WeekDays : (m + i) % WeekDays = d
  BY <1>1, <1>5, WeekdaysCome
<1> DEFINE s == Midnight(n) + a + i * DayTicks
<1>7. /\ s \in Int /\ n < s /\ OnGrid(t, s) /\ (s \div DayTicks) - m = i
      /\ \A j \in Int, b \in Clocks : i < j => s < Midnight(n) + b + j * DayTicks
  <2>1. i \in Int /\ i > 0
    BY <1>6
  <2>2. /\ s \in Int /\ s \div DayTicks = m + i /\ s % DayTicks = a /\ Weekday(s) = (m + i) % WeekDays /\ s > n
        /\ \A j \in Int, b \in Clocks : i < j => s < Midnight(n) + b + j * DayTicks
    BY <1>5, <2>1, CellAt
  <2> HIDE DEF s, m
  <2> QED BY <1>1, <1>4, <1>6, <2>1, <2>2 DEF OnGrid
<1>8. s \in found
  BY <1>3, <1>6, <1>7
<1> HIDE DEF s
<1>9. Min(found) \in found /\ \A c \in found : Min(found) <= c
  <2> HIDE DEF found
  <2>1. found \in SUBSET Int /\ found # {} /\ \A c \in found : n <= c
    BY <1>2, <1>8
  <2> QED BY <2>1, MinIs
<1>10. Next(t, n) = Min(found)
  BY <1>8 DEF Next
<1>11. ASSUME NEW c \in Int, OnGrid(t, c), n < c PROVE Min(found) <= c
  <2> DEFINE j == (c \div DayTicks) - m
  <2>1. j \in Int /\ c % DayTicks \in Clocks /\ c = Midnight(n) + (c % DayTicks) + j * DayTicks
    BY CellOf
  <2>2. CASE j \in 0..WeekDays
    <3>1. c \in found
      BY <1>3, <1>11, <2>2
    <3> QED BY <1>9, <3>1
  <2>3. CASE j > WeekDays
    <3>1. i < j
      BY <1>6, <1>0, <2>1, <2>3
    <3>2. s < c
      BY <1>7, <2>1, <3>1
    <3>3. Min(found) <= s /\ Min(found) \in Int
      BY <1>2, <1>8, <1>9
    <3> QED BY <1>7, <3>2, <3>3
  <2>4. CASE j < 0
    <3>1. c <= n
      BY <2>1, <2>4, CellAt
    <3> QED BY <1>11, <3>1
  <2> HIDE DEF j
  <2> QED BY <1>0, <2>1, <2>2, <2>3, <2>4
<1> QED BY <1>2, <1>9, <1>10, <1>11

\* PreviousSlot is the last slot at or before now.
LEMMA PreviousIsLast ==
    ASSUME NEW t \in Timings, t.at # {}, NEW n \in Int
    PROVE  /\ PreviousSlot(t, n) \in Int /\ OnGrid(t, PreviousSlot(t, n)) /\ PreviousSlot(t, n) <= n
           /\ \A c \in Int : OnGrid(t, c) /\ c <= n => c <= PreviousSlot(t, n)
<1> DEFINE found == UNION {Candidates(t, n, a, -1, WeekDays + 1) : a \in t.at}
           m == n \div DayTicks
<1>0. DayTicks \in Nat \ {0} /\ WeekDays \in Nat \ {0}
  BY AgendaAssumption
<1>1. m \in Int
  BY <1>0, Quotients
<1>2. ASSUME NEW c \in found PROVE c \in Int /\ OnGrid(t, c) /\ c <= n
  <2>1. PICK a \in t.at : c \in Candidates(t, n, a, -1, WeekDays + 1)
    OBVIOUS
  <2>2. WeekDays + 1 \in Nat
    BY <1>0
  <2> QED BY <2>1, <2>2, CandidatesAreSlots
<1>3. ASSUME NEW c \in Int, OnGrid(t, c), NEW i \in Nat, i <= WeekDays, (c \div DayTicks) - m = -i, c <= n
      PROVE  c \in found
  <2>1. c \in Candidates(t, n, c % DayTicks, -1, WeekDays + 1)
    <3>1. (c \div DayTicks) - (n \div DayTicks) = (-1) * i
      BY <1>3
    <3> QED BY <1>3, <3>1, SlotsAreCandidates
  <2>2. c % DayTicks \in t.at
    BY <1>3 DEF OnGrid
  <2> QED BY <2>1, <2>2
<1>4. PICK a \in t.at, d \in DaySet(t) : TRUE
  BY DaysThere
<1>5. a \in Clocks /\ d \in Days
  BY <1>4, DaysThere DEF Timings
<1>5a. m - 1 \in Int
  BY <1>1
<1>6. PICK k \in 0..(WeekDays - 1) : ((m - 1) - k) % WeekDays = d
  BY <1>5, <1>5a, WeekdaysCome
<1> DEFINE i == -(k + 1)
           s == Midnight(n) + a + i * DayTicks
<1>7. /\ s \in Int /\ s <= n /\ OnGrid(t, s) /\ (s \div DayTicks) - m = i
      /\ i \in Int /\ i < 0 /\ k + 1 \in Nat /\ k + 1 <= WeekDays
  <2>1. i \in Int /\ i < 0 /\ m + i = (m - 1) - k /\ k + 1 \in Nat /\ k + 1 <= WeekDays
    BY <1>0, <1>1, <1>6
  <2> HIDE DEF i
  <2>2. /\ s \in Int /\ s \div DayTicks = m + i /\ s % DayTicks = a /\ Weekday(s) = (m + i) % WeekDays /\ s <= n
    BY <1>5, <2>1, CellAt
  <2> HIDE DEF s, m
  <2> QED BY <1>1, <1>4, <1>6, <2>1, <2>2 DEF OnGrid
<1>8. s \in found
  <2>1. (s \div DayTicks) - m = -(k + 1)
    BY <1>7
  <2> HIDE DEF s, m, found
  <2> QED BY <1>3, <1>7, <2>1
<1>9. Max(found) \in found /\ \A c \in found : c <= Max(found)
  <2> HIDE DEF found, s
  <2>1. found \in SUBSET Int /\ found # {} /\ \A c \in found : c <= n
    BY <1>2, <1>8
  <2> QED BY <2>1, MaxIs
<1>10. PreviousSlot(t, n) = Max(found)
  BY <1>8 DEF PreviousSlot
<1>11. ASSUME NEW c \in Int, OnGrid(t, c), c <= n PROVE c <= Max(found)
  <2> DEFINE j == (c \div DayTicks) - m
  <2>1. j \in Int /\ c % DayTicks \in Clocks /\ c = Midnight(n) + (c % DayTicks) + j * DayTicks
    BY CellOf
  <2>2. CASE -j \in 0..WeekDays
    <3>1. -j \in Nat /\ -j <= WeekDays /\ j = -(-j)
      BY <1>0, <2>1, <2>2
    <3>2. c \in found
      BY <1>3, <1>11, <3>1
    <3> QED BY <1>9, <3>2
  <2>3. CASE j < -WeekDays
    <3>1. j < i /\ i \in Int
      BY <1>7, <1>0, <2>1, <2>3
    <3>2. \A jj \in Int, b \in Clocks : j < jj => c < Midnight(n) + b + jj * DayTicks
      BY <2>1, CellAt
    <3> HIDE DEF i, j, found
    <3>3. c < s
      BY <1>5, <3>1, <3>2
    <3>4. s <= Max(found) /\ Max(found) \in Int
      BY <1>2, <1>8, <1>9
    <3> QED BY <1>7, <3>3, <3>4
  <2>4. CASE j > 0
    <3>1. c > n
      BY <2>1, <2>4, CellAt
    <3> QED BY <1>11, <3>1
  <2> HIDE DEF j
  <2> QED BY <1>0, <2>1, <2>2, <2>3, <2>4
<1> QED BY <1>2, <1>9, <1>10, <1>11

\* From each slot there is another within the widest gap.
LEMMA GapsAreBounded ==
    ASSUME NEW t \in Timings, t.at # {}, t.every = 0, NEW c \in Int, OnGrid(t, c)
    PROVE  MaxGap(t) \in Nat /\ \E e \in 1..MaxGap(t) : OnGrid(t, c + e)
<1> DEFINE W == WeekDays * DayTicks
           Ahead(g) == {k \in Grid(t) : k > g} \cup {k + W : k \in Grid(t)}
           Ways(g) == {h - g : h \in Ahead(g)}
           Gaps == {GapAfter(t, g) : g \in Grid(t)}
<1>0. DayTicks \in Nat \ {0} /\ WeekDays \in Nat \ {0} /\ W \in Nat \ {0}
  BY AgendaAssumption
<1>1. ASSUME NEW d \in Days, NEW a \in Clocks PROVE d * DayTicks + a \in 0..(W - 1)
  <2>1. d \in 0..(WeekDays - 1) /\ a \in 0..(DayTicks - 1)
    BY <1>1 DEF Days, Clocks
  <2>2. PICK e \in Nat : WeekDays = d + 1 + e
    <3> DEFINE n == WeekDays - d - 1
    <3>1. WeekDays \in Nat /\ DayTicks \in Nat
      BY <1>0
    <3>2. n \in Nat /\ WeekDays = d + 1 + n
      BY <2>1, <3>1
    <3> HIDE DEF n
    <3> QED BY <3>2
  <2>3. W = d * DayTicks + DayTicks + e * DayTicks
    BY <1>0, <2>1, <2>2
  <2>4. e * DayTicks \in Nat /\ d * DayTicks \in Nat
    BY <1>0, <2>1, <2>2
  <2> HIDE DEF W
  <2> QED BY <1>0, <2>1, <2>3, <2>4
<1>2. Grid(t) \subseteq 0..(W - 1) /\ \A k \in Grid(t) : \E d \in DaySet(t), a \in t.at : k = d * DayTicks + a
  BY <1>1, DaysThere DEF Grid, Timings
<1> HIDE DEF W
<1>3. ASSUME NEW g \in Grid(t)
      PROVE  GapAfter(t, g) \in Ways(g) /\ GapAfter(t, g) \in 1..W
  <2>1. \A h \in Ahead(g) : h \in Int /\ h - g \in Int /\ 1 <= h - g
    BY <1>0, <1>2
  <2>2. g + W \in Ahead(g) /\ (g + W) - g = W
    BY <1>0, <1>2
  <2>3. Ways(g) \in SUBSET Int /\ W \in Ways(g) /\ \A y \in Ways(g) : 1 <= y
    <3> HIDE DEF Ahead
    <3> QED BY <2>1, <2>2
  <2>4. GapAfter(t, g) = Min(Ways(g))
    BY DEF GapAfter, W
  <2> HIDE DEF Ways
  <2>5. Min(Ways(g)) \in Ways(g) /\ \A y \in Ways(g) : Min(Ways(g)) <= y
    BY <2>3, MinIs
  <2> QED BY <1>0, <2>3, <2>4, <2>5
<1> DEFINE g == Weekday(c) * DayTicks + (c % DayTicks)
<1>4. g \in Grid(t)
  BY DEF OnGrid, Grid
<1>5. Max(Gaps) \in Gaps /\ \A y \in Gaps : y <= Max(Gaps)
  <2>0. W \in Nat /\ \A y \in 1..W : y \in Int /\ y <= W
    BY <1>0
  <2>1. Gaps \in SUBSET Int /\ Gaps # {} /\ \A y \in Gaps : y <= W
    <3>1. \A y \in Gaps : y \in 1..W
      BY <1>3
    <3>2. GapAfter(t, g) \in Gaps
      BY <1>4
    <3> HIDE DEF Gaps, g
    <3> QED BY <2>0, <3>1, <3>2
  <2>2. W \in Int
    BY <2>0
  <2> HIDE DEF Gaps
  <2> QED BY <2>1, <2>2, MaxIs
<1>6. MaxGap(t) = Max(Gaps)
  BY DEF MaxGap
<1>7. MaxGap(t) \in Nat /\ GapAfter(t, g) \in 1..MaxGap(t)
  BY <1>0, <1>3, <1>4, <1>5, <1>6
<1>8. PICK h \in Ahead(g) : GapAfter(t, g) = h - g
  BY <1>3, <1>4
<1> DEFINE q == (c \div DayTicks) \div WeekDays
<1>9. q \in Int /\ c = q * W + g
  <2> DEFINE p == c \div DayTicks
             r == p % WeekDays
  <2>1. p \in Int /\ c % DayTicks \in 0..(DayTicks - 1) /\ c = p * DayTicks + (c % DayTicks)
    BY <1>0, Quotients
  <2>2. q \in Int /\ r \in 0..(WeekDays - 1) /\ p = q * WeekDays + r
    BY <1>0, <2>1, Quotients
  <2>3. Weekday(c) = r
    BY DEF Weekday
  <2> HIDE DEF q, r, p
  <2>4. p * DayTicks = q * W + r * DayTicks
    <3>1. p * DayTicks = (q * WeekDays) * DayTicks + r * DayTicks
      BY <1>0, <2>1, <2>2
    <3>2. (q * WeekDays) * DayTicks = q * (WeekDays * DayTicks)
      BY <1>0, <2>2
    <3> QED BY <3>1, <3>2 DEF W
  <2>5. q * W \in Int /\ r * DayTicks \in Int
    BY <1>0, <2>2
  <2> QED BY <2>1, <2>2, <2>3, <2>4, <2>5
<1>10. ASSUME NEW k \in Grid(t), NEW w \in Int PROVE OnGrid(t, w * W + k)
  <2>1. PICK d \in DaySet(t), a \in t.at : k = d * DayTicks + a
    BY <1>2
  <2>2. d \in 0..(WeekDays - 1) /\ a \in 0..(DayTicks - 1)
    BY <2>1, DaysThere DEF Timings, Days, Clocks
  <2>3. w * WeekDays + d \in Int /\ w * W + k = (w * WeekDays + d) * DayTicks + a
    <3>1. (w * WeekDays + d) * DayTicks = (w * WeekDays) * DayTicks + d * DayTicks
      BY <1>0, <1>10, <2>2
    <3>2. (w * WeekDays) * DayTicks = w * (WeekDays * DayTicks) /\ w * (WeekDays * DayTicks) \in Int /\ d * DayTicks \in Int
      BY <1>0, <1>10, <2>2
    <3> QED BY <1>0, <1>10, <2>1, <2>2, <3>1, <3>2 DEF W
  <2>4. /\ ((w * WeekDays + d) * DayTicks + a) \div DayTicks = w * WeekDays + d
        /\ ((w * WeekDays + d) * DayTicks + a) % DayTicks = a
    BY <1>0, <2>2, <2>3, QuotientIs
  <2>5. (w * WeekDays + d) % WeekDays = d
    BY <1>0, <1>10, <2>2, QuotientIs
  <2> QED BY <2>1, <2>3, <2>4, <2>5 DEF OnGrid, Weekday
<1>11. OnGrid(t, c + (h - g))
  <2> HIDE DEF g, q
  <2>0. g \in Int /\ q * W \in Int
    BY <1>0, <1>2, <1>4, <1>9
  <2>1. CASE h \in Grid(t)
    <3>1. h \in Int
      BY <1>2, <2>1
    <3>2. c + (h - g) = q * W + h
      BY <1>9, <2>0, <3>1
    <3> QED BY <1>9, <1>10, <2>1, <3>2
  <2>2. CASE h \notin Grid(t)
    <3>1. PICK k \in Grid(t) : h = k + W
      BY <1>8, <2>2
    <3>2. k \in Int /\ (q + 1) * W = q * W + W
      BY <1>0, <1>2, <1>9
    <3>3. c + (h - g) = (q + 1) * W + k
      BY <1>0, <1>9, <2>0, <3>1, <3>2
    <3>4. q + 1 \in Int
      BY <1>9
    <3> QED BY <1>10, <3>3, <3>4
  <2> QED BY <2>1, <2>2
<1> QED BY <1>7, <1>8, <1>11

LEMMA SlotsBracket ==
    ASSUME NEW t \in Timings, t.at # {}, t.every = 0, NEW n \in Int
    PROVE  /\ PreviousSlot(t, n) \in Int /\ Next(t, n) \in Int /\ MaxGap(t) \in Nat
           /\ OnGrid(t, Next(t, n)) /\ OnGrid(t, PreviousSlot(t, n))
           /\ PreviousSlot(t, n) <= n /\ n < Next(t, n)
           /\ \A c \in (PreviousSlot(t, n) + 1)..(Next(t, n) - 1) : ~OnGrid(t, c)
           /\ Next(t, n) - PreviousSlot(t, n) <= MaxGap(t)
<1> DEFINE nxt == Next(t, n)
           prv == PreviousSlot(t, n)
<1>1. /\ nxt \in Int /\ OnGrid(t, nxt) /\ n < nxt
      /\ \A c \in Int : OnGrid(t, c) /\ n < c => nxt <= c
  BY NextIsFirst
<1>2. /\ prv \in Int /\ OnGrid(t, prv) /\ prv <= n
      /\ \A c \in Int : OnGrid(t, c) /\ c <= n => c <= prv
  BY PreviousIsLast
<1> HIDE DEF nxt, prv
<1>3. MaxGap(t) \in Nat
  BY <1>2, GapsAreBounded
<1>4. PICK e \in 1..MaxGap(t) : OnGrid(t, prv + e)
  BY <1>2, GapsAreBounded
<1>5. nxt - prv <= MaxGap(t)
  <2>1. prv + e \in Int /\ prv < prv + e
    BY <1>2, <1>3, <1>4
  <2>2. n < prv + e
    BY <1>2, <1>4, <2>1
  <2>3. nxt <= prv + e
    BY <1>1, <1>4, <2>1, <2>2
  <2> QED BY <1>1, <1>2, <1>3, <1>4, <2>3
<1>6. ASSUME NEW c \in (prv + 1)..(nxt - 1), OnGrid(t, c) PROVE FALSE
  <2>1. c \in Int /\ prv < c /\ c < nxt
    BY <1>1, <1>2, <1>6
  <2>2. CASE c <= n
    BY <1>2, <1>6, <2>1, <2>2
  <2>3. CASE n < c
    BY <1>1, <1>6, <2>1, <2>3
  <2> QED BY <2>1, <2>2, <2>3
<1> QED BY <1>1, <1>2, <1>3, <1>5, <1>6 DEF nxt, prv

-------------------------------------------------------------------------------
\* What the database makes of a document is a timing, and keeps the floor.
FloorKept(t) ==
    t.source = "db" /\ job.protective =>
        \/ t.every \in MinInterval..MaxInterval
        \/ t.at # {} /\ Cardinality(DaySet(t)) >= job.floor

AgendaTyped ==
    /\ job \in AgendaScenarios /\ row \in Documents /\ now \in Nat
    /\ timing \in Timings /\ FloorKept(timing)

LEMMA TimingsKeepTheFloor ==
    ASSUME job \in AgendaScenarios, NEW d \in Documents
    PROVE  timingForJob(d) \in Timings /\ FloorKept(timingForJob(d))
<1>0. /\ MinInterval \in Nat /\ MaxInterval \in Nat
      /\ job.env \in Timings /\ job.env.source = "env"
  BY AgendaAssumption
<1>1. Timing({}, {}, 0, "env") \in Timings /\ Timing({}, {}, 0, "env").source = "env"
  BY DEF Timing, Timings
<1>2. CASE timingForJob(d) \in {Timing({}, {}, 0, "env"), job.env}
  BY <1>0, <1>1, <1>2 DEF FloorKept
<1>3. CASE ValidateJobConfig(d) /\ timingForJob(d) = TimingFromConfig(d)
  <2>0. /\ d.times \in Seq(Clocks \cup {BadTime, DayTime}) /\ d.days \in Seq(Int) /\ d.every \in Int
        /\ d.enabled \in {"absent", "true", "false"}
    BY DEF Documents
  <2>1. CASE d.enabled = "false"
    <3>1. ~job.protective
      BY <1>3, <2>1 DEF ValidateJobConfig, rejectShape
    <3>2. TimingFromConfig(d) = Timing({}, {}, 0, "db") /\ Timing({}, {}, 0, "db") \in Timings
      BY <2>1 DEF TimingFromConfig, Timing, Timings
    <3> QED BY <1>3, <3>1, <3>2 DEF FloorKept
  <2>2. CASE d.enabled # "false" /\ d.mode = "interval"
    <3>1. d.every \in MinInterval..MaxInterval /\ d.every \in Nat
      BY <1>0, <1>3, <2>0, <2>2 DEF ValidateJobConfig, validateAgenda
    <3>2. TimingFromConfig(d) = Timing({}, {}, d.every, "db")
      BY <2>2 DEF TimingFromConfig
    <3>3. Timing({}, {}, d.every, "db") \in Timings /\ Timing({}, {}, d.every, "db").every = d.every
      BY <3>1 DEF Timing, Timings
    <3> QED BY <1>3, <3>1, <3>2, <3>3 DEF FloorKept
  <2>3. CASE d.enabled # "false" /\ d.mode # "interval"
    <3>1. d.mode = "times"
      BY <1>3, <2>3 DEF ValidateJobConfig, rejectShape
    <3>2. validateTimes(d.times) /\ validateWeekdays(d.days)
      BY <1>3, <2>3, <3>1 DEF ValidateJobConfig, validateAgenda
    <3> DEFINE t == Timing(ToSet(d.times), ToSet(d.days), 0, "db")
    <3>3. TimingFromConfig(d) = t
      BY <2>3 DEF TimingFromConfig
    <3>4. ToSet(d.times) \subseteq Clocks /\ ToSet(d.times) # {}
      <4>1. \A i \in DOMAIN d.times : d.times[i] \in Clocks
        BY <2>0, <3>2 DEF validateTimes
      <4>2. 1 \in DOMAIN d.times
        BY <2>0, <3>2 DEF validateTimes
      <4> QED BY <4>1, <4>2 DEF ToSet
    <3>5. ToSet(d.days) \subseteq Days /\ ToSet(d.days) # {} /\ Cardinality(ToSet(d.days)) >= job.floor
      <4>1. \A i \in DOMAIN d.days : d.days[i] \in Days
        BY <3>2 DEF validateWeekdays
      <4>2. 1 \in DOMAIN d.days
        BY <2>0, <3>2 DEF validateWeekdays
      <4>3. Cardinality(ToSet(d.days)) >= job.floor
        BY <3>2 DEF validateWeekdays
      <4> QED BY <4>1, <4>2, <4>3 DEF ToSet
    <3>6. t \in Timings /\ t.at = ToSet(d.times) /\ DaySet(t) = ToSet(d.days)
      BY <3>4, <3>5 DEF Timing, Timings, DaySet
    <3> HIDE DEF t
    <3> QED BY <1>3, <3>3, <3>4, <3>5, <3>6 DEF FloorKept
  <2> QED BY <2>1, <2>2, <2>3
<1> QED BY <1>2, <1>3 DEF timingForJob, EffectiveTiming

LEMMA NoDocuments == EmptyDoc \in Documents /\ NoDoc \in Documents
<1>1. <<>> \in Seq(Int) /\ <<>> \in Seq(Clocks \cup {BadTime, DayTime})
  OBVIOUS
<1>2. EmptyDoc \in Documents
  BY <1>1 DEF EmptyDoc, Doc, Documents
<1> QED BY <1>2 DEF NoDoc, Documents

\* A document that is read back is one, of this vocabulary or the one before.
LEMMA NormalizedIsADocument ==
    ASSUME NEW d \in Documents
    PROVE  normalized(d) \in Documents
<1>1. EveryDay \in Seq(Int)
  BY AgendaAssumption DEF EveryDay
<1>2. EmptyDoc \in Documents
  BY NoDocuments
<1> DEFINE enabled == IF job.protective THEN "absent" ELSE d.enabled
           out == [EmptyDoc EXCEPT !.mode = "times", !.enabled = enabled]
<1>3. /\ d.times \in Seq(Clocks \cup {BadTime, DayTime}) /\ d.every \in Int /\ d.time \in Seq(Clocks \cup {BadTime, DayTime})
      /\ d.weekday \in Seq(Int) /\ enabled \in {"absent", "true", "false"}
  BY DEF Documents
<1> HIDE DEF enabled
<1>4. out \in Documents
  BY <1>2, <1>3 DEF Documents
<1> HIDE DEF out
<1>5. [out EXCEPT !.mode = "interval", !.every = d.every] \in Documents
  BY <1>3, <1>4 DEF Documents
<1>6. [out EXCEPT !.times = d.times, !.days = EveryDay] \in Documents
  BY <1>1, <1>3, <1>4 DEF Documents
<1>7. [out EXCEPT !.times = d.time, !.days = IF d.weekday # <<>> THEN d.weekday ELSE EveryDay] \in Documents
  BY <1>1, <1>3, <1>4 DEF Documents
<1> QED BY <1>4, <1>5, <1>6, <1>7 DEF normalized, enabled, out

LEMMA AgendaStarts == AgendaInit => AgendaTyped
<1> SUFFICES ASSUME AgendaInit PROVE AgendaTyped
  OBVIOUS
<1>1. NoDoc \in Documents
  BY NoDocuments
<1>2. job \in AgendaScenarios /\ row = NoDoc /\ timing = timingForJob(NoDoc)
  BY DEF AgendaInit
<1>3. now \in Nat
  BY DEF AgendaInit
<1> QED BY <1>1, <1>2, <1>3, TimingsKeepTheFloor DEF AgendaTyped

LEMMA AgendaStep == AgendaTyped /\ [AgendaNext]_agendaVars => AgendaTyped'
<1> SUFFICES ASSUME AgendaTyped, [AgendaNext]_agendaVars PROVE AgendaTyped'
  OBVIOUS
<1>0. NoDoc \in Documents /\ job \in AgendaScenarios /\ job.docs \subseteq Documents
  BY AgendaAssumption, NoDocuments DEF AgendaTyped
<1>1. ASSUME NEW d \in Documents, Written(d) PROVE AgendaTyped'
  BY <1>1 DEF Written, AgendaTyped, FloorKept, DaySet
<1>2. CASE syncSchedule
  <2>1. UNCHANGED <<job, row, now>> /\ timing' = timingForJob(IF row = NoDoc THEN NoDoc ELSE normalized(row))
    BY <1>2 DEF syncSchedule, setTimings
  <2>2. timing' \in Timings /\ FloorKept(timing')
    BY <1>0, <2>1, NormalizedIsADocument, TimingsKeepTheFloor DEF AgendaTyped
  <2> QED BY <2>1, <2>2 DEF AgendaTyped, FloorKept, DaySet
<1>3. CASE OtherJobChanges
  BY <1>3 DEF OtherJobChanges, setTimings, AgendaTyped, FloorKept, DaySet
<1>4. CASE Tick
  BY <1>4 DEF Tick, AgendaTyped, FloorKept, DaySet
<1>5. CASE LoopNext
  <2>1. UNCHANGED <<job, row, timing, now>>
    BY <1>5 DEF LoopNext, bootCatchUp, readAgenda, waitForChange, waitForSlot, RunEnds, Sleeps
  <2> QED BY <2>1 DEF AgendaTyped, FloorKept, DaySet
<1>6. CASE UNCHANGED agendaVars
  BY <1>6 DEF agendaVars, AgendaTyped, FloorKept, DaySet
<1>7. CASE \E d \in job.docs : PutSchedule(d) \/ ForeignRow(d)
  BY <1>0, <1>1, <1>7 DEF PutSchedule, ForeignRow
<1>8. CASE DeleteSchedule
  BY <1>0, <1>1, <1>8 DEF DeleteSchedule
<1> QED BY <1>2, <1>3, <1>4, <1>5, <1>6, <1>7, <1>8 DEF AgendaNext

\* For any week, any timings and documents and any clock: Next and PreviousSlot are the slots round now (Timing.Next and
\* Timing.PreviousSlot of schedule.go) and MaxGap bounds what lies between them, the catch-up at boot is for a slot that was
\* missed (Timing.Due), and no document that is stored puts a protective job under its floor (EffectiveTiming).
THEOREM AgendaIsSound == AgendaSpec => []AgendaSound
<1>1. ASSUME AgendaTyped PROVE AgendaSound
  <2>0. timing \in Timings /\ now \in Int /\ job \in AgendaScenarios /\ job.last \in Int
    BY <1>1, AgendaAssumption DEF AgendaTyped
  <2>1. SlotsBracketNow
    BY <2>0, SlotsBracket DEF SlotsBracketNow
  <2>2. ASSUME timing.every = 0, job.last # Never, Due(timing, now, job.last)
        PROVE  job.last < PreviousSlot(timing, now)
    <3>1. timing.at # {} /\ 4 * (now - job.last) > 5 * MaxGap(timing)
      BY <2>2 DEF Due, Enabled
    <3> DEFINE prv == PreviousSlot(timing, now)
               nxt == Next(timing, now)
               gap == MaxGap(timing)
    <3>2. prv \in Int /\ nxt \in Int /\ gap \in Nat /\ now < nxt /\ nxt - prv <= gap
      BY <2>0, <2>2, <3>1, SlotsBracket
    <3> HIDE DEF prv, nxt
    <3>3. 4 * (now - job.last) > 5 * gap
      BY <3>1
    <3> HIDE DEF gap
    <3>4. job.last < prv
      BY <2>0, <3>2, <3>3
    <3> QED BY <3>4 DEF prv
  <2>3. CatchUpIsMissed
    BY <2>2 DEF CatchUpIsMissed
  <2>4. ProtectionFloor
    BY <1>1 DEF AgendaTyped, FloorKept, ProtectionFloor
  <2> QED BY <2>1, <2>3, <2>4 DEF AgendaSound
<1> QED BY <1>1, AgendaStarts, AgendaStep, PTL DEF AgendaSpec

-------------------------------------------------------------------------------
\* The loop: what it waits for lies after the slot it served, which was no later than its last firing.
Sleepers == [pc : {"boot", "channel", "timing", "park", "wait", "run"}, held : Nat, uses : Timings,
             fireAt : Int, slot : Int, lastFire : Int, waitFrom : Int]
SlotsAhead ==
    /\ AgendaTyped /\ sleeper \in Sleepers /\ schedChange \in Nat
    /\ sleeper.slot <= now
    /\ sleeper.lastFire # Never => sleeper.slot <= sleeper.lastFire
    /\ sleeper.lastFire = Never /\ sleeper.waitFrom # Never => sleeper.slot <= sleeper.waitFrom
    /\ sleeper.pc = "boot" => sleeper.lastFire = Never /\ sleeper.waitFrom = Never
    /\ sleeper.pc = "wait" => sleeper.slot < sleeper.fireAt

LEMMA WaitsAhead ==
    ASSUME SlotsAhead, NEW t \in Timings, sleeper' = Waits(t, sleeper)
    PROVE  /\ sleeper' \in Sleepers /\ sleeper'.slot = sleeper.slot /\ sleeper'.lastFire = sleeper.lastFire
           /\ sleeper'.lastFire = Never /\ sleeper'.waitFrom # Never => sleeper'.slot <= sleeper'.waitFrom
           /\ sleeper'.pc # "boot" /\ (sleeper'.pc = "wait" => sleeper'.slot < sleeper'.fireAt)
<1> DEFINE s == sleeper
           from == IF t.every > 0 /\ s.lastFire = Never /\ s.waitFrom = Never THEN now ELSE s.waitFrom
<1>1. /\ s \in Sleepers /\ now \in Nat /\ s.slot <= now /\ t.every \in Nat
      /\ s.lastFire \in Int /\ s.waitFrom \in Int /\ s.slot \in Int /\ s.fireAt \in Int
      /\ s.lastFire # Never => s.slot <= s.lastFire
      /\ s.lastFire = Never /\ s.waitFrom # Never => s.slot <= s.waitFrom
  BY DEF SlotsAhead, AgendaTyped, Sleepers, Timings
<1>2. CASE ~Enabled(t)
  <2>1. sleeper' = [s EXCEPT !.pc = "park", !.uses = t]
    BY <1>2 DEF Waits
  <2> QED BY <1>1, <2>1 DEF Sleepers
<1>3. CASE Enabled(t)
  <2>1. sleeper' = [s EXCEPT !.pc = "wait", !.uses = t, !.fireAt = nextFireAt(t, s), !.waitFrom = from]
    BY <1>3 DEF Waits
  <2>2. nextFireAt(t, s) \in Int /\ s.slot < nextFireAt(t, s)
    <3>1. CASE t.every = 0
      <4>1. t.at # {} /\ nextFireAt(t, s) = Next(t, now)
        BY <1>3, <3>1 DEF Enabled, nextFireAt
      <4> QED BY <1>1, <4>1, NextIsFirst
    <3>2. CASE t.every # 0
      <4> DEFINE base == IF s.lastFire # Never THEN s.lastFire ELSE IF s.waitFrom # Never THEN s.waitFrom ELSE now
      <4>1. base \in Int /\ s.slot <= base
        BY <1>1
      <4>2. nextFireAt(t, s) = IF base + t.every <= now THEN now ELSE base + t.every
        BY <3>2 DEF nextFireAt
      <4> HIDE DEF base
      <4> QED BY <1>1, <3>2, <4>1, <4>2
    <3> QED BY <3>1, <3>2
  <2>3. from \in Int /\ (s.lastFire = Never /\ from # Never => s.slot <= from)
    BY <1>1
  <2> HIDE DEF from
  <2> QED BY <1>1, <2>1, <2>2, <2>3 DEF Sleepers
<1> QED BY <1>2, <1>3

LEMMA SlotsStart == AgendaInit => SlotsAhead
<1> SUFFICES ASSUME AgendaInit PROVE SlotsAhead
  OBVIOUS
<1>1. AgendaTyped
  BY AgendaStarts
<1>2. timing \in Timings /\ now \in Nat
  BY <1>1 DEF AgendaTyped
<1>3. sleeper \in Sleepers /\ schedChange \in Nat
  BY <1>2 DEF AgendaInit, Sleepers, Never
<1>4. sleeper.slot = Never /\ sleeper.lastFire = Never /\ sleeper.waitFrom = Never /\ sleeper.pc # "wait"
  BY DEF AgendaInit
<1> QED BY <1>1, <1>2, <1>3, <1>4 DEF SlotsAhead, Never

LEMMA SlotsStep == SlotsAhead /\ [AgendaNext]_agendaVars => SlotsAhead'
<1> SUFFICES ASSUME SlotsAhead, [AgendaNext]_agendaVars PROVE SlotsAhead'
  OBVIOUS
<1>0. AgendaTyped /\ AgendaTyped'
  BY AgendaStep DEF SlotsAhead
<1>1. now \in Nat /\ now' \in Nat /\ timing \in Timings /\ sleeper \in Sleepers /\ schedChange \in Nat
  BY <1>0 DEF AgendaTyped, SlotsAhead
<1>2. ASSUME sleeper' = sleeper, schedChange' \in Nat, now <= now' PROVE SlotsAhead'
  BY <1>0, <1>1, <1>2 DEF SlotsAhead, Sleepers
<1>3. ASSUME NEW s, Sleeps(s) PROVE sleeper' = s /\ now' = now /\ schedChange' = schedChange
  BY <1>3 DEF Sleeps
<1>4. CASE bootCatchUp
  <2>1. CASE Due(timing, now, job.last)
    <3> DEFINE c == IF timing.every = 0 THEN PreviousSlot(timing, now) ELSE now
    <3>1. c \in Int /\ c <= now
      <4>1. CASE timing.every = 0
        <5>1. timing.at # {}
          BY <2>1, <4>1 DEF Due, Enabled
        <5> QED BY <1>1, <4>1, <5>1, PreviousIsLast
      <4> QED BY <1>1, <4>1
    <3>2. sleeper' = [sleeper EXCEPT !.pc = "run", !.slot = c] /\ now' = now /\ schedChange' = schedChange
      BY <1>4, <2>1 DEF bootCatchUp, Sleeps
    <3>3. sleeper.lastFire = Never /\ sleeper.waitFrom = Never
      BY <1>4 DEF bootCatchUp, SlotsAhead
    <3> HIDE DEF c
    <3> QED BY <1>0, <1>1, <3>1, <3>2, <3>3 DEF SlotsAhead, Sleepers
  <2>2. CASE ~Due(timing, now, job.last)
    <3>1. sleeper' = [sleeper EXCEPT !.pc = "channel"] /\ now' = now /\ schedChange' = schedChange
      BY <1>4, <2>2 DEF bootCatchUp, Sleeps
    <3> QED BY <1>0, <1>1, <3>1 DEF SlotsAhead, Sleepers
  <2> QED BY <2>1, <2>2
<1>5. CASE readAgenda
  <2>1. CASE sleeper' = [sleeper EXCEPT !.pc = "timing", !.held = schedChange]
    <3>1. now' = now /\ schedChange' = schedChange
      BY <1>5 DEF readAgenda, Sleeps
    <3> QED BY <1>0, <1>1, <2>1, <3>1 DEF SlotsAhead, Sleepers
  <2>2. CASE sleeper' = Waits(timing, sleeper)
    <3>1. now' = now /\ schedChange' = schedChange
      BY <1>5 DEF readAgenda, Sleeps
    <3>2. /\ sleeper' \in Sleepers /\ sleeper'.slot = sleeper.slot /\ sleeper'.lastFire = sleeper.lastFire
          /\ sleeper'.lastFire = Never /\ sleeper'.waitFrom # Never => sleeper'.slot <= sleeper'.waitFrom
          /\ sleeper'.pc # "boot" /\ (sleeper'.pc = "wait" => sleeper'.slot < sleeper'.fireAt)
      BY <1>1, <2>2, WaitsAhead
    <3> QED BY <1>0, <1>1, <3>1, <3>2 DEF SlotsAhead
  <2> QED BY <1>5, <2>1, <2>2 DEF readAgenda, Sleeps
<1>6. CASE waitForChange
  <2>1. sleeper' = [sleeper EXCEPT !.pc = "channel"] /\ now' = now /\ schedChange' = schedChange
    BY <1>6 DEF waitForChange, Sleeps
  <2> QED BY <1>0, <1>1, <2>1 DEF SlotsAhead, Sleepers
<1>7. CASE waitForSlot
  <2> DEFINE f == sleeper.fireAt
  <2>0. f \in Int
    BY <1>1 DEF Sleepers
  <2>1. /\ sleeper' = [sleeper EXCEPT !.pc = "run", !.slot = f, !.lastFire = now]
        /\ now' = now /\ schedChange' = schedChange /\ f <= now
    BY <1>1, <1>7, <2>0 DEF waitForSlot, Sleeps
  <2>2. sleeper' \in Sleepers /\ sleeper'.slot = f /\ sleeper'.lastFire = now /\ sleeper'.pc = "run"
    <3> HIDE DEF f
    <3>1. now \in Int /\ sleeper \in Sleepers
      BY <1>1
    <3>2. sleeper' = [sleeper EXCEPT !.pc = "run", !.slot = f, !.lastFire = now]
      BY <2>1
    <3>3. [sleeper EXCEPT !.pc = "run", !.slot = f, !.lastFire = now] \in Sleepers
      BY <2>0, <3>1 DEF Sleepers
    <3> QED BY <3>1, <3>2, <3>3 DEF Sleepers
  <2> HIDE DEF f
  <2>3. sleeper'.lastFire # Never
    BY <1>1, <2>2 DEF Never
  <2> QED BY <1>0, <1>1, <2>1, <2>2, <2>3 DEF SlotsAhead
<1>8. CASE RunEnds
  <2>1. sleeper' = [sleeper EXCEPT !.pc = "channel"] /\ now' = now /\ schedChange' = schedChange
    BY <1>8 DEF RunEnds, Sleeps
  <2> QED BY <1>0, <1>1, <2>1 DEF SlotsAhead, Sleepers
<1>9. CASE UNCHANGED sleeper
  <2>1. schedChange' \in Nat /\ now <= now'
    BY <1>1, <1>9 DEF AgendaNext, PutSchedule, ForeignRow, DeleteSchedule, Written, syncSchedule, OtherJobChanges, setTimings,
          Tick, LoopNext, bootCatchUp, readAgenda, waitForChange, waitForSlot, RunEnds, Sleeps, agendaVars
  <2> QED BY <1>2, <1>9, <2>1
<1>10. UNCHANGED sleeper \/ LoopNext
  BY DEF AgendaNext, PutSchedule, ForeignRow, DeleteSchedule, Written, syncSchedule, OtherJobChanges, setTimings, Tick, agendaVars
<1> QED BY <1>4, <1>5, <1>6, <1>7, <1>8, <1>9, <1>10 DEF LoopNext

\* No slot is fired twice (scheduleLoop and waitForSlot of agent.go), for any agendas swapped while the loop waits or runs.
\* SlotOnce is the part of AgendaServed that is not liveness.
THEOREM SlotsFireOnce == AgendaSpec => SlotOnce
<1>1. SlotsAhead /\ [AgendaNext]_agendaVars
        => [(sleeper.pc = "wait" /\ sleeper'.pc = "run") => sleeper'.slot > sleeper.slot]_agendaVars
  <2> SUFFICES ASSUME SlotsAhead, AgendaNext, sleeper.pc = "wait", sleeper'.pc = "run"
               PROVE  sleeper'.slot > sleeper.slot
    BY DEF agendaVars
  <2>1. sleeper \in Sleepers /\ sleeper.slot < sleeper.fireAt
    BY DEF SlotsAhead
  <2>2. waitForSlot
    BY DEF AgendaNext, PutSchedule, ForeignRow, DeleteSchedule, Written, syncSchedule, OtherJobChanges, setTimings, Tick,
           LoopNext, bootCatchUp, readAgenda, waitForChange, RunEnds, Sleeps, Sleepers, SlotsAhead
  <2>3. sleeper' = [sleeper EXCEPT !.pc = "run", !.slot = sleeper.fireAt, !.lastFire = now]
    BY <2>2 DEF waitForSlot, Sleeps
  <2> QED BY <2>1, <2>3 DEF Sleepers
<1> QED BY <1>1, SlotsStart, SlotsStep, PTL DEF AgendaSpec, SlotOnce

-----------------------------------------------------------------------------
(***************************************************************************)
(* BackupRestore: a wipe takes no object away from a row that shows it.    *)
(***************************************************************************)

\* The values of a function on a finite set are finitely many.
LEMMA FiniteValues ==
    ASSUME NEW S, IsFiniteSet(S), NEW f, f = [x \in S |-> f[x]]
    PROVE  IsFiniteSet({f[x] : x \in S})
<1>1. f \in Surjection(S, {f[x] : x \in S})
  BY DEF Surjection
<1> QED BY <1>1, FS_Surjection

\* Of finitely many numbers, for each count there is one with so many below it.
LEMMA NthElement ==
    ASSUME NEW F, IsFiniteSet(F), F \subseteq Int, NEW k \in Nat, k < Cardinality(F)
    PROVE  \E x \in F : Below(F, x) = k
<1> DEFINE m == Cardinality(F)
           f == [x \in F |-> Below(F, x)]
<1>1. m \in Nat
  BY FS_CardinalityType
<1>2. \A x \in F : Below(F, x) \in 0..(m - 1)
  <2> SUFFICES ASSUME NEW x \in F PROVE Below(F, x) \in 0..(m - 1)
    OBVIOUS
  <2> DEFINE A == {y \in F : y < x}
             B == F \ {x}
  <2>1. A \in SUBSET B
    OBVIOUS
  <2>2. IsFiniteSet(B) /\ Cardinality(B) = m - 1
    BY FS_RemoveElement
  <2> HIDE DEF A, B
  <2>3. IsFiniteSet(A) /\ Cardinality(A) <= m - 1
    BY <2>1, <2>2, FS_Subset
  <2>4. Cardinality(A) \in Nat
    BY <2>3, FS_CardinalityType
  <2> QED BY <1>1, <2>3, <2>4 DEF A, Below
<1>3. \A x, z \in F : x < z => Below(F, x) # Below(F, z)
  <2> SUFFICES ASSUME NEW x \in F, NEW z \in F, x < z PROVE Below(F, x) # Below(F, z)
    OBVIOUS
  <2> DEFINE A == {y \in F : y < x}
             B == {y \in F : y < z}
  <2>1. A \in SUBSET B /\ x \in B /\ x \notin A
    <3>1. x \in Int /\ z \in Int /\ \A y \in F : y \in Int
      OBVIOUS
    <3>2. ~(x < x) /\ \A y \in F : y < x => y < z
      BY <3>1
    <3> QED BY <3>2
  <2>2. IsFiniteSet(B)
    BY FS_Subset
  <2> HIDE DEF A, B
  <2>3. Cardinality(A) # Cardinality(B)
    BY <2>1, <2>2, FS_Subset
  <2> QED BY <2>3 DEF A, B, Below
<1>4. f \in Injection(F, 0..(m - 1))
  <2>1. f \in [F -> 0..(m - 1)]
    BY <1>2
  <2>2. ASSUME NEW x \in F, NEW z \in F, f[x] = f[z] PROVE x = z
    <3>1. x \in Int /\ z \in Int /\ ~(x < z) /\ ~(z < x)
      BY <1>3, <2>2
    <3> QED BY <3>1
  <2>3. DOMAIN f = F
    OBVIOUS
  <2> HIDE DEF f
  <2>4. IsInjective(f)
    BY <2>2, <2>3 DEF IsInjective
  <2> QED BY <2>1, <2>4 DEF Injection
<1>5. IsFiniteSet(0..(m - 1)) /\ Cardinality(0..(m - 1)) = m
  <2> HIDE DEF m
  <2>1. 0 \in Int /\ m - 1 \in Int
    BY <1>1
  <2>2. IsFiniteSet(0..(m - 1)) /\ Cardinality(0..(m - 1)) = IF 0 > m - 1 THEN 0 ELSE m - 1 - 0 + 1
    BY <2>1, FS_Interval
  <2> QED BY <1>1, <2>2
<1>6. f \in Surjection(F, 0..(m - 1))
  <2> HIDE DEF f
  <2> QED BY <1>4, <1>5, FS_Injection
<1>7. k \in 0..(m - 1)
  BY <1>1
<1>8. \E x \in F : f[x] = k
  <2> HIDE DEF f
  <2> QED BY <1>6, <1>7 DEF Surjection
<1> QED BY <1>8

\* An id that is reserved is new: there are enough to choose from.
LEMMA FreshIds ==
    ASSUME IsFiniteSet(UsedIds), NEW S, IsFiniteSet(S), S \subseteq Int, NEW s \in S
    PROVE  reserveRestoreIDs(S)[s] \notin UsedIds
<1> DEFINE U == UsedIds
           N == Cardinality(U) + Cardinality(S)
           I == 1..N
           F == I \ U
           k == Below(S, s)
<1>1. Cardinality(U) \in Nat /\ Cardinality(S) \in Nat
  <2>1. Cardinality(S) \in Nat
    BY FS_CardinalityType
  <2>2. Cardinality(UsedIds) \in Nat
    BY FS_CardinalityType
  <2> QED BY <2>1, <2>2
<1>2. IsFiniteSet(I) /\ Cardinality(I) = N
  <2>1. N \in Nat
    BY <1>1
  <2> HIDE DEF N
  <2> QED BY <2>1, FS_Interval
<1>3. IsFiniteSet(F) /\ Cardinality(F) >= Cardinality(S)
  <2>1. I \cap U \in SUBSET U /\ Cardinality(I \cap U) <= Cardinality(U)
    BY FS_Subset
  <2>2. IsFiniteSet(I \cap U) /\ Cardinality(I \cap U) \in Nat
    BY <1>2, FS_Subset, FS_CardinalityType
  <2>3. IsFiniteSet(F) /\ Cardinality(F) = Cardinality(I) - Cardinality(I \cap U)
    BY <1>2, FS_Difference
  <2> HIDE DEF I, U, F
  <2> QED BY <1>1, <1>2, <2>1, <2>2, <2>3
<1>4. k \in Nat /\ k < Cardinality(S)
  <2> DEFINE A == {y \in S : y < s}
             B == S \ {s}
  <2>1. A \in SUBSET B
    OBVIOUS
  <2>2. IsFiniteSet(B) /\ Cardinality(B) = Cardinality(S) - 1
    BY FS_RemoveElement
  <2> HIDE DEF A, B
  <2>3. IsFiniteSet(A) /\ Cardinality(A) <= Cardinality(B)
    BY <2>1, <2>2, FS_Subset
  <2>4. Cardinality(A) \in Nat
    BY <2>3, FS_CardinalityType
  <2> QED BY <1>1, <2>2, <2>3, <2>4 DEF A, Below
<1>5. \E x \in F : Below(F, x) = k
  <2>0. k \in Nat /\ k < Cardinality(F)
    <3>1. Cardinality(F) \in Nat
      BY <1>3, FS_CardinalityType
    <3> HIDE DEF F, k
    <3> QED BY <1>1, <1>3, <1>4, <3>1
  <2>1. F \subseteq Int
    OBVIOUS
  <2> HIDE DEF F, k
  <2> QED BY <1>3, <2>0, <2>1, NthElement
<1>6. reserveRestoreIDs(S)[s] = CHOOSE x \in F : Below(F, x) = k
  BY DEF reserveRestoreIDs
<1> HIDE DEF F, k
<1>7. reserveRestoreIDs(S)[s] \in F
  BY <1>5, <1>6
<1> QED BY <1>7 DEF F

\* Only finitely many ids are used.
OpFinite(o) == IsFiniteSet(Range(o.linkMap)) /\ IsFiniteSet(Range(o.noteFiles)) /\ IsFiniteSet(o.owned)
AllFinite ==
    /\ IsFiniteSet(links) /\ IsFiniteSet(media)
    /\ IsFiniteSet(Range(ledger.linkMap)) /\ IsFiniteSet(Range(ledger.noteFiles))
    /\ \A b \in Backends : OpFinite(op[b])

\* The note keys that an operation has reserved are nobody's: no row's, no list's of a wipe, and
\* no other operation's.
Reserves(b) == op[b].pc \in {"begin", "apply"}
KeysAhead(b) ==
    Reserves(b) => \A x \in Range(op[b].noteFiles) :
        /\ x \notin media
        /\ \A c \in Backends : /\ Key("note", x) \notin op[c].owned
                               /\ c # b /\ Reserves(c) => x \notin Range(op[c].noteFiles)

\* A wipe lists what it owns in its transaction, and forgets it when it has deleted it.
OwnedWhile(b) == op[b].owned # {} => op[b].pc \in {"apply", "wipe"} /\ op[b].mode = "wipe"

\* Once it has committed, no row names what it deletes, and no link has an id that could.
Unnamed(keys, ls, ns) ==
    /\ \A l \in ls : Key("link", l.id) \notin keys /\ Key("link", l.img) \notin keys
    /\ \A n \in ns : Key("note", n.key) \notin keys
WipedRows(b) == At(b, "wipe") => Unnamed(op[b].owned, links, notes)

RSpared == ROnce /\ AllFinite /\ \A b \in Backends : KeysAhead(b) /\ OwnedWhile(b) /\ WipedRows(b)

\* What is used: the ids of links and objects, the keys of notes, and what operations have in hand.
LEMMA UsedKnown ==
    ASSUME NEW b \in Backends
    PROVE  /\ media \subseteq UsedIds /\ Range(op[b].noteFiles) \subseteq UsedIds
           /\ \A x : Key("note", x) \in op[b].owned \/ Key("link", x) \in op[b].owned => x \in UsedIds
<1>1. Range(op[b].noteFiles) \subseteq UsedIds
  BY DEF UsedIds
<1>2. \A k \in op[b].owned : k.id \in UsedIds
  BY DEF UsedIds
<1>3. \A x : Key("note", x).id = x /\ Key("link", x).id = x
  BY DEF Key
<1> QED BY <1>1, <1>2, <1>3 DEF UsedIds

LEMMA UsedFinite ==
    ASSUME RestoreShapes, AllFinite
    PROVE  IsFiniteSet(UsedIds)
<1> DEFINE A == {l.id : l \in links} \cup {l.img : l \in links} \cup media \cup {k.id : k \in objects}
           B(b) == Range(op[b].linkMap) \cup Range(op[b].noteFiles) \cup {k.id : k \in op[b].owned \cup op[b].pending}
           C == {B(b) : b \in Backends}
<1>1. \A S : IsFiniteSet(S) => IsFiniteSet({k.id : k \in S})
  <2> SUFFICES ASSUME NEW S, IsFiniteSet(S) PROVE IsFiniteSet({k.id : k \in S})
    OBVIOUS
  <2> DEFINE f == [k \in S |-> k.id]
  <2>1. f = [k \in S |-> f[k]] /\ {f[k] : k \in S} = {k.id : k \in S}
    OBVIOUS
  <2> HIDE DEF f
  <2> QED BY <2>1, FiniteValues
<1>2. IsFiniteSet({l.img : l \in links})
  <2> DEFINE f == [l \in links |-> l.img]
  <2>1. f = [l \in links |-> f[l]] /\ {f[l] : l \in links} = {l.img : l \in links}
    OBVIOUS
  <2> HIDE DEF f
  <2> QED BY <2>1, FiniteValues DEF AllFinite
<1>3. IsFiniteSet(A)
  <2>1. IsFiniteSet({l.id : l \in links}) /\ IsFiniteSet({k.id : k \in objects})
    BY <1>1 DEF AllFinite, RestoreShapes
  <2>2. IsFiniteSet({l.id : l \in links} \cup {l.img : l \in links})
    BY <1>2, <2>1, FS_Union
  <2>3. IsFiniteSet({l.id : l \in links} \cup {l.img : l \in links} \cup media)
    BY <2>2, FS_Union DEF AllFinite
  <2> QED BY <2>1, <2>3, FS_Union
<1>4. ASSUME NEW b \in Backends PROVE IsFiniteSet(B(b))
  <2>1. IsFiniteSet(op[b].owned \cup op[b].pending)
    BY FS_Union DEF AllFinite, OpFinite, RestoreShapes
  <2>2. IsFiniteSet(Range(op[b].linkMap) \cup Range(op[b].noteFiles))
    BY FS_Union DEF AllFinite, OpFinite
  <2> QED BY <1>1, <2>1, <2>2, FS_Union
<1>5. IsFiniteSet(UNION C)
  <2> DEFINE f == [b \in Backends |-> B(b)]
  <2>1. f = [b \in Backends |-> f[b]] /\ {f[b] : b \in Backends} = C
    OBVIOUS
  <2>2. \A T \in C : IsFiniteSet(T)
    BY <1>4
  <2>3. IsFiniteSet(Backends)
    BY RestoreAssumption
  <2> HIDE DEF f, C
  <2>4. IsFiniteSet({f[b] : b \in Backends})
    BY <2>1, <2>3, FiniteValues
  <2>5. IsFiniteSet(C)
    BY <2>1, <2>4
  <2> QED BY <2>2, <2>5, FS_UNION
<1>6. UsedIds = A \cup Range(ledger.linkMap) \cup Range(ledger.noteFiles) \cup UNION C
  BY DEF UsedIds
<1> HIDE DEF A, C
<1>7. IsFiniteSet(A \cup Range(ledger.linkMap))
  BY <1>3, FS_Union DEF AllFinite
<1>8. IsFiniteSet(A \cup Range(ledger.linkMap) \cup Range(ledger.noteFiles))
  BY <1>7, FS_Union DEF AllFinite
<1> QED BY <1>5, <1>6, <1>8, FS_Union

\* The list of a wipe: finite, and of the notes' objects those with a row in note_media.
LEMMA OwnedKeys ==
    ASSUME IsFiniteSet(links), IsFiniteSet(media)
    PROVE  /\ IsFiniteSet(userObjectKeys(media))
           /\ \A x : Key("note", x) \in userObjectKeys(media) => x \in media
<1> DEFINE L == {l \in links : \E o \in links : o.id = l.img}
           f == [l \in L |-> Key("link", l.img)]
           g == [k \in media |-> Key("note", k)]
<1>1. IsFiniteSet(L)
  BY FS_Subset
<1>2. f = [l \in L |-> f[l]] /\ {f[l] : l \in L} = {Key("link", l.img) : l \in L}
  OBVIOUS
<1>3. g = [k \in media |-> g[k]] /\ {g[k] : k \in media} = {Key("note", k) : k \in media}
  OBVIOUS
<1>4. userObjectKeys(media) = {Key("link", l.img) : l \in L} \cup {Key("note", k) : k \in media}
  BY DEF userObjectKeys
<1> HIDE DEF L, f, g
<1>5. IsFiniteSet({f[l] : l \in L}) /\ IsFiniteSet({g[k] : k \in media})
  <2>1. IsFiniteSet({f[l] : l \in L})
    BY <1>1, <1>2, FiniteValues
  <2>2. IsFiniteSet({g[k] : k \in media})
    BY <1>3, FiniteValues
  <2> QED BY <2>1, <2>2
<1>6. IsFiniteSet(userObjectKeys(media))
  <2> DEFINE P == {f[l] : l \in L}
             Q == {g[k] : k \in media}
  <2>1. userObjectKeys(media) = P \cup Q
    BY <1>2, <1>3, <1>4
  <2>2. IsFiniteSet(P) /\ IsFiniteSet(Q)
    BY <1>5
  <2> HIDE DEF P, Q
  <2>3. IsFiniteSet(P \cup Q)
    BY <2>2, FS_Union
  <2> QED BY <2>1, <2>3
<1>7. \A x : Key("note", x) \in userObjectKeys(media) => x \in media
  BY <1>4 DEF Key
<1> QED BY <1>6, <1>7

LEMMA SparedStarts == RestoreInit => RSpared
<1> SUFFICES ASSUME RestoreInit PROVE RSpared
  OBVIOUS
<1>0. Range(<<>>) = {}
  BY DEF Range
<1>1. IsFiniteSet(links)
  <2> DEFINE D == DOMAIN rest.live
             f == [i \in D |-> [id |-> i, url |-> rest.live[i].url, img |-> i, via |-> "user"]]
  <2>1. f = [i \in D |-> f[i]] /\ {f[i] : i \in D} = links
    BY DEF RestoreInit
  <2>2. IsFiniteSet(D)
    BY RestoreAssumption DEF RestoreInit
  <2> HIDE DEF f, D
  <2> QED BY <2>1, <2>2, FiniteValues
<1>2. OpFinite(Idle) /\ Idle.owned = {}
  BY <1>0, FS_EmptySet DEF OpFinite, Idle
<1>3. AllFinite
  <2>1. IsFiniteSet(Range(ledger.linkMap)) /\ IsFiniteSet(Range(ledger.noteFiles))
    BY <1>0, FS_EmptySet DEF RestoreInit, NoLedger
  <2>2. media = {} /\ IsFiniteSet({}) /\ \A b \in Backends : op[b] = Idle
    BY FS_EmptySet DEF RestoreInit
  <2> QED BY <1>1, <1>2, <2>1, <2>2 DEF AllFinite
<1>4. \A b \in Backends : op[b] = Idle /\ Idle.pc = "idle"
  BY OpIdles DEF RestoreInit
<1>5. \A b \in Backends : KeysAhead(b) /\ OwnedWhile(b) /\ WipedRows(b)
  BY <1>2, <1>4 DEF KeysAhead, Reserves, OwnedWhile, WipedRows, At
<1> QED BY <1>3, <1>5, RestoreStarts DEF RSpared

\* A step of one operation that changes no row: it reserves keys that nobody has, or lists what a
\* wipe owns now, or forgets its list.
LEMMA SparedMoves ==
    ASSUME RSpared, ROnce', NEW b \in Backends, NEW o, Go(b, o),
           links' = links, notes' = notes, media' \in SUBSET media,
           ledger'.linkMap = ledger.linkMap, ledger'.noteFiles = ledger.noteFiles,
           OpFinite(o), o.pc # "wipe",
           o.owned = {} \/ (o.pc = "apply" /\ o.mode = "wipe" /\ o.owned = userObjectKeys(media)),
           o.pc \in {"begin", "apply"} =>
               (Reserves(b) /\ o.noteFiles = op[b].noteFiles) \/ (Range(o.noteFiles) \cap UsedIds = {})
    PROVE  RSpared'
<1>1. op'[b] = o /\ \A c \in Backends : c # b => op'[c] = op[c]
  BY OpMoves DEF RSpared, ROnce, RestoreShapes
<1>2. AllFinite'
  <2>1. IsFiniteSet(media')
    BY FS_Subset DEF RSpared, AllFinite
  <2> QED BY <1>1, <2>1 DEF RSpared, AllFinite, OpFinite
<1>3. \A x : Key("note", x) \in o.owned => x \in media
  BY OwnedKeys DEF RSpared, AllFinite
<1>4. ASSUME NEW x \in Range(o.noteFiles), o.pc \in {"begin", "apply"}
      PROVE  /\ x \notin media
             /\ \A c \in Backends \ {b} : /\ Key("note", x) \notin op[c].owned
                                          /\ Reserves(c) => x \notin Range(op[c].noteFiles)
  <2>1. CASE Reserves(b) /\ o.noteFiles = op[b].noteFiles
    BY <2>1 DEF RSpared, KeysAhead
  <2>2. CASE x \notin UsedIds
    BY <2>2, UsedKnown
  <2> QED BY <1>4, <2>1, <2>2
<1>5. ASSUME NEW c \in Backends PROVE KeysAhead(c)'
  <2>1. CASE c = b
    BY <1>1, <1>3, <1>4, <2>1 DEF KeysAhead, Reserves
  <2>2. CASE c # b
    BY <1>1, <1>3, <1>4, <2>2 DEF RSpared, KeysAhead, Reserves
  <2> QED BY <2>1, <2>2
<1>6. ASSUME NEW c \in Backends PROVE OwnedWhile(c)' /\ WipedRows(c)'
  <2>1. CASE c = b
    BY <1>1, <2>1 DEF OwnedWhile, WipedRows, At
  <2>2. CASE c # b
    BY <1>1, <2>2 DEF RSpared, OwnedWhile, WipedRows, At
  <2> QED BY <2>1, <2>2
<1> QED BY <1>2, <1>5, <1>6 DEF RSpared

\* The steps of an operation up to its commit: it reserves its keys once, and lists what it will wipe.
LEMMA SparedOpSteps ==
    ASSUME RSpared, ROnce', NEW b \in Backends,
           \/ \E mode \in {"skip", "wipe", "duplicate"} : restoreRequest(b, mode)
           \/ restoreFromLedger(b) \/ prepareNoteMediaRestore(b) \/ applyRestoreTransaction(b) \/ slugRace(b)
    PROVE  RSpared'
<1>0. IsOp(op[b]) /\ OpFinite(op[b]) /\ OwnedWhile(b) /\ rest \in RestoreScenarios
  BY DEF RSpared, ROnce, RestoreShapes, AllFinite
<1>1. IsOp(Idle) /\ Idle.pc = "idle" /\ OpFinite(Idle) /\ Idle.owned = {}
  <2>1. Range(<<>>) = {}
    BY DEF Range
  <2> QED BY <2>1, OpIdles, FS_EmptySet DEF OpFinite, Idle
<1>2. ASSUME NEW o, Go(b, o), UNCHANGED <<links, notes, media, ledger>>, OpFinite(o),
             \/ o.pc \notin {"wipe", "begin", "apply"} /\ o.owned = {}
             \/ /\ o.pc \in {"begin", "apply"} /\ o.noteFiles = op[b].noteFiles /\ Reserves(b)
                /\ o.owned = {} \/ (o.pc = "apply" /\ o.mode = "wipe" /\ o.owned = userObjectKeys(media))
             \/ o.pc = "begin" /\ o.owned = {} /\ Range(o.noteFiles) \cap UsedIds = {}
      PROVE RSpared'
  BY <1>2, SparedMoves
<1>3. ASSUME Go(b, Idle), UNCHANGED <<links, notes, media, ledger>> PROVE RSpared'
  BY <1>1, <1>2, <1>3
<1>4. ASSUME op[b].owned = {}, Go(b, resumeSkipRestore(op[b])), UNCHANGED <<links, notes, media, ledger>> PROVE RSpared'
  <2> DEFINE n == [op[b] EXCEPT !.pc = "plan", !.linkMap = ledger.linkMap, !.noteFiles = ledger.noteFiles,
                                !.inserted = Range(ledger.linkMap)]
  <2>1. n.pc = "plan" /\ n.owned = op[b].owned /\ n.linkMap = ledger.linkMap /\ n.noteFiles = ledger.noteFiles
    BY <1>0 DEF IsOp, OpFields
  <2>2. resumeSkipRestore(op[b]) = Idle \/ resumeSkipRestore(op[b]) = n
    BY DEF resumeSkipRestore
  <2> HIDE DEF n
  <2>3. OpFinite(n)
    BY <1>4, <2>1, FS_EmptySet DEF OpFinite, RSpared, AllFinite
  <2> QED BY <1>2, <1>3, <1>4, <2>1, <2>2, <2>3
<1>5. CASE \E mode \in {"skip", "wipe", "duplicate"} : restoreRequest(b, mode)
  <2>1. PICK mode \in {"skip", "wipe", "duplicate"} : restoreRequest(b, mode)
    BY <1>5
  <2> DEFINE n == [Idle EXCEPT !.pc = "ledger", !.mode = mode]
  <2>2. n.pc = "ledger" /\ n.owned = Idle.owned /\ n.linkMap = Idle.linkMap /\ n.noteFiles = Idle.noteFiles
    BY <1>1 DEF IsOp, OpFields
  <2>3. Go(b, n) /\ UNCHANGED <<links, notes, media, ledger>>
    BY <2>1 DEF restoreRequest, Contents
  <2> HIDE DEF n
  <2>4. OpFinite(n)
    BY <1>1, <2>2 DEF OpFinite
  <2> QED BY <1>1, <1>2, <2>2, <2>3, <2>4
<1>6. CASE restoreFromLedger(b)
  <2> DEFINE n == [op[b] EXCEPT !.pc = "prepare"]
  <2>1. n.pc = "prepare" /\ n.owned = op[b].owned /\ n.linkMap = op[b].linkMap /\ n.noteFiles = op[b].noteFiles
    BY <1>0 DEF IsOp, OpFields
  <2>2. (Go(b, n) \/ Go(b, resumeSkipRestore(op[b]))) /\ UNCHANGED <<links, notes, media, ledger>> /\ op[b].pc = "ledger"
    BY <1>6 DEF restoreFromLedger, Contents, At
  <2> HIDE DEF n
  <2>3. op[b].owned = {} /\ OpFinite(n)
    BY <1>0, <2>1, <2>2 DEF OpFinite, OwnedWhile
  <2> QED BY <1>2, <1>4, <2>1, <2>2, <2>3
<1>7. CASE prepareNoteMediaRestore(b)
  <2> DEFINE S == {m.key : m \in archive.notes}
             f == reserveRestoreIDs(S)
             n == [op[b] EXCEPT !.pc = "begin", !.noteFiles = f]
  <2>1. n.pc = "begin" /\ n.owned = op[b].owned /\ n.linkMap = op[b].linkMap /\ n.noteFiles = f
    <3> HIDE DEF f
    <3> QED BY <1>0 DEF IsOp, OpFields
  <2>2. Go(b, n) /\ UNCHANGED <<links, notes, media, ledger>> /\ op[b].pc = "prepare"
    BY <1>7 DEF prepareNoteMediaRestore, Contents, At
  <2>3. IsFiniteSet(S) /\ S \subseteq Int
    <3> DEFINE g == [m \in archive.notes |-> m.key]
    <3>1. g = [m \in archive.notes |-> g[m]] /\ {g[m] : m \in archive.notes} = S
      OBVIOUS
    <3>2. IsFiniteSet(archive.notes) /\ \A m \in archive.notes : m.key \in Int
      BY <1>0, RestoreAssumption DEF archive
    <3> HIDE DEF g
    <3>3. IsFiniteSet({g[m] : m \in archive.notes})
      BY <3>1, <3>2, FiniteValues
    <3> QED BY <3>1, <3>2, <3>3
  <2> HIDE DEF S
  <2>4. f = [s \in S |-> f[s]]
    BY DEF reserveRestoreIDs
  <2>5. \A s \in S : f[s] \notin UsedIds
    BY <2>3, UsedFinite, FreshIds DEF RSpared, ROnce
  <2> HIDE DEF f, n
  <2>6. Range(f) = {f[s] : s \in S} /\ IsFiniteSet(Range(f)) /\ Range(f) \cap UsedIds = {}
    <3>1. DOMAIN f = S
      BY <2>4
    <3>2. Range(f) = {f[s] : s \in S}
      BY <3>1 DEF Range
    <3>3. IsFiniteSet({f[s] : s \in S})
      BY <2>3, <2>4, FiniteValues
    <3> QED BY <2>5, <3>2, <3>3
  <2>7. op[b].owned = {} /\ OpFinite(n)
    BY <1>0, <2>1, <2>2, <2>6 DEF OpFinite, OwnedWhile
  <2> QED BY <1>2, <2>1, <2>2, <2>6, <2>7
<1>8. CASE applyRestoreTransaction(b)
  <2> DEFINE w == IF op[b].mode = "wipe" THEN userObjectKeys(media) ELSE {}
             n == [op[b] EXCEPT !.pc = "apply", !.raced = FALSE, !.owned = w]
  <2>1. n.pc = "apply" /\ n.mode = op[b].mode /\ n.owned = w /\ n.linkMap = op[b].linkMap /\ n.noteFiles = op[b].noteFiles
    <3> HIDE DEF w
    <3> QED BY <1>0 DEF IsOp, OpFields
  <2>2. /\ Go(b, n) \/ Go(b, Idle) \/ Go(b, resumeSkipRestore(op[b]))
        /\ UNCHANGED <<links, notes, media, ledger>> /\ op[b].pc = "begin"
    BY <1>8 DEF applyRestoreTransaction, Contents, At
  <2>3. w = {} \/ (op[b].mode = "wipe" /\ w = userObjectKeys(media))
    OBVIOUS
  <2> HIDE DEF n, w
  <2>4. op[b].owned = {} /\ Reserves(b)
    BY <1>0, <2>2 DEF OwnedWhile, Reserves
  <2>5. OpFinite(n)
    BY <1>0, <2>1, <2>3, OwnedKeys, FS_EmptySet DEF OpFinite, RSpared, AllFinite
  <2> QED BY <1>2, <1>3, <1>4, <2>1, <2>2, <2>3, <2>4, <2>5
<1>9. CASE slugRace(b)
  <2> DEFINE n == [op[b] EXCEPT !.pc = "begin", !.attempt = @ + 1, !.owned = {}]
  <2>1. n.pc = "begin" /\ n.owned = {} /\ n.linkMap = op[b].linkMap /\ n.noteFiles = op[b].noteFiles
    BY <1>0 DEF IsOp, OpFields
  <2>2. (Go(b, n) \/ Go(b, Idle)) /\ UNCHANGED <<links, notes, media, ledger>> /\ op[b].pc = "apply"
    BY <1>9 DEF slugRace, Contents, At
  <2> HIDE DEF n
  <2>3. OpFinite(n) /\ Reserves(b)
    BY <1>0, <2>1, <2>2, FS_EmptySet DEF OpFinite, Reserves
  <2> QED BY <1>2, <1>3, <2>1, <2>2, <2>3
<1> QED BY <1>5, <1>6, <1>7, <1>8, <1>9

\* The steps of an operation after its commit, of an export, and a backend that stops.
LEMMA SparedFileSteps ==
    ASSUME RSpared, ROnce', NEW b \in Backends,
           Files(b) \/ runRestoreObjectTasks(b) \/ captureExportSnapshot(b) \/ writeExportZip(b) \/ crashBackend(b)
    PROVE  RSpared'
<1>0. IsOp(op[b]) /\ OpFinite(op[b]) /\ OwnedWhile(b) /\ IsLedger(ledger)
  BY DEF RSpared, ROnce, RestoreShapes, AllFinite
<1>1. IsOp(Idle) /\ Idle.pc = "idle" /\ OpFinite(Idle) /\ Idle.owned = {}
  <2>1. Range(<<>>) = {}
    BY DEF Range
  <2> QED BY <2>1, OpIdles, FS_EmptySet DEF OpFinite, Idle
<1>2. ASSUME NEW o, Go(b, o), UNCHANGED <<links, notes>>, media' \in SUBSET media,
             ledger'.linkMap = ledger.linkMap, ledger'.noteFiles = ledger.noteFiles, OpFinite(o),
             o.pc \notin {"wipe", "begin", "apply"}, o.owned = {}
      PROVE RSpared'
  BY <1>2, SparedMoves
<1>3. ASSUME Go(b, Idle), UNCHANGED <<links, notes, media>>,
             ledger'.linkMap = ledger.linkMap, ledger'.noteFiles = ledger.noteFiles
      PROVE RSpared'
  BY <1>1, <1>2, <1>3
<1>4. CASE wipeRestoreFiles(b)
  <2> DEFINE n == [op[b] EXCEPT !.pc = "plan", !.owned = {}]
  <2>1. n.pc = "plan" /\ n.owned = {} /\ n.linkMap = op[b].linkMap /\ n.noteFiles = op[b].noteFiles
    BY <1>0 DEF IsOp, OpFields
  <2>2. Go(b, n) /\ UNCHANGED <<links, notes, ledger>> /\ media' \in SUBSET media
    BY <1>4 DEF wipeRestoreFiles
  <2> HIDE DEF n
  <2>3. OpFinite(n)
    BY <1>0, <2>1, FS_EmptySet DEF OpFinite
  <2> QED BY <1>2, <2>1, <2>2, <2>3
<1>5. CASE buildRestoreFilePlan(b)
  <2> DEFINE p == (UNION {remapRestoreFileKey(b, k) : k \in archive.files}) \ existingRestoreFiles(b)
             n == [op[b] EXCEPT !.pc = "put", !.pending = p]
  <2>1. n.pc = "put" /\ n.owned = op[b].owned /\ n.linkMap = op[b].linkMap /\ n.noteFiles = op[b].noteFiles
    <3> HIDE DEF p
    <3> QED BY <1>0 DEF IsOp, OpFields
  <2>2. Go(b, n) /\ UNCHANGED <<links, notes, media, ledger>> /\ op[b].pc = "plan"
    BY <1>5 DEF buildRestoreFilePlan, Contents, At
  <2> HIDE DEF n
  <2>3. OpFinite(n) /\ op[b].owned = {}
    BY <1>0, <2>1, <2>2 DEF OpFinite, OwnedWhile
  <2> QED BY <1>2, <2>1, <2>2, <2>3
<1>6. CASE applyRestoreObject(b)
  <2>1. PICK k : Go(b, [op[b] EXCEPT !.pending = @ \ {k}]) /\ UNCHANGED <<links, notes, media, ledger>> /\ op[b].pc = "put"
    BY <1>6 DEF applyRestoreObject, Contents, At
  <2> DEFINE n == [op[b] EXCEPT !.pending = @ \ {k}]
  <2>2. n.pc = op[b].pc /\ n.owned = op[b].owned /\ n.linkMap = op[b].linkMap /\ n.noteFiles = op[b].noteFiles
    BY <1>0 DEF IsOp, OpFields
  <2>3. Go(b, n)
    BY <2>1
  <2> HIDE DEF n
  <2>4. OpFinite(n) /\ op[b].owned = {}
    BY <1>0, <2>1, <2>2 DEF OpFinite, OwnedWhile
  <2> QED BY <1>2, <2>1, <2>2, <2>3, <2>4
<1>7. CASE completeRestoreLedger(b)
  <2>1. Go(b, Idle) /\ UNCHANGED <<links, notes, media>>
        /\ ledger' = [ledger EXCEPT !.complete = @ \/ (op[b].mode = "skip" /\ ledger.found)]
    BY <1>7 DEF completeRestoreLedger
  <2>2. ledger'.linkMap = ledger.linkMap /\ ledger'.noteFiles = ledger.noteFiles
    BY <1>0, <2>1 DEF IsLedger
  <2> QED BY <1>3, <2>1, <2>2
<1>8. CASE captureExportSnapshot(b)
  <2> DEFINE keys == listOwnedObjects
             n == [Idle EXCEPT !.pc = "export", !.rows = streamSnapshotJSON, !.pending = keys]
  <2>1. n.pc = "export" /\ n.owned = Idle.owned /\ n.linkMap = Idle.linkMap /\ n.noteFiles = Idle.noteFiles
    <3> HIDE DEF keys
    <3> QED BY <1>1 DEF IsOp, OpFields
  <2>2. Go(b, n) /\ UNCHANGED <<links, notes, media, ledger>>
    BY <1>8 DEF captureExportSnapshot, Contents
  <2> HIDE DEF n
  <2>3. OpFinite(n)
    BY <1>1, <2>1 DEF OpFinite
  <2> QED BY <1>1, <1>2, <2>1, <2>2, <2>3
<1>9. CASE runRestoreObjectTasks(b) \/ writeExportZip(b) \/ crashBackend(b)
  BY <1>3, <1>9 DEF runRestoreObjectTasks, writeExportZip, crashBackend, Contents
<1> QED BY <1>4, <1>5, <1>6, <1>7, <1>8, <1>9 DEF Files

\* What a commit leaves of the links: the account's own, unless it is a wipe, whose images are the ones
\* they had or their own, and new ones with new ids, each of which names its own object.
LEMMA CommitIds ==
    ASSUME RSpared, NEW b \in Backends, applyRestoreMode(b)
    PROVE  /\ \A l \in links' :
                 \/ l.id \notin UsedIds /\ l.img = l.id
                 \/ op[b].mode # "wipe" /\ \E k \in links : l.id = k.id /\ l.img \in {k.id, k.img}
           /\ IsFiniteSet(links') /\ IsFiniteSet(Range(op'[b].linkMap))
           /\ ledger' = saveRestoreLedger(b, op'[b].linkMap)
<1> DEFINE S == {l.id : l \in archive.links}
           ids == reserveRestoreIDs(S)
           ins == restoreConflictLinks(b, ids)
           rows == restoreStaged(b, ins)
           lm == loadStagedIDMapping(rows)
           x == {l.id : l \in ins}
           n == [op[b] EXCEPT !.pc = IF op[b].mode = "wipe" THEN "wipe" ELSE "plan", !.linkMap = lm, !.inserted = x]
<1>0. /\ IsOp(op[b]) /\ rest \in RestoreScenarios /\ IsFiniteSet(links) /\ (\A l \in links : IsLink(l))
      /\ op = [c \in Backends |-> op[c]]
  BY DEF RSpared, ROnce, RestoreShapes, AllFinite
<1>1. /\ IsFiniteSet(archive.links) /\ \A l \in archive.links : l.id \in Int
      /\ \A l, k \in archive.links : l.id = k.id \/ l.url = k.url => l = k
  BY <1>0, RestoreAssumption DEF archive
<1>2. /\ links' = realignLinkImageURLs(rows, Range(lm)) /\ ledger' = saveRestoreLedger(b, lm) /\ Go(b, n)
  BY DEF applyRestoreMode
<1>3. op'[b].linkMap = lm
  <2> HIDE DEF lm, x
  <2>1. n.linkMap = lm
    BY <1>0 DEF IsOp, OpFields
  <2> HIDE DEF n
  <2> QED BY <1>0, <1>2, <2>1, OpMoves
<1>4. IsFiniteSet(S) /\ S \subseteq Int
  <2> DEFINE g == [l \in archive.links |-> l.id]
  <2>1. g = [l \in archive.links |-> g[l]] /\ {g[l] : l \in archive.links} = S
    OBVIOUS
  <2> HIDE DEF g
  <2>2. IsFiniteSet({g[l] : l \in archive.links})
    BY <1>1, <2>1, FiniteValues
  <2> QED BY <1>1, <2>1, <2>2
<1>5. \A s \in S : ids[s] \notin UsedIds
  <2> HIDE DEF S
  <2> QED BY <1>4, UsedFinite, FreshIds DEF RSpared, ROnce
<1> HIDE DEF ids, n
<1> DEFINE New(l) == [id |-> ids[l.id], url |-> l.url, img |-> l.id, via |-> op[b].mode]
           A == {l \in archive.links : \A live \in wipeUser(b, links) : live.url # l.url}
<1>6. ins = {New(l) : l \in A} /\ \A l \in A : New(l).id = ids[l.id] /\ New(l).url = l.url
  BY DEF restoreConflictLinks
<1>7. rows = wipeUser(b, links) \cup ins /\ (wipeUser(b, links) = {} \/ (op[b].mode # "wipe" /\ wipeUser(b, links) = links))
  BY DEF restoreStaged, wipeUser
<1>8. IsFiniteSet(rows)
  <2> DEFINE g == [l \in A |-> New(l)]
  <2>1. g = [l \in A |-> g[l]] /\ {g[l] : l \in A} = ins
    BY <1>6
  <2>2. IsFiniteSet(A)
    BY <1>1, FS_Subset
  <2> HIDE DEF g, A, ins
  <2>3. IsFiniteSet({g[l] : l \in A})
    BY <2>1, <2>2, FiniteValues
  <2>4. IsFiniteSet(ins) /\ IsFiniteSet(wipeUser(b, links))
    BY <1>0, <1>7, <2>1, <2>3, FS_EmptySet
  <2> HIDE DEF rows
  <2>5. IsFiniteSet(wipeUser(b, links) \cup ins)
    BY <2>4, FS_Union
  <2> QED BY <1>7, <2>5
<1>9. lm = [s \in S |-> (CHOOSE live \in rows : \E l \in archive.links : l.id = s /\ l.url = live.url).id]
  BY DEF loadStagedIDMapping
<1>10. DOMAIN lm = S /\ IsFiniteSet(Range(lm))
  <2> HIDE DEF S, rows
  <2>1. DOMAIN lm = S /\ lm = [s \in S |-> lm[s]]
    BY <1>9
  <2> HIDE DEF lm
  <2>2. IsFiniteSet({lm[s] : s \in S})
    BY <1>4, <2>1, FiniteValues
  <2> QED BY <2>1, <2>2 DEF Range
<1>11. ASSUME NEW l \in A PROVE ids[l.id] \in Range(lm)
  <2>1. l \in archive.links /\ l.id \in S
    OBVIOUS
  <2>2. New(l) \in rows /\ New(l).url = l.url
    BY <1>6, <1>7
  <2>3. ASSUME NEW live \in rows, NEW k \in archive.links, k.id = l.id, k.url = live.url PROVE live = New(l)
    <3>1. k = l
      BY <1>1, <2>1, <2>3
    <3>2. live \notin wipeUser(b, links)
      BY <2>3, <3>1
    <3>3. PICK m \in A : live = New(m)
      BY <1>6, <1>7, <2>3, <3>2
    <3>4. m = l
      BY <1>1, <1>6, <2>1, <2>3, <3>1, <3>3
    <3> QED BY <3>3, <3>4
  <2> DEFINE r == New(l)
             s == l.id
             Of(live) == \E k \in archive.links : k.id = s /\ k.url = live.url
  <2>4. r \in rows /\ Of(r) /\ \A live \in rows : Of(live) => live = r
    BY <2>1, <2>2, <2>3
  <2>5. lm[s] = (CHOOSE live \in rows : Of(live)).id
    BY <1>9, <2>1
  <2>6. r.id = ids[s]
    BY <1>6
  <2> HIDE DEF r, s, Of, rows, lm, S, A
  <2>7. lm[s] = r.id
    BY <2>4, <2>5
  <2>8. s \in DOMAIN lm
    BY <1>10, <2>1 DEF s
  <2> QED BY <2>6, <2>7, <2>8 DEF Range, s
<1>12. \A l \in ins : IsLink(l) /\ l.id \notin UsedIds /\ l.id \in Range(lm)
  <2> SUFFICES ASSUME NEW l \in ins PROVE IsLink(l) /\ l.id \notin UsedIds /\ l.id \in Range(lm)
    OBVIOUS
  <2>1. PICK k \in A : l = New(k)
    BY <1>6
  <2>2. l.id = ids[k.id] /\ IsLink(l)
    BY <2>1 DEF IsLink
  <2>3. k.id \in S
    OBVIOUS
  <2> HIDE DEF lm, S
  <2> QED BY <1>5, <1>11, <2>2, <2>3
<1> HIDE DEF rows, lm, ins, A
<1>13. \A l \in rows : IsLink(l)
  BY <1>0, <1>7, <1>12
<1>14. ASSUME NEW l \in rows, NEW R, NEW m, m = [l EXCEPT !.img = IF l.id \in R THEN l.id ELSE @]
       PROVE  m.id = l.id /\ m.img = IF l.id \in R THEN l.id ELSE l.img
  <2>1. l = [id |-> l.id, url |-> l.url, img |-> l.img, via |-> l.via]
    BY <1>13 DEF IsLink
  <2> QED BY <1>14, <2>1
<1>15. \A m \in links' : \E l \in rows : m.id = l.id /\ m.img = IF l.id \in Range(lm) THEN l.id ELSE l.img
  BY <1>2, <1>14 DEF realignLinkImageURLs
<1>16. ASSUME NEW m \in links'
       PROVE  \/ m.id \notin UsedIds /\ m.img = m.id
              \/ op[b].mode # "wipe" /\ \E k \in links : m.id = k.id /\ m.img \in {k.id, k.img}
  <2>1. PICK l \in rows : m.id = l.id /\ m.img = IF l.id \in Range(lm) THEN l.id ELSE l.img
    BY <1>15
  <2>2. CASE l \in ins
    BY <1>12, <2>1, <2>2
  <2>3. CASE op[b].mode # "wipe" /\ l \in links
    BY <2>1, <2>3
  <2> QED BY <1>7, <2>2, <2>3
<1>17. IsFiniteSet(links')
  <2> DEFINE g == [l \in rows |-> [l EXCEPT !.img = IF l.id \in Range(lm) THEN l.id ELSE @]]
  <2>1. g = [l \in rows |-> g[l]] /\ {g[l] : l \in rows} = links'
    BY <1>2 DEF realignLinkImageURLs
  <2> HIDE DEF g
  <2>2. IsFiniteSet({g[l] : l \in rows})
    BY <1>8, <2>1, FiniteValues
  <2> QED BY <2>1, <2>2
<1> QED BY <1>2, <1>3, <1>10, <1>16, <1>17

\* The commit: its notes have the keys it reserved, and its links new ids.
LEMMA SparedCommit ==
    ASSUME RSpared, ROnce', NEW b \in Backends, applyRestoreMode(b)
    PROVE  RSpared'
<1> DEFINE o == op'[b]
           f == op[b].noteFiles
<1>0. /\ RestoreShapes /\ op[b].pc = "apply" /\ DOMAIN f = NoteKeys /\ IsOp(op[b]) /\ OpFinite(op[b])
      /\ IsFiniteSet(media) /\ IsFiniteSet(Range(ledger.linkMap)) /\ IsFiniteSet(Range(ledger.noteFiles))
  BY DEF RSpared, ROnce, RestoreShapes, AllFinite, OpKnown, At, applyRestoreMode
<1>1. /\ o = [op[b] EXCEPT !.pc = IF op[b].mode = "wipe" THEN "wipe" ELSE "plan", !.linkMap = o.linkMap, !.inserted = o.inserted]
      /\ op' = [op EXCEPT ![b] = o]
  BY <1>0, CommitLinks
<1>2. /\ o.pc = (IF op[b].mode = "wipe" THEN "wipe" ELSE "plan") /\ o.owned = op[b].owned /\ o.noteFiles = f
      /\ o.mode = op[b].mode
  <2> DEFINE y == o.linkMap  z == o.inserted
             m == [op[b] EXCEPT !.pc = IF op[b].mode = "wipe" THEN "wipe" ELSE "plan", !.linkMap = y, !.inserted = z]
  <2>1. o = m
    BY <1>1
  <2> HIDE DEF o, y, z
  <2>2. m.pc = (IF op[b].mode = "wipe" THEN "wipe" ELSE "plan") /\ m.owned = op[b].owned /\ m.noteFiles = f
        /\ m.mode = op[b].mode
    BY <1>0 DEF IsOp, OpFields
  <2> QED BY <2>1, <2>2
<1>3. \A c \in Backends : c # b => op'[c] = op[c]
  BY <1>0, <1>1 DEF RestoreShapes
<1> HIDE DEF o
<1>4. /\ \A l \in links' : \/ l.id \notin UsedIds /\ l.img = l.id
                           \/ op[b].mode # "wipe" /\ \E k \in links : l.id = k.id /\ l.img \in {k.id, k.img}
      /\ IsFiniteSet(links') /\ IsFiniteSet(Range(o.linkMap)) /\ ledger' = saveRestoreLedger(b, o.linkMap)
  BY CommitIds DEF o
<1>5. restoreNoteMediaRefs(b) \in SUBSET Range(f)
  BY <1>0 DEF restoreNoteMediaRefs, NoteKeys, Range
<1>6. /\ media' = media \cup restoreNoteMediaRefs(b)
      /\ \A n \in notes' : (op[b].mode # "wipe" /\ n \in notes) \/ n.key \in Range(f)
  BY <1>5 DEF applyRestoreMode, wipeUser, insertStagedNotes
<1>7. AllFinite'
  <2>1. IsFiniteSet(media')
    <3>1. IsFiniteSet(restoreNoteMediaRefs(b))
      BY <1>0, <1>5, FS_Subset DEF OpFinite
    <3> QED BY <1>0, <1>6, <3>1, FS_Union
  <2>2. IsFiniteSet(Range(ledger'.linkMap)) /\ IsFiniteSet(Range(ledger'.noteFiles))
    <3>1. Range(<<>>) = {}
      BY DEF Range
    <3> QED BY <1>0, <1>4, <3>1, FS_EmptySet DEF saveRestoreLedger, NoLedger, OpFinite
  <2>3. ASSUME NEW c \in Backends PROVE OpFinite(op'[c])
    <3>1. CASE c = b
      BY <1>0, <1>2, <1>4, <3>1 DEF OpFinite, o
    <3>2. CASE c # b
      BY <1>3, <3>2 DEF RSpared, AllFinite
    <3> QED BY <3>1, <3>2
  <2> QED BY <1>4, <2>1, <2>2, <2>3 DEF AllFinite, OpFinite
<1>8. Reserves(b) /\ ~Reserves(b)' /\ KeysAhead(b)
  BY <1>0, <1>2 DEF Reserves, RSpared, o
<1>9. \A c \in Backends : op'[c].owned = op[c].owned /\ op'[c].noteFiles = op[c].noteFiles /\ (Reserves(c)' => Reserves(c))
  BY <1>2, <1>3, <1>8 DEF Reserves, o
<1>10. ASSUME NEW c \in Backends PROVE KeysAhead(c)'
  <2> SUFFICES ASSUME Reserves(c)', NEW x \in Range(op[c].noteFiles)
               PROVE  /\ x \notin media'
                      /\ \A d \in Backends : /\ Key("note", x) \notin op[d].owned
                                             /\ d # c /\ Reserves(d)' => x \notin Range(op[d].noteFiles)
    BY <1>9 DEF KeysAhead
  <2>1. c # b /\ Reserves(c) /\ KeysAhead(c)
    BY <1>8, <1>9 DEF RSpared
  <2>2. x \notin media /\ x \notin Range(f)
    BY <1>8, <2>1 DEF KeysAhead
  <2> QED BY <1>5, <1>6, <1>9, <2>1, <2>2 DEF KeysAhead
<1>11. ASSUME NEW c \in Backends PROVE OwnedWhile(c)'
  <2>1. CASE c = b
    BY <1>0, <1>2, <2>1 DEF RSpared, OwnedWhile, o
  <2>2. CASE c # b
    BY <1>3, <2>2 DEF RSpared, OwnedWhile
  <2> QED BY <2>1, <2>2
<1>12. ASSUME NEW c \in Backends, At(c, "wipe")' PROVE Unnamed(op[c].owned, links', notes')
  <2>1. \/ c = b /\ op[b].mode = "wipe"
        \/ c # b /\ Unnamed(op[c].owned, links, notes)
    BY <1>2, <1>3, <1>12 DEF At, o, RSpared, WipedRows
  <2>2. ASSUME NEW l \in links' PROVE Key("link", l.id) \notin op[c].owned /\ Key("link", l.img) \notin op[c].owned
    <3>1. CASE l.id \notin UsedIds /\ l.img = l.id
      BY <3>1, UsedKnown
    <3>2. CASE op[b].mode # "wipe" /\ \E k \in links : l.id = k.id /\ l.img \in {k.id, k.img}
      BY <2>1, <3>2 DEF Unnamed
    <3> QED BY <1>4, <3>1, <3>2
  <2>3. ASSUME NEW n \in notes' PROVE Key("note", n.key) \notin op[c].owned
    <3>1. CASE n.key \in Range(f)
      BY <1>8, <3>1 DEF KeysAhead
    <3>2. CASE op[b].mode # "wipe" /\ n \in notes
      BY <2>1, <3>2 DEF Unnamed
    <3> QED BY <1>6, <3>1, <3>2
  <2> QED BY <2>2, <2>3 DEF Unnamed
<1>13. \A c \in Backends : WipedRows(c)'
  BY <1>9, <1>12 DEF WipedRows
<1> QED BY <1>7, <1>10, <1>11, <1>13 DEF RSpared

\* A link that the user creates has a new id.
LEMMA SparedUserSteps ==
    ASSUME RSpared, ROnce', (\E l \in archive.links : userCreates(l.url)) \/ (\E l \in links : userDeletes(l))
    PROVE  RSpared'
<1>0. \A c \in Backends : IsOp(op[c])
  BY DEF RSpared, ROnce, RestoreShapes
<1>1. /\ UNCHANGED <<rest, notes, media, ledger>> /\ IsFiniteSet(links')
      /\ \A c \in Backends : /\ op'[c].pc = op[c].pc /\ op'[c].mode = op[c].mode /\ op'[c].owned = op[c].owned
                             /\ op'[c].linkMap = op[c].linkMap /\ op'[c].noteFiles = op[c].noteFiles
      /\ \A l \in links' : l \in links \/ (l.id \notin UsedIds /\ l.img = l.id)
  <2>1. CASE \E l \in links : userDeletes(l)
    <3>1. links' \in SUBSET links /\ UNCHANGED <<rest, notes, media, ledger, op>>
      BY <2>1 DEF userDeletes
    <3>2. IsFiniteSet(links')
      BY <3>1, FS_Subset DEF RSpared, AllFinite
    <3> QED BY <3>1, <3>2
  <2>2. CASE \E l \in archive.links : userCreates(l.url)
    <3>0. PICK u : userCreates(u)
      BY <2>2
    <3> DEFINE new == reserveRestoreIDs({0})[0]
    <3>1. new \notin UsedIds
      <4>1. IsFiniteSet({0}) /\ {0} \subseteq Int /\ 0 \in {0}
        <5>1. IsFiniteSet({0})
          BY FS_Singleton
        <5> QED BY <5>1
      <4>2. IsFiniteSet(UsedIds)
        BY UsedFinite DEF RSpared, ROnce
      <4> DEFINE Z == {0}
      <4> HIDE DEF Z
      <4>3. reserveRestoreIDs(Z)[0] \notin UsedIds
        BY <4>1, <4>2, FreshIds DEF Z
      <4> QED BY <4>3 DEF Z
    <3> HIDE DEF new
    <3>2. /\ UNCHANGED <<rest, notes, media, ledger>>
          /\ op' = [c \in Backends |-> [op[c] EXCEPT !.raced = At(c, "apply")]]
          /\ links' = links \cup {[id |-> new, url |-> u, img |-> new, via |-> "user"]}
      BY <3>0 DEF userCreates, new
    <3>3. ASSUME NEW c \in Backends
          PROVE  /\ op'[c].pc = op[c].pc /\ op'[c].mode = op[c].mode /\ op'[c].owned = op[c].owned
                 /\ op'[c].linkMap = op[c].linkMap /\ op'[c].noteFiles = op[c].noteFiles
      <4> DEFINE x == At(c, "apply")
                 m == [op[c] EXCEPT !.raced = x]
      <4>1. op'[c] = m
        BY <3>2
      <4> HIDE DEF x
      <4>2. /\ m.pc = op[c].pc /\ m.mode = op[c].mode /\ m.owned = op[c].owned
            /\ m.linkMap = op[c].linkMap /\ m.noteFiles = op[c].noteFiles
        BY <1>0 DEF IsOp, OpFields
      <4> QED BY <4>1, <4>2
    <3>4. IsFiniteSet(links')
      BY <3>2, FS_AddElement DEF RSpared, AllFinite
    <3> QED BY <3>1, <3>2, <3>3, <3>4
  <2> QED BY <2>1, <2>2
<1>2. AllFinite'
  BY <1>1 DEF RSpared, AllFinite, OpFinite
<1>3. ASSUME NEW c \in Backends PROVE KeysAhead(c)' /\ OwnedWhile(c)'
  BY <1>1 DEF RSpared, KeysAhead, Reserves, OwnedWhile
<1>4. ASSUME NEW c \in Backends, At(c, "wipe") PROVE Unnamed(op[c].owned, links', notes')
  <2>1. Unnamed(op[c].owned, links, notes)
    BY <1>4 DEF RSpared, WipedRows
  <2> QED BY <1>1, <2>1, UsedKnown DEF Unnamed
<1>5. \A c \in Backends : WipedRows(c)'
  BY <1>1, <1>4 DEF WipedRows, At
<1> QED BY <1>2, <1>3, <1>5 DEF RSpared

LEMMA SparedStep == RSpared /\ [RestoreNext]_restoreVars => RSpared'
<1> SUFFICES ASSUME RSpared, [RestoreNext]_restoreVars PROVE RSpared'
  OBVIOUS
<1>0. ROnce'
  BY OnceStep DEF RSpared
<1>1. CASE RestoreNext
  <2>1. CASE (\E l \in archive.links : userCreates(l.url)) \/ (\E l \in links : userDeletes(l))
    BY <1>0, <2>1, SparedUserSteps
  <2>2. ASSUME NEW b \in Backends,
               \/ \E mode \in {"skip", "wipe", "duplicate"} : restoreRequest(b, mode)
               \/ Transaction(b) \/ Files(b) \/ runRestoreObjectTasks(b)
               \/ captureExportSnapshot(b) \/ writeExportZip(b) \/ crashBackend(b)
        PROVE  RSpared'
    BY <1>0, <2>2, SparedOpSteps, SparedFileSteps, SparedCommit DEF Transaction
  <2> QED BY <1>1, <2>1, <2>2 DEF RestoreNext
<1>2. CASE UNCHANGED restoreVars
  BY <1>0, <1>2 DEF RSpared, AllFinite, OpFinite, KeysAhead, Reserves, OwnedWhile, WipedRows, At, restoreVars
<1> QED BY <1>1, <1>2

\* No row that shows an object loses it to a wipe: the wipe lists the objects in its transaction, which takes the
\* rows away, and deletes them after the commit, while other backends reserve keys and insert rows (wipeUser,
\* wipeRestoreFiles, reserveRestoreIDs).
THEOREM WipesSpareLiveRows == RestoreSpec => NoLiveObjectWiped
<1>1. ASSUME RSpared, [RestoreNext]_restoreVars, NEW k \in objects \ objects'
      PROVE  (\A l \in links' : Key("link", l.img) # k) /\ (\A n \in notes' : Key("note", n.key) # k)
  <2>1. objects' # objects /\ ~(objects \subseteq objects')
    OBVIOUS
  <2>2. ASSUME NEW b \in Backends, runRestoreObjectTasks(b) \/ applyRestoreObject(b) PROVE FALSE
    <3>1. \E done : objects' = objects \cup done
      BY <2>2 DEF runRestoreObjectTasks, applyRestoreObject
    <3> QED BY <2>1, <3>1
  <2>3. RestoreNext
    BY <1>1, <2>1 DEF restoreVars
  <2>4. ASSUME NEW b \in Backends,
               \/ \E mode \in {"skip", "wipe", "duplicate"} : restoreRequest(b, mode)
               \/ Transaction(b) \/ buildRestoreFilePlan(b) \/ completeRestoreLedger(b)
               \/ captureExportSnapshot(b) \/ writeExportZip(b)
        PROVE  FALSE
    BY <2>1, <2>4 DEF Transaction, restoreRequest, restoreFromLedger, prepareNoteMediaRestore, applyRestoreTransaction,
         applyRestoreMode, slugRace, buildRestoreFilePlan, completeRestoreLedger, captureExportSnapshot, writeExportZip
  <2>5. ~(\E l \in archive.links : userCreates(l.url)) /\ ~(\E l \in links : userDeletes(l))
    BY <2>1 DEF userCreates, userDeletes
  <2>6. PICK b \in Backends : wipeRestoreFiles(b) \/ crashBackend(b)
    BY <2>2, <2>3, <2>4, <2>5 DEF RestoreNext, Files
  <2>7. At(b, "wipe") /\ k \in op[b].owned /\ links' = links /\ notes' = notes
    <3>1. CASE wipeRestoreFiles(b)
      BY <1>1, <3>1 DEF wipeRestoreFiles
    <3>2. CASE crashBackend(b)
      <4>1. links' = links /\ notes' = notes
            /\ objects' \in IF At(b, "wipe") THEN {objects \ gone : gone \in SUBSET op[b].owned} ELSE {objects}
        BY <3>2 DEF crashBackend, Contents
      <4>2. At(b, "wipe")
        BY <2>1, <4>1
      <4>3. PICK gone \in SUBSET op[b].owned : objects' = objects \ gone
        BY <4>1, <4>2
      <4> QED BY <1>1, <4>1, <4>2, <4>3
    <3> QED BY <2>6, <3>1, <3>2
  <2> QED BY <1>1, <2>7 DEF RSpared, WipedRows, Unnamed
<1>2. RSpared /\ [RestoreNext]_restoreVars =>
          \A k \in objects \ objects' :
              (\A l \in links' : Key("link", l.img) # k) /\ (\A n \in notes' : Key("note", n.key) # k)
  BY <1>1
<1> QED BY <1>2, SparedStarts, SparedStep, PTL DEF RestoreSpec, NoLiveObjectWiped
===============================================================================

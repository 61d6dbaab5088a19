------------------------------ MODULE MailOutbox ------------------------------
(***************************************************************************)
(* The transactional mail outbox: the table mail_outbox, the statements of *)
(* mailoutbox.Repository, and the relays (mailoutbox.Relay) that claim     *)
(* rows, hand them to a Sink and settle the result.                        *)
(*                                                                         *)
(* Several relays may run against one database.  A relay may be stopped,   *)
(* killed and restarted, its statements may fail, and it may stall for     *)
(* longer than the claim TTL while another relay sweeps the table.         *)
(*                                                                         *)
(* Time is relative.  Tick lets one unit pass: it ages the rows and the    *)
(* claims (saturating at the longest TTL that is compared with them) and   *)
(* counts next_attempt_at down.  claim_token is the claim's ordinal on its *)
(* row: Claim draws a fresh uuid and increments attempts in one statement, *)
(* so attempts names the uuids of a row apart.                             *)
(***************************************************************************)
EXTENDS Integers, FiniteSets

CONSTANTS
    Msgs,          \* ids of mail_outbox rows
    Relays,        \* relay processes
    Batch,         \* Options.Batch: rows per claim
    Workers,       \* Options.Workers: deliveries in parallel
    MaxAttempts,   \* Options.MaxAttempts
    SendTimeout,   \* Options.SendTimeout, in ticks
    ClaimTTL,      \* Options.ClaimTTL, in ticks
    PublishedTTL,  \* Options.PublishedTTL, in ticks
    FailedTTL,     \* Options.FailedTTL, in ticks
    MaxBackoff,    \* the longest backoff, in ticks
    AttemptBound,  \* bound on the claims of one row
    MaxFaults      \* bound on stops, crashes, panics and lost statements

ASSUME OutboxAssumption ==
    /\ Msgs \subseteq Nat
    /\ Batch \in Nat \ {0}
    /\ Workers \in Nat \ {0}
    /\ MaxAttempts \in Nat \ {0}
    /\ SendTimeout \in Nat
    /\ ClaimTTL \in Nat
    /\ PublishedTTL \in Nat
    /\ FailedTTL \in Nat
    /\ PublishedTTL <= FailedTTL
    /\ MaxBackoff \in Nat
    /\ AttemptBound \in Nat
    /\ MaxFaults \in Nat

VARIABLES
    \* The columns of mail_outbox.
    status, attempts, token, claimAge, wait, age,
    \* The relays: what the loop is doing, the claims not yet dispatched and
    \* the claims a delivery worker holds.
    mode, batch, inflight,
    \* History, by claim: the sends the sink took, and those it refused for good.
    handed, refused,
    \* How many faults have happened.
    faults

rowVars   == <<status, attempts, token, claimAge, wait, age>>
relayVars == <<mode, batch, inflight>>
history   == <<handed, refused>>
vars      == <<rowVars, relayVars, history, faults>>

NoToken == 0

Statuses == {"absent", "pending", "publishing", "published", "failed", "purged"}
Modes    == {"down", "idle", "draining", "drainingFull", "again", "stopping"}
Draining == {"draining", "drainingFull"}
Outcomes == {"sending", "ok", "retry", "permanent"}

Claims  == [id : Msgs, tok : Nat \ {0}]
Sends   == [id : Msgs, tok : Nat \ {0}, out : Outcomes, elapsed : 0..SendTimeout]

\* One more tick on a clock that saturates at limit.
Aged(n, limit) == IF n < limit THEN n + 1 ELSE n

-------------------------------------------------------------------------------
(***************************************************************************)
(* The statements of mailoutbox.Repository.                                *)
(***************************************************************************)

\* Rows a claim may take: pending and due.
Due == {m \in Msgs : status[m] = "pending" /\ wait[m] = 0}

\* The row set one Claim takes: as many due rows as LIMIT allows.
Claimable(S) ==
    /\ S \subseteq Due
    /\ S # {}
    /\ \A m \in S : attempts[m] < AttemptBound
    /\ Cardinality(S) = IF Cardinality(Due) < Batch THEN Cardinality(Due) ELSE Batch

\* The UPDATE of Claim: the attempt is charged before delivery.
ClaimRows(S) ==
    /\ status'   = [m \in Msgs |-> IF m \in S THEN "publishing" ELSE status[m]]
    /\ attempts' = [m \in Msgs |-> IF m \in S THEN attempts[m] + 1 ELSE attempts[m]]
    /\ token'    = [m \in Msgs |-> IF m \in S THEN attempts[m] + 1 ELSE token[m]]
    /\ claimAge' = [m \in Msgs |-> IF m \in S THEN 0 ELSE claimAge[m]]
    /\ UNCHANGED <<wait, age>>

\* What Claim returns to its caller.
ClaimsOf(S) == {[id |-> m, tok |-> attempts[m] + 1] : m \in S}

\* Mutant: the settle statements check the status and not the token.
OwnsAnyClaim(c) == status[c.id] = "publishing"

\* The compare-and-set both settle statements make.
Owns(c) == status[c.id] = "publishing" /\ token[c.id] = c.tok

MarkPublished(c) ==
    /\ status' = [status EXCEPT ![c.id] = IF Owns(c) THEN "published" ELSE @]
    /\ token'  = [token  EXCEPT ![c.id] = IF Owns(c) THEN NoToken ELSE @]
    /\ UNCHANGED <<attempts, claimAge, wait, age>>

\* backoff(attempt): longer with every attempt, up to a ceiling.
Backoff(n) == IF n < MaxBackoff THEN n ELSE MaxBackoff

\* Mutants: the budget ends one attempt early, or one attempt late.
GivesUpEarly(c, permanent) == permanent \/ attempts[c.id] + 1 >= MaxAttempts
GivesUpLate(c, permanent)  == permanent \/ attempts[c.id] > MaxAttempts

\* The budget test of MarkFailed.
GivesUp(c, permanent) == permanent \/ attempts[c.id] >= MaxAttempts

MarkFailed(c, permanent) ==
    /\ status' = [status EXCEPT ![c.id] =
                    IF ~Owns(c) THEN @
                    ELSE IF GivesUp(c, permanent) THEN "failed" ELSE "pending"]
    /\ wait'     = [wait     EXCEPT ![c.id] = IF Owns(c) THEN Backoff(c.tok) ELSE @]
    /\ token'    = [token    EXCEPT ![c.id] = IF Owns(c) THEN NoToken ELSE @]
    /\ claimAge' = [claimAge EXCEPT ![c.id] = IF Owns(c) THEN 0 ELSE @]
    /\ UNCHANGED <<attempts, age>>

\* Mutants: the sweep forgets the status test, or never finds a row.
StuckAnyStatus == {m \in Msgs : status[m] \in {"publishing", "published"}
                                /\ claimAge[m] >= ClaimTTL}
StuckNever     == {m \in Msgs : status[m] = "publishing" /\ claimAge[m] > ClaimTTL}

\* Rows RequeueStuck returns to the queue.
Stuck == {m \in Msgs : status[m] = "publishing" /\ claimAge[m] >= ClaimTTL}

\* Rows Purge deletes: settled, and created longer ago than their TTL.
Purgeable == {m \in Msgs : \/ status[m] = "published" /\ age[m] >= PublishedTTL
                           \/ status[m] = "failed"    /\ age[m] >= FailedTTL}

\* Mutant: RequeueStuck leaves claim_token on the row.
SweepKeepsToken(P, S) ==
    /\ status' = [m \in Msgs |-> IF m \in P THEN "purged"
                                 ELSE IF m \in S THEN "pending" ELSE status[m]]
    /\ claimAge' = [m \in Msgs |-> IF m \in S THEN 0 ELSE claimAge[m]]
    /\ UNCHANGED <<attempts, token, wait, age>>

\* Purge deletes P, RequeueStuck returns S.
Sweep(P, S) ==
    /\ status' = [m \in Msgs |-> IF m \in P THEN "purged"
                                 ELSE IF m \in S THEN "pending" ELSE status[m]]
    /\ token'    = [m \in Msgs |-> IF m \in S THEN NoToken ELSE token[m]]
    /\ claimAge' = [m \in Msgs |-> IF m \in S THEN 0 ELSE claimAge[m]]
    /\ UNCHANGED <<attempts, wait, age>>

-------------------------------------------------------------------------------
(***************************************************************************)
(* The credential's transaction.                                           *)
(***************************************************************************)

\* EnqueueTx commits together with the transaction it is called in.
EnqueueTx(m) ==
    /\ status[m] = "absent"
    /\ status' = [status EXCEPT ![m] = "pending"]
    /\ UNCHANGED <<attempts, token, claimAge, wait, age, relayVars, history, faults>>

-------------------------------------------------------------------------------
(***************************************************************************)
(* The relay.                                                              *)
(***************************************************************************)

Fault == faults < MaxFaults /\ faults' = faults + 1

\* Start: the loop opens with one sweep.  ok is FALSE when the statement fails.
Boot(r, ok) ==
    /\ mode[r] = "down"
    /\ mode' = [mode EXCEPT ![r] = "idle"]
    /\ Sweep({}, IF ok THEN Stuck ELSE {})
    /\ UNCHANGED <<batch, inflight, history, faults>>

\* The hourly case of the loop: purge, then requeueStuck; each may fail alone.
Maintain(r, purged, swept) ==
    /\ mode[r] = "idle"
    /\ Sweep(IF purged THEN Purgeable ELSE {}, IF swept THEN Stuck ELSE {})
    /\ UNCHANGED <<relayVars, history, faults>>

\* claimBatch found rows: drain starts.  From "again" when the batch before was
\* full, so that neither timer is served in between.
Drain(r, S) ==
    /\ mode[r] \in {"idle", "again"}
    /\ Claimable(S)
    /\ ClaimRows(S)
    /\ mode'  = [mode  EXCEPT ![r] =
                    IF Cardinality(S) = Batch THEN "drainingFull" ELSE "draining"]
    /\ batch' = [batch EXCEPT ![r] = ClaimsOf(S)]
    /\ UNCHANGED <<inflight, history, faults>>

\* The claim statement committed and its result never arrived.
ClaimLost(r, S) ==
    /\ mode[r] \in {"idle", "again"}
    /\ Claimable(S)
    /\ ClaimRows(S)
    /\ mode' = [mode EXCEPT ![r] = "idle"]
    /\ Fault
    /\ UNCHANGED <<batch, inflight, history>>

\* The claim after a full batch finds nothing due: back to the timers.
DrainEmpty(r) ==
    /\ mode[r] = "again"
    /\ Due = {}
    /\ mode' = [mode EXCEPT ![r] = "idle"]
    /\ UNCHANGED <<rowVars, batch, inflight, history, faults>>

\* dispatchBatch gives the next claim, in id order, to a free worker.  A select
\* with both cases ready may still choose it after Stop.
Dispatch(r, c) ==
    /\ mode[r] \in Draining \cup {"stopping"}
    /\ c \in batch[r]
    /\ \A d \in batch[r] : c.id <= d.id
    /\ Cardinality(inflight[r]) < Workers
    /\ batch' = [batch EXCEPT ![r] = @ \ {c}]
    /\ inflight' = [inflight EXCEPT ![r] = @ \cup
            {[id |-> c.id, tok |-> c.tok, out |-> "sending", elapsed |-> 0]}]
    /\ UNCHANGED <<rowVars, mode, history, faults>>

\* Sink.Deliver returns: nil only if the sink took the message, a permanent
\* error only if it did not, any other error in either case.
PossibleReturn(out, took) ==
    \/ out = "ok" /\ took
    \/ out = "permanent" /\ ~took
    \/ out = "retry"

Take(c, out, took) ==
    /\ handed'  = [handed  EXCEPT ![c.id] = IF took THEN @ \cup {c.tok} ELSE @]
    /\ refused' = [refused EXCEPT ![c.id] = IF out = "permanent" THEN @ \cup {c.tok} ELSE @]

SinkReturns(r, c, out, took) ==
    /\ c \in inflight[r]
    /\ c.out = "sending"
    /\ PossibleReturn(out, took)
    /\ Take(c, out, took)
    /\ inflight' = [inflight EXCEPT ![r] = (@ \ {c}) \cup {[c EXCEPT !.out = out]}]
    /\ UNCHANGED <<rowVars, mode, batch, faults>>

\* deliverGuarded recovers a panic of the sink; nothing settles the claim.
SinkPanics(r, c, took) ==
    /\ c \in inflight[r]
    /\ c.out = "sending"
    /\ Take(c, "panic", took)
    /\ inflight' = [inflight EXCEPT ![r] = @ \ {c}]
    /\ Fault
    /\ UNCHANGED <<rowVars, mode, batch>>

\* recoverClaim: the stage of the outcome decides the statement.
RecoverClaim(r, c) ==
    /\ c \in inflight[r]
    /\ c.out # "sending"
    /\ IF c.out = "ok" THEN MarkPublished(c)
                       ELSE MarkFailed(c, c.out = "permanent")
    /\ inflight' = [inflight EXCEPT ![r] = @ \ {c}]
    /\ UNCHANGED <<mode, batch, history, faults>>

\* The settle statement fails; the error is logged and the claim dropped.
SettleLost(r, c) ==
    /\ c \in inflight[r]
    /\ c.out # "sending"
    /\ inflight' = [inflight EXCEPT ![r] = @ \ {c}]
    /\ Fault
    /\ UNCHANGED <<rowVars, mode, batch, history>>

\* Mutant: drain returns when its workers are idle, the batch not dispatched.
FinishBatchEarly(r) ==
    /\ mode[r] \in Draining
    /\ inflight[r] = {}
    /\ mode' = [mode EXCEPT ![r] = IF @ = "drainingFull" THEN "again" ELSE "idle"]
    /\ UNCHANGED <<rowVars, batch, inflight, history, faults>>

\* drain returns once the workers are joined; after a full batch the loop claims
\* again before it looks at its timers.
FinishBatch(r) ==
    /\ mode[r] \in Draining
    /\ batch[r] = {} /\ inflight[r] = {}
    /\ mode' = [mode EXCEPT ![r] = IF @ = "drainingFull" THEN "again" ELSE "idle"]
    /\ UNCHANGED <<rowVars, batch, inflight, history, faults>>

\* Stop cancels the context; the sends in flight still settle.
Stop(r) ==
    /\ mode[r] \in {"idle", "again"} \cup Draining
    /\ mode' = [mode EXCEPT ![r] = "stopping"]
    /\ Fault
    /\ UNCHANGED <<rowVars, batch, inflight, history>>

\* dispatchBatch sees the cancelled context and abandons the rest of the batch.
AbandonBatch(r) ==
    /\ mode[r] = "stopping"
    /\ batch[r] # {}
    /\ batch' = [batch EXCEPT ![r] = {}]
    /\ UNCHANGED <<rowVars, mode, inflight, history, faults>>

\* Stop joins the loop.
Stopped(r) ==
    /\ mode[r] = "stopping"
    /\ batch[r] = {} /\ inflight[r] = {}
    /\ mode' = [mode EXCEPT ![r] = "down"]
    /\ UNCHANGED <<rowVars, batch, inflight, history, faults>>

\* The process is killed: its claims are gone, its rows are not.
Crash(r) ==
    /\ mode[r] # "down"
    /\ mode'     = [mode     EXCEPT ![r] = "down"]
    /\ batch'    = [batch    EXCEPT ![r] = {}]
    /\ inflight' = [inflight EXCEPT ![r] = {}]
    /\ Fault
    /\ UNCHANGED <<rowVars, history>>

\* One unit of time.
Tick ==
    /\ claimAge' = [m \in Msgs |-> IF status[m] \in {"publishing", "published"}
                                   THEN Aged(claimAge[m], ClaimTTL) ELSE claimAge[m]]
    /\ wait' = [m \in Msgs |-> IF wait[m] > 0 THEN wait[m] - 1 ELSE 0]
    /\ age'  = [m \in Msgs |-> IF status[m] \in {"absent", "purged"}
                               THEN age[m] ELSE Aged(age[m], FailedTTL)]
    /\ inflight' = [r \in Relays |->
            {[c EXCEPT !.elapsed = Aged(@, SendTimeout)] : c \in inflight[r]}]
    /\ UNCHANGED <<status, attempts, token, mode, batch, history, faults>>

-------------------------------------------------------------------------------
Init ==
    /\ status   = [m \in Msgs |-> "absent"]
    /\ attempts = [m \in Msgs |-> 0]
    /\ token    = [m \in Msgs |-> NoToken]
    /\ claimAge = [m \in Msgs |-> 0]
    /\ wait     = [m \in Msgs |-> 0]
    /\ age      = [m \in Msgs |-> 0]
    /\ mode     = [r \in Relays |-> "down"]
    /\ batch    = [r \in Relays |-> {}]
    /\ inflight = [r \in Relays |-> {}]
    /\ handed   = [m \in Msgs |-> {}]
    /\ refused  = [m \in Msgs |-> {}]
    /\ faults   = 0

RelayStep(r) ==
    \/ \E ok \in BOOLEAN : Boot(r, ok)
    \/ \E purged, swept \in BOOLEAN : Maintain(r, purged, swept)
    \/ \E S \in SUBSET Msgs : Drain(r, S) \/ ClaimLost(r, S)
    \/ DrainEmpty(r)
    \/ \E c \in batch[r] : Dispatch(r, c)
    \/ \E c \in inflight[r] :
        \/ \E out \in {"ok", "retry", "permanent"}, took \in BOOLEAN :
              SinkReturns(r, c, out, took)
        \/ \E took \in BOOLEAN : SinkPanics(r, c, took)
        \/ RecoverClaim(r, c)
        \/ SettleLost(r, c)
    \/ FinishBatch(r)
    \/ Stop(r) \/ AbandonBatch(r) \/ Stopped(r) \/ Crash(r)

Next ==
    \/ \E m \in Msgs : EnqueueTx(m)
    \/ \E r \in Relays : RelayStep(r)
    \/ Tick

Spec == Init /\ [][Next]_vars

(***************************************************************************)
(* Prompt relays: sends are cut off at SendTimeout, and free workers and   *)
(* settle statements do not wait for the clock.  Spec allows any stall.    *)
(***************************************************************************)

Prompt ==
    \A r \in Relays :
        /\ \A c \in inflight[r] : c.out = "sending" /\ c.elapsed < SendTimeout
        /\ mode[r] \in Draining /\ batch[r] # {} => Cardinality(inflight[r]) >= Workers

PromptTick == Prompt /\ Tick

PromptNext ==
    \/ \E m \in Msgs : EnqueueTx(m)
    \/ \E r \in Relays : RelayStep(r)
    \/ PromptTick

PromptSpec == Init /\ [][PromptNext]_vars

\* What keeps a relay going: the container restarts it, its timers fire (a
\* ready timer is not passed over forever by select), every send returns by its
\* timeout, and statements succeed again once the faults are over.
RelayFairness(r) ==
    /\ WF_vars(Boot(r, TRUE))
    /\ SF_vars(Maintain(r, TRUE, TRUE))
    /\ WF_vars(\E S \in SUBSET Msgs : Drain(r, S))
    /\ WF_vars(DrainEmpty(r))
    /\ WF_vars(\E c \in batch[r] : Dispatch(r, c))
    /\ WF_vars(\E c \in inflight[r], out \in {"ok", "retry", "permanent"},
                 took \in BOOLEAN : SinkReturns(r, c, out, took))
    /\ WF_vars(\E c \in inflight[r] : RecoverClaim(r, c))
    /\ WF_vars(FinishBatch(r))
    /\ WF_vars(AbandonBatch(r))
    /\ WF_vars(Stopped(r))

FairSpec == PromptSpec /\ WF_vars(PromptTick) /\ \A r \in Relays : RelayFairness(r)

-------------------------------------------------------------------------------
(***************************************************************************)
(* Properties.                                                             *)
(***************************************************************************)

\* Every column, relay and history variable has its type, and claim_token is
\* set on the rows in flight and on no other.
TypeOK ==
    /\ status   \in [Msgs -> Statuses]
    /\ attempts \in [Msgs -> Nat]
    /\ token    \in [Msgs -> Nat]
    /\ claimAge \in [Msgs -> 0..ClaimTTL]
    /\ wait     \in [Msgs -> Nat]
    /\ age      \in [Msgs -> 0..FailedTTL]
    /\ mode     \in [Relays -> Modes]
    /\ batch    \in [Relays -> SUBSET Claims]
    /\ inflight \in [Relays -> SUBSET Sends]
    /\ handed   \in [Msgs -> SUBSET Nat]
    /\ refused  \in [Msgs -> SUBSET Nat]
    /\ faults   \in Nat
    /\ \A m \in Msgs : token[m] # NoToken <=> status[m] = "publishing"

\* A row that reads 'published' was taken by the sink under the row's latest
\* claim: no straggler's result is recorded over a later claim (the CAS of
\* MarkPublished).
PublishedMeansHanded ==
    \A m \in Msgs : status[m] = "published" => attempts[m] \in handed[m]

\* The table stays well formed, claim_token included, and no straggler's result settles a later claim.
OutboxSound == TypeOK /\ PublishedMeansHanded

Exhausted(m) == attempts[m] >= MaxAttempts

\* A committed message never goes away undecided: a row reads 'failed', or is
\* deleted, only after its budget was spent, its latest claim was refused for
\* good, or (deleted only) its latest claim was taken by the sink.
NoSilentDrop ==
    \A m \in Msgs :
        /\ status[m] = "failed" => Exhausted(m) \/ attempts[m] \in refused[m]
        /\ status[m] = "purged" => \/ Exhausted(m)
                                   \/ attempts[m] \in refused[m] \cup handed[m]

\* A settled row is never claimable again, whoever sweeps, settles late or
\* restarts: it only waits to be purged.
SettledIsFinal ==
    [][\A m \in Msgs :
         /\ status[m] = "published" => status'[m] \in {"published", "purged"}
         /\ status[m] = "failed"    => status'[m] \in {"failed", "purged"}
         /\ status[m] = "purged"    => status'[m] = "purged"]_vars

\* When every claimed row has a worker and the claim TTL exceeds the send
\* timeout (Batch <= Workers, SendTimeout < ClaimTTL), only faults can make the
\* relays claim a row more often than its budget allows.
RetryBudget == \A m \in Msgs : attempts[m] <= MaxAttempts + faults

\* Every queued message is settled: sent, or failed for good (prompt relays,
\* finitely many faults).
EventuallySettled ==
    \A m \in Msgs :
        status[m] = "pending" ~> status[m] \in {"published", "failed", "purged"}

LiveClaims(m) ==
    {c \in UNION {batch[r] \cup inflight[r] : r \in Relays} : c.id = m}

\* A row is left in flight with nobody to settle it only by a stop, a crash, a
\* panic or a lost statement: draining a batch joins every delivery it started.
OrphansNeedFault ==
    \A m \in Msgs :
        status[m] = "publishing" /\ (\A c \in LiveClaims(m) : c.tok # token[m])
            => faults > 0

\* With prompt relays every row settles, within its budget, and none is orphaned without a fault.
RowsSettle == EventuallySettled /\ [](RetryBudget /\ OrphansNeedFault)
===============================================================================

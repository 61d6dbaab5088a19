------------------------------ MODULE MailProofs ------------------------------
(***************************************************************************)
(* Safety of the mail outbox, and of the AMQP pipeline behind it, for any  *)
(* number of rows, relays and workers, any timeouts and any number of      *)
(* faults.                                                                 *)
(***************************************************************************)
EXTENDS MailPipeline, FiniteSetTheorems, TLAPS

\* A row in flight carries the token of its latest claim.
TokenIsLatest ==
    \A m \in Msgs : status[m] = "publishing" => token[m] = attempts[m]

\* A delivery worker that will report success, or a permanent failure, got that
\* answer from the sink for the very claim it holds.
OutcomesAreReal ==
    \A r \in Relays : \A c \in inflight[r] :
        /\ c.out = "ok"        => c.tok \in handed[c.id]
        /\ c.out = "permanent" => c.tok \in refused[c.id]

\* The inductive invariant.
IInv ==
    /\ TypeOK
    /\ TokenIsLatest
    /\ OutcomesAreReal
    /\ PublishedMeansHanded
    /\ NoSilentDrop

-------------------------------------------------------------------------------
\* The initial state is well typed: an empty table and relays that are down.
LEMMA TypeInit == Init => TypeOK
BY OutboxAssumption DEF Init, TypeOK, Statuses, Modes, Claims, Sends, NoToken

\* Claim keeps the columns typed and returns well-formed claims.
LEMMA ClaimTyped ==
    ASSUME TypeOK, NEW S \in SUBSET Msgs, ClaimRows(S), S \subseteq Due
    PROVE  /\ status'   \in [Msgs -> Statuses]
           /\ attempts' \in [Msgs -> Nat]
           /\ token'    \in [Msgs -> Nat]
           /\ claimAge' \in [Msgs -> 0..ClaimTTL]
           /\ wait'     \in [Msgs -> Nat]
           /\ age'      \in [Msgs -> 0..FailedTTL]
           /\ \A m \in Msgs : token'[m] # NoToken <=> status'[m] = "publishing"
           /\ ClaimsOf(S) \in SUBSET Claims
BY OutboxAssumption DEF TypeOK, ClaimRows, ClaimsOf, Claims, Statuses, NoToken, Due

\* Purge and RequeueStuck keep the columns typed.
LEMMA SweepTyped ==
    ASSUME TypeOK, NEW P \in SUBSET Purgeable, NEW S \in SUBSET Stuck, Sweep(P, S)
    PROVE  /\ status'   \in [Msgs -> Statuses]
           /\ attempts' \in [Msgs -> Nat]
           /\ token'    \in [Msgs -> Nat]
           /\ claimAge' \in [Msgs -> 0..ClaimTTL]
           /\ wait'     \in [Msgs -> Nat]
           /\ age'      \in [Msgs -> 0..FailedTTL]
           /\ \A m \in Msgs : token'[m] # NoToken <=> status'[m] = "publishing"
BY OutboxAssumption DEF TypeOK, Sweep, Statuses, NoToken, Purgeable, Stuck


\* MarkFailed changes the row only under the claim that owns it.
LEMMA FailEffect ==
    ASSUME TypeOK, NEW c, NEW p \in BOOLEAN, c.id \in Msgs, MarkFailed(c, p)
    PROVE  /\ Owns(c) => /\ status' = [status EXCEPT ![c.id] =
                                IF GivesUp(c, p) THEN "failed" ELSE "pending"]
                         /\ token' = [token EXCEPT ![c.id] = NoToken]
                         /\ wait' = [wait EXCEPT ![c.id] = Backoff(c.tok)]
                         /\ claimAge' = [claimAge EXCEPT ![c.id] = 0]
                         /\ UNCHANGED <<attempts, age>>
           /\ ~Owns(c) => UNCHANGED rowVars
<1>1. CASE Owns(c)  BY <1>1 DEF MarkFailed
<1>2. CASE ~Owns(c)  BY <1>2 DEF MarkFailed, TypeOK, rowVars
<1>3. QED  BY <1>1, <1>2

\* MarkPublished and MarkFailed keep the columns typed.
LEMMA SettleTyped ==
    ASSUME TypeOK, NEW c, c.id \in Msgs, c.tok \in Nat \ {0},
           MarkPublished(c) \/ \E p \in BOOLEAN : MarkFailed(c, p)
    PROVE  /\ status'   \in [Msgs -> Statuses]
           /\ attempts' \in [Msgs -> Nat]
           /\ token'    \in [Msgs -> Nat]
           /\ claimAge' \in [Msgs -> 0..ClaimTTL]
           /\ wait'     \in [Msgs -> Nat]
           /\ age'      \in [Msgs -> 0..FailedTTL]
           /\ \A m \in Msgs : token'[m] # NoToken <=> status'[m] = "publishing"
<1>1. CASE MarkPublished(c)
  BY <1>1, OutboxAssumption DEF TypeOK, MarkPublished, Owns, Statuses, NoToken
<1>2. CASE \E p \in BOOLEAN : MarkFailed(c, p)
  <2>1. PICK p \in BOOLEAN : MarkFailed(c, p)  BY <1>2
  <2>2. Backoff(c.tok) \in Nat  BY OutboxAssumption DEF Backoff
  <2>3. CASE Owns(c)
    <3>1. /\ status' = [status EXCEPT ![c.id] =
                           IF GivesUp(c, p) THEN "failed" ELSE "pending"]
          /\ token' = [token EXCEPT ![c.id] = NoToken]
          /\ wait' = [wait EXCEPT ![c.id] = Backoff(c.tok)]
          /\ claimAge' = [claimAge EXCEPT ![c.id] = 0]
          /\ UNCHANGED <<attempts, age>>
      BY <2>1, <2>3, FailEffect
    <3>2. QED  BY <2>2, <3>1, OutboxAssumption DEF TypeOK, Statuses, NoToken
  <2>4. CASE ~Owns(c)
    <3>1. UNCHANGED rowVars  BY <2>1, <2>4, FailEffect
    <3>2. QED  BY <3>1 DEF TypeOK, rowVars
  <2>5. QED  BY <2>3, <2>4
<1>3. QED  BY <1>1, <1>2

-------------------------------------------------------------------------------
\* What each kind of statement does to the invariant's row conjuncts.

RowInv == TokenIsLatest /\ PublishedMeansHanded /\ NoSilentDrop

\* History only grows.
Grows == \A m \in Msgs : handed[m] \subseteq handed'[m] /\ refused[m] \subseteq refused'[m]

\* A step that leaves status, attempts and claim_token alone keeps the row
\* conjuncts of the invariant, since the sink's answers are never taken back.
LEMMA RowsKept ==
    ASSUME TypeOK, RowInv, UNCHANGED <<status, attempts, token>>, Grows
    PROVE  RowInv'
BY DEF RowInv, TokenIsLatest, PublishedMeansHanded, NoSilentDrop, Exhausted, Grows, TypeOK

\* Claim keeps them: it takes pending rows only and renews their token.
LEMMA ClaimKeeps ==
    ASSUME TypeOK, RowInv, NEW S \in SUBSET Msgs, S \subseteq Due, ClaimRows(S),
           UNCHANGED history
    PROVE  RowInv'
BY DEF RowInv, TokenIsLatest, PublishedMeansHanded, NoSilentDrop, Exhausted, TypeOK,
       ClaimRows, Due, history

\* Purge and RequeueStuck keep them.
LEMMA SweepKeeps ==
    ASSUME TypeOK, RowInv, NEW P \in SUBSET Purgeable, NEW S \in SUBSET Stuck,
           Sweep(P, S), UNCHANGED history
    PROVE  RowInv'
BY DEF RowInv, TokenIsLatest, PublishedMeansHanded, NoSilentDrop, Exhausted, TypeOK,
       Sweep, Purgeable, Stuck, history

\* MarkPublished keeps them when the claim it settles was taken by the sink.
LEMMA PublishKeeps ==
    ASSUME TypeOK, RowInv, NEW c, c.id \in Msgs, c.tok \in handed[c.id],
           MarkPublished(c), UNCHANGED history
    PROVE  RowInv'
BY DEF RowInv, TokenIsLatest, PublishedMeansHanded, NoSilentDrop, Exhausted, TypeOK,
       MarkPublished, Owns, history

\* MarkFailed keeps them when a permanent failure is one the sink reported.
LEMMA FailKeeps ==
    ASSUME TypeOK, RowInv, NEW c, NEW p \in BOOLEAN, c.id \in Msgs,
           p => c.tok \in refused[c.id], MarkFailed(c, p), UNCHANGED history
    PROVE  RowInv'
<1>1. CASE Owns(c)
  <2>1. /\ status' = [status EXCEPT ![c.id] =
                           IF GivesUp(c, p) THEN "failed" ELSE "pending"]
        /\ UNCHANGED attempts
        /\ token' = [token EXCEPT ![c.id] = NoToken]
    BY <1>1, FailEffect
  <2>2. GivesUp(c, p) => Exhausted(c.id) \/ attempts[c.id] \in refused[c.id]
    BY <1>1 DEF GivesUp, Exhausted, Owns, RowInv, TokenIsLatest, TypeOK
  <2>3. QED
    BY <2>1, <2>2 DEF RowInv, TokenIsLatest, PublishedMeansHanded, NoSilentDrop, Exhausted,
                      TypeOK, history
<1>2. CASE ~Owns(c)
  <2>1. UNCHANGED rowVars  BY <1>2, FailEffect
  <2>2. Grows  BY DEF Grows, history
  <2>3. QED  BY <2>1, <2>2, RowsKept DEF rowVars
<1>3. QED  BY <1>1, <1>2

-------------------------------------------------------------------------------
\* Every step of every relay keeps the invariant.
LEMMA RelayStepKeeps ==
    ASSUME IInv, NEW r \in Relays, RelayStep(r)
    PROVE  IInv'
<1> USE DEF IInv
<1>a. RowInv  BY DEF RowInv
<1>b. SUFFICES TypeOK' /\ RowInv' /\ OutcomesAreReal'  BY DEF RowInv
<1>c. UNCHANGED history => Grows  BY DEF Grows, history
<1>d. \A S \in SUBSET Msgs : Claimable(S) => S \subseteq Due  BY DEF Claimable
<1>1. ASSUME NEW ok \in BOOLEAN, Boot(r, ok)  PROVE TypeOK' /\ RowInv' /\ OutcomesAreReal'
  <2>1. PICK S \in SUBSET Stuck : Sweep({}, S)  BY <1>1 DEF Boot
  <2>2. TypeOK'  BY <1>1, <2>1, SweepTyped DEF Boot, TypeOK, Modes, history
  <2>3. RowInv'  BY <1>1, <1>a, <2>1, SweepKeeps DEF Boot
  <2>4. OutcomesAreReal'  BY <1>1 DEF Boot, OutcomesAreReal, history
  <2>5. QED  BY <2>2, <2>3, <2>4
<1>2. ASSUME NEW purged \in BOOLEAN, NEW swept \in BOOLEAN, Maintain(r, purged, swept)
      PROVE  TypeOK' /\ RowInv' /\ OutcomesAreReal'
  <2>1. PICK P \in SUBSET Purgeable, S \in SUBSET Stuck : Sweep(P, S)
    BY <1>2 DEF Maintain
  <2>2. TypeOK'  BY <1>2, <2>1, SweepTyped DEF Maintain, TypeOK, relayVars, history
  <2>3. RowInv'  BY <1>2, <1>a, <2>1, SweepKeeps DEF Maintain
  <2>4. OutcomesAreReal'  BY <1>2 DEF Maintain, OutcomesAreReal, history, relayVars
  <2>5. QED  BY <2>2, <2>3, <2>4
<1>3. ASSUME NEW S \in SUBSET Msgs, Drain(r, S)  PROVE TypeOK' /\ RowInv' /\ OutcomesAreReal'
  <2>1. ClaimRows(S) /\ S \subseteq Due  BY <1>3, <1>d DEF Drain
  <2>2. TypeOK'  BY <1>3, <2>1, ClaimTyped DEF Drain, TypeOK, Modes, history
  <2>3. RowInv'  BY <1>3, <1>a, <2>1, ClaimKeeps DEF Drain
  <2>4. OutcomesAreReal'  BY <1>3 DEF Drain, OutcomesAreReal, history
  <2>5. QED  BY <2>2, <2>3, <2>4
<1>4. ASSUME NEW S \in SUBSET Msgs, ClaimLost(r, S)  PROVE TypeOK' /\ RowInv' /\ OutcomesAreReal'
  <2>1. ClaimRows(S) /\ S \subseteq Due  BY <1>4, <1>d DEF ClaimLost
  <2>2. TypeOK'  BY <1>4, <2>1, ClaimTyped DEF ClaimLost, Fault, TypeOK, Modes, history
  <2>3. RowInv'  BY <1>4, <1>a, <2>1, ClaimKeeps DEF ClaimLost
  <2>4. OutcomesAreReal'  BY <1>4 DEF ClaimLost, OutcomesAreReal, history
  <2>5. QED  BY <2>2, <2>3, <2>4
<1>5. ASSUME NEW c \in batch[r], Dispatch(r, c)  PROVE TypeOK' /\ RowInv' /\ OutcomesAreReal'
  <2> DEFINE d == [id |-> c.id, tok |-> c.tok, out |-> "sending", elapsed |-> 0]
  <2>1. d \in Sends  BY OutboxAssumption DEF TypeOK, Claims, Sends, Outcomes
  <2>2. inflight' = [inflight EXCEPT ![r] = @ \cup {d}]  BY <1>5 DEF Dispatch
  <2>3. TypeOK'  BY <1>5, <2>1, <2>2 DEF Dispatch, TypeOK, rowVars, history
  <2>4. RowInv'  BY <1>5, <1>a, <1>c, RowsKept DEF Dispatch, rowVars
  <2>5. OutcomesAreReal'  BY <1>5, <2>2 DEF Dispatch, OutcomesAreReal, TypeOK, history
  <2>6. QED  BY <2>3, <2>4, <2>5
<1>6. ASSUME NEW c \in inflight[r], NEW out \in {"ok", "retry", "permanent"},
             NEW took \in BOOLEAN, SinkReturns(r, c, out, took)
      PROVE  TypeOK' /\ RowInv' /\ OutcomesAreReal'
  <2> DEFINE d == [c EXCEPT !.out = out]
  <2>1. c \in Sends /\ d \in Sends /\ d.id = c.id /\ d.tok = c.tok /\ d.out = out
    BY DEF TypeOK, Sends, Outcomes
  <2>2. inflight' = [inflight EXCEPT ![r] = (@ \ {c}) \cup {d}]  BY <1>6 DEF SinkReturns
  <2>3. /\ handed' = [handed EXCEPT ![c.id] = IF took THEN @ \cup {c.tok} ELSE @]
        /\ refused' = [refused EXCEPT ![c.id] = IF out = "permanent" THEN @ \cup {c.tok} ELSE @]
    BY <1>6 DEF SinkReturns, Take
  <2>4. Grows  BY <2>1, <2>3 DEF Grows, TypeOK, Sends
  <2>5. TypeOK'
    <3>1. handed' \in [Msgs -> SUBSET Nat] /\ refused' \in [Msgs -> SUBSET Nat]
      BY <2>1, <2>3 DEF TypeOK, Sends
    <3>2. QED  BY <1>6, <2>1, <2>2, <3>1 DEF SinkReturns, TypeOK, rowVars
  <2>6. RowInv'  BY <1>6, <1>a, <2>4, RowsKept DEF SinkReturns, rowVars
  <2>7. (out = "ok" => c.tok \in handed'[c.id]) /\ (out = "permanent" => c.tok \in refused'[c.id])
    BY <1>6, <2>1, <2>3 DEF SinkReturns, PossibleReturn, TypeOK, Sends
  <2>8. OutcomesAreReal'
    <3>1. SUFFICES ASSUME NEW q \in Relays, NEW e \in inflight'[q]
                   PROVE  /\ e.out = "ok"        => e.tok \in handed'[e.id]
                          /\ e.out = "permanent" => e.tok \in refused'[e.id]
      BY DEF OutcomesAreReal
    <3>2. CASE e \in inflight[q]
      BY <3>2, <2>4 DEF OutcomesAreReal, Grows, TypeOK, Sends
    <3>3. CASE e \notin inflight[q]
      <4>1. e = d  BY <3>3, <2>2 DEF TypeOK
      <4>2. QED  BY <4>1, <2>1, <2>7
    <3>4. QED  BY <3>2, <3>3
  <2>9. QED  BY <2>5, <2>6, <2>8
<1>7. ASSUME NEW c \in inflight[r], NEW took \in BOOLEAN, SinkPanics(r, c, took)
      PROVE  TypeOK' /\ RowInv' /\ OutcomesAreReal'
  <2>1. c \in Sends  BY DEF TypeOK
  <2>2. inflight' = [inflight EXCEPT ![r] = @ \ {c}]  BY <1>7 DEF SinkPanics
  <2>3. /\ handed' = [handed EXCEPT ![c.id] = IF took THEN @ \cup {c.tok} ELSE @]
        /\ refused' = [refused EXCEPT ![c.id] = @]
    BY <1>7 DEF SinkPanics, Take
  <2>4. Grows  BY <2>1, <2>3 DEF Grows, TypeOK, Sends
  <2>5. TypeOK'
    <3>1. handed' \in [Msgs -> SUBSET Nat] /\ refused' \in [Msgs -> SUBSET Nat]
      BY <2>1, <2>3 DEF TypeOK, Sends
    <3>2. QED  BY <1>7, <2>2, <3>1 DEF SinkPanics, Fault, TypeOK, rowVars
  <2>6. RowInv'  BY <1>7, <1>a, <2>4, RowsKept DEF SinkPanics, rowVars
  <2>7. OutcomesAreReal'
    BY <2>2, <2>4 DEF OutcomesAreReal, Grows, TypeOK, Sends
  <2>8. QED  BY <2>5, <2>6, <2>7
<1>8. ASSUME NEW c \in inflight[r], RecoverClaim(r, c)
      PROVE  TypeOK' /\ RowInv' /\ OutcomesAreReal'
  <2>1. c.id \in Msgs /\ c.tok \in Nat \ {0}  BY DEF TypeOK, Sends
  <2>2. inflight' = [inflight EXCEPT ![r] = @ \ {c}]  BY <1>8 DEF RecoverClaim
  <2>3. \/ c.out = "ok" /\ MarkPublished(c)
        \/ \E p \in BOOLEAN : (p => c.out = "permanent") /\ MarkFailed(c, p)
    BY <1>8 DEF RecoverClaim
  <2>4. TypeOK'
    <3>1. MarkPublished(c) \/ \E p \in BOOLEAN : MarkFailed(c, p)  BY <2>3
    <3>2. QED  BY <1>8, <2>1, <2>2, <3>1, SettleTyped DEF RecoverClaim, TypeOK, history
  <2>5. RowInv'
    <3>1. UNCHANGED history  BY <1>8 DEF RecoverClaim
    <3>2. CASE c.out = "ok" /\ MarkPublished(c)
      BY <3>1, <3>2, <1>a, <2>1, PublishKeeps DEF OutcomesAreReal
    <3>3. ASSUME NEW p \in BOOLEAN, p => c.out = "permanent", MarkFailed(c, p)  PROVE RowInv'
      <4>1. p => c.tok \in refused[c.id]  BY <3>3 DEF OutcomesAreReal
      <4>2. QED  BY <3>1, <3>3, <4>1, <1>a, <2>1, FailKeeps
    <3>4. QED  BY <2>3, <3>2, <3>3
  <2>6. OutcomesAreReal'  BY <1>8, <2>2 DEF RecoverClaim, OutcomesAreReal, TypeOK, history
  <2>7. QED  BY <2>4, <2>5, <2>6
<1>9. ASSUME NEW c \in inflight[r], SettleLost(r, c)
      PROVE  TypeOK' /\ RowInv' /\ OutcomesAreReal'
  <2>1. TypeOK'  BY <1>9 DEF SettleLost, Fault, TypeOK, rowVars, history
  <2>2. RowInv'  BY <1>9, <1>a, <1>c, RowsKept DEF SettleLost, rowVars
  <2>3. OutcomesAreReal'  BY <1>9 DEF SettleLost, OutcomesAreReal, TypeOK, history
  <2>4. QED  BY <2>1, <2>2, <2>3
<1>10. ASSUME DrainEmpty(r) \/ FinishBatch(r) \/ Stop(r) \/ AbandonBatch(r) \/ Stopped(r) \/ Crash(r)
       PROVE  TypeOK' /\ RowInv' /\ OutcomesAreReal'
  <2>1. UNCHANGED <<rowVars, history>>
    BY <1>10 DEF DrainEmpty, FinishBatch, Stop, AbandonBatch, Stopped, Crash
  <2>2. inflight' = inflight \/ inflight' = [inflight EXCEPT ![r] = {}]
    BY <1>10 DEF DrainEmpty, FinishBatch, Stop, AbandonBatch, Stopped, Crash
  <2>3. batch' = batch \/ batch' = [batch EXCEPT ![r] = {}]
    BY <1>10 DEF DrainEmpty, FinishBatch, Stop, AbandonBatch, Stopped, Crash
  <2>4. mode' \in [Relays -> Modes]
    BY <1>10 DEF DrainEmpty, FinishBatch, Stop, AbandonBatch, Stopped, Crash, TypeOK, Modes
  <2>5. faults' \in Nat
    BY <1>10 DEF DrainEmpty, FinishBatch, Stop, AbandonBatch, Stopped, Crash, Fault, TypeOK
  <2>6. TypeOK'  BY <2>1, <2>2, <2>3, <2>4, <2>5 DEF TypeOK, rowVars, history
  <2>7. RowInv'  BY <1>a, <1>c, <2>1, RowsKept DEF rowVars
  <2>8. OutcomesAreReal'  BY <2>1, <2>2 DEF OutcomesAreReal, TypeOK, history
  <2>9. QED  BY <2>6, <2>7, <2>8
<1>11. QED
  BY <1>1, <1>2, <1>3, <1>4, <1>5, <1>6, <1>7, <1>8, <1>9, <1>10 DEF RelayStep

\* Time keeps the invariant.
LEMMA TickKeeps ==
    ASSUME IInv, Tick
    PROVE  IInv'
<1> USE DEF IInv
<1>1. \A n : \A limit \in Nat : n \in 0..limit => Aged(n, limit) \in 0..limit
  BY DEF Aged
<1>2. UNCHANGED <<status, attempts, token, mode, batch, handed, refused, faults>>
  BY DEF Tick, history
<1>3. /\ claimAge' \in [Msgs -> 0..ClaimTTL]
      /\ wait' \in [Msgs -> Nat]
      /\ age' \in [Msgs -> 0..FailedTTL]
  BY <1>1, OutboxAssumption DEF Tick, TypeOK
<1>4. ASSUME NEW r \in Relays, NEW d \in inflight'[r]
      PROVE  \E c \in inflight[r] : /\ d \in Sends
                                    /\ d.id = c.id /\ d.tok = c.tok /\ d.out = c.out
  <2>1. PICK c \in inflight[r] : d = [c EXCEPT !.elapsed = Aged(@, SendTimeout)]
    BY <1>4 DEF Tick
  <2>2. c \in Sends  BY DEF TypeOK
  <2>3. Aged(c.elapsed, SendTimeout) \in 0..SendTimeout
    BY <2>2, <1>1, OutboxAssumption DEF Sends
  <2>4. QED  BY <2>1, <2>2, <2>3 DEF Sends
<1>5. inflight' \in [Relays -> SUBSET Sends]
  <2>1. \A r \in Relays : inflight'[r] \subseteq Sends  BY <1>4
  <2>2. QED  BY <2>1 DEF Tick
<1>6. TypeOK'  BY <1>2, <1>3, <1>5 DEF TypeOK
<1>7. OutcomesAreReal'
  <2>1. SUFFICES ASSUME NEW r \in Relays, NEW d \in inflight'[r]
                 PROVE  /\ d.out = "ok"        => d.tok \in handed'[d.id]
                        /\ d.out = "permanent" => d.tok \in refused'[d.id]
    BY DEF OutcomesAreReal
  <2>2. PICK c \in inflight[r] : d.id = c.id /\ d.tok = c.tok /\ d.out = c.out
    BY <1>4
  <2>3. QED  BY <2>2, <1>2 DEF OutcomesAreReal
<1>8. RowInv'
  <2>1. RowInv /\ Grows  BY <1>2 DEF RowInv, Grows
  <2>2. QED  BY <1>2, <2>1, RowsKept
<1>9. QED  BY <1>6, <1>7, <1>8 DEF RowInv

\* EnqueueTx keeps the invariant.
LEMMA EnqueueKeeps ==
    ASSUME IInv, NEW m \in Msgs, EnqueueTx(m)
    PROVE  IInv'
BY DEF IInv, TypeOK, Statuses, NoToken, TokenIsLatest, OutcomesAreReal,
       PublishedMeansHanded, NoSilentDrop, Exhausted, EnqueueTx, relayVars, history

\* IInv is inductive.
LEMMA NextKeeps == IInv /\ [Next]_vars => IInv'
<1>1. SUFFICES ASSUME IInv, [Next]_vars  PROVE IInv'  OBVIOUS
<1>2. CASE UNCHANGED vars
  BY <1>1, <1>2 DEF IInv, TypeOK, TokenIsLatest, OutcomesAreReal, PublishedMeansHanded,
                    NoSilentDrop, Exhausted, vars, rowVars, relayVars, history
<1>3. CASE Next
  BY <1>1, <1>3, EnqueueKeeps, RelayStepKeeps, TickKeeps DEF Next
<1>4. QED  BY <1>1, <1>2, <1>3

\* IInv holds initially.
LEMMA InitHolds == Init => IInv
BY TypeInit DEF Init, IInv, TokenIsLatest, OutcomesAreReal, PublishedMeansHanded,
                NoSilentDrop

\* IInv is an invariant of the outbox.
THEOREM Invariance == Spec => []IInv
<1>1. Init => IInv  BY InitHolds
<1>2. IInv /\ [Next]_vars => IInv'  BY NextKeeps
<1>3. QED  BY <1>1, <1>2, PTL DEF Spec

-------------------------------------------------------------------------------
\* The tables and the relays keep their types, and claim_token is set exactly on
\* the rows in flight: Claim sets it, every settle statement and the sweep clear it.
THEOREM TypeCorrect == Spec => []TypeOK
<1>1. IInv => TypeOK  BY DEF IInv
<1>2. QED  BY <1>1, Invariance, PTL

\* claim_token is set on the rows in flight and no other, and a row reads 'published' only if the
\* sink took the message under the row's latest claim, whatever stalled relay settles late
\* (MarkPublished's CAS).
THEOREM OutboxIsSound == Spec => []OutboxSound
<1>1. IInv => OutboxSound  BY DEF IInv, OutboxSound
<1>2. QED  BY <1>1, Invariance, PTL

\* No committed message is failed or deleted before it was taken, refused for
\* good, or out of budget (MarkFailed's CASE and Purge's status filter).
THEOREM NothingDropped == Spec => []NoSilentDrop
<1>1. IInv => NoSilentDrop  BY DEF IInv
<1>2. QED  BY <1>1, Invariance, PTL

\* What a step may do to one settled row.
StaysSettled(m) ==
    /\ status[m] = "published" => status'[m] \in {"published", "purged"}
    /\ status[m] = "failed"    => status'[m] \in {"failed", "purged"}
    /\ status[m] = "purged"    => status'[m] = "purged"

\* No step takes a settled row out of its verdict.
LEMMA StepKeepsSettled ==
    ASSUME TypeOK, [Next]_vars, NEW m \in Msgs
    PROVE  StaysSettled(m)
<1> USE DEF StaysSettled
<1>1. CASE UNCHANGED vars  BY <1>1 DEF vars, rowVars
<1>2. CASE Tick  BY <1>2 DEF Tick
<1>3. CASE \E n \in Msgs : EnqueueTx(n)  BY <1>3 DEF EnqueueTx, TypeOK
<1>4. ASSUME NEW r \in Relays, RelayStep(r)  PROVE StaysSettled(m)
  <2>1. ASSUME NEW P \in SUBSET Purgeable, NEW S \in SUBSET Stuck, Sweep(P, S)
        PROVE  StaysSettled(m)
    BY <2>1 DEF Sweep, Purgeable, Stuck
  <2>2. ASSUME NEW S \in SUBSET Msgs, Claimable(S), ClaimRows(S)  PROVE StaysSettled(m)
    BY <2>2 DEF Claimable, ClaimRows, Due
  <2>3. ASSUME NEW c \in inflight[r], RecoverClaim(r, c)  PROVE StaysSettled(m)
    <3>1. c.id \in Msgs  BY DEF TypeOK, Sends
    <3>2. CASE MarkPublished(c)  BY <3>1, <3>2 DEF MarkPublished, Owns, TypeOK
    <3>3. ASSUME NEW p \in BOOLEAN, MarkFailed(c, p)  PROVE StaysSettled(m)
      <4>1. CASE Owns(c)
        <5>1. status' = [status EXCEPT ![c.id] =
                            IF GivesUp(c, p) THEN "failed" ELSE "pending"]
          BY <3>1, <3>3, <4>1, FailEffect
        <5>2. QED  BY <3>1, <4>1, <5>1 DEF Owns, TypeOK
      <4>2. CASE ~Owns(c)
        <5>1. UNCHANGED rowVars  BY <3>1, <3>3, <4>2, FailEffect
        <5>2. QED  BY <5>1 DEF rowVars
      <4>3. QED  BY <4>1, <4>2
    <3>4. QED  BY <2>3, <3>2, <3>3 DEF RecoverClaim
  <2>4. CASE status' = status  BY <2>4
  <2>5. \/ status' = status
        \/ \E P \in SUBSET Purgeable, S \in SUBSET Stuck : Sweep(P, S)
        \/ \E S \in SUBSET Msgs : Claimable(S) /\ ClaimRows(S)
        \/ \E c \in inflight[r] : RecoverClaim(r, c)
    BY <1>4 DEF RelayStep, Boot, Maintain, Drain, ClaimLost, DrainEmpty, Dispatch, SinkReturns,
                SinkPanics, SettleLost, FinishBatch, Stop, AbandonBatch, Stopped, Crash, rowVars
  <2>6. QED  BY <2>1, <2>2, <2>3, <2>4, <2>5
<1>5. QED  BY <1>1, <1>2, <1>3, <1>4 DEF Next

\* No step makes a settled row claimable again or changes its verdict: claims take
\* pending rows, sweeps rows in flight, settle statements rows they own.
THEOREM SettledStays == Spec => SettledIsFinal
<1>1. TypeOK /\ [Next]_vars => [\A m \in Msgs : StaysSettled(m)]_vars
  BY StepKeepsSettled
<1>2. QED  BY <1>1, TypeCorrect, PTL DEF Spec, SettledIsFinal, StaysSettled

-------------------------------------------------------------------------------
(***************************************************************************)
(* The AMQP pipeline.                                                      *)
(***************************************************************************)

\* A bag union holds what either bag holds.
LEMMA BagPlus ==
    ASSUME NEW A, NEW B, IsABag(A), IsABag(B)
    PROVE  IsABag(A (+) B) /\ BagToSet(A (+) B) = BagToSet(A) \cup BagToSet(B)
BY DEF IsABag, (+), BagToSet

\* A bag with one copy of each element of a set.
LEMMA BagOfSet == ASSUME NEW S  PROVE IsABag(SetToBag(S)) /\ BagToSet(SetToBag(S)) = S
BY DEF IsABag, SetToBag, BagToSet

\* Taking one copy of c away takes nothing else away.
LEMMA BagMinusOne ==
    ASSUME NEW A, IsABag(A), NEW c
    PROVE  /\ IsABag(A (-) One(c))
           /\ BagToSet(A) \ {c} \subseteq BagToSet(A (-) One(c))
           /\ BagToSet(A (-) One(c)) \subseteq BagToSet(A)
BY DEF IsABag, (-), BagToSet, SetToBag, One

\* A queue of the broker, or of deliveries.
IsQueue(q) == IsABag(q) /\ BagToSet(q) \subseteq Copies

\* A queue takes further copies.
LEMMA QueuePlus ==
    ASSUME NEW q, IsQueue(q), NEW S \in SUBSET Copies
    PROVE  IsQueue(q (+) SetToBag(S)) /\ BagToSet(q (+) SetToBag(S)) = BagToSet(q) \cup S
BY BagPlus, BagOfSet DEF IsQueue

\* A queue takes one copy, or loses one.
LEMMA QueueOne ==
    ASSUME NEW q, IsQueue(q), NEW c \in Copies
    PROVE  /\ IsQueue(q (+) One(c)) /\ BagToSet(q (+) One(c)) = BagToSet(q) \cup {c}
           /\ IsQueue(q (-) One(c)) /\ BagToSet(q) \ {c} \subseteq BagToSet(q (-) One(c))
           /\ BagToSet(q (-) One(c)) \subseteq BagToSet(q)
<1>1. IsQueue(q (+) One(c)) /\ BagToSet(q (+) One(c)) = BagToSet(q) \cup {c}
  BY QueuePlus, {c} \in SUBSET Copies DEF One
<1>2. QED  BY <1>1, BagMinusOne DEF IsQueue

\* No queue holds anything at the start, or after the broker took everything back.
LEMMA EmptyQueue == IsQueue(EmptyBag) /\ BagToSet(EmptyBag) = {}
BY BagOfSet DEF IsQueue, EmptyBag

\* What is in the broker's queues, prefetched or left unacked.
Queued == BagToSet(sendQ) \cup BagToSet(ladder) \cup BagToSet(deadQ) \cup BagToSet(buf) \cup BagToSet(stranded)

\* A message that was sent or reported, or of which a copy is still to be handled.
Alive(m) ==
    \/ m \in delivered \/ m \in reported
    \/ \E c \in Queued : c.id = m
    \/ \E c \in cur : c.live /\ c.id = m /\ c.stage \in {"sending", "retry", "dead"}
    \/ \E h \in held : h.id = m

Queues == IsQueue(sendQ) /\ IsQueue(ladder) /\ IsQueue(deadQ) /\ IsQueue(buf) /\ IsQueue(stranded)
Deliveries ==
    /\ cur  \in SUBSET [id : Msgs, att : Nat, stage : Stages, live : BOOLEAN]
    /\ held \in SUBSET [id : Msgs, att : Nat, done : BOOLEAN]
    /\ delivered \in SUBSET Msgs /\ reported \in SUBSET Msgs /\ sends \in [Msgs -> Nat]
OneAtATime ==
    /\ \A c, d \in cur : c = d
    /\ \A c, d \in held : c = d

\* What the stage of a delivery says of its message.
StagesTrue ==
    /\ \A c \in cur : c.stage = "sent" => c.id \in delivered
    /\ \A c \in cur : c.stage = "retry" => c.att + 1 < WorkerMaxAttempts
    /\ \A h \in held : h.done => h.id \in reported

\* What may be sent again has attempts left.
BudgetKept ==
    /\ \A c \in BagToSet(sendQ) \cup BagToSet(ladder) \cup BagToSet(buf) \cup BagToSet(stranded) : c.att < WorkerMaxAttempts
    /\ \A c \in cur : c.att < WorkerMaxAttempts

PipeParts == Queues /\ Deliveries /\ OneAtATime /\ StagesTrue /\ BudgetKept

\* The inductive invariant of the pipeline.
PipeInv == PipeParts /\ \A m \in Msgs : handed[m] # {} => Alive(m)

\* What every step of the pipeline keeps, whatever the outbox does.
PipeKept == PipeParts' /\ \A m \in Msgs : Alive(m) => Alive(m)'

\* The copy of a live delivery.
LEMMA CurrentCopy ==
    ASSUME Deliveries
    PROVE  /\ CurCopy \in SUBSET Copies
           /\ \A c \in cur : c.live => Copy(c.id, c.att) \in CurCopy
           /\ \A k \in CurCopy : \E c \in cur : c.live /\ k = Copy(c.id, c.att)
BY DEF Deliveries, CurCopy, Copy, Copies

\* The broker pushes a copy to the worker.
LEMMA ConsumeKeeps == ASSUME PipeParts, NEW c, Consume(c)  PROVE PipeKept
<1>1. c \in Copies /\ c \in BagToSet(sendQ)  BY DEF Consume, BagIn, PipeParts, Queues, IsQueue
<1>2. IsQueue(sendQ') /\ BagToSet(sendQ) \ {c} \subseteq BagToSet(sendQ') /\ BagToSet(sendQ') \subseteq BagToSet(sendQ)
  BY <1>1, QueueOne DEF Consume, PipeParts, Queues
<1>3. IsQueue(buf') /\ BagToSet(buf') = BagToSet(buf) \cup {c}
  BY <1>1, QueueOne DEF Consume, PipeParts, Queues
<1>4. UNCHANGED <<ladder, deadQ, cur, stranded, held, delivered, sends, reported>>  BY DEF Consume
<1>5. PipeParts'
  BY <1>1, <1>2, <1>3, <1>4 DEF PipeParts, Queues, Deliveries, OneAtATime, StagesTrue, BudgetKept
<1>6. Queued \subseteq Queued'  BY <1>1, <1>2, <1>3, <1>4 DEF Queued
<1>7. QED  BY <1>4, <1>5, <1>6 DEF PipeKept, Alive

\* The worker takes a prefetched delivery.
LEMMA HandleKeeps == ASSUME PipeParts, NEW c, Handle(c)  PROVE PipeKept
<1>1. c \in Copies /\ c \in BagToSet(buf)  BY DEF Handle, BagIn, PipeParts, Queues, IsQueue
<1>2. IsQueue(buf') /\ BagToSet(buf) \ {c} \subseteq BagToSet(buf') /\ BagToSet(buf') \subseteq BagToSet(buf)
  BY <1>1, QueueOne DEF Handle, PipeParts, Queues
<1>3. UNCHANGED <<sendQ, ladder, deadQ, stranded, held, delivered, sends, reported>> /\ cur = {}  BY DEF Handle
<1>4. PICK d : d = [id |-> c.id, att |-> c.att, stage |-> "sending", live |-> TRUE]  OBVIOUS
<1>5. cur' = {d}  BY <1>4 DEF Handle
<1>6. d \in [id : Msgs, att : Nat, stage : Stages, live : BOOLEAN] /\ d.stage = "sending" /\ d.live
      /\ d.id = c.id /\ d.att = c.att
  BY <1>1, <1>4 DEF Copies, Stages
<1>7. PipeParts'
  BY <1>1, <1>2, <1>3, <1>5, <1>6 DEF PipeParts, Queues, Deliveries, OneAtATime, StagesTrue, BudgetKept
<1>8. \A k \in Queued : k \in Queued' \/ k = c  BY <1>2, <1>3 DEF Queued
<1>9. QED  BY <1>3, <1>5, <1>6, <1>7, <1>8 DEF PipeKept, Alive

\* A send returns.
LEMMA SendKeeps ==
    ASSUME PipeParts, NEW ok \in BOOLEAN, NEW fatal \in BOOLEAN, NEW reached \in BOOLEAN, Send(ok, fatal, reached)
    PROVE  PipeKept
<1>1. PICK c \in cur : /\ c.stage = "sending" /\ (ok => reached /\ ~fatal)
                       /\ cur' = {[c EXCEPT !.stage = IF ok THEN "sent" ELSE IF GivesUpDelivery(c, fatal) THEN "dead" ELSE "retry"]}
                       /\ delivered' = IF reached THEN delivered \cup {c.id} ELSE delivered
                       /\ sends' = IF fatal THEN sends ELSE [sends EXCEPT ![c.id] = @ + 1]
                       /\ UNCHANGED <<sendQ, ladder, deadQ, buf, stranded, held, reported>>
  BY DEF Send
<1>2. c \in [id : Msgs, att : Nat, stage : Stages, live : BOOLEAN]  BY DEF PipeParts, Deliveries
<1>3. PICK s : s = IF ok THEN "sent" ELSE IF GivesUpDelivery(c, fatal) THEN "dead" ELSE "retry"  OBVIOUS
<1>4. PICK d : d = [c EXCEPT !.stage = s]  OBVIOUS
<1>5. d \in [id : Msgs, att : Nat, stage : Stages, live : BOOLEAN] /\ d.stage = s /\ d.live = c.live /\ d.id = c.id /\ d.att = c.att
  BY <1>2, <1>3, <1>4 DEF Stages
<1>6. cur' = {d}  BY <1>1, <1>3, <1>4
<1>7. s \in {"sent", "retry", "dead"} /\ (s = "sent" => reached) /\ (s = "retry" => c.att + 1 < WorkerMaxAttempts)
  BY <1>1, <1>2, <1>3, PipelineAssumption DEF GivesUpDelivery
<1>8. Queues'  BY <1>1 DEF PipeParts, Queues
<1>9. Deliveries'
  <2>1. sends' \in [Msgs -> Nat]  BY <1>1, <1>2 DEF PipeParts, Deliveries
  <2>2. delivered' \in SUBSET Msgs  BY <1>1, <1>2 DEF PipeParts, Deliveries
  <2>3. QED  BY <1>1, <1>5, <1>6, <2>1, <2>2 DEF PipeParts, Deliveries
<1>10. OneAtATime' /\ StagesTrue' /\ BudgetKept'
  BY <1>1, <1>2, <1>5, <1>6, <1>7 DEF PipeParts, OneAtATime, StagesTrue, BudgetKept, Deliveries
<1>11. \A m \in Msgs : Alive(m) => Alive(m)'
  <2>1. Queued' = Queued /\ delivered \subseteq delivered'  BY <1>1 DEF Queued
  <2>2. \A e \in cur : e = c  BY DEF PipeParts, OneAtATime
  <2>3. s = "sent" => c.id \in delivered'  BY <1>1, <1>7
  <2>4. QED  BY <1>1, <1>5, <1>6, <1>7, <2>1, <2>2, <2>3 DEF Alive
<1>12. QED  BY <1>8, <1>9, <1>10, <1>11 DEF PipeKept, PipeParts

\* A republished copy is in a queue, with its attempt counted.
LEMMA RepublishPuts ==
    ASSUME PipeParts, NEW c \in cur, c.stage \in {"retry", "dead"}, Republish(c)
    PROVE  /\ IsQueue(ladder') /\ IsQueue(deadQ')
           /\ BagToSet(ladder) \subseteq BagToSet(ladder') /\ BagToSet(deadQ) \subseteq BagToSet(deadQ')
           /\ \E k \in BagToSet(ladder') \cup BagToSet(deadQ') : k.id = c.id
           /\ \A k \in BagToSet(ladder') : k.att < WorkerMaxAttempts
<1>1. PICK n : n = Copy(c.id, c.att + 1)  OBVIOUS
<1>2. n \in Copies /\ n.id = c.id /\ n.att = c.att + 1
  BY <1>1 DEF Copy, Copies, PipeParts, Deliveries
<1>3. CASE c.stage = "dead"
  <2>1. deadQ' = deadQ (+) One(n) /\ ladder' = ladder  BY <1>1, <1>3 DEF Republish
  <2>2. QED  BY <1>2, <2>1, QueueOne DEF PipeParts, Queues, BudgetKept
<1>4. CASE c.stage = "retry"
  <2>1. ladder' = ladder (+) One(n) /\ deadQ' = deadQ  BY <1>1, <1>4 DEF Republish
  <2>2. n.att < WorkerMaxAttempts  BY <1>2, <1>4 DEF PipeParts, StagesTrue
  <2>3. QED  BY <1>2, <2>1, <2>2, QueueOne DEF PipeParts, Queues, BudgetKept
<1>5. QED  BY <1>3, <1>4

\* A confirmed republish.
LEMMA RouteKeeps == ASSUME PipeParts, Route  PROVE PipeKept
<1>1. PICK c \in cur : /\ c.stage \in {"retry", "dead"} /\ c.live /\ Republish(c)
                       /\ cur' = {[c EXCEPT !.stage = "routed"]}
                       /\ UNCHANGED <<sendQ, buf, stranded, held, delivered, sends, reported>>
  BY DEF Route
<1>2. c \in [id : Msgs, att : Nat, stage : Stages, live : BOOLEAN]  BY DEF PipeParts, Deliveries
<1>3. PICK d : d = [c EXCEPT !.stage = "routed"]  OBVIOUS
<1>4. d \in [id : Msgs, att : Nat, stage : Stages, live : BOOLEAN] /\ d.stage = "routed" /\ d.att = c.att
  BY <1>2, <1>3 DEF Stages
<1>5. cur' = {d}  BY <1>1, <1>3
<1>6. /\ IsQueue(ladder') /\ IsQueue(deadQ')
      /\ BagToSet(ladder) \subseteq BagToSet(ladder') /\ BagToSet(deadQ) \subseteq BagToSet(deadQ')
      /\ \E k \in BagToSet(ladder') \cup BagToSet(deadQ') : k.id = c.id
      /\ \A k \in BagToSet(ladder') : k.att < WorkerMaxAttempts
  BY <1>1, RepublishPuts
<1>7. PipeParts'
  BY <1>1, <1>4, <1>5, <1>6 DEF PipeParts, Queues, Deliveries, OneAtATime, StagesTrue, BudgetKept
<1>8. Queued \subseteq Queued' /\ \E k \in Queued' : k.id = c.id  BY <1>1, <1>6 DEF Queued
<1>9. \A e \in cur : e = c  BY DEF PipeParts, OneAtATime
<1>10. QED  BY <1>1, <1>7, <1>8, <1>9 DEF PipeKept, Alive

\* A failed republish leaves the delivery unacked.
LEMMA RouteFailsKeeps == ASSUME PipeParts, NEW took \in BOOLEAN, RouteFails(took)  PROVE PipeKept
<1>1. PICK c \in cur : /\ c.stage \in {"retry", "dead"}
                       /\ IF took /\ c.live THEN Republish(c) ELSE UNCHANGED <<ladder, deadQ>>
                       /\ cur' = {} /\ stranded' = stranded (+) SetToBag(CurCopy)
                       /\ UNCHANGED <<sendQ, buf, held, delivered, sends, reported>>
  BY DEF RouteFails
<1>2. /\ IsQueue(ladder') /\ IsQueue(deadQ')
      /\ BagToSet(ladder) \subseteq BagToSet(ladder') /\ BagToSet(deadQ) \subseteq BagToSet(deadQ')
      /\ \A k \in BagToSet(ladder') : k.att < WorkerMaxAttempts
  <2>1. CASE took /\ c.live  BY <1>1, <2>1, RepublishPuts
  <2>2. CASE ~(took /\ c.live)  BY <1>1, <2>2 DEF PipeParts, Queues, BudgetKept
  <2>3. QED  BY <2>1, <2>2
<1>3. /\ CurCopy \in SUBSET Copies
      /\ \A e \in cur : e.live => Copy(e.id, e.att) \in CurCopy
      /\ \A k \in CurCopy : \E e \in cur : e.live /\ k = Copy(e.id, e.att)
  BY CurrentCopy DEF PipeParts
<1>4. IsQueue(stranded') /\ BagToSet(stranded') = BagToSet(stranded) \cup CurCopy
  BY <1>1, <1>3, QueuePlus DEF PipeParts, Queues
<1>5. \A k \in CurCopy : k.att < WorkerMaxAttempts  BY <1>3 DEF PipeParts, BudgetKept, Copy
<1>6. PipeParts'
  BY <1>1, <1>2, <1>4, <1>5 DEF PipeParts, Queues, Deliveries, OneAtATime, StagesTrue, BudgetKept
<1>7. Queued \subseteq Queued' /\ CurCopy \subseteq Queued'  BY <1>1, <1>2, <1>4 DEF Queued
<1>8. \A e \in cur : e.live => \E k \in Queued' : k.id = e.id  BY <1>3, <1>7 DEF Copy
<1>9. QED  BY <1>1, <1>6, <1>7, <1>8 DEF PipeKept, Alive

\* An ack ends a delivery that was sent or routed.
LEMMA AckKeeps == ASSUME PipeParts, Ack  PROVE PipeKept
<1>1. PICK c \in cur : c.stage \in {"sent", "routed"}  BY DEF Ack
<1>2. cur' = {} /\ UNCHANGED <<sendQ, ladder, deadQ, buf, stranded, held, delivered, sends, reported>>  BY DEF Ack
<1>3. PipeParts'  BY <1>2 DEF PipeParts, Queues, Deliveries, OneAtATime, StagesTrue, BudgetKept
<1>4. Queued' = Queued /\ \A e \in cur : e = c  BY <1>2 DEF Queued, PipeParts, OneAtATime
<1>5. QED  BY <1>1, <1>2, <1>3, <1>4 DEF PipeKept, Alive

\* The channel goes away: what was not acked is in the queue again, and the delivery in
\* progress, if the worker goes on with it, stands for no copy of its own.
LEMMA ReturnKeeps ==
    ASSUME PipeParts, ReturnUnacked, UNCHANGED <<ladder, deadQ, held, delivered, sends, reported>>,
           cur' = {} \/ cur' = {[c EXCEPT !.live = FALSE] : c \in cur}
    PROVE  PipeKept
<1>1. /\ CurCopy \in SUBSET Copies
      /\ \A e \in cur : e.live => Copy(e.id, e.att) \in CurCopy
      /\ \A k \in CurCopy : \E e \in cur : e.live /\ k = Copy(e.id, e.att)
  BY CurrentCopy DEF PipeParts
<1>2. PICK both : both = sendQ (+) buf  OBVIOUS
<1>3. IsQueue(both) /\ BagToSet(both) = BagToSet(sendQ) \cup BagToSet(buf)
  BY <1>2, BagPlus DEF PipeParts, Queues, IsQueue
<1>4. PICK all : all = both (+) stranded  OBVIOUS
<1>5. IsQueue(all) /\ BagToSet(all) = BagToSet(both) \cup BagToSet(stranded)
  BY <1>3, <1>4, BagPlus DEF PipeParts, Queues, IsQueue
<1>6. sendQ' = all (+) SetToBag(CurCopy) /\ buf' = EmptyBag /\ stranded' = EmptyBag
  BY <1>2, <1>4 DEF ReturnUnacked
<1>7. IsQueue(sendQ') /\ BagToSet(sendQ') = BagToSet(sendQ) \cup BagToSet(buf) \cup BagToSet(stranded) \cup CurCopy
  BY <1>1, <1>3, <1>5, <1>6, QueuePlus
<1>8. \A k \in CurCopy : k.att < WorkerMaxAttempts  BY <1>1 DEF PipeParts, BudgetKept, Copy
<1>9. /\ cur' \in SUBSET [id : Msgs, att : Nat, stage : Stages, live : BOOLEAN]
      /\ \A d \in cur' : \E c \in cur : d.id = c.id /\ d.att = c.att /\ d.stage = c.stage
      /\ \A d, e \in cur' : d = e
  <2>1. ASSUME NEW c \in cur
        PROVE  /\ [c EXCEPT !.live = FALSE] \in [id : Msgs, att : Nat, stage : Stages, live : BOOLEAN]
               /\ [c EXCEPT !.live = FALSE].id = c.id /\ [c EXCEPT !.live = FALSE].att = c.att
               /\ [c EXCEPT !.live = FALSE].stage = c.stage
    BY DEF PipeParts, Deliveries
  <2>2. QED  BY <2>1 DEF PipeParts, OneAtATime
<1>10. PipeParts'
  BY <1>6, <1>7, <1>8, <1>9, EmptyQueue DEF PipeParts, Queues, Deliveries, OneAtATime, StagesTrue, BudgetKept
<1>11. Queued \subseteq Queued' /\ CurCopy \subseteq Queued'  BY <1>7 DEF Queued
<1>12. \A e \in cur : e.live => \E k \in Queued' : k.id = e.id  BY <1>1, <1>11 DEF Copy
<1>13. QED  BY <1>10, <1>11, <1>12 DEF PipeKept, Alive

\* A copy's retry delay is over.
LEMMA LadderKeeps == ASSUME PipeParts, NEW c, LadderExpires(c)  PROVE PipeKept
<1>1. c \in Copies /\ c \in BagToSet(ladder)  BY DEF LadderExpires, BagIn, PipeParts, Queues, IsQueue
<1>2. IsQueue(ladder') /\ BagToSet(ladder) \ {c} \subseteq BagToSet(ladder') /\ BagToSet(ladder') \subseteq BagToSet(ladder)
  BY <1>1, QueueOne DEF LadderExpires, PipeParts, Queues
<1>3. IsQueue(sendQ') /\ BagToSet(sendQ') = BagToSet(sendQ) \cup {c}
  BY <1>1, QueueOne DEF LadderExpires, PipeParts, Queues
<1>4. UNCHANGED <<deadQ, buf, cur, stranded, held, delivered, sends, reported>>  BY DEF LadderExpires
<1>5. PipeParts'
  BY <1>1, <1>2, <1>3, <1>4 DEF PipeParts, Queues, Deliveries, OneAtATime, StagesTrue, BudgetKept
<1>6. Queued \subseteq Queued'  BY <1>1, <1>2, <1>3, <1>4 DEF Queued
<1>7. QED  BY <1>4, <1>5, <1>6 DEF PipeKept, Alive

\* The watcher takes a report.
LEMMA WatcherTakesKeeps == ASSUME PipeParts, NEW c, WatcherTakes(c)  PROVE PipeKept
<1>1. c \in Copies /\ c \in BagToSet(deadQ)  BY DEF WatcherTakes, BagIn, PipeParts, Queues, IsQueue
<1>2. IsQueue(deadQ') /\ BagToSet(deadQ) \ {c} \subseteq BagToSet(deadQ')
  BY <1>1, QueueOne DEF WatcherTakes, PipeParts, Queues
<1>3. UNCHANGED <<sendQ, ladder, buf, cur, stranded, delivered, sends, reported>> /\ held = {}  BY DEF WatcherTakes
<1>4. PICK h : h = [id |-> c.id, att |-> c.att, done |-> FALSE]  OBVIOUS
<1>5. held' = {h}  BY <1>4 DEF WatcherTakes
<1>6. h \in [id : Msgs, att : Nat, done : BOOLEAN] /\ h.id = c.id /\ ~h.done  BY <1>1, <1>4 DEF Copies
<1>7. PipeParts'
  BY <1>2, <1>3, <1>5, <1>6 DEF PipeParts, Queues, Deliveries, OneAtATime, StagesTrue, BudgetKept
<1>8. \A k \in Queued : k \in Queued' \/ k = c  BY <1>2, <1>3 DEF Queued
<1>9. QED  BY <1>3, <1>5, <1>6, <1>7, <1>8 DEF PipeKept, Alive

\* The watcher records a report.
LEMMA WatcherSettles == ASSUME PipeParts, Settle  PROVE PipeKept
<1>1. PICK h \in held : /\ reported' = reported \cup {h.id}
                        /\ held' = {[h EXCEPT !.done = TRUE]}
                        /\ UNCHANGED <<sendQ, ladder, deadQ, buf, cur, stranded, delivered, sends>>
  BY DEF Settle
<1>2. h \in [id : Msgs, att : Nat, done : BOOLEAN]  BY DEF PipeParts, Deliveries
<1>3. PICK g : g = [h EXCEPT !.done = TRUE]  OBVIOUS
<1>4. g \in [id : Msgs, att : Nat, done : BOOLEAN] /\ g.id = h.id  BY <1>2, <1>3
<1>5. held' = {g}  BY <1>1, <1>3
<1>6. PipeParts'
  BY <1>1, <1>2, <1>4, <1>5 DEF PipeParts, Queues, Deliveries, OneAtATime, StagesTrue, BudgetKept
<1>7. Queued' = Queued /\ \A e \in held : e = h  BY <1>1 DEF Queued, PipeParts, OneAtATime
<1>8. QED  BY <1>1, <1>4, <1>5, <1>6, <1>7 DEF PipeKept, Alive

\* A report that is not settled goes back to its queue.
LEMMA ReportReturns ==
    ASSUME PipeParts, NEW h \in held, held' = {}, deadQ' = deadQ (+) One(Copy(h.id, h.att)),
           UNCHANGED <<sendQ, ladder, buf, cur, stranded, delivered, sends, reported>>
    PROVE  PipeKept
<1>1. PICK k : k = Copy(h.id, h.att)  OBVIOUS
<1>2. k \in Copies /\ k.id = h.id  BY <1>1 DEF PipeParts, Deliveries, Copy, Copies
<1>3. IsQueue(deadQ') /\ BagToSet(deadQ') = BagToSet(deadQ) \cup {k}
  BY <1>1, <1>2, QueueOne DEF PipeParts, Queues
<1>4. PipeParts'  BY <1>3 DEF PipeParts, Queues, Deliveries, OneAtATime, StagesTrue, BudgetKept
<1>5. Queued \subseteq Queued' /\ k \in Queued'  BY <1>3 DEF Queued
<1>6. \A e \in held : e = h  BY DEF PipeParts, OneAtATime
<1>7. QED  BY <1>2, <1>4, <1>5, <1>6 DEF PipeKept, Alive

\* The watcher acks a report it recorded.
LEMMA WatcherAcksKeeps == ASSUME PipeParts, WatcherAcks  PROVE PipeKept
<1>1. PICK h \in held : h.done  BY DEF WatcherAcks
<1>2. held' = {} /\ UNCHANGED <<sendQ, ladder, deadQ, buf, cur, stranded, delivered, sends, reported>>  BY DEF WatcherAcks
<1>3. PipeParts'  BY <1>2 DEF PipeParts, Queues, Deliveries, OneAtATime, StagesTrue, BudgetKept
<1>4. Queued' = Queued /\ \A e \in held : e.id \in reported
  BY <1>1, <1>2 DEF Queued, PipeParts, OneAtATime, StagesTrue
<1>5. QED  BY <1>2, <1>3, <1>4 DEF PipeKept, Alive

\* A step of the worker or of the watcher.
LEMMA PipeStepKeeps == ASSUME PipeParts, WorkerStep \/ WatcherStep  PROVE PipeKept /\ handed' = handed
<1>1. ASSUME NEW c, Consume(c)  PROVE PipeKept /\ handed' = handed
  BY <1>1, ConsumeKeeps DEF Consume, vars, history
<1>2. ASSUME NEW c, Handle(c)  PROVE PipeKept /\ handed' = handed
  BY <1>2, HandleKeeps DEF Handle, vars, history
<1>3. ASSUME NEW ok \in BOOLEAN, NEW fatal \in BOOLEAN, NEW reached \in BOOLEAN, Send(ok, fatal, reached)
      PROVE  PipeKept /\ handed' = handed
  BY <1>3, SendKeeps DEF Send, vars, history
<1>4. CASE Route  BY <1>4, RouteKeeps DEF Route, vars, history
<1>5. ASSUME NEW took \in BOOLEAN, RouteFails(took)  PROVE PipeKept /\ handed' = handed
  BY <1>5, RouteFailsKeeps DEF RouteFails, history
<1>6. CASE Ack  BY <1>6, AckKeeps DEF Ack, vars, history
<1>7. CASE ConnectionDrops  BY <1>7, ReturnKeeps DEF ConnectionDrops, history
<1>8. CASE WorkerDies  BY <1>8, ReturnKeeps DEF WorkerDies, history
<1>9. CASE ConsumerTimeout  BY <1>9, ReturnKeeps DEF ConsumerTimeout, vars, history
<1>10. ASSUME NEW c, LadderExpires(c)  PROVE PipeKept /\ handed' = handed
  BY <1>10, LadderKeeps DEF LadderExpires, vars, history
<1>11. ASSUME NEW c, WatcherTakes(c)  PROVE PipeKept /\ handed' = handed
  BY <1>11, WatcherTakesKeeps DEF WatcherTakes, vars, history
<1>12. CASE Settle  BY <1>12, WatcherSettles DEF Settle, history
<1>13. CASE SettleFails  BY <1>13, ReportReturns DEF SettleFails, vars, history
<1>14. CASE WatcherAcks  BY <1>14, WatcherAcksKeeps DEF WatcherAcks, vars, history
<1>15. CASE WatcherDrops  BY <1>15, ReportReturns DEF WatcherDrops, history
<1>16. QED
  BY <1>1, <1>2, <1>3, <1>4, <1>5, <1>6, <1>7, <1>8, <1>9, <1>10, <1>11, <1>12, <1>13, <1>14, <1>15
     DEF WorkerStep, WatcherStep

\* A relay's step: what its sink took is in the queue.
LEMMA DeliverKeeps ==
    ASSUME PipeParts, Deliver
    PROVE  PipeKept /\ \A m \in Msgs : handed'[m] # handed[m] => Alive(m)'
<1>1. PICK S : S = {Copy(m, 0) : m \in {n \in Msgs : handed'[n] # handed[n]}}  OBVIOUS
<1>2. /\ S \in SUBSET Copies /\ \A k \in S : k.att = 0
      /\ \A m \in Msgs : handed'[m] # handed[m] => \E k \in S : k.id = m
  <2>1. \A m \in Msgs : Copy(m, 0) \in Copies /\ Copy(m, 0).att = 0 /\ Copy(m, 0).id = m  BY DEF Copy, Copies
  <2>2. \A m \in Msgs : handed'[m] # handed[m] => Copy(m, 0) \in S  BY <1>1
  <2>3. \A k \in S : \E m \in Msgs : k = Copy(m, 0)  BY <1>1
  <2>4. QED  BY <2>1, <2>2, <2>3
<1>3. IsQueue(sendQ') /\ BagToSet(sendQ') = BagToSet(sendQ) \cup S
  BY <1>1, <1>2, QueuePlus DEF Deliver, PipeParts, Queues
<1>4. UNCHANGED <<ladder, deadQ, buf, cur, stranded, held, delivered, sends, reported>>  BY DEF Deliver
<1>5. \A k \in S : k.att < WorkerMaxAttempts  BY <1>2, PipelineAssumption
<1>6. PipeParts'
  BY <1>3, <1>4, <1>5 DEF PipeParts, Queues, Deliveries, OneAtATime, StagesTrue, BudgetKept
<1>7. Queued \subseteq Queued' /\ S \subseteq Queued'  BY <1>3, <1>4 DEF Queued
<1>8. QED  BY <1>2, <1>4, <1>6, <1>7 DEF PipeKept, Alive

\* Nothing of the pipeline changes.
LEMMA PipeRests == ASSUME PipeParts, UNCHANGED pipeVars  PROVE PipeKept
<1>1. UNCHANGED <<sendQ, ladder, deadQ, buf, cur, stranded, held, delivered, sends, reported>>  BY DEF pipeVars
<1>2. PipeParts'  BY <1>1 DEF PipeParts, Queues, Deliveries, OneAtATime, StagesTrue, BudgetKept
<1>3. Queued' = Queued  BY <1>1 DEF Queued
<1>4. QED  BY <1>1, <1>2, <1>3 DEF PipeKept, Alive

\* PipeInv is inductive.
LEMMA PipeNextKeeps == PipeInv /\ [PipeNext]_allVars => PipeInv'
<1> SUFFICES ASSUME PipeInv, [PipeNext]_allVars  PROVE PipeInv'
  OBVIOUS
<1>1. PipeParts  BY DEF PipeInv
<1>2. ASSUME PipeKept, \A m \in Msgs : handed'[m] # handed[m] => Alive(m)'  PROVE PipeInv'
  BY <1>2 DEF PipeKept, PipeInv
<1>3. CASE WorkerStep \/ WatcherStep  BY <1>1, <1>2, <1>3, PipeStepKeeps
<1>4. CASE (\E r \in Relays : RelayStep(r)) /\ Deliver  BY <1>1, <1>2, <1>4, DeliverKeeps
<1>5. CASE (\E m \in Msgs : EnqueueTx(m)) /\ UNCHANGED pipeVars
  <2>1. handed' = handed  BY <1>5 DEF EnqueueTx, history
  <2>2. QED  BY <1>1, <1>2, <1>5, <2>1, PipeRests
<1>6. CASE Tick /\ UNCHANGED pipeVars
  <2>1. handed' = handed  BY <1>6 DEF Tick, history
  <2>2. QED  BY <1>1, <1>2, <1>6, <2>1, PipeRests
<1>7. CASE UNCHANGED allVars
  <2>1. handed' = handed  BY <1>7 DEF allVars, vars, history
  <2>2. QED  BY <1>1, <1>2, <1>7, <2>1, PipeRests DEF allVars
<1>8. QED  BY <1>3, <1>4, <1>5, <1>6, <1>7 DEF PipeNext

\* PipeInv holds initially: nothing was handed over.
LEMMA PipeInitHolds == PipeInit => PipeInv
<1> SUFFICES ASSUME PipeInit  PROVE PipeInv
  OBVIOUS
<1>1. PipeParts
  BY EmptyQueue DEF PipeInit, PipeParts, Queues, Deliveries, OneAtATime, StagesTrue, BudgetKept
<1>2. \A m \in Msgs : handed[m] = {}  BY DEF PipeInit, Init
<1>3. QED  BY <1>1, <1>2 DEF PipeInv

\* At most one delivery at a time, counted.
LEMMA AtMostOne == ASSUME NEW S, \A c, d \in S : c = d  PROVE Cardinality(S) <= 1
<1>1. CASE S = {}  BY <1>1, FS_EmptySet
<1>2. ASSUME NEW c \in S  PROVE Cardinality(S) <= 1
  <2>1. S = {c}  BY <1>2
  <2>2. Cardinality({c}) = 1  BY FS_Singleton
  <2>3. QED  BY <2>1, <2>2
<1>3. QED  BY <1>1, <1>2

\* The inductive invariant says that no message vanished behind the broker.
LEMMA PipeInvAccounts == PipeInv => MessagesAccountedFor
<1> SUFFICES ASSUME PipeInv  PROVE MessagesAccountedFor
  OBVIOUS
<1>1. PipeTypeOK
  <2>1. Cardinality(cur) <= 1 /\ Cardinality(held) <= 1  BY AtMostOne DEF PipeInv, PipeParts, OneAtATime
  <2>2. QED  BY <2>1 DEF PipeInv, PipeParts, Queues, IsQueue, Deliveries, PipeTypeOK
<1>2. /\ CurCopy \in SUBSET Copies
      /\ \A e \in cur : e.live => Copy(e.id, e.att) \in CurCopy
      /\ \A k \in CurCopy : \E e \in cur : e.live /\ k = Copy(e.id, e.att)
  BY CurrentCopy DEF PipeInv, PipeParts
<1>3. RetriesWithinBudget
  <2>1. \A k \in CurCopy : k.att < WorkerMaxAttempts
    BY <1>2 DEF PipeInv, PipeParts, BudgetKept, Copy
  <2>2. QED  BY <2>1 DEF PipeInv, PipeParts, BudgetKept, RetriesWithinBudget, ToSend
<1>4. AccountedFor
  <2> SUFFICES ASSUME NEW m \in Msgs, handed[m] # {}, CopiesOf(m) = {}
               PROVE  m \in delivered \cup reported
    BY DEF AccountedFor
  <2>1. /\ \A k \in Queued : k.id # m
        /\ \A k \in CurCopy : k.id # m
        /\ \A h \in held : Copy(h.id, h.att).id # m
    <3>1. \A k \in ToSend \cup BagToSet(deadQ) \cup {Copy(h.id, h.att) : h \in held} : k.id # m
      BY DEF CopiesOf
    <3>2. Queued \subseteq ToSend \cup BagToSet(deadQ) /\ CurCopy \subseteq ToSend  BY DEF Queued, ToSend
    <3>3. QED  BY <3>1, <3>2
  <2>2. \A c \in cur : c.live => c.id # m
    <3>1. \A c \in cur : Copy(c.id, c.att).id = c.id  BY DEF Copy
    <3>2. QED  BY <1>2, <2>1, <3>1
  <2>3. \A h \in held : h.id # m  BY <2>1 DEF Copy
  <2>4. Alive(m)  BY DEF PipeInv
  <2>5. QED  BY <2>1, <2>2, <2>3, <2>4 DEF Alive
<1>5. QED  BY <1>1, <1>3, <1>4 DEF MessagesAccountedFor

\* Through connection drops, process deaths, failed republishes and lost acks, a published
\* message of which the broker holds no copy was sent or reported, and no copy past its budget
\* goes back to the worker (handle, route and give; DeadLetterWatcher.settle).
THEOREM MessagesAccounted == PipeSpec => []MessagesAccountedFor
<1>1. PipeInit => PipeInv  BY PipeInitHolds
<1>2. PipeInv /\ [PipeNext]_allVars => PipeInv'  BY PipeNextKeeps
<1>3. PipeInv => MessagesAccountedFor  BY PipeInvAccounts
<1>4. QED  BY <1>1, <1>2, <1>3, PTL DEF PipeSpec

===============================================================================

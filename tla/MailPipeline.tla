----------------------------- MODULE MailPipeline -----------------------------
(***************************************************************************)
(* The outbox with MAIL_TRANSPORT=amqp: the relays publish claimed rows to *)
(* a broker (mailoutbox.AMQPSink), cmd/mailer consumes, sends and          *)
(* republishes what fails (mailworker.Worker), and the backend's           *)
(* DeadLetterWatcher reports what was given up back to the row.            *)
(*                                                                         *)
(* A copy is one message in the broker: the row it came from and its       *)
(* x-foldex-attempt header.  The broker (external) keeps a copy in a queue *)
(* or unacked at a consumer, and returns what a consumer did not ack when  *)
(* its channel or connection goes away.                                    *)
(***************************************************************************)
EXTENDS MailOutbox, Bags

CONSTANTS
    Prefetch,          \* worker Options.Prefetch
    WorkerMaxAttempts  \* worker Options.MaxAttempts

ASSUME PipelineAssumption ==
    /\ Prefetch \in Nat \ {0}
    /\ WorkerMaxAttempts \in Nat \ {0}

VARIABLES
    sendQ,      \* the send queue
    ladder,     \* the retry queues
    deadQ,      \* the dead queue
    buf,        \* deliveries prefetched by the worker, not handled yet
    cur,        \* the delivery the worker is handling, at most one
    stranded,   \* deliveries the worker left unacked
    held,       \* the delivery the watcher is settling, at most one
    delivered,  \* history: rows whose message reached the mail server
    sends,      \* history: calls of Mailer.Send per row
    reported    \* history: rows the watcher marked failed or logged as abandoned

pipeVars == <<sendQ, ladder, deadQ, buf, cur, stranded, held, delivered, sends, reported>>
allVars  == <<vars, pipeVars>>

Copy(m, n) == [id |-> m, att |-> n]
Copies     == [id : Msgs, att : Nat]
Stages     == {"sending", "sent", "retry", "dead", "routed"}

One(c) == SetToBag({c})

\* Deliveries the broker counts against the worker's prefetch window.
Unacked == BagCardinality(buf) + BagCardinality(stranded)
             + Cardinality({c \in cur : c.live})

\* The copy a delivery in progress stands for, while its channel is open.
CurCopy == {Copy(c.id, c.att) : c \in {d \in cur : d.live}}

-------------------------------------------------------------------------------
(***************************************************************************)
(* The relay over AMQPSink.                                                *)
(***************************************************************************)

\* Deliver publishes with attempt 0.  It fails permanently only if the row
\* cannot be encoded, which no row does; the queue holds a copy of every claim
\* the broker took, confirmed or not.
Deliver ==
    /\ refused' = refused
    /\ sendQ' = sendQ (+) SetToBag({Copy(m, 0) : m \in {n \in Msgs : handed'[n] # handed[n]}})
    /\ UNCHANGED <<ladder, deadQ, buf, cur, stranded, held, delivered, sends, reported>>

-------------------------------------------------------------------------------
(***************************************************************************)
(* The worker.                                                             *)
(***************************************************************************)

\* ConsumeOnce: the broker pushes into the prefetch window.
Consume(c) ==
    /\ BagIn(c, sendQ)
    /\ Unacked < Prefetch
    /\ sendQ' = sendQ (-) One(c)
    /\ buf'   = buf (+) One(c)
    /\ UNCHANGED <<vars, ladder, deadQ, cur, stranded, held, delivered, sends, reported>>

\* handle, one delivery at a time, up to the call of Mailer.Send.
Handle(c) ==
    /\ cur = {}
    /\ BagIn(c, buf)
    /\ buf' = buf (-) One(c)
    /\ cur' = {[id |-> c.id, att |-> c.att, stage |-> "sending", live |-> TRUE]}
    /\ UNCHANGED <<vars, sendQ, ladder, deadQ, stranded, held, delivered, sends, reported>>

\* Mutant: the attempt that is ending is not counted.
GivesUpDeliveryLate(c, fatal) == fatal \/ c.att >= WorkerMaxAttempts

\* give: nothing is retried past the budget, or when retrying is pointless.
GivesUpDelivery(c, fatal) == fatal \/ c.att + 1 >= WorkerMaxAttempts

\* send returns.  ok: Mailer.Send returned nil.  fatal: the payload cannot be
\* opened or rendered, so Send was not called.  Otherwise Send failed, and
\* reached says whether the mail server had taken the message nevertheless.
Send(ok, fatal, reached) ==
    \E c \in cur :
        /\ c.stage = "sending"
        /\ ok => reached /\ ~fatal
        /\ fatal => ~reached
        /\ cur' = {[c EXCEPT !.stage = IF ok THEN "sent"
                                       ELSE IF GivesUpDelivery(c, fatal) THEN "dead" ELSE "retry"]}
        /\ delivered' = IF reached THEN delivered \cup {c.id} ELSE delivered
        /\ sends' = IF fatal THEN sends ELSE [sends EXCEPT ![c.id] = @ + 1]
        /\ UNCHANGED <<vars, sendQ, ladder, deadQ, buf, stranded, held, reported>>

\* Mutant: the republished copy keeps the attempt it came with.
RepublishSameAttempt(c) ==
    LET n == Copy(c.id, c.att) IN
    IF c.stage = "dead" THEN deadQ' = deadQ (+) One(n) /\ ladder' = ladder
                        ELSE ladder' = ladder (+) One(n) /\ deadQ' = deadQ

\* Where Republish puts a copy, with the attempt just made in its header.
Republish(c) ==
    LET n == Copy(c.id, c.att + 1) IN
    IF c.stage = "dead" THEN deadQ' = deadQ (+) One(n) /\ ladder' = ladder
                        ELSE ladder' = ladder (+) One(n) /\ deadQ' = deadQ

\* route: the republished copy is confirmed.
Route ==
    \E c \in cur :
        /\ c.stage \in {"retry", "dead"}
        /\ c.live
        /\ Republish(c)
        /\ cur' = {[c EXCEPT !.stage = "routed"]}
        /\ UNCHANGED <<vars, sendQ, buf, stranded, held, delivered, sends, reported>>

\* Mutant: a failed republish is acked like a successful one.
RouteFailsAcked(took) ==
    \E c \in cur :
        /\ c.stage \in {"retry", "dead"}
        /\ IF took /\ c.live THEN Republish(c) ELSE UNCHANGED <<ladder, deadQ>>
        /\ cur' = {}
        /\ IF c.live THEN Fault ELSE faults' = faults
        /\ UNCHANGED <<rowVars, relayVars, history>>
        /\ UNCHANGED <<sendQ, buf, stranded, held, delivered, sends, reported>>

\* route: Republish fails (took: the broker has the copy and the confirm was
\* lost), the original stays unacked.  On a dead connection it always fails.
RouteFails(took) ==
    \E c \in cur :
        /\ c.stage \in {"retry", "dead"}
        /\ IF took /\ c.live THEN Republish(c) ELSE UNCHANGED <<ladder, deadQ>>
        /\ cur' = {}
        /\ stranded' = stranded (+) SetToBag(CurCopy)
        /\ IF c.live THEN Fault ELSE faults' = faults
        /\ UNCHANGED <<rowVars, relayVars, history>>
        /\ UNCHANGED <<sendQ, buf, held, delivered, sends, reported>>

\* d.Ack: without effect when the channel is gone.
Ack ==
    /\ \E c \in cur : c.stage \in {"sent", "routed"}
    /\ cur' = {}
    /\ UNCHANGED <<vars, sendQ, ladder, deadQ, buf, stranded, held, delivered, sends, reported>>

\* The broker returns to the queue what the worker's channel has not acked.
ReturnUnacked ==
    /\ sendQ' = ((sendQ (+) buf) (+) stranded) (+) SetToBag(CurCopy)
    /\ buf' = EmptyBag
    /\ stranded' = EmptyBag

\* The connection drops; the handler in progress goes on without it, and
\* ReconnectLoop consumes again.
ConnectionDrops ==
    /\ Fault
    /\ ReturnUnacked
    /\ cur' = {[c EXCEPT !.live = FALSE] : c \in cur}
    /\ UNCHANGED <<rowVars, relayVars, history>>
    /\ UNCHANGED <<ladder, deadQ, held, delivered, sends, reported>>

\* The worker process dies and is restarted.
WorkerDies ==
    /\ Fault
    /\ ReturnUnacked
    /\ cur' = {}
    /\ UNCHANGED <<rowVars, relayVars, history>>
    /\ UNCHANGED <<ladder, deadQ, held, delivered, sends, reported>>

\* The broker's delivery acknowledgement timeout closes a channel that leaves a
\* delivery unacked; ReconnectLoop opens a new one.
ConsumerTimeout ==
    /\ stranded # EmptyBag
    /\ ReturnUnacked
    /\ cur' = {[c EXCEPT !.live = FALSE] : c \in cur}
    /\ UNCHANGED <<vars, ladder, deadQ, held, delivered, sends, reported>>

\* A ladder step's TTL expires: the copy is dead-lettered to the main exchange.
LadderExpires(c) ==
    /\ BagIn(c, ladder)
    /\ ladder' = ladder (-) One(c)
    /\ sendQ'  = sendQ (+) One(c)
    /\ UNCHANGED <<vars, deadQ, buf, cur, stranded, held, delivered, sends, reported>>

-------------------------------------------------------------------------------
(***************************************************************************)
(* The dead-letter watcher, prefetch 1.                                    *)
(***************************************************************************)

WatcherTakes(c) ==
    /\ held = {}
    /\ BagIn(c, deadQ)
    /\ deadQ' = deadQ (-) One(c)
    /\ held'  = {[id |-> c.id, att |-> c.att, done |-> FALSE]}
    /\ UNCHANGED <<vars, sendQ, ladder, buf, cur, stranded, delivered, sends, reported>>

\* MarkDead: only a row that reads 'published' changes.
MarkDead(m) ==
    /\ status' = [status EXCEPT ![m] = IF @ = "published" THEN "failed" ELSE @]
    /\ UNCHANGED <<attempts, token, claimAge, wait, age>>

\* settle, the statement ran: the row is failed, or the log names the message.
Settle ==
    \E c \in held :
        /\ ~c.done
        /\ MarkDead(c.id)
        /\ reported' = reported \cup {c.id}
        /\ held' = {[c EXCEPT !.done = TRUE]}
        /\ UNCHANGED <<relayVars, history, faults>>
        /\ UNCHANGED <<sendQ, ladder, deadQ, buf, cur, stranded, delivered, sends>>

\* Mutant: a report that could not be recorded is acked.
SettleFailsAcked ==
    /\ \E c \in held : ~c.done
    /\ held' = {}
    /\ UNCHANGED <<vars, sendQ, ladder, deadQ, buf, cur, stranded, delivered, sends, reported>>

\* settle, the statement failed: the report is nacked back to its queue.
SettleFails ==
    \E c \in held :
        /\ ~c.done
        /\ held'  = {}
        /\ deadQ' = deadQ (+) One(Copy(c.id, c.att))
        /\ UNCHANGED <<vars, sendQ, ladder, buf, cur, stranded, delivered, sends, reported>>

WatcherAcks ==
    /\ \E c \in held : c.done
    /\ held' = {}
    /\ UNCHANGED <<vars, sendQ, ladder, deadQ, buf, cur, stranded, delivered, sends, reported>>

\* The watcher's connection or process goes away before its ack.
WatcherDrops ==
    \E c \in held :
        /\ Fault
        /\ held'  = {}
        /\ deadQ' = deadQ (+) One(Copy(c.id, c.att))
        /\ UNCHANGED <<rowVars, relayVars, history>>
        /\ UNCHANGED <<sendQ, ladder, buf, cur, stranded, delivered, sends, reported>>

-------------------------------------------------------------------------------
PipeInit ==
    /\ Init
    /\ sendQ = EmptyBag /\ ladder = EmptyBag /\ deadQ = EmptyBag
    /\ buf = EmptyBag /\ stranded = EmptyBag
    /\ cur = {} /\ held = {}
    /\ delivered = {} /\ reported = {}
    /\ sends = [m \in Msgs |-> 0]

WorkerStep ==
    \/ \E c \in BagToSet(sendQ) : Consume(c)
    \/ \E c \in BagToSet(buf) : Handle(c)
    \/ \E ok, fatal, reached \in BOOLEAN : Send(ok, fatal, reached)
    \/ Route \/ (\E took \in BOOLEAN : RouteFails(took)) \/ Ack
    \/ ConnectionDrops \/ WorkerDies \/ ConsumerTimeout
    \/ \E c \in BagToSet(ladder) : LadderExpires(c)

WatcherStep ==
    \/ \E c \in BagToSet(deadQ) : WatcherTakes(c)
    \/ Settle \/ SettleFails \/ WatcherAcks \/ WatcherDrops

PipeNext ==
    \/ (\E m \in Msgs : EnqueueTx(m)) /\ UNCHANGED pipeVars
    \/ (\E r \in Relays : RelayStep(r)) /\ Deliver
    \/ Tick /\ UNCHANGED pipeVars
    \/ WorkerStep
    \/ WatcherStep

PipeSpec == PipeInit /\ [][PipeNext]_allVars

\* The consumers reconnect and go on, the broker's timers fire, a send returns
\* by its timeout, and a database that fails the watcher comes back.
PipeFairness ==
    /\ WF_allVars(\E c \in BagToSet(sendQ) : Consume(c))
    /\ WF_allVars(\E c \in BagToSet(buf) : Handle(c))
    /\ WF_allVars(\E ok, fatal, reached \in BOOLEAN : Send(ok, fatal, reached))
    /\ WF_allVars(Route \/ \E took \in BOOLEAN : RouteFails(took))
    /\ WF_allVars(Ack)
    /\ WF_allVars(ConsumerTimeout)
    /\ WF_allVars(\E c \in BagToSet(ladder) : LadderExpires(c))
    /\ WF_allVars(\E c \in BagToSet(deadQ) : WatcherTakes(c))
    /\ SF_allVars(Settle)
    /\ WF_allVars(WatcherAcks)

PipeFairSpec == PipeSpec /\ PipeFairness

-------------------------------------------------------------------------------
(***************************************************************************)
(* Properties.                                                             *)
(***************************************************************************)

\* What the worker may still send, and the copies of a row's message anywhere in the broker.
ToSend == BagToSet(sendQ) \cup BagToSet(ladder) \cup BagToSet(buf) \cup BagToSet(stranded) \cup CurCopy
CopiesOf(m) == {c \in ToSend \cup BagToSet(deadQ) \cup {Copy(h.id, h.att) : h \in held} : c.id = m}

\* The queues hold copies of the outbox's messages; the worker and the watcher
\* handle one delivery each.
PipeTypeOK ==
    /\ \A q \in {sendQ, ladder, deadQ, buf, stranded} : IsABag(q) /\ BagToSet(q) \subseteq Copies
    /\ cur  \subseteq [id : Msgs, att : Nat, stage : Stages, live : BOOLEAN]
    /\ held \subseteq [id : Msgs, att : Nat, done : BOOLEAN]
    /\ Cardinality(cur) <= 1 /\ Cardinality(held) <= 1
    /\ delivered \subseteq Msgs /\ reported \subseteq Msgs
    /\ sends \in [Msgs -> Nat]

\* A message past its budget is on its way to the watcher only.
RetriesWithinBudget == \A c \in ToSend : c.att < WorkerMaxAttempts

\* No message vanishes behind the broker: one that was published and of which no
\* copy is left reached the mail server or was reported by the watcher, whatever
\* connection drops, process deaths, failed republishes and lost acks happened.
AccountedFor ==
    \A m \in Msgs :
        handed[m] # {} /\ CopiesOf(m) = {} => m \in delivered \cup reported

\* No message vanishes, and none is retried without end.
MessagesAccountedFor == PipeTypeOK /\ RetriesWithinBudget /\ AccountedFor

\* Mailer.Send is called at most WorkerMaxAttempts times per published copy, and
\* a fault repeats at most two deliveries: the one whose confirm was lost, and
\* the one being handled when the broker closes the channel because of it.
SendBudget ==
    \A m \in Msgs :
        sends[m] <= WorkerMaxAttempts * (Cardinality(handed[m]) + 2 * faults)

\* Every published message gets somewhere: to the mail server or into the
\* watcher's report.
EventuallyResolved ==
    \A m \in Msgs : handed[m] # {} ~> m \in delivered \cup reported

\* The row tells whether the message was given up: "every row would read
\* 'published' whether the message reached a mailbox or died three retries
\* later" is what the watcher exists to prevent.  It does not hold when the message is given up
\* before the relay records its publication (README, section 3).
RowTellsTheTruth ==
    \A m \in Msgs :
        status[m] = "published" /\ CopiesOf(m) = {} => m \in delivered

\* Every published message gets somewhere; the worker takes no more than its window meanwhile, and
\* sends nothing without bound.
MessagesSettle == EventuallyResolved /\ [](Unacked <= Prefetch /\ SendBudget)
===============================================================================

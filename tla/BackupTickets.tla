----------------------------- MODULE BackupTickets -----------------------------
(***************************************************************************)
(* A browser that cannot stream a POST downloads its backup with a ticket: *)
(* issued to a session, good for one GET within a minute, and kept for a   *)
(* while after the download so that the page can ask how it ended.  The    *)
(* table lives in the process and is pruned by the requests that use it.   *)
(*                                                                         *)
(* `due` says that a ticket's minute, or the retention of its result, is   *)
(* over; the next request that locks the table acts on it.                 *)
(***************************************************************************)
EXTENDS FiniteSets, FiniteSetsExt, Functions, Integers

CONSTANTS
    TicketScenarios,    \* [userOf: the account of each session, issues, busy: other operations, restarts]
    MaxTickets,         \* maxDownloadTickets
    MaxActive           \* maxActiveDownloadTicketsPerUser

ASSUME TicketsAssumption ==
    /\ MaxTickets \in Nat \ {0} /\ MaxActive \in Nat \ {0}
    /\ \A d \in TicketScenarios : d.issues \in Nat

VARIABLES
    desk,         \* the scenario
    tickets,      \* id -> [session, state, due, at: finishedAt, as the order in which they finished]
    getter,       \* GET /download of each ticket: "none", "admit", "stream"
    archiveSlot,  \* who is inside an archive operation: ids, or "other"
    exports,      \* history: how often each id ever issued started an export
    left          \* remaining issues, other operations and restarts

ticketVars == <<desk, tickets, getter, archiveSlot, exports, left>>

TicketIds == 1..desk.issues
Sessions == DOMAIN desk.userOf

TicketInit ==
    /\ desk \in TicketScenarios
    /\ tickets = <<>> /\ archiveSlot = {}
    /\ getter = [id \in TicketIds |-> "none"]
    /\ exports = [id \in TicketIds |-> 0]
    /\ left = [issues |-> desk.issues, busy |-> desk.busy, restarts |-> desk.restarts]

Use(what) == left[what] > 0 /\ left' = [left EXCEPT ![what] = @ - 1]

-----------------------------------------------------------------------------
(* The table's operations *)

Drop(ids, ts) == Restrict(ts, DOMAIN ts \ ids)
Now(ts) == 1 + Max({0} \cup {ts[i].at : i \in DOMAIN ts})
Finished(ts) == {id \in DOMAIN ts : ts[id].state = "finished"}

\* Complete or failed: the result of a ticket that has none yet.
EndTickets(ids, ts) ==
    [id \in DOMAIN ts |-> IF id \in ids \ Finished(ts)
                          THEN [ts[id] EXCEPT !.state = "finished", !.due = FALSE, !.at = Now(ts)]
                          ELSE ts[id]]

TicketDue(state) == {id \in DOMAIN tickets : tickets[id].due /\ tickets[id].state = state}

\* Results past their retention go; pending tickets past their minute fail, all at the same time.
cleanupLocked == EndTickets(TicketDue("pending"), Drop(TicketDue("finished"), tickets))

\* A result that finished first makes room: one is enough, for the table is never over its size.
evictFinishedLocked(ts) ==
    IF Cardinality(DOMAIN ts) < MaxTickets \/ Finished(ts) = {} THEN {ts}
    ELSE {Drop({id}, ts) : id \in {i \in Finished(ts) : \A j \in Finished(ts) : ts[i].at <= ts[j].at}}

Active(ts, u) == {id \in DOMAIN ts \ Finished(ts) : desk.userOf[ts[id].session] = u}
Unused(ts, s) == {id \in DOMAIN ts : ts[id].session = s /\ ts[id].state = "pending"}

\* A session's unused ticket gives way to its next one.
issue(s) ==
    LET id   == desk.issues - left.issues + 1
        mine == Drop(Unused(cleanupLocked, s), cleanupLocked)
        new  == [session |-> s, state |-> "pending", due |-> FALSE, at |-> 0]
    IN  /\ Use("issues")
        /\ IF Cardinality(Active(mine, desk.userOf[s])) >= MaxActive THEN tickets' = mine
           ELSE \E room \in evictFinishedLocked(mine) :
                    tickets' = IF Cardinality(DOMAIN room) >= MaxTickets THEN room
                               ELSE [i \in DOMAIN room \cup {id} |-> IF i = id THEN new ELSE room[i]]
        /\ UNCHANGED <<desk, getter, archiveSlot, exports>>

\* Mutant: a ticket is good for its minute, used or not.
consumeAgain(id, s) ==
    LET clean == cleanupLocked
        valid == id \in DOMAIN clean /\ getter[id] = "none" /\ clean[id].session = s
    IN  /\ id \in DOMAIN tickets
        /\ tickets' = IF valid THEN [clean EXCEPT ![id].state = "running"] ELSE clean
        /\ getter' = [getter EXCEPT ![id] = IF valid THEN "admit" ELSE @]
        /\ UNCHANGED <<desk, archiveSlot, exports, left>>

\* GET /download: the session the ticket was issued to, once, within the minute.
consume(id, s) ==
    LET clean == cleanupLocked
        valid == id \in DOMAIN clean /\ clean[id].state = "pending" /\ clean[id].session = s
    IN  /\ id \in DOMAIN tickets
        /\ tickets' = IF valid THEN [clean EXCEPT ![id].state = "running"] ELSE clean
        /\ getter' = [getter EXCEPT ![id] = IF valid THEN "admit" ELSE @]
        /\ UNCHANGED <<desk, archiveSlot, exports, left>>

\* Polling the result prunes the table as well.
status ==
    /\ DOMAIN tickets # {}
    /\ tickets' = cleanupLocked
    /\ UNCHANGED <<desk, getter, archiveSlot, exports, left>>

-----------------------------------------------------------------------------
(* The handlers *)

\* The one archive slot, or backup_busy: the ticket is spent either way.
admitDownload(id) ==
    /\ getter[id] = "admit"
    /\ IF archiveSlot = {}
       THEN /\ archiveSlot' = {id}
            /\ getter' = [getter EXCEPT ![id] = "stream"]
            /\ exports' = [exports EXCEPT ![id] = @ + 1]
            /\ UNCHANGED tickets
       ELSE /\ tickets' = EndTickets({id}, tickets)
            /\ getter' = [getter EXCEPT ![id] = "none"]
            /\ UNCHANGED <<archiveSlot, exports>>
    /\ UNCHANGED <<desk, left>>

\* Complete, or failed: an export that fails or panics runs the deferred fail and release.
download(id) ==
    /\ getter[id] = "stream"
    /\ tickets' = EndTickets({id}, tickets)
    /\ archiveSlot' = archiveSlot \ {id}
    /\ getter' = [getter EXCEPT ![id] = "none"]
    /\ UNCHANGED <<desk, exports, left>>

\* POST /backup, /validate and /restore use the same slot.
otherArchive ==
    /\ \/ archiveSlot = {} /\ Use("busy") /\ archiveSlot' = {0}
       \/ archiveSlot = {0} /\ archiveSlot' = {} /\ UNCHANGED left
    /\ UNCHANGED <<desk, tickets, getter, exports>>

elapse(id) ==
    /\ id \in DOMAIN tickets /\ tickets[id].state \in {"pending", "finished"} /\ ~tickets[id].due
    /\ tickets' = [tickets EXCEPT ![id].due = TRUE]
    /\ UNCHANGED <<desk, getter, archiveSlot, exports, left>>

restart ==
    /\ Use("restarts")
    /\ tickets' = <<>> /\ archiveSlot' = {}
    /\ getter' = [id \in TicketIds |-> "none"]
    /\ UNCHANGED <<desk, exports>>

TicketsNext ==
    \/ \E s \in Sessions : issue(s)
    \/ \E id \in TicketIds : \/ \E s \in Sessions : consume(id, s)
                             \/ admitDownload(id) \/ download(id) \/ elapse(id)
    \/ status \/ otherArchive \/ restart

TicketSpec == TicketInit /\ [][TicketsNext]_ticketVars

-----------------------------------------------------------------------------
(* Properties *)

\* One export per ticket: a GET repeated by the browser, by another session or after a restart
\* starts none.
DownloadOnce == \A id \in TicketIds : exports[id] <= 1

\* The table tells the truth: a ticket is running exactly while its download is, so that a busy
\* slot, an expiry, an eviction or a new ticket never leaves one running or takes a running one
\* away, and each account's downloads under way stay under its limit.
RunningHasHandler ==
    /\ \A id \in TicketIds :
          (getter[id] # "none") <=> (id \in DOMAIN tickets /\ tickets[id].state = "running")
    /\ \A u \in Range(desk.userOf) : Cardinality(Active(tickets, u)) <= MaxActive
    /\ Cardinality(DOMAIN tickets) <= MaxTickets

\* A ticket starts one export, and the table agrees with the handlers.
TicketsSound == DownloadOnce /\ RunningHasHandler
=============================================================================

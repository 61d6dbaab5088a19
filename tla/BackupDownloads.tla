---------------------------- MODULE BackupDownloads ----------------------------
(***************************************************************************)
(* An administrator downloads a backup artifact.  The backend charges the  *)
(* account's budget for the artifact, asks the agent to stream it over the *)
(* bridge and refunds the charge only if the agent gave it nothing.  The   *)
(* agent admits a bounded number of streams.                               *)
(*                                                                         *)
(* The count and the insert of a reservation are two statements of a       *)
(* READ COMMITTED transaction; an advisory lock on (run, user, key) orders *)
(* them.  Requests are for one artifact.                                   *)
(***************************************************************************)
EXTENDS FiniteSets, Integers

CONSTANTS
    InstanceOwner,      \* its account
    DownloadScenarios,  \* [asks: the account of each request, keyOf: the account whose archive the
                        \*  artifact is, or none: an artifact of the instance]
    MaxDownloadsPerAdmin, MaxConcurrentArtifacts

ASSUME DownloadsAssumption ==
    MaxDownloadsPerAdmin \in Nat \ {0} /\ MaxConcurrentArtifacts \in Nat \ {0}

VARIABLES
    ask,         \* the scenario
    charges,     \* backup_download: request -> whether bytes_sent is set
    request,     \* the backend's handler for each request
    bridge,      \* the agent's handler for each request: "none", "open", "stream"
    slots,       \* requests that hold one of artifactSlots
    sent         \* history: requests some of whose bytes reached the client

downloadVars == <<ask, charges, request, bridge, slots, sent>>

Requests == DOMAIN ask.asks

DownloadInit ==
    /\ ask \in DownloadScenarios
    /\ charges = [r \in {} |-> FALSE]
    /\ request = [r \in Requests |-> "new"]
    /\ bridge = [r \in Requests |-> "none"]
    /\ slots = {} /\ sent = {}

ReqStep(r, from, to) == request[r] = from /\ request' = [request EXCEPT ![r] = to]

\* The owner of the instance, or the account an archive of a user belongs to.
mayDownload(u) == u = InstanceOwner \/ u \in ask.keyOf

downloadableKey(r) ==
    /\ ReqStep(r, "new", IF mayDownload(ask.asks[r]) THEN "lock" ELSE "refused")
    /\ UNCHANGED <<ask, charges, bridge, slots, sent>>

-----------------------------------------------------------------------------
(* ReserveDownload *)

Locked(u) == \E r \in Requests : ask.asks[r] = u /\ request[r] \in {"count", "insert"}

ReserveUnlocked(r) ==
    /\ ReqStep(r, "lock", "count")
    /\ UNCHANGED <<ask, charges, bridge, slots, sent>>

ReserveDownload(r) ==
    /\ ~Locked(ask.asks[r])
    /\ ReqStep(r, "lock", "count")
    /\ UNCHANGED <<ask, charges, bridge, slots, sent>>

Charged(u) == {r \in DOMAIN charges : ask.asks[r] = u}

ReserveCount(r) ==
    /\ request[r] = "count"
    /\ request' = [request EXCEPT ![r] =
                     IF Cardinality(Charged(ask.asks[r])) >= MaxDownloadsPerAdmin THEN "spent" ELSE "insert"]
    /\ UNCHANGED <<ask, charges, bridge, slots, sent>>

\* The row and the end of the lock come with the commit.
ReserveInsert(r) ==
    /\ ReqStep(r, "insert", "ask")
    /\ charges' = [q \in DOMAIN charges \cup {r} |-> IF q = r THEN FALSE ELSE charges[q]]
    /\ UNCHANGED <<ask, bridge, slots, sent>>

\* The transaction fails and rolls back.
ReserveFails(r) ==
    /\ request[r] \in {"count", "insert"}
    /\ request' = [request EXCEPT ![r] = "failed"]
    /\ UNCHANGED <<ask, charges, bridge, slots, sent>>

-----------------------------------------------------------------------------
(* The bridge: ArtifactClient.Open and the agent's serveArtifact *)

Ask(r) ==
    /\ ReqStep(r, "ask", "asked")
    /\ \/ /\ Cardinality(slots) < MaxConcurrentArtifacts
          /\ slots' = slots \cup {r}
          /\ bridge' = [bridge EXCEPT ![r] = "open"]
       \/ /\ Cardinality(slots) = MaxConcurrentArtifacts
          /\ bridge' = [bridge EXCEPT ![r] = "refused"]
          /\ UNCHANGED slots
    /\ UNCHANGED <<ask, charges, sent>>

OpenFailsHoldingSlot(r) ==
    /\ bridge[r] = "open"
    /\ bridge' = [bridge EXCEPT ![r] = "refused"]
    /\ UNCHANGED <<ask, charges, request, slots, sent>>

\* The object or its key is missing; the deferred release returns the slot.
OpenFails(r) ==
    /\ bridge[r] = "open"
    /\ bridge' = [bridge EXCEPT ![r] = "refused"]
    /\ slots' = slots \ {r}
    /\ UNCHANGED <<ask, charges, request, sent>>

\* The answer's header; reEncrypt streams the rest.
serveArtifact(r) ==
    /\ bridge[r] = "open"
    /\ bridge' = [bridge EXCEPT ![r] = "stream"]
    /\ UNCHANGED <<ask, charges, request, slots, sent>>

\* Complete or cut short: the backend has gone, or the store fails.
StreamEnds(r) ==
    /\ bridge[r] = "stream"
    /\ bridge' = [bridge EXCEPT ![r] = "ended"]
    /\ slots' = slots \ {r}
    /\ UNCHANGED <<ask, charges, request, sent>>

-----------------------------------------------------------------------------
\* The bridge refuses, or the connection breaks before its header arrives: a refund.
OpenRefused(r) ==
    /\ ReqStep(r, "asked", "release")
    /\ UNCHANGED <<ask, charges, bridge, slots, sent>>

ReleaseDownload(r) ==
    /\ ReqStep(r, "release", "failed")
    /\ charges' = [q \in DOMAIN charges \ (IF charges[r] THEN {} ELSE {r}) |-> charges[q]]
    /\ UNCHANGED <<ask, bridge, slots, sent>>

streamDownload(r) ==
    /\ bridge[r] \in {"stream", "ended"}
    /\ ReqStep(r, "asked", "copy")
    /\ sent' = sent \cup {r}
    /\ UNCHANGED <<ask, charges, bridge, slots>>

CompleteDownload(r) ==
    /\ bridge[r] = "ended"
    /\ ReqStep(r, "copy", "done")
    /\ charges' = [charges EXCEPT ![r] = TRUE]
    /\ UNCHANGED <<ask, bridge, slots, sent>>

\* The backend dies, or the write of the trail or of the refund fails: the charge stays.
BackendFails(r) ==
    /\ request[r] \in {"ask", "asked", "release", "copy"}
    /\ request' = [request EXCEPT ![r] = "failed"]
    /\ UNCHANGED <<ask, charges, bridge, slots, sent>>

-----------------------------------------------------------------------------
Backend(r) == downloadableKey(r) \/ ReserveDownload(r) \/ ReserveCount(r) \/ ReserveInsert(r)
                \/ Ask(r) \/ OpenRefused(r) \/ ReleaseDownload(r) \/ streamDownload(r) \/ CompleteDownload(r)
BridgeStep(r) == OpenFails(r) \/ serveArtifact(r) \/ StreamEnds(r)

DownloadNext == \E r \in Requests :
    Backend(r) \/ BridgeStep(r) \/ ReserveFails(r) \/ BackendFails(r)

\* Every open has its timeouts, and a stream ends at the latest with the backend's connection.
DownloadFairness == \A r \in UNION {DOMAIN s.asks : s \in DownloadScenarios} :
    /\ WF_downloadVars(r \in Requests /\ Backend(r))
    /\ WF_downloadVars(r \in Requests /\ BridgeStep(r))

DownloadSpec == DownloadInit /\ [][DownloadNext]_downloadVars /\ DownloadFairness

-----------------------------------------------------------------------------
(* Properties *)

\* Bytes of an artifact leave the instance at most MaxDownloadsPerAdmin times per account, in
\* whatever order parallel requests count, insert, are refunded or die.
BytesBudget ==
    \A u \in {ask.asks[r] : r \in Requests} :
        Cardinality({r \in sent : ask.asks[r] = u}) <= MaxDownloadsPerAdmin

\* Every slot of the agent comes back, whichever way an open, a stream or the backend fails.
SlotsReturn == <>[](slots = {})
===============================================================================

------------------------------ MODULE NoteMedia ------------------------------
(***************************************************************************)
(* The images of notes: who may keep an object and who may delete it.      *)
(*                                                                         *)
(* A row of note_media owns an object of the store under a lease; a row of *)
(* note_media_ref claims it for a note, which ends the lease.  Dropping    *)
(* the last claim starts a lease that has already expired, and objects of  *)
(* expired leases are deleted: at once by the request that released them,  *)
(* later by the sweeper.  The store is no part of a transaction.           *)
(*                                                                         *)
(* Transactions run READ COMMITTED and are taken apart into statements.  A *)
(* statement that updates or locks rows reads its snapshot in one step     *)
(* (scan) and takes its row locks in a later one, where PostgreSQL         *)
(* rechecks the row itself but the rest of the condition, here the claims, *)
(* only as the snapshot saw it.  Nothing a transaction wrote is seen       *)
(* before its commit, and any transaction may fail at any statement.       *)
(*                                                                         *)
(* One account: every statement is scoped to the owner of the rows.        *)
(***************************************************************************)
EXTENDS FiniteSets, Functions

CONSTANTS
    Key,        \* object keys, each uploaded once
    Notes,
    Sessions,   \* requests
    Sweeper,    \* the sweeper's transactions
    BatchMax,   \* DeleteBatchMax
    MediaScenarios   \* [keys, folder, bodies, live, ops]: what is uploaded, where notes are, the
                     \* bodies a note may get, the notes there are at first, what requests do

ASSUME MediaAssumption ==
    /\ Sweeper \notin Sessions
    /\ \A s \in MediaScenarios :
        s.live \subseteq Notes /\ DOMAIN s.folder = Notes /\ DOMAIN s.bodies = Notes

VARIABLES
    plan,     \* the scenario
    notes,    \* "new", "live" or "gone"
    lease,    \* note_media: the lease of each key that has a row: none, running, expired
    refs,     \* note_media_ref: <<note, key>>
    store,    \* keys whose object exists
    upload,   \* what became of the upload of each key
    tx,       \* the transaction of each session
    spoiled   \* history: keys whose object was deleted, or put, by a call that then failed

mediaVars == <<plan, notes, lease, refs, store, upload, tx, spoiled>>

Process == Sessions \cup {Sweeper}
NoKeys  == [k \in {} |-> "none"]
NoTx    == [pc |-> "idle", op |-> "none", ns |-> {}, body |-> {}, own |-> {}, rel |-> {},
            scan |-> {}, lease |-> NoKeys, cand |-> {}]

Open(p)     == tx[p].pc # "idle"
At(p, pc)   == tx[p].pc = pc
Set(p, t)   == tx' = [tx EXCEPT ![p] = t]
\* A statement that writes what only p sees until it commits.
Private(p, t) == Set(p, t) /\ UNCHANGED <<plan, notes, lease, refs, store, upload, spoiled>>

Rows == DOMAIN lease

\* The claims a statement of p sees: what is committed, and p's own writes.
View(p) == {r \in refs : r[1] \notin tx[p].ns} \cup tx[p].own
Claimed(claims, k) == \E r \in claims : r[2] = k

Wiping(p) == tx[p].pc \in {"deleteObjects", "deleteRows"}

\* Row locks another transaction holds: FOR UPDATE, that of an update, and the
\* FOR KEY SHARE of a new claim's foreign key.
ForUpdate(p, k) == \E q \in Process \ {p} : Wiping(q) /\ k \in tx[q].scan
Updated(p, k)   == \E q \in Process \ {p} : k \in DOMAIN tx[q].lease
KeyShared(p, k) == \E q \in Process \ {p} : \E n \in Notes :
                        <<n, k>> \in tx[q].own \ refs
Writable(p, k)  == ~ForUpdate(p, k) /\ ~Updated(p, k)
Lockable(p, k)  == Writable(p, k) /\ ~KeyShared(p, k)

MediaInit ==
    /\ plan \in MediaScenarios
    /\ notes = [n \in Notes |-> IF n \in plan.live THEN "live" ELSE "new"]
    /\ lease = NoKeys /\ refs = {} /\ store = {} /\ spoiled = {}
    /\ upload = [k \in Key |-> "new"]
    /\ tx = [p \in Process |-> NoTx]

-----------------------------------------------------------------------------
(* Upload: the lease is registered before the object is put, and forgotten *)
(* when the put fails.                                                      *)

UploadStep(k, from, to) ==
    /\ upload[k] = from
    /\ upload' = [upload EXCEPT ![k] = to]
    /\ UNCHANGED <<plan, notes, refs, tx>>

RegisterLease(k) ==
    /\ k \in plan.keys
    /\ UploadStep(k, "new", "put")
    /\ lease' = [j \in Rows \cup {k} |-> IF j = k THEN "running" ELSE lease[j]]
    /\ UNCHANGED <<store, spoiled>>

Upload(k) ==
    /\ UploadStep(k, "put", "done")
    /\ store' = store \cup {k}
    /\ UNCHANGED <<lease, spoiled>>

\* The store answers with an error, whether or not it kept the object.
UploadFails(k) ==
    /\ UploadStep(k, "put", "forget")
    /\ \/ UNCHANGED <<store, spoiled>>
       \/ store' = store \cup {k} /\ spoiled' = spoiled \cup {k}
    /\ UNCHANGED lease

ForgetLease(k) ==
    /\ UploadStep(k, "forget", "failed")
    /\ ~Claimed(refs, k)
    /\ lease' = Restrict(lease, Rows \ {k})
    /\ UNCHANGED <<store, spoiled>>

\* The request dies; what it put it does not answer for.
UploadCut(k) ==
    /\ \/ UploadStep(k, "put", "failed")
       \/ UploadStep(k, "forget", "failed")
    /\ UNCHANGED <<lease, store, spoiled>>

\* LeaseTTL passes; an upload in flight takes less.
LeaseExpires(k) ==
    /\ k \in Rows /\ lease[k] = "running"
    /\ upload[k] \notin {"put", "forget"}
    /\ lease' = [lease EXCEPT ![k] = "expired"]
    /\ UNCHANGED <<plan, notes, refs, store, upload, tx, spoiled>>

-----------------------------------------------------------------------------
(* A request that changes notes.  The gate locks the note's folder and the *)
(* note; a create inserts its row and locks neither.                       *)

Held(p, n) == \E q \in Process \ {p} : n \in tx[q].ns
FolderHeld(p, n) ==
    /\ plan.folder[n] # "root"
    /\ \E q \in Process \ {p} : \E m \in tx[q].ns :
        plan.folder[m] = plan.folder[n] /\ notes[m] = "live"
Gated(p, n) == ~Held(p, n) /\ ~FolderHeld(p, n)

Known == {k \in Key : upload[k] = "done"}

\* The first statement of a save, delete or cascade: the claims of ns outside body go.  The
\* trigger on that delete takes its snapshot.
ReleaseRefs(p, op, ns, body) ==
    LET own  == {r \in refs : r[1] \in ns}
        gone == {r \in own : r[2] \notin body}
        rel  == {r[2] : r \in gone}
    IN  /\ op \in plan.ops /\ ~Open(p)
        /\ Private(p, [NoTx EXCEPT !.pc = "trigger", !.op = op, !.ns = ns, !.body = body,
                         !.own = own \ gone, !.rel = rel,
                         !.scan = {k \in rel : ~Claimed(refs \ gone, k)}])

Body(n) == {b \in plan.bodies[n] : b \subseteq Known}

Create(p, n) ==
    /\ notes[n] = "new" /\ ~Held(p, n)
    /\ \E b \in Body(n) : ReleaseRefs(p, "create", {n}, b)

Update(p, n) ==
    /\ notes[n] = "live" /\ Gated(p, n)
    /\ \E b \in Body(n) : ReleaseRefs(p, "update", {n}, b)

Delete(p, n) ==
    /\ notes[n] = "live" /\ Gated(p, n)
    /\ ReleaseRefs(p, "delete", {n}, {})

\* The cascade locks the folder FOR UPDATE, and so every note in it.
ReleaseFolderSubtreeRefs(p, f) ==
    LET ns == {n \in Notes : plan.folder[n] = f /\ notes[n] = "live"}
    IN  /\ f # "root" /\ ns # {}
        /\ \A n \in ns : Gated(p, n)
        /\ ReleaseRefs(p, "cascade", ns, {})

\* An update of the rows of keys to the lease l, once their locks are free.
Relet(p, keys, l, t) ==
    /\ \A k \in keys \cap Rows : Writable(p, k)
    /\ Private(p, [t EXCEPT !.scan = {},
                     !.lease = [k \in DOMAIN @ \cup (keys \cap Rows) |->
                                    IF k \in keys THEN l ELSE @[k]]])

Saves(p) == tx[p].op \in {"create", "update"}

release_deleted_note_media_refs(p) ==
    /\ At(p, "trigger")
    /\ Relet(p, tx[p].scan, "expired",
             [tx[p] EXCEPT !.pc = IF Saves(p) THEN "insert" ELSE "scan"])

\* Claims for the keys of the body that have a row, which their foreign key locks.
InsertRefs(p) ==
    LET keys == tx[p].body \cap Rows
    IN  /\ At(p, "insert")
        /\ \A k \in keys : ~ForUpdate(p, k)
        /\ Private(p, [tx[p] EXCEPT !.pc = "claim", !.own = @ \cup (tx[p].ns \X keys)])

ClaimRefs(p) ==
    /\ At(p, "claim")
    /\ Relet(p, {r[2] : r \in tx[p].own}, "none", [tx[p] EXCEPT !.pc = "scan"])

expireScan(p) ==
    /\ At(p, "scan")
    /\ Private(p, [tx[p] EXCEPT !.pc = "expire",
                     !.scan = {k \in tx[p].rel : ~Claimed(View(p), k)}])

\* The rows it returns are the candidates of the cleanup; a cascade leaves them to the sweeper.
expireReleased(p) ==
    /\ At(p, "expire")
    /\ Relet(p, tx[p].scan, "expired",
             [tx[p] EXCEPT !.pc = "commit",
                           !.cand = IF tx[p].op = "cascade" THEN {} ELSE tx[p].scan \cap Rows])

Commit(p) ==
    LET t == tx[p]
    IN  /\ At(p, "commit")
        /\ refs' = View(p)
        /\ lease' = [k \in Rows |-> IF k \in DOMAIN t.lease THEN t.lease[k] ELSE lease[k]]
        /\ notes' = [n \in Notes |-> IF n \notin t.ns THEN notes[n]
                                     ELSE IF Saves(p) THEN "live" ELSE "gone"]
        /\ Set(p, IF t.cand = {} THEN NoTx ELSE [NoTx EXCEPT !.pc = "cleanup", !.cand = t.cand])
        /\ UNCHANGED <<plan, store, upload, spoiled>>

-----------------------------------------------------------------------------
(* Deletion: DeleteOwnedUnreferenced after a commit, and the sweeper.       *)

\* The condition of the locking SELECT on the row itself, which is rechecked under the lock.
LeaseDue(p, k) ==
    /\ k \in Rows
    /\ lease[k] # "none"
    /\ p = Sweeper => lease[k] = "expired"

\* At most BatchMax of the candidates.
Batches(keys) == {b \in SUBSET keys :
                    Cardinality(b) = IF Cardinality(keys) < BatchMax THEN Cardinality(keys)
                                                                     ELSE BatchMax}

Scan(p, keys) ==
    LET due == {k \in keys : LeaseDue(p, k) /\ ~Claimed(refs, k)}
    IN  \E b \in Batches(due) : Private(p, [NoTx EXCEPT !.pc = "lock", !.scan = b])

DeleteOwnedUnreferenced(p) == At(p, "cleanup") /\ Scan(p, tx[p].cand)

SystemSweepStored(p) ==
    /\ p = Sweeper /\ ~Open(p)
    /\ \E k \in Rows : LeaseDue(p, k) /\ ~Claimed(refs, k) /\ k \in store
    /\ Scan(p, Rows \cap store)

SystemSweepExpired(p) ==
    /\ p = Sweeper /\ ~Open(p)
    /\ \E k \in Rows : LeaseDue(p, k) /\ ~Claimed(refs, k)
    /\ Scan(p, Rows)

LockRowsUnchecked(p) ==
    /\ At(p, "lock")
    /\ p # Sweeper => \A k \in tx[p].scan \cap Rows : Lockable(p, k)
    /\ LET keys == {k \in tx[p].scan \cap Rows : Lockable(p, k)}
       IN  Private(p, IF keys = {} THEN NoTx
                                   ELSE [tx[p] EXCEPT !.pc = "deleteObjects", !.scan = keys])

\* The sweeper skips locked rows, a cleanup waits for them.
LockRows(p) ==
    /\ At(p, "lock")
    /\ p # Sweeper => \A k \in tx[p].scan \cap Rows : Lockable(p, k)
    /\ LET keys == {k \in tx[p].scan : LeaseDue(p, k) /\ Lockable(p, k)}
       IN  Private(p, IF keys = {} THEN NoTx
                                   ELSE [tx[p] EXCEPT !.pc = "deleteObjects", !.scan = keys])

DeleteObjects(p) ==
    /\ At(p, "deleteObjects")
    /\ store' = store \ tx[p].scan
    /\ Set(p, [tx[p] EXCEPT !.pc = "deleteRows"])
    /\ UNCHANGED <<plan, notes, lease, refs, upload, spoiled>>

DeleteObjectsFailsUnseen(p) ==
    /\ At(p, "deleteObjects")
    /\ \E lost \in SUBSET tx[p].scan : store' = store \ lost
    /\ Set(p, [tx[p] EXCEPT !.pc = "deleteRows"])
    /\ UNCHANGED <<plan, notes, lease, refs, upload, spoiled>>

\* Some objects of the batch are gone, the call fails and no row is deleted.
DeleteObjectsFails(p) ==
    /\ At(p, "deleteObjects")
    /\ \E lost \in SUBSET tx[p].scan :
        /\ store' = store \ lost
        /\ spoiled' = spoiled \cup lost
    /\ Set(p, NoTx)
    /\ UNCHANGED <<plan, notes, lease, refs, upload>>

DeleteRows(p) ==
    /\ At(p, "deleteRows")
    /\ lease' = Restrict(lease, {k \in Rows : k \notin tx[p].scan \/ Claimed(refs, k)})
    /\ Set(p, NoTx)
    /\ UNCHANGED <<plan, notes, refs, store, upload, spoiled>>

\* An error, a timeout, a deadlock or a crash: the transaction is rolled back, the store is not.
Rollback(p) ==
    /\ Open(p)
    /\ spoiled' = spoiled \cup (IF At(p, "deleteRows") THEN tx[p].scan ELSE {})
    /\ Set(p, NoTx)
    /\ UNCHANGED <<plan, notes, lease, refs, store, upload>>

-----------------------------------------------------------------------------
UploadNext(k) ==
    \/ RegisterLease(k) \/ Upload(k) \/ UploadFails(k) \/ ForgetLease(k) \/ UploadCut(k)
    \/ LeaseExpires(k)

Statement(p) ==
    \/ release_deleted_note_media_refs(p) \/ InsertRefs(p) \/ ClaimRefs(p)
    \/ expireScan(p) \/ expireReleased(p) \/ Commit(p)
    \/ DeleteOwnedUnreferenced(p) \/ LockRows(p) \/ DeleteRows(p)

SaveOrDelete(p) ==
    \/ \E n \in Notes : Create(p, n) \/ Update(p, n) \/ Delete(p, n)
    \/ \E f \in {plan.folder[n] : n \in Notes} : ReleaseFolderSubtreeRefs(p, f)

MediaNext ==
    \/ \E k \in Key : UploadNext(k)
    \/ \E p \in Sessions : SaveOrDelete(p)
    \/ \E p \in Process :
        \/ Statement(p)
        \/ SystemSweepExpired(p)
        \/ DeleteObjects(p) \/ DeleteObjectsFails(p) \/ Rollback(p)

\* The sweeper's ticker goes on and its statements are executed; an upload and a transaction that
\* nobody finishes are cut.  Requests are under no obligation but to end.
MediaFairness ==
    /\ \A k \in Key : WF_mediaVars(LeaseExpires(k)) /\ WF_mediaVars(UploadCut(k))
    /\ \A p \in Process : WF_mediaVars(Statement(p)) /\ WF_mediaVars(Rollback(p))
    /\ WF_mediaVars(SystemSweepExpired(Sweeper)) /\ WF_mediaVars(DeleteObjects(Sweeper))

MediaSpec == MediaInit /\ [][MediaNext]_mediaVars /\ MediaFairness

-----------------------------------------------------------------------------
\* A claimed object exists: no cleanup deletes what a concurrent save claims, unless the call
\* that deleted it failed and left the row (notemedia/repository.go:195).  Where two notes share
\* an image and no folder's lock orders their saves it can fail (MCWorkers_shared).
ClaimedObjectExists == \A r \in refs : r[2] \in store \cup spoiled

\* Every object of the store has an owner's row through which it can be swept, unless a put
\* that failed kept it: the row is registered first and deleted last.
StoredIsOwned == store \subseteq Rows \cup spoiled

\* While no transaction is open, an unclaimed row has a lease to run out (INV-106).  It does not
\* hold of two notes outside any folder that release a shared key together (README, section 3).
UnclaimedHasLease ==
    (\A p \in Process : ~Open(p)) => \A k \in Rows : lease[k] = "none" => Claimed(refs, k)

\* Once no request touches notes any more and the store and the database obey the sweeper,
\* unclaimed media is at last removed, whatever was cut or failed before: a lease ends, and the
\* sweeper comes back for what an earlier pass left.
SweeperFails == Rollback(Sweeper) \/ DeleteObjectsFails(Sweeper)
Swept ==
    <>[](\A p \in Sessions : ~Open(p)) /\ <>[][~SweeperFails]_mediaVars =>
        \A k \in Key : []<>(k \in Rows => Claimed(refs, k))

\* No claim without its object, no object without its row.
MediaSound == ClaimedObjectExists /\ StoredIsOwned
=============================================================================

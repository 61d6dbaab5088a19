----------------------------- MODULE BackupRestore -----------------------------
(***************************************************************************)
(* An account exports its content as a ZIP and restores one.               *)
(*                                                                         *)
(* A restore changes the database in one transaction and writes the        *)
(* objects after its commit, so a failure in between leaves rows without   *)
(* objects.  In skip mode a ledger, committed with the rows, remembers how *)
(* the archive's ids were mapped and lets the same archive be restored     *)
(* again: the second restore writes the objects and no row.                *)
(*                                                                         *)
(* A backend admits one archive operation at a time; an advisory lock held *)
(* for the transaction keeps two backends' transactions apart, and nothing *)
(* keeps their object writes apart.  The module follows one account and    *)
(* one archive.  Link objects are named after the link's id, note objects  *)
(* after a fresh UUID; an id nothing in the system names any more stands   *)
(* for a new one.                                                          *)
(***************************************************************************)
EXTENDS FiniteSets, FiniteSetsExt, Functions, Integers, Sequences

CONSTANTS
    Backends,
    RestoreScenarios,   \* [archive, live, modes, backends, edits, faults, others: see RestoreInit]
    SlugAttempts,       \* maxRestoreSlugAttempts
    MaxEntries          \* maxArchiveEntries

\* An archive is finite, its ids and keys are numbers, and each id and each url has one link.
ASSUME RestoreAssumption ==
    /\ SlugAttempts \in Nat \ {0} /\ MaxEntries \in Nat /\ MaxEntries > 2 /\ IsFiniteSet(Backends)
    /\ \A s \in RestoreScenarios :
          /\ IsFiniteSet(s.archive.links) /\ IsFiniteSet(s.archive.notes) /\ IsFiniteSet(s.archive.files)
          /\ IsFiniteSet(DOMAIN s.live)
          /\ \A l \in s.archive.links : l.id \in Int
          /\ \A n \in s.archive.notes : n.key \in Int
          /\ \A l, k \in s.archive.links : l.id = k.id \/ l.url = k.url => l = k

VARIABLES
    rest,         \* the scenario
    links,        \* link rows [id, url, img: the id its og_image_url names, via: who inserted it]
    notes,        \* note rows [key: the media its body shows, via]
    media,        \* note_media: note object keys the account owns
    tree,         \* the parents of the folders the last restore inserted
    objects,      \* keys in the object store
    ledger,       \* backup_restore of this archive in skip mode
    op,           \* the archive operation of each backend
    restoreLock,  \* backends whose transaction holds RestoreAdvisoryLockKey
    exported,     \* archives Export finished
    budget        \* remaining edits of the user, faults, restores that are not in skip mode

restoreVars == <<rest, links, notes, media, tree, objects, ledger, op, restoreLock, exported, budget>>

Key(kind, id) == [kind |-> kind, id |-> id]
NoLedger == [found |-> FALSE, complete |-> FALSE, linkMap |-> <<>>, noteFiles |-> <<>>]
Idle == [pc |-> "idle", mode |-> "none", attempt |-> 0, linkMap |-> <<>>, noteFiles |-> <<>>,
         inserted |-> {}, owned |-> {}, pending |-> {}, raced |-> FALSE, rows |-> {}]

\* archive: links [id, url], notes [id, key], folders (a sequence of [id, parent], 0 for none),
\* files (the keys of the entries under files/), sums (the keys manifest.checksums lists).
archive == rest.archive

RestoreInit ==
    /\ rest \in RestoreScenarios
    /\ links = {[id |-> i, url |-> rest.live[i].url, img |-> i, via |-> "user"] : i \in DOMAIN rest.live}
    /\ objects = {Key("link", i) : i \in {j \in DOMAIN rest.live : rest.live[j].img}}
    /\ notes = {} /\ media = {} /\ tree = <<>> /\ exported = {} /\ restoreLock = {}
    /\ ledger = NoLedger
    /\ op = [b \in Backends |-> Idle]
    /\ budget = [edits |-> rest.edits, faults |-> rest.faults, others |-> rest.others]

\* Ids and keys somebody still names.
UsedIds ==
    {l.id : l \in links} \cup {l.img : l \in links} \cup media \cup {k.id : k \in objects}
    \cup Range(ledger.linkMap) \cup Range(ledger.noteFiles)
    \cup UNION {Range(op[b].linkMap) \cup Range(op[b].noteFiles) \cup {k.id : k \in op[b].owned \cup op[b].pending}
                : b \in Backends}

\* Ids from a sequence, or UUIDs, for the ids S of the archive: the n-th smallest gets the n-th free one.
Below(S, x) == Cardinality({y \in S : y < x})
reserveRestoreIDs(S) ==
    LET free == (1..(Cardinality(UsedIds) + Cardinality(S))) \ UsedIds
    IN  [s \in S |-> CHOOSE x \in free : Below(free, x) = Below(S, s)]

Spend(what) == budget[what] > 0 /\ budget' = [budget EXCEPT ![what] = @ - 1]
Go(b, next) == op' = [op EXCEPT ![b] = next]
At(b, pc) == op[b].pc = pc
Contents == <<links, notes, media, tree, ledger>>

-----------------------------------------------------------------------------
(* The archive: inspectBackupArchive accepts it or refuses it. *)

\* Every entry: the files, database.json and manifest.json.
inspectArchive(a) == Cardinality(a.files) + 2 <= MaxEntries

manifestChecksumErrors(a) == a.files # a.sums
missingNoteMediaErrors(a) == \E n \in a.notes : Key("note", n.key) \notin a.files
inspectBackupArchive(a) == inspectArchive(a) /\ ~manifestChecksumErrors(a) /\ ~missingNoteMediaErrors(a)
-----------------------------------------------------------------------------
(* Folders: the archive's parents, without the ones that are missing, that *)
(* belong to a repeated row or that close a cycle.                         *)

FirstRow(fs, i) == \A j \in 1..(i - 1) : fs[j].id # fs[i].id
indexRestoreFolders(fs) == {i \in DOMAIN fs : FirstRow(fs, i)}
ParentRow(fs, i) == {j \in indexRestoreFolders(fs) : fs[j].id = fs[i].parent}
buildRestoreAdjacency(fs) == {i \in indexRestoreFolders(fs) : ParentRow(fs, i) # {}}

\* Rows whose parent is known once the rows outside `pending` are: the queue, a round at a time.
drainRestoreParents(fs, pending) ==
    LET Round(n, known) == known \cup {i \in pending : ParentRow(fs, i) \cap known # {}}
    IN  FoldSet(Round, DOMAIN fs \ pending, DOMAIN fs)

\* The rows a walk over pending parents from `start` comes back to: after one step per row it is
\* inside the cycle, and one more step per row goes around it.
restoreCycleSlice(fs, pending, start) ==
    LET Climb(n, rows) == UNION {ParentRow(fs, i) \cap pending : i \in rows}
        Around(n, rows) == rows \cup Climb(n, rows)
    IN  FoldSet(Around, FoldSet(Climb, {start}, DOMAIN fs), DOMAIN fs)

\* Mutant: everything still pending is cut, the folders under a cycle with it.
nilPendingMembers(fs, pending) == pending

nilRestoreCycleMembers(fs, pending) == UNION {restoreCycleSlice(fs, pending, i) : i \in pending}

\* The rows whose parents survive: the ones drained, and the ones drained once the cycles are cut.
normalizeRestoreFolderParents(fs) ==
    \E pending \in {buildRestoreAdjacency(fs)} :
    \E stuck \in {pending \ drainRestoreParents(fs, pending)} :
    \E cycles \in {nilRestoreCycleMembers(fs, stuck)} :
    \E placed \in {drainRestoreParents(fs, stuck \ cycles)} :
        tree' = [i \in DOMAIN fs |-> IF i \in (pending \cap placed) \ cycles THEN fs[i].parent ELSE 0]

-----------------------------------------------------------------------------
(* Restore *)

\* One export, validation or restore at a time in a backend: archiveSlots.
admitArchive(b) == b \in rest.backends /\ At(b, "idle")

\* POST /restore: a refused archive changes nothing.
restoreRequest(b, mode) ==
    /\ admitArchive(b) /\ mode \in rest.modes
    /\ inspectBackupArchive(archive)
    /\ IF mode = "skip" THEN UNCHANGED budget ELSE Spend("others")
    /\ Go(b, [Idle EXCEPT !.pc = "ledger", !.mode = mode])
    /\ UNCHANGED <<rest, Contents, objects, restoreLock, exported>>

\* Only a restore in skip mode has a ledger.
loadRestoreLedger(mode) == IF mode = "skip" THEN ledger ELSE NoLedger

\* A complete ledger leaves nothing to do.  The mapping of another says nothing of which links it
\* inserted: insertedLinks is not loaded.
resumeSkipRestore(r) ==
    IF ledger.complete THEN Idle
    ELSE [r EXCEPT !.pc = "plan", !.linkMap = ledger.linkMap, !.noteFiles = ledger.noteFiles,
                   !.inserted = Range(ledger.linkMap)]

\* Mutant: a ledger stands for a finished restore.
restoreOnlyOnce(b) ==
    /\ At(b, "ledger")
    /\ Go(b, IF op[b].mode = "skip" /\ ledger.found THEN Idle ELSE [op[b] EXCEPT !.pc = "prepare"])
    /\ UNCHANGED <<rest, Contents, objects, restoreLock, exported, budget>>

restoreFromLedger(b) ==
    /\ At(b, "ledger")
    /\ Go(b, IF ~loadRestoreLedger(op[b].mode).found THEN [op[b] EXCEPT !.pc = "prepare"]
             ELSE resumeSkipRestore(op[b]))
    /\ UNCHANGED <<rest, Contents, objects, restoreLock, exported, budget>>

prepareNoteMediaRestore(b) ==
    /\ At(b, "prepare")
    /\ Go(b, [op[b] EXCEPT !.pc = "begin", !.noteFiles = reserveRestoreIDs({n.key : n \in archive.notes})])
    /\ UNCHANGED <<rest, Contents, objects, restoreLock, exported, budget>>

\* The keys the account's rows name: of links of its own, and of the note media asked for.
userObjectKeys(noteKeys) ==
    {Key("link", l.img) : l \in {l \in links : \E o \in links : o.id = l.img}}
    \cup {Key("note", k) : k \in noteKeys}

\* Mutant: the owned objects are deleted where they are listed, before the commit.
wipeInsideTransaction(b) ==
    /\ At(b, "begin") /\ restoreLock = {}
    /\ ~(op[b].mode = "skip" /\ ledger.found)
    /\ restoreLock' = {b}
    /\ Go(b, [op[b] EXCEPT !.pc = "apply", !.raced = FALSE])
    /\ objects' = IF op[b].mode = "wipe" THEN objects \ userObjectKeys(media) ELSE objects
    /\ UNCHANGED <<rest, Contents, exported, budget>>

\* BEGIN, pg_try_advisory_xact_lock, the ledger once more, and what the transaction reads first.
applyRestoreTransaction(b) ==
    /\ At(b, "begin")
    /\ CASE restoreLock # {} -> Go(b, Idle) /\ UNCHANGED restoreLock
         [] restoreLock = {} /\ loadRestoreLedger(op[b].mode).found -> Go(b, resumeSkipRestore(op[b])) /\ UNCHANGED restoreLock
         [] OTHER ->
              /\ restoreLock' = {b}
              /\ Go(b, [op[b] EXCEPT !.pc = "apply", !.raced = FALSE,
                                     !.owned = IF op[b].mode = "wipe" THEN userObjectKeys(media) ELSE {}])
    /\ UNCHANGED <<rest, Contents, objects, exported, budget>>

\* Nothing of the account's is left after a wipe.
wipeUser(b, rows) == IF op[b].mode = "wipe" THEN {} ELSE rows

\* INSERT ... ON CONFLICT (user_id, url) DO NOTHING, with ids of its own.
restoreConflictLinks(b, ids) ==
    {[id |-> ids[l.id], url |-> l.url, img |-> l.id, via |-> op[b].mode]
     : l \in {l \in archive.links : \A live \in wipeUser(b, links) : live.url # l.url}}

\* The live row of each archived link's url.
loadStagedIDMapping(rows) ==
    [s \in {l.id : l \in archive.links} |->
        (CHOOSE live \in rows : \E l \in archive.links : l.id = s /\ l.url = live.url).id]

\* Mutant: a restored row keeps the archive's og_image_url.
keepImageURLs(rows, ids) == rows

realignLinkImageURLs(rows, ids) == {[l EXCEPT !.img = IF l.id \in ids THEN l.id ELSE @] : l \in rows}

\* Fresh keys, owned before their objects exist, and the notes that show them.
restoreNoteMediaRefs(b) == {op[b].noteFiles[n.key] : n \in archive.notes}
insertStagedNotes(b) == {[key |-> k, via |-> op[b].mode] : k \in restoreNoteMediaRefs(b)}

\* Mutant: the ledger is not written in the transaction.
ledgerLater(b, linkMap) == IF op[b].mode = "wipe" THEN NoLedger ELSE ledger

\* In skip mode the mapping commits with the rows it maps.
saveRestoreLedger(b, linkMap) ==
    CASE op[b].mode = "skip" -> [found |-> TRUE, complete |-> FALSE, linkMap |-> linkMap,
                                 noteFiles |-> op[b].noteFiles]
      [] op[b].mode = "wipe" -> NoLedger
      [] OTHER -> ledger

\* The rows after the staged restore: a wipe inserts into an empty account what the others add.
restoreStaged(b, inserted) == wipeUser(b, links) \cup inserted

\* The staged restore, in each mode, and COMMIT.
applyRestoreMode(b) ==
    LET ids      == reserveRestoreIDs({l.id : l \in archive.links})
        inserted == restoreConflictLinks(b, ids)
        rows     == restoreStaged(b, inserted)
        linkMap  == loadStagedIDMapping(rows)
    IN  /\ At(b, "apply") /\ ~op[b].raced
        /\ links' = realignLinkImageURLs(rows, Range(linkMap))
        /\ notes' = wipeUser(b, notes) \cup insertStagedNotes(b)
        /\ media' = media \cup restoreNoteMediaRefs(b)
        /\ normalizeRestoreFolderParents(archive.folders)
        /\ ledger' = saveRestoreLedger(b, linkMap)
        /\ restoreLock' = {}
        /\ Go(b, [op[b] EXCEPT !.pc = IF op[b].mode = "wipe" THEN "wipe" ELSE "plan",
                               !.linkMap = linkMap, !.inserted = {l.id : l \in inserted}])
        /\ UNCHANGED <<rest, objects, exported, budget>>

\* A slug somebody took after the preload aborts the transaction; the third time is the last.
slugRace(b) ==
    /\ At(b, "apply") /\ op[b].raced
    /\ restoreLock' = {}
    /\ Go(b, IF op[b].attempt + 1 < SlugAttempts
             THEN [op[b] EXCEPT !.pc = "begin", !.attempt = @ + 1, !.owned = {}] ELSE Idle)
    /\ UNCHANGED <<rest, Contents, objects, exported, budget>>

-----------------------------------------------------------------------------
(* The objects, after the commit *)

wipeRestoreFiles(b) ==
    /\ At(b, "wipe")
    /\ objects' = objects \ op[b].owned
    /\ media' = media \ {k \in media : Key("note", k) \in op[b].owned /\ \A n \in notes : n.key # k}
    /\ Go(b, [op[b] EXCEPT !.pc = "plan", !.owned = {}])
    /\ UNCHANGED <<rest, links, notes, tree, ledger, restoreLock, exported, budget>>

\* Only a link this restore inserted takes bytes from the archive.
remapFileKey(b, k) ==
    {Key("link", i) : i \in {op[b].linkMap[s] : s \in {k.id} \cap DOMAIN op[b].linkMap} \cap op[b].inserted}

\* A key of this restore's own mapping, or none.
remapRestoreFileKey(b, k) ==
    IF k.kind = "link" THEN remapFileKey(b, k)
    ELSE {Key("note", op[b].noteFiles[s]) : s \in {k.id} \cap DOMAIN op[b].noteFiles}

existingRestoreFiles(b) == IF op[b].mode = "skip" THEN objects ELSE {}

buildRestoreFilePlan(b) ==
    /\ At(b, "plan")
    /\ Go(b, [op[b] EXCEPT !.pc = "put",
                           !.pending = (UNION {remapRestoreFileKey(b, k) : k \in archive.files}) \ existingRestoreFiles(b)])
    /\ UNCHANGED <<rest, Contents, objects, restoreLock, exported, budget>>

applyRestoreObject(b) ==
    /\ At(b, "put")
    /\ \E k \in op[b].pending :
          /\ objects' = objects \cup {k}
          /\ Go(b, [op[b] EXCEPT !.pending = @ \ {k}])
    /\ UNCHANGED <<rest, Contents, restoreLock, exported, budget>>

\* The first error cancels the siblings; the ones under way may have written.
runRestoreObjectTasks(b) ==
    /\ At(b, "put") /\ op[b].pending # {} /\ Spend("faults")
    /\ \E k \in op[b].pending : \E done \in SUBSET (op[b].pending \ {k}) : objects' = objects \cup done
    /\ Go(b, Idle)
    /\ UNCHANGED <<rest, Contents, restoreLock, exported>>

completeRestoreLedger(b) ==
    /\ At(b, "put") /\ op[b].pending = {}
    /\ ledger' = [ledger EXCEPT !.complete = @ \/ (op[b].mode = "skip" /\ ledger.found)]
    /\ Go(b, Idle)
    /\ UNCHANGED <<rest, links, notes, media, tree, objects, restoreLock, exported, budget>>

-----------------------------------------------------------------------------
(* Export *)

streamSnapshotJSON == {n.key : n \in notes}

\* Mutant: the two entries of the archive's own are not counted.
addEveryListing(keys) == Cardinality(keys) <= MaxEntries

\* maxBackupFileEntries
addToListing(keys) == Cardinality(keys) <= MaxEntries - 2

\* The keys the store has of the ones the rows name.
listOwnedObjects == userObjectKeys(streamSnapshotJSON) \cap objects

\* The rows of one REPEATABLE READ snapshot, and the listing.
captureExportSnapshot(b) ==
    /\ admitArchive(b) /\ "export" \in rest.modes /\ exported = {}
    /\ addToListing(listOwnedObjects)
    /\ Go(b, [Idle EXCEPT !.pc = "export", !.rows = streamSnapshotJSON, !.pending = listOwnedObjects])
    /\ UNCHANGED <<rest, Contents, objects, restoreLock, exported, budget>>

\* An object that went away since the listing fails the export.
writeExportZip(b) ==
    /\ At(b, "export")
    /\ exported' = IF op[b].pending \subseteq objects
                   THEN {[notes |-> {[id |-> k, key |-> k] : k \in op[b].rows}, files |-> op[b].pending,
                          sums |-> op[b].pending]}
                   ELSE exported
    /\ Go(b, Idle)
    /\ UNCHANGED <<rest, Contents, objects, restoreLock, budget>>

-----------------------------------------------------------------------------
(* The backend stops; the user edits. *)

crashBackend(b) ==
    /\ ~At(b, "idle") /\ Spend("faults")
    /\ Go(b, Idle)
    /\ restoreLock' = restoreLock \ {b}
    /\ objects' \in IF At(b, "wipe") THEN {objects \ gone : gone \in SUBSET op[b].owned} ELSE {objects}
    /\ UNCHANGED <<rest, Contents, exported>>

\* A new link takes a slug that a transaction under way believes is free.
userCreates(u) ==
    /\ Spend("edits") /\ \A l \in links : l.url # u
    /\ LET id == reserveRestoreIDs({0})[0]
       IN  links' = links \cup {[id |-> id, url |-> u, img |-> id, via |-> "user"]}
    /\ op' = [b \in Backends |-> [op[b] EXCEPT !.raced = At(b, "apply")]]
    /\ UNCHANGED <<rest, notes, media, tree, objects, ledger, restoreLock, exported>>

userDeletes(l) ==
    /\ Spend("edits")
    /\ links' = links \ {l}
    /\ UNCHANGED <<rest, notes, media, tree, objects, ledger, op, restoreLock, exported>>

Transaction(b) ==
    \/ restoreFromLedger(b) \/ prepareNoteMediaRestore(b) \/ applyRestoreTransaction(b)
    \/ applyRestoreMode(b) \/ slugRace(b)
Files(b) ==
    \/ wipeRestoreFiles(b) \/ buildRestoreFilePlan(b) \/ applyRestoreObject(b) \/ completeRestoreLedger(b)

RestoreNext ==
    \/ \E b \in Backends :
          \/ \E mode \in {"skip", "wipe", "duplicate"} : restoreRequest(b, mode)
          \/ Transaction(b) \/ Files(b) \/ runRestoreObjectTasks(b)
          \/ captureExportSnapshot(b) \/ writeExportZip(b) \/ crashBackend(b)
    \/ \E l \in archive.links : userCreates(l.url)
    \/ \E l \in links : userDeletes(l)

\* A handler runs to its end, and the user sends the archive again while its objects are missing.
RestoreFairness ==
    \A b \in Backends :
        /\ WF_restoreVars(Transaction(b) \/ Files(b) \/ writeExportZip(b))
        /\ SF_restoreVars(ledger.found /\ ~ledger.complete /\ restoreRequest(b, "skip"))

RestoreSpec == RestoreInit /\ [][RestoreNext]_restoreVars /\ RestoreFairness

-----------------------------------------------------------------------------
(* Properties *)

\* Restoring the same archive again in skip mode, after a crash, a failed upload or from a second
\* backend at the same time, inserts its notes once: the ledger commits with the rows.
SkipRestoresOnce == Cardinality({n \in notes : n.via = "skip"}) <= Cardinality(archive.notes)

\* The scenarios in which no account is wiped by one backend while another restores it in skip mode.
WipesAlone == {"skip", "wipe"} \subseteq rest.modes => \A b, c \in rest.backends : b = c

\* Where wipes are alone, a ledger says its files are complete only when every row the archive inserted and the user kept
\* has the object its URL names, unless the archive did not hold it.
CompleteMeansFiles ==
    ledger.complete =>
        /\ \A n \in notes : n.key \in Range(ledger.noteFiles) => Key("note", n.key) \in objects
        /\ \A s \in DOMAIN ledger.linkMap : \A l \in links :
              l.id = ledger.linkMap[s] /\ l.via = "skip" /\ Key("link", s) \in archive.files =>
                  Key("link", l.img) \in objects

\* A wipe takes objects away only after the rows that showed them are gone: whatever fails, and
\* whatever another restore inserts meanwhile, no live row loses the object it names.
NoLiveObjectWiped ==
    [][\A k \in objects \ objects' :
          (\A l \in links' : Key("link", l.img) # k) /\ (\A n \in notes' : Key("note", n.key) # k)]_restoreVars

\* The restored folders are the archive's tree, cut only where it closes a cycle, where the parent
\* is not in the archive and where a row repeats an id.
Ancestors(fs, i) ==
    LET Up(n, rows) == rows \cup UNION {ParentRow(fs, k) : k \in rows}
    IN  FoldSet(Up, ParentRow(fs, i), DOMAIN fs)
FoldersCutAtCycles ==
    tree # <<>> =>
        \A i \in DOMAIN archive.folders :
            tree[i] = IF FirstRow(archive.folders, i) /\ ParentRow(archive.folders, i) # {}
                         /\ i \notin Ancestors(archive.folders, i)
                      THEN archive.folders[i].parent ELSE 0

\* An archive whose rows are committed gets its objects, however many times an upload fails or a
\* backend stops, unless a wipe takes the rows away.
SkipConverges == []<>(ledger.found => ledger.complete)

\* The limits Export applies are inside the ones Restore applies: an archive it finishes is never
\* refused for its size or its checksums.
ExportFits == \A a \in exported : inspectArchive(a) /\ ~manifestChecksumErrors(a)

\* What Export hands out, Restore accepts.  It does not hold of an export made while a restored
\* note waits for its media (README, section 3).
ExportRestores == \A a \in exported : inspectBackupArchive(a)

\* What a restore leaves in the database: each row once and a ledger that tells the truth; and
\* archives that Restore would take.
RestoreSound == SkipRestoresOnce /\ CompleteMeansFiles /\ ExportFits

\* What a restore makes of the archive: its objects are there in the end, none that shows is taken
\* away meanwhile, and its tree is cut where it must be.
RestoreFollowsArchive == SkipConverges /\ NoLiveObjectWiped /\ []FoldersCutAtCycles
=============================================================================

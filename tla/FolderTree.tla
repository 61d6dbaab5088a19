------------------------------ MODULE FolderTree ------------------------------
(***************************************************************************)
(* The folders of one account and the links and notes filed in them: the   *)
(* tables folder, link and note, the unlock tokens, and the transactions   *)
(* that read and write them.  Every statement is scoped to its account, so *)
(* one account stands for all.                                             *)
(*                                                                         *)
(* An edit of a folder runs SERIALIZABLE: all it reads is one snapshot,    *)
(* and it commits unless its row changed in the meantime or Postgres finds *)
(* a dangerous structure.  A cascading delete and an edit of a link run    *)
(* READ COMMITTED, statement by statement, holding the row locks they took.*)
(* The other transactions are one step.                                    *)
(*                                                                         *)
(* A bcrypt hash is salted: hashing draws a new salt, which names the hash.*)
(***************************************************************************)
EXTENDS Integers, FiniteSets

CONSTANT FolderScenarios  \* what is exercised: the bounds of an instance and what its clients send

Root    == 0             \* parent_id, folder_id IS NULL
None    == "none"        \* NULL in the other columns
Same    == "same"        \* a field that the patch leaves out
Kept    == -1            \* the patch leaves parent_id out

\* The bodies that clients send to PATCH /api/folders/{id}.
PatchType(fs, pws) ==
    [parent : fs \cup {Root, Kept}, pw : pws \cup {None, Same},
     hint : pws \cup {None, Same}, cur : pws \cup {None}]

ASSUME FolderAssumption ==
    \A s \in FolderScenarios :
        /\ {s.folders, s.hashes, s.updates, s.serial, s.cascades, s.edits} \subseteq Nat
        /\ s.attempts \in Nat \ {0}
        /\ None \notin s.passwords /\ Same \notin s.passwords
        /\ s.patches \subseteq PatchType(1..s.folders, s.passwords)

VARIABLES
    plan,      \* the scenario
    folder,    \* folder
    filed,     \* link and note: the folder of each, Root, or gone
    nextId,    \* the next folder id
    nextSalt,  \* the next salt
    tokens,    \* the unlock tokens that were issued
    updates,   \* folder edits in flight
    committed, \* folder edits that committed while another one was in flight
    serial,    \* how many
    cascades,  \* cascading deletes in flight
    edits      \* link edits in flight

vars == <<plan, folder, filed, nextId, nextSalt, tokens, updates, committed, serial,
          cascades, edits>>

MaxFolders  == plan.folders   \* bound on the folders ever created
Items       == plan.items     \* links and notes
Passwords   == plan.passwords \* passwords; a hint is drawn from the same texts
Patches     == plan.patches   \* the bodies of PATCH
MaxHashes   == plan.hashes    \* bound on the hashes ever drawn
MaxAttempts == plan.attempts  \* maxSerializationRetries
MaxUpdates  == plan.updates   \* bound on the folder edits in flight
MaxSerial   == plan.serial    \* bound on the folder edits that commit while one is in flight
MaxCascades == plan.cascades  \* bound on the cascading deletes in flight
MaxEdits    == plan.edits     \* bound on the link edits in flight

Folders == 1..MaxFolders
Salts   == 0..MaxHashes       \* 0: password_hash IS NULL

Rows == [st : {"absent", "present", "deleted"}, parent : Folders \cup {Root},
         pw : Passwords \cup {None}, salt : Salts, hint : Passwords \cup {None}]
NoRow   == [st |-> "absent", parent |-> Root, pw |-> None, salt |-> 0, hint |-> None]
Deleted == [NoRow EXCEPT !.st = "deleted"]
Gone    == -1

Tokens   == [folder : Folders, salt : Salts]
NoToken  == [folder |-> 0, salt |-> 0]
Updates  == [id : Folders, in : Patches, base : Rows, reads : SUBSET Folders,
             loaded : Passwords \cup {None}, left : 0..(MaxAttempts - 1),
             begin : 0..MaxSerial]
Commits  == [write : Folders, reads : SUBSET Folders, begin : 0..MaxSerial,
             commit : 1..MaxSerial]
Cascades == [root : Folders, token : Tokens \cup {NoToken},
             phase : {"locking", "marked", "locked"}, seen : SUBSET Folders,
             todo : SUBSET Folders, held : SUBSET Folders, subtree : SUBSET Folders]
Edits    == [item : Items, op : Folders \cup {Root, Gone}, token : Tokens \cup {NoToken},
             phase : {"read", "folder", "item"}, folder : Folders \cup {Root}, salt : Salts]

Present(f)  == folder[f].st = "present"
Children(f) == {g \in Folders : Present(g) /\ folder[g].parent = f}
FiledIn(F)  == {i \in Items : filed[i] \in F}

\* The folder and its ancestors: the recursive query of checkParentCycle, which adds the
\* parents of what it has until there is nothing to add.
UpwardClosed(F) == \A g \in F : folder[g].parent \in F \cup {Root}
Ancestors(f) ==
    {g \in Folders : Present(g) /\ \A F \in SUBSET Folders : f \in F /\ UpwardClosed(F) => g \in F}

\* The folder and its descendants: the recursive query of materializeCascadeSubtree.
Subtree(f) == {g \in Folders : Present(g) /\ f \in Ancestors(g)}

-------------------------------------------------------------------------------
(***************************************************************************)
(* Row locks.  A cascade holds rows FOR UPDATE, an edit holds one folder   *)
(* FOR NO KEY UPDATE and then its item; a foreign key takes FOR KEY SHARE. *)
(***************************************************************************)

\* Mutant: the gate reads the folder without locking it.
HeldByNobody(f) == FALSE

HeldByCascade(f) == \E c \in cascades : f \in c.held
HeldByEdit(f)    == \E e \in edits : e.phase # "read" /\ e.folder = f
Writable(f)      == ~HeldByCascade(f) /\ ~HeldByEdit(f)
Referable(f)     == f # Root => Present(f) /\ ~HeldByCascade(f)
ItemFree(i)      == \A e \in edits : e.phase = "item" => e.item # i

-------------------------------------------------------------------------------
(***************************************************************************)
(* Unlock tokens.                                                          *)
(***************************************************************************)

\* CheckUnlock, on the hash that was read.
Opens(token, f, salt) == salt = 0 \/ token = [folder |-> f, salt |-> salt]

\* A token proves the password whose hash it was issued for.
Unlock(f) ==
    /\ Present(f)
    /\ folder[f].salt # 0
    /\ tokens' = tokens \cup {[folder |-> f, salt |-> folder[f].salt]}
    /\ UNCHANGED <<folder, filed, nextId, nextSalt, updates, committed, serial, cascades, edits>>

-------------------------------------------------------------------------------
(***************************************************************************)
(* Creating.  The INSERT takes its foreign key's lock on the parent.       *)
(***************************************************************************)

CreateFolder(parent, pw, hint) ==
    /\ nextId <= MaxFolders
    /\ Referable(parent)
    /\ pw # None => nextSalt <= MaxHashes /\ hint # pw
    /\ folder' = [folder EXCEPT ![nextId] =
          [st |-> "present", parent |-> parent, pw |-> pw,
           salt |-> IF pw = None THEN 0 ELSE nextSalt,
           hint |-> IF pw = None THEN None ELSE hint]]
    /\ nextId' = nextId + 1
    /\ nextSalt' = IF pw = None THEN nextSalt ELSE nextSalt + 1
    /\ UNCHANGED <<filed, tokens, updates, committed, serial, cascades, edits>>

-------------------------------------------------------------------------------
(***************************************************************************)
(* Editing a folder.                                                       *)
(***************************************************************************)

\* checkPasswordChangeAuthorized, asked when the patch writes the password or the hint.
Authorized(row, in) == in.pw # Same \/ in.hint # Same => row.salt = 0 \/ in.cur = row.pw

\* The hint and the password that the row will have.
NewHint(row, in) == CASE in.pw = None                   -> None
                      [] in.pw # None /\ in.hint # Same -> in.hint
                      [] OTHER                          -> row.hint
NewPw(row, in)   == IF in.pw = Same THEN row.pw ELSE in.pw

\* loadHintIfPasswordOnly: the hint that the attempt checks.  One that an earlier
\* attempt of the same request found is not read again.
HintToValidate(row, in, loaded) ==
    CASE in.pw # None /\ in.hint # Same             -> in.hint
      [] in.pw \in Passwords /\ in.hint = Same     -> IF loaded # None THEN loaded ELSE row.hint
      [] OTHER                                      -> None

\* Mutant: a hint that comes without a password is compared with nothing.
HintChecked(row, in, hint) == in.pw \in Passwords => hint # in.pw

\* checkHintNotPassword.
HintAllowed(row, in, hint) ==
    hint # None => NewPw(row, in) # None /\ hint # NewPw(row, in)

\* appendParent and checkParentCycle.
NoCycle(f, in) == in.parent # f /\ (in.parent \in Folders => f \notin Ancestors(in.parent))

\* updateOnce, up to the write: what the attempt read and the hint it loaded.  A
\* parent that the snapshot does not hold fails the foreign key.
Attempts(f, in, loaded, left, begin) ==
    LET hint == HintToValidate(folder[f], in, loaded) IN
    {u \in {[id |-> f, in |-> in, base |-> folder[f], loaded |-> hint, left |-> left,
             begin |-> begin,
             reads |-> {f} \cup (IF in.parent \in Folders THEN Ancestors(in.parent) ELSE {})]} :
        /\ Present(f)
        /\ in.parent \in Folders => Present(in.parent)
        /\ Authorized(folder[f], in)
        /\ HintAllowed(folder[f], in, hint)
        /\ NoCycle(f, in)}

UpdateBegin(f, in) ==
    /\ Cardinality(updates) < MaxUpdates
    /\ \E u \in Attempts(f, in, None, MaxAttempts - 1, serial) : updates' = updates \cup {u}
    /\ UNCHANGED <<folder, filed, nextId, nextSalt, tokens, committed, serial, cascades, edits>>

\* Mutant: a parent_id that the patch leaves out is written all the same.
PatchedWhole(row, in) ==
    [row EXCEPT !.parent = in.parent, !.pw = NewPw(row, in), !.hint = NewHint(row, in)]

\* appendName to appendParent and execUpdate: the columns that the patch writes.
Patched(row, in) ==
    [row EXCEPT !.parent = IF in.parent = Kept THEN @ ELSE in.parent,
                !.pw     = NewPw(row, in),
                !.salt   = CASE in.pw = Same -> @
                             [] in.pw = None -> 0
                             [] OTHER        -> nextSalt,
                !.hint   = NewHint(row, in)]

\* What Postgres remembers of a serializable transaction, and when two overlap.
Finished(u)       == [write |-> u.id, reads |-> u.reads, begin |-> u.begin, commit |-> serial + 1]
Concurrent(x, y)  == x.begin < y.commit /\ y.begin < x.commit
ReadsUnder(x, y)  == x # y /\ Concurrent(x, y) /\ y.write \in x.reads

\* A read-write conflict in and one out, the transaction at the far end first to commit.
Dangerous(S) ==
    \E x, y, z \in S : /\ ReadsUnder(x, y)
                       /\ ReadsUnder(y, z)
                       /\ z.commit <= x.commit
                       /\ z.commit <= y.commit

\* Neither a write-write conflict on the row nor a dangerous structure.
Serializable(u) ==
    /\ folder[u.id] = u.base
    /\ ~Dangerous(committed \cup {Finished(u)})

\* Mutant: the transaction runs REPEATABLE READ.
RowUnchanged(u) == folder[u.id] = u.base

\* updateOnce asks for SERIALIZABLE.
Isolated(u) == Serializable(u)

\* What can no longer overlap a new transaction is forgotten.
Remember(u) ==
    IF updates = {u}
    THEN committed' = {} /\ serial' = 0
    ELSE committed' = committed \cup {Finished(u)} /\ serial' = serial + 1

UpdateCommit(u) ==
    /\ updates # {u} => serial < MaxSerial
    /\ Writable(u.id)
    /\ Isolated(u)
    /\ u.in.parent \in Folders => Referable(u.in.parent)
    /\ u.in.pw \in Passwords => nextSalt <= MaxHashes
    /\ folder' = [folder EXCEPT ![u.id] = Patched(@, u.in)]
    /\ nextSalt' = IF u.in.pw \in Passwords THEN nextSalt + 1 ELSE nextSalt
    /\ updates' = updates \ {u}
    /\ Remember(u)
    /\ UNCHANGED <<filed, nextId, tokens, cascades, edits>>

\* A failed attempt leaves nothing behind.
Forget(u) ==
    IF updates = {u} THEN committed' = {} /\ serial' = 0
                     ELSE UNCHANGED <<committed, serial>>

\* A serialization failure, which Postgres may also report where it need not: the
\* request tries again on a new snapshot.
UpdateRetry(u) ==
    /\ u.left > 0
    /\ Forget(u)
    /\ \E v \in Attempts(u.id, u.in, u.loaded, u.left - 1, serial') :
          updates' = (updates \ {u}) \cup {v}
    /\ UNCHANGED <<folder, filed, nextId, nextSalt, tokens, cascades, edits>>

\* Out of attempts, refused on retry, a foreign key that no longer holds, or a
\* lost client.
UpdateAbort(u) ==
    /\ Forget(u)
    /\ updates' = updates \ {u}
    /\ UNCHANGED <<folder, filed, nextId, nextSalt, tokens, cascades, edits>>

\* ResetPasswordByMaster, for a caller who knows the master password.
ResetPasswordByMaster(f) ==
    /\ Present(f)
    /\ Writable(f)
    /\ folder' = [folder EXCEPT ![f].pw = None, ![f].salt = 0, ![f].hint = None]
    /\ UNCHANGED <<filed, nextId, nextSalt, tokens, updates, committed, serial, cascades, edits>>

-------------------------------------------------------------------------------
(***************************************************************************)
(* Deleting.  The foreign keys set parent_id and folder_id to NULL.        *)
(***************************************************************************)

DeleteRows(F) ==
    folder' = [f \in Folders |->
                  IF f \in F THEN Deleted
                  ELSE IF Present(f) /\ folder[f].parent \in F
                       THEN [folder[f] EXCEPT !.parent = Root] ELSE folder[f]]

\* Repository.Delete: the contents survive.
DeleteFolder(f, token) ==
    /\ Present(f)
    /\ \A g \in {f} \cup Children(f) : Writable(g)
    /\ \A i \in FiledIn({f}) : ItemFree(i)
    /\ Opens(token, f, folder[f].salt)
    /\ DeleteRows({f})
    /\ filed' = [i \in Items |-> IF filed[i] = f THEN Root ELSE filed[i]]
    /\ UNCHANGED <<nextId, nextSalt, tokens, updates, committed, serial, cascades, edits>>

\* deleteCascade begins with the statement of lockAllUserFolders, whose snapshot
\* holds the rows that it will lock in the order of their ids.
CascadeBegin(f, token) ==
    /\ f < nextId
    /\ Cardinality(cascades) < MaxCascades
    /\ cascades' = cascades \cup
          {[root |-> f, token |-> token, phase |-> "locking", held |-> {}, subtree |-> {},
            seen |-> {g \in Folders : Present(g)}, todo |-> {g \in Folders : Present(g)}]}
    /\ UNCHANGED <<folder, filed, nextId, nextSalt, tokens, updates, committed, serial, edits>>

Becomes(c, d) == cascades' = (cascades \ {c}) \cup {d}

\* Mutant: only the root is locked, by CascadeMark, before the subtree is read.
CascadeLockNothing(c) ==
    /\ c.todo # {}
    /\ Becomes(c, [c EXCEPT !.todo = {}])
    /\ UNCHANGED <<folder, filed, nextId, nextSalt, tokens, updates, committed, serial, edits>>

CascadeLock(c) ==
    /\ c.phase = "locking"
    /\ \E f \in c.todo :
          /\ \A g \in c.todo : f <= g
          /\ Present(f) => Writable(f)
          /\ Becomes(c, [c EXCEPT !.todo = @ \ {f},
                                  !.held = IF Present(f) THEN @ \cup {f} ELSE @])
    /\ UNCHANGED <<folder, filed, nextId, nextSalt, tokens, updates, committed, serial, edits>>

\* Mutant: the presented token is not checked again once the rows are locked.
RootExists(c) == Present(c.root)

\* authorizeFolderDelete: the root, locked, against the presented token.
RootAuthorized(c) == Present(c.root) /\ Opens(c.token, c.root, folder[c.root].salt)

\* authorizeFolderDelete and materializeCascadeSubtree.
CascadeMark(c) ==
    /\ c.phase = "locking"
    /\ c.todo = {}
    /\ c.root \in c.held \/ Writable(c.root)
    /\ RootAuthorized(c)
    /\ Becomes(c, [c EXCEPT !.phase = "marked", !.held = @ \cup {c.root},
                            !.subtree = Subtree(c.root)])
    /\ UNCHANGED <<folder, filed, nextId, nextSalt, tokens, updates, committed, serial, edits>>

Protected(F, root) == {f \in F \ {root} : folder[f].salt # 0}

\* lockCascadeSubtree: the rows of the subtree that still exist.
CascadeLockSubtree(c) ==
    LET rows == {f \in c.subtree : Present(f)} IN
    /\ c.phase = "marked"
    /\ \A f \in rows \ c.held : Writable(f)
    /\ Protected(rows, c.root) = {}
    /\ Becomes(c, [c EXCEPT !.phase = "locked", !.held = @ \cup rows])
    /\ UNCHANGED <<folder, filed, nextId, nextSalt, tokens, updates, committed, serial, edits>>

\* deleteCascadeContents and the commit.
CascadeDelete(c) ==
    LET rows == {f \in c.subtree : Present(f)} IN
    /\ c.phase = "locked"
    /\ \A f \in rows : \A g \in Children(f) \ c.held : Writable(g)
    /\ \A i \in FiledIn(rows) : ItemFree(i)
    /\ DeleteRows(rows)
    /\ filed' = [i \in Items |-> IF filed[i] \in rows THEN Gone ELSE filed[i]]
    /\ cascades' = cascades \ {c}
    /\ UNCHANGED <<nextId, nextSalt, tokens, updates, committed, serial, edits>>

\* Refused, chosen as a deadlock's victim, or cancelled.
CascadeAbort(c) ==
    /\ cascades' = cascades \ {c}
    /\ UNCHANGED <<folder, filed, nextId, nextSalt, tokens, updates, committed, serial, edits>>

-------------------------------------------------------------------------------
(***************************************************************************)
(* Editing a link or a note: CheckEntityFolderTx, then the write.  op is   *)
(* the folder that it moves to, or Gone for a delete.                      *)
(***************************************************************************)

EditBegin(i, op, token) ==
    /\ Cardinality(edits) < MaxEdits
    /\ filed[i] # Gone
    /\ edits' = edits \cup {[item |-> i, op |-> op, token |-> token, phase |-> "read",
                             folder |-> filed[i], salt |-> 0]}
    /\ UNCHANGED <<folder, filed, nextId, nextSalt, tokens, updates, committed, serial, cascades>>

\* The hash of the folder that was read, its row locked; a folder that is gone has none.
EditLockFolder(e) ==
    LET there == e.folder # Root /\ Present(e.folder) IN
    /\ e.phase = "read"
    /\ there => Writable(e.folder)
    /\ edits' = (edits \ {e}) \cup
          {[e EXCEPT !.phase = "folder", !.salt = IF there THEN folder[e.folder].salt ELSE 0]}
    /\ UNCHANGED <<folder, filed, nextId, nextSalt, tokens, updates, committed, serial, cascades>>

\* sameFolder, once the item is locked too.
StillFiled(e) == filed[e.item] = e.folder

EditLockItem(e) ==
    /\ e.phase = "folder"
    /\ ItemFree(e.item)
    /\ StillFiled(e)
    /\ e.folder = Root \/ Opens(e.token, e.folder, e.salt)
    /\ edits' = (edits \ {e}) \cup {[e EXCEPT !.phase = "item"]}
    /\ UNCHANGED <<folder, filed, nextId, nextSalt, tokens, updates, committed, serial, cascades>>

EditCommit(e) ==
    /\ e.phase = "item"
    /\ e.op # Gone => Referable(e.op)
    /\ filed' = [filed EXCEPT ![e.item] = e.op]
    /\ edits' = edits \ {e}
    /\ UNCHANGED <<folder, nextId, nextSalt, tokens, updates, committed, serial, cascades>>

\* Not found, ErrLocked, a foreign key that no longer holds, or cancelled.
EditAbort(e) ==
    /\ edits' = edits \ {e}
    /\ UNCHANGED <<folder, filed, nextId, nextSalt, tokens, updates, committed, serial, cascades>>

-------------------------------------------------------------------------------

\* The rows of folders without passwords.
OpenRows == [st : {"absent", "present"}, parent : Folders \cup {Root}, pw : {None}, salt : {0},
             hint : {None}]

\* The account has some folders without passwords, nested in any way, and its
\* links and notes are filed anywhere.
Init ==
    /\ plan \in FolderScenarios
    /\ nextId \in 1..(MaxFolders + 1)
    /\ folder \in [Folders -> OpenRows]
    /\ \A f \in Folders : IF f < nextId
                          THEN Present(f) /\ folder[f].parent < f
                          ELSE folder[f] = NoRow
    /\ filed \in [Items -> {f \in Folders : Present(f)} \cup {Root}]
    /\ nextSalt = 1
    /\ tokens = {}
    /\ updates = {}
    /\ committed = {}
    /\ serial = 0
    /\ cascades = {}
    /\ edits = {}

Step ==
    \/ \E f \in Folders : Unlock(f) \/ ResetPasswordByMaster(f)
    \/ \E p \in Folders \cup {Root}, pw \in Passwords \cup {None}, h \in Passwords \cup {None} :
          CreateFolder(p, pw, h)
    \/ \E f \in Folders, in \in Patches : UpdateBegin(f, in)
    \/ \E u \in updates : UpdateCommit(u) \/ UpdateRetry(u) \/ UpdateAbort(u)
    \/ \E f \in Folders, t \in tokens \cup {NoToken} : DeleteFolder(f, t) \/ CascadeBegin(f, t)
    \/ \E c \in cascades : \/ CascadeLock(c)
                           \/ CascadeMark(c)
                           \/ CascadeLockSubtree(c)
                           \/ CascadeDelete(c)
                           \/ CascadeAbort(c)
    \/ \E i \in Items, op \in Folders \cup {Root, Gone}, t \in tokens \cup {NoToken} :
          EditBegin(i, op, t)
    \/ \E e \in edits : \/ EditLockFolder(e)
                        \/ EditLockItem(e)
                        \/ EditCommit(e)
                        \/ EditAbort(e)

Next == Step /\ UNCHANGED plan

Spec == Init /\ [][Next]_vars

-------------------------------------------------------------------------------
(***************************************************************************)
(* Properties.                                                             *)
(***************************************************************************)

\* Every variable has its type.
TypeOK ==
    /\ plan \in FolderScenarios
    /\ folder \in [Folders -> Rows]
    /\ filed \in [Items -> Folders \cup {Root, Gone}]
    /\ nextId \in 1..(MaxFolders + 1)
    /\ nextSalt \in 1..(MaxHashes + 1)
    /\ tokens \subseteq Tokens
    /\ updates \subseteq Updates
    /\ committed \subseteq Commits
    /\ serial \in 0..MaxSerial
    /\ cascades \subseteq Cascades
    /\ edits \subseteq Edits

\* However many moves race, no folder ever becomes its own ancestor, which would
\* cut its subtree off from the root and make the recursive queries loop
\* (repository.go: checkParentCycle inside the SERIALIZABLE updateOnce).
Acyclic ==
    \A f \in Folders : Present(f) /\ folder[f].parent # Root => f \notin Ancestors(folder[f].parent)

\* A hint never outlives the password it hints at, whatever edits of the password,
\* edits of the hint, retries and resets by master interleave (repository.go:
\* checkHintNotPassword, appendHint, ResetPasswordByMaster).
HintHasPassword ==
    \A f \in Folders : Present(f) /\ folder[f].hint # None => folder[f].pw # None

\* What INV-067 says: the hint, which anyone may read, never equals the password.
HintIsNotPassword ==
    \A f \in Folders : Present(f) /\ folder[f].hint # None => folder[f].hint # folder[f].pw

\* A cascade deletes a protected folder only as its root, and then only with a
\* token for the password that the root has at that moment (repository.go:
\* authorizeFolderDelete, lockCascadeSubtree; INV-064).
CascadeAuthorized ==
    [][\A c \in cascades, f \in Folders :
          c \notin cascades' /\ Present(f) /\ folder'[f] = Deleted =>
              IF f = c.root THEN Opens(c.token, f, folder[f].salt) ELSE folder[f].salt = 0]_vars

\* A link is moved or deleted only with a token for the password of the folder
\* that it is in at that moment (content_gate.go: CheckEntityFolderTx).
EditAuthorized ==
    [][\A e \in edits :
          e \notin edits' /\ filed'[e.item] # filed[e.item] /\ filed[e.item] # Root =>
              Opens(e.token, filed[e.item], folder[filed[e.item]].salt)]_vars

\* What a cascade deletes is in the subtree of its root at that moment, whatever
\* moves, provided that the subtree holds nothing created after the cascade began
\* (repository.go: lockAllUserFolders before materializeCascadeSubtree; INV-064).
CascadeStaysInside ==
    [][\A c \in cascades, f \in Folders :
          c \notin cascades' /\ Present(f) /\ folder'[f] = Deleted /\ c.subtree \subseteq c.seen =>
              f \in Subtree(c.root)]_vars

\* The tree is a forest, and what a row says of its password is of one it has.
TreeSound == TypeOK /\ Acyclic /\ HintHasPassword

\* A cascade takes what its token opens and what its root holds.
CascadeBounded == CascadeAuthorized /\ CascadeStaysInside
===============================================================================

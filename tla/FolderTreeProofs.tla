--------------------------- MODULE FolderTreeProofs ---------------------------
(***************************************************************************)
(* Proofs about FolderTree, for any number of folders, links and notes,    *)
(* and requests.                                                           *)
(*                                                                         *)
(* That a cascade and an edit are authorized when they write, and not only *)
(* when they asked, rests on the row locks they hold since they asked:     *)
(* IInv says what a transaction in flight has learnt, and that no other    *)
(* one has changed it since.  That a hint has its password rests on the    *)
(* snapshot: the row that an edit commits to is the row that it read.      *)
(*                                                                         *)
(* That the tree stays one rests on Postgres: edits that commit without a  *)
(* dangerous structure have a serial order (SerialOrder), and Tree says    *)
(* what an edit knows of the rows that it read.  A circle is a set of      *)
(* folders that holds the parents of all its members, so that no proof     *)
(* walks along a path.                                                     *)
(***************************************************************************)
EXTENDS FolderTree, FiniteSetTheorems, WellFoundedInduction, TLAPS

\* Folders are numbered in the order of creation.
Numbered == \A f \in Folders : folder[f].st = "absent" <=> f >= nextId

\* An edit in flight that writes a hint leaves a password.
UpdateChecked(u) ==
    u.in.pw # None /\ u.in.hint \notin {Same, None} => NewPw(u.base, u.in) # None

\* What a cascade holds is there; once marked, its root is held and opened by its token; once
\* locked, what is left of the subtree is held and has no password.
CascadeChecked(c) ==
    /\ \A f \in c.held : Present(f)
    /\ \A f \in c.subtree : f < nextId
    /\ c.phase # "locking" =>
          c.root \in c.held /\ Opens(c.token, c.root, folder[c.root].salt)
    /\ c.phase = "locked" =>
          \A f \in c.subtree : Present(f) =>
              f \in c.held /\ (f # c.root => folder[f].salt = 0)

\* No row is held by two cascades, or by a cascade and an edit.
CascadesExclude == \A c, d \in cascades : c # d => c.held \cap d.held = {}
LocksExclude    == \A c \in cascades, e \in edits : e.phase # "read" => e.folder \notin c.held

\* An edit that holds its folder knows its hash; one that holds its item found it in that folder,
\* and opened it.
EditChecked(e) ==
    /\ e.folder \in Folders => e.folder < nextId
    /\ e.phase # "read" /\ e.folder \in Folders /\ Present(e.folder) =>
          e.salt = folder[e.folder].salt
    /\ e.phase = "item" =>
          /\ filed[e.item] = e.folder
          /\ e.folder = Root \/ Opens(e.token, e.folder, e.salt)

\* No two edits hold the same item.
EditsExclude ==
    \A d, e \in edits : d.phase = "item" /\ e.phase = "item" /\ d.item = e.item => d = e

\* The foreign keys of link and note.
FiledExist == \A i \in Items : filed[i] \in Folders => Present(filed[i])

\* Who waits for whom, and what each has learnt.
LocksHold ==
    /\ CascadesExclude /\ LocksExclude /\ EditsExclude
    /\ \A c \in cascades : CascadeChecked(c)
    /\ \A e \in edits : EditChecked(e)

\* The inductive invariant.
IInv ==
    /\ TypeOK /\ Numbered /\ HintHasPassword /\ FiledExist /\ LocksHold
    /\ \A u \in updates : UpdateChecked(u)

-------------------------------------------------------------------------------
(***************************************************************************)
(* Types.                                                                  *)
(***************************************************************************)

\* What the assumption says of the scenario.
LEMMA PlanFields ==
    ASSUME TypeOK
    PROVE  /\ MaxFolders \in Nat /\ MaxHashes \in Nat /\ MaxSerial \in Nat
           /\ MaxAttempts \in Nat \ {0}
           /\ None \notin Passwords /\ Same \notin Passwords
           /\ Patches \subseteq PatchType(Folders, Passwords)
<1>1. plan \in FolderScenarios
  BY DEF TypeOK
<1>2. /\ {plan.folders, plan.hashes, plan.updates, plan.serial, plan.cascades, plan.edits} \subseteq Nat
      /\ plan.attempts \in Nat \ {0}
      /\ None \notin plan.passwords /\ Same \notin plan.passwords
      /\ plan.patches \subseteq PatchType(1..plan.folders, plan.passwords)
  BY <1>1, FolderAssumption
<1> QED BY <1>2 DEF MaxFolders, MaxHashes, MaxSerial, MaxAttempts, Passwords, Patches, Folders

\* No step changes the scenario, or what is read from it.
LEMMA SamePlan ==
    ASSUME plan' = plan
    PROVE  /\ Folders' = Folders /\ Items' = Items /\ Passwords' = Passwords /\ Salts' = Salts
           /\ Rows' = Rows /\ Tokens' = Tokens /\ Updates' = Updates /\ Commits' = Commits
           /\ Cascades' = Cascades /\ Edits' = Edits
           /\ MaxFolders' = MaxFolders /\ MaxHashes' = MaxHashes /\ MaxSerial' = MaxSerial
<1>1. /\ Folders' = Folders /\ Items' = Items /\ Passwords' = Passwords /\ Salts' = Salts
      /\ MaxFolders' = MaxFolders /\ MaxHashes' = MaxHashes /\ MaxSerial' = MaxSerial
      /\ Patches' = Patches /\ MaxAttempts' = MaxAttempts
  BY DEF Folders, Items, Passwords, Salts, MaxFolders, MaxHashes, MaxSerial, Patches, MaxAttempts
<1>2. Rows' = Rows /\ Tokens' = Tokens
  BY <1>1 DEF Rows, Tokens
<1>3. Updates' = Updates
  BY <1>1, <1>2 DEF Updates
<1>4. Commits' = Commits /\ Cascades' = Cascades /\ Edits' = Edits
  BY <1>1, <1>2 DEF Commits, Cascades, Edits
<1> QED BY <1>1, <1>2, <1>3, <1>4

\* The fields of a patch.
LEMMA PatchFields ==
    ASSUME TypeOK, NEW in \in Patches
    PROVE  /\ in.parent \in Folders \cup {Root, Kept}
           /\ in.pw \in Passwords \cup {None, Same} /\ in.hint \in Passwords \cup {None, Same}
<1>1. in \in PatchType(Folders, Passwords)
  BY PlanFields
<1> QED BY <1>1 DEF PatchType

\* The fields of a folder.
LEMMA RowFields ==
    ASSUME NEW r \in Rows
    PROVE  /\ r.st \in {"absent", "present", "deleted"} /\ r.parent \in Folders \cup {Root}
           /\ r.pw \in Passwords \cup {None} /\ r.salt \in Salts
           /\ r.hint \in Passwords \cup {None}
  BY DEF Rows

\* The fields of an edit of a folder in flight.
LEMMA UpdateFields ==
    ASSUME TypeOK, NEW u \in updates
    PROVE  /\ u \in Updates /\ u.id \in Folders /\ u.in \in Patches /\ u.base \in Rows
           /\ u.reads \subseteq Folders /\ u.loaded \in Passwords \cup {None}
           /\ u.left \in 0..(MaxAttempts - 1) /\ u.begin \in 0..MaxSerial
<1>1. u \in Updates
  BY DEF TypeOK
<1> QED BY <1>1 DEF Updates

\* The fields of a cascade in flight.
LEMMA CascadeFields ==
    ASSUME TypeOK, NEW c \in cascades
    PROVE  /\ c \in Cascades /\ c.root \in Folders /\ c.token \in Tokens \cup {NoToken}
           /\ c.phase \in {"locking", "marked", "locked"} /\ c.seen \subseteq Folders
           /\ c.todo \subseteq Folders /\ c.held \subseteq Folders /\ c.subtree \subseteq Folders
<1>1. c \in Cascades
  BY DEF TypeOK
<1> QED BY <1>1 DEF Cascades

\* The fields of an edit of a link in flight.
LEMMA EditFields ==
    ASSUME TypeOK, NEW e \in edits
    PROVE  /\ e \in Edits /\ e.item \in Items /\ e.op \in Folders \cup {Root, Gone}
           /\ e.token \in Tokens \cup {NoToken} /\ e.phase \in {"read", "folder", "item"}
           /\ e.folder \in Folders \cup {Root} /\ e.salt \in Salts
<1>1. e \in Edits
  BY DEF TypeOK
<1> QED BY <1>1 DEF Edits

\* Root, Gone and Kept are no folders.
LEMMA NotFolders ==
    ASSUME TypeOK
    PROVE  Root \notin Folders /\ Gone \notin Folders /\ Kept \notin Folders /\ Root # Gone
  BY DEF Folders, Root, Gone, Kept

\* A folder's row.
LEMMA FolderRow ==
    ASSUME TypeOK, NEW f \in Folders
    PROVE  folder[f] \in Rows
  BY DEF TypeOK

\* An attempt at an edit, field by field.
LEMMA AttemptFields ==
    ASSUME TypeOK, NEW f \in Folders, NEW in \in Patches, NEW loaded \in Passwords \cup {None},
           NEW left, NEW begin, NEW u \in Attempts(f, in, loaded, left, begin)
    PROVE  /\ u.id = f /\ u.in = in /\ u.base = folder[f] /\ u.left = left /\ u.begin = begin
           /\ u = [id |-> f, in |-> in, base |-> folder[f], loaded |-> u.loaded, left |-> left,
                   begin |-> begin, reads |-> u.reads]
           /\ u.reads \subseteq Folders /\ u.loaded \in Passwords \cup {None}
           /\ Present(f) /\ HintAllowed(folder[f], in, u.loaded)
           /\ u.loaded = HintToValidate(folder[f], in, loaded)
<1> DEFINE hint  == HintToValidate(folder[f], in, loaded)
           reads == {f} \cup (IF in.parent \in Folders THEN Ancestors(in.parent) ELSE {})
<1>1. hint \in Passwords \cup {None}
  <2>1. folder[f].hint \in Passwords \cup {None}
    BY FolderRow, RowFields
  <2> QED BY <2>1, PatchFields DEF HintToValidate
<1>2. reads \subseteq Folders
  BY DEF Ancestors
<1>3. /\ u = [id |-> f, in |-> in, base |-> folder[f], loaded |-> hint, left |-> left,
              begin |-> begin, reads |-> reads]
      /\ Present(f) /\ HintAllowed(folder[f], in, hint)
  BY DEF Attempts
<1> HIDE DEF hint, reads
<1>4. u.loaded = hint /\ u.reads = reads
  BY <1>3
<1> QED BY <1>1, <1>2, <1>3, <1>4 DEF hint

\* An attempt is an edit in flight, and has checked its hint.
LEMMA AttemptTyped ==
    ASSUME TypeOK, NEW f \in Folders, NEW in \in Patches, NEW loaded \in Passwords \cup {None},
           NEW left \in 0..(MaxAttempts - 1), NEW begin \in 0..MaxSerial,
           NEW u \in Attempts(f, in, loaded, left, begin)
    PROVE  u \in Updates /\ UpdateChecked(u)
<1>1. u \in Updates
  <2>1. folder[f] \in Rows
    BY FolderRow
  <2>2. u.reads \in SUBSET Folders /\ u.loaded \in Passwords \cup {None}
    BY AttemptFields
  <2>3. u = [id |-> f, in |-> in, base |-> folder[f], loaded |-> u.loaded, left |-> left,
             begin |-> begin, reads |-> u.reads]
    BY AttemptFields
  <2> QED BY <2>1, <2>2, <2>3 DEF Updates
<1>2. UpdateChecked(u)
  <2>1. /\ u.in = in /\ u.base = folder[f] /\ HintAllowed(folder[f], in, u.loaded)
        /\ u.loaded = HintToValidate(folder[f], in, loaded)
    BY AttemptFields
  <2> QED BY <2>1 DEF UpdateChecked, HintAllowed, HintToValidate
<1> QED BY <1>1, <1>2

\* What the patch leaves of a row.
LEMMA PatchedFields ==
    ASSUME TypeOK, NEW row \in Rows, NEW in \in Patches,
           in.pw \in Passwords => nextSalt <= MaxHashes
    PROVE  /\ Patched(row, in) \in Rows
           /\ Patched(row, in).st = row.st
           /\ Patched(row, in).pw = NewPw(row, in)
           /\ Patched(row, in).hint = NewHint(row, in)
<1>1. NewPw(row, in) \in Passwords \cup {None} /\ NewHint(row, in) \in Passwords \cup {None}
  BY PatchFields, RowFields DEF NewPw, NewHint
<1>2. (IF in.parent = Kept THEN row.parent ELSE in.parent) \in Folders \cup {Root}
  BY PatchFields, RowFields
<1>3. (CASE in.pw = Same -> row.salt [] in.pw = None -> 0 [] OTHER -> nextSalt) \in Salts
  <2>1. 0 \in Salts
    BY PlanFields DEF Salts
  <2>2. in.pw \in Passwords => nextSalt \in Salts
    BY PlanFields DEF Salts, TypeOK
  <2> QED BY <2>1, <2>2, PatchFields, RowFields
<1> QED BY <1>1, <1>2, <1>3 DEF Patched, Rows

\* What the statements that delete leave of the folders.
LEMMA DeletedFields ==
    ASSUME TypeOK, NEW F, F \subseteq Folders, DeleteRows(F)
    PROVE  /\ folder' \in [Folders -> Rows]
           /\ \A f \in F : folder'[f] = Deleted
           /\ \A f \in Folders \ F : /\ folder'[f].st = folder[f].st
                                     /\ folder'[f].salt = folder[f].salt
                                     /\ folder'[f].pw = folder[f].pw
                                     /\ folder'[f].hint = folder[f].hint
           /\ Deleted.st = "deleted"
<1>1. Deleted \in Rows /\ Deleted.st = "deleted"
  <2>1. 0 \in Salts
    BY PlanFields DEF Salts
  <2> QED BY <2>1 DEF Deleted, NoRow, Rows
<1>2. folder' = [f \in Folders |-> folder'[f]]
  BY DEF DeleteRows
<1>3. ASSUME NEW f \in F  PROVE folder'[f] = Deleted
  BY DEF DeleteRows
<1>4. ASSUME NEW f \in Folders \ F
      PROVE  /\ folder'[f] \in Rows
             /\ folder'[f].st = folder[f].st /\ folder'[f].salt = folder[f].salt
             /\ folder'[f].pw = folder[f].pw /\ folder'[f].hint = folder[f].hint
  <2>1. folder[f] \in Rows
    BY FolderRow
  <2>2. folder'[f] = folder[f] \/ folder'[f] = [folder[f] EXCEPT !.parent = Root]
    BY DEF DeleteRows
  <2> QED BY <2>1, <2>2 DEF Rows
<1>5. \A f \in Folders : folder'[f] \in Rows
  BY <1>1, <1>3, <1>4
<1>6. folder' \in [Folders -> Rows]
  BY <1>2, <1>5
<1> QED BY <1>1, <1>3, <1>4, <1>6

-------------------------------------------------------------------------------
(***************************************************************************)
(* Types, hints and numbers, action by action.                             *)
(***************************************************************************)

\* What a step has to show, when the scenario stays.
Basics == TypeOK /\ Numbered /\ HintHasPassword /\ \A u \in updates : UpdateChecked(u)

\* Whether an edit has checked its hint depends on no variable that changes.
LEMMA CheckedStays ==
    ASSUME NEW u, UpdateChecked(u)
    PROVE  UpdateChecked(u)'
  BY DEF UpdateChecked, NewPw

\* A step that leaves the folders alone.
LEMMA FoldersStay ==
    ASSUME TypeOK, Numbered, HintHasPassword, plan' = plan, folder' = folder, nextId' = nextId
    PROVE  Numbered' /\ HintHasPassword'
  BY SamePlan DEF Numbered, HintHasPassword, Present

\* A token is issued.
LEMMA UnlockBasics ==
    ASSUME Basics, plan' = plan, NEW f \in Folders, Unlock(f)
    PROVE  Basics'
<1>1. [folder |-> f, salt |-> folder[f].salt] \in Tokens
  BY FolderRow, RowFields DEF Basics, Tokens
<1>2. TypeOK'
  BY <1>1, SamePlan DEF Unlock, Basics, TypeOK
<1>3. Numbered' /\ HintHasPassword'
  BY FoldersStay DEF Unlock, Basics
<1>4. \A u \in updates' : UpdateChecked(u)'
  BY CheckedStays DEF Unlock, Basics
<1> QED BY <1>2, <1>3, <1>4 DEF Basics

\* The password and its hint go together.
LEMMA ResetBasics ==
    ASSUME Basics, plan' = plan, NEW f \in Folders, ResetPasswordByMaster(f)
    PROVE  Basics'
<1>1. /\ folder' \in [Folders -> Rows]
      /\ folder'[f].st = folder[f].st /\ folder'[f].hint = None
      /\ \A g \in Folders : g # f => folder'[g] = folder[g]
  <2>1. 0 \in Salts
    BY PlanFields DEF Salts, Basics
  <2>2. PICK row : row = [folder[f] EXCEPT !.pw = None, !.salt = 0, !.hint = None]
    OBVIOUS
  <2>3. row \in Rows /\ row.st = folder[f].st /\ row.hint = None
    BY <2>1, <2>2, FolderRow DEF Rows, Basics
  <2>4. folder' = [folder EXCEPT ![f] = row]
    BY <2>2 DEF ResetPasswordByMaster
  <2> QED BY <2>3, <2>4 DEF Basics, TypeOK
<1>2. TypeOK'
  BY <1>1, SamePlan DEF ResetPasswordByMaster, Basics, TypeOK
<1>3. Numbered'
  BY <1>1, SamePlan DEF ResetPasswordByMaster, Basics, Numbered
<1>4. HintHasPassword'
  BY <1>1, SamePlan DEF Basics, HintHasPassword, Present
<1>5. \A u \in updates' : UpdateChecked(u)'
  BY CheckedStays DEF ResetPasswordByMaster, Basics
<1> QED BY <1>2, <1>3, <1>4, <1>5 DEF Basics

\* A new folder has a hint only with a password.
LEMMA CreateBasics ==
    ASSUME Basics, plan' = plan, NEW p \in Folders \cup {Root}, NEW pw \in Passwords \cup {None},
           NEW h \in Passwords \cup {None}, CreateFolder(p, pw, h)
    PROVE  /\ Basics' /\ nextId \in Folders
           /\ \A g \in Folders : g # nextId => folder'[g] = folder[g]
           /\ folder'[nextId].st = "present"
<1>0. TypeOK
  BY DEF Basics
<1>1. nextId \in Folders
  BY <1>0, PlanFields DEF CreateFolder, Folders, TypeOK
<1>2. PICK row : row = [st |-> "present", parent |-> p, pw |-> pw,
                        salt |-> IF pw = None THEN 0 ELSE nextSalt,
                        hint |-> IF pw = None THEN None ELSE h]
  OBVIOUS
<1>3. row \in Rows /\ row.st = "present" /\ (row.hint # None => row.pw # None)
  <2>1. (IF pw = None THEN 0 ELSE nextSalt) \in Salts
    BY <1>0, PlanFields DEF CreateFolder, Salts, TypeOK
  <2> QED BY <1>2, <2>1 DEF Rows
<1>4. folder' = [folder EXCEPT ![nextId] = row]
  BY <1>2 DEF CreateFolder
<1>5. /\ folder' \in [Folders -> Rows] /\ folder'[nextId] = row
      /\ \A g \in Folders : g # nextId => folder'[g] = folder[g]
  BY <1>0, <1>1, <1>3, <1>4 DEF TypeOK
<1>6. nextId' = nextId + 1 /\ nextId' \in 1..(MaxFolders + 1) /\ nextSalt' \in 1..(MaxHashes + 1)
  BY <1>0, PlanFields DEF CreateFolder, TypeOK
<1>7. TypeOK'
  BY <1>0, <1>5, <1>6, SamePlan DEF CreateFolder, TypeOK
<1>8. Numbered'
  <2> SUFFICES ASSUME NEW g \in Folders
               PROVE  folder'[g].st = "absent" <=> g >= nextId'
    BY SamePlan DEF Numbered
  <2>1. g \in Int /\ nextId \in Int
    BY <1>1 DEF Folders
  <2> QED BY <2>1, <1>3, <1>5, <1>6 DEF Basics, Numbered
<1>9. HintHasPassword'
  BY <1>3, <1>5, SamePlan DEF Basics, HintHasPassword, Present
<1>10. \A u \in updates' : UpdateChecked(u)'
  BY CheckedStays DEF CreateFolder, Basics
<1> QED BY <1>1, <1>3, <1>5, <1>7, <1>8, <1>9, <1>10 DEF Basics

\* An edit begins with what its first snapshot allows.
LEMMA BeginBasics ==
    ASSUME Basics, plan' = plan, NEW f \in Folders, NEW in \in Patches, UpdateBegin(f, in)
    PROVE  Basics'
<1>0. TypeOK
  BY DEF Basics
<1>1. PICK u \in Attempts(f, in, None, MaxAttempts - 1, serial) : updates' = updates \cup {u}
  BY DEF UpdateBegin
<1>2. u \in Updates /\ UpdateChecked(u)
  <2>1. MaxAttempts - 1 \in 0..(MaxAttempts - 1)
    BY <1>0, PlanFields
  <2>2. serial \in 0..MaxSerial
    BY <1>0 DEF TypeOK
  <2> QED BY <1>0, <1>1, <2>1, <2>2, AttemptTyped
<1>3. TypeOK'
  BY <1>0, <1>1, <1>2, SamePlan DEF UpdateBegin, TypeOK
<1>4. Numbered' /\ HintHasPassword'
  BY FoldersStay DEF UpdateBegin, Basics
<1>5. \A v \in updates' : UpdateChecked(v)'
  BY <1>1, <1>2, CheckedStays DEF Basics
<1> QED BY <1>3, <1>4, <1>5 DEF Basics

\* What an edit commits to is the row it read.
LEMMA CommitBasics ==
    ASSUME Basics, plan' = plan, NEW u \in updates, UpdateCommit(u)
    PROVE  /\ Basics'
           /\ \A g \in Folders : g # u.id => folder'[g] = folder[g]
           /\ folder'[u.id].st = folder[u.id].st
<1>0. TypeOK
  BY DEF Basics
<1>1. u \in Updates /\ u.id \in Folders /\ u.in \in Patches /\ folder[u.id] \in Rows
  BY <1>0, UpdateFields, FolderRow
<1>2. folder[u.id] = u.base /\ (u.in.pw \in Passwords => nextSalt <= MaxHashes)
  BY DEF UpdateCommit, Isolated, Serializable
<1>3. PICK row : row = Patched(folder[u.id], u.in)
  OBVIOUS
<1>4. /\ row \in Rows /\ row.st = folder[u.id].st
      /\ row.pw = NewPw(u.base, u.in) /\ row.hint = NewHint(u.base, u.in)
  BY <1>0, <1>1, <1>2, <1>3, PatchedFields
<1>5. folder' = [folder EXCEPT ![u.id] = row]
  BY <1>3 DEF UpdateCommit
<1>6. /\ folder' \in [Folders -> Rows] /\ folder'[u.id] = row
      /\ \A g \in Folders : g # u.id => folder'[g] = folder[g]
  BY <1>0, <1>1, <1>4, <1>5 DEF TypeOK
<1>7. nextSalt' \in 1..(MaxHashes + 1)
  BY <1>0, PlanFields DEF UpdateCommit, TypeOK
<1>8. committed' \subseteq Commits /\ serial' \in 0..MaxSerial
  <2>1. CASE updates = {u}
    BY <2>1, <1>0, PlanFields DEF UpdateCommit, Remember
  <2>2. CASE updates # {u}
    <3>1. serial' = serial + 1 /\ serial < MaxSerial /\ committed' = committed \cup {Finished(u)}
      BY <2>2 DEF UpdateCommit, Remember
    <3>2. serial \in 0..MaxSerial /\ MaxSerial \in Nat
      BY <1>0, PlanFields DEF TypeOK
    <3>3. serial + 1 \in 1..MaxSerial /\ serial + 1 \in 0..MaxSerial
      BY <3>1, <3>2
    <3>4. u.reads \in SUBSET Folders /\ u.begin \in 0..MaxSerial
      BY <1>0, UpdateFields
    <3>5. Finished(u) \in Commits
      BY <1>1, <3>3, <3>4 DEF Finished, Commits
    <3> QED BY <1>0, <3>1, <3>3, <3>5 DEF TypeOK
  <2> QED BY <2>1, <2>2
<1>9. TypeOK'
  BY <1>0, <1>6, <1>7, <1>8, SamePlan DEF UpdateCommit, TypeOK
<1>10. Numbered'
  BY <1>4, <1>6, SamePlan DEF UpdateCommit, Basics, Numbered
<1>11. HintHasPassword'
  <2>1. Present(u.id) /\ row.hint # None => row.pw # None
    <3>1. UpdateChecked(u)
      BY DEF Basics
    <3>2. Present(u.id) /\ u.base.hint # None => u.base.pw # None
      BY <1>1, <1>2 DEF Basics, HintHasPassword
    <3> QED BY <1>0, <1>1, <1>4, <3>1, <3>2, PatchFields
            DEF UpdateChecked, NewPw, NewHint
  <2> QED BY <2>1, <1>4, <1>6, SamePlan DEF Basics, HintHasPassword, Present
<1>12. \A v \in updates' : UpdateChecked(v)'
  BY CheckedStays DEF UpdateCommit, Basics
<1> QED BY <1>4, <1>6, <1>9, <1>10, <1>11, <1>12 DEF Basics

\* What a failed attempt leaves of the commits that are remembered.
LEMMA ForgetTyped ==
    ASSUME TypeOK, NEW u \in updates, Forget(u)
    PROVE  committed' \subseteq Commits /\ serial' \in 0..MaxSerial
  BY PlanFields DEF Forget, TypeOK

\* A retry reads everything again, but a hint.
LEMMA RetryBasics ==
    ASSUME Basics, plan' = plan, NEW u \in updates, UpdateRetry(u)
    PROVE  Basics'
<1>0. TypeOK
  BY DEF Basics
<1>1. PICK v \in Attempts(u.id, u.in, u.loaded, u.left - 1, serial') :
         updates' = (updates \ {u}) \cup {v}
  BY DEF UpdateRetry
<1>2. committed' \subseteq Commits /\ serial' \in 0..MaxSerial
  BY <1>0, ForgetTyped DEF UpdateRetry
<1>3. v \in Updates /\ UpdateChecked(v)
  <2>1. /\ u.id \in Folders /\ u.in \in Patches /\ u.loaded \in Passwords \cup {None}
        /\ u.left \in 0..(MaxAttempts - 1)
    BY <1>0, UpdateFields
  <2>2. u.left - 1 \in 0..(MaxAttempts - 1)
    BY <1>0, <2>1, PlanFields DEF UpdateRetry
  <2>3. PICK n : n = serial'
    OBVIOUS
  <2>4. n \in 0..MaxSerial
    BY <1>2, <2>3
  <2> QED BY <1>0, <1>1, <2>1, <2>2, <2>3, <2>4, AttemptTyped
<1>4. TypeOK'
  BY <1>0, <1>1, <1>2, <1>3, SamePlan DEF UpdateRetry, TypeOK
<1>5. Numbered' /\ HintHasPassword'
  BY FoldersStay DEF UpdateRetry, Basics
<1>6. \A w \in updates' : UpdateChecked(w)'
  BY <1>1, <1>3, CheckedStays DEF Basics
<1> QED BY <1>4, <1>5, <1>6 DEF Basics

\* An edit that ends leaves nothing.
LEMMA AbortBasics ==
    ASSUME Basics, plan' = plan, NEW u \in updates, UpdateAbort(u)
    PROVE  Basics'
<1>0. TypeOK
  BY DEF Basics
<1>1. committed' \subseteq Commits /\ serial' \in 0..MaxSerial
  BY <1>0, ForgetTyped DEF UpdateAbort
<1>2. TypeOK'
  BY <1>0, <1>1, SamePlan DEF UpdateAbort, TypeOK
<1>3. Numbered' /\ HintHasPassword'
  BY FoldersStay DEF UpdateAbort, Basics
<1>4. \A v \in updates' : UpdateChecked(v)'
  BY CheckedStays DEF UpdateAbort, Basics
<1> QED BY <1>2, <1>3, <1>4 DEF Basics

\* Folders that are there are deleted, and nothing else.
LEMMA DeleteBasics ==
    ASSUME Basics, plan' = plan, NEW F, F \subseteq Folders, \A f \in F : Present(f),
           DeleteRows(F), filed' \in [Items -> Folders \cup {Root, Gone}],
           cascades' \subseteq cascades,
           UNCHANGED <<nextId, nextSalt, tokens, updates, committed, serial, edits>>
    PROVE  Basics'
<1>0. TypeOK
  BY DEF Basics
<1>1. /\ folder' \in [Folders -> Rows] /\ Deleted.st = "deleted"
      /\ \A f \in F : folder'[f] = Deleted
      /\ \A f \in Folders \ F : /\ folder'[f].st = folder[f].st
                                /\ folder'[f].pw = folder[f].pw
                                /\ folder'[f].hint = folder[f].hint
  BY <1>0, DeletedFields
<1>2. TypeOK'
  BY <1>0, <1>1, SamePlan DEF TypeOK
<1>3. Numbered'
  BY <1>1, SamePlan DEF Basics, Numbered, Present
<1>4. HintHasPassword'
  BY <1>1, SamePlan DEF Basics, HintHasPassword, Present
<1>5. \A u \in updates' : UpdateChecked(u)'
  BY CheckedStays DEF Basics
<1> QED BY <1>2, <1>3, <1>4, <1>5 DEF Basics

\* A step of a cascade or of an edit of a link changes nothing else.
LEMMA OthersBasics ==
    ASSUME Basics, plan' = plan, cascades' \subseteq Cascades, edits' \subseteq Edits,
           filed' \in [Items -> Folders \cup {Root, Gone}],
           UNCHANGED <<folder, nextId, nextSalt, tokens, updates, committed, serial>>
    PROVE  Basics'
<1>1. TypeOK'
  BY SamePlan DEF Basics, TypeOK
<1>2. Numbered' /\ HintHasPassword'
  BY FoldersStay DEF Basics
<1>3. \A u \in updates' : UpdateChecked(u)'
  BY CheckedStays DEF Basics
<1> QED BY <1>1, <1>2, <1>3 DEF Basics

-------------------------------------------------------------------------------
(***************************************************************************)
(* Locks, and what is known under them.                                    *)
(***************************************************************************)

\* A folder keeps what a lock is held for: that it is there, and its password.
Stays(f) == folder'[f].st = folder[f].st /\ folder'[f].salt = folder[f].salt

\* What a cascade in flight has learnt stays true while the rows it holds stay, and nothing
\* else that it knows of comes back.
LEMMA CascadeStays ==
    ASSUME TypeOK, NEW c \in cascades, CascadeChecked(c), plan' = plan, nextId' >= nextId,
           nextId' \in Nat,
           \A f \in c.held : Stays(f),
           \A f \in Folders : f < nextId => (folder'[f].st = "present" => Present(f))
    PROVE  CascadeChecked(c)'
<1>1. c.held \subseteq Folders /\ c.subtree \subseteq Folders /\ c.root \in Folders
  BY CascadeFields
<1>2. \A f \in c.held : folder'[f].st = "present"
  BY DEF CascadeChecked, Present, Stays
<1>3. \A f \in c.subtree : f < nextId'
  BY <1>1 DEF CascadeChecked, Folders, TypeOK
<1>4. c.phase # "locking" => c.root \in c.held /\ Opens(c.token, c.root, folder'[c.root].salt)
  BY DEF CascadeChecked, Stays
<1>5. c.phase = "locked" =>
         \A f \in c.subtree : folder'[f].st = "present" =>
             f \in c.held /\ (f # c.root => folder'[f].salt = 0)
  BY <1>1 DEF CascadeChecked, Stays
<1> QED BY <1>2, <1>3, <1>4, <1>5 DEF CascadeChecked, Present, Opens

\* The same for an edit of a link.
LEMMA EditStays ==
    ASSUME TypeOK, NEW e \in edits, EditChecked(e), plan' = plan, nextId' >= nextId,
           nextId' \in Nat,
           e.phase # "read" /\ e.folder \in Folders => Stays(e.folder),
           e.phase = "item" => filed'[e.item] = filed[e.item]
    PROVE  EditChecked(e)'
<1>1. e.folder \in Folders => e.folder < nextId'
  BY DEF EditChecked, Folders, TypeOK
<1>2. e.phase # "read" /\ e.folder \in Folders /\ folder'[e.folder].st = "present" =>
         e.salt = folder'[e.folder].salt
  BY DEF EditChecked, Stays, Present
<1>3. e.phase = "item" =>
          /\ filed'[e.item] = e.folder
          /\ e.folder = Root \/ Opens(e.token, e.folder, e.salt)
  BY DEF EditChecked
<1> QED BY <1>1, <1>2, <1>3, SamePlan DEF EditChecked, Present, Opens

\* A write to folders keeps what is known under locks if it spares what others have in hand.
LEMMA FoldersChange ==
    ASSUME IInv, plan' = plan, nextId' >= nextId, nextId' \in Nat,
           cascades' \subseteq cascades, edits' = edits,
           \A f \in Folders : f < nextId => (folder'[f].st = "present" => Present(f)),
           \A c \in cascades' : \A f \in c.held : Stays(f),
           \A e \in edits : e.phase # "read" /\ e.folder \in Folders => Stays(e.folder),
           \A e \in edits : e.phase = "item" => filed'[e.item] = filed[e.item]
    PROVE  LocksHold'
<1>0. TypeOK
  BY DEF IInv
<1>1. CascadesExclude' /\ LocksExclude' /\ EditsExclude'
  BY DEF IInv, LocksHold, CascadesExclude, LocksExclude, EditsExclude
<1>2. \A c \in cascades' : CascadeChecked(c)'
  <2> SUFFICES ASSUME NEW c \in cascades'
               PROVE  CascadeChecked(c)'
    OBVIOUS
  <2>1. c \in cascades /\ CascadeChecked(c)
    BY DEF IInv, LocksHold
  <2> QED BY <1>0, <2>1, CascadeStays
<1>3. \A e \in edits' : EditChecked(e)'
  <2> SUFFICES ASSUME NEW e \in edits
               PROVE  EditChecked(e)'
    OBVIOUS
  <2>1. EditChecked(e)
    BY DEF IInv, LocksHold
  <2> QED BY <1>0, <2>1, EditStays
<1> QED BY <1>1, <1>2, <1>3 DEF LocksHold

\* Nothing moves under the locks when no folder and no item does.
LEMMA NothingChanges ==
    ASSUME IInv, plan' = plan, folder' = folder, filed' = filed, nextId' = nextId,
           cascades' \subseteq cascades, edits' = edits
    PROVE  LocksHold' /\ FiledExist'
<1>1. nextId' \in Nat /\ nextId' >= nextId
  BY PlanFields DEF IInv, TypeOK
<1>2. \A f \in Folders : Stays(f)
  BY DEF Stays
<1>3. \A c \in cascades : c.held \subseteq Folders
  BY CascadeFields DEF IInv
<1>4. LocksHold'
  BY <1>1, <1>2, <1>3, FoldersChange DEF Present
<1>5. FiledExist'
  BY SamePlan DEF IInv, FiledExist, Present
<1> QED BY <1>4, <1>5

\* One folder that nobody has in hand changes.
LEMMA OneFolder ==
    ASSUME IInv, plan' = plan, NEW f \in Folders, Writable(f), filed' = filed, nextId' = nextId,
           cascades' = cascades, edits' = edits, folder'[f].st = folder[f].st,
           \A g \in Folders : g # f => folder'[g] = folder[g]
    PROVE  LocksHold' /\ FiledExist'
<1>1. nextId' \in Nat /\ nextId' >= nextId
  BY PlanFields DEF IInv, TypeOK
<1>2. \A g \in Folders : g # f => Stays(g)
  BY DEF Stays
<1>3. \A c \in cascades : c.held \subseteq Folders /\ f \notin c.held
  BY CascadeFields DEF IInv, Writable, HeldByCascade
<1>4. \A e \in edits : e.phase # "read" => e.folder # f
  BY DEF Writable, HeldByEdit
<1>5. LocksHold'
  BY <1>1, <1>2, <1>3, <1>4, FoldersChange DEF Present
<1>6. FiledExist'
  BY SamePlan DEF IInv, FiledExist, Present
<1> QED BY <1>5, <1>6

\* A token, a reset, a creation.
LEMMA FolderKeepsLocks ==
    ASSUME IInv, plan' = plan, NEW f \in Folders, Unlock(f) \/ ResetPasswordByMaster(f)
    PROVE  IInv'
<1>0. TypeOK /\ Basics
  BY DEF IInv, Basics
<1>1. CASE Unlock(f)
  <2>1. Basics'
    BY <1>0, <1>1, UnlockBasics
  <2>2. LocksHold' /\ FiledExist'
    BY <1>1, NothingChanges DEF Unlock
  <2> QED BY <2>1, <2>2 DEF Basics, IInv
<1>2. CASE ResetPasswordByMaster(f)
  <2>1. Basics'
    BY <1>0, <1>2, ResetBasics
  <2>2. folder'[f].st = folder[f].st /\ \A g \in Folders : g # f => folder'[g] = folder[g]
    <3>1. folder[f] \in Rows
      BY <1>0, FolderRow
    <3> QED BY <3>1, <1>0, <1>2 DEF ResetPasswordByMaster, TypeOK, Rows
  <2>3. LocksHold' /\ FiledExist'
    BY <1>2, <2>2, OneFolder DEF ResetPasswordByMaster
  <2> QED BY <2>1, <2>3 DEF Basics, IInv
<1> QED BY <1>1, <1>2

\* A new folder is in nobody's hand.
LEMMA CreateKeeps ==
    ASSUME IInv, plan' = plan, NEW p \in Folders \cup {Root}, NEW pw \in Passwords \cup {None},
           NEW h \in Passwords \cup {None}, CreateFolder(p, pw, h)
    PROVE  IInv'
<1>0. TypeOK /\ Basics
  BY DEF IInv, Basics
<1>1. /\ Basics' /\ nextId \in Folders /\ folder'[nextId].st = "present"
      /\ \A g \in Folders : g # nextId => folder'[g] = folder[g]
  BY <1>0, CreateBasics
<1>2. nextId \in Nat /\ nextId' = nextId + 1 /\ nextId' \in Nat /\ nextId' >= nextId
  BY <1>0, PlanFields DEF CreateFolder, TypeOK
<1>3. ~Present(nextId)
  BY <1>1, <1>2 DEF IInv, Numbered, Present
<1>4. \A g \in Folders : g # nextId => Stays(g)
  BY <1>1 DEF Stays
<1>5. \A c \in cascades : c.held \subseteq Folders /\ nextId \notin c.held
  BY <1>0, <1>3, CascadeFields DEF IInv, LocksHold, CascadeChecked
<1>6. \A e \in edits : e.folder \in Folders => e.folder # nextId
  BY <1>2 DEF IInv, LocksHold, EditChecked
<1>7. \A f \in Folders : f < nextId => f # nextId
  BY <1>2
<1>8. LocksHold'
  BY <1>1, <1>2, <1>4, <1>5, <1>6, <1>7, FoldersChange DEF CreateFolder, Present
<1>9. FiledExist'
  BY <1>1, SamePlan DEF CreateFolder, IInv, FiledExist, Present
<1> QED BY <1>1, <1>8, <1>9 DEF Basics, IInv

\* The edits of folders: only a commit writes, and it waits for the row.
LEMMA UpdateKeeps ==
    ASSUME IInv, plan' = plan,
           \/ \E f \in Folders, in \in Patches : UpdateBegin(f, in)
           \/ \E u \in updates : UpdateCommit(u) \/ UpdateRetry(u) \/ UpdateAbort(u)
    PROVE  IInv'
<1>0. TypeOK /\ Basics
  BY DEF IInv, Basics
<1>1. ASSUME NEW f \in Folders, NEW in \in Patches, UpdateBegin(f, in)  PROVE IInv'
  <2>1. Basics'
    BY <1>0, <1>1, BeginBasics
  <2>2. LocksHold' /\ FiledExist'
    BY <1>1, NothingChanges DEF UpdateBegin
  <2> QED BY <2>1, <2>2 DEF Basics, IInv
<1>2. ASSUME NEW u \in updates, UpdateCommit(u)  PROVE IInv'
  <2>1. /\ Basics'
        /\ \A g \in Folders : g # u.id => folder'[g] = folder[g]
        /\ folder'[u.id].st = folder[u.id].st
    BY <1>0, <1>2, CommitBasics
  <2>2. u.id \in Folders
    BY <1>0, UpdateFields
  <2>3. LocksHold' /\ FiledExist'
    BY <1>2, <2>1, <2>2, OneFolder DEF UpdateCommit
  <2> QED BY <2>1, <2>3 DEF Basics, IInv
<1>3. ASSUME NEW u \in updates, UpdateRetry(u)  PROVE IInv'
  <2>1. Basics'
    BY <1>0, <1>3, RetryBasics
  <2>2. LocksHold' /\ FiledExist'
    BY <1>3, NothingChanges DEF UpdateRetry
  <2> QED BY <2>1, <2>2 DEF Basics, IInv
<1>4. ASSUME NEW u \in updates, UpdateAbort(u)  PROVE IInv'
  <2>1. Basics'
    BY <1>0, <1>4, AbortBasics
  <2>2. LocksHold' /\ FiledExist'
    BY <1>4, NothingChanges DEF UpdateAbort
  <2> QED BY <2>1, <2>2 DEF Basics, IInv
<1> QED BY <1>1, <1>2, <1>3, <1>4

\* A deletion keeps what is known if nobody else has its folders or their contents in hand.
LEMMA DeletionKeeps ==
    ASSUME IInv, plan' = plan, NEW F, F \subseteq Folders, \A f \in F : Present(f),
           NEW x \in {Root, Gone},
           filed' = [i \in Items |-> IF filed[i] \in F THEN x ELSE filed[i]],
           DeleteRows(F), cascades' \subseteq cascades,
           UNCHANGED <<nextId, nextSalt, tokens, updates, committed, serial, edits>>,
           \A c \in cascades' : c.held \cap F = {},
           \A e \in edits : e.phase # "read" => e.folder \notin F,
           \A i \in FiledIn(F) : ItemFree(i)
    PROVE  IInv'
<1>0. TypeOK /\ Basics
  BY DEF IInv, Basics
<1>1. filed' \in [Items -> Folders \cup {Root, Gone}]
  BY <1>0 DEF TypeOK
<1>2. Basics'
  BY <1>0, <1>1, DeleteBasics
<1>3. /\ \A f \in F : folder'[f] = Deleted
      /\ \A f \in Folders \ F : Stays(f)
      /\ Deleted.st = "deleted"
  BY <1>0, DeletedFields DEF Stays
<1>4. nextId' \in Nat /\ nextId' >= nextId
  BY <1>0, PlanFields DEF TypeOK
<1>5. \A f \in Folders : folder'[f].st = "present" => Present(f)
  BY <1>3 DEF Present, Stays
<1>6. \A c \in cascades' : \A f \in c.held : Stays(f)
  BY <1>0, <1>3, CascadeFields
<1>7. \A e \in edits : e.phase # "read" /\ e.folder \in Folders => Stays(e.folder)
  BY <1>3
<1>8. \A e \in edits : e.phase = "item" => filed'[e.item] = filed[e.item]
  <2> SUFFICES ASSUME NEW e \in edits, e.phase = "item"
               PROVE  filed'[e.item] = filed[e.item]
    OBVIOUS
  <2>1. e.item \in Items
    BY <1>0, EditFields
  <2>2. e.item \notin FiledIn(F)
    BY DEF ItemFree
  <2> QED BY <2>1, <2>2 DEF FiledIn
<1>9. LocksHold'
  BY <1>4, <1>5, <1>6, <1>7, <1>8, FoldersChange
<1>10. FiledExist'
  <2> SUFFICES ASSUME NEW i \in Items, filed'[i] \in Folders
               PROVE  folder'[filed'[i]].st = "present"
    BY SamePlan DEF FiledExist, Present
  <2>1. filed'[i] = filed[i] /\ filed[i] \notin F
    BY <1>0, NotFolders
  <2> QED BY <2>1, <1>3 DEF IInv, FiledExist, Present, Stays
<1> QED BY <1>2, <1>9, <1>10 DEF Basics, IInv

\* The delete that spares the contents.
LEMMA DeleteFolderKeeps ==
    ASSUME IInv, plan' = plan, NEW f \in Folders, NEW t, DeleteFolder(f, t)
    PROVE  IInv'
<1>0. TypeOK
  BY DEF IInv
<1>1. Present(f) /\ Writable(f) /\ DeleteRows({f}) /\ \A i \in FiledIn({f}) : ItemFree(i)
  BY DEF DeleteFolder
<1>2. \A c \in cascades : f \notin c.held
  BY <1>1 DEF Writable, HeldByCascade
<1>3. \A e \in edits : e.phase # "read" => e.folder # f
  BY <1>1 DEF Writable, HeldByEdit
<1>4. filed' = [i \in Items |-> IF filed[i] \in {f} THEN Root ELSE filed[i]]
  BY DEF DeleteFolder
<1>5. /\ cascades' = cascades
      /\ UNCHANGED <<nextId, nextSalt, tokens, updates, committed, serial, edits>>
  BY DEF DeleteFolder
<1>6. /\ {f} \subseteq Folders /\ \A g \in {f} : Present(g)
      /\ \A c \in cascades' : c.held \cap {f} = {}
      /\ \A e \in edits : e.phase # "read" => e.folder \notin {f}
  BY <1>1, <1>2, <1>3, <1>5
<1> QED BY <1>1, <1>4, <1>5, <1>6, DeletionKeeps

\* What a cascade that holds its locks deletes.
Doomed(c) == {f \in c.subtree : Present(f)}

\* A cascade deletes what it holds.
LEMMA CascadeDeleteKeeps ==
    ASSUME IInv, plan' = plan, NEW c \in cascades, CascadeDelete(c)
    PROVE  IInv'
<1>0. TypeOK
  BY DEF IInv
<1>1. PICK F : F = Doomed(c)
  OBVIOUS
<1>2. /\ F \subseteq Folders /\ F \subseteq c.held /\ \A f \in F : Present(f)
  BY <1>0, <1>1, CascadeFields DEF CascadeDelete, Doomed, IInv, LocksHold, CascadeChecked
<1>3. /\ DeleteRows(F) /\ \A i \in FiledIn(F) : ItemFree(i)
      /\ filed' = [i \in Items |-> IF filed[i] \in F THEN Gone ELSE filed[i]]
      /\ cascades' = cascades \ {c}
      /\ UNCHANGED <<nextId, nextSalt, tokens, updates, committed, serial, edits>>
  BY <1>1 DEF CascadeDelete, Doomed
<1>4. \A d \in cascades' : d.held \cap F = {}
  BY <1>2, <1>3 DEF IInv, LocksHold, CascadesExclude
<1>5. \A e \in edits : e.phase # "read" => e.folder \notin F
  BY <1>2 DEF IInv, LocksHold, LocksExclude
<1> QED BY <1>2, <1>3, <1>4, <1>5, DeletionKeeps

\* A cascade that goes on knows what it should if what it newly holds was free.
LEMMA CascadeGoesOn ==
    ASSUME IInv, plan' = plan, NEW c \in cascades, NEW d \in Cascades, Becomes(c, d),
           UNCHANGED <<folder, filed, nextId, nextSalt, tokens, updates, committed, serial, edits>>,
           CascadeChecked(d), \A f \in d.held \ c.held : Writable(f)
    PROVE  IInv'
<1>0. TypeOK /\ Basics
  BY DEF IInv, Basics
<1>1. cascades' = (cascades \ {c}) \cup {d}
  BY DEF Becomes
<1>2. Basics'
  <2>1. cascades' \subseteq Cascades /\ edits' \subseteq Edits
        /\ filed' \in [Items -> Folders \cup {Root, Gone}]
    BY <1>0, <1>1 DEF TypeOK
  <2> QED BY <1>0, <2>1, OthersBasics
<1>3. \A x \in cascades \ {c} : x.held \cap d.held = {}
  <2> SUFFICES ASSUME NEW x \in cascades, x # c, NEW f \in d.held, f \in x.held
               PROVE  FALSE
    OBVIOUS
  <2>1. f \notin c.held
    BY DEF IInv, LocksHold, CascadesExclude
  <2>2. Writable(f)
    BY <2>1
  <2> QED BY <2>2 DEF Writable, HeldByCascade
<1>4. CascadesExclude'
  <2>1. \A x, y \in cascades \ {c} : x # y => x.held \cap y.held = {}
    BY DEF IInv, LocksHold, CascadesExclude
  <2> QED BY <1>1, <1>3, <2>1 DEF CascadesExclude
<1>5. LocksExclude'
  <2> SUFFICES ASSUME NEW x \in cascades', NEW e \in edits, e.phase # "read", e.folder \in x.held
               PROVE  FALSE
    BY DEF LocksExclude
  <2>1. x = d /\ e.folder \notin c.held
    BY <1>1 DEF IInv, LocksHold, LocksExclude
  <2>2. Writable(e.folder)
    BY <2>1
  <2> QED BY <2>2 DEF Writable, HeldByEdit
<1>6. EditsExclude' /\ FiledExist'
  BY SamePlan DEF IInv, LocksHold, EditsExclude, FiledExist, Present
<1>7. \A x \in cascades' : CascadeChecked(x)'
  <2> SUFFICES ASSUME NEW x \in cascades'
               PROVE  CascadeChecked(x)'
    OBVIOUS
  <2>1. CascadeChecked(x)
    BY <1>1 DEF IInv, LocksHold
  <2> QED BY <2>1 DEF CascadeChecked, Present, Opens
<1>8. \A e \in edits' : EditChecked(e)'
  <2> SUFFICES ASSUME NEW e \in edits
               PROVE  EditChecked(e)'
    OBVIOUS
  <2>1. EditChecked(e)
    BY DEF IInv, LocksHold
  <2> QED BY <2>1, SamePlan DEF EditChecked, Present, Opens
<1> QED BY <1>2, <1>4, <1>5, <1>6, <1>7, <1>8 DEF Basics, IInv, LocksHold

\* A cascade begins with nothing held.
LEMMA CascadeBeginKeeps ==
    ASSUME IInv, plan' = plan, NEW f \in Folders, NEW t \in tokens \cup {NoToken},
           CascadeBegin(f, t)
    PROVE  IInv'
<1>0. TypeOK /\ Basics
  BY DEF IInv, Basics
<1>1. PICK d : d = [root |-> f, token |-> t, phase |-> "locking", held |-> {}, subtree |-> {},
                    seen |-> {g \in Folders : Present(g)}, todo |-> {g \in Folders : Present(g)}]
  OBVIOUS
<1>2. cascades' = cascades \cup {d}
  BY <1>1 DEF CascadeBegin
<1>3. d \in Cascades
  <2>1. t \in Tokens \cup {NoToken}
    BY <1>0 DEF TypeOK
  <2>2. {g \in Folders : Present(g)} \in SUBSET Folders
    OBVIOUS
  <2> QED BY <1>1, <2>1, <2>2 DEF Cascades
<1>4. d.held = {} /\ d.subtree = {} /\ d.phase = "locking"
  BY <1>1
<1>5. Basics'
  <2>1. cascades' \subseteq Cascades /\ edits' \subseteq Edits
        /\ filed' \in [Items -> Folders \cup {Root, Gone}]
    BY <1>0, <1>2, <1>3 DEF TypeOK, CascadeBegin
  <2> QED BY <1>0, <2>1, OthersBasics DEF CascadeBegin
<1>6. CascadesExclude' /\ LocksExclude' /\ EditsExclude' /\ FiledExist'
  BY <1>2, <1>4, SamePlan
     DEF CascadeBegin, IInv, LocksHold, CascadesExclude, LocksExclude, EditsExclude, FiledExist,
         Present
<1>7. \A x \in cascades' : CascadeChecked(x)'
  <2> SUFFICES ASSUME NEW x \in cascades'
               PROVE  CascadeChecked(x)'
    OBVIOUS
  <2>1. CascadeChecked(x)
    BY <1>2, <1>4 DEF IInv, LocksHold, CascadeChecked
  <2> QED BY <2>1 DEF CascadeBegin, CascadeChecked, Present, Opens
<1>8. \A e \in edits' : EditChecked(e)'
  <2> SUFFICES ASSUME NEW e \in edits
               PROVE  EditChecked(e)'
    BY DEF CascadeBegin
  <2>1. EditChecked(e)
    BY DEF IInv, LocksHold
  <2> QED BY <2>1, SamePlan DEF CascadeBegin, EditChecked, Present, Opens
<1> QED BY <1>5, <1>6, <1>7, <1>8 DEF Basics, IInv, LocksHold

\* It locks one folder after the other.
LEMMA CascadeLockKeeps ==
    ASSUME IInv, plan' = plan, NEW c \in cascades, CascadeLock(c)
    PROVE  IInv'
<1>0. TypeOK
  BY DEF IInv
<1>1. PICK f \in c.todo :
         /\ Present(f) => Writable(f)
         /\ Becomes(c, [c EXCEPT !.todo = @ \ {f},
                                 !.held = IF Present(f) THEN @ \cup {f} ELSE @])
  BY DEF CascadeLock
<1>2. PICK d : d = [c EXCEPT !.todo = @ \ {f}, !.held = IF Present(f) THEN @ \cup {f} ELSE @]
  OBVIOUS
<1>3. f \in Folders /\ c \in Cascades /\ c.phase = "locking"
  BY <1>0, CascadeFields DEF CascadeLock
<1>4. /\ d \in Cascades /\ d.held = (IF Present(f) THEN c.held \cup {f} ELSE c.held)
      /\ d.subtree = c.subtree /\ d.phase = "locking"
  <2>1. (IF Present(f) THEN c.held \cup {f} ELSE c.held) \in SUBSET Folders
    BY <1>0, <1>3, CascadeFields
  <2> QED BY <1>2, <1>3, <2>1 DEF Cascades
<1>5. CascadeChecked(d)
  BY <1>4 DEF IInv, LocksHold, CascadeChecked
<1>6. \A g \in d.held \ c.held : Writable(g)
  BY <1>1, <1>4
<1> QED BY <1>1, <1>2, <1>4, <1>5, <1>6, CascadeGoesOn DEF CascadeLock

\* It checks the token of the root that it holds, and reads the subtree.
LEMMA CascadeMarkKeeps ==
    ASSUME IInv, plan' = plan, NEW c \in cascades, CascadeMark(c)
    PROVE  IInv'
<1>0. TypeOK
  BY DEF IInv
<1>1. PICK d : d = [c EXCEPT !.phase = "marked", !.held = @ \cup {c.root},
                             !.subtree = Subtree(c.root)]
  OBVIOUS
<1>2. c \in Cascades /\ c.root \in Folders /\ c.held \subseteq Folders
  BY <1>0, CascadeFields
<1>3. Subtree(c.root) \subseteq Folders /\ \A f \in Subtree(c.root) : Present(f)
  BY DEF Subtree
<1>4. /\ d \in Cascades /\ d.held = c.held \cup {c.root} /\ d.subtree = Subtree(c.root)
      /\ d.phase = "marked" /\ d.root = c.root /\ d.token = c.token
  <2>1. c.held \cup {c.root} \in SUBSET Folders /\ Subtree(c.root) \in SUBSET Folders
    BY <1>2, <1>3
  <2> QED BY <1>1, <1>2, <2>1 DEF Cascades
<1>5. Present(c.root) /\ Opens(c.token, c.root, folder[c.root].salt)
  BY DEF CascadeMark, RootAuthorized
<1>6. \A f \in d.subtree : f < nextId
  <2> SUFFICES ASSUME NEW f \in Folders, Present(f)
               PROVE  f < nextId
    BY <1>3, <1>4
  <2>1. f \in Int /\ nextId \in Int /\ ~(f >= nextId)
    BY <1>0 DEF IInv, Numbered, Present, TypeOK, Folders
  <2> QED BY <2>1
<1>7. CascadeChecked(d)
  BY <1>4, <1>5, <1>6 DEF IInv, LocksHold, CascadeChecked
<1>8. \A g \in d.held \ c.held : Writable(g)
  BY <1>4 DEF CascadeMark
<1> QED BY <1>1, <1>4, <1>7, <1>8, CascadeGoesOn DEF CascadeMark

\* It locks what is left of the subtree, and finds no password there.
LEMMA CascadeLockSubtreeKeeps ==
    ASSUME IInv, plan' = plan, NEW c \in cascades, CascadeLockSubtree(c)
    PROVE  IInv'
<1>0. TypeOK
  BY DEF IInv
<1>1. PICK F : F = Doomed(c)
  OBVIOUS
<1>2. PICK d : d = [c EXCEPT !.phase = "locked", !.held = @ \cup F]
  OBVIOUS
<1>3. /\ c.phase = "marked" /\ \A f \in F \ c.held : Writable(f)
      /\ Protected(F, c.root) = {} /\ Becomes(c, d)
      /\ UNCHANGED <<folder, filed, nextId, nextSalt, tokens, updates, committed, serial, edits>>
  BY <1>1, <1>2 DEF CascadeLockSubtree, Doomed
<1>4. c \in Cascades /\ c.held \subseteq Folders /\ F \subseteq Folders
  BY <1>0, <1>1, CascadeFields DEF Doomed
<1>5. /\ d \in Cascades /\ d.held = c.held \cup F /\ d.subtree = c.subtree
      /\ d.phase = "locked" /\ d.root = c.root /\ d.token = c.token
  <2>1. c.held \cup F \in SUBSET Folders
    BY <1>4
  <2> QED BY <1>2, <1>4, <2>1 DEF Cascades
<1>6. \A f \in F : f # c.root => folder[f].salt = 0
  BY <1>3 DEF Protected
<1>7. CascadeChecked(d)
  BY <1>1, <1>3, <1>5, <1>6 DEF IInv, LocksHold, CascadeChecked, Doomed
<1>8. \A g \in d.held \ c.held : Writable(g)
  BY <1>3, <1>5
<1> QED BY <1>3, <1>5, <1>7, <1>8, CascadeGoesOn

\* A cascade that gives up gives up its locks.
LEMMA CascadeAbortKeeps ==
    ASSUME IInv, plan' = plan, NEW c \in cascades, CascadeAbort(c)
    PROVE  IInv'
<1>0. TypeOK /\ Basics
  BY DEF IInv, Basics
<1>1. Basics'
  <2>1. cascades' \subseteq Cascades /\ edits' \subseteq Edits
        /\ filed' \in [Items -> Folders \cup {Root, Gone}]
    BY <1>0 DEF TypeOK, CascadeAbort
  <2> QED BY <1>0, <2>1, OthersBasics DEF CascadeAbort
<1>2. LocksHold' /\ FiledExist'
  BY NothingChanges DEF CascadeAbort
<1> QED BY <1>1, <1>2 DEF Basics, IInv

\* An edit of a link goes on, or ends, as E; what it newly has in hand was free.
LEMMA EditGoesOn ==
    ASSUME IInv, plan' = plan, NEW E, E \subseteq Edits, edits' = E,
           UNCHANGED <<folder, nextId, nextSalt, tokens, updates, committed, serial, cascades>>,
           filed' \in [Items -> Folders \cup {Root, Gone}], FiledExist',
           \A e \in E : EditChecked(e)',
           \A e \in E : e.phase # "read" => \A c \in cascades : e.folder \notin c.held,
           \A d, e \in E : d.phase = "item" /\ e.phase = "item" /\ d.item = e.item => d = e
    PROVE  IInv'
<1>0. TypeOK /\ Basics
  BY DEF IInv, Basics
<1>1. Basics'
  <2>1. cascades' \subseteq Cascades /\ edits' \subseteq Edits
    BY <1>0 DEF TypeOK
  <2> QED BY <1>0, <2>1, OthersBasics
<1>2. CascadesExclude' /\ LocksExclude' /\ EditsExclude'
  BY DEF IInv, LocksHold, CascadesExclude, LocksExclude, EditsExclude
<1>3. \A c \in cascades' : CascadeChecked(c)'
  <2> SUFFICES ASSUME NEW c \in cascades
               PROVE  CascadeChecked(c)'
    OBVIOUS
  <2>1. CascadeChecked(c)
    BY DEF IInv, LocksHold
  <2> QED BY <2>1 DEF CascadeChecked, Present, Opens
<1> QED BY <1>1, <1>2, <1>3 DEF Basics, IInv, LocksHold

\* What an edit knows stays known while its folder and item do.
LEMMA EditKnows ==
    ASSUME NEW e, EditChecked(e), plan' = plan, folder' = folder, nextId' = nextId,
           e.phase = "item" => filed'[e.item] = filed[e.item]
    PROVE  EditChecked(e)'
  BY SamePlan DEF EditChecked, Present, Opens

\* An edit begins with the folder that it read.
LEMMA EditBeginKeeps ==
    ASSUME IInv, plan' = plan, NEW i \in Items, NEW op \in Folders \cup {Root, Gone},
           NEW t \in tokens \cup {NoToken}, EditBegin(i, op, t)
    PROVE  IInv'
<1>0. TypeOK
  BY DEF IInv
<1>1. PICK d : d = [item |-> i, op |-> op, token |-> t, phase |-> "read",
                    folder |-> filed[i], salt |-> 0]
  OBVIOUS
<1>2. edits' = edits \cup {d}
  BY <1>1 DEF EditBegin
<1>3. d \in Edits
  <2>1. t \in Tokens \cup {NoToken} /\ filed[i] \in Folders \cup {Root}
    BY <1>0 DEF TypeOK, EditBegin
  <2>2. 0 \in Salts
    BY <1>0, PlanFields DEF Salts
  <2> QED BY <1>1, <2>1, <2>2 DEF Edits
<1>4. d.phase = "read" /\ d.folder = filed[i]
  BY <1>1
<1>5. EditChecked(d)
  <2>1. d.folder \in Folders => d.folder < nextId
    <3> SUFFICES ASSUME NEW f \in Folders, Present(f)
                 PROVE  f < nextId
      BY <1>4 DEF IInv, FiledExist
    <3>1. f \in Int /\ nextId \in Int /\ ~(f >= nextId)
      BY <1>0 DEF IInv, Numbered, Present, TypeOK, Folders
    <3> QED BY <3>1
  <2> QED BY <1>4, <2>1 DEF EditChecked
<1>6. \A e \in edits' : EditChecked(e)'
  BY <1>2, <1>5, EditKnows DEF IInv, LocksHold, EditBegin
<1>7. \A e \in edits' : e.phase # "read" => \A c \in cascades : e.folder \notin c.held
  BY <1>2, <1>4 DEF IInv, LocksHold, LocksExclude
<1>8. \A x, y \in edits' : x.phase = "item" /\ y.phase = "item" /\ x.item = y.item => x = y
  BY <1>2, <1>4 DEF IInv, LocksHold, EditsExclude
<1>9. edits' \subseteq Edits /\ filed' \in [Items -> Folders \cup {Root, Gone}] /\ FiledExist'
  BY <1>0, <1>2, <1>3, SamePlan DEF TypeOK, EditBegin, IInv, FiledExist, Present
<1>10. UNCHANGED <<folder, nextId, nextSalt, tokens, updates, committed, serial, cascades>>
  BY DEF EditBegin
<1> QED BY <1>6, <1>7, <1>8, <1>9, <1>10, EditGoesOn

\* It reads the hash of the folder that it locks; a folder that is gone is never back.
LEMMA EditLockFolderKeeps ==
    ASSUME IInv, plan' = plan, NEW e \in edits, EditLockFolder(e)
    PROVE  IInv'
<1>0. TypeOK
  BY DEF IInv
<1>1. PICK there : there = (e.folder # Root /\ Present(e.folder))
  OBVIOUS
<1>2. PICK d : d = [e EXCEPT !.phase = "folder",
                             !.salt = IF there THEN folder[e.folder].salt ELSE 0]
  OBVIOUS
<1>3. /\ edits' = (edits \ {e}) \cup {d} /\ e.phase = "read" /\ (there => Writable(e.folder))
      /\ UNCHANGED <<folder, filed, nextId, nextSalt, tokens, updates, committed, serial, cascades>>
  BY <1>1, <1>2 DEF EditLockFolder
<1>4. e \in Edits /\ e.folder \in Folders \cup {Root}
  BY <1>0, EditFields
<1>5. /\ d \in Edits /\ d.phase = "folder" /\ d.folder = e.folder
      /\ d.salt = (IF there THEN folder[e.folder].salt ELSE 0)
  <2>1. (IF there THEN folder[e.folder].salt ELSE 0) \in Salts
    <3>1. 0 \in Salts
      BY <1>0, PlanFields DEF Salts
    <3> QED BY <1>0, <1>1, <1>4, <3>1, FolderRow, RowFields
  <2> QED BY <1>2, <1>4, <2>1 DEF Edits
<1>6. EditChecked(d)
  <2>1. EditChecked(e)
    BY DEF IInv, LocksHold
  <2>2. Root \notin Folders
    BY <1>0, NotFolders
  <2> QED BY <1>1, <1>5, <2>1, <2>2 DEF EditChecked
<1>7. \A x \in edits' : EditChecked(x)'
  BY <1>3, <1>6, EditKnows DEF IInv, LocksHold
<1>8. \A c \in cascades : d.folder \notin c.held
  <2> SUFFICES ASSUME NEW c \in cascades, e.folder \in c.held
               PROVE  FALSE
    BY <1>5
  <2>1. Present(e.folder) /\ e.folder \in Folders
    BY <1>0, CascadeFields DEF IInv, LocksHold, CascadeChecked
  <2>2. Writable(e.folder)
    BY <1>0, <1>1, <1>3, <2>1, NotFolders
  <2> QED BY <2>2 DEF Writable, HeldByCascade
<1>9. \A x \in edits' : x.phase # "read" => \A c \in cascades : x.folder \notin c.held
  BY <1>3, <1>8 DEF IInv, LocksHold, LocksExclude
<1>10. \A x, y \in edits' : x.phase = "item" /\ y.phase = "item" /\ x.item = y.item => x = y
  BY <1>3, <1>5 DEF IInv, LocksHold, EditsExclude
<1>11. edits' \subseteq Edits /\ filed' \in [Items -> Folders \cup {Root, Gone}] /\ FiledExist'
  BY <1>0, <1>3, <1>5, SamePlan DEF TypeOK, IInv, FiledExist, Present
<1> QED BY <1>3, <1>7, <1>9, <1>10, <1>11, EditGoesOn

\* It locks its item, finds it where it was, and checks the token.
LEMMA EditLockItemKeeps ==
    ASSUME IInv, plan' = plan, NEW e \in edits, EditLockItem(e)
    PROVE  IInv'
<1>0. TypeOK
  BY DEF IInv
<1>1. PICK d : d = [e EXCEPT !.phase = "item"]
  OBVIOUS
<1>2. /\ edits' = (edits \ {e}) \cup {d} /\ e.phase = "folder" /\ ItemFree(e.item)
      /\ filed[e.item] = e.folder
      /\ e.folder = Root \/ Opens(e.token, e.folder, e.salt)
      /\ UNCHANGED <<folder, filed, nextId, nextSalt, tokens, updates, committed, serial, cascades>>
  BY <1>1 DEF EditLockItem, StillFiled
<1>3. e \in Edits
  BY <1>0, EditFields
<1>4. /\ d \in Edits /\ d.phase = "item" /\ d.folder = e.folder /\ d.item = e.item
      /\ d.token = e.token /\ d.salt = e.salt
  BY <1>1, <1>3 DEF Edits
<1>5. EditChecked(d)
  BY <1>2, <1>4 DEF IInv, LocksHold, EditChecked
<1>6. \A x \in edits' : EditChecked(x)'
  BY <1>2, <1>5, EditKnows DEF IInv, LocksHold
<1>7. \A x \in edits' : x.phase # "read" => \A c \in cascades : x.folder \notin c.held
  BY <1>2, <1>4 DEF IInv, LocksHold, LocksExclude
<1>8. \A x, y \in edits' : x.phase = "item" /\ y.phase = "item" /\ x.item = y.item => x = y
  BY <1>2, <1>4 DEF IInv, LocksHold, EditsExclude, ItemFree
<1>9. edits' \subseteq Edits /\ filed' \in [Items -> Folders \cup {Root, Gone}] /\ FiledExist'
  BY <1>0, <1>2, <1>4, SamePlan DEF TypeOK, IInv, FiledExist, Present
<1> QED BY <1>2, <1>6, <1>7, <1>8, <1>9, EditGoesOn

\* It writes the item that it alone holds, to a folder that is there; or it gives up.
LEMMA EditEndKeeps ==
    ASSUME IInv, plan' = plan, NEW e \in edits, EditCommit(e) \/ EditAbort(e)
    PROVE  IInv'
<1>0. TypeOK
  BY DEF IInv
<1>1. /\ edits' = edits \ {e}
      /\ UNCHANGED <<folder, nextId, nextSalt, tokens, updates, committed, serial, cascades>>
  BY DEF EditCommit, EditAbort
<1>2. e.item \in Items /\ e.op \in Folders \cup {Root, Gone}
  BY <1>0, EditFields
<1>3. \/ filed' = filed
      \/ /\ e.phase = "item" /\ filed' = [filed EXCEPT ![e.item] = e.op]
         /\ e.op \in Folders => Present(e.op)
  BY <1>0, NotFolders DEF EditCommit, EditAbort, Referable
<1>4. filed' \in [Items -> Folders \cup {Root, Gone}]
  BY <1>0, <1>2, <1>3 DEF TypeOK
<1>5. FiledExist'
  BY <1>0, <1>1, <1>2, <1>3, SamePlan DEF TypeOK, IInv, FiledExist, Present
<1>6. \A x \in edits \ {e} : x.phase = "item" => filed'[x.item] = filed[x.item]
  BY <1>0, <1>3, EditFields DEF TypeOK, IInv, LocksHold, EditsExclude
<1>7. \A x \in edits' : EditChecked(x)'
  BY <1>1, <1>6, EditKnows DEF IInv, LocksHold
<1>8. /\ \A x \in edits' : x.phase # "read" => \A c \in cascades : x.folder \notin c.held
      /\ \A x, y \in edits' : x.phase = "item" /\ y.phase = "item" /\ x.item = y.item => x = y
      /\ edits' \subseteq Edits
  BY <1>0, <1>1 DEF TypeOK, IInv, LocksHold, LocksExclude, EditsExclude
<1> QED BY <1>1, <1>4, <1>5, <1>7, <1>8, EditGoesOn

-------------------------------------------------------------------------------
(***************************************************************************)
(* The theorems.                                                           *)
(***************************************************************************)

\* At first there are some folders without passwords, and nobody is at work.
LEMMA InitHolds == Init => IInv
<1> SUFFICES ASSUME Init
             PROVE  IInv
  OBVIOUS
<1>1. plan \in FolderScenarios
  BY DEF Init
<1>2. /\ MaxFolders \in Nat /\ MaxHashes \in Nat /\ MaxSerial \in Nat
  BY <1>1, FolderAssumption DEF MaxFolders, MaxHashes, MaxSerial
<1>3. 0 \in Salts /\ Folders \subseteq Nat
  BY <1>2 DEF Salts, Folders
<1>4. \A r \in OpenRows : r \in Rows /\ r.st \in {"absent", "present"} /\ r.hint = None
  BY <1>3 DEF OpenRows, Rows
<1>5. /\ folder \in [Folders -> Rows]
      /\ \A f \in Folders : folder[f].st \in {"absent", "present"} /\ folder[f].hint = None
  <2>1. folder \in [Folders -> OpenRows]
    BY DEF Init
  <2> QED BY <1>4, <2>1
<1>6. filed \in [Items -> Folders \cup {Root, Gone}] /\ FiledExist
  <2>1. filed \in [Items -> {f \in Folders : Present(f)} \cup {Root}]
    BY DEF Init
  <2>2. Root \notin Folders
    BY <1>3 DEF Folders, Root
  <2> QED BY <2>1, <2>2 DEF FiledExist
<1>7. TypeOK
  BY <1>1, <1>2, <1>5, <1>6 DEF Init, TypeOK
<1>8. Numbered
  <2> SUFFICES ASSUME NEW f \in Folders
               PROVE  folder[f].st = "absent" <=> f >= nextId
    BY DEF Numbered
  <2>1. f \in Int /\ nextId \in Int
    BY <1>3, <1>7 DEF TypeOK
  <2>2. CASE f < nextId
    <3>1. Present(f)
      BY <2>2 DEF Init
    <3> QED BY <2>1, <2>2, <3>1 DEF Present
  <2>3. CASE ~(f < nextId)
    <3>1. folder[f] = NoRow
      BY <2>3 DEF Init
    <3> QED BY <2>1, <2>3, <3>1 DEF NoRow
  <2> QED BY <2>2, <2>3
<1>9. HintHasPassword
  BY <1>5 DEF HintHasPassword
<1>10. LocksHold /\ \A u \in updates : UpdateChecked(u)
  BY DEF Init, LocksHold, CascadesExclude, LocksExclude, EditsExclude
<1> QED BY <1>6, <1>7, <1>8, <1>9, <1>10 DEF IInv

\* Every step keeps the invariant.
LEMMA StepHolds == IInv /\ [Next]_vars => IInv'
<1> SUFFICES ASSUME IInv, [Next]_vars
             PROVE  IInv'
  OBVIOUS
<1>1. CASE UNCHANGED vars
  <2>1. /\ plan' = plan /\ folder' = folder /\ filed' = filed /\ nextId' = nextId
        /\ cascades' = cascades /\ edits' = edits
        /\ UNCHANGED <<nextSalt, tokens, updates, committed, serial>>
    BY <1>1 DEF vars
  <2>2. LocksHold' /\ FiledExist'
    BY <2>1, NothingChanges
  <2>3. Basics'
    <3>1. cascades' \subseteq Cascades /\ edits' \subseteq Edits
          /\ filed' \in [Items -> Folders \cup {Root, Gone}]
      BY <2>1 DEF IInv, TypeOK
    <3> QED BY <2>1, <3>1, OthersBasics DEF IInv, Basics
  <2> QED BY <2>2, <2>3 DEF IInv, Basics
<1>2. CASE Next
  <2>0. Step /\ plan' = plan
    BY <1>2 DEF Next
  <2>1. ASSUME NEW f \in Folders, Unlock(f) \/ ResetPasswordByMaster(f)  PROVE IInv'
    BY <2>0, <2>1, FolderKeepsLocks
  <2>2. ASSUME NEW p \in Folders \cup {Root}, NEW pw \in Passwords \cup {None},
               NEW h \in Passwords \cup {None}, CreateFolder(p, pw, h)
        PROVE  IInv'
    BY <2>0, <2>2, CreateKeeps
  <2>3. ASSUME \/ \E f \in Folders, in \in Patches : UpdateBegin(f, in)
               \/ \E u \in updates : UpdateCommit(u) \/ UpdateRetry(u) \/ UpdateAbort(u)
        PROVE  IInv'
    BY <2>0, <2>3, UpdateKeeps
  <2>4. ASSUME NEW f \in Folders, NEW t \in tokens \cup {NoToken},
               DeleteFolder(f, t) \/ CascadeBegin(f, t)
        PROVE  IInv'
    BY <2>0, <2>4, DeleteFolderKeeps, CascadeBeginKeeps
  <2>5. ASSUME NEW c \in cascades,
               \/ CascadeLock(c) \/ CascadeMark(c) \/ CascadeLockSubtree(c)
               \/ CascadeDelete(c) \/ CascadeAbort(c)
        PROVE  IInv'
    BY <2>0, <2>5, CascadeLockKeeps, CascadeMarkKeeps, CascadeLockSubtreeKeeps,
       CascadeDeleteKeeps, CascadeAbortKeeps
  <2>6. ASSUME NEW i \in Items, NEW op \in Folders \cup {Root, Gone},
               NEW t \in tokens \cup {NoToken}, EditBegin(i, op, t)
        PROVE  IInv'
    BY <2>0, <2>6, EditBeginKeeps
  <2>7. ASSUME NEW e \in edits,
               EditLockFolder(e) \/ EditLockItem(e) \/ EditCommit(e) \/ EditAbort(e)
        PROVE  IInv'
    BY <2>0, <2>7, EditLockFolderKeeps, EditLockItemKeeps, EditEndKeeps
  <2> QED BY <2>0, <2>1, <2>2, <2>3, <2>4, <2>5, <2>6, <2>7 DEF Step
<1> QED BY <1>1, <1>2

\* A hint never outlives its password, whatever edits, retries and resets interleave
\* (repository.go: checkHintNotPassword, appendHint, ResetPasswordByMaster).
THEOREM HintsHavePasswords == Spec => []HintHasPassword
<1>1. IInv => HintHasPassword
  BY DEF IInv
<1> QED BY InitHolds, StepHolds, <1>1, PTL DEF Spec

\* The contents of an account are filed in folders that exist (the foreign keys of
\* 000017_multi_user_auth), and locks exclude one another.
THEOREM FoldersTyped == Spec => [](TypeOK /\ FiledExist /\ LocksHold)
<1>1. IInv => TypeOK /\ FiledExist /\ LocksHold
  BY DEF IInv
<1> QED BY InitHolds, StepHolds, <1>1, PTL DEF Spec

\* A step that ends a cascade deletes a protected folder only as its root, and with its token.
LEMMA CascadeStep ==
    ASSUME IInv, [Next]_vars, NEW c \in cascades, c \notin cascades',
           NEW f \in Folders, Present(f), folder'[f] = Deleted
    PROVE  IF f = c.root THEN Opens(c.token, f, folder[f].salt) ELSE folder[f].salt = 0
<1>0. TypeOK
  BY DEF IInv
<1>1. folder' # folder /\ cascades' # cascades
  BY DEF Deleted, NoRow, Present
<1>2. PICK d \in cascades : CascadeDelete(d)
  BY <1>1 DEF Next, Step, vars, Unlock, ResetPasswordByMaster, CreateFolder, UpdateBegin,
     UpdateCommit, UpdateRetry, UpdateAbort, DeleteFolder, CascadeBegin, CascadeLock, CascadeMark,
     CascadeLockSubtree, CascadeAbort, EditBegin, EditLockFolder, EditLockItem, EditCommit,
     EditAbort
<1>3. d = c
  BY <1>2 DEF CascadeDelete
<1>4. PICK F : F = Doomed(c)
  OBVIOUS
<1>5. F \subseteq Folders /\ DeleteRows(F) /\ c.phase = "locked"
  BY <1>0, <1>2, <1>3, <1>4, CascadeFields DEF CascadeDelete, Doomed
<1>6. f \in F
  <2>1. SUFFICES ASSUME f \notin F
                 PROVE  FALSE
    OBVIOUS
  <2>2. folder'[f].st = folder[f].st /\ Deleted.st = "deleted"
    BY <1>0, <1>5, <2>1, DeletedFields
  <2> QED BY <2>2 DEF Present
<1>7. CascadeChecked(c)
  BY DEF IInv, LocksHold
<1> QED BY <1>4, <1>5, <1>6, <1>7 DEF CascadeChecked, Doomed

\* A cascade deletes a protected folder only as its root, and then only with a token for the
\* password that the root has at that moment (repository.go: authorizeFolderDelete,
\* lockCascadeSubtree; INV-064).
THEOREM CascadesAreAuthorized == Spec => CascadeAuthorized
<1>1. IInv /\ [Next]_vars =>
         [\A c \in cascades, f \in Folders :
             c \notin cascades' /\ Present(f) /\ folder'[f] = Deleted =>
                 IF f = c.root THEN Opens(c.token, f, folder[f].salt) ELSE folder[f].salt = 0]_vars
  BY CascadeStep
<1> QED BY InitHolds, StepHolds, <1>1, PTL DEF Spec, CascadeAuthorized

\* A step that ends an edit and moves its item had a token for the folder it was in.
LEMMA EditStep ==
    ASSUME IInv, [Next]_vars, NEW e \in edits, e \notin edits', filed'[e.item] # filed[e.item],
           filed[e.item] # Root
    PROVE  Opens(e.token, filed[e.item], folder[filed[e.item]].salt)
<1>0. TypeOK
  BY DEF IInv
<1>1. filed' # filed /\ edits' # edits
  OBVIOUS
<1>2. PICK d \in edits : EditCommit(d)
  BY <1>1 DEF Next, Step, vars, Unlock, ResetPasswordByMaster, CreateFolder, UpdateBegin,
     UpdateCommit, UpdateRetry, UpdateAbort, DeleteFolder, CascadeBegin, CascadeLock, CascadeMark,
     CascadeLockSubtree, CascadeDelete, CascadeAbort, EditBegin, EditLockFolder, EditLockItem,
     EditAbort
<1>3. d = e /\ e.phase = "item"
  BY <1>2 DEF EditCommit
<1>4. EditChecked(e)
  BY DEF IInv, LocksHold
<1>5. filed[e.item] = e.folder /\ e.folder \in Folders /\ Opens(e.token, e.folder, e.salt)
  BY <1>0, <1>3, <1>4, EditFields DEF EditChecked
<1>6. Present(e.folder)
  BY <1>0, <1>5, EditFields DEF IInv, FiledExist
<1> QED BY <1>3, <1>4, <1>5, <1>6 DEF EditChecked

\* A link is moved or deleted only with a token for the password of the folder that it is in at
\* that moment (content_gate.go: CheckEntityFolderTx).
THEOREM EditsAreAuthorized == Spec => EditAuthorized
<1>1. IInv /\ [Next]_vars =>
         [\A e \in edits :
             e \notin edits' /\ filed'[e.item] # filed[e.item] /\ filed[e.item] # Root =>
                 Opens(e.token, filed[e.item], folder[filed[e.item]].salt)]_vars
  BY EditStep
<1> QED BY InitHolds, StepHolds, <1>1, PTL DEF Spec, EditAuthorized

-------------------------------------------------------------------------------
(***************************************************************************)
(* Serializable transactions.                                              *)
(***************************************************************************)

\* A set of numbers has a least one.
LEMMA LeastElement ==
    ASSUME NEW T \in SUBSET Nat, T # {}
    PROVE  \E x \in T : \A y \in T : x <= y
<1>1. T \subseteq Nat
  OBVIOUS
<1>2. PICK x \in T : \A y \in T : <<y, x>> \notin OpToRel(<, Nat)
  BY <1>1, WFMin, NatLessThanWellFounded, Zenon
<1>3. \A y \in T : ~(y < x)
  BY <1>1, <1>2, Zenon DEF OpToRel
<1> QED BY <1>1, <1>3

\* A set of bounded numbers has a greatest one.
LEMMA GreatestElement ==
    ASSUME NEW T \in SUBSET Nat, T # {}, NEW b \in Nat, \A y \in T : y <= b
    PROVE  \E x \in T : \A y \in T : y <= x
<1> DEFINE U == {b - y : y \in T}
<1>0. \A y \in T : b - y \in Nat
  OBVIOUS
<1>1. U \in SUBSET Nat /\ U # {}
  BY <1>0
<1>2. PICK u \in U : \A w \in U : u <= w
  BY <1>1, LeastElement
<1>3. PICK x \in T : u = b - x
  BY <1>2
<1>4. \A y \in T : b - y \in U
  OBVIOUS
<1> HIDE DEF U
<1>5. ASSUME NEW y \in T
      PROVE  y <= x
  <2>1. b - x <= b - y
    BY <1>2, <1>3, <1>4
  <2> QED BY <2>1
<1> QED BY <1>5

\* Without a dangerous structure there is a serial order: one who read under another comes
\* before it, and so does one who had committed when the other began.  An x that read under one
\* which committed before it is put before the first of these.
LEMMA SerialOrder ==
    ASSUME NEW K, ~Dangerous(K),
           \A x \in K : x.begin \in Nat /\ x.commit \in Nat /\ x.begin < x.commit
    PROVE  \E s \in [K -> Nat] :
              /\ \A x \in K : s[x] <= 2 * x.commit
              /\ \A x, y \in K : ReadsUnder(x, y) \/ x.commit <= y.begin => s[x] < s[y]
<1> DEFINE Limits(x) == {2 * x.commit} \cup {2 * z.commit - 1 : z \in {y \in K : ReadsUnder(x, y)}}
           First(x, n) == n \in Limits(x) /\ \A m \in Limits(x) : n <= m
<1>1. ASSUME NEW x \in K
      PROVE  \E n \in Nat : First(x, n)
  <2>1. \A z \in K : 2 * z.commit \in Nat /\ 2 * z.commit - 1 \in Nat
    OBVIOUS
  <2>2. Limits(x) \in SUBSET Nat /\ Limits(x) # {}
    BY <2>1
  <2> HIDE DEF Limits
  <2> QED BY <2>2, LeastElement
<1> DEFINE s == [x \in K |-> CHOOSE n \in Nat : First(x, n)]
<1>2. ASSUME NEW x \in K
      PROVE  /\ s[x] \in Nat /\ s[x] <= 2 * x.commit
             /\ \A z \in K : ReadsUnder(x, z) => s[x] <= 2 * z.commit - 1
             /\ s[x] = 2 * x.commit \/ \E z \in K : ReadsUnder(x, z) /\ s[x] = 2 * z.commit - 1
  <2>1. s[x] \in Nat /\ First(x, s[x])
    <3> HIDE DEF First
    <3> QED BY <1>1
  <2> HIDE DEF s
  <2> QED BY <2>1
<1> HIDE DEF s
<1>3. ASSUME NEW x \in K, NEW y \in K, ReadsUnder(x, y)
      PROVE  s[x] < s[y]
  <2>1. /\ s[x] \in Nat /\ s[y] \in Nat /\ s[x] <= 2 * x.commit /\ s[x] <= 2 * y.commit - 1
        /\ x.commit \in Nat /\ y.commit \in Nat
    BY <1>2, <1>3
  <2>2. CASE s[y] = 2 * y.commit
    BY <2>1, <2>2
  <2>3. ASSUME NEW z \in K, ReadsUnder(y, z), s[y] = 2 * z.commit - 1
        PROVE  s[x] < s[y]
    <3>1. z.commit \in Nat /\ ~(z.commit <= x.commit /\ z.commit <= y.commit)
      BY <1>3, <2>3 DEF Dangerous
    <3> QED BY <2>1, <2>3, <3>1
  <2> QED BY <1>2, <2>2, <2>3
<1>4. ASSUME NEW x \in K, NEW y \in K, x.commit <= y.begin
      PROVE  s[x] < s[y]
  <2>1. /\ s[x] \in Nat /\ s[y] \in Nat /\ s[x] <= 2 * x.commit
        /\ x.commit \in Nat /\ y.commit \in Nat /\ y.begin \in Nat /\ y.begin < y.commit
    BY <1>2
  <2>2. CASE s[y] = 2 * y.commit
    BY <1>4, <2>1, <2>2
  <2>3. ASSUME NEW z \in K, ReadsUnder(y, z), s[y] = 2 * z.commit - 1
        PROVE  s[x] < s[y]
    <3>1. z.commit \in Nat /\ y.begin < z.commit
      BY <2>3 DEF ReadsUnder, Concurrent
    <3> QED BY <1>4, <2>1, <2>3, <3>1
  <2> QED BY <1>2, <2>2, <2>3
<1>5. s \in [K -> Nat]
  <2>1. s = [x \in K |-> s[x]]
    BY DEF s
  <2> QED BY <1>2, <2>1
<1> QED BY <1>2, <1>3, <1>4, <1>5

-------------------------------------------------------------------------------
(***************************************************************************)
(* The tree.                                                               *)
(***************************************************************************)

\* No folders are their own ancestors; a parent is there; nothing else has one.
NoCircle     == \A C \in SUBSET Folders : C # {} => \E f \in C : folder[f].parent \notin C
ParentsExist ==
    \A f \in Folders : folder[f].parent # Root => Present(f) /\ Present(folder[f].parent)

\* In a forest no folder is among the ancestors of its parent: those above it, up to where they
\* are below it again, would be a circle.
LEMMA ForestIsAcyclic ==
    ASSUME TypeOK, NoCircle
    PROVE  Acyclic
<1> SUFFICES ASSUME NEW f \in Folders, folder[f].parent # Root, f \in Ancestors(folder[f].parent)
             PROVE  FALSE
  BY DEF Acyclic
<1> DEFINE p == folder[f].parent
           Above(g, h) == \A F \in SUBSET Folders : g \in F /\ UpwardClosed(F) => h \in F
           C == {g \in Folders : Above(g, f)}
<1>1. p \in Folders /\ \A g \in Folders : folder[g].parent \in Folders \cup {Root}
  BY FolderRow, RowFields
<1>2. Above(p, f)
  BY DEF Ancestors
<1>3. ASSUME NEW g \in C
      PROVE  folder[g].parent \in C
  <2>1. CASE g = f
    BY <1>1, <1>2, <2>1
  <2>2. CASE g # f
    <3>1. folder[g].parent # Root
      <4>1. SUFFICES ASSUME folder[g].parent = Root PROVE FALSE
        OBVIOUS
      <4>2. {g} \in SUBSET Folders /\ g \in {g} /\ UpwardClosed({g})
        BY <4>1 DEF UpwardClosed
      <4> QED BY <2>2, <4>2
    <3>2. ASSUME NEW F \in SUBSET Folders, folder[g].parent \in F, UpwardClosed(F)
          PROVE  f \in F
      <4>1. F \cup {g} \in SUBSET Folders /\ g \in F \cup {g} /\ UpwardClosed(F \cup {g})
        BY <3>2 DEF UpwardClosed
      <4> QED BY <2>2, <4>1
    <3> QED BY <1>1, <3>1, <3>2
  <2> QED BY <2>1, <2>2
<1>4. p \in C
  BY <1>1, <1>2
<1> HIDE DEF C
<1>5. C \in SUBSET Folders
  BY DEF C
<1> QED BY <1>3, <1>4, <1>5 DEF NoCircle

\* The ancestors of a folder that is there: it is one, and their parents are.
LEMMA AncestorsGoUp ==
    ASSUME TypeOK, ParentsExist, NEW p \in Folders, Present(p)
    PROVE  /\ p \in Ancestors(p) /\ Ancestors(p) \subseteq Folders
           /\ \A g \in Ancestors(p) : Present(g) /\ folder[g].parent \in Ancestors(p) \cup {Root}
<1>1. p \in Ancestors(p) /\ Ancestors(p) \subseteq Folders
  BY DEF Ancestors
<1>2. ASSUME NEW g \in Ancestors(p), folder[g].parent # Root
      PROVE  folder[g].parent \in Ancestors(p)
  <2>1. g \in Folders /\ folder[g].parent \in Folders /\ Present(folder[g].parent)
    BY <1>2, FolderRow, RowFields DEF Ancestors, ParentsExist
  <2>2. ASSUME NEW F \in SUBSET Folders, p \in F, UpwardClosed(F)
        PROVE  folder[g].parent \in F
    <3>1. g \in F
      BY <2>2 DEF Ancestors
    <3> QED BY <1>2, <2>2, <3>1 DEF UpwardClosed
  <2> QED BY <2>1, <2>2 DEF Ancestors
<1> QED BY <1>1, <1>2 DEF Ancestors

\* A committed edit that moved its folder read more than that folder.
Moved(x) == x.reads # {x.write}

\* Of what a move has read, and of the folder it moved, the parent is one of the others it read
\* or none, or a move that it could not see has written it since.
ReadsKnown(write, reads, begin, Others, c) ==
    \/ folder[c].parent \in (reads \ {write}) \cup {Root}
    \/ \E w \in Others : w.write = c /\ Moved(w) /\ begin < w.commit

CommitKnown(x) ==
    /\ x.write \in x.reads /\ x.begin < x.commit /\ x.commit <= serial
    /\ \A c \in x.reads : c < nextId
    /\ Moved(x) => \A c \in x.reads : ReadsKnown(x.write, x.reads, x.begin, committed \ {x}, c)

UpdateKnown(u) ==
    /\ u.id \in u.reads /\ u.begin <= serial /\ u.base.st = "present"
    /\ IF u.in.parent \in Folders THEN u.in.parent \in u.reads \ {u.id} ELSE u.reads = {u.id}
    /\ \A c \in u.reads : c < nextId
    /\ \A c \in u.reads \ {u.id} : ReadsKnown(u.id, u.reads, u.begin, committed, c)

History == (\A x \in committed : CommitKnown(x)) /\ (\A u \in updates : UpdateKnown(u))

Tree == NoCircle /\ ParentsExist /\ History

\* The fields of a committed edit.
LEMMA CommitFields ==
    ASSUME TypeOK, NEW x \in committed
    PROVE  /\ x.write \in Folders /\ x.reads \subseteq Folders
           /\ x.begin \in Nat /\ x.commit \in Nat
  BY PlanFields DEF TypeOK, Commits

\* Parents that only go, and no edit that ends or begins.
LEMMA HistoryStays ==
    ASSUME TypeOK, History, plan' = plan, UNCHANGED <<updates, committed, serial>>,
           nextId' \in Int, nextId <= nextId',
           \A f \in Folders : f < nextId => folder'[f].parent \in {folder[f].parent, Root}
    PROVE  History'
<1>1. Folders' = Folders /\ Folders \subseteq Int /\ nextId \in Int
  BY SamePlan DEF Folders, TypeOK
<1>2. ASSUME NEW w, NEW R, NEW b, NEW O, NEW c \in Folders, c < nextId, ReadsKnown(w, R, b, O, c)
      PROVE  folder'[c].parent \in (R \ {w}) \cup {Root} \/ \E o \in O : o.write = c /\ Moved(o) /\ b < o.commit
  BY <1>2 DEF ReadsKnown
<1>3. ASSUME NEW x \in committed
      PROVE  CommitKnown(x)'
  <2>1. CommitKnown(x) /\ x.reads \subseteq Folders
    BY CommitFields DEF History
  <2>2. ASSUME NEW c \in x.reads
        PROVE  c < nextId'
    <3>1. c < nextId /\ c \in Int
      BY <1>1, <2>1 DEF CommitKnown
    <3> QED BY <1>1, <3>1
  <2>3. ASSUME Moved(x), NEW c \in x.reads
        PROVE  ReadsKnown(x.write, x.reads, x.begin, committed \ {x}, c)'
    <3>1. c \in Folders /\ c < nextId /\ ReadsKnown(x.write, x.reads, x.begin, committed \ {x}, c)
      BY <2>1, <2>3 DEF CommitKnown
    <3> QED BY <1>2, <3>1 DEF ReadsKnown, Moved
  <2> QED BY <2>1, <2>2, <2>3 DEF CommitKnown, Moved
<1>4. ASSUME NEW u \in updates
      PROVE  UpdateKnown(u)'
  <2>1. UpdateKnown(u) /\ u.reads \subseteq Folders
    BY UpdateFields DEF History
  <2>2. ASSUME NEW c \in u.reads
        PROVE  c < nextId'
    <3>1. c < nextId /\ c \in Int
      BY <1>1, <2>1 DEF UpdateKnown
    <3> QED BY <1>1, <3>1
  <2>3. ASSUME NEW c \in u.reads \ {u.id}
        PROVE  ReadsKnown(u.id, u.reads, u.begin, committed, c)'
    <3>1. c \in Folders /\ c < nextId /\ ReadsKnown(u.id, u.reads, u.begin, committed, c)
      BY <2>1 DEF UpdateKnown
    <3> QED BY <1>2, <3>1 DEF ReadsKnown, Moved
  <2> QED BY <1>1, <2>1, <2>2, <2>3 DEF UpdateKnown
<1> QED BY <1>3, <1>4 DEF History

\* Parents that only go leave a forest.
LEMMA ForestStays ==
    ASSUME TypeOK, NoCircle, plan' = plan,
           \A f \in Folders : folder'[f].parent \in {folder[f].parent, Root}
    PROVE  NoCircle'
<1> SUFFICES ASSUME NEW C \in SUBSET Folders, C # {}
             PROVE  \E f \in C : folder'[f].parent \notin C
  BY SamePlan DEF NoCircle
<1>1. PICK f \in C : folder[f].parent \notin C
  BY DEF NoCircle
<1> QED BY <1>1, NotFolders

\* An attempt knows what it reads.
LEMMA AttemptKnows ==
    ASSUME IInv, ParentsExist, NEW f \in Folders, NEW in \in Patches,
           NEW loaded \in Passwords \cup {None}, NEW left, NEW begin \in Nat,
           NEW u \in Attempts(f, in, loaded, left, begin)
    PROVE  /\ u.id \in u.reads /\ u.begin = begin /\ u.base.st = "present"
           /\ IF u.in.parent \in Folders THEN u.in.parent \in u.reads \ {u.id} ELSE u.reads = {u.id}
           /\ \A c \in u.reads : c < nextId
           /\ \A c \in u.reads \ {u.id} : folder[c].parent \in (u.reads \ {u.id}) \cup {Root}
<1>0. TypeOK /\ Numbered
  BY DEF IInv
<1>1. /\ u.id = f /\ u.in = in /\ u.base = folder[f] /\ u.begin = begin /\ Present(f)
  BY <1>0, AttemptFields
<1>2. /\ u.reads = {f} \cup (IF in.parent \in Folders THEN Ancestors(in.parent) ELSE {})
      /\ NoCycle(f, in) /\ (in.parent \in Folders => Present(in.parent))
  BY DEF Attempts
<1>3. ASSUME NEW c \in Folders, Present(c)
      PROVE  c < nextId
  BY <1>0, <1>3 DEF Numbered, Present, TypeOK, Folders
<1>4. CASE in.parent \in Folders
  <2>1. /\ in.parent \in Ancestors(in.parent) /\ Ancestors(in.parent) \subseteq Folders
        /\ \A g \in Ancestors(in.parent) :
              Present(g) /\ folder[g].parent \in Ancestors(in.parent) \cup {Root}
    BY <1>0, <1>2, <1>4, AncestorsGoUp
  <2>2. f \notin Ancestors(in.parent)
    BY <1>2, <1>4 DEF NoCycle
  <2> QED BY <1>1, <1>2, <1>3, <1>4, <2>1, <2>2 DEF Present
<1>5. CASE in.parent \notin Folders
  BY <1>1, <1>2, <1>3, <1>5 DEF Present
<1> QED BY <1>4, <1>5

\* What a commit leaves of the folders.
LEMMA CommitFolders ==
    ASSUME IInv, NEW u \in updates, UpdateCommit(u)
    PROVE  /\ \A f \in Folders : f # u.id => folder'[f] = folder[f]
           /\ folder'[u.id].st = folder[u.id].st
           /\ folder'[u.id].parent = IF u.in.parent = Kept THEN folder[u.id].parent ELSE u.in.parent
<1>0. TypeOK
  BY DEF IInv
<1>1. folder' = [folder EXCEPT ![u.id] = Patched(folder[u.id], u.in)]
      /\ (u.in.pw \in Passwords => nextSalt <= MaxHashes)
  BY DEF UpdateCommit
<1>2. u.id \in Folders /\ u.in \in Patches /\ folder[u.id] \in Rows /\ folder \in [Folders -> Rows]
  BY <1>0, UpdateFields DEF TypeOK
<1>3. /\ Patched(folder[u.id], u.in).st = folder[u.id].st
      /\ Patched(folder[u.id], u.in).parent
            = IF u.in.parent = Kept THEN folder[u.id].parent ELSE u.in.parent
  <2>1. Patched(folder[u.id], u.in).st = folder[u.id].st
    BY <1>0, <1>1, <1>2, PatchedFields
  <2> QED BY <1>2, <2>1 DEF Patched, Rows
<1> QED BY <1>1, <1>2, <1>3

\* What the edits of K know of one another and of the folders tree.
KnownAmong(K, tree) ==
    \A x \in K :
       /\ x.write \in x.reads /\ x.reads \subseteq Folders
       /\ x.begin \in Nat /\ x.commit \in Nat /\ x.begin < x.commit /\ x.commit <= serial + 1
       /\ \A c \in x.reads : c < nextId
       /\ Moved(x) => \A c \in x.reads :
             \/ tree[c].parent \in (x.reads \ {x.write}) \cup {Root}
             \/ \E w \in K : w # x /\ w.write = c /\ Moved(w) /\ x.begin < w.commit

\* Who is remembered once u is committed, and what each knows then.
LEMMA CommitKnows ==
    ASSUME IInv, Tree, NEW u \in updates, UpdateCommit(u), NEW K, K = committed \cup {Finished(u)}
    PROVE  KnownAmong(K, folder')
<1> DEFINE F == Finished(u)
<1>0. TypeOK /\ serial \in Nat
  BY PlanFields DEF IInv, TypeOK
<1>1. /\ F.write = u.id /\ F.reads = u.reads /\ F.begin = u.begin /\ F.commit = serial + 1
  BY DEF Finished
<1>2. UpdateKnown(u) /\ u.id \in Folders /\ u.reads \subseteq Folders /\ u.begin \in Nat
      /\ u.in.parent \in Folders \cup {Root, Kept}
  BY <1>0, UpdateFields, PatchFields, PlanFields DEF Tree, History
<1>3. /\ \A f \in Folders : f # u.id => folder'[f] = folder[f]
      /\ folder'[u.id].parent = IF u.in.parent = Kept THEN folder[u.id].parent ELSE u.in.parent
  BY CommitFolders
<1>4. F \in K /\ committed \subseteq K
  OBVIOUS
<1>5. Moved(F) <=> u.in.parent \in Folders
  BY <1>1, <1>2 DEF Moved, UpdateKnown
<1> HIDE DEF F
<1>6. ASSUME NEW x \in committed
      PROVE  /\ x.write \in x.reads /\ x.reads \subseteq Folders
             /\ x.begin \in Nat /\ x.commit \in Nat /\ x.begin < x.commit /\ x.commit <= serial
             /\ \A c \in x.reads : c < nextId
             /\ Moved(x) => \A c \in x.reads :
                   \/ folder[c].parent \in (x.reads \ {x.write}) \cup {Root}
                   \/ \E w \in committed : w # x /\ w.write = c /\ Moved(w) /\ x.begin < w.commit
  <2>1. CommitKnown(x)
    BY DEF Tree, History
  <2> QED BY <1>0, <2>1, CommitFields DEF CommitKnown, ReadsKnown
<1>7. ASSUME NEW x \in committed, Moved(x), NEW c \in x.reads
      PROVE  \/ folder'[c].parent \in (x.reads \ {x.write}) \cup {Root}
             \/ \E w \in K : w # x /\ w.write = c /\ Moved(w) /\ x.begin < w.commit
  <2>1. CASE c # u.id \/ u.in.parent = Kept
    <3>1. folder'[c].parent = folder[c].parent
      BY <1>2, <1>3, <1>6, <2>1
    <3> QED BY <1>4, <1>6, <1>7, <3>1
  <2>2. CASE c = u.id /\ u.in.parent = Root
    <3>1. folder'[c].parent = Root
      BY <1>3, <2>2 DEF Kept, Root
    <3> QED BY <3>1
  <2>3. CASE c = u.id /\ u.in.parent \in Folders
    <3>1. F # x /\ x.begin < F.commit
      BY <1>0, <1>1, <1>6
    <3> QED BY <1>1, <1>4, <1>5, <2>3, <3>1
  <2> QED BY <1>2, <2>1, <2>2, <2>3
<1>8. ASSUME Moved(F), NEW c \in F.reads
      PROVE  \/ folder'[c].parent \in (F.reads \ {F.write}) \cup {Root}
             \/ \E w \in K : w # F /\ w.write = c /\ Moved(w) /\ F.begin < w.commit
  <2>1. CASE c = u.id
    <3>1. folder'[c].parent = u.in.parent
      BY <1>0, <1>3, <1>5, <1>8, <2>1, NotFolders
    <3> QED BY <1>1, <1>2, <1>5, <1>8, <3>1 DEF UpdateKnown
  <2>2. CASE c # u.id
    <3>1. folder'[c] = folder[c] /\ ReadsKnown(u.id, u.reads, u.begin, committed, c)
      BY <1>1, <1>2, <1>3, <1>8, <2>2 DEF UpdateKnown
    <3> QED BY <1>1, <1>4, <2>2, <3>1 DEF ReadsKnown
  <2> QED BY <2>1, <2>2
<1>9. ASSUME NEW x \in K
      PROVE  x \in committed \/ x = F
  BY DEF F
<1>10. /\ F.write \in F.reads /\ F.reads \subseteq Folders
       /\ F.begin \in Nat /\ F.commit \in Nat /\ F.begin < F.commit /\ F.commit <= serial + 1
       /\ \A c \in F.reads : c < nextId
  BY <1>0, <1>1, <1>2 DEF UpdateKnown
<1>11. ASSUME NEW x \in committed
       PROVE  x.commit <= serial + 1
  BY <1>0, <1>6
<1> QED BY <1>6, <1>7, <1>8, <1>9, <1>10, <1>11 DEF KnownAmong

\* Of finite sets some are smallest.
LEMMA SmallestSet ==
    ASSUME NEW S, IsFiniteSet(S), NEW P \in SUBSET (SUBSET S), P # {}
    PROVE  \E C \in P : \A D \in P : D \subseteq C => D = C
<1>1. ASSUME NEW C \in P
      PROVE  IsFiniteSet(C) /\ Cardinality(C) \in Nat
  BY FS_Subset, FS_CardinalityType
<1> DEFINE T == {Cardinality(C) : C \in P}
<1>2. T \in SUBSET Nat /\ T # {}
  BY <1>1
<1>3. PICK n \in T : \A m \in T : n <= m
  BY <1>2, LeastElement
<1>4. PICK C \in P : n = Cardinality(C)
  BY <1>3
<1>5. ASSUME NEW D \in P, D \subseteq C, D # C
      PROVE  FALSE
  <2>1. Cardinality(D) \in Nat /\ Cardinality(C) \in Nat /\ Cardinality(D) < Cardinality(C)
    BY <1>1, <1>5, FS_Subset
  <2> QED BY <1>3, <1>4, <2>1
<1> QED BY <1>5

\* A commit closes no circle.  Of a smallest circle it could close, take the last move in the
\* serial order: the ones that it did not see come after it, so that it saw all the rest of
\* the circle, and found its own folder there.
LEMMA CommitForest ==
    ASSUME IInv, Tree, plan' = plan, NEW u \in updates, UpdateCommit(u)
    PROVE  NoCircle'
<1>0. TypeOK /\ serial \in Nat /\ Folders' = Folders /\ Root \notin Folders /\ Kept \notin Folders
  BY SamePlan, PlanFields, NotFolders DEF IInv, TypeOK
<1>1. /\ u.id \in Folders /\ \A f \in Folders : f # u.id => folder'[f] = folder[f]
      /\ folder'[u.id].parent = IF u.in.parent = Kept THEN folder[u.id].parent ELSE u.in.parent
  BY <1>0, CommitFolders, UpdateFields
<1> DEFINE Circle(C) == C # {} /\ \A f \in C : folder'[f].parent \in C
           Circles == {C \in SUBSET Folders : Circle(C)}
<1>2. SUFFICES ASSUME Circles # {} PROVE FALSE
  BY <1>0 DEF NoCircle
<1>3. IsFiniteSet(Folders)
  BY <1>0, PlanFields, FS_Interval DEF Folders
<1>4. PICK C \in Circles : \A D \in Circles : D \subseteq C => D = C
  <2>1. Circles \in SUBSET (SUBSET Folders)
    OBVIOUS
  <2> HIDE DEF Circles
  <2> QED BY <1>2, <1>3, <2>1, SmallestSet
<1>5. C \in SUBSET Folders /\ C # {} /\ \A f \in C : folder'[f].parent \in C
  OBVIOUS
<1>6. ASSUME NEW D \in SUBSET C, D # {}, \A f \in D : folder'[f].parent \in D
      PROVE  D = C
  BY <1>4, <1>5, <1>6
<1> HIDE DEF Circles
<1>7. u.id \in C /\ u.in.parent \in Folders
  <2>1. PICK f \in C : folder[f].parent \notin C
    BY <1>5 DEF Tree, NoCircle
  <2>2. f = u.id /\ folder'[f].parent # folder[f].parent
    BY <1>1, <1>5, <2>1
  <2> QED BY <1>1, <1>5, <2>2
<1> DEFINE F == Finished(u)
<1>8. PICK K : K = committed \cup {F}
  OBVIOUS
<1> DEFINE Late(x, c) == \E w \in K : w # x /\ w.write = c /\ Moved(w) /\ x.begin < w.commit
<1>8a. \A x \in K :
          /\ x.write \in x.reads /\ x.reads \subseteq Folders
          /\ x.begin \in Nat /\ x.commit \in Nat /\ x.begin < x.commit /\ x.commit <= serial + 1
          /\ \A c \in x.reads : c < nextId
          /\ Moved(x) => \A c \in x.reads :
                folder'[c].parent \in (x.reads \ {x.write}) \cup {Root} \/ Late(x, c)
  <2>1. KnownAmong(K, folder')
    BY <1>8, CommitKnows
  <2> QED BY <2>1 DEF KnownAmong
<1>9. PICK s \in [K -> Nat] :
         /\ \A x \in K : s[x] <= 2 * x.commit
         /\ \A x, y \in K : ReadsUnder(x, y) \/ x.commit <= y.begin => s[x] < s[y]
  <2>1. ~Dangerous(K)
    BY <1>8 DEF UpdateCommit, Isolated, Serializable
  <2>2. \A x \in K : x.begin \in Nat /\ x.commit \in Nat /\ x.begin < x.commit
    BY <1>8a
  <2> QED BY <2>1, <2>2, SerialOrder
<1> DEFINE M == {x \in K : Moved(x) /\ x.write \in C}
<1>10. F \in M
  <2>1. F.write = u.id /\ F.reads = u.reads /\ u.in.parent \in u.reads \ {u.id}
    BY <1>7 DEF Finished, Tree, History, UpdateKnown
  <2> QED BY <1>7, <1>8, <2>1 DEF Moved
<1> HIDE DEF F
<1>11. PICK m \in M : \A x \in M : s[x] <= s[m]
  <2> DEFINE T == {s[x] : x \in M}
  <2>1. ASSUME NEW x \in M
        PROVE  s[x] \in Nat /\ s[x] <= 2 * (serial + 1)
    <3>1. s[x] \in Nat /\ s[x] <= 2 * x.commit /\ x.commit \in Nat /\ x.commit <= serial + 1
      BY <1>8a, <1>9
    <3> QED BY <1>0, <3>1
  <2>2. T \in SUBSET Nat /\ T # {} /\ 2 * (serial + 1) \in Nat /\ \A t \in T : t <= 2 * (serial + 1)
    BY <1>0, <1>10, <2>1
  <2> HIDE DEF M
  <2>3. \E t \in T : \A y \in T : y <= t
    <3> HIDE DEF T
    <3> QED BY <2>2, GreatestElement
  <2> QED BY <2>3
<1> DEFINE D == C \cap (m.reads \ {m.write})
<1>12. m \in K /\ Moved(m) /\ m.write \in C /\ m.write \in m.reads /\ m.reads \subseteq Folders
  BY <1>8a, <1>11
<1>13. ASSUME NEW c \in C, c \in m.reads
       PROVE  folder'[c].parent \in D
  <2>1. ~Late(m, c)
    <3> SUFFICES ASSUME NEW w \in K, w # m, w.write = c, Moved(w), m.begin < w.commit
                 PROVE  FALSE
      OBVIOUS
    <3>1. w \in M /\ s[w] <= s[m] /\ s[w] \in Nat /\ s[m] \in Nat
      BY <1>9, <1>11, <1>12
    <3>2. w.begin \in Nat /\ m.commit \in Nat
      BY <1>8a, <1>12
    <3>3. CASE w.begin < m.commit
      <4>1. ReadsUnder(m, w)
        BY <1>13, <3>3 DEF ReadsUnder, Concurrent
      <4>2. s[m] < s[w]
        BY <1>9, <1>12, <4>1
      <4> QED BY <3>1, <4>2
    <3>4. CASE ~(w.begin < m.commit)
      <4>1. m.commit <= w.begin
        BY <3>2, <3>4
      <4>2. s[m] < s[w]
        BY <1>9, <1>12, <4>1
      <4> QED BY <3>1, <4>2
    <3> QED BY <3>3, <3>4
  <2>2. folder'[c].parent \in C /\ folder'[c].parent # Root
    BY <1>0, <1>5
  <2>3. folder'[c].parent \in (m.reads \ {m.write}) \cup {Root} \/ Late(m, c)
    <3> HIDE DEF Late
    <3> QED BY <1>8a, <1>12, <1>13
  <2> HIDE DEF Late
  <2> DEFINE p == folder'[c].parent
  <2>4. p \in C /\ p # Root /\ p \in (m.reads \ {m.write}) \cup {Root}
    BY <2>1, <2>2, <2>3
  <2> HIDE DEF p
  <2>5. p \in D
    BY <2>4
  <2> QED BY <2>5 DEF p
<1>14. D # {} /\ \A f \in D : folder'[f].parent \in D
  BY <1>12, <1>13
<1>15. D \in SUBSET C /\ m.write \notin D
  OBVIOUS
<1> HIDE DEF D
<1> QED BY <1>6, <1>12, <1>14, <1>15

\* A commit keeps the tree, and is remembered while others are in flight.
LEMMA CommitTree ==
    ASSUME IInv, Tree, plan' = plan, NEW u \in updates, UpdateCommit(u)
    PROVE  Tree'
<1> DEFINE F == Finished(u)
           K == committed \cup {F}
<1>0. TypeOK /\ serial \in Nat /\ Folders' = Folders /\ Root \notin Folders /\ Kept \notin Folders
  BY SamePlan, PlanFields, NotFolders DEF IInv, TypeOK
<1>1. /\ u.id \in Folders /\ u.in.parent \in Folders \cup {Root, Kept}
      /\ \A f \in Folders : f # u.id => folder'[f] = folder[f]
      /\ folder'[u.id].st = folder[u.id].st
      /\ folder'[u.id].parent = IF u.in.parent = Kept THEN folder[u.id].parent ELSE u.in.parent
  BY <1>0, CommitFolders, UpdateFields, PatchFields
<1>2. UpdateKnown(u) /\ folder[u.id] = u.base /\ nextId' = nextId
  BY DEF Tree, History, UpdateCommit, Isolated, Serializable
<1>3. ParentsExist'
  <2>1. \A f \in Folders : folder'[f].st = folder[f].st
    BY <1>1
  <2>2. ASSUME NEW f \in Folders, folder'[f].parent # Root
        PROVE  Present(f) /\ folder'[f].parent \in Folders /\ Present(folder'[f].parent)
    <3>1. CASE f # u.id \/ u.in.parent = Kept
      <4>1. folder'[f].parent = folder[f].parent
        BY <1>1, <3>1
      <4>2. folder[f].parent \in Folders
        BY <1>0, <2>2, <4>1, FolderRow, RowFields
      <4> QED BY <2>2, <4>1, <4>2 DEF Tree, ParentsExist
    <3>2. CASE f = u.id /\ u.in.parent # Kept
      <4>1. Present(f)
        BY <1>2, <3>2 DEF UpdateKnown, Present
      <4>2. folder'[f].parent = u.in.parent /\ u.in.parent \in Folders /\ Present(u.in.parent)
        BY <1>0, <1>1, <2>2, <3>2 DEF UpdateCommit, Referable
      <4> QED BY <4>1, <4>2
    <3> QED BY <3>1, <3>2
  <2> QED BY <1>0, <2>1, <2>2 DEF ParentsExist, Present
<1>4. CASE updates = {u}
  <2>1. committed' = {} /\ updates' = {}
    BY <1>4 DEF UpdateCommit, Remember
  <2> QED BY <1>3, <2>1, CommitForest DEF Tree, History
<1>5. CASE updates # {u}
  <2>1. committed' = K /\ serial' = serial + 1 /\ updates' = updates \ {u}
    BY <1>5 DEF UpdateCommit, Remember
  <2>2. KnownAmong(K, folder')
    BY CommitKnows
  <2>3. F \in K /\ F.write = u.id /\ F.reads = u.reads /\ F.commit = serial + 1
    BY DEF Finished
  <2> HIDE DEF F, K
  <2>4. ASSUME NEW x \in K
        PROVE  CommitKnown(x)'
    <3>1. /\ x.write \in x.reads /\ x.begin < x.commit /\ x.commit <= serial'
          /\ \A c \in x.reads : c < nextId'
      BY <1>2, <2>1, <2>2, <2>4 DEF KnownAmong
    <3>2. ASSUME Moved(x), NEW c \in x.reads
          PROVE  \/ folder'[c].parent \in (x.reads \ {x.write}) \cup {Root}
                 \/ \E w \in K \ {x} : w.write = c /\ Moved(w) /\ x.begin < w.commit
      BY <2>2, <2>4, <3>2 DEF KnownAmong
    <3> QED BY <2>1, <3>1, <3>2 DEF CommitKnown, ReadsKnown, Moved
  <2>5. ASSUME NEW v \in updates \ {u}
        PROVE  UpdateKnown(v)'
    <3>1. UpdateKnown(v) /\ v.begin \in Nat /\ v.reads \subseteq Folders
      BY <1>0, UpdateFields, PlanFields DEF Tree, History
    <3>2. v.begin <= serial'
      BY <1>0, <2>1, <3>1 DEF UpdateKnown
    <3>3. ASSUME NEW c \in v.reads \ {v.id}
          PROVE  \/ folder'[c].parent \in (v.reads \ {v.id}) \cup {Root}
                 \/ \E w \in K : w.write = c /\ Moved(w) /\ v.begin < w.commit
      <4>1. \/ folder[c].parent \in (v.reads \ {v.id}) \cup {Root}
            \/ \E w \in K : w.write = c /\ Moved(w) /\ v.begin < w.commit
        BY <3>1 DEF UpdateKnown, ReadsKnown, K
      <4>2. CASE c # u.id \/ u.in.parent = Kept
        <5>1. folder'[c].parent = folder[c].parent
          BY <1>1, <3>1, <4>2
        <5> QED BY <4>1, <5>1
      <4>3. CASE c = u.id /\ u.in.parent = Root
        BY <1>1, <4>3 DEF Kept, Root
      <4>4. CASE c = u.id /\ u.in.parent \in Folders
        <5>1. Moved(F) /\ v.begin < F.commit
          BY <1>0, <1>2, <2>3, <3>1, <4>4 DEF Moved, UpdateKnown
        <5> QED BY <2>3, <4>4, <5>1
      <4> QED BY <1>1, <4>2, <4>3, <4>4
    <3> QED BY <1>0, <1>2, <2>1, <3>1, <3>2, <3>3 DEF UpdateKnown, ReadsKnown, Moved
  <2> QED BY <1>3, <2>1, <2>4, <2>5, CommitForest DEF Tree, History
<1> QED BY <1>4, <1>5

\* A step that leaves folders alone, and begins at most one attempt.
LEMMA TreeStays ==
    ASSUME IInv, Tree, plan' = plan, folder' = folder, nextId' = nextId,
           \/ committed' = committed /\ serial' = serial
           \/ committed' = {} /\ serial' = 0 /\ updates' \cap updates = {},
           \A v \in updates' \ updates : UpdateKnown(v)'
    PROVE  Tree'
<1>0. Folders' = Folders
  BY SamePlan
<1>1. NoCircle' /\ ParentsExist'
  BY <1>0 DEF Tree, NoCircle, ParentsExist, Present
<1>2. \A x \in committed' : CommitKnown(x)'
  BY DEF Tree, History, CommitKnown, ReadsKnown, Moved
<1>3. ASSUME NEW v \in updates', v \in updates
      PROVE  UpdateKnown(v)'
  BY <1>0, <1>3 DEF Tree, History, UpdateKnown, ReadsKnown, Moved
<1> QED BY <1>1, <1>2, <1>3 DEF Tree, History

\* Edits that begin, retry and give up.
LEMMA UpdateTree ==
    ASSUME IInv, Tree, plan' = plan,
           \/ \E f \in Folders, in \in Patches : UpdateBegin(f, in)
           \/ \E u \in updates : UpdateCommit(u) \/ UpdateRetry(u) \/ UpdateAbort(u)
    PROVE  Tree'
<1>0. TypeOK /\ serial \in Nat /\ Folders' = Folders /\ ParentsExist
  BY SamePlan, PlanFields DEF IInv, TypeOK, Tree
<1>1. ASSUME NEW f \in Folders, NEW in \in Patches, NEW loaded \in Passwords \cup {None}, NEW left,
             serial' \in Nat, folder' = folder, nextId' = nextId,
             NEW v \in Attempts(f, in, loaded, left, serial')
      PROVE  UpdateKnown(v)'
  <2>1. PICK n \in Nat : n = serial'
    BY <1>1
  <2>2. v \in Attempts(f, in, loaded, left, n)
    BY <1>1, <2>1
  <2>3. /\ v.id \in v.reads /\ v.begin = n /\ v.base.st = "present"
        /\ IF v.in.parent \in Folders THEN v.in.parent \in v.reads \ {v.id} ELSE v.reads = {v.id}
        /\ \A c \in v.reads : c < nextId
        /\ \A c \in v.reads \ {v.id} : folder[c].parent \in (v.reads \ {v.id}) \cup {Root}
    BY <1>0, <2>2, AttemptKnows
  <2> QED BY <1>0, <1>1, <2>1, <2>3 DEF UpdateKnown, ReadsKnown
<1>2. ASSUME NEW f \in Folders, NEW in \in Patches, UpdateBegin(f, in)
      PROVE  Tree'
  <2>1. PICK v \in Attempts(f, in, None, MaxAttempts - 1, serial) : updates' = updates \cup {v}
    BY <1>2 DEF UpdateBegin
  <2>2. UNCHANGED <<folder, nextId, committed, serial>>
    BY <1>2 DEF UpdateBegin
  <2>3. UpdateKnown(v)'
    BY <1>0, <1>1, <2>1, <2>2
  <2> QED BY <2>1, <2>2, <2>3, TreeStays
<1>3. ASSUME NEW u \in updates, UpdateRetry(u)
      PROVE  Tree'
  <2>1. PICK v \in Attempts(u.id, u.in, u.loaded, u.left - 1, serial') :
           updates' = (updates \ {u}) \cup {v}
    BY <1>3 DEF UpdateRetry
  <2>2. folder' = folder /\ nextId' = nextId /\ Forget(u)
    BY <1>3 DEF UpdateRetry
  <2>3. serial' \in Nat
    BY <1>0, <2>2 DEF Forget
  <2>4. UpdateKnown(v)'
    BY <1>0, <1>1, <2>1, <2>2, <2>3, UpdateFields
  <2>5. \/ committed' = committed /\ serial' = serial
        \/ committed' = {} /\ serial' = 0 /\ updates = {u}
    BY <2>2 DEF Forget
  <2>6. CASE committed' = committed /\ serial' = serial
    BY <2>1, <2>2, <2>4, <2>6, TreeStays
  <2>7. CASE committed' = {} /\ serial' = 0 /\ updates = {u}
    <3>1. updates' = {v}
      BY <2>1, <2>7
    <3>2. History'
      BY <2>4, <2>7, <3>1 DEF History
    <3>3. NoCircle' /\ ParentsExist'
      BY <1>0, <2>2 DEF Tree, NoCircle, ParentsExist, Present
    <3> QED BY <3>2, <3>3 DEF Tree
  <2> QED BY <2>5, <2>6, <2>7
<1>4. ASSUME NEW u \in updates, UpdateAbort(u)
      PROVE  Tree'
  <2>1. /\ folder' = folder /\ nextId' = nextId /\ updates' = updates \ {u}
        /\ \/ committed' = committed /\ serial' = serial
           \/ committed' = {} /\ serial' = 0 /\ updates = {u}
    BY <1>4 DEF UpdateAbort, Forget
  <2> QED BY <2>1, TreeStays
<1> QED BY <1>2, <1>3, <1>4, CommitTree

\* Parents that only go.
LEMMA ShrinkTree ==
    ASSUME IInv, Tree, plan' = plan, UNCHANGED <<nextId, updates, committed, serial>>, ParentsExist',
           \A f \in Folders : folder'[f].parent \in {folder[f].parent, Root}
    PROVE  Tree'
<1>1. TypeOK /\ nextId' \in Int /\ nextId <= nextId'
  BY DEF IInv, TypeOK
<1> QED BY <1>1, HistoryStays, ForestStays DEF Tree

\* A deletion takes the parents away that it deletes.
LEMMA DeletionTree ==
    ASSUME IInv, Tree, plan' = plan, UNCHANGED <<nextId, updates, committed, serial>>,
           NEW F, F \subseteq Folders, DeleteRows(F)
    PROVE  Tree'
<1>0. TypeOK /\ Folders' = Folders
  BY SamePlan DEF IInv
<1>1. /\ \A f \in F : folder'[f] = Deleted
      /\ \A f \in Folders \ F : folder'[f].st = folder[f].st
  BY <1>0, DeletedFields
<1>2. Deleted.parent = Root
  BY DEF Deleted, NoRow
<1>3. ASSUME NEW f \in Folders
      PROVE  \/ folder'[f].parent = Root
             \/ f \notin F /\ folder'[f].parent = folder[f].parent /\ ~(Present(f) /\ folder[f].parent \in F)
  <2>1. CASE f \in F
    BY <1>1, <1>2, <2>1
  <2>2. CASE f \notin F /\ Present(f) /\ folder[f].parent \in F
    <3>1. folder'[f] = [folder[f] EXCEPT !.parent = Root] /\ folder[f] \in Rows
      BY <1>0, <2>2, FolderRow DEF DeleteRows
    <3> QED BY <3>1 DEF Rows
  <2>3. CASE f \notin F /\ ~(Present(f) /\ folder[f].parent \in F)
    BY <2>3 DEF DeleteRows
  <2> QED BY <2>1, <2>2, <2>3
<1>4. ParentsExist'
  <2> SUFFICES ASSUME NEW f \in Folders, folder'[f].parent # Root
               PROVE  folder'[f].st = "present" /\ folder'[folder'[f].parent].st = "present"
    BY <1>0 DEF ParentsExist, Present
  <2>1. /\ f \in Folders \ F /\ folder'[f].parent = folder[f].parent
        /\ ~(Present(f) /\ folder[f].parent \in F)
    BY <1>3
  <2>2. Present(f) /\ Present(folder[f].parent) /\ folder[f].parent \in Folders
    BY <1>0, <2>1, FolderRow, RowFields DEF Tree, ParentsExist
  <2> QED BY <1>1, <2>1, <2>2 DEF Present
<1> QED BY <1>3, <1>4, ShrinkTree

\* A folder that is new has no children.
LEMMA CreateTree ==
    ASSUME IInv, Tree, plan' = plan, NEW p \in Folders \cup {Root}, NEW pw \in Passwords \cup {None},
           NEW h \in Passwords \cup {None}, CreateFolder(p, pw, h)
    PROVE  Tree'
<1> DEFINE n == nextId
<1>0. TypeOK /\ Numbered /\ Folders' = Folders /\ Folders \subseteq Int /\ Root \notin Folders
  BY SamePlan, NotFolders DEF IInv, Folders
<1>1. n \in Folders /\ n \in Int /\ nextId' = n + 1
  BY <1>0, PlanFields DEF CreateFolder, TypeOK, Folders
<1>2. /\ \A f \in Folders : f # n => folder'[f] = folder[f]
      /\ folder'[n].st = "present" /\ folder'[n].parent = p /\ (p # Root => Present(p))
  BY <1>0, <1>1 DEF CreateFolder, TypeOK, Referable
<1>3. ~Present(n)
  BY <1>0, <1>1 DEF Numbered, Present
<1>4. ParentsExist'
  <2> SUFFICES ASSUME NEW f \in Folders, folder'[f].parent # Root
               PROVE  folder'[f].st = "present" /\ folder'[folder'[f].parent].st = "present"
    BY <1>0 DEF ParentsExist, Present
  <2>1. \A g \in Folders : Present(g) => folder'[g].st = "present"
    BY <1>2 DEF Present
  <2>2. CASE f = n
    BY <1>2, <2>1, <2>2
  <2>3. CASE f # n
    <3>1. folder'[f] = folder[f] /\ folder[f].parent \in Folders
      BY <1>0, <1>2, <2>3, FolderRow, RowFields
    <3>2. Present(f) /\ Present(folder[f].parent)
      BY <3>1 DEF Tree, ParentsExist
    <3> QED BY <2>1, <3>1, <3>2
  <2> QED BY <2>2, <2>3
<1>5. NoCircle'
  <2> SUFFICES ASSUME NEW C \in SUBSET Folders, C # {}, \A f \in C : folder'[f].parent \in C
               PROVE  FALSE
    BY <1>0 DEF NoCircle
  <2>1. ASSUME NEW f \in C
        PROVE  folder'[f].parent \in C \ {n}
    <3>1. folder'[f].parent \in Folders /\ folder'[f].parent # Root
      BY <1>0
    <3>2. CASE f = n
      BY <1>0, <1>2, <1>3, <3>1, <3>2
    <3>3. CASE f # n
      <4>1. folder'[f] = folder[f]
        BY <1>2, <3>3
      <4>2. Present(folder[f].parent)
        BY <3>1, <4>1 DEF Tree, ParentsExist
      <4> QED BY <1>3, <4>1, <4>2
    <3> QED BY <3>2, <3>3
  <2>2. C \ {n} # {} /\ \A f \in C \ {n} : folder[f].parent \in C \ {n}
    BY <1>2, <2>1
  <2> QED BY <2>2 DEF Tree, NoCircle
<1>6. History'
  <2>1. UNCHANGED <<updates, committed, serial>>
    BY DEF CreateFolder
  <2>2. ASSUME NEW f \in Folders, f < nextId
        PROVE  folder'[f].parent = folder[f].parent
    <3>1. f \in Int /\ f # n
      BY <1>0, <1>1, <2>2
    <3> QED BY <1>2, <3>1
  <2>3. nextId' \in Int /\ nextId <= nextId'
    BY <1>1
  <2> QED BY <1>0, <2>1, <2>2, <2>3, HistoryStays DEF Tree
<1> QED BY <1>4, <1>5, <1>6 DEF Tree

\* Every step keeps the tree.
LEMMA TreeStep == IInv /\ Tree /\ [Next]_vars => Tree'
<1> SUFFICES ASSUME IInv, Tree, [Next]_vars
             PROVE  Tree'
  OBVIOUS
<1>0. plan' = plan /\ TypeOK
  BY DEF Next, vars, IInv
<1>1. ASSUME folder' = folder, UNCHANGED <<nextId, updates, committed, serial>>
      PROVE  Tree'
  BY <1>0, <1>1, TreeStays
<1>2. ASSUME NEW f \in Folders, ResetPasswordByMaster(f)
      PROVE  Tree'
  <2>1. ASSUME NEW g \in Folders
        PROVE  folder'[g].parent = folder[g].parent /\ folder'[g].st = folder[g].st
    <3>1. folder[g] \in Rows /\ folder \in [Folders -> Rows]
      BY <1>0, FolderRow DEF TypeOK
    <3> QED BY <1>2, <3>1 DEF ResetPasswordByMaster, Rows
  <2>2. ParentsExist'
    <3> SUFFICES ASSUME NEW g \in Folders, folder'[g].parent # Root
                 PROVE  folder'[g].st = "present" /\ folder'[folder'[g].parent].st = "present"
      BY <1>0, SamePlan DEF ParentsExist, Present
    <3>1. Present(g) /\ Present(folder[g].parent) /\ folder[g].parent \in Folders
      BY <1>0, <2>1, FolderRow, RowFields DEF Tree, ParentsExist
    <3> QED BY <2>1, <3>1 DEF Present
  <2>3. UNCHANGED <<nextId, updates, committed, serial>>
    BY <1>2 DEF ResetPasswordByMaster
  <2> QED BY <1>0, <2>1, <2>2, <2>3, ShrinkTree
<1>3. ASSUME NEW f \in Folders, NEW t, DeleteFolder(f, t)
      PROVE  Tree'
  BY <1>0, <1>3, DeletionTree DEF DeleteFolder
<1>4. ASSUME NEW c \in cascades, CascadeDelete(c)
      PROVE  Tree'
  <2>1. PICK F : F = Doomed(c)
    OBVIOUS
  <2>2. F \subseteq Folders /\ DeleteRows(F) /\ UNCHANGED <<nextId, updates, committed, serial>>
    BY <1>0, <1>4, <2>1, CascadeFields DEF CascadeDelete, Doomed
  <2> QED BY <1>0, <2>2, DeletionTree
<1>5. CASE UNCHANGED vars
  BY <1>1, <1>5 DEF vars
<1>6. CASE Step
  <2>1. ASSUME NEW f \in Folders, Unlock(f)
        PROVE  Tree'
    BY <1>1, <2>1 DEF Unlock
  <2>2. ASSUME NEW f \in Folders, NEW t, CascadeBegin(f, t)
        PROVE  Tree'
    BY <1>1, <2>2 DEF CascadeBegin
  <2>3. ASSUME NEW c \in cascades,
               CascadeLock(c) \/ CascadeMark(c) \/ CascadeLockSubtree(c) \/ CascadeAbort(c)
        PROVE  Tree'
    BY <1>1, <2>3 DEF CascadeLock, CascadeMark, CascadeLockSubtree, CascadeAbort
  <2>4. ASSUME NEW i \in Items, NEW op, NEW t, EditBegin(i, op, t)
        PROVE  Tree'
    BY <1>1, <2>4 DEF EditBegin
  <2>5. ASSUME NEW e \in edits,
               EditLockFolder(e) \/ EditLockItem(e) \/ EditCommit(e) \/ EditAbort(e)
        PROVE  Tree'
    BY <1>1, <2>5 DEF EditLockFolder, EditLockItem, EditCommit, EditAbort
  <2> QED BY <1>0, <1>2, <1>3, <1>4, <1>6, <2>1, <2>2, <2>3, <2>4, <2>5, CreateTree, UpdateTree DEF Step
<1> QED BY <1>5, <1>6 DEF Next

\* At first parents are older than their children.
LEMMA TreeStarts == Init => Tree
<1> SUFFICES ASSUME Init
             PROVE  Tree
  OBVIOUS
<1>0. TypeOK /\ Folders \subseteq Nat /\ Root \notin Folders /\ nextId \in Int
  BY InitHolds, NotFolders DEF IInv, Folders, TypeOK
<1>1. \A f \in Folders : f < nextId => Present(f) /\ folder[f].parent < f
  BY DEF Init
<1>2. \A f \in Folders : ~(f < nextId) => folder[f].parent = Root
  BY DEF Init, NoRow
<1>3. ASSUME NEW f \in Folders, folder[f].parent # Root
      PROVE  Present(f) /\ folder[f].parent \in Folders /\ folder[f].parent < f
  BY <1>0, <1>1, <1>2, <1>3, FolderRow, RowFields
<1>4. ASSUME NEW f \in Folders, folder[f].parent # Root
      PROVE  Present(folder[f].parent)
  <2>1. f < nextId /\ folder[f].parent < f /\ folder[f].parent \in Folders
    BY <1>2, <1>3, <1>4
  <2>2. folder[f].parent < nextId
    <3>1. f \in Int /\ folder[f].parent \in Int
      BY <1>0, <2>1
    <3> QED BY <1>0, <2>1, <3>1
  <2> QED BY <1>1, <2>1, <2>2
<1>5. NoCircle
  <2> SUFFICES ASSUME NEW C \in SUBSET Folders, C # {}, \A f \in C : folder[f].parent \in C
               PROVE  FALSE
    BY DEF NoCircle
  <2>1. C \in SUBSET Nat
    BY <1>0
  <2>2. PICK f \in C : \A g \in C : f <= g
    BY <2>1, LeastElement
  <2>3. folder[f].parent \in C /\ folder[f].parent < f
    BY <1>0, <1>3
  <2>4. f \in Nat /\ folder[f].parent \in Nat /\ f <= folder[f].parent
    BY <2>1, <2>2, <2>3
  <2> QED BY <2>3, <2>4
<1> QED BY <1>3, <1>4, <1>5 DEF Tree, ParentsExist, History, Init

-------------------------------------------------------------------------------
(***************************************************************************)
(* What a cascade deletes.                                                 *)
(***************************************************************************)

\* A cascade holds what it has seen and found when it came to lock it; and if its subtree has
\* nothing but that, it holds the subtree, up to the root.
SubtreeHeld(c) ==
    /\ \A g \in c.seen : g < nextId
    /\ c.phase = "locking" => \A g \in c.seen \ c.todo : Present(g) => g \in c.held
    /\ c.phase # "locking" /\ c.subtree \subseteq c.seen =>
          \A g \in c.subtree : g \in c.held /\ (g # c.root => folder[g].parent \in c.subtree)

\* No step moves a folder that a cascade holds, or brings one back.
LEMMA HeldFoldersStay ==
    ASSUME IInv, [Next]_vars, NEW c \in cascades, c \in cascades'
    PROVE  /\ \A g \in c.held : folder'[g].parent = folder[g].parent
           /\ \A g \in Folders : g < nextId => (folder'[g].st = "present" => Present(g))
           /\ nextId' \in Int /\ nextId <= nextId'
<1>0. TypeOK /\ c.held \subseteq Folders /\ nextId \in Int /\ \A g \in c.held : Present(g)
  BY CascadeFields DEF IInv, TypeOK, LocksHold, CascadeChecked
<1>1. ASSUME folder' = folder, nextId' = nextId
      PROVE  /\ \A g \in c.held : folder'[g].parent = folder[g].parent
             /\ \A g \in Folders : g < nextId => (folder'[g].st = "present" => Present(g))
             /\ nextId' \in Int /\ nextId <= nextId'
  BY <1>0, <1>1 DEF Present
<1>2. ASSUME NEW F, F \subseteq Folders, DeleteRows(F), nextId' = nextId,
             \A g \in c.held : g \notin F /\ folder[g].parent \notin F
      PROVE  /\ \A g \in c.held : folder'[g].parent = folder[g].parent
             /\ \A g \in Folders : g < nextId => (folder'[g].st = "present" => Present(g))
             /\ nextId' \in Int /\ nextId <= nextId'
  <2>1. \A g \in c.held : folder'[g] = folder[g]
    BY <1>0, <1>2 DEF DeleteRows
  <2>2. /\ \A f \in F : folder'[f] = Deleted
        /\ \A f \in Folders \ F : folder'[f].st = folder[f].st
        /\ Deleted.st = "deleted"
    BY <1>0, <1>2, DeletedFields
  <2> QED BY <1>0, <1>2, <2>1, <2>2 DEF Present
<1>3. ASSUME NEW f \in Folders, NEW t, DeleteFolder(f, t)
      PROVE  \A g \in c.held : g \notin {f} /\ folder[g].parent \notin {f}
  <2>1. \A g \in {f} \cup Children(f) : Writable(g)
    BY <1>3 DEF DeleteFolder
  <2>2. ASSUME NEW g \in c.held
        PROVE  ~Writable(g) /\ (folder[g].parent = f => g \in Children(f))
    BY <1>0 DEF Writable, HeldByCascade, Children
  <2> QED BY <2>1, <2>2
<1>4. ASSUME NEW d \in cascades, CascadeDelete(d), NEW F, F = Doomed(d)
      PROVE  \A g \in c.held : g \notin F /\ folder[g].parent \notin F
  <2>1. d # c /\ d.phase = "locked" /\ \A f \in F : \A g \in Children(f) \ d.held : Writable(g)
    BY <1>4 DEF CascadeDelete, Doomed
  <2>2. F \subseteq d.held /\ c.held \cap d.held = {}
    BY <1>4, <2>1 DEF IInv, LocksHold, CascadeChecked, CascadesExclude, Doomed
  <2>3. ASSUME NEW g \in c.held
        PROVE  ~Writable(g) /\ (\A f \in F : folder[g].parent = f => g \in Children(f))
    BY <1>0 DEF Writable, HeldByCascade, Children
  <2> QED BY <2>1, <2>2, <2>3
<1>5. CASE \E f \in Folders : ResetPasswordByMaster(f)
  <2>1. PICK f \in Folders : ResetPasswordByMaster(f)
    BY <1>5
  <2>2. ASSUME NEW g \in Folders
        PROVE  folder'[g].parent = folder[g].parent /\ folder'[g].st = folder[g].st
    <3>1. folder[g] \in Rows /\ folder \in [Folders -> Rows]
      BY <1>0, FolderRow DEF TypeOK
    <3> QED BY <2>1, <3>1 DEF ResetPasswordByMaster, Rows
  <2>3. nextId' = nextId
    BY <2>1 DEF ResetPasswordByMaster
  <2>4. \A g \in c.held : folder'[g].parent = folder[g].parent
    BY <1>0, <2>2
  <2> QED BY <1>0, <2>2, <2>3, <2>4 DEF Present
<1>6. CASE \E p \in Folders \cup {Root}, pw \in Passwords \cup {None}, h \in Passwords \cup {None} :
              CreateFolder(p, pw, h)
  <2>1. PICK p, pw, h : CreateFolder(p, pw, h)
    BY <1>6
  <2>2. nextId' = nextId + 1 /\ \A g \in Folders : g # nextId => folder'[g] = folder[g]
    BY <1>0, <2>1 DEF CreateFolder, TypeOK
  <2>3. ASSUME NEW g \in Folders, Present(g)
        PROVE  g # nextId
    BY <1>0, <2>3 DEF IInv, Numbered, Present
  <2>4. ASSUME NEW g \in Folders, g < nextId
        PROVE  g # nextId
    BY <1>0, <2>4 DEF Folders
  <2> QED BY <1>0, <2>2, <2>3, <2>4 DEF Present
<1>7. CASE \E u \in updates : UpdateCommit(u)
  <2>1. PICK u \in updates : UpdateCommit(u)
    BY <1>7
  <2>2. /\ \A f \in Folders : f # u.id => folder'[f] = folder[f]
        /\ folder'[u.id].st = folder[u.id].st
    BY <2>1, CommitFolders
  <2>3. u.id \notin c.held /\ nextId' = nextId
    BY <2>1 DEF UpdateCommit, Writable, HeldByCascade
  <2> QED BY <1>0, <2>2, <2>3 DEF Present
<1>8. CASE \E f \in Folders, t \in tokens \cup {NoToken} : DeleteFolder(f, t)
  <2>1. PICK f \in Folders, t \in tokens \cup {NoToken} : DeleteFolder(f, t)
    BY <1>8
  <2>2. {f} \subseteq Folders /\ DeleteRows({f}) /\ nextId' = nextId
    BY <2>1 DEF DeleteFolder
  <2> QED BY <1>2, <1>3, <2>1, <2>2
<1>9. CASE \E d \in cascades : CascadeDelete(d)
  <2>1. PICK d \in cascades : CascadeDelete(d)
    BY <1>9
  <2>2. PICK F : F = Doomed(d)
    OBVIOUS
  <2>3. F \subseteq Folders /\ DeleteRows(F) /\ nextId' = nextId
    BY <1>0, <2>1, <2>2, CascadeFields DEF CascadeDelete, Doomed
  <2> QED BY <1>2, <1>4, <2>1, <2>2, <2>3
<1>10. \/ folder' = folder /\ nextId' = nextId
       \/ \E f \in Folders : ResetPasswordByMaster(f)
       \/ \E p \in Folders \cup {Root}, pw \in Passwords \cup {None}, h \in Passwords \cup {None} :
             CreateFolder(p, pw, h)
       \/ \E u \in updates : UpdateCommit(u)
       \/ \E f \in Folders, t \in tokens \cup {NoToken} : DeleteFolder(f, t)
       \/ \E d \in cascades : CascadeDelete(d)
  BY DEF Next, Step, vars, Unlock, UpdateBegin, UpdateRetry, UpdateAbort, CascadeBegin, CascadeLock,
     CascadeMark, CascadeLockSubtree, CascadeAbort, EditBegin, EditLockFolder, EditLockItem,
     EditCommit, EditAbort
<1> QED BY <1>1, <1>5, <1>6, <1>7, <1>8, <1>9, <1>10

\* The subtree that a cascade reads: up to its root, its folders' parents are in it.
LEMMA SubtreeGoesUp ==
    ASSUME TypeOK, ParentsExist, NEW r \in Folders, NEW g \in Subtree(r), g # r
    PROVE  folder[g].parent \in Subtree(r)
<1>1. g \in Folders /\ r \in Ancestors(g) /\ Present(r)
  BY DEF Subtree, Ancestors
<1>2. folder[g].parent # Root
  <2>1. SUFFICES ASSUME folder[g].parent = Root PROVE FALSE
    OBVIOUS
  <2>2. {g} \in SUBSET Folders /\ g \in {g} /\ UpwardClosed({g})
    BY <1>1, <2>1 DEF UpwardClosed
  <2> QED BY <1>1, <2>2 DEF Ancestors
<1>3. folder[g].parent \in Folders /\ Present(folder[g].parent)
  BY <1>1, <1>2, FolderRow, RowFields DEF ParentsExist
<1>4. ASSUME NEW F \in SUBSET Folders, folder[g].parent \in F, UpwardClosed(F)
      PROVE  r \in F
  <2>1. F \cup {g} \in SUBSET Folders /\ g \in F \cup {g} /\ UpwardClosed(F \cup {g})
    BY <1>1, <1>4 DEF UpwardClosed
  <2>2. r \in F \cup {g}
    BY <1>1, <2>1 DEF Ancestors
  <2> QED BY <2>2
<1> QED BY <1>1, <1>3, <1>4 DEF Subtree, Ancestors

\* Every step keeps what cascades hold.
LEMMA CascadeStepHeld ==
    ASSUME IInv, Tree, \A c \in cascades : SubtreeHeld(c), [Next]_vars
    PROVE  \A c \in cascades' : SubtreeHeld(c)'
<1>0. TypeOK /\ plan' = plan /\ ParentsExist
  BY DEF IInv, Next, vars, Tree
<1>1. ASSUME NEW c \in cascades', c \in cascades
      PROVE  SubtreeHeld(c)'
  <2>1. SubtreeHeld(c) /\ c.seen \subseteq Folders /\ c.subtree \subseteq Folders
    BY <1>0, <1>1, CascadeFields
  <2>2. /\ \A g \in c.held : folder'[g].parent = folder[g].parent
        /\ \A g \in Folders : g < nextId => (folder'[g].st = "present" => Present(g))
        /\ nextId' \in Int /\ nextId <= nextId'
    BY <1>1, HeldFoldersStay
  <2>3. ASSUME NEW g \in c.seen
        PROVE  g < nextId'
    <3>1. g < nextId /\ g \in Int /\ nextId \in Int
      BY <1>0, <2>1 DEF SubtreeHeld, Folders, TypeOK
    <3> QED BY <2>2, <3>1
  <2>4. c.phase = "locking" => \A g \in c.seen \ c.todo : folder'[g].st = "present" => g \in c.held
    BY <2>1, <2>2 DEF SubtreeHeld
  <2>5. c.phase # "locking" /\ c.subtree \subseteq c.seen =>
           \A g \in c.subtree : g \in c.held /\ (g # c.root => folder'[g].parent \in c.subtree)
    BY <2>1, <2>2 DEF SubtreeHeld
  <2> QED BY <2>3, <2>4, <2>5 DEF SubtreeHeld, Present
<1>2. ASSUME NEW d, SubtreeHeld(d), folder' = folder, nextId' = nextId
      PROVE  SubtreeHeld(d)'
  BY <1>2 DEF SubtreeHeld, Present
<1>3. ASSUME NEW f \in Folders, NEW t \in tokens \cup {NoToken}, CascadeBegin(f, t)
      PROVE  \A c \in cascades' : SubtreeHeld(c)'
  <2>1. PICK d : d = [root |-> f, token |-> t, phase |-> "locking", held |-> {}, subtree |-> {},
                      seen |-> {g \in Folders : Present(g)}, todo |-> {g \in Folders : Present(g)}]
    OBVIOUS
  <2>2. cascades' = cascades \cup {d} /\ folder' = folder /\ nextId' = nextId
    BY <1>3, <2>1 DEF CascadeBegin
  <2>3. ASSUME NEW g \in Folders, Present(g)
        PROVE  g < nextId
    <3>1. g \in Int /\ nextId \in Int /\ ~(g >= nextId)
      BY <1>0, <2>3 DEF IInv, Numbered, Present, TypeOK, Folders
    <3> QED BY <3>1
  <2>4. SubtreeHeld(d)
    BY <2>1, <2>3 DEF SubtreeHeld
  <2> QED BY <1>1, <1>2, <2>2, <2>4
<1>4. ASSUME NEW c \in cascades, CascadeLock(c)
      PROVE  \A x \in cascades' : SubtreeHeld(x)'
  <2>1. PICK f \in c.todo :
           Becomes(c, [c EXCEPT !.todo = @ \ {f}, !.held = IF Present(f) THEN @ \cup {f} ELSE @])
    BY <1>4 DEF CascadeLock
  <2>2. PICK d : d = [c EXCEPT !.todo = @ \ {f}, !.held = IF Present(f) THEN @ \cup {f} ELSE @]
    OBVIOUS
  <2>3. /\ cascades' = (cascades \ {c}) \cup {d} /\ folder' = folder /\ nextId' = nextId
        /\ c \in Cascades /\ c.phase = "locking" /\ SubtreeHeld(c)
    BY <1>0, <1>4, <2>1, <2>2, CascadeFields DEF CascadeLock, Becomes
  <2>4. /\ d.seen = c.seen /\ d.todo = c.todo \ {f} /\ d.phase = "locking"
        /\ d.held = IF Present(f) THEN c.held \cup {f} ELSE c.held
    BY <2>2, <2>3 DEF Cascades
  <2>5. SubtreeHeld(d)
    BY <2>3, <2>4 DEF SubtreeHeld
  <2> QED BY <1>1, <1>2, <2>3, <2>5
<1>5. ASSUME NEW c \in cascades, CascadeMark(c)
      PROVE  \A x \in cascades' : SubtreeHeld(x)'
  <2>1. PICK d : d = [c EXCEPT !.phase = "marked", !.held = @ \cup {c.root}, !.subtree = Subtree(c.root)]
    OBVIOUS
  <2>2. /\ cascades' = (cascades \ {c}) \cup {d} /\ folder' = folder /\ nextId' = nextId
        /\ c \in Cascades /\ c.phase = "locking" /\ c.todo = {} /\ SubtreeHeld(c) /\ c.root \in Folders
    BY <1>0, <1>5, <2>1, CascadeFields DEF CascadeMark, Becomes
  <2>3. /\ d.seen = c.seen /\ d.phase = "marked" /\ d.root = c.root
        /\ d.held = c.held \cup {c.root} /\ d.subtree = Subtree(c.root)
    BY <2>1, <2>2 DEF Cascades
  <2>4. \A g \in Subtree(c.root) : Present(g) /\ (g # c.root => folder[g].parent \in Subtree(c.root))
    BY <1>0, <2>2, SubtreeGoesUp DEF Subtree
  <2>5. SubtreeHeld(d)
    BY <2>2, <2>3, <2>4 DEF SubtreeHeld
  <2> QED BY <1>1, <1>2, <2>2, <2>5
<1>6. ASSUME NEW c \in cascades, CascadeLockSubtree(c)
      PROVE  \A x \in cascades' : SubtreeHeld(x)'
  <2>1. PICK d : d = [c EXCEPT !.phase = "locked", !.held = @ \cup {f \in c.subtree : Present(f)}]
    OBVIOUS
  <2>2. /\ cascades' = (cascades \ {c}) \cup {d} /\ folder' = folder /\ nextId' = nextId
        /\ c \in Cascades /\ c.phase = "marked" /\ SubtreeHeld(c)
    BY <1>0, <1>6, <2>1, CascadeFields DEF CascadeLockSubtree, Becomes
  <2>3. /\ d.seen = c.seen /\ d.phase = "locked" /\ d.root = c.root /\ d.subtree = c.subtree
        /\ c.held \subseteq d.held
    BY <2>1, <2>2 DEF Cascades
  <2>4. SubtreeHeld(d)
    BY <2>2, <2>3 DEF SubtreeHeld
  <2> QED BY <1>1, <1>2, <2>2, <2>4
<1>7. \/ cascades' \subseteq cascades
      \/ \E f \in Folders, t \in tokens \cup {NoToken} : CascadeBegin(f, t)
      \/ \E c \in cascades : CascadeLock(c) \/ CascadeMark(c) \/ CascadeLockSubtree(c)
  BY DEF Next, Step, vars, Unlock, ResetPasswordByMaster, CreateFolder, UpdateBegin, UpdateCommit,
     UpdateRetry, UpdateAbort, DeleteFolder, CascadeDelete, CascadeAbort, EditBegin,
     EditLockFolder, EditLockItem, EditCommit, EditAbort
<1> QED BY <1>1, <1>3, <1>4, <1>5, <1>6, <1>7

\* What it deletes is under its root: it holds the way up, and that ends at the root, because
\* there is no circle.
LEMMA InsideStep ==
    ASSUME IInv, Tree, \A x \in cascades : SubtreeHeld(x), [Next]_vars,
           NEW c \in cascades, c \notin cascades', NEW f \in Folders, Present(f),
           folder'[f] = Deleted, c.subtree \subseteq c.seen
    PROVE  f \in Subtree(c.root)
<1>0. TypeOK /\ c.root \in Folders /\ c.subtree \subseteq Folders /\ Root \notin Folders
  BY CascadeFields, NotFolders DEF IInv
<1>1. folder' # folder /\ cascades' # cascades
  BY DEF Deleted, NoRow, Present
<1>2. PICK d \in cascades : CascadeDelete(d)
  BY <1>1 DEF Next, Step, vars, Unlock, ResetPasswordByMaster, CreateFolder, UpdateBegin,
     UpdateCommit, UpdateRetry, UpdateAbort, DeleteFolder, CascadeBegin, CascadeLock, CascadeMark,
     CascadeLockSubtree, CascadeAbort, EditBegin, EditLockFolder, EditLockItem, EditCommit,
     EditAbort
<1>3. d = c
  BY <1>2 DEF CascadeDelete
<1>4. PICK F : F = Doomed(c)
  OBVIOUS
<1>5. F \subseteq Folders /\ DeleteRows(F) /\ c.phase = "locked" /\ F \subseteq c.subtree
  BY <1>0, <1>2, <1>3, <1>4 DEF CascadeDelete, Doomed
<1>6. f \in F
  <2>1. SUFFICES ASSUME f \notin F
                 PROVE  FALSE
    OBVIOUS
  <2>2. folder'[f].st = folder[f].st /\ Deleted.st = "deleted"
    BY <1>0, <1>5, <2>1, DeletedFields
  <2> QED BY <2>2 DEF Present
<1>7. /\ Present(c.root)
      /\ \A g \in c.subtree : g # c.root => folder[g].parent \in c.subtree
  BY <1>5 DEF IInv, LocksHold, CascadeChecked, SubtreeHeld
<1>8. ASSUME NEW G \in SUBSET Folders, f \in G, UpwardClosed(G), c.root \notin G
      PROVE  FALSE
  <2> DEFINE D == G \cap c.subtree
  <2>1. D \in SUBSET Folders /\ D # {}
    BY <1>5, <1>6, <1>8
  <2>2. \A g \in D : folder[g].parent \in D
    BY <1>0, <1>7, <1>8 DEF UpwardClosed
  <2> HIDE DEF D
  <2> QED BY <2>1, <2>2 DEF Tree, NoCircle
<1> QED BY <1>0, <1>7, <1>8 DEF Subtree, Ancestors

\* However many moves race, no folder ever becomes its own ancestor (repository.go:
\* checkParentCycle inside the SERIALIZABLE updateOnce).
THEOREM TreeIsSound == Spec => []TreeSound
<1>1. IInv /\ Tree => TreeSound
  BY ForestIsAcyclic DEF IInv, Tree, TreeSound
<1> QED BY InitHolds, StepHolds, TreeStarts, TreeStep, <1>1, PTL DEF Spec

\* A cascade deletes what its token opens, and nothing outside its root's subtree unless that
\* held a folder which the cascade did not lock (repository.go: deleteCascade; INV-064).
THEOREM CascadesAreBounded == Spec => CascadeBounded
<1> DEFINE HInv == IInv /\ Tree /\ \A c \in cascades : SubtreeHeld(c)
<1>1. Init => HInv
  BY InitHolds, TreeStarts DEF Init
<1>2. HInv /\ [Next]_vars => HInv'
  BY StepHolds, TreeStep, CascadeStepHeld
<1>3. HInv /\ [Next]_vars =>
         [\A c \in cascades, f \in Folders :
             c \notin cascades' /\ Present(f) /\ folder'[f] = Deleted /\ c.subtree \subseteq c.seen =>
                 f \in Subtree(c.root)]_vars
  BY InsideStep
<1>4. Spec => CascadeStaysInside
  BY <1>1, <1>2, <1>3, PTL DEF Spec, CascadeStaysInside
<1> QED BY <1>4, CascadesAreAuthorized DEF CascadeBounded

===============================================================================

----------------------------- MODULE AuthSessions -----------------------------
(***************************************************************************)
(* Sessions of the auth package: the tables app_user (the columns a        *)
(* session depends on), session and session_used_token, and the            *)
(* transactions that read and write them: login, refresh rotation with its *)
(* grace window and its reuse detector, logout, revocation and the sweep.  *)
(*                                                                         *)
(* Transactions interleave.  A rotation runs SERIALIZABLE: it reads a      *)
(* snapshot, locks one session row and commits later; of two rotations     *)
(* that conflict the first to commit wins and the other one is rolled      *)
(* back.  The revocations run READ COMMITTED: their UPDATE finds its rows  *)
(* in the snapshot of the statement, waits for the rows that a rotation    *)
(* holds locked, and writes them afterwards; a row that is inserted in the *)
(* meantime is not in the snapshot.  Every other transaction is one step.  *)
(*                                                                         *)
(* An access, refresh and CSRF token are always drawn together: a triple   *)
(* is one number, in the order of drawing.  A family is named by the       *)
(* session that founded it.                                                *)
(***************************************************************************)
EXTENDS Integers, FiniteSets

CONSTANTS
    Users,         \* accounts
    Passwords,     \* passwords
    Access,        \* SessionTTL.Access, in ticks
    Refresh,       \* SessionTTL.Refresh, in ticks
    Absolute,      \* SessionTTL.Absolute, in ticks
    Grace,         \* SessionTTL.Grace, in ticks
    Retain,        \* the sweeper's retention, in ticks
    FamilyLimit,   \* maxLiveSessionsPerFamily
    MaxTime,       \* bound on the clock
    MaxSessions,   \* bound on the session rows ever inserted
    MaxTriples,    \* bound on the triples ever drawn
    MaxEpoch,      \* bound on token_version
    MaxRotations,  \* bound on the rotations in flight
    MaxRevocations,\* bound on the revocations in flight
    MaxLogins      \* bound on the logins in flight

ASSUME SessionsAssumption ==
    /\ Access \in Nat \ {0}
    /\ Refresh \in Nat \ {0}
    /\ Absolute \in Nat \ {0}
    /\ Grace \in Nat
    /\ Retain \in Nat
    /\ FamilyLimit \in Nat \ {0}
    /\ MaxTime \in Nat
    /\ MaxSessions \in Nat
    /\ MaxTriples \in Nat
    /\ MaxEpoch \in Nat
    /\ MaxRotations \in Nat
    /\ MaxRevocations \in Nat
    /\ MaxLogins \in Nat

VARIABLES
    now,        \* the clock
    acct,       \* app_user: status, token_version and password of each account
    sess,       \* session
    used,       \* session_used_token
    nextSid,    \* the next session id
    nextTok,    \* the next triple
    logins,     \* logins whose password is verified and whose session is not yet issued
    rotations,  \* rotations that hold their row lock
    revocations,\* revocations whose statement has its snapshot
    famOf,      \* history: the family each remembered triple was issued to
    ended,      \* history: the families that a revocation was asked to end
    burned      \* history: the families that the reuse detector revoked

vars == <<now, acct, sess, used, nextSid, nextTok, logins, rotations, revocations,
          famOf, ended, burned>>

Sids    == 1..MaxSessions
Triples == 1..MaxTriples
Times   == 0..MaxTime

\* The row's tok is the triple whose access and refresh hashes it stores, issued
\* the time they were drawn.  proof and late are history: the password that
\* opened the family, and whether the row was inserted by a rotation that
\* overlapped a revocation of its family.
NoUser == "none"
Rows == [st : {"absent", "live", "revoked", "swept"}, user : Users \cup {NoUser},
         fam : 0..MaxSessions, tok : 0..MaxTriples, born : Times, issued : Times,
         proof : Passwords \cup {NoUser}, late : BOOLEAN]
NoRow == [st |-> "absent", user |-> NoUser, fam |-> 0, tok |-> 0, born |-> 0,
          issued |-> 0, proof |-> NoUser, late |-> FALSE]

Uses  == [sid : 0..MaxSessions, at : Times]
NoUse == [sid |-> 0, at |-> 0]

Accounts  == [status : {"active", "disabled"}, epoch : 0..MaxEpoch, pw : Passwords]
Logins    == [user : Users, epoch : 0..MaxEpoch, pw : Passwords]
Rotations == [tok : Triples, sid : Sids, kind : {"live", "grace"}, at : Times,
              overlap : BOOLEAN]
Kinds     == {"logout", "logoutAll", "changePassword"}
Revocations == [kind : Kinds, user : Users, pw : Passwords, rows : SUBSET Sids,
                fams : SUBSET Sids]

Live(s)     == sess[s].st = "live"
Family(f)   == {s \in Sids : sess[s].fam = f /\ sess[s].st \in {"live", "revoked"}}
LiveIn(f)   == {s \in Family(f) : Live(s)}
Stored(t)   == {s \in Sids : sess[s].tok = t /\ sess[s].st \in {"live", "revoked"}}
Consumed(t) == used[t] # NoUse

\* The rows a rotation holds locked, and the accounts a revocation holds locked.
LockedRows  == {r.sid : r \in rotations}
LockedUsers == {v.user : v \in {w \in revocations : w.kind # "logout"}}

-------------------------------------------------------------------------------
(***************************************************************************)
(* Login.  The password check reads the hash and token_version in one      *)
(* statement; IssueSession locks the account and requires that version.    *)
(***************************************************************************)

VerifyPassword(u, pw) ==
    /\ Cardinality(logins) < MaxLogins
    /\ acct[u].status = "active"
    /\ acct[u].pw = pw
    /\ logins' = logins \cup {[user |-> u, epoch |-> acct[u].epoch, pw |-> pw]}
    /\ UNCHANGED <<now, acct, sess, used, nextSid, nextTok, rotations, revocations,
                   famOf, ended, burned>>

\* Mutant: the version that was verified is not compared again.
ProofIsActive(l) == acct[l.user].status = "active"

ProofIsCurrent(l) ==
    acct[l.user].status = "active" /\ acct[l.user].epoch = l.epoch

\* insertSessionTx: one row, with the triple drawn by newSessionIssue.
Insert(row) ==
    /\ nextSid <= MaxSessions
    /\ nextTok <= MaxTriples
    /\ sess' = [sess EXCEPT ![nextSid] = row]
    /\ famOf' = [famOf EXCEPT ![nextTok] = row.fam]
    /\ nextSid' = nextSid + 1
    /\ nextTok' = nextTok + 1

IssueSession(l) ==
    /\ l.user \notin LockedUsers
    /\ ProofIsCurrent(l)
    /\ Insert([st |-> "live", user |-> l.user, fam |-> nextSid, tok |-> nextTok,
               born |-> now, issued |-> now, proof |-> l.pw, late |-> FALSE])
    /\ logins' = logins \ {l}
    /\ UNCHANGED <<now, acct, used, rotations, revocations, ended, burned>>

\* ErrSessionInvalid: the account moved on since the password was verified.
IssueRefused(l) ==
    /\ l.user \notin LockedUsers
    /\ ~ProofIsCurrent(l)
    /\ logins' = logins \ {l}
    /\ UNCHANGED <<now, acct, sess, used, nextSid, nextTok, rotations, revocations,
                   famOf, ended, burned>>

-------------------------------------------------------------------------------
(***************************************************************************)
(* Rotate.                                                                 *)
(***************************************************************************)

\* Mutant: READ COMMITTED in place of SERIALIZABLE.
NoConflict(f) == {}

\* Rotations that a commit on family f rolls back: they read what it wrote.
Conflicting(f) == {r \in rotations : sess[r.sid].fam = f}

\* lockLiveRefreshTx: the row that stores the refresh hash.
Refreshable(t, s) ==
    /\ s \in Stored(t)
    /\ Live(s)
    /\ sess[s].issued + Refresh > now

\* Mutant: the ceiling is measured from the last rotation.
IdleTooLong(s) == now - sess[s].issued > Absolute

PastCeiling(s) == now - sess[s].born > Absolute

InGrace(t) == now - used[t].at <= Grace

\* A revocation that covers family f has taken its snapshot.
BeingRevoked(f) == \E v \in revocations : f \in v.fams

BeginRotation(t, s, kind) ==
    /\ Cardinality(rotations) < MaxRotations
    /\ s \notin LockedRows
    /\ rotations' = rotations \cup
          {[tok |-> t, sid |-> s, kind |-> kind, at |-> now,
            overlap |-> BeingRevoked(sess[s].fam)]}
    /\ UNCHANGED <<now, acct, sess, used, nextSid, nextTok, logins, revocations,
                   famOf, ended, burned>>

\* The presented token is live: lock its row.
RotateLive(t) ==
    /\ ~Consumed(t)
    /\ \E s \in Sids :
          /\ Refreshable(t, s)
          /\ ~PastCeiling(s)
          /\ acct[sess[s].user].status = "active"
          /\ BeginRotation(t, s, "live")

\* The presented token was consumed inside the grace window and its session is
\* still live: lock it.
RotateGrace(t) ==
    /\ Consumed(t)
    /\ InGrace(t)
    /\ LET s == used[t].sid IN
          /\ Live(s)
          /\ Cardinality(LiveIn(sess[s].fam)) < FamilyLimit
          /\ BeginRotation(t, s, "grace")

Revoke(rows) ==
    sess' = [s \in Sids |-> IF s \in rows /\ Live(s)
                            THEN [sess[s] EXCEPT !.st = "revoked"] ELSE sess[s]]

\* revokeFamily, inside a serializable transaction.
RevokeFamily(f) ==
    /\ Revoke(Family(f))
    /\ rotations' = rotations \ Conflicting(f)

\* The rotation finds the family past its ceiling, or its account inactive.
RotateExpires(t) ==
    /\ ~Consumed(t)
    /\ \E s \in Sids :
          /\ Refreshable(t, s)
          /\ s \notin LockedRows
          /\ PastCeiling(s) \/ acct[sess[s].user].status # "active"
          /\ RevokeFamily(sess[s].fam)
    /\ UNCHANGED <<now, acct, used, nextSid, nextTok, logins, revocations, famOf,
                   ended, burned>>

\* Mutant: only the session that founded the family is revoked.
PurgeFounder(f) ==
    /\ Revoke({f})
    /\ rotations' = rotations \ Conflicting(f)
    /\ used' = [t \in Triples |-> IF Consumed(t) /\ sess[used[t].sid].fam = f
                                  THEN NoUse ELSE used[t]]
    /\ burned' = burned \cup {f}

\* revokeAndPurgeFamily.
Purge(f) ==
    /\ RevokeFamily(f)
    /\ used' = [t \in Triples |-> IF Consumed(t) /\ sess[used[t].sid].fam = f
                                  THEN NoUse ELSE used[t]]
    /\ burned' = burned \cup {f}

\* The presented token was consumed outside the grace window, or the family
\* holds as many live sessions as it may: ErrSessionReuse.
RotateReuse(t) ==
    /\ Consumed(t)
    /\ LET s == used[t].sid
           f == sess[s].fam IN
          /\ s \notin LockedRows
          /\ \/ ~InGrace(t)
             \/ Live(s) /\ Cardinality(LiveIn(f)) >= FamilyLimit
          /\ Purge(f)
    /\ UNCHANGED <<now, acct, nextSid, nextTok, logins, revocations, famOf, ended>>

\* A live rotation marks the token used and writes a new triple on its row.  The
\* timestamps are the transaction's: now() is the time it began.
WriteNewTokens(r) ==
    /\ nextTok <= MaxTriples
    /\ used' = [used EXCEPT ![r.tok] = [sid |-> r.sid, at |-> r.at]]
    /\ sess' = [sess EXCEPT ![r.sid].tok = nextTok, ![r.sid].issued = r.at]
    /\ famOf' = [famOf EXCEPT ![nextTok] = sess[r.sid].fam]
    /\ nextTok' = nextTok + 1
    /\ UNCHANGED nextSid

\* Mutant: a grace rotation draws a new triple on the row that exists.
RemintOnRow(r) ==
    /\ nextTok <= MaxTriples
    /\ sess' = [sess EXCEPT ![r.sid].tok = nextTok, ![r.sid].issued = r.at]
    /\ famOf' = [famOf EXCEPT ![nextTok] = sess[r.sid].fam]
    /\ nextTok' = nextTok + 1
    /\ UNCHANGED <<nextSid, used>>

\* A grace rotation inserts a sibling, as old as the session it was asked for.
InsertSibling(r) ==
    /\ Insert([sess[r.sid] EXCEPT !.st = "live", !.tok = nextTok, !.issued = r.at,
                                  !.late = sess[r.sid].late \/ r.overlap])
    /\ UNCHANGED used

RotateCommit(r) ==
    /\ IF r.kind = "live" THEN WriteNewTokens(r) ELSE InsertSibling(r)
    /\ rotations' = rotations \ ({r} \cup Conflicting(sess[r.sid].fam))
    /\ UNCHANGED <<now, acct, logins, revocations, ended, burned>>

\* A serialization failure, or the request was cancelled.
RotateAbort(r) ==
    /\ rotations' = rotations \ {r}
    /\ UNCHANGED <<now, acct, sess, used, nextSid, nextTok, logins, revocations,
                   famOf, ended, burned>>

-------------------------------------------------------------------------------
(***************************************************************************)
(* Revocations.  BeginRevocation takes the statement's snapshot,           *)
(* RevocationCommit waits for its rows, writes them and commits.           *)
(***************************************************************************)

BeginRevocation(v) ==
    /\ Cardinality(revocations) < MaxRevocations
    /\ revocations' = revocations \cup {v}
    /\ rotations' = {[r EXCEPT !.overlap = @ \/ sess[r.sid].fam \in v.fams] : r \in rotations}
    /\ UNCHANGED <<now, acct, sess, used, nextSid, nextTok, logins, famOf, ended, burned>>

\* Mutant: a refresh token that was rotated away names no family.
NamedByStored(t) == {sess[s].fam : s \in Stored(t)}

\* RevokeFamilyByTokens finds the family by the session that stores the triple or
\* by the consumed refresh token.
NamedBy(t) ==
    {sess[s].fam : s \in Stored(t)}
        \cup (IF Consumed(t) THEN {sess[used[t].sid].fam} ELSE {})

Logout(t) ==
    /\ famOf[t] # 0
    /\ BeginRevocation([kind |-> "logout", user |-> sess[famOf[t]].user,
                        pw |-> acct[sess[famOf[t]].user].pw,
                        rows |-> UNION {LiveIn(f) : f \in NamedBy(t)},
                        fams |-> {famOf[t]}])

\* The middleware's ResolveAccess: triple t opens session s.
Opens(t, s) ==
    /\ s \in Stored(t)
    /\ Live(s)
    /\ sess[s].issued + Access > now
    /\ acct[sess[s].user].status = "active"

FamiliesOf(u) == {sess[s].fam : s \in {x \in Sids : sess[x].user = u /\ Live(x)}}

\* RevokeAllForUser, for the account itself or for an administrator: the account
\* row is updated, hence locked, before the sessions are.
LogoutAll(u) ==
    /\ u \notin LockedUsers
    /\ acct[u].epoch < MaxEpoch
    /\ BeginRevocation([kind |-> "logoutAll", user |-> u, pw |-> acct[u].pw,
                        rows |-> {s \in Sids : sess[s].user = u /\ Live(s)},
                        fams |-> FamiliesOf(u)])

\* ChangePassword: lock the account, verify the current password, replace it and
\* revoke every session but the caller's.
ChangePassword(t, current, new) ==
    \E keep \in Sids :
        /\ Opens(t, keep)
        /\ LET u == sess[keep].user IN
              /\ u \notin LockedUsers
              /\ acct[u].epoch < MaxEpoch
              /\ acct[u].pw = current
              /\ BeginRevocation(
                    [kind |-> "changePassword", user |-> u, pw |-> new,
                     rows |-> {s \in Sids : sess[s].user = u /\ Live(s)} \ {keep},
                     fams |-> FamiliesOf(u) \ {sess[keep].fam}])

\* Mutant: logging out one device bumps token_version too.
AccountAfterAny(v) == [acct EXCEPT ![v.user].epoch = @ + 1, ![v.user].pw = v.pw]

\* logout leaves the account alone; the two others bump token_version.
AccountAfter(v) ==
    IF v.kind = "logout" THEN acct
    ELSE [acct EXCEPT ![v.user].epoch = @ + 1, ![v.user].pw = v.pw]

RevocationCommit(v) ==
    /\ v.rows \cap LockedRows = {}
    /\ Revoke(v.rows)
    /\ acct' = AccountAfter(v)
    /\ revocations' = revocations \ {v}
    /\ ended' = ended \cup v.fams
    /\ UNCHANGED <<now, used, nextSid, nextTok, logins, rotations, famOf, burned>>

\* The statement failed or the request was cancelled: nothing is written.
RevocationAbort(v) ==
    /\ revocations' = revocations \ {v}
    /\ UNCHANGED <<now, acct, sess, used, nextSid, nextTok, logins, rotations, famOf,
                   ended, burned>>

\* RevokeSession: one row, by id, of the caller's account.
RevokeSession(t, s) ==
    /\ \E c \in Sids : Opens(t, c) /\ sess[c].user = sess[s].user
    /\ Live(s)
    /\ s \notin LockedRows
    /\ Revoke({s})
    /\ UNCHANGED <<now, acct, used, nextSid, nextTok, logins, rotations, revocations,
                   famOf, ended, burned>>

-------------------------------------------------------------------------------
(***************************************************************************)
(* The administrator's status edit, the sweep and the clock.               *)
(***************************************************************************)

\* UpdateUser with a status: token_version moves, the sessions stay.
SetStatus(u, status) ==
    /\ u \notin LockedUsers
    /\ acct[u].status # status
    /\ acct[u].epoch < MaxEpoch
    /\ acct' = [acct EXCEPT ![u].status = status, ![u].epoch = @ + 1]
    /\ UNCHANGED <<now, sess, used, nextSid, nextTok, logins, rotations, revocations,
                   famOf, ended, burned>>

Sweepable(s)   == sess[s].st \in {"live", "revoked"} /\ sess[s].issued + Refresh < now - Retain
Forgettable(t) == Consumed(t) /\ (used[t].at < now - Retain \/ Sweepable(used[t].sid))

\* The triples that no row names after the sweep; their cookies have expired.
Forgotten == {t \in Triples : Forgettable(t) \/ \E s \in Stored(t) : Sweepable(s)}

Sweep ==
    /\ \E s \in Sids : Sweepable(s)
       \/ \E t \in Triples : Forgettable(t)
    /\ ~\E s \in LockedRows : Sweepable(s)
    /\ sess' = [s \in Sids |-> IF Sweepable(s) THEN [sess[s] EXCEPT !.st = "swept"] ELSE sess[s]]
    /\ used' = [t \in Triples |-> IF Forgettable(t) THEN NoUse ELSE used[t]]
    /\ famOf' = [t \in Triples |-> IF t \in Forgotten THEN 0 ELSE famOf[t]]
    /\ UNCHANGED <<now, acct, nextSid, nextTok, logins, rotations, revocations, ended, burned>>

Tick ==
    /\ now < MaxTime
    /\ now' = now + 1
    /\ UNCHANGED <<acct, sess, used, nextSid, nextTok, logins, rotations, revocations,
                   famOf, ended, burned>>

-------------------------------------------------------------------------------

Init ==
    /\ now = 0
    /\ acct \in [Users -> {a \in Accounts : a.status = "active" /\ a.epoch = 0}]
    /\ sess = [s \in Sids |-> NoRow]
    /\ used = [t \in Triples |-> NoUse]
    /\ nextSid = 1
    /\ nextTok = 1
    /\ logins = {}
    /\ rotations = {}
    /\ revocations = {}
    /\ famOf = [t \in Triples |-> 0]
    /\ ended = {}
    /\ burned = {}

Next ==
    \/ \E u \in Users, pw \in Passwords : VerifyPassword(u, pw)
    \/ \E l \in logins : IssueSession(l) \/ IssueRefused(l)
    \/ \E t \in Triples : \/ RotateLive(t)
                          \/ RotateGrace(t)
                          \/ RotateExpires(t)
                          \/ RotateReuse(t)
                          \/ Logout(t)
    \/ \E r \in rotations : RotateCommit(r) \/ RotateAbort(r)
    \/ \E u \in Users : LogoutAll(u)
    \/ \E t \in Triples, cur \in Passwords, new \in Passwords : ChangePassword(t, cur, new)
    \/ \E v \in revocations : RevocationCommit(v) \/ RevocationAbort(v)
    \/ \E t \in Triples, s \in Sids : RevokeSession(t, s)
    \/ \E u \in Users, status \in {"active", "disabled"} : SetStatus(u, status)
    \/ Sweep
    \/ Tick

Spec == Init /\ [][Next]_vars

-------------------------------------------------------------------------------
(***************************************************************************)
(* Properties.                                                             *)
(***************************************************************************)

\* Every variable has its type.
TypeOK ==
    /\ now \in Times
    /\ acct \in [Users -> Accounts]
    /\ sess \in [Sids -> Rows]
    /\ used \in [Triples -> Uses]
    /\ nextSid \in 1..(MaxSessions + 1)
    /\ nextTok \in 1..(MaxTriples + 1)
    /\ logins \subseteq Logins
    /\ rotations \subseteq Rotations
    /\ revocations \subseteq Revocations
    /\ famOf \in [Triples -> 0..MaxSessions]
    /\ ended \subseteq Sids
    /\ burned \subseteq Sids

\* A family never holds more live sessions than maxLiveSessionsPerFamily, however
\* many refreshes race inside the grace window (rotate.go: graceSiblingTx).
FamilyCap == \A f \in Sids : Cardinality(LiveIn(f)) <= FamilyLimit

\* No live session carries tokens drawn later than one grace window after the
\* absolute ceiling of the login that founded its family: rotating, and riding the
\* grace window, never resets the ceiling (rotate.go: expireFamilyIfAbsoluteTx).
CeilingHolds ==
    \A s \in Sids : Live(s) => sess[s].issued <= sess[sess[s].fam].born + Absolute + Grace

\* Once a replay was detected no session of the family is live again, rotations
\* that were in flight when it was detected included (rotate.go:
\* revokeAndPurgeFamily).
ReuseEndsFamily == \A s \in Sids : Live(s) => sess[s].fam \notin burned

\* Logout, logout everywhere and a password change end every session of the
\* families they were asked to end, for good.  The one exception is a sibling
\* inserted by a refresh that overlapped the revocation (repository.go:
\* RevokeFamilyByTokens, RevokeAllForUser, ChangePassword).
RevocationHolds == \A s \in Sids : Live(s) => sess[s].fam \notin ended \/ sess[s].late

\* The rows keep their types, the draws and the clock included, and what was revoked stays revoked.
RevocationSound == TypeOK /\ RevocationHolds

\* No tab is signed out by a refresh it lost: every triple that was handed out is
\* stored by a session or on record as consumed, so that presenting it rotates or
\* is recognised, unless the reuse detector purged its family (rotate.go:
\* graceSiblingTx, writeNewTokens).
NoClientStranded ==
    \A t \in Triples : famOf[t] # 0 =>
        Stored(t) # {} \/ Consumed(t) \/ famOf[t] \in burned

\* What the comment on RevokeFamilyByTokens promises, a refresh response that arrives after the
\* logout does not undo it.  It does not hold: a sibling inserted meanwhile outlives the logout.
LogoutEndsFamily == \A s \in Sids : Live(s) => sess[s].fam \notin ended

\* A login opens a session only for an active account whose password is still the
\* one that was verified, whatever happened between the two steps (repository.go:
\* IssueSession).
IssuedFromCurrentProof ==
    [][\A s \in Sids :
          sess[s].st = "absent" /\ sess'[s].st = "live" /\ sess'[s].fam = s
              => LET a == acct[sess'[s].user]
                 IN a.status = "active" /\ a.pw = sess'[s].proof]_vars

\* What rotation bounds and what it keeps for the clients: the ceiling, and no tab left without a
\* way on.
RotationSound == CeilingHolds /\ NoClientStranded
===============================================================================
